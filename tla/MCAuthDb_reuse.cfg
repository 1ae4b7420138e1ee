SPECIFICATION Spec
CONSTANTS
  bot = bot
  cli = cli
  ann = ann
  bob = bob
  n1 = n1
  None = None
  Discord = {ann, bob}
  Name = {n1}
  Ip = {}
  Strict = FALSE
  MaxId = 2
  MaxTokens = 3
  Session = {bot, cli}
SYMMETRY Alike

INVARIANTS
  LogsInItsOwner
CHECK_DEADLOCK FALSE
