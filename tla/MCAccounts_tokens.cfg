SPECIFICATION Spec
CONSTANTS
  bot = bot
  cli = cli
  a1 = a1
  a2 = a2
  h1 = h1
  ann = ann
  bob = bob
  n1 = n1
  n2 = n2
  None = None
  Discord = {ann, bob}
  Name = {n1, n2}
  Ip = {h1}
  Strict = TRUE
  MaxId = 2
  MaxTokens = 2
  Session = {bot, cli}
  Client = {a1}
  IpOf <- OneHost
  Commands <- TokenCommands
  MaxCrashes = 1
SYMMETRY AlikeUsers

INVARIANTS
  TypeOK RightAccount AnsweredTokenKept RevokedForGood
CHECK_DEADLOCK FALSE
