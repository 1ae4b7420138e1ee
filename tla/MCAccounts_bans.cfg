SPECIFICATION Spec
CONSTANTS
  bot = bot
  cli = cli
  a1 = a1
  a2 = a2
  h1 = h1
  ann = ann
  bob = bob
  n1 = n1
  n2 = n2
  None = None
  Discord = {ann}
  Name = {n1}
  Ip = {h1}
  Strict = TRUE
  MaxId = 2
  MaxTokens = 2
  Session = {bot, cli}
  Client = {a1, a2}
  IpOf <- OneHost
  Commands <- BanCommands
  MaxCrashes = 1
SYMMETRY AlikeClients

INVARIANTS
  BanHolds
CHECK_DEADLOCK FALSE
