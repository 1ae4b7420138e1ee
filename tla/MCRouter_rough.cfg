SPECIFICATION FairSpec
CONSTANTS
  c1 = c1
  c2 = c2
  nat = nat
  solo = solo
  arena = arena
  overflow = overflow
  None = None
  Addr = {c1}
  Ip = {nat}
  IpOf <- OneNat
  Mode = {"s", "c"}
  DefaultMode = "s"
  Backend = {solo, arena, overflow}
  Hardcoded <- Backends
  Serves <- Groups
  JoinModes = {"c"}
  UseManager = TRUE
  MayFail = TRUE
  RedirectBuffer = 1
  MaxCalls = 2
  MaxCount = 1

INVARIANTS
  TypeOK SessionHasSocket
PROPERTIES
  PendingClears Drains
