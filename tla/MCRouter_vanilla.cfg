SPECIFICATION FairSpec
CONSTANTS
  c1 = c1
  c2 = c2
  nat = nat
  solo = solo
  arena = arena
  overflow = overflow
  None = None
  Addr = {c1, c2}
  Ip = {nat}
  IpOf <- OneNat
  Mode = {"s", "c"}
  DefaultMode = "s"
  Backend = {solo, arena, overflow}
  Hardcoded <- Backends
  Serves <- Groups
  JoinModes <- NoMode
  UseManager = TRUE
  MayFail = FALSE
  RedirectBuffer = 1
  MaxCalls = 2
  MaxCount = 4

INVARIANTS
  OneSocket AccountingExact
PROPERTIES
  CountsReturn
