SPECIFICATION Spec
CONSTANTS
  a1 = a1
  a2 = a2
  h1 = h1
  ann = ann
  bob = bob
  t1 = t1
  t2 = t2
  Cleaner = Cleaner
  Dead = Dead
  None = None
  Addr = {a1, a2}
  Ip = {h1}
  IpOf <- SameHost
  User = {ann, bob}
  Joins <- OwnAddress
  RequireAuth = FALSE
  MayFail = FALSE
  AdminKicks = TRUE
  MatchEvents <- NoEvents
  TrackerPush <- NoPush
  MaxTasks = 1
  Task = {t1}
  MaxObjects = 3
  MaxJoins = 1
  MaxRows = 2
SYMMETRY Alike

INVARIANTS
  RowsExact Listed
