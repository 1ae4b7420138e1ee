SPECIFICATION FairSpec
CONSTANTS
  a1 = a1
  a2 = a2
  h1 = h1
  ann = ann
  bob = bob
  t1 = t1
  t2 = t2
  Cleaner = Cleaner
  Dead = Dead
  None = None
  Addr = {a1}
  Ip = {h1}
  IpOf <- SameHost
  User = {ann}
  Joins <- OneUser
  RequireAuth = TRUE
  MayFail = TRUE
  AdminKicks = TRUE
  MatchEvents = {"started", "ready", "ended", "offline", "reset"}
  TrackerPush <- Pushes
  MaxTasks = 1
  Task = {t1}
  MaxObjects = 2
  MaxJoins = 1
  MaxRows = 2

INVARIANTS
  TypeOK
PROPERTIES
  NeverReplaced SilentCloses
