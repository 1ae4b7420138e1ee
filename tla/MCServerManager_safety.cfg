SPECIFICATION Spec
CONSTANTS
  g1 = g1
  r1 = r1
  r2 = r2
  NoServer = NoServer
  Group = {g1}
  MaxIndex = 2
  Static <- FirstOfEach
  Request = {r1, r2}
  MaxSessions = 2
  DockerMayFail = TRUE
  Reports <- LobbyAndMatch
  MaxMonitors = 1
SYMMETRY Callers

INVARIANTS
  TypeOK SessionLedger HeldIsUp NoLostWakeup Monitored DynamicLifecycle
PROPERTIES
  DynamicStaysUp KeepsLease
