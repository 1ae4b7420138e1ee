SPECIFICATION FairSpec
CONSTANTS
  g1 = g1
  r1 = r1
  r2 = r2
  NoServer = NoServer
  Group = {g1}
  MaxIndex = 2
  Static <- FirstOfEach
  Request = {r1, r2}
  MaxSessions = 1
  DockerMayFail = FALSE
  Reports <- NoReports
  MaxMonitors = 1

INVARIANTS
  FreshName
PROPERTIES
  Answered ScaleDown
