SPECIFICATION Spec
CONSTANTS
  s1 = s1
  s2 = s2
  None = None
  Client = {s1, s2}
  Slow = {s1, s2}
  MaxVersion = 3

INVARIANTS
  EveryChangePushed
PROPERTIES
  PushesEnd
CHECK_DEADLOCK FALSE
