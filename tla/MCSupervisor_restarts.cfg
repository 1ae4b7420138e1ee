SPECIFICATION FairSpec
CHECK_DEADLOCK FALSE
CONSTANTS
  ann = ann
  User = {ann}
  TrackerPush <- Pushes
  MaxTasks = 1
  RestartOnMatchEnd = TRUE

INVARIANTS
  TypeOK OneGame NoneLeft FreshMatch
PROPERTIES
  RequestKept RequestServed Settles
