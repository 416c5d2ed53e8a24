SPECIFICATION FairSpec
CONSTANTS
  Kinds = {"mock", "rabbit"}
  MaxStarts = 3
  MaxRequests = 3
  MaxStops = 2
INVARIANTS
  ThreadsTypeOK
  EachRequestOnce
  FlagTellsOfThread
PROPERTIES
  OneStartStops
CHECK_DEADLOCK FALSE
