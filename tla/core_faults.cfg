SPECIFICATION Spec
CONSTANTS
  Puts = {p1, p2}
  Gets = {}
  Masses = {}
  Lists = {l1}
  NilId = nil
  Detectors = {d1, d2}
  ListedDetectors = {d1}
  FeedBufferSize = 1
  ComputeBufferSize = 1
  MassLimit = 1
  DbMayFail = TRUE
  MayTimeOut = TRUE
  ConnMayFail = TRUE
  ComputeMayFail = TRUE
  MaxRestarts = 1
SYMMETRY Symmetry
INVARIANTS
  TypeOK
  CoreInv
  AckedIsStored
  AtMostOnce
  CircularWaitNeedsRequests
PROPERTIES
  NoRegress
CHECK_DEADLOCK FALSE
