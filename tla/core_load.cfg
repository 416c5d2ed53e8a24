SPECIFICATION Spec
CONSTANTS
  Puts = {p1, p2, p3, p4}
  Gets = {g1}
  Masses = {m1}
  Lists = {}
  NilId = nil
  Detectors = {d1}
  ListedDetectors = {d1}
  FeedBufferSize = 1
  ComputeBufferSize = 1
  MassLimit = 1
  DbMayFail = FALSE
  MayTimeOut = TRUE
  ConnMayFail = FALSE
  ComputeMayFail = FALSE
  MaxRestarts = 0
SYMMETRY Symmetry
INVARIANTS
  CircularWaitNeedsLoad
  PendingIsCarried
  LifecycleInv
  LoadInv
PROPERTIES
  ImplementsLifecycle
CHECK_DEADLOCK FALSE
