SPECIFICATION SysSpec
CONSTANTS
  Puts = {p1, p2}
  Gets = {}
  Masses = {}
  Lists = {}
  NilId = nil
  Detectors = {d1, d2}
  ListedDetectors = {d1, d2}
  Mock = d1
  FeedBufferSize = 1
  ComputeBufferSize = 1
  MassLimit = 1
  DbMayFail = FALSE
  MayTimeOut = TRUE
  ConnMayFail = TRUE
  ComputeMayFail = TRUE
  MaxRestarts = 0
  MaxWorkerStarts = 2
SYMMETRY Symmetry
INVARIANTS
  SysTypeOK
  SuccessNeedsDetector
  SourceInv
  SysCoreInv
  HandledOnce
  PendingIsCarriedOrLost
  LifecycleInv
PROPERTIES
  ImplementsCore
CHECK_DEADLOCK FALSE
