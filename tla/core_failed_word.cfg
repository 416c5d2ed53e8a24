SPECIFICATION Spec
CONSTANTS
  Puts = {p1}
  Gets = {}
  Masses = {}
  Lists = {}
  NilId = nil
  Detectors = {d1}
  ListedDetectors = {d1}
  FeedBufferSize = 1
  ComputeBufferSize = 1
  MassLimit = 1
  DbMayFail = FALSE
  MayTimeOut = FALSE
  ConnMayFail = FALSE
  ComputeMayFail = TRUE
  MaxRestarts = 0
INVARIANTS
  AnswersAreStored
CHECK_DEADLOCK FALSE
