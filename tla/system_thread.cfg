SPECIFICATION FairSysSpec
CONSTANTS
  Puts = {p1, p2}
  Gets = {}
  Masses = {}
  Lists = {}
  NilId = nil
  Detectors = {d1}
  ListedDetectors = {d1}
  Mock = d1
  FeedBufferSize = 1
  ComputeBufferSize = 1
  MassLimit = 1
  DbMayFail = FALSE
  MayTimeOut = FALSE
  ConnMayFail = FALSE
  ComputeMayFail = TRUE
  MaxRestarts = 0
  MaxWorkerStarts = 1
PROPERTIES
  SentIsProcessed
CHECK_DEADLOCK FALSE
