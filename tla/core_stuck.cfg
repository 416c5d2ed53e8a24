SPECIFICATION FairSpec
CONSTANTS
  Puts = {p1, p2}
  Gets = {}
  Masses = {}
  Lists = {}
  NilId = nil
  Detectors = {d1}
  ListedDetectors = {d1}
  FeedBufferSize = 1
  ComputeBufferSize = 1
  MassLimit = 1
  DbMayFail = FALSE
  MayTimeOut = TRUE
  ConnMayFail = TRUE
  ComputeMayFail = FALSE
  MaxRestarts = 1
PROPERTIES
  EngineServesOrIsStuck
CHECK_DEADLOCK FALSE
