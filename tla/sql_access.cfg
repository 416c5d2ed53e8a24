SPECIFICATION Spec
CONSTANTS
  AllColumns <- MCColumns
  Key = "request_id"
  WithDefault = {"data"}
  Keys = {k1, k2}
  Values = {"PENDING", "SUCCESS", "verdict"}
  Null = null
  Callers = {c1, c2}
  CallsOffered <- OfferedCalls
  ObjectsOffered <- Objects
  NoRow = none
  HookPoints = {"beforeUpsert"}
  DbMayFail = TRUE
  MaxCalls = 3
SYMMETRY Symmetry
INVARIANTS
  BoilTypeOK
  CachesAgree
PROPERTIES
  Synced
  OwnRowOnly
  StorageUpsertIsWhole
CHECK_DEADLOCK FALSE
