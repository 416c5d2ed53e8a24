SPECIFICATION Spec
CONSTANTS
  Keys <- MCKeys
  IntKeys <- MCSizes
  SizeKeys <- MCSizes
  DriverKey = "storage.driverName"
  LevelKey = "logger.level"
  FormatKey = "logger.format"
  Texts <- MCTexts
  Numbers = {"100", "-1", "0", "1", "7"}
  Negatives = {"-1"}
  Zeros = {"0"}
  Drivers = {"postgres"}
  Default <- MCDefault
  Nothing = nothing
  FilesOffered <- MCFiles
  EnvsOffered <- MCEnvs
INVARIANTS
  StartTypeOK
  NoHalfConfig
  
  ServesWithWhatItNeeds
CHECK_DEADLOCK FALSE
