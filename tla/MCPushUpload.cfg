SPECIFICATION UFairSpec
CONSTANTS
  MaxLog = 2
  Base = 4
  LoopWriteRecordOn = TRUE
  SensorNo = 1
  DelRecord = 0
  CardLogs = FALSE
  SlaveReader = FALSE
  WriteOutcomes = {"stored","failed"}
  Restarts = TRUE
  IssueBound = 2
  FileBound = 2
  Reposttime = 2
  Budget <- Setbacks
  PipeBound = 1
INVARIANTS
  ReadPostExclusive
  OneToken
PROPERTIES
  EveryRecordArrives
  ImplementsUploadLog
