SPECIFICATION Spec
CONSTANTS
  MaxLog = 3
  Base = 4
  LoopWriteRecordOn = TRUE
  SensorNo = 1
  DelRecord = 0
  CardLogs = FALSE
  SlaveReader = FALSE
  WriteOutcomes = {"stored"}
  Restarts = FALSE
  IssueBound = 5
  FileBound = 5
INVARIANTS
  FullStoreStillRecords
