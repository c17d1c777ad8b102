SPECIFICATION USpec
CONSTANTS
  MaxLog = 3
  Base = 4
  LoopWriteRecordOn = TRUE
  SensorNo = 1
  DelRecord = 0
  CardLogs = FALSE
  SlaveReader = FALSE
  WriteOutcomes = {"stored"}
  Restarts = TRUE
  IssueBound = 2
  FileBound = 2
  Reposttime = 2
  Budget <- OneCall
  PipeBound = 1
INVARIANTS
  PostSendsARecord
