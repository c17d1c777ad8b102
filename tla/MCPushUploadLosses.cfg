SPECIFICATION USpec
CONSTANTS
  MaxLog = 3
  Base = 4
  LoopWriteRecordOn = TRUE
  SensorNo = 1
  DelRecord = 1
  CardLogs = TRUE
  SlaveReader = FALSE
  WriteOutcomes = {"stored"}
  Restarts = TRUE
  IssueBound = 3
  FileBound = 4
  Reposttime = 1
  Budget <- Losses
  PipeBound = 0
CONSTRAINT FewLost
INVARIANTS
  PassedOverForCause
  ProgressNeverOutrunsDelivery
