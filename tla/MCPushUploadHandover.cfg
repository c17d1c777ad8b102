SPECIFICATION USpec
CONSTANTS
  MaxLog = 2
  Base = 4
  LoopWriteRecordOn = TRUE
  SensorNo = 1
  DelRecord = 0
  CardLogs = TRUE
  SlaveReader = FALSE
  WriteOutcomes = {"stored"}
  Restarts = TRUE
  IssueBound = 2
  FileBound = 2
  Reposttime = 1
  Budget <- Handover
  PipeBound = 0
CONSTRAINT FewAtOnce
INVARIANTS
  UploadNotBlocked
  OneTokenUntilCalled
  PacketIsARecord
