SPECIFICATION Spec
CONSTANTS
  MaxLog = 3
  Base = 2
  LoopWriteRecordOn = TRUE
  SensorNo = 1
  DelRecord = 2
  CardLogs = TRUE
  SlaveReader = TRUE
  WriteOutcomes = {"stored", "unverified", "failed"}
  Restarts = TRUE
  IssueBound = 9
  FileBound = 6
INVARIANTS
  SerialsInOrder
  CounterCoversFile
  CapacityKept
PROPERTIES
  OnlyOldestLeave
