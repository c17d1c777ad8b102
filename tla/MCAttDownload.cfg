SPECIFICATION Spec
CONSTANTS
  RecCells = 2
  BlockCells = 3
  MaxLog = 4
  DelRecord = 2
  ShortWrites = {1}
  CrashBound = 2
  IssueBound = 5
INVARIANTS
  CopyLosesNothing
  DeletionExact
  TornOnlyByCrash
  NothingSkipped
