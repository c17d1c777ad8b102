SPECIFICATION Spec
CONSTANTS
  PCs = {a, b}
  IdMax = 4
  PieceMax = 2
  RTCache = 1
  CmdBound = 5
  EventBound = 3
  SecondBound = 2

SYMMETRY Symmetric
CONSTRAINTS Orderly FewTogether
INVARIANTS
  RunsOnce
  AnswerIsOwn
  UploadInOrder
  EventsDelivered
  DisabledIsHeld
CHECK_DEADLOCK FALSE
