SPECIFICATION FairSpec
CONSTANTS
  ChildCap = 4
  ParentCap = 10
  PayBytes = 2
  Downloads <- ClearAndList
  CommandBound = 1
INVARIANTS
  TypeOK
  InSync
  ParentPipeShort
  PauseAsAsked
  CmdReleased
PROPERTIES
  AnsweredMeansDone
  WaitEnds
