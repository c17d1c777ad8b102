CONSTANTS
  a = a
  b = b
  c = c
  People = {a, b, c}
  Group <- MCGroup
  Combinations <- MCCombinations
  CGP_MEMBER_MAX = 3
  UnlockInterval = 1
  Settings <- MCSettings
  MaxLog = 2
  TimeSlack = 2
  ClockMax = 3
  Trouble = 1
CONSTRAINT Alone
SYMMETRY Symmetric
SPECIFICATION Spec
INVARIANTS
  MembersOnce
  WayIsRecorded
PROPERTY
  OpenNeedsEnough
