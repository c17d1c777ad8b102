CONSTANTS
  Changes <- MCChanges
  MaxUserCounts = {2, 3}
  PacketMax = 4
  Trouble <- Once
  KeyBound = 3
SPECIFICATION FairSpec
INVARIANTS
  VersionHonest
  SameKey
PROPERTY
  ListArrives
CHECK_DEADLOCK FALSE
