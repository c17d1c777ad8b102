SPECIFICATION MCSpec
CONSTANTS
  People = {x, y, z}
  MaxPin = 3
  MaxUser = 1
  Serials = {"s1", "s2"}
  CrashBound = 1
  OpBound = 4
SYMMETRY Symmetric
CONSTRAINT Apart
INVARIANTS
  EachOnce
  MapAgrees
  FingersStayOwn
  CardsStayOwn
  AtMostOneOver
CHECK_DEADLOCK FALSE
