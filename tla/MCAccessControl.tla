--------------------------- MODULE MCAccessControl ---------------------------
\* AccessControl with two people of group 1 and one of group 2, and the
\* combinations {1, 2} and {1, 1, 3}.
EXTENDS AccessControl, TLC

CONSTANTS a, b, c

MCGroup == (a :> 1) @@ (b :> 1) @@ (c :> 2)
MCCombinations == {[GroupID |-> <<1, 2, 0>>, MemberCount |-> 2],
                   [GroupID |-> <<1, 1, 3>>, MemberCount |-> 3]}

Option(lock, persons, ways, rerec, save, svr, del) ==
  [LockFunOn |-> lock, UnlockPerson |-> persons, AntiPassbackOn |-> ways,
   AlarmReRec |-> rerec, SaveAttLog |-> save, IclockSvrFun |-> svr, DelRecord |-> del]
MCSettings == {Option("ADV", 1, {}, 0, FALSE, FALSE, 0),
               Option("BASE", 3, {}, 0, FALSE, FALSE, 0),
               Option("BASE", 1, Ways, 1, TRUE, TRUE, 1),
               Option("BASE", 1, {"in"}, 2, TRUE, FALSE, 0)}

\* Where one opens the door alone, the third person stays away and the run ends
\* a second earlier.  With records kept apart in time (IclockSvrFun) the zones
\* force nothing, and a person in disorder is followed no further: nothing is
\* stated for them, and the other one has the same behaviours without them.
Alone ==
  (gOptions.LockFunOn = "BASE" /\ gOptions.UnlockPerson = 1) =>
     /\ CurAlarmRec[c] = NoRecord /\ passed[c] = NoRecord
     /\ gCurTime <= 2 /\ gLockForceAction # "CLOSE"
     /\ gOptions.IclockSvrFun => gLockForceAction = "NONE" /\ disorder = {}

Symmetric == Permutations({a, b})
=============================================================================
