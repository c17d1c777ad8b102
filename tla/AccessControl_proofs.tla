------------------------- MODULE AccessControl_proofs -------------------------
(***************************************************************************)
(* Those who wait for an opening by several people, and the way on record   *)
(* for the anti-passback check with the file it is rebuilt from, proved for  *)
(* any people, groups and combinations, any settings, log and clock.        *)
(***************************************************************************)
EXTENDS AccessControl, SequenceTheorems, FiniteSetTheorems, WellFoundedInduction, TLAPS

Member == [PIN : People, VerTime : Clock]

\* Different people in the order of their times, none in the future, unless
\* the clock was set back.
Sane(list) ==
  /\ list \in Seq(Member)
  /\ \A i, j \in 1 .. Len(list) : i < j =>
       /\ list[i].PIN # list[j].PIN
       /\ setback \/ list[i].VerTime <= list[j].VerTime
  /\ \A i \in 1 .. Len(list) : setback \/ list[i].VerTime <= gCurTime

-----------------------------------------------------------------------------
(* Lists of members.                                                        *)

LEMMA Least ==
  ASSUME NEW T \in SUBSET Nat, T # {}
  PROVE  \E n \in T : \A m \in T : n <= m
<1> DEFINE R == OpToRel(<, Nat)
<1>1. IsWellFoundedOn(R, Nat)
  BY NatLessThanWellFounded
<1>2. \A x, y \in Nat : x < y => <<x, y>> \in R
  BY DEF OpToRel
<1> HIDE DEF R
<1>3. PICK n \in T : \A y \in T : ~ (<<y, n>> \in R)
  BY <1>1, WFMin, Zenon
<1>4. \A m \in T : ~(m < n)
  BY <1>2, <1>3
<1>5. \A m \in T : n <= m
  <2> TAKE m \in T
  <2>1. m \in Nat /\ n \in Nat
    OBVIOUS
  <2> QED
    BY <1>4, <2>1
<1> QED
  BY <1>5

LEMMA Greatest ==
  ASSUME NEW T \in SUBSET Nat, T # {}, NEW b \in Nat, \A n \in T : n <= b
  PROVE  \E n \in T : \A m \in T : m <= n
<1> DEFINE below == {b - n : n \in T}
<1>0. \A n \in T : b - n \in Nat
  OBVIOUS
<1>1. below \in SUBSET Nat /\ below # {}
  BY <1>0
<1>2. PICK k \in below : \A m \in below : k <= m
  BY <1>1, Least
<1>3. PICK n \in T : k = b - n
  BY <1>2
<1>4. \A m \in T : m <= n
  <2> TAKE m \in T
  <2>1. b - n <= b - m
    BY <1>2, <1>3
  <2> QED
    BY <2>1
<1> QED
  BY <1>4

LEMMA NobodyIsSane == Sane(<<>>)
<1>1. <<>> \in Seq(Member) /\ Len(<<>>) = 0
  BY EmptySeq, Zenon
<1> QED
  BY <1>1 DEF Sane

LEMMA PartIsSeq ==
  ASSUME NEW list \in Seq(Member), NEW m \in Nat, m >= 1, NEW n \in Nat, n <= Len(list)
  PROVE  /\ SubSeq(list, m, n) \in Seq(Member)
         /\ Len(SubSeq(list, m, n)) = IF m <= n THEN n - m + 1 ELSE 0
         /\ \A i \in 1 .. n - m + 1 : SubSeq(list, m, n)[i] = list[m + i - 1]
<1>1. \A i \in m .. n : list[i] \in Member
  <2> TAKE i \in m .. n
  <2>1. i \in 1 .. Len(list)
    OBVIOUS
  <2> QED
    BY <2>1, ElementOfSeq, Zenon
<1> QED
  BY <1>1, SubSeqProperties

\* Members taken from a sane list in its order are a sane list.
LEMMA PickedAreSane ==
  ASSUME NEW list, Sane(list), NEW part \in Seq(Member),
         NEW place \in [1 .. Len(part) -> 1 .. Len(list)],
         \A i \in 1 .. Len(part) : part[i] = list[place[i]],
         \A i, j \in 1 .. Len(part) : i < j => place[i] < place[j]
  PROVE  Sane(part)
<1>1. ASSUME NEW i \in 1 .. Len(part), NEW j \in 1 .. Len(part), i < j
      PROVE  /\ part[i].PIN # part[j].PIN
             /\ setback \/ part[i].VerTime <= part[j].VerTime
  <2>1. place[i] \in 1 .. Len(list) /\ place[j] \in 1 .. Len(list) /\ place[i] < place[j]
    BY <1>1
  <2>2. part[i] = list[place[i]] /\ part[j] = list[place[j]]
    OBVIOUS
  <2> QED
    BY <2>1, <2>2 DEF Sane
<1>2. ASSUME NEW i \in 1 .. Len(part)
      PROVE  setback \/ part[i].VerTime <= gCurTime
  <2>1. place[i] \in 1 .. Len(list) /\ part[i] = list[place[i]]
    OBVIOUS
  <2> QED
    BY <2>1 DEF Sane
<1> QED
  BY <1>1, <1>2 DEF Sane

\* What is left of a list behind any place is as sane.
LEMMA TailIsSane ==
  ASSUME NEW list, Sane(list), NEW m \in Nat, m >= 1, m <= Len(list) + 1
  PROVE  /\ Sane(SubSeq(list, m, Len(list)))
         /\ Len(SubSeq(list, m, Len(list))) = Len(list) - m + 1
         /\ \A i \in 1 .. Len(list) - m + 1 : SubSeq(list, m, Len(list))[i] = list[m + i - 1]
<1> DEFINE tail == SubSeq(list, m, Len(list))
<1>1. list \in Seq(Member) /\ Len(list) \in Nat
  BY DEF Sane
<1>2. /\ tail \in Seq(Member)
      /\ Len(tail) = Len(list) - m + 1
      /\ \A i \in 1 .. Len(list) - m + 1 : tail[i] = list[m + i - 1]
  BY <1>1, PartIsSeq
<1> HIDE DEF tail
<1> DEFINE place == [i \in 1 .. Len(tail) |-> m + i - 1]
<1>3. /\ place \in [1 .. Len(tail) -> 1 .. Len(list)]
      /\ \A i \in 1 .. Len(tail) : tail[i] = list[place[i]]
      /\ \A i, j \in 1 .. Len(tail) : i < j => place[i] < place[j]
  BY <1>1, <1>2
<1> HIDE DEF place
<1>4. Sane(tail)
  BY ZenonT(60), <1>2, <1>3, PickedAreSane
<1> QED
  BY <1>2, <1>4 DEF tail

LEMMA MemberTimes ==
  ASSUME NEW list, Sane(list), NEW i \in 1 .. Len(list)
  PROVE  list[i] \in Member /\ list[i].VerTime \in Nat
<1>1. list[i] \in Member
  BY ElementOfSeq, Zenon DEF Sane
<1> QED
  BY <1>1, NumberAssumption DEF Member, Clock

\* The first one that is not too old comes before no one who is, unless the
\* clock was set back.
LEMMA FreshIsSane ==
  ASSUME NEW list, Sane(list), gCurTime \in Clock
  PROVE  /\ Sane(Fresh(list))
         /\ \A i \in 1 .. Len(Fresh(list)) : \E j \in 1 .. Len(list) :
              /\ Fresh(list)[i] = list[j]
              /\ ~setback => gCurTime - list[j].VerTime <= Expiry(list)
<1> DEFINE recent == {i \in DOMAIN list : gCurTime - list[i].VerTime <= Expiry(list)}
           first == CHOOSE i \in recent : \A j \in recent : i <= j
<1>1. CASE recent = {}
  <2>1. Fresh(list) = <<>>
    BY <1>1 DEF Fresh
  <2>2. Len(<<>>) = 0
    BY EmptySeq, Zenon
  <2> QED
    BY <2>1, <2>2, NobodyIsSane
<1>2. CASE recent # {}
  <2>1. recent \subseteq 1 .. Len(list) /\ recent \subseteq Nat /\ Len(list) \in Nat
    BY DEF Sane
  <2>2. \E n \in recent : \A k \in recent : n <= k
    BY <1>2, <2>1, Least
  <2>3. first \in recent
    BY <2>2
  <2>4. first \in Nat /\ first >= 1 /\ first <= Len(list) + 1
    BY <2>1, <2>3
  <2>5. Fresh(list) = SubSeq(list, first, Len(list))
    BY <1>2 DEF Fresh
  <2>6. gCurTime - list[first].VerTime <= Expiry(list)
    BY <2>3
  <2> HIDE DEF first, recent
  <2>7. /\ Sane(Fresh(list)) /\ Len(Fresh(list)) = Len(list) - first + 1
        /\ \A i \in 1 .. Len(list) - first + 1 : Fresh(list)[i] = list[first + i - 1]
    BY <2>4, <2>5, TailIsSane
  <2>8. ASSUME NEW i \in 1 .. Len(Fresh(list))
        PROVE  \E j \in 1 .. Len(list) :
                 /\ Fresh(list)[i] = list[j]
                 /\ ~setback => gCurTime - list[j].VerTime <= Expiry(list)
    <3> DEFINE j == first + i - 1
    <3>1. j \in 1 .. Len(list) /\ Fresh(list)[i] = list[j] /\ first <= j
            /\ first \in 1 .. Len(list)
      BY <2>1, <2>4, <2>7
    <3> HIDE DEF j
    <3>2. ASSUME ~setback PROVE list[first].VerTime <= list[j].VerTime
      <4>1. CASE first = j
        BY <3>1, <4>1, MemberTimes
      <4>2. CASE first # j
        BY <3>1, <3>2, <4>2 DEF Sane
      <4> QED
        BY <4>1, <4>2
    <3>3. list[first].VerTime \in Nat /\ list[j].VerTime \in Nat
      BY <3>1, MemberTimes
    <3>4. ~setback => gCurTime - list[j].VerTime <= Expiry(list)
      <4> DEFINE limit == Expiry(list)
      <4>1. limit \in Int
        BY <2>1, NumberAssumption DEF Expiry
      <4>2. gCurTime \in Nat /\ gCurTime - list[first].VerTime <= limit
        BY <2>6 DEF Clock
      <4> HIDE DEF limit
      <4>3. ~setback => gCurTime - list[j].VerTime <= limit
        BY <3>2, <3>3, <4>1, <4>2
      <4> QED
        BY <4>3 DEF limit
    <3> QED
      BY <3>1, <3>4
  <2> QED
    BY <2>7, <2>8
<1> QED
  BY <1>1, <1>2

\* The person goes, and nobody comes.
LEMMA OthersAreSane ==
  ASSUME NEW list, Sane(list), NEW p
  PROVE  /\ Sane(Others(list, p))
         /\ \A i \in 1 .. Len(Others(list, p)) :
              /\ Others(list, p)[i].PIN # p
              /\ \E j \in 1 .. Len(list) : Others(list, p)[i] = list[j]
<1> DEFINE own == {i \in DOMAIN list : list[i].PIN = p}
           at == CHOOSE i \in own : \A j \in own : i <= j
           front == SubSeq(list, 1, at - 1)
           back == SubSeq(list, at + 1, Len(list))
<1>0. list \in Seq(Member) /\ Len(list) \in Nat /\ DOMAIN list = 1 .. Len(list)
  BY DEF Sane
<1>1. CASE own = {}
  BY <1>0, <1>1 DEF Others
<1>2. CASE own # {}
  <2>1. own \subseteq Nat
    BY <1>0
  <2>2. \E n \in own : \A k \in own : n <= k
    BY <1>2, <2>1, Least
  <2>3. at \in 1 .. Len(list) /\ list[at].PIN = p
    BY <1>0, <2>2
  <2>4. Others(list, p) = front \o back
    BY <1>2 DEF Others
  <2> HIDE DEF at, own
  <2>5. /\ front \in Seq(Member) /\ Len(front) = at - 1
        /\ \A i \in 1 .. at - 1 : front[i] = list[i]
    <3>1. at - 1 \in Nat /\ at - 1 <= Len(list)
      BY <1>0, <2>3
    <3>2. /\ front \in Seq(Member)
          /\ Len(front) = IF 1 <= at - 1 THEN (at - 1) - 1 + 1 ELSE 0
          /\ \A i \in 1 .. (at - 1) - 1 + 1 : front[i] = list[1 + i - 1]
      BY <1>0, <3>1, PartIsSeq
    <3> QED
      BY <3>1, <3>2
  <2>6. /\ back \in Seq(Member) /\ Len(back) = Len(list) - at
        /\ \A i \in 1 .. Len(list) - at : back[i] = list[at + i]
    <3>1. at + 1 \in Nat /\ at + 1 >= 1 /\ at <= Len(list)
      BY <1>0, <2>3
    <3>2. /\ back \in Seq(Member)
          /\ Len(back) = IF at + 1 <= Len(list) THEN Len(list) - (at + 1) + 1 ELSE 0
          /\ \A i \in 1 .. Len(list) - (at + 1) + 1 : back[i] = list[at + 1 + i - 1]
      BY <1>0, <3>1, PartIsSeq
    <3>3. Len(back) = Len(list) - at
      <4>1. Len(back) = IF at + 1 <= Len(list) THEN Len(list) - (at + 1) + 1 ELSE 0
        BY <3>2
      <4>2. at \in Nat /\ Len(list) \in Nat /\ at <= Len(list)
        BY <1>0, <2>3
      <4> QED
        BY <4>1, <4>2
    <3>4. ASSUME NEW i \in 1 .. Len(list) - at PROVE back[i] = list[at + i]
      <4>1. i \in 1 .. Len(list) - (at + 1) + 1 /\ at + 1 + i - 1 = at + i
        BY <1>0, <2>3
      <4> QED
        BY <3>2, <4>1
    <3> QED
      BY <3>2, <3>3, <3>4
  <2> DEFINE rest == front \o back
             place == [i \in 1 .. Len(list) - 1 |-> IF i < at THEN i ELSE i + 1]
  <2> HIDE DEF front, back
  <2>7. /\ rest \in Seq(Member) /\ Len(rest) = Len(list) - 1
        /\ \A i \in 1 .. Len(list) - 1 :
             rest[i] = IF i <= at - 1 THEN front[i] ELSE back[i - (at - 1)]
    <3>1. /\ rest \in Seq(Member) /\ Len(rest) = Len(front) + Len(back)
          /\ \A i \in 1 .. Len(front) + Len(back) :
               rest[i] = IF i <= Len(front) THEN front[i] ELSE back[i - Len(front)]
      BY <2>5, <2>6, ConcatProperties
    <3>2. Len(front) = at - 1 /\ Len(front) + Len(back) = Len(list) - 1
      BY <1>0, <2>3, <2>5, <2>6
    <3> HIDE DEF rest
    <3> QED
      BY <3>1, <3>2
  <2> HIDE DEF rest
  <2>8. \A i \in 1 .. Len(list) - 1 :
          /\ place[i] \in 1 .. Len(list) /\ place[i] # at
          /\ rest[i] = list[place[i]]
    BY <1>0, <2>3, <2>5, <2>6, <2>7
  <2>9. /\ \A i, j \in 1 .. Len(list) - 1 : i < j => place[i] < place[j]
        /\ place \in [1 .. Len(list) - 1 -> 1 .. Len(list)]
    BY <1>0, <2>3
  <2> HIDE DEF place
  <2>10. \A i \in 1 .. Len(list) : i # at => list[i].PIN # p
    BY <1>0, <2>3 DEF Sane
  <2>11. Sane(rest)
    <3>1. /\ \A i \in 1 .. Len(rest) : rest[i] = list[place[i]]
          /\ \A i, j \in 1 .. Len(rest) : i < j => place[i] < place[j]
          /\ place \in [1 .. Len(rest) -> 1 .. Len(list)]
      BY <2>7, <2>8, <2>9
    <3> QED
      BY ZenonT(60), <2>7, <3>1, PickedAreSane
  <2>12. \A i \in 1 .. Len(rest) :
           rest[i].PIN # p /\ \E j \in 1 .. Len(list) : rest[i] = list[j]
    BY <2>7, <2>8, <2>10
  <2> QED
    BY <2>4, <2>11, <2>12 DEF rest
<1> QED
  BY <1>1, <1>2

LEMMA LatestIsSane ==
  ASSUME NEW list, Sane(list)
  PROVE  /\ Sane(Latest(list)) /\ Len(Latest(list)) <= CGP_MEMBER_MAX - 1
         /\ \A i \in 1 .. Len(Latest(list)) : \E j \in 1 .. Len(list) : Latest(list)[i] = list[j]
<1> DEFINE m == IF Len(list) < CGP_MEMBER_MAX THEN 1 ELSE Len(list) - CGP_MEMBER_MAX + 2
<1>1. Len(list) \in Nat /\ CGP_MEMBER_MAX \in Nat /\ CGP_MEMBER_MAX >= 1
  BY NumberAssumption DEF Sane
<1>2. m \in Nat /\ m >= 1 /\ m <= Len(list) + 1 /\ Len(list) - m + 1 <= CGP_MEMBER_MAX - 1
  BY <1>1
<1>3. Latest(list) = SubSeq(list, m, Len(list))
  BY DEF Latest
<1> HIDE DEF m
<1>4. /\ Sane(Latest(list)) /\ Len(Latest(list)) = Len(list) - m + 1
      /\ \A i \in 1 .. Len(list) - m + 1 : Latest(list)[i] = list[m + i - 1]
  BY <1>2, <1>3, TailIsSane
<1>5. \A i \in 1 .. Len(list) - m + 1 : m + i - 1 \in 1 .. Len(list)
  BY <1>1, <1>2
<1> QED
  BY <1>2, <1>4, <1>5

\* With a person who verifies now, those who wait are sane and fit.
LEMMA WaitingIsSane ==
  ASSUME Sane(LastVerRecSet), NEW p \in People, gCurTime \in Clock
  PROVE  /\ Sane(Waiting(p)) /\ Len(Waiting(p)) <= CGP_MEMBER_MAX /\ Len(Waiting(p)) >= 1
         /\ Waiting(p)[Len(Waiting(p))] = [PIN |-> p, VerTime |-> gCurTime]
         /\ \A i \in 1 .. Len(Waiting(p)) - 1 : \E j \in 1 .. Len(LastVerRecSet) :
              /\ Waiting(p)[i] = LastVerRecSet[j]
              /\ ~setback => gCurTime - LastVerRecSet[j].VerTime <= Expiry(LastVerRecSet)
<1> DEFINE old == Latest(Others(Fresh(LastVerRecSet), p))
           me == [PIN |-> p, VerTime |-> gCurTime]
<1> DEFINE Kept(r) == \E j \in 1 .. Len(LastVerRecSet) :
                        /\ r = LastVerRecSet[j]
                        /\ ~setback => gCurTime - LastVerRecSet[j].VerTime <= Expiry(LastVerRecSet)
<1>1. /\ Sane(Fresh(LastVerRecSet))
      /\ \A i \in 1 .. Len(Fresh(LastVerRecSet)) : Kept(Fresh(LastVerRecSet)[i])
  BY FreshIsSane
<1> HIDE DEF Kept
<1>2. /\ Sane(Others(Fresh(LastVerRecSet), p))
      /\ \A i \in 1 .. Len(Others(Fresh(LastVerRecSet), p)) :
           /\ Others(Fresh(LastVerRecSet), p)[i].PIN # p
           /\ Kept(Others(Fresh(LastVerRecSet), p)[i])
  BY <1>1, OthersAreSane
<1>3. /\ Sane(old) /\ Len(old) <= CGP_MEMBER_MAX - 1
      /\ \A i \in 1 .. Len(old) : old[i].PIN # p /\ Kept(old[i])
  BY <1>2, LatestIsSane
<1>4. Waiting(p) = Append(old, me)
  BY DEF Waiting
<1>5. me \in Member
  BY DEF Member
<1>6. me.PIN = p /\ me.VerTime = gCurTime
  OBVIOUS
<1> HIDE DEF old, me
<1>7. /\ Waiting(p) \in Seq(Member) /\ Len(Waiting(p)) = Len(old) + 1
      /\ \A i \in 1 .. Len(old) : Waiting(p)[i] = old[i]
      /\ Waiting(p)[Len(old) + 1] = me /\ Len(old) \in Nat
  BY <1>3, <1>4, <1>5, AppendProperties DEF Sane
<1>8. CGP_MEMBER_MAX \in Nat /\ gCurTime \in Nat
  BY NumberAssumption DEF Clock
<1>9. Sane(Waiting(p))
  <2>0. \A i \in 1 .. Len(old) : old[i].PIN # p
    BY <1>3
  <2>1. ASSUME NEW i \in 1 .. Len(Waiting(p)), NEW j \in 1 .. Len(Waiting(p)), i < j
        PROVE  /\ Waiting(p)[i].PIN # Waiting(p)[j].PIN
               /\ setback \/ Waiting(p)[i].VerTime <= Waiting(p)[j].VerTime
    <3>1. i \in 1 .. Len(old) /\ Waiting(p)[i] = old[i]
      BY <1>7, <2>1
    <3>2. CASE j \in 1 .. Len(old)
      BY <1>3, <1>7, <2>1, <3>1, <3>2 DEF Sane
    <3>3. CASE j = Len(old) + 1
      BY <1>3, <1>6, <1>7, <2>0, <3>1, <3>3 DEF Sane
    <3> QED
      BY <1>7, <3>2, <3>3
  <2>2. \A i \in 1 .. Len(Waiting(p)) : setback \/ Waiting(p)[i].VerTime <= gCurTime
    BY <1>3, <1>6, <1>7, <1>8 DEF Sane
  <2> QED
    BY <1>7, <2>1, <2>2 DEF Sane
<1>10. \A i \in 1 .. Len(Waiting(p)) - 1 : Kept(Waiting(p)[i])
  BY <1>3, <1>7
<1>11. Waiting(p)[Len(Waiting(p))] = me
  BY <1>7
<1> QED
  BY <1>3, <1>7, <1>8, <1>9, <1>10, <1>11 DEF Kept, me

-----------------------------------------------------------------------------
(* Types.                                                                   *)

Entry == [PIN : People, State : Ways, LastTime : Nat]

LogTyped ==
  /\ CurAlarmRec \in [People -> Way]
  /\ file \in Seq(Entry)
  /\ CurAttLogCount \in Nat /\ exceedflag \in BOOLEAN
  /\ lastlogtime \in Nat \cup {Never}
  /\ unverified \subseteq People /\ disorder \subseteq People

Typed ==
  /\ gOptions \in Settings
  /\ gCurTime \in Clock /\ gLockForceAction \in {"NONE", "OPEN", "CLOSE"}
  /\ LogTyped
  /\ seen \in [People -> Clock \cup {Never}]
  /\ passed \in [People -> Way]
  /\ setback \in BOOLEAN /\ trouble \in Nat

AccessInv ==
  /\ Typed
  /\ Sane(LastVerRecSet) /\ Len(LastVerRecSet) <= CGP_MEMBER_MAX

LEMMA SpendTyped ==
  ASSUME trouble \in Nat, Spend
  PROVE  trouble' \in Nat
  BY DEF Spend

LEMMA WaysTyped == getCurrentState \subseteq Ways
  BY DEF getCurrentState, Ways

LEMMA StampTyped ==
  ASSUME Typed
  PROVE  Stamp \in Nat
  BY DEF Typed, LogTyped, Stamp, Clock, Never

\* What the capacity check leaves is the end of the file.
LEMMA CheckedIsEnd ==
  ASSUME Typed, NEW way
  PROVE  /\ CheckedFile(way) \in Seq(Entry)
         /\ CheckedCount(way) \in Nat /\ Exceed(way) \in BOOLEAN
         /\ \E n \in 0 .. Len(file) :
              /\ Len(CheckedFile(way)) = Len(file) - n
              /\ \A i \in 1 .. Len(file) - n : CheckedFile(way)[i] = file[i + n]
<1>0. file \in Seq(Entry) /\ Len(file) \in Nat /\ CurAttLogCount \in Nat
        /\ exceedflag \in BOOLEAN /\ gOptions.DelRecord \in Nat
  BY SettingAssumption DEF Typed, LogTyped
<1>1. CASE DropsOld(way) /\ gOptions.DelRecord < Len(file)
  <2> DEFINE n == gOptions.DelRecord
  <2>1. CheckedFile(way) = SubSeq(file, n + 1, Len(file))
    BY <1>1 DEF CheckedFile
  <2>2. n \in Nat /\ n < Len(file)
    BY <1>0, <1>1
  <2> HIDE DEF n
  <2>3. \A i \in n + 1 .. Len(file) : file[i] \in Entry
    <3> TAKE i \in n + 1 .. Len(file)
    <3>1. i \in 1 .. Len(file)
      BY <2>2
    <3> QED
      BY <1>0, <3>1, ElementOfSeq, Zenon
  <2>4. /\ CheckedFile(way) \in Seq(Entry)
        /\ Len(CheckedFile(way)) = IF n + 1 <= Len(file) THEN Len(file) - (n + 1) + 1 ELSE 0
        /\ \A i \in 1 .. Len(file) - (n + 1) + 1 : CheckedFile(way)[i] = file[n + 1 + i - 1]
    BY <1>0, <2>1, <2>2, <2>3, SubSeqProperties
  <2>5. Len(CheckedFile(way)) = Len(file) - n
    BY <1>0, <2>2, <2>4
  <2>6. \A i \in 1 .. Len(file) - n : CheckedFile(way)[i] = file[i + n]
    <3> TAKE i \in 1 .. Len(file) - n
    <3>1. i \in 1 .. Len(file) - (n + 1) + 1 /\ n + 1 + i - 1 = i + n
      BY <1>0, <2>2
    <3> QED
      BY <2>4, <3>1
  <2>7. CheckedCount(way) \in Nat /\ Exceed(way) \in BOOLEAN
    <3>1. CheckedCount(way) \in Nat
      BY <1>0, <2>2, <2>5 DEF CheckedCount
    <3>2. Exceed(way) \in BOOLEAN
      BY <1>0, Zenon DEF Exceed, Full
    <3> QED
      BY <3>1, <3>2
  <2>8. n \in 0 .. Len(file)
    BY <1>0, <2>2
  <2> QED
    BY <2>4, <2>5, <2>6, <2>7, <2>8
<1>2. CASE ~(DropsOld(way) /\ gOptions.DelRecord < Len(file))
  <2>1. CheckedFile(way) = file
    BY <1>2 DEF CheckedFile
  <2>2. CheckedCount(way) \in Nat /\ Exceed(way) \in BOOLEAN
    <3>1. CheckedCount(way) \in Nat
      BY <1>0, <2>1 DEF CheckedCount
    <3>2. Exceed(way) \in BOOLEAN
      BY <1>0, Zenon DEF Exceed, Full
    <3> QED
      BY <3>1, <3>2
  <2>3. 0 \in 0 .. Len(file) /\ Len(file) - 0 = Len(file)
          /\ \A i \in 1 .. Len(file) - 0 : file[i] = file[i + 0]
    BY <1>0
  <2> QED
    BY <1>0, <2>1, <2>2, <2>3
<1> QED
  BY <1>1, <1>2

LEMMA CheckedTyped ==
  ASSUME Typed, NEW way, OnlyChecked(way)
  PROVE  LogTyped' /\ trouble' \in Nat
  BY CheckedIsEnd DEF OnlyChecked, Typed, LogTyped

LEMMA RecordTyped ==
  ASSUME Typed, NEW p \in People, NEW way \in Ways, Record(p, way)
  PROVE  LogTyped' /\ trouble' \in Nat
<1> DEFINE f == CheckedFile(way)
           e == RecordOf(p, way, Stamp)
<1>1. f \in Seq(Entry) /\ CheckedCount(way) \in Nat
  BY CheckedIsEnd
<1>2. e \in Entry
  BY StampTyped DEF RecordOf, Entry
<1>3. Later(CurAlarmRec[p], way, gCurTime) \in Way
  BY DEF Later, Typed, LogTyped, Way, Clock
<1>4. ASSUME AddAttLog(p, way)
      PROVE  /\ exceedflag' \in BOOLEAN /\ lastlogtime' \in Nat \cup {Never}
             /\ disorder' \subseteq People
  BY <1>4, StampTyped DEF AddAttLog, Typed, LogTyped
<1> HIDE DEF f, e
<1>5. Append(f, e) \in Seq(Entry)
  BY <1>1, <1>2, AppendProperties
<1>6. CASE Stored(p, way)
  <2>1. file' = Append(f, e) /\ CurAttLogCount' = CheckedCount(way) + 1 /\ trouble' = trouble
          /\ unverified' = unverified \ {p}
          /\ CurAlarmRec' = [CurAlarmRec EXCEPT ![p] = Later(@, way, gCurTime)]
    BY <1>6 DEF Stored, f, e
  <2>2. CurAlarmRec' \in [People -> Way]
    BY <1>3, <2>1 DEF Typed, LogTyped
  <2> QED
    BY <1>1, <1>4, <1>5, <1>6, <2>1, <2>2 DEF Stored, Typed, LogTyped
<1>7. CASE StoredUnverified(p, way)
  <2>1. file' = Append(f, e) /\ CurAttLogCount' = CheckedCount(way) /\ trouble' \in Nat
          /\ unverified' = unverified \cup {p} /\ CurAlarmRec' = CurAlarmRec
    BY <1>7, SpendTyped DEF StoredUnverified, Typed, f, e
  <2> QED
    BY <1>1, <1>4, <1>5, <1>7, <2>1 DEF StoredUnverified, Typed, LogTyped
<1>8. CASE NotStored(p, way)
  <2>1. file' = f /\ CurAttLogCount' = CheckedCount(way) /\ trouble' \in Nat
          /\ unverified' = unverified /\ CurAlarmRec' = CurAlarmRec
    BY <1>8, SpendTyped DEF NotStored, Typed, f
  <2> QED
    BY <1>1, <1>4, <1>8, <2>1 DEF NotStored, Typed, LogTyped
<1>9. CASE OnlyChecked(way)
  BY <1>9, CheckedTyped
<1> QED
  BY <1>6, <1>7, <1>8, <1>9 DEF Record

LEMMA PassTyped ==
  ASSUME Typed, NEW p \in People, NEW way \in Ways, Pass(p, way)
  PROVE  passed' \in [People -> Way]
<1> DEFINE w == [State |-> way, LastTime |-> IF Recordable(p, way) THEN Stamp ELSE Never]
<1>1. w \in Way
  BY StampTyped DEF Way
<1>2. passed' = passed \/ passed' = [passed EXCEPT ![p] = w]
  BY DEF Pass
<1> HIDE DEF w
<1> QED
  BY <1>1, <1>2 DEF Typed

LEMMA TimesBounded ==
  ASSUME NEW f \in Seq(Entry)
  PROVE  \E b \in Nat : \A i \in 1 .. Len(f) : f[i].LastTime <= b
<1> DEFINE Bounded(n) == \E b \in Nat : \A i \in 1 .. n : f[i].LastTime <= b
           bad == {n \in 0 .. Len(f) : ~Bounded(n)}
<1>0. Len(f) \in Nat
  OBVIOUS
<1>1. SUFFICES ASSUME ~Bounded(Len(f)) PROVE FALSE
  BY Zenon
<1>2. Bounded(0)
  OBVIOUS
<1> HIDE DEF Bounded
<1>3. bad \in SUBSET Nat /\ bad # {}
  BY <1>0, <1>1
<1>4. PICK n \in bad : \A m \in bad : n <= m
  BY <1>3, Least
<1>5. n \in 1 .. Len(f) /\ n - 1 \in 0 .. Len(f) /\ ~Bounded(n)
  BY <1>0, <1>2, <1>4
<1>6. Bounded(n - 1)
  BY <1>4, <1>5
<1>7. PICK b \in Nat : \A i \in 1 .. n - 1 : f[i].LastTime <= b
  BY <1>6 DEF Bounded
<1>8. \A i \in 1 .. n : f[i].LastTime \in Nat
  <2> TAKE i \in 1 .. n
  <2>1. i \in 1 .. Len(f)
    BY <1>5
  <2>2. f[i] \in Entry
    BY <2>1, ElementOfSeq, Zenon
  <2> QED
    BY <2>2 DEF Entry
<1>9. n \in 1 .. n /\ f[n].LastTime \in Nat
  BY <1>5, <1>8
<1>10. PICK c \in Nat : b <= c /\ f[n].LastTime <= c
  <2>1. CASE f[n].LastTime <= b
    BY <2>1
  <2>2. CASE ~(f[n].LastTime <= b)
    BY <1>9, <2>2
  <2> QED
    BY <2>1, <2>2
<1>11. \A i \in 1 .. n : f[i].LastTime <= c
  <2> TAKE i \in 1 .. n
  <2>1. CASE i = n
    BY <1>10, <2>1
  <2>2. CASE i # n
    <3>1. i \in 1 .. n - 1
      BY <1>5, <2>2
    <3> QED
      BY <1>7, <1>8, <1>10, <3>1
  <2> QED
    BY <2>1, <2>2
<1> QED
  BY <1>5, <1>11 DEF Bounded

\* The way of a person is that of one of their records, of the latest time and
\* the first with it.
LEMMA FetchIsOwn ==
  ASSUME Typed, NEW p \in People, NEW i \in 1 .. Len(file), file[i].PIN = p
  PROVE  \E k \in 1 .. Len(file) :
           /\ file[k].PIN = p
           /\ FetchLastLogs[p] = [State |-> file[k].State, LastTime |-> file[k].LastTime]
           /\ \A j \in 1 .. Len(file) : file[j].PIN = p =>
                \/ file[j].LastTime < file[k].LastTime
                \/ file[j].LastTime = file[k].LastTime /\ k <= j
<1> DEFINE own == {j \in DOMAIN file : file[j].PIN = p}
           First(k) == \A j \in own : \/ file[j].LastTime < file[k].LastTime
                                      \/ file[j].LastTime = file[k].LastTime /\ k <= j
           at == CHOOSE k \in own : First(k)
<1>0. file \in Seq(Entry) /\ Len(file) \in Nat /\ DOMAIN file = 1 .. Len(file)
  BY DEF Typed, LogTyped
<1>1. \A j \in 1 .. Len(file) : file[j] \in Entry /\ file[j].LastTime \in Nat
  <2> TAKE j \in 1 .. Len(file)
  <2>1. file[j] \in Entry
    BY <1>0, ElementOfSeq, Zenon
  <2> QED
    BY <2>1 DEF Entry
<1>2. own \subseteq 1 .. Len(file) /\ i \in own
  BY <1>0
<1>3. FetchLastLogs[p] = [State |-> file[at].State, LastTime |-> file[at].LastTime]
  BY <1>2 DEF FetchLastLogs
<1> HIDE DEF own
<1>4. \E k \in own : First(k)
  <2> DEFINE times == {file[j].LastTime : j \in own}
  <2>1. times \in SUBSET Nat /\ times # {}
    BY <1>1, <1>2
  <2>2. PICK b \in Nat : \A j \in 1 .. Len(file) : file[j].LastTime <= b
    BY <1>0, TimesBounded
  <2>3. \A t \in times : t <= b
    BY <1>2, <2>2
  <2>4. PICK t \in times : \A u \in times : u <= t
    BY <2>1, <2>3, Greatest
  <2> DEFINE latest == {j \in own : file[j].LastTime = t}
  <2>5. latest \in SUBSET Nat /\ latest # {}
    <3>1. PICK j \in own : file[j].LastTime = t
      OBVIOUS
    <3>2. j \in latest
      BY <3>1
    <3>3. \A m \in latest : m \in Nat
      BY <1>0, <1>2
    <3> QED
      BY <3>2, <3>3, Zenon
  <2>6. PICK k \in latest : \A j \in latest : k <= j
    BY <2>5, Least
  <2>7. ASSUME NEW j \in own
        PROVE  \/ file[j].LastTime < file[k].LastTime
               \/ file[j].LastTime = file[k].LastTime /\ k <= j
    <3>1. file[j].LastTime \in Nat /\ file[j].LastTime <= t /\ file[k].LastTime = t /\ t \in Nat
      BY <1>1, <1>2, <2>1, <2>4, <2>6
    <3>2. CASE file[j].LastTime = t
      BY <2>6, <3>1, <3>2
    <3>3. CASE file[j].LastTime # t
      BY <3>1, <3>3
    <3> QED
      BY <3>2, <3>3
  <2> QED
    BY <2>6, <2>7
<1>5. at \in own /\ First(at)
  BY <1>4
<1> QED
  BY <1>0, <1>2, <1>3, <1>5 DEF own

LEMMA FetchTyped ==
  ASSUME Typed
  PROVE  FetchLastLogs \in [People -> Way]
<1> SUFFICES ASSUME NEW p \in People PROVE FetchLastLogs[p] \in Way
  <2>1. FetchLastLogs = [p \in People |-> FetchLastLogs[p]]
    BY DEF FetchLastLogs
  <2> QED
    BY <2>1
<1>0. file \in Seq(Entry) /\ DOMAIN file = 1 .. Len(file)
  BY DEF Typed, LogTyped
<1>1. CASE \E i \in 1 .. Len(file) : file[i].PIN = p
  <2>1. PICK k \in 1 .. Len(file) :
          FetchLastLogs[p] = [State |-> file[k].State, LastTime |-> file[k].LastTime]
    BY <1>1, FetchIsOwn
  <2>2. file[k] \in Entry
    BY <1>0, ElementOfSeq, Zenon
  <2> QED
    BY <2>1, <2>2 DEF Entry, Way
<1>2. CASE ~\E i \in 1 .. Len(file) : file[i].PIN = p
  <2>1. {i \in DOMAIN file : file[i].PIN = p} = {}
    BY <1>0, <1>2
  <2>2. FetchLastLogs[p] = NoRecord
    BY <2>1 DEF FetchLastLogs
  <2> QED
    BY <2>2 DEF NoRecord, Way
<1> QED
  BY <1>1, <1>2

\* The list stays, or nobody is left on it.
LEMMA ListKept ==
  ASSUME AccessInv, LastVerRecSet' = LastVerRecSet \/ LastVerRecSet' = <<>>,
         gCurTime' = gCurTime, setback' = setback
  PROVE  Sane(LastVerRecSet)' /\ Len(LastVerRecSet') <= CGP_MEMBER_MAX
<1>1. CASE LastVerRecSet' = LastVerRecSet
  BY <1>1 DEF AccessInv, Sane
<1>2. CASE LastVerRecSet' = <<>>
  <2>1. LastVerRecSet' \in Seq(Member) /\ Len(LastVerRecSet') = 0
    BY <1>2, EmptySeq, Zenon
  <2> QED
    BY <2>1, NumberAssumption DEF Sane
<1> QED
  BY <1>1, <1>2

LEMMA AccessInit == Init => AccessInv
<1> SUFFICES ASSUME Init PROVE AccessInv
  OBVIOUS
<1>1. 0 \in Clock
  BY NumberAssumption DEF Clock
<1>2. Typed
  <2>1. file \in Seq(Entry)
    BY EmptySeq, Zenon DEF Init
  <2>2. NoRecord \in Way
    BY DEF NoRecord, Way
  <2>3. LogTyped
    BY <2>1, <2>2 DEF Init, LogTyped
  <2> QED
    BY <1>1, <2>2, <2>3, NumberAssumption DEF Init, Typed
<1>3. Sane(LastVerRecSet) /\ Len(LastVerRecSet) = 0
  BY NobodyIsSane, EmptySeq, Zenon DEF Init
<1> QED
  BY <1>2, <1>3, NumberAssumption DEF AccessInv

LEMMA VerifyStep ==
  ASSUME AccessInv, NEW p \in People, NEW way \in Ways, NEW inTime \in BOOLEAN,
         Verify(p, way, inTime)
  PROVE  AccessInv'
<1> USE DEF UnchangedByVerification
<1>0. Typed
  BY DEF AccessInv
<1>1. CASE VerifyOpens(p, way, inTime)
  <2>1. seen' \in [People -> Clock \cup {Never}]
    BY <1>1 DEF VerifyOpens
  <2>2. Typed'
    BY <1>0, <1>1, <2>1, RecordTyped, PassTyped DEF VerifyOpens, Typed
  <2>3. Sane(LastVerRecSet)' /\ Len(LastVerRecSet') <= CGP_MEMBER_MAX
    BY <1>1, ListKept DEF VerifyOpens
  <2> QED
    BY <2>2, <2>3 DEF AccessInv
<1>2. CASE VerifyWaits(p, way, inTime)
  <2>1. seen' \in [People -> Clock \cup {Never}]
    BY <1>0, <1>2 DEF VerifyWaits, Typed
  <2>2. Typed'
    BY <1>0, <1>2, <2>1, RecordTyped DEF VerifyWaits, Typed
  <2>3. Sane(Waiting(p)) /\ Len(Waiting(p)) <= CGP_MEMBER_MAX
    BY WaitingIsSane DEF AccessInv, Typed
  <2>4. LastVerRecSet' = Waiting(p) /\ gCurTime' = gCurTime /\ setback' = setback
    BY <1>2 DEF VerifyWaits
  <2>5. Sane(LastVerRecSet)' /\ Len(LastVerRecSet') <= CGP_MEMBER_MAX
    <3> DEFINE w == Waiting(p)
    <3>1. Sane(w) /\ Len(w) <= CGP_MEMBER_MAX /\ LastVerRecSet' = w
      BY <2>3, <2>4
    <3> HIDE DEF w
    <3> QED
      BY <2>4, <3>1 DEF Sane
  <2> QED
    BY <2>2, <2>5 DEF AccessInv
<1>3. CASE VerifyNoCombination(p, way, inTime)
  <2>1. seen' \in [People -> Clock \cup {Never}]
    BY <1>3 DEF VerifyNoCombination
  <2>2. Typed'
    BY <1>0, <1>3, <2>1, CheckedTyped DEF VerifyNoCombination, Typed
  <2>3. Sane(LastVerRecSet)' /\ Len(LastVerRecSet') <= CGP_MEMBER_MAX
    BY <1>3, ListKept DEF VerifyNoCombination
  <2> QED
    BY <2>2, <2>3 DEF AccessInv
<1>4. CASE VerifyAtOpenDoor(p, way, inTime)
  <2>1. Typed'
    BY <1>0, <1>4, RecordTyped, PassTyped DEF VerifyAtOpenDoor, Typed
  <2>2. Sane(LastVerRecSet)' /\ Len(LastVerRecSet') <= CGP_MEMBER_MAX
    BY <1>4, ListKept DEF VerifyAtOpenDoor
  <2> QED
    BY <2>1, <2>2 DEF AccessInv
<1>5. CASE VerifyRefused(p, way, inTime)
  <2>1. Typed'
    BY <1>0, <1>5, CheckedTyped DEF VerifyRefused, Typed
  <2>2. Sane(LastVerRecSet)' /\ Len(LastVerRecSet') <= CGP_MEMBER_MAX
    BY <1>5, ListKept DEF VerifyRefused
  <2> QED
    BY <2>1, <2>2 DEF AccessInv
<1> QED
  BY <1>1, <1>2, <1>3, <1>4, <1>5 DEF Verify

LEMMA AccessStep == AccessInv /\ [Next]_vars => AccessInv'
<1> SUFFICES ASSUME AccessInv, [Next]_vars PROVE AccessInv'
  OBVIOUS
<1>0. Typed
  BY DEF AccessInv
<1>1. CASE \E p \in People, way \in getCurrentState, inTime \in BOOLEAN : Verify(p, way, inTime)
  BY <1>1, VerifyStep, WaysTyped
<1>2. CASE Tick
  <2>1. gCurTime' = gCurTime + 1 /\ gCurTime' \in Clock /\ gCurTime \in Nat
    BY <1>0, <1>2, NumberAssumption DEF Tick, Typed, Clock
  <2>2. Typed'
    BY <1>0, <1>2, <2>1 DEF Tick, Typed, LogTyped, log
  <2>3. LastVerRecSet' = LastVerRecSet /\ setback' = setback
    BY <1>2 DEF Tick
  <2>4. \A i \in 1 .. Len(LastVerRecSet) :
          setback \/ LastVerRecSet[i].VerTime <= gCurTime + 1
    <3> TAKE i \in 1 .. Len(LastVerRecSet)
    <3>1. setback \/ LastVerRecSet[i].VerTime <= gCurTime
      BY DEF AccessInv, Sane
    <3>2. LastVerRecSet[i] \in Member
      BY ElementOfSeq, Zenon DEF AccessInv, Sane
    <3>3. LastVerRecSet[i].VerTime \in Nat
      BY <3>2, NumberAssumption DEF Member, Clock
    <3> QED
      BY <2>1, <3>1, <3>3
  <2>5. Sane(LastVerRecSet)' /\ Len(LastVerRecSet') <= CGP_MEMBER_MAX
    BY <2>1, <2>3, <2>4 DEF AccessInv, Sane
  <2> QED
    BY <2>2, <2>5 DEF AccessInv
<1>3. CASE SetBack
  <2>1. Typed'
    BY <1>0, <1>3, SpendTyped DEF SetBack, Typed, LogTyped, log
  <2>2. setback' = TRUE /\ LastVerRecSet' = LastVerRecSet
    BY <1>3 DEF SetBack
  <2>3. Sane(LastVerRecSet)' /\ Len(LastVerRecSet') <= CGP_MEMBER_MAX
    BY <2>2 DEF AccessInv, Sane
  <2> QED
    BY <2>1, <2>3 DEF AccessInv
<1>4. CASE ForceByTimeZone
  <2>1. Typed'
    BY <1>0, <1>4 DEF ForceByTimeZone, Typed, LogTyped, log
  <2>2. Sane(LastVerRecSet)' /\ Len(LastVerRecSet') <= CGP_MEMBER_MAX
    BY <1>4, ListKept DEF ForceByTimeZone
  <2> QED
    BY <2>1, <2>2 DEF AccessInv
<1>5. CASE CloseWindow
  <2>1. seen' \in [People -> Clock \cup {Never}]
    BY <1>5 DEF CloseWindow, NobodyWaits
  <2>2. Typed'
    BY <1>0, <1>5, <2>1 DEF CloseWindow, Typed, LogTyped, log
  <2>3. Sane(LastVerRecSet)' /\ Len(LastVerRecSet') <= CGP_MEMBER_MAX
    BY <1>5, ListKept DEF CloseWindow, NobodyWaits
  <2> QED
    BY <2>2, <2>3 DEF AccessInv
<1>6. CASE ClearData
  <2>1. CurAlarmRec' \in [People -> Way]
    BY <1>6 DEF ClearData, NoRecord, Way
  <2>2. file' \in Seq(Entry)
    BY <1>6, EmptySeq, Zenon DEF ClearData
  <2>3. Typed'
    BY <1>0, <1>6, <2>1, <2>2, SpendTyped DEF ClearData, Typed, LogTyped
  <2>4. Sane(LastVerRecSet)' /\ Len(LastVerRecSet') <= CGP_MEMBER_MAX
    BY <1>6, ListKept DEF ClearData
  <2> QED
    BY <2>3, <2>4 DEF AccessInv
<1>8. CASE Restart
  <2>1. seen' \in [People -> Clock \cup {Never}]
    BY <1>8 DEF Restart, NobodyWaits
  <2>2. LogTyped'
    <3>1. CurAlarmRec' \in [People -> Way]
      BY <1>0, <1>8, FetchTyped DEF Restart
    <3>2. Len(file) \in Nat
      BY <1>0 DEF Typed, LogTyped
    <3> QED
      BY <1>0, <1>8, <3>1, <3>2 DEF Restart, Typed, LogTyped
  <2>3. Typed'
    BY <1>0, <1>8, <2>1, <2>2 DEF Restart, Typed
  <2>4. Sane(LastVerRecSet)' /\ Len(LastVerRecSet') <= CGP_MEMBER_MAX
    BY <1>8, ListKept DEF Restart, NobodyWaits
  <2> QED
    BY <2>3, <2>4 DEF AccessInv
<1>7. CASE UNCHANGED vars
  <2>1. Typed'
    BY <1>0, <1>7 DEF vars, log, Typed, LogTyped
  <2>2. Sane(LastVerRecSet)' /\ Len(LastVerRecSet') <= CGP_MEMBER_MAX
    BY <1>7, ListKept DEF vars
  <2> QED
    BY <2>1, <2>2 DEF AccessInv
<1> QED
  BY <1>1, <1>2, <1>3, <1>4, <1>5, <1>6, <1>7, <1>8 DEF Next

\* The variables of the door have their types.
THEOREM TypeCorrect == Spec => []TypeOK
<1>1. AccessInv => TypeOK
  BY DEF AccessInv, Typed, LogTyped, Entry, Sane, Member, TypeOK
<1> QED
  BY <1>1, AccessInit, AccessStep, PTL DEF Spec

\* Those who wait are different people, no more than there is room for, and in
\* the order of their times while the clock is not set back (TestOpenLock).
THEOREM MembersAreOnce == Spec => []MembersOnce
<1>1. AccessInv => MembersOnce
  BY DEF AccessInv, Sane, MembersOnce
<1> QED
  BY <1>1, AccessInit, AccessStep, PTL DEF Spec

-----------------------------------------------------------------------------
(* The way on record.  Where one person opens the door alone, everyone who  *)
(* is admitted passes, and the record goes with the passage.  The records of *)
(* a person out of disorder are in the order of their times, the last        *)
(* opening is at none of them or at the last, and the copy in RAM has the way *)
(* of the last, which is also the one the start of the terminal finds.       *)

OrderlyIn(f, p) ==
  \A i, j \in 1 .. Len(f) :
    i < j /\ f[i].PIN = p /\ f[j].PIN = p => f[i].LastTime < f[j].LastTime

NoneAfter(f, p, t) == \A i \in 1 .. Len(f) : f[i].PIN = p => f[i].LastTime <= t

EndsWith(f, p, way) ==
  \A i \in 1 .. Len(f) :
    f[i].PIN = p /\ (\A j \in 1 .. Len(f) : f[j].PIN = p => j <= i) => f[i].State = way

WayAgrees(p) ==
  /\ OrderlyIn(file, p)
  /\ passed[p].LastTime = Never \/ NoneAfter(file, p, passed[p].LastTime)
  /\ p \in unverified \/ EndsWith(file, p, CurAlarmRec[p].State)

AloneAt == gOptions.LockFunOn = "BASE" /\ gOptions.UnlockPerson = 1
                 /\ gOptions.AntiPassbackOn # {}

WayInv == AccessInv /\ (AloneAt => \A p \in People \ disorder : WayAgrees(p))

LEMMA EntryTyped ==
  ASSUME NEW f \in Seq(Entry), NEW i \in 1 .. Len(f)
  PROVE  f[i] \in Entry /\ f[i].LastTime \in Nat
<1>1. f[i] \in Entry
  BY ElementOfSeq, Zenon
<1> QED
  BY <1>1 DEF Entry

\* The three hold of the end of a file as of the file.
LEMMA EndAgrees ==
  ASSUME NEW f \in Seq(Entry), NEW g \in Seq(Entry), NEW n \in 0 .. Len(f),
         Len(g) = Len(f) - n, \A i \in 1 .. Len(f) - n : g[i] = f[i + n], NEW p
  PROVE  /\ OrderlyIn(f, p) => OrderlyIn(g, p)
         /\ \A t : NoneAfter(f, p, t) => NoneAfter(g, p, t)
         /\ \A way : EndsWith(f, p, way) => EndsWith(g, p, way)
<1>0. Len(f) \in Nat /\ Len(g) \in Nat
  OBVIOUS
<1>1. \A i \in 1 .. Len(g) : i + n \in 1 .. Len(f) /\ g[i] = f[i + n]
  BY <1>0
<1>2. ASSUME OrderlyIn(f, p) PROVE OrderlyIn(g, p)
  BY <1>0, <1>1, <1>2 DEF OrderlyIn
<1>3. ASSUME NEW t, NoneAfter(f, p, t) PROVE NoneAfter(g, p, t)
  BY <1>0, <1>1, <1>3 DEF NoneAfter
<1>4. ASSUME NEW way, EndsWith(f, p, way) PROVE EndsWith(g, p, way)
  <2> SUFFICES ASSUME NEW i \in 1 .. Len(g), g[i].PIN = p,
                      \A j \in 1 .. Len(g) : g[j].PIN = p => j <= i
               PROVE  g[i].State = way
    BY DEF EndsWith
  <2>1. ASSUME NEW j \in 1 .. Len(f), f[j].PIN = p PROVE j <= i + n
    <3>1. CASE j <= n
      BY <1>0, <3>1
    <3>2. CASE j > n
      <4>1. j - n \in 1 .. Len(g) /\ g[j - n] = f[j]
        BY <1>0, <3>2
      <4>2. j - n <= i
        BY <2>1, <4>1
      <4> QED
        BY <1>0, <4>2
    <3> QED
      BY <1>0, <3>1, <3>2
  <2>2. i + n \in 1 .. Len(f) /\ f[i + n] = g[i]
    BY <1>1
  <2> QED
    BY <1>4, <2>1, <2>2 DEF EndsWith
<1> QED
  BY <1>2, <1>3, <1>4

\* A record behind a file: the others see nothing of it, and its own person
\* goes by it.
LEMMA AppendAgrees ==
  ASSUME NEW f \in Seq(Entry), NEW e \in Entry, NEW p
  PROVE  /\ p # e.PIN =>
              /\ OrderlyIn(f, p) => OrderlyIn(Append(f, e), p)
              /\ \A t : NoneAfter(f, p, t) => NoneAfter(Append(f, e), p, t)
              /\ \A way : EndsWith(f, p, way) => EndsWith(Append(f, e), p, way)
         /\ p = e.PIN /\ OrderlyIn(f, p)
              /\ (\A i \in 1 .. Len(f) : f[i].PIN = p => f[i].LastTime < e.LastTime) =>
              /\ OrderlyIn(Append(f, e), p)
              /\ NoneAfter(Append(f, e), p, e.LastTime)
              /\ EndsWith(Append(f, e), p, e.State)
<1> DEFINE g == Append(f, e)
<1>1. /\ Len(f) \in Nat /\ Len(g) = Len(f) + 1 /\ g[Len(f) + 1] = e
      /\ \A i \in 1 .. Len(f) : g[i] = f[i]
  BY AppendProperties
<1>2. e.LastTime \in Nat
  BY DEF Entry
<1>3. \A i \in 1 .. Len(f) : f[i].LastTime \in Nat
  BY EntryTyped
<1> HIDE DEF g
<1>4. \A i \in 1 .. Len(g) : i \in 1 .. Len(f) \/ i = Len(f) + 1
  BY <1>1
<1>5. ASSUME p # e.PIN
      PROVE  /\ OrderlyIn(f, p) => OrderlyIn(g, p)
             /\ \A t : NoneAfter(f, p, t) => NoneAfter(g, p, t)
             /\ \A way : EndsWith(f, p, way) => EndsWith(g, p, way)
  <2>1. \A i \in 1 .. Len(g) : g[i].PIN = p => i \in 1 .. Len(f) /\ g[i] = f[i]
    BY <1>1, <1>4, <1>5
  <2>2. \A i \in 1 .. Len(f) : i \in 1 .. Len(g) /\ g[i] = f[i]
    BY <1>1
  <2>3. OrderlyIn(f, p) => OrderlyIn(g, p)
    BY <2>1 DEF OrderlyIn
  <2>4. \A t : NoneAfter(f, p, t) => NoneAfter(g, p, t)
    BY <2>1 DEF NoneAfter
  <2>5. \A way : EndsWith(f, p, way) => EndsWith(g, p, way)
    BY <2>1, <2>2 DEF EndsWith
  <2> QED
    BY <2>3, <2>4, <2>5
<1>6. ASSUME p = e.PIN, OrderlyIn(f, p),
             \A i \in 1 .. Len(f) : f[i].PIN = p => f[i].LastTime < e.LastTime
      PROVE  OrderlyIn(g, p) /\ NoneAfter(g, p, e.LastTime) /\ EndsWith(g, p, e.State)
  <2>1. OrderlyIn(g, p)
    <3> SUFFICES ASSUME NEW i \in 1 .. Len(g), NEW j \in 1 .. Len(g), i < j,
                        g[i].PIN = p, g[j].PIN = p
                 PROVE  g[i].LastTime < g[j].LastTime
      BY DEF OrderlyIn
    <3>1. i \in 1 .. Len(f) /\ g[i] = f[i]
      BY <1>1
    <3>2. CASE j \in 1 .. Len(f)
      BY <1>1, <1>6, <3>1, <3>2 DEF OrderlyIn
    <3>3. CASE j = Len(f) + 1
      BY <1>1, <1>6, <3>1, <3>3
    <3> QED
      BY <1>4, <3>2, <3>3
  <2>2. NoneAfter(g, p, e.LastTime)
    BY <1>1, <1>2, <1>3, <1>4, <1>6 DEF NoneAfter
  <2>3. EndsWith(g, p, e.State)
    <3> SUFFICES ASSUME NEW i \in 1 .. Len(g),
                        \A j \in 1 .. Len(g) : g[j].PIN = p => j <= i
                 PROVE  g[i].State = e.State
      BY DEF EndsWith
    <3>1. Len(f) + 1 \in 1 .. Len(g) /\ g[Len(f) + 1].PIN = p
      BY <1>1, <1>6
    <3>2. i = Len(f) + 1
      BY <1>1, <3>1
    <3> QED
      BY <1>1, <3>2
  <2> QED
    BY <2>1, <2>2, <2>3
<1> QED
  BY <1>5, <1>6 DEF g

LEMMA AloneOpens ==
  ASSUME AccessInv, AloneAt, NEW p \in People
  PROVE  Verdict(Waiting(p)) = "open"
<1>1. Len(Waiting(p)) >= 1
  BY WaitingIsSane DEF AccessInv, Typed
<1> QED
  BY <1>1 DEF AloneAt, Verdict

\* The file as the capacity check leaves it.
LEMMA CheckedAgrees ==
  ASSUME Typed, NEW way, NEW p
  PROVE  /\ OrderlyIn(file, p) => OrderlyIn(CheckedFile(way), p)
         /\ \A t : NoneAfter(file, p, t) => NoneAfter(CheckedFile(way), p, t)
         /\ \A w : EndsWith(file, p, w) => EndsWith(CheckedFile(way), p, w)
<1> DEFINE f == CheckedFile(way)
<1>1. f \in Seq(Entry) /\ file \in Seq(Entry)
  BY CheckedIsEnd DEF Typed, LogTyped
<1>2. PICK n \in 0 .. Len(file) :
        Len(f) = Len(file) - n /\ \A i \in 1 .. Len(file) - n : f[i] = file[i + n]
  BY CheckedIsEnd
<1> HIDE DEF f
<1> QED
  BY <1>1, <1>2, EndAgrees DEF f

\* Nothing is recorded, and who passes does so without a time.
LEMMA CheckedWay ==
  ASSUME WayInv, AloneAt, NEW way, OnlyChecked(way), NEW q \in People \ disorder',
         passed'[q] = passed[q] \/ passed'[q].LastTime = Never
  PROVE  WayAgrees(q)'
<1>1. WayAgrees(q) /\ Typed
  BY DEF WayInv, AccessInv, OnlyChecked
<1>2. file' = CheckedFile(way) /\ CurAlarmRec' = CurAlarmRec /\ unverified' = unverified
  BY DEF OnlyChecked
<1>3. /\ OrderlyIn(file', q)
      /\ passed[q].LastTime = Never \/ NoneAfter(file', q, passed[q].LastTime)
      /\ q \in unverified \/ EndsWith(file', q, CurAlarmRec[q].State)
  BY <1>1, <1>2, CheckedAgrees DEF WayAgrees
<1> QED
  BY <1>2, <1>3 DEF WayAgrees, OrderlyIn, NoneAfter, EndsWith

\* A record is tried, and the person passes at its time.
LEMMA TriedWay ==
  ASSUME WayInv, AloneAt, NEW p \in People, NEW way \in Ways,
         Stored(p, way) \/ StoredUnverified(p, way) \/ NotStored(p, way),
         passed' = [passed EXCEPT ![p] = [State |-> way, LastTime |-> Stamp]],
         NEW q \in People \ disorder'
  PROVE  WayAgrees(q)'
<1> DEFINE f == CheckedFile(way)
           e == RecordOf(p, way, Stamp)
<1>0. Typed /\ f \in Seq(Entry) /\ Stamp \in Nat
  BY CheckedIsEnd, StampTyped DEF WayInv, AccessInv
<1>1. e \in Entry /\ e.PIN = p /\ e.State = way /\ e.LastTime = Stamp
  BY <1>0 DEF RecordOf, Entry
<1>2. disorder \subseteq disorder'
  BY DEF Stored, StoredUnverified, NotStored, AddAttLog
<1>3. WayAgrees(q)
  BY <1>2 DEF WayInv
<1>4. /\ OrderlyIn(f, q)
      /\ passed[q].LastTime = Never \/ NoneAfter(f, q, passed[q].LastTime)
      /\ q \in unverified \/ EndsWith(f, q, CurAlarmRec[q].State)
  BY <1>0, <1>3, CheckedAgrees DEF WayAgrees
<1>5. passed \in [People -> Way] /\ CurAlarmRec \in [People -> Way]
  BY <1>0 DEF Typed, LogTyped
<1>6. \/ file' = Append(f, e)
      \/ NotStored(p, way) /\ file' = f
  BY DEF Stored, StoredUnverified, NotStored
<1> HIDE DEF e
<1>7. CASE q # p
  <2>1. passed'[q] = passed[q]
    BY <1>5, <1>7
  <2>2. CurAlarmRec'[q] = CurAlarmRec[q]
    BY <1>5, <1>7 DEF Stored, StoredUnverified, NotStored
  <2>3. q \in unverified' <=> q \in unverified
    BY <1>7 DEF Stored, StoredUnverified, NotStored
  <2>4. /\ OrderlyIn(file', q)
        /\ passed[q].LastTime = Never \/ NoneAfter(file', q, passed[q].LastTime)
        /\ q \in unverified \/ EndsWith(file', q, CurAlarmRec[q].State)
    <3> HIDE DEF f
    <3> QED
      BY <1>0, <1>1, <1>4, <1>6, <1>7, AppendAgrees
  <2> QED
    BY <2>1, <2>2, <2>3, <2>4 DEF WayAgrees, OrderlyIn, NoneAfter, EndsWith
<1>8. CASE q = p
  <2>1. /\ ~(CurAlarmRec[p].State # "none" /\ CurAlarmRec[p].LastTime >= gCurTime)
        /\ ~\E r \in Held : r.PIN = p /\ r.LastTime >= Stamp
    BY <1>8 DEF Stored, StoredUnverified, NotStored, AddAttLog
  <2>2. \A i \in 1 .. Len(f) : f[i].PIN = p => f[i].LastTime < Stamp
    <3> TAKE i \in 1 .. Len(f)
    <3>1. PICK n \in 0 .. Len(file) :
            Len(f) = Len(file) - n /\ \A k \in 1 .. Len(file) - n : f[k] = file[k + n]
      BY <1>0, CheckedIsEnd
    <3> HIDE DEF f
    <3>2. Len(file) \in Nat /\ file \in Seq(Entry) /\ DOMAIN file = 1 .. Len(file)
      BY <1>0 DEF Typed, LogTyped
    <3>3. i + n \in 1 .. Len(file) /\ f[i] = file[i + n]
      BY <3>1, <3>2
    <3>4. f[i] \in Held
      BY <3>2, <3>3 DEF Held
    <3>5. f[i].LastTime \in Nat
      BY <1>0, EntryTyped
    <3> QED
      BY <1>0, <2>1, <3>4, <3>5
  <2>3. passed'[p].LastTime = Stamp
    BY <1>5
  <2>4. CASE file' = Append(f, e)
    <3>1. /\ OrderlyIn(Append(f, e), p) /\ NoneAfter(Append(f, e), p, Stamp)
          /\ EndsWith(Append(f, e), p, way)
      <4> HIDE DEF f
      <4> QED
        BY <1>0, <1>1, <1>4, <1>8, <2>2, AppendAgrees
    <3>2. CASE Stored(p, way)
      <4>1. CurAlarmRec[p].State = "none" \/ gCurTime > CurAlarmRec[p].LastTime
        <5>1. gCurTime \in Nat /\ CurAlarmRec[p].LastTime \in Nat \cup {Never}
          BY <1>0, <1>5 DEF Typed, Clock, Way
        <5> QED
          BY <2>1, <5>1 DEF Never
      <4>2. CurAlarmRec'[p].State = way
        BY <1>5, <3>2, <4>1 DEF Stored, Later
      <4> QED
        BY <1>8, <2>3, <2>4, <3>1, <4>2 DEF WayAgrees, OrderlyIn, NoneAfter, EndsWith
    <3>3. CASE StoredUnverified(p, way)
      <4>1. p \in unverified'
        BY <3>3 DEF StoredUnverified
      <4> QED
        BY <1>8, <2>3, <2>4, <3>1, <4>1 DEF WayAgrees, OrderlyIn, NoneAfter
    <3>4. CASE NotStored(p, way)
      <4>1. f = Append(f, e)
        BY <2>4, <3>4 DEF NotStored
      <4>2. Len(f) \in Nat /\ Len(Append(f, e)) = Len(f) + 1
        BY <1>0, <1>1, AppendProperties
      <4> QED
        BY <4>1, <4>2
    <3> QED
      BY <3>2, <3>3, <3>4
  <2>5. CASE NotStored(p, way) /\ file' = f
    <3>1. CurAlarmRec' = CurAlarmRec /\ unverified' = unverified
      BY <2>5 DEF NotStored
    <3>2. NoneAfter(f, p, Stamp)
      <4> HIDE DEF f
      <4>1. \A i \in 1 .. Len(f) : f[i].LastTime \in Nat
        BY <1>0, EntryTyped
      <4> QED
        BY <1>0, <2>2, <4>1 DEF NoneAfter
    <3> QED
      BY <1>4, <1>8, <2>3, <2>5, <3>1, <3>2 DEF WayAgrees, OrderlyIn, NoneAfter, EndsWith
  <2> QED
    BY <1>6, <2>4, <2>5
<1> QED
  BY <1>7, <1>8

LEMMA PassWay ==
  ASSUME WayInv, AloneAt, NEW p \in People, NEW way \in Ways, Record(p, way), Pass(p, way),
         NEW q \in People \ disorder'
  PROVE  WayAgrees(q)'
<1>0. passed \in [People -> Way]
  BY DEF WayInv, AccessInv, Typed
<1>1. passed' = [passed EXCEPT ![p] =
                    [State |-> way, LastTime |-> IF Recordable(p, way) THEN Stamp ELSE Never]]
  BY DEF Pass, AloneAt
<1>2. CASE Recordable(p, way)
  BY <1>1, <1>2, TriedWay DEF Record
<1>3. CASE ~Recordable(p, way)
  <2>1. passed'[q] = passed[q] \/ passed'[q].LastTime = Never
    BY <1>0, <1>1, <1>3
  <2>2. OnlyChecked(way)
    BY <1>3 DEF Record
  <2> QED
    BY <2>1, <2>2, CheckedWay
<1> QED
  BY <1>2, <1>3

\* The start of the terminal finds the last record of a person in order.
LEMMA RestartWay ==
  ASSUME WayInv, AloneAt, Restart, NEW q \in People \ disorder'
  PROVE  WayAgrees(q)'
<1>0. Typed /\ file \in Seq(Entry) /\ Len(file) \in Nat /\ WayAgrees(q)
  BY DEF WayInv, AccessInv, Typed, LogTyped, Restart
<1>1. file' = file /\ passed' = passed /\ CurAlarmRec' = FetchLastLogs
  BY DEF Restart
<1>2. EndsWith(file, q, FetchLastLogs[q].State)
  <2> SUFFICES ASSUME NEW i \in 1 .. Len(file), file[i].PIN = q,
                      \A j \in 1 .. Len(file) : file[j].PIN = q => j <= i
               PROVE  file[i].State = FetchLastLogs[q].State
    BY DEF EndsWith
  <2>1. PICK k \in 1 .. Len(file) :
          /\ file[k].PIN = q
          /\ FetchLastLogs[q] = [State |-> file[k].State, LastTime |-> file[k].LastTime]
          /\ \A j \in 1 .. Len(file) : file[j].PIN = q =>
               \/ file[j].LastTime < file[k].LastTime
               \/ file[j].LastTime = file[k].LastTime /\ k <= j
    BY <1>0, FetchIsOwn
  <2>2. k <= i
    BY <2>1
  <2>3. CASE k < i
    <3>1. file[k].LastTime < file[i].LastTime
      BY <1>0, <2>1, <2>3 DEF WayAgrees, OrderlyIn
    <3>2. file[k].LastTime \in Nat /\ file[i].LastTime \in Nat
      BY <1>0, EntryTyped
    <3> QED
      BY <2>1, <3>1, <3>2
  <2>4. CASE k = i
    BY <2>1, <2>4
  <2> QED
    BY <1>0, <2>2, <2>3, <2>4
<1> QED
  BY <1>0, <1>1, <1>2 DEF WayAgrees, OrderlyIn, NoneAfter, EndsWith

LEMMA WayKept ==
  ASSUME WayInv, UNCHANGED <<gOptions, log, passed>>, AccessInv'
  PROVE  WayInv'
<1>1. UNCHANGED <<CurAlarmRec, file, unverified, disorder>>
  BY DEF log
<1> QED
  BY <1>1 DEF WayInv, WayAgrees, OrderlyIn, NoneAfter, EndsWith, AloneAt

LEMMA EmptyAgrees ==
  ASSUME file = <<>>, NEW p
  PROVE  WayAgrees(p)
<1>1. Len(file) = 0
  BY EmptySeq, Zenon
<1> QED
  BY <1>1 DEF WayAgrees, OrderlyIn, NoneAfter, EndsWith

LEMMA WayInit == Init => WayInv
  BY AccessInit, EmptyAgrees DEF Init, WayInv

LEMMA WayStep == WayInv /\ [Next]_vars => WayInv'
<1> SUFFICES ASSUME WayInv, [Next]_vars PROVE WayInv'
  OBVIOUS
<1> USE DEF UnchangedByVerification
<1>0. AccessInv /\ AccessInv'
  BY AccessStep DEF WayInv
<1>1. ASSUME NEW p \in People, NEW way \in Ways, NEW inTime \in BOOLEAN,
             Verify(p, way, inTime)
      PROVE  WayInv'
  <2>0. gOptions' = gOptions
    BY <1>1 DEF Verify, VerifyOpens, VerifyWaits, VerifyNoCombination, VerifyAtOpenDoor,
                VerifyRefused
  <2> SUFFICES ASSUME AloneAt, NEW q \in People \ disorder'
               PROVE  WayAgrees(q)'
    BY <1>0, <2>0 DEF WayInv, AloneAt
  <2>1. CASE VerifyOpens(p, way, inTime) \/ VerifyAtOpenDoor(p, way, inTime)
    BY <2>1, PassWay DEF VerifyOpens, VerifyAtOpenDoor
  <2>2. ~VerifyWaits(p, way, inTime) /\ ~VerifyNoCombination(p, way, inTime)
    BY <1>0, AloneOpens DEF VerifyWaits, VerifyNoCombination
  <2>3. CASE VerifyRefused(p, way, inTime)
    BY <2>3, CheckedWay DEF VerifyRefused
  <2> QED
    BY <1>1, <2>1, <2>2, <2>3 DEF Verify
<1>2. CASE \E p \in People, way \in getCurrentState, inTime \in BOOLEAN : Verify(p, way, inTime)
  BY <1>1, <1>2, WaysTyped
<1>3. CASE Tick
  BY <1>0, <1>3, WayKept DEF Tick
<1>4. CASE SetBack
  BY <1>0, <1>4, WayKept DEF SetBack
<1>5. CASE ForceByTimeZone
  BY <1>0, <1>5, WayKept DEF ForceByTimeZone
<1>6. CASE CloseWindow
  BY <1>0, <1>6, WayKept DEF CloseWindow
<1>7. CASE Restart
  <2>1. gOptions' = gOptions
    BY <1>7 DEF Restart
  <2> QED
    BY <1>0, <1>7, <2>1, RestartWay DEF WayInv, AloneAt
<1>8. CASE ClearData
  <2>1. file' = <<>>
    BY <1>8 DEF ClearData
  <2>2. Len(file') = 0
    BY <2>1, EmptySeq, Zenon
  <2> QED
    BY <1>0, <2>2 DEF WayInv, WayAgrees, OrderlyIn, NoneAfter, EndsWith
<1>9. CASE UNCHANGED vars
  BY <1>0, <1>9, WayKept DEF vars
<1> QED
  BY <1>2, <1>3, <1>4, <1>5, <1>6, <1>7, <1>8, <1>9 DEF Next

\* With one person per opening the next check goes by the way of the last
\* opening, for everyone whose last opening is on file, unless a record of
\* theirs was not verified or was made no later than another: through deletions,
\* refusals, clocks set back, clears and starts of the terminal
\* (check_anti_passback, SaveAttLog, FetchLastLogs).
THEOREM WayOnRecord == Spec => []WayIsRecorded
<1>1. ASSUME WayInv PROVE WayIsRecorded
  <2> SUFFICES ASSUME AloneAt, NEW p \in People \ (unverified \cup disorder),
                      RecordOf(p, passed[p].State, passed[p].LastTime) \in Held
               PROVE  CurAlarmRec[p].State = passed[p].State
    BY DEF WayIsRecorded, AloneAt
  <2>0. WayAgrees(p) /\ file \in Seq(Entry) /\ Len(file) \in Nat /\ DOMAIN file = 1 .. Len(file)
    BY <1>1 DEF WayInv, AccessInv, Typed, LogTyped
  <2>1. PICK i \in 1 .. Len(file) : RecordOf(p, passed[p].State, passed[p].LastTime) = file[i]
    BY <2>0 DEF Held
  <2>2. file[i].PIN = p /\ file[i].State = passed[p].State
          /\ file[i].LastTime = passed[p].LastTime
    BY <2>1 DEF RecordOf
  <2>3. \A j \in 1 .. Len(file) : file[j].LastTime \in Nat
    BY <2>0, EntryTyped
  <2>4. NoneAfter(file, p, passed[p].LastTime)
    BY <2>0, <2>2, <2>3 DEF WayAgrees, Never
  <2>5. ASSUME NEW j \in 1 .. Len(file), file[j].PIN = p PROVE j <= i
    <3> SUFFICES ASSUME i < j PROVE FALSE
      BY <2>0
    <3>1. file[i].LastTime < file[j].LastTime
      BY <2>0, <2>2, <2>5 DEF WayAgrees, OrderlyIn
    <3>2. file[j].LastTime <= file[i].LastTime
      BY <2>2, <2>4, <2>5 DEF NoneAfter
    <3> QED
      BY <2>3, <3>1, <3>2
  <2> QED
    BY <2>0, <2>2, <2>5 DEF WayAgrees, EndsWith
<1> QED
  BY <1>1, WayInit, WayStep, PTL DEF Spec

-----------------------------------------------------------------------------
(* The opening by several people.  Everyone on the list is seen, and a list *)
(* that waits is shorter than some opening needs, so that the window of the *)
(* longest opening covers how long its members are kept.                    *)

Sizes == IF gOptions.LockFunOn = "BASE" THEN {gOptions.UnlockPerson}
         ELSE {cg.MemberCount : cg \in Combinations}

SeenInv ==
  /\ AccessInv
  /\ \A i \in 1 .. Len(LastVerRecSet) :
       seen[LastVerRecSet[i].PIN] = LastVerRecSet[i].VerTime
  /\ Len(LastVerRecSet) > 0 => \E n \in Sizes : Len(LastVerRecSet) < n

LEMMA SizesBounded ==
  ASSUME gOptions \in Settings
  PROVE  /\ Sizes \subseteq Nat
         /\ \E b \in Nat : \A n \in Sizes : n <= b
<1>1. CASE gOptions.LockFunOn = "BASE"
  <2>1. gOptions.UnlockPerson \in Nat
    BY SettingAssumption
  <2> QED
    BY <1>1, <2>1 DEF Sizes
<1>2. CASE gOptions.LockFunOn # "BASE"
  <2>1. \A n \in Sizes : n \in Nat /\ n <= CGP_MEMBER_MAX
    BY <1>2, CombinationAssumption, NumberAssumption DEF Sizes
  <2> QED
    BY <2>1, NumberAssumption
<1> QED
  BY <1>1, <1>2

LEMMA WindowCovers ==
  ASSUME gOptions \in Settings, NEW n \in Sizes, NEW len \in Nat, len < n
  PROVE  UnlockInterval * len - 1 <= Window /\ Window \in Int
<1> DEFINE most == CHOOSE k \in Sizes : \A m \in Sizes : m <= k
<1>1. \E k \in Sizes : \A m \in Sizes : m <= k
  BY SizesBounded, Greatest
<1>2. most \in Sizes /\ n <= most
  BY <1>1
<1>3. Window = UnlockInterval * (most - 1) - 1
  BY DEF Window, Sizes
<1> HIDE DEF most
<1>4. most \in Nat /\ n \in Nat
  BY <1>2, SizesBounded
<1> DEFINE more == most - 1 - len
<1>5. more \in Nat /\ most - 1 = len + more
  BY <1>2, <1>4
<1> HIDE DEF more
<1>6. UnlockInterval * (len + more) = UnlockInterval * len + UnlockInterval * more
  BY <1>5, NumberAssumption
<1>7. UnlockInterval * more \in Nat /\ UnlockInterval * len \in Nat
  BY <1>5, NumberAssumption
<1> QED
  BY <1>3, <1>5, <1>6, <1>7

\* People at different places of a sane list are different.
LEMMA PeopleCounted ==
  ASSUME NEW list, Sane(list), NEW T \in SUBSET (1 .. Len(list))
  PROVE  Cardinality({list[i].PIN : i \in T}) = Cardinality(T)
<1> DEFINE S == {list[i].PIN : i \in T}
           f == [i \in T |-> list[i].PIN]
<1>1. f \in Bijection(T, S)
  <2>1. f \in [T -> S] /\ \A s \in S : \E i \in T : f[i] = s
    OBVIOUS
  <2>2. \A i, j \in T : f[i] = f[j] => i = j
    <3> SUFFICES ASSUME NEW i \in T, NEW j \in T, i # j PROVE f[i] # f[j]
      OBVIOUS
    <3>1. i \in 1 .. Len(list) /\ j \in 1 .. Len(list) /\ (i < j \/ j < i)
      OBVIOUS
    <3>2. list[i].PIN # list[j].PIN
      BY <3>1 DEF Sane
    <3> QED
      BY <3>2
  <2> HIDE DEF f, S
  <2>3. f \in Injection(T, S)
    BY <2>1, <2>2 DEF Injection, IsInjective
  <2>4. f \in Surjection(T, S)
    BY <2>1 DEF Surjection
  <2> QED
    BY <2>3, <2>4 DEF Bijection
<1>2. Len(list) \in Nat
  BY DEF Sane
<1>3. IsFiniteSet(T)
  <2>1. IsFiniteSet(1 .. Len(list))
    BY <1>2, FS_Interval
  <2> QED
    BY <2>1, FS_Subset
<1> QED
  BY <1>1, <1>3, FS_Bijection DEF ExistsBijection

LEMMA OpeningIsEnough ==
  ASSUME gOptions \in Settings, NEW list, Sane(list), Verdict(list) = "open"
  PROVE  Enough({list[i].PIN : i \in 1 .. Len(list)})
<1> DEFINE S == {list[i].PIN : i \in 1 .. Len(list)}
<1>0. Len(list) \in Nat /\ DOMAIN list = 1 .. Len(list)
  BY DEF Sane
<1>1. Cardinality(S) = Len(list)
  <2>1. Cardinality(S) = Cardinality(1 .. Len(list))
    BY PeopleCounted
  <2>2. Cardinality(1 .. Len(list)) = Len(list)
    <3> DEFINE n == Len(list)
    <3>1. n \in Nat
      BY <1>0
    <3> HIDE DEF n
    <3>2. Cardinality(1 .. n) = n
      BY <3>1, FS_Interval
    <3> QED
      BY <3>2 DEF n
  <2> QED
    BY <2>1, <2>2
<1>2. CASE gOptions.LockFunOn = "BASE"
  BY <1>1, <1>2 DEF Verdict, Enough
<1>3. CASE gOptions.LockFunOn # "BASE"
  <2> DEFINE grps == [i \in DOMAIN list |-> Group[list[i].PIN]]
  <2>1. gOptions.LockFunOn = "ADV"
    BY <1>3, SettingAssumption
  <2>2. TestAllGrp(grps) = "open"
    BY <2>1 DEF Verdict
  <2>3. grps \in [1 .. Len(list) -> Nat]
    <3>1. \A i \in 1 .. Len(list) : list[i].PIN \in People
      BY MemberTimes DEF Member
    <3> QED
      BY <1>0, <3>1, GroupAssumption
  <2>4. Len(grps) = Len(list) /\ DOMAIN grps = 1 .. Len(list)
    BY <1>0, <2>3
  <2>5. \A i \in 1 .. Len(list) : grps[i] = Group[list[i].PIN]
    BY <1>0
  <2> HIDE DEF grps
  <2>6. PICK cg \in Combinations : FindPlaces(grps, cg) /\ cg.MemberCount = Len(grps)
    BY <2>2 DEF TestAllGrp
  <2>7. ASSUME NEW p \in S
        PROVE  Cardinality({q \in S : Group[q] = Group[p]}) <= Occurrences(Group[p], cg.GroupID)
    <3>1. PICK i \in 1 .. Len(list) : p = list[i].PIN
      BY <2>7
    <3> DEFINE T == {j \in 1 .. Len(list) : grps[j] = grps[i]}
    <3>2. {q \in S : Group[q] = Group[p]} = {list[j].PIN : j \in T}
      BY <2>5, <3>1
    <3>3. Cardinality({list[j].PIN : j \in T}) = Cardinality(T)
      BY PeopleCounted
    <3>4. Occurrences(grps[i], grps) = Cardinality(T)
      BY <2>4 DEF Occurrences
    <3>5. Occurrences(grps[i], grps) <= Occurrences(grps[i], cg.GroupID)
      BY <2>4, <2>6 DEF FindPlaces
    <3> QED
      BY <2>5, <3>1, <3>2, <3>3, <3>4, <3>5
  <2> QED
    BY <1>1, <1>3, <2>4, <2>6, <2>7 DEF Enough
<1> QED
  BY <1>2, <1>3

\* Whoever is waiting with p was seen within the window.
LEMMA SeenInWindow ==
  ASSUME SeenInv, ~setback, NEW p \in People,
         NEW i \in 1 .. Len(Waiting(p)) - 1
  PROVE  /\ seen[Waiting(p)[i].PIN] # Never
         /\ gCurTime - seen[Waiting(p)[i].PIN] <= Window
<1>1. AccessInv /\ gCurTime \in Clock /\ gOptions \in Settings /\ Sane(LastVerRecSet)
  BY DEF SeenInv, AccessInv, Typed
<1>2. PICK j \in 1 .. Len(LastVerRecSet) :
        /\ Waiting(p)[i] = LastVerRecSet[j]
        /\ gCurTime - LastVerRecSet[j].VerTime <= Expiry(LastVerRecSet)
  <2>1. \A k \in 1 .. Len(Waiting(p)) - 1 : \E j \in 1 .. Len(LastVerRecSet) :
          /\ Waiting(p)[k] = LastVerRecSet[j]
          /\ ~setback => gCurTime - LastVerRecSet[j].VerTime <= Expiry(LastVerRecSet)
    BY <1>1, WaitingIsSane, Zenon
  <2> QED
    BY <2>1
<1>3. seen[LastVerRecSet[j].PIN] = LastVerRecSet[j].VerTime
  BY DEF SeenInv
<1>4. LastVerRecSet[j].VerTime \in Nat
  BY <1>1, MemberTimes DEF AccessInv
<1>5. Len(LastVerRecSet) \in Nat /\ Len(LastVerRecSet) > 0
  BY <1>1, <1>2 DEF AccessInv, Sane
<1>6. PICK n \in Sizes : Len(LastVerRecSet) < n
  BY <1>5 DEF SeenInv
<1>7. Expiry(LastVerRecSet) <= Window /\ Window \in Int
  BY <1>1, <1>5, <1>6, WindowCovers DEF Expiry
<1>8. UnlockInterval * Len(LastVerRecSet) \in Nat
  BY <1>5, NumberAssumption
<1>9. Expiry(LastVerRecSet) \in Int /\ gCurTime \in Nat
  BY <1>1, <1>8, NumberAssumption DEF Expiry, Clock
<1>10. gCurTime - LastVerRecSet[j].VerTime <= Window
  BY <1>2, <1>4, <1>7, <1>9
<1> QED
  BY <1>2, <1>3, <1>4, <1>10 DEF Never

LEMMA OpeningSeen ==
  ASSUME SeenInv, ~setback, NEW p \in People, Verdict(Waiting(p)) = "open"
  PROVE  \E S \in SUBSET People :
           /\ p \in S /\ Enough(S)
           /\ \A q \in S \ {p} : seen[q] # Never /\ gCurTime - seen[q] <= Window
<1> DEFINE w == Waiting(p)
           S == {w[i].PIN : i \in 1 .. Len(w)}
<1>1. /\ gOptions \in Settings
      /\ Sane(w) /\ Len(w) >= 1 /\ w[Len(w)].PIN = p
  <2>1. gOptions \in Settings /\ gCurTime \in Clock /\ Sane(LastVerRecSet)
    BY DEF SeenInv, AccessInv, Typed
  <2>2. Sane(w) /\ Len(w) >= 1 /\ w[Len(w)] = [PIN |-> p, VerTime |-> gCurTime]
    BY <2>1, WaitingIsSane, Zenon
  <2> HIDE DEF w
  <2> QED
    BY <2>1, <2>2
<1>2. \A i \in 1 .. Len(w) - 1 :
        seen[w[i].PIN] # Never /\ gCurTime - seen[w[i].PIN] <= Window
  BY SeenInWindow
<1>3. Enough(S)
  BY <1>1, OpeningIsEnough
<1> HIDE DEF w
<1>4. Len(w) \in Nat
  BY <1>1 DEF Sane
<1>5. p \in S
  BY <1>1, <1>4
<1>6. S \in SUBSET People
  BY <1>1, MemberTimes DEF Member
<1>7. ASSUME NEW q \in S \ {p}
      PROVE  seen[q] # Never /\ gCurTime - seen[q] <= Window
  <2>1. PICK i \in 1 .. Len(w) : q = w[i].PIN
    BY <1>7
  <2>2. i \in 1 .. Len(w) - 1
    BY <1>1, <1>4, <1>7, <2>1
  <2> QED
    BY <1>2, <2>1, <2>2
<1> QED
  BY <1>3, <1>5, <1>6, <1>7

LEMMA WaitingIsShort ==
  ASSUME gOptions \in Settings, NEW list, Sane(list), Verdict(list) = "wait"
  PROVE  \E n \in Sizes : Len(list) < n
<1>0. Len(list) \in Nat /\ DOMAIN list = 1 .. Len(list)
  BY DEF Sane
<1>1. CASE gOptions.LockFunOn = "BASE"
  <2>1. gOptions.UnlockPerson \in Nat
    BY SettingAssumption
  <2>2. ~(Len(list) >= gOptions.UnlockPerson)
    BY <1>1 DEF Verdict
  <2> QED
    BY <1>0, <1>1, <2>1, <2>2 DEF Sizes
<1>2. CASE gOptions.LockFunOn # "BASE"
  <2> DEFINE grps == [i \in DOMAIN list |-> Group[list[i].PIN]]
  <2>1. gOptions.LockFunOn = "ADV"
    BY <1>2, SettingAssumption
  <2>2. TestAllGrp(grps) = "wait"
    BY <2>1 DEF Verdict
  <2>3. \A i \in 1 .. Len(list) : list[i].PIN \in People
    BY MemberTimes DEF Member
  <2>4. grps \in [1 .. Len(list) -> Nat]
    BY <1>0, <2>3, GroupAssumption
  <2>5. Len(grps) = Len(list)
    BY <1>0, <2>4
  <2> HIDE DEF grps
  <2>6. PICK cg \in Combinations : cg.MemberCount >= Len(grps) /\ cg.MemberCount # Len(grps)
    BY <2>2 DEF TestAllGrp
  <2>7. cg.MemberCount \in Nat
    BY CombinationAssumption, NumberAssumption
  <2>8. Len(list) < cg.MemberCount
    BY <1>0, <2>5, <2>6, <2>7
  <2>9. cg.MemberCount \in Sizes
    BY <1>2 DEF Sizes
  <2> QED
    BY <2>8, <2>9
<1> QED
  BY <1>1, <1>2

LEMMA SeenEmptied ==
  ASSUME AccessInv', LastVerRecSet' = <<>>
  PROVE  SeenInv'
<1>1. Len(LastVerRecSet') = 0
  BY EmptySeq, Zenon
<1> QED
  BY <1>1 DEF SeenInv

LEMMA SeenKept ==
  ASSUME SeenInv, AccessInv', UNCHANGED <<gOptions, LastVerRecSet, seen>>
  PROVE  SeenInv'
  BY DEF SeenInv, Sizes

LEMMA SeenWaits ==
  ASSUME SeenInv, AccessInv', NEW p \in People, NEW way \in Ways, NEW inTime \in BOOLEAN,
         VerifyWaits(p, way, inTime)
  PROVE  SeenInv'
<1> DEFINE w == Waiting(p)
<1>1. gOptions \in Settings /\ gCurTime \in Clock /\ Sane(LastVerRecSet)
        /\ seen \in [People -> Clock \cup {Never}]
  BY DEF SeenInv, AccessInv, Typed
<1>2. /\ Sane(w) /\ Len(w) >= 1 /\ w[Len(w)] = [PIN |-> p, VerTime |-> gCurTime]
      /\ \A k \in 1 .. Len(w) - 1 : \E j \in 1 .. Len(LastVerRecSet) :
           /\ w[k] = LastVerRecSet[j]
           /\ ~setback => gCurTime - LastVerRecSet[j].VerTime <= Expiry(LastVerRecSet)
  BY <1>1, WaitingIsSane, Zenon
<1>3. /\ LastVerRecSet' = w /\ seen' = [seen EXCEPT ![p] = gCurTime]
      /\ gOptions' = gOptions /\ Verdict(w) = "wait"
  BY DEF VerifyWaits, UnchangedByVerification
<1> HIDE DEF w
<1>4. \E n \in Sizes : Len(w) < n
  BY <1>1, <1>2, <1>3, WaitingIsShort
<1>5. Len(w) \in Nat
  BY <1>2 DEF Sane
<1>6. ASSUME NEW i \in 1 .. Len(w)
      PROVE  seen'[w[i].PIN] = w[i].VerTime
  <2>1. CASE i = Len(w)
    <3>1. w[i].PIN = p /\ w[i].VerTime = gCurTime
      BY <1>2, <2>1
    <3>2. seen'[p] = gCurTime
      BY <1>1, <1>3
    <3> QED
      BY <3>1, <3>2
  <2>2. CASE i # Len(w)
    <3>1. i \in 1 .. Len(w) - 1 /\ i < Len(w) /\ Len(w) \in 1 .. Len(w)
      BY <1>2, <1>5, <2>2
    <3>2. w[i].PIN # p
      BY <1>2, <3>1 DEF Sane
    <3>3. PICK j \in 1 .. Len(LastVerRecSet) : w[i] = LastVerRecSet[j]
      BY <1>2, <3>1
    <3>4. seen[w[i].PIN] = w[i].VerTime
      BY <3>3 DEF SeenInv
    <3> QED
      BY <1>1, <1>3, <3>2, <3>4
  <2> QED
    BY <2>1, <2>2
<1>7. \E n \in Sizes' : Len(w) < n
  BY <1>3, <1>4 DEF Sizes
<1> QED
  BY <1>3, <1>6, <1>7 DEF SeenInv

LEMMA SeenInit == Init => SeenInv
<1> SUFFICES ASSUME Init PROVE SeenInv
  OBVIOUS
<1>1. Len(LastVerRecSet) = 0
  BY EmptySeq, Zenon DEF Init
<1> QED
  BY <1>1, AccessInit DEF SeenInv

LEMMA SeenStep == SeenInv /\ [Next]_vars => SeenInv'
<1> SUFFICES ASSUME SeenInv, [Next]_vars PROVE SeenInv'
  OBVIOUS
<1>0. AccessInv'
  BY AccessStep DEF SeenInv
<1>1. ASSUME NEW p \in People, NEW way \in Ways, NEW inTime \in BOOLEAN,
             Verify(p, way, inTime)
      PROVE  SeenInv'
  <2>1. CASE VerifyOpens(p, way, inTime)
    BY <1>0, <2>1, SeenEmptied DEF VerifyOpens
  <2>2. CASE VerifyWaits(p, way, inTime)
    BY <1>0, <2>2, SeenWaits
  <2>3. CASE VerifyNoCombination(p, way, inTime)
    BY <1>0, <2>3, SeenEmptied DEF VerifyNoCombination
  <2>4. CASE VerifyAtOpenDoor(p, way, inTime)
    BY <1>0, <2>4, SeenKept DEF VerifyAtOpenDoor, UnchangedByVerification
  <2>5. CASE VerifyRefused(p, way, inTime)
    BY <1>0, <2>5, SeenKept DEF VerifyRefused, UnchangedByVerification
  <2> QED
    BY <1>1, <2>1, <2>2, <2>3, <2>4, <2>5 DEF Verify
<1>2. CASE \E p \in People, way \in getCurrentState, inTime \in BOOLEAN : Verify(p, way, inTime)
  BY <1>1, <1>2, WaysTyped
<1>3. CASE Tick
  BY <1>0, <1>3, SeenKept DEF Tick
<1>4. CASE SetBack
  BY <1>0, <1>4, SeenKept DEF SetBack
<1>5. CASE ForceByTimeZone
  BY <1>0, <1>5, SeenKept DEF ForceByTimeZone
<1>6. CASE CloseWindow
  BY <1>0, <1>6, SeenEmptied DEF CloseWindow, NobodyWaits
<1>9. CASE Restart
  BY <1>0, <1>9, SeenEmptied DEF Restart, NobodyWaits
<1>7. CASE ClearData
  BY <1>0, <1>7, SeenKept DEF ClearData
<1>8. CASE UNCHANGED vars
  BY <1>0, <1>8, SeenKept DEF vars
<1> QED
  BY <1>2, <1>3, <1>4, <1>5, <1>6, <1>7, <1>8, <1>9 DEF Next

\* The lock opens only for enough different people, each of whom verified
\* within the window and has not counted for an opening since, while the clock
\* is not set back (TestOpenLock).
THEOREM OpeningNeedsEnough == Spec => OpenNeedsEnough
<1> DEFINE Opening ==
      (gLockForceAction = "NONE" /\ ~setback) =>
        \A p \in People :
          (\E way \in Ways, inTime \in BOOLEAN : VerifyOpens(p, way, inTime)) =>
            \E S \in SUBSET People :
              /\ p \in S /\ Enough(S)
              /\ \A q \in S \ {p} : seen[q] # Never /\ gCurTime - seen[q] <= Window
<1>1. SeenInv => Opening
  BY OpeningSeen DEF VerifyOpens
<1>2. Spec => []SeenInv
  BY SeenInit, SeenStep, PTL DEF Spec
<1> QED
  BY <1>1, <1>2, PTL DEF OpenNeedsEnough

=============================================================================
