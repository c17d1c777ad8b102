-------------------------- MODULE PushSession_proofs --------------------------
(***************************************************************************)
(* The session with the push server, proved for every log of changes, every *)
(* size of the list and of a packet, and any number of troubles: its types, *)
(* that the terminal and the server keep the same key, and that the version *)
(* it reports is honest.                                                    *)
(***************************************************************************)
EXTENDS PushSession, FiniteSetTheorems, SequenceTheorems, TLAPS

-----------------------------------------------------------------------------
(* Types.                                                                   *)

LEMMA Lengths == Len(Changes) \in Nat /\ Version \subseteq Nat /\ 0 \in Version
  BY ListAssumption DEF Version

LEMMA KeysTyped == /\ KeyBound \in Nat /\ 0 \in Keys
                   /\ \A k \in Keys : k < KeyBound => k + 1 \in Keys
  BY TroubleAssumption DEF Keys

LEMMA ChangeTyped ==
  ASSUME NEW v \in Version, v > 0
  PROVE  Changes[v].who \in People /\ Changes[v].there \in BOOLEAN
<1>1. v \in 1 .. Len(Changes)
  BY Lengths DEF Version
<1>2. Changes[v] \in [who : People, there : BOOLEAN]
  BY <1>1, ListAssumption, ElementOfSeq, Zenon
<1> QED
  BY <1>2

LEMMA SpendTyped ==
  ASSUME TypeOK, NEW t \in Troubles, Spend(t)
  PROVE  trouble' \in [Troubles -> Nat]
  BY DEF Spend, TypeOK

LEMMA EndBeatTyped ==
  ASSUME TypeOK, NEW good \in BOOLEAN, EndBeat(good)
  PROVE  pc' \in {"report", "idle"} /\ connect' \in BOOLEAN
  BY DEF EndBeat, TypeOK

LEMMA NextTyped ==
  ASSUME TypeOK, Applying
  PROVE  /\ packet.next \in Version /\ packet.next > 0
         /\ [packet EXCEPT !.next = @ + 1]
              \in [next : 1 .. Len(Changes) + 1, last : Version, failed : BOOLEAN]
         /\ [packet EXCEPT !.next = @ + 1, !.failed = TRUE]
              \in [next : 1 .. Len(Changes) + 1, last : Version, failed : BOOLEAN]
<1>1. packet.next \in Nat /\ packet.next > 0 /\ packet.last \in Nat
        /\ packet.last <= Len(Changes) /\ packet.next <= packet.last
  BY Lengths DEF TypeOK, Applying, Version
<1>2. packet.next + 1 \in 1 .. Len(Changes) + 1 /\ packet.next \in Version
  BY <1>1, Lengths DEF Version
<1> QED
  BY <1>1, <1>2 DEF TypeOK

LEMMA TypeInit == Init => TypeOK
<1> SUFFICES ASSUME Init PROVE TypeOK
  OBVIOUS
<1>1. Len(Changes) + 1 >= 1
  BY Lengths
<1>2. packet \in [next : 1 .. Len(Changes) + 1, last : Version, failed : BOOLEAN]
  BY <1>1, Lengths DEF Init, NoPacket
<1> QED
  BY <1>2, Lengths, KeysTyped, TroubleAssumption DEF Init, TypeOK

LEMMA TypeStep == TypeOK /\ [Next]_vars => TypeOK'
<1> SUFFICES ASSUME TypeOK, [Next]_vars PROVE TypeOK'
  OBVIOUS
<1> USE DEF options, ram, loading, server, history
<1>1. CASE Register
  BY <1>1 DEF Register, TypeOK
<1>2. CASE OpenDev
  BY <1>2, KeysTyped DEF OpenDev, Issue, TypeOK
<1>3. CASE SaveFlag
  BY <1>3 DEF SaveFlag, TypeOK
<1>4. CASE HeartbeatRefused
  BY <1>4, EndBeatTyped DEF HeartbeatRefused, TypeOK
<1>5. CASE Heartbeat
  BY ZenonT(60), <1>5, EndBeatTyped DEF Heartbeat, TypeOK
<1>6. CASE Report
  <2>1. trouble' \in [Troubles -> Nat] /\ connect' \in BOOLEAN
    BY <1>6, SpendTyped DEF Report, TypeOK, Troubles
  <2> QED
    BY <1>6, <2>1 DEF Report, TypeOK
<1>7. CASE UpdateCommKey
  <2>1. pc' \in {"save", "answer", "report", "idle"} /\ connect' \in BOOLEAN
    BY <1>7, EndBeatTyped DEF UpdateCommKey, GoOn, KeyStep, TypeOK
  <2> QED
    BY <1>7, <2>1, KeysTyped DEF UpdateCommKey, Issue, TypeOK
<1>8. CASE SaveKey
  <2>1. pc' \in {"save", "answer", "report", "idle"} /\ connect' \in BOOLEAN
    BY <1>8, EndBeatTyped DEF SaveKey, GoOn, KeyStep, TypeOK
  <2> QED
    BY <1>8, <2>1, KeysTyped DEF SaveKey, TypeOK
<1>9. CASE AnswerKey
  <2>1. pc' \in {"save", "answer", "report", "idle"} /\ connect' \in BOOLEAN
    BY <1>9, EndBeatTyped DEF AnswerKey, GoOn, KeyStep, TypeOK
  <2> QED
    BY <1>9, <2>1, KeysTyped DEF AnswerKey, TypeOK
<1>10. CASE DownUserInfo
  <2>1. packet' \in [next : 1 .. Len(Changes) + 1, last : Version, failed : BOOLEAN]
    BY <1>10, Lengths DEF DownUserInfo, TypeOK, Version
  <2> QED
    BY <1>10, <2>1 DEF DownUserInfo, TypeOK
<1>11. CASE EraseUserInfo
  <2>1. trouble' \in [Troubles -> Nat]
    BY <1>11, SpendTyped DEF EraseUserInfo, Troubles
  <2> QED
    BY <1>11, <2>1, Lengths DEF EraseUserInfo, TypeOK
<1>12. CASE UserUpdate
  <2>1. packet' \in [next : 1 .. Len(Changes) + 1, last : Version, failed : BOOLEAN]
    BY <1>12, NextTyped DEF UserUpdate
  <2>2. Change.who \in People
    BY <1>12, NextTyped, ChangeTyped DEF UserUpdate, Change
  <2> QED
    BY <1>12, <2>1, <2>2 DEF UserUpdate, TypeOK
<1>13. CASE UserUpdateFails
  <2>1. packet' \in [next : 1 .. Len(Changes) + 1, last : Version, failed : BOOLEAN]
    BY <1>13, NextTyped DEF UserUpdateFails
  <2>2. trouble' \in [Troubles -> Nat]
    BY <1>13, SpendTyped DEF UserUpdateFails, Troubles, TypeOK
  <2> QED
    BY <1>13, <2>1, <2>2 DEF UserUpdateFails, TypeOK
<1>14. CASE UserIllegal
  <2>1. trouble' \in [Troubles -> Nat]
    BY <1>14, SpendTyped DEF UserIllegal, Troubles
  <2>2. pc' \in {"report", "idle"} /\ connect' \in BOOLEAN
    BY <1>14, EndBeatTyped DEF UserIllegal
  <2> QED
    BY <1>14, <2>1, <2>2 DEF UserIllegal, TypeOK
<1>15. CASE PacketDone
  <2>1. masked' \in BOOLEAN
    BY <1>15 DEF PacketDone
  <2> QED
    BY <1>15, <2>1 DEF PacketDone, TypeOK
<1>16. CASE PacketFailed
  <2>1. trouble' \in [Troubles -> Nat]
    BY <1>16, SpendTyped DEF PacketFailed, Troubles, TypeOK
  <2>2. stale' \in BOOLEAN
    BY <1>16 DEF PacketFailed
  <2> QED
    BY <1>16, <2>1, <2>2 DEF PacketFailed, TypeOK
<1>17. CASE ListFull
  <2>1. pc' \in {"report", "idle"} /\ connect' \in BOOLEAN
    BY <1>17, EndBeatTyped DEF ListFull
  <2> QED
    BY <1>17, <2>1 DEF ListFull, TypeOK
<1>18. CASE SaveVersion
  <2>1. trouble' \in [Troubles -> Nat]
    BY <1>18, SpendTyped DEF SaveVersion, TypeOK, Troubles
  <2>2. pc' \in {"report", "idle"} /\ connect' \in BOOLEAN
    BY <1>18, EndBeatTyped DEF SaveVersion
  <2> QED
    BY <1>18, <2>1, <2>2 DEF SaveVersion, Reported, TypeOK
<1>19. CASE OpenDevLost
  <2>1. trouble' \in [Troubles -> Nat]
    BY <1>19, SpendTyped DEF OpenDevLost, Troubles
  <2> QED
    BY <1>19, <2>1 DEF OpenDevLost, TypeOK
<1>20. CASE HeartbeatLost
  <2>1. trouble' \in [Troubles -> Nat]
    BY <1>20, SpendTyped DEF HeartbeatLost, Troubles
  <2>2. pc' \in {"report", "idle"} /\ connect' \in BOOLEAN
    BY <1>20, EndBeatTyped DEF HeartbeatLost
  <2> QED
    BY <1>20, <2>1, <2>2 DEF HeartbeatLost, TypeOK
<1>21. CASE AnswerKeyLost
  <2>1. trouble' \in [Troubles -> Nat]
    BY <1>21, SpendTyped DEF AnswerKeyLost, Troubles
  <2>2. pc' \in {"report", "idle"} /\ connect' \in BOOLEAN
    BY <1>21, EndBeatTyped DEF AnswerKeyLost, GoOn, KeyStep
  <2> QED
    BY <1>21, <2>1, <2>2 DEF AnswerKeyLost, TypeOK
<1>22. CASE Crash
  <2>1. trouble' \in [Troubles -> Nat]
    BY <1>22, SpendTyped DEF Crash, Troubles
  <2>2. packet' \in [next : 1 .. Len(Changes) + 1, last : Version, failed : BOOLEAN]
    BY <1>22, Lengths DEF Crash, NoPacket
  <2>3. torn' \in BOOLEAN /\ unheard' \in BOOLEAN
    BY <1>22 DEF Crash
  <2> QED
    BY <1>22, <2>1, <2>2, <2>3, KeysTyped, Lengths DEF Crash, TypeOK
<1>23. CASE UNCHANGED vars
  BY <1>23 DEF vars, TypeOK
<1> QED
  BY <1>1, <1>2, <1>3, <1>4, <1>5, <1>6, <1>7, <1>8, <1>9, <1>10, <1>11, <1>12, <1>13,
     <1>14, <1>15, <1>16, <1>17, <1>18, <1>19, <1>20, <1>21, <1>22, <1>23
  DEF Next, Session

\* The variables of the session have their types, for every log, list and
\* number of troubles.
THEOREM TypeCorrect == Spec => []TypeOK
  BY TypeInit, TypeStep, PTL DEF Spec
-----------------------------------------------------------------------------
(* The key.  While it is being changed the terminal has the new one and the *)
(* server still the old one, or the server has it and the flag is not saved. *)

KeyInv ==
  /\ pc \in {"open", "flag"} => ~RegistOpenFlag
  /\ pc \in {"save", "answer"} => RegistOpenFlag
  /\ pc = "answer" => commkey = push_comm_key
  /\ pc = "flag" => push_comm_key = serverKey
  /\ SameKey

LEMMA EndBeatIdle ==
  ASSUME NEW good, EndBeat(good)
  PROVE  pc' \in {"report", "idle"}
  BY DEF EndBeat

LEMMA KeyStays ==
  ASSUME KeyInv, pc # "answer", unheard' = unheard,
         UNCHANGED <<RegistOpenFlag, push_comm_key, serverKey>>,
         pc' \notin {"open", "flag", "save", "answer"}
  PROVE  KeyInv'
  BY DEF KeyInv, SameKey

LEMMA KeyInit == Init => KeyInv
  BY DEF Init, KeyInv, SameKey

LEMMA KeyStepKept == KeyInv /\ [Next]_vars => KeyInv'
<1> SUFFICES ASSUME KeyInv, [Next]_vars PROVE KeyInv'
  OBVIOUS
<1> USE DEF options, ram, loading, server, history
<1>1. CASE Register
  BY <1>1 DEF Register, KeyInv, SameKey
<1>2. CASE OpenDev
  BY <1>2 DEF OpenDev, KeyInv, SameKey
<1>3. CASE SaveFlag
  BY <1>3 DEF SaveFlag, KeyInv, SameKey
<1>4. CASE HeartbeatRefused
  BY <1>4, EndBeatIdle, KeyStays DEF HeartbeatRefused, Beat
<1>5. CASE Heartbeat
  BY <1>5, EndBeatIdle, KeyStays DEF Heartbeat, Beat
<1>6. CASE Report
  BY <1>6, KeyStays DEF Report
<1>7. CASE UpdateCommKey
  BY <1>7 DEF UpdateCommKey, Beat, MacRight, GoOn, KeyStep, KeyInv, SameKey
<1>8. CASE SaveKey
  BY <1>8 DEF SaveKey, GoOn, KeyStep, KeyInv, SameKey
<1>9. CASE AnswerKey
  <2>1. pc' \in {"report", "idle"}
    BY <1>9, EndBeatIdle DEF AnswerKey, GoOn, KeyStep
  <2> QED
    BY <1>9, <2>1 DEF AnswerKey, KeyInv, SameKey
<1>10. CASE DownUserInfo
  BY <1>10, KeyStays DEF DownUserInfo, Beat
<1>11. CASE EraseUserInfo
  BY <1>11, KeyStays DEF EraseUserInfo, Beat
<1>12. CASE UserUpdate
  BY <1>12, KeyStays DEF UserUpdate, Applying
<1>13. CASE UserUpdateFails
  BY <1>13, KeyStays DEF UserUpdateFails, Applying
<1>14. CASE UserIllegal
  BY <1>14, EndBeatIdle, KeyStays DEF UserIllegal, Applying
<1>15. CASE PacketDone
  BY <1>15, KeyStays DEF PacketDone
<1>16. CASE PacketFailed
  BY <1>16, KeyStays DEF PacketFailed
<1>17. CASE ListFull
  BY <1>17, EndBeatIdle, KeyStays DEF ListFull
<1>18. CASE SaveVersion
  BY <1>18, EndBeatIdle, KeyStays DEF SaveVersion
<1>19. CASE OpenDevLost
  BY <1>19, KeyStays DEF OpenDevLost
<1>20. CASE HeartbeatLost
  BY <1>20, EndBeatIdle, KeyStays DEF HeartbeatLost, Beat
<1>21. CASE AnswerKeyLost
  <2>1. pc' \in {"report", "idle"}
    BY <1>21, EndBeatIdle DEF AnswerKeyLost, GoOn, KeyStep
  <2> QED
    BY <1>21, <2>1 DEF AnswerKeyLost, KeyInv, SameKey
<1>22. CASE Crash
  BY <1>22 DEF Crash, KeyInv, SameKey
<1>23. CASE UNCHANGED vars
  BY <1>23 DEF vars, KeyInv, SameKey
<1> QED
  BY <1>1, <1>2, <1>3, <1>4, <1>5, <1>6, <1>7, <1>8, <1>9, <1>10, <1>11, <1>12, <1>13,
     <1>14, <1>15, <1>16, <1>17, <1>18, <1>19, <1>20, <1>21, <1>22, <1>23
  DEF Next, Session

\* A registered terminal and the server have the same key between any two
\* steps of the change of the key and through any power cut, unless the answer
\* to a new key was lost (updatecommkey).
THEOREM SameKeyHolds == Spec => []SameKey
<1>1. KeyInv => SameKey
  BY DEF KeyInv
<1> QED
  BY <1>1, KeyInit, KeyStepKept, PTL DEF Spec

-----------------------------------------------------------------------------
(* The version.  Whoever is on file, or not, is so as in some version from  *)
(* the reported one on; the packet in hand moves that version up one change *)
(* at a time, as long as none has failed.                                   *)

Matches(p, on, lo) == \E v \in lo .. Len(Changes) : on = There(p, v)
AllFrom(lo) == \A p \in People : Matches(p, p \in users, lo)

Honest == ~masked /\ ~torn /\ ~stale

ReportedInv == pc # "erased" => AllFrom(UserVersion)
ApplyInv ==
  pc = "apply" => /\ packet.next > UserVersion
                  /\ packet.next <= packet.last + 1
                  /\ ~packet.failed => AllFrom(packet.next - 1)
CountInv == pc = "count" => AllFrom(ListVer)
ErasedInv == pc = "erased" => ListVer = 0 /\ users = {}
RoomInv == UserVersion > 0 => MaxUserCount > 0

VersionInv ==
  /\ TypeOK
  /\ ErasedInv /\ RoomInv
  /\ Honest => ReportedInv /\ ApplyInv /\ CountInv

LEMMA ThereZero == \A p : There(p, 0) = FALSE
  BY DEF There

\* A change decides about its person and leaves everyone else as they were.
LEMMA ThereStep ==
  ASSUME NEW p, NEW v \in Version, v > 0
  PROVE  There(p, v) = IF Changes[v].who = p THEN Changes[v].there ELSE There(p, v - 1)
<1>0. v \in Nat /\ v > 0
  BY Lengths
<1>1. CASE Changes[v].who = p
  <2> DEFINE about == {w \in 1 .. v : Changes[w].who = p}
             last == CHOOSE w \in about : \A x \in about : x <= w
  <2>1. v \in about /\ \A x \in about : x <= v
    BY <1>0, <1>1
  <2>2. last \in about /\ \A x \in about : x <= last
    BY <2>1
  <2>3. last = v
    BY <1>0, <2>1, <2>2
  <2>4. There(p, v) = (about # {} /\ Changes[last].there)
    BY DEF There
  <2>5. Changes[v].there \in BOOLEAN
    BY ChangeTyped
  <2> HIDE DEF about, last
  <2> QED
    BY <1>1, <2>1, <2>3, <2>4, <2>5
<1>2. CASE Changes[v].who # p
  <2>1. {w \in 1 .. v : Changes[w].who = p} = {w \in 1 .. v - 1 : Changes[w].who = p}
    BY <1>0, <1>2
  <2> QED
    BY <1>2, <2>1 DEF There
<1> QED
  BY <1>1, <1>2

LEMMA MatchesFrom ==
  ASSUME NEW p, NEW on, NEW lo \in Nat, NEW hi \in Nat, lo <= hi, Matches(p, on, hi)
  PROVE  Matches(p, on, lo)
<1>1. PICK v \in hi .. Len(Changes) : on = There(p, v)
  BY DEF Matches
<1>2. v \in lo .. Len(Changes)
  BY <1>1, Lengths
<1> QED
  BY <1>1, <1>2 DEF Matches

LEMMA NobodyFromZero == users = {} => AllFrom(0)
<1> SUFFICES ASSUME users = {}, NEW p \in People PROVE Matches(p, p \in users, 0)
  BY DEF AllFrom
<1>1. 0 \in 0 .. Len(Changes)
  BY Lengths
<1>2. (p \in users) = FALSE
  OBVIOUS
<1>3. There(p, 0) = FALSE
  BY ThereZero
<1>4. (p \in users) = There(p, 0)
  BY <1>2, <1>3
<1> QED
  BY <1>1, <1>4 DEF Matches

LEMMA RoomTyped ==
  ASSUME TypeOK
  PROVE  MaxUserCount \in Nat /\ Cardinality(users) \in Nat /\ (users = {} => UserRemain = MaxUserCount)
<1>1. MaxUserCount \in Nat
  BY RoomAssumption DEF TypeOK
<1>2. IsFiniteSet(users)
  BY ListAssumption, FS_Subset DEF TypeOK
<1>3. Cardinality(users) \in Nat
  BY <1>2, FS_CardinalityType
<1>4. users = {} => Cardinality(users) = 0
  BY FS_EmptySet
<1> QED
  BY <1>1, <1>3, <1>4 DEF UserRemain

\* A change that is made takes everyone who matched from before it on to
\* match from it on.
LEMMA Moved ==
  ASSUME TypeOK, UserUpdate, NEW p \in People
  PROVE  /\ Change.who = p => Matches(p, p \in users', packet.next)
         /\ Change.who # p => (p \in users') = (p \in users)
         /\ Matches(p, p \in users, packet.next - 1) => Matches(p, p \in users', packet.next)
<1> DEFINE v == packet.next
<1>1. v \in Version /\ v > 0 /\ v \in Nat
  BY NextTyped, Lengths DEF UserUpdate
<1>2. Change = Changes[v] /\ Change.there \in BOOLEAN
  BY <1>1, ChangeTyped DEF Change
<1>3. users' = IF Change.there THEN users \cup {Change.who} ELSE users \ {Change.who}
  BY DEF UserUpdate
<1>4. v \in v .. Len(Changes)
  BY <1>1, Lengths DEF Version
<1> HIDE DEF v
<1>5. ASSUME Change.who = p PROVE Matches(p, p \in users', v)
  <2>1. (p \in users') = Change.there
    BY <1>2, <1>3, <1>5
  <2>2. There(p, v) = Change.there
    BY <1>1, <1>2, <1>5, ThereStep
  <2> QED
    BY <1>4, <2>1, <2>2 DEF Matches
<1>6. ASSUME Change.who # p PROVE (p \in users') = (p \in users)
  BY <1>3, <1>6
<1>7. ASSUME Change.who # p, Matches(p, p \in users, v - 1) PROVE Matches(p, p \in users', v)
  <2>1. PICK w \in (v - 1) .. Len(Changes) : (p \in users) = There(p, w)
    BY <1>7 DEF Matches
  <2>2. CASE w = v - 1
    <3>1. There(p, v) = There(p, w)
      BY <1>1, <1>2, <1>7, <2>2, ThereStep
    <3> QED
      BY <1>4, <1>6, <1>7, <2>1, <3>1 DEF Matches
  <2>3. CASE w # v - 1
    <3>1. w \in v .. Len(Changes)
      BY <1>1, <2>1, <2>3, Lengths
    <3> QED
      BY <1>6, <1>7, <2>1, <3>1 DEF Matches
  <2> QED
    BY <2>2, <2>3
<1> QED
  BY <1>5, <1>6, <1>7 DEF v

-----------------------------------------------------------------------------

LEMMA VersionInit == Init => VersionInv
<1> SUFFICES ASSUME Init PROVE VersionInv
  OBVIOUS
<1>1. AllFrom(0)
  BY NobodyFromZero DEF Init
<1> QED
  BY <1>1, TypeInit
  DEF Init, VersionInv, ErasedInv, RoomInv, ReportedInv, ApplyInv, CountInv

\* A step that leaves list, versions and packet alone, and begins nothing.
LEMMA VersionStays ==
  ASSUME VersionInv, TypeOK', UNCHANGED <<users, UserVersion, MaxUserCount>>,
         Honest' => Honest, pc # "erased", pc' \notin {"apply", "count", "erased"}
  PROVE  VersionInv'
<1>1. ErasedInv' /\ RoomInv'
  BY DEF VersionInv, ErasedInv, RoomInv
<1>2. AllFrom(UserVersion) => AllFrom(UserVersion)'
  BY DEF AllFrom, Matches, There
<1>3. Honest' => ReportedInv' /\ ApplyInv' /\ CountInv'
  BY <1>2 DEF VersionInv, ReportedInv, ApplyInv, CountInv
<1> QED
  BY <1>1, <1>3 DEF VersionInv

\* A version nobody has: with the list erased the terminal reports 0, or has
\* no room for anyone.
LEMMA ErasedAll ==
  ASSUME VersionInv, pc = "erased"
  PROVE  /\ AllFrom(0) /\ ListVer = 0
         /\ UserRemain <= 0 => UserVersion = 0
<1>1. AllFrom(0) /\ ListVer = 0 /\ users = {}
  BY NobodyFromZero DEF VersionInv, ErasedInv
<1>2. UserVersion \in Nat
  BY Lengths DEF VersionInv, TypeOK
<1>3. UserRemain <= 0 => ~(MaxUserCount > 0)
  BY <1>1, RoomTyped DEF VersionInv
<1> QED
  BY <1>1, <1>2, <1>3 DEF VersionInv, RoomInv

LEMMA VersionStep == VersionInv /\ [Next]_vars => VersionInv'
<1> SUFFICES ASSUME VersionInv, [Next]_vars PROVE VersionInv'
  OBVIOUS
<1>t. TypeOK /\ TypeOK'
  BY TypeStep DEF VersionInv
<1> USE DEF options, ram, loading, server, history
<1>1. CASE Register
  BY <1>1, <1>t, VersionStays DEF Register, Honest
<1>2. CASE OpenDev
  BY <1>2, <1>t, VersionStays DEF OpenDev, Honest
<1>3. CASE SaveFlag
  BY <1>3, <1>t, VersionStays DEF SaveFlag, Honest
<1>4. CASE HeartbeatRefused
  BY <1>4, <1>t, EndBeatIdle, VersionStays DEF HeartbeatRefused, Beat, Honest
<1>5. CASE Heartbeat
  BY <1>5, <1>t, EndBeatIdle, VersionStays DEF Heartbeat, Beat, Honest
<1>6. CASE Report
  BY <1>6, <1>t, VersionStays DEF Report, Honest
<1>7. CASE UpdateCommKey
  BY <1>7, <1>t, VersionStays DEF UpdateCommKey, Beat, GoOn, KeyStep, Honest
<1>8. CASE SaveKey
  BY <1>8, <1>t, VersionStays DEF SaveKey, GoOn, KeyStep, Honest
<1>9. CASE AnswerKey
  <2>1. pc' \in {"report", "idle"}
    BY <1>9, EndBeatIdle DEF AnswerKey, GoOn, KeyStep
  <2> QED
    BY <1>9, <1>t, <2>1, VersionStays DEF AnswerKey, Honest
<1>10. CASE DownUserInfo
  <2>1. pc = "idle" /\ pc' = "apply" /\ UNCHANGED <<users, UserVersion, MaxUserCount>>
          /\ (Honest' => Honest)
    BY <1>10 DEF DownUserInfo, Beat, Honest
  <2>2. PICK last \in Version :
          /\ UserVersion < last
          /\ packet' = [next |-> UserVersion + 1, last |-> last, failed |-> FALSE]
    BY <1>10 DEF DownUserInfo
  <2>3. UserVersion \in Nat /\ last \in Nat
    BY <1>t, Lengths DEF TypeOK
  <2>4. AllFrom(UserVersion) => AllFrom(UserVersion)'
    BY <2>1 DEF AllFrom, Matches, There
  <2>5. packet'.next - 1 = UserVersion' /\ packet'.next > UserVersion'
          /\ packet'.next <= packet'.last + 1
    BY <2>1, <2>2, <2>3
  <2>6. Honest => AllFrom(UserVersion)'
    BY <2>1, <2>4 DEF VersionInv, ReportedInv
  <2>7. ErasedInv' /\ RoomInv'
    BY <2>1 DEF VersionInv, ErasedInv, RoomInv
  <2>8. AllFrom(UserVersion)' => AllFrom(packet.next - 1)'
    BY <2>5 DEF AllFrom
  <2>9. Honest' => ReportedInv' /\ ApplyInv' /\ CountInv'
    BY <2>1, <2>5, <2>6, <2>8 DEF ReportedInv, ApplyInv, CountInv
  <2> QED
    BY <1>t, <2>7, <2>9 DEF VersionInv
<1>11. CASE EraseUserInfo
  BY <1>11, <1>t
  DEF EraseUserInfo, VersionInv, ErasedInv, RoomInv, ReportedInv, ApplyInv, CountInv
<1>12. CASE UserUpdate
  <2>1. pc = "apply" /\ pc' = "apply" /\ UNCHANGED <<UserVersion, MaxUserCount>>
          /\ (Honest' => Honest)
    BY <1>12 DEF UserUpdate, Applying, Honest
  <2>2. packet' = [packet EXCEPT !.next = @ + 1] /\ packet.next <= packet.last
    BY <1>12 DEF UserUpdate, Applying
  <2>3. packet.next \in Nat /\ packet.last \in Nat /\ UserVersion \in Nat
          /\ packet.next > 0
    BY <1>t, <1>12, NextTyped, Lengths DEF TypeOK, UserUpdate
  <2>4. packet'.next = packet.next + 1 /\ packet'.last = packet.last
          /\ packet'.failed = packet.failed
    BY <1>t, <2>2 DEF TypeOK
  <2>5. ASSUME Honest'
        PROVE  /\ packet'.next > UserVersion' /\ packet'.next <= packet'.last + 1
               /\ ~packet'.failed => AllFrom(packet.next - 1)'
               /\ AllFrom(UserVersion)'
    <3>1. packet.next > UserVersion /\ AllFrom(UserVersion)
            /\ (~packet.failed => AllFrom(packet.next - 1))
      BY <2>1, <2>5 DEF VersionInv, ReportedInv, ApplyInv
    <3>2. packet'.next > UserVersion' /\ packet'.next <= packet'.last + 1
            /\ packet'.next - 1 = packet.next
      BY <2>1, <2>2, <2>3, <2>4, <3>1
    <3>3. ASSUME ~packet.failed, NEW p \in People
          PROVE  Matches(p, p \in users', packet.next)
      BY <1>t, <1>12, <3>1, <3>3, Moved DEF AllFrom
    <3>4. ASSUME NEW p \in People PROVE Matches(p, p \in users', UserVersion)
      <4>1. CASE Change.who = p
        <5>1. Matches(p, p \in users', packet.next)
          BY <1>t, <1>12, <4>1, Moved
        <5> QED
          BY <2>3, <3>1, <5>1, MatchesFrom
      <4>2. CASE Change.who # p
        BY <1>t, <1>12, <3>1, <4>2, Moved DEF AllFrom
      <4> QED
        BY <4>1, <4>2
    <3>5. AllFrom(UserVersion)'
      BY <2>1, <3>4 DEF AllFrom, Matches, There
    <3>6. ~packet.failed => AllFrom(packet.next - 1)'
      BY <3>2, <3>3 DEF AllFrom, Matches, There
    <3> QED
      BY <2>4, <3>2, <3>5, <3>6
  <2>6. ErasedInv' /\ RoomInv'
    BY <2>1 DEF VersionInv, ErasedInv, RoomInv
  <2>7. Honest' => ReportedInv' /\ ApplyInv' /\ CountInv'
    BY <2>1, <2>5 DEF ReportedInv, ApplyInv, CountInv
  <2> QED
    BY <1>t, <2>6, <2>7 DEF VersionInv
<1>13. CASE UserUpdateFails
  <2>1. pc = "apply" /\ pc' = "apply" /\ UNCHANGED <<users, UserVersion, MaxUserCount>>
          /\ (Honest' => Honest)
    BY <1>13 DEF UserUpdateFails, Applying, Honest
  <2>2. packet' = [packet EXCEPT !.next = @ + 1, !.failed = TRUE]
          /\ packet.next <= packet.last
    BY <1>13 DEF UserUpdateFails, Applying
  <2>3. packet.next \in Nat /\ packet.last \in Nat /\ UserVersion \in Nat
    BY <1>t, <1>13, NextTyped, Lengths DEF TypeOK, UserUpdateFails
  <2>4. packet'.next = packet.next + 1 /\ packet'.last = packet.last /\ packet'.failed = TRUE
    BY <1>t, <2>2 DEF TypeOK
  <2>5. AllFrom(UserVersion) => AllFrom(UserVersion)'
    BY <2>1 DEF AllFrom, Matches, There
  <2>6. Honest' => packet'.next > UserVersion' /\ packet'.next <= packet'.last + 1
    BY <2>1, <2>2, <2>3, <2>4 DEF VersionInv, ApplyInv
  <2>7. ErasedInv' /\ RoomInv'
    BY <2>1 DEF VersionInv, ErasedInv, RoomInv
  <2>8. Honest' => ReportedInv' /\ ApplyInv' /\ CountInv'
    BY <2>1, <2>4, <2>5, <2>6 DEF VersionInv, ReportedInv, ApplyInv, CountInv
  <2> QED
    BY <1>t, <2>7, <2>8 DEF VersionInv
<1>14. CASE UserIllegal
  BY <1>14, <1>t, EndBeatIdle, VersionStays DEF UserIllegal, Applying, Honest
<1>15. CASE PacketDone
  <2>1. pc = "apply" /\ pc' = "count" /\ UNCHANGED <<users, UserVersion, MaxUserCount>>
          /\ (Honest' => Honest /\ ~packet.failed)
          /\ ListVer' = packet.last /\ packet.next > packet.last
    BY <1>15 DEF PacketDone, Counts, Honest
  <2>2. packet.next \in Nat /\ packet.last \in Nat
    BY <1>t, Lengths DEF TypeOK, Version
  <2>3. AllFrom(UserVersion) => AllFrom(UserVersion)'
    BY <2>1 DEF AllFrom, Matches, There
  <2>4. ASSUME Honest' PROVE AllFrom(ListVer)'
    <3>1. packet.next <= packet.last + 1 /\ AllFrom(packet.next - 1)
      BY <2>1, <2>4 DEF VersionInv, ApplyInv
    <3>2. packet.next - 1 = ListVer'
      BY <2>1, <2>2, <3>1
    <3> QED
      BY <2>1, <3>1, <3>2 DEF AllFrom, Matches, There
  <2>5. ErasedInv' /\ RoomInv'
    BY <2>1 DEF VersionInv, ErasedInv, RoomInv
  <2>6. Honest' => ReportedInv' /\ ApplyInv' /\ CountInv'
    BY <2>1, <2>3, <2>4 DEF VersionInv, ReportedInv, ApplyInv, CountInv
  <2> QED
    BY <1>t, <2>5, <2>6 DEF VersionInv
<1>16. CASE PacketFailed
  <2>1. pc = "apply" /\ pc' = "count" /\ UNCHANGED <<users, UserVersion, ListVer, MaxUserCount>>
          /\ (Honest' => Honest /\ ~(ListVer > UserVersion))
    BY <1>16 DEF PacketFailed, Honest
  <2>2. UserVersion \in Nat /\ ListVer \in Nat
    BY <1>t, Lengths DEF TypeOK
  <2>3. AllFrom(UserVersion) => AllFrom(UserVersion)'
    BY <2>1 DEF AllFrom, Matches, There
  <2>4. ASSUME Honest' PROVE AllFrom(ListVer)'
    <3>1. AllFrom(UserVersion) /\ ListVer <= UserVersion
      BY <2>1, <2>2, <2>4 DEF VersionInv, ReportedInv
    <3>2. AllFrom(ListVer)
      BY <2>2, <3>1, MatchesFrom DEF AllFrom
    <3> QED
      BY <2>1, <3>2 DEF AllFrom, Matches, There
  <2>5. ErasedInv' /\ RoomInv'
    BY <2>1 DEF VersionInv, ErasedInv, RoomInv
  <2>6. Honest' => ReportedInv' /\ ApplyInv' /\ CountInv'
    BY <2>1, <2>3, <2>4 DEF VersionInv, ReportedInv, ApplyInv, CountInv
  <2> QED
    BY <1>t, <2>5, <2>6 DEF VersionInv
<1>17. CASE ListFull
  <2>1. pc \in {"count", "erased"} /\ pc' \in {"report", "idle"} /\ UserRemain <= 0
          /\ UNCHANGED <<users, UserVersion, MaxUserCount>> /\ (Honest' => Honest)
    BY <1>17, EndBeatIdle DEF ListFull, Honest
  <2>2. Honest => AllFrom(UserVersion)
    BY <2>1, ErasedAll DEF VersionInv, ReportedInv
  <2>3. AllFrom(UserVersion) => AllFrom(UserVersion)'
    BY <2>1 DEF AllFrom, Matches, There
  <2>4. ErasedInv' /\ RoomInv'
    BY <2>1 DEF VersionInv, ErasedInv, RoomInv
  <2>5. Honest' => ReportedInv' /\ ApplyInv' /\ CountInv'
    BY <2>1, <2>2, <2>3 DEF ReportedInv, ApplyInv, CountInv
  <2> QED
    BY <1>t, <2>4, <2>5 DEF VersionInv
<1>18. CASE SaveVersion
  <2>1. pc \in {"count", "erased"} /\ pc' \in {"report", "idle"} /\ UserRemain > 0
          /\ UserVersion' = ListVer
          /\ UNCHANGED <<users, MaxUserCount>> /\ (Honest' => Honest)
    BY <1>18, EndBeatIdle DEF SaveVersion, Reported, Honest
  <2>2. Honest => AllFrom(ListVer)
    BY <2>1, ErasedAll DEF VersionInv, CountInv
  <2>3. AllFrom(ListVer) => AllFrom(UserVersion)'
    BY <2>1 DEF AllFrom, Matches, There
  <2>4. MaxUserCount > 0
    BY <1>t, <2>1, RoomTyped DEF UserRemain
  <2>5. ErasedInv' /\ RoomInv'
    BY <2>1, <2>4 DEF ErasedInv, RoomInv
  <2>6. Honest' => ReportedInv' /\ ApplyInv' /\ CountInv'
    BY <2>1, <2>2, <2>3 DEF ReportedInv, ApplyInv, CountInv
  <2> QED
    BY <1>t, <2>5, <2>6 DEF VersionInv
<1>19. CASE OpenDevLost
  BY <1>19, <1>t, VersionStays DEF OpenDevLost, Honest
<1>20. CASE HeartbeatLost
  BY <1>20, <1>t, EndBeatIdle, VersionStays DEF HeartbeatLost, Beat, Honest
<1>21. CASE AnswerKeyLost
  <2>1. pc' \in {"report", "idle"}
    BY <1>21, EndBeatIdle DEF AnswerKeyLost, GoOn, KeyStep
  <2> QED
    BY <1>21, <1>t, <2>1, VersionStays DEF AnswerKeyLost, Honest
<1>22. CASE Crash
  <2>1. pc' = "idle" /\ UNCHANGED <<users, UserVersion, MaxUserCount>>
          /\ (Honest' => Honest /\ pc # "erased")
    BY <1>22 DEF Crash, Honest
  <2>2. AllFrom(UserVersion) => AllFrom(UserVersion)'
    BY <2>1 DEF AllFrom, Matches, There
  <2>3. ErasedInv' /\ RoomInv'
    BY <2>1 DEF VersionInv, ErasedInv, RoomInv
  <2>4. Honest' => ReportedInv' /\ ApplyInv' /\ CountInv'
    BY <2>1, <2>2 DEF VersionInv, ReportedInv, ApplyInv, CountInv
  <2> QED
    BY <1>t, <2>3, <2>4 DEF VersionInv
<1>23. CASE UNCHANGED vars
  BY <1>23, <1>t
  DEF vars, VersionInv, ErasedInv, RoomInv, Honest, ReportedInv, ApplyInv, CountInv,
      AllFrom, Matches, There
<1> QED
  BY <1>1, <1>2, <1>3, <1>4, <1>5, <1>6, <1>7, <1>8, <1>9, <1>10, <1>11, <1>12, <1>13,
     <1>14, <1>15, <1>16, <1>17, <1>18, <1>19, <1>20, <1>21, <1>22, <1>23
  DEF Next, Session

\* The version the terminal reports is never ahead of its list, however the
\* packets are cut, whatever fails in them and wherever the power goes, unless
\* a failure was covered, an erasure torn or a stale version saved
\* (downuserinfo, user_update).
THEOREM VersionIsHonest == Spec => []VersionHonest
<1>1. VersionInv => VersionHonest
  BY DEF VersionInv, VersionHonest, Honest, ReportedInv, AllFrom, Matches
<1> QED
  BY <1>1, VersionInit, VersionStep, PTL DEF Spec

=============================================================================
