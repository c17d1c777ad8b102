---------------------------- MODULE AccessControl ----------------------------
(***************************************************************************)
(* Who opens the door.  A verification passes the checks of SaveAttLog       *)
(* (repetition, hours, anti-passback, forced closing), joins those who are   *)
(* waiting for an opening by several people (TestOpenLock), and is recorded  *)
(* on the attendance log.  The anti-passback check takes the way a person    *)
(* went last from a copy of these records in RAM (CurAlarmRec), which is     *)
(* kept up by every save that was verified and built anew from the file when *)
(* the terminal starts (FetchLastLogs).                                      *)
(*                                                                         *)
(* The opening and the record are two matters: a repeated verification opens *)
(* without a record, so does one on a full log, and one of several people is *)
(* recorded before the door opens.  Record and copy are two matters as well: *)
(* a record that is on file but was not verified is not in the copy, one     *)
(* that was deleted with the oldest is, and under IclockSvrFun the file      *)
(* keeps another time than the copy.                                         *)
(*                                                                         *)
(* Whether a person's hours allow it (TestUserTZ), what the time zones of    *)
(* the door force and whether a write succeeds are inputs.  People, groups   *)
(* and combinations do not change while the door is in use.  Records are     *)
(* appended; AttLog has the wrap, reloads and records of strangers.          *)
(***************************************************************************)
EXTENDS Integers, Sequences, FiniteSets

CONSTANTS
  People,
  Group,           \* GetUserGrp: the group of each person, at least 1
  Combinations,    \* the combinations on file: [GroupID, MemberCount]
  CGP_MEMBER_MAX,  \* most people of an opening
  UnlockInterval,  \* seconds a person is waited for
  MaxLog,          \* gOptions.MaxAttLogCount * 10000
  TimeSlack,       \* 10: a record up to so many seconds early is moved
  Settings,        \* possible settings of the options below
  ClockMax,        \* bound of a run on the clock
  Trouble          \* bound of a run on unsaved records, clears and clocks set back

Ways == {"in", "out"}
Clock == 0 .. ClockMax

ASSUME GroupAssumption == Group \in [People -> Nat \ {0}]
ASSUME CombinationAssumption ==
  \A cg \in Combinations : cg.GroupID \in Seq(Nat) /\ cg.MemberCount \in 1 .. CGP_MEMBER_MAX
ASSUME NumberAssumption ==
  /\ CGP_MEMBER_MAX \in Nat \ {0} /\ UnlockInterval \in Nat /\ ClockMax \in Nat
  /\ MaxLog \in Nat \ {0} /\ TimeSlack \in Nat /\ Trouble \in Nat
ASSUME SettingAssumption ==
  Settings \subseteq [LockFunOn : {"BASE", "ADV"},      \* so many people, or a combination
                      UnlockPerson : Nat \ {0},
                      AntiPassbackOn : SUBSET Ways,     \* the ways watched
                      AlarmReRec : Nat,                 \* how long one is repeating oneself
                      SaveAttLog : BOOLEAN,
                      IclockSvrFun : BOOLEAN,           \* no two records at one time
                      DelRecord : Nat]                  \* oldest records a full log gives up

VARIABLES
  gOptions,       \* the settings
  gCurTime,
  gLockForceAction,  \* by the time zones of the door, at the last timer message
  LastVerRecSet,  \* those who are waiting, in order; VerRecCount is its length
  CurAlarmRec,    \* [People]: last recorded way and time
  file,           \* the records of persons in ssrattlog.dat
  CurAttLogCount,
  exceedflag,     \* the log was full at the last check
  lastlogtime,    \* static in FDB_AddAttLog: time of the last record
  seen,           \* history, [People]: last verification that may still count
  passed,         \* history, [People]: way of the last opening with anti-passback,
                  \* and the time its record would have on file, if one was tried
  unverified,     \* history: people whose last record was written and not verified
  disorder,       \* history: people with a record no later than one before it
  setback,        \* history: the clock was set back
  trouble         \* troubles left

log == <<CurAlarmRec, file, CurAttLogCount, exceedflag, lastlogtime, unverified, disorder>>
vars == <<gOptions, gCurTime, gLockForceAction, LastVerRecSet, log, seen, passed, setback,
          trouble>>

Never == -1
NoRecord == [State |-> "none", LastTime |-> Never]

Init ==
  /\ gOptions \in Settings
  /\ gCurTime = 0
  /\ gLockForceAction = "NONE"
  /\ LastVerRecSet = <<>>
  /\ CurAlarmRec = [p \in People |-> NoRecord]
  /\ seen = [p \in People |-> Never]
  /\ passed = [p \in People |-> NoRecord]
  /\ file = <<>> /\ CurAttLogCount = 0 /\ exceedflag = FALSE /\ lastlogtime = Never
  /\ unverified = {} /\ disorder = {}
  /\ setback = FALSE
  /\ trouble = Trouble

Spend == trouble > 0 /\ trouble' = trouble - 1

-----------------------------------------------------------------------------
(* TestOpenLock.                                                            *)

\* Fault: the records are one more than those before.
ExpiryOneMore(list) == UnlockInterval * (Len(list) + 1) - 1

\* Seconds after which those who wait are given up: the more, the longer.
Expiry(list) == UnlockInterval * Len(list) - 1

\* From the first one on that is not too old.
Fresh(list) ==
  LET recent == {i \in DOMAIN list : gCurTime - list[i].VerTime <= Expiry(list)}
  IN IF recent = {} THEN <<>>
     ELSE SubSeq(list, CHOOSE i \in recent : \A j \in recent : i <= j, Len(list))

\* Fault: who is waiting already is not removed.
OthersAndOneself(list, p) == list

\* Without the earlier record of the same person; there is one at most
\* (MembersOnce).
Others(list, p) ==
  LET own == {i \in DOMAIN list : list[i].PIN = p}
      at == CHOOSE i \in own : \A j \in own : i <= j
  IN IF own = {} THEN list ELSE SubSeq(list, 1, at - 1) \o SubSeq(list, at + 1, Len(list))

\* The last ones for whom, with this person, there is room.
Latest(list) ==
  SubSeq(list, IF Len(list) < CGP_MEMBER_MAX THEN 1 ELSE Len(list) - CGP_MEMBER_MAX + 2,
         Len(list))

Waiting(p) ==
  Append(Latest(Others(Fresh(LastVerRecSet), p)), [PIN |-> p, VerTime |-> gCurTime])

Occurrences(g, s) == Cardinality({i \in DOMAIN s : s[i] = g})

\* TestOneGrp: each group of the people finds a place of its own.
FindPlaces(grps, cg) ==
  \A i \in DOMAIN grps : Occurrences(grps[i], grps) <= Occurrences(grps[i], cg.GroupID)

\* TestAllGrp, on the combinations that are large enough.
TestAllGrp(grps) ==
  LET fitting == {cg \in Combinations : cg.MemberCount >= Len(grps) /\ FindPlaces(grps, cg)}
  IN IF fitting = {} THEN "invalid"
     ELSE IF \E cg \in fitting : cg.MemberCount = Len(grps) THEN "open"
     ELSE "wait"

\* The result of TestOpenLock, with those waiting and this person in list.
Verdict(list) ==
  IF gOptions.LockFunOn = "ADV" THEN TestAllGrp([i \in DOMAIN list |-> Group[list[i].PIN]])
  ELSE IF Len(list) >= gOptions.UnlockPerson THEN "open"
  ELSE "wait"

-----------------------------------------------------------------------------
(* The checks of SaveAttLog.                                                *)

\* By the reader of the two, the terminal's own inside and the slave reader
\* outside; without anti-passback it does not matter.
getCurrentState == IF gOptions.AntiPassbackOn = {} THEN {"in"} ELSE Ways
OwnReader(way) == way = "in"

\* LOG_REPEAT: recorded not long ago.
Repeated(p) ==
  /\ gOptions.AlarmReRec > 0 /\ CurAlarmRec[p].State # "none"
  /\ gCurTime - CurAlarmRec[p].LastTime < gOptions.AlarmReRec

\* check_anti_passback: the same way as recorded last, in a way that is
\* watched.  It is not made for a repetition, or outside the person's hours.
PassedBack(p, way) ==
  /\ way \in gOptions.AntiPassbackOn
  /\ CurAlarmRec[p].State = way

\* LogState is at most LOG_REPEAT.
Admitted(p, way, inTime) ==
  /\ gOptions.LockFunOn = "ADV" => inTime
  /\ ~Repeated(p) => ~PassedBack(p, way)
  /\ gLockForceAction # "CLOSE"

-----------------------------------------------------------------------------
(* The record.                                                              *)

\* check_attlog_capacity, made at the terminal's own reader only: the file,
\* its count, and whether the log is full, which the slave reader takes from
\* the last check.
Full == CurAttLogCount >= MaxLog
DropsOld(way) == OwnReader(way) /\ Full /\ gOptions.DelRecord > 0
CheckedFile(way) ==
  IF DropsOld(way) /\ gOptions.DelRecord < Len(file)
    THEN SubSeq(file, gOptions.DelRecord + 1, Len(file)) ELSE file
CheckedCount(way) == IF DropsOld(way) THEN Len(CheckedFile(way)) ELSE CurAttLogCount
Exceed(way) == IF OwnReader(way) THEN Full /\ gOptions.DelRecord = 0 ELSE exceedflag

\* The time FDB_AddAttLog puts on file.
Stamp ==
  IF /\ gOptions.IclockSvrFun
     /\ gCurTime <= lastlogtime /\ lastlogtime - gCurTime < TimeSlack
    THEN lastlogtime + 1 ELSE gCurTime

RecordOf(p, way, time) == [PIN |-> p, State |-> way, LastTime |-> time]
Held == {file[i] : i \in DOMAIN file}

\* AddToOrderedLastLogs: a record that is not later changes nothing.
Later(rec, way, time) ==
  IF rec.State = "none" \/ time > rec.LastTime
    THEN [State |-> way, LastTime |-> time] ELSE rec

\* Fault: the first record of each person is taken.
FetchLastLogsFirst ==
  [p \in People |->
     LET own == {i \in DOMAIN file : file[i].PIN = p}
         at == CHOOSE i \in own : \A j \in own : i <= j
     IN IF own = {} THEN NoRecord
        ELSE [State |-> file[at].State, LastTime |-> file[at].LastTime]]

\* What AddToOrderedLastLogs makes of all records of the file in turn: of each
\* person the record of the latest time, and of several the first.
FetchLastLogs ==
  [p \in People |->
     LET own == {i \in DOMAIN file : file[i].PIN = p}
         at == CHOOSE i \in own : \A j \in own :
                 \/ file[j].LastTime < file[i].LastTime
                 \/ file[j].LastTime = file[i].LastTime /\ i <= j
     IN IF own = {} THEN NoRecord
        ELSE [State |-> file[at].State, LastTime |-> file[at].LastTime]]

\* The capacity check, behind which nothing is recorded.
OnlyChecked(way) ==
  /\ file' = CheckedFile(way)
  /\ CurAttLogCount' = CheckedCount(way)
  /\ exceedflag' = Exceed(way)
  /\ UNCHANGED <<CurAlarmRec, lastlogtime, unverified, disorder, trouble>>

\* FDB_AddAttLog: what is taken and changed whether or not the write succeeds.
AddAttLog(p, way) ==
  /\ exceedflag' = FALSE
  /\ lastlogtime' = IF gOptions.IclockSvrFun THEN Stamp ELSE lastlogtime
  /\ disorder' =
       IF \/ CurAlarmRec[p].State # "none" /\ CurAlarmRec[p].LastTime >= gCurTime
          \/ \E r \in Held : r.PIN = p /\ r.LastTime >= Stamp
         THEN disorder \cup {p} ELSE disorder

\* The record is on file, verified and counted, and the copy follows.
Stored(p, way) ==
  /\ AddAttLog(p, way)
  /\ file' = Append(CheckedFile(way), RecordOf(p, way, Stamp))
  /\ CurAttLogCount' = CheckedCount(way) + 1
  /\ CurAlarmRec' = [CurAlarmRec EXCEPT ![p] = Later(@, way, gCurTime)]
  /\ unverified' = unverified \ {p}
  /\ UNCHANGED trouble

\* The record is on file, but reading it back fails: it counts as not saved.
StoredUnverified(p, way) ==
  /\ AddAttLog(p, way)
  /\ file' = Append(CheckedFile(way), RecordOf(p, way, Stamp))
  /\ CurAttLogCount' = CheckedCount(way)
  /\ unverified' = unverified \cup {p}
  /\ Spend
  /\ UNCHANGED CurAlarmRec

\* The write fails.
NotStored(p, way) ==
  /\ AddAttLog(p, way)
  /\ file' = CheckedFile(way)
  /\ CurAttLogCount' = CheckedCount(way)
  /\ Spend
  /\ UNCHANGED <<CurAlarmRec, unverified>>

\* A repetition is not recorded, and neither is anything when the log is full.
Recordable(p, way) == gOptions.SaveAttLog /\ ~Repeated(p) /\ ~Exceed(way)

\* The rest of SaveAttLog.
Record(p, way) ==
  IF Recordable(p, way)
    THEN Stored(p, way) \/ StoredUnverified(p, way) \/ NotStored(p, way)
    ELSE OnlyChecked(way)

\* The door opens for p, who goes this way.
Pass(p, way) ==
  passed' = IF gOptions.AntiPassbackOn = {} THEN passed
            ELSE [passed EXCEPT ![p] =
                    [State |-> way, LastTime |-> IF Recordable(p, way) THEN Stamp ELSE Never]]

UnchangedByVerification == <<gOptions, gCurTime, gLockForceAction, setback>>

\* The last one needed: the door opens, and nobody is waiting any more.
VerifyOpens(p, way, inTime) ==
  /\ Admitted(p, way, inTime) /\ gLockForceAction = "NONE"
  /\ Verdict(Waiting(p)) = "open"
  /\ LastVerRecSet' = <<>>
  /\ seen' = [q \in People |-> Never]
  /\ Record(p, way)
  /\ Pass(p, way)
  /\ UNCHANGED UnchangedByVerification

\* More people are needed.  The record is made all the same.
VerifyWaits(p, way, inTime) ==
  /\ Admitted(p, way, inTime) /\ gLockForceAction = "NONE"
  /\ Verdict(Waiting(p)) = "wait"
  /\ LastVerRecSet' = Waiting(p)
  /\ seen' = [seen EXCEPT ![p] = gCurTime]
  /\ Record(p, way)
  /\ UNCHANGED <<UnchangedByVerification, passed>>

\* No combination has these people: all are forgotten (LOG_INVALIDCOMBO).
VerifyNoCombination(p, way, inTime) ==
  /\ Admitted(p, way, inTime) /\ gLockForceAction = "NONE"
  /\ Verdict(Waiting(p)) = "invalid"
  /\ LastVerRecSet' = <<>>
  /\ seen' = [q \in People |-> Never]
  /\ OnlyChecked(way)
  /\ UNCHANGED <<UnchangedByVerification, passed>>

\* The door stands open by its time zone: only the record is made.
VerifyAtOpenDoor(p, way, inTime) ==
  /\ Admitted(p, way, inTime) /\ gLockForceAction = "OPEN"
  /\ Record(p, way)
  /\ Pass(p, way)
  /\ UNCHANGED <<UnchangedByVerification, LastVerRecSet, seen>>

\* Refused: neither door nor record.
VerifyRefused(p, way, inTime) ==
  /\ ~Admitted(p, way, inTime)
  /\ OnlyChecked(way)
  /\ UNCHANGED <<UnchangedByVerification, LastVerRecSet, seen, passed>>

-----------------------------------------------------------------------------
Tick ==
  /\ gCurTime < ClockMax
  /\ gCurTime' = gCurTime + 1
  /\ UNCHANGED <<gOptions, gLockForceAction, LastVerRecSet, log, seen, passed, setback, trouble>>

\* SetTime, by the menu, the PC or the push server (syncdevtime).
SetBack ==
  /\ Spend
  /\ \E t \in Clock : t < gCurTime /\ gCurTime' = t
  /\ setback' = TRUE
  /\ UNCHANGED <<gOptions, gLockForceAction, LastVerRecSet, log, seen, passed>>

\* GetNoNcState, at a timer message.
ForceByTimeZone ==
  /\ gLockForceAction' \in {"NONE", "OPEN", "CLOSE"} \ {gLockForceAction}
  /\ UNCHANGED <<gOptions, gCurTime, LastVerRecSet, log, seen, passed, setback, trouble>>

\* ClearMemberRecord, also where the terminal starts.
NobodyWaits ==
  /\ LastVerRecSet' = <<>>
  /\ seen' = [p \in People |-> Never]

\* The verification window closes.
CloseWindow ==
  /\ NobodyWaits
  /\ UNCHANGED <<gOptions, gCurTime, gLockForceAction, log, passed, setback, trouble>>

\* The power fails and the terminal starts: the records are counted, and the
\* last ways taken from them.
Restart ==
  /\ NobodyWaits
  /\ CurAlarmRec' = FetchLastLogs
  /\ CurAttLogCount' = Len(file)
  /\ exceedflag' = FALSE /\ lastlogtime' = Never /\ gLockForceAction' = "NONE"
  /\ unverified' = {}
  /\ UNCHANGED <<gOptions, gCurTime, file, disorder, passed, setback, trouble>>

\* FDB_ClearData of the attendance log.
ClearData ==
  /\ Spend
  /\ file' = <<>> /\ CurAttLogCount' = 0
  /\ CurAlarmRec' = [p \in People |-> NoRecord]
  /\ unverified' = {} /\ disorder' = {}
  /\ UNCHANGED <<gOptions, gCurTime, gLockForceAction, LastVerRecSet, exceedflag, lastlogtime,
                 seen, passed, setback>>

Verify(p, way, inTime) ==
  \/ VerifyOpens(p, way, inTime)
  \/ VerifyWaits(p, way, inTime)
  \/ VerifyNoCombination(p, way, inTime)
  \/ VerifyAtOpenDoor(p, way, inTime)
  \/ VerifyRefused(p, way, inTime)

Next ==
  \/ \E p \in People, way \in getCurrentState, inTime \in BOOLEAN : Verify(p, way, inTime)
  \/ Tick \/ SetBack \/ ForceByTimeZone \/ CloseWindow \/ Restart \/ ClearData

Spec == Init /\ [][Next]_vars

-----------------------------------------------------------------------------
Way == [State : Ways \cup {"none"}, LastTime : Nat \cup {Never}]

\* The variables have their types.
TypeOK ==
  /\ gOptions \in Settings
  /\ gCurTime \in Clock /\ gLockForceAction \in {"NONE", "OPEN", "CLOSE"}
  /\ LastVerRecSet \in Seq([PIN : People, VerTime : Clock])
  /\ CurAlarmRec \in [People -> Way]
  /\ file \in Seq([PIN : People, State : Ways, LastTime : Nat])
  /\ CurAttLogCount \in Nat /\ exceedflag \in BOOLEAN
  /\ lastlogtime \in Nat \cup {Never}
  /\ unverified \subseteq People /\ disorder \subseteq People
  /\ seen \in [People -> Clock \cup {Never}]
  /\ passed \in [People -> Way]
  /\ setback \in BOOLEAN /\ trouble \in Nat

\* Those who wait are different people, never more than there is room for,
\* and in the order of their times, on which the expiry from the front relies
\* unless the clock is set back (TestOpenLock).
MembersOnce ==
  /\ Len(LastVerRecSet) <= CGP_MEMBER_MAX
  /\ \A i, j \in DOMAIN LastVerRecSet : i < j =>
       /\ LastVerRecSet[i].PIN # LastVerRecSet[j].PIN
       /\ setback \/ LastVerRecSet[i].VerTime <= LastVerRecSet[j].VerTime

\* Whether these people may open the door together.
Enough(S) ==
  IF gOptions.LockFunOn = "BASE" THEN Cardinality(S) >= gOptions.UnlockPerson
  ELSE \E cg \in Combinations :
         /\ cg.MemberCount = Cardinality(S)
         /\ \A p \in S : Cardinality({q \in S : Group[q] = Group[p]})
                             <= Occurrences(Group[p], cg.GroupID)

\* The longest that anyone is waited for.
Window ==
  LET sizes == IF gOptions.LockFunOn = "BASE" THEN {gOptions.UnlockPerson}
               ELSE {cg.MemberCount : cg \in Combinations}
      most == CHOOSE n \in sizes : \A m \in sizes : m <= n
  IN UnlockInterval * (most - 1) - 1

\* The lock opens only for enough different people, each of whom verified
\* within the window and has not counted for an opening, a refusal or an
\* earlier window since; so long as the clock is not set back.
OpenNeedsEnough ==
  [][(gLockForceAction = "NONE" /\ ~setback) =>
       \A p \in People :
         (\E way \in Ways, inTime \in BOOLEAN : VerifyOpens(p, way, inTime)) =>
           \E S \in SUBSET People :
             /\ p \in S /\ Enough(S)
             /\ \A q \in S \ {p} : seen[q] # Never /\ gCurTime - seen[q] <= Window]_vars

\* With one person per opening, whoever's last opening is on file goes by its
\* way in the next check, whatever was deleted, refused or set back in between
\* and whether or not the terminal has started since: the copy in RAM, the
\* file it is rebuilt from and the door agree (check_anti_passback, SaveAttLog,
\* FetchLastLogs).  Stated for a person until a record of theirs was written
\* and not verified, to the next one or a restart, and until one was made at a
\* time no later than another of theirs: the copy then misses the opening.
WayIsRecorded ==
  (gOptions.LockFunOn = "BASE" /\ gOptions.UnlockPerson = 1 /\ gOptions.AntiPassbackOn # {}) =>
    \A p \in People \ (unverified \cup disorder) :
      RecordOf(p, passed[p].State, passed[p].LastTime) \in Held =>
        CurAlarmRec[p].State = passed[p].State
=============================================================================
