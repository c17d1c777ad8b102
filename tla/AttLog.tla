------------------------------- MODULE AttLog -------------------------------
(***************************************************************************)
(* The store of attendance records: flashdb.c and the code of ssrvfwin.c    *)
(* that decides whether a verification is recorded.  One flash file, two    *)
(* counters in RAM (recindex, CurAttLogCount) that FDB_InitDBs rebuilds by  *)
(* scanning the file, and the flag exceedflag that check_attlog_capacity    *)
(* leaves for later saves.                                                  *)
(***************************************************************************)
EXTENDS AttLogFile

CONSTANTS
  DelRecord,      \* option: old records to delete when the file is full
  CardLogs,       \* are finger cards of strangers recorded (MFCard path)
  SlaveReader,    \* is there a slave reader (saves without a capacity check)
  WriteOutcomes,  \* what a write may do: subset of Outcomes
  Restarts,       \* may the power fail
  IssueBound,     \* bound of a run on the serials issued
  FileBound       \* bound of a run on the records in the file

Outcomes == {"stored", "unverified", "failed"}

ASSUME DelRecordAssumption == DelRecord \in Nat
ASSUME SwitchAssumption ==
  /\ CardLogs \in BOOLEAN /\ SlaveReader \in BOOLEAN /\ Restarts \in BOOLEAN
  /\ WriteOutcomes \subseteq Outcomes
ASSUME BoundAssumption == IssueBound \in Nat /\ FileBound \in Nat

VARIABLES
  file,           \* ssrattlog.dat
  recindex,       \* last serial issued
  CurAttLogCount, \* records the store believes it holds
  exceedflag,     \* result of the last check_attlog_capacity was "full"
  scan,           \* records FDB_InitDBs has read; -1 when it is not running
  wrapped,        \* history: a serial above MaxLog was issued since the clear
  unchecked       \* history: a save went past the capacity check or the count

vars == <<file, recindex, CurAttLogCount, exceedflag, scan, wrapped, unchecked>>

TypeOK ==
  /\ file \in Seq(Record)
  /\ recindex \in Nat
  /\ CurAttLogCount \in Nat
  /\ exceedflag \in BOOLEAN
  /\ scan \in {-1} \cup Nat
  /\ wrapped \in BOOLEAN
  /\ unchecked \in BOOLEAN

\* A fresh terminal: empty file, FDB_InitDBs about to scan it.
Init ==
  /\ file = <<>>
  /\ recindex = 0
  /\ CurAttLogCount = 0
  /\ exceedflag = FALSE
  /\ scan = 0
  /\ wrapped = FALSE
  /\ unchecked = FALSE

Running == scan = -1

-----------------------------------------------------------------------------

\* FDB_AddAttLog and SearchAndSave, started on file f with count c.  The
\* serial is taken before the write, so a failed write uses it up.
AddAttLog(f, c, staff, outcome) ==
  LET index == IF LoopWriteRecordOn THEN recindex + 1 ELSE recindex
      rec   == [staff |-> staff,
                idx   |-> IF LoopWriteRecordOn THEN index ELSE SensorNo]
  IN  /\ recindex < IssueBound /\ Len(f) < FileBound
      /\ outcome \in WriteOutcomes
      /\ recindex' = index
      /\ wrapped' = (wrapped \/ index > MaxLog)
      /\ file' = IF outcome = "failed" THEN f
                 ELSE WriteAt(f, Position(f, index), rec)
      /\ CurAttLogCount' = IF outcome = "stored" THEN c + 1 ELSE c

\* SaveAttLog: with exceedflag set it returns 0, which is FDB_OK.
SaveAttLog(f, c, exceed, outcome) ==
  \/ /\ exceed
     /\ file' = f
     /\ CurAttLogCount' = c
     /\ UNCHANGED <<recindex, wrapped>>
  \/ /\ ~exceed
     /\ AddAttLog(f, c, TRUE, outcome)

\* Fault: the store is only full above its capacity.
FullAbove == CurAttLogCount > MaxLog

\* check_attlog_capacity: what it returns, and the file and the count it
\* leaves (FDB_DelOldAttLog counts the records again).
Full == CurAttLogCount >= MaxLog
DropOld == Full /\ DelRecord > 0
Exceed == Full /\ DelRecord = 0
CheckedFile == IF DropOld THEN DelHead(file, DelRecord) ELSE file
CheckedCount == IF DropOld THEN Len(CheckedFile) ELSE CurAttLogCount

\* A verification at the terminal: the capacity check, then SaveAttLog.
Verify(outcome) ==
  /\ Running
  /\ exceedflag' = Exceed
  /\ SaveAttLog(CheckedFile, CheckedCount, Exceed, outcome)
  /\ unchecked' = (unchecked \/ outcome = "unverified")
  /\ UNCHANGED scan

\* The same up to the work code menu, which the user leaves without a choice.
VerifyCancelled ==
  /\ Running
  /\ exceedflag' = Exceed
  /\ file' = CheckedFile
  /\ CurAttLogCount' = CheckedCount
  /\ UNCHANGED <<recindex, scan, wrapped, unchecked>>

\* A verification on the slave reader: exceedflag is whatever was left.
SlaveVerify(outcome) ==
  /\ Running /\ SlaveReader
  /\ SaveAttLog(file, CurAttLogCount, exceedflag, outcome)
  /\ unchecked' = TRUE
  /\ UNCHANGED <<exceedflag, scan>>

\* A finger card whose owner is not enrolled: PIN 0, no capacity check.
CardVerify(outcome) ==
  /\ Running /\ CardLogs
  /\ AddAttLog(file, CurAttLogCount, FALSE, outcome)
  /\ unchecked' = TRUE
  /\ UNCHANGED <<exceedflag, scan>>

-----------------------------------------------------------------------------

\* FDB_ClearData(FCT_ATTLOG): the file is truncated and renumbered from 1.
ClearData ==
  /\ Running
  /\ file' = <<>>
  /\ CurAttLogCount' = 0
  /\ recindex' = 0
  /\ wrapped' = FALSE
  /\ unchecked' = FALSE
  /\ UNCHANGED <<exceedflag, scan>>

\* FDB_InitDBs(FALSE), after the server or a PC changed the data: recindex
\* keeps its value, the count restarts.
Reload ==
  /\ Running
  /\ CurAttLogCount' = 0
  /\ scan' = 0
  /\ UNCHANGED <<file, recindex, exceedflag, wrapped, unchecked>>

\* The power fails, also in the middle of a scan, and FDB_InitDBs(TRUE)
\* starts with both counters and the flag zero.
Reboot ==
  /\ Restarts
  /\ recindex' = 0
  /\ CurAttLogCount' = 0
  /\ exceedflag' = FALSE
  /\ scan' = 0
  /\ UNCHANGED <<file, wrapped, unchecked>>

\* One turn of the loop over the records in FDB_InitDBs.
ScanStep ==
  /\ ~Running
  /\ scan < Len(file)
  /\ recindex' = ScanIndex(recindex, file[scan + 1])
  /\ CurAttLogCount' = CurAttLogCount + 1
  /\ scan' = scan + 1
  /\ UNCHANGED <<file, exceedflag, wrapped, unchecked>>

ScanDone ==
  /\ ~Running
  /\ scan = Len(file)
  /\ scan' = -1
  /\ UNCHANGED <<file, recindex, CurAttLogCount, exceedflag, wrapped, unchecked>>

Next ==
  \/ \E outcome \in WriteOutcomes : Verify(outcome)
  \/ VerifyCancelled
  \/ \E outcome \in WriteOutcomes : SlaveVerify(outcome)
  \/ \E outcome \in WriteOutcomes : CardVerify(outcome)
  \/ ClearData
  \/ Reload
  \/ Reboot
  \/ ScanStep
  \/ ScanDone

Spec == Init /\ [][Next]_vars

-----------------------------------------------------------------------------

\* While no serial above MaxLog has been issued, the serials of persons grow
\* along the file, through failed writes, deletion of the oldest, clears,
\* reloads and reboots: the order FDB_GetAttByIndex relies on to upload every
\* record once (it only looks ahead of its position).
SerialsInOrder ==
  LoopWriteRecordOn /\ ~wrapped =>
    \A i, j \in 1 .. Len(file) :
      i < j /\ file[i].staff /\ file[j].staff => file[i].idx < file[j].idx

\* Under the same condition the counter that FDB_InitDBs rebuilt is no smaller
\* than any serial on file, so the next record gets a serial not yet used.
CounterCoversFile ==
  LoopWriteRecordOn /\ ~wrapped /\ Running =>
    \A i \in 1 .. Len(file) : file[i].staff => file[i].idx <= recindex

\* As long as all saves since the last clear passed the capacity check and were
\* counted, the file does not outgrow the capacity, although overwriting a
\* record counts as adding one and a reload counts again from zero.
CapacityKept == ~unchecked /\ DelRecord < MaxLog => Len(file) <= MaxLog

\* Until serials pass MaxLog, records leave the file by a clear or as the
\* oldest DelRecord when the store is full, and in no other way: none is
\* overwritten, moved past another or lost by a failed write.
StartsWith(f, g) == Len(g) <= Len(f) /\ \A i \in 1 .. Len(g) : f[i] = g[i]

OnlyOldestLeave ==
  [][~wrapped' =>
       \/ file' = <<>>
       \/ StartsWith(file', file)
       \/ Full /\ StartsWith(file', SubSeq(file, DelRecord + 1, Len(file)))]_vars

=============================================================================
