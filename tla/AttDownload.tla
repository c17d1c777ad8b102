----------------------------- MODULE AttDownload -----------------------------
(***************************************************************************)
(* The attendance file below the level of records: delFileHead moves it in  *)
(* blocks that are no whole number of records, the power may fail between   *)
(* two blocks or inside one, write() may be short, and the option AttOffset *)
(* says how many records the PC has downloaded ("read new").  flashdb.c,    *)
(* utils2.c; records are appended here, as they are until the log wraps.    *)
(***************************************************************************)
EXTENDS Integers, Sequences, FiniteSets

CONSTANTS
  RecCells,     \* cells of a TAttLog (40 bytes)
  BlockCells,   \* cells of the copying buffer (4096 bytes)
  MaxLog,       \* gOptions.MaxAttLogCount * 10000, in records
  DelRecord,    \* option: old records to delete when the store is full
  ShortWrites,  \* cells a short write may have written
  CrashBound,   \* bound of a run on the power failures
  IssueBound    \* bound of a run on the records made

ASSUME SizeAssumption ==
  /\ RecCells \in Nat \ {0} /\ BlockCells \in Nat \ {0}
  /\ MaxLog \in Nat \ {0} /\ DelRecord \in Nat \ {0}
ASSUME ShortAssumption == ShortWrites \subseteq 0 .. RecCells - 1
ASSUME LimitAssumption == CrashBound \in Nat /\ IssueBound \in Nat

\* A record is its number; strangers' finger cards leave PIN 0 in it.
Rec == [id : Nat, staff : BOOLEAN]
Cell == [rec : Rec, part : 1 .. RecCells]
Gap == DelRecord * RecCells

VARIABLES
  file,           \* cells of ssrattlog.dat
  AttOffset,      \* option: records downloaded so far, kept in flash
  CurAttLogCount,
  pc,             \* where the main thread is: idle, copy, adjust, save
  head,           \* delFileHead: cells written so far; tail is head + Gap
  log,            \* FDB_DelOldAttLog: the next record to download, or none
  issued,         \* records made so far
  handed,         \* history: numbers of the records handed to the PC
  orig,           \* history: the file when the deletion under way began
  crashes,        \* history: power failures
  short,          \* history: a write was short
  drifted         \* history: an event after which AttOffset means nothing

vars == <<file, AttOffset, CurAttLogCount, pc, head, log, issued, handed,
          orig, crashes, short, drifted>>
history == <<handed, crashes, short>>

TypeOK ==
  /\ file \in Seq(Cell)
  /\ AttOffset \in Nat
  /\ CurAttLogCount \in Nat
  /\ pc \in {"idle", "copy", "adjust", "save"}
  /\ head \in Nat
  /\ log \in {<<>>} \cup [1 .. RecCells -> Cell]
  /\ issued \in Nat
  /\ handed \subseteq Nat
  /\ orig \in Seq(Cell)
  /\ crashes \in Nat
  /\ short \in BOOLEAN
  /\ drifted \in BOOLEAN

Init ==
  /\ file = <<>> /\ AttOffset = 0 /\ CurAttLogCount = 0
  /\ pc = "idle" /\ head = 0 /\ log = <<>>
  /\ issued = 0 /\ handed = {} /\ orig = <<>>
  /\ crashes = 0 /\ short = FALSE /\ drifted = FALSE

-----------------------------------------------------------------------------

\* What read() finds at the place of record k, and the whole records.
Chunk(f, k) == [j \in 1 .. RecCells |-> f[(k - 1) * RecCells + j]]
CntAttLog(f) == Len(f) \div RecCells
Whole(c) == \E r \in {c[1].rec} :
              \A j \in 1 .. RecCells : c[j] = [rec |-> r, part |-> j]
Chunks(f) == 1 .. CntAttLog(f)

LesserOf(a, b) == IF a <= b THEN a ELSE b

\* Fault: the mark stays when its records go.
MarkKept == AttOffset

\* FDB_DelOldAttLog before the copy: a mark among the records to be deleted
\* becomes 0 at once.
MarkBefore == IF AttOffset <= DelRecord THEN 0 ELSE AttOffset

\* ... otherwise the record at the mark is read (nothing, when all have been
\* downloaded) and used only if it carries a PIN.
NextToDownload ==
  IF AttOffset > DelRecord /\ AttOffset < CntAttLog(file)
       /\ file[AttOffset * RecCells + 1].rec.staff
  THEN Chunk(file, AttOffset + 1)
  ELSE <<>>

\* A verification, up to check_attlog_capacity: a full store first deletes.
Verify ==
  /\ pc = "idle" /\ issued < IssueBound
  /\ IF CurAttLogCount >= MaxLog
     THEN /\ pc' = "copy"
          /\ head' = 0
          /\ log' = NextToDownload
          /\ AttOffset' = MarkBefore
          /\ orig' = file
          /\ drifted' =
               (drifted \/ (AttOffset > DelRecord /\ log' = <<>>))
     ELSE /\ pc' = "save"
          /\ UNCHANGED <<head, log, AttOffset, orig, drifted>>
  /\ UNCHANGED <<file, CurAttLogCount, issued, handed, crashes, short>>

\* Faults: a block that is not full is not copied; it is written one cell
\* too far.
BlockLenFull == IF Len(file) < head + Gap + BlockCells THEN 0 ELSE BlockCells
CopiedAhead(n) ==
  [i \in 1 .. Len(file) |->
     IF i \in head + 2 .. head + n + 1 THEN file[i + Gap - 1] ELSE file[i]]

\* The block at tail that read() got, the first n cells of it written at head.
BlockLen == IF Len(file) <= head + Gap THEN 0
            ELSE LesserOf(BlockCells, Len(file) - head - Gap)
Copied(n) == [i \in 1 .. Len(file) |->
                IF i \in head + 1 .. head + n THEN file[i + Gap] ELSE file[i]]

\* One turn of the loop of delFileHead.
CopyBlock ==
  /\ pc = "copy" /\ BlockLen > 0
  /\ file' = Copied(BlockLen)
  /\ head' = head + BlockLen
  /\ UNCHANGED <<AttOffset, CurAttLogCount, pc, log, issued, orig, drifted,
                 history>>

\* Nothing left to read: ftruncate, unless nothing was copied at all; then
\* the records are counted again.
CopyDone ==
  /\ pc = "copy" /\ BlockLen = 0
  /\ file' = IF head > 0 THEN SubSeq(file, 1, head) ELSE file
  /\ CurAttLogCount' = CntAttLog(file')
  /\ pc' = "adjust"
  /\ UNCHANGED <<AttOffset, head, log, issued, orig, drifted, history>>

\* FDB_AdjustAttOffset: in front of the first record equal to the one kept.
AdjustAttOffset ==
  LET same == {k \in Chunks(file) : Chunk(file, k) = log}
  IN  IF same = {} THEN 0
      ELSE (CHOOSE k \in same : \A l \in same : k <= l) - 1

Adjust ==
  /\ pc = "adjust"
  /\ AttOffset' = IF log = <<>> THEN AttOffset ELSE AdjustAttOffset
  /\ log' = <<>>
  /\ pc' = "save"
  /\ orig' = <<>>
  /\ UNCHANGED <<file, CurAttLogCount, head, issued, drifted, history>>

-----------------------------------------------------------------------------

\* The cells of a record; SearchAndSave writes them, and after a short write
\* of s cells writes all of them again behind those.
CellsOf(r) == [j \in 1 .. RecCells |-> [rec |-> r, part |-> j]]

\* The verification goes on to SaveAttLog.  The read-back that follows the
\* write can fail although the record is in the file; then it is not counted.
SaveAttLog(staff, verified, s) ==
  LET cells == CellsOf([id |-> issued + 1, staff |-> staff])
  IN  /\ pc = "save" /\ issued < IssueBound
      /\ file' = file \o SubSeq(cells, 1, s) \o cells
      /\ short' = (short \/ s > 0)
      /\ CurAttLogCount' = IF verified THEN CurAttLogCount + 1
                           ELSE CurAttLogCount
      /\ issued' = issued + 1
      /\ pc' = "idle"
      /\ UNCHANGED <<AttOffset, head, log, handed, orig, crashes, drifted>>

\* Both writes of SearchAndSave fail, short at s and at t cells, which stay in
\* the file although the record counts as not saved.
SaveFails(staff, s, t) ==
  LET cells == CellsOf([id |-> issued + 1, staff |-> staff])
  IN  /\ pc = "save" /\ issued < IssueBound
      /\ file' = file \o SubSeq(cells, 1, s) \o SubSeq(cells, 1, t)
      /\ short' = (short \/ s > 0 \/ t > 0)
      /\ issued' = issued + 1
      /\ pc' = "idle"
      /\ UNCHANGED <<AttOffset, CurAttLogCount, head, log, handed, orig, crashes,
                     drifted>>

\* The user leaves the work code menu without a choice.
SaveNothing ==
  /\ pc = "save"
  /\ pc' = "idle"
  /\ UNCHANGED <<file, AttOffset, CurAttLogCount, head, log, issued, handed,
                 orig, crashes, short, drifted>>

\* ReadAttLogOffset, and FDB_ReadAttBlock: all records from the mark on go
\* to the PC, and the mark (saved at once) moves behind them.
ReadAttLogOffset == LesserOf(AttOffset, CurAttLogCount)

FDB_ReadAttBlock ==
  LET new == {k \in Chunks(file) : k > ReadAttLogOffset}
  IN  /\ pc = "idle"
      /\ AttOffset' = ReadAttLogOffset + Cardinality(new)
      /\ handed' = handed \cup {file[(k - 1) * RecCells + 1].rec.id : k \in new}
      /\ UNCHANGED <<file, CurAttLogCount, pc, head, log, issued, orig, crashes,
                     short, drifted>>

\* FDB_ClearData(FCT_ATTLOG).
ClearData ==
  /\ pc = "idle"
  /\ file' = <<>> /\ CurAttLogCount' = 0 /\ AttOffset' = 0
  /\ drifted' = FALSE /\ short' = FALSE
  /\ UNCHANGED <<pc, head, log, issued, handed, orig, crashes>>

\* The power fails, in a copy after some cells of the block in hand; the boot
\* counts the records (FDB_InitDBs).
Crash(n) ==
  /\ crashes < CrashBound
  /\ n \in IF pc = "copy" THEN 0 .. BlockLen ELSE {0}
  /\ file' = Copied(n)
  /\ CurAttLogCount' = CntAttLog(file)
  /\ pc' = "idle" /\ head' = 0 /\ log' = <<>> /\ orig' = <<>>
  /\ crashes' = crashes + 1
  /\ drifted' = (drifted \/ pc \in {"copy", "adjust"})
  /\ UNCHANGED <<AttOffset, issued, handed, short>>

Next ==
  \/ Verify
  \/ CopyBlock
  \/ CopyDone
  \/ Adjust
  \/ \E staff, verified \in BOOLEAN, s \in {0} \cup ShortWrites :
        SaveAttLog(staff, verified, s)
  \/ \E staff \in BOOLEAN, s, t \in {0} \cup ShortWrites : SaveFails(staff, s, t)
  \/ SaveNothing
  \/ FDB_ReadAttBlock
  \/ ClearData
  \/ \E n \in 0 .. BlockCells : Crash(n)

Spec == Init /\ [][Next]_vars

-----------------------------------------------------------------------------

\* While delFileHead is moving the file, and wherever the power fails, every
\* record behind those to be deleted is in the file with all its bytes, at its
\* old place or at its new one.
CopyLosesNothing ==
  pc = "copy" =>
    \A k \in Chunks(orig) : k > DelRecord =>
      \/ Chunk(file, k) = Chunk(orig, k)
      \/ Chunk(file, k - DelRecord) = Chunk(orig, k)

\* A deletion that ran to its end removed exactly the oldest DelRecord records
\* from the bytes of the file, or nothing from a file that short.
DeletionExact ==
  pc = "adjust" =>
    file = IF Len(orig) <= Gap THEN orig ELSE SubSeq(orig, Gap + 1, Len(orig))

\* A power failure tears at most one record, and nothing else tears one as
\* long as no write was short: records stay where their count says they are.
TornOnlyByCrash ==
  pc = "idle" /\ ~short =>
    Cardinality({k \in Chunks(file) : ~Whole(Chunk(file, k))}) <= crashes

\* What lies before the mark has been handed to the PC, through downloads,
\* deletions, clears and failed saves, until a power failure hits a deletion
\* or a deletion finds all records downloaded or a stranger's at the mark.
NothingSkipped ==
  pc = "idle" /\ ~drifted /\ ~short =>
    \A k \in Chunks(file) :
      k <= AttOffset /\ Whole(Chunk(file, k)) => Chunk(file, k)[1].rec.id \in handed

=============================================================================
