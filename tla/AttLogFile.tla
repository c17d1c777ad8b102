----------------------------- MODULE AttLogFile -----------------------------
(***************************************************************************)
(* The attendance file data/ssrattlog.dat: what the store and the uploader *)
(* do to its bytes (flashdb.c, utils2.c, fwlib byte order), one file        *)
(* position per sizeof(TAttLog).  Nothing here has state; AttLog and        *)
(* PushUpload put these operators into steps.                               *)
(***************************************************************************)
EXTENDS Integers, Sequences

CONSTANTS
  MaxLog,             \* gOptions.MaxAttLogCount * 10000, counted in records
  Base,               \* values of one byte: 256 in the device, less in a run
  LoopWriteRecordOn,  \* the option ISLR
  SensorNo            \* goes to reserved[0] when ISLR is off

ASSUME MaxLogAssumption == MaxLog \in Nat \ {0}
ASSUME BaseAssumption == Base \in Nat /\ Base >= 2
ASSUME OptionAssumption == LoopWriteRecordOn \in BOOLEAN /\ SensorNo \in Nat

\* A record keeps what the store and the uploader look at: is PIN nonzero (a
\* person known to the terminal), and the U32 kept in the field reserved.
Record == [staff : BOOLEAN, idx : Nat]

\* What read() finds in a gap that lseek() past the end and write() left.
Hole == [staff |-> FALSE, idx |-> 0]

MaxOf(a, b) == IF a >= b THEN a ELSE b

-----------------------------------------------------------------------------

\* Fault: the seek is made whether or not the log wraps.
PositionModulo(file, recindex) == (recindex % MaxLog) + 1

\* Where SearchAndSave puts the next record, as a position counted from 1.
\* The code seeks to (recindex % MaxLog) records from the start of the file.
Position(file, recindex) ==
  IF LoopWriteRecordOn /\ recindex > MaxLog
  THEN (recindex % MaxLog) + 1
  ELSE Len(file) + 1

\* write() of one record at a position, possibly past the end.
WriteAt(file, p, rec) ==
  [i \in 1 .. MaxOf(p, Len(file)) |->
     IF i = p THEN rec ELSE IF i <= Len(file) THEN file[i] ELSE Hole]

\* delFileHead: the first n records go, except that a file of at most n
\* records keeps them all (head stays 0, so nothing is truncated).
DelHead(file, n) ==
  IF n < Len(file) THEN [i \in 1 .. Len(file) - n |-> file[i + n]] ELSE file

-----------------------------------------------------------------------------

\* ntohl() of a U32 on the little-endian boards this firmware is built for:
\* its four bytes in the opposite order.
Byte(x, weight) == (x \div weight) % Base

Ntohl(x) ==
  LET B2 == Base * Base
  IN  Byte(x, 1) * (Base * B2) + Byte(x, Base) * B2
        + Byte(x, B2) * Base + Byte(x, Base * B2)

\* Faults: the comparison is the wrong way round; only the first serial counts.
ScanIndexReversed(recindex, rec) ==
  IF rec.staff /\ LoopWriteRecordOn /\ Ntohl(rec.idx) < recindex
  THEN rec.idx ELSE recindex
ScanIndexFirst(recindex, rec) ==
  IF rec.staff /\ LoopWriteRecordOn /\ recindex = 0 THEN rec.idx ELSE recindex

\* The counter after the boot scan has looked at one record: the comparison
\* is made on the swapped bytes, the value taken is the plain one.
ScanIndex(recindex, rec) ==
  IF rec.staff /\ LoopWriteRecordOn /\ Ntohl(rec.idx) > recindex
  THEN rec.idx
  ELSE recindex

-----------------------------------------------------------------------------

\* FDB_GetAttByIndex with maxcount = MAX_POST_ATT_COUNT = 1: from position fp
\* on, the first record of a person whose serial is above curindex, and the
\* position after it; at the end of the file, no record.
Hits(file, fp, curindex) ==
  {i \in fp + 1 .. Len(file) : file[i].staff /\ file[i].idx > curindex}

\* Fault: the position returned is the end of the file.
GetAttByIndexToEnd(file, fp, curindex) ==
  LET hits == Hits(file, fp, curindex)
      first == CHOOSE i \in hits : \A k \in hits : i <= k
  IN  IF hits = {}
      THEN [found |-> FALSE, at |-> 0, fp |-> Len(file)]
      ELSE [found |-> TRUE, at |-> first, fp |-> Len(file)]

GetAttByIndex(file, fp, curindex) ==
  LET hits == Hits(file, fp, curindex)
      first == CHOOSE i \in hits : \A k \in hits : i <= k
  IN  IF hits = {}
      THEN [found |-> FALSE, at |-> 0, fp |-> Len(file)]
      ELSE [found |-> TRUE, at |-> first, fp |-> first]

=============================================================================
