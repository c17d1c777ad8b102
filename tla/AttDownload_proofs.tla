-------------------------- MODULE AttDownload_proofs --------------------------
(***************************************************************************)
(* delFileHead, proved for records, blocks and gaps of any size: no record  *)
(* that stays is lost while the file is moved, and the move ends with       *)
(* exactly the oldest records gone; any number of power failures tears at   *)
(* most one record each; and the mark of the PC's downloads never runs      *)
(* ahead of what the PC got.                                                *)
(***************************************************************************)
EXTENDS AttDownload, SequenceTheorems, FiniteSetTheorems, WellFoundedInduction, TLAPS

\* The file up to head is the original from Gap on, and behind it as it was.
MovedTo(n) ==
  /\ Len(file) = Len(orig)
  /\ n = 0 \/ n + Gap <= Len(orig)
  /\ \A i \in 1 .. Len(orig) : file[i] = IF i <= n THEN orig[i + Gap] ELSE orig[i]

CopyInv ==
  /\ file \in Seq(Cell) /\ orig \in Seq(Cell) /\ head \in Nat /\ issued \in Nat
  /\ pc = "copy" => MovedTo(head)
  /\ DeletionExact

LEMMA GapTyped == Gap \in Nat /\ Gap >= RecCells /\ RecCells \in Nat /\ RecCells > 0
<1>1. DelRecord \in Nat /\ DelRecord >= 1 /\ RecCells \in Nat /\ RecCells >= 1
  BY SizeAssumption
<1> DEFINE more == DelRecord - 1
<1>2. more \in Nat /\ DelRecord = more + 1
  BY <1>1
<1> HIDE DEF more
<1>3. (more + 1) * RecCells = more * RecCells + RecCells /\ more * RecCells \in Nat
  BY <1>1, <1>2
<1> QED
  BY <1>1, <1>2, <1>3 DEF Gap

LEMMA CellTyped == ASSUME NEW f \in Seq(Cell), NEW i \in 1 .. Len(f) PROVE f[i] \in Cell
  BY ElementOfSeq, Zenon

LEMMA BlockTyped ==
  ASSUME file \in Seq(Cell), head \in Nat
  PROVE  /\ BlockLen \in Nat
         /\ BlockLen > 0 => head + Gap + BlockLen <= Len(file)
         /\ BlockLen = 0 => Len(file) <= head + Gap
<1>1. Len(file) \in Nat /\ BlockCells \in Nat /\ BlockCells > 0 /\ Gap \in Nat
  BY SizeAssumption, GapTyped
<1>2. CASE Len(file) <= head + Gap
  <2>1. BlockLen = 0
    BY <1>2 DEF BlockLen
  <2> QED
    BY <1>2, <2>1
<1>3. CASE ~(Len(file) <= head + Gap)
  <2> DEFINE left == Len(file) - head - Gap
  <2>1. left \in Nat /\ left > 0 /\ head + Gap + left = Len(file)
    BY <1>1, <1>3
  <2>2. BlockLen = IF BlockCells <= left THEN BlockCells ELSE left
    BY <1>3 DEF BlockLen, LesserOf
  <2> HIDE DEF left
  <2> QED
    BY <1>1, <2>1, <2>2
<1> QED
  BY <1>2, <1>3

\* What the first n cells of a block leave in the file.
LEMMA CopiedFile ==
  ASSUME file \in Seq(Cell), head \in Nat, NEW n \in 0 .. BlockLen
  PROVE  /\ Copied(n) \in Seq(Cell) /\ Len(Copied(n)) = Len(file)
         /\ \A i \in 1 .. Len(file) :
              Copied(n)[i] = IF i \in head + 1 .. head + n THEN file[i + Gap] ELSE file[i]
<1>1. Len(file) \in Nat /\ BlockLen \in Nat /\ n <= BlockLen /\ n \in Nat
  BY BlockTyped
<1>2. \A i \in head + 1 .. head + n : i + Gap \in 1 .. Len(file)
  BY <1>1, BlockTyped, GapTyped
<1>3. Copied(n) \in [1 .. Len(file) -> Cell]
  BY <1>2, CellTyped DEF Copied
<1>4. Copied(n) \in Seq(Cell) /\ Len(Copied(n)) = Len(file)
  BY <1>1, <1>3
<1> QED
  BY <1>4 DEF Copied

\* A block that is copied moves the boundary by its length.
LEMMA BlockMoves ==
  ASSUME CopyInv, pc = "copy", BlockLen > 0, file' = Copied(BlockLen),
         head' = head + BlockLen, orig' = orig
  PROVE  MovedTo(head)'
<1>1. /\ Len(file) = Len(orig) /\ Len(orig) \in Nat /\ head \in Nat /\ BlockLen \in Nat
      /\ head + Gap + BlockLen <= Len(orig)
      /\ \A i \in 1 .. Len(orig) : file[i] = IF i <= head THEN orig[i + Gap] ELSE orig[i]
  BY BlockTyped DEF CopyInv, MovedTo
<1>2. /\ Len(file') = Len(orig)
      /\ \A i \in 1 .. Len(orig) :
           file'[i] = IF i \in head + 1 .. head + BlockLen THEN file[i + Gap] ELSE file[i]
  BY <1>1, CopiedFile DEF CopyInv
<1>3. ASSUME NEW i \in 1 .. Len(orig)
      PROVE  file'[i] = IF i <= head + BlockLen THEN orig[i + Gap] ELSE orig[i]
  <2>1. CASE i <= head
    BY <1>1, <1>2, <2>1
  <2>2. CASE i \in head + 1 .. head + BlockLen
    <3>1. i + Gap \in 1 .. Len(orig) /\ ~(i + Gap <= head)
      BY <1>1, <2>2, GapTyped
    <3>2. file[i + Gap] = orig[i + Gap]
      BY <1>1, <3>1
    <3> QED
      BY <1>1, <1>2, <2>2, <3>2
  <2>3. CASE i > head + BlockLen
    BY <1>1, <1>2, <2>3
  <2> QED
    BY <1>1, <2>1, <2>2, <2>3
<1>4. head + BlockLen + Gap <= Len(orig)
  BY <1>1, GapTyped
<1> QED
  BY <1>1, <1>2, <1>3, <1>4 DEF MovedTo

\* With no block left, the file is the original without its oldest records.
LEMMA MoveEnds ==
  ASSUME CopyInv, pc = "copy", BlockLen = 0,
         file' = IF head > 0 THEN SubSeq(file, 1, head) ELSE file, orig' = orig
  PROVE  /\ file' \in Seq(Cell)
         /\ file' = IF Len(orig) <= Gap THEN orig ELSE SubSeq(orig, Gap + 1, Len(orig))
<1>1. /\ file \in Seq(Cell) /\ orig \in Seq(Cell)
      /\ Len(file) = Len(orig) /\ Len(orig) \in Nat /\ head \in Nat
      /\ Len(orig) <= head + Gap /\ (head = 0 \/ head + Gap <= Len(orig))
      /\ \A i \in 1 .. Len(orig) : file[i] = IF i <= head THEN orig[i + Gap] ELSE orig[i]
  BY BlockTyped DEF CopyInv, MovedTo
<1>2. CASE head = 0
  <2>1. \A i \in 1 .. Len(orig) : file[i] = orig[i]
    BY <1>1, <1>2
  <2>2. file = orig
    BY <1>1, <2>1, SeqEqual
  <2> QED
    BY <1>1, <1>2, <2>2, GapTyped
<1>3. CASE head > 0
  <2>1. head = Len(orig) - Gap /\ ~(Len(orig) <= Gap)
    BY <1>1, <1>3, GapTyped
  <2>2. \A i \in 1 .. head : file[i] \in Cell
    BY <1>1, <2>1, CellTyped, GapTyped
  <2>3. \A i \in Gap + 1 .. Len(orig) : orig[i] \in Cell
    BY <1>1, CellTyped, GapTyped
  <2> DEFINE front == SubSeq(file, 1, head)
             back == SubSeq(orig, Gap + 1, Len(orig))
  <2>4. /\ front \in Seq(Cell) /\ Len(front) = IF 1 <= head THEN head - 1 + 1 ELSE 0
        /\ \A i \in 1 .. head - 1 + 1 : front[i] = file[1 + i - 1]
    BY <1>1, <2>2, SubSeqProperties
  <2>5. /\ back \in Seq(Cell)
        /\ Len(back) = IF Gap + 1 <= Len(orig) THEN Len(orig) - (Gap + 1) + 1 ELSE 0
        /\ \A i \in 1 .. Len(orig) - (Gap + 1) + 1 : back[i] = orig[Gap + 1 + i - 1]
    BY <1>1, <2>3, SubSeqProperties, GapTyped
  <2> HIDE DEF front, back
  <2>6. Len(front) = head
    BY <1>1, <1>3, <2>4
  <2>7. Len(back) = head
    <3>1. Len(back) = IF Gap + 1 <= Len(orig) THEN Len(orig) - (Gap + 1) + 1 ELSE 0
      BY <2>5
    <3> QED
      BY <1>1, <2>1, <3>1, GapTyped
  <2>8. ASSUME NEW i \in 1 .. head PROVE front[i] = back[i]
    <3>1. front[i] = file[i]
      <4>1. i \in 1 .. head - 1 + 1 /\ 1 + i - 1 = i
        BY <1>1
      <4> QED
        BY <2>4, <4>1
    <3>2. back[i] = orig[i + Gap]
      <4>1. i \in 1 .. Len(orig) - (Gap + 1) + 1 /\ Gap + 1 + i - 1 = i + Gap
        BY <1>1, <2>1, GapTyped
      <4> QED
        BY <2>5, <4>1
    <3>3. file[i] = orig[i + Gap]
      <4>1. i \in 1 .. Len(orig) /\ i <= head
        BY <1>1, <2>1, GapTyped
      <4> QED
        BY <1>1, <4>1
    <3> QED
      BY <3>1, <3>2, <3>3
  <2>9. front = back
    BY <2>4, <2>5, <2>6, <2>7, <2>8, SeqEqual
  <2> QED
    BY <1>3, <2>1, <2>4, <2>9 DEF front, back
<1> QED
  BY <1>1, <1>2, <1>3

-----------------------------------------------------------------------------

LEMMA CopyInit == Init => CopyInv
<1> SUFFICES ASSUME Init PROVE CopyInv
  OBVIOUS
<1>1. <<>> \in Seq(Cell)
  BY EmptySeq, Zenon
<1> QED
  BY <1>1 DEF Init, CopyInv, DeletionExact

LEMMA SavedCells ==
  ASSUME NEW staff \in BOOLEAN, issued \in Nat, file \in Seq(Cell), NEW s \in 0 .. RecCells
  PROVE  LET cells == CellsOf([id |-> issued + 1, staff |-> staff])
         IN  file \o SubSeq(cells, 1, s) \o cells \in Seq(Cell)
<1> DEFINE cells == CellsOf([id |-> issued + 1, staff |-> staff])
<1>1. RecCells \in Nat /\ s \in Nat /\ s <= RecCells
  BY SizeAssumption
<1>2. cells \in [1 .. RecCells -> Cell]
  BY DEF CellsOf, Cell, Rec
<1>3. cells \in Seq(Cell) /\ \A i \in 1 .. s : cells[i] \in Cell
  BY <1>1, <1>2
<1> HIDE DEF cells
<1>4. SubSeq(cells, 1, s) \in Seq(Cell)
  BY <1>1, <1>3, SubSeqProperties
<1>5. file \o SubSeq(cells, 1, s) \in Seq(Cell)
  BY <1>4, ConcatProperties
<1>6. file \o SubSeq(cells, 1, s) \o cells \in Seq(Cell)
  BY <1>3, <1>5, ConcatProperties
<1> QED
  BY <1>6 DEF cells

LEMMA PartsKept ==
  ASSUME NEW staff \in BOOLEAN, issued \in Nat, file \in Seq(Cell),
         NEW s \in 0 .. RecCells, NEW t \in 0 .. RecCells
  PROVE  LET cells == CellsOf([id |-> issued + 1, staff |-> staff])
         IN  file \o SubSeq(cells, 1, s) \o SubSeq(cells, 1, t) \in Seq(Cell)
<1> DEFINE cells == CellsOf([id |-> issued + 1, staff |-> staff])
<1>1. RecCells \in Nat /\ s \in Nat /\ s <= RecCells /\ t \in Nat /\ t <= RecCells
  BY SizeAssumption
<1>2. cells \in [1 .. RecCells -> Cell]
  BY DEF CellsOf, Cell, Rec
<1>3. cells \in Seq(Cell) /\ \A i \in 1 .. RecCells : cells[i] \in Cell
  BY <1>1, <1>2
<1> HIDE DEF cells
<1>4. SubSeq(cells, 1, s) \in Seq(Cell)
  BY <1>1, <1>3, SubSeqProperties
<1>5. SubSeq(cells, 1, t) \in Seq(Cell)
  BY <1>1, <1>3, SubSeqProperties
<1>6. file \o SubSeq(cells, 1, s) \in Seq(Cell)
  BY <1>4, ConcatProperties
<1>7. file \o SubSeq(cells, 1, s) \o SubSeq(cells, 1, t) \in Seq(Cell)
  BY <1>5, <1>6, ConcatProperties
<1> QED
  BY <1>7 DEF cells

LEMMA NothingAppended ==
  ASSUME NEW f \in Seq(Cell), NEW c, NEW d
  PROVE  f \o SubSeq(c, 1, 0) \o SubSeq(d, 1, 0) = f
<1>1. SubSeq(c, 1, 0) = <<>> /\ SubSeq(d, 1, 0) = <<>>
  OBVIOUS
<1> QED
  BY <1>1, ConcatEmptySeq, Zenon

\* A save that fails without a short write leaves the file alone.
LEMMA FailsLeaves ==
  ASSUME CopyInv, NEW staff \in BOOLEAN, NEW s \in {0} \cup ShortWrites,
         NEW t \in {0} \cup ShortWrites, SaveFails(staff, s, t), ~short'
  PROVE  file' = file /\ ~short
<1> DEFINE cells == CellsOf([id |-> issued + 1, staff |-> staff])
<1>1. /\ short' = (short \/ s > 0 \/ t > 0)
      /\ file' = file \o SubSeq(cells, 1, s) \o SubSeq(cells, 1, t)
  BY DEF SaveFails
<1>2. s \in Nat /\ t \in Nat
  BY ShortAssumption
<1>3. ~short /\ ~(s > 0) /\ ~(t > 0)
  BY <1>1, Zenon
<1>5. s = 0 /\ t = 0
  BY <1>2, <1>3
<1>4. file \in Seq(Cell)
  BY DEF CopyInv
<1> HIDE DEF cells
<1> QED
  BY <1>1, <1>3, <1>4, <1>5, NothingAppended

LEMMA CopyStep == CopyInv /\ [Next]_vars => CopyInv'
<1> SUFFICES ASSUME CopyInv, [Next]_vars PROVE CopyInv'
  OBVIOUS
<1> USE DEF history
<1>0. file \in Seq(Cell) /\ orig \in Seq(Cell) /\ head \in Nat /\ issued \in Nat
  BY DEF CopyInv
<1>1. CASE Verify
  <2>1. CASE CurAttLogCount >= MaxLog
    <3>1. pc' = "copy" /\ head' = 0 /\ orig' = file /\ file' = file /\ issued' = issued
      BY <1>1, <2>1 DEF Verify
    <3>2. \A i \in 1 .. Len(file) : ~(i <= 0)
      BY <1>0
    <3>3. MovedTo(head)'
      BY <3>1, <3>2 DEF MovedTo
    <3> QED
      BY <1>0, <3>1, <3>3 DEF CopyInv, DeletionExact
  <2>2. CASE ~(CurAttLogCount >= MaxLog)
    BY <1>0, <1>1, <2>2 DEF Verify, CopyInv, DeletionExact
  <2> QED
    BY <2>1, <2>2
<1>2. CASE CopyBlock
  <2>1. /\ pc = "copy" /\ pc' = pc /\ BlockLen > 0 /\ file' = Copied(BlockLen)
        /\ head' = head + BlockLen /\ orig' = orig /\ issued' = issued
    BY <1>2 DEF CopyBlock
  <2>2. BlockLen \in Nat
    BY <1>0, BlockTyped
  <2>3. file' \in Seq(Cell)
    BY <1>0, <2>1, <2>2, CopiedFile
  <2>4. MovedTo(head)'
    BY <2>1, BlockMoves
  <2> QED
    BY <1>0, <2>1, <2>2, <2>3, <2>4 DEF CopyInv, DeletionExact
<1>3. CASE CopyDone
  <2>1. /\ pc = "copy" /\ pc' = "adjust" /\ BlockLen = 0 /\ orig' = orig /\ issued' = issued
        /\ file' = IF head > 0 THEN SubSeq(file, 1, head) ELSE file
        /\ head' = head
    BY <1>3 DEF CopyDone
  <2>2. /\ file' \in Seq(Cell)
        /\ file' = IF Len(orig) <= Gap THEN orig ELSE SubSeq(orig, Gap + 1, Len(orig))
    BY <2>1, MoveEnds
  <2> QED
    BY <1>0, <2>1, <2>2 DEF CopyInv, DeletionExact
<1>4. CASE Adjust
  <2>1. <<>> \in Seq(Cell)
    BY EmptySeq, Zenon
  <2> QED
    BY <1>0, <1>4, <2>1 DEF Adjust, CopyInv, DeletionExact
<1>5. ASSUME NEW staff \in BOOLEAN, NEW verified \in BOOLEAN, NEW s \in {0} \cup ShortWrites,
             SaveAttLog(staff, verified, s)
      PROVE  CopyInv'
  <2>1. s \in 0 .. RecCells
    BY ShortAssumption, SizeAssumption
  <2>2. file' \in Seq(Cell)
    BY <1>0, <1>5, <2>1, SavedCells DEF SaveAttLog
  <2> QED
    BY <1>0, <1>5, <2>2 DEF SaveAttLog, CopyInv, DeletionExact
<1>6. CASE SaveNothing
  BY <1>0, <1>6 DEF SaveNothing, CopyInv, DeletionExact
<1>11. ASSUME NEW staff \in BOOLEAN, NEW s \in {0} \cup ShortWrites,
             NEW t \in {0} \cup ShortWrites, SaveFails(staff, s, t)
       PROVE  CopyInv'
  <2>1. s \in 0 .. RecCells /\ t \in 0 .. RecCells
    BY ShortAssumption, SizeAssumption
  <2>2. file' \in Seq(Cell)
    BY <1>0, <1>11, <2>1, PartsKept DEF SaveFails
  <2> QED
    BY <1>0, <1>11, <2>2 DEF SaveFails, CopyInv, DeletionExact
<1>7. CASE FDB_ReadAttBlock
  BY <1>0, <1>7 DEF FDB_ReadAttBlock, CopyInv, DeletionExact
<1>8. CASE ClearData
  <2>1. <<>> \in Seq(Cell)
    BY EmptySeq, Zenon
  <2> QED
    BY <1>0, <1>8, <2>1 DEF ClearData, CopyInv, DeletionExact
<1>9. ASSUME NEW n \in 0 .. BlockCells, Crash(n) PROVE CopyInv'
  <2>1. n \in 0 .. BlockLen
    BY <1>0, <1>9, BlockTyped DEF Crash
  <2>2. file' \in Seq(Cell)
    BY <1>0, <1>9, <2>1, CopiedFile DEF Crash
  <2>3. <<>> \in Seq(Cell)
    BY EmptySeq, Zenon
  <2> QED
    BY <1>0, <1>9, <2>2, <2>3 DEF Crash, CopyInv, DeletionExact
<1>10. CASE UNCHANGED vars
  BY <1>10 DEF vars, CopyInv, MovedTo, DeletionExact
<1> QED
  BY <1>1, <1>2, <1>3, <1>4, <1>5, <1>6, <1>7, <1>8, <1>9, <1>10, <1>11 DEF Next

\* A deletion that ran to its end removed exactly the oldest records from the
\* bytes of the file, for blocks that are no whole number of records
\* (delFileHead).
THEOREM DeletionIsExact == Spec => []DeletionExact
<1>1. CopyInv => DeletionExact
  BY DEF CopyInv
<1> QED
  BY <1>1, CopyInit, CopyStep, PTL DEF Spec

-----------------------------------------------------------------------------

\* A record is a chunk of whole cells of the file.
LEMMA ChunkInside ==
  ASSUME NEW f \in Seq(Cell), NEW k \in Chunks(f)
  PROVE  k * RecCells <= Len(f) /\ k \in Nat /\ k >= 1
<1>1. Len(f) \in Nat /\ RecCells \in Nat /\ RecCells > 0 /\ k \in Nat /\ k >= 1
  BY SizeAssumption DEF Chunks, CntAttLog
<1> DEFINE q == Len(f) \div RecCells
<1>2. q \in Nat /\ q * RecCells <= Len(f) /\ k <= q
  BY <1>1 DEF Chunks, CntAttLog
<1> HIDE DEF q
<1> DEFINE more == q - k
<1>3. more \in Nat /\ q = k + more
  BY <1>1, <1>2
<1> HIDE DEF more
<1>4. (k + more) * RecCells = k * RecCells + more * RecCells /\ more * RecCells \in Nat
        /\ k * RecCells \in Nat
  BY <1>1, <1>3
<1> QED
  BY <1>1, <1>2, <1>3, <1>4

LEMMA MoveLosesNothing ==
  ASSUME CopyInv, pc = "copy", NEW k \in Chunks(orig), k > DelRecord
  PROVE  Chunk(file, k) = Chunk(orig, k) \/ Chunk(file, k - DelRecord) = Chunk(orig, k)
<1>1. /\ orig \in Seq(Cell) /\ head \in Nat /\ Len(orig) \in Nat
      /\ \A i \in 1 .. Len(orig) : file[i] = IF i <= head THEN orig[i + Gap] ELSE orig[i]
  BY DEF CopyInv, MovedTo
<1>2. k * RecCells <= Len(orig) /\ k \in Nat /\ k >= 1
  BY <1>1, ChunkInside
<1>3. DelRecord \in Nat /\ RecCells \in Nat /\ RecCells >= 1
  BY SizeAssumption
<1> DEFINE base == (k - 1) * RecCells
<1>4. /\ base \in Nat /\ k * RecCells = base + RecCells
      /\ (k - DelRecord - 1) * RecCells = base - Gap
      /\ (k - DelRecord - 1) * RecCells \in Nat
  <2> DEFINE d == k - DelRecord - 1
  <2>1. d \in Nat /\ k - 1 = d + DelRecord
    BY <1>2, <1>3
  <2> HIDE DEF d
  <2>2. (d + DelRecord) * RecCells = d * RecCells + DelRecord * RecCells
    BY <1>3, <2>1
  <2>3. d * RecCells \in Nat /\ Gap \in Nat
    BY <1>3, <2>1, GapTyped
  <2>4. base = d * RecCells + Gap
    BY <2>1, <2>2 DEF Gap
  <2>5. (k - 1 + 1) * RecCells = (k - 1) * RecCells + RecCells
    BY <1>2, <1>3
  <2>6. k - 1 + 1 = k
    BY <1>2
  <2> HIDE DEF base
  <2>7. base \in Nat /\ d * RecCells = base - Gap
    BY <2>3, <2>4
  <2> QED
    BY <2>3, <2>5, <2>6, <2>7 DEF base, d
<1> DEFINE less == (k - DelRecord - 1) * RecCells
<1>5. /\ Chunk(file, k) = [j \in 1 .. RecCells |-> file[base + j]]
      /\ Chunk(orig, k) = [j \in 1 .. RecCells |-> orig[base + j]]
      /\ Chunk(file, k - DelRecord) = [j \in 1 .. RecCells |-> file[less + j]]
  BY DEF Chunk
<1>6. base \in Nat /\ less \in Nat /\ less = base - Gap /\ base + RecCells <= Len(orig)
  BY <1>2, <1>4
<1> HIDE DEF base, less
<1>7. CASE less + RecCells <= head
  <2>1. ASSUME NEW j \in 1 .. RecCells PROVE file[less + j] = orig[base + j]
    <3>1. less + j \in 1 .. Len(orig) /\ less + j <= head /\ less + j + Gap = base + j
      BY <1>1, <1>3, <1>6, <1>7, GapTyped
    <3> QED
      BY <1>1, <3>1
  <2> QED
    BY <1>5, <2>1
<1>8. CASE ~(less + RecCells <= head)
  <2>1. ASSUME NEW j \in 1 .. RecCells PROVE file[base + j] = orig[base + j]
    <3>1. base + j \in 1 .. Len(orig) /\ ~(base + j <= head)
      BY <1>1, <1>3, <1>6, <1>8, GapTyped
    <3> QED
      BY <1>1, <3>1
  <2> QED
    BY <1>5, <2>1
<1> QED
  BY <1>7, <1>8

\* While the file is being moved, wherever the power may fail, every record
\* that stays is in it with all its bytes (delFileHead).
THEOREM NothingIsLost == Spec => []CopyLosesNothing
<1>1. CopyInv => CopyLosesNothing
  BY MoveLosesNothing DEF CopyLosesNothing
<1> QED
  BY <1>1, CopyInit, CopyStep, PTL DEF Spec

-----------------------------------------------------------------------------
(* Records as chunks of a file of whole records.                            *)

Torn(f) == {k \in Chunks(f) : ~Whole(Chunk(f, k))}
Records(f, m) == f \in Seq(Cell) /\ m \in Nat /\ Len(f) = m * RecCells

LEMMA Euclid ==
  ASSUME NEW x \in Nat, NEW w \in Nat \ {0}
  PROVE  /\ x \div w \in Nat
         /\ x % w \in 0 .. w - 1
         /\ x = w * (x \div w) + (x % w)
OBVIOUS

LEMMA Monotone ==
  ASSUME NEW a \in Nat, NEW b \in Nat, NEW w \in Nat \ {0}
  PROVE  /\ a * w \in Nat /\ b * w \in Nat /\ (a + b) * w = a * w + b * w
         /\ a <= b => a * w <= b * w
         /\ a < b => a * w + w <= b * w
<1>1. a * w \in Nat /\ b * w \in Nat /\ (a + b) * w = a * w + b * w
  OBVIOUS
<1>2. ASSUME a <= b PROVE a * w <= b * w
  <2> DEFINE d == b - a
  <2>1. d \in Nat /\ b = a + d
    BY <1>2
  <2> HIDE DEF d
  <2>2. (a + d) * w = a * w + d * w /\ d * w \in Nat
    BY <2>1
  <2> QED
    BY <1>1, <2>1, <2>2
<1>3. ASSUME a < b PROVE a * w + w <= b * w
  <2> DEFINE d == b - a - 1
  <2>1. d \in Nat /\ b = a + d + 1
    BY <1>3
  <2> HIDE DEF d
  <2>2. (a + d + 1) * w = a * w + d * w + w /\ d * w \in Nat
    BY <2>1
  <2> QED
    BY <1>1, <2>1, <2>2
<1> QED
  BY <1>1, <1>2, <1>3

LEMMA SizesTyped == DelRecord \in Nat \ {0} /\ RecCells \in Nat \ {0} /\ Gap = DelRecord * RecCells
  BY SizeAssumption DEF Gap

LEMMA CountRecords ==
  ASSUME NEW f, NEW m, Records(f, m)
  PROVE  CntAttLog(f) = m /\ Chunks(f) = 1 .. m
<1>1. RecCells \in Nat \ {0} /\ m \in Nat /\ Len(f) = m * RecCells /\ Len(f) \in Nat
  BY SizesTyped DEF Records
<1> DEFINE q == Len(f) \div RecCells
           r == Len(f) % RecCells
<1>2. q \in Nat /\ r \in 0 .. RecCells - 1 /\ m * RecCells = RecCells * q + r
  BY <1>1, Euclid
<1>3. CntAttLog(f) = q
  BY DEF CntAttLog
<1> HIDE DEF q, r
<1>4. q * RecCells = RecCells * q
  BY <1>1, <1>2
<1>5. ~(m < q)
  <2> SUFFICES ASSUME m < q PROVE FALSE
    OBVIOUS
  <2>1. m * RecCells + RecCells <= q * RecCells
    BY <1>1, <1>2, Monotone
  <2>2. m * RecCells \in Nat /\ q * RecCells \in Nat
    BY <1>1, <1>2
  <2> QED
    BY <1>1, <1>2, <1>4, <2>1, <2>2
<1>6. ~(q < m)
  <2> SUFFICES ASSUME q < m PROVE FALSE
    OBVIOUS
  <2>1. q * RecCells + RecCells <= m * RecCells
    BY <1>1, <1>2, Monotone
  <2>2. m * RecCells \in Nat /\ q * RecCells \in Nat
    BY <1>1, <1>2
  <2> QED
    BY <1>1, <1>2, <1>4, <2>1, <2>2
<1>7. m = q
  BY <1>1, <1>2, <1>5, <1>6
<1> QED
  BY <1>3, <1>7 DEF Chunks

LEMMA CellOfChunk ==
  ASSUME NEW f, NEW k, NEW j \in 1 .. RecCells
  PROVE  Chunk(f, k)[j] = f[(k - 1) * RecCells + j]
  BY DEF Chunk

\* Two records are equal when their cells are.
LEMMA SameCells ==
  ASSUME NEW f, NEW g, NEW k, NEW l,
         \A j \in 1 .. RecCells : f[(k - 1) * RecCells + j] = g[(l - 1) * RecCells + j]
  PROVE  Chunk(f, k) = Chunk(g, l)
  BY DEF Chunk

\* A file that is its old self from boundary n on and moved below it: the
\* records before some record s are those of DelRecord places on, the records
\* behind s are where they were, and s itself is a mixture of two.
LEMMA Mixture ==
  ASSUME NEW f, NEW g, NEW m, Records(f, m), Records(g, m), NEW n \in Nat, n > 0,
         n + Gap <= Len(f),
         \A i \in 1 .. Len(f) : g[i] = IF i <= n THEN f[i + Gap] ELSE f[i]
  PROVE  \E s \in 1 .. m - DelRecord :
           /\ \A k \in 1 .. m : k < s => Chunk(g, k) = Chunk(f, k + DelRecord)
           /\ \A k \in 1 .. m : k > s => Chunk(g, k) = Chunk(f, k)
           /\ Chunk(f, s) = Chunk(f, s + DelRecord) => Chunk(g, s) = Chunk(f, s)
<1>1. /\ RecCells \in Nat \ {0} /\ DelRecord \in Nat \ {0} /\ Gap = DelRecord * RecCells
      /\ m \in Nat /\ Len(f) = m * RecCells
  BY SizesTyped DEF Records
<1> DEFINE q == (n - 1) \div RecCells
           r == (n - 1) % RecCells
<1>2. q \in Nat /\ r \in 0 .. RecCells - 1 /\ n - 1 = RecCells * q + r
  <2>1. n - 1 \in Nat
    OBVIOUS
  <2> QED
    BY <1>1, <2>1, Euclid
<1> HIDE DEF q, r
<1> DEFINE s == q + 1
<1>3. RecCells * q = q * RecCells /\ q * RecCells \in Nat
  BY <1>1, <1>2
<1>4. q * RecCells < n /\ n <= q * RecCells + RecCells
  BY <1>1, <1>2, <1>3
<1>5. s + DelRecord <= m
  <2> SUFFICES ASSUME m < s + DelRecord PROVE FALSE
    BY <1>1, <1>2
  <2>1. m <= q + DelRecord
    BY <1>1, <1>2
  <2>2. m * RecCells <= (q + DelRecord) * RecCells
    <3>1. q + DelRecord \in Nat
      BY <1>1, <1>2
    <3> QED
      BY <1>1, <2>1, <3>1, Monotone
  <2>3. (q + DelRecord) * RecCells = q * RecCells + DelRecord * RecCells
    BY <1>1, <1>2, Monotone
  <2>4. m * RecCells \in Nat /\ DelRecord * RecCells \in Nat
    BY <1>1
  <2> QED
    BY <1>1, <1>3, <1>4, <2>2, <2>3, <2>4
\* Where the cells of a record and of that DelRecord places on lie.
<1>6. ASSUME NEW k \in 1 .. m
      PROVE  /\ (k - 1) * RecCells \in Nat
             /\ (k - 1) * RecCells + RecCells <= Len(f)
             /\ ((k + DelRecord) - 1) * RecCells = (k - 1) * RecCells + Gap
             /\ k < s => (k - 1) * RecCells + RecCells <= q * RecCells
             /\ k > s => (k - 1) * RecCells >= q * RecCells + RecCells
             /\ k = s => (k - 1) * RecCells = q * RecCells
  <2> DEFINE b == k - 1
  <2>1. b \in Nat /\ k = b + 1 /\ b < m
    BY <1>1
  <2>2. (k + DelRecord) - 1 = b + DelRecord
    BY <1>1
  <2> HIDE DEF b
  <2>3. b * RecCells \in Nat /\ b * RecCells + RecCells <= m * RecCells
    BY <1>1, <2>1, Monotone
  <2>4. (b + DelRecord) * RecCells = b * RecCells + Gap
    BY <1>1, <2>1, Monotone
  <2>5. k < s => b * RecCells + RecCells <= q * RecCells
    <3>1. k < s => b < q
      BY <1>2, <2>1
    <3> QED
      BY <1>1, <1>2, <2>1, <3>1, Monotone
  <2>6. k > s => b * RecCells >= q * RecCells + RecCells
    <3>1. k > s => q < b
      BY <1>2, <2>1
    <3>2. q * RecCells + RecCells <= b * RecCells => b * RecCells >= q * RecCells + RecCells
      BY <1>1, <1>3, <2>3
    <3> QED
      BY <1>1, <1>2, <2>1, <3>1, <3>2, Monotone
  <2>7. k = s => b = q
    BY <1>2, <2>1
  <2> QED
    BY <1>1, <2>2, <2>3, <2>4, <2>5, <2>6, <2>7 DEF b
<1>7. Gap \in Nat /\ Len(f) \in Nat
  BY <1>1
<1>8. ASSUME NEW k \in 1 .. m, k < s PROVE Chunk(g, k) = Chunk(f, k + DelRecord)
  <2> DEFINE l == k + DelRecord
  <2>1. ASSUME NEW j \in 1 .. RecCells
        PROVE  g[(k - 1) * RecCells + j] = f[(l - 1) * RecCells + j]
    <3> DEFINE b == (k - 1) * RecCells
    <3>1. b \in Nat /\ b + RecCells <= Len(f) /\ b + RecCells <= q * RecCells
          /\ ((k + DelRecord) - 1) * RecCells = b + Gap
      BY <1>6, <1>8
    <3> HIDE DEF b
    <3>2. b + j \in 1 .. Len(f) /\ b + j <= n /\ b + j + Gap = b + Gap + j
      BY <1>1, <1>3, <1>4, <1>7, <3>1
    <3>3. g[b + j] = f[b + j + Gap]
      BY <3>2
    <3>4. (l - 1) * RecCells = b + Gap
      BY <3>1, Zenon DEF l
    <3>5. g[b + j] = f[(l - 1) * RecCells + j]
      BY <3>2, <3>3, <3>4
    <3> QED
      BY <3>5 DEF b
  <2> HIDE DEF l
  <2>2. Chunk(g, k) = Chunk(f, l)
    BY <2>1, SameCells
  <2> QED
    BY <2>2 DEF l
<1>9. ASSUME NEW k \in 1 .. m, k > s PROVE Chunk(g, k) = Chunk(f, k)
  <2>1. ASSUME NEW j \in 1 .. RecCells
        PROVE  g[(k - 1) * RecCells + j] = f[(k - 1) * RecCells + j]
    <3> DEFINE b == (k - 1) * RecCells
    <3>1. b \in Nat /\ b + RecCells <= Len(f) /\ b >= q * RecCells + RecCells
      BY <1>6, <1>9
    <3> HIDE DEF b
    <3>2. b + j \in 1 .. Len(f) /\ ~(b + j <= n)
      BY <1>1, <1>3, <1>4, <1>7, <3>1
    <3> QED
      BY <3>1, <3>2 DEF b
  <2> QED
    BY <2>1, SameCells
<1>10. s \in 1 .. m - DelRecord /\ s \in 1 .. m
  BY <1>1, <1>2, <1>5
<1>11. ASSUME Chunk(f, s) = Chunk(f, s + DelRecord) PROVE Chunk(g, s) = Chunk(f, s)
  <2>1. ASSUME NEW j \in 1 .. RecCells
        PROVE  g[(s - 1) * RecCells + j] = f[(s - 1) * RecCells + j]
    <3> DEFINE b == (s - 1) * RecCells
    <3>1. b \in Nat /\ b + RecCells <= Len(f)
          /\ ((s + DelRecord) - 1) * RecCells = b + Gap
      BY <1>6, <1>10
    <3> DEFINE l == s + DelRecord
    <3>2. (l - 1) * RecCells = b + Gap /\ Chunk(f, s)[j] = Chunk(f, l)[j]
      BY <1>11, <3>1, Zenon DEF l
    <3> HIDE DEF l
    <3>3. f[b + j] = f[b + Gap + j]
      <4>1. Chunk(f, s)[j] = f[b + j]
        BY CellOfChunk, Zenon DEF b
      <4>2. Chunk(f, l)[j] = f[(l - 1) * RecCells + j]
        BY CellOfChunk, Zenon
      <4> QED
        BY <3>2, <4>1, <4>2
    <3> HIDE DEF b
    <3>4. b + j \in 1 .. Len(f) /\ b + j + Gap = b + Gap + j
      BY <1>1, <1>7, <3>1
    <3> QED
      BY <3>3, <3>4 DEF b
  <2> QED
    BY <2>1, SameCells
<1> HIDE DEF s
<1> QED
  BY <1>8, <1>9, <1>10, <1>11

-----------------------------------------------------------------------------
(* Records torn: what a power failure in a deletion does to them.           *)

\* A torn record stands where a deletion stopped.  The records in front of it
\* were moved already and are still found DelRecord places on; so a deletion
\* that stops among them mixes equal records, and torn ones keep apart.
Twinned(f) ==
  /\ \A t \in Torn(f) : t + DelRecord \in Chunks(f)
  /\ \A t \in Torn(f), s \in Chunks(f) :
       t < s + DelRecord /\ s < t => Chunk(f, s) = Chunk(f, s + DelRecord)
  /\ \A t, u \in Torn(f) : t < u => t + DelRecord <= u

LEMMA TornTyped ==
  ASSUME NEW f, NEW m, Records(f, m)
  PROVE  /\ \A k : k \in Torn(f) <=> k \in 1 .. m /\ ~Whole(Chunk(f, k))
         /\ IsFiniteSet(Torn(f)) /\ Cardinality(Torn(f)) \in Nat
<1>1. \A k : k \in Torn(f) <=> k \in 1 .. m /\ ~Whole(Chunk(f, k))
  BY CountRecords, Zenon DEF Torn
<1>2. IsFiniteSet(1 .. m)
  BY FS_Interval DEF Records
<1>3. Torn(f) \in SUBSET (1 .. m)
  BY <1>1, Zenon
<1>4. IsFiniteSet(Torn(f))
  BY <1>2, <1>3, FS_Subset, Zenon
<1> QED
  BY <1>1, <1>4, FS_CardinalityType, Zenon

\* A set whose elements, all but one, are mapped to different elements of
\* another is larger by one at most.
LEMMA OneMore ==
  ASSUME NEW S, NEW T, NEW e, IsFiniteSet(S), IsFiniteSet(T), NEW F \in [S \ {e} -> T],
         \A a, b \in S \ {e} : F[a] = F[b] => a = b
  PROVE  Cardinality(S) <= Cardinality(T) + 1
<1> DEFINE R == S \ {e}
<1>1. F \in Injection(R, T)
  BY Zenon DEF Injection, IsInjective
<1>2. IsFiniteSet(R) /\ Cardinality(R) <= Cardinality(T)
  BY <1>1, FS_Injection, Zenon
<1>3. Cardinality(R) = IF e \in S THEN Cardinality(S) - 1 ELSE Cardinality(S)
  BY FS_RemoveElement, Zenon
<1>4. Cardinality(R) \in Nat /\ Cardinality(S) \in Nat /\ Cardinality(T) \in Nat
  BY <1>2, FS_CardinalityType, Zenon
<1> HIDE DEF R
<1> QED
  BY <1>2, <1>3, <1>4

LEMMA MixtureKeeps ==
  ASSUME NEW f, NEW g, NEW m, Records(f, m), Records(g, m), Twinned(f),
         NEW s \in 1 .. m - DelRecord,
         \A k \in 1 .. m : k < s => Chunk(g, k) = Chunk(f, k + DelRecord),
         \A k \in 1 .. m : k > s => Chunk(g, k) = Chunk(f, k),
         Chunk(f, s) = Chunk(f, s + DelRecord) => Chunk(g, s) = Chunk(f, s)
  PROVE  Twinned(g) /\ Cardinality(Torn(g)) <= Cardinality(Torn(f)) + 1
<1> DEFINE D == DelRecord
<1>1. D \in Nat \ {0} /\ m \in Nat /\ s \in 1 .. m /\ s + D <= m
  BY SizesTyped DEF Records
<1>2. /\ \A k : k \in Torn(f) <=> k \in 1 .. m /\ ~Whole(Chunk(f, k))
      /\ \A k : k \in Torn(g) <=> k \in 1 .. m /\ ~Whole(Chunk(g, k))
      /\ Chunks(f) = 1 .. m /\ Chunks(g) = 1 .. m
  BY TornTyped, CountRecords, Zenon
<1>3. /\ \A t \in Torn(f) : t + D <= m
      /\ \A t \in Torn(f), r \in 1 .. m : t < r + D /\ r < t => Chunk(f, r) = Chunk(f, r + D)
      /\ \A t, u \in Torn(f) : t < u => t + D <= u
  <2>1. \A t \in Torn(f) : t + D \in 1 .. m
    BY <1>2, Zenon DEF Twinned
  <2>2. \A t \in Torn(f), r \in 1 .. m : t < r + D /\ r < t => Chunk(f, r) = Chunk(f, r + D)
    BY <1>2, Zenon DEF Twinned
  <2>3. \A t, u \in Torn(f) : t < u => t + D <= u
    BY Zenon DEF Twinned
  <2> QED
    BY <1>1, <2>1, <2>2, <2>3
<1> HIDE DEF D
<1>4. /\ \A k \in 1 .. m : k < s => Chunk(g, k) = Chunk(f, k + D)
      /\ Chunk(f, s) = Chunk(f, s + D) => Chunk(g, s) = Chunk(f, s)
  BY DEF D
<1>5. \A k \in 1 .. m : k < s => (k \in Torn(g) <=> k + D \in Torn(f))
  <2> SUFFICES ASSUME NEW k \in 1 .. m, k < s PROVE k \in Torn(g) <=> k + D \in Torn(f)
    OBVIOUS
  <2>1. k + D \in 1 .. m
    BY <1>1
  <2> QED
    BY <1>2, <1>4, <2>1, Zenon
<1>6. \A k \in 1 .. m : k > s => (k \in Torn(g) <=> k \in Torn(f))
  BY <1>2
\* Next to a torn record in front of which the copy stopped.
<1>7. ASSUME NEW t \in Torn(f), s < t, t < s + D
      PROVE  /\ Chunk(g, s) = Chunk(f, s) /\ Chunk(g, s) = Chunk(f, s + D)
             /\ s \notin Torn(g)
  <2>1. Chunk(f, s) = Chunk(f, s + D)
    BY <1>1, <1>3, <1>7
  <2>2. s \notin Torn(f)
    <3> SUFFICES ASSUME s \in Torn(f) PROVE FALSE
      OBVIOUS
    <3>1. s + D <= t
      BY <1>3, <1>7
    <3>2. t \in Nat
      BY <1>2
    <3> QED
      BY <1>1, <1>7, <3>1, <3>2
  <2>3. Chunk(g, s) = Chunk(f, s)
    BY <1>4, <2>1
  <2> QED
    BY <1>1, <1>2, <2>1, <2>2, <2>3
<1>8. ASSUME NEW t \in Torn(g) PROVE t \in 1 .. m /\ t + D <= m
  <2>1. t \in 1 .. m
    BY <1>2
  <2> QED
    BY <1>1, <1>3, <1>6, <2>1
<1>9. ASSUME NEW x \in Torn(g), NEW y \in Torn(g), x < y PROVE x + D <= y
  <2>1. x \in 1 .. m /\ y \in 1 .. m
    BY <1>2
  <2>2. CASE x < s /\ y < s
    <3>1. x + D \in Torn(f) /\ y + D \in Torn(f)
      BY <1>5, <2>1, <2>2
    <3>2. x + D < y + D
      BY <1>1, <1>9, <2>1
    <3>3. x + D + D <= y + D
      BY <1>3, <3>1, <3>2
    <3> QED
      BY <1>1, <2>1, <3>3
  <2>3. CASE x < s /\ y > s
    <3>1. x + D \in Torn(f) /\ y \in Torn(f)
      BY <1>5, <1>6, <2>1, <2>3
    <3>2. ~(y < x + D)
      <4> SUFFICES ASSUME y < x + D PROVE FALSE
        OBVIOUS
      <4>1. y + D <= x + D
        BY <1>3, <3>1
      <4> QED
        BY <1>1, <1>9, <2>1, <4>1
    <3> QED
      BY <1>1, <2>1, <3>2
  <2>4. CASE x < s /\ y = s
    <3>1. x + D \in Torn(f)
      BY <1>5, <2>1, <2>4
    <3>2. ~(s < x + D)
      <4> SUFFICES ASSUME s < x + D PROVE FALSE
        OBVIOUS
      <4>1. x + D < s + D
        BY <1>1, <2>1, <2>4
      <4> QED
        BY <1>7, <2>4, <3>1, <4>1
    <3> QED
      BY <1>1, <2>1, <2>4, <3>2
  <2>5. CASE x = s
    <3>1. y \in Torn(f)
      BY <1>6, <1>9, <2>1, <2>5
    <3>2. ~(y < s + D)
      BY <1>7, <1>9, <2>5, <3>1
    <3> QED
      BY <1>1, <2>1, <2>5, <3>2
  <2>6. CASE x > s
    BY <1>1, <1>3, <1>6, <1>9, <2>1, <2>6
  <2> QED
    BY <1>1, <1>9, <2>1, <2>2, <2>3, <2>4, <2>5, <2>6
<1>10. ASSUME NEW t \in Torn(g), NEW r \in 1 .. m, t < r + D, r < t
       PROVE  Chunk(g, r) = Chunk(g, r + D)
  <2>1. t \in 1 .. m /\ t + D <= m /\ r + D \in 1 .. m
    <3>1. t \in 1 .. m /\ t + D <= m
      BY <1>8
    <3> QED
      BY <1>1, <1>10, <3>1
  <2>2. CASE t < s
    <3>1. t + D \in Torn(f) /\ Chunk(g, r) = Chunk(f, r + D)
      BY <1>4, <1>5, <1>10, <2>1, <2>2
    <3>2. Chunk(f, r + D) = Chunk(f, r + D + D)
      <4>1. t + D < (r + D) + D /\ r + D < t + D
        BY <1>1, <1>10, <2>1
      <4> QED
        BY <1>3, <2>1, <3>1, <4>1
    <3>3. CASE r + D < s
      BY <1>4, <2>1, <3>1, <3>2, <3>3
    <3>4. CASE r + D > s
      BY <2>1, <3>1, <3>4
    <3>5. CASE r + D = s
      BY <1>4, <3>1, <3>2, <3>5
    <3> QED
      BY <1>1, <2>1, <3>3, <3>4, <3>5
  <2>3. CASE t = s
    <3>1. r < s /\ r + D > s
      BY <1>1, <1>10, <2>1, <2>3
    <3> QED
      BY <1>4, <2>1, <3>1
  <2>4. CASE t > s
    <3>1. t \in Torn(f) /\ Chunk(g, r + D) = Chunk(f, r + D)
      <4>1. r + D > s
        BY <1>1, <1>10, <2>1, <2>4
      <4> QED
        BY <1>6, <2>1, <2>4, <4>1
    <3>2. Chunk(f, r) = Chunk(f, r + D)
      BY <1>3, <1>10, <3>1
    <3>3. CASE r < s
      BY <1>4, <3>1, <3>3
    <3>4. CASE r > s
      BY <3>1, <3>2, <3>4
    <3>5. CASE r = s
      BY <1>4, <3>1, <3>2, <3>5
    <3> QED
      BY <1>1, <3>3, <3>4, <3>5
  <2> QED
    BY <1>1, <2>1, <2>2, <2>3, <2>4
<1>11. Twinned(g)
  <2>1. \A t \in Torn(g) : t + D \in 1 .. m
    BY <1>1, <1>8
  <2> HIDE DEF D
  <2>2. \A t \in Torn(g) : t + DelRecord \in Chunks(g)
    BY <1>2, <2>1, Zenon DEF D
  <2>3. \A t \in Torn(g), r \in Chunks(g) :
          t < r + DelRecord /\ r < t => Chunk(g, r) = Chunk(g, r + DelRecord)
    BY <1>2, <1>10, Zenon DEF D
  <2>4. \A t, u \in Torn(g) : t < u => t + DelRecord <= u
    BY <1>9, Zenon DEF D
  <2> QED
    BY <2>2, <2>3, <2>4, Zenon DEF Twinned
<1>12. \E e : \A x, y \in Torn(g) \ {e} : ~(x < s /\ y > s /\ x + D = y) /\ ~(x = s)
  <2>1. CASE \E t \in Torn(f) : s < t /\ t < s + D
    <3>1. PICK t \in Torn(f) : s < t /\ t < s + D
      BY <2>1
    <3>2. s \notin Torn(g) /\ t \in Nat
      BY <1>2, <1>7, <3>1
    <3>3. ASSUME NEW x \in Torn(g) \ {t - D}, NEW y \in Torn(g) \ {t - D},
                 x < s, y > s, x + D = y
          PROVE  FALSE
      <4>1. x \in 1 .. m /\ y \in 1 .. m /\ y \in Torn(f)
        BY <1>2, <1>6, <3>3
      <4>2. y # t
        BY <1>1, <3>2, <3>3, <4>1
      <4>3. y < s + D
        BY <1>1, <3>3, <4>1
      <4>4. CASE y < t
        <5>1. y + D <= t
          BY <1>3, <4>1, <4>4
        <5> QED
          BY <1>1, <3>1, <3>2, <3>3, <4>1, <5>1
      <4>5. CASE t < y
        <5>1. t + D <= y
          BY <1>3, <4>1, <4>5
        <5> QED
          BY <1>1, <3>1, <3>2, <4>1, <4>3, <5>1
      <4> QED
        BY <3>2, <4>1, <4>2, <4>4, <4>5
    <3>4. \A x, y \in Torn(g) \ {t - D} : ~(x < s /\ y > s /\ x + D = y) /\ ~(x = s)
      BY <3>2, <3>3
    <3> QED
      BY <3>4
  <2>2. CASE ~\E t \in Torn(f) : s < t /\ t < s + D
    <3>1. ASSUME NEW x \in Torn(g), NEW y \in Torn(g), x < s, y > s, x + D = y PROVE FALSE
      <4>1. x \in 1 .. m /\ y \in 1 .. m /\ y \in Torn(f)
        BY <1>2, <1>6, <3>1
      <4>2. y < s + D
        BY <1>1, <3>1, <4>1
      <4> QED
        BY <2>2, <3>1, <4>1, <4>2
    <3>2. \A x, y \in Torn(g) \ {s} : ~(x < s /\ y > s /\ x + D = y) /\ ~(x = s)
      BY <3>1
    <3> QED
      BY <3>2
  <2> QED
    BY <2>1, <2>2
<1>13. Cardinality(Torn(g)) <= Cardinality(Torn(f)) + 1
  <2>1. PICK e : \A x, y \in Torn(g) \ {e} : ~(x < s /\ y > s /\ x + D = y) /\ ~(x = s)
    BY <1>12
  <2> DEFINE R == Torn(g) \ {e}
             F == [x \in R |-> IF x < s THEN x + D ELSE x]
  <2>2. \A x \in R : x \in 1 .. m /\ x # s /\ x \in Torn(g)
    BY <1>2, <2>1
  <2>3. F \in [R -> Torn(f)]
    <3>1. ASSUME NEW x \in R PROVE (IF x < s THEN x + D ELSE x) \in Torn(f)
      BY <1>1, <1>5, <1>6, <2>2
    <3> QED
      BY <3>1
  <2>4. ASSUME NEW x \in R, NEW y \in R, F[x] = F[y] PROVE x = y
    <3>1. /\ F[x] = IF x < s THEN x + D ELSE x
          /\ F[y] = IF y < s THEN y + D ELSE y
      BY DEF F
    <3>2. x \in 1 .. m /\ x # s /\ y \in 1 .. m /\ y # s
      BY <2>2
    <3>3. ~(x < s /\ y > s /\ x + D = y) /\ ~(y < s /\ x > s /\ y + D = x)
      BY <2>1
    <3> HIDE DEF F, R
    <3>4. (IF x < s THEN x + D ELSE x) = (IF y < s THEN y + D ELSE y)
      BY <2>4, <3>1, Zenon
    <3>5. D \in Nat /\ s \in Nat /\ x \in Nat /\ y \in Nat
      BY <1>1, <3>2
    <3> QED
      BY <3>2, <3>3, <3>4, <3>5
  <2> HIDE DEF F
  <2>5. IsFiniteSet(Torn(f)) /\ IsFiniteSet(Torn(g))
    BY TornTyped, Zenon
  <2> QED
    BY <2>3, <2>4, <2>5, OneMore, Zenon
<1> QED
  BY <1>11, <1>13

\* What a deletion that ran to its end leaves.
LEMMA Shifted ==
  ASSUME NEW f, NEW g, NEW m, Records(f, m),
         g = IF Len(f) <= Gap THEN f ELSE SubSeq(f, Gap + 1, Len(f))
  PROVE  \/ g = f /\ m <= DelRecord
         \/ /\ m > DelRecord /\ Records(g, m - DelRecord)
            /\ \A k \in 1 .. m - DelRecord : Chunk(g, k) = Chunk(f, k + DelRecord)
<1>1. /\ RecCells \in Nat \ {0} /\ DelRecord \in Nat \ {0} /\ Gap = DelRecord * RecCells
      /\ m \in Nat /\ Len(f) = m * RecCells /\ f \in Seq(Cell)
      /\ Gap \in Nat /\ Len(f) \in Nat
  BY SizesTyped DEF Records
<1>2. CASE m <= DelRecord
  <2>1. Len(f) <= Gap
    BY <1>1, <1>2, Monotone
  <2> QED
    BY <1>2, <2>1
<1>3. CASE m > DelRecord
  <2> DEFINE p == m - DelRecord
  <2>1. p \in Nat /\ p > 0 /\ m = p + DelRecord
    BY <1>1, <1>3
  <2> HIDE DEF p
  <2>2. Len(f) = p * RecCells + Gap /\ p * RecCells \in Nat /\ p * RecCells > 0
    <3>1. (p + DelRecord) * RecCells = p * RecCells + DelRecord * RecCells
      BY <1>1, <2>1, Monotone
    <3>2. 0 * RecCells + RecCells <= p * RecCells /\ p * RecCells \in Nat
      BY <1>1, <2>1, Monotone
    <3> QED
      BY <1>1, <2>1, <3>1, <3>2
  <2>3. g = SubSeq(f, Gap + 1, Len(f))
    BY <1>1, <2>2
  <2>4. \A i \in Gap + 1 .. Len(f) : f[i] \in Cell
    BY <1>1, CellTyped
  <2>5. /\ g \in Seq(Cell)
        /\ Len(g) = IF Gap + 1 <= Len(f) THEN Len(f) - (Gap + 1) + 1 ELSE 0
        /\ \A i \in 1 .. Len(f) - (Gap + 1) + 1 : g[i] = f[Gap + 1 + i - 1]
    <3>1. Gap + 1 \in Nat /\ Gap + 1 >= 1
      BY <1>1
    <3> QED
      BY <1>1, <2>3, <2>4, <3>1, SubSeqProperties
  <2>6. Len(g) = p * RecCells
    <3>1. Len(g) = IF Gap + 1 <= Len(f) THEN Len(f) - (Gap + 1) + 1 ELSE 0
      BY <2>5
    <3> QED
      BY <1>1, <2>2, <3>1
  <2>7. ASSUME NEW k \in 1 .. p PROVE Chunk(g, k) = Chunk(f, k + DelRecord)
    <3> DEFINE b == (k - 1) * RecCells
               l == k + DelRecord
    <3>1. b \in Nat /\ b + RecCells <= p * RecCells /\ (l - 1) * RecCells = b + Gap
      <4> DEFINE c == k - 1
      <4>1. c \in Nat /\ c < p /\ l - 1 = c + DelRecord
        BY <1>1, <2>1
      <4> HIDE DEF c, l
      <4>2. c * RecCells \in Nat /\ c * RecCells + RecCells <= p * RecCells
        BY <1>1, <2>1, <4>1, Monotone
      <4>3. (c + DelRecord) * RecCells = c * RecCells + DelRecord * RecCells
        BY <1>1, <4>1, Monotone
      <4> QED
        BY <1>1, <4>1, <4>2, <4>3 DEF c
    <3> HIDE DEF b, l
    <3>2. ASSUME NEW j \in 1 .. RecCells PROVE g[b + j] = f[(l - 1) * RecCells + j]
      <4>1. b + j \in 1 .. Len(f) - (Gap + 1) + 1 /\ Gap + 1 + (b + j) - 1 = b + Gap + j
        BY <1>1, <2>2, <3>1
      <4>2. g[b + j] = f[Gap + 1 + (b + j) - 1]
        BY <2>5, <4>1
      <4> QED
        BY <3>1, <4>1, <4>2
    <3>3. \A j \in 1 .. RecCells : g[(k - 1) * RecCells + j] = f[(l - 1) * RecCells + j]
      BY <3>2, Zenon DEF b
    <3>4. Chunk(g, k) = Chunk(f, l)
      BY <3>3, Zenon DEF Chunk
    <3> QED
      BY <3>4 DEF l
  <2> QED
    BY <1>3, <2>1, <2>5, <2>6, <2>7 DEF p, Records
<1> QED
  BY <1>1, <1>2, <1>3

LEMMA ShiftedKeeps ==
  ASSUME NEW f, NEW g, NEW m, Records(f, m), Twinned(f), m > DelRecord,
         Records(g, m - DelRecord),
         \A k \in 1 .. m - DelRecord : Chunk(g, k) = Chunk(f, k + DelRecord)
  PROVE  Twinned(g) /\ Cardinality(Torn(g)) <= Cardinality(Torn(f))
<1> DEFINE D == DelRecord
           p == m - DelRecord
<1>1. D \in Nat \ {0} /\ m \in Nat /\ p \in Nat /\ m = p + D
  BY SizesTyped DEF Records
<1>2. /\ \A k : k \in Torn(f) <=> k \in 1 .. m /\ ~Whole(Chunk(f, k))
      /\ \A k : k \in Torn(g) <=> k \in 1 .. p /\ ~Whole(Chunk(g, k))
      /\ Chunks(f) = 1 .. m /\ Chunks(g) = 1 .. p
  BY TornTyped, CountRecords, Zenon
<1>3. /\ \A t \in Torn(f) : t + D \in 1 .. m
      /\ \A t \in Torn(f), r \in 1 .. m : t < r + D /\ r < t => Chunk(f, r) = Chunk(f, r + D)
      /\ \A t, u \in Torn(f) : t < u => t + D <= u
  BY <1>2, Zenon DEF Twinned
<1>4. \A k \in 1 .. p : Chunk(g, k) = Chunk(f, k + D)
  BY Zenon
<1> HIDE DEF D, p
<1>5. \A k \in 1 .. p : k + D \in 1 .. m
  BY <1>1
<1>6. \A k \in Torn(g) : k \in 1 .. p /\ k + D \in Torn(f)
  BY <1>2, <1>4, <1>5, Zenon
<1>7. ASSUME NEW t \in Torn(g) PROVE t + D \in 1 .. p
  <2>1. t \in 1 .. p /\ t + D + D \in 1 .. m
    BY <1>3, <1>6
  <2> QED
    BY <1>1, <2>1
<1>8. ASSUME NEW t \in Torn(g), NEW r \in 1 .. p, t < r + D, r < t
      PROVE  Chunk(g, r) = Chunk(g, r + D)
  <2>1. t \in 1 .. p /\ t + D \in Torn(f) /\ t + D \in 1 .. p
    BY <1>6, <1>7
  <2>2. r + D \in 1 .. p /\ t + D < (r + D) + D /\ r + D < t + D
    BY <1>1, <1>8, <2>1
  <2>3. Chunk(f, r + D) = Chunk(f, r + D + D)
    BY <1>3, <1>5, <2>1, <2>2
  <2> QED
    BY <1>4, <2>2, <2>3
<1>9. ASSUME NEW t \in Torn(g), NEW u \in Torn(g), t < u PROVE t + D <= u
  <2>1. t \in 1 .. p /\ u \in 1 .. p /\ t + D \in Torn(f) /\ u + D \in Torn(f)
    BY <1>6
  <2>2. t + D + D <= u + D
    <3>1. t + D < u + D
      BY <1>1, <1>9, <2>1
    <3> QED
      BY <1>3, <2>1, <3>1
  <2> QED
    BY <1>1, <2>1, <2>2
<1>10. Twinned(g)
  <2>1. \A t \in Torn(g) : t + DelRecord \in Chunks(g)
    BY <1>2, <1>7, Zenon DEF D
  <2>2. \A t \in Torn(g), r \in Chunks(g) :
          t < r + DelRecord /\ r < t => Chunk(g, r) = Chunk(g, r + DelRecord)
    BY <1>2, <1>8, Zenon DEF D
  <2>3. \A t, u \in Torn(g) : t < u => t + DelRecord <= u
    BY <1>9, Zenon DEF D
  <2> QED
    BY <2>1, <2>2, <2>3, Zenon DEF Twinned
<1>11. Cardinality(Torn(g)) <= Cardinality(Torn(f))
  <2> DEFINE F == [x \in Torn(g) |-> x + D]
  <2>1. F \in [Torn(g) -> Torn(f)]
    BY <1>6
  <2>2. ASSUME NEW x \in Torn(g), NEW y \in Torn(g), F[x] = F[y] PROVE x = y
    <3>1. x \in 1 .. p /\ y \in 1 .. p
      BY <1>6
    <3>2. x + D = y + D
      BY <2>2
    <3> QED
      BY <1>1, <3>1, <3>2
  <2> HIDE DEF F
  <2>3. F \in Injection(Torn(g), Torn(f))
    BY <2>1, <2>2, Zenon DEF Injection, IsInjective
  <2> QED
    BY <2>3, TornTyped, FS_Injection, Zenon
<1> QED
  BY <1>10, <1>11

\* A record written behind whole records is whole, and leaves the others.
LEMMA Appended ==
  ASSUME NEW f, NEW g, NEW m, Records(f, m), NEW r \in Rec,
         g = f \o SubSeq(CellsOf(r), 1, 0) \o CellsOf(r)
  PROVE  /\ Records(g, m + 1) /\ Whole(Chunk(g, m + 1))
         /\ \A k \in 1 .. m : Chunk(g, k) = Chunk(f, k)
<1>1. /\ RecCells \in Nat \ {0} /\ m \in Nat /\ Len(f) = m * RecCells
      /\ f \in Seq(Cell) /\ Len(f) \in Nat
  BY SizesTyped DEF Records
<1> DEFINE c == CellsOf(r)
<1>2. c \in [1 .. RecCells -> Cell]
  BY DEF CellsOf, Cell
<1>3. c \in Seq(Cell) /\ Len(c) = RecCells
  BY <1>1, <1>2
<1>4. SubSeq(c, 1, 0) = <<>>
  BY <1>3
<1>5. \A j \in 1 .. RecCells : c[j] = [rec |-> r, part |-> j]
  BY DEF CellsOf
<1> HIDE DEF c
<1>6. f \o SubSeq(c, 1, 0) = f
  BY <1>1, <1>4, ConcatEmptySeq, Zenon
<1>7. g = f \o c
  BY <1>6 DEF c
<1>8. /\ g \in Seq(Cell) /\ Len(g) = Len(f) + RecCells
      /\ \A i \in 1 .. Len(f) + RecCells : g[i] = IF i <= Len(f) THEN f[i] ELSE c[i - Len(f)]
  <2>1. /\ f \o c \in Seq(Cell) /\ Len(f \o c) = Len(f) + Len(c)
        /\ \A i \in 1 .. Len(f) + Len(c) :
             (f \o c)[i] = IF i <= Len(f) THEN f[i] ELSE c[i - Len(f)]
    BY <1>1, <1>3, ConcatProperties, Zenon
  <2> QED
    BY <1>3, <1>7, <2>1, Zenon
<1>9. Records(g, m + 1)
  <2>1. (m + 1) * RecCells = m * RecCells + RecCells
    BY <1>1
  <2> QED
    BY <1>1, <1>8, <2>1 DEF Records
<1>10. ASSUME NEW k \in 1 .. m PROVE Chunk(g, k) = Chunk(f, k)
  <2> DEFINE b == (k - 1) * RecCells
  <2>1. b \in Nat /\ b + RecCells <= Len(f)
    <3> DEFINE d == k - 1
    <3>1. d \in Nat /\ d < m
      BY <1>1
    <3> HIDE DEF d
    <3>2. d * RecCells \in Nat /\ d * RecCells + RecCells <= m * RecCells
      BY <1>1, <3>1, Monotone
    <3> QED
      BY <1>1, <3>2 DEF d
  <2> HIDE DEF b
  <2>2. ASSUME NEW j \in 1 .. RecCells PROVE g[b + j] = f[b + j]
    <3>1. b + j \in 1 .. Len(f) + RecCells /\ b + j <= Len(f)
      BY <1>1, <2>1
    <3> QED
      BY <1>8, <3>1
  <2>3. \A j \in 1 .. RecCells : g[(k - 1) * RecCells + j] = f[(k - 1) * RecCells + j]
    BY <2>2, Zenon DEF b
  <2> QED
    BY <2>3, Zenon DEF Chunk
<1>11. ASSUME NEW j \in 1 .. RecCells PROVE Chunk(g, m + 1)[j] = [rec |-> r, part |-> j]
  <2> DEFINE l == m + 1
  <2>1. (l - 1) * RecCells = Len(f)
    BY <1>1
  <2> HIDE DEF l
  <2>2. Chunk(g, l)[j] = g[(l - 1) * RecCells + j]
    BY CellOfChunk, Zenon
  <2>3. g[Len(f) + j] = c[j]
    <3>1. Len(f) + j \in 1 .. Len(f) + RecCells /\ ~(Len(f) + j <= Len(f))
          /\ Len(f) + j - Len(f) = j
      BY <1>1
    <3> QED
      BY <1>8, <3>1
  <2>4. Chunk(g, l)[j] = [rec |-> r, part |-> j]
    BY <1>5, <2>1, <2>2, <2>3
  <2> QED
    BY <2>4 DEF l
<1>12. Whole(Chunk(g, m + 1))
  <2>1. 1 \in 1 .. RecCells
    BY <1>1
  <2>2. Chunk(g, m + 1)[1] = [rec |-> r, part |-> 1]
    BY <1>11, <2>1, Zenon
  <2>3. Chunk(g, m + 1)[1].rec = r
    BY <2>2
  <2> QED
    BY <1>11, <2>3, Zenon DEF Whole
<1> QED
  BY <1>9, <1>10, <1>12

LEMMA AppendedKeeps ==
  ASSUME NEW f, NEW g, NEW m, Records(f, m), Twinned(f), Records(g, m + 1),
         Whole(Chunk(g, m + 1)), \A k \in 1 .. m : Chunk(g, k) = Chunk(f, k)
  PROVE  Twinned(g) /\ Torn(g) = Torn(f)
<1>1. DelRecord \in Nat \ {0} /\ m \in Nat
  BY SizesTyped DEF Records
<1>2. /\ \A k : k \in Torn(f) <=> k \in 1 .. m /\ ~Whole(Chunk(f, k))
      /\ \A k : k \in Torn(g) <=> k \in 1 .. m + 1 /\ ~Whole(Chunk(g, k))
      /\ Chunks(f) = 1 .. m /\ Chunks(g) = 1 .. m + 1
  BY TornTyped, CountRecords, Zenon
<1>3. \A k : k \in 1 .. m + 1 <=> k \in 1 .. m \/ k = m + 1
  BY <1>1
<1>4. Torn(g) = Torn(f)
  BY <1>2, <1>3, Zenon
<1>5. \A t \in Torn(f) : t \in 1 .. m /\ t + DelRecord \in 1 .. m
  BY <1>2, Zenon DEF Twinned
<1>6. ASSUME NEW t \in Torn(g), NEW r \in 1 .. m + 1, t < r + DelRecord, r < t
      PROVE  Chunk(g, r) = Chunk(g, r + DelRecord)
  <2>1. t \in Torn(f) /\ t \in 1 .. m /\ t + DelRecord \in 1 .. m
    BY <1>4, <1>5
  <2>2. r \in 1 .. m /\ r + DelRecord \in 1 .. m
    BY <1>1, <1>6, <2>1
  <2>3. Chunk(f, r) = Chunk(f, r + DelRecord)
    BY <1>2, <1>6, <2>1, <2>2, Zenon DEF Twinned
  <2> QED
    BY <2>2, <2>3
<1>7. \A t \in Torn(g) : t + DelRecord \in Chunks(g)
  BY <1>2, <1>3, <1>4, <1>5, Zenon
<1>8. \A t, u \in Torn(g) : t < u => t + DelRecord <= u
  BY <1>4, Zenon DEF Twinned
<1> QED
  BY <1>2, <1>4, <1>6, <1>7, <1>8, Zenon DEF Twinned

-----------------------------------------------------------------------------
(* The inductive invariant behind the counts and the mark.                  *)

Sound(f, c) ==
  \E m \in Nat : Records(f, m) /\ Twinned(f) /\ Cardinality(Torn(f)) <= c

TornInv ==
  ~short =>
    /\ pc \in {"idle", "save"} => Sound(file, crashes)
    /\ pc \in {"copy", "adjust"} => Sound(orig, crashes)

PlacesTyped ==
  /\ pc \in {"idle", "copy", "adjust", "save"}
  /\ AttOffset \in Nat /\ CurAttLogCount \in Nat /\ crashes \in Nat

LEMMA CountTyped == ASSUME NEW f \in Seq(Cell) PROVE CntAttLog(f) \in Nat
<1>1. Len(f) \in Nat /\ RecCells \in Nat \ {0}
  BY SizesTyped
<1> QED
  BY <1>1, Euclid DEF CntAttLog

LEMMA Least ==
  ASSUME NEW T \in SUBSET Nat, T # {}
  PROVE  \E n \in T : \A m \in T : n <= m
<1> DEFINE R == OpToRel(<, Nat)
<1>1. IsWellFoundedOn(R, Nat)
  BY NatLessThanWellFounded
<1>2. \A x, y \in Nat : x < y => <<x, y>> \in R
  BY DEF OpToRel
<1> HIDE DEF R
<1>3. PICK n \in T : \A y \in T : ~ (<<y, n>> \in R)
  BY <1>1, WFMin, Zenon
<1>4. \A m \in T : ~(m < n)
  BY <1>2, <1>3
<1>5. \A m \in T : n <= m
  <2> TAKE m \in T
  <2>1. m \in Nat /\ n \in Nat
    OBVIOUS
  <2> QED
    BY <1>4, <2>1
<1> QED
  BY <1>5

LEMMA SameCellsAll ==
  ASSUME NEW f \in Seq(Cell), NEW g \in Seq(Cell), Len(f) = Len(g),
         \A i \in 1 .. Len(f) : f[i] = g[i]
  PROVE  f = g
  BY SeqEqual, Zenon

\* The mark that FDB_AdjustAttOffset finds is in front of the first record
\* equal to the one kept.
LEMMA AdjustFinds ==
  ASSUME file \in Seq(Cell)
  PROVE  /\ AdjustAttOffset \in Nat
         /\ \A k \in Chunks(file) : Chunk(file, k) = log => AdjustAttOffset + 1 <= k
<1> DEFINE same == {k \in Chunks(file) : Chunk(file, k) = log}
<1>1. CntAttLog(file) \in Nat
  BY CountTyped
<1>2. same \in SUBSET Nat /\ \A k \in same : k >= 1
  BY <1>1 DEF Chunks
<1>3. AdjustAttOffset = IF same = {} THEN 0
                        ELSE (CHOOSE k \in same : \A l \in same : k <= l) - 1
  BY DEF AdjustAttOffset
<1>4. \A k \in Chunks(file) : Chunk(file, k) = log <=> k \in same
  OBVIOUS
<1> HIDE DEF same
<1>5. CASE same = {}
  BY <1>3, <1>4, <1>5
<1>6. CASE same # {}
  <2> DEFINE n == CHOOSE k \in same : \A l \in same : k <= l
  <2>1. \E k \in same : \A l \in same : k <= l
    BY <1>2, <1>6, Least
  <2>2. n \in same /\ \A l \in same : n <= l
    BY <2>1
  <2>3. AdjustAttOffset = n - 1
    BY <1>3, <1>6
  <2> HIDE DEF n
  <2>4. n \in Nat /\ n >= 1
    BY <1>2, <2>2
  <2>5. \A k \in Chunks(file) : Chunk(file, k) = log => n <= k
    BY <1>4, <2>2, Zenon
  <2>6. AdjustAttOffset \in Nat /\ AdjustAttOffset + 1 = n
    BY <2>3, <2>4
  <2> QED
    BY <2>5, <2>6, Zenon
<1> QED
  BY <1>5, <1>6

\* What a power failure leaves of the file.
LEMMA CrashLeaves ==
  ASSUME CopyInv, NEW n \in 0 .. BlockCells, Crash(n)
  PROVE  /\ file' \in Seq(Cell)
         /\ pc # "copy" => file' = file
         /\ pc = "copy" =>
              /\ Len(file') = Len(orig)
              /\ \E b \in Nat :
                   /\ b = 0 \/ b + Gap <= Len(orig)
                   /\ \A i \in 1 .. Len(orig) :
                        file'[i] = IF i <= b THEN orig[i + Gap] ELSE orig[i]
<1>1. /\ file \in Seq(Cell) /\ head \in Nat /\ file' = Copied(n) /\ Len(file) \in Nat
      /\ n \in IF pc = "copy" THEN 0 .. BlockLen ELSE {0}
      /\ pc = "copy" => MovedTo(head)
  BY DEF CopyInv, Crash
<1>2. BlockLen \in Nat /\ Gap \in Nat
  BY <1>1, BlockTyped, GapTyped
<1>3. n \in 0 .. BlockLen
  BY <1>1, <1>2
<1>4. /\ file' \in Seq(Cell) /\ Len(file') = Len(file)
      /\ \A i \in 1 .. Len(file) :
           file'[i] = IF i \in head + 1 .. head + n THEN file[i + Gap] ELSE file[i]
  BY <1>1, <1>3, CopiedFile
<1>5. CASE pc # "copy"
  <2>1. \A i \in 1 .. Len(file) : file'[i] = file[i]
    BY <1>1, <1>4, <1>5
  <2>2. file' = file
    BY <1>1, <1>4, <2>1, SameCellsAll
  <2> QED
    BY <1>4, <1>5, <2>2
<1>6. CASE pc = "copy"
  <2>1. /\ Len(file) = Len(orig) /\ (head = 0 \/ head + Gap <= Len(orig))
        /\ \A i \in 1 .. Len(orig) : file[i] = IF i <= head THEN orig[i + Gap] ELSE orig[i]
    BY <1>1, <1>6 DEF MovedTo
  <2>2. n > 0 => head + n + Gap <= Len(orig)
    BY <1>1, <1>2, <1>3, <2>1, BlockTyped
  <2> DEFINE b == head + n
  <2>3. b \in Nat /\ (b = 0 \/ b + Gap <= Len(orig))
    BY <1>1, <1>2, <1>3, <2>1, <2>2
  <2>4. ASSUME NEW i \in 1 .. Len(orig)
        PROVE  file'[i] = IF i <= b THEN orig[i + Gap] ELSE orig[i]
    <3>1. CASE i <= head
      BY <1>1, <1>4, <2>1, <3>1
    <3>2. CASE i \in head + 1 .. head + n
      <4>1. i + Gap \in 1 .. Len(orig) /\ ~(i + Gap <= head)
        BY <1>1, <1>2, <2>1, <2>2, <3>2
      <4> QED
        BY <1>1, <1>4, <2>1, <3>2, <4>1
    <3>3. CASE i > head + n
      BY <1>1, <1>4, <2>1, <3>3
    <3> QED
      BY <1>1, <2>1, <3>1, <3>2, <3>3
  <2> QED
    BY <1>4, <1>6, <2>1, <2>3, <2>4
<1> QED
  BY <1>5, <1>6

LEMMA PlacesInit == Init => PlacesTyped
  BY DEF Init, PlacesTyped

LEMMA PlacesStep == CopyInv /\ PlacesTyped /\ [Next]_vars => PlacesTyped'
<1> SUFFICES ASSUME CopyInv, PlacesTyped, [Next]_vars PROVE PlacesTyped'
  OBVIOUS
<1> USE DEF history
<1>0. /\ PlacesTyped /\ file \in Seq(Cell) /\ file' \in Seq(Cell)
  BY CopyStep DEF CopyInv
<1>1. CASE Verify
  BY <1>0, <1>1 DEF Verify, MarkBefore, PlacesTyped
<1>2. CASE CopyBlock
  BY <1>0, <1>2 DEF CopyBlock, PlacesTyped
<1>3. CASE CopyDone
  <2>1. CntAttLog(file') \in Nat
    BY <1>0, CountTyped
  <2> QED
    BY <1>0, <1>3, <2>1 DEF CopyDone, PlacesTyped
<1>4. CASE Adjust
  <2>1. AdjustAttOffset \in Nat
    BY <1>0, AdjustFinds
  <2> QED
    BY <1>0, <1>4, <2>1 DEF Adjust, PlacesTyped
<1>5. ASSUME NEW staff \in BOOLEAN, NEW verified \in BOOLEAN, NEW s \in {0} \cup ShortWrites,
             SaveAttLog(staff, verified, s)
      PROVE  PlacesTyped'
  BY <1>0, <1>5 DEF SaveAttLog, PlacesTyped
<1>6. CASE SaveNothing
  BY <1>0, <1>6 DEF SaveNothing, PlacesTyped
<1>11. ASSUME NEW staff \in BOOLEAN, NEW s \in {0} \cup ShortWrites,
             NEW t \in {0} \cup ShortWrites, SaveFails(staff, s, t)
       PROVE  PlacesTyped'
  BY <1>0, <1>11 DEF SaveFails, PlacesTyped
<1>7. CASE FDB_ReadAttBlock
  <2> DEFINE new == {k \in Chunks(file) : k > ReadAttLogOffset}
  <2>1. CntAttLog(file) \in Nat
    BY <1>0, CountTyped
  <2>2. IsFiniteSet(Chunks(file))
    BY <2>1, FS_Interval DEF Chunks
  <2>3. IsFiniteSet(new)
    BY <2>2, FS_Subset, Zenon
  <2>4. Cardinality(new) \in Nat
    BY <2>3, FS_CardinalityType, Zenon
  <2>5. AttOffset' = ReadAttLogOffset + Cardinality(new)
    BY <1>7 DEF FDB_ReadAttBlock
  <2>6. ReadAttLogOffset \in Nat
    BY <1>0 DEF ReadAttLogOffset, LesserOf, PlacesTyped
  <2>7. pc' = pc /\ CurAttLogCount' = CurAttLogCount /\ crashes' = crashes
    BY <1>7 DEF FDB_ReadAttBlock
  <2> HIDE DEF new
  <2> QED
    BY <1>0, <2>4, <2>5, <2>6, <2>7 DEF PlacesTyped
<1>8. CASE ClearData
  BY <1>0, <1>8 DEF ClearData, PlacesTyped
<1>9. ASSUME NEW n \in 0 .. BlockCells, Crash(n) PROVE PlacesTyped'
  <2>1. CntAttLog(file) \in Nat
    BY <1>0, CountTyped
  <2> QED
    BY <1>0, <1>9, <2>1 DEF Crash, PlacesTyped
<1>10. CASE UNCHANGED vars
  BY <1>0, <1>10 DEF vars, PlacesTyped
<1> QED
  BY <1>1, <1>2, <1>3, <1>4, <1>5, <1>6, <1>7, <1>8, <1>9, <1>10, <1>11 DEF Next

LEMMA NoneTorn == Sound(<<>>, crashes) \/ crashes \notin Nat
<1>1. <<>> \in Seq(Cell) /\ Len(<<>>) = 0 /\ 0 * RecCells = 0
  BY SizesTyped
<1>2. Records(<<>>, 0)
  BY <1>1 DEF Records
<1>3. Torn(<<>>) = {}
  <2>1. \A k : k \in Torn(<<>>) <=> k \in 1 .. 0 /\ ~Whole(Chunk(<<>>, k))
    BY <1>2, TornTyped, Zenon
  <2>2. 1 .. 0 = {}
    OBVIOUS
  <2> QED
    BY <2>1, <2>2, Zenon
<1>4. Cardinality(Torn(<<>>)) = 0
  BY <1>3, FS_EmptySet, Zenon
<1>5. Twinned(<<>>)
  BY <1>3, Zenon DEF Twinned
<1>6. crashes \in Nat => Cardinality(Torn(<<>>)) <= crashes
  BY <1>4
<1> QED
  BY <1>2, <1>5, <1>6 DEF Sound

LEMMA SoundShifted ==
  ASSUME NEW f, NEW g, NEW c \in Nat, Sound(f, c),
         g = IF Len(f) <= Gap THEN f ELSE SubSeq(f, Gap + 1, Len(f))
  PROVE  Sound(g, c)
<1>1. PICK m \in Nat : Records(f, m) /\ Twinned(f) /\ Cardinality(Torn(f)) <= c
  BY DEF Sound
<1>2. CASE g = f
  BY <1>2
<1>3. CASE g # f
  <2>1. /\ m > DelRecord /\ Records(g, m - DelRecord)
        /\ \A k \in 1 .. m - DelRecord : Chunk(g, k) = Chunk(f, k + DelRecord)
    BY <1>1, <1>3, Shifted, Zenon
  <2>2. Twinned(g) /\ Cardinality(Torn(g)) <= Cardinality(Torn(f))
    BY <1>1, <2>1, ShiftedKeeps, Zenon
  <2>3. Cardinality(Torn(f)) \in Nat /\ Cardinality(Torn(g)) \in Nat
    BY <1>1, <2>1, TornTyped, Zenon
  <2>4. Cardinality(Torn(g)) <= c
    BY <1>1, <2>2, <2>3
  <2> QED
    BY <2>1, <2>2, <2>4 DEF Sound, Records
<1> QED
  BY <1>2, <1>3

LEMMA SoundAppended ==
  ASSUME NEW f, NEW g, NEW c, Sound(f, c), NEW r \in Rec,
         g = f \o SubSeq(CellsOf(r), 1, 0) \o CellsOf(r)
  PROVE  Sound(g, c)
<1>1. PICK m \in Nat : Records(f, m) /\ Twinned(f) /\ Cardinality(Torn(f)) <= c
  BY DEF Sound
<1>2. /\ Records(g, m + 1) /\ Whole(Chunk(g, m + 1))
      /\ \A k \in 1 .. m : Chunk(g, k) = Chunk(f, k)
  BY <1>1, Appended
<1>3. Twinned(g) /\ Torn(g) = Torn(f)
  <2>1. Records(f, m) /\ Twinned(f) /\ Records(g, m + 1) /\ Whole(Chunk(g, m + 1))
    BY <1>1, <1>2, Zenon
  <2>2. \A k \in 1 .. m : Chunk(g, k) = Chunk(f, k)
    BY <1>2, Zenon
  <2> QED
    BY <2>1, <2>2, AppendedKeeps, ZenonT(60)
<1> QED
  BY <1>1, <1>2, <1>3, Zenon DEF Sound, Records

LEMMA SoundMixed ==
  ASSUME NEW f, NEW g \in Seq(Cell), NEW c \in Nat, Sound(f, c), Len(g) = Len(f),
         NEW b \in Nat, b = 0 \/ b + Gap <= Len(f),
         \A i \in 1 .. Len(f) : g[i] = IF i <= b THEN f[i + Gap] ELSE f[i]
  PROVE  Sound(g, c + 1)
<1>1. PICK m \in Nat : Records(f, m) /\ Twinned(f) /\ Cardinality(Torn(f)) <= c
  BY DEF Sound
<1>2. f \in Seq(Cell) /\ Len(f) \in Nat /\ Cardinality(Torn(f)) \in Nat /\ Records(g, m)
  <2>1. Cardinality(Torn(f)) \in Nat
    BY <1>1, TornTyped, Zenon
  <2> QED
    BY <1>1, <2>1 DEF Records
<1>3. CASE b = 0
  <2>1. \A i \in 1 .. Len(f) : f[i] = g[i]
    BY <1>2, <1>3
  <2>2. f = g
    BY <1>2, <2>1, SameCellsAll
  <2>3. Cardinality(Torn(f)) <= c + 1
    BY <1>1, <1>2
  <2> QED
    BY <1>1, <2>2, <2>3 DEF Sound
<1>4. CASE b > 0
  <2>1. b + Gap <= Len(f)
    BY <1>4
  <2>2. PICK s \in 1 .. m - DelRecord :
           /\ \A k \in 1 .. m : k < s => Chunk(g, k) = Chunk(f, k + DelRecord)
           /\ \A k \in 1 .. m : k > s => Chunk(g, k) = Chunk(f, k)
           /\ Chunk(f, s) = Chunk(f, s + DelRecord) => Chunk(g, s) = Chunk(f, s)
    BY <1>1, <1>2, <1>4, <2>1, Mixture, SMTT(60)
  <2>3. Twinned(g) /\ Cardinality(Torn(g)) <= Cardinality(Torn(f)) + 1
    BY <1>1, <1>2, <2>2, MixtureKeeps
  <2>4. Cardinality(Torn(g)) \in Nat
    BY <1>2, TornTyped, Zenon
  <2>5. Cardinality(Torn(g)) <= c + 1
    BY <1>1, <1>2, <2>3, <2>4
  <2> QED
    BY <1>2, <2>3, <2>5 DEF Sound
<1> QED
  BY <1>3, <1>4

LEMMA SoundLater ==
  ASSUME NEW f, NEW c \in Nat, Sound(f, c)
  PROVE  Sound(f, c + 1)
<1>1. PICK m \in Nat : Records(f, m) /\ Twinned(f) /\ Cardinality(Torn(f)) <= c
  BY DEF Sound
<1>2. Cardinality(Torn(f)) \in Nat
  BY <1>1, TornTyped, Zenon
<1>3. Cardinality(Torn(f)) <= c + 1
  BY <1>1, <1>2
<1> QED
  BY <1>1, <1>3 DEF Sound

LEMMA TornInit == Init => TornInv
<1> SUFFICES ASSUME Init PROVE TornInv
  OBVIOUS
<1>1. Sound(<<>>, crashes)
  BY NoneTorn DEF Init
<1> QED
  BY <1>1 DEF Init, TornInv

LEMMA TornStep == CopyInv /\ PlacesTyped /\ TornInv /\ [Next]_vars => TornInv'
<1> SUFFICES ASSUME CopyInv, PlacesTyped, TornInv, [Next]_vars PROVE TornInv'
  OBVIOUS
<1> USE DEF history
<1>0. crashes \in Nat /\ crashes' \in Nat
  BY PlacesStep DEF PlacesTyped
<1>1. CASE Verify
  BY <1>1 DEF Verify, TornInv
<1>2. CASE CopyBlock
  BY <1>2 DEF CopyBlock, TornInv
<1>3. CASE CopyDone
  BY <1>3 DEF CopyDone, TornInv
<1>4. CASE Adjust
  <2>1. file = IF Len(orig) <= Gap THEN orig ELSE SubSeq(orig, Gap + 1, Len(orig))
    BY <1>4 DEF Adjust, CopyInv, DeletionExact
  <2>2. Sound(orig, crashes) => Sound(file, crashes)
    BY <1>0, <2>1, SoundShifted
  <2> QED
    BY <1>4, <2>2 DEF Adjust, TornInv
<1>5. ASSUME NEW staff \in BOOLEAN, NEW verified \in BOOLEAN, NEW s \in {0} \cup ShortWrites,
             SaveAttLog(staff, verified, s)
      PROVE  TornInv'
  <2> DEFINE r == [id |-> issued + 1, staff |-> staff]
  <2>1. pc = "save" /\ pc' = "idle" /\ short' = (short \/ s > 0) /\ crashes' = crashes
        /\ file' = file \o SubSeq(CellsOf(r), 1, s) \o CellsOf(r)
    BY <1>5 DEF SaveAttLog
  <2>2. r \in Rec
    BY DEF Rec, CopyInv
  <2> HIDE DEF r
  <2>3. s \in Nat
    BY ShortAssumption
  <2>4. ASSUME ~short' PROVE Sound(file', crashes)
    <3>0. ~short /\ ~(s > 0)
      BY <2>1, <2>4, Zenon
    <3>1. s = 0 /\ ~short
      BY <2>3, <3>0
    <3>2. Sound(file, crashes) /\ file' = file \o SubSeq(CellsOf(r), 1, 0) \o CellsOf(r)
      BY <2>1, <3>1 DEF TornInv
    <3> QED
      BY <2>2, <3>2, SoundAppended
  <2> QED
    BY <2>1, <2>4 DEF TornInv
<1>6. CASE SaveNothing
  BY <1>6 DEF SaveNothing, TornInv
<1>11. ASSUME NEW staff \in BOOLEAN, NEW s \in {0} \cup ShortWrites,
             NEW t \in {0} \cup ShortWrites, SaveFails(staff, s, t)
       PROVE  TornInv'
  <2>1. pc' = "idle" /\ pc = "save" /\ crashes' = crashes
    BY <1>11 DEF SaveFails
  <2>2. ~short' => file' = file /\ ~short
    BY <1>0, <1>11, FailsLeaves, Zenon
  <2> QED
    BY <2>1, <2>2 DEF TornInv
<1>7. CASE FDB_ReadAttBlock
  BY <1>7 DEF FDB_ReadAttBlock, TornInv
<1>8. CASE ClearData
  BY <1>0, <1>8, NoneTorn DEF ClearData, TornInv
<1>9. ASSUME NEW n \in 0 .. BlockCells, Crash(n) PROVE TornInv'
  <2>1. pc' = "idle" /\ crashes' = crashes + 1 /\ short' = short
    BY <1>9 DEF Crash
  <2> SUFFICES ASSUME ~short PROVE Sound(file', crashes + 1)
    BY <2>1 DEF TornInv
  <2>2. CASE pc = "copy"
    <3>1. Sound(orig, crashes)
      BY <2>2 DEF TornInv
    <3>2. /\ file' \in Seq(Cell) /\ Len(file') = Len(orig)
          /\ \E b \in Nat :
               /\ b = 0 \/ b + Gap <= Len(orig)
               /\ \A i \in 1 .. Len(orig) :
                    file'[i] = IF i <= b THEN orig[i + Gap] ELSE orig[i]
      BY <1>9, <2>2, CrashLeaves
    <3> QED
      BY <1>0, <3>1, <3>2, SoundMixed
  <2>3. CASE pc = "adjust"
    <3>1. Sound(orig, crashes)
      BY <2>3 DEF TornInv
    <3>2. file = IF Len(orig) <= Gap THEN orig ELSE SubSeq(orig, Gap + 1, Len(orig))
      BY <2>3 DEF CopyInv, DeletionExact
    <3>3. Sound(file, crashes)
      BY <1>0, <3>1, <3>2, SoundShifted
    <3>4. file' = file
      BY <1>9, <2>3, CrashLeaves
    <3> QED
      BY <1>0, <3>3, <3>4, SoundLater
  <2>4. CASE pc \in {"idle", "save"}
    <3>1. Sound(file, crashes)
      BY <2>4 DEF TornInv
    <3>2. file' = file
      BY <1>9, <2>4, CrashLeaves
    <3> QED
      BY <1>0, <3>1, <3>2, SoundLater
  <2> QED
    BY <2>2, <2>3, <2>4 DEF PlacesTyped
<1>10. CASE UNCHANGED vars
  BY <1>10 DEF vars, TornInv
<1> QED
  BY <1>1, <1>2, <1>3, <1>4, <1>5, <1>6, <1>7, <1>8, <1>9, <1>10, <1>11 DEF Next

\* A power failure tears at most one record, for any number of failures in any
\* number of deletions: those that tear a record, move a torn one and leave
\* another copy of it tear nothing more (delFileHead, FDB_InitDBs).
THEOREM FailuresTearOneEach == Spec => []TornOnlyByCrash
<1>1. CopyInv /\ PlacesTyped /\ TornInv => TornOnlyByCrash
  <2> SUFFICES ASSUME TornInv, pc = "idle", ~short
               PROVE  Cardinality({k \in Chunks(file) : ~Whole(Chunk(file, k))}) <= crashes
    BY DEF TornOnlyByCrash
  <2>1. \E m \in Nat : Records(file, m) /\ Twinned(file) /\ Cardinality(Torn(file)) <= crashes
    BY DEF TornInv, Sound
  <2> QED
    BY <2>1 DEF Torn
<1>2. Init => CopyInv /\ PlacesTyped /\ TornInv
  BY CopyInit, PlacesInit, TornInit
<1>3. CopyInv /\ PlacesTyped /\ TornInv /\ [Next]_vars => (CopyInv /\ PlacesTyped /\ TornInv)'
  BY CopyStep, PlacesStep, TornStep
<1> QED
  BY <1>1, <1>2, <1>3, PTL DEF Spec

-----------------------------------------------------------------------------
(* The mark.                                                                *)

HandedUpTo(f, n) == \A k \in Chunks(f) : k <= n => Chunk(f, k)[1].rec.id \in handed

\* Between two deletions the mark counts records of the file, and those have
\* been handed over.  During a deletion either nothing is marked or the record
\* at the mark is at hand to find its new place by.
MarkInv ==
  ~short =>
    /\ pc # "copy" => CurAttLogCount <= CntAttLog(file)
    /\ ~drifted /\ pc \in {"idle", "save"} =>
         AttOffset <= CntAttLog(file) /\ HandedUpTo(file, AttOffset)
    /\ ~drifted /\ pc \in {"copy", "adjust"} =>
         \/ AttOffset = 0 /\ log = <<>>
         \/ /\ AttOffset > DelRecord /\ AttOffset < CntAttLog(orig)
            /\ log = Chunk(orig, AttOffset + 1)
            /\ HandedUpTo(orig, AttOffset)

LEMMA MarkInit == Init => MarkInv
<1> SUFFICES ASSUME Init PROVE MarkInv
  OBVIOUS
<1>1. <<>> \in Seq(Cell) /\ Len(<<>>) = 0 /\ 0 * RecCells = 0
  BY SizesTyped
<1>2. Records(<<>>, 0)
  BY <1>1 DEF Records
<1>3. CntAttLog(<<>>) = 0 /\ Chunks(<<>>) = 1 .. 0
  BY <1>2, CountRecords
<1> QED
  BY <1>3 DEF Init, MarkInv, HandedUpTo

LEMMA ChunkIsSomething == ASSUME NEW f, NEW k PROVE Chunk(f, k) # <<>>
<1>1. DOMAIN Chunk(f, k) = 1 .. RecCells
  BY DEF Chunk
<1>2. DOMAIN <<>> = 1 .. 0
  OBVIOUS
<1>3. 1 \in 1 .. RecCells /\ 1 \notin 1 .. 0
  BY SizesTyped
<1> QED
  BY <1>1, <1>2, <1>3, Zenon

LEMMA RecordsHere ==
  ASSUME TornInv, ~short
  PROVE  /\ pc \in {"idle", "save"} => \E m \in Nat : Records(file, m)
         /\ pc \in {"copy", "adjust"} => \E m \in Nat : Records(orig, m)
  BY DEF TornInv, Sound

LEMMA MarkVerify == PlacesTyped /\ TornInv /\ MarkInv /\ Verify => MarkInv'
<1> SUFFICES ASSUME PlacesTyped, TornInv, MarkInv, Verify, ~short PROVE MarkInv'
  BY DEF Verify, MarkInv
<1>1. pc = "idle" /\ file' = file /\ handed' = handed /\ CurAttLogCount' = CurAttLogCount
      /\ short' = short
  BY DEF Verify
<1>2. CASE ~(CurAttLogCount >= MaxLog)
  BY <1>1, <1>2 DEF Verify, MarkInv, HandedUpTo
<1>3. CASE CurAttLogCount >= MaxLog
  <2>1. /\ pc' = "copy" /\ log' = NextToDownload /\ AttOffset' = MarkBefore /\ orig' = file
        /\ drifted' = (drifted \/ (AttOffset > DelRecord /\ log' = <<>>))
    BY <1>3 DEF Verify
  <2> SUFFICES ASSUME ~drifted'
               PROVE  \/ AttOffset' = 0 /\ log' = <<>>
                      \/ /\ AttOffset' > DelRecord /\ AttOffset' < CntAttLog(file)
                         /\ log' = Chunk(file, AttOffset' + 1)
                         /\ HandedUpTo(file, AttOffset')
    BY <1>1, <2>1 DEF MarkInv, HandedUpTo
  <2>2. ~drifted /\ ~(AttOffset > DelRecord /\ log' = <<>>)
    BY <2>1, Zenon
  <2>3. AttOffset \in Nat /\ DelRecord \in Nat \ {0}
    BY SizesTyped DEF PlacesTyped
  <2>4. CASE AttOffset <= DelRecord
    BY <2>1, <2>3, <2>4 DEF MarkBefore, NextToDownload
  <2>5. CASE AttOffset > DelRecord
    <3>1. AttOffset' = AttOffset /\ log' # <<>>
      BY <2>1, <2>2, <2>3, <2>5 DEF MarkBefore
    <3>2. AttOffset < CntAttLog(file) /\ log' = Chunk(file, AttOffset + 1)
      BY <2>1, <3>1, Zenon DEF NextToDownload
    <3>3. HandedUpTo(file, AttOffset)
      BY <1>1, <2>2 DEF MarkInv
    <3> QED
      BY <2>5, <3>1, <3>2, <3>3
  <2> QED
    BY <2>3, <2>4, <2>5
<1> QED
  BY <1>2, <1>3

LEMMA MarkAdjust == CopyInv /\ PlacesTyped /\ TornInv /\ MarkInv /\ Adjust => MarkInv'
<1> SUFFICES ASSUME CopyInv, PlacesTyped, TornInv, MarkInv, Adjust, ~short PROVE MarkInv'
  BY DEF Adjust, MarkInv, history
<1>1. /\ pc = "adjust" /\ pc' = "save" /\ file' = file /\ handed' = handed
      /\ CurAttLogCount' = CurAttLogCount /\ short' = short /\ drifted' = drifted
      /\ AttOffset' = IF log = <<>> THEN AttOffset ELSE AdjustAttOffset
  BY DEF Adjust, history
<1>2. CurAttLogCount <= CntAttLog(file)
  BY <1>1 DEF MarkInv
<1> SUFFICES ASSUME ~drifted
             PROVE  AttOffset' <= CntAttLog(file) /\ HandedUpTo(file, AttOffset')
  BY <1>1, <1>2 DEF MarkInv, HandedUpTo
<1>3. CntAttLog(file) \in Nat
  BY CountTyped DEF CopyInv
<1>4. CASE AttOffset = 0 /\ log = <<>>
  <2>1. AttOffset' = 0
    BY <1>1, <1>4
  <2> QED
    BY <1>3, <2>1 DEF HandedUpTo, Chunks
<1>5. CASE /\ AttOffset > DelRecord /\ AttOffset < CntAttLog(orig)
           /\ log = Chunk(orig, AttOffset + 1)
           /\ HandedUpTo(orig, AttOffset)
  <2>1. PICK m \in Nat : Records(orig, m)
    BY <1>1, RecordsHere
  <2>2. CntAttLog(orig) = m /\ Chunks(orig) = 1 .. m
    BY <2>1, CountRecords
  <2>3. AttOffset \in Nat /\ DelRecord \in Nat \ {0}
    BY SizesTyped DEF PlacesTyped
  <2>4. /\ m > DelRecord /\ Records(file, m - DelRecord)
        /\ \A k \in 1 .. m - DelRecord : Chunk(file, k) = Chunk(orig, k + DelRecord)
    <3>1. file = IF Len(orig) <= Gap THEN orig ELSE SubSeq(orig, Gap + 1, Len(orig))
      BY <1>1 DEF CopyInv, DeletionExact
    <3>2. ~(m <= DelRecord)
      BY <1>5, <2>2, <2>3
    <3> QED
      BY <2>1, <3>1, <3>2, Shifted, Zenon
  <2> DEFINE p == m - DelRecord
             n == AttOffset - DelRecord
  <2>5. Chunks(file) = 1 .. p /\ CntAttLog(file) = p
    BY <2>4, CountRecords
  <2>6. /\ p \in Nat /\ m = p + DelRecord /\ n \in Nat /\ AttOffset = n + DelRecord
        /\ n + 1 \in 1 .. p
    BY <1>5, <2>2, <2>3, <2>4
  <2>7. \A k \in 1 .. p : Chunk(file, k) = Chunk(orig, k + DelRecord)
    BY <2>4
  <2> HIDE DEF p, n
  <2>8. Chunk(file, n + 1) = log
    <3>1. (n + 1) + DelRecord = AttOffset + 1
      BY <2>3, <2>6
    <3> QED
      BY <1>5, <2>6, <2>7, <3>1
  <2>9. AttOffset' = AdjustAttOffset
    BY <1>1, <1>5, ChunkIsSomething, Zenon
  <2>10. AttOffset' \in Nat /\ n \in Nat /\ AttOffset' <= n /\ n < p /\ p \in Nat
    <3> DEFINE a == AdjustAttOffset
    <3>1. file \in Seq(Cell) /\ n + 1 \in Chunks(file)
      BY <2>5, <2>6 DEF CopyInv
    <3>2. a \in Nat /\ a + 1 <= n + 1
      BY <2>8, <3>1, AdjustFinds
    <3>3. AttOffset' = a
      BY <2>9
    <3> HIDE DEF a
    <3>4. n \in Nat /\ n < p /\ p \in Nat /\ a <= n
      BY <2>6, <3>2
    <3> QED
      BY <3>2, <3>3, <3>4
  <2>11. ASSUME NEW k \in Chunks(file), k <= AttOffset'
         PROVE  Chunk(file, k)[1].rec.id \in handed
    <3>1. k \in 1 .. p
      BY <2>5
    <3>2. k <= n
      BY <2>10, <2>11, <3>1
    <3>3. k + DelRecord \in 1 .. m /\ k + DelRecord <= AttOffset
      BY <2>3, <2>6, <3>1, <3>2
    <3>4. Chunk(orig, k + DelRecord)[1].rec.id \in handed
      BY <1>5, <2>2, <3>3 DEF HandedUpTo
    <3> QED
      BY <2>7, <3>1, <3>4
  <2>12. AttOffset' <= p
    BY <2>10
  <2> QED
    BY <2>5, <2>11, <2>12 DEF HandedUpTo
<1> QED
  BY <1>1, <1>4, <1>5 DEF MarkInv

LEMMA MarkSave ==
  ASSUME CopyInv, PlacesTyped, TornInv, MarkInv,
         NEW staff \in BOOLEAN, NEW verified \in BOOLEAN, NEW s \in {0} \cup ShortWrites,
         SaveAttLog(staff, verified, s)
  PROVE  MarkInv'
<1> DEFINE r == [id |-> issued + 1, staff |-> staff]
<1>1. /\ pc = "save" /\ pc' = "idle" /\ short' = (short \/ s > 0) /\ handed' = handed
      /\ file' = file \o SubSeq(CellsOf(r), 1, s) \o CellsOf(r)
      /\ AttOffset' = AttOffset /\ drifted' = drifted
      /\ CurAttLogCount' = IF verified THEN CurAttLogCount + 1 ELSE CurAttLogCount
  BY DEF SaveAttLog
<1>2. r \in Rec
  BY DEF Rec, CopyInv
<1> HIDE DEF r
<1>3. s \in Nat
  BY ShortAssumption
<1> SUFFICES ASSUME ~short' PROVE MarkInv'
  BY <1>1 DEF MarkInv
<1>4. ~short /\ ~(s > 0)
  BY <1>1, Zenon
<1>5. s = 0
  BY <1>3, <1>4
<1>6. PICK m \in Nat : Records(file, m)
  BY <1>1, <1>4, RecordsHere
<1>7. /\ Records(file', m + 1)
      /\ \A k \in 1 .. m : Chunk(file', k) = Chunk(file, k)
  BY <1>1, <1>2, <1>5, <1>6, Appended
<1>8. /\ CntAttLog(file) = m /\ Chunks(file) = 1 .. m
      /\ CntAttLog(file') = m + 1 /\ Chunks(file') = 1 .. m + 1
  BY <1>6, <1>7, CountRecords
<1>9. CurAttLogCount' <= m + 1
  <2>1. CurAttLogCount <= m /\ CurAttLogCount \in Nat
    BY <1>1, <1>4, <1>8 DEF MarkInv, PlacesTyped
  <2> QED
    BY <1>1, <2>1
<1>10. ASSUME ~drifted PROVE AttOffset <= m + 1 /\ HandedUpTo(file', AttOffset)
  <2>1. AttOffset <= m /\ HandedUpTo(file, AttOffset) /\ AttOffset \in Nat
    BY <1>1, <1>4, <1>8, <1>10 DEF MarkInv, PlacesTyped
  <2>2. ASSUME NEW k \in Chunks(file'), k <= AttOffset
        PROVE  Chunk(file', k)[1].rec.id \in handed
    <3>1. k \in 1 .. m
      BY <1>8, <2>1, <2>2
    <3> QED
      BY <1>7, <1>8, <2>1, <2>2, <3>1 DEF HandedUpTo
  <2> QED
    BY <2>1, <2>2 DEF HandedUpTo
<1>11. ~drifted => HandedUpTo(file, AttOffset)'
  BY <1>1, <1>10 DEF HandedUpTo
<1> QED
  BY <1>1, <1>8, <1>9, <1>10, <1>11 DEF MarkInv

LEMMA MarkFails ==
  ASSUME CopyInv, MarkInv, NEW staff \in BOOLEAN, NEW s \in {0} \cup ShortWrites,
         NEW t \in {0} \cup ShortWrites, SaveFails(staff, s, t)
  PROVE  MarkInv'
<1>1. /\ pc = "save" /\ pc' = "idle" /\ handed' = handed /\ AttOffset' = AttOffset
      /\ drifted' = drifted /\ CurAttLogCount' = CurAttLogCount
  BY DEF SaveFails
<1>2. ~short' => file' = file /\ ~short
  BY FailsLeaves, Zenon
<1> QED
  BY <1>1, <1>2 DEF MarkInv, HandedUpTo

LEMMA MarkRead == CopyInv /\ PlacesTyped /\ TornInv /\ MarkInv /\ FDB_ReadAttBlock => MarkInv'
<1> SUFFICES ASSUME CopyInv, PlacesTyped, TornInv, MarkInv, FDB_ReadAttBlock, ~short
             PROVE  MarkInv'
  BY DEF FDB_ReadAttBlock, MarkInv
<1> DEFINE off == ReadAttLogOffset
           new == {k \in Chunks(file) : k > off}
<1>1. /\ pc = "idle" /\ pc' = pc /\ file' = file /\ CurAttLogCount' = CurAttLogCount
      /\ short' = short /\ drifted' = drifted
      /\ AttOffset' = off + Cardinality(new)
      /\ handed' = handed \cup {file[(k - 1) * RecCells + 1].rec.id : k \in new}
  BY DEF FDB_ReadAttBlock
<1>2. PICK m \in Nat : Records(file, m)
  BY <1>1, RecordsHere
<1>3. CntAttLog(file) = m /\ Chunks(file) = 1 .. m
  BY <1>2, CountRecords
<1>4. CurAttLogCount <= m /\ CurAttLogCount \in Nat /\ AttOffset \in Nat
  BY <1>1, <1>3 DEF MarkInv, PlacesTyped
<1>5. off \in Nat /\ off <= m /\ off <= AttOffset
  BY <1>4 DEF ReadAttLogOffset, LesserOf
<1> HIDE DEF off
<1>6. Cardinality(new) = m - off
  <2>1. new = off + 1 .. m
    BY <1>3, <1>5
  <2>2. Cardinality(off + 1 .. m) = IF off + 1 > m THEN 0 ELSE m - (off + 1) + 1
    <3>1. off + 1 \in Int /\ m \in Int
      BY <1>5
    <3> QED
      BY <3>1, FS_Interval
  <2>3. Cardinality(new) = IF off + 1 > m THEN 0 ELSE m - (off + 1) + 1
    BY <2>1, <2>2, Zenon
  <2> HIDE DEF new
  <2> QED
    BY <1>5, <2>3
<1>7. \A k \in Chunks(file) : k \in new \/ k <= off
  BY <1>3, <1>5
<1> HIDE DEF new
<1>8. AttOffset' = m
  BY <1>1, <1>5, <1>6
<1>9. ASSUME ~drifted, NEW k \in Chunks(file) PROVE Chunk(file, k)[1].rec.id \in handed'
  <2>1. CASE k <= off
    <3>1. k <= AttOffset
      BY <1>3, <1>4, <1>5, <2>1
    <3>2. Chunk(file, k)[1].rec.id \in handed
      BY <1>1, <1>9, <3>1 DEF MarkInv, HandedUpTo
    <3> QED
      BY <1>1, <3>2
  <2>2. CASE k \in new
    <3>1. file[(k - 1) * RecCells + 1].rec.id \in handed'
      BY <1>1, <2>2, Zenon
    <3>2. 1 \in 1 .. RecCells
      BY SizesTyped
    <3>3. Chunk(file, k)[1] = file[(k - 1) * RecCells + 1]
      BY <3>2, Zenon DEF Chunk
    <3> QED
      BY <3>1, <3>3
  <2> QED
    BY <1>7, <2>1, <2>2
<1>10. ~drifted => HandedUpTo(file, AttOffset)'
  BY <1>1, <1>9, Zenon DEF HandedUpTo
<1> QED
  BY <1>1, <1>3, <1>4, <1>8, <1>10 DEF MarkInv

LEMMA MarkStep == CopyInv /\ PlacesTyped /\ TornInv /\ MarkInv /\ [Next]_vars => MarkInv'
<1> SUFFICES ASSUME CopyInv, PlacesTyped, TornInv, MarkInv, [Next]_vars PROVE MarkInv'
  OBVIOUS
<1> USE DEF history
<1>1. CASE Verify
  BY <1>1, MarkVerify
<1>2. CASE CopyBlock
  BY <1>2 DEF CopyBlock, MarkInv, HandedUpTo
<1>3. CASE CopyDone
  <2>1. /\ pc = "copy" /\ pc' = "adjust" /\ CurAttLogCount' = CntAttLog(file')
        /\ UNCHANGED <<AttOffset, log, orig, drifted, handed, short>>
    BY <1>3 DEF CopyDone
  <2>2. file' \in Seq(Cell)
    BY CopyStep DEF CopyInv
  <2>3. CntAttLog(file') \in Nat
    BY <2>2, CountTyped
  <2> QED
    BY <2>1, <2>3 DEF MarkInv, HandedUpTo
<1>4. CASE Adjust
  BY <1>4, MarkAdjust
<1>5. ASSUME NEW staff \in BOOLEAN, NEW verified \in BOOLEAN, NEW s \in {0} \cup ShortWrites,
             SaveAttLog(staff, verified, s)
      PROVE  MarkInv'
  BY <1>5, MarkSave
<1>6. CASE SaveNothing
  BY <1>6 DEF SaveNothing, MarkInv, HandedUpTo
<1>11. ASSUME NEW staff \in BOOLEAN, NEW s \in {0} \cup ShortWrites,
             NEW t \in {0} \cup ShortWrites, SaveFails(staff, s, t)
       PROVE  MarkInv'
  BY <1>11, MarkFails
<1>7. CASE FDB_ReadAttBlock
  BY <1>7, MarkRead
<1>8. CASE ClearData
  <2>1. <<>> \in Seq(Cell) /\ Len(<<>>) = 0 /\ 0 * RecCells = 0
    BY SizesTyped
  <2>2. Records(<<>>, 0)
    BY <2>1 DEF Records
  <2>3. CntAttLog(<<>>) = 0 /\ Chunks(<<>>) = 1 .. 0
    BY <2>2, CountRecords
  <2>4. file' = <<>> /\ CurAttLogCount' = 0 /\ AttOffset' = 0 /\ pc' = "idle"
    BY <1>8 DEF ClearData
  <2> QED
    BY <2>3, <2>4 DEF MarkInv, HandedUpTo
<1>9. ASSUME NEW n \in 0 .. BlockCells, Crash(n) PROVE MarkInv'
  <2>1. /\ pc' = "idle" /\ short' = short /\ CurAttLogCount' = CntAttLog(file)
        /\ drifted' = (drifted \/ pc \in {"copy", "adjust"})
        /\ AttOffset' = AttOffset /\ handed' = handed
    BY <1>9 DEF Crash
  <2> SUFFICES ASSUME ~short PROVE MarkInv'
    BY <2>1 DEF MarkInv
  <2>2. CntAttLog(file') = CntAttLog(file) /\ CntAttLog(file) \in Nat
    <3>1. Len(file') = Len(file) /\ file \in Seq(Cell)
      <4>1. pc = "copy" => Len(file') = Len(orig) /\ Len(file) = Len(orig)
        BY <1>9, CrashLeaves DEF CopyInv, MovedTo
      <4>2. pc # "copy" => file' = file
        BY <1>9, CrashLeaves
      <4> QED
        BY <4>1, <4>2 DEF CopyInv
    <3> QED
      BY <3>1, CountTyped DEF CntAttLog
  <2>3. ASSUME ~drifted' PROVE AttOffset <= CntAttLog(file') /\ HandedUpTo(file', AttOffset)
    <3>1. ~drifted /\ pc \notin {"copy", "adjust"}
      BY <2>1, <2>3, Zenon
    <3>2. pc \in {"idle", "save"} /\ file' = file
      BY <1>9, <3>1, CrashLeaves DEF PlacesTyped
    <3> QED
      BY <2>2, <3>1, <3>2 DEF MarkInv
  <2>4. ~drifted' => HandedUpTo(file, AttOffset)'
    BY <2>1, <2>3, Zenon DEF HandedUpTo
  <2> QED
    BY <2>1, <2>2, <2>3, <2>4 DEF MarkInv
<1>10. CASE UNCHANGED vars
  BY <1>10 DEF vars, MarkInv, HandedUpTo
<1> QED
  BY <1>1, <1>2, <1>3, <1>4, <1>5, <1>6, <1>7, <1>8, <1>9, <1>10, <1>11 DEF Next

\* Until a deletion is hit by a power failure or loses the mark, what lies
\* before the mark has been handed to the PC, for any sizes and any order of
\* downloads, deletions and clears (FDB_DelOldAttLog, FDB_AdjustAttOffset,
\* FDB_ReadAttBlock).
THEOREM NoneIsSkipped == Spec => []NothingSkipped
<1>1. PlacesTyped /\ MarkInv => NothingSkipped
  BY DEF NothingSkipped, MarkInv, HandedUpTo
<1>2. Init => CopyInv /\ PlacesTyped /\ TornInv /\ MarkInv
  BY CopyInit, PlacesInit, TornInit, MarkInit
<1>3. /\ CopyInv /\ PlacesTyped /\ TornInv /\ MarkInv /\ [Next]_vars
      => (CopyInv /\ PlacesTyped /\ TornInv /\ MarkInv)'
  BY CopyStep, PlacesStep, TornStep, MarkStep
<1> QED
  BY <1>1, <1>2, <1>3, PTL DEF Spec

=============================================================================
