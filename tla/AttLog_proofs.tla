---------------------------- MODULE AttLog_proofs ----------------------------
(***************************************************************************)
(* Theorems about the attendance store, for every capacity, byte base and   *)
(* option value the assumptions of AttLog admit.                            *)
(***************************************************************************)
EXTENDS AttLog, SequenceTheorems, TLAPS

-----------------------------------------------------------------------------
(* The operators of AttLogFile: what a write and a deletion leave in the     *)
(* file, and what the byte-swapped comparison of the boot scan amounts to.   *)

\* A sequence given by its elements has the type and the length it looks like.
LEMMA FunctionIsSeq ==
  ASSUME NEW S, NEW n \in Nat, NEW f \in [1 .. n -> S]
  PROVE  f \in Seq(S) /\ Len(f) = n
OBVIOUS

\* Every next position lies past the start of the file.
LEMMA PositionType ==
  ASSUME NEW f \in Seq(Record), NEW x \in Nat
  PROVE  Position(f, x) \in Nat \ {0}
<1>1. x % MaxLog \in Nat
  BY MaxLogAssumption
<1> QED
  BY <1>1 DEF Position

\* Serials up to MaxLog are appended.
LEMMA PositionAppends ==
  ASSUME NEW f \in Seq(Record), NEW x \in Nat, x <= MaxLog
  PROVE  Position(f, x) = Len(f) + 1
BY MaxLogAssumption DEF Position

\* WriteAt changes one position, and holes fill the gap before it.
LEMMA WriteAtFile ==
  ASSUME NEW f \in Seq(Record), NEW p \in Nat \ {0}, NEW r \in Record
  PROVE  /\ WriteAt(f, p, r) \in Seq(Record)
         /\ Len(WriteAt(f, p, r)) = MaxOf(p, Len(f))
         /\ \A i \in 1 .. MaxOf(p, Len(f)) :
              WriteAt(f, p, r)[i] =
                IF i = p THEN r ELSE IF i <= Len(f) THEN f[i] ELSE Hole
<1>1. MaxOf(p, Len(f)) \in Nat
  BY DEF MaxOf
<1>2. Hole \in Record
  BY DEF Hole, Record
<1>3. WriteAt(f, p, r) \in [1 .. MaxOf(p, Len(f)) -> Record]
  BY <1>1, <1>2 DEF WriteAt
<1>4. WriteAt(f, p, r) \in Seq(Record) /\ Len(WriteAt(f, p, r)) = MaxOf(p, Len(f))
  BY <1>1, <1>3, FunctionIsSeq
<1> QED
  BY <1>4 DEF WriteAt

\* DelHead keeps a tail of the file.
LEMMA DelHeadFile ==
  ASSUME NEW f \in Seq(Record), NEW n \in Nat
  PROVE  /\ DelHead(f, n) \in Seq(Record)
         /\ n < Len(f) => /\ Len(DelHead(f, n)) = Len(f) - n
                          /\ \A i \in 1 .. Len(f) - n : DelHead(f, n)[i] = f[i + n]
         /\ ~(n < Len(f)) => DelHead(f, n) = f
<1>1. CASE n < Len(f)
  <2>1. Len(f) - n \in Nat
    BY <1>1
  <2>2. DelHead(f, n) \in [1 .. Len(f) - n -> Record]
    BY <1>1, <2>1 DEF DelHead
  <2> QED
    BY <1>1, <2>1, <2>2, FunctionIsSeq DEF DelHead
<1>2. CASE ~(n < Len(f))
  BY <1>2 DEF DelHead
<1> QED
  BY <1>1, <1>2

-----------------------------------------------------------------------------

\* Division with remainder, for a divisor that is not a numeral.
LEMMA Euclid ==
  ASSUME NEW x \in Nat, NEW w \in Nat \ {0}
  PROVE  /\ x \div w \in Nat
         /\ x % w \in 0 .. w - 1
         /\ x = w * (x \div w) + (x % w)
OBVIOUS

LEMMA DivSmall ==
  ASSUME NEW x \in Nat, NEW w \in Nat \ {0}, x < w
  PROVE  x \div w = 0
OBVIOUS

LEMMA ProductAtLeast ==
  ASSUME NEW a \in Nat \ {0}, NEW b \in Nat
  PROVE  a * b >= b
OBVIOUS

\* Swapping the bytes of a nonzero serial that fits in two of them makes it
\* at least Base * Base, whatever it was.
LEMMA SwapIsLarge ==
  ASSUME NEW x \in Nat \ {0}, x < Base * Base
  PROVE  Ntohl(x) \in Nat /\ Ntohl(x) >= Base * Base
<1> DEFINE B2 == Base * Base
           q == x \div Base
           r == x % Base
<1>1. Base \in Nat \ {0} /\ B2 \in Nat \ {0} /\ Base * B2 \in Nat \ {0}
  BY BaseAssumption
<1>2. q \in Nat /\ r \in 0 .. Base - 1 /\ x = Base * q + r
  BY <1>1, Euclid
<1>3. q < Base
  BY <1>1, <1>2
<1>4. x \div B2 = 0 /\ x \div (Base * B2) = 0
  <2>1. B2 <= Base * B2
    BY <1>1, ProductAtLeast
  <2> HIDE DEF B2
  <2> QED
    BY <1>1, <2>1, DivSmall DEF B2
<1>5. Byte(x, B2) = 0 /\ Byte(x, Base * B2) = 0
  BY <1>1, <1>4 DEF Byte
<1>6. Byte(x, 1) = r
  BY <1>1 DEF Byte
<1>7. Byte(x, Base) = q
  BY <1>1, <1>2, <1>3 DEF Byte
<1>8. Ntohl(x) = r * (Base * B2) + q * B2
  <2> HIDE DEF q, r
  <2>1. Ntohl(x) = r * (Base * B2) + q * B2 + 0 * Base + 0
    BY <1>5, <1>6, <1>7 DEF Ntohl
  <2> QED
    BY <1>1, <1>2, <2>1
<1>9. CASE q # 0
  <2>1. q * B2 >= B2 /\ q * B2 \in Nat
    BY <1>1, <1>2, <1>9, ProductAtLeast
  <2>2. r * (Base * B2) \in Nat
    BY <1>1, <1>2
  <2> HIDE DEF B2, q, r
  <2> QED
    BY <1>1, <1>8, <2>1, <2>2 DEF B2
<1>10. CASE q = 0
  <2>1. r # 0
    BY <1>1, <1>2, <1>10
  <2>2. r * (Base * B2) >= Base * B2 /\ r * (Base * B2) \in Nat
    BY <1>1, <1>2, <2>1, ProductAtLeast
  <2>3. Base * B2 >= B2
    BY <1>1, ProductAtLeast
  <2>4. q * B2 = 0
    BY <1>1, <1>10
  <2> HIDE DEF B2, q, r
  <2> QED
    BY <1>1, <1>8, <2>2, <2>3, <2>4 DEF B2
<1> QED
  BY <1>9, <1>10

\* So while serials and the counter stay below Base * Base, the scan always
\* takes the serial of the record it looks at, as if it compared nothing.
LEMMA ScanTakesLast ==
  ASSUME NEW rec \in Record, NEW x \in Nat,
         LoopWriteRecordOn, rec.staff,
         rec.idx # 0, rec.idx < Base * Base, x < Base * Base
  PROVE  ScanIndex(x, rec) = rec.idx
<1>1. rec.idx \in Nat \ {0}
  BY DEF Record
<1>2. Ntohl(rec.idx) \in Nat /\ Ntohl(rec.idx) >= Base * Base
  BY <1>1, SwapIsLarge
<1>3. Ntohl(rec.idx) > x
  <2> DEFINE B2 == Base * Base
  <2>1. B2 \in Nat /\ x < B2 /\ Ntohl(rec.idx) >= B2
    BY <1>2, BaseAssumption
  <2> HIDE DEF B2
  <2> QED
    BY <1>2, <2>1
<1> QED
  BY <1>3 DEF ScanIndex

-----------------------------------------------------------------------------
(* The steps of the store.                                                  *)

USE DEF Running

\* What AddAttLog leaves, whichever verification called it.
LEMMA AddAttLogStep ==
  ASSUME NEW f \in Seq(Record), NEW c \in Nat, NEW staff \in BOOLEAN,
         NEW outcome \in WriteOutcomes,
         TypeOK, AddAttLog(f, c, staff, outcome)
  PROVE  \E rec \in Record :
           /\ rec.staff = staff
           /\ rec.idx = IF LoopWriteRecordOn THEN recindex' ELSE SensorNo
           /\ recindex' = IF LoopWriteRecordOn THEN recindex + 1 ELSE recindex
           /\ wrapped' = (wrapped \/ recindex' > MaxLog)
           /\ file' = IF outcome = "failed" THEN f
                      ELSE WriteAt(f, Position(f, recindex'), rec)
           /\ CurAttLogCount' = IF outcome = "stored" THEN c + 1 ELSE c
<1> DEFINE index == IF LoopWriteRecordOn THEN recindex + 1 ELSE recindex
           r == [staff |-> staff,
                 idx |-> IF LoopWriteRecordOn THEN index ELSE SensorNo]
<1>1. index \in Nat /\ SensorNo \in Nat
  BY OptionAssumption DEF TypeOK
<1>2. r \in Record
  BY <1>1 DEF Record
<1>3. recindex' = index
  BY DEF AddAttLog
<1> WITNESS r \in Record
<1> QED
  BY <1>3 DEF AddAttLog

\* The file and the count after the capacity check.
LEMMA CheckedType ==
  TypeOK => CheckedFile \in Seq(Record) /\ CheckedCount \in Nat
<1> SUFFICES ASSUME TypeOK PROVE CheckedFile \in Seq(Record) /\ CheckedCount \in Nat
  OBVIOUS
<1>1. CheckedFile \in Seq(Record)
  BY DelHeadFile, DelRecordAssumption DEF TypeOK, CheckedFile
<1>2. Len(CheckedFile) \in Nat
  BY <1>1
<1> QED
  BY <1>1, <1>2 DEF TypeOK, CheckedCount

\* A store of one record keeps the types.
LEMMA AddAttLogType ==
  ASSUME NEW f \in Seq(Record), NEW c \in Nat, NEW staff \in BOOLEAN,
         NEW outcome \in WriteOutcomes,
         TypeOK, AddAttLog(f, c, staff, outcome)
  PROVE  /\ file' \in Seq(Record)
         /\ recindex' \in Nat
         /\ CurAttLogCount' \in Nat
         /\ wrapped' \in BOOLEAN
<1>1. PICK rec \in Record :
           /\ recindex' = IF LoopWriteRecordOn THEN recindex + 1 ELSE recindex
           /\ wrapped' = (wrapped \/ recindex' > MaxLog)
           /\ file' = IF outcome = "failed" THEN f
                      ELSE WriteAt(f, Position(f, recindex'), rec)
           /\ CurAttLogCount' = IF outcome = "stored" THEN c + 1 ELSE c
  BY AddAttLogStep
<1>2. recindex' \in Nat
  BY <1>1 DEF TypeOK
<1>3. Position(f, recindex') \in Nat \ {0}
  BY <1>2, PositionType
<1>4. file' \in Seq(Record)
  BY <1>1, <1>3, WriteAtFile
<1>5. CurAttLogCount' \in Nat
  BY <1>1
<1>6. wrapped' \in BOOLEAN
  BY <1>1
<1> QED
  BY <1>2, <1>4, <1>5, <1>6

LEMMA SaveAttLogType ==
  ASSUME NEW f \in Seq(Record), NEW c \in Nat, NEW exceed,
         NEW outcome \in WriteOutcomes,
         TypeOK, SaveAttLog(f, c, exceed, outcome)
  PROVE  /\ file' \in Seq(Record)
         /\ recindex' \in Nat
         /\ CurAttLogCount' \in Nat
         /\ wrapped' \in BOOLEAN
<1>1. CASE AddAttLog(f, c, TRUE, outcome)
  BY <1>1, AddAttLogType
<1>2. CASE file' = f /\ CurAttLogCount' = c /\ UNCHANGED <<recindex, wrapped>>
  BY <1>2 DEF TypeOK
<1> QED
  BY <1>1, <1>2 DEF SaveAttLog

\* Every step keeps the types.
LEMMA TypeStep == TypeOK /\ [Next]_vars => TypeOK'
<1> SUFFICES ASSUME TypeOK, [Next]_vars PROVE TypeOK'
  OBVIOUS
<1>1. ASSUME NEW outcome \in WriteOutcomes, Verify(outcome) PROVE TypeOK'
  BY <1>1, CheckedType, SaveAttLogType DEF Verify, TypeOK, Exceed, Full
<1>2. CASE VerifyCancelled
  BY <1>2, CheckedType DEF VerifyCancelled, TypeOK, Exceed, Full
<1>3. ASSUME NEW outcome \in WriteOutcomes, SlaveVerify(outcome) PROVE TypeOK'
  <2>1. file \in Seq(Record) /\ CurAttLogCount \in Nat
    BY DEF TypeOK
  <2> QED
    BY <1>3, <2>1, SaveAttLogType DEF SlaveVerify, TypeOK
<1>4. ASSUME NEW outcome \in WriteOutcomes, CardVerify(outcome) PROVE TypeOK'
  <2>1. file \in Seq(Record) /\ CurAttLogCount \in Nat
    BY DEF TypeOK
  <2> QED
    BY <1>4, <2>1, AddAttLogType DEF CardVerify, TypeOK
<1>5. CASE ClearData
  BY <1>5, EmptySeq DEF ClearData, TypeOK
<1>6. CASE Reload
  BY <1>6 DEF Reload, TypeOK
<1>7. CASE Reboot
  BY <1>7 DEF Reboot, TypeOK
<1>8. CASE ScanStep
  <2>1. file[scan + 1] \in Record /\ scan \in Nat
    BY <1>8 DEF ScanStep, TypeOK
  <2>2. ScanIndex(recindex, file[scan + 1]) \in Nat
    BY <2>1 DEF ScanIndex, Record, TypeOK
  <2> QED
    BY <1>8, <2>1, <2>2 DEF ScanStep, TypeOK
<1>9. CASE ScanDone
  BY <1>9 DEF ScanDone, TypeOK
<1>10. CASE UNCHANGED vars
  BY <1>10 DEF vars, TypeOK
<1> QED
  BY <1>1, <1>2, <1>3, <1>4, <1>5, <1>6, <1>7, <1>8, <1>9, <1>10 DEF Next

\* The counters, the flag and every record of the file keep their types in
\* every behaviour of the store.
THEOREM TypeCorrect == Spec => []TypeOK
<1>1. Init => TypeOK
  <2>1. <<>> \in Seq(Record)
    BY EmptySeq
  <2> SUFFICES ASSUME Init PROVE TypeOK
    OBVIOUS
  <2>2. file \in Seq(Record)
    BY <2>1 DEF Init
  <2>3. recindex \in Nat /\ CurAttLogCount \in Nat /\ scan \in {-1} \cup Nat
    BY DEF Init
  <2>4. exceedflag \in BOOLEAN /\ wrapped \in BOOLEAN /\ unchecked \in BOOLEAN
    BY DEF Init
  <2> QED
    BY <2>2, <2>3, <2>4 DEF TypeOK
<1> QED
  BY <1>1, TypeStep, PTL DEF Spec

-----------------------------------------------------------------------------

\* Serials, with the parts SerialsInOrder and CounterCoversFile need to be
\* inductive: as long as none exceeds MaxLog, every record was appended; and
\* the scan of FDB_InitDBs has seen no serial above the counter so far.
Seen == IF Running THEN Len(file) ELSE scan

SerialsSmall ==
  /\ recindex <= MaxLog
  /\ \A i \in 1 .. Len(file) : file[i].staff => file[i].idx \in 1 .. MaxLog

Ordered(f) ==
  \A i, j \in 1 .. Len(f) :
    i < j /\ f[i].staff /\ f[j].staff => f[i].idx < f[j].idx

Covered(f, seen, x) ==
  \A i \in 1 .. seen : f[i].staff => f[i].idx <= x

SerialInv ==
  /\ scan <= Len(file)
  /\ LoopWriteRecordOn /\ ~wrapped =>
       SerialsSmall /\ Ordered(file) /\ Covered(file, Seen, recindex)

\* Deleting the oldest records keeps all three.
LEMMA CheckedSerials ==
  ASSUME TypeOK, SerialInv, Running, LoopWriteRecordOn, ~wrapped
  PROVE  /\ Ordered(CheckedFile)
         /\ Covered(CheckedFile, Len(CheckedFile), recindex)
         /\ \A i \in 1 .. Len(CheckedFile) :
              CheckedFile[i].staff => CheckedFile[i].idx \in 1 .. MaxLog
<1> DEFINE f == CheckedFile
<1>1. CASE f = file
  BY <1>1 DEF SerialInv, SerialsSmall, Seen
<1>2. CASE f # file
  <2>1. /\ DelRecord < Len(file)
        /\ Len(f) = Len(file) - DelRecord
        /\ \A i \in 1 .. Len(f) : f[i] = file[i + DelRecord]
    BY <1>2, DelHeadFile, DelRecordAssumption DEF CheckedFile, TypeOK
  <2>2. \A i \in 1 .. Len(f) : i + DelRecord \in 1 .. Len(file)
    BY <2>1, DelRecordAssumption DEF TypeOK
  <2>3. Ordered(f)
    <3> SUFFICES ASSUME NEW i \in 1 .. Len(f), NEW j \in 1 .. Len(f),
                        i < j, f[i].staff, f[j].staff
                 PROVE  f[i].idx < f[j].idx
      BY DEF Ordered
    <3>1. i + DelRecord < j + DelRecord
      BY DelRecordAssumption
    <3> HIDE DEF f
    <3> QED
      BY <2>1, <2>2, <3>1 DEF SerialInv, Ordered
  <2>4. Covered(f, Len(f), recindex)
    <3> HIDE DEF f
    <3> QED
      BY <2>1, <2>2 DEF SerialInv, Covered, Seen
  <2>5. \A i \in 1 .. Len(f) : f[i].staff => f[i].idx \in 1 .. MaxLog
    <3> HIDE DEF f
    <3> QED
      BY <2>1, <2>2 DEF SerialInv, SerialsSmall
  <2> QED
    BY <2>3, <2>4, <2>5
<1> QED
  BY <1>1, <1>2

\* A store of one record onto a file in order leaves a file in order.
LEMMA AddAttLogSerials ==
  ASSUME NEW f \in Seq(Record), NEW c \in Nat, NEW staff \in BOOLEAN,
         NEW outcome \in WriteOutcomes,
         TypeOK, Running, AddAttLog(f, c, staff, outcome), UNCHANGED scan,
         LoopWriteRecordOn, ~wrapped',
         Ordered(f), Covered(f, Len(f), recindex),
         \A i \in 1 .. Len(f) : f[i].staff => f[i].idx \in 1 .. MaxLog
  PROVE  SerialsSmall' /\ Ordered(file') /\ Covered(file', Seen', recindex')
<1>1. PICK rec \in Record :
           /\ rec.idx = recindex'
           /\ recindex' = recindex + 1
           /\ wrapped' = (wrapped \/ recindex' > MaxLog)
           /\ file' = IF outcome = "failed" THEN f
                      ELSE WriteAt(f, Position(f, recindex'), rec)
  BY AddAttLogStep
<1>2. recindex \in Nat /\ recindex' \in Nat
  BY <1>1 DEF TypeOK
<1>3. recindex' <= MaxLog
  <2>1. ~(recindex' > MaxLog)
    BY <1>1
  <2> QED
    BY <1>2, <2>1, MaxLogAssumption
<1>4. Seen' = Len(file')
  BY DEF Seen
<1>5. CASE outcome = "failed"
  BY <1>1, <1>2, <1>3, <1>4, <1>5 DEF SerialsSmall, Covered, Record
<1>6. CASE outcome # "failed"
  <2> DEFINE n == Len(f)
  <2>1. n \in Nat /\ file' = WriteAt(f, n + 1, rec)
    BY <1>1, <1>2, <1>3, <1>6, PositionAppends
  <2>2. /\ Len(file') = n + 1
        /\ \A i \in 1 .. n : file'[i] = f[i]
        /\ file'[n + 1] = rec
    <3>1. MaxOf(n + 1, n) = n + 1
      BY <2>1 DEF MaxOf
    <3>2. /\ Len(file') = n + 1
          /\ \A i \in 1 .. n + 1 :
               file'[i] = IF i = n + 1 THEN rec ELSE IF i <= n THEN f[i] ELSE Hole
      <4>1. n + 1 \in Nat \ {0}
        BY <2>1
      <4> DEFINE g == WriteAt(f, n + 1, rec)
      <4>2. /\ Len(g) = MaxOf(n + 1, n)
            /\ \A i \in 1 .. MaxOf(n + 1, n) :
                 g[i] = IF i = n + 1 THEN rec ELSE IF i <= n THEN f[i] ELSE Hole
        BY ZenonT(60), <4>1, WriteAtFile
      <4>3. file' = g
        BY <2>1
      <4> HIDE DEF g, n
      <4> QED
        BY <3>1, <4>2, <4>3
    <3> HIDE DEF n
    <3> QED
      BY <2>1, <3>2
  <2> HIDE DEF n
  <2>3. \A i \in 1 .. n : f[i].idx \in Nat
    <3>1. \A i \in 1 .. n : f[i] \in Record
      BY ElementOfSeq DEF n
    <3> QED
      BY <3>1 DEF Record
  <2>4. SerialsSmall'
    BY <1>1, <1>2, <1>3, <2>1, <2>2 DEF SerialsSmall, n
  <2>5. Ordered(file')
    <3> SUFFICES ASSUME NEW i \in 1 .. n + 1, NEW j \in 1 .. n + 1,
                        i < j, file'[i].staff, file'[j].staff
                 PROVE  file'[i].idx < file'[j].idx
      BY <2>2 DEF Ordered
    <3>1. CASE j = n + 1
      <4>1. i \in 1 .. n /\ f[i].staff /\ file'[i] = f[i]
        BY <2>1, <2>2, <3>1
      <4>2. f[i].idx <= recindex
        BY <4>1 DEF Covered, n
      <4> QED
        BY <1>1, <1>2, <2>2, <2>3, <3>1, <4>1, <4>2
    <3>2. CASE j # n + 1
      <4>1. i \in 1 .. n /\ j \in 1 .. n
        BY <2>1, <3>2
      <4> QED
        BY <2>2, <4>1 DEF Ordered, n
    <3> QED
      BY <3>1, <3>2
  <2>6. Covered(file', Seen', recindex')
    BY <1>1, <1>2, <1>4, <2>1, <2>2, <2>3 DEF Covered, n
  <2> QED
    BY <2>4, <2>5, <2>6
<1> QED
  BY <1>5, <1>6

\* A verification that passes through SaveAttLog keeps the serials in order.
LEMMA SaveAttLogSerials ==
  ASSUME NEW f \in Seq(Record), NEW c \in Nat, NEW exceed,
         NEW outcome \in WriteOutcomes,
         TypeOK, SerialInv, Running, SaveAttLog(f, c, exceed, outcome),
         UNCHANGED scan, LoopWriteRecordOn, ~wrapped',
         Ordered(f), Covered(f, Len(f), recindex),
         \A i \in 1 .. Len(f) : f[i].staff => f[i].idx \in 1 .. MaxLog
  PROVE  SerialsSmall' /\ Ordered(file') /\ Covered(file', Seen', recindex')
<1>1. CASE AddAttLog(f, c, TRUE, outcome)
  BY <1>1, AddAttLogSerials
<1>2. CASE file' = f /\ CurAttLogCount' = c /\ UNCHANGED <<recindex, wrapped>>
  <2>1. recindex <= MaxLog
    BY <1>2 DEF SerialInv, SerialsSmall
  <2> QED
    BY <1>2, <2>1 DEF SerialsSmall, Seen
<1> QED
  BY <1>1, <1>2 DEF SaveAttLog

\* One turn of the boot scan extends what the counter covers by one record.
LEMMA ScanStepSerials ==
  ASSUME MaxLog < Base * Base, TypeOK, SerialInv, ScanStep,
         LoopWriteRecordOn, ~wrapped
  PROVE  SerialsSmall' /\ Covered(file', Seen', recindex')
<1> DEFINE rec == file[scan + 1]
<1>1. /\ scan \in Nat /\ scan + 1 \in 1 .. Len(file) /\ rec \in Record
      /\ \A i \in 1 .. Len(file) : file[i].idx \in Nat
  <2>1. scan \in Nat /\ scan + 1 \in 1 .. Len(file)
    BY DEF ScanStep, TypeOK
  <2>2. \A i \in 1 .. Len(file) : file[i] \in Record
    BY ElementOfSeq DEF TypeOK
  <2> QED
    BY <2>1, <2>2 DEF Record
<1>2. SerialsSmall /\ Ordered(file) /\ Covered(file, scan, recindex)
  BY <1>1 DEF SerialInv, Seen
<1>3. /\ Seen' = scan + 1 /\ file' = file
      /\ recindex' = ScanIndex(recindex, rec)
  BY <1>1 DEF ScanStep, Seen
<1>4. CASE rec.staff
  <2>1. rec.idx \in 1 .. MaxLog /\ recindex \in Nat /\ recindex <= MaxLog
    BY <1>1, <1>2, <1>4 DEF SerialsSmall, TypeOK
  <2>2. rec.idx # 0 /\ rec.idx < Base * Base /\ recindex < Base * Base
    <3> DEFINE B2 == Base * Base
    <3>1. B2 \in Nat /\ MaxLog < B2
      BY BaseAssumption
    <3> HIDE DEF B2
    <3>2. rec.idx # 0 /\ rec.idx < B2 /\ recindex < B2
      BY <2>1, <3>1, MaxLogAssumption
    <3> QED
      BY <3>2 DEF B2
  <2>3. recindex' = rec.idx
    BY <1>1, <1>3, <1>4, <2>1, <2>2, ScanTakesLast
  <2>4. SerialsSmall'
    BY <1>2, <1>3, <2>1, <2>3, MaxLogAssumption DEF SerialsSmall
  <2>5. \A i \in 1 .. scan + 1 : file[i].staff => file[i].idx <= rec.idx
    BY <1>1, <1>2, <1>4 DEF Ordered
  <2> QED
    BY <1>3, <2>3, <2>4, <2>5 DEF Covered
<1>5. CASE ~rec.staff
  <2>1. recindex' = recindex
    BY <1>3, <1>5 DEF ScanIndex
  <2>2. SerialsSmall'
    BY <1>2, <1>3, <2>1 DEF SerialsSmall
  <2>3. \A i \in 1 .. scan + 1 : file[i].staff => file[i].idx <= recindex
    BY <1>1, <1>2, <1>5 DEF Covered
  <2> QED
    BY <1>3, <2>1, <2>2, <2>3 DEF Covered
<1> QED
  BY <1>4, <1>5

\* SerialInv is inductive, if two bytes hold every serial up to the capacity.
LEMMA SerialStep ==
  ASSUME MaxLog < Base * Base
  PROVE  TypeOK /\ SerialInv /\ [Next]_vars => SerialInv'
<1> SUFFICES ASSUME TypeOK, SerialInv, [Next]_vars PROVE SerialInv'
  OBVIOUS
<1>0. TypeOK'
  BY TypeStep
<1>1. ASSUME NEW outcome \in WriteOutcomes, Verify(outcome) PROVE SerialInv'
  <2>1. scan' <= Len(file')
    BY <1>0, <1>1 DEF Verify, TypeOK
  <2>2. ASSUME LoopWriteRecordOn, ~wrapped' PROVE ~wrapped
    BY <1>1, <2>2 DEF Verify, SaveAttLog, AddAttLog, TypeOK
  <2>3. ASSUME LoopWriteRecordOn, ~wrapped'
        PROVE  SerialsSmall' /\ Ordered(file') /\ Covered(file', Seen', recindex')
    <3>1. ~wrapped
      BY <2>2, <2>3
    <3>2. Running /\ SaveAttLog(CheckedFile, CheckedCount, Exceed, outcome)
          /\ UNCHANGED scan
      BY <1>1 DEF Verify
    <3>3. CheckedFile \in Seq(Record) /\ CheckedCount \in Nat
      BY CheckedType
    <3>4. /\ Ordered(CheckedFile)
          /\ Covered(CheckedFile, Len(CheckedFile), recindex)
          /\ \A i \in 1 .. Len(CheckedFile) :
               CheckedFile[i].staff => CheckedFile[i].idx \in 1 .. MaxLog
      BY <2>3, <3>1, <3>2, CheckedSerials
    <3> QED
      BY <2>3, <3>2, <3>3, <3>4, SaveAttLogSerials
  <2> QED
    BY <2>1, <2>3 DEF SerialInv, Ordered, Covered
<1>2. CASE VerifyCancelled
  <2>1. scan' <= Len(file')
    BY <1>0, <1>2 DEF VerifyCancelled, TypeOK
  <2>2. ASSUME LoopWriteRecordOn, ~wrapped'
        PROVE  SerialsSmall' /\ Ordered(file') /\ Covered(file', Seen', recindex')
    <3>1. /\ ~wrapped /\ Running /\ file' = CheckedFile
          /\ UNCHANGED <<recindex, scan>>
      BY <1>2, <2>2 DEF VerifyCancelled
    <3>2. recindex <= MaxLog
      BY <2>2, <3>1 DEF SerialInv, SerialsSmall
    <3>3. Seen' = Len(file')
      BY <3>1 DEF Seen
    <3> QED
      BY <2>2, <3>1, <3>2, <3>3, CheckedSerials DEF SerialsSmall
  <2> QED
    BY <2>1, <2>2 DEF SerialInv, Ordered, Covered
<1>3. ASSUME NEW outcome \in WriteOutcomes, SlaveVerify(outcome) PROVE SerialInv'
  <2>1. scan' <= Len(file')
    BY <1>0, <1>3 DEF SlaveVerify, TypeOK
  <2>2. ASSUME LoopWriteRecordOn, ~wrapped'
        PROVE  SerialsSmall' /\ Ordered(file') /\ Covered(file', Seen', recindex')
    <3>1. ~wrapped
      BY <1>3, <2>2 DEF SlaveVerify, SaveAttLog, AddAttLog, TypeOK
    <3>2. /\ Running /\ UNCHANGED scan
          /\ SaveAttLog(file, CurAttLogCount, exceedflag, outcome)
      BY <1>3 DEF SlaveVerify
    <3>3. file \in Seq(Record) /\ CurAttLogCount \in Nat
      BY DEF TypeOK
    <3>4. SerialsSmall /\ Ordered(file) /\ Covered(file, Len(file), recindex)
      BY <2>2, <3>1, <3>2 DEF SerialInv, Seen
    <3> QED
      BY <2>2, <3>2, <3>3, <3>4, SaveAttLogSerials DEF SerialsSmall
  <2> QED
    BY <2>1, <2>2 DEF SerialInv, Ordered, Covered
<1>4. ASSUME NEW outcome \in WriteOutcomes, CardVerify(outcome) PROVE SerialInv'
  <2>1. scan' <= Len(file')
    BY <1>0, <1>4 DEF CardVerify, TypeOK
  <2>2. ASSUME LoopWriteRecordOn, ~wrapped'
        PROVE  SerialsSmall' /\ Ordered(file') /\ Covered(file', Seen', recindex')
    <3>1. ~wrapped
      BY <1>4, <2>2 DEF CardVerify, AddAttLog, TypeOK
    <3>2. /\ Running /\ UNCHANGED scan
          /\ AddAttLog(file, CurAttLogCount, FALSE, outcome)
      BY <1>4 DEF CardVerify
    <3>3. file \in Seq(Record) /\ CurAttLogCount \in Nat
      BY DEF TypeOK
    <3>4. SerialsSmall /\ Ordered(file) /\ Covered(file, Len(file), recindex)
      BY <2>2, <3>1, <3>2 DEF SerialInv, Seen
    <3> QED
      BY <2>2, <3>2, <3>3, <3>4, AddAttLogSerials DEF SerialsSmall
  <2> QED
    BY <2>1, <2>2 DEF SerialInv, Ordered, Covered
<1>5. CASE ClearData
  <2>1. Len(file') = 0 /\ scan' = -1 /\ recindex' = 0
    BY <1>5, EmptySeq DEF ClearData
  <2>2. Seen' = 0
    BY <2>1 DEF Seen
  <2> QED
    BY <2>1, <2>2, MaxLogAssumption DEF SerialInv, SerialsSmall, Ordered, Covered
<1>6. CASE Reload
  <2>1. UNCHANGED <<file, recindex, wrapped>> /\ scan' = 0 /\ Seen' = 0
    BY <1>6 DEF Reload, Seen
  <2>2. Len(file) \in Nat
    BY DEF TypeOK
  <2> QED
    BY <2>1, <2>2 DEF SerialInv, SerialsSmall, Ordered, Covered
<1>7. CASE Reboot
  <2>1. /\ UNCHANGED <<file, wrapped>> /\ recindex' = 0
        /\ scan' = 0 /\ Seen' = 0
    BY <1>7 DEF Reboot, Seen
  <2>2. Len(file) \in Nat
    BY DEF TypeOK
  <2> QED
    BY <2>1, <2>2, MaxLogAssumption DEF SerialInv, SerialsSmall, Ordered, Covered
<1>8. CASE ScanStep
  <2>1. scan' <= Len(file') /\ UNCHANGED <<file, wrapped>>
    BY <1>8 DEF ScanStep, TypeOK
  <2>2. ASSUME LoopWriteRecordOn, ~wrapped'
        PROVE  SerialsSmall' /\ Ordered(file') /\ Covered(file', Seen', recindex')
    BY <1>8, <2>1, <2>2, ScanStepSerials DEF SerialInv
  <2> QED
    BY <2>1, <2>2 DEF SerialInv, Ordered, Covered
<1>9. CASE ScanDone
  <2>1. /\ UNCHANGED <<file, recindex, wrapped>>
        /\ scan' = -1 /\ Seen' = Len(file) /\ Seen = Len(file)
    BY <1>9 DEF ScanDone, Seen
  <2>2. Len(file) \in Nat
    BY DEF TypeOK
  <2> QED
    BY <2>1, <2>2 DEF SerialInv, SerialsSmall, Ordered, Covered
<1>10. CASE UNCHANGED vars
  BY <1>10 DEF vars, SerialInv, SerialsSmall, Ordered, Covered, Seen
<1> QED
  BY <1>1, <1>2, <1>3, <1>4, <1>5, <1>6, <1>7, <1>8, <1>9, <1>10 DEF Next

LEMMA SerialInit == Init => SerialInv
<1> SUFFICES ASSUME Init PROVE SerialInv
  OBVIOUS
<1>1. Len(file) = 0 /\ scan = 0 /\ recindex = 0 /\ Seen = 0
  BY EmptySeq DEF Init, Seen
<1> QED
  BY <1>1, MaxLogAssumption DEF SerialInv, SerialsSmall, Ordered, Covered

\* For a capacity below Base * Base (65536 on the device), no sequence of
\* saves, failed writes, clears, deletions, reloads and power cuts puts the
\* serials of persons out of order, until one exceeds the capacity.
THEOREM SerialsStayInOrder ==
  ASSUME MaxLog < Base * Base
  PROVE  Spec => []SerialsInOrder
<1>1. SerialInv => SerialsInOrder
  BY DEF SerialInv, SerialsInOrder, Ordered
<1> QED
  BY <1>1, TypeCorrect, SerialInit, SerialStep, PTL DEF Spec

\* Nor does the counter that a boot or a reload rebuilds fall below a serial
\* on file: no serial is issued twice.
THEOREM CounterStaysAbove ==
  ASSUME MaxLog < Base * Base
  PROVE  Spec => []CounterCoversFile
<1>1. SerialInv => CounterCoversFile
  BY DEF SerialInv, CounterCoversFile, Covered, Seen
<1> QED
  BY <1>1, TypeCorrect, SerialInit, SerialStep, PTL DEF Spec

-----------------------------------------------------------------------------

\* The capacity.  The count may run ahead of the file (an overwritten record
\* is counted twice).  It may also fall behind, when a serial used up by a
\* failed write makes the next write leave a hole; but then serials are above
\* MaxLog, and positions are taken modulo MaxLog.
Wrapping(x) == LoopWriteRecordOn /\ x > MaxLog


\* The capacity check is enough while every save passes it and a stored record
\* is counted, if deleting makes room.
Checked == ~unchecked /\ DelRecord < MaxLog

Roomy ==
  /\ Len(file) <= MaxLog
  /\ Running => Len(file) <= CurAttLogCount \/ Wrapping(recindex)
  /\ ~Running => CurAttLogCount = scan /\ scan <= Len(file)

CapacityInv == Checked => Roomy

LEMMA CheckedRoom ==
  ASSUME TypeOK, Roomy, Running, DelRecord < MaxLog
  PROVE  /\ Len(CheckedFile) \in Nat /\ CheckedCount \in Nat
         /\ Len(CheckedFile) <= CheckedCount \/ Wrapping(recindex)
         /\ Len(CheckedFile) <= MaxLog
         /\ ~Exceed => Len(CheckedFile) < MaxLog \/ Wrapping(recindex)
<1>1. Len(CheckedFile) \in Nat /\ CheckedCount \in Nat /\ Len(file) \in Nat
  BY CheckedType DEF TypeOK
<1>2. CASE DropOld
  <2>1. DelRecord \in Nat /\ DelRecord > 0 /\ DelRecord < MaxLog
    BY <1>2, DelRecordAssumption DEF DropOld
  <2>2. Len(CheckedFile) <= Len(file) /\ Len(CheckedFile) < MaxLog
    <3>1. CASE DelRecord < Len(file)
      <4>1. Len(CheckedFile) = Len(file) - DelRecord
        BY <1>2, <2>1, <3>1, DelHeadFile DEF CheckedFile, TypeOK
      <4> QED
        BY <1>1, <2>1, <4>1, MaxLogAssumption DEF Roomy
    <3>2. CASE ~(DelRecord < Len(file))
      <4>1. CheckedFile = file
        BY <1>2, <2>1, <3>2, DelHeadFile DEF CheckedFile, TypeOK
      <4> QED
        BY <1>1, <2>1, <3>2, <4>1, MaxLogAssumption
    <3> QED
      BY <3>1, <3>2
  <2> QED
    BY <1>1, <1>2, <2>2, MaxLogAssumption DEF CheckedCount
<1>3. CASE ~DropOld
  <2>1. CheckedFile = file /\ CheckedCount = CurAttLogCount
    BY <1>3 DEF CheckedFile, CheckedCount
  <2>2. ASSUME ~Exceed PROVE CurAttLogCount < MaxLog
    <3>1. ~Full
      BY <1>3, <2>2, DelRecordAssumption DEF DropOld, Exceed
    <3> QED
      BY <3>1, MaxLogAssumption DEF Full, TypeOK
  <2> QED
    BY <1>1, <2>1, <2>2, MaxLogAssumption DEF Roomy
<1> QED
  BY <1>2, <1>3

\* A stored record keeps the file within the capacity.
LEMMA AddAttLogRoom ==
  ASSUME NEW f \in Seq(Record), NEW c \in Nat, NEW outcome \in WriteOutcomes,
         TypeOK, outcome # "unverified", AddAttLog(f, c, TRUE, outcome),
         Len(f) <= c \/ Wrapping(recindex),
         Len(f) <= MaxLog, Len(f) < MaxLog \/ Wrapping(recindex)
  PROVE  /\ Len(file') <= MaxLog
         /\ Len(file') <= CurAttLogCount' \/ Wrapping(recindex')
<1>1. PICK rec \in Record :
           /\ recindex' = IF LoopWriteRecordOn THEN recindex + 1 ELSE recindex
           /\ file' = IF outcome = "failed" THEN f
                      ELSE WriteAt(f, Position(f, recindex'), rec)
           /\ CurAttLogCount' = IF outcome = "stored" THEN c + 1 ELSE c
  BY ZenonT(60), AddAttLogStep
<1>2. /\ recindex \in Nat /\ recindex' \in Nat
      /\ Wrapping(recindex) => Wrapping(recindex')
  BY <1>1, MaxLogAssumption DEF TypeOK, Wrapping
<1>3. CASE outcome = "failed"
  BY <1>1, <1>2, <1>3
<1>4. CASE outcome # "failed"
  <2>1. outcome = "stored"
    BY <1>4, SwitchAssumption DEF Outcomes
  <2> DEFINE p == Position(f, recindex')
             g == WriteAt(f, p, rec)
  <2>2. file' = g /\ CurAttLogCount' = c + 1
    BY <1>1, <2>1
  <2>3. p \in Nat \ {0} /\ Len(g) = MaxOf(p, Len(f))
    <3>1. p \in Nat \ {0}
      BY <1>2, PositionType
    <3> QED
      BY <3>1, WriteAtFile
  <2>4. CASE Wrapping(recindex')
    <3>1. p <= MaxLog
      <4>1. p = (recindex' % MaxLog) + 1
        BY <2>4 DEF Wrapping, Position
      <4>2. recindex' % MaxLog \in 0 .. MaxLog - 1
        BY <1>2, MaxLogAssumption, Euclid
      <4> QED
        BY <4>1, <4>2, MaxLogAssumption
    <3> HIDE DEF p, g
    <3> QED
      BY <2>2, <2>3, <2>4, <3>1, MaxLogAssumption DEF MaxOf
  <2>5. CASE ~Wrapping(recindex')
    <3>1. p = Len(f) + 1 /\ Len(f) <= c /\ Len(f) < MaxLog
      BY <1>2, <2>5 DEF Wrapping, Position
    <3> HIDE DEF p, g
    <3> QED
      BY <2>2, <2>3, <3>1, MaxLogAssumption DEF MaxOf
  <2> QED
    BY <2>4, <2>5
<1> QED
  BY <1>3, <1>4

\* CapacityInv is inductive.
LEMMA CapacityStep ==
  TypeOK /\ CapacityInv /\ [Next]_vars => CapacityInv'
<1> SUFFICES ASSUME TypeOK, CapacityInv, [Next]_vars, Checked' PROVE Roomy'
  BY DEF CapacityInv
<1>0. Len(file) \in Nat
  BY DEF TypeOK
<1>a. ASSUME ~unchecked PROVE Roomy /\ DelRecord < MaxLog
  BY <1>a DEF CapacityInv, Checked
<1>1. ASSUME NEW outcome \in WriteOutcomes, Verify(outcome) PROVE Roomy'
  <2>1. /\ Running /\ Running' /\ ~unchecked /\ outcome # "unverified"
        /\ SaveAttLog(CheckedFile, CheckedCount, Exceed, outcome)
    BY <1>1 DEF Verify, Checked
  <2>2. CheckedFile \in Seq(Record) /\ CheckedCount \in Nat
    BY CheckedType
  <2>3. CASE ~Exceed /\ AddAttLog(CheckedFile, CheckedCount, TRUE, outcome)
    BY <1>a, <2>1, <2>2, <2>3, CheckedRoom, AddAttLogRoom DEF Roomy
  <2>4. CASE /\ file' = CheckedFile /\ CurAttLogCount' = CheckedCount
             /\ UNCHANGED recindex
    BY <1>a, <2>1, <2>4, CheckedRoom DEF Roomy
  <2> QED
    BY <2>1, <2>3, <2>4 DEF SaveAttLog
<1>2. CASE VerifyCancelled
  <2>1. /\ Running /\ Running' /\ ~unchecked
        /\ file' = CheckedFile /\ CurAttLogCount' = CheckedCount
        /\ UNCHANGED recindex
    BY <1>2 DEF VerifyCancelled, Checked
  <2> QED
    BY <1>a, <2>1, CheckedRoom DEF Roomy
<1>3. ASSUME NEW outcome \in WriteOutcomes, SlaveVerify(outcome) PROVE Roomy'
  BY <1>3 DEF SlaveVerify, Checked
<1>4. ASSUME NEW outcome \in WriteOutcomes, CardVerify(outcome) PROVE Roomy'
  BY <1>4 DEF CardVerify, Checked
<1>5. CASE ClearData
  <2>1. Len(file') = 0 /\ CurAttLogCount' = 0 /\ Running'
    BY <1>5, EmptySeq DEF ClearData
  <2> QED
    BY <2>1, MaxLogAssumption DEF Roomy
<1>6. CASE Reload
  BY <1>0, <1>a, <1>6 DEF Reload, Roomy, Checked
<1>7. CASE Reboot
  BY <1>0, <1>a, <1>7 DEF Reboot, Roomy, Checked
<1>8. CASE ScanStep
  BY <1>0, <1>a, <1>8 DEF ScanStep, Roomy, TypeOK, Checked
<1>9. CASE ScanDone
  BY <1>0, <1>a, <1>9 DEF ScanDone, Roomy, Checked
<1>10. CASE UNCHANGED vars
  BY <1>a, <1>10 DEF vars, Roomy, Checked
<1> QED
  BY <1>1, <1>2, <1>3, <1>4, <1>5, <1>6, <1>7, <1>8, <1>9, <1>10 DEF Next

\* As long as every save passes the capacity check and is counted, the file never
\* holds more records than the capacity, however often it is filled, thinned
\* out, cleared, reloaded or restarted.
THEOREM CapacityHolds == Spec => []CapacityKept
<1>1. Init => CapacityInv
  <2>1. Init => Len(file) = 0 /\ scan = 0 /\ CurAttLogCount = 0
    BY EmptySeq DEF Init
  <2> QED
    BY <2>1, MaxLogAssumption DEF CapacityInv, Roomy
<1>2. CapacityInv => CapacityKept
  BY DEF CapacityInv, Checked, Roomy, CapacityKept
<1> QED
  BY <1>1, <1>2, TypeCorrect, CapacityStep, PTL DEF Spec

-----------------------------------------------------------------------------

\* Records leave only as the oldest: the action property.

LEMMA StartsWithTrans ==
  ASSUME NEW f \in Seq(Record), NEW g \in Seq(Record), NEW h \in Seq(Record),
         StartsWith(f, g), StartsWith(g, h)
  PROVE  StartsWith(f, h)
BY DEF StartsWith

LEMMA AddAttLogExtends ==
  ASSUME NEW f \in Seq(Record), NEW c \in Nat, NEW staff \in BOOLEAN,
         NEW outcome \in WriteOutcomes,
         TypeOK, AddAttLog(f, c, staff, outcome), ~wrapped'
  PROVE  StartsWith(file', f)
<1>1. PICK rec \in Record :
           /\ recindex' = IF LoopWriteRecordOn THEN recindex + 1 ELSE recindex
           /\ wrapped' = (wrapped \/ recindex' > MaxLog)
           /\ file' = IF outcome = "failed" THEN f
                      ELSE WriteAt(f, Position(f, recindex'), rec)
  BY AddAttLogStep
<1>2. recindex' \in Nat /\ ~(recindex' > MaxLog)
  <2>1. recindex' \in Nat
    BY <1>1 DEF TypeOK
  <2>2. ~(recindex' > MaxLog)
    BY <1>1
  <2> QED
    BY <2>1, <2>2
<1>3. CASE outcome = "failed"
  BY <1>1, <1>3 DEF StartsWith
<1>4. CASE outcome # "failed"
  <2> DEFINE n == Len(f)
             g == WriteAt(f, n + 1, rec)
  <2>1. n \in Nat /\ n + 1 \in Nat \ {0} /\ MaxOf(n + 1, n) = n + 1
    BY DEF MaxOf
  <2>2. file' = g
    <3>1. Position(f, recindex') = n + 1
      BY <1>2 DEF Position
    <3> QED
      BY <1>1, <1>4, <3>1
  <2>3. /\ Len(g) = MaxOf(n + 1, n)
        /\ \A i \in 1 .. MaxOf(n + 1, n) :
             g[i] = IF i = n + 1 THEN rec ELSE IF i <= n THEN f[i] ELSE Hole
    BY ZenonT(60), <2>1, WriteAtFile
  <2> HIDE DEF g, n
  <2>4. n <= Len(g) /\ \A i \in 1 .. n : g[i] = f[i]
    BY <2>1, <2>3
  <2> QED
    BY <2>2, <2>4 DEF StartsWith, n
<1> QED
  BY <1>3, <1>4

LEMMA CheckedKeepsTail ==
  ASSUME TypeOK
  PROVE  \/ CheckedFile = file
         \/ Full /\ StartsWith(CheckedFile, SubSeq(file, DelRecord + 1, Len(file)))
               /\ SubSeq(file, DelRecord + 1, Len(file)) \in Seq(Record)
<1> SUFFICES ASSUME CheckedFile # file
             PROVE  /\ Full
                    /\ StartsWith(CheckedFile, SubSeq(file, DelRecord + 1, Len(file)))
                    /\ SubSeq(file, DelRecord + 1, Len(file)) \in Seq(Record)
  OBVIOUS
<1>1. /\ Full /\ DelRecord < Len(file)
      /\ Len(CheckedFile) = Len(file) - DelRecord
      /\ \A i \in 1 .. Len(file) - DelRecord : CheckedFile[i] = file[i + DelRecord]
  BY DelHeadFile, DelRecordAssumption DEF CheckedFile, DropOld, TypeOK
<1> DEFINE t == SubSeq(file, DelRecord + 1, Len(file))
<1>2. /\ t \in Seq(Record)
      /\ Len(t) = Len(file) - DelRecord
      /\ \A i \in 1 .. Len(file) - DelRecord : t[i] = file[i + DelRecord]
  BY <1>1, DelRecordAssumption DEF TypeOK
<1> HIDE DEF t
<1>3. StartsWith(CheckedFile, t)
  BY <1>1, <1>2 DEF StartsWith
<1> QED
  BY <1>1, <1>2, <1>3 DEF t

LEMMA SaveAttLogExtends ==
  ASSUME NEW f \in Seq(Record), NEW c \in Nat, NEW exceed,
         NEW outcome \in WriteOutcomes,
         TypeOK, SaveAttLog(f, c, exceed, outcome), ~wrapped'
  PROVE  StartsWith(file', f)
<1>1. CASE AddAttLog(f, c, TRUE, outcome)
  BY <1>1, AddAttLogExtends
<1>2. CASE file' = f
  BY <1>2 DEF StartsWith
<1> QED
  BY <1>1, <1>2 DEF SaveAttLog

\* Until serials pass MaxLog, every step of the store keeps the file, extends
\* it, clears it, or drops the oldest DelRecord of a full one.
THEOREM OldestLeaveFirst == Spec => OnlyOldestLeave
<1> DEFINE Keeps == \/ file' = <<>>
                    \/ StartsWith(file', file)
                    \/ /\ Full
                       /\ StartsWith(file', SubSeq(file, DelRecord + 1, Len(file)))
<1>1. ASSUME TypeOK, Next, ~wrapped' PROVE Keeps
  <2>0. TypeOK' /\ file \in Seq(Record) /\ file' \in Seq(Record)
        /\ CurAttLogCount \in Nat
    BY <1>1, TypeStep DEF TypeOK
  <2>1. CheckedFile \in Seq(Record) /\ CheckedCount \in Nat
    BY <1>1, CheckedType
  <2>2. ASSUME StartsWith(file', CheckedFile) PROVE Keeps
    <3>1. CASE CheckedFile = file
      BY <2>2, <3>1
    <3>2. CASE /\ Full
               /\ StartsWith(CheckedFile, SubSeq(file, DelRecord + 1, Len(file)))
               /\ SubSeq(file, DelRecord + 1, Len(file)) \in Seq(Record)
      BY <2>0, <2>1, <2>2, <3>2, StartsWithTrans
    <3> QED
      BY <1>1, <3>1, <3>2, CheckedKeepsTail
  <2>3. ASSUME NEW outcome \in WriteOutcomes, Verify(outcome) PROVE Keeps
    BY <1>1, <2>1, <2>2, <2>3, SaveAttLogExtends DEF Verify
  <2>4. CASE VerifyCancelled
    <3>1. file' = CheckedFile
      BY <2>4 DEF VerifyCancelled
    <3>2. StartsWith(file', CheckedFile)
      BY <2>1, <3>1 DEF StartsWith
    <3> QED
      BY <2>2, <3>2
  <2>5. ASSUME NEW outcome \in WriteOutcomes, SlaveVerify(outcome) PROVE Keeps
    BY <1>1, <2>0, <2>5, SaveAttLogExtends DEF SlaveVerify
  <2>6. ASSUME NEW outcome \in WriteOutcomes, CardVerify(outcome) PROVE Keeps
    BY <1>1, <2>0, <2>6, AddAttLogExtends DEF CardVerify
  <2>7. CASE ClearData
    BY <2>7 DEF ClearData
  <2>8. ASSUME file' = file PROVE Keeps
    <3>1. StartsWith(file', file)
      BY <2>0, <2>8 DEF StartsWith
    <3> QED
      BY <3>1
  <2> QED
    BY <1>1, <2>3, <2>4, <2>5, <2>6, <2>7, <2>8
       DEF Next, Reload, Reboot, ScanStep, ScanDone
<1>2. TypeOK /\ [Next]_vars => [~wrapped' => Keeps]_vars
  BY <1>1
<1> QED
  BY <1>2, TypeCorrect, PTL DEF Spec, OnlyOldestLeave

=============================================================================
