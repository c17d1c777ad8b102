--------------------------- MODULE UserTable_proofs ---------------------------
(***************************************************************************)
(* The people enrolled, proved for any people, PINs and capacity: nobody is *)
(* on file twice, the map is that of the file and at most one above the     *)
(* capacity, and fingers and cards stay with their owners.                  *)
(***************************************************************************)
EXTENDS UserTable, SequenceTheorems, FiniteSetTheorems, WellFoundedInduction, TLAPS

OnFile == {users[i].pin : i \in Taken}
Deleting == {"card", "unmap", "untemplate"}
Rest == {"idle", "card", "unmap", "untemplate", "template", "rebuild"}

\* A record of the file with this PIN and number.
Person(pin, who) == \E i \in Taken : users[i].pin = pin /\ users[i].who = who

\* What the thread in an operation relies on.
Ready(t) ==
  /\ doing[t].op \in Adding =>
       /\ pos <= Len(users) /\ (pos + 1 <= Len(users) => users[pos + 1].pin = 0)
       /\ doing[t].pin \notin OnFile
       /\ doing[t].who = Nobody \/ \A i \in Taken : users[i].who # doing[t].who
  /\ doing[t].op = "chg" =>
       pos \in 1 .. Len(users) /\ users[pos] = [pin |-> doing[t].pin, who |-> doing[t].who]
  /\ doing[t].op = "erase" =>
       pos \in 1 .. Len(users) /\ users[pos].pin = doing[t].pin /\ gUser = users[pos]
  /\ doing[t].op \in Deleting => doing[t].pin \notin OnFile
  /\ doing[t].op = "template" => Person(doing[t].pin, doing[t].who)

Alone == \A t, u \in Threads : t # u => doing[t] = Idle \/ doing[u] = Idle
PinOnce == \A i, j \in Taken : i # j => users[i].pin # users[j].pin
NameOnce ==
  \A i, j \in Taken : i # j /\ users[i].who = users[j].who => users[i].who = Nobody

\* The map still has the PIN of a deletion that has not come to it.
MapInv ==
  UserIDMap = OnFile \cup
    ({doing[t].pin : t \in {u \in Threads : doing[u].op \in {"card", "unmap"}}} \ {0})
CountInv ==
  /\ Cardinality(UserIDMap \ unchecked) <= MaxUser + 1
  /\ \A t \in Threads : doing[t].op \in {"add", "menu"} => Cardinality(UserIDMap) <= MaxUser

Core == Alone /\ PinOnce /\ (\A t \in Threads : Ready(t)) /\ MapInv /\ CountInv

\* Fingers and cards belong to somebody on file, or to the one who is being
\* deleted or enrolled.
FingerInv ==
  \A f \in templates :
    \/ Person(f.pin, f.who)
    \/ \E t \in Threads : doing[t].op \in Deleting /\ doing[t].pin = f.pin
    \/ \E t \in Threads : doing[t].op = "enrol" /\ doing[t].pin = f.pin /\ doing[t].who = f.who
CardInv ==
  \A i, j \in 1 .. Len(cards) :
    cards[i].pin # 0 =>
      /\ \/ cards[i].pin \in OnFile
         \/ \E t \in Threads : doing[t].op = "card" /\ doing[t].pin = cards[i].pin
      /\ cards[i].pin = cards[j].pin => i = j

UserInv ==
  /\ TypeOK
  /\ Apart => Core
  /\ Apart /\ ~revived => NameOnce
  /\ Apart /\ ~torn => FingerInv
  /\ Apart /\ ~torn /\ ~garbled => CardInv

-----------------------------------------------------------------------------
(* Searches.                                                                *)

LEMMA Least ==
  ASSUME NEW T \in SUBSET Nat, T # {}
  PROVE  \E n \in T : \A m \in T : n <= m
<1> DEFINE R == OpToRel(<, Nat)
<1>1. IsWellFoundedOn(R, Nat)
  BY NatLessThanWellFounded
<1>2. \A x, y \in Nat : x < y => <<x, y>> \in R
  BY DEF OpToRel
<1> HIDE DEF R
<1>3. PICK n \in T : \A y \in T : ~ (<<y, n>> \in R)
  BY <1>1, WFMin, Zenon
<1>4. \A m \in T : ~(m < n)
  BY <1>2, <1>3
<1>5. \A m \in T : n <= m
  <2> TAKE m \in T
  <2>1. m \in Nat /\ n \in Nat
    OBVIOUS
  <2> QED
    BY <1>4, <2>1
<1> QED
  BY <1>5

LEMMA FirstIn ==
  ASSUME NEW S \in SUBSET Nat, S # {}
  PROVE  First(S) \in S
  BY Least DEF First

LEMMA UserTyped ==
  ASSUME TypeOK, NEW i \in 1 .. Len(users)
  PROVE  users[i] \in User /\ users[i].pin \in 0 .. MaxPin /\ users[i].who \in Names
<1>1. users[i] \in User
  BY ElementOfSeq, Zenon DEF TypeOK
<1> QED
  BY <1>1 DEF User

LEMMA PinsTyped ==
  /\ MaxPin \in Nat /\ MaxUser \in Nat
  /\ Pins \subseteq Nat /\ Pins \subseteq 0 .. MaxPin
  /\ \A p \in 0 .. MaxPin : p # 0 => p \in Pins
  BY PinAssumption DEF Pins

\* A person on file has a record and a PIN.
LEMMA Known ==
  ASSUME TypeOK, NEW w \in People, WithPIN2(w) # {}
  PROVE  LET i == First(WithPIN2(w)) IN
           /\ i \in Taken /\ users[i].who = <<w>>
           /\ users[i].pin \in Pins /\ i \in WithPin(users[i].pin)
<1>0. Len(users) \in Nat
  BY DEF TypeOK
<1>1. WithPIN2(w) \in SUBSET Nat
  BY <1>0 DEF WithPIN2
<1>2. First(WithPIN2(w)) \in WithPIN2(w)
  BY <1>1, FirstIn
<1> DEFINE i == First(WithPIN2(w))
<1> HIDE DEF i
<1>3. i \in WithPIN2(w)
  BY <1>2 DEF i
<1>4. i \in 1 .. Len(users) /\ users[i].pin # 0 /\ users[i].who = <<w>>
  BY <1>3 DEF WithPIN2
<1>5. users[i].pin \in Pins
  BY <1>4, UserTyped, PinsTyped
<1> QED
  BY <1>4, <1>5 DEF i, Taken, WithPin

LEMMA ScanTyped ==
  ASSUME TypeOK, NEW S \in SUBSET (1 .. Len(users)), Scan(S)
  PROVE  /\ pos' \in Nat /\ gUser' \in User
         /\ S # {} => pos' \in S /\ gUser' = users[pos']
<1> DEFINE i == IF S = {} THEN Len(users) ELSE First(S)
<1>1. Len(users) \in Nat /\ S \in SUBSET Nat
  BY DEF TypeOK
<1>2. S # {} => i \in S
  BY <1>1, FirstIn
<1>3. pos' = i /\ gUser' = IF i = 0 THEN gUser ELSE users[i]
  BY DEF Scan
<1>4. i \in Nat /\ (i # 0 => i \in 1 .. Len(users))
  <2>1. CASE S = {}
    BY <1>1, <2>1
  <2>2. CASE S # {}
    <3> HIDE DEF i
    <3>1. i \in S
      BY <1>2, <2>2
    <3> QED
      BY <1>1, <3>1
  <2> QED
    BY <2>1, <2>2
<1> HIDE DEF i
<1>5. gUser' \in User
  BY <1>3, <1>4, UserTyped DEF TypeOK
<1>6. ASSUME S # {} PROVE pos' \in S /\ gUser' = users[pos']
  <2>1. i \in S /\ i # 0
    BY <1>1, <1>2, <1>6
  <2> QED
    BY <1>3, <2>1
<1> QED
  BY <1>3, <1>4, <1>5, <1>6

LEMMA SeekTyped ==
  ASSUME TypeOK, SeekFree
  PROVE  /\ pos' \in Nat /\ gUser' \in User
         /\ pos' <= Len(users) /\ (pos' + 1 <= Len(users) => users[pos' + 1].pin = 0)
<1> DEFINE free == WithPin(0)
<1>1. Len(users) \in Nat /\ free \in SUBSET (1 .. Len(users)) /\ \A i \in free : users[i].pin = 0
  BY DEF TypeOK, WithPin
<1>2. /\ pos' = IF free = {} THEN Len(users) ELSE First(free) - 1
      /\ gUser' = IF users = <<>> THEN gUser
                  ELSE users[IF free = {} THEN Len(users) ELSE First(free)]
  BY DEF SeekFree
<1> HIDE DEF free
<1>3. CASE free = {}
  <2>1. users # <<>> => Len(users) \in 1 .. Len(users)
    BY <1>1, EmptySeq DEF TypeOK
  <2>2. gUser' \in User
    BY <1>2, <1>3, <2>1, UserTyped DEF TypeOK
  <2> QED
    BY <1>1, <1>2, <1>3, <2>2
<1>4. CASE free # {}
  <2>1. free \in SUBSET Nat
    BY <1>1
  <2>2. First(free) \in free /\ First(free) \in 1 .. Len(users)
    BY <1>1, <1>4, <2>1, FirstIn
  <2>3. gUser' \in User
    BY <1>2, <1>4, <2>2, UserTyped DEF TypeOK
  <2>4. pos' = First(free) - 1
    BY <1>2, <1>4
  <2>5. pos' \in Nat /\ pos' + 1 = First(free) /\ pos' <= Len(users)
    BY <1>1, <2>2, <2>4
  <2>6. users[pos' + 1].pin = 0
    BY <1>1, <2>2, <2>5
  <2> QED
    BY <2>3, <2>5, <2>6
<1> QED
  BY <1>3, <1>4

\* With room in the map the next PIN is one that is not taken.
LEMMA NextPINFree ==
  ASSUME TypeOK, RoomForServer
  PROVE  GetNextPIN \in Pins \ UserIDMap
<1>1. UserIDMap # Pins
  <2>1. Cardinality(Pins) = MaxPin
    BY PinAssumption, FS_Interval DEF Pins
  <2> QED
    BY <2>1, PinAssumption DEF RoomForServer
<1>2. Pins \ UserIDMap # {} /\ Pins \ UserIDMap \in SUBSET Nat
  BY <1>1, PinsTyped DEF TypeOK
<1> QED
  BY <1>2, FirstIn DEF GetNextPIN

LEMMA MapFinite ==
  ASSUME TypeOK
  PROVE  IsFiniteSet(UserIDMap) /\ Cardinality(UserIDMap) \in Nat
<1>1. IsFiniteSet(Pins)
  BY PinAssumption, FS_Interval DEF Pins
<1>2. IsFiniteSet(UserIDMap)
  BY <1>1, FS_Subset DEF TypeOK
<1> QED
  BY <1>2, FS_CardinalityType

\* A record that is put at a place of the file, or behind its end.
LEMMA PutFile ==
  ASSUME TypeOK, NEW i \in 1 .. Len(users) + 1, NEW u \in User, users' = PutAt(i, u)
  PROVE  /\ users' \in Seq(User)
         /\ Len(users') = IF i <= Len(users) THEN Len(users) ELSE i
         /\ users'[i] = u
         /\ \A j \in 1 .. Len(users) : j # i => users'[j] = users[j]
<1>1. users \in Seq(User) /\ Len(users) \in Nat
  BY DEF TypeOK
<1>2. CASE i <= Len(users)
  <2>1. users' = [users EXCEPT ![i] = u] /\ i \in 1 .. Len(users)
    BY <1>1, <1>2 DEF PutAt
  <2>2. users' \in Seq(User) /\ Len(users') = Len(users)
    BY <1>1, <2>1, ExceptSeq
  <2> QED
    BY <1>1, <1>2, <2>1, <2>2
<1>3. CASE ~(i <= Len(users))
  <2>1. users' = Append(users, u) /\ i = Len(users) + 1
    BY <1>1, <1>3 DEF PutAt
  <2> QED
    BY <1>1, <1>3, <2>1, AppendProperties
<1> QED
  BY <1>2, <1>3

-----------------------------------------------------------------------------
(* Types.                                                                   *)

Operation == [op : Ops, pin : 0 .. MaxPin, who : Names]

LEMMA IdleTyped ==
  /\ Idle \in Operation /\ Idle.op = "idle" /\ Idle.op \notin Adding \cup {"template"}
  /\ NoEnrolment \in [pin : 0 .. MaxPin, who : Names, new : BOOLEAN]
  BY PinAssumption DEF Idle, Operation, Ops, Names, Adding, NoEnrolment

LEMMA ThenTyped ==
  ASSUME TypeOK, NEW t \in Threads, NEW op \in Rest,
         op = "template" => doing[t].pin \in Pins, Then(t, op)
  PROVE  /\ doing' \in [Threads -> Operation]
         /\ \A u \in Threads :
              doing'[u].op \in Adding \cup {"template"} => doing'[u].pin \in Pins
<1>1. doing \in [Threads -> Operation]
  BY DEF TypeOK, Operation
<1>2. /\ [doing[t] EXCEPT !.op = op] \in Operation
      /\ [doing[t] EXCEPT !.op = op].op = op /\ [doing[t] EXCEPT !.op = op].pin = doing[t].pin
      /\ op \notin Adding
  BY <1>1 DEF Operation, Ops, Rest, Adding
<1>3. doing' = [doing EXCEPT ![t] = IF op = "idle" THEN Idle ELSE [@ EXCEPT !.op = op]]
  BY DEF Then
<1> QED
  BY <1>1, <1>2, <1>3, IdleTyped DEF TypeOK

LEMMA PutTyped ==
  ASSUME TypeOK, NEW i \in Nat, i > 0, NEW u \in User, users' = PutAt(i, u)
  PROVE  users' \in Seq(User)
<1>1. users \in Seq(User) /\ Len(users) \in Nat
  BY DEF TypeOK
<1>2. CASE i <= Len(users)
  BY <1>1, <1>2, PutFile
<1>3. CASE ~(i <= Len(users))
  BY <1>1, <1>3, AppendProperties DEF PutAt
<1> QED
  BY <1>2, <1>3

LEMMA BackTyped == \A i \in Nat : Back(i) \in Nat /\ Back(i) > 0 /\ (i > 0 => Back(i) = i)
  BY DEF Back

LEMMA CardTyped ==
  ASSUME TypeOK, NEW p \in 0 .. MaxPin, NEW c \in Card
  PROVE  /\ CardsOf(p) # {} =>
              /\ First(CardsOf(p)) \in 1 .. Len(cards) /\ cards[First(CardsOf(p))].pin = p
              /\ [cards EXCEPT ![First(CardsOf(p))] = c] \in Seq(Card)
              /\ Len([cards EXCEPT ![First(CardsOf(p))] = c]) = Len(cards)
         /\ Append(cards, c) \in Seq(Card)
<1>1. cards \in Seq(Card) /\ Len(cards) \in Nat
  BY DEF TypeOK
<1>2. ASSUME CardsOf(p) # {}
      PROVE  First(CardsOf(p)) \in 1 .. Len(cards) /\ cards[First(CardsOf(p))].pin = p
  <2>1. CardsOf(p) \in SUBSET Nat
    BY <1>1 DEF CardsOf
  <2>2. First(CardsOf(p)) \in CardsOf(p)
    BY <1>2, <2>1, FirstIn
  <2> DEFINE i == First(CardsOf(p))
  <2> HIDE DEF i
  <2>3. i \in CardsOf(p)
    BY <2>2 DEF i
  <2>4. i \in 1 .. Len(cards) /\ cards[i].pin = p
    BY <2>3 DEF CardsOf
  <2> QED
    BY <2>4 DEF i
<1>3. \A i \in 1 .. Len(cards) :
        [cards EXCEPT ![i] = c] \in Seq(Card) /\ Len([cards EXCEPT ![i] = c]) = Len(cards)
  BY <1>1, ExceptSeq
<1>4. Append(cards, c) \in Seq(Card)
  BY <1>1, AppendProperties
<1> QED
  BY <1>2, <1>3, <1>4

LEMMA NextPINTyped ==
  ASSUME TypeOK
  PROVE  GetNextPIN \in 0 .. MaxPin /\ (GetNextPIN # 0 => GetNextPIN \in Pins \ UserIDMap)
<1>1. CASE Pins \ UserIDMap = {}
  BY <1>1, PinsTyped DEF GetNextPIN
<1>2. CASE Pins \ UserIDMap # {}
  <2>1. Pins \ UserIDMap \in SUBSET Nat
    BY PinsTyped
  <2> QED
    BY <1>2, <2>1, FirstIn, PinsTyped DEF GetNextPIN
<1> QED
  BY <1>1, <1>2

\* An operation begun leaves the tables alone, and has found what it needs: a
\* free place, or a record.
Begun(t, op, pin, who) ==
  /\ Begin(t, op, pin, who)
  /\ UNCHANGED <<tables, enrolling, crashes, marks>>
  /\ pos' \in Nat /\ gUser' \in User
  /\ op \in Adding \cup {"template", "chg"} => pin \in Pins
  /\ op \in Adding =>
       /\ pos' <= Len(users) /\ (pos' + 1 <= Len(users) => users[pos' + 1].pin = 0)
       /\ WithPin(pin) = {} \/ pin \notin UserIDMap
       /\ who = Nobody \/ \A i \in Taken : users[i].who # who
  /\ op \in {"add", "menu"} => RoomForServer
  /\ op \in {"chg", "erase", "template"} =>
       /\ pos' \in WithPin(pin) /\ gUser' = users[pos']
       /\ \E i \in WithPin(pin) : users[i].who = who

BeginOps == {"add", "append", "menu", "chg", "erase", "template", "import"}

LEMMA NotOnFile ==
  ASSUME NEW w \in People, WithPIN2(w) = {}
  PROVE  \A i \in Taken : users[i].who # <<w>>
  BY DEF WithPIN2, Taken

LEMMA WithPinIn == \A p : WithPin(p) \in SUBSET (1 .. Len(users))
  BY DEF WithPin

\* A new person from the PC or the server, at the menu or from a card.
LEMMA AddBegun ==
  ASSUME TypeOK, NEW t \in Threads, NEW op \in {"add", "menu"}, NEW pin \in Pins, NEW w \in People,
         WithPIN2(w) = {}, RoomForServer, Begin(t, op, pin, <<w>>), SeekFree,
         UNCHANGED <<tables, enrolling, crashes, marks>>,
         WithPin(pin) = {} \/ pin \notin UserIDMap
  PROVE  Begun(t, op, pin, <<w>>)
  BY SeekTyped, NotOnFile DEF Begun, Adding

\* Somebody on file is changed, or deleted, or gets a finger.
LEMMA ScanBegun ==
  ASSUME TypeOK, NEW t \in Threads, NEW op \in {"chg", "erase", "template"},
         NEW pin \in 0 .. MaxPin, NEW who \in Names, op # "erase" => pin \in Pins,
         \E i \in WithPin(pin) : users[i].who = who,
         Begin(t, op, pin, who), Scan(WithPin(pin)),
         UNCHANGED <<tables, enrolling, crashes, marks>>
  PROVE  Begun(t, op, pin, who)
<1>1. pos' \in Nat /\ gUser' \in User /\ pos' \in WithPin(pin) /\ gUser' = users[pos']
  BY ScanTyped, WithPinIn
<1> QED
  BY <1>1 DEF Begun, Adding

LEMMA NameTyped == Nobody \in Names /\ \A w \in People : <<w>> \in Names
  BY DEF Names

\* The record that is found first with a PIN.
LEMMA FirstWithPin ==
  ASSUME TypeOK, NEW p \in 0 .. MaxPin, WithPin(p) # {}
  PROVE  LET i == First(WithPin(p)) IN i \in WithPin(p) /\ users[i].who \in Names
<1> DEFINE i == First(WithPin(p))
<1>1. WithPin(p) \in SUBSET Nat
  BY DEF WithPin, TypeOK
<1>2. i \in WithPin(p)
  BY <1>1, FirstIn
<1> HIDE DEF i
<1>3. i \in 1 .. Len(users)
  BY <1>2 DEF WithPin
<1>4. users[i].who \in Names
  BY <1>3, UserTyped
<1> QED
  BY <1>2, <1>4 DEF i

LEMMA RoomTyped == TypeOK /\ RoomForPC => RoomForServer
  BY MapFinite, PinsTyped DEF RoomForPC, RoomForServer

LEMMA PINBegins ==
  ASSUME TypeOK, NEW p \in Pins,
         \/ AppendNamed(p) \/ AppendUserTemp(p)
         \/ (\E t \in Threads, q \in 0 .. MaxPin : DelUser(t, q))
  PROVE  \E u \in Threads, op \in BeginOps, pin \in 0 .. MaxPin, who \in Names :
           Begun(u, op, pin, who)
<1>0. "main" \in Threads /\ p \in 0 .. MaxPin /\ Nobody \in Names
  BY PinsTyped, NameTyped DEF Threads
<1>1. CASE AppendNamed(p)
  <2>1. Begun("main", "append", p, Nobody)
    BY <1>0, <1>1, SeekTyped DEF AppendNamed, Begun, Adding
  <2> QED
    BY <1>0, <2>1 DEF BeginOps
<1>2. CASE AppendUserTemp(p)
  <2> DEFINE i == First(WithPin(p))
  <2>1. /\ WithPin(p) # {} /\ Begin("main", "template", p, users[i].who) /\ Scan(WithPin(p))
        /\ UNCHANGED <<tables, enrolling, crashes, marks>>
    BY <1>2 DEF AppendUserTemp
  <2>2. i \in WithPin(p) /\ users[i].who \in Names
    BY <1>0, <2>1, FirstWithPin
  <2> HIDE DEF i
  <2>3. Begun("main", "template", p, users[i].who)
    BY <1>0, <2>1, <2>2, ScanBegun
  <2> QED
    BY <1>0, <2>2, <2>3 DEF BeginOps
<1>3. CASE \E t \in Threads, q \in 0 .. MaxPin : DelUser(t, q)
  <2>1. PICK t \in Threads, q \in 0 .. MaxPin : DelUser(t, q)
    BY <1>3
  <2> DEFINE i == First(WithPin(q))
  <2>2. /\ WithPin(q) # {} /\ Begin(t, "erase", q, users[i].who) /\ Scan(WithPin(q))
        /\ UNCHANGED <<tables, enrolling, crashes, marks>>
    BY <2>1 DEF DelUser
  <2>3. i \in WithPin(q) /\ users[i].who \in Names
    BY <2>2, FirstWithPin
  <2> HIDE DEF i
  <2>4. Begun(t, "erase", q, users[i].who)
    BY <2>2, <2>3, ScanBegun
  <2> QED
    BY <2>3, <2>4 DEF BeginOps
<1> QED
  BY <1>1, <1>2, <1>3

LEMMA NameBegins ==
  ASSUME TypeOK, NEW p \in Pins, NEW w \in People,
         \/ PCAddUser(p, w) \/ PCChgUser(p, w)
         \/ (\E op \in {"add", "menu"} : AddNextPin(w, op))
         \/ ServerAddUser(w) \/ ImportUser(w)
  PROVE  \E u \in Threads, op \in BeginOps, pin \in 0 .. MaxPin, who \in Names :
           Begun(u, op, pin, who)
<1>0. "main" \in Threads /\ p \in 0 .. MaxPin /\ <<w>> \in Names
  BY PinsTyped, NameTyped DEF Threads
<1>1. CASE PCAddUser(p, w)
  <2>1. Begun("main", "add", p, <<w>>)
    BY <1>0, <1>1, RoomTyped, AddBegun DEF PCAddUser, PCAdds
  <2> QED
    BY <1>0, <2>1 DEF BeginOps
<1>2. CASE PCChgUser(p, w)
  <2>1. /\ WithPIN2(w) # {} /\ users[First(WithPIN2(w))].pin = p
        /\ Begin("main", "chg", p, <<w>>) /\ Scan(WithPin(p))
        /\ UNCHANGED <<tables, enrolling, crashes, marks>>
    BY <1>2 DEF PCChgUser
  <2>2. \E i \in WithPin(p) : users[i].who = <<w>>
    BY <2>1, Known
  <2>3. Begun("main", "chg", p, <<w>>)
    BY <1>0, <2>1, <2>2, ScanBegun
  <2> QED
    BY <1>0, <2>3 DEF BeginOps
<1>3. CASE \E op \in {"add", "menu"} : AddNextPin(w, op)
  <2>1. PICK op \in {"add", "menu"} : AddNextPin(w, op)
    BY <1>3
  <2>2. /\ WithPIN2(w) = {} /\ RoomForPC /\ Begin("main", op, GetNextPIN, <<w>>) /\ SeekFree
        /\ UNCHANGED <<tables, enrolling, crashes, marks>>
    BY <2>1 DEF AddNextPin
  <2>3. RoomForServer /\ GetNextPIN \in Pins /\ GetNextPIN \notin UserIDMap
    BY <2>2, RoomTyped, NextPINFree
  <2>4. Begun("main", op, GetNextPIN, <<w>>)
    BY <1>0, <2>2, <2>3, AddBegun
  <2> QED
    BY <1>0, <2>3, <2>4, PinsTyped DEF BeginOps
<1>4. CASE ServerAddUser(w)
  <2>1. CASE WithPIN2(w) # {}
    <3> DEFINE q == users[First(WithPIN2(w))].pin
    <3>1. /\ Begin("main", "chg", q, <<w>>) /\ Scan(WithPin(q))
          /\ UNCHANGED <<tables, enrolling, crashes, marks>>
      BY <1>4, <2>1 DEF ServerAddUser
    <3>2. q \in Pins /\ \E i \in WithPin(q) : users[i].who = <<w>>
      BY <2>1, Known
    <3> HIDE DEF q
    <3>3. q \in 0 .. MaxPin
      BY <3>2, PinsTyped
    <3>4. Begun("main", "chg", q, <<w>>)
      BY <1>0, <3>1, <3>2, <3>3, ScanBegun
    <3> QED
      BY <1>0, <3>3, <3>4 DEF BeginOps
  <2>2. CASE WithPIN2(w) = {}
    <3>1. /\ Begin("main", "add", GetNextPIN, <<w>>) /\ SeekFree /\ RoomForServer
          /\ UNCHANGED <<tables, enrolling, crashes, marks>>
      BY <1>4, <2>2 DEF ServerAddUser
    <3>2. GetNextPIN \in Pins /\ GetNextPIN \notin UserIDMap
      BY <3>1, NextPINFree
    <3>3. Begun("main", "add", GetNextPIN, <<w>>)
      BY <1>0, <2>2, <3>1, <3>2, AddBegun
    <3> QED
      BY <1>0, <3>2, <3>3, PinsTyped DEF BeginOps
  <2> QED
    BY <2>1, <2>2
<1>5. CASE ImportUser(w)
  <2>1. Begun("main", "import", 0, <<w>>)
    BY <1>5 DEF ImportUser, Begun, Adding, TypeOK
  <2> QED
    BY <1>0, <2>1, PinsTyped DEF BeginOps
<1> QED
  BY <1>1, <1>2, <1>3, <1>4, <1>5

LEMMA BegunTyped ==
  ASSUME TypeOK, NEW t \in Threads, NEW op \in BeginOps, NEW pin \in 0 .. MaxPin,
         NEW who \in Names, Begun(t, op, pin, who)
  PROVE  TypeOK'
<1>1. /\ doing' = [doing EXCEPT ![t] = [op |-> op, pin |-> pin, who |-> who]]
      /\ ops' = ops + 1 /\ overlap' = (overlap \/ Meets(t))
      /\ UNCHANGED <<tables, enrolling, crashes, marks>> /\ pos' \in Nat /\ gUser' \in User
  BY DEF Begun, Begin
<1>2. [op |-> op, pin |-> pin, who |-> who] \in Operation
  BY DEF Operation, Ops, BeginOps
<1>3. op \in Adding \cup {"template"} => pin \in Pins
  BY DEF Begun
<1>4. overlap' \in BOOLEAN /\ ops' \in Nat
  BY <1>1 DEF TypeOK, Meets
<1>5. /\ doing' \in [Threads -> Operation]
      /\ \A u \in Threads :
           doing'[u].op \in Adding \cup {"template"} => doing'[u].pin \in Pins
  BY <1>1, <1>2, <1>3 DEF TypeOK, Operation
<1> QED
  BY <1>1, <1>4, <1>5 DEF TypeOK, tables, marks, Operation

LEMMA TypeInit == Init => TypeOK
<1> SUFFICES ASSUME Init PROVE TypeOK
  OBVIOUS
<1>1. users = <<>> /\ cards = <<>> /\ UserIDMap = {}
  BY DEF Init, Start
<1>2. users \in Seq(User) /\ cards \in Seq(Card)
  BY <1>1, EmptySeq, Zenon
<1>3. gUser \in User
  BY PinAssumption DEF Init, Start, User, Names
<1> QED
  BY <1>1, <1>2, <1>3, IdleTyped DEF Init, Start, TypeOK, Operation

LEMMA MapOfFileTyped == TypeOK => MapOfFile \subseteq Pins
  BY UserTyped, PinsTyped DEF MapOfFile

\* The record of the file that an import comes to, and its PIN.
LEMMA Named ==
  ASSUME TypeOK, NEW d \in Operation, NextNamed(d.who) # {}
  PROVE  LET i == First(NextNamed(d.who))
             p == IF users[i].pin # 0 THEN users[i].pin ELSE GetNextPIN
         IN  /\ i \in 1 .. Len(users) /\ users[i].who = d.who /\ p \in 0 .. MaxPin
             /\ [pin |-> p, who |-> d.who] \in User /\ (p # 0 => p \in Pins)
<1> DEFINE i == First(NextNamed(d.who))
<1>1. NextNamed(d.who) \in SUBSET Nat /\ pos \in Nat
  BY DEF NextNamed, TypeOK
<1>2. i \in NextNamed(d.who)
  BY <1>1, FirstIn
<1> HIDE DEF i
<1>3. i \in 1 .. Len(users) /\ users[i].who = d.who
  BY <1>1, <1>2 DEF NextNamed
<1> DEFINE p == IF users[i].pin # 0 THEN users[i].pin ELSE GetNextPIN
<1>4. p \in 0 .. MaxPin
  BY <1>3, UserTyped, NextPINTyped
<1> HIDE DEF p
<1>5. [pin |-> p, who |-> d.who] \in User /\ (p # 0 => p \in Pins)
  BY <1>4, PinsTyped DEF User, Operation
<1> QED
  BY <1>3, <1>4, <1>5 DEF i, p

LEMMA ImportOverTyped ==
  ASSUME TypeOK, NEW t \in Threads, ImportOver(t)
  PROVE  TypeOK'
<1> DEFINE d == doing[t]
           i == First(NextNamed(d.who))
           p == IF users[i].pin # 0 THEN users[i].pin ELSE GetNextPIN
<1>1. /\ NextNamed(d.who) # {} /\ users' = [users EXCEPT ![i] = [pin |-> p, who |-> d.who]]
      /\ UserIDMap' = UserIDMap \cup ({p} \ {0}) /\ pos' = i
      /\ gUser' = [pin |-> p, who |-> d.who]
      /\ unchecked' = IF users[i].pin = 0 THEN unchecked \cup ({p} \ {0}) ELSE unchecked
      /\ revived' \in BOOLEAN
      /\ UNCHANGED <<templates, cards, doing, enrolling, ops, overlap, crashes,
                     torn, garbled, stale>>
  BY DEF ImportOver, TypeOK
<1>2. d \in Operation
  BY DEF TypeOK, Operation
<1>3. i \in 1 .. Len(users) /\ [pin |-> p, who |-> d.who] \in User /\ (p # 0 => p \in Pins)
  BY <1>1, <1>2, Named
<1> HIDE DEF p, i, d
<1>4. users' \in Seq(User)
  BY <1>1, <1>3, ExceptSeq DEF TypeOK
<1>5. UserIDMap' \subseteq Pins /\ unchecked' \subseteq Pins /\ pos' \in Nat
  BY <1>1, <1>3 DEF TypeOK
<1> QED
  BY <1>1, <1>3, <1>4, <1>5 DEF TypeOK

\* Where somebody new is put: at the end, or at a free place.
LEMMA ImportSeeks ==
  ASSUME TypeOK, IF UserIDMap = {} THEN pos' = Len(users) /\ UNCHANGED gUser ELSE SeekFree
  PROVE  /\ pos' \in Nat /\ gUser' \in User
         /\ pos' <= Len(users) /\ (pos' + 1 <= Len(users) => users[pos' + 1].pin = 0)
<1>1. CASE UserIDMap = {}
  BY <1>1 DEF TypeOK
<1>2. CASE UserIDMap # {}
  BY <1>2, SeekTyped
<1> QED
  BY <1>1, <1>2

LEMMA ImportNewTyped ==
  ASSUME TypeOK, NEW t \in Threads, ImportNew(t)
  PROVE  TypeOK'
<1>1. /\ doing[t].op = "import"
      /\ \/ /\ RoomForPC
            /\ IF UserIDMap = {} THEN pos' = Len(users) /\ UNCHANGED gUser ELSE SeekFree
            /\ doing' = [doing EXCEPT ![t].op = "add", ![t].pin = GetNextPIN]
         \/ Then(t, "idle") /\ UNCHANGED <<pos, gUser>>
      /\ UNCHANGED <<tables, enrolling, ops, overlap, crashes, marks>>
  BY DEF ImportNew
<1>2. CASE /\ RoomForPC
           /\ IF UserIDMap = {} THEN pos' = Len(users) /\ UNCHANGED gUser ELSE SeekFree
           /\ doing' = [doing EXCEPT ![t].op = "add", ![t].pin = GetNextPIN]
  <2>1. GetNextPIN \in Pins /\ GetNextPIN \in 0 .. MaxPin
    BY <1>2, RoomTyped, NextPINFree, PinsTyped
  <2>2. pos' \in Nat /\ gUser' \in User
    BY <1>2, ImportSeeks
  <2>3. /\ doing' \in [Threads -> Operation]
        /\ \A u \in Threads :
             doing'[u].op \in Adding \cup {"template"} => doing'[u].pin \in Pins
    BY <1>2, <2>1 DEF TypeOK, Operation, Ops
  <2> QED
    BY <1>1, <2>2, <2>3 DEF TypeOK, tables, marks, Operation
<1>3. CASE Then(t, "idle") /\ UNCHANGED <<pos, gUser>>
  <2>1. "idle" \in Rest
    BY DEF Rest
  <2>2. /\ doing' \in [Threads -> Operation]
        /\ \A u \in Threads :
             doing'[u].op \in Adding \cup {"template"} => doing'[u].pin \in Pins
    BY <1>3, <2>1, ThenTyped
  <2> QED
    BY <1>1, <1>3, <2>2 DEF TypeOK, tables, marks, Operation
<1> QED
  BY <1>1, <1>2, <1>3

\* The steps inside an operation.
LEMMA InsideTyped ==
  ASSUME TypeOK, NEW t \in Threads,
         \/ AddWrite(t) \/ ChgWrite(t) \/ Erase(t)
         \/ DelCard(t) \/ Unmap(t) \/ Untemplate(t)
         \/ WriteFails(t) \/ DelFails(t) \/ AddTemplate(t)
         \/ Rebuild(t) \/ ImportOver(t) \/ ImportNew(t)
  PROVE  TypeOK'
<1>0. {"idle", "card", "unmap", "untemplate", "rebuild", "template"} = Rest
  BY DEF Rest
<1>1. doing[t] \in Operation /\ pos \in Nat /\ gUser \in User
  BY DEF TypeOK, Operation
<1>2. [pin |-> doing[t].pin, who |-> doing[t].who] \in User
      /\ [gUser EXCEPT !.pin = 0] \in User
  BY <1>1, PinsTyped DEF User, Operation
<1>3. CASE AddWrite(t)
  <2>1. users' \in Seq(User)
    <3> DEFINE u == [pin |-> doing[t].pin, who |-> doing[t].who]
               i == pos + 1
    <3>1. i \in Nat /\ i > 0 /\ u \in User /\ users' = PutAt(i, u)
      BY <1>1, <1>2, <1>3 DEF AddWrite
    <3> HIDE DEF u, i
    <3> QED
      BY <3>1, PutTyped
  <2>2. doing[t].op \in Adding /\ doing[t].pin \in Pins
    BY <1>3 DEF AddWrite, TypeOK
  <2>3. Then(t, AfterAdd(doing[t].op))
    BY <1>3 DEF AddWrite
  <2>4. AfterAdd(doing[t].op) \in Rest
    BY DEF AfterAdd, Rest
  <2>5. UserIDMap' \subseteq Pins /\ unchecked' \subseteq Pins /\ pos' \in Nat
    BY <1>1, <1>3, <2>2 DEF AddWrite, TypeOK
  <2>6. /\ doing' \in [Threads -> Operation]
        /\ \A u \in Threads :
             doing'[u].op \in Adding \cup {"template"} => doing'[u].pin \in Pins
    BY <2>2, <2>3, <2>4, ThenTyped
  <2> QED
    BY <1>1, <1>3, <2>1, <2>5, <2>6 DEF AddWrite, TypeOK, Operation
<1>4. CASE ChgWrite(t)
  <2>1. users' \in Seq(User) /\ pos' \in Nat
    BY <1>1, <1>2, <1>4, BackTyped, PutTyped DEF ChgWrite
  <2>2. Then(t, "idle")
    BY <1>4 DEF ChgWrite
  <2> QED
    BY <1>0, <1>1, <1>4, <2>1, <2>2, ThenTyped DEF ChgWrite, TypeOK, marks, Operation
<1>5. CASE Erase(t)
  <2>1. users' \in Seq(User) /\ pos' \in Nat
    BY <1>1, <1>2, <1>5, BackTyped, PutTyped DEF Erase
  <2>2. Then(t, "card")
    BY <1>5 DEF Erase
  <2> QED
    BY <1>0, <1>1, <1>2, <1>5, <2>1, <2>2, ThenTyped DEF Erase, TypeOK, marks, Operation
<1>6. CASE DelCard(t)
  <2>1. [pin |-> 0, serial |-> "none"] \in Card
    BY PinsTyped DEF Card
  <2>2. cards' \in Seq(Card)
    <3> DEFINE c == [pin |-> 0, serial |-> "none"]
               p == doing[t].pin
    <3>1. c \in Card /\ p \in 0 .. MaxPin /\ cards \in Seq(Card)
      BY <1>1, <2>1 DEF TypeOK, Operation
    <3>2. cards' = IF CardsOf(p) = {} THEN cards ELSE [cards EXCEPT ![First(CardsOf(p))] = c]
      BY <1>6 DEF DelCard
    <3> HIDE DEF c, p
    <3> QED
      BY <3>1, <3>2, CardTyped
  <2>3. Then(t, "unmap")
    BY <1>6 DEF DelCard
  <2> QED
    BY <1>0, <1>6, <2>2, <2>3, ThenTyped DEF DelCard, TypeOK, marks, Operation
<1>7. CASE Unmap(t)
  <2>1. Then(t, "untemplate") /\ UserIDMap' \subseteq Pins
    BY <1>7 DEF Unmap, FreedMap, TypeOK
  <2> QED
    BY <1>0, <1>7, <2>1, ThenTyped DEF Unmap, TypeOK, marks, Operation
<1>8. CASE Untemplate(t)
  <2>1. Then(t, "idle") /\ templates' \subseteq Template
    BY <1>8 DEF Untemplate, TypeOK
  <2> QED
    BY <1>0, <1>8, <2>1, ThenTyped DEF Untemplate, TypeOK, marks, Operation
<1>9. CASE WriteFails(t)
  <2>1. CASE /\ doing[t].op \in Adding
             /\ Then(t, IF doing[t].op = "enrol" THEN "rebuild" ELSE "idle")
             /\ torn' = (torn \/ doing[t].op = "enrol")
             /\ UNCHANGED <<pos, gUser>>
    <3>1. /\ doing' \in [Threads -> Operation]
          /\ \A u \in Threads :
               doing'[u].op \in Adding \cup {"template"} => doing'[u].pin \in Pins
      BY <1>0, <2>1, ThenTyped
    <3> QED
      BY <1>9, <2>1, <3>1 DEF WriteFails, TypeOK, tables, Operation
  <2>2. CASE /\ doing[t].op \in {"chg", "erase"}
             /\ pos' = Back(pos) - 1
             /\ gUser' = IF doing[t].op = "erase" THEN [gUser EXCEPT !.pin = 0] ELSE gUser
             /\ Then(t, "idle")
             /\ UNCHANGED torn
    <3>1. /\ doing' \in [Threads -> Operation]
          /\ \A u \in Threads :
               doing'[u].op \in Adding \cup {"template"} => doing'[u].pin \in Pins
      BY <1>0, <2>2, ThenTyped
    <3>2. pos' \in Nat /\ gUser' \in User
      BY <1>1, <1>2, <2>2, BackTyped
    <3> QED
      BY <1>9, <2>2, <3>1, <3>2 DEF WriteFails, TypeOK, tables, Operation
  <2> QED
    BY <1>9, <2>1, <2>2 DEF WriteFails
<1>10. CASE DelFails(t)
  <2>1. Then(t, IF doing[t].op = "card" THEN "unmap" ELSE "idle")
    BY <1>10 DEF DelFails
  <2>2. /\ doing' \in [Threads -> Operation]
        /\ \A u \in Threads :
             doing'[u].op \in Adding \cup {"template"} => doing'[u].pin \in Pins
    BY <1>0, <2>1, ThenTyped
  <2> QED
    BY <1>10, <2>2 DEF DelFails, TypeOK, tables, Operation
<1>11. CASE AddTemplate(t)
  <2>1. doing[t].op = "template" /\ doing[t].pin \in Pins /\ doing[t].who \in Names
    BY <1>1, <1>11 DEF AddTemplate, TypeOK, Operation
  <2>2. templates' \subseteq Template
    BY <1>11, <2>1 DEF AddTemplate, TypeOK, Template
  <2>3. Then(t, "idle")
    BY <1>11 DEF AddTemplate
  <2> QED
    BY <1>0, <1>11, <2>2, <2>3, ThenTyped DEF AddTemplate, TypeOK, marks, Operation
<1>12. CASE Rebuild(t)
  <2>1. UserIDMap' \subseteq Pins /\ pos' \in Nat
    BY <1>12, MapOfFileTyped DEF Rebuild, TypeOK
  <2>2. Then(t, "idle")
    BY <1>12 DEF Rebuild
  <2> QED
    BY <1>0, <1>12, <2>1, <2>2, ThenTyped DEF Rebuild, TypeOK, marks, Operation
<1>13. CASE ImportOver(t)
  BY <1>13, ImportOverTyped
<1>14. CASE ImportNew(t)
  BY <1>14, ImportNewTyped
<1> QED
  BY <1>3, <1>4, <1>5, <1>6, <1>7, <1>8, <1>9, <1>10, <1>11, <1>12, <1>13, <1>14

LEMMA LookedUp ==
  ASSUME TypeOK, NEW w \in People, Scan(WithPIN2(w))
  PROVE  pos' \in Nat /\ gUser' \in User
<1>1. WithPIN2(w) \in SUBSET (1 .. Len(users))
  BY DEF WithPIN2
<1> QED
  BY <1>1, ScanTyped

LEMMA StartEnrollTyped ==
  ASSUME TypeOK, NEW w \in People, StartEnroll(w)
  PROVE  TypeOK'
<1>1. pos' \in Nat /\ gUser' \in User
  BY LookedUp DEF StartEnroll
<1>2. enrolling' \in [pin : 0 .. MaxPin, who : Names, new : BOOLEAN]
  <2>1. CASE /\ WithPIN2(w) # {}
             /\ enrolling' = [pin |-> users[First(WithPIN2(w))].pin, who |-> <<w>>, new |-> FALSE]
    <3> DEFINE p == users[First(WithPIN2(w))].pin
    <3>1. p \in Pins
      BY <2>1, Known
    <3> HIDE DEF p
    <3>2. enrolling' = [pin |-> p, who |-> <<w>>, new |-> FALSE]
      BY <2>1 DEF p
    <3> QED
      BY <3>1, <3>2, PinsTyped, NameTyped
  <2>2. CASE enrolling' = [pin |-> GetNextPIN, who |-> <<w>>, new |-> TRUE]
    BY <2>2, NextPINTyped, NameTyped
  <2> QED
    BY <2>1, <2>2 DEF StartEnroll
<1> QED
  BY <1>1, <1>2 DEF StartEnroll, Meets, TypeOK, tables, marks

LEMMA EnrolTyped ==
  ASSUME TypeOK, EnrolFinger \/ EnrolFails
  PROVE  TypeOK'
<1>1. CASE EnrolFinger
  <2> DEFINE new == [op  |-> IF enrolling.new THEN "enrol" ELSE "rebuild",
                     pin |-> enrolling.pin, who |-> enrolling.who]
  <2>1. enrolling.pin \in Pins /\ enrolling.pin \in 0 .. MaxPin /\ enrolling.who \in Names
    BY <1>1, PinsTyped DEF EnrolFinger, TypeOK
  <2>2. new \in Operation /\ new.pin \in Pins
    BY <2>1 DEF Operation, Ops
  <2>3. doing' = [doing EXCEPT !["main"] = new]
    BY <1>1 DEF EnrolFinger
  <2> HIDE DEF new
  <2>4. /\ doing' \in [Threads -> Operation]
        /\ \A u \in Threads :
             doing'[u].op \in Adding \cup {"template"} => doing'[u].pin \in Pins
    BY <2>2, <2>3 DEF TypeOK, Operation
  <2>5. pos' \in Nat /\ gUser' \in User
    BY <1>1, SeekTyped DEF EnrolFinger, TypeOK
  <2>6. templates' \subseteq Template
    BY <1>1, <2>1 DEF EnrolFinger, TypeOK, Template
  <2>7. overlap' \in BOOLEAN /\ stale' \in BOOLEAN
    BY <1>1 DEF EnrolFinger, TypeOK
  <2> QED
    BY <1>1, <2>4, <2>5, <2>6, <2>7, IdleTyped DEF EnrolFinger, TypeOK, Operation
<1>2. CASE EnrolFails
  BY <1>2, IdleTyped DEF EnrolFails, TypeOK, tables, marks
<1> QED
  BY <1>1, <1>2

LEMMA CardUpdateTyped ==
  ASSUME TypeOK, NEW w \in People, NEW serial \in Serials, CardUpdate(w, serial)
  PROVE  TypeOK'
<1>1. WithPIN2(w) # {} /\ Scan(WithPIN2(w))
  BY DEF CardUpdate
<1>2. pos' \in Nat /\ gUser' \in User
  BY <1>1, LookedUp
<1> DEFINE p == users[First(WithPIN2(w))].pin
           own == CardsOf(p)
           new == [pin |-> p, serial |-> serial]
<1>3. p \in Pins /\ p \in 0 .. MaxPin /\ 0 \in 0 .. MaxPin
  <2>1. p \in Pins
    BY <1>1, Known
  <2> HIDE DEF p
  <2> QED
    BY <2>1, PinsTyped
<1>4. \/ /\ own = {}
         /\ cards' = IF CardsOf(0) = {} THEN Append(cards, new)
                     ELSE [cards EXCEPT ![First(CardsOf(0))] = new]
         /\ UNCHANGED garbled
      \/ /\ own # {}
         /\ \E any \in 0 .. MaxPin :
              cards' = [cards EXCEPT ![First(own)] = [pin |-> any, serial |-> "garbage"]]
         /\ garbled' = TRUE
  BY DEF CardUpdate
<1> HIDE DEF p
<1>5. new \in Card /\ \A any \in 0 .. MaxPin : [pin |-> any, serial |-> "garbage"] \in Card
  BY <1>3 DEF Card
<1> HIDE DEF new
<1>6. cards' \in Seq(Card) /\ garbled' \in BOOLEAN
  <2>1. CASE /\ own = {}
             /\ cards' = IF CardsOf(0) = {} THEN Append(cards, new)
                         ELSE [cards EXCEPT ![First(CardsOf(0))] = new]
             /\ UNCHANGED garbled
    BY <1>3, <1>5, <2>1, CardTyped DEF TypeOK
  <2>2. CASE /\ own # {}
             /\ \E any \in 0 .. MaxPin :
                  cards' = [cards EXCEPT ![First(own)] = [pin |-> any, serial |-> "garbage"]]
             /\ garbled' = TRUE
    <3>1. PICK any \in 0 .. MaxPin :
            cards' = [cards EXCEPT ![First(own)] = [pin |-> any, serial |-> "garbage"]]
      BY <2>2
    <3> DEFINE c == [pin |-> any, serial |-> "garbage"]
    <3>2. c \in Card /\ cards' = [cards EXCEPT ![First(CardsOf(p))] = c] /\ CardsOf(p) # {}
      BY <1>5, <2>2, <3>1
    <3> HIDE DEF c
    <3> QED
      BY <1>3, <2>2, <3>2, CardTyped
  <2> QED
    BY <1>4, <2>1, <2>2
<1> QED
  BY <1>2, <1>6 DEF CardUpdate, Meets, TypeOK

LEMMA CrashTyped ==
  ASSUME TypeOK, Crash
  PROVE  TypeOK'
<1>1. UserIDMap' \subseteq Pins
  BY MapOfFileTyped DEF Crash
<1>2. gUser' \in User
  BY PinAssumption DEF Crash, User, Names
<1>3. pos' \in Nat /\ crashes' \in Nat /\ torn' \in BOOLEAN
  BY DEF Crash, TypeOK
<1> QED
  BY <1>1, <1>2, <1>3, IdleTyped DEF Crash, TypeOK, Operation

\* Next, its steps grouped as the lemmas are.
LEMMA Steps ==
  ASSUME TypeOK, Next
  PROVE  \/ \E u \in Threads, op \in BeginOps, pin \in 0 .. MaxPin, who \in Names :
              Begun(u, op, pin, who)
         \/ \E w \in People : StartEnroll(w)
         \/ \E w \in People, serial \in Serials : CardUpdate(w, serial)
         \/ EnrolFinger \/ EnrolFails
         \/ \E t \in Threads :
              \/ AddWrite(t) \/ ChgWrite(t) \/ Erase(t) \/ DelCard(t) \/ Unmap(t)
              \/ Untemplate(t) \/ WriteFails(t) \/ DelFails(t) \/ AddTemplate(t)
              \/ Rebuild(t) \/ ImportOver(t) \/ ImportNew(t)
         \/ Crash
<1>1. 1 \in Pins
  BY PinAssumption DEF Pins
<1> QED
  BY <1>1, PINBegins, NameBegins DEF Next

LEMMA TypeStep == TypeOK /\ [Next]_vars => TypeOK'
<1> SUFFICES ASSUME TypeOK, [Next]_vars PROVE TypeOK'
  OBVIOUS
<1>1. CASE Next
  BY <1>1, Steps, BegunTyped, StartEnrollTyped, EnrolTyped, CardUpdateTyped, InsideTyped, CrashTyped
<1>2. CASE UNCHANGED vars
  BY <1>2 DEF vars, tables, marks, TypeOK
<1> QED
  BY <1>1, <1>2

\* The file, the map, the templates and the cards keep their types, whatever
\* the interleaving of PC, menus, U-disk, server and power failures (flashdb.c).
THEOREM TypeCorrect == Spec => []TypeOK
<1> QED
  BY TypeInit, TypeStep, PTL DEF Spec

-----------------------------------------------------------------------------
(* The invariant, one operation after the other.                            *)

\* What is left to show when the step leaves both threads apart.
Holds ==
  /\ Core
  /\ ~revived => NameOnce
  /\ ~torn => FingerInv
  /\ ~torn /\ ~garbled => CardInv

\* The PINs of deletions that the map still has, when one thread is busy.
LEMMA InHand ==
  ASSUME NEW d, NEW t \in Threads, \A u \in Threads : u # t => d[u].op = "idle"
  PROVE  {d[u].pin : u \in {v \in Threads : d[v].op \in {"card", "unmap"}}}
           = IF d[t].op \in {"card", "unmap"} THEN {d[t].pin} ELSE {}
  OBVIOUS

LEMMA Smaller ==
  ASSUME TypeOK, NEW S, S \subseteq UserIDMap
  PROVE  /\ Cardinality(S) \in Nat /\ Cardinality(S) <= Cardinality(UserIDMap)
         /\ \A T : T \subseteq S => Cardinality(T) \in Nat /\ Cardinality(T) <= Cardinality(S)
<1>1. IsFiniteSet(UserIDMap)
  BY MapFinite
<1>2. IsFiniteSet(S)
  BY <1>1, FS_Subset
<1> QED
  BY <1>1, <1>2, FS_Subset, FS_CardinalityType

\* A step inside an operation, the other thread being idle.
LEMMA Inside ==
  ASSUME TypeOK, Alone, NEW t \in Threads, doing[t].op # "idle", NEW op \in Rest, Then(t, op)
  PROVE  /\ doing'[t].op = op
         /\ op # "idle" => doing'[t].pin = doing[t].pin /\ doing'[t].who = doing[t].who
         /\ \A u \in Threads : u # t => doing[u].op = "idle"
         /\ \A u \in Threads : u # t => doing'[u].op = "idle"
         /\ Alone'
<1>1. doing \in [Threads -> Operation]
  BY DEF TypeOK, Operation
<1>2. doing' = [doing EXCEPT ![t] = IF op = "idle" THEN Idle ELSE [@ EXCEPT !.op = op]]
  BY DEF Then
<1>3. \A u \in Threads : u # t => doing[u] = Idle
  BY DEF Alone, Idle
<1>4. \A u \in Threads : u # t => doing'[u] = Idle
  BY <1>1, <1>2, <1>3
<1>5. /\ doing'[t].op = op
      /\ op # "idle" => doing'[t].pin = doing[t].pin /\ doing'[t].who = doing[t].who
  BY <1>1, <1>2 DEF Idle, Operation
<1> QED
  BY <1>3, <1>4, <1>5 DEF Alone, Idle

\* Before an operation that leaves the threads apart both are idle.
LEMMA BeginAlone ==
  ASSUME TypeOK, NEW t \in Threads, doing[t] = Idle, overlap' = (overlap \/ Meets(t)), ~overlap'
  PROVE  ~overlap /\ Alone /\ \A u \in Threads : doing[u] = Idle /\ doing[u].op = "idle"
<1>1. ~overlap /\ \A u \in Threads : doing[u] = Idle
  BY DEF Meets
<1> QED
  BY <1>1 DEF Alone, Idle

\* With both idle the map is that of the file, and fingers have their persons.
LEMMA AllIdle ==
  ASSUME UserInv, Apart, \A u \in Threads : doing[u].op = "idle"
  PROVE  /\ PinOnce /\ UserIDMap = OnFile /\ Cardinality(UserIDMap \ unchecked) <= MaxUser + 1
         /\ ~revived => NameOnce
         /\ ~torn => \A f \in templates : Person(f.pin, f.who)
         /\ ~torn /\ ~garbled =>
              \A i, j \in 1 .. Len(cards) :
                cards[i].pin # 0 =>
                  cards[i].pin \in OnFile /\ (cards[i].pin = cards[j].pin => i = j)
<1>1. Core
  BY DEF UserInv
<1> QED
  BY <1>1 DEF UserInv, Core, MapInv, CountInv, FingerInv, CardInv, Deleting

LEMMA BegunKeeps ==
  ASSUME UserInv, NEW t \in Threads, NEW op \in BeginOps, NEW pin \in 0 .. MaxPin,
         NEW who \in Names, Begun(t, op, pin, who)
  PROVE  UserInv'
<1>0. TypeOK /\ TypeOK' /\ Len(users) \in Nat /\ doing \in [Threads -> Operation]
  BY BegunTyped DEF UserInv, TypeOK, Operation
<1>1. /\ doing[t] = Idle /\ overlap' = (overlap \/ Meets(t))
      /\ doing' = [doing EXCEPT ![t] = [op |-> op, pin |-> pin, who |-> who]]
      /\ UNCHANGED <<users, UserIDMap, templates, cards, torn, garbled, stale, revived, unchecked>>
      /\ Taken' = Taken /\ OnFile' = OnFile
  BY DEF Begun, Begin, tables, marks, Taken, OnFile
<1> SUFFICES ASSUME Apart' PROVE Holds'
  BY <1>0 DEF UserInv, Holds
<1>2. Apart /\ Alone /\ \A u \in Threads : doing[u] = Idle /\ doing[u].op = "idle"
  BY <1>0, <1>1, BeginAlone DEF Apart
<1>3. /\ doing'[t].op = op /\ doing'[t].pin = pin /\ doing'[t].who = who /\ Alone'
      /\ \A v \in Threads : v # t => doing'[v].op = "idle"
  BY <1>0, <1>1, <1>2 DEF Alone, Idle
<1>4. /\ PinOnce /\ UserIDMap = OnFile /\ Cardinality(UserIDMap \ unchecked) <= MaxUser + 1
      /\ ~revived => NameOnce
      /\ ~torn => \A f \in templates : Person(f.pin, f.who)
      /\ ~torn /\ ~garbled =>
           \A i, j \in 1 .. Len(cards) :
             cards[i].pin # 0 =>
               cards[i].pin \in OnFile /\ (cards[i].pin = cards[j].pin => i = j)
  BY <1>2, AllIdle
<1>5. MapInv'
  <2>1. op \notin {"card", "unmap"}
    BY DEF BeginOps
  <2> QED
    BY <1>1, <1>3, <1>4, <2>1, InHand DEF MapInv
<1>6. CountInv'
  BY <1>1, <1>3, <1>4 DEF CountInv, Begun, RoomForServer
<1>7. \A v \in Threads : Ready(v)'
  <2>1. ASSUME NEW v \in Threads, v # t PROVE Ready(v)'
    BY <1>3, <2>1 DEF Ready, Deleting, Adding
  <2>2. CASE op \in Adding
    <3>1. /\ pos' <= Len(users) /\ (pos' + 1 <= Len(users) => users[pos' + 1].pin = 0)
          /\ WithPin(pin) = {} \/ pin \notin UserIDMap
          /\ who = Nobody \/ \A i \in Taken : users[i].who # who
      BY <2>2 DEF Begun
    <3>2. pin \notin OnFile
      BY <1>4, <3>1 DEF OnFile, Taken, WithPin
    <3>3. Ready(t)'
      BY <1>1, <1>3, <2>2, <3>1, <3>2 DEF Ready, Deleting, Adding
    <3> QED
      BY <2>1, <3>3
  <2>3. CASE op \in {"chg", "erase", "template"}
    <3>1. /\ pos' \in WithPin(pin) /\ gUser' = users[pos']
          /\ op # "erase" => pin \in Pins
      BY <2>3 DEF Begun
    <3>2. PICK i \in WithPin(pin) : users[i].who = who
      BY <2>3 DEF Begun
    <3>3. /\ pos' \in 1 .. Len(users) /\ users[pos'].pin = pin
          /\ i \in 1 .. Len(users) /\ users[i].pin = pin
      BY <3>1, <3>2 DEF WithPin
    <3>4. ASSUME op # "erase" PROVE pos' = i /\ i \in Taken
      <4>1. pin # 0
        BY <3>1, <3>4 DEF Pins
      <4> QED
        BY <1>4, <3>3, <4>1 DEF PinOnce, Taken
    <3>5. ASSUME op = "chg" PROVE users[pos'] = [pin |-> pin, who |-> who]
      <4>1. users[pos'] \in User /\ users[pos'].who = who
        BY <1>0, <3>2, <3>3, <3>4, <3>5, UserTyped
      <4> QED
        BY <3>3, <4>1 DEF User
    <3>6. op = "template" => Person(pin, who)'
      BY <1>1, <3>2, <3>3, <3>4 DEF Person
    <3>7. op = "chg" => pos' \in 1 .. Len(users') /\ users'[pos'] = [pin |-> pin, who |-> who]
      BY <1>1, <3>3, <3>5
    <3>8. op = "erase" => pos' \in 1 .. Len(users') /\ users'[pos'].pin = pin /\ gUser' = users'[pos']
      BY <1>1, <3>1, <3>3
    <3>9. Ready(t)'
      BY <1>3, <2>3, <3>6, <3>7, <3>8 DEF Ready, Deleting, Adding
    <3> QED
      BY <2>1, <3>9
  <2>4. CASE op = "import"
    BY <1>3, <2>1, <2>4 DEF Ready, Deleting, Adding
  <2> QED
    BY <2>2, <2>3, <2>4 DEF BeginOps, Adding
<1>8. PinOnce' /\ (~revived' => NameOnce')
  BY <1>1, <1>4 DEF PinOnce, NameOnce
<1>9. ~torn' => FingerInv'
  BY <1>1, <1>4 DEF FingerInv, Person
<1>10. ~torn' /\ ~garbled' => CardInv'
  BY <1>1, <1>4 DEF CardInv
<1> QED
  BY <1>3, <1>5, <1>6, <1>7, <1>8, <1>9, <1>10 DEF Holds, Core

LEMMA AddWriteKeeps ==
  ASSUME UserInv, NEW t \in Threads, AddWrite(t)
  PROVE  UserInv'
<1>0. TypeOK /\ TypeOK' /\ Len(users) \in Nat /\ pos \in Nat
  BY InsideTyped DEF UserInv, TypeOK
<1> DEFINE u == [pin |-> doing[t].pin, who |-> doing[t].who]
           p == doing[t].pin
           i == pos + 1
           op == AfterAdd(doing[t].op)
<1>1. /\ doing[t].op \in Adding /\ users' = PutAt(i, u) /\ Then(t, op)
      /\ UserIDMap' = UserIDMap \cup {p}
      /\ unchecked' = IF doing[t].op \in {"append", "enrol"}
                      THEN unchecked \cup {p} ELSE unchecked \ {p}
      /\ UNCHANGED <<templates, cards, overlap, torn, garbled, stale, revived>>
  BY DEF AddWrite
<1>11. op \in Rest /\ op \in {"idle", "template", "rebuild"}
  BY DEF AfterAdd, Rest
<1> HIDE DEF op
<1> SUFFICES ASSUME Apart PROVE Holds'
  BY <1>0, <1>1 DEF UserInv, Holds, Apart
<1>3. PinOnce /\ MapInv /\ CountInv /\ Ready(t) /\ Alone
  BY DEF UserInv, Core
<1>2. /\ doing'[t].op = op /\ Alone'
      /\ op # "idle" => doing'[t].pin = doing[t].pin /\ doing'[t].who = doing[t].who
      /\ \A v \in Threads : v # t => doing[v].op = "idle"
      /\ \A v \in Threads : v # t => doing'[v].op = "idle"
  BY <1>0, <1>1, <1>11, <1>3, Inside DEF Adding
<1>4. /\ i \in 1 .. Len(users) + 1 /\ (i <= Len(users) => users[i].pin = 0)
      /\ p \notin OnFile /\ (u.who = Nobody \/ \A j \in Taken : users[j].who # u.who)
  BY <1>0, <1>1, <1>3 DEF Ready
<1>5. p # 0 /\ p \in Pins /\ u \in User /\ u.pin = p /\ u.who = doing[t].who
  <2>1. doing[t].pin \in Pins /\ doing[t].who \in Names
    BY <1>0, <1>1 DEF TypeOK
  <2> QED
    BY <2>1, PinsTyped, PinAssumption DEF User, Pins
<1>6. UserIDMap = OnFile
  <2>1. doing[t].op \notin {"card", "unmap"}
    BY <1>1 DEF Adding
  <2> QED
    BY <1>2, <1>3, <2>1, InHand DEF MapInv
<1> HIDE DEF u, i, p
<1>7. /\ Len(users') = (IF i <= Len(users) THEN Len(users) ELSE i) /\ users'[i] = u
      /\ \A j \in 1 .. Len(users) : j # i => users'[j] = users[j]
  BY <1>0, <1>1, <1>4, <1>5, PutFile
<1>8. i \notin Taken /\ Taken' = Taken \cup {i} /\ \A j \in Taken : users'[j] = users[j]
  <2>1. i \notin Taken
    BY <1>0, <1>4 DEF Taken
  <2>2. \A j \in Taken : users'[j] = users[j]
    BY <1>7, <2>1 DEF Taken
  <2>3. 1 .. Len(users') = 1 .. Len(users) \cup {i}
    BY <1>0, <1>4, <1>7
  <2>4. \A j \in 1 .. Len(users') :
          users'[j].pin # 0 <=> j = i \/ (j \in 1 .. Len(users) /\ users[j].pin # 0)
    BY <1>4, <1>5, <1>7, <2>3
  <2> QED
    BY <2>1, <2>2, <2>3, <2>4 DEF Taken
<1>9. OnFile' = OnFile \cup {p}
  BY <1>5, <1>7, <1>8 DEF OnFile
<1>10. PinOnce' /\ (~revived => NameOnce')
  <2>1. PinOnce'
    BY <1>3, <1>4, <1>5, <1>7, <1>8 DEF PinOnce, OnFile
  <2>2. ASSUME ~revived PROVE NameOnce'
    <3>1. NameOnce
      BY <2>2 DEF UserInv
    <3> QED
      BY <1>4, <1>7, <1>8, <3>1 DEF NameOnce
  <2> QED
    BY <2>1, <2>2
<1>12. MapInv'
  <2>1. doing'[t].op \notin {"card", "unmap"}
    BY <1>2, <1>11
  <2> QED
    BY <1>1, <1>2, <1>6, <1>9, <2>1, InHand DEF MapInv
<1>13. CountInv'
  <2>0. Cardinality(UserIDMap) \in Nat /\ MaxUser \in Nat
    BY <1>0, MapFinite, PinsTyped
  <2>1. Cardinality(UserIDMap' \ unchecked') <= MaxUser + 1
    <3>1. CASE doing[t].op \in {"append", "enrol"}
      <4>1. UserIDMap' \ unchecked' \subseteq UserIDMap \ unchecked
        BY <1>1, <3>1
      <4>2. /\ Cardinality(UserIDMap' \ unchecked') \in Nat
            /\ Cardinality(UserIDMap' \ unchecked') <= Cardinality(UserIDMap \ unchecked)
            /\ Cardinality(UserIDMap \ unchecked) \in Nat
        BY <1>0, <4>1, Smaller
      <4> QED
        BY <1>3, <2>0, <4>2 DEF CountInv
    <3>2. CASE doing[t].op \in {"add", "menu"}
      <4>1. Cardinality(UserIDMap) <= MaxUser
        BY <1>3, <3>2 DEF CountInv
      <4>2. p \notin UserIDMap /\ Cardinality(UserIDMap') = Cardinality(UserIDMap) + 1
        BY <1>0, <1>1, <1>4, <1>6, MapFinite, FS_AddElement
      <4>3. IsFiniteSet(UserIDMap') /\ UserIDMap' \ unchecked' \subseteq UserIDMap'
        BY <1>0, <1>1, MapFinite, FS_AddElement
      <4>4. /\ Cardinality(UserIDMap' \ unchecked') \in Nat
            /\ Cardinality(UserIDMap' \ unchecked') <= Cardinality(UserIDMap')
        BY <4>3, FS_Subset, FS_CardinalityType
      <4> QED
        BY <2>0, <4>1, <4>2, <4>4
    <3> QED
      BY <1>1, <3>1, <3>2 DEF Adding
  <2> QED
    BY <1>2, <1>11, <2>1 DEF CountInv
<1>14. \A v \in Threads : Ready(v)'
  <2>1. i \in Taken' /\ users'[i].pin = doing[t].pin /\ users'[i].who = doing[t].who
    BY <1>5, <1>7, <1>8 DEF p
  <2>2. op = "template" =>
          \E j \in Taken' : users'[j].pin = doing'[t].pin /\ users'[j].who = doing'[t].who
    BY <1>2, <2>1
  <2> QED
    BY <1>2, <1>11, <2>2 DEF Ready, Deleting, Adding, Person
<1>15. ~torn => FingerInv'
  <2> SUFFICES ASSUME ~torn, NEW f \in templates PROVE Person(f.pin, f.who)'
    BY <1>1 DEF FingerInv, Person
  <2>1. CASE Person(f.pin, f.who)
    BY <1>8, <2>1 DEF Person
  <2>2. CASE f.pin = doing[t].pin /\ f.who = doing[t].who
    BY <1>5, <1>7, <1>8, <2>2 DEF Person, p
  <2>3. FingerInv
    BY DEF UserInv
  <2> QED
    BY <1>1, <1>2, <2>1, <2>2, <2>3 DEF FingerInv, Deleting, Adding
<1>16. ASSUME ~torn, ~garbled PROVE CardInv'
  <2>1. CardInv
    BY <1>16 DEF UserInv
  <2> QED
    BY <1>1, <1>2, <1>9, <2>1 DEF CardInv, Adding
<1> QED
  BY <1>1, <1>2, <1>10, <1>12, <1>13, <1>14, <1>15, <1>16 DEF Holds, Core

\* An operation other than a deletion ends, the user file as it was.
LEMMA EndsKeeps ==
  ASSUME UserInv, Apart, NEW t \in Threads, NEW op \in {"idle", "rebuild"}, Then(t, op),
         doing[t].op \notin Deleting \cup {"idle"},
         UNCHANGED <<users, UserIDMap, cards, garbled, revived, unchecked>>,
         torn' = (torn \/ doing[t].op = "enrol") \/ (torn' = torn /\ doing[t].op # "enrol"),
         \A f \in templates' : f \in templates \/ Person(f.pin, f.who)
  PROVE  Holds'
<1>0. TypeOK /\ Core /\ Alone /\ op \in Rest
  BY DEF UserInv, Core, Rest
<1>1. Taken' = Taken /\ OnFile' = OnFile
  BY DEF Taken, OnFile
<1>2. /\ doing'[t].op = op /\ Alone'
      /\ \A v \in Threads : v # t => doing[v].op = "idle"
      /\ \A v \in Threads : v # t => doing'[v].op = "idle"
  BY <1>0, Inside
<1>3. MapInv'
  <2>1. doing[t].op \notin {"card", "unmap"} /\ doing'[t].op \notin {"card", "unmap"}
    BY <1>2 DEF Deleting
  <2>2. UserIDMap = OnFile
    BY <1>0, <1>2, <2>1, InHand DEF Core, MapInv
  <2> QED
    BY <1>1, <1>2, <2>1, <2>2, InHand DEF MapInv
<1>4. PinOnce' /\ CountInv' /\ \A v \in Threads : Ready(v)'
  BY <1>0, <1>1, <1>2 DEF Core, PinOnce, CountInv, Ready, Deleting, Adding
<1>5. ~revived' => NameOnce'
  BY <1>1 DEF UserInv, NameOnce
<1>6. ~torn' => FingerInv'
  <2> SUFFICES ASSUME ~torn', NEW f \in templates' PROVE Person(f.pin, f.who)'
    BY DEF FingerInv, Person
  <2>1. FingerInv /\ doing[t].op # "enrol"
    BY DEF UserInv
  <2>2. Person(f.pin, f.who)
    BY <1>2, <2>1 DEF FingerInv, Deleting
  <2> QED
    BY <1>1, <2>2 DEF Person
<1>7. ASSUME ~torn', ~garbled' PROVE CardInv'
  <2>1. CardInv
    BY <1>7 DEF UserInv
  <2> QED
    BY <1>1, <1>2, <2>1 DEF CardInv, Deleting
<1> QED
  BY <1>2, <1>3, <1>4, <1>5, <1>6, <1>7 DEF Holds, Core

LEMMA ChgWriteKeeps ==
  ASSUME UserInv, NEW t \in Threads, ChgWrite(t)
  PROVE  UserInv'
<1>0. TypeOK /\ TypeOK' /\ Len(users) \in Nat
  BY InsideTyped DEF UserInv, TypeOK
<1> DEFINE u == [pin |-> doing[t].pin, who |-> doing[t].who]
<1>1. /\ doing[t].op = "chg" /\ users' = PutAt(Back(pos), u) /\ Then(t, "idle")
      /\ UNCHANGED <<UserIDMap, templates, cards, overlap, torn, garbled, stale, revived, unchecked>>
  BY DEF ChgWrite, marks
<1> SUFFICES ASSUME Apart PROVE Holds'
  BY <1>0, <1>1 DEF UserInv, Holds, Apart
<1>2. Core /\ Alone /\ Ready(t)
  BY DEF UserInv, Core
<1>3. pos \in 1 .. Len(users) /\ users[pos] = u
  BY <1>1, <1>2 DEF Ready
<1>4. u \in User /\ users \in Seq(User)
  BY <1>0, <1>3, UserTyped DEF TypeOK
<1> HIDE DEF u
<1>5. users' = users
  <2>1. pos \in 1 .. Len(users) + 1 /\ users' = PutAt(pos, u)
    BY <1>0, <1>1, <1>3 DEF Back
  <2>2. /\ users' \in Seq(User) /\ Len(users') = Len(users) /\ users'[pos] = u
        /\ \A j \in 1 .. Len(users) : j # pos => users'[j] = users[j]
    BY <1>0, <1>3, <1>4, <2>1, PutFile
  <2>3. \A j \in 1 .. Len(users) : users'[j] = users[j]
    BY <1>3, <2>2
  <2> QED
    BY <1>4, <2>2, <2>3, SeqEqual
<1>6. "idle" \in Rest /\ doing[t].op # "idle"
  BY <1>1 DEF Rest
<1> QED
  BY <1>0, <1>1, <1>2, <1>5, <1>6, EndsKeeps DEF Adding, Deleting

LEMMA EraseKeeps ==
  ASSUME UserInv, NEW t \in Threads, Erase(t)
  PROVE  UserInv'
<1>0. TypeOK /\ TypeOK' /\ Len(users) \in Nat
  BY InsideTyped DEF UserInv, TypeOK
<1> DEFINE u == [gUser EXCEPT !.pin = 0]
           p == doing[t].pin
<1>1. /\ doing[t].op = "erase" /\ users' = PutAt(Back(pos), u) /\ Then(t, "card")
      /\ UNCHANGED <<UserIDMap, templates, cards, overlap, torn, garbled, stale, revived, unchecked>>
  BY DEF Erase, marks
<1> SUFFICES ASSUME Apart PROVE Holds'
  BY <1>0, <1>1 DEF UserInv, Holds, Apart
<1>2. PinOnce /\ MapInv /\ CountInv /\ Ready(t) /\ Alone
  BY DEF UserInv, Core
<1>3. /\ doing'[t].op = "card" /\ doing'[t].pin = p /\ Alone'
      /\ \A v \in Threads : v # t => doing[v].op = "idle"
      /\ \A v \in Threads : v # t => doing'[v].op = "idle"
  <2>1. "card" \in Rest /\ "card" # "idle"
    BY DEF Rest
  <2> QED
    BY <1>0, <1>1, <1>2, <2>1, Inside
<1>4. pos \in 1 .. Len(users) /\ users[pos].pin = p
  BY <1>1, <1>2 DEF Ready
<1>5. u \in User /\ u.pin = 0
  <2>1. gUser \in User
    BY <1>0 DEF TypeOK
  <2> QED
    BY <2>1, PinsTyped DEF User
<1> HIDE DEF u, p
<1>6. /\ Len(users') = Len(users) /\ users'[pos] = u
      /\ \A j \in 1 .. Len(users) : j # pos => users'[j] = users[j]
  <2>1. pos \in 1 .. Len(users) + 1 /\ users' = PutAt(pos, u)
    BY <1>0, <1>1, <1>4 DEF Back
  <2> QED
    BY <1>0, <1>4, <1>5, <2>1, PutFile
<1>7. Taken' = Taken \ {pos} /\ (p # 0 => pos \in Taken) /\ \A j \in Taken' : users'[j] = users[j]
  BY <1>4, <1>5, <1>6 DEF Taken
<1>8. OnFile' = OnFile \ {p} /\ (p # 0 => p \in OnFile)
  <2>1. CASE p = 0
    <3>1. pos \notin Taken /\ p \notin OnFile
      BY <1>4, <2>1 DEF Taken, OnFile
    <3> QED
      BY <1>7, <2>1, <3>1 DEF OnFile
  <2>2. CASE p # 0
    BY <1>2, <1>4, <1>7, <2>2 DEF OnFile, PinOnce
  <2> QED
    BY <2>1, <2>2
<1>9. PinOnce' /\ (~revived => NameOnce')
  BY <1>2, <1>7 DEF UserInv, PinOnce, NameOnce
<1>10. MapInv'
  <2>1. doing[t].op \notin {"card", "unmap"}
    BY <1>1
  <2>2. UserIDMap = OnFile
    BY <1>2, <1>3, <2>1, InHand DEF MapInv
  <2>3. {doing'[v].pin : v \in {w \in Threads : doing'[w].op \in {"card", "unmap"}}} = {p}
    BY <1>3, InHand
  <2>4. OnFile = OnFile' \cup ({p} \ {0})
    <3>1. 0 \notin OnFile
      BY DEF OnFile, Taken
    <3> QED
      BY <1>8, <3>1
  <2> QED
    BY <1>1, <2>2, <2>3, <2>4 DEF MapInv
<1>11. CountInv'
  BY <1>1, <1>2, <1>3 DEF CountInv
<1>12. \A v \in Threads : Ready(v)'
  BY <1>3, <1>8 DEF Ready, Deleting, Adding
<1>13. ~torn => FingerInv'
  <2> SUFFICES ASSUME ~torn, NEW f \in templates
               PROVE  \/ \E j \in Taken' : users'[j].pin = f.pin /\ users'[j].who = f.who
                      \/ f.pin = p
    BY <1>1, <1>3 DEF FingerInv, Deleting, Person
  <2>1. PICK j \in Taken : users[j].pin = f.pin /\ users[j].who = f.who
    BY <1>1, <1>3 DEF UserInv, FingerInv, Deleting, Person
  <2> QED
    BY <1>4, <1>7, <2>1
<1>14. ~torn /\ ~garbled => CardInv'
  BY <1>1, <1>3, <1>8 DEF UserInv, CardInv
<1> QED
  BY <1>1, <1>3, <1>9, <1>10, <1>11, <1>12, <1>13, <1>14 DEF Holds, Core

\* The other three steps of a deletion leave the user file alone.
LEMMA DelCardKeeps ==
  ASSUME UserInv, NEW t \in Threads, DelCard(t)
  PROVE  UserInv'
<1>0. TypeOK /\ TypeOK'
  BY InsideTyped DEF UserInv
<1> DEFINE p == doing[t].pin
           c == [pin |-> 0, serial |-> "none"]
<1>1. /\ doing[t].op = "card" /\ Then(t, "unmap")
      /\ cards' = IF CardsOf(p) = {} THEN cards ELSE [cards EXCEPT ![First(CardsOf(p))] = c]
      /\ UNCHANGED <<users, UserIDMap, templates, overlap, torn, garbled, stale, revived, unchecked>>
      /\ Taken' = Taken /\ OnFile' = OnFile
  BY DEF DelCard, marks, Taken, OnFile
<1> SUFFICES ASSUME Apart PROVE Holds'
  BY <1>0, <1>1 DEF UserInv, Holds, Apart
<1>3. PinOnce /\ MapInv /\ CountInv /\ Ready(t) /\ Alone /\ p \in 0 .. MaxPin
  BY <1>0 DEF UserInv, Core, TypeOK
<1>2. /\ doing'[t].op = "unmap" /\ doing'[t].pin = p /\ Alone'
      /\ \A v \in Threads : v # t => doing[v].op = "idle"
      /\ \A v \in Threads : v # t => doing'[v].op = "idle"
  <2>1. "unmap" \in Rest /\ "unmap" # "idle"
    BY DEF Rest
  <2> QED
    BY <1>0, <1>1, <1>3, <2>1, Inside
<1>4. c \in Card /\ c.pin = 0
  BY PinsTyped DEF Card
<1> HIDE DEF p, c
<1>5. PinOnce' /\ CountInv' /\ (~revived => NameOnce') /\ \A v \in Threads : Ready(v)'
  <2>1. p \notin OnFile
    BY <1>1, <1>3 DEF Ready, Deleting, p
  <2> QED
    BY <1>1, <1>2, <1>3, <2>1 DEF UserInv, PinOnce, NameOnce, CountInv, Ready, Deleting, Adding
<1>6. MapInv'
  <2>1. UserIDMap = OnFile \cup ({p} \ {0})
    BY <1>1, <1>2, <1>3, InHand DEF MapInv, p
  <2>2. doing'[t].op \in {"card", "unmap"}
    BY <1>2
  <2> QED
    BY <1>1, <1>2, <2>1, <2>2, InHand DEF MapInv
<1>7. ~torn => FingerInv'
  BY <1>1, <1>2 DEF UserInv, FingerInv, Deleting, Person, p
<1>8. ASSUME ~torn, ~garbled PROVE CardInv'
  <2>1. CardInv
    BY <1>8 DEF UserInv
  <2>2. CASE CardsOf(p) = {}
    <3>1. cards' = cards /\ \A i \in 1 .. Len(cards) : cards[i].pin # p
      BY <1>1, <2>2 DEF CardsOf
    <3> QED
      BY <1>1, <1>2, <2>1, <3>1 DEF CardInv, p
  <2>3. CASE CardsOf(p) # {}
    <3> DEFINE k == First(CardsOf(p))
    <3>1. k \in 1 .. Len(cards) /\ cards[k].pin = p /\ Len([cards EXCEPT ![k] = c]) = Len(cards)
      BY <1>0, <1>3, <1>4, <2>3, CardTyped
    <3>2. cards' = [cards EXCEPT ![k] = c] /\ cards \in Seq(Card)
      BY <1>0, <1>1, <2>3 DEF TypeOK
    <3> HIDE DEF k
    <3>3. /\ Len(cards') = Len(cards) /\ cards'[k].pin = 0
          /\ \A i \in 1 .. Len(cards) : i # k => cards'[i] = cards[i]
      BY <1>4, <3>1, <3>2
    <3> SUFFICES ASSUME NEW i \in 1 .. Len(cards), NEW j \in 1 .. Len(cards), cards'[i].pin # 0
                 PROVE  cards'[i].pin \in OnFile /\ (cards'[i].pin = cards'[j].pin => i = j)
      BY <1>1, <3>3 DEF CardInv
    <3>4. i # k /\ cards[i].pin # 0 /\ cards'[i].pin = cards[i].pin
      BY <3>3
    <3>5. cards[i].pin # p
      BY <2>1, <3>1, <3>4 DEF CardInv
    <3>6. cards[i].pin \in OnFile
      BY <1>1, <1>2, <2>1, <3>4, <3>5 DEF CardInv, p
    <3>7. cards'[i].pin = cards'[j].pin => i = j
      BY <2>1, <3>3, <3>4 DEF CardInv
    <3> QED
      BY <3>4, <3>6, <3>7
  <2> QED
    BY <2>2, <2>3
<1> QED
  BY <1>1, <1>2, <1>5, <1>6, <1>7, <1>8 DEF Holds, Core

LEMMA UnmapKeeps ==
  ASSUME UserInv, NEW t \in Threads, Unmap(t)
  PROVE  UserInv'
<1>0. TypeOK /\ TypeOK'
  BY InsideTyped DEF UserInv
<1> DEFINE p == doing[t].pin
<1>1. /\ doing[t].op = "unmap" /\ Then(t, "untemplate") /\ UserIDMap' = UserIDMap \ {p}
      /\ UNCHANGED <<users, templates, cards, overlap, torn, garbled, stale, revived, unchecked>>
      /\ Taken' = Taken /\ OnFile' = OnFile
  BY DEF Unmap, FreedMap, marks, Taken, OnFile
<1> SUFFICES ASSUME Apart PROVE Holds'
  BY <1>0, <1>1 DEF UserInv, Holds, Apart
<1>3. PinOnce /\ MapInv /\ CountInv /\ Ready(t) /\ Alone
  BY DEF UserInv, Core
<1>2. /\ doing'[t].op = "untemplate" /\ doing'[t].pin = p /\ Alone'
      /\ \A v \in Threads : v # t => doing[v].op = "idle"
      /\ \A v \in Threads : v # t => doing'[v].op = "idle"
  <2>1. "untemplate" \in Rest /\ "untemplate" # "idle"
    BY DEF Rest
  <2> QED
    BY <1>0, <1>1, <1>3, <2>1, Inside
<1>4. p \notin OnFile
  BY <1>1, <1>3 DEF Ready, Deleting
<1>5. UserIDMap = OnFile \cup ({p} \ {0})
  BY <1>1, <1>2, <1>3, InHand DEF MapInv
<1>6. MapInv'
  <2>1. doing'[t].op \notin {"card", "unmap"}
    BY <1>2
  <2> HIDE DEF p
  <2> QED
    BY <1>1, <1>2, <1>4, <1>5, <2>1, InHand DEF MapInv
<1>7. CountInv'
  <2>1. /\ Cardinality(UserIDMap \ unchecked) \in Nat
        /\ Cardinality(UserIDMap' \ unchecked') \in Nat
        /\ Cardinality(UserIDMap' \ unchecked') <= Cardinality(UserIDMap \ unchecked)
    <3>1. UserIDMap' \ unchecked' \subseteq UserIDMap \ unchecked
      BY <1>1
    <3> QED
      BY <1>0, <3>1, Smaller
  <2>2. Cardinality(UserIDMap' \ unchecked') <= MaxUser + 1
    BY <1>3, <2>1, PinsTyped DEF CountInv
  <2> QED
    BY <1>2, <2>2 DEF CountInv
<1>8. PinOnce' /\ (~revived => NameOnce') /\ \A v \in Threads : Ready(v)'
  BY <1>1, <1>2, <1>3, <1>4 DEF UserInv, PinOnce, NameOnce, Ready, Deleting, Adding
<1>9. ~torn => FingerInv'
  BY <1>1, <1>2 DEF UserInv, FingerInv, Deleting, Person
<1>10. ~torn /\ ~garbled => CardInv'
  BY <1>1, <1>2 DEF UserInv, CardInv
<1> QED
  BY <1>1, <1>2, <1>6, <1>7, <1>8, <1>9, <1>10 DEF Holds, Core

LEMMA UntemplateKeeps ==
  ASSUME UserInv, NEW t \in Threads, Untemplate(t)
  PROVE  UserInv'
<1>0. TypeOK /\ TypeOK'
  BY InsideTyped DEF UserInv
<1>1. /\ doing[t].op = "untemplate" /\ Then(t, "idle")
      /\ templates' = templates \ TemplatesOf(doing[t].pin)
      /\ UNCHANGED <<users, UserIDMap, cards, overlap, torn, garbled, stale, revived, unchecked>>
      /\ Taken' = Taken /\ OnFile' = OnFile
  BY DEF Untemplate, marks, Taken, OnFile
<1> SUFFICES ASSUME Apart PROVE Holds'
  BY <1>0, <1>1 DEF UserInv, Holds, Apart
<1>3. PinOnce /\ MapInv /\ CountInv /\ Alone
  BY DEF UserInv, Core
<1>2. /\ Alone' /\ doing'[t].op = "idle"
      /\ \A v \in Threads : v # t => doing[v].op = "idle"
      /\ \A v \in Threads : doing'[v].op = "idle"
  <2>1. "idle" \in Rest
    BY DEF Rest
  <2> QED
    BY <1>0, <1>1, <1>3, <2>1, Inside
<1>4. MapInv'
  <2>1. doing[t].op \notin {"card", "unmap"} /\ doing'[t].op \notin {"card", "unmap"}
    BY <1>1, <1>2
  <2>2. UserIDMap = OnFile
    BY <1>2, <1>3, <2>1, InHand DEF MapInv
  <2> QED
    BY <1>1, <1>2, <2>1, <2>2, InHand DEF MapInv
<1>5. PinOnce' /\ (~revived => NameOnce') /\ CountInv' /\ \A v \in Threads : Ready(v)'
  BY <1>1, <1>2, <1>3 DEF UserInv, PinOnce, NameOnce, CountInv, Ready, Deleting, Adding
<1>6. ~torn => FingerInv'
  <2> SUFFICES ASSUME ~torn, NEW f \in templates, f.pin # doing[t].pin
               PROVE  Person(f.pin, f.who)'
    BY <1>1 DEF FingerInv, TemplatesOf, Person
  <2>1. Person(f.pin, f.who)
    BY <1>1, <1>2 DEF UserInv, FingerInv, Deleting
  <2> QED
    BY <1>1, <2>1 DEF Person
<1>7. ~torn /\ ~garbled => CardInv'
  BY <1>1, <1>2 DEF UserInv, CardInv
<1> QED
  BY <1>1, <1>2, <1>4, <1>5, <1>6, <1>7 DEF Holds, Core

LEMMA WriteFailsKeeps ==
  ASSUME UserInv, NEW t \in Threads, WriteFails(t)
  PROVE  UserInv'
<1>0. TypeOK /\ TypeOK'
  BY InsideTyped DEF UserInv
<1>1. UNCHANGED <<users, UserIDMap, templates, cards, overlap, garbled, stale, revived, unchecked>>
  BY DEF WriteFails, tables
<1> SUFFICES ASSUME Apart PROVE Holds'
  BY <1>0, <1>1 DEF UserInv, Holds, Apart
<1>2. CASE doing[t].op \in Adding
  <2>1. /\ Then(t, IF doing[t].op = "enrol" THEN "rebuild" ELSE "idle")
        /\ torn' = (torn \/ doing[t].op = "enrol")
    BY <1>2 DEF WriteFails, Adding
  <2>2. doing[t].op \notin Deleting \cup {"idle"}
    BY <1>2 DEF Adding, Deleting
  <2> QED
    BY <1>1, <2>1, <2>2, EndsKeeps
<1>3. CASE doing[t].op \in {"chg", "erase"}
  <2>1. Then(t, "idle") /\ UNCHANGED torn
    BY <1>3 DEF WriteFails, Adding
  <2>2. doing[t].op \notin Deleting \cup {"idle"} /\ doing[t].op # "enrol"
    BY <1>3 DEF Deleting
  <2> QED
    BY <1>1, <2>1, <2>2, EndsKeeps
<1> QED
  BY <1>2, <1>3 DEF WriteFails

LEMMA DelFailsKeeps ==
  ASSUME UserInv, NEW t \in Threads, DelFails(t)
  PROVE  UserInv'
<1>0. TypeOK /\ TypeOK'
  BY InsideTyped DEF UserInv
<1> DEFINE op == IF doing[t].op = "card" THEN "unmap" ELSE "idle"
<1>1. /\ doing[t].op \in {"card", "untemplate"} /\ Then(t, op) /\ torn'
      /\ UNCHANGED <<users, UserIDMap, templates, cards, overlap, garbled, stale, revived, unchecked>>
      /\ Taken' = Taken /\ OnFile' = OnFile
  BY DEF DelFails, tables, Taken, OnFile
<1> SUFFICES ASSUME Apart PROVE Holds'
  BY <1>0, <1>1 DEF UserInv, Holds, Apart
<1>3. PinOnce /\ MapInv /\ CountInv /\ Ready(t) /\ Alone
  BY DEF UserInv, Core
<1>2. /\ doing'[t].op = op /\ Alone'
      /\ op # "idle" => doing'[t].pin = doing[t].pin
      /\ \A v \in Threads : v # t => doing[v].op = "idle"
      /\ \A v \in Threads : v # t => doing'[v].op = "idle"
  <2>1. op \in Rest
    BY DEF Rest
  <2> QED
    BY <1>0, <1>1, <1>3, <2>1, Inside
<1>4. MapInv'
  <2>1. {doing'[v].pin : v \in {w \in Threads : doing'[w].op \in {"card", "unmap"}}}
          = {doing[v].pin : v \in {w \in Threads : doing[w].op \in {"card", "unmap"}}}
    BY <1>1, <1>2, InHand
  <2> QED
    BY <1>1, <1>3, <2>1 DEF MapInv
<1>5. PinOnce' /\ (~revived => NameOnce') /\ CountInv' /\ \A v \in Threads : Ready(v)'
  BY <1>1, <1>2, <1>3 DEF UserInv, PinOnce, NameOnce, CountInv, Ready, Deleting, Adding
<1> QED
  BY <1>1, <1>2, <1>4, <1>5 DEF Holds, Core

LEMMA AddTemplateKeeps ==
  ASSUME UserInv, NEW t \in Threads, AddTemplate(t)
  PROVE  UserInv'
<1>0. TypeOK /\ TypeOK'
  BY InsideTyped DEF UserInv
<1>1. /\ doing[t].op = "template" /\ Then(t, "idle")
      /\ \A f \in templates' :
           f \in templates \/ f = [pin |-> doing[t].pin, who |-> doing[t].who]
      /\ UNCHANGED <<users, UserIDMap, cards, overlap, torn, garbled, stale, revived, unchecked>>
  BY DEF AddTemplate, marks
<1> SUFFICES ASSUME Apart PROVE Holds'
  BY <1>0, <1>1 DEF UserInv, Holds, Apart
<1>2. Person(doing[t].pin, doing[t].who)
  BY <1>1 DEF UserInv, Core, Ready
<1>3. \A f \in templates' : f \in templates \/ Person(f.pin, f.who)
  BY <1>1, <1>2
<1>4. doing[t].op \notin Deleting \cup {"idle"} /\ doing[t].op # "enrol"
  BY <1>1 DEF Deleting
<1> QED
  BY <1>1, <1>3, <1>4, EndsKeeps

LEMMA MapOfFileIs == MapOfFile = OnFile
  BY DEF MapOfFile, OnFile, Taken

LEMMA RebuildKeeps ==
  ASSUME UserInv, NEW t \in Threads, Rebuild(t)
  PROVE  UserInv'
<1>0. TypeOK /\ TypeOK'
  BY InsideTyped DEF UserInv
<1>1. /\ doing[t].op = "rebuild" /\ Then(t, "idle") /\ UserIDMap' = OnFile
      /\ UNCHANGED <<users, templates, cards, overlap, torn, garbled, stale, revived, unchecked>>
  BY MapOfFileIs DEF Rebuild, marks
<1> SUFFICES ASSUME Apart PROVE Holds'
  BY <1>0, <1>1 DEF UserInv, Holds, Apart
<1>2. Alone /\ MapInv
  BY DEF UserInv, Core
<1>3. doing[t].op \notin Deleting \cup {"idle"} /\ doing[t].op # "enrol" /\ "idle" \in Rest
  BY <1>1 DEF Deleting, Rest
<1>4. \A v \in Threads : v # t => doing[v].op = "idle"
  BY <1>0, <1>1, <1>2, <1>3, Inside
<1>5. UserIDMap' = UserIDMap
  <2>1. doing[t].op \notin {"card", "unmap"}
    BY <1>1
  <2> QED
    BY <1>1, <1>2, <1>4, <2>1, InHand DEF MapInv
<1> QED
  BY <1>1, <1>3, <1>5, EndsKeeps

\* While an import is between its records the other thread is idle.
LEMMA Importing ==
  ASSUME UserInv, Apart, NEW t \in Threads, doing[t].op = "import"
  PROVE  /\ PinOnce /\ CountInv /\ Alone /\ UserIDMap = OnFile
         /\ \A v \in Threads : v # t => doing[v] = Idle /\ doing[v].op = "idle"
         /\ ~revived => NameOnce
         /\ ~torn => \A f \in templates : Person(f.pin, f.who)
         /\ ~torn /\ ~garbled =>
              \A i, j \in 1 .. Len(cards) :
                cards[i].pin # 0 =>
                  cards[i].pin \in OnFile /\ (cards[i].pin = cards[j].pin => i = j)
<1>1. PinOnce /\ CountInv /\ Alone /\ MapInv
  BY DEF UserInv, Core
<1>2. \A v \in Threads : v # t => doing[v] = Idle /\ doing[v].op = "idle"
  BY <1>1 DEF Alone, Idle
<1>3. UserIDMap = OnFile
  BY <1>1, <1>2, InHand DEF MapInv
<1> QED
  BY <1>1, <1>2, <1>3 DEF UserInv, FingerInv, CardInv, Deleting

LEMMA ImportOverKeeps ==
  ASSUME UserInv, NEW t \in Threads, ImportOver(t)
  PROVE  UserInv'
<1>0. TypeOK /\ TypeOK' /\ users \in Seq(User) /\ Len(users) \in Nat
  BY InsideTyped DEF UserInv, TypeOK
<1> DEFINE d == doing[t]
           i == First(NextNamed(d.who))
           p == IF users[i].pin # 0 THEN users[i].pin ELSE GetNextPIN
           u == [pin |-> p, who |-> d.who]
<1>1. /\ d.op = "import" /\ NextNamed(d.who) # {} /\ users' = [users EXCEPT ![i] = u]
      /\ UserIDMap' = UserIDMap \cup ({p} \ {0})
      /\ revived' = (revived \/ (users[i].pin = 0 /\ p # 0
                     /\ \E k \in 1 .. Len(users) : users[k].pin # 0 /\ users[k].who = d.who))
      /\ unchecked' = IF users[i].pin = 0 THEN unchecked \cup ({p} \ {0}) ELSE unchecked
      /\ UNCHANGED <<templates, cards, doing, overlap, torn, garbled, stale>>
  BY DEF ImportOver
<1>2. d \in Operation
  BY <1>0 DEF TypeOK, Operation
<1>3. /\ i \in 1 .. Len(users) /\ users[i].who = d.who /\ p \in 0 .. MaxPin
      /\ u \in User /\ u.pin = p /\ u.who = d.who
  BY <1>0, <1>1, <1>2, Named
<1>4. \/ users[i].pin # 0 /\ p = users[i].pin
      \/ users[i].pin = 0 /\ (p # 0 => p \in Pins \ UserIDMap)
  BY <1>0, NextPINTyped
<1>5. users[i] \in User
  BY <1>0, <1>3, UserTyped
<1> HIDE DEF i, p, u
<1> SUFFICES ASSUME Apart PROVE Holds'
  BY <1>0, <1>1 DEF UserInv, Holds, Apart
<1>6. /\ PinOnce /\ CountInv /\ Alone /\ UserIDMap = OnFile
      /\ \A v \in Threads : v # t => doing[v] = Idle /\ doing[v].op = "idle"
      /\ ~revived => NameOnce
      /\ ~torn => \A f \in templates : Person(f.pin, f.who)
      /\ ~torn /\ ~garbled =>
           \A k, j \in 1 .. Len(cards) :
             cards[k].pin # 0 =>
               cards[k].pin \in OnFile /\ (cards[k].pin = cards[j].pin => k = j)
  BY <1>1, Importing
<1>7. /\ Len(users') = Len(users) /\ users'[i] = u
      /\ \A j \in 1 .. Len(users) : j # i => users'[j] = users[j]
  BY <1>0, <1>1, <1>3, ExceptSeq
<1>8. Alone' /\ \A v \in Threads : Ready(v)'
  <2>1. \A v \in Threads : doing'[v].op \in {"idle", "import"}
    BY <1>1, <1>6
  <2> QED
    BY <1>1, <1>6, <2>1 DEF Alone, Ready, Deleting, Adding
<1>9. {doing'[v].pin : v \in {w \in Threads : doing'[w].op \in {"card", "unmap"}}} = {}
  BY <1>1, <1>6, InHand
<1>10. CASE p = users[i].pin \/ p = 0
  <2>1. users' = users
    <3>1. p = users[i].pin
      BY <1>4, <1>10
    <3>2. u = users[i]
      BY <1>2, <1>3, <1>5, <3>1 DEF User, Operation, u
    <3> QED
      BY <1>0, <1>1, <1>3, <3>2, SeqEqual, ExceptSeq
  <2>2. Taken' = Taken /\ OnFile' = OnFile
    BY <2>1 DEF Taken, OnFile
  <2>3. UserIDMap' = UserIDMap
    <3>1. p # 0 => p \in OnFile
      BY <1>3, <1>10 DEF OnFile, Taken
    <3> QED
      BY <1>1, <1>6, <3>1
  <2>4. unchecked' = unchecked /\ (revived => revived')
    BY <1>1, <1>4, <1>10
  <2>5. MapInv' /\ CountInv' /\ PinOnce' /\ (~revived' => NameOnce')
    <3>1. MapInv'
      BY <1>6, <1>9, <2>2, <2>3 DEF MapInv
    <3>2. CountInv'
      BY <1>1, <1>6, <2>3, <2>4 DEF CountInv
    <3>3. PinOnce' /\ (~revived' => NameOnce')
      BY <1>6, <2>1, <2>2, <2>4 DEF PinOnce, NameOnce
    <3> QED
      BY <3>1, <3>2, <3>3
  <2>6. (~torn' => FingerInv') /\ (~torn' /\ ~garbled' => CardInv')
    BY <1>1, <1>6, <2>1, <2>2 DEF FingerInv, CardInv, Person
  <2> QED
    BY <1>8, <2>5, <2>6 DEF Holds, Core
<1>11. CASE users[i].pin = 0 /\ p # 0
  <2>1. p \notin OnFile /\ p \in Pins
    BY <1>4, <1>6, <1>11
  <2>2. i \notin Taken /\ Taken' = Taken \cup {i} /\ \A j \in Taken : users'[j] = users[j]
    BY <1>3, <1>7, <1>11 DEF Taken
  <2>3. OnFile' = OnFile \cup {p}
    BY <1>3, <1>7, <2>2 DEF OnFile
  <2>4. PinOnce'
    BY <1>3, <1>6, <1>7, <2>1, <2>2 DEF PinOnce, OnFile
  <2>5. ~revived' => NameOnce'
    <3> SUFFICES ASSUME ~revived' PROVE NameOnce'
      OBVIOUS
    <3>1. NameOnce /\ \A k \in Taken : users[k].who # d.who
      BY <1>1, <1>6, <1>11 DEF Taken
    <3> QED
      BY <1>3, <1>7, <2>2, <3>1 DEF NameOnce
  <2>6. MapInv'
    BY <1>1, <1>6, <1>9, <1>11, <2>3 DEF MapInv
  <2>7. CountInv'
    <3>1. UserIDMap' \ unchecked' = UserIDMap \ (unchecked \cup {p})
      BY <1>1, <1>11
    <3>2. /\ Cardinality(UserIDMap \ unchecked) \in Nat
          /\ Cardinality(UserIDMap' \ unchecked') \in Nat
          /\ Cardinality(UserIDMap' \ unchecked') <= Cardinality(UserIDMap \ unchecked)
      BY <1>0, <3>1, Smaller
    <3>3. Cardinality(UserIDMap' \ unchecked') <= MaxUser + 1
      BY <1>6, <3>2, PinsTyped DEF CountInv
    <3> QED
      BY <1>1, <1>6, <3>3 DEF CountInv
  <2>8. (~torn' => FingerInv') /\ (~torn' /\ ~garbled' => CardInv')
    BY <1>1, <1>6, <2>2, <2>3 DEF FingerInv, CardInv, Person
  <2> QED
    BY <1>8, <2>4, <2>5, <2>6, <2>7, <2>8 DEF Holds, Core
<1> QED
  BY <1>4, <1>10, <1>11

LEMMA ImportNewKeeps ==
  ASSUME UserInv, NEW t \in Threads, ImportNew(t)
  PROVE  UserInv'
<1>0. TypeOK /\ TypeOK' /\ doing \in [Threads -> Operation] /\ Len(users) \in Nat
  BY InsideTyped DEF UserInv, TypeOK, Operation
<1>1. /\ doing[t].op = "import"
      /\ UNCHANGED <<users, UserIDMap, templates, cards, overlap, torn, garbled, stale, revived,
                     unchecked>>
      /\ Taken' = Taken /\ OnFile' = OnFile
  BY DEF ImportNew, tables, marks, Taken, OnFile
<1> SUFFICES ASSUME Apart PROVE Holds'
  BY <1>0, <1>1 DEF UserInv, Holds, Apart
<1>2. CASE Then(t, "idle")
  BY <1>1, <1>2, EndsKeeps DEF Deleting
<1>3. CASE /\ RoomForPC
           /\ IF UserIDMap = {} THEN pos' = Len(users) /\ UNCHANGED gUser ELSE SeekFree
           /\ \A i \in 1 .. Len(users) : users[i].who # doing[t].who
           /\ doing' = [doing EXCEPT ![t].op = "add", ![t].pin = GetNextPIN]
  <2>1. /\ PinOnce /\ CountInv /\ Alone /\ UserIDMap = OnFile
        /\ \A v \in Threads : v # t => doing[v] = Idle /\ doing[v].op = "idle"
        /\ ~revived => NameOnce
        /\ ~torn => \A f \in templates : Person(f.pin, f.who)
        /\ ~torn /\ ~garbled =>
             \A k, j \in 1 .. Len(cards) :
               cards[k].pin # 0 =>
                 cards[k].pin \in OnFile /\ (cards[k].pin = cards[j].pin => k = j)
    BY <1>1, Importing
  <2>2. /\ doing'[t].op = "add" /\ doing'[t].pin = GetNextPIN /\ doing'[t].who = doing[t].who
        /\ \A v \in Threads : v # t => doing'[v] = Idle /\ doing'[v].op = "idle"
    BY <1>0, <1>3, <2>1 DEF Operation
  <2>3. GetNextPIN \notin OnFile /\ Cardinality(UserIDMap) <= MaxUser
    BY <1>0, <1>3, <2>1, RoomTyped, NextPINFree DEF RoomForServer
  <2>4. pos' <= Len(users) /\ (pos' + 1 <= Len(users) => users[pos' + 1].pin = 0)
    BY <1>0, <1>3, ImportSeeks
  <2>5. \A v \in Threads : Ready(v)'
    <3>1. doing'[t].pin \notin OnFile' /\ \A i \in Taken' : users'[i].who # doing'[t].who
      <4>1. \A i \in Taken : users[i].who # doing[t].who
        BY <1>3 DEF Taken
      <4> QED
        BY <1>1, <2>2, <2>3, <4>1
    <3>2. pos' <= Len(users') /\ (pos' + 1 <= Len(users') => users'[pos' + 1].pin = 0)
      BY <1>1, <2>4
    <3>3. Ready(t)'
      BY <2>2, <3>1, <3>2 DEF Ready, Deleting
    <3> QED
      BY <2>2, <3>3 DEF Ready, Deleting, Adding
  <2>6. MapInv'
    <3>1. doing'[t].op \notin {"card", "unmap"}
      BY <2>2
    <3> QED
      BY <1>1, <2>1, <2>2, <3>1, InHand DEF MapInv
  <2>7. Alone' /\ PinOnce' /\ CountInv' /\ (~revived' => NameOnce')
    BY <1>1, <2>1, <2>2, <2>3 DEF Alone, PinOnce, NameOnce, CountInv
  <2>8. (~torn' => FingerInv') /\ (~torn' /\ ~garbled' => CardInv')
    BY <1>1, <2>1 DEF FingerInv, CardInv, Person
  <2> QED
    BY <2>5, <2>6, <2>7, <2>8 DEF Holds, Core
<1> QED
  BY <1>2, <1>3 DEF ImportNew

\* With all threads idle only the tables matter.
LEMMA IdleKeeps ==
  ASSUME UserInv, Apart, \A t \in Threads : doing[t].op = "idle",
         Alone, UNCHANGED <<users, UserIDMap, doing, revived, unchecked>>
  PROVE  Core' /\ (~revived' => NameOnce') /\ Taken' = Taken /\ OnFile' = OnFile
<1>1. Taken' = Taken /\ OnFile' = OnFile
  BY DEF Taken, OnFile
<1>2. Core
  BY DEF UserInv
<1> QED
  BY <1>1, <1>2 DEF UserInv, Core, Alone, PinOnce, NameOnce, Ready, Deleting, Adding, MapInv, CountInv

LEMMA StartEnrollKeeps ==
  ASSUME UserInv, NEW w \in People, StartEnroll(w)
  PROVE  UserInv'
<1>0. TypeOK /\ TypeOK' /\ "main" \in Threads
  BY StartEnrollTyped DEF UserInv, Threads
<1>1. /\ doing["main"] = Idle /\ overlap' = (overlap \/ Meets("main"))
      /\ UNCHANGED <<users, UserIDMap, templates, cards, doing, torn, garbled, stale, revived,
                     unchecked>>
  BY DEF StartEnroll, tables, marks
<1> SUFFICES ASSUME Apart' PROVE Holds'
  BY <1>0 DEF UserInv, Holds
<1>2. Apart /\ Alone /\ \A u \in Threads : doing[u].op = "idle"
  BY <1>0, <1>1, BeginAlone DEF Apart
<1>3. Core' /\ (~revived' => NameOnce') /\ Taken' = Taken /\ OnFile' = OnFile
  BY <1>1, <1>2, IdleKeeps
<1> QED
  BY <1>1, <1>2, <1>3 DEF UserInv, Holds, FingerInv, CardInv, Person

LEMMA EnrolFailsKeeps == UserInv /\ EnrolFails => UserInv'
<1> SUFFICES ASSUME UserInv, EnrolFails PROVE UserInv'
  OBVIOUS
<1>1. TypeOK /\ TypeOK'
  BY EnrolTyped DEF UserInv
<1>2. UNCHANGED <<tables, pos, gUser, doing, overlap, marks>>
  BY DEF EnrolFails
<1> QED
  BY <1>1, <1>2 DEF tables, marks, UserInv, Apart, Core, Alone, PinOnce, NameOnce, Ready, Deleting,
     Adding, Taken, OnFile, MapInv, CountInv, FingerInv, CardInv, Person

LEMMA EnrolFingerKeeps ==
  ASSUME UserInv, EnrolFinger
  PROVE  UserInv'
<1>0. TypeOK /\ TypeOK' /\ "main" \in Threads /\ doing \in [Threads -> Operation]
  BY EnrolTyped DEF UserInv, Threads, TypeOK, Operation
<1> DEFINE pin == enrolling.pin
           who == enrolling.who
           op  == IF enrolling.new THEN "enrol" ELSE "rebuild"
<1>1. /\ pin # 0 /\ doing["main"] = Idle /\ overlap' = (overlap \/ Meets("main"))
      /\ stale' = (stale \/ ~Meant(enrolling))
      /\ templates' = templates \cup {[pin |-> pin, who |-> who]}
      /\ doing' = [doing EXCEPT !["main"] = [op |-> op, pin |-> pin, who |-> who]]
      /\ enrolling.new => SeekFree
      /\ UNCHANGED <<users, UserIDMap, cards, torn, garbled, revived, unchecked>>
      /\ Taken' = Taken /\ OnFile' = OnFile
  BY DEF EnrolFinger, Taken, OnFile
<1>2. pin \in 0 .. MaxPin /\ who \in Names /\ enrolling.new \in BOOLEAN
  BY <1>0 DEF TypeOK
<1> SUFFICES ASSUME Apart' PROVE Holds'
  BY <1>0 DEF UserInv, Holds
<1>3. ~stale /\ ~stale' /\ Meant(enrolling) /\ ~overlap'
  BY <1>1 DEF Apart
<1>4. Apart /\ Alone /\ \A v \in Threads : doing[v] = Idle /\ doing[v].op = "idle"
  BY <1>0, <1>1, <1>3, BeginAlone DEF Apart
<1>5. /\ PinOnce /\ UserIDMap = OnFile /\ Cardinality(UserIDMap \ unchecked) <= MaxUser + 1
      /\ ~revived => NameOnce
      /\ ~torn => \A f \in templates : Person(f.pin, f.who)
      /\ ~torn /\ ~garbled =>
           \A i, j \in 1 .. Len(cards) :
             cards[i].pin # 0 =>
               cards[i].pin \in OnFile /\ (cards[i].pin = cards[j].pin => i = j)
  BY <1>4, AllIdle
<1> HIDE DEF op
<1>6. /\ doing'["main"].op = op /\ doing'["main"].pin = pin /\ doing'["main"].who = who
      /\ \A v \in Threads : v # "main" => doing'[v] = Idle /\ doing'[v].op = "idle"
  BY <1>0, <1>1, <1>4
<1>7. op \in {"enrol", "rebuild"} /\ (op = "enrol" <=> enrolling.new)
  BY <1>2 DEF op
<1>8. MapInv'
  <2>1. doing'["main"].op \notin {"card", "unmap"}
    BY <1>6, <1>7
  <2> QED
    BY <1>0, <1>1, <1>5, <1>6, <2>1, InHand DEF MapInv
<1>9. Alone' /\ PinOnce' /\ (~revived' => NameOnce')
  BY <1>1, <1>5, <1>6 DEF Alone, PinOnce, NameOnce
<1>10. CountInv'
  BY <1>1, <1>5, <1>6, <1>7 DEF CountInv
<1>11. CASE enrolling.new
  <2>1. pin \notin OnFile /\ \A i \in Taken : users[i].who # who
    BY <1>3, <1>5, <1>11 DEF Meant, Taken
  <2>2. pos' <= Len(users') /\ (pos' + 1 <= Len(users') => users'[pos' + 1].pin = 0)
    BY <1>0, <1>1, <1>11, SeekTyped
  <2>3. doing'["main"].pin \notin OnFile' /\ \A i \in Taken' : users'[i].who # doing'["main"].who
    BY <1>1, <1>6, <2>1
  <2>4. doing'["main"].op = "enrol"
    BY <1>6, <1>7, <1>11
  <2>5. Ready("main")'
    BY <2>2, <2>3, <2>4 DEF Ready, Deleting
  <2>6. \A v \in Threads : Ready(v)'
    BY <1>6, <2>5 DEF Ready, Deleting, Adding
  <2>7. ~torn' => FingerInv'
    <3> SUFFICES ASSUME ~torn', NEW f \in templates'
                 PROVE  Person(f.pin, f.who)' \/ (f.pin = pin /\ f.who = who)
      BY <1>0, <1>6, <2>4 DEF FingerInv, Person
    <3>1. CASE f \in templates
      BY <1>1, <1>5, <3>1 DEF Person
    <3>2. CASE f = [pin |-> pin, who |-> who]
      BY <3>2
    <3> QED
      BY <1>1, <3>1, <3>2
  <2>8. ~torn' /\ ~garbled' => CardInv'
    BY <1>1, <1>5 DEF CardInv
  <2> QED
    BY <1>8, <1>9, <1>10, <2>6, <2>7, <2>8 DEF Holds, Core
<1>12. CASE ~enrolling.new
  <2>1. Person(pin, who)
    BY <1>1, <1>3, <1>12 DEF Meant, Person, Taken, WithPin
  <2>2. doing'["main"].op = "rebuild"
    BY <1>6, <1>7, <1>12
  <2>3. \A v \in Threads : Ready(v)'
    BY <1>6, <2>2 DEF Ready, Deleting, Adding
  <2>4. ~torn' => FingerInv'
    <3> SUFFICES ASSUME ~torn', NEW f \in templates' PROVE Person(f.pin, f.who)'
      BY DEF FingerInv, Person
    <3>1. Person(f.pin, f.who)
      BY <1>1, <1>5, <2>1
    <3> QED
      BY <1>1, <3>1 DEF Person
  <2>5. ~torn' /\ ~garbled' => CardInv'
    BY <1>1, <1>5 DEF CardInv
  <2> QED
    BY <1>8, <1>9, <1>10, <2>3, <2>4, <2>5 DEF Holds, Core
<1> QED
  BY <1>11, <1>12

LEMMA CardUpdateKeeps ==
  ASSUME UserInv, NEW w \in People, NEW serial \in Serials, CardUpdate(w, serial)
  PROVE  UserInv'
<1>0. TypeOK /\ TypeOK' /\ "push" \in Threads
  BY CardUpdateTyped DEF UserInv, Threads
<1> DEFINE p == users[First(WithPIN2(w))].pin
           new == [pin |-> p, serial |-> serial]
<1>1. /\ doing["push"] = Idle /\ WithPIN2(w) # {}
      /\ \/ /\ CardsOf(p) = {}
            /\ cards' = IF CardsOf(0) = {} THEN Append(cards, new)
                        ELSE [cards EXCEPT ![First(CardsOf(0))] = new]
            /\ garbled' = garbled
         \/ garbled' = TRUE
      /\ overlap' = (overlap \/ Meets("push"))
      /\ UNCHANGED <<users, UserIDMap, templates, doing, torn, stale, revived, unchecked>>
  BY DEF CardUpdate
<1>2. p \in OnFile /\ p \in Pins
  BY <1>0, <1>1, Known DEF OnFile
<1>3. p # 0 /\ new \in Card /\ new.pin = p /\ 0 \in 0 .. MaxPin
  <2> HIDE DEF p
  <2> QED
    BY <1>2, PinsTyped, PinAssumption DEF Card, Pins
<1> HIDE DEF p, new
<1> SUFFICES ASSUME Apart' PROVE Holds'
  BY <1>0 DEF UserInv, Holds
<1>4. Apart /\ Alone /\ \A t \in Threads : doing[t] = Idle /\ doing[t].op = "idle"
  BY <1>0, <1>1, BeginAlone DEF Apart
<1>5. Core' /\ (~revived' => NameOnce') /\ Taken' = Taken /\ OnFile' = OnFile
  BY <1>1, <1>4, IdleKeeps
<1>6. ~torn' => FingerInv'
  <2>1. ~torn => \A f \in templates : Person(f.pin, f.who)
    BY <1>4, AllIdle
  <2> QED
    BY <1>1, <1>5, <2>1 DEF FingerInv, Person
<1>7. ASSUME ~torn', ~garbled' PROVE CardInv'
  <2>1. cards \in Seq(Card) /\ Len(cards) \in Nat
    BY <1>0 DEF TypeOK
  <2>2. \A i, j \in 1 .. Len(cards) :
          cards[i].pin # 0 => cards[i].pin \in OnFile /\ (cards[i].pin = cards[j].pin => i = j)
    <3>1. ~torn /\ ~garbled
      BY <1>1, <1>7
    <3> QED
      BY <1>4, <3>1, AllIdle
  <2>3. \A i \in 1 .. Len(cards) : cards[i].pin # p
    BY <1>1, <1>7 DEF CardsOf
  <2>4. CASE CardsOf(0) = {}
    <3>1. cards' = Append(cards, new)
      BY <1>1, <1>7, <2>4
    <3>2. /\ Len(cards') = Len(cards) + 1 /\ cards'[Len(cards) + 1] = new
          /\ \A i \in 1 .. Len(cards) : cards'[i] = cards[i]
      BY <1>3, <2>1, <3>1, AppendProperties
    <3>3. 1 .. Len(cards') = 1 .. Len(cards) \cup {Len(cards) + 1}
      BY <2>1, <3>2
    <3> QED
      BY <1>2, <1>3, <1>5, <2>1, <2>2, <2>3, <3>2, <3>3 DEF CardInv
  <2>5. CASE CardsOf(0) # {}
    <3> DEFINE k == First(CardsOf(0))
    <3>1. k \in 1 .. Len(cards) /\ Len([cards EXCEPT ![k] = new]) = Len(cards)
      BY <1>0, <1>3, <2>5, CardTyped
    <3>2. cards' = [cards EXCEPT ![k] = new]
      BY <1>1, <1>7, <2>5
    <3> HIDE DEF k
    <3>3. /\ Len(cards') = Len(cards) /\ cards'[k] = new
          /\ \A i \in 1 .. Len(cards) : i # k => cards'[i] = cards[i]
      BY <2>1, <3>1, <3>2
    <3> QED
      BY <1>2, <1>3, <1>5, <2>1, <2>2, <2>3, <3>1, <3>3 DEF CardInv
  <2> QED
    BY <2>4, <2>5
<1> QED
  BY <1>5, <1>6, <1>7 DEF Holds

LEMMA CrashKeeps ==
  ASSUME UserInv, Crash
  PROVE  UserInv'
<1>0. TypeOK /\ TypeOK'
  BY CrashTyped DEF UserInv
<1>1. /\ doing' = [t \in Threads |-> Idle] /\ UserIDMap' = OnFile
      /\ torn' = (torn \/ \E t \in Threads : doing[t].op \in Deleting \cup {"enrol"})
      /\ UNCHANGED <<users, templates, cards, overlap, garbled, stale, revived, unchecked>>
      /\ Taken' = Taken /\ OnFile' = OnFile
  BY MapOfFileIs DEF Crash, Deleting, Taken, OnFile
<1> SUFFICES ASSUME Apart PROVE Holds'
  BY <1>0, <1>1 DEF UserInv, Holds, Apart
<1>2. Alone' /\ \A t \in Threads : doing'[t].op = "idle"
  BY <1>1 DEF Alone, Idle
<1>3. PinOnce /\ MapInv /\ CountInv
  BY DEF UserInv, Core
<1>4. MapInv'
  BY <1>1, <1>2 DEF MapInv
<1>5. CountInv'
  <2>1. UserIDMap' \ unchecked' \subseteq UserIDMap \ unchecked
    BY <1>1, <1>3 DEF MapInv
  <2>2. /\ Cardinality(UserIDMap \ unchecked) \in Nat
        /\ Cardinality(UserIDMap' \ unchecked') \in Nat
        /\ Cardinality(UserIDMap' \ unchecked') <= Cardinality(UserIDMap \ unchecked)
    BY <1>0, <2>1, Smaller
  <2>3. Cardinality(UserIDMap' \ unchecked') <= MaxUser + 1
    BY <1>3, <2>2, PinsTyped DEF CountInv
  <2> QED
    BY <1>2, <2>3 DEF CountInv
<1>6. PinOnce' /\ (~revived' => NameOnce') /\ \A v \in Threads : Ready(v)'
  BY <1>1, <1>2, <1>3 DEF UserInv, PinOnce, NameOnce, Ready, Deleting, Adding
<1>7. ~torn' => FingerInv'
  <2> SUFFICES ASSUME ~torn', NEW f \in templates' PROVE Person(f.pin, f.who)'
    BY DEF FingerInv, Person
  <2>1. FingerInv /\ f \in templates /\ \A t \in Threads : doing[t].op \notin Deleting \cup {"enrol"}
    BY <1>1 DEF UserInv
  <2>2. Person(f.pin, f.who)
    BY <2>1 DEF FingerInv
  <2> QED
    BY <1>1, <2>2 DEF Person
<1>8. ASSUME ~torn', ~garbled' PROVE CardInv'
  <2>1. CardInv /\ \A t \in Threads : doing[t].op # "card"
    BY <1>1, <1>8 DEF UserInv, Deleting
  <2>2. UNCHANGED cards /\ OnFile' = OnFile
    BY <1>1
  <2> QED
    BY <2>1, <2>2 DEF CardInv
<1> QED
  BY <1>2, <1>4, <1>5, <1>6, <1>7, <1>8 DEF Holds, Core

-----------------------------------------------------------------------------
(* Theorems.                                                                *)

LEMMA UserInit == Init => UserInv
<1> SUFFICES ASSUME Init PROVE UserInv
  OBVIOUS
<1>1. /\ users = <<>> /\ cards = <<>> /\ UserIDMap = {} /\ templates = {}
      /\ doing = [t \in Threads |-> Idle]
  BY DEF Init, Start
<1>2. TypeOK /\ Taken = {} /\ OnFile = {} /\ Len(cards) = 0
  BY <1>1, TypeInit DEF Taken, OnFile
<1>3. \A t \in Threads : doing[t] = Idle /\ doing[t].op = "idle"
  BY <1>1 DEF Idle
<1>4. CountInv
  <2>1. Cardinality(UserIDMap \ unchecked) = 0
    BY <1>1, FS_EmptySet
  <2> QED
    BY <1>3, <2>1, PinAssumption DEF CountInv
<1>5. Core
  BY <1>1, <1>2, <1>3, <1>4 DEF Core, Alone, PinOnce, Ready, Deleting, Adding, MapInv
<1> QED
  BY <1>1, <1>2, <1>5 DEF UserInv, NameOnce, FingerInv, CardInv

LEMMA UserStep == UserInv /\ [Next]_vars => UserInv'
<1> SUFFICES ASSUME UserInv, [Next]_vars PROVE UserInv'
  OBVIOUS
<1>1. CASE Next
  <2>1. ASSUME NEW t \in Threads,
               \/ AddWrite(t) \/ ChgWrite(t) \/ Erase(t) \/ DelCard(t) \/ Unmap(t)
               \/ Untemplate(t) \/ WriteFails(t) \/ DelFails(t) \/ AddTemplate(t)
               \/ Rebuild(t) \/ ImportOver(t) \/ ImportNew(t)
        PROVE  UserInv'
    BY <2>1, AddWriteKeeps, ChgWriteKeeps, EraseKeeps, DelCardKeeps, UnmapKeeps, UntemplateKeeps,
       WriteFailsKeeps, DelFailsKeeps, AddTemplateKeeps, RebuildKeeps, ImportOverKeeps,
       ImportNewKeeps
  <2>2. TypeOK
    BY DEF UserInv
  <2> QED
    BY <1>1, <2>1, <2>2, Steps, BegunKeeps, StartEnrollKeeps, EnrolFingerKeeps, EnrolFailsKeeps,
       CardUpdateKeeps, CrashKeeps
<1>2. CASE UNCHANGED vars
  BY <1>2 DEF vars, tables, marks, UserInv, TypeOK, Apart, Core, Alone, PinOnce, NameOnce, Ready,
              Deleting, Adding, Taken, OnFile, MapInv, CountInv, FingerInv, CardInv, Person
<1> QED
  BY <1>1, <1>2

LEMMA UserInvariant == Spec => []UserInv
  BY UserInit, UserStep, PTL DEF Spec

\* Nobody is on file twice and no PIN is, until the threads meet or an enrolment
\* is behind its lookup (FDB_AddUser, FDB_ChgUser and the lookups before them).
THEOREM NobodyTwice == Spec => []EachOnce
<1>1. UserInv => EachOnce
  BY DEF UserInv, Core, PinOnce, NameOnce, EachOnce
<1> QED
  BY <1>1, UserInvariant, PTL

\* The map of PINs is that of the file between operations, whatever failures of
\* writes and of the power there were (FDB_UpdateUserIDMap).
THEOREM MapIsTheFile == Spec => []MapAgrees
<1>1. UserInv => MapAgrees
  <2> SUFFICES ASSUME UserInv, Apart, Quiet PROVE UserIDMap = OnFile
    BY DEF MapAgrees, OnFile
  <2>1. MapInv /\ \A t \in Threads : doing[t].op = "idle"
    BY DEF UserInv, Core, Quiet, Idle
  <2> QED
    BY <2>1 DEF MapInv
<1> QED
  BY <1>1, UserInvariant, PTL

\* Nobody inherits a finger with a PIN, as long as no deletion and no enrolment
\* of somebody new is left half done (FDB_DelUser, FDB_DeleteTmps, ProcessEnroll).
THEOREM NoFingerInherited == Spec => []FingersStayOwn
<1>1. UserInv => FingersStayOwn
  BY DEF UserInv, FingersStayOwn, FingerInv, Person, Quiet, Idle, Deleting
<1> QED
  BY <1>1, UserInvariant, PTL

\* ... nor a card, and a PIN has one at most (FDB_DelSerialCardNumber).
THEOREM NoCardInherited == Spec => []CardsStayOwn
<1>1. UserInv => CardsStayOwn
  BY DEF UserInv, CardsStayOwn, CardInv, Quiet, Idle, OnFile
<1> QED
  BY <1>1, UserInvariant, PTL

\* Of the users added with a check at most one is above the capacity
\* (FDB_CntUserByMap); enrolment, named templates and revived records have none.
THEOREM OneAboveCapacity == Spec => []AtMostOneOver
<1>1. UserInv => AtMostOneOver
  BY DEF UserInv, Core, CountInv, AtMostOneOver
<1> QED
  BY <1>1, UserInvariant, PTL

=============================================================================
