------------------------------ MODULE UserTable ------------------------------
(***************************************************************************)
(* The people enrolled: the user file, the bit map of PINs in RAM, the       *)
(* templates and card serial numbers kept by PIN (flashdb.c), and the code   *)
(* that changes them: the main thread for the PC (commu.c), for the menus,   *)
(* cards and the U-disk, and for the push server (user_deal), and the push   *)
(* thread itself, which deletes people and writes card numbers               *)
(* (user_update).  Both threads share the file offset and the buffer gUser; a *)
(* lookup is one step here, and so is a write.  The commands of the PC go on  *)
(* inside the window of an enrolment that the PC has started.                *)
(***************************************************************************)
EXTENDS Integers, Sequences, FiniteSets

CONSTANTS
  People,      \* PIN2: the number a person is known by
  MaxPin,      \* bits of UserIDMap
  MaxUser,     \* gOptions.MaxUserCount * 100
  Serials,     \* card serial numbers the server sends
  CrashBound,  \* bound of a run on the power failures
  OpBound      \* bound of a run on the operations begun

ASSUME PinAssumption == MaxUser \in Nat /\ MaxPin \in Nat /\ MaxUser < MaxPin
ASSUME LimitAssumption == CrashBound \in Nat /\ OpBound \in Nat

Pins == 1 .. MaxPin
Nobody == <<>>
Names == {Nobody} \cup {<<w>> : w \in People}

\* A record of the user file: PIN 0 marks it free, the name stays in it.
User == [pin : 0 .. MaxPin, who : Names]
Template == [pin : Pins, who : Names]
Card == [pin : 0 .. MaxPin, serial : Serials \cup {"none", "garbage"}]

Threads == {"main", "push"}
Idle == [op |-> "idle", pin |-> 0, who |-> Nobody]
Ops == {"idle", "chg", "erase", "card", "unmap", "untemplate",
        "add", "append", "menu", "enrol", "template", "rebuild", "import"}

\* FDB_AddUser: of the PC and the server; of AppendUserTemp; of the menu; of
\* ProcessEnroll.
Adding == {"add", "append", "menu", "enrol"}

\* An enrolment the PC has started: its window is open for this PIN and person,
\* who had no record then.
NoEnrolment == [pin |-> 0, who |-> Nobody, new |-> FALSE]

VARIABLES
  users,      \* the file fdUser
  pos,        \* its offset, in records, shared by both threads
  gUser,      \* the static buffer of the lookups, shared too
  UserIDMap,  \* PINs taken
  templates,  \* fdFingerTmp, the valid ones
  cards,      \* fdserialcardno
  doing,      \* [Threads]: the rest of the operation in hand, and for whom
  enrolling,  \* ProcessEnroll, as long as its window is open
  ops,        \* operations begun
  crashes,    \* history: power failures
  overlap,    \* history: both threads were in operations at once
  torn,       \* history: a deletion, or the enrolment of somebody new, half done
  garbled,    \* history: FDB_ChgSerialCardNumber wrote
  stale,      \* history: a finger for a PIN that meant somebody else by then
  revived,    \* history: the U-disk gave a free record of somebody on file a PIN
  unchecked   \* history: PINs given out without a look at the capacity

tables == <<users, UserIDMap, templates, cards>>
marks == <<torn, garbled, stale, revived, unchecked>>
vars == <<tables, pos, gUser, doing, enrolling, ops, overlap, crashes, marks>>

TypeOK ==
  /\ users \in Seq(User)
  /\ pos \in Nat
  /\ gUser \in User
  /\ UserIDMap \subseteq Pins
  /\ templates \subseteq Template
  /\ cards \in Seq(Card)
  /\ doing \in [Threads -> [op : Ops, pin : 0 .. MaxPin, who : Names]]
  /\ \A t \in Threads : doing[t].op \in Adding \cup {"template"} => doing[t].pin \in Pins
  /\ enrolling \in [pin : 0 .. MaxPin, who : Names, new : BOOLEAN]
  /\ ops \in Nat /\ crashes \in Nat
  /\ overlap \in BOOLEAN /\ torn \in BOOLEAN /\ garbled \in BOOLEAN
  /\ stale \in BOOLEAN /\ revived \in BOOLEAN /\ unchecked \subseteq Pins

\* The terminal has started with these files; the map is made from the first.
Start(file, fingers, numbers) ==
  /\ users = file /\ templates = fingers /\ cards = numbers
  /\ UserIDMap = {file[i].pin : i \in 1 .. Len(file)} \ {0}
  /\ pos = Len(file) /\ gUser = [pin |-> 0, who |-> Nobody]
  /\ doing = [t \in Threads |-> Idle] /\ enrolling = NoEnrolment
  /\ ops = 0 /\ crashes = 0
  /\ overlap = FALSE /\ torn = FALSE /\ garbled = FALSE
  /\ stale = FALSE /\ revived = FALSE /\ unchecked = {}

Init == Start(<<>>, {}, <<>>)

-----------------------------------------------------------------------------

\* The scans of the user file: FDB_GetUser and FDB_GetUserByCharPIN2 stop
\* behind the first record that fits, or at the end.
First(S) == CHOOSE i \in S : \A j \in S : i <= j
WithPin(p) == {i \in 1 .. Len(users) : users[i].pin = p}
WithPIN2(w) == {i \in 1 .. Len(users) : users[i].pin # 0 /\ users[i].who = <<w>>}

Scan(found) ==
  LET i == IF found = {} THEN Len(users) ELSE First(found)
  IN  /\ pos' = i
      /\ gUser' = IF i = 0 THEN gUser ELSE users[i]

\* GetNextPIN(1, TRUE): the lowest PIN free in the map, 0 when there is none.
GetNextPIN ==
  LET free == Pins \ UserIDMap IN IF free = {} THEN 0 ELSE First(free)

\* Fault: the server adds without looking at the count.
ServerNoLimit == TRUE

\* FDB_CntUserByMap against the capacity, as the PC and as the server have it
\* checked.
RoomForPC == Cardinality(UserIDMap) < MaxUser
RoomForServer == Cardinality(UserIDMap) <= MaxUser

\* Both threads in operations at once.
Meets(t) == \E u \in Threads \ {t} : doing[u] # Idle

Begin(t, op, pin, who) ==
  /\ doing[t] = Idle /\ ops < OpBound
  /\ ops' = ops + 1
  /\ doing' = [doing EXCEPT ![t] = [op |-> op, pin |-> pin, who |-> who]]
  /\ overlap' = (overlap \/ Meets(t))

Then(t, op) == doing' = [doing EXCEPT ![t] = IF op = "idle" THEN Idle
                                             ELSE [@ EXCEPT !.op = op]]

\* Fault: a person's new record does not look for the old one.
PCAddUnchecked(p, w) == WithPin(p) = {}

\* A new user from the PC: no record has the PIN2, none the PIN.
PCAdds(p, w) == WithPIN2(w) = {} /\ WithPin(p) = {} /\ RoomForPC

\* SearchAndSave(FCT_USER) first looks for a free record, and stands in front
\* of it or at the end of the file.
SeekFree ==
  LET free == WithPin(0)
  IN  /\ pos' = IF free = {} THEN Len(users) ELSE First(free) - 1
      /\ gUser' = IF users = <<>> THEN gUser
                  ELSE users[IF free = {} THEN Len(users) ELSE First(free)]

\* CMD_USER_WRQ for a PIN2 not on file.
PCAddUser(p, w) ==
  /\ PCAdds(p, w)
  /\ Begin("main", "add", p, <<w>>)
  /\ SeekFree
  /\ UNCHANGED <<tables, enrolling, crashes, marks>>

\* CMD_USER_WRQ for a PIN2 that has this PIN, also changes made at the menu.
PCChgUser(p, w) ==
  /\ WithPIN2(w) # {} /\ users[First(WithPIN2(w))].pin = p
  /\ Begin("main", "chg", p, <<w>>)
  /\ Scan(WithPin(p))
  /\ UNCHANGED <<tables, enrolling, crashes, marks>>

\* CMD_APPEND_USERTEMP for a PIN not on file, with a name: a user without a
\* number, and then the template.  The capacity is not looked at.
AppendNamed(p) ==
  /\ WithPin(p) = {}
  /\ Begin("main", "append", p, Nobody)
  /\ SeekFree
  /\ UNCHANGED <<tables, enrolling, crashes, marks>>

\* The menu and a card: the next free PIN for somebody not on file; the menu may
\* have fingers, to be saved behind it.
AddNextPin(w, op) ==
  /\ enrolling.pin = 0
  /\ WithPIN2(w) = {} /\ RoomForPC
  /\ Begin("main", op, GetNextPIN, <<w>>)
  /\ SeekFree
  /\ UNCHANGED <<tables, enrolling, crashes, marks>>

\* user_deal, called by the main thread for the push thread, which waits: a
\* person on file keeps the PIN and the record is written over (FDB_ChgUser
\* finds it, since nothing comes between), another one gets the next free PIN.
ServerAddUser(w) ==
  /\ doing["push"] = Idle /\ enrolling.pin = 0
  /\ \/ /\ WithPIN2(w) # {}
        /\ LET p == users[First(WithPIN2(w))].pin
           IN  Begin("main", "chg", p, <<w>>) /\ Scan(WithPin(p))
     \/ /\ WithPIN2(w) = {} /\ RoomForServer
        /\ Begin("main", "add", GetNextPIN, <<w>>)
        /\ SeekFree
  /\ UNCHANGED <<tables, enrolling, crashes, marks>>

\* Where write() puts a record: behind the offset, or one in front of it.
PutAt(i, u) == IF i <= Len(users) THEN [users EXCEPT ![i] = u]
               ELSE Append(users, u)

\* What follows FDB_AddUser.
AfterAdd(op) ==
  CASE op \in {"append", "menu"} -> "template"
    [] op = "enrol" -> "rebuild"
    [] OTHER -> "idle"

\* FDB_AddUser: the write, and the bit in the map.
AddWrite(t) ==
  /\ doing[t].op \in Adding
  /\ users' = PutAt(pos + 1, [pin |-> doing[t].pin, who |-> doing[t].who])
  /\ pos' = pos + 1
  /\ UserIDMap' = UserIDMap \cup {doing[t].pin}
  /\ unchecked' = IF doing[t].op \in {"append", "enrol"}
                  THEN unchecked \cup {doing[t].pin} ELSE unchecked \ {doing[t].pin}
  /\ Then(t, AfterAdd(doing[t].op))
  /\ UNCHANGED <<gUser, templates, cards, enrolling, ops, overlap, crashes,
                 torn, garbled, stale, revived>>

Back(i) == IF i = 0 THEN 1 ELSE i

\* FDB_ChgUser: the write, over the record the lookup stopped behind.
ChgWrite(t) ==
  /\ doing[t].op = "chg"
  /\ users' = PutAt(Back(pos), [pin |-> doing[t].pin, who |-> doing[t].who])
  /\ pos' = Back(pos)
  /\ Then(t, "idle")
  /\ UNCHANGED <<gUser, UserIDMap, templates, cards, enrolling, ops, overlap,
                 crashes, marks>>

\* The write of a user record fails, and so does its repetition.  ProcessEnroll
\* goes on all the same, with the template on file.
WriteFails(t) ==
  /\ \/ /\ doing[t].op \in Adding
        /\ Then(t, IF doing[t].op = "enrol" THEN "rebuild" ELSE "idle")
        /\ torn' = (torn \/ doing[t].op = "enrol")
        /\ UNCHANGED <<pos, gUser>>
     \/ /\ doing[t].op \in {"chg", "erase"}
        /\ pos' = Back(pos) - 1
        /\ gUser' = IF doing[t].op = "erase" THEN [gUser EXCEPT !.pin = 0] ELSE gUser
        /\ Then(t, "idle")
        /\ UNCHANGED torn
  /\ UNCHANGED <<tables, enrolling, ops, overlap, crashes, garbled, stale,
                 revived, unchecked>>

-----------------------------------------------------------------------------

\* FDB_DelUser: CMD_DELETE_USER, CMD_SSRDELETE_USER and the menu in the main
\* thread, user_update in the push thread.  PIN 0, in CMD_DELETE_USER, fits a
\* free record.
DelUser(t, p) ==
  /\ WithPin(p) # {} /\ (t = "push" => p # 0)
  /\ Begin(t, "erase", p, users[First(WithPin(p))].who)
  /\ Scan(WithPin(p))
  /\ UNCHANGED <<tables, enrolling, crashes, marks>>

\* The record found, which is in gUser, is written back with PIN 0.
Erase(t) ==
  /\ doing[t].op = "erase"
  /\ gUser' = [gUser EXCEPT !.pin = 0]
  /\ users' = PutAt(Back(pos), [gUser EXCEPT !.pin = 0])
  /\ pos' = Back(pos)
  /\ Then(t, "card")
  /\ UNCHANGED <<UserIDMap, templates, cards, enrolling, ops, overlap, crashes, marks>>

\* Fault: the search looks at one record only.
CardsInFront(p) == {i \in {1} \cap 1 .. Len(cards) : cards[i].pin = p}

CardsOf(p) == {i \in 1 .. Len(cards) : cards[i].pin = p}

\* FDB_DelSerialCardNumber: the first record of this PIN becomes free.
DelCard(t) ==
  /\ doing[t].op = "card"
  /\ cards' = IF CardsOf(doing[t].pin) = {} THEN cards
              ELSE [cards EXCEPT ![First(CardsOf(doing[t].pin))] =
                      [pin |-> 0, serial |-> "none"]]
  /\ Then(t, "unmap")
  /\ UNCHANGED <<users, pos, gUser, UserIDMap, templates, enrolling, ops, overlap,
                 crashes, marks>>

\* Fault: the bit is left set.
KeptMap(p) == UserIDMap

FreedMap(p) == UserIDMap \ {p}

Unmap(t) ==
  /\ doing[t].op = "unmap"
  /\ UserIDMap' = FreedMap(doing[t].pin)
  /\ Then(t, "untemplate")
  /\ UNCHANGED <<users, pos, gUser, templates, cards, enrolling, ops, overlap,
                 crashes, marks>>

\* Fault: the templates of the PIN are left.
KeptTemplates(p) == {}

TemplatesOf(p) == {f \in templates : f.pin = p}

\* FDB_DeleteTmps.
Untemplate(t) ==
  /\ doing[t].op = "untemplate"
  /\ templates' = templates \ TemplatesOf(doing[t].pin)
  /\ Then(t, "idle")
  /\ UNCHANGED <<users, pos, gUser, UserIDMap, cards, enrolling, ops, overlap,
                 crashes, marks>>

\* One of these writes fails; the deletion goes on, or ends.
DelFails(t) ==
  /\ doing[t].op \in {"card", "untemplate"}
  /\ Then(t, IF doing[t].op = "card" THEN "unmap" ELSE "idle")
  /\ torn' = TRUE
  /\ UNCHANGED <<tables, pos, gUser, enrolling, ops, overlap, crashes, garbled,
                 stale, revived, unchecked>>

-----------------------------------------------------------------------------

\* AppendUserTemp for a PIN on file; also the menu's.
AppendUserTemp(p) ==
  /\ WithPin(p) # {}
  /\ Begin("main", "template", p, users[First(WithPin(p))].who)
  /\ Scan(WithPin(p))
  /\ UNCHANGED <<tables, enrolling, crashes, marks>>

\* FDB_AddTmp, which FDB_AddUser may have gone before; it may fail, or there may
\* be as many templates as are allowed.
AddTemplate(t) ==
  /\ doing[t].op = "template"
  /\ \/ templates' = templates \cup {[pin |-> doing[t].pin, who |-> doing[t].who]}
     \/ UNCHANGED templates
  /\ Then(t, "idle")
  /\ UNCHANGED <<users, pos, gUser, UserIDMap, cards, enrolling, ops, overlap,
                 crashes, marks>>

\* ProcessEnroll, CMD_STARTENROLL: the PIN is found, or chosen, before the window
\* opens.  The PC starts no enrolment inside another.
StartEnroll(w) ==
  /\ doing["main"] = Idle /\ enrolling.pin = 0 /\ ops < OpBound
  /\ \/ /\ WithPIN2(w) # {}
        /\ enrolling' = [pin |-> users[First(WithPIN2(w))].pin, who |-> <<w>>, new |-> FALSE]
     \/ /\ WithPIN2(w) = {} /\ GetNextPIN # 0
        /\ enrolling' = [pin |-> GetNextPIN, who |-> <<w>>, new |-> TRUE]
  /\ Scan(WithPIN2(w))
  /\ ops' = ops + 1
  /\ overlap' = (overlap \/ Meets("main"))
  /\ UNCHANGED <<tables, doing, crashes, marks>>

\* The PIN still means what it did: nobody, or the person enrolled.
Meant(e) ==
  IF e.new THEN e.pin \notin UserIDMap /\ {i \in 1 .. Len(users) : users[i].pin # 0 /\ users[i].who = e.who} = {}
  ELSE \E i \in WithPin(e.pin) : users[i].who = e.who

\* The finger was taken, and FDB_AddTmp wrote it under the PIN of the start; for
\* somebody new FDB_AddUser comes behind it, without a look at the capacity.
EnrolFinger ==
  /\ enrolling.pin # 0 /\ doing["main"] = Idle
  /\ templates' = templates \cup {[pin |-> enrolling.pin, who |-> enrolling.who]}
  /\ doing' = [doing EXCEPT !["main"] = [op  |-> IF enrolling.new THEN "enrol" ELSE "rebuild",
                                         pin |-> enrolling.pin, who |-> enrolling.who]]
  /\ IF enrolling.new THEN SeekFree ELSE UNCHANGED <<pos, gUser>>
  /\ enrolling' = NoEnrolment
  /\ overlap' = (overlap \/ Meets("main"))
  /\ stale' = (stale \/ ~Meant(enrolling))
  /\ UNCHANGED <<users, UserIDMap, cards, ops, crashes, torn, garbled, revived, unchecked>>

\* The window closes without a finger, or there are too many templates, or the
\* template cannot be saved.
EnrolFails ==
  /\ enrolling.pin # 0 /\ doing["main"] = Idle
  /\ enrolling' = NoEnrolment
  /\ UNCHANGED <<tables, pos, gUser, doing, ops, overlap, crashes, marks>>

\* FDB_UpdateUserIDMap makes the map from the file: in FDB_InitDBs, at the end of
\* an enrolment and at boot.
MapOfFile == {users[i].pin : i \in 1 .. Len(users)} \ {0}

Rebuild(t) ==
  /\ doing[t].op = "rebuild"
  /\ UserIDMap' = MapOfFile
  /\ pos' = Len(users)
  /\ Then(t, "idle")
  /\ UNCHANGED <<users, gUser, templates, cards, enrolling, ops, overlap, crashes, marks>>

-----------------------------------------------------------------------------

\* ProcessUploadUDiskUser: a file with the record of one person.
ImportUser(w) ==
  /\ enrolling.pin = 0
  /\ Begin("main", "import", 0, <<w>>)
  /\ pos' = 0
  /\ UNCHANGED <<tables, gUser, enrolling, crashes, marks>>

\* The records of the user file with this PIN2, behind the offset.
NextNamed(w) == {i \in pos + 1 .. Len(users) : users[i].who = w}

\* Each is written over, with its PIN; a free one, which keeps its PIN2, gets
\* the next PIN, or stays free when there is none (bit 0 of the map, which this
\* sets, is left out).  A record that cannot be written is met again.
ImportOver(t) ==
  LET d == doing[t]
      i == First(NextNamed(d.who))
      p == IF users[i].pin # 0 THEN users[i].pin ELSE GetNextPIN
  IN  /\ d.op = "import" /\ NextNamed(d.who) # {}
      /\ users' = [users EXCEPT ![i] = [pin |-> p, who |-> d.who]]
      /\ UserIDMap' = UserIDMap \cup ({p} \ {0})
      /\ pos' = i
      /\ gUser' = [pin |-> p, who |-> d.who]
      /\ revived' = (revived \/ (users[i].pin = 0 /\ p # 0
                     /\ \E k \in 1 .. Len(users) : users[k].pin # 0 /\ users[k].who = d.who))
      /\ unchecked' = IF users[i].pin = 0 THEN unchecked \cup ({p} \ {0}) ELSE unchecked
      /\ UNCHANGED <<templates, cards, doing, enrolling, ops, overlap, crashes,
                     torn, garbled, stale>>

\* Somebody without a record is added at last, if there is room: at the end, when
\* nobody is on file.
ImportNew(t) ==
  LET d == doing[t]
  IN  /\ d.op = "import" /\ NextNamed(d.who) = {}
      /\ IF RoomForPC /\ \A i \in 1 .. Len(users) : users[i].who # d.who
         THEN /\ doing' = [doing EXCEPT ![t].op = "add", ![t].pin = GetNextPIN]
              /\ IF UserIDMap = {} THEN pos' = Len(users) /\ UNCHANGED gUser ELSE SeekFree
         ELSE Then(t, "idle") /\ UNCHANGED <<pos, gUser>>
      /\ UNCHANGED <<tables, enrolling, ops, overlap, crashes, marks>>

-----------------------------------------------------------------------------

\* user_update, after the person was added: the card serial number.  A PIN
\* that has one gets the bytes of a pointer written over it, and what
\* follows them on the stack, instead of the new record.
CardUpdate(w, serial) ==
  /\ doing["push"] = Idle /\ WithPIN2(w) # {} /\ ops < OpBound
  /\ LET p   == users[First(WithPIN2(w))].pin
         own == CardsOf(p)
         new == [pin |-> p, serial |-> serial]
     IN  \/ /\ own = {}
            /\ cards' = IF CardsOf(0) = {} THEN Append(cards, new)
                        ELSE [cards EXCEPT ![First(CardsOf(0))] = new]
            /\ UNCHANGED garbled
         \/ /\ own # {} /\ cards[First(own)] # new
            /\ \E any \in 0 .. MaxPin :
                 cards' = [cards EXCEPT ![First(own)] =
                             [pin |-> any, serial |-> "garbage"]]
            /\ garbled' = TRUE
  /\ ops' = ops + 1
  /\ overlap' = (overlap \/ Meets("push"))
  /\ Scan(WithPIN2(w))
  /\ UNCHANGED <<users, UserIDMap, templates, doing, enrolling, crashes, torn,
                 stale, revived, unchecked>>

\* The power fails.
Crash ==
  /\ crashes < CrashBound
  /\ crashes' = crashes + 1
  /\ torn' = (torn \/ \E t \in Threads : doing[t].op \in {"card", "unmap", "untemplate", "enrol"})
  /\ doing' = [t \in Threads |-> Idle]
  /\ enrolling' = NoEnrolment
  /\ UserIDMap' = MapOfFile
  /\ pos' = Len(users)
  /\ gUser' = [pin |-> 0, who |-> Nobody]
  /\ UNCHANGED <<users, templates, cards, ops, overlap, garbled, stale, revived, unchecked>>

Next ==
  \/ \E p \in Pins, w \in People : PCAddUser(p, w) \/ PCChgUser(p, w)
  \/ \E p \in Pins : AppendNamed(p) \/ AppendUserTemp(p)
  \/ \E w \in People :
        \/ \E op \in {"add", "menu"} : AddNextPin(w, op)
        \/ ServerAddUser(w) \/ StartEnroll(w) \/ ImportUser(w)
        \/ \E serial \in Serials : CardUpdate(w, serial)
  \/ EnrolFinger \/ EnrolFails
  \/ \E t \in Threads :
        \/ AddWrite(t) \/ ChgWrite(t) \/ Erase(t) \/ DelCard(t) \/ Unmap(t)
        \/ Untemplate(t) \/ WriteFails(t) \/ DelFails(t) \/ AddTemplate(t)
        \/ Rebuild(t) \/ ImportOver(t) \/ ImportNew(t)
        \/ \E p \in 0 .. MaxPin : DelUser(t, p)
  \/ Crash

Spec == Init /\ [][Next]_vars

-----------------------------------------------------------------------------

Taken == {i \in 1 .. Len(users) : users[i].pin # 0}
Quiet == \A t \in Threads : doing[t] = Idle

\* Until the two threads are in the user file at once, or an enrolment ends
\* behind a change of what its PIN meant.
Apart == ~overlap /\ ~stale

\* Whoever adds and deletes people (PC, menu, card, enrolment, U-disk, server), no
\* PIN is on file twice, and no number (users added with a template have none),
\* through failing writes and power failures too, until the threads meet, an
\* enrolment is behind its lookup, or the U-disk revives a second record.
EachOnce ==
  Apart =>
    \A i, j \in Taken : i # j =>
      /\ users[i].pin # users[j].pin
      /\ users[i].who = users[j].who => revived \/ users[i].who = Nobody

\* ... and between operations the map, which gives out PINs and counts the
\* users, is that of the file.
MapAgrees ==
  Apart /\ Quiet => UserIDMap = {users[i].pin : i \in Taken}

\* A finger on file belongs to the person who has its PIN now, although PINs
\* are given out again: nobody inherits the finger of somebody deleted, until the
\* threads meet, an enrolment is behind its lookup, or a failing write or the
\* power leaves a deletion, or the enrolment of somebody new, half done.
FingersStayOwn ==
  Apart /\ ~torn /\ Quiet =>
    \A f \in templates : \E i \in Taken : users[i].pin = f.pin /\ users[i].who = f.who

\* The same for card serial numbers, until one is changed.
CardsStayOwn ==
  Apart /\ ~torn /\ ~garbled /\ Quiet =>
    \A i, j \in 1 .. Len(cards) :
      cards[i].pin # 0 =>
        /\ \E k \in Taken : users[k].pin = cards[i].pin
        /\ cards[i].pin = cards[j].pin => i = j

\* Of the users whose addition was checked, at most one is above the capacity:
\* the server's check lets one in that the others refuse.  Enrolment, templates
\* with a name and the U-disk's free records are not checked.
AtMostOneOver == Apart => Cardinality(UserIDMap \ unchecked) <= MaxUser + 1

=============================================================================
