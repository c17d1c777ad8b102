------------------------- MODULE PushThreads_proofs -------------------------
(***************************************************************************)
(* Proofs about PushThreads, for pipes of every size, every type behind a   *)
(* command and every list of questions a packet may hold.                   *)
(*                                                                         *)
(* What is left of a handler is one of a few forms (Forms).  On them rest    *)
(* the four arguments: how a question, its answer and the two bits of the   *)
(* mailbox follow each other (Exchange), who still holds RUN_STAT_CMD        *)
(* (Holds), what the copies of running_flag say about the pause (SamePause), *)
(* and a debt of statuses which the child still owes to the pipe (Budget).   *)
(***************************************************************************)
EXTENDS PushThreads, FiniteSets, FiniteSetTheorems, SequenceTheorems, TLAPS

-----------------------------------------------------------------------------
(* The operations a thread may have before it.                              *)

AskOp == [op : {"reset", "request", "await"}, arg : Questions]
LoopOp ==
  AskOp \cup [op : {"set", "clear"}, arg : {"connect"}]
    \cup [op : {"tell"}, arg : {"STATUS"}] \cup [op : {"zero", "self"}, arg : {""}]
AloneOp == [op : {"payload"}, arg : WithType] \cup [op : {"set", "clear"}, arg : {"pause"}]
ParentOp ==
  [op : {"set", "clear"}, arg : {"cmd"}] \cup [op : {"read", "done", "over"}, arg : {""}]
    \cup [op : {"send"}, arg : WithType]

SetCmd   == Op("set", "cmd")
ClearCmd == Op("clear", "cmd")
TellIt   == Op("tell", "STATUS")
FreeIt   == Op("free", "")
ReadIt   == Op("read", "")
DoneIt   == Op("done", "")
OverIt   == Op("over", "")
Zero     == Op("zero", "")
Connect  == Op("set", "connect")
Cut      == Op("clear", "connect")
Self     == Op("self", "")
Again    == Op("send", "RESET_DATA")
News     == Op("send", "NEW_DATA")

ChildOp == LoopOp \cup AloneOp \cup {SetCmd, TellIt, FreeIt, ClearCmd}

\* A question is reset, written and waited for without anything between.
Paired(s) ==
  \A i \in 1 .. Len(s) :
    /\ s[i].op = "reset" => i < Len(s) /\ s[i + 1].op = "request"
    /\ s[i].op = "request" => i < Len(s) /\ s[i + 1].op = "await" /\ (i > 1 => s[i - 1].op = "reset")
    /\ s[i].op = "await" => (i > 1 => s[i - 1].op = "request")

\* A handler does not start in the middle of a question.
Starts(s) == s # <<>> => Head(s).op \notin {"request", "await"}

\* A piece of the loop, one operation alone, or the rest of an upload.
LoopForm(s) == s \in Seq(LoopOp) /\ Paired(s)
Piece(s) == LoopForm(s) /\ Starts(s)
UploadForms ==
  {<<SetCmd, TellIt, FreeIt, ClearCmd>>, <<SetCmd, FreeIt, ClearCmd>>,
   <<TellIt, FreeIt, ClearCmd>>, <<FreeIt, ClearCmd>>, <<ClearCmd>>}
TodoForm(s) == LoopForm(s) \/ s \in UploadForms \/ \E o \in AloneOp : s = <<o>>

\* The rest of a look at the store, of an answer, or writes alone.
LookForms == {<<SetCmd, ReadIt, ClearCmd>>, <<ReadIt, ClearCmd>>, <<ClearCmd>>}
AnswerForms ==
  {<<DoneIt, OverIt>>, <<DoneIt, OverIt, Again, Again, Again>>,
   <<OverIt>>, <<OverIt, Again, Again, Again>>}
SendForms == {<<>>, <<Again>>, <<Again, Again>>, <<Again, Again, Again>>, <<News>>}
ServingForm(s) == s \in LookForms \/ s \in AnswerForms \/ s \in SendForms

Forms == TodoForm(todo) /\ ServingForm(serving)

Cells ==
  /\ flag \subseteq Bits /\ copy \in [Threads -> {<<>>} \cup {<<f>> : f \in SUBSET Bits}]
  /\ conType \in BOOLEAN /\ gAttflag \in {0, 1}
  /\ over \in BOOLEAN /\ done \in BOOLEAN
  /\ toChild \in Seq(ToChild) /\ Len(toChild) <= ChildCap
  /\ toParent \in Seq(ToParent) /\ Len(toParent) <= ParentCap
  /\ at \in {"top", "listen", "call", "warn", "due"}
  /\ inMenu \in BOOLEAN /\ asked \in BOOLEAN
  /\ commands \in 0 .. CommandBound
  /\ lost \in BOOLEAN /\ raced \in BOOLEAN

Typed == Cells /\ Forms

-----------------------------------------------------------------------------

\* The parent does not touch running_flag and is not going to.
Calm ==
  /\ copy["parent"] = <<>> /\ serving \notin LookForms
  /\ \A i \in 1 .. Len(toParent) : toParent[i] # "READ_ATTLOG"

\* A question is the last in the pipe and the child waits behind it; the parent
\* answers one at a time; over is seen behind done and only by its own question.
Exchange ==
  /\ \A i \in 1 .. Len(toParent) :
       toParent[i] \in Questions => i = Len(toParent) /\ Waiting /\ ~over /\ serving \notin AnswerForms
  /\ serving \in AnswerForms =>
       Waiting /\ ~over /\ toParent = <<>> /\ copy["parent"] = <<>> /\ (Head(serving) = OverIt => done)
  /\ Waiting /\ over => done /\ toParent = <<>> /\ Calm
  /\ todo # <<>> /\ Head(todo).op = "request" => ~over

Ops(t) == IF t = "child" THEN todo ELSE serving
Clears(ops) == \E i \in 1 .. Len(ops) : ops[i] = ClearCmd

\* Who set RUN_STAT_CMD, or holds a copy of the flags with it, has still to
\* clear it.
Lets == \E t \in Threads : copy[t] # <<>> /\ "cmd" \notin copy[t][1]
Released == ~raced /\ "cmd" \in flag => Clears(todo) \/ Clears(serving) \/ Lets
Holds ==
  ~raced =>
    \A t \in Threads :
      copy[t] # <<>> /\ "cmd" \in copy[t][1] /\ "cmd" \notin flag => Clears(Ops(t))
Held == Released /\ Holds

\* Without a crossing the parent's copy has the pause the flags have.
SamePause ==
  ~raced /\ copy["parent"] # <<>> => ("pause" \in copy["parent"][1] <=> "pause" \in flag)

\* The child has heard a command and takes the type behind it.
Taking == todo # <<>> /\ Head(todo).op = "payload"
Synced ==
  ~lost => /\ Taking => Whole(<<Head(todo).arg>> \o toChild)
           /\ ~Taking => Whole(toChild)

-----------------------------------------------------------------------------

\* What the child may still write before it has to ask, and so to wait: the
\* statuses in todo, and those of being taken offline again (Debt), and the
\* request for a record, which passes from hand to hand (Tokens).
Where(s, x) == {i \in 1 .. Len(s) : s[i] = x}
Num(s, x) == Cardinality(Where(s, x))
One(b) == IF b THEN 1 ELSE 0

Owed == Num(todo, TellIt)
Asking == Occurs(todo, "await")
Left == CommandBound - commands
Inits == Num(toChild, "RE_INIT")
Selfs == Num(todo, Self)

\* What has been asked of the store: by one at a time.
Looks == Num(toParent, "READ_ATTLOG")
Reads == Num(serving, ReadIt)
Posts == Num(toChild, "POST_ATT")
Frees == Num(todo, FreeIt)

\* The child is offline once todo is done.
Sets == Num(todo, Connect)
Cuts == Num(todo, Cut)
Effective == IF copy["child"] # <<>> THEN copy["child"][1] ELSE flag
Offline == Sets = 0 /\ (Cuts > 0 \/ "connect" \notin Effective)

\* Stores of the parent that may take the child offline.
Loads == Num(serving, SetCmd) + Num(serving, ClearCmd)
Wrong == copy["parent"] # <<>> /\ "connect" \notin copy["parent"][1]

Tokens == 2 * (Reads + Posts) + Frees + gAttflag
Debt == Owed + One(Offline) + Inits + Selfs + 2 + Loads + One(Wrong)

\* How a handler ends, and what the parent has left behind a change of the flags.
Linked(s) ==
  \A i \in 1 .. Len(s) :
    /\ s[i] = Connect => i = Len(s)
    /\ s[i].op = "zero" => i + 1 = Len(s) /\ s[i + 1] = Connect
Plan ==
  /\ at = "warn" /\ todo # <<>> => todo[Len(todo)].op = "await"
  /\ Linked(todo)
  /\ serving = <<ClearCmd>> => copy["parent"] = <<>>

\* The pipe and what is still to be written to it.  While the child asks, the
\* pipe can only get shorter; asked from the loop's end, it is empty behind it.
Budget ==
  /\ Inits + Selfs <= Left
  /\ Looks + Reads + Posts + Frees + gAttflag <= 1
  /\ Asking => Owed <= 1
  /\ Asking /\ Waiting => Len(toParent) <= 7 + Left
  /\ Asking /\ ~Waiting => Len(toParent) + Owed + 1 <= 7 + Left
  /\ ~Asking /\ at = "warn" => toParent = <<>> /\ Calm
  /\ ~Asking /\ at = "due" => Calm
  /\ ~Asking /\ at # "warn" =>
       /\ Len(toParent) + Debt + Tokens <= 7 + Left
       /\ \A k \in Where(toParent, "READ_ATTLOG") : (Len(toParent) - k) + Debt + 4 <= 7 + Left
-----------------------------------------------------------------------------
(* The forms.                                                               *)

LEMMA LoopTail ==
  ASSUME NEW s, LoopForm(s), s # <<>>
  PROVE  LoopForm(Tail(s))
<1>1. s \in Seq(LoopOp) /\ Len(s) \in Nat /\ Len(s) > 0
  BY DEF LoopForm
<1>2. Tail(s) \in Seq(LoopOp) /\ Len(Tail(s)) = Len(s) - 1
  BY <1>1
<1>3. \A i \in 1 .. Len(Tail(s)) : i + 1 \in 1 .. Len(s) /\ Tail(s)[i] = s[i + 1]
  BY <1>1, <1>2
<1>4. Paired(s)
  BY DEF LoopForm
<1>5. ASSUME NEW i \in 1 .. Len(Tail(s))
      PROVE  /\ Tail(s)[i].op = "reset" => i < Len(Tail(s)) /\ Tail(s)[i + 1].op = "request"
             /\ Tail(s)[i].op = "request" =>
                  i < Len(Tail(s)) /\ Tail(s)[i + 1].op = "await" /\ (i > 1 => Tail(s)[i - 1].op = "reset")
             /\ Tail(s)[i].op = "await" => (i > 1 => Tail(s)[i - 1].op = "request")
  <2> DEFINE j == i + 1
  <2>1. j \in 1 .. Len(s) /\ j > 1 /\ j - 1 = i /\ Tail(s)[i] = s[j]
    BY <1>3
  <2>2. /\ s[j].op = "reset" => j < Len(s) /\ s[j + 1].op = "request"
        /\ s[j].op = "request" => j < Len(s) /\ s[j + 1].op = "await" /\ s[j - 1].op = "reset"
        /\ s[j].op = "await" => s[j - 1].op = "request"
    BY <1>4, <2>1 DEF Paired
  <2>3. j < Len(s) => i < Len(Tail(s)) /\ i + 1 \in 1 .. Len(Tail(s)) /\ Tail(s)[i + 1] = s[j + 1]
    BY <1>1, <1>2, <1>3
  <2>4. i > 1 => i - 1 \in 1 .. Len(Tail(s)) /\ Tail(s)[i - 1] = s[j - 1]
    BY <1>1, <1>2, <1>3
  <2> HIDE DEF j
  <2> QED
    BY <2>1, <2>2, <2>3, <2>4
<1> QED
  BY <1>2, <1>5 DEF LoopForm, Paired

LEMMA PieceConcat ==
  ASSUME NEW a, NEW b, Piece(a), Piece(b)
  PROVE  Piece(a \o b)
<1>1. a \in Seq(LoopOp) /\ b \in Seq(LoopOp) /\ Paired(a) /\ Paired(b)
  BY DEF Piece, LoopForm
<1> DEFINE c == a \o b
<1>2. c \in Seq(LoopOp) /\ Len(c) = Len(a) + Len(b) /\ Len(a) \in Nat /\ Len(b) \in Nat
  BY <1>1
<1>3. \A i \in 1 .. Len(c) : c[i] = IF i <= Len(a) THEN a[i] ELSE b[i - Len(a)]
  BY <1>1
<1>4. b # <<>> => b[1].op \notin {"request", "await"}
  BY <1>1 DEF Piece, Starts
<1> HIDE DEF c
<1>5. ASSUME NEW i \in 1 .. Len(c)
      PROVE  /\ c[i].op = "reset" => i < Len(c) /\ c[i + 1].op = "request"
             /\ c[i].op = "request" => i < Len(c) /\ c[i + 1].op = "await" /\ (i > 1 => c[i - 1].op = "reset")
             /\ c[i].op = "await" => (i > 1 => c[i - 1].op = "request")
  <2>1. CASE i <= Len(a)
    <3>1. i \in 1 .. Len(a) /\ c[i] = a[i]
      BY <2>1, <1>2, <1>3
    <3>2. i < Len(a) => i < Len(c) /\ c[i + 1] = a[i + 1]
      BY <3>1, <1>2, <1>3
    <3>3. i > 1 => c[i - 1] = a[i - 1]
      BY <3>1, <1>2, <1>3
    <3> QED
      BY <3>1, <3>2, <3>3, <1>1 DEF Paired
  <2>2. CASE i > Len(a)
    <3> DEFINE j == i - Len(a)
    <3>1. j \in 1 .. Len(b) /\ c[i] = b[j]
      BY <2>2, <1>2, <1>3
    <3>2. j < Len(b) => i < Len(c) /\ c[i + 1] = b[j + 1]
      BY <2>2, <1>2, <1>3
    <3>3. j > 1 => c[i - 1] = b[j - 1]
      BY <2>2, <1>2, <1>3
    <3>4. j = 1 => b[j].op \notin {"request", "await"}
      BY <3>1, <1>4, <1>1
    <3> HIDE DEF j
    <3>5. j = 1 \/ j > 1
      BY <3>1, <1>2
    <3> QED
      BY <3>1, <3>2, <3>3, <3>4, <3>5, <1>1 DEF Paired
  <2> QED
    BY <2>1, <2>2, <1>2
<1>6. Starts(c)
  <2> SUFFICES ASSUME c # <<>> PROVE Head(c).op \notin {"request", "await"}
    BY DEF Starts
  <2>1. Len(c) > 0 /\ Head(c) = c[1]
    BY <1>2
  <2>2. CASE Len(a) > 0
    BY <2>2, <2>1, <1>1, <1>2, <1>3 DEF Piece, Starts
  <2>3. CASE Len(a) = 0
    BY <2>3, <2>1, <1>1, <1>2, <1>3, <1>4
  <2> QED
    BY <2>2, <2>3, <1>2
<1> QED
  BY <1>2, <1>5, <1>6 DEF Piece, LoopForm, Paired, c

LEMMA AskForm ==
  ASSUME NEW q \in Questions
  PROVE  Piece(Ask(q)) /\ Len(Ask(q)) = 3
<1>1. Ask(q) = <<Op("reset", q), Op("request", q), Op("await", q)>>
  BY DEF Ask
<1>2. Op("reset", q) \in LoopOp /\ Op("request", q) \in LoopOp /\ Op("await", q) \in LoopOp
  BY DEF LoopOp, AskOp, Op
<1>3. Ask(q) \in Seq(LoopOp) /\ Len(Ask(q)) = 3
  BY <1>1, <1>2
<1>4. Ask(q)[1].op = "reset" /\ Ask(q)[2].op = "request" /\ Ask(q)[3].op = "await"
  BY <1>1 DEF Op
<1>5. Paired(Ask(q)) /\ Starts(Ask(q))
  BY <1>3, <1>4 DEF Paired, Starts
<1> QED
  BY <1>3, <1>5 DEF Piece, LoopForm

LEMMA AskAllForm ==
  ASSUME NEW qs \in Seq(Questions)
  PROVE  /\ Piece(AskAll(qs))
         /\ AskAll(qs) \in Seq(AskOp)
<1> DEFINE s == AskAll(qs)
           n == Len(qs)
<1>1. n \in Nat /\ s = [i \in 1 .. 3 * n |-> Ask(qs[(i + 2) \div 3])[((i + 2) % 3) + 1]]
  BY DEF AskAll
<1> HIDE DEF s, n
<1>2. ASSUME NEW i \in 1 .. 3 * n
      PROVE  /\ (i + 2) \div 3 \in 1 .. n /\ (i + 2) % 3 \in 0 .. 2
             /\ (i + 2) % 3 # 2 => i + 1 \in 1 .. 3 * n
             /\ (i + 2) % 3 # 2 => ((i + 1) + 2) % 3 = ((i + 2) % 3) + 1
             /\ (i + 2) % 3 # 0 /\ i > 1 =>
                  ((i - 1) + 2) % 3 = ((i + 2) % 3) - 1 /\ i - 1 \in 1 .. 3 * n
  <2>1. i \in Int /\ i >= 1 /\ i <= 3 * n
    BY <1>1
  <2>2. (i + 2) \div 3 \in 1 .. n /\ (i + 2) % 3 \in 0 .. 2
    BY <2>1, <1>1
  <2>3. (i + 2) % 3 # 2 => i + 1 \in 1 .. 3 * n
    <3>1. n \in Nat
      BY <1>1
    <3>2. (3 * n + 2) % 3 = 2
      BY <3>1
    <3>3. i = 3 * n => (i + 2) % 3 = 2
      BY <3>2
    <3>4. i # 3 * n => i + 1 \in 1 .. 3 * n
      BY <3>1, <2>1
    <3> QED
      BY <3>3, <3>4
  <2>4. (i + 2) % 3 # 2 => ((i + 1) + 2) % 3 = ((i + 2) % 3) + 1
    BY <2>1
  <2>5. (i + 2) % 3 # 0 => ((i - 1) + 2) % 3 = ((i + 2) % 3) - 1
    BY <2>1
  <2>6. i > 1 => i - 1 \in 1 .. 3 * n
    BY <2>1, <1>1
  <2> QED
    BY <2>2, <2>3, <2>4, <2>5, <2>6
<1>3. \A i \in 1 .. 3 * n :
        /\ s[i] \in AskOp
        /\ (i + 2) % 3 = 0 <=> s[i].op = "reset"
        /\ (i + 2) % 3 = 1 <=> s[i].op = "request"
        /\ (i + 2) % 3 = 2 <=> s[i].op = "await"
  <2> TAKE i \in 1 .. 3 * n
  <2> DEFINE k == (i + 2) \div 3
             r == (i + 2) % 3
  <2>1. s[i] = Ask(qs[k])[r + 1]
    BY <1>1
  <2>2. k \in 1 .. n /\ r \in 0 .. 2
    BY <1>2
  <2>3. qs[k] \in Questions
    BY <2>2 DEF n
  <2> HIDE DEF k, r
  <2>4. s[i] = IF r = 0 THEN Op("reset", qs[k]) ELSE IF r = 1 THEN Op("request", qs[k]) ELSE Op("await", qs[k])
    BY <2>1, <2>2 DEF Ask
  <2>5. r = 0 \/ r = 1 \/ r = 2
    BY <2>2
  <2>6. s[i] \in AskOp /\ (r = 0 <=> s[i].op = "reset") /\ (r = 1 <=> s[i].op = "request") /\ (r = 2 <=> s[i].op = "await")
    BY <2>3, <2>4, <2>5 DEF Op, AskOp
  <2> QED
    BY <2>6 DEF r
<1>4. s \in Seq(AskOp) /\ Len(s) = 3 * n
  BY <1>1, <1>3
<1>5. s \in Seq(LoopOp)
  <2>1. AskOp \subseteq LoopOp
    BY DEF LoopOp
  <2> QED
    BY <1>4, <2>1
<1>6. Paired(s)
  <2> SUFFICES ASSUME NEW i \in 1 .. 3 * n
               PROVE  /\ s[i].op = "reset" => i < Len(s) /\ s[i + 1].op = "request"
                      /\ s[i].op = "request" => i < Len(s) /\ s[i + 1].op = "await" /\ (i > 1 => s[i - 1].op = "reset")
                      /\ s[i].op = "await" => (i > 1 => s[i - 1].op = "request")
    BY <1>4 DEF Paired
  <2>1. s[i].op = "reset" => i < Len(s) /\ s[i + 1].op = "request"
    <3> SUFFICES ASSUME s[i].op = "reset" PROVE i < Len(s) /\ s[i + 1].op = "request"
      OBVIOUS
    <3>1. (i + 2) % 3 = 0
      BY <1>3
    <3>2. i + 1 \in 1 .. 3 * n /\ ((i + 1) + 2) % 3 = 1
      BY <3>1, <1>2
    <3>3. s[i + 1].op = "request"
      BY <3>2, <1>3
    <3>4. i < Len(s)
      BY <3>2, <1>4
    <3> QED
      BY <3>3, <3>4
  <2>2. s[i].op = "request" => i < Len(s) /\ s[i + 1].op = "await" /\ (i > 1 => s[i - 1].op = "reset")
    <3> SUFFICES ASSUME s[i].op = "request"
                 PROVE  i < Len(s) /\ s[i + 1].op = "await" /\ (i > 1 => s[i - 1].op = "reset")
      OBVIOUS
    <3>1. (i + 2) % 3 = 1
      BY <1>3
    <3>2. i + 1 \in 1 .. 3 * n /\ ((i + 1) + 2) % 3 = 2
      BY <3>1, <1>2
    <3>3. i > 1 => i - 1 \in 1 .. 3 * n /\ ((i - 1) + 2) % 3 = 0
      BY <3>1, <1>2
    <3>4. s[i + 1].op = "await" /\ (i > 1 => s[i - 1].op = "reset")
      BY <3>2, <3>3, <1>3
    <3>5. i < Len(s)
      BY <3>2, <1>4
    <3> QED
      BY <3>4, <3>5
  <2>3. s[i].op = "await" => (i > 1 => s[i - 1].op = "request")
    <3> SUFFICES ASSUME s[i].op = "await", i > 1 PROVE s[i - 1].op = "request"
      OBVIOUS
    <3>1. (i + 2) % 3 = 2
      BY <1>3
    <3>2. i - 1 \in 1 .. 3 * n /\ ((i - 1) + 2) % 3 = 1
      BY <3>1, <1>2
    <3> QED
      BY <3>2, <1>3
  <2> QED
    BY <2>1, <2>2, <2>3
<1>7. Starts(s)
  <2> SUFFICES ASSUME s # <<>> PROVE Head(s).op \notin {"request", "await"}
    BY DEF Starts
  <2>1. 1 \in 1 .. 3 * n /\ Head(s) = s[1] /\ (1 + 2) % 3 = 0
    BY <1>1, <1>4
  <2> QED
    BY <2>1, <1>3
<1> QED
  BY <1>4, <1>5, <1>6, <1>7 DEF Piece, LoopForm, s
\* What the operations are.
LEMMA OpNames ==
  /\ SetCmd.op = "set" /\ SetCmd.arg = "cmd" /\ ClearCmd.op = "clear" /\ ClearCmd.arg = "cmd"
  /\ TellIt.op = "tell" /\ TellIt.arg = "STATUS" /\ FreeIt.op = "free"
  /\ ReadIt.op = "read" /\ DoneIt.op = "done" /\ OverIt.op = "over"
  /\ Again.op = "send" /\ Again.arg = "RESET_DATA" /\ News.op = "send" /\ News.arg = "NEW_DATA"
BY DEF SetCmd, ClearCmd, TellIt, FreeIt, ReadIt, DoneIt, OverIt, Again, News, Op

LEMMA OpTypes ==
  /\ {SetCmd, TellIt, FreeIt, ClearCmd} \subseteq ChildOp /\ LoopOp \subseteq ChildOp
  /\ AloneOp \subseteq ChildOp
  /\ {SetCmd, ReadIt, ClearCmd, DoneIt, OverIt, Again, News} \subseteq ParentOp
  /\ \A o \in ChildOp : o.op \in ChildOps
  /\ \A o \in ParentOp : o.op \in ParentOps
  /\ \A o \in ChildOp :
       /\ o.op \in {"set", "clear"} => o.arg \in Bits
       /\ o.op = "tell" => o = TellIt
       /\ o.op = "request" => o.arg \in Questions
       /\ o.op = "payload" => o.arg \in WithType
<1>1. {SetCmd, TellIt, FreeIt, ClearCmd} \subseteq ChildOp /\ LoopOp \subseteq ChildOp
  BY DEF ChildOp
<1>2. AloneOp \subseteq ChildOp
  BY DEF ChildOp
<1>3. {SetCmd, ReadIt, ClearCmd, DoneIt, OverIt, Again, News} \subseteq ParentOp
  BY DEF ParentOp, SetCmd, ReadIt, ClearCmd, DoneIt, OverIt, Again, News, Op, WithType
<1>4. ASSUME NEW o \in ParentOp PROVE o.op \in ParentOps
  BY DEF ParentOp, ParentOps
<1>5. ASSUME NEW o \in ChildOp
      PROVE  /\ o.op \in ChildOps
             /\ o.op \in {"set", "clear"} => o.arg \in Bits
             /\ o.op = "tell" => o = TellIt
             /\ o.op = "request" => o.arg \in Questions
             /\ o.op = "payload" => o.arg \in WithType
  <2>1. CASE o \in AskOp
    BY <2>1 DEF AskOp, ChildOps
  <2>2. CASE o \in [op : {"set", "clear"}, arg : {"connect"}]
    BY <2>2 DEF ChildOps, Bits
  <2>3. CASE o \in [op : {"tell"}, arg : {"STATUS"}]
    BY <2>3 DEF TellIt, Op, ChildOps
  <2>4. CASE o \in [op : {"zero", "self"}, arg : {""}]
    BY <2>4 DEF ChildOps
  <2>5. CASE o \in AloneOp
    BY <2>5 DEF AloneOp, ChildOps, Bits
  <2>6. CASE o \in {SetCmd, TellIt, FreeIt, ClearCmd}
    BY <2>6, OpNames DEF ChildOps, Bits
  <2> QED
    BY <2>1, <2>2, <2>3, <2>4, <2>5, <2>6 DEF ChildOp, LoopOp
<1> QED
  BY <1>1, <1>2, <1>3, <1>4, <1>5

LEMMA TodoTypes ==
  ASSUME NEW s, TodoForm(s)
  PROVE  s \in Seq(ChildOp)
<1>1. CASE LoopForm(s)
  BY <1>1, OpTypes DEF LoopForm
<1>2. CASE \E o \in AloneOp : s = <<o>>
  BY <1>2, OpTypes
<1>3. CASE s \in UploadForms
  <2>1. SetCmd \in ChildOp /\ TellIt \in ChildOp /\ FreeIt \in ChildOp /\ ClearCmd \in ChildOp
    BY OpTypes
  <2>2. <<SetCmd, TellIt, FreeIt, ClearCmd>> \in Seq(ChildOp) /\ <<SetCmd, FreeIt, ClearCmd>> \in Seq(ChildOp)
    BY <2>1
  <2>3. <<TellIt, FreeIt, ClearCmd>> \in Seq(ChildOp) /\ <<FreeIt, ClearCmd>> \in Seq(ChildOp)
        /\ <<ClearCmd>> \in Seq(ChildOp)
    BY <2>1
  <2> QED
    BY <1>3, <2>2, <2>3, Zenon DEF UploadForms
<1> QED
  BY <1>1, <1>2, <1>3 DEF TodoForm

LEMMA ServingTypes ==
  ASSUME NEW s, ServingForm(s)
  PROVE  s \in Seq(ParentOp)
<1>1. /\ SetCmd \in ParentOp /\ ReadIt \in ParentOp /\ ClearCmd \in ParentOp /\ DoneIt \in ParentOp
      /\ OverIt \in ParentOp /\ Again \in ParentOp /\ News \in ParentOp
  BY OpTypes
<1>2. /\ <<SetCmd, ReadIt, ClearCmd>> \in Seq(ParentOp) /\ <<ReadIt, ClearCmd>> \in Seq(ParentOp)
      /\ <<ClearCmd>> \in Seq(ParentOp)
  BY <1>1
<1>3. /\ <<DoneIt, OverIt>> \in Seq(ParentOp) /\ <<DoneIt, OverIt, Again, Again, Again>> \in Seq(ParentOp)
      /\ <<OverIt>> \in Seq(ParentOp) /\ <<OverIt, Again, Again, Again>> \in Seq(ParentOp)
  BY <1>1
<1>4. /\ <<>> \in Seq(ParentOp) /\ <<Again>> \in Seq(ParentOp) /\ <<Again, Again>> \in Seq(ParentOp)
      /\ <<Again, Again, Again>> \in Seq(ParentOp) /\ <<News>> \in Seq(ParentOp)
  BY <1>1
<1> QED
  BY <1>2, <1>3, <1>4, Zenon DEF ServingForm, LookForms, AnswerForms, SendForms

LEMMA UploadTails ==
  /\ Tail(<<SetCmd, TellIt, FreeIt, ClearCmd>>) = <<TellIt, FreeIt, ClearCmd>>
  /\ Tail(<<SetCmd, FreeIt, ClearCmd>>) = <<FreeIt, ClearCmd>>
  /\ Tail(<<TellIt, FreeIt, ClearCmd>>) = <<FreeIt, ClearCmd>>
  /\ Tail(<<FreeIt, ClearCmd>>) = <<ClearCmd>> /\ Tail(<<ClearCmd>>) = <<>>
OBVIOUS

LEMMA TodoTail ==
  ASSUME NEW s, TodoForm(s), s # <<>>
  PROVE  TodoForm(Tail(s))
<1>1. LoopForm(<<>>)
  BY DEF LoopForm, Paired
<1>2. CASE LoopForm(s)
  BY <1>2, LoopTail DEF TodoForm
<1>3. CASE \E o \in AloneOp : s = <<o>>
  <2>1. Tail(s) = <<>>
    BY <1>3
  <2> QED
    BY <2>1, <1>1 DEF TodoForm
<1>4. CASE s \in UploadForms
  <2>1. Tail(s) \in UploadForms \/ Tail(s) = <<>>
    BY <1>4, UploadTails, Zenon DEF UploadForms
  <2> QED
    BY <2>1, <1>1 DEF TodoForm
<1> QED
  BY <1>2, <1>3, <1>4 DEF TodoForm

\* Where the parent is in a handler, from its next operation.
LEMMA ServingHead ==
  ASSUME NEW s, ServingForm(s), s # <<>>
  PROVE  /\ Head(s).op = "set" => s = <<SetCmd, ReadIt, ClearCmd>>
         /\ Head(s).op = "read" => s = <<ReadIt, ClearCmd>>
         /\ Head(s).op = "clear" => s = <<ClearCmd>>
         /\ Head(s).op = "done" => s \in {<<DoneIt, OverIt>>, <<DoneIt, OverIt, Again, Again, Again>>}
         /\ Head(s).op = "over" => s \in {<<OverIt>>, <<OverIt, Again, Again, Again>>}
         /\ Head(s).op = "send" => s \in {<<Again>>, <<Again, Again>>, <<Again, Again, Again>>, <<News>>}
<1>1. /\ Head(<<SetCmd, ReadIt, ClearCmd>>).op = "set" /\ Head(<<ReadIt, ClearCmd>>).op = "read"
      /\ Head(<<ClearCmd>>).op = "clear"
  BY OpNames
<1>2. /\ Head(<<DoneIt, OverIt>>).op = "done" /\ Head(<<DoneIt, OverIt, Again, Again, Again>>).op = "done"
      /\ Head(<<OverIt>>).op = "over" /\ Head(<<OverIt, Again, Again, Again>>).op = "over"
  BY OpNames
<1>3. /\ Head(<<Again>>).op = "send" /\ Head(<<Again, Again>>).op = "send"
      /\ Head(<<Again, Again, Again>>).op = "send" /\ Head(<<News>>).op = "send"
  BY OpNames
<1>4. CASE s \in LookForms
  <2>1. CASE s = <<SetCmd, ReadIt, ClearCmd>>
    BY <2>1, <1>1
  <2>2. CASE s = <<ReadIt, ClearCmd>>
    BY <2>2, <1>1
  <2>3. CASE s = <<ClearCmd>>
    BY <2>3, <1>1
  <2> QED
    BY <1>4, <2>1, <2>2, <2>3 DEF LookForms
<1>5. CASE s \in AnswerForms
  <2>1. CASE s = <<DoneIt, OverIt>> \/ s = <<DoneIt, OverIt, Again, Again, Again>>
    BY <2>1, <1>2
  <2>2. CASE s = <<OverIt>> \/ s = <<OverIt, Again, Again, Again>>
    BY <2>2, <1>2
  <2> QED
    BY <1>5, <2>1, <2>2 DEF AnswerForms
<1>6. CASE s \in SendForms
  <2>1. Head(s).op = "send" /\ s \in {<<Again>>, <<Again, Again>>, <<Again, Again, Again>>, <<News>>}
    BY <1>6, <1>3, Zenon DEF SendForms
  <2> QED
    BY <2>1
<1> QED
  BY <1>4, <1>5, <1>6 DEF ServingForm

LEMMA ServingTails ==
  /\ Tail(<<SetCmd, ReadIt, ClearCmd>>) = <<ReadIt, ClearCmd>>
  /\ Tail(<<ReadIt, ClearCmd>>) = <<ClearCmd>> /\ Tail(<<ClearCmd>>) = <<>>
  /\ Tail(<<DoneIt, OverIt>>) = <<OverIt>>
  /\ Tail(<<DoneIt, OverIt, Again, Again, Again>>) = <<OverIt, Again, Again, Again>>
  /\ Tail(<<OverIt>>) = <<>> /\ Tail(<<OverIt, Again, Again, Again>>) = <<Again, Again, Again>>
  /\ Tail(<<Again, Again, Again>>) = <<Again, Again>>
  /\ Tail(<<Again, Again>>) = <<Again>> /\ Tail(<<Again>>) = <<>> /\ Tail(<<News>>) = <<>>
OBVIOUS

LEMMA ServingTail ==
  ASSUME NEW s, ServingForm(s), s # <<>>
  PROVE  ServingForm(Tail(s))
<1>1. CASE s \in LookForms
  <2>1. Tail(s) \in LookForms \/ Tail(s) = <<>>
    BY <1>1, ServingTails, Zenon DEF LookForms
  <2> QED
    BY <2>1 DEF ServingForm, SendForms
<1>2. CASE s \in AnswerForms
  <2>1. Tail(s) \in AnswerForms \/ Tail(s) = <<>> \/ Tail(s) = <<Again, Again, Again>>
    BY <1>2, ServingTails, Zenon DEF AnswerForms
  <2> QED
    BY <2>1 DEF ServingForm, SendForms
<1>3. CASE s \in SendForms
  <2>1. Tail(s) \in SendForms
    BY <1>3, ServingTails, Zenon DEF SendForms
  <2> QED
    BY <2>1 DEF ServingForm
<1> QED
  BY <1>1, <1>2, <1>3 DEF ServingForm
LEMMA OneAndOne ==
  ASSUME NEW S, NEW a \in S, NEW b \in S
  PROVE  <<a>> \o <<b>> = <<a, b>>
<1> DEFINE x == <<a>>
           y == <<b>>
           z == <<a, b>>
<1>1. x \in Seq(S) /\ y \in Seq(S) /\ z \in Seq(S)
  OBVIOUS
<1>2. Len(z) = Len(x \o y) /\ x \o y \in Seq(S)
  OBVIOUS
<1>3. \A i \in 1 .. Len(z) : z[i] = (x \o y)[i]
  OBVIOUS
<1> HIDE DEF x, y, z
<1>4. x \o y = z
  BY <1>1, <1>2, <1>3, SeqEqual
<1> QED
  BY <1>4 DEF x, y, z

LEMMA OneAndTwo ==
  ASSUME NEW S, NEW a \in S, NEW b \in S, NEW c \in S
  PROVE  <<a>> \o <<b, c>> = <<a, b, c>>
<1> DEFINE x == <<a>>
           y == <<b, c>>
           z == <<a, b, c>>
<1>1. x \in Seq(S) /\ y \in Seq(S) /\ z \in Seq(S)
  OBVIOUS
<1>2. Len(z) = Len(x \o y) /\ x \o y \in Seq(S)
  OBVIOUS
<1>3. \A i \in 1 .. Len(z) : z[i] = (x \o y)[i]
  OBVIOUS
<1> HIDE DEF x, y, z
<1>4. x \o y = z
  BY <1>1, <1>2, <1>3, SeqEqual
<1> QED
  BY <1>4 DEF x, y, z

LEMMA TwoAndTwo ==
  ASSUME NEW S, NEW a \in S, NEW b \in S, NEW c \in S, NEW d \in S
  PROVE  <<a, b>> \o <<c, d>> = <<a, b, c, d>>
<1> DEFINE x == <<a, b>>
           y == <<c, d>>
           z == <<a, b, c, d>>
<1>1. x \in Seq(S) /\ y \in Seq(S) /\ z \in Seq(S)
  OBVIOUS
<1>2. Len(z) = Len(x \o y) /\ x \o y \in Seq(S)
  OBVIOUS
<1>3. \A i \in 1 .. Len(z) : z[i] = (x \o y)[i]
  OBVIOUS
<1> HIDE DEF x, y, z
<1>4. x \o y = z
  BY <1>1, <1>2, <1>3, SeqEqual
<1> QED
  BY <1>4 DEF x, y, z

LEMMA TwoAndThree ==
  ASSUME NEW S, NEW a \in S, NEW b \in S, NEW c \in S, NEW d \in S, NEW e \in S
  PROVE  <<a, b>> \o <<c, d, e>> = <<a, b, c, d, e>>
<1> DEFINE x == <<a, b>>
           y == <<c, d, e>>
           z == <<a, b, c, d, e>>
<1>1. x \in Seq(S) /\ y \in Seq(S) /\ z \in Seq(S)
  OBVIOUS
<1>2. Len(z) = Len(x \o y) /\ x \o y \in Seq(S)
  OBVIOUS
<1>3. \A i \in 1 .. Len(z) : z[i] = (x \o y)[i]
  OBVIOUS
<1> HIDE DEF x, y, z
<1>4. x \o y = z
  BY <1>1, <1>2, <1>3, SeqEqual
<1> QED
  BY <1>4 DEF x, y, z

LEMMA FormsApart ==
  ASSUME NEW s
  PROVE  /\ s \in LookForms => s # <<>> /\ Head(s).op \in {"set", "read", "clear"} /\ s \notin AnswerForms
         /\ s \in AnswerForms => s # <<>> /\ Head(s) \in {DoneIt, OverIt} /\ s \notin LookForms
         /\ s \in SendForms => s \notin LookForms /\ s \notin AnswerForms
<1>1. s \in LookForms => s # <<>> /\ Head(s).op \in {"set", "read", "clear"}
  <2>1. CASE s = <<SetCmd, ReadIt, ClearCmd>>
    BY <2>1, OpNames
  <2>2. CASE s = <<ReadIt, ClearCmd>>
    BY <2>2, OpNames
  <2>3. CASE s = <<ClearCmd>>
    BY <2>3, OpNames
  <2> QED
    BY <2>1, <2>2, <2>3 DEF LookForms
<1>2. s \in AnswerForms => s # <<>> /\ Head(s) \in {DoneIt, OverIt}
  <2>1. CASE s = <<DoneIt, OverIt>> \/ s = <<DoneIt, OverIt, Again, Again, Again>>
    BY <2>1
  <2>2. CASE s = <<OverIt>> \/ s = <<OverIt, Again, Again, Again>>
    BY <2>2
  <2> QED
    BY <2>1, <2>2 DEF AnswerForms
<1>3. s \in SendForms => s = <<>> \/ Head(s).op = "send"
  <2>1. CASE s \in {<<Again>>, <<Again, Again>>}
    BY <2>1, OpNames
  <2>2. CASE s \in {<<Again, Again, Again>>, <<News>>}
    BY <2>2, OpNames
  <2> QED
    BY <2>1, <2>2 DEF SendForms
<1>4. Head(s) \in {DoneIt, OverIt} => Head(s).op \in {"done", "over"}
  BY OpNames
<1> QED
  BY <1>1, <1>2, <1>3, <1>4, Zenon

\* Where the child is in a handler, from its next operation.
LEMMA TodoHead ==
  ASSUME NEW s, TodoForm(s), s # <<>>
  PROVE  /\ Head(s) \in ChildOp
         /\ Head(s).op = "free" => s = <<FreeIt, ClearCmd>>
         /\ Head(s) = SetCmd => s \in {<<SetCmd, TellIt, FreeIt, ClearCmd>>, <<SetCmd, FreeIt, ClearCmd>>}
         /\ Head(s) = ClearCmd => s = <<ClearCmd>>
         /\ Head(s) \in AloneOp => s = <<Head(s)>>
         /\ Head(s).op \in {"reset", "request", "await", "zero", "self"} => LoopForm(s)
         /\ Head(s).op = "tell" => Head(s) = TellIt /\ (LoopForm(s) \/ s = <<TellIt, FreeIt, ClearCmd>>)
         /\ Head(s).op \in {"set", "clear"} /\ Head(s).arg = "connect" => LoopForm(s)
<1>1. Head(s) \in ChildOp /\ s \in Seq(ChildOp)
  BY TodoTypes
<1>2. CASE LoopForm(s)
  <2>1. Head(s) \in LoopOp
    BY <1>2 DEF LoopForm
  <2>2. ASSUME NEW o \in LoopOp
        PROVE  /\ o.op # "free" /\ o # SetCmd /\ o # ClearCmd /\ o \notin AloneOp
               /\ o.op = "tell" => o = TellIt
    <3>1. o \in AloneOp => o.op = "payload" \/ (o.op \in {"set", "clear"} /\ o.arg = "pause")
      BY DEF AloneOp
    <3>2. CASE o \in AskOp
      BY <3>1, <3>2, OpNames DEF AskOp
    <3>3. CASE o \in [op : {"set", "clear"}, arg : {"connect"}]
      BY <3>1, <3>3, OpNames
    <3>4. CASE o \in [op : {"tell"}, arg : {"STATUS"}]
      BY <3>1, <3>4, OpNames DEF TellIt, Op
    <3>5. CASE o \in [op : {"zero", "self"}, arg : {""}]
      BY <3>1, <3>5, OpNames
    <3> QED
      BY <3>2, <3>3, <3>4, <3>5 DEF LoopOp
  <2> QED
    BY <1>1, <1>2, <2>1, <2>2
<1>3. CASE \E o \in AloneOp : s = <<o>>
  <2>1. PICK o \in AloneOp : s = <<o>>
    BY <1>3
  <2>2. Head(s) = o
    BY <2>1
  <2>3. /\ o.op \notin {"free", "reset", "request", "await", "zero", "self", "tell"}
        /\ o # SetCmd /\ o # ClearCmd /\ (o.op \in {"set", "clear"} => o.arg # "connect")
    BY DEF AloneOp, SetCmd, ClearCmd, Op
  <2> QED
    BY <1>1, <2>1, <2>2, <2>3, Zenon
<1>4. CASE s \in UploadForms
  <2>1. ~(SetCmd \in AloneOp) /\ ~(ClearCmd \in AloneOp) /\ ~(TellIt \in AloneOp) /\ ~(FreeIt \in AloneOp)
        /\ SetCmd # ClearCmd
    BY DEF AloneOp, SetCmd, ClearCmd, TellIt, FreeIt, Op
  <2>2. CASE s = <<SetCmd, TellIt, FreeIt, ClearCmd>> \/ s = <<SetCmd, FreeIt, ClearCmd>>
    <3>1. Head(s) = SetCmd
      BY <2>2
    <3> QED
      BY <1>1, <2>1, <2>2, <3>1, OpNames
  <2>3. CASE s = <<TellIt, FreeIt, ClearCmd>>
    <3>1. Head(s) = TellIt
      BY <2>3
    <3> QED
      BY <1>1, <2>1, <2>3, <3>1, OpNames, Zenon
  <2>4. CASE s = <<FreeIt, ClearCmd>>
    <3>1. Head(s) = FreeIt
      BY <2>4
    <3>2. FreeIt # SetCmd /\ FreeIt # ClearCmd
      BY OpNames
    <3> QED
      BY <1>1, <2>1, <2>4, <3>1, <3>2, OpNames
  <2>5. CASE s = <<ClearCmd>>
    <3>1. Head(s) = ClearCmd
      BY <2>5
    <3> QED
      BY <1>1, <2>1, <2>5, <3>1, OpNames
  <2> QED
    BY <1>4, <2>2, <2>3, <2>4, <2>5 DEF UploadForms
<1> QED
  BY <1>2, <1>3, <1>4 DEF TodoForm

\* The pieces without a question.
Plain == {TellIt, Op("clear", "connect"), Op("set", "connect"), Op("zero", ""), Op("self", "")}

LEMMA PlainForm ==
  ASSUME NEW s \in Seq(Plain)
  PROVE  Piece(s)
<1>1. ASSUME NEW o \in Plain PROVE o \in LoopOp /\ o.op \notin {"reset", "request", "await"}
  <2>1. CASE o = TellIt
    BY <2>1 DEF LoopOp, TellIt, Op
  <2>2. CASE o \in {Op("clear", "connect"), Op("set", "connect")}
    <3>1. o \in [op : {"set", "clear"}, arg : {"connect"}] /\ o.op \in {"set", "clear"}
      BY <2>2 DEF Op
    <3> QED
      BY <3>1 DEF LoopOp
  <2>3. CASE o \in {Op("zero", ""), Op("self", "")}
    <3>1. CASE o = Op("zero", "")
      BY <3>1 DEF LoopOp, Op
    <3>2. CASE o = Op("self", "")
      BY <3>2 DEF LoopOp, Op
    <3> QED
      BY <2>3, <3>1, <3>2
  <2> QED
    BY <2>1, <2>2, <2>3 DEF Plain
<1>2. Plain \subseteq LoopOp /\ \A o \in Plain : o.op \notin {"reset", "request", "await"}
  BY <1>1
<1>3. s \in Seq(LoopOp)
  BY <1>2
<1>4. \A i \in 1 .. Len(s) : s[i].op \notin {"reset", "request", "await"}
  BY <1>2
<1>5. Paired(s)
  BY <1>4 DEF Paired
<1>6. Starts(s)
  <2> SUFFICES ASSUME s # <<>> PROVE Head(s).op \notin {"request", "await"}
    BY DEF Starts
  <2>1. 1 \in 1 .. Len(s) /\ Head(s) = s[1]
    OBVIOUS
  <2> QED
    BY <2>1, <1>4
<1> QED
  BY <1>3, <1>5, <1>6 DEF Piece, LoopForm

LEMMA ServicesForm ==
  ASSUME NEW asks \in Services
  PROVE  Piece(asks)
<1>1. CASE asks = <<>>
  <2>1. asks \in Seq(Plain)
    BY <1>1
  <2> QED
    BY <2>1, PlainForm
<1>2. ASSUME NEW qs \in Downloads, asks = AskAll(qs) PROVE Piece(asks)
  <2>1. qs \in Seq(Questions)
    BY RunAssumption
  <2> QED
    BY <1>2, <2>1, AskAllForm
<1>3. CASE asks = AskAll(<<"SET_OPTIONS", "SET_OPTIONS">>) \o <<Op("self", "")>>
  <2>1. <<"SET_OPTIONS", "SET_OPTIONS">> \in Seq(Questions)
    BY DEF Questions
  <2>2. <<Op("self", "")>> \in Seq(Plain)
    BY DEF Plain
  <2>3. Piece(AskAll(<<"SET_OPTIONS", "SET_OPTIONS">>)) /\ Piece(<<Op("self", "")>>)
    BY <2>1, <2>2, AskAllForm, PlainForm
  <2> QED
    BY <1>3, <2>3, PieceConcat
<1> QED
  BY <1>1, <1>2, <1>3 DEF Services

LEMMA PostIs ==
  ASSUME NEW end \in PostEnds
  PROVE  Post(end) \in {<<SetCmd, TellIt, FreeIt, ClearCmd>>, <<SetCmd, FreeIt, ClearCmd>>}
<1>1. Post(end) = <<SetCmd>> \o end \o <<FreeIt, ClearCmd>>
  BY DEF Post, SetCmd, FreeIt, ClearCmd
<1>2. end = <<>> \/ end = <<TellIt>>
  BY DEF PostEnds, TellIt
<1>3. SetCmd \in ChildOp /\ TellIt \in ChildOp /\ FreeIt \in ChildOp /\ ClearCmd \in ChildOp
  BY OpTypes
<1>4. <<SetCmd>> \o <<FreeIt, ClearCmd>> = <<SetCmd, FreeIt, ClearCmd>>
  BY <1>3, OneAndTwo
<1>5. <<SetCmd>> \o <<TellIt>> = <<SetCmd, TellIt>>
  BY <1>3, OneAndOne
<1>6. <<SetCmd, TellIt>> \o <<FreeIt, ClearCmd>> = <<SetCmd, TellIt, FreeIt, ClearCmd>>
  BY <1>3, TwoAndTwo
<1>7. <<SetCmd>> \o <<>> = <<SetCmd>>
  BY <1>3
<1>8. CASE end = <<>>
  BY <1>1, <1>4, <1>7, <1>8
<1>9. CASE end = <<TellIt>>
  BY <1>1, <1>5, <1>6, <1>9
<1> QED
  BY <1>2, <1>8, <1>9

LEMMA HandlerForm ==
  ASSUME NEW c \in ToParent
  PROVE  /\ ServingForm(Handler(c))
         /\ c \in Questions => Handler(c) \in AnswerForms /\ Head(Handler(c)) = DoneIt
         /\ c = "READ_ATTLOG" => Handler(c) = <<SetCmd, ReadIt, ClearCmd>>
         /\ c = "STATUS" => Handler(c) = <<>>
<1>1. CASE c = "READ_ATTLOG"
  <2>1. Handler(c) = <<SetCmd, ReadIt, ClearCmd>>
    BY <1>1 DEF Handler, Questions, SetCmd, ReadIt, ClearCmd
  <2> QED
    BY <1>1, <2>1 DEF ServingForm, LookForms, Questions
<1>2. CASE c = "STATUS"
  <2>1. Handler(c) = <<>>
    BY <1>2 DEF Handler, Questions
  <2> QED
    BY <1>2, <2>1 DEF ServingForm, SendForms, Questions
<1>3. CASE c \in Questions
  <2>1. Answer(c) = <<DoneIt, OverIt>>
    BY DEF Answer, DoneIt, OverIt
  <2>2. StartOver = <<Again, Again, Again>>
    BY DEF StartOver, Again
  <2>3. <<DoneIt, OverIt>> \o <<Again, Again, Again>> = <<DoneIt, OverIt, Again, Again, Again>>
    <3>1. DoneIt \in ParentOp /\ OverIt \in ParentOp /\ Again \in ParentOp
      BY OpTypes
    <3> QED
      BY <3>1, TwoAndThree
  <2>4. <<DoneIt, OverIt>> \o <<>> = <<DoneIt, OverIt>>
    OBVIOUS
  <2>5. Handler(c) = <<DoneIt, OverIt, Again, Again, Again>> \/ Handler(c) = <<DoneIt, OverIt>>
    BY <1>3, <2>1, <2>2, <2>3, <2>4 DEF Handler
  <2>6. Handler(c) \in AnswerForms
    BY <2>5 DEF AnswerForms
  <2>7. Head(Handler(c)) = DoneIt
    BY <2>5
  <2> QED
    BY <1>3, <2>6, <2>7 DEF ServingForm, Questions
<1> QED
  BY <1>1, <1>2, <1>3 DEF ToParent
-----------------------------------------------------------------------------
(* Types.                                                                   *)

LEMMA TypedIsTypeOK ==
  ASSUME Typed
  PROVE  TypeOK
<1>1. todo \in Seq(ChildOp) /\ serving \in Seq(ParentOp)
  BY TodoTypes, ServingTypes DEF Typed, Forms
<1>2. \A i \in 1 .. Len(todo) : todo[i].op \in ChildOps
  BY <1>1, OpTypes
<1>3. \A i \in 1 .. Len(serving) : serving[i].op \in ParentOps
  BY <1>1, OpTypes
<1>4. commands \in Nat
  BY RunAssumption DEF Typed, Cells
<1> QED
  BY <1>2, <1>3, <1>4 DEF Typed, Cells, TypeOK

\* A write to a pipe.
LEMMA PutTypes ==
  ASSUME NEW S, NEW pipe \in Seq(S), NEW bytes \in Seq(S), NEW cap \in Nat, Len(pipe) <= cap
  PROVE  Put(pipe, bytes, cap) \in Seq(S) /\ Len(Put(pipe, bytes, cap)) <= cap
BY DEF Put, Fits

LEMMA TypeTypes == Type \in Seq(ToChild) /\ Len(Type) = PayBytes /\ \A i \in 1 .. PayBytes : Type[i] = "byte"
<1>1. PayBytes \in Nat /\ "byte" \in ToChild
  BY PipeAssumption DEF ToChild
<1> QED
  BY <1>1 DEF Type

LEMMA TellChildTypes ==
  ASSUME Cells, NEW c \in ToChild, TellChild(c)
  PROVE  /\ toChild' \in Seq(ToChild) /\ Len(toChild') <= ChildCap
         /\ lost' \in BOOLEAN
<1> DEFINE first == Put(toChild, <<c>>, ChildCap)
<1>1. toChild \in Seq(ToChild) /\ Len(toChild) <= ChildCap /\ ChildCap \in Nat /\ lost \in BOOLEAN
  BY PipeAssumption DEF Cells
<1>2. first \in Seq(ToChild) /\ Len(first) <= ChildCap
  <2> DEFINE bytes == <<c>>
  <2>1. bytes \in Seq(ToChild)
    OBVIOUS
  <2> HIDE DEF bytes
  <2>2. Put(toChild, bytes, ChildCap) \in Seq(ToChild) /\ Len(Put(toChild, bytes, ChildCap)) <= ChildCap
    BY <1>1, <2>1, PutTypes
  <2> QED
    BY <2>2 DEF bytes
<1>3. Put(first, Type, ChildCap) \in Seq(ToChild) /\ Len(Put(first, Type, ChildCap)) <= ChildCap
  BY <1>1, <1>2, PutTypes, TypeTypes
<1>4. /\ toChild' = (IF c \in WithType THEN Put(first, Type, ChildCap) ELSE first)
      /\ lost' \in BOOLEAN
  BY <1>1 DEF TellChild
<1> QED
  BY <1>2, <1>3, <1>4

LEMMA TypedInit ==
  ASSUME Init
  PROVE  Typed
<1>1. Cells
  <2>1. flag \subseteq Bits /\ copy \in [Threads -> {<<>>} \cup {<<f>> : f \in SUBSET Bits}]
    BY DEF Init, Bits
  <2>2. toChild \in Seq(ToChild) /\ Len(toChild) <= ChildCap /\ toParent \in Seq(ToParent) /\ Len(toParent) <= ParentCap
    BY PipeAssumption DEF Init, ToParent
  <2>3. commands \in 0 .. CommandBound
    BY RunAssumption DEF Init
  <2> QED
    BY <2>1, <2>2, <2>3 DEF Init, Cells
<1>2. LoopForm(<<>>)
  BY DEF LoopForm, Paired
<1>3. Forms
  BY <1>2 DEF Init, Forms, TodoForm, ServingForm, SendForms
<1> QED
  BY <1>1, <1>3 DEF Typed

LEMMA AloneTodo ==
  ASSUME NEW o \in AloneOp
  PROVE  TodoForm(<<o>>)
BY DEF TodoForm

\* What the child has before it when a handler starts.
LEMMA NewTodo ==
  /\ Piece(<<>>) /\ Piece(Status) /\ Piece(Disconnect)
  /\ Piece(<<Op("zero", ""), Op("set", "connect")>>)
  /\ Piece(CheckErrorStatus)
  /\ \A a, b : Piece(a) /\ Piece(b) => Piece(a \o b)
  /\ \A a : Piece(a) => TodoForm(a)
<1>1. <<>> \in Seq(Plain) /\ Status \in Seq(Plain) /\ Disconnect \in Seq(Plain)
  BY DEF Plain, Status, Disconnect, TellIt
<1>2. <<Op("zero", ""), Op("set", "connect")>> \in Seq(Plain)
  BY DEF Plain
<1>3. Piece(CheckErrorStatus)
  BY AskForm DEF CheckErrorStatus, Questions
<1> QED
  BY <1>1, <1>2, <1>3, PlainForm, PieceConcat DEF Piece, TodoForm
LEMMA ParentTyped ==
  ASSUME Typed, ParentService \/ MainTells \/ EnterMenu \/ LeaveMenu
  PROVE  Typed'
<1>1. Cells /\ TodoForm(todo) /\ ServingForm(serving) /\ serving \in Seq(ParentOp)
  BY ServingTypes DEF Typed, Forms
<1>2. ServingForm(<<>>)
  BY DEF ServingForm, SendForms
<1> USE DEF flags, mailbox, pipes, child, main, history
<1>3. CASE ParentTake
  <2>1. ServingForm(serving')
    <3>1. Head(toParent) \in ToParent
      BY <1>1, <1>3 DEF ParentTake, Cells
    <3> QED
      BY <1>3, <3>1, HandlerForm DEF ParentTake
  <2>2. toParent' \in Seq(ToParent) /\ Len(toParent') <= ParentCap
    <3>1. toParent # <<>> /\ toParent' = Tail(toParent) /\ ParentCap \in Nat
      BY <1>3, PipeAssumption DEF ParentTake
    <3>2. toParent \in Seq(ToParent) /\ Len(toParent) <= ParentCap
      BY <1>1 DEF Cells
    <3> QED
      BY <3>1, <3>2
  <2> QED
    BY <1>1, <1>3, <2>1, <2>2 DEF ParentTake, Typed, Cells, Forms
<1>4. \A o : Serve(o) => serving # <<>> /\ ServingForm(serving') /\ Head(serving) \in ParentOp /\ Head(serving).op = o
  BY <1>1, ServingTail DEF Serve
<1>5. CASE ParentFlag
  <2>1. ServingForm(serving') /\ Head(serving) \in ParentOp /\ Head(serving).op \in {"set", "clear"}
    BY <1>4, <1>5 DEF ParentFlag
  <2>2. Head(serving).arg \in Bits
    BY <2>1 DEF ParentOp, Bits
  <2>3. \E f \in SUBSET Bits : copy' = [copy EXCEPT !["parent"] = <<f>>]
    BY <1>1, <1>5, <2>2 DEF ParentFlag, Load, Cells
  <2>4. copy' \in [Threads -> {<<>>} \cup {<<f>> : f \in SUBSET Bits}]
    BY <1>1, <2>3 DEF Cells
  <2> QED
    BY <1>1, <1>5, <2>1, <2>4 DEF ParentFlag, Typed, Cells, Forms
<1>6. CASE ParentDone
  BY <1>1, <1>4, <1>6 DEF ParentDone, Typed, Cells, Forms
<1>7. CASE ParentOver
  BY <1>1, <1>4, <1>7 DEF ParentOver, Typed, Cells, Forms
<1>8. CASE ParentSend
  <2>1. Head(serving).arg \in ToChild
    <3>1. Head(serving) \in ParentOp /\ Head(serving).op = "send"
      BY <1>4, <1>8 DEF ParentSend
    <3> QED
      BY <3>1 DEF ParentOp, ToChild
  <2>2. toChild' \in Seq(ToChild) /\ Len(toChild') <= ChildCap /\ lost' \in BOOLEAN
    BY <1>1, <1>8, <2>1, TellChildTypes DEF ParentSend
  <2> QED
    BY <1>1, <1>4, <1>8, <2>2 DEF ParentSend, Typed, Cells, Forms
<1>9. CASE ParentRead
  <2>1. toChild' \in Seq(ToChild) /\ Len(toChild') <= ChildCap /\ lost' \in BOOLEAN /\ gAttflag' \in {0, 1}
    <3>1. CASE TellChild("POST_ATT") /\ UNCHANGED gAttflag
      BY <1>1, <3>1, TellChildTypes DEF ToChild, Cells
    <3>2. CASE gAttflag' = 1 /\ UNCHANGED <<toChild, lost>>
      BY <1>1, <3>2 DEF Cells
    <3> QED
      BY <1>9, <3>1, <3>2 DEF ParentRead
  <2> QED
    BY <1>1, <1>4, <1>9, <2>1 DEF ParentRead, Typed, Cells, Forms
<1>10. CASE Store("parent")
  <2>1. copy["parent"] # <<>> /\ copy["parent"] \in {<<>>} \cup {<<f>> : f \in SUBSET Bits}
    BY <1>1, <1>10 DEF Store, Cells, Threads
  <2>2. copy["parent"][1] \subseteq Bits
    BY <2>1
  <2>3. copy' \in [Threads -> {<<>>} \cup {<<f>> : f \in SUBSET Bits}]
    BY <1>1, <1>10 DEF Store, Cells
  <2>4. raced' \in BOOLEAN
    BY <1>1, <1>10 DEF Store, Cells
  <2> QED
    BY <1>1, <1>10, <2>2, <2>3, <2>4 DEF Store, Typed, Cells, Forms
<1>11. CASE MainTells
  <2>1. PICK c \in {"NEW_DATA", "RESET_DATA", "RE_INIT"} : TellChild(c)
    BY <1>11 DEF MainTells, Tells
  <2>2. c \in ToChild
    BY <2>1 DEF ToChild, WithType, Flags
  <2>3. toChild' \in Seq(ToChild) /\ Len(toChild') <= ChildCap /\ lost' \in BOOLEAN
    BY <1>1, <2>1, <2>2, TellChildTypes
  <2>4. commands' \in 0 .. CommandBound
    BY <1>1, <1>11, RunAssumption DEF MainTells, Tells, Cells
  <2> QED
    BY <1>1, <1>11, <2>3, <2>4 DEF MainTells, Tells, Typed, Cells, Forms
<1>12. CASE EnterMenu
  <2>1. toChild' \in Seq(ToChild) /\ Len(toChild') <= ChildCap /\ lost' \in BOOLEAN
    BY <1>1, <1>12, TellChildTypes DEF EnterMenu, ToChild, Flags
  <2>2. commands' \in 0 .. CommandBound
    BY <1>1, <1>12, RunAssumption DEF EnterMenu, Cells
  <2> QED
    BY <1>1, <1>12, <2>1, <2>2 DEF EnterMenu, Typed, Cells, Forms
<1>13. CASE LeaveMenu
  <2>1. toChild' \in Seq(ToChild) /\ Len(toChild') <= ChildCap /\ lost' \in BOOLEAN
    BY <1>1, <1>13, TellChildTypes DEF LeaveMenu, ToChild, Flags
  <2>2. serving' = <<News>>
    BY <1>13 DEF LeaveMenu, News
  <2> QED
    BY <1>1, <1>13, <2>1, <2>2 DEF LeaveMenu, Typed, Cells, Forms, ServingForm, SendForms
<1> QED
  BY <1>3, <1>5, <1>6, <1>7, <1>8, <1>9, <1>10, <1>11, <1>12, <1>13 DEF ParentService

LEMMA ChildTyped ==
  ASSUME Typed, ChildNext
  PROVE  Typed'
<1>1. Cells /\ TodoForm(todo) /\ ServingForm(serving) /\ todo \in Seq(ChildOp)
  BY TodoTypes DEF Typed, Forms
<1> USE DEF flags, mailbox, pipes, child, main, history
<1>2. CASE Top \/ Silence \/ Paused
  BY <1>1, <1>2 DEF Top, Silence, Paused, Typed, Cells, Forms
<1>3. CASE Hear
  <2> DEFINE c == Head(toChild)
  <2>1. toChild # <<>> /\ toChild' = Tail(toChild) /\ at' = "call"
    BY <1>3 DEF Hear
  <2>2. toChild' \in Seq(ToChild) /\ Len(toChild') <= ChildCap
    BY <1>1, <2>1, PipeAssumption DEF Cells
  <2>3. TodoForm(todo')
    <3>1. CASE c \in WithType /\ todo' = <<Op("payload", c)>>
      <4>1. Op("payload", c) \in AloneOp
        BY <3>1 DEF AloneOp, Op
      <4> QED
        BY <3>1, <4>1, AloneTodo
    <3>2. CASE c \in Flags /\ todo' = <<FlagHandler(c)>>
      <4>1. CASE c = "RE_INIT"
        <5>1. todo' = Disconnect
          BY <3>2, <4>1 DEF FlagHandler, Disconnect
        <5> QED
          BY <5>1, NewTodo
      <4>2. CASE c \in {"PAUSE", "RESUME"}
        <5>1. FlagHandler(c) \in AloneOp
          BY <4>2 DEF FlagHandler, AloneOp, Op
        <5> QED
          BY <3>2, <5>1, AloneTodo
      <4> QED
        BY <3>2, <4>1, <4>2 DEF Flags
    <3>3. CASE c = "POST_ATT" /\ \E end \in PostEnds : todo' = Post(end)
      BY <3>3, PostIs DEF TodoForm, UploadForms
    <3>4. CASE c = "byte" /\ UNCHANGED todo
      BY <1>1, <3>4
    <3> QED
      BY <1>3, <3>1, <3>2, <3>3, <3>4 DEF Hear
  <2> QED
    BY <1>1, <1>3, <2>2, <2>3 DEF Hear, Typed, Cells, Forms
<1>4. \A o : Do(o) => todo # <<>> /\ TodoForm(todo') /\ Head(todo) \in ChildOp /\ Head(todo).op = o
  BY <1>1, TodoTail DEF Do
<1>5. CASE ChildPayload
  <2>1. Payload \in Nat
    BY PipeAssumption DEF Payload
  <2>2. toChild' \in Seq(ToChild) /\ Len(toChild') <= ChildCap
    <3>1. CASE Len(toChild) >= Payload
      <4>1. toChild' = SubSeq(toChild, Payload + 1, Len(toChild))
        BY <1>5, <3>1 DEF ChildPayload
      <4>2. SubSeq(toChild, Payload + 1, Len(toChild)) \in Seq(ToChild)
            /\ Len(SubSeq(toChild, Payload + 1, Len(toChild))) <= Len(toChild)
        BY <1>1, <2>1, <3>1 DEF Cells
      <4> QED
        BY <1>1, <4>1, <4>2, PipeAssumption DEF Cells
    <3>2. CASE ~(Len(toChild) >= Payload)
      <4>1. toChild' = toChild
        BY <1>5, <3>2 DEF ChildPayload
      <4> QED
        BY <1>1, <4>1 DEF Cells
    <3> QED
      BY <3>1, <3>2
  <2>3. conType' \in BOOLEAN
    BY <1>1, <1>5 DEF ChildPayload, Cells
  <2> QED
    BY <1>1, <1>4, <1>5, <2>2, <2>3 DEF ChildPayload, Typed, Cells, Forms
<1>6. CASE ChildFlag
  <2>1. TodoForm(todo') /\ Head(todo) \in ChildOp /\ Head(todo).op \in {"set", "clear"}
    BY <1>4, <1>6 DEF ChildFlag
  <2>2. Head(todo).arg \in Bits
    BY <2>1, OpTypes
  <2>3. \E f \in SUBSET Bits : copy' = [copy EXCEPT !["child"] = <<f>>]
    BY <1>1, <1>6, <2>2 DEF ChildFlag, Load, Cells
  <2>4. copy' \in [Threads -> {<<>>} \cup {<<f>> : f \in SUBSET Bits}]
    BY <1>1, <2>3 DEF Cells
  <2> QED
    BY <1>1, <1>6, <2>1, <2>4 DEF ChildFlag, Typed, Cells, Forms
<1>7. CASE ChildZero
  BY <1>1, <1>4, <1>7 DEF ChildZero, Typed, Cells, Forms
<1>8. CASE ChildFreesUpload
  BY <1>1, <1>4, <1>8 DEF ChildFreesUpload, Typed, Cells, Forms
<1>9. CASE ChildReset
  BY <1>1, <1>4, <1>9 DEF ChildReset, Typed, Cells, Forms
<1>10. CASE ChildTell
  <2>1. Head(todo) \in ChildOp /\ Head(todo).op \in {"tell", "request"} /\ TodoForm(todo')
    BY <1>4, <1>10 DEF ChildTell
  <2> DEFINE a == Head(todo).arg
  <2>2. a \in ToParent
    BY <2>1, OpTypes, OpNames DEF ToParent
  <2> HIDE DEF a
  <2> DEFINE bytes == <<a>>
  <2>3. bytes \in Seq(ToParent)
    BY <2>2
  <2> HIDE DEF bytes
  <2>4. Put(toParent, bytes, ParentCap) \in Seq(ToParent) /\ Len(Put(toParent, bytes, ParentCap)) <= ParentCap
    BY <1>1, <2>3, PutTypes, PipeAssumption DEF Cells
  <2>5. toParent' = Put(toParent, bytes, ParentCap)
    BY <1>10 DEF ChildTell, a, bytes
  <2> QED
    BY <1>1, <1>10, <2>1, <2>4, <2>5 DEF ChildTell, Typed, Cells, Forms
<1>11. CASE ChildAwait
  BY <1>1, <1>4, <1>11 DEF ChildAwait, Typed, Cells, Forms
<1>12. CASE ChildSelf
  <2>1. toChild' \in Seq(ToChild) /\ Len(toChild') <= ChildCap /\ lost' \in BOOLEAN
    BY <1>1, <1>12, TellChildTypes DEF ChildSelf, ToChild, Flags
  <2> QED
    BY <1>1, <1>4, <1>12, <2>1 DEF ChildSelf, Typed, Cells, Forms
<1>13. CASE Store("child")
  <2>1. copy["child"] # <<>> /\ copy["child"] \in {<<>>} \cup {<<f>> : f \in SUBSET Bits}
    BY <1>1, <1>13 DEF Store, Cells, Threads
  <2>2. copy["child"][1] \subseteq Bits
    BY <2>1
  <2>3. copy' \in [Threads -> {<<>>} \cup {<<f>> : f \in SUBSET Bits}]
    BY <1>1, <1>13 DEF Store, Cells
  <2>4. raced' \in BOOLEAN
    BY <1>1, <1>13 DEF Store, Cells
  <2> QED
    BY <1>1, <1>13, <2>2, <2>3, <2>4 DEF Store, Typed, Cells, Forms
<1>14. \A n \in Nat : Disturbs(n) => commands' \in 0 .. CommandBound
  BY <1>1, RunAssumption DEF Disturbs, Cells
<1>15. \A asks : Moves(asks) \in Nat /\ Moves(asks) + 1 \in Nat
  BY DEF Moves
<1>16. CASE Reconnect
  <2>1. PICK asks \in Services :
       \/ /\ Disturbs(Moves(asks))
          /\ \/ todo' = asks \o Status \o <<Op("zero", ""), Op("set", "connect")>>
             \/ todo' = asks \o Disconnect
       \/ /\ Disturbs(Moves(asks) + 1)
          /\ todo' = asks \o Status \o Disconnect
    BY <1>16 DEF Reconnect
  <2>2. commands' \in 0 .. CommandBound
    BY <2>1, <1>14, <1>15
  <2>3. Piece(asks) /\ Piece(asks \o Status)
    BY ServicesForm, NewTodo
  <2>4. TodoForm(todo')
    BY <2>1, <2>3, NewTodo
  <2> QED
    BY <1>1, <1>16, <2>2, <2>4 DEF Reconnect, Typed, Cells, Forms
<1>17. CASE Heartbeat
  <2>1. PICK asks \in Services, answer \in {<<>>, Status} :
          Disturbs(Moves(asks)) /\ todo' = asks \o answer \o CheckErrorStatus
    BY <1>17 DEF Heartbeat
  <2>2. commands' \in 0 .. CommandBound
    BY <2>1, <1>14, <1>15
  <2>3. Piece(asks) /\ Piece(answer) /\ Piece(asks \o answer)
    BY ServicesForm, NewTodo
  <2>4. TodoForm(todo')
    BY <2>1, <2>3, NewTodo
  <2> QED
    BY <1>1, <1>17, <2>2, <2>4 DEF Heartbeat, Typed, Cells, Forms
<1>18. CASE Warn
  <2>1. PICK warning \in Warnings, failed \in {<<>>, Disconnect \o Status} : todo' = warning \o failed
    BY <1>18 DEF Warn
  <2>2. Piece(warning) /\ Piece(failed)
    BY NewTodo DEF Warnings
  <2>3. TodoForm(todo')
    BY <2>1, <2>2, NewTodo
  <2> QED
    BY <1>1, <1>18, <2>3 DEF Warn, Typed, Cells, Forms
<1>19. CASE PostDue
  <2>1. gAttflag' \in {0, 1} /\ toParent' \in Seq(ToParent) /\ Len(toParent') <= ParentCap
    <3>1. <<"READ_ATTLOG">> \in Seq(ToParent)
      BY DEF ToParent
    <3>2. Put(toParent, <<"READ_ATTLOG">>, ParentCap) \in Seq(ToParent)
          /\ Len(Put(toParent, <<"READ_ATTLOG">>, ParentCap)) <= ParentCap
      BY <1>1, <3>1, PutTypes, PipeAssumption DEF Cells
    <3> QED
      BY <1>1, <1>19, <3>2 DEF PostDue, Cells
  <2> QED
    BY <1>1, <1>19, <2>1 DEF PostDue, Typed, Cells, Forms
<1>20. CASE NotYet
  <2>1. todo' = <<ClearCmd>>
    BY <1>20 DEF NotYet, ClearCmd
  <2>2. TodoForm(todo')
    BY <2>1 DEF TodoForm, UploadForms
  <2> QED
    BY <1>1, <1>20, <2>2 DEF NotYet, Typed, Cells, Forms
<1> QED
  BY <1>2, <1>3, <1>5, <1>6, <1>7, <1>8, <1>9, <1>10, <1>11, <1>12, <1>13, <1>16, <1>17,
     <1>18, <1>19, <1>20 DEF ChildNext

LEMMA TypedStep ==
  ASSUME Typed, [Next]_vars
  PROVE  Typed'
<1>1. CASE UNCHANGED vars
  BY <1>1 DEF vars, flags, mailbox, pipes, child, main, history, Typed, Cells, Forms
<1> QED
  BY <1>1, ParentTyped, ChildTyped DEF Next

\* Every variable stays what it is declared to be: a bounded pipe holds at most
\* what it has room for, whoever writes to it and whatever is dropped.
THEOREM Types == Spec => []TypeOK
<1>1. Init => Typed
  BY TypedInit
<1>2. Typed /\ [Next]_vars => Typed'
  BY TypedStep
<1>3. Typed => TypeOK
  BY TypedIsTypeOK
<1> QED
  BY <1>1, <1>2, <1>3, PTL DEF Spec
-----------------------------------------------------------------------------
(* A question, its answer and the two bits of the mailbox.                  *)

LEMMA TailStarts ==
  ASSUME NEW s, TodoForm(s), s # <<>>
  PROVE  /\ Head(s).op \notin {"reset", "request"} => Starts(Tail(s))
         /\ Head(s).op = "reset" => Tail(s) # <<>> /\ Head(Tail(s)).op = "request"
         /\ Head(s).op = "request" => Tail(s) # <<>> /\ Head(Tail(s)).op = "await"
<1>1. CASE LoopForm(s)
  <2> DEFINE n == Len(s)
  <2>1. s \in Seq(LoopOp) /\ Paired(s) /\ n \in Nat /\ n >= 1
    BY <1>1 DEF LoopForm
  <2>2. Head(s) = s[1] /\ Tail(s) \in Seq(LoopOp) /\ Len(Tail(s)) = n - 1
    BY <2>1
  <2>3. n >= 2 => Tail(s) # <<>> /\ Head(Tail(s)) = s[2]
    BY <2>1, <2>2
  <2>4. n < 2 => Tail(s) = <<>>
    BY <2>1, <2>2
  <2>5. n >= 2 => /\ s[2].op = "request" => s[1].op = "reset"
                  /\ s[2].op = "await" => s[1].op = "request"
    <3> SUFFICES ASSUME n >= 2
                 PROVE  /\ s[2].op = "request" => s[1].op = "reset"
                        /\ s[2].op = "await" => s[1].op = "request"
      OBVIOUS
    <3>1. 2 \in 1 .. Len(s) /\ 2 > 1 /\ 2 - 1 = 1
      BY <2>1
    <3> QED
      BY <2>1, <3>1 DEF Paired
  <2>6. /\ s[1].op = "reset" => n >= 2 /\ s[2].op = "request"
        /\ s[1].op = "request" => n >= 2 /\ s[2].op = "await"
    <3>1. 1 \in 1 .. Len(s) /\ 1 + 1 = 2
      BY <2>1
    <3>2. 1 < Len(s) => n >= 2
      BY <2>1
    <3> HIDE DEF n
    <3> QED
      BY <2>1, <3>1, <3>2 DEF Paired
  <2>7. n >= 2 \/ n < 2
    BY <2>1
  <2> HIDE DEF n
  <2> QED
    BY <2>2, <2>3, <2>4, <2>5, <2>6, <2>7 DEF Starts
<1>2. CASE \E o \in AloneOp : s = <<o>>
  <2>1. Tail(s) = <<>> /\ Head(s) \in AloneOp
    BY <1>2
  <2>2. Head(s).op \notin {"reset", "request"}
    BY <2>1 DEF AloneOp
  <2> QED
    BY <2>1, <2>2 DEF Starts
<1>3. CASE s \in UploadForms
  <2>1. Head(s).op \notin {"reset", "request"}
    <3>1. Head(s) \in {SetCmd, TellIt, FreeIt, ClearCmd}
      <4>1. CASE s = <<SetCmd, TellIt, FreeIt, ClearCmd>> \/ s = <<SetCmd, FreeIt, ClearCmd>>
        BY <4>1
      <4>2. CASE s = <<TellIt, FreeIt, ClearCmd>>
        BY <4>2
      <4>3. CASE s = <<FreeIt, ClearCmd>> \/ s = <<ClearCmd>>
        BY <4>3
      <4> QED
        BY <1>3, <4>1, <4>2, <4>3 DEF UploadForms
    <3> QED
      BY <3>1, OpNames
  <2>2. CASE s = <<SetCmd, TellIt, FreeIt, ClearCmd>>
    <3>1. Head(Tail(s)) = TellIt
      BY <2>2
    <3> QED
      BY <2>1, <3>1, OpNames DEF Starts
  <2>3. CASE s = <<SetCmd, FreeIt, ClearCmd>> \/ s = <<TellIt, FreeIt, ClearCmd>>
    <3>1. Head(Tail(s)) = FreeIt
      BY <2>3
    <3> QED
      BY <2>1, <3>1, OpNames DEF Starts
  <2>4. CASE s = <<FreeIt, ClearCmd>>
    <3>1. Head(Tail(s)) = ClearCmd
      BY <2>4
    <3> QED
      BY <2>1, <3>1, OpNames DEF Starts
  <2>5. CASE s = <<ClearCmd>>
    <3>1. Tail(s) = <<>>
      BY <2>5
    <3> QED
      BY <2>1, <3>1 DEF Starts
  <2> QED
    BY <1>3, <2>2, <2>3, <2>4, <2>5 DEF UploadForms
<1> QED
  BY <1>1, <1>2, <1>3 DEF TodoForm

\* How a handler of the child starts.
LEMMA HandlerStarts ==
  ASSUME Hear \/ Reconnect \/ Heartbeat \/ Warn \/ NotYet
  PROVE  todo = <<>> /\ Starts(todo')
<1>1. todo = <<>>
  BY DEF Hear, Reconnect, Heartbeat, Warn, NotYet, Working, ChildFree
<1>2. \A a, b, c : Piece(a) /\ Piece(b) /\ Piece(c) => Starts(a \o b) /\ Starts(a \o b \o c)
  BY NewTodo DEF Piece
<1>3. CASE Hear
  <2> DEFINE c == Head(toChild)
  <2>1. CASE c \in WithType /\ todo' = <<Op("payload", c)>>
    <3>1. Head(todo') = Op("payload", c)
      BY <2>1
    <3> QED
      BY <1>1, <3>1 DEF Starts, Op
  <2>2. CASE todo' = <<FlagHandler(c)>>
    <3>1. Head(todo') = FlagHandler(c) /\ FlagHandler(c).op \in {"set", "clear"}
      BY <2>2 DEF FlagHandler, Op
    <3> QED
      BY <1>1, <3>1 DEF Starts
  <2>3. CASE \E end \in PostEnds : todo' = Post(end)
    <3>1. Head(todo') = SetCmd
      <4>1. todo' = <<SetCmd, TellIt, FreeIt, ClearCmd>> \/ todo' = <<SetCmd, FreeIt, ClearCmd>>
        BY <2>3, PostIs
      <4> QED
        BY <4>1
    <3> QED
      BY <1>1, <3>1, OpNames DEF Starts
  <2>4. CASE UNCHANGED todo
    BY <1>1, <2>4 DEF Starts
  <2> QED
    BY <1>3, <2>1, <2>2, <2>3, <2>4 DEF Hear
<1>4. CASE Reconnect
  <2>1. \E asks \in Services :
          \/ todo' = asks \o Status \o <<Op("zero", ""), Op("set", "connect")>>
          \/ todo' = asks \o Disconnect
          \/ todo' = asks \o Status \o Disconnect
    BY <1>4 DEF Reconnect
  <2> QED
    BY <1>1, <1>2, <2>1, ServicesForm, NewTodo
<1>5. CASE Heartbeat
  <2>1. \E asks \in Services, answer \in {<<>>, Status} : todo' = asks \o answer \o CheckErrorStatus
    BY <1>5 DEF Heartbeat
  <2> QED
    BY <1>1, <1>2, <2>1, ServicesForm, NewTodo
<1>6. CASE Warn
  <2>1. PICK warning \in Warnings, failed \in {<<>>, Disconnect \o Status} : todo' = warning \o failed
    BY <1>6 DEF Warn
  <2>2. Piece(warning) /\ Piece(failed)
    BY NewTodo DEF Warnings
  <2> QED
    BY <1>1, <1>2, <2>1, <2>2
<1>7. CASE NotYet
  <2>1. todo' = <<ClearCmd>>
    BY <1>7 DEF NotYet, ClearCmd
  <2>2. Head(todo') = ClearCmd
    BY <2>1
  <2> QED
    BY <1>1, <2>2, OpNames DEF Starts
<1> QED
  BY <1>3, <1>4, <1>5, <1>6, <1>7

\* While the child does not wait no question is under way.
LEMMA NoQuestion ==
  ASSUME Typed, Exchange, ~Waiting
  PROVE  serving \notin AnswerForms /\ \A i \in 1 .. Len(toParent) : toParent[i] \notin Questions
BY DEF Exchange

LEMMA ExchangeSame ==
  ASSUME Exchange,
         toParent' = toParent, serving' = serving, over' = over, done' = done, todo' = todo,
         copy'["parent"] = copy["parent"]
  PROVE  Exchange'
BY DEF Exchange, Calm, Waiting

LEMMA ExchangeAtStart ==
  ASSUME Starts(todo'), serving' \notin AnswerForms,
         \A i \in 1 .. Len(toParent') : toParent'[i] \notin Questions
  PROVE  Exchange'
<1>1. ~Waiting' /\ ~(todo' # <<>> /\ Head(todo').op = "request")
  BY DEF Starts, Waiting
<1> QED
  BY <1>1, Zenon DEF Exchange
LEMMA ParentExchange ==
  ASSUME Typed, Exchange, ParentService \/ MainTells \/ EnterMenu \/ LeaveMenu
  PROVE  Exchange'
<1>1. Cells /\ TodoForm(todo) /\ ServingForm(serving)
  BY DEF Typed, Forms
<1>2. toParent \in Seq(ToParent)
  BY <1>1 DEF Cells
<1> USE DEF flags, mailbox, pipes, child, main, history
<1>3. CASE ParentTake
  <2> DEFINE c == Head(toParent)
  <2>1. /\ serving = <<>> /\ copy["parent"] = <<>> /\ toParent # <<>>
        /\ serving' = Handler(c) /\ toParent' = Tail(toParent)
        /\ todo' = todo /\ over' = over /\ done' = done /\ copy' = copy
    BY <1>3 DEF ParentTake, ParentIdle
  <2>2. c \in ToParent /\ Len(toParent) >= 1 /\ c = toParent[1]
    BY <1>2, <2>1
  <2>3. \A i \in 1 .. Len(toParent') : toParent'[i] = toParent[i + 1] /\ i + 1 \in 1 .. Len(toParent)
                                        /\ (i = Len(toParent') <=> i + 1 = Len(toParent))
    BY <1>2, <2>1
  <2>4. ~(Waiting /\ over)
    BY <2>1 DEF Exchange
  <2>5. CASE c \in Questions
    <3>1. Len(toParent) = 1 /\ Waiting /\ ~over
      <4>1. 1 \in 1 .. Len(toParent) /\ toParent[1] \in Questions
        BY <1>2, <2>2, <2>5
      <4>2. 1 = Len(toParent) /\ Waiting /\ ~over
        BY <4>1, Zenon DEF Exchange
      <4> QED
        BY <4>2
    <3>2. toParent' = <<>>
      BY <1>2, <2>1, <3>1
    <3>3. serving' \in AnswerForms /\ Head(serving') = DoneIt
      BY <2>1, <2>2, <2>5, HandlerForm
    <3>4. DoneIt # OverIt
      BY OpNames
    <3>5. Head(todo).op = "await" /\ todo # <<>>
      BY <3>1 DEF Waiting
    <3>6. \A i \in 1 .. Len(toParent') : FALSE
      BY <3>2
    <3> QED
      BY <2>1, <3>1, <3>2, <3>3, <3>4, <3>5, <3>6 DEF Exchange, Waiting
  <2>6. CASE c \notin Questions
    <3>1. serving' \notin AnswerForms
      <4>1. c = "READ_ATTLOG" \/ c = "STATUS"
        BY <2>2, <2>6 DEF ToParent
      <4>2. serving' = <<SetCmd, ReadIt, ClearCmd>> \/ serving' = <<>>
        BY <2>1, <2>2, <4>1, HandlerForm
      <4>3. serving' \in LookForms \/ serving' \in SendForms
        BY <4>2 DEF LookForms, SendForms
      <4> QED
        BY <4>3, FormsApart
    <3>2. ASSUME NEW i \in 1 .. Len(toParent'), toParent'[i] \in Questions
          PROVE  i = Len(toParent') /\ Waiting /\ ~over
      BY <2>3, <3>2 DEF Exchange
    <3> QED
      BY <2>1, <2>4, <3>1, <3>2 DEF Exchange, Waiting
  <2> QED
    BY <2>5, <2>6
<1>4. \A o : Serve(o) =>
        /\ serving # <<>> /\ copy["parent"] = <<>> /\ Head(serving).op = o /\ serving' = Tail(serving)
  BY DEF Serve
<1>5. CASE ParentFlag \/ ParentRead
  <2>1. /\ serving # <<>> /\ Head(serving).op \in {"set", "clear", "read"} /\ serving' = Tail(serving)
        /\ toParent' = toParent /\ todo' = todo /\ over' = over /\ done' = done
    BY <1>4, <1>5 DEF ParentFlag, ParentRead
  <2>2. serving \in {<<SetCmd, ReadIt, ClearCmd>>, <<ReadIt, ClearCmd>>, <<ClearCmd>>}
    BY <1>1, <2>1, ServingHead
  <2>3. serving \in LookForms
    BY <2>2 DEF LookForms
  <2>4. serving' \in {<<ReadIt, ClearCmd>>, <<ClearCmd>>, <<>>}
    BY <2>1, <2>2, ServingTails
  <2>5. serving' \in LookForms \/ serving' \in SendForms
    BY <2>4 DEF LookForms, SendForms
  <2>6. serving' \notin AnswerForms /\ serving \notin AnswerForms
    BY <2>3, <2>5, FormsApart
  <2>7. ~(Waiting /\ over)
    BY <2>3 DEF Exchange, Calm
  <2> QED
    BY <2>1, <2>6, <2>7 DEF Exchange, Waiting
<1>6. CASE ParentDone
  <2>1. /\ serving # <<>> /\ Head(serving).op = "done" /\ serving' = Tail(serving) /\ done' = TRUE
        /\ toParent' = toParent /\ todo' = todo /\ over' = over /\ copy' = copy
    BY <1>4, <1>6 DEF ParentDone
  <2>2. serving \in AnswerForms /\ serving' \in {<<OverIt>>, <<OverIt, Again, Again, Again>>}
    <3>1. serving \in {<<DoneIt, OverIt>>, <<DoneIt, OverIt, Again, Again, Again>>}
      BY <1>1, <2>1, ServingHead
    <3> QED
      BY <2>1, <3>1, ServingTails DEF AnswerForms
  <2>3. serving' \in AnswerForms
    BY <2>2 DEF AnswerForms
  <2>4. Waiting /\ ~over /\ toParent = <<>> /\ copy["parent"] = <<>>
    BY <2>2 DEF Exchange
  <2>5. \A i \in 1 .. Len(toParent') : FALSE
    BY <2>1, <2>4
  <2>6. todo # <<>> /\ Head(todo).op = "await"
    BY <2>4 DEF Waiting
  <2> QED
    BY <2>1, <2>3, <2>4, <2>5, <2>6 DEF Exchange, Waiting
<1>7. CASE ParentOver
  <2>1. /\ serving # <<>> /\ Head(serving).op = "over" /\ serving' = Tail(serving) /\ over' = TRUE
        /\ toParent' = toParent /\ todo' = todo /\ done' = done /\ copy' = copy
    BY <1>4, <1>7 DEF ParentOver
  <2>2. serving \in {<<OverIt>>, <<OverIt, Again, Again, Again>>}
    BY <1>1, <2>1, ServingHead
  <2>3. serving' \in {<<>>, <<Again, Again, Again>>} /\ Head(serving) = OverIt
    <3>1. CASE serving = <<OverIt>>
      BY <2>1, <3>1, ServingTails
    <3>2. CASE serving = <<OverIt, Again, Again, Again>>
      BY <2>1, <3>2, ServingTails
    <3> QED
      BY <2>2, <3>1, <3>2
  <2>4. serving \in AnswerForms /\ serving' \in SendForms
    BY <2>2, <2>3 DEF AnswerForms, SendForms
  <2>5. Waiting /\ toParent = <<>> /\ copy["parent"] = <<>> /\ done
    BY <2>3, <2>4 DEF Exchange
  <2>6. serving' \notin AnswerForms /\ serving' \notin LookForms
    BY <2>4, FormsApart
  <2>7. \A i \in 1 .. Len(toParent') : FALSE
    BY <2>1, <2>5
  <2>8. todo # <<>> /\ Head(todo).op = "await"
    BY <2>5 DEF Waiting
  <2> QED
    BY <2>1, <2>5, <2>6, <2>7, <2>8 DEF Exchange, Waiting, Calm
<1>8. CASE ParentSend
  <2>1. /\ serving # <<>> /\ Head(serving).op = "send" /\ serving' = Tail(serving)
        /\ toParent' = toParent /\ todo' = todo /\ done' = done /\ over' = over /\ copy' = copy
    BY <1>4, <1>8 DEF ParentSend
  <2>2. serving \in {<<Again>>, <<Again, Again>>, <<Again, Again, Again>>, <<News>>}
    BY <1>1, <2>1, ServingHead
  <2>3. serving \in SendForms /\ serving' \in SendForms
    BY <2>1, <2>2, ServingTails DEF SendForms
  <2>4. serving' \notin AnswerForms /\ serving' \notin LookForms /\ serving \notin LookForms
    BY <2>3, FormsApart
  <2> QED
    BY <2>1, <2>4 DEF Exchange, Waiting, Calm
<1>9. CASE Store("parent")
  <2>1. /\ copy["parent"] # <<>> /\ copy' = [copy EXCEPT !["parent"] = <<>>] /\ serving' = serving
        /\ toParent' = toParent /\ todo' = todo /\ done' = done /\ over' = over
    BY <1>9 DEF Store
  <2>2. ~(Waiting /\ over) /\ serving \notin AnswerForms
    BY <2>1 DEF Exchange, Calm
  <2> QED
    BY <2>1, <2>2 DEF Exchange, Waiting
<1>10. CASE MainTells \/ EnterMenu
  <2>1. /\ serving' = serving /\ toParent' = toParent /\ todo' = todo /\ done' = done /\ over' = over
        /\ copy' = copy
    BY <1>10 DEF MainTells, Tells, EnterMenu
  <2> QED
    BY <2>1, ExchangeSame
<1>11. CASE LeaveMenu
  <2>1. /\ serving = <<>> /\ serving' = <<News>> /\ toParent' = toParent /\ todo' = todo /\ done' = done
        /\ over' = over /\ copy' = copy
    BY <1>11 DEF LeaveMenu, ParentIdle, News
  <2>2. serving' \in SendForms
    BY <2>1 DEF SendForms
  <2>3. serving' \notin AnswerForms /\ serving' \notin LookForms
    BY <2>2, FormsApart
  <2> QED
    BY <2>1, <2>3 DEF Exchange, Waiting, Calm
<1> QED
  BY <1>3, <1>5, <1>6, <1>7, <1>8, <1>9, <1>10, <1>11 DEF ParentService

LEMMA ChildExchange ==
  ASSUME Typed, Exchange, ChildNext
  PROVE  Exchange'
<1>1. Cells /\ TodoForm(todo) /\ ServingForm(serving) /\ todo \in Seq(ChildOp)
  BY TodoTypes DEF Typed, Forms
<1>2. toParent \in Seq(ToParent)
  BY <1>1 DEF Cells
<1>3. todo = <<>> => ~Waiting /\ Starts(todo)
  BY DEF Waiting, Starts
<1> USE DEF flags, mailbox, pipes, child, main, history
<1>4. CASE Top \/ Silence \/ Paused
  BY <1>4, ExchangeSame DEF Top, Silence, Paused
<1>5. CASE Store("child")
  <2>1. copy'["parent"] = copy["parent"]
    BY <1>1, <1>5 DEF Store, Cells, Threads
  <2> QED
    BY <1>5, <2>1, ExchangeSame DEF Store
<1>6. CASE Hear \/ Reconnect \/ Heartbeat \/ Warn \/ NotYet
  <2>1. todo = <<>> /\ Starts(todo') /\ toParent' = toParent /\ serving' = serving
    BY <1>6, HandlerStarts DEF Hear, Reconnect, Heartbeat, Warn, NotYet
  <2>2. serving' \notin AnswerForms /\ \A i \in 1 .. Len(toParent') : toParent'[i] \notin Questions
    BY <1>3, <2>1, NoQuestion
  <2> QED
    BY <2>1, <2>2, ExchangeAtStart
<1>7. CASE PostDue
  <2>1. todo = <<>> /\ todo' = todo /\ serving' = serving
    BY <1>7 DEF PostDue, Working, ChildFree
  <2>2. serving' \notin AnswerForms /\ \A i \in 1 .. Len(toParent) : toParent[i] \notin Questions
    BY <1>3, <2>1, NoQuestion
  <2>3. toParent' = toParent \/ toParent' = toParent \o <<"READ_ATTLOG">>
    BY <1>7 DEF PostDue, Put
  <2>4. \A i \in 1 .. Len(toParent') : toParent'[i] \notin Questions
    <3>1. CASE toParent' = toParent
      BY <2>2, <3>1
    <3>2. CASE toParent' = toParent \o <<"READ_ATTLOG">>
      <4>1. <<"READ_ATTLOG">> \in Seq(ToParent) /\ "READ_ATTLOG" \notin Questions
        BY DEF ToParent, Questions
      <4>2. \A i \in 1 .. Len(toParent') : (i \in 1 .. Len(toParent) /\ toParent'[i] = toParent[i])
                                            \/ toParent'[i] = "READ_ATTLOG"
        BY <1>2, <3>2, <4>1
      <4> QED
        BY <2>2, <4>1, <4>2
    <3> QED
      BY <2>3, <3>1, <3>2
  <2> QED
    BY <1>3, <2>1, <2>2, <2>4, ExchangeAtStart
<1>8. \A o : Do(o) => todo # <<>> /\ Head(todo).op = o /\ todo' = Tail(todo)
  BY DEF Do
<1>9. CASE ChildPayload \/ ChildFlag \/ ChildZero \/ ChildFreesUpload \/ ChildSelf
  <2>1. /\ todo # <<>> /\ Head(todo).op \in {"payload", "set", "clear", "zero", "free", "self"}
        /\ todo' = Tail(todo) /\ toParent' = toParent /\ serving' = serving
    BY <1>8, <1>9 DEF ChildPayload, ChildFlag, ChildZero, ChildFreesUpload, ChildSelf
  <2>2. ~Waiting /\ Starts(todo')
    BY <1>1, <2>1, TailStarts DEF Waiting
  <2>3. serving' \notin AnswerForms /\ \A i \in 1 .. Len(toParent') : toParent'[i] \notin Questions
    BY <2>1, <2>2, NoQuestion
  <2> QED
    BY <2>2, <2>3, ExchangeAtStart
<1>10. CASE ChildReset
  <2>1. /\ todo # <<>> /\ Head(todo).op = "reset" /\ todo' = Tail(todo) /\ toParent' = toParent
        /\ serving' = serving /\ ~over'
    BY <1>8, <1>10 DEF ChildReset
  <2>2. ~Waiting /\ Head(todo').op = "request" /\ todo' # <<>>
    BY <1>1, <2>1, TailStarts DEF Waiting
  <2>3. serving' \notin AnswerForms /\ \A i \in 1 .. Len(toParent') : toParent'[i] \notin Questions
    BY <2>1, <2>2, NoQuestion
  <2> QED
    BY <2>1, <2>2, <2>3, Zenon DEF Exchange
<1>11. CASE ChildTell
  <2>1. /\ todo # <<>> /\ Head(todo).op \in {"tell", "request"} /\ todo' = Tail(todo) /\ serving' = serving
        /\ over' = over /\ copy' = copy /\ done' = done
    BY <1>8, <1>11 DEF ChildTell
  <2>2. ~Waiting
    BY <2>1 DEF Waiting
  <2>3. serving \notin AnswerForms /\ \A i \in 1 .. Len(toParent) : toParent[i] \notin Questions
    BY <2>2, NoQuestion
  <2> DEFINE a == Head(todo).arg
  <2>4. toParent' = toParent \/ toParent' = toParent \o <<a>>
    BY <1>11 DEF ChildTell, Put
  <2>5. Head(todo) \in ChildOp
    BY <1>1, <2>1
  <2>6. a \in ToParent
    BY <2>1, <2>5, OpTypes, OpNames DEF ToParent
  <2>7. \A i \in 1 .. Len(toParent') : toParent'[i] \in Questions => i = Len(toParent') /\ toParent'[i] = a
    <3>1. CASE toParent' = toParent
      BY <2>3, <3>1
    <3>2. CASE toParent' = toParent \o <<a>>
      <4> HIDE DEF a
      <4>1. \A i \in 1 .. Len(toParent') : (i \in 1 .. Len(toParent) /\ toParent'[i] = toParent[i])
                                            \/ (i = Len(toParent') /\ toParent'[i] = a)
        BY <1>2, <2>6, <3>2
      <4> QED
        BY <2>3, <4>1
    <3> QED
      BY <2>4, <3>1, <3>2
  <2>8. CASE Head(todo).op = "tell"
    <3>1. a = "STATUS" /\ "STATUS" \notin Questions
      BY <2>5, <2>8, OpTypes, OpNames DEF Questions
    <3>2. Starts(todo')
      BY <1>1, <2>1, <2>8, TailStarts
    <3> QED
      BY <2>1, <2>3, <2>7, <3>1, <3>2, ExchangeAtStart
  <2>9. CASE Head(todo).op = "request"
    <3>1. todo' # <<>> /\ Head(todo').op = "await" /\ Waiting'
      BY <1>1, <2>1, <2>9, TailStarts DEF Waiting
    <3>2. ~over'
      BY <2>1, <2>9 DEF Exchange
    <3> HIDE DEF a
    <3> QED
      BY <2>1, <2>3, <2>7, <3>1, <3>2, Zenon DEF Exchange
  <2> QED
    BY <2>1, <2>8, <2>9
<1>12. CASE ChildAwait
  <2>1. /\ todo # <<>> /\ Head(todo).op = "await" /\ todo' = Tail(todo) /\ toParent' = toParent
        /\ serving' = serving /\ over
    BY <1>8, <1>12 DEF ChildAwait
  <2>2. Waiting /\ Starts(todo')
    BY <1>1, <2>1, TailStarts DEF Waiting
  <2>3. toParent = <<>> /\ serving \notin AnswerForms
    BY <2>1, <2>2 DEF Exchange
  <2>4. \A i \in 1 .. Len(toParent') : toParent'[i] \notin Questions
    BY <2>1, <2>3
  <2> QED
    BY <2>1, <2>2, <2>3, <2>4, ExchangeAtStart
<1> QED
  BY <1>4, <1>5, <1>6, <1>7, <1>9, <1>10, <1>11, <1>12 DEF ChildNext

LEMMA ExchangeStep ==
  ASSUME Typed, Exchange, [Next]_vars
  PROVE  Exchange'
<1>1. CASE UNCHANGED vars
  BY <1>1, ExchangeSame DEF vars, flags, mailbox, pipes, child, main, history
<1> QED
  BY <1>1, ParentExchange, ChildExchange DEF Next

LEMMA ExchangeInit ==
  ASSUME Init
  PROVE  Exchange
<1>1. toParent = <<"STATUS">> /\ serving = <<>> /\ todo = <<>>
  BY DEF Init
<1>2. serving \in SendForms
  BY <1>1 DEF SendForms
<1>3. \A i \in 1 .. Len(toParent) : toParent[i] \notin Questions
  BY <1>1 DEF Questions
<1> QED
  BY <1>1, <1>2, <1>3, FormsApart DEF Exchange, Waiting

LEMMA ExchangeInv == Spec => [](Typed /\ Exchange)
<1>1. Init => Typed /\ Exchange
  BY TypedInit, ExchangeInit
<1>2. Typed /\ Exchange /\ [Next]_vars => (Typed /\ Exchange)'
  BY TypedStep, ExchangeStep
<1> QED
  BY <1>1, <1>2, PTL DEF Spec

\* tell_and_wait_parent returns only behind the parent's work on this very
\* question: never on the over of an earlier one, and never between the two
\* bits.
THEOREM WaitsForItsAnswer == Spec => AnsweredMeansDone
<1>1. Typed /\ Exchange /\ [Next]_vars => [ChildAwait => done]_vars
  <2> SUFFICES ASSUME Exchange, ChildAwait PROVE done
    OBVIOUS
  <2>1. Waiting /\ over
    BY DEF ChildAwait, Do, Waiting
  <2> QED
    BY <2>1 DEF Exchange
<1> QED
  BY <1>1, ExchangeInv, PTL DEF Spec, AnsweredMeansDone
-----------------------------------------------------------------------------
(* RUN_STAT_CMD is set only while somebody is going to clear it.            *)

LEMMA ClearsTail ==
  ASSUME NEW S, NEW s \in Seq(S), s # <<>>, Head(s) # ClearCmd, Clears(s)
  PROVE  Clears(Tail(s))
<1>1. PICK i \in 1 .. Len(s) : s[i] = ClearCmd
  BY DEF Clears
<1>2. i # 1
  BY <1>1
<1>3. i - 1 \in 1 .. Len(Tail(s)) /\ Tail(s)[i - 1] = s[i]
  BY <1>1, <1>2
<1> QED
  BY <1>1, <1>3 DEF Clears

LEMMA EmptyClearsNothing ==
  ~Clears(<<>>)
BY DEF Clears

LEMMA ClearsLast ==
  /\ Clears(<<ClearCmd>>) /\ Clears(<<FreeIt, ClearCmd>>) /\ Clears(<<ReadIt, ClearCmd>>)
  /\ Clears(<<TellIt, FreeIt, ClearCmd>>)
<1>1. <<ClearCmd>>[1] = ClearCmd /\ Len(<<ClearCmd>>) = 1
  OBVIOUS
<1>2. <<FreeIt, ClearCmd>>[2] = ClearCmd /\ Len(<<FreeIt, ClearCmd>>) = 2
  OBVIOUS
<1>3. <<ReadIt, ClearCmd>>[2] = ClearCmd /\ Len(<<ReadIt, ClearCmd>>) = 2
  OBVIOUS
<1>4. <<TellIt, FreeIt, ClearCmd>>[3] = ClearCmd /\ Len(<<TellIt, FreeIt, ClearCmd>>) = 3
  OBVIOUS
<1>5. Clears(<<ClearCmd>>)
  BY <1>1 DEF Clears
<1>6. Clears(<<FreeIt, ClearCmd>>)
  <2>1. 2 \in 1 .. Len(<<FreeIt, ClearCmd>>)
    BY <1>2
  <2> QED
    BY <1>2, <2>1 DEF Clears
<1>7. Clears(<<ReadIt, ClearCmd>>)
  <2>1. 2 \in 1 .. Len(<<ReadIt, ClearCmd>>)
    BY <1>3
  <2> QED
    BY <1>3, <2>1 DEF Clears
<1>8. Clears(<<TellIt, FreeIt, ClearCmd>>)
  <2>1. 3 \in 1 .. Len(<<TellIt, FreeIt, ClearCmd>>)
    BY <1>4
  <2> QED
    BY <1>4, <2>1 DEF Clears
<1> QED
  BY <1>5, <1>6, <1>7, <1>8

\* What the child does to the bit.
LEMMA CmdOps ==
  /\ \A o \in ChildOp : o.op = "set" /\ o.arg = "cmd" => o = SetCmd
  /\ \A o \in ChildOp : o.op = "clear" /\ o.arg = "cmd" => o = ClearCmd
<1>1. ASSUME NEW o \in ChildOp, o.op \in {"set", "clear"}, o.arg = "cmd"
      PROVE  o = SetCmd \/ o = ClearCmd
  <2>1. o \notin LoopOp
    BY <1>1 DEF LoopOp, AskOp
  <2>2. o \notin AloneOp
    BY <1>1 DEF AloneOp, WithType
  <2> QED
    BY <1>1, <2>1, <2>2, OpNames DEF ChildOp
<1> QED
  BY <1>1, OpNames

LEMMA HeldKept ==
  ASSUME Held, flag' = flag, copy' = copy, raced' = raced,
         Clears(todo) => Clears(todo'), Clears(serving) => Clears(serving')
  PROVE  Held'
BY DEF Held, Released, Holds, Lets, Ops

\* A value is made of running_flag that leaves the bit as it is.
LEMMA HeldLoad ==
  ASSUME Typed, Held, NEW t \in Threads, NEW f \in SUBSET Bits, copy[t] = <<>>,
         copy' = [copy EXCEPT ![t] = <<f>>], flag' = flag, raced' = raced,
         "cmd" \in f => "cmd" \in flag \/ Clears(Ops(t)'),
         "cmd" \notin f \/ Clears(Ops(t)') \/ (Clears(Ops(t)) => Clears(Ops(t)')),
         \A u \in Threads \ {t} : Ops(u)' = Ops(u)
  PROVE  Held'
<1>1. /\ copy'[t] = <<f>> /\ copy'[t] # <<>> /\ copy'[t][1] = f
      /\ \A u \in Threads \ {t} : copy'[u] = copy[u]
  BY DEF Typed, Cells
<1>2. Holds'
  BY <1>1 DEF Held, Holds
<1>3. Released'
  <2> SUFFICES ASSUME ~raced, "cmd" \in flag
               PROVE  Clears(todo') \/ Clears(serving') \/ Lets'
    BY DEF Released
  <2>1. CASE "cmd" \notin f
    BY <1>1, <2>1 DEF Lets
  <2>2. CASE Clears(Ops(t)')
    BY <2>2 DEF Ops
  <2>3. CASE (Clears(Ops(t)) => Clears(Ops(t)')) /\ "cmd" \in f
    <3>1. CASE Lets
      <4>1. PICK u \in Threads : copy[u] # <<>> /\ "cmd" \notin copy[u][1]
        BY <3>1 DEF Lets
      <4>2. u # t
        BY <4>1
      <4> QED
        BY <1>1, <4>1, <4>2 DEF Lets
    <3>2. CASE ~Lets
      <4>1. \E u \in Threads : Clears(Ops(u))
        BY <3>2 DEF Held, Released, Ops, Threads
      <4>2. \E u \in Threads : Clears(Ops(u)')
        BY <4>1, <2>3
      <4> QED
        BY <4>2 DEF Ops
    <3> QED
      BY <3>1, <3>2
  <2> QED
    BY <2>1, <2>2, <2>3
<1> QED
  BY <1>2, <1>3 DEF Held

LEMMA HeldStore ==
  ASSUME Typed, Held, NEW t \in Threads, Store(t)
  PROVE  Held'
<1>1. /\ copy[t] # <<>> /\ flag' = copy[t][1] /\ copy' = [copy EXCEPT ![t] = <<>>]
      /\ todo' = todo /\ serving' = serving
  BY DEF Store, child
<1>2. SUFFICES ASSUME ~raced' PROVE Held'
  BY DEF Held, Released, Holds
<1>3. ~raced /\ \A u \in Threads \ {t} : copy[u] = <<>>
  BY <1>2 DEF Store
<1>4. \A u \in Threads : copy'[u] = <<>>
  BY <1>1, <1>3 DEF Typed, Cells
<1>5. Holds'
  BY <1>4 DEF Holds
<1>6. "cmd" \in flag' => Clears(todo) \/ Clears(serving)
  <2> SUFFICES ASSUME "cmd" \in copy[t][1] PROVE Clears(todo) \/ Clears(serving)
    BY <1>1
  <2>1. CASE "cmd" \notin flag
    BY <1>1, <1>3, <2>1 DEF Held, Holds, Ops
  <2>2. CASE "cmd" \in flag
    <3>1. ~Lets
      BY <1>3 DEF Lets
    <3> QED
      BY <1>3, <2>2, <3>1 DEF Held, Released
  <2> QED
    BY <2>1, <2>2
<1> QED
  BY <1>1, <1>5, <1>6 DEF Held, Released

LEMMA HeldStep ==
  ASSUME Typed, Held, [Next]_vars
  PROVE  Held'
<1>1. Cells /\ TodoForm(todo) /\ ServingForm(serving) /\ todo \in Seq(ChildOp) /\ serving \in Seq(ParentOp)
  BY TodoTypes, ServingTypes DEF Typed, Forms
<1> USE DEF flags, mailbox, pipes, child, main, history
<1>2. CASE UNCHANGED vars
  BY <1>2, HeldKept DEF vars
<1>3. CASE ParentTake \/ LeaveMenu
  <2>1. serving = <<>> /\ todo' = todo /\ flag' = flag /\ copy' = copy /\ raced' = raced
    BY <1>3 DEF ParentTake, LeaveMenu, ParentIdle
  <2> QED
    BY <2>1, EmptyClearsNothing, HeldKept
<1>4. \A o : Serve(o) =>
        /\ serving # <<>> /\ copy["parent"] = <<>> /\ Head(serving).op = o /\ serving' = Tail(serving)
        /\ Head(serving) \in ParentOp
  BY <1>1 DEF Serve
<1>5. CASE ParentDone \/ ParentOver \/ ParentSend \/ ParentRead
  <2>1. /\ serving # <<>> /\ Head(serving).op \in {"done", "over", "send", "read"} /\ serving' = Tail(serving)
        /\ todo' = todo /\ flag' = flag /\ copy' = copy /\ raced' = raced
    BY <1>4, <1>5 DEF ParentDone, ParentOver, ParentSend, ParentRead
  <2>2. Head(serving) # ClearCmd
    BY <2>1, OpNames
  <2> QED
    BY <1>1, <2>1, <2>2, ClearsTail, HeldKept
<1>6. CASE ParentFlag
  <2>1. /\ serving # <<>> /\ copy["parent"] = <<>> /\ serving' = Tail(serving)
        /\ Head(serving).op \in {"set", "clear"} /\ Head(serving) \in ParentOp
        /\ todo' = todo /\ flag' = flag /\ raced' = raced
    BY <1>4, <1>6 DEF ParentFlag
  <2>2. CASE Serve("set") /\ Load("parent", flag \cup {Head(serving).arg})
    <3>1. serving = <<SetCmd, ReadIt, ClearCmd>>
      BY <1>1, <2>1, <2>2, ServingHead DEF Serve
    <3>2. Clears(serving')
      BY <2>1, <3>1, ServingTails, ClearsLast
    <3>3. Head(serving).arg \in Bits
      BY <3>1, OpNames DEF Bits
    <3> DEFINE f == flag \cup {Head(serving).arg}
    <3>4. f \in SUBSET Bits /\ copy' = [copy EXCEPT !["parent"] = <<f>>]
      BY <1>1, <2>2, <3>3 DEF Load, Cells
    <3>5. "parent" \in Threads /\ Ops("parent")' = serving' /\ \A u \in Threads \ {"parent"} : Ops(u)' = Ops(u)
      BY <2>1 DEF Threads, Ops
    <3> HIDE DEF f
    <3> QED
      BY <2>1, <3>2, <3>4, <3>5, HeldLoad
  <2>3. CASE Serve("clear") /\ Load("parent", flag \ {Head(serving).arg})
    <3>1. serving = <<ClearCmd>>
      BY <1>1, <2>1, <2>3, ServingHead DEF Serve
    <3>2. Head(serving).arg = "cmd"
      BY <3>1, OpNames
    <3> DEFINE f == flag \ {Head(serving).arg}
    <3>3. "cmd" \notin f
      BY <3>2
    <3>4. f \in SUBSET Bits /\ copy' = [copy EXCEPT !["parent"] = <<f>>]
      BY <1>1, <2>3 DEF Load, Cells
    <3>5. "parent" \in Threads /\ \A u \in Threads \ {"parent"} : Ops(u)' = Ops(u)
      BY <2>1 DEF Threads, Ops
    <3> HIDE DEF f
    <3> QED
      BY <2>1, <3>3, <3>4, <3>5, HeldLoad
  <2> QED
    BY <1>6, <2>2, <2>3 DEF ParentFlag
<1>7. CASE Store("parent") \/ Store("child")
  BY <1>7, HeldStore DEF Threads
<1>8. CASE MainTells \/ EnterMenu \/ Top \/ Silence \/ Paused \/ PostDue
  <2>1. serving' = serving /\ todo' = todo /\ flag' = flag /\ copy' = copy /\ raced' = raced
    BY <1>8 DEF MainTells, Tells, EnterMenu, Top, Silence, Paused, PostDue
  <2> QED
    BY <2>1, HeldKept
<1>9. CASE Hear \/ Reconnect \/ Heartbeat \/ Warn \/ NotYet
  <2>1. todo = <<>> /\ serving' = serving /\ flag' = flag /\ copy' = copy /\ raced' = raced
    BY <1>9, HandlerStarts DEF Hear, Reconnect, Heartbeat, Warn, NotYet
  <2> QED
    BY <2>1, EmptyClearsNothing, HeldKept
<1>10. \A o : Do(o) =>
        /\ todo # <<>> /\ copy["child"] = <<>> /\ Head(todo).op = o /\ todo' = Tail(todo)
        /\ Head(todo) \in ChildOp
  BY <1>1 DEF Do
<1>11. CASE ChildPayload \/ ChildFreesUpload \/ ChildReset \/ ChildTell \/ ChildAwait \/ ChildSelf
  <2>1. /\ todo # <<>> /\ Head(todo).op \in {"payload", "free", "reset", "tell", "request", "await", "self"}
        /\ todo' = Tail(todo) /\ serving' = serving /\ flag' = flag /\ copy' = copy /\ raced' = raced
    BY <1>10, <1>11 DEF ChildPayload, ChildFreesUpload, ChildReset, ChildTell, ChildAwait, ChildSelf
  <2>2. Head(todo) # ClearCmd
    BY <2>1, OpNames
  <2> QED
    BY <1>1, <2>1, <2>2, ClearsTail, HeldKept
<1>12. CASE ChildZero
  <2>1. flag' = {} /\ copy' = copy /\ copy["child"] = <<>>
        /\ raced' = (raced \/ copy["parent"] # <<>>)
    BY <1>10, <1>12 DEF ChildZero
  <2>2. Released'
    BY <2>1 DEF Released
  <2>3. Holds'
    <3> SUFFICES ASSUME ~raced' PROVE \A t \in Threads : copy'[t] = <<>>
      BY DEF Holds
    <3> QED
      BY <2>1 DEF Threads
  <2> QED
    BY <2>2, <2>3 DEF Held
<1>13. CASE ChildFlag
  <2>1. /\ todo # <<>> /\ copy["child"] = <<>> /\ todo' = Tail(todo)
        /\ Head(todo).op \in {"set", "clear"} /\ Head(todo) \in ChildOp
        /\ serving' = serving /\ flag' = flag /\ raced' = raced
    BY <1>10, <1>13 DEF ChildFlag
  <2>2. Head(todo).arg \in Bits
    BY <2>1, OpTypes
  <2>3. "child" \in Threads /\ Ops("child")' = todo' /\ Ops("child") = todo
        /\ \A u \in Threads \ {"child"} : Ops(u)' = Ops(u)
    BY <2>1 DEF Threads, Ops
  <2>4. CASE Do("set") /\ Load("child", flag \cup {Head(todo).arg})
    <3> DEFINE f == flag \cup {Head(todo).arg}
    <3>1. f \in SUBSET Bits /\ copy' = [copy EXCEPT !["child"] = <<f>>]
      BY <1>1, <2>2, <2>4 DEF Load, Cells
    <3>2. CASE Head(todo).arg = "cmd"
      <4>1. Head(todo) = SetCmd
        BY <2>1, <2>4, <3>2, CmdOps DEF Do
      <4>2. todo \in {<<SetCmd, TellIt, FreeIt, ClearCmd>>, <<SetCmd, FreeIt, ClearCmd>>}
        BY <1>1, <2>1, <4>1, TodoHead
      <4>3. todo' \in {<<TellIt, FreeIt, ClearCmd>>, <<FreeIt, ClearCmd>>}
        <5>1. CASE todo = <<SetCmd, TellIt, FreeIt, ClearCmd>>
          BY <2>1, <5>1, UploadTails
        <5>2. CASE todo = <<SetCmd, FreeIt, ClearCmd>>
          BY <2>1, <5>2, UploadTails
        <5> QED
          BY <4>2, <5>1, <5>2
      <4>4. Clears(todo')
        BY <4>3, ClearsLast
      <4> HIDE DEF f
      <4> QED
        BY <2>1, <2>3, <3>1, <4>4, HeldLoad
    <3>3. CASE Head(todo).arg # "cmd"
      <4>1. "cmd" \in f => "cmd" \in flag
        BY <3>3
      <4>2. Head(todo) # ClearCmd
        BY <3>3, OpNames
      <4>3. Clears(todo) => Clears(todo')
        BY <1>1, <2>1, <4>2, ClearsTail
      <4> HIDE DEF f
      <4> QED
        BY <2>1, <2>3, <3>1, <4>1, <4>3, HeldLoad
    <3> QED
      BY <3>2, <3>3
  <2>5. CASE Do("clear") /\ Load("child", flag \ {Head(todo).arg})
    <3> DEFINE f == flag \ {Head(todo).arg}
    <3>1. f \in SUBSET Bits /\ copy' = [copy EXCEPT !["child"] = <<f>>]
      BY <1>1, <2>5 DEF Load, Cells
    <3>2. "cmd" \in f => "cmd" \in flag
      OBVIOUS
    <3>3. "cmd" \notin f \/ (Clears(todo) => Clears(todo'))
      <4>1. CASE Head(todo).arg = "cmd"
        BY <4>1
      <4>2. CASE Head(todo).arg # "cmd"
        <5>1. Head(todo) # ClearCmd
          BY <4>2, OpNames
        <5> QED
          BY <1>1, <2>1, <5>1, ClearsTail
      <4> QED
        BY <4>1, <4>2
    <3> HIDE DEF f
    <3> QED
      BY <2>1, <2>3, <3>1, <3>2, <3>3, HeldLoad
  <2> QED
    BY <1>13, <2>4, <2>5 DEF ChildFlag
<1> QED
  BY <1>2, <1>3, <1>5, <1>6, <1>7, <1>8, <1>9, <1>11, <1>12, <1>13 DEF Next, ParentService, ChildNext

\* Unless two changes of running_flag crossed, RUN_STAT_CMD keeps the child from
\* reading commands only while the thread that set it has still to clear it.
THEOREM CommandsAreHeardAgain == Spec => []CmdReleased
<1>1. Init => Held
  BY DEF Init, Held, Released, Holds
<1>2. Typed /\ Held /\ [Next]_vars => Held'
  BY HeldStep
<1>3. Init => Typed
  BY TypedInit
<1>4. Typed /\ [Next]_vars => Typed'
  BY TypedStep
<1>5. Held => CmdReleased
  BY DEF Held, Released, Clears, Lets, CmdReleased, ClearCmd
<1> QED
  BY <1>1, <1>2, <1>3, <1>4, <1>5, PTL DEF Spec
-----------------------------------------------------------------------------
(* What is in the pipe to the child.                                        *)

\* A command as it is written.
Unit(c) == IF c \in WithType THEN <<c>> \o Type ELSE <<c>>

LEMMA Joined ==
  ASSUME NEW S, NEW s \in Seq(S), NEW u \in Seq(S)
  PROVE  /\ s \o u \in Seq(S) /\ Len(s \o u) = Len(s) + Len(u)
         /\ \A i \in 1 .. Len(s) : (s \o u)[i] = s[i]
         /\ \A i \in 1 .. Len(u) : (s \o u)[Len(s) + i] = u[i]
<1>1. Len(s) \in Nat /\ Len(u) \in Nat
  OBVIOUS
<1>2. /\ s \o u \in Seq(S) /\ Len(s \o u) = Len(s) + Len(u)
      /\ \A i \in 1 .. Len(s) + Len(u) : (s \o u)[i] = IF i <= Len(s) THEN s[i] ELSE u[i - Len(s)]
  BY ConcatProperties
<1>3. \A i \in 1 .. Len(s) : (s \o u)[i] = s[i]
  BY <1>1, <1>2
<1>4. ASSUME NEW i \in 1 .. Len(u)
      PROVE  (s \o u)[Len(s) + i] = u[i]
  <2> DEFINE k == Len(s) + i
  <2>1. k \in 1 .. Len(s) + Len(u) /\ ~(k <= Len(s)) /\ k - Len(s) = i
    BY <1>1
  <2> HIDE DEF k
  <2>2. (s \o u)[k] = u[k - Len(s)]
    BY <1>2, <2>1
  <2> QED
    BY <2>1, <2>2 DEF k
<1> QED
  BY <1>2, <1>3, <1>4

LEMMA Front ==
  ASSUME NEW S, NEW x \in S, NEW u \in Seq(S)
  PROVE  /\ <<x>> \o u \in Seq(S) /\ Len(<<x>> \o u) = 1 + Len(u) /\ (<<x>> \o u)[1] = x
         /\ \A i \in 1 .. Len(u) : (<<x>> \o u)[1 + i] = u[i]
<1> DEFINE f == <<x>>
<1>1. f \in Seq(S) /\ Len(f) = 1 /\ f[1] = x
  OBVIOUS
<1>2. Len(u) \in Nat
  OBVIOUS
<1> HIDE DEF f
<1>3. /\ f \o u \in Seq(S) /\ Len(f \o u) = Len(f) + Len(u)
      /\ \A i \in 1 .. Len(f) + Len(u) : (f \o u)[i] = IF i <= Len(f) THEN f[i] ELSE u[i - Len(f)]
  BY <1>1, ConcatProperties
<1>4. (f \o u)[1] = x
  BY <1>1, <1>2, <1>3
<1>5. ASSUME NEW i \in 1 .. Len(u)
      PROVE  (f \o u)[1 + i] = u[i]
  BY <1>1, <1>2, <1>3
<1> QED
  BY <1>1, <1>3, <1>4, <1>5 DEF f

LEMMA UnitIs ==
  ASSUME NEW c \in ToChild
  PROVE  /\ Unit(c) \in Seq(ToChild)
         /\ Len(Unit(c)) = 1 + (IF c \in WithType THEN PayBytes ELSE 0)
         /\ Unit(c)[1] = c
         /\ \A i \in 2 .. Len(Unit(c)) : Unit(c)[i] = "byte"
<1>1. Type \in Seq(ToChild) /\ Len(Type) = PayBytes /\ PayBytes \in Nat
      /\ \A i \in 1 .. PayBytes : Type[i] = "byte"
  BY TypeTypes, PipeAssumption
<1>2. CASE c \in WithType
  <2> DEFINE u == <<c>> \o Type
  <2>1. /\ u \in Seq(ToChild) /\ Len(u) = 1 + Len(Type) /\ u[1] = c
        /\ \A i \in 1 .. Len(Type) : u[1 + i] = Type[i]
    BY <1>1, Front
  <2>2. Unit(c) = u
    BY <1>2 DEF Unit
  <2> HIDE DEF u
  <2>3. ASSUME NEW i \in 2 .. 1 + PayBytes
        PROVE  u[i] = "byte"
    <3> DEFINE k == i - 1
    <3>1. k \in 1 .. PayBytes /\ 1 + k = i
      BY <1>1
    <3> HIDE DEF k
    <3> QED
      BY <1>1, <2>1, <3>1
  <2> QED
    BY <1>1, <1>2, <2>1, <2>2, <2>3
<1>3. CASE c \notin WithType
  <2> DEFINE u == <<c>>
  <2>1. u \in Seq(ToChild) /\ Len(u) = 1 /\ u[1] = c
    OBVIOUS
  <2>2. Unit(c) = u
    BY <1>3 DEF Unit
  <2> HIDE DEF u
  <2> QED
    BY <1>3, <2>1, <2>2
<1> QED
  BY <1>2, <1>3

\* A write of which nothing is lost.
LEMMA ToldWhole ==
  ASSUME Cells, NEW c \in ToChild, TellChild(c), ~lost'
  PROVE  ~lost /\ toChild' = toChild \o Unit(c)
<1> DEFINE first == Put(toChild, <<c>>, ChildCap)
           whole == IF c \in WithType THEN Put(first, Type, ChildCap) ELSE first
           one == <<c>>
<1>1. toChild \in Seq(ToChild) /\ Type \in Seq(ToChild) /\ Len(Type) = PayBytes /\ PayBytes \in Nat /\ PayBytes >= 1
  BY TypeTypes, PipeAssumption DEF Cells
<1>2. one \in Seq(ToChild) /\ Len(one) = 1
  OBVIOUS
<1>3. /\ toChild' = whole /\ ~lost
      /\ Len(whole) = Len(toChild) + 1 + (IF c \in WithType THEN PayBytes ELSE 0)
  BY DEF TellChild
<1>4. first = toChild \/ first = toChild \o one
  BY DEF Put
<1>5. whole = (IF c \in WithType THEN Put(first, Type, ChildCap) ELSE first)
  OBVIOUS
<1>6. Unit(c) = (IF c \in WithType THEN one \o Type ELSE one)
  BY DEF Unit
<1> HIDE DEF first, whole, one
<1>7. CASE c \notin WithType
  <2>1. whole = toChild \o one
    BY <1>1, <1>2, <1>3, <1>4, <1>5, <1>7
  <2> QED
    BY <1>3, <1>6, <1>7, <2>1
<1>8. CASE c \in WithType
  <2>1. Put(first, Type, ChildCap) = first \/ Put(first, Type, ChildCap) = first \o Type
    BY DEF Put
  <2>a. toChild \in Seq(ToChild) /\ one \in Seq(ToChild)
    BY <1>1, <1>2
  <2>b. Len(toChild \o one) = Len(toChild) + Len(one) /\ toChild \o one \in Seq(ToChild)
    BY <2>a, Joined, Zenon
  <2>2. Len(toChild \o one) = Len(toChild) + 1 /\ toChild \o one \in Seq(ToChild)
    BY <1>2, <2>b
  <2>3. first \in Seq(ToChild) /\ Len(first) <= Len(toChild) + 1
    BY <1>1, <1>4, <2>2
  <2>4. whole # first
    BY <1>1, <1>3, <1>8, <2>3
  <2>5. whole = first \o Type /\ Len(whole) = Len(first) + PayBytes
    BY <1>1, <1>5, <1>8, <2>1, <2>3, <2>4
  <2>6. Len(first) = Len(toChild) + 1
    BY <1>1, <1>3, <1>8, <2>3, <2>5
  <2>7. first = toChild \o one
    BY <1>1, <1>4, <2>6
  <2>8. (toChild \o one) \o Type = toChild \o (one \o Type)
    BY <1>1, <1>2, ConcatAssociative
  <2> QED
    BY <1>3, <1>6, <1>8, <2>5, <2>7, <2>8
<1> QED
  BY <1>7, <1>8

LEMMA WholeAppend ==
  ASSUME NEW s \in Seq(ToChild), Whole(s), NEW c \in ToChild, c # "byte"
  PROVE  Whole(s \o Unit(c))
<1> DEFINE u == Unit(c)
           n == Len(s)
           m == Len(u)
           t == s \o u
<1>1. /\ u \in Seq(ToChild) /\ m = 1 + (IF c \in WithType THEN PayBytes ELSE 0) /\ u[1] = c
      /\ \A i \in 2 .. m : u[i] = "byte"
  BY UnitIs
<1>2. n \in Nat /\ m \in Nat /\ PayBytes \in Nat /\ m >= 1
  BY <1>1, PipeAssumption
<1> HIDE DEF u
<1>3. Len(t) = n + m /\ (\A i \in 1 .. n : t[i] = s[i]) /\ (\A i \in 1 .. m : t[n + i] = u[i])
  BY <1>1, Joined
<1>4. \A i \in 1 .. n :
        /\ s[i] \in WithType => i + PayBytes <= n /\ \A j \in i + 1 .. i + PayBytes : s[j] = "byte"
        /\ s[i] = "byte" => \E j \in 1 .. i - 1 : i <= j + PayBytes /\ s[j] \in WithType
  BY DEF Whole
<1> HIDE DEF u, n, m, t
<1>5. t[n + 1] = c
  BY <1>1, <1>2, <1>3
<1>6. \A i \in n + 2 .. n + m : t[i] = "byte"
  <2> TAKE i \in n + 2 .. n + m
  <2> DEFINE k == i - n
  <2>1. k \in 2 .. m /\ k \in 1 .. m /\ n + k = i
    BY <1>2
  <2> HIDE DEF k
  <2> QED
    BY <1>1, <1>3, <2>1
<1>7. ASSUME NEW i \in 1 .. n + m
      PROVE  /\ t[i] \in WithType =>
                  i + PayBytes <= n + m /\ \A j \in i + 1 .. i + PayBytes : t[j] = "byte"
             /\ t[i] = "byte" => \E j \in 1 .. i - 1 : i <= j + PayBytes /\ t[j] \in WithType
  <2>1. CASE i <= n
    <3>1. i \in 1 .. n /\ t[i] = s[i]
      BY <1>2, <1>3, <2>1
    <3>2. t[i] \in WithType => i + PayBytes <= n + m /\ \A j \in i + 1 .. i + PayBytes : t[j] = "byte"
      <4> SUFFICES ASSUME t[i] \in WithType
                   PROVE  i + PayBytes <= n + m /\ \A j \in i + 1 .. i + PayBytes : t[j] = "byte"
        OBVIOUS
      <4>1. i + PayBytes <= n /\ \A j \in i + 1 .. i + PayBytes : s[j] = "byte"
        BY <1>4, <3>1
      <4>2. \A j \in i + 1 .. i + PayBytes : j \in 1 .. n
        BY <4>1, <1>2
      <4> QED
        BY <4>1, <4>2, <1>2, <1>3
    <3>3. t[i] = "byte" => \E j \in 1 .. i - 1 : i <= j + PayBytes /\ t[j] \in WithType
      <4> SUFFICES ASSUME t[i] = "byte"
                   PROVE  \E j \in 1 .. i - 1 : i <= j + PayBytes /\ t[j] \in WithType
        OBVIOUS
      <4>1. PICK j \in 1 .. i - 1 : i <= j + PayBytes /\ s[j] \in WithType
        BY <1>4, <3>1
      <4>2. j \in 1 .. n
        BY <3>1, <1>2
      <4> QED
        BY <4>1, <4>2, <1>3
    <3> QED
      BY <3>2, <3>3
  <2>2. CASE i = n + 1
    <3>1. t[i] = c
      BY <1>5, <2>2
    <3>2. t[i] \in WithType => m = 1 + PayBytes
      BY <1>1, <3>1
    <3>3. \A j \in i + 1 .. i + PayBytes : m = 1 + PayBytes => j \in n + 2 .. n + m
      BY <1>2, <2>2
    <3> QED
      BY <1>2, <1>6, <2>2, <3>1, <3>2, <3>3
  <2>3. CASE i >= n + 2
    <3>1. t[i] = "byte" /\ "byte" \notin WithType
      BY <1>2, <1>6, <2>3 DEF WithType
    <3>2. m > 1
      BY <1>2, <2>3
    <3>3. c \in WithType /\ m = 1 + PayBytes
      BY <1>1, <3>2
    <3>4. n + 1 \in 1 .. i - 1 /\ i <= (n + 1) + PayBytes
      BY <1>2, <2>3, <3>3
    <3> QED
      BY <1>5, <3>1, <3>3, <3>4
  <2> QED
    BY <2>1, <2>2, <2>3, <1>2
<1>8. Whole(t)
  BY <1>3, <1>7 DEF Whole
<1> QED
  BY <1>8 DEF t, u

LEMMA WholeHead ==
  ASSUME NEW s \in Seq(ToChild), Whole(s), s # <<>>
  PROVE  s[1] # "byte"
<1>1. 1 \in 1 .. Len(s)
  OBVIOUS
<1>2. s[1] = "byte" => \E j \in 1 .. 1 - 1 : s[j] \in WithType
  BY <1>1 DEF Whole
<1> QED
  BY <1>2

\* What is behind the first command and, for some, its type.
LEMMA WholeRest ==
  ASSUME NEW s \in Seq(ToChild), Whole(s), s # <<>>, NEW n \in Nat,
         n = IF s[1] \in WithType THEN PayBytes + 1 ELSE 1
  PROVE  /\ n <= Len(s) /\ \A i \in 2 .. n : s[i] = "byte"
         /\ \A r \in Seq(ToChild) :
              Len(r) = Len(s) - n /\ (\A i \in 1 .. Len(r) : r[i] = s[n + i]) => Whole(r)
<1> DEFINE l == Len(s)
<1>1. l \in Nat /\ l >= 1 /\ PayBytes \in Nat /\ PayBytes >= 1
  BY PipeAssumption
<1>2. \A i \in 1 .. l :
        /\ s[i] \in WithType => i + PayBytes <= l /\ \A j \in i + 1 .. i + PayBytes : s[j] = "byte"
        /\ s[i] = "byte" => \E j \in 1 .. i - 1 : i <= j + PayBytes /\ s[j] \in WithType
  BY DEF Whole
<1> HIDE DEF l
<1>3. n <= l /\ \A i \in 2 .. n : s[i] = "byte"
  <2>1. CASE s[1] \in WithType
    <3>1. 1 \in 1 .. l /\ n = 1 + PayBytes
      BY <1>1, <2>1
    <3>2. 1 + PayBytes <= l /\ \A j \in 1 + 1 .. 1 + PayBytes : s[j] = "byte"
      BY <1>2, <2>1, <3>1
    <3>3. \A i \in 2 .. n : i \in 1 + 1 .. 1 + PayBytes
      BY <3>1, <1>1
    <3> QED
      BY <3>1, <3>2, <3>3
  <2>2. CASE s[1] \notin WithType
    BY <1>1, <2>2
  <2> QED
    BY <2>1, <2>2
<1>4. ASSUME NEW r \in Seq(ToChild), Len(r) = l - n, \A i \in 1 .. Len(r) : r[i] = s[n + i]
      PROVE  Whole(r)
  <2> DEFINE m == Len(r)
  <2>1. m \in Nat /\ m = l - n /\ \A i \in 1 .. m : r[i] = s[n + i] /\ n + i \in 1 .. l
    BY <1>1, <1>3, <1>4
  <2> HIDE DEF m
  <2>2. ASSUME NEW i \in 1 .. m
        PROVE  /\ r[i] \in WithType => i + PayBytes <= m /\ \A j \in i + 1 .. i + PayBytes : r[j] = "byte"
               /\ r[i] = "byte" => \E j \in 1 .. i - 1 : i <= j + PayBytes /\ r[j] \in WithType
    <3> DEFINE k == n + i
    <3>1. k \in 1 .. l /\ r[i] = s[k] /\ k \in Nat
      BY <2>1
    <3>2. r[i] \in WithType => i + PayBytes <= m /\ \A j \in i + 1 .. i + PayBytes : r[j] = "byte"
      <4> SUFFICES ASSUME r[i] \in WithType
                   PROVE  i + PayBytes <= m /\ \A j \in i + 1 .. i + PayBytes : r[j] = "byte"
        OBVIOUS
      <4>1. k + PayBytes <= l /\ \A j \in k + 1 .. k + PayBytes : s[j] = "byte"
        BY <1>2, <3>1
      <4>2. i + PayBytes <= m
        BY <4>1, <2>1, <1>1
      <4>3. \A j \in i + 1 .. i + PayBytes : j \in 1 .. m /\ n + j \in k + 1 .. k + PayBytes
        BY <4>2, <2>1, <1>1
      <4> QED
        BY <4>1, <4>2, <4>3, <2>1
    <3>3. r[i] = "byte" => \E j \in 1 .. i - 1 : i <= j + PayBytes /\ r[j] \in WithType
      <4> SUFFICES ASSUME r[i] = "byte"
                   PROVE  \E j \in 1 .. i - 1 : i <= j + PayBytes /\ r[j] \in WithType
        OBVIOUS
      <4>1. PICK j \in 1 .. k - 1 : k <= j + PayBytes /\ s[j] \in WithType
        BY <1>2, <3>1
      <4>2. "byte" \notin WithType
        BY DEF WithType
      <4>3. j > n
        <5>1. j \notin 2 .. n
          BY <1>3, <4>1, <4>2
        <5>2. j # 1
          <6> SUFFICES ASSUME j = 1 PROVE FALSE
            OBVIOUS
          <6>1. n = PayBytes + 1
            BY <4>1
          <6> QED
            BY <4>1, <6>1, <1>1
        <5> QED
          BY <5>1, <5>2, <4>1, <1>1
      <4> DEFINE h == j - n
      <4>4. h \in 1 .. i - 1 /\ i <= h + PayBytes /\ n + h = j /\ h \in 1 .. m
        BY <4>1, <4>3, <2>1, <1>1
      <4> HIDE DEF h
      <4> QED
        BY <4>1, <4>4, <2>1
    <3> QED
      BY <3>2, <3>3
  <2> QED
    BY <2>2 DEF Whole, m
<1> QED
  BY <1>3, <1>4 DEF l

\* Only one operation is to take a type, and it comes alone.
LEMMA PayloadAlone ==
  ASSUME NEW s, TodoForm(s), NEW i \in 1 .. Len(s), s[i].op = "payload"
  PROVE  s = <<s[1]>> /\ i = 1 /\ s[1].arg \in WithType /\ s # <<>> /\ Head(s) = s[1]
<1>1. CASE LoopForm(s)
  <2>1. s[i] \in LoopOp
    BY <1>1 DEF LoopForm
  <2> QED
    BY <2>1 DEF LoopOp, AskOp
<1>2. CASE s \in UploadForms
  <2>1. s \in Seq({SetCmd, TellIt, FreeIt, ClearCmd})
    <3>1. CASE s = <<SetCmd, TellIt, FreeIt, ClearCmd>>
      BY <3>1
    <3>2. CASE s = <<SetCmd, FreeIt, ClearCmd>>
      BY <3>2
    <3>3. CASE s = <<TellIt, FreeIt, ClearCmd>>
      BY <3>3
    <3>4. CASE s = <<FreeIt, ClearCmd>>
      BY <3>4
    <3>5. CASE s = <<ClearCmd>>
      BY <3>5
    <3> QED
      BY <1>2, <3>1, <3>2, <3>3, <3>4, <3>5 DEF UploadForms
  <2>2. s[i] \in {SetCmd, TellIt, FreeIt, ClearCmd}
    BY <2>1
  <2> QED
    BY <2>2, OpNames
<1>3. CASE \E o \in AloneOp : s = <<o>>
  <2>1. PICK o \in AloneOp : s = <<o>>
    BY <1>3
  <2>2. i = 1 /\ s[1] = o /\ Len(s) = 1
    BY <2>1
  <2>3. o.op = "payload" => o.arg \in WithType
    BY DEF AloneOp
  <2> QED
    BY <2>1, <2>2, <2>3
<1> QED
  BY <1>1, <1>2, <1>3 DEF TodoForm

LEMMA TakingAlone ==
  ASSUME NEW s, TodoForm(s), s # <<>>
  PROVE  /\ Head(s).op = "payload" => s = <<Head(s)>> /\ Tail(s) = <<>> /\ Head(s).arg \in WithType
         /\ Tail(s) # <<>> => Head(Tail(s)).op # "payload"
<1>1. s \in Seq(ChildOp) /\ Tail(s) \in Seq(ChildOp)
  BY TodoTypes
<1>2. 1 \in 1 .. Len(s) /\ s[1] = Head(s)
  BY <1>1
<1>3. ASSUME Head(s).op = "payload"
      PROVE  s = <<Head(s)>> /\ Tail(s) = <<>> /\ Head(s).arg \in WithType
  <2>1. s = <<Head(s)>> /\ Head(s).arg \in WithType
    BY <1>2, <1>3, PayloadAlone
  <2>2. \A h : Tail(<<h>>) = <<>>
    OBVIOUS
  <2> QED
    BY <2>1, <2>2
<1>4. ASSUME Tail(s) # <<>>, Head(Tail(s)).op = "payload"
      PROVE  FALSE
  <2>1. 2 \in 1 .. Len(s) /\ s[2] = Head(Tail(s))
    BY <1>1, <1>4
  <2>2. 2 = 1
    BY <1>4, <2>1, PayloadAlone
  <2> QED
    BY <2>2
<1> QED
  BY <1>3, <1>4

\* What a part of the loop sets out to do.
LEMMA NewLoop ==
  ASSUME Reconnect \/ Heartbeat \/ Warn
  PROVE  todo = <<>> /\ copy["child"] = <<>> /\ LoopForm(todo')
<1>1. todo = <<>> /\ copy["child"] = <<>>
  BY DEF Reconnect, Heartbeat, Warn, Working, ChildFree
<1>2. \A a, b, c : Piece(a) /\ Piece(b) /\ Piece(c) => LoopForm(a \o b) /\ LoopForm(a \o b \o c)
  BY NewTodo DEF Piece
<1>3. CASE Reconnect
  <2>1. \E asks \in Services :
          \/ todo' = asks \o Status \o <<Op("zero", ""), Op("set", "connect")>>
          \/ todo' = asks \o Disconnect
          \/ todo' = asks \o Status \o Disconnect
    BY <1>3 DEF Reconnect
  <2> QED
    BY <1>1, <1>2, <2>1, ServicesForm, NewTodo
<1>4. CASE Heartbeat
  <2>1. \E asks \in Services, answer \in {<<>>, Status} : todo' = asks \o answer \o CheckErrorStatus
    BY <1>4 DEF Heartbeat
  <2> QED
    BY <1>1, <1>2, <2>1, ServicesForm, NewTodo
<1>5. CASE Warn
  <2>1. PICK warning \in Warnings, failed \in {<<>>, Disconnect \o Status} : todo' = warning \o failed
    BY <1>5 DEF Warn
  <2>2. Piece(warning) /\ Piece(failed)
    BY NewTodo DEF Warnings
  <2> QED
    BY <1>1, <1>2, <2>1, <2>2
<1> QED
  BY <1>3, <1>4, <1>5

\* What hearing a command sets out to do.
LEMMA Heard ==
  ASSUME Cells, Hear, NEW c, c = Head(toChild)
  PROVE  /\ todo = <<>> /\ copy["child"] = <<>> /\ c = toChild[1] /\ c \in ToChild
         /\ toChild # <<>> /\ toChild' = Tail(toChild)
         /\ \/ c \in WithType /\ todo' = <<Op("payload", c)>>
            \/ c = "RE_INIT" /\ todo' = Disconnect
            \/ c = "PAUSE" /\ todo' = <<Op("set", "pause")>>
            \/ c = "RESUME" /\ todo' = <<Op("clear", "pause")>>
            \/ c = "POST_ATT" /\ todo' \in {<<SetCmd, TellIt, FreeIt, ClearCmd>>, <<SetCmd, FreeIt, ClearCmd>>}
            \/ c = "byte" /\ todo' = <<>>
<1>1. todo = <<>> /\ copy["child"] = <<>> /\ toChild # <<>> /\ toChild' = Tail(toChild)
  BY DEF Hear, ChildFree
<1>2. c = toChild[1] /\ c \in ToChild
  BY <1>1 DEF Cells
<1>3. CASE c \in WithType /\ todo' = <<Op("payload", c)>>
  BY <1>1, <1>2, <1>3
<1>4. CASE c \in Flags /\ todo' = <<FlagHandler(c)>>
  <2>1. c = "RE_INIT" => todo' = Disconnect
    BY <1>4 DEF FlagHandler, Disconnect
  <2>2. c = "PAUSE" => todo' = <<Op("set", "pause")>>
    BY <1>4 DEF FlagHandler
  <2>3. c = "RESUME" => todo' = <<Op("clear", "pause")>>
    BY <1>4 DEF FlagHandler
  <2> QED
    BY <1>1, <1>2, <1>4, <2>1, <2>2, <2>3 DEF Flags
<1>5. CASE c = "POST_ATT" /\ \E end \in PostEnds : todo' = Post(end)
  BY <1>1, <1>2, <1>5, PostIs
<1>6. CASE c = "byte" /\ UNCHANGED todo
  BY <1>1, <1>2, <1>6
<1> QED
  BY <1>3, <1>4, <1>5, <1>6 DEF Hear

LEMMA SyncedTold ==
  ASSUME Typed, Synced, NEW c \in ToChild, c # "byte", TellChild(c),
         Taking' <=> Taking, Taking => Head(todo') = Head(todo)
  PROVE  Synced'
<1> SUFFICES ASSUME ~lost'
             PROVE  /\ Taking' => Whole(<<Head(todo').arg>> \o toChild')
                    /\ ~Taking' => Whole(toChild')
  BY DEF Synced
<1>1. ~lost /\ toChild' = toChild \o Unit(c) /\ toChild \in Seq(ToChild) /\ Unit(c) \in Seq(ToChild)
  BY ToldWhole, UnitIs DEF Typed, Cells
<1>2. CASE ~Taking
  <2>1. Whole(toChild)
    BY <1>1, <1>2 DEF Synced
  <2>2. Whole(toChild \o Unit(c))
    BY <1>1, <2>1, WholeAppend
  <2> QED
    BY <1>1, <1>2, <2>2
<1>3. CASE Taking
  <2> DEFINE a == Head(todo).arg
             one == <<a>>
             s == one \o toChild
  <2>1. a \in WithType /\ a \in ToChild
    BY <1>3, TakingAlone DEF Taking, Typed, Forms, ToChild
  <2>2. Whole(s)
    BY <1>1, <1>3 DEF Synced
  <2> HIDE DEF a
  <2>3. one \in Seq(ToChild)
    BY <2>1
  <2> HIDE DEF one
  <2>4. s \in Seq(ToChild) /\ s \o Unit(c) = one \o (toChild \o Unit(c))
    <3>1. s \in Seq(ToChild)
      BY <1>1, <2>3, ConcatProperties
    <3>2. s \o Unit(c) = one \o (toChild \o Unit(c))
      BY <1>1, <2>3, ConcatAssociative
    <3> QED
      BY <3>1, <3>2
  <2> HIDE DEF s
  <2>5. Whole(s \o Unit(c))
    BY <2>2, <2>4, WholeAppend
  <2>6. Whole(one \o toChild')
    BY <1>1, <2>4, <2>5
  <2>7. one = <<Head(todo').arg>>
    BY <1>3 DEF one, a
  <2> QED
    BY <1>3, <2>6, <2>7
<1> QED
  BY <1>2, <1>3

LEMMA SyncedSame ==
  ASSUME Synced, toChild' = toChild, lost' = lost,
         Taking' <=> Taking, Taking => Head(todo') = Head(todo)
  PROVE  Synced'
BY DEF Synced

LEMMA SyncedHear ==
  ASSUME Typed, Synced, Hear
  PROVE  Synced'
<1> DEFINE c == Head(toChild)
<1>1. toChild \in Seq(ToChild) /\ lost' = lost
  BY DEF Typed, Cells, Hear
<1>2. c = c
  OBVIOUS
<1>3. /\ todo = <<>> /\ c = toChild[1] /\ c \in ToChild /\ toChild # <<>> /\ toChild' = Tail(toChild)
      /\ \/ c \in WithType /\ todo' = <<Op("payload", c)>>
         \/ c = "RE_INIT" /\ todo' = Disconnect
         \/ c = "PAUSE" /\ todo' = <<Op("set", "pause")>>
         \/ c = "RESUME" /\ todo' = <<Op("clear", "pause")>>
         \/ c = "POST_ATT" /\ todo' \in {<<SetCmd, TellIt, FreeIt, ClearCmd>>, <<SetCmd, FreeIt, ClearCmd>>}
         \/ c = "byte" /\ todo' = <<>>
  BY Heard DEF Typed
<1> SUFFICES ASSUME ~lost
             PROVE  /\ Taking' => Whole(<<Head(todo').arg>> \o toChild')
                    /\ ~Taking' => Whole(toChild')
  BY <1>1 DEF Synced
<1>4. Whole(toChild) /\ c # "byte"
  <2>1. ~Taking
    BY <1>3 DEF Taking
  <2>2. Whole(toChild)
    BY <2>1 DEF Synced
  <2> QED
    BY <1>1, <1>3, <2>2, WholeHead
<1> HIDE DEF c
<1>5. CASE c \in WithType
  <2>1. todo' = <<Op("payload", c)>>
    BY <1>3, <1>5 DEF WithType
  <2>2. Taking' /\ Head(todo').arg = c
    BY <2>1 DEF Taking, Op
  <2>3. <<c>> \o Tail(toChild) = toChild
    BY <1>1, <1>3
  <2> QED
    BY <1>3, <1>4, <2>2, <2>3
<1>6. CASE c \notin WithType
  <2>1. ~Taking'
    <3>1. CASE todo' = Disconnect \/ todo' = <<Op("set", "pause")>> \/ todo' = <<Op("clear", "pause")>>
      BY <3>1 DEF Taking, Disconnect, Op
    <3>2. CASE todo' \in {<<SetCmd, TellIt, FreeIt, ClearCmd>>, <<SetCmd, FreeIt, ClearCmd>>}
      <4>1. Head(todo') = SetCmd
        BY <3>2
      <4> QED
        BY <4>1, OpNames DEF Taking
    <3> QED
      BY <1>3, <1>4, <1>6, <3>1, <3>2
  <2>2. Whole(Tail(toChild))
    <3>1. \A r \in Seq(ToChild) :
            Len(r) = Len(toChild) - 1 /\ (\A i \in 1 .. Len(r) : r[i] = toChild[1 + i]) => Whole(r)
      <4>1. 1 \in Nat /\ 1 = IF toChild[1] \in WithType THEN PayBytes + 1 ELSE 1
        BY <1>3, <1>6
      <4> QED
        BY <1>1, <1>3, <1>4, <4>1, WholeRest
    <3>2. /\ Tail(toChild) \in Seq(ToChild) /\ Len(Tail(toChild)) = Len(toChild) - 1
          /\ \A i \in 1 .. Len(Tail(toChild)) : Tail(toChild)[i] = toChild[1 + i]
      BY <1>1, <1>3
    <3> QED
      BY <3>1, <3>2
  <2> QED
    BY <1>3, <2>1, <2>2
<1> QED
  BY <1>5, <1>6

LEMMA SyncedPayload ==
  ASSUME Typed, Synced, ChildPayload
  PROVE  Synced'
<1> DEFINE a == Head(todo).arg
           one == <<a>>
           s == one \o toChild
<1>1. /\ Taking /\ todo' = Tail(todo) /\ lost' = lost
      /\ toChild' = IF Len(toChild) >= PayBytes THEN SubSeq(toChild, PayBytes + 1, Len(toChild)) ELSE toChild
  BY DEF ChildPayload, Do, Payload, Taking, history
<1>2. todo' = <<>> /\ a \in WithType
  BY <1>1, TakingAlone DEF Taking, Typed, Forms
<1>3. ~Taking'
  BY <1>2 DEF Taking
<1>4. toChild \in Seq(ToChild) /\ PayBytes \in Nat /\ PayBytes >= 1
  BY PipeAssumption DEF Typed, Cells
<1> SUFFICES ASSUME ~lost PROVE Whole(toChild')
  BY <1>1, <1>3 DEF Synced
<1>5. Whole(s)
  BY <1>1 DEF Synced
<1>6. a \in ToChild
  BY <1>2 DEF ToChild
<1> HIDE DEF a
<1>7. one \o toChild \in Seq(ToChild) /\ Len(one \o toChild) = 1 + Len(toChild) /\ (one \o toChild)[1] = a
      /\ \A i \in 1 .. Len(toChild) : (one \o toChild)[1 + i] = toChild[i]
  BY <1>4, <1>6, Front
<1>8. s \in Seq(ToChild) /\ Len(s) = 1 + Len(toChild) /\ s[1] = a /\ s # <<>>
      /\ \A i \in 1 .. Len(toChild) : s[1 + i] = toChild[i]
  BY <1>4, <1>7
<1> HIDE DEF one, s
<1> DEFINE n == PayBytes + 1
<1>9. n \in Nat /\ n = IF s[1] \in WithType THEN PayBytes + 1 ELSE 1
  BY <1>2, <1>4, <1>8
<1> HIDE DEF n
<1>10. /\ n <= Len(s)
       /\ \A r \in Seq(ToChild) :
            Len(r) = Len(s) - n /\ (\A i \in 1 .. Len(r) : r[i] = s[n + i]) => Whole(r)
  BY <1>5, <1>8, <1>9, WholeRest
<1>11. Len(toChild) >= PayBytes /\ toChild' = SubSeq(toChild, PayBytes + 1, Len(toChild))
  BY <1>1, <1>4, <1>8, <1>10 DEF n
<1> DEFINE l == Len(toChild)
           r == SubSeq(toChild, PayBytes + 1, l)
<1>12. l \in Nat /\ \A i \in PayBytes + 1 .. l : toChild[i] \in ToChild
  BY <1>4
<1>13. /\ r \in Seq(ToChild) /\ Len(r) = l - PayBytes
       /\ \A i \in 1 .. l - PayBytes : r[i] = toChild[PayBytes + i]
  BY <1>4, <1>11, <1>12
<1> HIDE DEF r
<1>14. ASSUME NEW i \in 1 .. Len(r)
       PROVE  r[i] = s[n + i]
  <2> DEFINE k == PayBytes + i
  <2>1. k \in 1 .. l /\ r[i] = toChild[k] /\ n + i = 1 + k
    BY <1>4, <1>11, <1>12, <1>13 DEF n
  <2> HIDE DEF k
  <2> QED
    BY <1>8, <2>1
<1>15. Len(r) = Len(s) - n
  BY <1>4, <1>8, <1>12, <1>13 DEF n
<1>16. Whole(r)
  BY <1>10, <1>13, <1>14, <1>15
<1> QED
  BY <1>11, <1>16 DEF r

LEMMA SyncedStep ==
  ASSUME Typed, Synced, [Next]_vars
  PROVE  Synced'
<1>1. Cells /\ TodoForm(todo) /\ todo \in Seq(ChildOp) /\ ServingForm(serving)
  BY TodoTypes DEF Typed, Forms
<1> USE DEF flags, mailbox, pipes, child, main, history
<1>2. CASE UNCHANGED vars
  BY <1>2, SyncedSame DEF vars, Taking
<1>3. CASE ParentTake \/ ParentFlag \/ ParentDone \/ ParentOver \/ Store("parent") \/ Store("child")
             \/ Top \/ Silence \/ Paused \/ PostDue
  <2>1. todo' = todo /\ toChild' = toChild /\ lost' = lost
    BY <1>3 DEF ParentTake, ParentFlag, ParentDone, ParentOver, Store, Top, Silence, Paused, PostDue
  <2> QED
    BY <2>1, SyncedSame DEF Taking
<1>4. CASE ParentRead \/ ParentSend \/ MainTells \/ EnterMenu \/ LeaveMenu
  <2>1. todo' = todo
    BY <1>4 DEF ParentRead, ParentSend, MainTells, Tells, EnterMenu, LeaveMenu
  <2>2. ParentSend => Head(serving).arg \in WithType
    <3> SUFFICES ASSUME ParentSend PROVE Head(serving).arg \in WithType
      OBVIOUS
    <3>1. serving # <<>> /\ Head(serving).op = "send"
      BY DEF ParentSend, Serve
    <3>2. Head(serving) \in ParentOp
      BY <1>1, <3>1, ServingTypes
    <3> QED
      BY <3>1, <3>2 DEF ParentOp
  <2>3. \/ \E c \in ToChild \ {"byte"} : TellChild(c)
        \/ toChild' = toChild /\ lost' = lost
    BY <1>4, <2>2 DEF ParentRead, ParentSend, MainTells, Tells, EnterMenu, LeaveMenu, ToChild, Flags, WithType
  <2>4. ToChild \ {"byte"} \subseteq ToChild /\ "byte" \notin ToChild \ {"byte"}
    OBVIOUS
  <2> QED
    BY <2>1, <2>3, <2>4, SyncedTold, SyncedSame DEF Taking
<1>5. CASE Hear \/ ChildPayload
  BY <1>5, SyncedHear, SyncedPayload
<1>6. \A o : Do(o) => todo # <<>> /\ Head(todo).op = o /\ todo' = Tail(todo)
  BY DEF Do
<1>7. CASE ChildFlag \/ ChildZero \/ ChildFreesUpload \/ ChildReset \/ ChildTell \/ ChildAwait \/ ChildSelf
  <2>1. /\ todo # <<>> /\ Head(todo).op # "payload" /\ todo' = Tail(todo)
        /\ \/ TellChild("RE_INIT")
           \/ toChild' = toChild /\ lost' = lost
    BY <1>6, <1>7 DEF ChildFlag, ChildZero, ChildFreesUpload, ChildReset, ChildTell, ChildAwait, ChildSelf
  <2>2. ~Taking /\ ~Taking'
    BY <1>1, <2>1, TakingAlone DEF Taking
  <2>3. "RE_INIT" \in ToChild /\ "RE_INIT" # "byte"
    BY DEF ToChild, Flags
  <2> QED
    BY <2>1, <2>2, <2>3, SyncedTold, SyncedSame
<1>8. CASE Reconnect \/ Heartbeat \/ Warn
  <2>1. todo = <<>> /\ LoopForm(todo')
    BY <1>8, NewLoop
  <2>2. ~Taking /\ ~Taking'
    <3>1. todo' # <<>> => Head(todo') \in LoopOp
      BY <2>1 DEF LoopForm
    <3> QED
      BY <2>1, <3>1 DEF Taking, LoopOp, AskOp
  <2>3. toChild' = toChild /\ lost' = lost
    BY <1>8 DEF Reconnect, Heartbeat, Warn
  <2> QED
    BY <2>2, <2>3, SyncedSame
<1>9. CASE NotYet
  <2>1. todo = <<>> /\ todo' = <<ClearCmd>> /\ toChild' = toChild /\ lost' = lost
    BY <1>9 DEF NotYet, Working, ChildFree, ClearCmd
  <2>2. Head(todo') = ClearCmd
    BY <2>1
  <2>3. ~Taking /\ ~Taking'
    BY <2>1, <2>2, OpNames DEF Taking
  <2> QED
    BY <2>1, <2>3, SyncedSame
<1> QED
  BY <1>2, <1>3, <1>4, <1>5, <1>7, <1>8, <1>9 DEF Next, ParentService, ChildNext

\* While no write to the child was dropped, what the child reads next is a
\* command, and a type only behind the command it belongs to.
THEOREM TypesStayWithCommands == Spec => []InSync
<1>1. Init => Synced
  <2>1. Whole(<<>>)
    BY DEF Whole
  <2> QED
    BY <2>1 DEF Init, Synced, Taking
<1>2. Typed /\ Synced /\ [Next]_vars => Synced'
  BY SyncedStep
<1>3. Typed /\ Synced => InSync
  <2> SUFFICES ASSUME Typed, Synced PROVE InSync
    OBVIOUS
  <2>1. TodoForm(todo) /\ todo \in Seq(ChildOp)
    BY TodoTypes DEF Typed, Forms
  <2>2. Occurs(todo, "payload") <=> Taking
    <3>1. ASSUME Occurs(todo, "payload") PROVE Taking
      <4>1. PICK i \in 1 .. Len(todo) : todo[i].op = "payload"
        BY <3>1 DEF Occurs
      <4> QED
        BY <2>1, <4>1, PayloadAlone DEF Taking
    <3>2. ASSUME Taking PROVE Occurs(todo, "payload")
      <4>1. 1 \in 1 .. Len(todo) /\ todo[1] = Head(todo)
        BY <2>1, <3>2 DEF Taking
      <4> QED
        BY <3>2, <4>1 DEF Taking, Occurs
    <3> QED
      BY <3>1, <3>2
  <2>3. Whole(toChild) => Whole(<<>> \o toChild)
    BY DEF Typed, Cells
  <2> QED
    BY <2>2, <2>3 DEF InSync, Synced
<1>4. Init => Typed
  BY TypedInit
<1>5. Typed /\ [Next]_vars => Typed'
  BY TypedStep
<1> QED
  BY <1>1, <1>2, <1>3, <1>4, <1>5, PTL DEF Spec
-----------------------------------------------------------------------------
(* What the child will be, once it has heard all that was written to it.     *)

Turns == {"PAUSE", "RESUME"}
Told(s) == {i \in 1 .. Len(s) : s[i] \in Turns}
Ends(s, b) ==
  IF Told(s) = {} THEN b
  ELSE \E i \in Told(s) : s[i] = "PAUSE" /\ \A j \in Told(s) : j <= i

\* Operations that have nothing to do with the pause.
Quiet == LoopOp \cup {SetCmd, TellIt, FreeIt, ClearCmd} \cup [op : {"payload"}, arg : WithType]

LEMMA QuietOps ==
  /\ Op("set", "pause") \notin Quiet /\ Op("clear", "pause") \notin Quiet
  /\ ChildOp = Quiet \cup {Op("set", "pause"), Op("clear", "pause")}
<1>1. \A o \in Quiet : o.arg # "pause"
  <2>1. \A o \in LoopOp : o.arg # "pause"
    BY DEF LoopOp, AskOp, Questions
  <2>2. \A o \in [op : {"payload"}, arg : WithType] : o.arg # "pause"
    BY DEF WithType
  <2>3. FreeIt.arg = ""
    BY DEF FreeIt, Op
  <2>4. \A o \in {SetCmd, TellIt, FreeIt, ClearCmd} : o.arg # "pause"
    BY <2>3, OpNames
  <2> QED
    BY <2>1, <2>2, <2>4 DEF Quiet
<1>2. Op("set", "pause").arg = "pause" /\ Op("clear", "pause").arg = "pause"
  BY DEF Op
<1>3. [op : {"set", "clear"}, arg : {"pause"}] = {Op("set", "pause"), Op("clear", "pause")}
  <2>1. \A o \in [op : {"set", "clear"}, arg : {"pause"}] : o \in {Op("set", "pause"), Op("clear", "pause")}
    BY DEF Op
  <2>2. \A o \in {Op("set", "pause"), Op("clear", "pause")} : o \in [op : {"set", "clear"}, arg : {"pause"}]
    BY DEF Op
  <2> QED
    BY <2>1, <2>2
<1> QED
  BY <1>1, <1>2, <1>3 DEF ChildOp, AloneOp, Quiet

LEMMA QuietTail ==
  ASSUME NEW s, TodoForm(s), s # <<>>
  PROVE  /\ Head(s) \in ChildOp
         /\ Head(s) \notin Quiet => s = <<Head(s)>> /\ Tail(s) = <<>>
         /\ Tail(s) # <<>> => Head(Tail(s)) \in Quiet
<1>1. CASE LoopForm(s)
  <2>1. s \in Seq(LoopOp) /\ Tail(s) \in Seq(LoopOp)
    BY <1>1 DEF LoopForm
  <2>2. Head(s) \in LoopOp /\ (Tail(s) # <<>> => Head(Tail(s)) \in LoopOp)
    BY <2>1
  <2> QED
    BY <2>2, OpTypes DEF Quiet
<1>2. CASE s \in UploadForms
  <2> DEFINE S == {SetCmd, TellIt, FreeIt, ClearCmd}
  <2>1. s \in Seq(S)
    <3>1. CASE s = <<SetCmd, TellIt, FreeIt, ClearCmd>>
      BY <3>1
    <3>2. CASE s = <<SetCmd, FreeIt, ClearCmd>>
      BY <3>2
    <3>3. CASE s = <<TellIt, FreeIt, ClearCmd>>
      BY <3>3
    <3>4. CASE s = <<FreeIt, ClearCmd>>
      BY <3>4
    <3>5. CASE s = <<ClearCmd>>
      BY <3>5
    <3> QED
      BY <1>2, <3>1, <3>2, <3>3, <3>4, <3>5 DEF UploadForms
  <2>2. S \subseteq Quiet /\ S \subseteq ChildOp
    BY OpTypes DEF Quiet
  <2> HIDE DEF S
  <2>3. Head(s) \in S /\ (Tail(s) # <<>> => Head(Tail(s)) \in S)
    BY <2>1
  <2> QED
    BY <2>2, <2>3
<1>3. CASE \E o \in AloneOp : s = <<o>>
  <2>1. PICK o \in AloneOp : s = <<o>>
    BY <1>3
  <2>2. Head(s) = o /\ Tail(s) = <<>>
    BY <2>1
  <2> QED
    BY <2>1, <2>2, OpTypes
<1> QED
  BY <1>1, <1>2, <1>3 DEF TodoForm

LEMMA LastFlagIs ==
  ASSUME NEW s, TodoForm(s), NEW v \in BOOLEAN
  PROVE  /\ s = <<>> => (LastFlag("pause", v, s) <=> v)
         /\ s # <<>> /\ Head(s) \in Quiet => (LastFlag("pause", v, s) <=> v)
         /\ s # <<>> /\ Head(s) = Op("set", "pause") => LastFlag("pause", v, s)
         /\ s # <<>> /\ Head(s) = Op("clear", "pause") => ~LastFlag("pause", v, s)
<1>1. Op("set", "pause") # Op("clear", "pause") /\ Op("set", "pause").op = "set"
  BY DEF Op
<1>2. s = <<>> => ~Occurs(s, "set")
  BY DEF Occurs
<1>3. s # <<>> /\ Head(s) = Op("set", "pause") => Occurs(s, "set")
  <2> SUFFICES ASSUME s # <<>>, Head(s) = Op("set", "pause") PROVE Occurs(s, "set")
    OBVIOUS
  <2>1. s \in Seq(ChildOp)
    BY TodoTypes
  <2>2. 1 \in 1 .. Len(s) /\ s[1] = Head(s)
    BY <2>1
  <2>3. s[1].op = "set"
    BY <1>1, <2>2
  <2> QED
    BY <2>2, <2>3 DEF Occurs
<1> HIDE DEF Op
<1> QED
  BY <1>1, <1>2, <1>3, QuietOps DEF LastFlag

LEMMA EndsIs == PauseAfterPipe <=> Ends(toChild, PausedNow)
BY DEF PauseAfterPipe, Ends, Told, Turns

LEMMA EndsMore ==
  ASSUME NEW s, NEW b \in BOOLEAN, NEW c \in BOOLEAN, b => c, Ends(s, b)
  PROVE  Ends(s, c)
BY DEF Ends

\* Behind the first n commands.
LEMMA EndsRest ==
  ASSUME NEW s \in Seq(ToChild), NEW r \in Seq(ToChild), NEW n \in Nat, n <= Len(s),
         Len(r) = Len(s) - n, \A i \in 1 .. Len(r) : r[i] = s[n + i],
         NEW b \in BOOLEAN, NEW c \in BOOLEAN, Ends(r, c),
         \/ (\A i \in 1 .. n : s[i] \notin Turns) /\ (c => b)
         \/ n = 1 /\ s[1] = "PAUSE"
         \/ n = 1 /\ s[1] = "RESUME" /\ ~c
  PROVE  Ends(s, b)
<1> DEFINE m == Len(r)
           l == Len(s)
<1>1. m \in Nat /\ l \in Nat /\ l = n + m
  OBVIOUS
<1>2. \A i \in 1 .. m : r[i] = s[n + i]
  OBVIOUS
<1>3. Told(s) = {i \in 1 .. l : s[i] \in Turns} /\ Told(r) = {i \in 1 .. m : r[i] \in Turns}
  BY DEF Told
<1> HIDE DEF m, l
<1>4. \A i \in Told(r) : n + i \in Told(s)
  BY <1>1, <1>2, <1>3
<1>5. ASSUME NEW j \in Told(s), j > n
      PROVE  j - n \in Told(r)
  <2> DEFINE k == j - n
  <2>1. k \in 1 .. m /\ n + k = j
    BY <1>1, <1>3, <1>5
  <2> HIDE DEF k
  <2>2. k \in Told(r)
    BY <1>2, <1>3, <2>1
  <2> QED
    BY <2>2 DEF k
<1>6. CASE Told(r) # {}
  <2>1. PICK i \in Told(r) : r[i] = "PAUSE" /\ \A j \in Told(r) : j <= i
    BY <1>6 DEF Ends
  <2>a. i \in 1 .. m
    BY <1>3
  <2>b. n + i \in Told(s)
    BY <1>4
  <2>2. n + i \in Told(s) /\ s[n + i] = "PAUSE" /\ i \in Nat /\ i >= 1
    BY <1>1, <1>2, <2>1, <2>a, <2>b
  <2>3. ASSUME NEW j \in Told(s) PROVE j <= n + i
    <3>1. j \in Nat
      BY <1>1, <1>3
    <3>2. CASE j > n
      <4>1. j - n <= i
        BY <1>5, <2>1, <3>2
      <4> QED
        BY <2>2, <3>1, <4>1
    <3>3. CASE ~(j > n)
      BY <2>2, <3>1, <3>3
    <3> QED
      BY <3>2, <3>3
  <2> QED
    BY <2>2, <2>3 DEF Ends
<1>7. CASE Told(r) = {}
  <2>1. c
    BY <1>7 DEF Ends
  <2>2. \A j \in Told(s) : ~(j > n)
    BY <1>5, <1>7
  <2>3. CASE (\A i \in 1 .. n : s[i] \notin Turns) /\ (c => b)
    <3>1. Told(s) = {}
      BY <1>1, <1>3, <2>2, <2>3
    <3> QED
      BY <2>1, <2>3, <3>1 DEF Ends
  <2>4. CASE n = 1 /\ s[1] = "PAUSE"
    <3>1. 1 \in Told(s)
      BY <1>1, <1>3, <2>4 DEF Turns
    <3>2. \A j \in Told(s) : j <= 1
      BY <1>1, <1>3, <2>2, <2>4
    <3> QED
      BY <2>4, <3>1, <3>2 DEF Ends
  <2> QED
    BY <2>1, <2>3, <2>4
<1> QED
  BY <1>6, <1>7

LEMMA EndsAppend ==
  ASSUME NEW s \in Seq(ToChild), NEW c \in ToChild, NEW b \in BOOLEAN,
         c # "PAUSE", Ends(s \o Unit(c), b)
  PROVE  c # "RESUME" /\ Ends(s, b)
<1> DEFINE u == Unit(c)
           t == s \o u
           l == Len(s)
           m == Len(u)
<1>1. u \in Seq(ToChild) /\ m \in Nat /\ m >= 1 /\ u[1] = c /\ \A i \in 2 .. m : u[i] = "byte"
  BY UnitIs, PipeAssumption
<1> HIDE DEF u
<1>2. Len(t) = l + m /\ (\A i \in 1 .. l : t[i] = s[i]) /\ (\A i \in 1 .. m : t[l + i] = u[i])
  BY <1>1, Joined
<1>3. l \in Nat /\ Told(s) = {i \in 1 .. l : s[i] \in Turns} /\ Told(t) = {i \in 1 .. Len(t) : t[i] \in Turns}
  BY DEF Told
<1>4. Ends(t, b)
  BY DEF u
<1> HIDE DEF t, l, m
<1>5. ASSUME NEW i \in Told(t), i > l
      PROVE  i = l + 1 /\ t[i] = c /\ c = "RESUME"
  <2> DEFINE k == i - l
  <2>1. k \in 1 .. m /\ l + k = i
    BY <1>1, <1>2, <1>3, <1>5
  <2> HIDE DEF k
  <2>2. t[i] = u[k] /\ u[k] \in Turns
    BY <1>2, <1>3, <2>1
  <2>3. k = 1
    BY <1>1, <2>1, <2>2 DEF Turns
  <2> QED
    BY <1>1, <2>1, <2>2, <2>3 DEF Turns
<1>6. c # "RESUME"
  <2> SUFFICES ASSUME c = "RESUME" PROVE FALSE
    OBVIOUS
  <2>1. 1 \in 1 .. m
    BY <1>1
  <2>2. l + 1 \in Told(t) /\ l + 1 > l
    BY <1>1, <1>2, <1>3, <2>1 DEF Turns
  <2>3. PICK i \in Told(t) : t[i] = "PAUSE" /\ \A j \in Told(t) : j <= i
    BY <1>4, <2>2 DEF Ends
  <2>4. i > l
    BY <1>1, <1>2, <1>3, <2>2, <2>3
  <2> QED
    BY <1>5, <2>3, <2>4
<1>7. Told(t) = Told(s)
  <2>1. \A i \in Told(t) : i \in 1 .. l
    BY <1>1, <1>2, <1>3, <1>5, <1>6
  <2> QED
    BY <1>1, <1>2, <1>3, <2>1
<1>8. \A i \in Told(s) : t[i] = s[i]
  BY <1>2, <1>3
<1> QED
  BY <1>4, <1>6, <1>7, <1>8 DEF Ends

LEMMA PausedIs ==
  ASSUME TodoForm(todo)
  PROVE  /\ PausedNow \in BOOLEAN
         /\ todo = <<>> \/ Head(todo) \in Quiet => (PausedNow <=> "pause" \in Effective)
         /\ todo # <<>> /\ Head(todo) = Op("set", "pause") => PausedNow
         /\ todo # <<>> /\ Head(todo) = Op("clear", "pause") => ~PausedNow
<1> DEFINE v == "pause" \in Effective
<1>1. v \in BOOLEAN
  OBVIOUS
<1>2. PausedNow = LastFlag("pause", v, todo)
  BY DEF PausedNow, Effective
<1> HIDE DEF v
<1>3. LastFlag("pause", v, todo) \in BOOLEAN
  BY <1>1 DEF LastFlag
<1>4. v <=> "pause" \in Effective
  BY DEF v
<1>5. /\ todo = <<>> => (LastFlag("pause", v, todo) <=> v)
      /\ todo # <<>> /\ Head(todo) \in Quiet => (LastFlag("pause", v, todo) <=> v)
      /\ todo # <<>> /\ Head(todo) = Op("set", "pause") => LastFlag("pause", v, todo)
      /\ todo # <<>> /\ Head(todo) = Op("clear", "pause") => ~LastFlag("pause", v, todo)
  BY <1>1, LastFlagIs
<1> QED
  BY <1>2, <1>3, <1>4, <1>5

LEMMA PausedIsNext ==
  ASSUME TodoForm(todo')
  PROVE  /\ PausedNow' \in BOOLEAN
         /\ todo' = <<>> \/ Head(todo') \in Quiet => (PausedNow' <=> "pause" \in Effective')
<1> DEFINE v == "pause" \in Effective'
<1>1. v \in BOOLEAN
  OBVIOUS
<1>2. PausedNow' = LastFlag("pause", v, todo')
  BY DEF PausedNow, Effective
<1> HIDE DEF v
<1>3. LastFlag("pause", v, todo') \in BOOLEAN
  BY <1>1 DEF LastFlag
<1>4. v <=> "pause" \in Effective'
  BY DEF v
<1>5. /\ todo' = <<>> => (LastFlag("pause", v, todo') <=> v)
      /\ todo' # <<>> /\ Head(todo') \in Quiet => (LastFlag("pause", v, todo') <=> v)
  BY <1>1, LastFlagIs
<1> QED
  BY <1>2, <1>3, <1>4, <1>5

LEMMA QuietStep ==
  ASSUME Typed, Typed', flag' = flag, copy'["child"] = copy["child"],
         todo = <<>> \/ Head(todo) \in Quiet, todo' = <<>> \/ Head(todo') \in Quiet
  PROVE  PausedNow' => PausedNow
<1>1. Effective' = Effective
  BY DEF Effective
<1> QED
  BY <1>1, PausedIs, PausedIsNext DEF Typed, Forms

LEMMA PauseKept ==
  ASSUME Typed, Typed', PauseAsAsked, lost => lost', raced => raced', asked' = asked, toChild' = toChild,
         ~raced' => (PausedNow' => PausedNow)
  PROVE  PauseAsAsked'
<1> SUFFICES ASSUME ~lost', ~raced', PauseAfterPipe' PROVE asked'
  BY DEF PauseAsAsked
<1>1. Ends(toChild', PausedNow')
  BY DEF PauseAfterPipe, Ends, Told, Turns
<1>2. PausedNow \in BOOLEAN /\ PausedNow' \in BOOLEAN
  BY PausedIs, PausedIsNext DEF Typed, Forms
<1>3. Ends(toChild, PausedNow)
  BY <1>1, <1>2, EndsMore
<1> QED
  BY <1>3, EndsIs DEF PauseAsAsked

LEMMA PauseTold ==
  ASSUME Typed, Typed', PauseAsAsked, NEW c \in ToChild, TellChild(c), raced => raced',
         PausedNow' => PausedNow, c = "PAUSE" => asked', c \notin Turns => asked' = asked
  PROVE  PauseAsAsked'
<1> SUFFICES ASSUME ~lost', ~raced', PauseAfterPipe', c # "PAUSE" PROVE asked'
  BY DEF PauseAsAsked
<1>1. ~lost /\ toChild' = toChild \o Unit(c) /\ toChild \in Seq(ToChild)
  BY ToldWhole DEF Typed, Cells
<1>2. PausedNow \in BOOLEAN /\ PausedNow' \in BOOLEAN
  BY PausedIs, PausedIsNext DEF Typed, Forms
<1>3. Ends(toChild', PausedNow')
  BY DEF PauseAfterPipe, Ends, Told, Turns
<1>4. Ends(toChild \o Unit(c), PausedNow')
  BY <1>1, <1>3
<1>5. c # "RESUME" /\ Ends(toChild, PausedNow')
  BY <1>1, <1>2, <1>4, EndsAppend
<1>6. Ends(toChild, PausedNow)
  BY <1>2, <1>5, EndsMore
<1>7. c \notin Turns
  BY <1>5 DEF Turns
<1> QED
  BY <1>1, <1>6, <1>7, EndsIs DEF PauseAsAsked

\* What the child takes from its pipe it takes over.
LEMMA PauseTaken ==
  ASSUME Typed, Typed', PauseAsAsked, lost => lost', raced => raced', asked' = asked,
         NEW n \in Nat, n <= Len(toChild), Len(toChild') = Len(toChild) - n,
         \A i \in 1 .. Len(toChild') : toChild'[i] = toChild[n + i],
         \/ (\A i \in 1 .. n : toChild[i] \notin Turns) /\ (PausedNow' => PausedNow)
         \/ n = 1 /\ toChild[1] = "PAUSE"
         \/ n = 1 /\ toChild[1] = "RESUME" /\ ~PausedNow'
  PROVE  PauseAsAsked'
<1> SUFFICES ASSUME ~lost', ~raced', PauseAfterPipe' PROVE asked'
  BY DEF PauseAsAsked
<1>1. toChild \in Seq(ToChild) /\ toChild' \in Seq(ToChild)
  BY DEF Typed, Cells
<1>2. PausedNow \in BOOLEAN /\ PausedNow' \in BOOLEAN
  BY PausedIs, PausedIsNext DEF Typed, Forms
<1>3. Ends(toChild', PausedNow')
  BY DEF PauseAfterPipe, Ends, Told, Turns
<1>4. Ends(toChild, PausedNow)
  BY <1>1, <1>2, <1>3, EndsRest, ZenonT(60)
<1> QED
  BY <1>4, EndsIs DEF PauseAsAsked

\* The parent's copies of running_flag say what running_flag says of the pause.
LEMMA SamePauseStep ==
  ASSUME Typed, SamePause, [Next]_vars
  PROVE  SamePause'
<1>1. Cells /\ ServingForm(serving) /\ DOMAIN copy = Threads /\ "parent" \in Threads /\ "child" \in Threads
  BY DEF Typed, Forms, Cells, Threads
<1> USE DEF flags, mailbox, pipes, child, main, history
<1>2. CASE ParentFlag
  <2>1. flag' = flag /\ raced' = raced /\ serving # <<>>
    BY <1>2 DEF ParentFlag, Serve
  <2>2. Head(serving).arg = "cmd"
    <3>1. serving = <<SetCmd, ReadIt, ClearCmd>> \/ serving = <<ClearCmd>>
      BY <1>1, <1>2, ServingHead DEF ParentFlag, Serve
    <3> QED
      BY <3>1, OpNames
  <2>3. copy' = [copy EXCEPT !["parent"] = <<flag \cup {"cmd"}>>]
        \/ copy' = [copy EXCEPT !["parent"] = <<flag \ {"cmd"}>>]
    BY <1>2, <2>2 DEF ParentFlag, Load
  <2> QED
    BY <1>1, <2>1, <2>3 DEF SamePause
<1>3. CASE Store("parent")
  <2>1. copy'["parent"] = <<>>
    BY <1>1, <1>3 DEF Store
  <2> QED
    BY <2>1 DEF SamePause
<1>4. CASE Store("child")
  <2>1. copy'["parent"] = copy["parent"] /\ raced' = (raced \/ \E u \in Threads \ {"child"} : copy[u] # <<>>)
    BY <1>1, <1>4 DEF Store
  <2>2. copy["parent"] # <<>> => raced'
    BY <2>1 DEF Threads
  <2> QED
    BY <2>1, <2>2 DEF SamePause
<1>5. CASE ChildZero
  <2>1. copy'["parent"] = copy["parent"] /\ raced' = (raced \/ copy["parent"] # <<>>)
    BY <1>5 DEF ChildZero
  <2> QED
    BY <2>1 DEF SamePause
<1>6. CASE ChildFlag
  <2>1. flag' = flag /\ raced' = raced /\ copy'["parent"] = copy["parent"]
    BY <1>1, <1>6 DEF ChildFlag, Load
  <2> QED
    BY <2>1 DEF SamePause
<1>7. CASE UNCHANGED vars \/ ParentTake \/ ParentDone \/ ParentOver \/ ParentSend \/ ParentRead
             \/ MainTells \/ EnterMenu \/ LeaveMenu
  <2>1. flag' = flag /\ copy' = copy /\ raced' = raced
    BY <1>7 DEF vars, ParentTake, ParentDone, ParentOver, ParentSend, ParentRead, MainTells, Tells,
                EnterMenu, LeaveMenu
  <2> QED
    BY <2>1 DEF SamePause
<1>8. CASE Top \/ Silence \/ Hear \/ ChildPayload \/ ChildFreesUpload \/ ChildReset \/ ChildTell
             \/ ChildAwait \/ ChildSelf \/ Reconnect \/ Paused \/ Heartbeat \/ Warn \/ PostDue \/ NotYet
  <2>1. flag' = flag /\ copy' = copy /\ raced' = raced
    BY <1>8 DEF Top, Silence, Hear, ChildPayload, ChildFreesUpload, ChildReset, ChildTell,
                ChildAwait, ChildSelf, Reconnect, Paused, Heartbeat, Warn, PostDue, NotYet
  <2> QED
    BY <2>1 DEF SamePause
<1> QED
  BY <1>2, <1>3, <1>4, <1>5, <1>6, <1>7, <1>8 DEF Next, ParentService, ChildNext

LEMMA SetPause ==
  ASSUME NEW o \in ChildOp, o.op = "set", o # Op("set", "pause")
  PROVE  o.arg # "pause"
<1>1. CASE o \in LoopOp
  BY <1>1 DEF LoopOp, AskOp, Questions
<1>2. CASE o \in [op : {"payload"}, arg : WithType]
  BY <1>2
<1>3. CASE o \in [op : {"set", "clear"}, arg : {"pause"}]
  BY <1>3 DEF Op
<1>4. CASE o \in {SetCmd, TellIt, FreeIt, ClearCmd}
  BY <1>4, OpNames
<1> QED
  BY <1>1, <1>2, <1>3, <1>4 DEF ChildOp, AloneOp

LEMMA PauseStep ==
  ASSUME Typed, Typed', Synced, SamePause, PauseAsAsked, [Next]_vars
  PROVE  PauseAsAsked'
<1>1. /\ Cells /\ TodoForm(todo) /\ todo \in Seq(ChildOp) /\ ServingForm(serving)
      /\ DOMAIN copy = Threads /\ "parent" \in Threads /\ "child" \in Threads
      /\ toChild \in Seq(ToChild)
  BY TodoTypes DEF Typed, Forms, Cells, Threads
<1>2. TodoForm(todo')
  BY DEF Typed, Forms
<1> USE DEF flags, mailbox, pipes, child, main, history
<1>3. CASE UNCHANGED vars
  <2>1. PausedNow' <=> PausedNow
    BY <1>3 DEF vars, PausedNow
  <2> QED
    BY <1>3, <2>1, PauseKept DEF vars
<1>4. CASE ParentTake \/ ParentDone \/ ParentOver \/ Top \/ Silence \/ Paused \/ PostDue
  <2>1. /\ todo' = todo /\ flag' = flag /\ copy' = copy /\ toChild' = toChild /\ asked' = asked
        /\ lost' = lost /\ raced' = raced
    BY <1>4 DEF ParentTake, ParentDone, ParentOver, Top, Silence, Paused, PostDue
  <2>2. PausedNow' <=> PausedNow
    BY <2>1 DEF PausedNow
  <2> QED
    BY <2>1, <2>2, PauseKept
<1>5. CASE ParentFlag
  <2>1. /\ todo' = todo /\ flag' = flag /\ toChild' = toChild /\ asked' = asked
        /\ lost' = lost /\ raced' = raced /\ copy'["child"] = copy["child"]
    BY <1>1, <1>5 DEF ParentFlag, Load
  <2>2. PausedNow' <=> PausedNow
    BY <2>1 DEF PausedNow
  <2> QED
    BY <2>1, <2>2, PauseKept
<1>6. CASE Store("parent")
  <2>1. /\ todo' = todo /\ toChild' = toChild /\ asked' = asked /\ lost' = lost
        /\ copy["parent"] # <<>> /\ flag' = copy["parent"][1] /\ copy'["child"] = copy["child"]
        /\ raced' = (raced \/ \E u \in Threads \ {"parent"} : copy[u] # <<>>)
    BY <1>1, <1>6 DEF Store
  <2>2. ASSUME ~raced' PROVE PausedNow' <=> PausedNow
    <3>1. ~raced /\ copy["child"] = <<>>
      BY <2>1, <2>2 DEF Threads
    <3>2. "pause" \in flag' <=> "pause" \in flag
      BY <2>1, <3>1 DEF SamePause
    <3>3. "pause" \in Effective' <=> "pause" \in Effective
      BY <2>1, <3>1, <3>2 DEF Effective
    <3> QED
      BY <2>1, <3>3 DEF PausedNow, Effective, LastFlag
  <2> QED
    BY <2>1, <2>2, PauseKept
<1>7. CASE Store("child")
  <2>1. /\ todo' = todo /\ toChild' = toChild /\ asked' = asked /\ lost' = lost
        /\ copy["child"] # <<>> /\ flag' = copy["child"][1] /\ copy'["child"] = <<>>
        /\ raced => raced'
    BY <1>1, <1>7 DEF Store
  <2>2. PausedNow' <=> PausedNow
    BY <2>1 DEF PausedNow
  <2> QED
    BY <2>1, <2>2, PauseKept
<1>8. CASE ParentRead \/ ParentSend \/ MainTells \/ EnterMenu \/ LeaveMenu
  <2>1. todo' = todo /\ flag' = flag /\ copy' = copy /\ raced' = raced
    BY <1>8 DEF ParentRead, ParentSend, MainTells, Tells, EnterMenu, LeaveMenu
  <2>2. PausedNow' <=> PausedNow
    BY <2>1 DEF PausedNow
  <2>3. ParentSend => Head(serving).arg \in WithType
    <3> SUFFICES ASSUME ParentSend PROVE Head(serving).arg \in WithType
      OBVIOUS
    <3>1. serving # <<>> /\ Head(serving).op = "send"
      BY DEF ParentSend, Serve
    <3>2. Head(serving) \in ParentOp
      BY <1>1, <3>1, ServingTypes
    <3> QED
      BY <3>1, <3>2 DEF ParentOp
  <2>4. CASE ParentRead \/ ParentSend \/ MainTells
    <3>1. \/ \E c \in ToChild \ Turns : TellChild(c)
          \/ toChild' = toChild /\ lost' = lost
      BY <2>3, <2>4 DEF ParentRead, ParentSend, MainTells, Tells, ToChild, Turns, Flags, WithType
    <3>2. asked' = asked
      BY <2>4 DEF ParentRead, ParentSend, MainTells, Tells
    <3>3. CASE toChild' = toChild /\ lost' = lost
      BY <2>1, <2>2, <3>2, <3>3, PauseKept
    <3>4. CASE \E c \in ToChild \ Turns : TellChild(c)
      <4>1. PICK c \in ToChild \ Turns : TellChild(c)
        BY <3>4
      <4>2. c \in ToChild /\ c # "PAUSE"
        BY <4>1 DEF Turns
      <4> QED
        BY <2>1, <2>2, <3>2, <4>1, <4>2, PauseTold
    <3> QED
      BY <3>1, <3>3, <3>4
  <2>5. "PAUSE" \in ToChild /\ "RESUME" \in ToChild /\ "PAUSE" \in Turns /\ "RESUME" \in Turns
    BY DEF ToChild, Flags, Turns
  <2>6. CASE EnterMenu
    <3>1. TellChild("PAUSE") /\ asked'
      BY <2>6 DEF EnterMenu
    <3> QED
      BY <2>1, <2>2, <2>5, <3>1, PauseTold
  <2>7. CASE LeaveMenu
    <3>1. TellChild("RESUME")
      BY <2>7 DEF LeaveMenu
    <3> QED
      BY <2>1, <2>2, <2>5, <3>1, PauseTold
  <2> QED
    BY <1>8, <2>4, <2>6, <2>7
<1>9. CASE Hear
  <2> DEFINE c == Head(toChild)
  <2>1. c = c
    OBVIOUS
  <2>2. /\ todo = <<>> /\ c = toChild[1] /\ c \in ToChild /\ toChild # <<>> /\ toChild' = Tail(toChild)
        /\ \/ c \in WithType /\ todo' = <<Op("payload", c)>>
           \/ c = "RE_INIT" /\ todo' = Disconnect
           \/ c = "PAUSE" /\ todo' = <<Op("set", "pause")>>
           \/ c = "RESUME" /\ todo' = <<Op("clear", "pause")>>
           \/ c = "POST_ATT" /\ todo' \in {<<SetCmd, TellIt, FreeIt, ClearCmd>>, <<SetCmd, FreeIt, ClearCmd>>}
           \/ c = "byte" /\ todo' = <<>>
    BY <1>1, <1>9, Heard
  <2>3. flag' = flag /\ copy' = copy /\ lost' = lost /\ raced' = raced /\ asked' = asked
    BY <1>9 DEF Hear
  <2>4. /\ 1 \in Nat /\ 1 <= Len(toChild) /\ Len(toChild') = Len(toChild) - 1
        /\ \A i \in 1 .. Len(toChild') : toChild'[i] = toChild[1 + i]
    BY <1>1, <2>2
  <2> HIDE DEF c
  <2>5. CASE c = "PAUSE"
    BY <2>2, <2>3, <2>4, <2>5, PauseTaken
  <2>6. CASE c = "RESUME"
    <3>1. todo' = <<Op("clear", "pause")>>
      BY <2>2, <2>6 DEF WithType
    <3>2. ~PausedNow'
      <4>1. todo' # <<>> /\ Head(todo') = Op("clear", "pause") /\ Op("set", "pause") # Op("clear", "pause")
        BY <3>1 DEF Op
      <4> QED
        BY <4>1 DEF PausedNow, LastFlag
    <3> QED
      BY <2>2, <2>3, <2>4, <2>6, <3>2, PauseTaken
  <2>7. CASE c \notin Turns
    <3>1. todo' = <<>> \/ Head(todo') \in Quiet
      <4>1. CASE c \in WithType /\ todo' = <<Op("payload", c)>>
        <5>1. Op("payload", c) \in Quiet
          BY <4>1 DEF Quiet, Op
        <5> QED
          BY <4>1, <5>1
      <4>2. CASE todo' = Disconnect
        <5>1. Op("clear", "connect") \in Quiet
          BY DEF Quiet, Op, LoopOp
        <5> QED
          BY <4>2, <5>1 DEF Disconnect
      <4>3. CASE todo' \in {<<SetCmd, TellIt, FreeIt, ClearCmd>>, <<SetCmd, FreeIt, ClearCmd>>}
        <5>1. Head(todo') = SetCmd
          BY <4>3
        <5> QED
          BY <5>1 DEF Quiet
      <4> QED
        BY <2>2, <2>7, <4>1, <4>2, <4>3 DEF Turns
    <3>2. PausedNow' => PausedNow
      BY <2>2, <2>3, <3>1, QuietStep
    <3>3. \A i \in 1 .. 1 : toChild[i] \notin Turns
      BY <2>2, <2>7
    <3> QED
      BY <2>3, <2>4, <3>2, <3>3, PauseTaken
  <2> QED
    BY <2>5, <2>6, <2>7 DEF Turns
<1>10. \A o : Do(o) =>
        /\ todo # <<>> /\ copy["child"] = <<>> /\ Head(todo).op = o /\ todo' = Tail(todo)
        /\ Head(todo) \in ChildOp
        /\ Head(todo) \notin Quiet => todo = <<Head(todo)>> /\ Tail(todo) = <<>>
        /\ Tail(todo) # <<>> => Head(Tail(todo)) \in Quiet
  BY <1>1, QuietTail DEF Do
<1>11. CASE ChildPayload
  <2>1. /\ todo # <<>> /\ Head(todo) \in ChildOp /\ Head(todo).op = "payload" /\ todo' = Tail(todo)
        /\ flag' = flag /\ copy' = copy /\ lost' = lost /\ raced' = raced /\ asked' = asked
        /\ toChild' = IF Len(toChild) >= PayBytes THEN SubSeq(toChild, PayBytes + 1, Len(toChild)) ELSE toChild
    BY <1>10, <1>11 DEF ChildPayload, Payload
  <2>2. Head(todo) \in Quiet
    <3>1. Op("set", "pause").op = "set" /\ Op("clear", "pause").op = "clear"
      BY DEF Op
    <3> QED
      BY <2>1, <3>1, QuietOps
  <2>3. Tail(todo) = <<>>
    BY <1>1, <2>1, TakingAlone
  <2>4. PausedNow' => PausedNow
    BY <2>1, <2>2, <2>3, QuietStep
  <2>5. CASE toChild' = toChild
    BY <2>1, <2>4, <2>5, PauseKept
  <2>6. CASE lost
    BY <2>1, <2>6 DEF PauseAsAsked
  <2>7. CASE ~lost /\ Len(toChild) >= PayBytes
    <3> DEFINE one == <<Head(todo).arg>>
               s == one \o toChild
    <3>1. Whole(s) /\ Head(todo).arg \in WithType
      BY <1>1, <2>1, <2>7, TakingAlone DEF Synced, Taking
    <3>2. Head(todo).arg \in ToChild
      BY <3>1 DEF ToChild
    <3>3. /\ s \in Seq(ToChild) /\ Len(s) = 1 + Len(toChild) /\ s[1] = Head(todo).arg
          /\ \A i \in 1 .. Len(toChild) : s[1 + i] = toChild[i]
      BY <1>1, <3>2, Front
    <3> HIDE DEF s, one
    <3>4. PayBytes \in Nat /\ PayBytes >= 1 /\ Len(toChild) \in Nat
      BY <1>1, PipeAssumption
    <3>5. \A i \in 1 .. PayBytes : toChild[i] = "byte"
      <4>1. 1 \in 1 .. Len(s) /\ s[1] \in WithType
        BY <3>1, <3>3, <3>4
      <4>2. \A j \in 1 + 1 .. 1 + PayBytes : s[j] = "byte"
        BY <3>1, <4>1 DEF Whole
      <4>3. \A i \in 1 .. PayBytes : 1 + i \in 1 + 1 .. 1 + PayBytes /\ i \in 1 .. Len(toChild)
        BY <2>7, <3>4
      <4> QED
        BY <3>3, <4>2, <4>3
    <3> DEFINE r == SubSeq(toChild, PayBytes + 1, Len(toChild))
    <3>6. toChild' = r
      BY <2>1, <2>7
    <3>7. /\ Len(r) = Len(toChild) - PayBytes
          /\ \A i \in 1 .. Len(r) : r[i] = toChild[PayBytes + i]
      BY <1>1, <2>7, <3>4
    <3> HIDE DEF r
    <3>8. \A i \in 1 .. PayBytes : toChild[i] \notin Turns
      BY <3>5 DEF Turns
    <3> QED
      BY <2>1, <2>4, <2>7, <3>4, <3>6, <3>7, <3>8, PauseTaken
  <2> QED
    BY <2>1, <2>5, <2>6, <2>7
<1>12. CASE ChildFlag
  <2>1. /\ todo # <<>> /\ copy["child"] = <<>> /\ todo' = Tail(todo) /\ Head(todo) \in ChildOp
        /\ Head(todo).op \in {"set", "clear"}
        /\ flag' = flag /\ toChild' = toChild /\ lost' = lost /\ raced' = raced /\ asked' = asked
        /\ Head(todo) \notin Quiet => todo = <<Head(todo)>> /\ Tail(todo) = <<>>
        /\ Tail(todo) # <<>> => Head(Tail(todo)) \in Quiet
    BY <1>10, <1>12 DEF ChildFlag
  <2>2. todo' = <<>> \/ Head(todo') \in Quiet
    BY <2>1
  <2>3. PausedNow' <=> "pause" \in Effective'
    BY <1>2, <2>2, PausedIsNext
  <2>4. CASE Do("set") /\ Load("child", flag \cup {Head(todo).arg})
    <3>1. Effective' = flag \cup {Head(todo).arg} /\ Head(todo).op = "set"
      BY <1>1, <2>4 DEF Effective, Load, Do
    <3>2. CASE Head(todo) = Op("set", "pause")
      BY <1>1, <2>1, <3>2, PausedIs, PauseKept
    <3>3. CASE Head(todo) # Op("set", "pause")
      <4>1. Head(todo) \in Quiet
        BY <2>1, <3>1, <3>3, QuietOps DEF Op
      <4>2. Head(todo).arg # "pause"
        BY <2>1, <3>1, <3>3, SetPause
      <4>3. PausedNow <=> "pause" \in flag
        BY <1>1, <2>1, <4>1, PausedIs DEF Effective
      <4> QED
        BY <2>1, <2>3, <3>1, <4>2, <4>3, PauseKept
    <3> QED
      BY <3>2, <3>3
  <2>5. CASE Do("clear") /\ Load("child", flag \ {Head(todo).arg})
    <3>1. Effective' = flag \ {Head(todo).arg} /\ Head(todo).op = "clear"
      BY <1>1, <2>5 DEF Effective, Load, Do
    <3>2. CASE Head(todo) = Op("clear", "pause")
      <4>1. Head(todo).arg = "pause"
        BY <3>2 DEF Op
      <4> QED
        BY <2>1, <2>3, <3>1, <4>1, PauseKept
    <3>3. CASE Head(todo) # Op("clear", "pause")
      <4>1. Head(todo) \in Quiet
        BY <2>1, <3>1, <3>3, QuietOps DEF Op
      <4>2. PausedNow <=> "pause" \in flag
        BY <1>1, <2>1, <4>1, PausedIs DEF Effective
      <4> QED
        BY <2>1, <2>3, <3>1, <4>2, PauseKept
    <3> QED
      BY <3>2, <3>3
  <2> QED
    BY <1>12, <2>4, <2>5 DEF ChildFlag
<1>13. CASE ChildZero
  <2>1. /\ todo' = <<>> \/ Head(todo') \in Quiet
        /\ flag' = {} /\ copy["child"] = <<>> /\ copy' = copy
        /\ toChild' = toChild /\ lost' = lost /\ (raced => raced') /\ asked' = asked
    BY <1>10, <1>13 DEF ChildZero
  <2>2. ~PausedNow'
    <3>1. Effective' = {}
      BY <2>1 DEF Effective
    <3> QED
      BY <1>2, <2>1, <3>1, PausedIsNext
  <2> QED
    BY <2>1, <2>2, PauseKept
<1>14. CASE ChildFreesUpload \/ ChildReset \/ ChildTell \/ ChildAwait \/ ChildSelf
  <2>1. /\ todo # <<>> /\ Head(todo) \in ChildOp /\ Head(todo).op \in {"free", "reset", "tell", "request", "await", "self"}
        /\ todo' = <<>> \/ Head(todo') \in Quiet
        /\ flag' = flag /\ copy' = copy /\ raced' = raced /\ asked' = asked
    BY <1>10, <1>14 DEF ChildFreesUpload, ChildReset, ChildTell, ChildAwait, ChildSelf
  <2>2. Head(todo) \in Quiet
    <3>1. Op("set", "pause").op = "set" /\ Op("clear", "pause").op = "clear"
      BY DEF Op
    <3> QED
      BY <2>1, <3>1, QuietOps
  <2>3. PausedNow' => PausedNow
    BY <2>1, <2>2, QuietStep
  <2>4. TellChild("RE_INIT") \/ (toChild' = toChild /\ lost' = lost)
    BY <1>14 DEF ChildFreesUpload, ChildReset, ChildTell, ChildAwait, ChildSelf
  <2>5. "RE_INIT" \in ToChild /\ "RE_INIT" \notin Turns /\ "RE_INIT" # "PAUSE"
    BY DEF ToChild, Flags, Turns
  <2>6. CASE TellChild("RE_INIT")
    BY <2>1, <2>3, <2>5, <2>6, PauseTold
  <2>7. CASE toChild' = toChild /\ lost' = lost
    BY <2>1, <2>3, <2>7, PauseKept
  <2> QED
    BY <2>4, <2>6, <2>7
<1>15. CASE Reconnect \/ Heartbeat \/ Warn \/ NotYet
  <2>1. /\ todo = <<>> /\ flag' = flag /\ copy' = copy /\ toChild' = toChild
        /\ lost' = lost /\ raced' = raced /\ asked' = asked
    BY <1>15, NewLoop DEF Reconnect, Heartbeat, Warn, NotYet, Working, ChildFree
  <2>2. todo' = <<>> \/ Head(todo') \in Quiet
    <3>1. CASE Reconnect \/ Heartbeat \/ Warn
      <4>1. todo' \in Seq(LoopOp)
        BY <3>1, NewLoop DEF LoopForm
      <4>2. todo' # <<>> => Head(todo') \in LoopOp
        BY <4>1
      <4> QED
        BY <4>2 DEF Quiet
    <3>2. CASE NotYet
      <4>1. todo' = <<ClearCmd>>
        BY <3>2 DEF NotYet, ClearCmd
      <4>2. Head(todo') = ClearCmd
        BY <4>1
      <4> QED
        BY <4>2 DEF Quiet
    <3> QED
      BY <1>15, <3>1, <3>2
  <2>3. PausedNow' => PausedNow
    BY <2>1, <2>2, QuietStep
  <2> QED
    BY <2>1, <2>3, PauseKept
<1> QED
  BY <1>3, <1>4, <1>5, <1>6, <1>7, <1>8, <1>9, <1>11, <1>12, <1>13, <1>14, <1>15
     DEF Next, ParentService, ChildNext

\* Once the child has heard all that was written to it, it is paused only if
\* that is what the main thread asked for last; a command that was dropped, or
\* two changes of running_flag that crossed, are the only ways out.
THEOREM PausedOnlyAsAsked == Spec => []PauseAsAsked
<1>1. Init => Typed /\ Synced /\ SamePause /\ PauseAsAsked
  <2> SUFFICES ASSUME Init PROVE Typed /\ Synced /\ SamePause /\ PauseAsAsked
    OBVIOUS
  <2>1. Whole(<<>>)
    BY DEF Whole
  <2>2. Synced
    BY <2>1 DEF Init, Synced, Taking
  <2>3. SamePause
    BY DEF Init, SamePause, Threads
  <2>4. PauseAsAsked
    <3>1. todo = <<>> /\ toChild = <<>> /\ copy["child"] = <<>> /\ flag = {"connect"}
      BY DEF Init, Threads
    <3>2. ~PausedNow
      BY <3>1 DEF PausedNow, LastFlag, Occurs
    <3>3. ~PauseAfterPipe
      BY <3>1, <3>2 DEF PauseAfterPipe
    <3> QED
      BY <3>3 DEF PauseAsAsked
  <2> QED
    BY <2>2, <2>3, <2>4, TypedInit
<1>2. Typed /\ Synced /\ SamePause /\ PauseAsAsked /\ [Next]_vars
        => (Typed /\ Synced /\ SamePause /\ PauseAsAsked)'
  BY TypedStep, SyncedStep, SamePauseStep, PauseStep
<1> QED
  BY <1>1, <1>2, PTL DEF Spec
-----------------------------------------------------------------------------
(* Counting.                                                                *)

LEMMA WhereIs ==
  ASSUME NEW S, NEW s \in Seq(S), NEW x
  PROVE  /\ Where(s, x) \subseteq 1 .. Len(s) /\ Len(s) \in Nat /\ IsFiniteSet(Where(s, x))
         /\ Num(s, x) \in Nat
         /\ Num(s, x) = 0 <=> Where(s, x) = {}
<1>1. Len(s) \in Nat
  OBVIOUS
<1>2. Where(s, x) \subseteq 1 .. Len(s)
  BY DEF Where
<1>3. IsFiniteSet(1 .. Len(s))
  BY <1>1, FS_Interval
<1>4. IsFiniteSet(Where(s, x))
  BY <1>2, <1>3, FS_Subset
<1> QED
  BY <1>1, <1>2, <1>4, FS_CardinalityType, FS_EmptySet DEF Num

LEMMA Shifted ==
  ASSUME NEW A \in SUBSET Nat, NEW n \in Nat, NEW B, IsFiniteSet(A),
         \A i \in A : n + i \in B, \A j \in B : j \in Nat /\ j - n \in A
  PROVE  IsFiniteSet(B) /\ Cardinality(B) = Cardinality(A)
<1> DEFINE f == [i \in A |-> n + i]
<1>1. f \in [A -> B]
  OBVIOUS
<1>2. \A i, j \in A : f[i] = f[j] => i = j
  OBVIOUS
<1>3. \A j \in B : \E i \in A : f[i] = j
  <2> TAKE j \in B
  <2>1. j - n \in A /\ n + (j - n) = j
    OBVIOUS
  <2> QED
    BY <2>1
<1> HIDE DEF f
<1>4. f \in Bijection(A, B)
  BY <1>1, <1>2, <1>3 DEF Bijection, Injection, Surjection, IsInjective
<1>5. ExistsBijection(A, B)
  BY <1>4 DEF ExistsBijection
<1> QED
  BY <1>5, FS_Bijection

LEMMA NumJoined ==
  ASSUME NEW S, NEW s \in Seq(S), NEW u \in Seq(S), NEW x
  PROVE  Num(s \o u, x) = Num(s, x) + Num(u, x)
<1> DEFINE l == Len(s)
           m == Len(u)
           t == s \o u
           A == Where(s, x)
           B == Where(u, x)
           C == {i \in l + 1 .. l + m : t[i] = x}
<1>1. l \in Nat /\ m \in Nat /\ Len(t) = l + m
      /\ (\A i \in 1 .. l : t[i] = s[i]) /\ (\A i \in 1 .. m : t[l + i] = u[i])
  BY Joined
<1>2. IsFiniteSet(A) /\ IsFiniteSet(B) /\ A \subseteq 1 .. l /\ B \subseteq 1 .. m
  BY WhereIs
<1>3. A = {i \in 1 .. l : s[i] = x} /\ B = {i \in 1 .. m : u[i] = x}
      /\ Where(t, x) = {i \in 1 .. Len(t) : t[i] = x}
  BY DEF Where
<1> HIDE DEF l, m, t, A, B
<1>4. IsFiniteSet(C) /\ Cardinality(C) = Cardinality(B)
  <2>1. B \in SUBSET Nat
    BY <1>2
  <2>2. \A i \in B : l + i \in C
    BY <1>1, <1>3
  <2>3. ASSUME NEW j \in C PROVE j \in Nat /\ j - l \in B
    <3> DEFINE k == j - l
    <3>1. k \in 1 .. m /\ l + k = j /\ j \in Nat
      BY <1>1
    <3> HIDE DEF k
    <3>2. k \in B
      BY <1>1, <1>3, <3>1
    <3> QED
      BY <3>1, <3>2 DEF k
  <2> HIDE DEF C
  <2> QED
    BY <1>1, <1>2, <2>1, <2>2, <2>3, Shifted
<1>5. Where(t, x) = A \cup C
  BY <1>1, <1>3
<1>6. A \cap C = {}
  BY <1>1, <1>2
<1> HIDE DEF C
<1>7. Cardinality(A \cup C) = Cardinality(A) + Cardinality(C)
  <2>1. Cardinality(A \cup C) = Cardinality(A) + Cardinality(C) - Cardinality(A \cap C)
    BY <1>2, <1>4, FS_Union, Zenon
  <2>2. Cardinality(A \cap C) = 0 /\ Cardinality(A) \in Nat /\ Cardinality(C) \in Nat
    BY <1>2, <1>4, <1>6, FS_EmptySet, FS_CardinalityType
  <2> QED
    BY <2>1, <2>2
<1> QED
  BY <1>4, <1>5, <1>7 DEF Num, A, B, t

LEMMA NumOne ==
  ASSUME NEW S, NEW h \in S, NEW x
  PROVE  <<h>> \in Seq(S) /\ Num(<<h>>, x) = One(h = x)
<1> DEFINE s == <<h>>
<1>1. s \in Seq(S) /\ Len(s) = 1 /\ s[1] = h
  OBVIOUS
<1> HIDE DEF s
<1>2. CASE h = x
  <2>1. Where(s, x) = {1}
    BY <1>1, <1>2 DEF Where
  <2> QED
    BY <1>1, <1>2, <2>1, FS_Singleton DEF Num, One, s
<1>3. CASE h # x
  <2>1. Where(s, x) = {}
    BY <1>1, <1>3 DEF Where
  <2> QED
    BY <1>1, <1>3, <2>1, FS_EmptySet DEF Num, One, s
<1> QED
  BY <1>2, <1>3

LEMMA NumNone ==
  ASSUME NEW S, NEW s \in Seq(S), NEW x, \A i \in 1 .. Len(s) : s[i] # x
  PROVE  Num(s, x) = 0
<1>1. Where(s, x) = {}
  BY DEF Where
<1> QED
  BY <1>1, WhereIs

LEMMA NumTail ==
  ASSUME NEW S, NEW s \in Seq(S), s # <<>>, NEW x
  PROVE  Num(s, x) = One(Head(s) = x) + Num(Tail(s), x)
<1> DEFINE h == Head(s)
           u == Tail(s)
           one == <<h>>
<1>1. h \in S /\ u \in Seq(S) /\ one \o u = s
  OBVIOUS
<1> HIDE DEF h, u
<1>2. one \in Seq(S) /\ Num(one, x) = One(h = x)
  BY <1>1, NumOne
<1> HIDE DEF one
<1>3. Num(one \o u, x) = Num(one, x) + Num(u, x)
  BY <1>1, <1>2, NumJoined
<1> QED
  BY <1>1, <1>2, <1>3 DEF h, u

LEMMA NumRest ==
  ASSUME NEW S, NEW s \in Seq(S), NEW x, NEW n \in Nat, n <= Len(s)
  PROVE  Num(SubSeq(s, n + 1, Len(s)), x) <= Num(s, x)
<1> DEFINE l == Len(s)
           a == SubSeq(s, 1, n)
           b == SubSeq(s, n + 1, l)
<1>1. l \in Nat /\ n <= l
  OBVIOUS
<1>2. a \in Seq(S) /\ b \in Seq(S) /\ a \o b = s
  <2>1. \A i \in 1 .. l : s[i] \in S
    OBVIOUS
  <2>2. a \in Seq(S)
    BY <1>1, <2>1
  <2>3. b \in Seq(S)
    BY <1>1, <2>1
  <2>4. 1 \in 1 .. l + 1 /\ n \in 1 - 1 .. l /\ l \in n .. l
    BY <1>1
  <2>5. SubSeq(s, 1, n) \o SubSeq(s, n + 1, l) = SubSeq(s, 1, l)
    BY <2>4, ConcatAdjacentSubSeq
  <2>6. SubSeq(s, 1, l) = s
    BY SubSeqFull
  <2> QED
    BY <2>2, <2>3, <2>5, <2>6
<1> HIDE DEF a, b
<1>3. Num(a \o b, x) = Num(a, x) + Num(b, x) /\ Num(a, x) \in Nat /\ Num(b, x) \in Nat
  <2>1. Num(a \o b, x) = Num(a, x) + Num(b, x)
    BY <1>2, NumJoined, Zenon
  <2>2. Num(a, x) \in Nat /\ Num(b, x) \in Nat
    BY <1>2, WhereIs, Zenon
  <2> QED
    BY <2>1, <2>2
<1>4. Num(s, x) = Num(a, x) + Num(b, x)
  BY <1>2, <1>3
<1>5. Num(b, x) <= Num(s, x)
  BY <1>3, <1>4
<1> QED
  BY <1>5 DEF b

\* A write adds at most the command itself, and of no other.
LEMMA ToldCounts ==
  ASSUME Cells, NEW c \in ToChild, TellChild(c), NEW x, x # "byte"
  PROVE  /\ Num(toChild', x) <= Num(toChild, x) + One(c = x)
         /\ Num(toChild', x) \in Nat /\ Num(toChild, x) \in Nat
<1> DEFINE one == <<c>>
           first == Put(toChild, one, ChildCap)
           whole == IF c \in WithType THEN Put(first, Type, ChildCap) ELSE first
<1>1. toChild \in Seq(ToChild) /\ Type \in Seq(ToChild) /\ Num(Type, x) = 0
  <2>1. Type \in Seq(ToChild) /\ \A i \in 1 .. Len(Type) : Type[i] = "byte"
    BY TypeTypes
  <2>2. Num(Type, x) = 0
    BY <2>1, NumNone
  <2> QED
    BY <2>1, <2>2 DEF Cells
<1>2. one \in Seq(ToChild) /\ Num(one, x) = One(c = x)
  BY NumOne
<1>3. toChild' = whole
  BY DEF TellChild
<1> HIDE DEF one
<1>4. first = toChild \/ first = toChild \o one
  BY DEF Put
<1>5. toChild \o one \in Seq(ToChild) /\ Num(toChild \o one, x) = Num(toChild, x) + Num(one, x)
  <2>1. toChild \o one \in Seq(ToChild)
    BY <1>1, <1>2, ConcatProperties
  <2>2. Num(toChild \o one, x) = Num(toChild, x) + Num(one, x)
    BY <1>1, <1>2, NumJoined, Zenon
  <2> QED
    BY <2>1, <2>2
<1>6. One(c = x) \in Nat /\ Num(toChild, x) \in Nat
  <2>1. Num(toChild, x) \in Nat
    BY <1>1, WhereIs, Zenon
  <2> QED
    BY <2>1 DEF One
<1>7. first \in Seq(ToChild) /\ Num(first, x) <= Num(toChild, x) + One(c = x) /\ Num(first, x) \in Nat
  <2>1. CASE first = toChild
    BY <1>1, <1>6, <2>1
  <2>2. CASE first = toChild \o one
    BY <1>2, <1>5, <1>6, <2>2
  <2> QED
    BY <1>4, <2>1, <2>2
<1>8. whole = first \/ whole = first \o Type
  BY DEF Put
<1> HIDE DEF first, whole
<1>9. Num(first \o Type, x) = Num(first, x) + Num(Type, x)
  BY <1>1, <1>7, NumJoined, Zenon
<1>10. CASE whole = first
  BY <1>3, <1>6, <1>7, <1>10
<1>11. CASE whole = first \o Type
  BY <1>1, <1>3, <1>6, <1>7, <1>9, <1>11
<1> QED
  BY <1>8, <1>10, <1>11

LEMMA LastOf ==
  ASSUME NEW S, NEW s \in Seq(S), NEW u \in Seq(S), Len(u) = 1
  PROVE  /\ s \o u \in Seq(S) /\ Len(s \o u) = Len(s) + 1 /\ Len(s) \in Nat
         /\ (s \o u)[Len(s) + 1] = u[1]
         /\ \A i \in 1 .. Len(s) : (s \o u)[i] = s[i]
<1>1. s \o u \in Seq(S) /\ Len(s \o u) = Len(s) + Len(u) /\ Len(s) \in Nat
      /\ \A i \in 1 .. Len(s) + Len(u) : (s \o u)[i] = IF i <= Len(s) THEN s[i] ELSE u[i - Len(s)]
  <2>1. s \o u \in Seq(S) /\ Len(s \o u) = Len(s) + Len(u)
    BY ConcatProperties
  <2>2. \A i \in 1 .. Len(s) + Len(u) : (s \o u)[i] = IF i <= Len(s) THEN s[i] ELSE u[i - Len(s)]
    BY ConcatProperties
  <2> QED
    BY <2>1, <2>2
<1>2. (s \o u)[Len(s) + 1] = u[1]
  <2>1. Len(s) + 1 \in 1 .. Len(s) + Len(u) /\ ~(Len(s) + 1 <= Len(s)) /\ (Len(s) + 1) - Len(s) = 1
    BY <1>1
  <2> DEFINE k == Len(s) + 1
  <2>2. k \in 1 .. Len(s) + Len(u) /\ ~(k <= Len(s)) /\ k - Len(s) = 1
    BY <2>1
  <2> HIDE DEF k
  <2>3. (s \o u)[k] = u[k - Len(s)]
    BY <1>1, <2>2
  <2> QED
    BY <2>2, <2>3 DEF k
<1>3. \A i \in 1 .. Len(s) : (s \o u)[i] = s[i]
  BY <1>1
<1> QED
  BY <1>1, <1>2, <1>3

\* A write to the parent adds the word at the end, if at all.
LEMMA PutCounts ==
  ASSUME NEW s \in Seq(ToParent), NEW a \in ToParent
  PROVE  /\ Put(s, <<a>>, ParentCap) = s \/ Put(s, <<a>>, ParentCap) = s \o <<a>>
         /\ s \o <<a>> \in Seq(ToParent) /\ Len(s) \in Nat /\ Len(s \o <<a>>) = Len(s) + 1
         /\ (s \o <<a>>)[Len(s) + 1] = a
         /\ \A i \in 1 .. Len(s) : (s \o <<a>>)[i] = s[i]
         /\ \A x : Num(s \o <<a>>, x) = Num(s, x) + One(a = x)
<1> DEFINE one == <<a>>
<1>1. one \in Seq(ToParent) /\ Len(one) = 1 /\ one[1] = a /\ \A x : Num(one, x) = One(a = x)
  <2>1. one \in Seq(ToParent) /\ \A x : Num(one, x) = One(a = x)
    BY NumOne
  <2> QED
    BY <2>1
<1>2. Put(s, one, ParentCap) = s \/ Put(s, one, ParentCap) = s \o one
  BY DEF Put
<1> HIDE DEF one
<1>3. /\ s \o one \in Seq(ToParent) /\ Len(s \o one) = Len(s) + 1 /\ Len(s) \in Nat
      /\ (s \o one)[Len(s) + 1] = one[1]
      /\ \A i \in 1 .. Len(s) : (s \o one)[i] = s[i]
  BY <1>1, LastOf
<1>4. \A x : Num(s \o one, x) = Num(s, x) + Num(one, x)
  <2>1. one \in Seq(ToParent)
    BY <1>1
  <2> QED
    BY <2>1, NumJoined, Zenon
<1>5. \A x : Num(s \o one, x) = Num(s, x) + One(a = x)
  BY <1>1, <1>4
<1>6. (s \o one)[Len(s) + 1] = a
  BY <1>1, <1>3
<1> QED
  BY <1>2, <1>3, <1>5, <1>6 DEF one

LEMMA ServingCounts ==
  ASSUME NEW s, ServingForm(s)
  PROVE  /\ s \notin LookForms => Num(s, SetCmd) = 0 /\ Num(s, ClearCmd) = 0 /\ Num(s, ReadIt) = 0
         /\ s = <<SetCmd, ReadIt, ClearCmd>> =>
              Num(s, SetCmd) = 1 /\ Num(s, ClearCmd) = 1 /\ Num(s, ReadIt) = 1
         /\ s = <<ReadIt, ClearCmd>> => Num(s, SetCmd) = 0 /\ Num(s, ClearCmd) = 1 /\ Num(s, ReadIt) = 1
         /\ s = <<ClearCmd>> => Num(s, SetCmd) = 0 /\ Num(s, ClearCmd) = 1 /\ Num(s, ReadIt) = 0
<1>1. SetCmd # ReadIt /\ SetCmd # ClearCmd /\ ReadIt # ClearCmd
  BY OpNames
<1> DEFINE S == {SetCmd, ReadIt, ClearCmd}
           s1 == <<ClearCmd>>
           s2 == <<ReadIt, ClearCmd>>
           s3 == <<SetCmd, ReadIt, ClearCmd>>
<1>2. /\ s1 \in Seq(S) /\ s1 # <<>> /\ Head(s1) = ClearCmd /\ Tail(s1) = <<>>
      /\ s2 \in Seq(S) /\ s2 # <<>> /\ Head(s2) = ReadIt /\ Tail(s2) = s1
      /\ s3 \in Seq(S) /\ s3 # <<>> /\ Head(s3) = SetCmd /\ Tail(s3) = s2
  OBVIOUS
<1> HIDE DEF s1, s2, s3, S
<1>3. \A x : Num(<<>>, x) = 0
  <2> TAKE x
  <2>1. Where(<<>>, x) = {}
    BY DEF Where
  <2> QED
    BY <2>1, FS_EmptySet DEF Num
<1>4. \A x : Num(s1, x) = One(ClearCmd = x) + Num(<<>>, x)
  <2>0. s1 \in Seq(S) /\ s1 # <<>>
    BY <1>2
  <2>1. \A x : Num(s1, x) = One(Head(s1) = x) + Num(Tail(s1), x)
    BY <2>0, NumTail, Zenon
  <2> QED
    BY <1>2, <2>1, Zenon
<1>5. \A x : Num(s2, x) = One(ReadIt = x) + Num(s1, x)
  <2>0. s2 \in Seq(S) /\ s2 # <<>>
    BY <1>2
  <2>1. \A x : Num(s2, x) = One(Head(s2) = x) + Num(Tail(s2), x)
    BY <2>0, NumTail, Zenon
  <2> QED
    BY <1>2, <2>1, Zenon
<1>6. \A x : Num(s3, x) = One(SetCmd = x) + Num(s2, x)
  <2>0. s3 \in Seq(S) /\ s3 # <<>>
    BY <1>2
  <2>1. \A x : Num(s3, x) = One(Head(s3) = x) + Num(Tail(s3), x)
    BY <2>0, NumTail, Zenon
  <2> QED
    BY <1>2, <2>1, Zenon
<1>7. Num(s1, ClearCmd) = 1 /\ Num(s1, ReadIt) = 0 /\ Num(s1, SetCmd) = 0
  BY <1>1, <1>3, <1>4 DEF One
<1>8. Num(s2, ClearCmd) = 1 /\ Num(s2, ReadIt) = 1 /\ Num(s2, SetCmd) = 0
  BY <1>1, <1>5, <1>7 DEF One
<1>9. Num(s3, ClearCmd) = 1 /\ Num(s3, ReadIt) = 1 /\ Num(s3, SetCmd) = 1
  BY <1>1, <1>6, <1>8 DEF One
<1>10. ASSUME s \notin LookForms
       PROVE  Num(s, SetCmd) = 0 /\ Num(s, ClearCmd) = 0 /\ Num(s, ReadIt) = 0
  <2> DEFINE T == {DoneIt, OverIt, Again, News}
  <2>1. s \in Seq(T)
    <3>1. CASE s \in AnswerForms
      <4>1. CASE s = <<DoneIt, OverIt>>
        BY <4>1
      <4>2. CASE s = <<DoneIt, OverIt, Again, Again, Again>>
        BY <4>2
      <4>3. CASE s = <<OverIt>>
        BY <4>3
      <4>4. CASE s = <<OverIt, Again, Again, Again>>
        BY <4>4
      <4> QED
        BY <3>1, <4>1, <4>2, <4>3, <4>4 DEF AnswerForms
    <3>2. CASE s \in SendForms
      <4>1. CASE s = <<>>
        BY <4>1
      <4>2. CASE s = <<Again>>
        BY <4>2
      <4>3. CASE s = <<Again, Again>>
        BY <4>3
      <4>4. CASE s = <<Again, Again, Again>>
        BY <4>4
      <4>5. CASE s = <<News>>
        BY <4>5
      <4> QED
        BY <3>2, <4>1, <4>2, <4>3, <4>4, <4>5 DEF SendForms
    <3> QED
      BY <1>10, <3>1, <3>2 DEF ServingForm
  <2>2. SetCmd \notin T /\ ClearCmd \notin T /\ ReadIt \notin T
    BY OpNames
  <2> HIDE DEF T
  <2>3. \A i \in 1 .. Len(s) : s[i] \in T
    BY <2>1
  <2>4. \A i \in 1 .. Len(s) : s[i] # SetCmd /\ s[i] # ClearCmd /\ s[i] # ReadIt
    BY <2>2, <2>3
  <2> QED
    BY <2>1, <2>4, NumNone
<1> QED
  BY <1>7, <1>8, <1>9, <1>10 DEF s1, s2, s3

BareOp == AskOp \cup {Op("self", "")}

\* What a packet of the server may make the child do.
LEMMA ServicesOps ==
  ASSUME NEW asks \in Services
  PROVE  asks \in Seq(BareOp) /\ Num(asks, Op("self", "")) = Moves(asks)
<1> DEFINE self == Op("self", "")
<1>1. self.op = "self" /\ (\A o \in AskOp : o.op # "self" /\ o # self) /\ AskOp \subseteq BareOp /\ self \in BareOp
  <2>1. self.op = "self"
    BY DEF Op
  <2>2. \A o \in AskOp : o.op # "self"
    BY DEF AskOp
  <2> HIDE DEF self
  <2>3. \A o \in AskOp : o # self
    BY <2>1, <2>2
  <2> QED
    BY <2>1, <2>2, <2>3 DEF BareOp, self
<1> HIDE DEF self
<1> SUFFICES asks \in Seq(BareOp) /\ Num(asks, self) = Moves(asks)
  BY DEF self
<1>2. ASSUME NEW s \in Seq(AskOp)
      PROVE  s \in Seq(BareOp) /\ Num(s, self) = 0 /\ Moves(s) = 0
  <2>1. \A i \in 1 .. Len(s) : s[i] \in AskOp
    OBVIOUS
  <2>2. s \in Seq(BareOp)
    BY <1>1, SeqMonotonic
  <2>3. Num(s, self) = 0
    <3>1. \A i \in 1 .. Len(s) : s[i] # self
      BY <1>1, <2>1
    <3> QED
      BY <3>1, NumNone
  <2>4. ~Occurs(s, "self")
    BY <1>1, <2>1 DEF Occurs
  <2> QED
    BY <2>2, <2>3, <2>4 DEF Moves
<1>3. CASE asks = <<>>
  <2>1. asks \in Seq(AskOp)
    BY <1>3
  <2> QED
    BY <1>2, <2>1
<1>4. ASSUME NEW qs \in Downloads, asks = AskAll(qs)
      PROVE  asks \in Seq(BareOp) /\ Num(asks, self) = Moves(asks)
  <2>1. qs \in Seq(Questions)
    BY RunAssumption
  <2>2. asks \in Seq(AskOp)
    BY <1>4, <2>1, AskAllForm
  <2> QED
    BY <1>2, <2>2
<1>5. CASE asks = AskAll(<<"SET_OPTIONS", "SET_OPTIONS">>) \o <<self>>
  <2> DEFINE a == AskAll(<<"SET_OPTIONS", "SET_OPTIONS">>)
             one == <<self>>
  <2>1. <<"SET_OPTIONS", "SET_OPTIONS">> \in Seq(Questions)
    BY DEF Questions
  <2>2. a \in Seq(AskOp)
    BY <2>1, AskAllForm
  <2> HIDE DEF a
  <2>3. a \in Seq(BareOp) /\ Num(a, self) = 0
    BY <1>2, <2>2
  <2>4. one \in Seq(BareOp) /\ Num(one, self) = 1 /\ Len(one) = 1 /\ one[1] = self
    <3>1. one \in Seq(BareOp) /\ Len(one) = 1 /\ one[1] = self
      <4>1. self \in BareOp
        BY <1>1
      <4> QED
        BY <4>1
    <3>2. Num(one, self) = One(self = self)
      BY <1>1, NumOne
    <3> QED
      BY <3>1, <3>2 DEF One
  <2> HIDE DEF one
  <2>5. a \o one \in Seq(BareOp) /\ Len(a \o one) = Len(a) + Len(one) /\ Len(a) \in Nat
    <3>1. a \o one \in Seq(BareOp) /\ Len(a \o one) = Len(a) + Len(one)
      BY <2>3, <2>4, Joined, Zenon
    <3> QED
      BY <2>3, <3>1
  <2>6. \A i \in 1 .. Len(one) : (a \o one)[Len(a) + i] = one[i]
    <3>1. (a \o one)[Len(a) + 1] = one[1]
      BY <2>3, <2>4, LastOf, Zenon
    <3>2. \A i \in 1 .. Len(one) : i = 1
      BY <2>4
    <3> QED
      BY <3>1, <3>2
  <2>7. 1 \in 1 .. Len(one) /\ Len(a) + 1 \in 1 .. Len(a \o one)
    BY <2>4, <2>5
  <2>8. (a \o one)[Len(a) + 1].op = "self"
    BY <1>1, <2>4, <2>6, <2>7
  <2>9. Occurs(a \o one, "self")
    BY <2>7, <2>8 DEF Occurs
  <2>10. Num(a \o one, self) = Num(a, self) + Num(one, self)
    BY <2>3, <2>4, NumJoined, ZenonT(60)
  <2>11. asks = a \o one
    BY <1>5 DEF a, one
  <2>12. Num(a \o one, self) = 1 /\ Moves(a \o one) = 1
    BY <2>3, <2>4, <2>9, <2>10 DEF Moves
  <2> QED
    BY <2>5, <2>11, <2>12
<1>6. asks = <<>> \/ (\E qs \in Downloads : asks = AskAll(qs))
        \/ asks = AskAll(<<"SET_OPTIONS", "SET_OPTIONS">>) \o <<self>>
  BY DEF Services, self
<1> QED
  BY <1>3, <1>4, <1>5, <1>6

PartOp == BareOp \cup {TellIt, Cut}
Online == <<Zero, Connect>>

LEMMA PartOps ==
  /\ \A o \in BareOp : o \notin {TellIt, FreeIt, Connect, Cut} /\ o.op # "zero"
  /\ \A o \in PartOp : o \notin {FreeIt, Connect} /\ o.op # "zero"
  /\ BareOp \subseteq PartOp /\ BareOp \subseteq ChildOp /\ PartOp \subseteq ChildOp
  /\ Zero \in ChildOp /\ Connect \in ChildOp
  /\ Zero \notin {TellIt, FreeIt, Connect, Cut, Self} /\ Zero.op = "zero"
  /\ Connect \notin {TellIt, FreeIt, Cut, Self} /\ Connect.op = "set"
  /\ Cut \notin {TellIt, FreeIt, Self} /\ Cut.op = "clear"
  /\ TellIt \notin {FreeIt, Self}
<1>1. /\ Zero.op = "zero" /\ Connect.op = "set" /\ Cut.op = "clear" /\ Self.op = "self"
      /\ TellIt.op = "tell" /\ FreeIt.op = "free"
  BY OpNames DEF Zero, Connect, Cut, Self, Op
<1>2. \A o \in BareOp : o.op \in {"reset", "request", "await", "self"}
  <2>1. \A o \in AskOp : o.op \in {"reset", "request", "await"}
    BY DEF AskOp
  <2>2. Op("self", "").op = "self"
    BY DEF Op
  <2> QED
    BY <2>1, <2>2 DEF BareOp
<1>3. Zero \in LoopOp /\ Connect \in LoopOp /\ Cut \in LoopOp /\ Self \in LoopOp /\ AskOp \subseteq LoopOp
  <2>1. Zero \in LoopOp
    BY DEF LoopOp, Zero, Op
  <2>2. Connect \in LoopOp
    BY DEF LoopOp, Connect, Op
  <2>3. Cut \in LoopOp
    BY DEF LoopOp, Cut, Op
  <2>4. Self \in LoopOp
    BY DEF LoopOp, Self, Op
  <2>5. AskOp \subseteq LoopOp
    BY DEF LoopOp
  <2> QED
    BY <2>1, <2>2, <2>3, <2>4, <2>5
<1>4. BareOp \subseteq LoopOp
  BY <1>3 DEF BareOp, Self
<1>5. BareOp \subseteq ChildOp /\ PartOp \subseteq ChildOp /\ Zero \in ChildOp /\ Connect \in ChildOp
  BY <1>3, <1>4, OpTypes DEF PartOp
<1>6. \A o \in BareOp : o \notin {TellIt, FreeIt, Connect, Cut} /\ o.op # "zero"
  BY <1>1, <1>2
<1>7. \A o \in PartOp : o \notin {FreeIt, Connect} /\ o.op # "zero"
  BY <1>1, <1>6 DEF PartOp
<1>8. BareOp \subseteq PartOp
  BY DEF PartOp
<1>9. /\ Zero \notin {TellIt, FreeIt, Connect, Cut, Self}
      /\ Connect \notin {TellIt, FreeIt, Cut, Self}
      /\ Cut \notin {TellIt, FreeIt, Self}
      /\ TellIt \notin {FreeIt, Self}
  BY <1>1
<1> QED
  BY <1>1, <1>5, <1>6, <1>7, <1>8, <1>9

LEMMA BareCounts ==
  ASSUME NEW s \in Seq(BareOp)
  PROVE  /\ s \in Seq(PartOp) /\ s \in Seq(ChildOp)
         /\ Num(s, TellIt) = 0 /\ Num(s, FreeIt) = 0 /\ Num(s, Connect) = 0 /\ Num(s, Cut) = 0
<1>1. \A i \in 1 .. Len(s) : s[i] \in BareOp
  OBVIOUS
<1>2. \A i \in 1 .. Len(s) : s[i] # TellIt /\ s[i] # FreeIt /\ s[i] # Connect /\ s[i] # Cut
  BY <1>1, PartOps
<1>3. s \in Seq(PartOp) /\ s \in Seq(ChildOp)
  BY PartOps, SeqMonotonic
<1>4. Num(s, TellIt) = 0 /\ Num(s, FreeIt) = 0 /\ Num(s, Connect) = 0 /\ Num(s, Cut) = 0
  BY <1>2, NumNone
<1> QED
  BY <1>3, <1>4

LEMMA PartCounts ==
  /\ Status \in Seq(PartOp) /\ \A x : Num(Status, x) = One(TellIt = x)
  /\ Disconnect \in Seq(PartOp) /\ \A x : Num(Disconnect, x) = One(Cut = x)
  /\ Online \in Seq(ChildOp) /\ \A x : Num(Online, x) = One(Zero = x) + One(Connect = x)
  /\ CheckErrorStatus \in Seq(BareOp) /\ Len(CheckErrorStatus) = 3
  /\ CheckErrorStatus[3].op = "await" /\ Num(CheckErrorStatus, Self) = 0
  /\ <<>> \in Seq(PartOp) /\ \A x : Num(<<>>, x) = 0
<1>1. Status = <<TellIt>> /\ Disconnect = <<Cut>> /\ TellIt \in PartOp /\ Cut \in PartOp
  BY DEF Status, Disconnect, TellIt, Cut, PartOp
<1>2. Status \in Seq(PartOp) /\ \A x : Num(Status, x) = One(TellIt = x)
  BY <1>1, NumOne
<1>3. Disconnect \in Seq(PartOp) /\ \A x : Num(Disconnect, x) = One(Cut = x)
  BY <1>1, NumOne
<1>4. <<>> \in Seq(PartOp) /\ \A x : Num(<<>>, x) = 0
  <2>1. \A x : Where(<<>>, x) = {}
    BY DEF Where
  <2> QED
    BY <2>1, FS_EmptySet DEF Num
<1>5. Online \in Seq(ChildOp) /\ \A x : Num(Online, x) = One(Zero = x) + One(Connect = x)
  <2> DEFINE u == <<Connect>>
  <2>0. Zero \in ChildOp /\ Connect \in ChildOp
    BY PartOps
  <2> HIDE DEF u
  <2>1. u \in Seq(ChildOp) /\ \A x : Num(u, x) = One(Connect = x)
    BY <2>0, NumOne DEF u
  <2>2. Online \in Seq(ChildOp) /\ Online # <<>> /\ Head(Online) = Zero /\ Tail(Online) = u
    BY <2>0 DEF Online, u
  <2>3. \A x : Num(Online, x) = One(Head(Online) = x) + Num(Tail(Online), x)
    BY <2>2, NumTail, Zenon
  <2>4. ASSUME NEW x PROVE Num(Online, x) = One(Zero = x) + One(Connect = x)
    BY <2>1, <2>2, <2>3 DEF One
  <2> QED
    BY <2>2, <2>4
<1>6. CheckErrorStatus \in Seq(AskOp) /\ Len(CheckErrorStatus) = 3 /\ CheckErrorStatus[3].op = "await"
  BY DEF CheckErrorStatus, Ask, AskOp, Op, Questions
<1>7. CheckErrorStatus \in Seq(BareOp) /\ Num(CheckErrorStatus, Self) = 0
  <2>1. AskOp \subseteq BareOp
    BY DEF BareOp
  <2>2. CheckErrorStatus \in Seq(BareOp)
    BY <1>6, <2>1, SeqMonotonic
  <2>3. \A o \in AskOp : o.op # "self"
    BY DEF AskOp
  <2>4. \A i \in 1 .. Len(CheckErrorStatus) : CheckErrorStatus[i] \in AskOp
    BY <1>6, SMTT(40)
  <2>a. Self.op = "self"
    BY DEF Self, Op
  <2>5. \A i \in 1 .. Len(CheckErrorStatus) : CheckErrorStatus[i] # Self
    BY <2>3, <2>4, <2>a
  <2> QED
    BY <1>6, <2>2, <2>5, NumNone
<1> QED
  BY <1>2, <1>3, <1>4, <1>5, <1>6, <1>7

LEMMA NoLinks ==
  ASSUME NEW s \in Seq(PartOp)
  PROVE  Linked(s) /\ s \in Seq(ChildOp)
<1>1. \A i \in 1 .. Len(s) : s[i] \in PartOp
  OBVIOUS
<1>2. s \in Seq(ChildOp)
  BY PartOps, SeqMonotonic
<1>3. Linked(s)
  BY <1>1, PartOps DEF Linked
<1> QED
  BY <1>2, <1>3

LEMMA LinkedTail ==
  ASSUME NEW s \in Seq(ChildOp), s # <<>>, Linked(s)
  PROVE  Linked(Tail(s))
<1>1. Len(Tail(s)) = Len(s) - 1 /\ Len(s) \in Nat /\ \A i \in 1 .. Len(Tail(s)) : Tail(s)[i] = s[i + 1]
  OBVIOUS
<1> DEFINE u == Tail(s)
           l == Len(s)
           m == Len(u)
<1>2. m = l - 1 /\ l \in Nat /\ \A i \in 1 .. m : u[i] = s[i + 1]
  BY <1>1
<1>3. \A i \in 1 .. l :
        /\ s[i] = Connect => i = l
        /\ s[i].op = "zero" => i + 1 = l /\ s[i + 1] = Connect
  BY DEF Linked
<1> HIDE DEF u, l, m
<1>4. ASSUME NEW i \in 1 .. m
      PROVE  /\ u[i] = Connect => i = m
             /\ u[i].op = "zero" => i + 1 = m /\ u[i + 1] = Connect
  <2> DEFINE k == i + 1
  <2>1. k \in 1 .. l /\ u[i] = s[k] /\ k - 1 = i
    BY <1>2
  <2>2. s[k] = Connect => k = l
    BY <1>3, <2>1
  <2>3. s[k].op = "zero" => k + 1 = l /\ s[k + 1] = Connect
    BY <1>3, <2>1
  <2>4. k + 1 = l => i + 1 = m /\ i + 1 \in 1 .. m /\ (i + 1) + 1 = k + 1
    BY <1>2, <2>1
  <2>5. k + 1 = l => u[i + 1] = s[k + 1]
    BY <1>2, <2>4
  <2> HIDE DEF k
  <2> QED
    BY <1>2, <2>1, <2>2, <2>3, <2>4, <2>5
<1> QED
  BY <1>4 DEF Linked, u, m

LEMMA LinkedOnline ==
  ASSUME NEW s \in Seq(PartOp)
  PROVE  Linked(s \o Online)
<1> DEFINE n == Len(s)
           t == s \o Online
<1>1. s \in Seq(ChildOp) /\ Online \in Seq(ChildOp) /\ Len(Online) = 2
  BY PartOps, PartCounts, SeqMonotonic DEF Online
<1>2. Len(t) = n + Len(Online) /\ (\A i \in 1 .. Len(s) : t[i] = s[i])
  BY <1>1, Joined, ZenonT(60)
<1>3. \A i \in 1 .. n + Len(Online) : t[i] = IF i <= n THEN s[i] ELSE Online[i - n]
  BY <1>1, ConcatProperties
<1>4. n \in Nat /\ Len(t) = n + 2
  BY <1>1, <1>2
<1>5. \A i \in 1 .. n : s[i] \in PartOp
  OBVIOUS
<1> HIDE DEF n, t
<1>6. t[n + 1] = Zero /\ t[n + 2] = Connect
  <2>1. n + 1 \in 1 .. n + Len(Online) /\ ~(n + 1 <= n) /\ (n + 1) - n = 1
    BY <1>1, <1>4
  <2>2. n + 2 \in 1 .. n + Len(Online) /\ ~(n + 2 <= n) /\ (n + 2) - n = 2
    BY <1>1, <1>4
  <2>3. Online[1] = Zero /\ Online[2] = Connect
    BY DEF Online
  <2> QED
    BY <1>3, <2>1, <2>2, <2>3
<1>7. ASSUME NEW i \in 1 .. n + 2
      PROVE  /\ t[i] = Connect => i = n + 2
             /\ t[i].op = "zero" => i + 1 = n + 2 /\ t[i + 1] = Connect
  <2>1. CASE i <= n
    <3>1. i \in 1 .. n /\ i \in 1 .. n + Len(Online)
      BY <1>1, <1>4, <2>1
    <3>2. t[i] = s[i]
      BY <1>3, <2>1, <3>1
    <3>3. t[i] # Connect /\ t[i].op # "zero"
      BY <1>5, <3>1, <3>2, PartOps
    <3> QED
      BY <3>3
  <2>2. CASE i = n + 1
    <3>1. i + 1 = n + 2 /\ Zero # Connect
      BY <1>4, <2>2, PartOps
    <3> QED
      BY <1>6, <2>2, <3>1
  <2>3. CASE i = n + 2
    BY <1>6, <2>3, PartOps
  <2> QED
    BY <1>4, <2>1, <2>2, <2>3
<1> QED
  BY <1>4, <1>7 DEF Linked, t

LEMMA PartJoined ==
  ASSUME NEW a \in Seq(PartOp), NEW b \in Seq(PartOp)
  PROVE  a \o b \in Seq(PartOp) /\ \A x : Num(a \o b, x) = Num(a, x) + Num(b, x)
<1>1. a \o b \in Seq(PartOp)
  BY ConcatProperties
<1>2. \A x : Num(a \o b, x) = Num(a, x) + Num(b, x)
  BY NumJoined, Zenon
<1> QED
  BY <1>1, <1>2

\* What the parts of the loop set out to do, counted.
LEMMA StatusCounts ==
  /\ Num(Status, TellIt) = 1 /\ Num(Status, FreeIt) = 0 /\ Num(Status, Self) = 0 /\ Num(Status, Connect) = 0
  /\ Num(Disconnect, TellIt) = 0 /\ Num(Disconnect, FreeIt) = 0 /\ Num(Disconnect, Self) = 0
  /\ Num(Online, TellIt) = 0 /\ Num(Online, FreeIt) = 0 /\ Num(Online, Self) = 0 /\ Num(Online, Connect) = 1
<1>1. TellIt # FreeIt /\ TellIt # Self /\ TellIt # Connect /\ Cut # TellIt /\ Cut # FreeIt /\ Cut # Self
      /\ Zero # TellIt /\ Zero # FreeIt /\ Zero # Self /\ Zero # Connect
      /\ Connect # TellIt /\ Connect # FreeIt /\ Connect # Self
  BY PartOps
<1>2. /\ Num(Status, TellIt) = 1 /\ Num(Status, FreeIt) = 0 /\ Num(Status, Self) = 0 /\ Num(Status, Connect) = 0
  BY <1>1, PartCounts DEF One
<1>3. Num(Disconnect, TellIt) = 0 /\ Num(Disconnect, FreeIt) = 0 /\ Num(Disconnect, Self) = 0
  BY <1>1, PartCounts DEF One
<1>4. /\ Num(Online, TellIt) = 0 /\ Num(Online, FreeIt) = 0 /\ Num(Online, Self) = 0 /\ Num(Online, Connect) = 1
  BY <1>1, PartCounts DEF One
<1> QED
  BY <1>2, <1>3, <1>4

LEMMA AskedCounts ==
  ASSUME NEW asks \in Services
  PROVE  /\ asks \in Seq(PartOp) /\ Num(asks, Self) = Moves(asks) /\ Moves(asks) \in {0, 1}
         /\ Num(asks, TellIt) = 0 /\ Num(asks, FreeIt) = 0 /\ Num(asks, Connect) = 0
         /\ asks \o Status \in Seq(PartOp)
         /\ Num(asks \o Status, TellIt) = 1 /\ Num(asks \o Status, FreeIt) = 0
         /\ Num(asks \o Status, Self) = Moves(asks) /\ Num(asks \o Status, Connect) = 0
<1>1. /\ asks \in Seq(PartOp) /\ Num(asks, Self) = Moves(asks)
      /\ Num(asks, TellIt) = 0 /\ Num(asks, FreeIt) = 0 /\ Num(asks, Connect) = 0
  BY ServicesOps, BareCounts DEF Self
<1>2. Moves(asks) \in {0, 1}
  BY DEF Moves
<1>3. Status \in Seq(PartOp)
  BY PartCounts
<1>4. asks \o Status \in Seq(PartOp) /\ \A x : Num(asks \o Status, x) = Num(asks, x) + Num(Status, x)
  BY <1>1, <1>3, PartJoined
<1> QED
  BY <1>1, <1>2, <1>4, StatusCounts

LEMMA OnlineCounts ==
  ASSUME NEW asks \in Services
  PROVE  LET s == asks \o Status \o Online
         IN  /\ Linked(s) /\ Num(s, FreeIt) = 0 /\ Num(s, Self) = Moves(asks)
             /\ Num(s, TellIt) = 1 /\ Num(s, Connect) = 1
<1> DEFINE p == asks \o Status
           n == Moves(asks)
<1>1. /\ p \in Seq(PartOp) /\ Num(p, TellIt) = 1 /\ Num(p, FreeIt) = 0 /\ Num(p, Self) = n /\ n \in {0, 1}
      /\ Num(p, Connect) = 0
  BY AskedCounts
<1> HIDE DEF p, n
<1>2. p \in Seq(ChildOp) /\ Online \in Seq(ChildOp)
  BY <1>1, NoLinks, PartCounts
<1>3. \A x : Num(p \o Online, x) = Num(p, x) + Num(Online, x)
  BY <1>2, NumJoined, Zenon
<1>4. Linked(p \o Online)
  BY <1>1, LinkedOnline
<1>5. /\ Num(p \o Online, FreeIt) = 0 /\ Num(p \o Online, Self) = n
      /\ Num(p \o Online, TellIt) = 1 /\ Num(p \o Online, Connect) = 1
  BY <1>1, <1>3, StatusCounts
<1> QED
  BY <1>4, <1>5 DEF p, n

LEMMA OfflineCounts ==
  ASSUME NEW asks \in Services
  PROVE  LET s == asks \o Disconnect
         IN  Linked(s) /\ Num(s, FreeIt) = 0 /\ Num(s, Self) = Moves(asks) /\ Num(s, TellIt) = 0
<1> DEFINE n == Moves(asks)
           s == asks \o Disconnect
<1>1. asks \in Seq(PartOp) /\ Num(asks, TellIt) = 0 /\ Num(asks, FreeIt) = 0 /\ Num(asks, Self) = n /\ n \in {0, 1}
  BY AskedCounts
<1>2. s \in Seq(PartOp) /\ \A x : Num(s, x) = Num(asks, x) + Num(Disconnect, x)
  BY <1>1, PartCounts, PartJoined
<1> HIDE DEF s, n
<1>3. Linked(s)
  BY <1>2, NoLinks
<1>4. Num(s, FreeIt) = 0 /\ Num(s, Self) = n /\ Num(s, TellIt) = 0
  BY <1>1, <1>2, StatusCounts
<1> QED
  BY <1>3, <1>4 DEF s, n

LEMMA LastTryCounts ==
  ASSUME NEW asks \in Services
  PROVE  LET s == asks \o Status \o Disconnect
         IN  Linked(s) /\ Num(s, FreeIt) = 0 /\ Num(s, Self) = Moves(asks) /\ Num(s, TellIt) = 1
<1> DEFINE n == Moves(asks)
           p == asks \o Status
           s == p \o Disconnect
<1>1. p \in Seq(PartOp) /\ Num(p, TellIt) = 1 /\ Num(p, FreeIt) = 0 /\ Num(p, Self) = n /\ n \in {0, 1}
  BY AskedCounts
<1> HIDE DEF p, n
<1>2. s \in Seq(PartOp) /\ \A x : Num(s, x) = Num(p, x) + Num(Disconnect, x)
  BY <1>1, PartCounts, PartJoined
<1> HIDE DEF s
<1>3. Linked(s)
  BY <1>2, NoLinks
<1>4. Num(s, FreeIt) = 0 /\ Num(s, Self) = n /\ Num(s, TellIt) = 1
  BY <1>1, <1>2, StatusCounts
<1> QED
  BY <1>3, <1>4 DEF s, p, n

LEMMA HeartbeatCounts ==
  ASSUME NEW asks \in Services, NEW answer \in {<<>>, Status}, NEW s, s = asks \o answer \o CheckErrorStatus
  PROVE  /\ Linked(s) /\ Num(s, FreeIt) = 0 /\ Num(s, Self) = Moves(asks) /\ Num(s, TellIt) <= 1
         /\ Num(s, TellIt) \in Nat
         /\ s # <<>> /\ s[Len(s)].op = "await" /\ Occurs(s, "await")
<1> DEFINE n == Moves(asks)
           p == asks \o answer
           c == CheckErrorStatus
<1>1. /\ asks \in Seq(PartOp) /\ Num(asks, Self) = n /\ Num(asks, TellIt) = 0 /\ Num(asks, FreeIt) = 0
  BY ServicesOps, BareCounts DEF Self
<1>2. n \in Nat
  BY DEF Moves
<1>3. /\ answer \in Seq(PartOp) /\ Num(answer, Self) = 0 /\ Num(answer, FreeIt) = 0
      /\ Num(answer, TellIt) \in {0, 1}
  <2>1. TellIt # FreeIt /\ TellIt # Self
    BY PartOps
  <2>2. CASE answer = <<>>
    BY <2>2, PartCounts
  <2>3. CASE answer = Status
    BY <2>1, <2>3, PartCounts DEF One
  <2> QED
    BY <2>2, <2>3
<1>4. /\ c \in Seq(PartOp) /\ Len(c) = 3 /\ c[3].op = "await"
      /\ Num(c, Self) = 0 /\ Num(c, FreeIt) = 0 /\ Num(c, TellIt) = 0
  BY PartCounts, BareCounts
<1> HIDE DEF n, c
<1>5. p \in Seq(PartOp) /\ \A x : Num(p, x) = Num(asks, x) + Num(answer, x)
  BY <1>1, <1>3, PartJoined
<1> HIDE DEF p
<1>6. s = p \o c
  BY DEF p, c
<1>7. s \in Seq(PartOp) /\ \A x : Num(s, x) = Num(p, x) + Num(c, x)
  BY <1>4, <1>5, <1>6, PartJoined
<1>8. Linked(s)
  BY <1>7, NoLinks
<1>9. Num(s, FreeIt) = 0 /\ Num(s, Self) = n /\ Num(s, TellIt) <= 1 /\ Num(s, TellIt) \in Nat
  BY <1>1, <1>2, <1>3, <1>4, <1>5, <1>7
<1>10. /\ Len(p \o c) = Len(p) + Len(c) /\ Len(p) \in Nat
       /\ \A i \in 1 .. Len(p) + Len(c) : (p \o c)[i] = IF i <= Len(p) THEN p[i] ELSE c[i - Len(p)]
  <2>1. Len(p \o c) = Len(p) + Len(c)
    BY <1>4, <1>5, ConcatProperties
  <2>2. \A i \in 1 .. Len(p) + Len(c) : (p \o c)[i] = IF i <= Len(p) THEN p[i] ELSE c[i - Len(p)]
    BY <1>4, <1>5, ConcatProperties
  <2> QED
    BY <1>5, <2>1, <2>2
<1> DEFINE l == Len(p)
           k == l + 3
<1>11. l \in Nat /\ Len(s) = k
  BY <1>4, <1>6, <1>10
<1>12. k \in 1 .. l + Len(c) /\ ~(k <= l) /\ k - l = 3
  BY <1>4, <1>11
<1> HIDE DEF k
<1>13. s[k] = c[3]
  BY <1>6, <1>10, <1>12
<1>14. s # <<>> /\ k \in 1 .. Len(s)
  BY <1>4, <1>7, <1>11, <1>12
<1>15. s[Len(s)].op = "await" /\ Occurs(s, "await")
  BY <1>4, <1>11, <1>13, <1>14 DEF Occurs
<1> QED
  BY <1>8, <1>9, <1>14, <1>15 DEF n

LEMMA WarnCounts ==
  ASSUME NEW warning \in Warnings, NEW failed \in {<<>>, Disconnect \o Status}, NEW s, s = warning \o failed
  PROVE  /\ Linked(s) /\ Num(s, FreeIt) = 0 /\ Num(s, Self) = 0 /\ Num(s, TellIt) <= 2
         /\ Num(s, TellIt) \in Nat
         /\ ~Occurs(s, "await")
<1>1. TellIt # FreeIt /\ TellIt # Self /\ Cut # TellIt /\ Cut # FreeIt /\ Cut # Self
  BY PartOps
<1> DEFINE W == {TellIt, Cut}
           Light(w) == /\ w \in Seq(W) /\ w \in Seq(PartOp) /\ Num(w, FreeIt) = 0 /\ Num(w, Self) = 0
                       /\ Num(w, TellIt) \in {0, 1}
<1>2. Status \in Seq(W) /\ Disconnect \in Seq(W)
  <2>1. TellIt \in W /\ Cut \in W
    OBVIOUS
  <2>2. Status = <<TellIt>> /\ Disconnect = <<Cut>>
    BY DEF Status, Disconnect, TellIt, Cut
  <2> HIDE DEF W
  <2> QED
    BY <2>1, <2>2
<1>3. /\ Num(Status, TellIt) = 1 /\ Num(Status, FreeIt) = 0 /\ Num(Status, Self) = 0
      /\ Num(Disconnect, TellIt) = 0 /\ Num(Disconnect, FreeIt) = 0 /\ Num(Disconnect, Self) = 0
      /\ Num(<<>>, TellIt) = 0 /\ Num(<<>>, FreeIt) = 0 /\ Num(<<>>, Self) = 0
      /\ Status \in Seq(PartOp) /\ Disconnect \in Seq(PartOp) /\ <<>> \in Seq(PartOp)
  BY <1>1, PartCounts DEF One
<1>4. Light(<<>>) /\ Light(Status) /\ Light(Disconnect)
  BY <1>2, <1>3
<1>5. /\ Status \o Disconnect \in Seq(W) /\ Disconnect \o Status \in Seq(W)
  <2> HIDE DEF W
  <2> QED
    BY <1>2, ConcatProperties
<1>6. Light(Status \o Disconnect)
  <2>1. Status \o Disconnect \in Seq(PartOp)
        /\ \A x : Num(Status \o Disconnect, x) = Num(Status, x) + Num(Disconnect, x)
    BY <1>3, PartJoined
  <2> HIDE DEF W
  <2> QED
    BY <1>3, <1>5, <2>1
<1>7. Light(Disconnect \o Status)
  <2>1. Disconnect \o Status \in Seq(PartOp)
        /\ \A x : Num(Disconnect \o Status, x) = Num(Disconnect, x) + Num(Status, x)
    BY <1>3, PartJoined
  <2> HIDE DEF W
  <2> QED
    BY <1>3, <1>5, <2>1
<1>8. Light(warning) /\ Light(failed)
  <2> HIDE DEF Light
  <2> QED
    BY <1>4, <1>6, <1>7 DEF Warnings
<1>9. s \in Seq(PartOp) /\ \A x : Num(s, x) = Num(warning, x) + Num(failed, x)
  BY <1>8, PartJoined
<1>10. s \in Seq(W)
  <2> HIDE DEF W
  <2> QED
    BY <1>8, ConcatProperties
<1>11. \A o \in W : o.op # "await"
  BY OpNames, PartOps
<1>12. ~Occurs(s, "await")
  <2> HIDE DEF W
  <2>1. \A i \in 1 .. Len(s) : s[i] \in W
    BY <1>10
  <2> QED
    BY <1>11, <2>1 DEF Occurs
<1>13. Linked(s)
  BY <1>9, NoLinks
<1>14. Num(s, FreeIt) = 0 /\ Num(s, Self) = 0 /\ Num(s, TellIt) <= 2 /\ Num(s, TellIt) \in Nat
  BY <1>8, <1>9
<1> QED
  BY <1>12, <1>13, <1>14

-----------------------------------------------------------------------------
\* What is counted is a number.
Amounts ==
  /\ Owed \in Nat /\ Selfs \in Nat /\ Frees \in Nat /\ Sets \in Nat /\ Cuts \in Nat
  /\ Left \in Nat /\ Inits \in Nat /\ Posts \in Nat /\ Looks \in Nat /\ Len(toParent) \in Nat
  /\ Reads \in Nat /\ Loads \in Nat /\ gAttflag \in Nat
  /\ One(Offline) \in Nat /\ One(Offline) <= 1 /\ One(Wrong) \in Nat /\ One(Wrong) <= 1

LEMMA AmountsNow == Typed => Amounts
<1> SUFFICES ASSUME Typed PROVE Amounts
  OBVIOUS
<1>1. todo \in Seq(ChildOp) /\ serving \in Seq(ParentOp) /\ toChild \in Seq(ToChild) /\ toParent \in Seq(ToParent)
      /\ gAttflag \in {0, 1} /\ commands \in 0 .. CommandBound
  BY TodoTypes, ServingTypes DEF Typed, Forms, Cells
<1>2. \A x : Num(todo, x) \in Nat
  BY <1>1, WhereIs, Zenon
<1>3. \A x : Num(serving, x) \in Nat
  BY <1>1, WhereIs, Zenon
<1>4. \A x : Num(toChild, x) \in Nat
  BY <1>1, WhereIs, Zenon
<1>5. \A x : Num(toParent, x) \in Nat
  BY <1>1, WhereIs, Zenon
<1>6. Owed \in Nat /\ Selfs \in Nat /\ Frees \in Nat /\ Sets \in Nat /\ Cuts \in Nat
  BY <1>2 DEF Owed, Selfs, Frees, Sets, Cuts
<1>7. Inits \in Nat /\ Posts \in Nat /\ Looks \in Nat
  BY <1>4, <1>5 DEF Inits, Posts, Looks
<1>8. Reads \in Nat /\ Loads \in Nat
  <2>1. Num(serving, SetCmd) \in Nat /\ Num(serving, ClearCmd) \in Nat
    BY <1>3
  <2> QED
    BY <1>3, <2>1 DEF Reads, Loads
<1>9. Left \in Nat
  BY <1>1, RunAssumption DEF Left
<1>10. Len(toParent) \in Nat
  BY <1>1
<1>11. One(Offline) \in Nat /\ One(Offline) <= 1 /\ One(Wrong) \in Nat /\ One(Wrong) <= 1
  BY DEF One
<1>12. gAttflag \in Nat
  BY <1>1
<1> QED
  BY <1>12, <1>6, <1>7, <1>8, <1>9, <1>10, <1>11 DEF Amounts

LEMMA AmountsNext == Typed' => Amounts'
  BY AmountsNow, PTL

\* The child takes the first of its operations.
LEMMA DoCounts ==
  ASSUME TodoForm(todo), NEW o, Do(o)
  PROVE  /\ todo # <<>> /\ copy["child"] = <<>> /\ Head(todo).op = o /\ todo' = Tail(todo) /\ Head(todo) \in ChildOp
         /\ \A x : Num(todo, x) = One(Head(todo) = x) + Num(todo', x)
         /\ o # "await" => (Asking' <=> Asking) /\ ~Waiting
         /\ o \notin {"request", "await"} => ~Waiting'
         /\ o = "request" => Waiting' /\ Asking'
         /\ o = "await" => Waiting /\ Asking
<1>1. todo # <<>> /\ copy["child"] = <<>> /\ Head(todo).op = o /\ todo' = Tail(todo)
  BY DEF Do
<1>2. todo \in Seq(ChildOp)
  BY TodoTypes
<1>3. Head(todo) \in ChildOp /\ Head(todo) = todo[1] /\ 1 \in 1 .. Len(todo)
  BY <1>1, <1>2
<1>4. \A x : Num(todo, x) = One(Head(todo) = x) + Num(Tail(todo), x)
  BY <1>1, <1>2, NumTail, Zenon
<1>5. Len(todo') = Len(todo) - 1 /\ Len(todo) \in Nat /\ \A i \in 1 .. Len(todo') : todo'[i] = todo[i + 1]
  BY <1>1, <1>2
<1>6. ASSUME o # "await" PROVE (Asking' <=> Asking) /\ ~Waiting
  <2>1. \A i \in 1 .. Len(todo') : i + 1 \in 1 .. Len(todo)
    BY <1>5
  <2>2. ASSUME NEW i \in 1 .. Len(todo), todo[i].op = "await"
        PROVE  \E j \in 1 .. Len(todo') : todo'[j].op = "await"
    <3>1. i # 1
      BY <1>1, <1>3, <1>6, <2>2
    <3>2. i - 1 \in 1 .. Len(todo') /\ (i - 1) + 1 = i
      BY <1>5, <3>1
    <3>3. todo'[i - 1] = todo[i]
      BY <1>5, <3>2
    <3> QED
      BY <2>2, <3>2, <3>3
  <2>3. Asking' => Asking
    BY <1>5, <2>1 DEF Asking, Occurs
  <2>4. Asking => Asking'
    BY <2>2 DEF Asking, Occurs
  <2> QED
    BY <1>1, <1>6, <2>3, <2>4 DEF Waiting
<1>7. ASSUME o \notin {"request", "await"} PROVE ~Waiting'
  BY <1>1, <1>7, TailStarts DEF Waiting, Starts
<1>8. ASSUME o = "request" PROVE Waiting' /\ Asking'
  <2>1. todo' # <<>> /\ Head(todo').op = "await"
    BY <1>1, <1>8, TailStarts
  <2>2. todo' \in Seq(ChildOp)
    BY <1>1, <1>2
  <2>3. 1 \in 1 .. Len(todo') /\ todo'[1] = Head(todo')
    BY <2>1, <2>2
  <2> QED
    BY <2>1, <2>3 DEF Waiting, Asking, Occurs
<1>9. ASSUME o = "await" PROVE Waiting /\ Asking
  BY <1>1, <1>3, <1>9 DEF Waiting, Asking, Occurs
<1> QED
  BY <1>1, <1>3, <1>4, <1>6, <1>7, <1>8, <1>9

-----------------------------------------------------------------------------
(* How handlers end.                                                        *)

\* Whatever the child takes from its handler, the end stays the same.
LEMMA PlanTail ==
  ASSUME TodoForm(todo), Plan, NEW o, Do(o), at' = at
  PROVE  (at' = "warn" /\ todo' # <<>> => todo'[Len(todo')].op = "await") /\ Linked(todo')
<1>1. todo # <<>> /\ todo' = Tail(todo) /\ todo \in Seq(ChildOp)
  BY TodoTypes DEF Do
<1>2. Linked(todo')
  BY <1>1, LinkedTail DEF Plan
<1>3. Len(todo') = Len(todo) - 1 /\ Len(todo) \in Nat /\ \A i \in 1 .. Len(todo') : todo'[i] = todo[i + 1]
  BY <1>1
<1>4. ASSUME at' = "warn", todo' # <<>> PROVE todo'[Len(todo')].op = "await"
  <2>1. Len(todo') \in 1 .. Len(todo') /\ Len(todo') + 1 = Len(todo)
    BY <1>1, <1>3, <1>4
  <2>2. todo'[Len(todo')] = todo[Len(todo)]
    BY <1>3, <2>1
  <2> QED
    BY <1>1, <1>4, <2>2 DEF Plan
<1> QED
  BY <1>2, <1>4

LEMMA AloneLinked ==
  ASSUME NEW o \in ChildOp, o # Connect, o.op # "zero"
  PROVE  Linked(<<o>>)
<1> DEFINE s == <<o>>
<1>1. Len(s) = 1 /\ s[1] = o
  OBVIOUS
<1> HIDE DEF s
<1>2. \A i \in 1 .. Len(s) : s[i] = o
  BY <1>1
<1>3. Linked(s)
  BY <1>2 DEF Linked
<1> QED
  BY <1>3 DEF s

LEMMA UploadLinked ==
  Linked(<<SetCmd, TellIt, FreeIt, ClearCmd>>) /\ Linked(<<SetCmd, FreeIt, ClearCmd>>)
<1> DEFINE S == {SetCmd, TellIt, FreeIt, ClearCmd}
<1>1. \A o \in S : o # Connect /\ o.op # "zero"
  <2>1. SetCmd # Connect /\ ClearCmd # Connect /\ FreeIt # Connect /\ TellIt # Connect
    BY DEF SetCmd, ClearCmd, FreeIt, TellIt, Connect, Op
  <2> QED
    BY <2>1, OpNames
<1>2. ASSUME NEW s \in Seq(S) PROVE Linked(s)
  <2>1. \A i \in 1 .. Len(s) : s[i] \in S
    OBVIOUS
  <2> HIDE DEF S
  <2> QED
    BY <1>1, <2>1 DEF Linked
<1>3. <<SetCmd, TellIt, FreeIt, ClearCmd>> \in Seq(S)
  OBVIOUS
<1>4. <<SetCmd, FreeIt, ClearCmd>> \in Seq(S)
  OBVIOUS
<1> QED
  BY <1>2, <1>3, <1>4

\* What the child sets out to do when it is free.
LEMMA NewLinked ==
  ASSUME Cells, Hear \/ Reconnect \/ Heartbeat \/ Warn \/ NotYet
  PROVE  Linked(todo') /\ (at' = "warn" => todo'[Len(todo')].op = "await")
<1>1. CASE Hear
  <2> DEFINE c == Head(toChild)
  <2>1. /\ c \in ToChild
        /\ \/ c \in WithType /\ todo' = <<Op("payload", c)>>
           \/ c = "RE_INIT" /\ todo' = Disconnect
           \/ c = "PAUSE" /\ todo' = <<Op("set", "pause")>>
           \/ c = "RESUME" /\ todo' = <<Op("clear", "pause")>>
           \/ c = "POST_ATT" /\ todo' \in {<<SetCmd, TellIt, FreeIt, ClearCmd>>, <<SetCmd, FreeIt, ClearCmd>>}
           \/ c = "byte" /\ todo' = <<>>
    BY <1>1, Heard
  <2> HIDE DEF c
  <2>2. at' = "call"
    BY <1>1 DEF Hear
  <2>3. CASE c \in WithType /\ todo' = <<Op("payload", c)>>
    <3>1. Op("payload", c) \in ChildOp /\ Op("payload", c).op = "payload"
      BY <2>3 DEF Op, ChildOp, AloneOp
    <3>2. Op("payload", c) # Connect
      BY <3>1, PartOps
    <3> QED
      BY <2>2, <2>3, <3>1, <3>2, AloneLinked
  <2>4. CASE todo' = Disconnect
    <3>1. Disconnect \in Seq(PartOp)
      BY PartCounts
    <3> QED
      BY <2>2, <2>4, <3>1, NoLinks
  <2>5. ASSUME NEW w \in {"set", "clear"}, todo' = <<Op(w, "pause")>>
        PROVE  Linked(todo')
    <3>1. Op(w, "pause") \in ChildOp /\ Op(w, "pause").op # "zero" /\ Op(w, "pause") # Connect
      BY DEF Op, ChildOp, AloneOp, Connect
    <3> QED
      BY <2>5, <3>1, AloneLinked
  <2>6. CASE todo' = <<Op("set", "pause")>> \/ todo' = <<Op("clear", "pause")>>
    BY <2>2, <2>5, <2>6
  <2>7. CASE todo' \in {<<SetCmd, TellIt, FreeIt, ClearCmd>>, <<SetCmd, FreeIt, ClearCmd>>}
    BY <2>2, <2>7, UploadLinked
  <2>8. CASE todo' = <<>>
    <3>1. <<>> \in Seq(PartOp)
      BY PartCounts
    <3> QED
      BY <2>2, <2>8, <3>1, NoLinks
  <2> QED
    BY <2>1, <2>3, <2>4, <2>6, <2>7, <2>8
<1>2. CASE Reconnect
  <2>1. PICK asks \in Services : \/ todo' = asks \o Status \o Online
                                 \/ todo' = asks \o Disconnect
                                 \/ todo' = asks \o Status \o Disconnect
    BY <1>2 DEF Reconnect, Online, Zero, Connect
  <2>2. at' = "top"
    BY <1>2 DEF Reconnect
  <2> QED
    BY <2>1, <2>2, OnlineCounts, OfflineCounts, LastTryCounts
<1>3. CASE Heartbeat
  <2>1. PICK asks \in Services, answer \in {<<>>, Status} : todo' = asks \o answer \o CheckErrorStatus
    BY <1>3 DEF Heartbeat
  <2> QED
    BY <2>1, HeartbeatCounts
<1>4. CASE Warn
  <2>1. PICK warning \in Warnings, failed \in {<<>>, Disconnect \o Status} : todo' = warning \o failed
    BY <1>4 DEF Warn
  <2>2. at' = "due"
    BY <1>4 DEF Warn
  <2> QED
    BY <2>1, <2>2, WarnCounts
<1>5. CASE NotYet
  <2>1. todo' = <<ClearCmd>> /\ at' = "top"
    BY <1>5 DEF NotYet, ClearCmd
  <2>2. ClearCmd \in ChildOp /\ ClearCmd # Connect /\ ClearCmd.op # "zero"
    <3>1. ClearCmd # Connect
      BY OpNames, PartOps
    <3> QED
      BY <3>1, OpNames, OpTypes
  <2> QED
    BY <2>1, <2>2, AloneLinked
<1> QED
  BY <1>1, <1>2, <1>3, <1>4, <1>5

LEMMA PlanStep ==
  ASSUME Typed, Plan, [Next]_vars
  PROVE  Plan'
<1>1. Cells /\ TodoForm(todo) /\ ServingForm(serving)
  BY DEF Typed, Forms
<1> USE DEF flags, mailbox, pipes, child, main, history
<1> DEFINE Rest == serving' = <<ClearCmd>> => copy'["parent"] = <<>>
           End == (at' = "warn" /\ todo' # <<>> => todo'[Len(todo')].op = "await") /\ Linked(todo')
<1>2. ASSUME serving' = serving, copy'["parent"] = copy["parent"] PROVE Rest
  BY <1>2 DEF Plan
<1>3. ASSUME todo' = todo, at' = at \/ at' # "warn" PROVE End
  BY <1>3 DEF Plan
<1>4. Rest /\ End => Plan'
  BY DEF Plan
<1>5. CASE UNCHANGED vars
  <2> HIDE DEF Rest, End
  <2> QED
    BY <1>2, <1>3, <1>4, <1>5 DEF vars
<1>6. CASE ParentTake \/ MainTells \/ EnterMenu \/ LeaveMenu \/ Store("parent")
  <2>1. copy'["parent"] = <<>>
    BY <1>1, <1>6 DEF ParentTake, MainTells, Tells, EnterMenu, LeaveMenu, Store, ParentIdle, Cells, Threads
  <2>2. todo' = todo /\ at' = at
    BY <1>6 DEF ParentTake, MainTells, Tells, EnterMenu, LeaveMenu, Store
  <2>3. Rest
    BY <2>1
  <2> HIDE DEF Rest, End
  <2> QED
    BY <1>3, <1>4, <2>2, <2>3
<1>7. CASE ParentDone \/ ParentOver \/ ParentSend \/ ParentRead
  <2>1. copy'["parent"] = <<>>
    BY <1>7 DEF ParentDone, ParentOver, ParentSend, ParentRead, Serve
  <2>2. todo' = todo /\ at' = at
    BY <1>7 DEF ParentDone, ParentOver, ParentSend, ParentRead
  <2>3. Rest
    BY <2>1
  <2> HIDE DEF Rest, End
  <2> QED
    BY <1>3, <1>4, <2>2, <2>3
<1>8. CASE ParentFlag
  <2>1. serving # <<>> /\ Head(serving).op \in {"set", "clear"} /\ serving' = Tail(serving)
    BY <1>8 DEF ParentFlag, Serve
  <2>2. serving = <<SetCmd, ReadIt, ClearCmd>> \/ serving = <<ClearCmd>>
    BY <1>1, <2>1, ServingHead
  <2>3. serving' = <<ReadIt, ClearCmd>> \/ serving' = <<>>
    BY <2>1, <2>2, ServingTails
  <2>4. todo' = todo /\ at' = at
    BY <1>8 DEF ParentFlag
  <2>5. Rest
    BY <2>3
  <2> HIDE DEF Rest, End
  <2> QED
    BY <1>3, <1>4, <2>4, <2>5
<1>9. CASE Top \/ Silence \/ Paused \/ PostDue
  <2>1. todo' = todo /\ at' # "warn" /\ serving' = serving /\ copy' = copy
    BY <1>9 DEF Top, Silence, Paused, PostDue
  <2> HIDE DEF Rest, End
  <2> QED
    BY <1>2, <1>3, <1>4, <2>1
<1>10. CASE Hear \/ Reconnect \/ Heartbeat \/ Warn \/ NotYet
  <2>1. serving' = serving /\ copy' = copy
    BY <1>10 DEF Hear, Reconnect, Heartbeat, Warn, NotYet
  <2>2. End
    BY <1>1, <1>10, NewLinked
  <2> HIDE DEF Rest, End
  <2> QED
    BY <1>2, <1>4, <2>1, <2>2
<1>11. CASE Store("child")
  <2>1. todo' = todo /\ at' = at /\ serving' = serving /\ copy'["parent"] = copy["parent"]
    BY <1>1, <1>11 DEF Store, Cells, Threads
  <2> HIDE DEF Rest, End
  <2> QED
    BY <1>2, <1>3, <1>4, <2>1
<1>12. CASE \/ ChildPayload \/ ChildFlag \/ ChildZero \/ ChildFreesUpload
            \/ ChildReset \/ ChildTell \/ ChildAwait \/ ChildSelf
  <2>1. at' = at /\ serving' = serving /\ \E o \in ChildOps : Do(o)
    BY <1>12 DEF ChildPayload, ChildFlag, ChildZero, ChildFreesUpload, ChildReset, ChildTell, ChildAwait,
                 ChildSelf, ChildOps
  <2>2. copy'["parent"] = copy["parent"]
    <3>1. copy' = copy \/ ChildFlag
      BY <1>12 DEF ChildPayload, ChildZero, ChildFreesUpload, ChildReset, ChildTell, ChildAwait, ChildSelf
    <3>2. ChildFlag => copy'["parent"] = copy["parent"]
      BY <1>1 DEF ChildFlag, Load, Cells, Threads
    <3> QED
      BY <3>1, <3>2
  <2>3. End
    BY <1>1, <2>1, PlanTail
  <2> HIDE DEF Rest, End
  <2> QED
    BY <1>2, <1>4, <2>1, <2>2, <2>3
<1> QED
  BY <1>5, <1>6, <1>7, <1>8, <1>9, <1>10, <1>11, <1>12 DEF Next, ParentService, ChildNext

-----------------------------------------------------------------------------
(* Sums.                                                                    *)

LEMMA DebtSum ==
  ASSUME NEW o \in Nat, NEW o2 \in Nat, NEW s \in Nat, NEW s2 \in Nat, NEW i \in Nat, NEW i2 \in Nat,
         NEW l \in Nat, NEW l2 \in Nat, NEW f \in Nat, NEW f2 \in Nat, NEW lo \in Nat, NEW lo2 \in Nat,
         NEW w \in Nat, NEW w2 \in Nat,
         i2 + l <= i + l2, f2 + lo2 + w2 <= f + lo + w, o2 <= o, s2 <= s
  PROVE  (o2 + f2 + i2 + s2 + 2 + lo2 + w2) + l <= (o + f + i + s + 2 + lo + w) + l2
OBVIOUS

LEMMA TokenSum ==
  ASSUME NEW r \in Nat, NEW r2 \in Nat, NEW p \in Nat, NEW p2 \in Nat, NEW f \in Nat, NEW f2 \in Nat,
         NEW g \in Nat, NEW g2 \in Nat,
         2 * (r2 + p2) + g2 <= 2 * (r + p) + g, f2 <= f
  PROVE  2 * (r2 + p2) + f2 + g2 <= 2 * (r + p) + f + g
OBVIOUS

LEMMA InitSum ==
  ASSUME NEW i \in Nat, NEW i2 \in Nat, NEW s \in Nat, NEW s2 \in Nat, NEW l \in Nat, NEW l2 \in Nat,
         i2 + l <= i + l2, s2 <= s
  PROVE  (i2 + s2) + l <= (i + s) + l2
OBVIOUS

LEMMA StoreSum ==
  ASSUME NEW k \in Nat, NEW k2 \in Nat, NEW r \in Nat, NEW r2 \in Nat, NEW p \in Nat, NEW p2 \in Nat,
         NEW f \in Nat, NEW f2 \in Nat, NEW g \in Nat, NEW g2 \in Nat,
         r2 + p2 + g2 <= r + p + g, k2 <= k, f2 <= f
  PROVE  k2 + r2 + p2 + f2 + g2 <= k + r + p + f + g
OBVIOUS

LEMMA LineSum ==
  ASSUME NEW m \in Nat, NEW m2 \in Nat, NEW d \in Nat, NEW d2 \in Nat, NEW t \in Nat, NEW t2 \in Nat,
         NEW l \in Nat, NEW l2 \in Nat,
         d2 + l <= d + l2, t2 <= t, m2 <= m
  PROVE  (m2 + d2 + t2) + l <= (m + d + t) + l2
OBVIOUS

LEMMA BoundSum ==
  ASSUME NEW a \in Int, NEW b \in Int, NEW l \in Int, NEW l2 \in Int, a <= 7 + l, b + l <= a + l2
  PROVE  b <= 7 + l2
OBVIOUS

LEMMA RoomSum ==
  ASSUME NEW a \in Int, NEW b \in Int, NEW l \in Int, NEW l2 \in Int, a + 4 <= 7 + l, b + l <= a + l2
  PROVE  b + 4 <= 7 + l2
OBVIOUS

LEMMA AtMost ==
  ASSUME NEW a \in Int, NEW b \in Int, a <= 1, b <= a
  PROVE  b <= 1
OBVIOUS

LEMMA WaitSum ==
  ASSUME NEW m \in Nat, NEW m2 \in Nat, NEW l \in Nat, NEW l2 \in Nat, m <= 7 + l, m2 <= m, l <= l2
  PROVE  m2 <= 7 + l2
OBVIOUS

LEMMA AskSum ==
  ASSUME NEW m \in Nat, NEW m2 \in Nat, NEW o \in Nat, NEW o2 \in Nat, NEW l \in Nat, NEW l2 \in Nat,
         m + o + 1 <= 7 + l, m2 + o2 <= m + o, l <= l2
  PROVE  m2 + o2 + 1 <= 7 + l2
OBVIOUS

LEMMA MovesSum ==
  ASSUME NEW i \in Nat, NEW i2 \in Nat, NEW s \in Nat, NEW s2 \in Nat, NEW l \in Nat, NEW l2 \in Nat,
         i + s <= l, (i2 + s2) + l <= (i + s) + l2
  PROVE  i2 + s2 <= l2
OBVIOUS

LEMMA FiveSum ==
  ASSUME NEW a \in Nat, NEW b \in Nat, NEW c \in Nat, NEW d \in Nat, NEW e \in Nat
  PROVE  a + b + c + d + e \in Int
OBVIOUS

LEMMA PlaceSum ==
  ASSUME NEW m \in Nat, NEW m2 \in Nat, NEW d \in Nat, NEW d2 \in Nat, NEW k \in Nat, NEW k2 \in Nat,
         NEW l \in Nat, NEW l2 \in Nat,
         d2 + l <= d + l2, m2 - k2 <= m - k
  PROVE  (m2 - k2) + d2 + l <= (m - k) + d + l2
OBVIOUS

-----------------------------------------------------------------------------
(* The pipe to the parent stays short.                                      *)

LEMMA DebtsNow == Amounts => Debt \in Nat /\ Tokens \in Nat
  BY SMTT(40) DEF Amounts, Debt, Tokens

LEMMA DebtsNext == Amounts' => (Debt \in Nat /\ Tokens \in Nat)'
  BY DebtsNow, PTL

LEMMA DebtKept ==
  ASSUME Owed \in Nat, Owed' \in Nat, Selfs \in Nat, Selfs' \in Nat, Inits \in Nat, Inits' \in Nat,
         Left \in Nat, Left' \in Nat, One(Offline) \in Nat, One(Offline') \in Nat, Loads \in Nat,
         Loads' \in Nat, One(Wrong) \in Nat, One(Wrong') \in Nat,
         Inits' + Left <= Inits + Left', Owed' <= Owed, Selfs' <= Selfs,
         One(Offline') + Loads' + One(Wrong') <= One(Offline) + Loads + One(Wrong)
  PROVE  Debt' + Left <= Debt + Left'
BY DebtSum, ZenonT(60) DEF Debt

\* A step of either thread that leaves the debts no larger.
LEMMA BudgetKept ==
  ASSUME Amounts, Amounts', Tokens \in Nat, Tokens' \in Nat, Debt \in Nat, Debt' \in Nat, Budget,
         at' = at \/ (at # "warn" /\ at' \notin {"warn", "due"}),
         Left <= Left',
         (Inits' + Selfs') + Left <= (Inits + Selfs) + Left',
         Looks' + Reads' + Posts' + Frees' + gAttflag' <= Looks + Reads + Posts + Frees + gAttflag,
         Asking' <=> Asking,
         Asking => /\ (Waiting' <=> Waiting) /\ Owed' <= Owed
                   /\ Len(toParent') + Owed' <= Len(toParent) + Owed
                   /\ (Waiting => Len(toParent') <= Len(toParent)),
         ~Asking /\ at # "warn" =>
           /\ (Len(toParent') + Debt' + Tokens') + Left <= (Len(toParent) + Debt + Tokens) + Left'
           /\ \A k \in Where(toParent', "READ_ATTLOG") :
                \E j \in Where(toParent, "READ_ATTLOG") :
                  (Len(toParent') - k) + Debt' + Left <= (Len(toParent) - j) + Debt + Left',
         Calm => Calm',
         ~Asking /\ at = "warn" /\ toParent = <<>> => toParent' = <<>>,
         \A j \in Where(toParent, "READ_ATTLOG") : j \in Nat,
         \A k \in Where(toParent', "READ_ATTLOG") : k \in Nat
  PROVE  Budget'
<1> DEFINE L == Len(toParent)
           M == Len(toParent')
<1>1. L \in Nat /\ M \in Nat /\ Left \in Nat /\ Left' \in Nat /\ Owed \in Nat /\ Owed' \in Nat
      /\ Inits \in Nat /\ Inits' \in Nat /\ Selfs \in Nat /\ Selfs' \in Nat
  BY DEF Amounts
<1>2. Looks \in Nat /\ Looks' \in Nat /\ Reads \in Nat /\ Reads' \in Nat /\ Posts \in Nat /\ Posts' \in Nat
      /\ Frees \in Nat /\ Frees' \in Nat /\ gAttflag \in Nat /\ gAttflag' \in Nat
  BY DEF Amounts
<1> HIDE DEF L, M
<1>3. Inits' + Selfs' <= Left'
  <2>1. Inits + Selfs <= Left
    BY DEF Budget
  <2> QED
    BY <1>1, <2>1, MovesSum, Zenon
<1>4. Looks' + Reads' + Posts' + Frees' + gAttflag' <= 1
  <2>1. Looks + Reads + Posts + Frees + gAttflag <= 1
    BY DEF Budget
  <2>2. Looks + Reads + Posts + Frees + gAttflag \in Int
    BY <1>2, FiveSum, Zenon
  <2>3. Looks' + Reads' + Posts' + Frees' + gAttflag' \in Int
    BY <1>2, FiveSum, Zenon
  <2> QED
    BY <2>1, <2>2, <2>3, AtMost, Zenon
<1>5. Asking' => Owed' <= 1
  BY <1>1 DEF Budget
<1>6. Asking' /\ Waiting' => M <= 7 + Left'
  <2>1. ASSUME Asking, Waiting PROVE M <= 7 + Left'
    <3>1. L <= 7 + Left /\ M <= L
      BY <2>1 DEF Budget, L, M
    <3> QED
      BY <1>1, <3>1, WaitSum, Zenon
  <2> QED
    BY <2>1
<1>7. Asking' /\ ~Waiting' => M + Owed' + 1 <= 7 + Left'
  <2>1. ASSUME Asking, ~Waiting PROVE M + Owed' + 1 <= 7 + Left'
    <3>1. L + Owed + 1 <= 7 + Left /\ M + Owed' <= L + Owed
      BY <2>1 DEF Budget, L, M
    <3> QED
      BY <1>1, <3>1, AskSum, Zenon
  <2> QED
    BY <2>1
<1>8. ~Asking' /\ at' = "warn" => toParent' = <<>> /\ Calm'
  BY DEF Budget
<1>9. ~Asking' /\ at' = "due" => Calm'
  BY DEF Budget
<1>10. ASSUME ~Asking', at' # "warn"
       PROVE  /\ M + Debt' + Tokens' <= 7 + Left'
              /\ \A k \in Where(toParent', "READ_ATTLOG") : (M - k) + Debt' + 4 <= 7 + Left'
  <2>1. ~Asking /\ at # "warn"
    BY <1>10
  <2>2. /\ L + Debt + Tokens <= 7 + Left
        /\ \A k \in Where(toParent, "READ_ATTLOG") : (L - k) + Debt + 4 <= 7 + Left
    BY <2>1 DEF Budget, L
  <2>3. /\ (M + Debt' + Tokens') + Left <= (L + Debt + Tokens) + Left'
        /\ \A k \in Where(toParent', "READ_ATTLOG") :
             \E j \in Where(toParent, "READ_ATTLOG") :
               (M - k) + Debt' + Left <= (L - j) + Debt + Left'
    BY <2>1 DEF L, M
  <2>a. M + Debt' + Tokens' \in Int /\ L + Debt + Tokens \in Int /\ Left \in Int /\ Left' \in Int
    BY <1>1
  <2>4. M + Debt' + Tokens' <= 7 + Left'
    BY <2>2, <2>3, <2>a, BoundSum, Zenon
  <2>5. ASSUME NEW k \in Where(toParent', "READ_ATTLOG")
        PROVE  (M - k) + Debt' + 4 <= 7 + Left'
    <3>1. PICK j \in Where(toParent, "READ_ATTLOG") : (M - k) + Debt' + Left <= (L - j) + Debt + Left'
      BY <2>3
    <3>2. (L - j) + Debt + 4 <= 7 + Left /\ j \in Nat /\ k \in Nat
      BY <2>2
    <3>3. (M - k) + Debt' \in Int /\ (L - j) + Debt \in Int
      BY <1>1, <3>2
    <3> QED
      BY <2>a, <3>1, <3>2, <3>3, RoomSum, Zenon
  <2> QED
    BY <2>4, <2>5
<1> QED
  BY <1>3, <1>4, <1>5, <1>6, <1>7, <1>8, <1>9, <1>10 DEF Budget, M

\* A step of the parent, which leaves the child as it is.
LEMMA BudgetParent ==
  ASSUME Typed, Typed', Budget, todo' = todo, at' = at, toParent' = toParent,
         Left <= Left', Inits' + Left <= Inits + Left',
         Reads' + Posts' + gAttflag' <= Reads + Posts + gAttflag,
         2 * (Reads' + Posts') + gAttflag' <= 2 * (Reads + Posts) + gAttflag,
         One(Offline') + Loads' + One(Wrong') <= One(Offline) + Loads + One(Wrong),
         Calm => Calm'
  PROVE  Budget'
<1>1. Amounts /\ Amounts'
  BY AmountsNow, AmountsNext
<1>2. /\ Owed' = Owed /\ Selfs' = Selfs /\ Frees' = Frees /\ (Asking' <=> Asking) /\ (Waiting' <=> Waiting)
      /\ Looks' = Looks
  BY DEF Owed, Selfs, Frees, Asking, Waiting, Looks
<1>3. Debt \in Nat /\ Debt' \in Nat /\ Tokens \in Nat /\ Tokens' \in Nat
  BY <1>1, DebtsNow, DebtsNext
<1>4. /\ Frees \in Nat /\ Selfs \in Nat /\ Looks \in Nat /\ Left \in Nat /\ Left' \in Nat /\ Owed \in Nat
      /\ Reads \in Nat /\ Posts \in Nat /\ gAttflag \in Nat /\ Inits \in Nat /\ Loads \in Nat
      /\ Reads' \in Nat /\ Posts' \in Nat /\ gAttflag' \in Nat /\ Inits' \in Nat /\ Loads' \in Nat
      /\ Frees' \in Nat /\ Selfs' \in Nat /\ Looks' \in Nat /\ Owed' \in Nat
      /\ One(Offline) \in Nat /\ One(Offline') \in Nat /\ One(Wrong) \in Nat /\ One(Wrong') \in Nat
      /\ Len(toParent) \in Nat /\ Len(toParent') \in Nat
  BY <1>1 DEF Amounts
<1>5. Owed' <= Owed /\ Selfs' <= Selfs /\ Frees' <= Frees /\ Looks' <= Looks /\ Len(toParent') <= Len(toParent)
  BY <1>2, <1>4
<1>6. Debt' + Left <= Debt + Left'
  BY <1>4, <1>5, DebtKept
<1>7. Tokens' <= Tokens
  BY <1>4, <1>5, TokenSum, Zenon DEF Tokens
<1>8. (Inits' + Selfs') + Left <= (Inits + Selfs) + Left'
  BY <1>4, <1>5, InitSum, Zenon
<1>9. Looks' + Reads' + Posts' + Frees' + gAttflag' <= Looks + Reads + Posts + Frees + gAttflag
  BY <1>4, <1>5, StoreSum, ZenonT(60)
<1>10. \A j \in Where(toParent, "READ_ATTLOG") : j \in Nat
  BY <1>4 DEF Where
<1>11. (Len(toParent') + Debt' + Tokens') + Left <= (Len(toParent) + Debt + Tokens) + Left'
  BY <1>3, <1>4, <1>5, <1>6, <1>7, LineSum, Zenon
<1>12. \A k \in Where(toParent', "READ_ATTLOG") :
         \E j \in Where(toParent, "READ_ATTLOG") :
           (Len(toParent') - k) + Debt' + Left <= (Len(toParent) - j) + Debt + Left'
  <2> TAKE k \in Where(toParent', "READ_ATTLOG")
  <2>1. k \in Where(toParent, "READ_ATTLOG") /\ k \in Nat
    BY <1>10
  <2>2. Len(toParent') - k <= Len(toParent) - k
    BY <1>4, <1>5, <2>1
  <2>3. (Len(toParent') - k) + Debt' + Left <= (Len(toParent) - k) + Debt + Left'
    BY <1>3, <1>4, <1>6, <2>1, <2>2, PlaceSum, Zenon
  <2> QED
    BY <2>1, <2>3
<1>13. Asking => /\ (Waiting' <=> Waiting) /\ Owed' <= Owed
                 /\ Len(toParent') + Owed' <= Len(toParent) + Owed
                 /\ (Waiting => Len(toParent') <= Len(toParent))
  BY <1>2, <1>4, <1>5
<1>14. \A k \in Where(toParent', "READ_ATTLOG") : k \in Nat
  BY <1>10
<1> QED
  BY <1>1, <1>2, <1>3, <1>8, <1>9, <1>10, <1>11, <1>12, <1>13, <1>14, BudgetKept

LEMMA OfflineSame ==
  ASSUME todo' = todo, flag' = flag, copy'["child"] = copy["child"]
  PROVE  Offline' <=> Offline
<1>1. Sets' = Sets /\ Cuts' = Cuts /\ Effective' = Effective
  BY DEF Sets, Cuts, Effective
<1> QED
  BY <1>1 DEF Offline

\* The parent does not look at the store.
LEMMA BudgetTold ==
  ASSUME Typed, Typed', Budget, todo' = todo, at' = at, toParent' = toParent,
         flag' = flag, copy' = copy, gAttflag' = gAttflag,
         serving \notin LookForms, serving' \notin LookForms,
         Posts' <= Posts, Inits' + Left <= Inits + Left', Left <= Left'
  PROVE  Budget'
<1>1. Reads = 0 /\ Loads = 0 /\ Reads' = 0 /\ Loads' = 0
  <2>1. ServingForm(serving) /\ ServingForm(serving')
    BY DEF Typed, Forms
  <2>2. Num(serving, SetCmd) = 0 /\ Num(serving, ClearCmd) = 0 /\ Num(serving, ReadIt) = 0
    BY <2>1, ServingCounts
  <2>3. Num(serving', SetCmd) = 0 /\ Num(serving', ClearCmd) = 0 /\ Num(serving', ReadIt) = 0
    BY <2>1, ServingCounts
  <2> QED
    BY <2>2, <2>3 DEF Reads, Loads
<1>2. One(Offline') = One(Offline) /\ One(Wrong') = One(Wrong)
  <2>1. (Offline' <=> Offline) /\ (Wrong' <=> Wrong)
    BY OfflineSame DEF Wrong
  <2> QED
    BY <2>1 DEF One
<1>3. Amounts /\ Amounts'
  BY AmountsNow, AmountsNext
<1>4. Posts \in Nat /\ Posts' \in Nat /\ gAttflag \in Nat /\ One(Offline) \in Nat /\ One(Wrong) \in Nat
  BY <1>3 DEF Amounts
<1>5. 0 + Posts' + gAttflag <= 0 + Posts + gAttflag /\ 2 * (0 + Posts') + gAttflag <= 2 * (0 + Posts) + gAttflag
  <2>1. \A p, q, g \in Nat : q <= p => 0 + q + g <= 0 + p + g /\ 2 * (0 + q) + g <= 2 * (0 + p) + g
    OBVIOUS
  <2> QED
    BY <1>4, <2>1, Zenon
<1>6. One(Offline') + Loads' + One(Wrong') <= One(Offline) + Loads + One(Wrong)
  <2>1. \A f, w \in Nat : f + 0 + w <= f + 0 + w
    OBVIOUS
  <2>2. One(Offline) + 0 + One(Wrong) <= One(Offline) + 0 + One(Wrong)
    BY <1>4, <2>1, Zenon
  <2> QED
    BY <1>1, <1>2, <2>2
<1>7. Calm => Calm'
  BY DEF Calm
<1> QED
  BY <1>1, <1>5, <1>6, <1>7, BudgetParent

LEMMA BudgetParentTells ==
  ASSUME Typed, Typed', Budget,
         ParentDone \/ ParentOver \/ ParentSend \/ MainTells \/ EnterMenu \/ LeaveMenu
  PROVE  Budget'
<1>1. Cells /\ ServingForm(serving) /\ ServingForm(serving')
  BY DEF Typed, Forms
<1> USE DEF flags, mailbox, pipes, child, main, history
<1>2. Amounts /\ Amounts'
  BY AmountsNow, AmountsNext
<1>3. Posts \in Nat /\ Inits \in Nat /\ Left \in Nat /\ Left' \in Nat /\ Inits' \in Nat /\ Posts' \in Nat
  BY <1>2 DEF Amounts
<1>4. /\ todo' = todo /\ at' = at /\ toParent' = toParent /\ flag' = flag /\ copy' = copy
      /\ gAttflag' = gAttflag
  BY DEF ParentDone, ParentOver, ParentSend, MainTells, Tells, EnterMenu, LeaveMenu
<1>5. <<>> \notin LookForms /\ <<News>> \notin LookForms
  <2>1. <<>> \in SendForms /\ <<News>> \in SendForms
    BY DEF SendForms
  <2> QED
    BY <2>1, FormsApart
<1>6. serving \notin LookForms /\ serving' \notin LookForms
  <2>1. CASE MainTells \/ EnterMenu \/ LeaveMenu
    <3>1. serving = <<>> /\ serving' \in {<<>>, <<News>>}
      BY <2>1 DEF MainTells, Tells, EnterMenu, LeaveMenu, ParentIdle, News
    <3> QED
      BY <1>5, <3>1
  <2>2. CASE ParentDone \/ ParentOver \/ ParentSend
    <3>1. serving # <<>> /\ Head(serving).op \in {"done", "over", "send"} /\ serving' = Tail(serving)
      BY <2>2 DEF ParentDone, ParentOver, ParentSend, Serve
    <3>2. serving \notin LookForms
      BY <3>1, FormsApart
    <3>3. \/ serving' \in {<<OverIt>>, <<OverIt, Again, Again, Again>>}
          \/ serving' \in {<<>>, <<Again, Again, Again>>, <<Again, Again>>, <<Again>>}
      <4>1. \/ serving \in {<<DoneIt, OverIt>>, <<DoneIt, OverIt, Again, Again, Again>>}
            \/ serving \in {<<OverIt>>, <<OverIt, Again, Again, Again>>}
            \/ serving \in {<<Again>>, <<Again, Again>>, <<Again, Again, Again>>, <<News>>}
        BY <1>1, <3>1, ServingHead
      <4>2. CASE serving \in {<<DoneIt, OverIt>>, <<DoneIt, OverIt, Again, Again, Again>>}
        BY <3>1, <4>2, ServingTails
      <4>3. CASE serving \in {<<OverIt>>, <<OverIt, Again, Again, Again>>}
        BY <3>1, <4>3, ServingTails
      <4>4. CASE serving \in {<<Again>>, <<Again, Again>>, <<Again, Again, Again>>, <<News>>}
        BY <3>1, <4>4, ServingTails
      <4> QED
        BY <4>1, <4>2, <4>3, <4>4
    <3>4. serving' \in AnswerForms \/ serving' \in SendForms
      BY <3>3 DEF AnswerForms, SendForms
    <3> QED
      BY <3>2, <3>4, FormsApart
  <2> QED
    BY <2>1, <2>2
<1>7. Left <= Left'
  <2>1. Left' = Left \/ Left' = Left + 1
    <3>1. commands' = commands \/ commands' = commands - 1
      BY DEF ParentDone, ParentOver, ParentSend, MainTells, Tells, EnterMenu, LeaveMenu
    <3>2. commands \in Int /\ CommandBound \in Int
      BY <1>1, RunAssumption DEF Cells
    <3> QED
      BY <3>1, <3>2 DEF Left
  <2>2. \A l \in Nat : l <= l /\ l <= l + 1
    OBVIOUS
  <2>3. Left <= Left /\ Left <= Left + 1
    BY <1>3, <2>2, Zenon
  <2> QED
    BY <2>1, <2>3
<1>8. Posts' <= Posts /\ Inits' + Left <= Inits + Left'
  <2>1. \A p, q, l \in Nat : p <= p /\ (q <= p + 0 => q <= p /\ q + l <= p + l) /\ p + l <= p + l
                               /\ (q <= p + 1 => q + l <= p + (l + 1)) /\ (q <= p + 0 => q + l <= p + (l + 1))
    OBVIOUS
  <2>2. CASE toChild' = toChild /\ Left' = Left
    <3>1. Posts' = Posts /\ Inits' = Inits
      BY <2>2 DEF Posts, Inits
    <3>2. Posts <= Posts /\ Inits + Left <= Inits + Left
      BY <1>3, <2>1, Zenon
    <3> QED
      BY <2>2, <3>1, <3>2
  <2>3. ASSUME NEW c \in ToChild, TellChild(c), c # "POST_ATT",
               (c # "RE_INIT" /\ Left' = Left) \/ Left' = Left + 1
        PROVE  Posts' <= Posts /\ Inits' + Left <= Inits + Left'
    <3>1. "POST_ATT" # "byte" /\ "RE_INIT" # "byte"
      OBVIOUS
    <3>2. Posts' <= Posts + One(c = "POST_ATT")
      BY <1>1, <2>3, <3>1, ToldCounts DEF Posts
    <3>3. Inits' <= Inits + One(c = "RE_INIT")
      BY <1>1, <2>3, <3>1, ToldCounts DEF Inits
    <3>4. Posts' <= Posts + 0
      BY <2>3, <3>2 DEF One
    <3>5. Posts' <= Posts
      BY <1>3, <2>1, <3>4, Zenon
    <3>6. CASE Left' = Left + 1
      <4>1. Inits' <= Inits + 0 \/ Inits' <= Inits + 1
        BY <3>3 DEF One
      <4>2. Inits' + Left <= Inits + (Left + 1)
        BY <1>3, <2>1, <4>1, Zenon
      <4> QED
        BY <3>5, <3>6, <4>2
    <3>7. CASE c # "RE_INIT" /\ Left' = Left
      <4>1. Inits' <= Inits + 0
        BY <3>3, <3>7 DEF One
      <4>2. Inits' + Left <= Inits + Left
        BY <1>3, <2>1, <4>1, Zenon
      <4> QED
        BY <3>5, <3>7, <4>2
    <3> QED
      BY <2>3, <3>6, <3>7
  <2>4. CASE ParentDone \/ ParentOver
    <3>1. toChild' = toChild /\ commands' = commands
      BY <2>4 DEF ParentDone, ParentOver
    <3>2. Left' = Left
      BY <3>1 DEF Left
    <3> QED
      BY <2>2, <3>1, <3>2
  <2>5. CASE ParentSend
    <3>1. commands' = commands /\ TellChild(Head(serving).arg) /\ serving # <<>> /\ Head(serving).op = "send"
      BY <2>5 DEF ParentSend, Serve
    <3>2. Left' = Left
      BY <3>1 DEF Left
    <3>3. Head(serving) = Again \/ Head(serving) = News
      <4>1. serving \in {<<Again>>, <<Again, Again>>, <<Again, Again, Again>>, <<News>>}
        BY <1>1, <3>1, ServingHead
      <4> QED
        BY <4>1
    <3>4. Head(serving).arg \in {"RESET_DATA", "NEW_DATA"}
      BY <3>3, OpNames
    <3>5. Head(serving).arg \in ToChild
      BY <3>4 DEF ToChild, WithType
    <3> QED
      BY <2>3, <3>1, <3>2, <3>4, <3>5
  <2>6. CASE MainTells \/ EnterMenu
    <3>1. /\ commands' = commands - 1
          /\ \E c \in {"NEW_DATA", "RESET_DATA", "RE_INIT", "PAUSE"} : TellChild(c)
      BY <2>6 DEF MainTells, Tells, EnterMenu
    <3>2. Left' = Left + 1
      <4>1. commands \in Int /\ CommandBound \in Int
        BY <1>1, RunAssumption DEF Cells
      <4> QED
        BY <3>1, <4>1 DEF Left
    <3>3. {"NEW_DATA", "RESET_DATA", "RE_INIT", "PAUSE"} \subseteq ToChild
      BY DEF ToChild, WithType, Flags
    <3> QED
      BY <2>3, <3>1, <3>2, <3>3
  <2>7. CASE LeaveMenu
    <3>1. commands' = commands /\ TellChild("RESUME") /\ "RESUME" \in ToChild
      BY <2>7 DEF LeaveMenu, ToChild, Flags
    <3>2. Left' = Left
      BY <3>1 DEF Left
    <3> QED
      BY <2>3, <3>1, <3>2
  <2> QED
    BY <2>4, <2>5, <2>6, <2>7
<1> QED
  BY <1>4, <1>6, <1>7, <1>8, BudgetTold

\* set_bit or clear_bit on behalf of the store.
LEMMA BudgetParentFlag ==
  ASSUME Typed, Typed', Budget, ParentFlag
  PROVE  Budget'
<1>1. Cells /\ ServingForm(serving)
  BY DEF Typed, Forms
<1> USE DEF flags, mailbox, pipes, child, main, history
<1>2. /\ todo' = todo /\ at' = at /\ toParent' = toParent /\ toChild' = toChild /\ flag' = flag
      /\ gAttflag' = gAttflag /\ commands' = commands
      /\ serving # <<>> /\ copy["parent"] = <<>> /\ Head(serving).op \in {"set", "clear"}
      /\ serving' = Tail(serving)
  BY DEF ParentFlag, Serve
<1>3. copy'["child"] = copy["child"]
  BY <1>1 DEF ParentFlag, Load, Cells, Threads
<1>4. Posts' = Posts /\ Inits' = Inits /\ Left' = Left
  BY <1>2 DEF Posts, Inits, Left
<1>5. ~Wrong
  BY <1>2 DEF Wrong
<1>6. serving = <<SetCmd, ReadIt, ClearCmd>> \/ serving = <<ClearCmd>>
  BY <1>1, <1>2, ServingHead
<1>7. /\ serving = <<SetCmd, ReadIt, ClearCmd>> => serving' = <<ReadIt, ClearCmd>>
      /\ serving = <<ClearCmd>> => serving' = <<>>
  BY <1>2, ServingTails
<1>8. Reads' = Reads /\ Loads = Loads' + 1 /\ Loads' \in {0, 1}
  <2>1. ServingForm(serving') /\ ServingForm(serving)
    BY DEF Typed, Forms
  <2>2. CASE serving = <<SetCmd, ReadIt, ClearCmd>>
    <3>1. Num(serving, SetCmd) = 1 /\ Num(serving, ClearCmd) = 1 /\ Num(serving, ReadIt) = 1
      BY <2>1, <2>2, ServingCounts
    <3>2. Num(serving', SetCmd) = 0 /\ Num(serving', ClearCmd) = 1 /\ Num(serving', ReadIt) = 1
      BY <1>7, <2>1, <2>2, ServingCounts
    <3> QED
      BY <3>1, <3>2 DEF Reads, Loads
  <2>3. CASE serving = <<ClearCmd>>
    <3>1. Num(serving, SetCmd) = 0 /\ Num(serving, ClearCmd) = 1 /\ Num(serving, ReadIt) = 0
      BY <2>1, <2>3, ServingCounts
    <3>2. serving' \notin LookForms
      <4>1. <<>> \in SendForms
        BY DEF SendForms
      <4> QED
        BY <1>7, <2>3, <4>1, FormsApart
    <3>3. Num(serving', SetCmd) = 0 /\ Num(serving', ClearCmd) = 0 /\ Num(serving', ReadIt) = 0
      BY <2>1, <3>2, ServingCounts
    <3> QED
      BY <3>1, <3>3 DEF Reads, Loads
  <2> QED
    BY <1>6, <2>2, <2>3
<1>9. Amounts /\ Amounts'
  BY AmountsNow, AmountsNext
<1>10. /\ Posts \in Nat /\ gAttflag \in Nat /\ One(Offline) \in Nat /\ One(Wrong') \in Nat /\ One(Wrong') <= 1
       /\ Reads \in Nat /\ Loads' \in Nat /\ Inits \in Nat /\ Left \in Nat
  BY <1>9 DEF Amounts
<1>11. One(Offline') + Loads' + One(Wrong') <= One(Offline) + Loads + One(Wrong)
  <2>1. One(Offline') = One(Offline)
    BY <1>2, <1>3, OfflineSame DEF One
  <2>2. One(Wrong) = 0
    BY <1>5 DEF One
  <2>3. \A f, lo, w \in Nat : w <= 1 => f + lo + w <= f + (lo + 1) + 0
    OBVIOUS
  <2>4. One(Offline) + Loads' + One(Wrong') <= One(Offline) + (Loads' + 1) + 0
    BY <1>10, <2>3, Zenon
  <2> QED
    BY <1>8, <2>1, <2>2, <2>4, Zenon
<1>12. ~Calm
  <2>1. serving \in LookForms
    BY <1>6 DEF LookForms
  <2> QED
    BY <2>1 DEF Calm
<1>13. /\ Reads + Posts + gAttflag <= Reads + Posts + gAttflag
       /\ 2 * (Reads + Posts) + gAttflag <= 2 * (Reads + Posts) + gAttflag
       /\ Inits + Left <= Inits + Left /\ Left <= Left
  <2>1. \A r, p, g, i, l \in Nat : /\ r + p + g <= r + p + g /\ 2 * (r + p) + g <= 2 * (r + p) + g
                                   /\ i + l <= i + l /\ l <= l
    OBVIOUS
  <2> QED
    BY <1>10, <2>1, Zenon
<1> QED
  BY <1>2, <1>4, <1>8, <1>11, <1>12, <1>13, BudgetParent

\* A record to post, or none.
LEMMA BudgetParentRead ==
  ASSUME Typed, Typed', Budget, ParentRead
  PROVE  Budget'
<1>1. Cells /\ ServingForm(serving) /\ ServingForm(serving')
  BY DEF Typed, Forms
<1> USE DEF flags, mailbox, pipes, child, main, history
<1>2. /\ todo' = todo /\ at' = at /\ toParent' = toParent /\ flag' = flag /\ copy' = copy
      /\ commands' = commands
      /\ serving # <<>> /\ Head(serving).op = "read" /\ serving' = Tail(serving)
      /\ \/ TellChild("POST_ATT") /\ gAttflag' = gAttflag
         \/ gAttflag' = 1 /\ toChild' = toChild
  BY DEF ParentRead, Serve
<1>3. serving = <<ReadIt, ClearCmd>> /\ serving' = <<ClearCmd>>
  BY <1>1, <1>2, ServingHead, ServingTails
<1>4. Reads = 1 /\ Reads' = 0 /\ Loads' = Loads
  <2>1. Num(serving, SetCmd) = 0 /\ Num(serving, ClearCmd) = 1 /\ Num(serving, ReadIt) = 1
    BY <1>1, <1>3, ServingCounts
  <2>2. Num(serving', SetCmd) = 0 /\ Num(serving', ClearCmd) = 1 /\ Num(serving', ReadIt) = 0
    BY <1>1, <1>3, ServingCounts
  <2> QED
    BY <2>1, <2>2 DEF Reads, Loads
<1>5. Amounts /\ Amounts'
  BY AmountsNow, AmountsNext
<1>6. /\ Posts \in Nat /\ Posts' \in Nat /\ gAttflag \in Nat /\ gAttflag' \in Nat /\ One(Offline) \in Nat
      /\ One(Wrong) \in Nat /\ Loads \in Nat /\ Inits \in Nat /\ Inits' \in Nat /\ Left \in Nat
      /\ Looks \in Nat /\ Frees \in Nat
  BY <1>5 DEF Amounts
<1>7. gAttflag = 0
  <2>1. Looks + 1 + Posts + Frees + gAttflag <= 1
    BY <1>4 DEF Budget
  <2>2. \A k, p, f, g \in Nat : k + 1 + p + f + g <= 1 => g = 0
    OBVIOUS
  <2> QED
    BY <1>6, <2>1, <2>2, Zenon
<1>8. /\ 0 + Posts' + gAttflag' <= 1 + Posts + gAttflag
      /\ 2 * (0 + Posts') + gAttflag' <= 2 * (1 + Posts) + gAttflag
      /\ Inits' <= Inits
  <2>1. CASE TellChild("POST_ATT") /\ gAttflag' = gAttflag
    <3>1. "POST_ATT" \in ToChild /\ "POST_ATT" # "byte" /\ "RE_INIT" # "byte"
      BY DEF ToChild
    <3>2. Posts' <= Posts + One("POST_ATT" = "POST_ATT")
      BY <1>1, <2>1, <3>1, ToldCounts DEF Posts
    <3>3. Inits' <= Inits + One("POST_ATT" = "RE_INIT")
      BY <1>1, <2>1, <3>1, ToldCounts DEF Inits
    <3>4. Posts' <= Posts + 1 /\ Inits' <= Inits + 0
      BY <3>2, <3>3 DEF One
    <3>5. \A p, p2, i, i2 \in Nat :
            p2 <= p + 1 /\ i2 <= i + 0 =>
              0 + p2 + 0 <= 1 + p + 0 /\ 2 * (0 + p2) + 0 <= 2 * (1 + p) + 0 /\ i2 <= i
      OBVIOUS
    <3>6. /\ 0 + Posts' + 0 <= 1 + Posts + 0 /\ 2 * (0 + Posts') + 0 <= 2 * (1 + Posts) + 0
          /\ Inits' <= Inits
      BY <1>6, <3>4, <3>5, Zenon
    <3>7. gAttflag' = 0
      BY <1>7, <2>1
    <3> QED
      BY <1>7, <3>6, <3>7
  <2>2. CASE gAttflag' = 1 /\ toChild' = toChild
    <3>1. Posts' = Posts /\ Inits' = Inits
      BY <2>2 DEF Posts, Inits
    <3>2. \A p, i \in Nat : 0 + p + 1 <= 1 + p + 0 /\ 2 * (0 + p) + 1 <= 2 * (1 + p) + 0 /\ i <= i
      OBVIOUS
    <3>3. 0 + Posts + 1 <= 1 + Posts + 0 /\ 2 * (0 + Posts) + 1 <= 2 * (1 + Posts) + 0 /\ Inits <= Inits
      BY <1>6, <3>2, Zenon
    <3> QED
      BY <1>7, <2>2, <3>1, <3>3
  <2> QED
    BY <1>2, <2>1, <2>2
<1>9. One(Offline') + Loads' + One(Wrong') <= One(Offline) + Loads + One(Wrong)
  <2>1. One(Offline') = One(Offline) /\ One(Wrong') = One(Wrong)
    BY <1>2, OfflineSame DEF One, Wrong
  <2>2. \A f, lo, w \in Nat : f + lo + w <= f + lo + w
    OBVIOUS
  <2>3. One(Offline) + Loads + One(Wrong) <= One(Offline) + Loads + One(Wrong)
    BY <1>6, <2>2, Zenon
  <2> QED
    BY <1>4, <2>1, <2>3
<1>10. Calm => Calm'
  BY <1>3 DEF Calm, LookForms
<1>11. Left' = Left /\ Left <= Left /\ Inits' + Left <= Inits + Left
  <2>1. Left' = Left
    BY <1>2 DEF Left
  <2>2. \A i, i2, l \in Nat : l <= l /\ (i2 <= i => i2 + l <= i + l)
    OBVIOUS
  <2> QED
    BY <1>6, <1>8, <2>1, <2>2, Zenon
<1> QED
  BY <1>2, <1>4, <1>8, <1>9, <1>10, <1>11, BudgetParent

\* The new value is written, and may take the child offline.
LEMMA BudgetParentStore ==
  ASSUME Typed, Typed', Budget, Store("parent")
  PROVE  Budget'
<1>1. Cells
  BY DEF Typed
<1> USE DEF flags, mailbox, pipes, child, main, history
<1>2. /\ todo' = todo /\ at' = at /\ toParent' = toParent /\ toChild' = toChild /\ serving' = serving
      /\ gAttflag' = gAttflag /\ commands' = commands
      /\ copy["parent"] # <<>> /\ flag' = copy["parent"][1]
      /\ copy'["parent"] = <<>> /\ copy'["child"] = copy["child"]
  BY <1>1 DEF Store, Cells, Threads
<1>3. Posts' = Posts /\ Inits' = Inits /\ Left' = Left /\ Reads' = Reads /\ Loads' = Loads
      /\ Sets' = Sets /\ Cuts' = Cuts
  BY <1>2 DEF Posts, Inits, Left, Reads, Loads, Sets, Cuts
<1>4. ~Wrong'
  BY <1>2 DEF Wrong
<1>5. Offline' => Offline \/ Wrong
  BY <1>2, <1>3 DEF Offline, Wrong, Effective
<1>6. Amounts
  BY AmountsNow
<1>7. /\ Posts \in Nat /\ gAttflag \in Nat /\ Reads \in Nat /\ Loads \in Nat /\ Inits \in Nat /\ Left \in Nat
  BY <1>6 DEF Amounts
<1>8. One(Offline') + Loads' + One(Wrong') <= One(Offline) + Loads + One(Wrong)
  <2> DEFINE f == One(Offline)
             f2 == One(Offline')
             w == One(Wrong)
             w2 == One(Wrong')
  <2>1. f \in Nat /\ f2 \in Nat /\ w \in Nat /\ w2 = 0 /\ (f2 = 0 \/ (f2 = 1 /\ (f = 1 \/ w = 1)))
    BY <1>4, <1>5 DEF One
  <2> HIDE DEF f, f2, w, w2
  <2>2. f2 + Loads + w2 <= f + Loads + w
    <3>1. \A a, c, lo \in Nat : /\ 0 + lo + 0 <= a + lo + c /\ 1 + lo + 0 <= 1 + lo + c
                                /\ 1 + lo + 0 <= a + lo + 1
      OBVIOUS
    <3>2. 0 + Loads + 0 <= f + Loads + w /\ 1 + Loads + 0 <= 1 + Loads + w /\ 1 + Loads + 0 <= f + Loads + 1
      BY <1>7, <2>1, <3>1, Zenon
    <3>3. CASE f2 = 0
      BY <2>1, <3>2, <3>3
    <3>4. CASE f2 = 1 /\ f = 1
      BY <2>1, <3>2, <3>4
    <3>5. CASE f2 = 1 /\ w = 1
      BY <2>1, <3>2, <3>5
    <3> QED
      BY <2>1, <3>3, <3>4, <3>5
  <2> QED
    BY <1>3, <2>2 DEF f, f2, w, w2
<1>9. ~Calm
  BY <1>2 DEF Calm
<1>10. /\ Reads + Posts + gAttflag <= Reads + Posts + gAttflag
       /\ 2 * (Reads + Posts) + gAttflag <= 2 * (Reads + Posts) + gAttflag
       /\ Inits + Left <= Inits + Left /\ Left <= Left
  <2>1. \A r, p, g, i, l \in Nat : /\ r + p + g <= r + p + g /\ 2 * (r + p) + g <= 2 * (r + p) + g
                                   /\ i + l <= i + l /\ l <= l
    OBVIOUS
  <2> QED
    BY <1>7, <2>1, ZenonT(60)
<1> QED
  BY <1>2, <1>3, <1>8, <1>9, <1>10, BudgetParent

\* The parent takes a word: what is behind it moves up.
LEMMA TakenPlaces ==
  ASSUME Typed, ParentTake
  PROVE  /\ toParent # <<>> /\ Head(toParent) \in ToParent
         /\ Len(toParent') + 1 = Len(toParent) /\ Len(toParent') \in Nat
         /\ \A k \in Where(toParent', "READ_ATTLOG") : k \in Nat /\ k + 1 \in Where(toParent, "READ_ATTLOG")
         /\ Looks = One(Head(toParent) = "READ_ATTLOG") + Looks'
         /\ Head(toParent) = "READ_ATTLOG" => 1 \in Where(toParent, "READ_ATTLOG")
         /\ (\A i \in 1 .. Len(toParent) : toParent[i] # "READ_ATTLOG") =>
              \A i \in 1 .. Len(toParent') : toParent'[i] # "READ_ATTLOG"
<1>1. toParent \in Seq(ToParent)
  BY DEF Typed, Cells
<1>2. toParent # <<>> /\ toParent' = Tail(toParent)
  BY DEF ParentTake, pipes
<1>3. /\ Len(toParent') + 1 = Len(toParent) /\ Len(toParent') \in Nat
      /\ \A i \in 1 .. Len(toParent') : toParent'[i] = toParent[i + 1]
      /\ Head(toParent) \in ToParent /\ Head(toParent) = toParent[1] /\ 1 \in 1 .. Len(toParent)
  BY <1>1, <1>2
<1>4. \A i \in 1 .. Len(toParent') : i \in Nat /\ i + 1 \in 1 .. Len(toParent)
  BY <1>3
<1>5. \A k \in Where(toParent', "READ_ATTLOG") : k \in Nat /\ k + 1 \in Where(toParent, "READ_ATTLOG")
  BY <1>3, <1>4 DEF Where
<1>6. Num(toParent, "READ_ATTLOG") = One(Head(toParent) = "READ_ATTLOG") + Num(toParent', "READ_ATTLOG")
  BY <1>1, <1>2, NumTail
<1>7. Head(toParent) = "READ_ATTLOG" => 1 \in Where(toParent, "READ_ATTLOG")
  BY <1>3 DEF Where
<1>8. (\A i \in 1 .. Len(toParent) : toParent[i] # "READ_ATTLOG") =>
         \A i \in 1 .. Len(toParent') : toParent'[i] # "READ_ATTLOG"
  BY <1>3, <1>4
<1> QED
  BY <1>2, <1>3, <1>5, <1>6, <1>7, <1>8 DEF Looks

LEMMA BudgetTake ==
  ASSUME Typed, Typed', Budget, ParentTake
  PROVE  Budget'
<1>1. Cells /\ ServingForm(serving) /\ ServingForm(serving')
  BY DEF Typed, Forms
<1> USE DEF flags, mailbox, pipes, child, main, history
<1> DEFINE c == Head(toParent)
           A == Where(toParent, "READ_ATTLOG")
           B == Where(toParent', "READ_ATTLOG")
           L == Len(toParent)
           M == Len(toParent')
<1>2. /\ todo' = todo /\ at' = at /\ toChild' = toChild /\ flag' = flag /\ copy' = copy
      /\ gAttflag' = gAttflag /\ commands' = commands
      /\ serving = <<>> /\ copy["parent"] = <<>> /\ serving' = Handler(c)
  BY DEF ParentTake, ParentIdle
<1>3. /\ toParent # <<>> /\ c \in ToParent
      /\ M + 1 = L /\ M \in Nat
      /\ \A k \in B : k \in Nat /\ k + 1 \in A
      /\ Looks = One(c = "READ_ATTLOG") + Looks'
      /\ c = "READ_ATTLOG" => 1 \in A
      /\ (\A i \in 1 .. L : toParent[i] # "READ_ATTLOG") => \A i \in 1 .. M : toParent'[i] # "READ_ATTLOG"
  BY TakenPlaces
<1>4. /\ Owed' = Owed /\ Selfs' = Selfs /\ Frees' = Frees /\ (Asking' <=> Asking) /\ (Waiting' <=> Waiting)
      /\ Posts' = Posts /\ Inits' = Inits /\ Left' = Left
  BY <1>2 DEF Owed, Selfs, Frees, Asking, Waiting, Posts, Inits, Left
<1>5. One(Offline') = One(Offline) /\ One(Wrong') = One(Wrong)
  BY <1>2, OfflineSame DEF One, Wrong
<1>6. Reads = 0 /\ Loads = 0
  <2>1. serving \notin LookForms
    BY <1>2, FormsApart
  <2>2. Num(serving, SetCmd) = 0 /\ Num(serving, ClearCmd) = 0 /\ Num(serving, ReadIt) = 0
    BY <1>1, <2>1, ServingCounts
  <2> QED
    BY <2>2 DEF Reads, Loads
<1>7. Amounts /\ Amounts'
  BY AmountsNow, AmountsNext
<1>8. Debt \in Nat /\ Debt' \in Nat /\ Tokens \in Nat /\ Tokens' \in Nat
  BY <1>7, DebtsNow, DebtsNext
<1>9. /\ Posts \in Nat /\ gAttflag \in Nat /\ Looks' \in Nat /\ Inits \in Nat /\ Left \in Nat /\ Owed \in Nat
      /\ Selfs \in Nat /\ Frees \in Nat /\ One(Offline) \in Nat /\ One(Wrong) \in Nat /\ L \in Nat
  BY <1>7 DEF Amounts
<1>10. A \subseteq Nat /\ B \subseteq Nat
  BY <1>3, <1>9 DEF Where
<1>11. CASE c # "READ_ATTLOG"
  <2>1. serving' \notin LookForms
    <3>1. c \in Questions \/ c = "STATUS"
      BY <1>3, <1>11 DEF ToParent
    <3>2. serving' \in AnswerForms \/ serving' = <<>>
      BY <1>2, <1>3, <3>1, HandlerForm
    <3> QED
      BY <3>2, FormsApart
  <2>2. Reads' = 0 /\ Loads' = 0
    <3>1. Num(serving', SetCmd) = 0 /\ Num(serving', ClearCmd) = 0 /\ Num(serving', ReadIt) = 0
      BY <1>1, <2>1, ServingCounts
    <3> QED
      BY <3>1 DEF Reads, Loads
  <2>3. Looks' = Looks
    <3>1. Looks = 0 + Looks'
      BY <1>3, <1>11 DEF One
    <3>2. \A k \in Nat : 0 + k = k
      OBVIOUS
    <3> QED
      BY <1>9, <3>1, <3>2
  <2>4. Debt' = Debt /\ Tokens' = Tokens
    BY <1>2, <1>4, <1>5, <1>6, <2>2 DEF Debt, Tokens
  <2>5. Calm => Calm'
    BY <1>2, <1>3, <2>1 DEF Calm
  <2>6. Left <= Left /\ Owed <= Owed /\ M <= M + 1
    <3>1. \A m \in Nat : m <= m /\ m <= m + 1
      OBVIOUS
    <3> QED
      BY <1>3, <1>9, <3>1, Zenon
  <2>7. (M + Debt + Tokens) + Left <= (M + 1 + Debt + Tokens) + Left /\ M + Owed <= M + 1 + Owed
    <3>1. \A m, d, t, l \in Nat : (m + d + t) + l <= (m + 1 + d + t) + l
      OBVIOUS
    <3>2. \A m, o \in Nat : m + o <= m + 1 + o
      OBVIOUS
    <3>3. (M + Debt + Tokens) + Left <= (M + 1 + Debt + Tokens) + Left
      BY <1>3, <1>8, <1>9, <3>1, Zenon
    <3>4. M + Owed <= M + 1 + Owed
      BY <1>3, <1>9, <3>2, Zenon
    <3> QED
      BY <3>3, <3>4
  <2>8. ASSUME NEW k \in B
        PROVE  \E j \in A : (M - k) + Debt + Left <= (L - j) + Debt + Left
    <3>0. \A m, d, l, n \in Nat : (m - n) + d + l <= ((m + 1) - (n + 1)) + d + l
      OBVIOUS
    <3>1. (M - k) + Debt + Left <= ((M + 1) - (k + 1)) + Debt + Left
      BY <1>3, <1>8, <1>9, <3>0, <2>8, Zenon
    <3> HIDE DEF A, B, L, M
    <3> QED
      BY <1>3, <2>8, <3>1, Zenon
  <2>9. /\ (Inits + Selfs) + Left <= (Inits + Selfs) + Left
        /\ Looks + 0 + Posts + Frees + gAttflag <= Looks + 0 + Posts + Frees + gAttflag
    <3>1. \A i, s, l, k, p, f, g \in Nat : (i + s) + l <= (i + s) + l /\ k + 0 + p + f + g <= k + 0 + p + f + g
      OBVIOUS
    <3>2. Looks \in Nat
      BY <1>9, <2>3
    <3> QED
      BY <1>9, <3>1, <3>2, ZenonT(60)
  <2>10. ~(toParent = <<>>)
    BY <1>3
  <2>11. Asking => /\ (Waiting' <=> Waiting) /\ Owed' <= Owed
                   /\ M + Owed' <= L + Owed /\ (Waiting => M <= L)
    <3> HIDE DEF L, M
    <3> QED
      BY <1>3, <1>4, <2>6, <2>7
  <2>12. /\ (M + Debt' + Tokens') + Left <= (L + Debt + Tokens) + Left'
         /\ \A k \in B : \E j \in A : (M - k) + Debt' + Left <= (L - j) + Debt + Left'
    <3> HIDE DEF L, M, A, B
    <3>1. (M + Debt' + Tokens') + Left <= (L + Debt + Tokens) + Left'
      BY <1>3, <1>4, <2>4, <2>7
    <3>2. \A k \in B : \E j \in A : (M - k) + Debt' + Left <= (L - j) + Debt + Left'
      BY <1>4, <2>4, <2>8
    <3> QED
      BY <3>1, <3>2
  <2> QED
    BY <1>2, <1>4, <1>6, <1>7, <1>8, <1>10, <2>2, <2>3, <2>5, <2>6, <2>9, <2>10, <2>11, <2>12, BudgetKept
<1>12. CASE c = "READ_ATTLOG"
  <2>1. Reads' = 1 /\ Loads' = 2
    <3>1. serving' = <<SetCmd, ReadIt, ClearCmd>>
      BY <1>2, <1>3, <1>12, HandlerForm
    <3>2. Num(serving', SetCmd) = 1 /\ Num(serving', ClearCmd) = 1 /\ Num(serving', ReadIt) = 1
      BY <1>1, <3>1, ServingCounts
    <3> QED
      BY <3>2 DEF Reads, Loads
  <2>2. Looks = 1 + Looks' /\ 1 \in A
    BY <1>3, <1>12 DEF One
  <2>3. Looks' = 0 /\ Posts = 0 /\ Frees = 0 /\ gAttflag = 0
    <3>1. (1 + Looks') + 0 + Posts + Frees + gAttflag <= 1
      BY <1>6, <2>2 DEF Budget
    <3>2. \A k, p, f, g \in Nat : (1 + k) + 0 + p + f + g <= 1 => k = 0 /\ p = 0 /\ f = 0 /\ g = 0
      OBVIOUS
    <3> QED
      BY <1>9, <3>1, <3>2, Zenon
  <2>4. B = {}
    <3>1. Num(toParent', "READ_ATTLOG") = 0 /\ toParent' \in Seq(ToParent)
      BY <2>3 DEF Looks, Typed, Cells
    <3>2. Where(toParent', "READ_ATTLOG") = {}
      BY <3>1, WhereIs, Zenon
    <3> QED
      BY <3>2
  <2>5. ~Calm
    <3>1. 1 \in 1 .. Len(toParent) /\ toParent[1] = "READ_ATTLOG"
      BY <2>2 DEF Where
    <3> QED
      BY <3>1, Zenon DEF Calm
  <2>6. Tokens' = 2 /\ Debt' <= Debt + 2
    <3>1. Tokens' = 2 * (1 + 0) + 0 + 0
      BY <1>2, <1>4, <2>1, <2>3 DEF Tokens
    <3>2. /\ Debt = Owed + One(Offline) + Inits + Selfs + 2 + 0 + One(Wrong)
          /\ Debt' = Owed + One(Offline) + Inits + Selfs + 2 + 2 + One(Wrong)
      BY <1>4, <1>5, <1>6, <2>1 DEF Debt
    <3>3. \A o, f, i, s, w \in Nat : o + f + i + s + 2 + 2 + w <= (o + f + i + s + 2 + 0 + w) + 2
      OBVIOUS
    <3>4. Owed + One(Offline) + Inits + Selfs + 2 + 2 + One(Wrong)
            <= (Owed + One(Offline) + Inits + Selfs + 2 + 0 + One(Wrong)) + 2
      BY <1>9, <3>3, Zenon
    <3> QED
      BY <3>1, <3>2, <3>4
  <2>7. Inits' + Selfs' <= Left'
    BY <1>4 DEF Budget
  <2>8. Looks' + Reads' + Posts' + Frees' + gAttflag' <= 1
    BY <1>2, <1>4, <2>1, <2>3
  <2>9. Asking' => Owed' <= 1
    BY <1>4 DEF Budget
  <2>10. Asking' /\ Waiting' => M <= 7 + Left'
    <3>1. \A m, l \in Nat : m + 1 <= 7 + l => m <= 7 + l
      OBVIOUS
    <3>2. Asking /\ Waiting => M + 1 <= 7 + Left
      BY <1>3 DEF Budget
    <3> QED
      BY <1>3, <1>4, <1>9, <3>1, <3>2
  <2>11. Asking' /\ ~Waiting' => M + Owed' + 1 <= 7 + Left'
    <3>1. \A m, l, o \in Nat : (m + 1) + o + 1 <= 7 + l => m + o + 1 <= 7 + l
      OBVIOUS
    <3>2. Asking /\ ~Waiting => (M + 1) + Owed + 1 <= 7 + Left
      BY <1>3 DEF Budget
    <3> QED
      BY <1>3, <1>4, <1>9, <3>1, <3>2
  <2>12. ~Asking' => at' # "warn" /\ at' # "due"
    BY <1>2, <1>3, <1>4, <2>5 DEF Budget
  <2>13. ~Asking' /\ at' # "warn" => M + Debt' + Tokens' <= 7 + Left'
    <3>1. ASSUME ~Asking, at # "warn" PROVE M + Debt' + 2 <= 7 + Left
      <4>1. (L - 1) + Debt + 4 <= 7 + Left
        BY <2>2, <3>1 DEF Budget
      <4>2. \A m, d, e, l \in Nat : ((m + 1) - 1) + d + 4 <= 7 + l /\ e <= d + 2 => m + e + 2 <= 7 + l
        OBVIOUS
      <4>3. ((M + 1) - 1) + Debt + 4 <= 7 + Left
        BY <1>3, <4>1
      <4> QED
        BY <1>3, <1>8, <1>9, <2>6, <4>2, <4>3, Zenon
    <3> QED
      BY <1>2, <1>4, <2>6, <3>1
  <2> HIDE DEF A
  <2> QED
    BY <2>4, <2>7, <2>8, <2>9, <2>10, <2>11, <2>12, <2>13 DEF Budget
<1> QED
  BY <1>11, <1>12

LEMMA ParentBudget ==
  ASSUME Typed, Typed', Budget, ParentService \/ MainTells \/ EnterMenu \/ LeaveMenu
  PROVE  Budget'
BY BudgetTake, BudgetParentTells, BudgetParentFlag, BudgetParentRead, BudgetParentStore DEF ParentService

LEMMA DebtMoved ==
  ASSUME NEW o \in Nat, NEW o2 \in Nat, NEW f \in Nat, NEW f2 \in Nat, NEW i \in Nat, NEW i2 \in Nat,
         NEW s \in Nat, NEW s2 \in Nat, NEW lo \in Nat, NEW w \in Nat, NEW l \in Nat,
         o2 <= o, f2 <= f, i2 + s2 <= i + s
  PROVE  (o2 + f2 + i2 + s2 + 2 + lo + w) + l <= (o + f + i + s + 2 + lo + w) + l
OBVIOUS

LEMMA TokenMoved ==
  ASSUME NEW r \in Nat, NEW p \in Nat, NEW p2 \in Nat, NEW f \in Nat, NEW f2 \in Nat,
         NEW g \in Nat, NEW g2 \in Nat,
         p2 <= p, f2 + g2 <= f + g
  PROVE  2 * (r + p2) + f2 + g2 <= 2 * (r + p) + f + g
OBVIOUS

LEMMA StoreMoved ==
  ASSUME NEW k \in Nat, NEW r \in Nat, NEW p \in Nat, NEW p2 \in Nat, NEW f \in Nat, NEW f2 \in Nat,
         NEW g \in Nat, NEW g2 \in Nat,
         p2 <= p, f2 + g2 <= f + g
  PROVE  k + r + p2 + f2 + g2 <= k + r + p + f + g
OBVIOUS

LEMMA DebtMovedKept ==
  ASSUME Owed \in Nat, Owed' \in Nat, One(Offline) \in Nat, One(Offline') \in Nat, Inits \in Nat, Inits' \in Nat,
         Selfs \in Nat, Selfs' \in Nat, Loads \in Nat, One(Wrong) \in Nat, Left \in Nat,
         Owed' <= Owed, One(Offline') <= One(Offline), Inits' + Selfs' <= Inits + Selfs
  PROVE  (Owed' + One(Offline') + Inits' + Selfs' + 2 + Loads + One(Wrong)) + Left
           <= (Owed + One(Offline) + Inits + Selfs + 2 + Loads + One(Wrong)) + Left
BY DebtMoved, ZenonT(60)

LEMMA DebtPaid ==
  ASSUME NEW o \in Nat, NEW f \in Nat, NEW f2 \in Nat, NEW i \in Nat, NEW i2 \in Nat,
         NEW s \in Nat, NEW s2 \in Nat, NEW lo \in Nat, NEW w \in Nat,
         f2 <= f, i2 + s2 <= i + s
  PROVE  (o + f2 + i2 + s2 + 2 + lo + w) + 1 <= (1 + o) + f + i + s + 2 + lo + w
OBVIOUS

LEMMA DebtPaidNow ==
  ASSUME Owed' \in Nat, One(Offline) \in Nat, One(Offline') \in Nat, Inits \in Nat, Inits' \in Nat,
         Selfs \in Nat, Selfs' \in Nat, Loads \in Nat, One(Wrong) \in Nat,
         One(Offline') <= One(Offline), Inits' + Selfs' <= Inits + Selfs
  PROVE  (Owed' + One(Offline') + Inits' + Selfs' + 2 + Loads + One(Wrong)) + 1
           <= (1 + Owed') + One(Offline) + Inits + Selfs + 2 + Loads + One(Wrong)
BY DebtPaid, Zenon

\* What one operation of the child does to the amounts, but for a write to the parent.
LEMMA DoAmounts ==
  ASSUME Typed, Typed', NEW o, Do(o), serving' = serving, copy'["parent"] = copy["parent"],
         commands' = commands, Offline' => Offline,
         Inits' <= Inits + One(Head(todo) = Self),
         Posts' <= Posts, gAttflag' <= gAttflag + One(Head(todo) = FreeIt)
  PROVE  /\ Amounts /\ Amounts' /\ Debt \in Nat /\ Debt' \in Nat /\ Tokens \in Nat /\ Tokens' \in Nat
         /\ Left' = Left /\ Owed = One(Head(todo) = TellIt) + Owed'
         /\ Owed' <= Owed /\ Inits' + Selfs' <= Inits + Selfs /\ Debt' + Left <= Debt + Left /\ Tokens' <= Tokens
         /\ Head(todo) = TellIt => Debt' + 1 <= Debt
         /\ Looks + Reads' + Posts' + Frees' + gAttflag' <= Looks + Reads + Posts + Frees + gAttflag
<1> USE DEF flags, mailbox, pipes, child, main, history
<1>1. TodoForm(todo)
  BY DEF Typed, Forms
<1>2. Amounts /\ Amounts'
  BY AmountsNow, AmountsNext
<1>3. Debt \in Nat /\ Debt' \in Nat /\ Tokens \in Nat /\ Tokens' \in Nat
  BY <1>2, DebtsNow, DebtsNext
<1>4. Left' = Left /\ Reads' = Reads /\ Loads' = Loads /\ Wrong' = Wrong
  BY DEF Left, Reads, Loads, Wrong
<1>5. /\ Posts \in Nat /\ gAttflag \in Nat /\ Looks \in Nat /\ Inits \in Nat /\ Left \in Nat /\ Owed \in Nat
      /\ Selfs \in Nat /\ Frees \in Nat /\ One(Offline) \in Nat /\ One(Wrong) \in Nat /\ Reads \in Nat
      /\ Loads \in Nat
      /\ Posts' \in Nat /\ gAttflag' \in Nat /\ Inits' \in Nat /\ Owed' \in Nat
      /\ Selfs' \in Nat /\ Frees' \in Nat /\ One(Offline') \in Nat
  BY <1>2 DEF Amounts
<1>6. \A x : Num(todo, x) = One(Head(todo) = x) + Num(todo', x)
  BY <1>1, DoCounts
<1>7. /\ Owed = One(Head(todo) = TellIt) + Owed'
      /\ Selfs = One(Head(todo) = Self) + Selfs'
      /\ Frees = One(Head(todo) = FreeIt) + Frees'
  BY <1>6 DEF Owed, Selfs, Frees
<1>8. \A b : One(b) \in Nat
  BY DEF One
<1>9. Owed' <= Owed
  <2>1. \A a, b, c \in Nat : b = c + a => a <= b
    OBVIOUS
  <2> QED
    BY <1>5, <1>7, <1>8, <2>1, Zenon
<1>10. Inits' + Selfs' <= Inits + Selfs
  <2>1. \A i, i2, s, s2, b \in Nat : i2 <= i + b /\ s = b + s2 => i2 + s2 <= i + s
    OBVIOUS
  <2> QED
    BY <1>5, <1>7, <1>8, <2>1, Zenon
<1>11. Frees' + gAttflag' <= Frees + gAttflag
  <2>1. \A g, g2, f, f2, b \in Nat : g2 <= g + b /\ f = b + f2 => f2 + g2 <= f + g
    OBVIOUS
  <2> QED
    BY <1>5, <1>7, <1>8, <2>1, Zenon
<1>12. One(Offline') <= One(Offline)
  BY DEF One
<1>13. Debt' = Owed' + One(Offline') + Inits' + Selfs' + 2 + Loads + One(Wrong)
  BY <1>4 DEF Debt
<1>14. Debt' + Left <= Debt + Left
  <2>1. (Owed' + One(Offline') + Inits' + Selfs' + 2 + Loads + One(Wrong)) + Left
          <= (Owed + One(Offline) + Inits + Selfs + 2 + Loads + One(Wrong)) + Left
    BY <1>5, <1>9, <1>10, <1>12, DebtMovedKept
  <2> QED
    BY <1>13, <2>1 DEF Debt
<1>15. Tokens' <= Tokens
  <2>1. Tokens' = 2 * (Reads + Posts') + Frees' + gAttflag'
    BY <1>4 DEF Tokens
  <2>2. 2 * (Reads + Posts') + Frees' + gAttflag' <= 2 * (Reads + Posts) + Frees + gAttflag
    BY <1>5, <1>11, TokenMoved, Zenon
  <2> QED
    BY <2>1, <2>2 DEF Tokens
<1>16. Looks + Reads' + Posts' + Frees' + gAttflag' <= Looks + Reads + Posts + Frees + gAttflag
  <2>1. Looks + Reads + Posts' + Frees' + gAttflag' <= Looks + Reads + Posts + Frees + gAttflag
    BY <1>5, <1>11, StoreMoved, Zenon
  <2> QED
    BY <1>4, <2>1
<1>17. ASSUME Head(todo) = TellIt PROVE Debt' + 1 <= Debt
  <2>1. Owed = 1 + Owed'
    BY <1>7, <1>17 DEF One
  <2>2. (Owed' + One(Offline') + Inits' + Selfs' + 2 + Loads + One(Wrong)) + 1
          <= (1 + Owed') + One(Offline) + Inits + Selfs + 2 + Loads + One(Wrong)
    BY <1>5, <1>10, <1>12, DebtPaidNow
  <2> QED
    BY <1>13, <2>1, <2>2 DEF Debt
<1> QED
  BY <1>2, <1>3, <1>4, <1>7, <1>9, <1>10, <1>14, <1>15, <1>16, <1>17

\* One operation of the child that does not write to the parent.
LEMMA BudgetDo ==
  ASSUME Typed, Typed', Budget, NEW o, Do(o), o \notin {"request", "await"}, at' = at,
         serving' = serving, copy'["parent"] = copy["parent"], commands' = commands, toParent' = toParent,
         Offline' => Offline,
         Inits' <= Inits + One(Head(todo) = Self),
         Posts' <= Posts, gAttflag' <= gAttflag + One(Head(todo) = FreeIt)
  PROVE  Budget'
<1>1. /\ Amounts /\ Amounts' /\ Debt \in Nat /\ Debt' \in Nat /\ Tokens \in Nat /\ Tokens' \in Nat
      /\ Left' = Left
      /\ Owed' <= Owed /\ Inits' + Selfs' <= Inits + Selfs /\ Debt' + Left <= Debt + Left /\ Tokens' <= Tokens
      /\ Looks + Reads' + Posts' + Frees' + gAttflag' <= Looks + Reads + Posts + Frees + gAttflag
  BY DoAmounts
<1>2. (Asking' <=> Asking) /\ ~Waiting /\ ~Waiting'
  <2>1. TodoForm(todo)
    BY DEF Typed, Forms
  <2> QED
    BY <2>1, DoCounts
<1>3. Looks' = Looks /\ (Calm => Calm')
  BY DEF Looks, Calm
<1>4. /\ Left \in Nat /\ Owed \in Nat /\ Owed' \in Nat /\ Len(toParent) \in Nat /\ Inits \in Nat /\ Inits' \in Nat
      /\ Selfs \in Nat /\ Selfs' \in Nat
  BY <1>1 DEF Amounts
<1> DEFINE A == Where(toParent, "READ_ATTLOG")
           L == Len(toParent)
<1>5. \A k \in A : k \in Nat
  BY <1>4 DEF Where
<1>6. Where(toParent', "READ_ATTLOG") = A /\ Len(toParent') = L /\ L \in Nat
  BY <1>4
<1> HIDE DEF A, L
<1>7. Left <= Left' /\ (Inits' + Selfs') + Left <= (Inits + Selfs) + Left'
  <2>1. \A i, i2, s, s2, l \in Nat : i2 + s2 <= i + s => (i2 + s2) + l <= (i + s) + l
    OBVIOUS
  <2>2. \A l \in Nat : l <= l
    OBVIOUS
  <2>3. Left <= Left
    BY <1>4, <2>2, Zenon
  <2>4. (Inits' + Selfs') + Left <= (Inits + Selfs) + Left
    BY <1>1, <1>4, <2>1, Zenon
  <2> QED
    BY <1>1, <2>3, <2>4
<1>8. (L + Debt' + Tokens') + Left <= (L + Debt + Tokens) + Left'
  <2>1. \A l \in Nat : l <= l
    OBVIOUS
  <2>2. L <= L
    BY <1>6, <2>1, Zenon
  <2>3. (L + Debt' + Tokens') + Left <= (L + Debt + Tokens) + Left
    BY <1>1, <1>4, <1>6, <2>2, LineSum, Zenon
  <2> QED
    BY <1>1, <2>3
<1>9. \A k \in A : \E j \in A : (L - k) + Debt' + Left <= (L - j) + Debt + Left'
  <2> TAKE k \in A
  <2>1. \A l, m \in Nat : l - m <= l - m
    OBVIOUS
  <2>2. L - k <= L - k
    BY <1>5, <1>6, <2>1, Zenon
  <2>3. (L - k) + Debt' + Left <= (L - k) + Debt + Left
    BY <1>1, <1>4, <1>5, <1>6, <2>2, PlaceSum, Zenon
  <2> QED
    BY <1>1, <2>3
<1>10. L + Owed' <= L + Owed
  <2>1. \A l, a, b \in Nat : b <= a => l + b <= l + a
    OBVIOUS
  <2> QED
    BY <1>1, <1>4, <1>6, <2>1, Zenon
<1>11. toParent = <<>> => toParent' = <<>>
  OBVIOUS
<1>12. Looks' + Reads' + Posts' + Frees' + gAttflag' <= Looks + Reads + Posts + Frees + gAttflag
  BY <1>1, <1>3
<1>13. ~Asking /\ at # "warn" =>
         /\ (Len(toParent') + Debt' + Tokens') + Left <= (Len(toParent) + Debt + Tokens) + Left'
         /\ \A k \in Where(toParent', "READ_ATTLOG") :
              \E j \in Where(toParent, "READ_ATTLOG") :
                (Len(toParent') - k) + Debt' + Left <= (Len(toParent) - j) + Debt + Left'
  BY <1>6, <1>8, <1>9 DEF A, L
<1>14. Asking => /\ (Waiting' <=> Waiting) /\ Owed' <= Owed
                 /\ Len(toParent') + Owed' <= Len(toParent) + Owed
                 /\ (Waiting => Len(toParent') <= Len(toParent))
  BY <1>1, <1>2, <1>6, <1>10 DEF L
<1>15. (\A j \in Where(toParent, "READ_ATTLOG") : j \in Nat) /\ (\A k \in Where(toParent', "READ_ATTLOG") : k \in Nat)
  BY <1>5, <1>6 DEF A
<1> QED
  BY <1>1, <1>2, <1>3, <1>7, <1>11, <1>12, <1>13, <1>14, <1>15, BudgetKept

LEMMA ConnectOps ==
  /\ \A o \in ChildOp : o.op = "set" /\ o.arg = "connect" => o = Connect
  /\ \A o \in ChildOp : o.op = "clear" /\ o.arg = "connect" => o = Cut
  /\ Self.op = "self" /\ FreeIt.op = "free" /\ TellIt.op = "tell" /\ Connect.op = "set" /\ Cut.op = "clear"
<1>1. ASSUME NEW o \in ChildOp, o.op \in {"set", "clear"}, o.arg = "connect"
      PROVE  o = Op(o.op, "connect")
  <2>1. SetCmd.arg # "connect" /\ ClearCmd.arg # "connect" /\ TellIt.op = "tell" /\ FreeIt.op = "free"
    BY OpNames
  <2>2. CASE o \in LoopOp
    <3>1. o \in [op : {"set", "clear"}, arg : {"connect"}]
      BY <1>1, <2>2 DEF LoopOp, AskOp
    <3> QED
      BY <3>1 DEF Op
  <2>3. CASE o \in AloneOp
    BY <1>1, <2>3 DEF AloneOp
  <2> QED
    BY <1>1, <2>1, <2>2, <2>3 DEF ChildOp
<1>2. Self.op = "self" /\ Connect.op = "set" /\ Cut.op = "clear"
  BY DEF Self, Connect, Cut, Op
<1> QED
  BY <1>1, <1>2, OpNames DEF Connect, Cut

LEMMA OfflineDo ==
  ASSUME TodoForm(todo), NEW o, Do(o), Head(todo) # Connect, Head(todo) # Cut,
         "connect" \in Effective' <=> "connect" \in Effective
  PROVE  Offline' => Offline
<1>1. \A x : Num(todo, x) = One(Head(todo) = x) + Num(todo', x)
  BY DoCounts
<1>2. \A x : Num(todo', x) \in Nat
  <2>1. todo \in Seq(ChildOp) /\ todo # <<>> /\ todo' = Tail(todo)
    BY TodoTypes DEF Do
  <2>2. todo' \in Seq(ChildOp)
    BY <2>1
  <2> QED
    BY <2>2, WhereIs, Zenon
<1>3. Sets = 0 + Sets' /\ Cuts = 0 + Cuts' /\ Sets' \in Nat /\ Cuts' \in Nat
  BY <1>1, <1>2 DEF Sets, Cuts, One
<1>4. Sets = Sets' /\ Cuts = Cuts'
  <2>1. \A n \in Nat : 0 + n = n
    OBVIOUS
  <2> QED
    BY <1>3, <2>1
<1> QED
  BY <1>4 DEF Offline

LEMMA BudgetPlainOps ==
  ASSUME Typed, Typed', Plan, Budget,
         ChildPayload \/ ChildFreesUpload \/ ChildReset \/ ChildSelf
  PROVE  Budget'
<1>1. Cells /\ TodoForm(todo)
  BY DEF Typed, Forms
<1> USE DEF flags, mailbox, pipes, child, main, history
<1>2. Amounts /\ Amounts'
  BY AmountsNow, AmountsNext
<1>3. /\ Posts \in Nat /\ gAttflag \in Nat /\ Inits \in Nat /\ Inits' \in Nat /\ Posts' \in Nat
  BY <1>2 DEF Amounts
<1>4. /\ at' = at /\ serving' = serving /\ copy' = copy /\ commands' = commands /\ toParent' = toParent
      /\ flag' = flag
  BY DEF ChildPayload, ChildFreesUpload, ChildReset, ChildSelf
<1>5. PICK o \in {"payload", "free", "reset", "self"} : Do(o)
  BY DEF ChildPayload, ChildFreesUpload, ChildReset, ChildSelf
<1>6. Head(todo).op = o
  BY <1>1, <1>5, DoCounts
<1>7. Offline' => Offline
  <2>1. Head(todo) # Connect /\ Head(todo) # Cut
    BY <1>6, ConnectOps
  <2>2. Effective' = Effective
    BY <1>4 DEF Effective
  <2> QED
    BY <1>1, <1>5, <2>1, <2>2, OfflineDo
<1>8. \A b : One(b) \in Nat
  BY DEF One
<1>9. \A n, m \in Nat : n <= n /\ n <= n + m
  OBVIOUS
<1>10. /\ Posts <= Posts /\ Inits <= Inits /\ gAttflag <= gAttflag
       /\ Inits <= Inits + One(Head(todo) = Self) /\ gAttflag <= gAttflag + One(Head(todo) = FreeIt)
  <2>1. \A n \in Nat : n <= n
    OBVIOUS
  <2>2. \A n, m \in Nat : n <= n + m
    OBVIOUS
  <2>3. Posts <= Posts /\ Inits <= Inits /\ gAttflag <= gAttflag
    BY <1>3, <2>1, Zenon
  <2>4. Inits <= Inits + One(Head(todo) = Self)
    BY <1>3, <1>8, <2>2, Zenon
  <2>5. gAttflag <= gAttflag + One(Head(todo) = FreeIt)
    BY <1>3, <1>8, <2>2, Zenon
  <2> QED
    BY <2>3, <2>4, <2>5
<1>11. CASE ChildPayload
  <2>1. gAttflag' = gAttflag
    BY <1>11 DEF ChildPayload
  <2>2. Posts' <= Posts /\ Inits' <= Inits
    <3>1. toChild \in Seq(ToChild) /\ PayBytes \in Nat
      BY <1>1, PipeAssumption DEF Cells
    <3>2. \/ toChild' = toChild
          \/ PayBytes <= Len(toChild) /\ toChild' = SubSeq(toChild, PayBytes + 1, Len(toChild))
      BY <1>11, <3>1 DEF ChildPayload, Payload
    <3>3. CASE toChild' = toChild
      <4>1. Posts' = Posts /\ Inits' = Inits
        BY <3>3 DEF Posts, Inits
      <4> QED
        BY <1>10, <4>1
    <3>4. CASE PayBytes <= Len(toChild) /\ toChild' = SubSeq(toChild, PayBytes + 1, Len(toChild))
      <4>1. \A x : Num(SubSeq(toChild, PayBytes + 1, Len(toChild)), x) <= Num(toChild, x)
        BY <3>1, <3>4, NumRest, Zenon
      <4> QED
        BY <3>4, <4>1 DEF Posts, Inits
    <3> QED
      BY <3>2, <3>3, <3>4
  <2>3. Inits' <= Inits + One(Head(todo) = Self)
    <3>1. \A i, i2, b \in Nat : i2 <= i => i2 <= i + b
      OBVIOUS
    <3> QED
      BY <1>3, <1>8, <2>2, <3>1, Zenon
  <2> QED
    BY <1>4, <1>5, <1>7, <1>10, <2>1, <2>2, <2>3, BudgetDo
<1>12. CASE ChildFreesUpload
  <2>1. gAttflag' = 1 /\ toChild' = toChild /\ Do("free")
    BY <1>12 DEF ChildFreesUpload
  <2>2. Posts' = Posts /\ Inits' = Inits
    BY <2>1 DEF Posts, Inits
  <2>3. Head(todo) = FreeIt
    <3>1. Head(todo).op = "free" /\ todo # <<>>
      BY <1>1, <2>1, DoCounts
    <3>2. todo = <<FreeIt, ClearCmd>>
      BY <1>1, <3>1, TodoHead
    <3> QED
      BY <3>2
  <2>4. gAttflag' <= gAttflag + One(Head(todo) = FreeIt)
    <3>1. One(Head(todo) = FreeIt) = 1
      BY <2>3 DEF One
    <3>2. \A g \in Nat : 1 <= g + 1
      OBVIOUS
    <3>3. 1 <= gAttflag + 1
      BY <1>3, <3>2, Zenon
    <3> QED
      BY <2>1, <3>1, <3>3
  <2> QED
    BY <1>4, <1>5, <1>7, <1>10, <2>2, <2>4, BudgetDo
<1>13. CASE ChildReset
  <2>1. gAttflag' = gAttflag /\ toChild' = toChild
    BY <1>13 DEF ChildReset
  <2>2. Posts' = Posts /\ Inits' = Inits
    BY <2>1 DEF Posts, Inits
  <2> QED
    BY <1>4, <1>5, <1>7, <1>10, <2>1, <2>2, BudgetDo
<1>14. CASE ChildSelf
  <2>1. gAttflag' = gAttflag /\ TellChild("RE_INIT") /\ Do("self")
    BY <1>14 DEF ChildSelf
  <2>2. "RE_INIT" \in ToChild /\ "RE_INIT" # "byte" /\ "POST_ATT" # "byte" /\ "RE_INIT" # "POST_ATT"
    BY DEF ToChild, Flags
  <2>3. Posts' <= Posts + One("RE_INIT" = "POST_ATT") /\ Inits' <= Inits + One("RE_INIT" = "RE_INIT")
    <3>1. Posts' <= Posts + One("RE_INIT" = "POST_ATT")
      BY <1>1, <2>1, <2>2, ToldCounts DEF Posts
    <3>2. Inits' <= Inits + One("RE_INIT" = "RE_INIT")
      BY <1>1, <2>1, <2>2, ToldCounts DEF Inits
    <3> QED
      BY <3>1, <3>2
  <2>4. Posts' <= Posts
    <3>1. Posts' <= Posts + 0
      BY <2>2, <2>3 DEF One
    <3>2. \A p, q \in Nat : q <= p + 0 => q <= p
      OBVIOUS
    <3> QED
      BY <1>3, <3>1, <3>2, Zenon
  <2>5. Head(todo) = Self
    <3>1. Head(todo) \in ChildOp /\ Head(todo).op = "self"
      BY <1>1, <2>1, DoCounts
    <3>2. Head(todo) \in LoopOp
      BY <3>1, OpNames DEF ChildOp, AloneOp
    <3>3. Head(todo) \in [op : {"zero", "self"}, arg : {""}]
      BY <3>1, <3>2 DEF LoopOp, AskOp
    <3> QED
      BY <3>1, <3>3 DEF Self, Op
  <2>6. Inits' <= Inits + One(Head(todo) = Self)
    BY <2>3, <2>5 DEF One
  <2> QED
    BY <1>4, <1>5, <1>7, <1>10, <2>1, <2>4, <2>6, BudgetDo
<1> QED
  BY <1>11, <1>12, <1>13, <1>14

\* set_bit, clear_bit and the plain 0 in the child.
LEMMA BudgetChildFlag ==
  ASSUME Typed, Typed', Plan, Budget, ChildFlag \/ ChildZero
  PROVE  Budget'
<1>1. Cells /\ TodoForm(todo) /\ todo \in Seq(ChildOp)
  BY TodoTypes DEF Typed, Forms
<1> USE DEF flags, mailbox, pipes, child, main, history
<1>2. Amounts /\ Amounts'
  BY AmountsNow, AmountsNext
<1>3. /\ Posts \in Nat /\ gAttflag \in Nat /\ Inits \in Nat /\ Sets \in Nat /\ Cuts \in Nat
      /\ Sets' \in Nat /\ Cuts' \in Nat
  BY <1>2 DEF Amounts
<1>4. /\ at' = at /\ serving' = serving /\ commands' = commands /\ toParent' = toParent
      /\ toChild' = toChild /\ gAttflag' = gAttflag /\ copy'["parent"] = copy["parent"]
  BY <1>1 DEF ChildFlag, ChildZero, Load, Cells, Threads
<1>5. PICK o \in {"set", "clear", "zero"} : Do(o)
  BY DEF ChildFlag, ChildZero
<1>6. /\ todo # <<>> /\ copy["child"] = <<>> /\ Head(todo).op = o /\ todo' = Tail(todo) /\ Head(todo) \in ChildOp
      /\ \A x : Num(todo, x) = One(Head(todo) = x) + Num(todo', x)
  BY <1>1, <1>5, DoCounts
<1>7. Posts' = Posts /\ Inits' = Inits
  BY <1>4 DEF Posts, Inits
<1>8. /\ Posts <= Posts /\ Inits <= Inits + One(Head(todo) = Self)
      /\ gAttflag <= gAttflag + One(Head(todo) = FreeIt)
  <2>1. \A b : One(b) \in Nat
    BY DEF One
  <2>2. \A n \in Nat : n <= n
    OBVIOUS
  <2>3. \A n, m \in Nat : n <= n + m
    OBVIOUS
  <2>4. Posts <= Posts
    BY <1>3, <2>2, Zenon
  <2>5. Inits <= Inits + One(Head(todo) = Self)
    BY <1>3, <2>1, <2>3, Zenon
  <2>6. gAttflag <= gAttflag + One(Head(todo) = FreeIt)
    BY <1>3, <2>1, <2>3, Zenon
  <2> QED
    BY <2>4, <2>5, <2>6
<1>9. 1 \in 1 .. Len(todo) /\ Head(todo) = todo[1] /\ Len(todo) \in Nat /\ Len(todo') = Len(todo) - 1
      /\ \A i \in 1 .. Len(todo') : todo'[i] = todo[i + 1]
  BY <1>1, <1>6
<1>10. Offline' => Offline
  <2>1. CASE ChildZero
    <3>1. Head(todo).op = "zero"
      <4>1. Do("zero")
        BY <2>1 DEF ChildZero
      <4> QED
        BY <4>1 DEF Do
    <3>2. 1 + 1 = Len(todo) /\ todo[1 + 1] = Connect
      BY <1>9, <3>1 DEF Plan, Linked
    <3>3. 1 \in Where(todo', Connect)
      <4>0. \A n \in Nat : 1 + 1 = n => n - 1 = 1
        OBVIOUS
      <4>a. Len(todo') = 1
        BY <1>9, <3>2, <4>0, Zenon
      <4>1. 1 \in 1 .. Len(todo')
        BY <4>a
      <4>2. todo'[1] = todo[1 + 1]
        BY <1>9, <4>1
      <4> QED
        BY <3>2, <4>1, <4>2, Zenon DEF Where
    <3>4. Sets' # 0
      <4>1. todo' \in Seq(ChildOp)
        BY <1>1, <1>6
      <4>2. Num(todo', Connect) = 0 <=> Where(todo', Connect) = {}
        BY <4>1, WhereIs, Zenon
      <4> QED
        BY <3>3, <4>2 DEF Sets
    <3> QED
      BY <3>4 DEF Offline
  <2>2. CASE ChildFlag
    <3>1. Head(todo).op \in {"set", "clear"} /\ Head(todo).arg \in Bits
      <4>1. Do("set") \/ Do("clear")
        BY <2>2 DEF ChildFlag
      <4>2. Head(todo).op \in {"set", "clear"}
        BY <4>1 DEF Do
      <4> QED
        BY <1>6, <4>2, OpTypes
    <3>2. /\ Head(todo).op = "set" => copy'["child"] = <<flag \cup {Head(todo).arg}>>
          /\ Head(todo).op = "clear" => copy'["child"] = <<flag \ {Head(todo).arg}>>
      BY <1>1, <2>2 DEF ChildFlag, Do, Load, Cells, Threads
    <3>3. Effective = flag
      BY <1>6 DEF Effective
    <3>4. /\ Head(todo).op = "set" => Effective' = flag \cup {Head(todo).arg}
          /\ Head(todo).op = "clear" => Effective' = flag \ {Head(todo).arg}
      <4>1. \A f : <<f>> # <<>> /\ <<f>>[1] = f
        OBVIOUS
      <4> QED
        BY <3>2, <4>1 DEF Effective
    <3>5. CASE Head(todo) = Connect
      <4>1. Connect.op = "set" /\ Connect.arg = "connect"
        BY DEF Connect, Op
      <4>2. "connect" \in Effective'
        BY <3>4, <3>5, <4>1
      <4>3. Len(todo) = 1
        BY <1>9, <3>5 DEF Plan, Linked
      <4>4. todo' = <<>>
        BY <1>1, <1>6, <4>3
      <4>5. Cuts' = 0
        BY <4>4, PartCounts DEF Cuts
      <4> QED
        BY <4>2, <4>5 DEF Offline
    <3>6. CASE Head(todo) = Cut
      <4>1. Cuts = 1 + Cuts' /\ Sets = 0 + Sets'
        BY <1>6, <3>6, PartOps DEF Cuts, Sets, One
      <4>2. Cuts > 0 /\ Sets = Sets'
        <5>1. \A n \in Nat : 1 + n > 0 /\ 0 + n = n
          OBVIOUS
        <5> QED
          BY <1>3, <4>1, <5>1
      <4> QED
        BY <4>2 DEF Offline
    <3>7. CASE Head(todo) # Connect /\ Head(todo) # Cut
      <4>1. Head(todo).arg # "connect"
        BY <1>6, <3>1, <3>7, ConnectOps
      <4>2. "connect" \in Effective' <=> "connect" \in Effective
        BY <3>1, <3>3, <3>4, <4>1
      <4> QED
        BY <1>1, <1>5, <3>7, <4>2, OfflineDo
    <3> QED
      BY <3>5, <3>6, <3>7
  <2> QED
    BY <2>1, <2>2
<1> QED
  BY <1>4, <1>5, <1>7, <1>8, <1>10, BudgetDo

\* The child is asking when it has something left behind a heartbeat.
LEMMA WarnAsks ==
  ASSUME Typed, Plan, at = "warn", todo # <<>>
  PROVE  Asking
<1>1. todo \in Seq(ChildOp)
  BY TodoTypes DEF Typed, Forms
<1>2. Len(todo) \in 1 .. Len(todo)
  BY <1>1
<1> QED
  BY <1>2 DEF Plan, Asking, Occurs

\* A status is written: a debt is paid.
LEMMA BudgetStatus ==
  ASSUME Typed, Typed', Plan, Budget, ChildTell, Do("tell")
  PROVE  Budget'
<1>1. Cells /\ TodoForm(todo) /\ toParent \in Seq(ToParent)
  BY DEF Typed, Forms, Cells
<1> USE DEF flags, mailbox, pipes, child, main, history
<1>2. /\ at' = at /\ serving' = serving /\ commands' = commands /\ copy' = copy /\ flag' = flag
      /\ toChild' = toChild /\ gAttflag' = gAttflag
      /\ toParent' = Put(toParent, <<Head(todo).arg>>, ParentCap)
  BY DEF ChildTell
<1>3. /\ todo # <<>> /\ Head(todo).op = "tell" /\ Head(todo) \in ChildOp
      /\ (Asking' <=> Asking) /\ ~Waiting /\ ~Waiting'
  BY <1>1, DoCounts
<1>4. Head(todo) = TellIt /\ Head(todo).arg = "STATUS" /\ "STATUS" \in ToParent
  BY <1>3, OpTypes, OpNames DEF ToParent
<1>5. Posts' = Posts /\ Inits' = Inits
  BY <1>2 DEF Posts, Inits
<1>6. Posts \in Nat /\ gAttflag \in Nat /\ Inits \in Nat
  BY AmountsNow DEF Amounts
<1>7. /\ Posts <= Posts /\ Inits <= Inits + One(Head(todo) = Self)
      /\ gAttflag <= gAttflag + One(Head(todo) = FreeIt)
  <2>1. \A b : One(b) \in Nat
    BY DEF One
  <2>2. \A n \in Nat : n <= n
    OBVIOUS
  <2>3. \A n, m \in Nat : n <= n + m
    OBVIOUS
  <2>4. Posts <= Posts
    BY <1>6, <2>2, Zenon
  <2>5. Inits <= Inits + One(Head(todo) = Self)
    BY <1>6, <2>1, <2>3, Zenon
  <2>6. gAttflag <= gAttflag + One(Head(todo) = FreeIt)
    BY <1>6, <2>1, <2>3, Zenon
  <2> QED
    BY <2>4, <2>5, <2>6
<1>8. Offline' => Offline
  <2>1. Head(todo) # Connect /\ Head(todo) # Cut
    BY <1>3, ConnectOps
  <2>2. Effective' = Effective
    BY <1>2 DEF Effective
  <2> QED
    BY <1>1, <2>1, <2>2, OfflineDo
<1>9. /\ Amounts /\ Amounts' /\ Debt \in Nat /\ Debt' \in Nat /\ Tokens \in Nat /\ Tokens' \in Nat
      /\ Left' = Left /\ Owed = One(Head(todo) = TellIt) + Owed'
      /\ Owed' <= Owed /\ Inits' + Selfs' <= Inits + Selfs /\ Tokens' <= Tokens
      /\ Head(todo) = TellIt => Debt' + 1 <= Debt
      /\ Looks + Reads' + Posts' + Frees' + gAttflag' <= Looks + Reads + Posts + Frees + gAttflag
  BY <1>2, <1>5, <1>7, <1>8, DoAmounts
<1>10. Owed = 1 + Owed' /\ Debt' + 1 <= Debt
  BY <1>4, <1>9 DEF One
<1> DEFINE A == Where(toParent, "READ_ATTLOG")
           B == Where(toParent', "READ_ATTLOG")
           L == Len(toParent)
           M == Len(toParent')
<1>11. /\ toParent' \in Seq(ToParent) /\ L \in Nat /\ M \in Nat
       /\ \/ toParent' = toParent
          \/ M = L + 1 /\ toParent'[M] = "STATUS" /\ (\A i \in 1 .. L : toParent'[i] = toParent[i])
             /\ Num(toParent', "READ_ATTLOG") = Num(toParent, "READ_ATTLOG") + One("STATUS" = "READ_ATTLOG")
  <2> DEFINE u == toParent \o <<"STATUS">>
  <2>1. toParent \in Seq(ToParent) /\ "STATUS" \in ToParent
    BY <1>1, <1>4
  <2>2. /\ toParent' = toParent \/ toParent' = u
        /\ u \in Seq(ToParent) /\ L \in Nat /\ Len(u) = L + 1 /\ u[L + 1] = "STATUS"
        /\ \A i \in 1 .. L : u[i] = toParent[i]
    <3>1. /\ Put(toParent, <<"STATUS">>, ParentCap) = toParent \/ Put(toParent, <<"STATUS">>, ParentCap) = u
          /\ u \in Seq(ToParent) /\ L \in Nat /\ Len(u) = L + 1 /\ u[L + 1] = "STATUS"
      BY <2>1, PutCounts, SMT
    <3>2. \A i \in 1 .. L : u[i] = toParent[i]
      BY <2>1, PutCounts, SMT
    <3> HIDE DEF u
    <3>3. toParent' = Put(toParent, <<"STATUS">>, ParentCap)
      BY <1>2, <1>4, Zenon
    <3> QED
      BY <3>1, <3>2, <3>3, Zenon
  <2>3. \A x : Num(u, x) = Num(toParent, x) + One("STATUS" = x)
    BY <2>1, PutCounts, SMT
  <2> HIDE DEF u
  <2>4. Num(u, "READ_ATTLOG") = Num(toParent, "READ_ATTLOG") + One("STATUS" = "READ_ATTLOG")
    BY <2>3, Zenon
  <2>5. CASE toParent' = toParent
    BY <2>1, <2>2, <2>5
  <2>6. CASE toParent' = u
    BY <2>2, <2>4, <2>6
  <2> QED
    BY <2>2, <2>5, <2>6
<1>12. /\ M <= L + 1 /\ Looks' = Looks
       /\ \A i \in 1 .. M : (i \in 1 .. L /\ toParent'[i] = toParent[i]) \/ toParent'[i] = "STATUS"
  <2>1. CASE toParent' = toParent
    BY <1>11, <2>1 DEF Looks
  <2>2. CASE /\ M = L + 1 /\ toParent'[M] = "STATUS" /\ (\A i \in 1 .. L : toParent'[i] = toParent[i])
             /\ Num(toParent', "READ_ATTLOG") = Num(toParent, "READ_ATTLOG") + One("STATUS" = "READ_ATTLOG")
    <3>1. Looks' = Looks + 0 /\ Looks \in Nat
      BY <1>9, <2>2 DEF Looks, One, Amounts
    <3>2. Looks' = Looks
      BY <3>1
    <3> HIDE DEF L, M
    <3> QED
      BY <1>11, <2>2, <3>2
  <2> QED
    BY <1>11, <2>1, <2>2
<1>13. /\ A \subseteq Nat /\ \A k \in B : k \in Nat /\ k \in A
  <2>1. A \subseteq Nat
    BY <1>11 DEF Where
  <2>2. \A k \in B : k \in 1 .. M /\ toParent'[k] = "READ_ATTLOG"
    BY DEF Where
  <2>3. \A k \in B : k \in A
    <3> HIDE DEF B, L, M
    <3> QED
      BY <1>12, <2>2 DEF Where, L
  <2> QED
    BY <2>1, <2>3
<1>14. Calm => Calm'
  BY <1>2, <1>12 DEF Calm
<1>15. at # "warn" \/ Asking
  BY <1>3, WarnAsks
<1>16. /\ Left \in Nat /\ Owed' \in Nat /\ Owed \in Nat /\ Inits' \in Nat /\ Selfs' \in Nat /\ Inits \in Nat
       /\ Selfs \in Nat
  BY <1>9 DEF Amounts
<1> HIDE DEF A, B, L, M
<1>17. Left <= Left' /\ (Inits' + Selfs') + Left <= (Inits + Selfs) + Left'
  <2>1. \A i, i2, s, s2, l \in Nat : i2 + s2 <= i + s => (i2 + s2) + l <= (i + s) + l
    OBVIOUS
  <2>2. \A l \in Nat : l <= l
    OBVIOUS
  <2>3. Left <= Left
    BY <1>16, <2>2, Zenon
  <2>4. (Inits' + Selfs') + Left <= (Inits + Selfs) + Left
    BY <1>9, <1>16, <2>1, Zenon
  <2> QED
    BY <1>9, <2>3, <2>4
<1>18. M + Owed' <= L + Owed
  <2>1. \A l, m, o, o2 \in Nat : m <= l + 1 /\ o = 1 + o2 => m + o2 <= l + o
    OBVIOUS
  <2> QED
    BY <1>10, <1>11, <1>12, <1>16, <2>1, Zenon
<1>19. (M + Debt' + Tokens') + Left <= (L + Debt + Tokens) + Left'
  <2>1. \A l, m, d, d2, t, t2, b \in Nat :
          m <= l + 1 /\ d2 + 1 <= d /\ t2 <= t => (m + d2 + t2) + b <= (l + d + t) + b
    OBVIOUS
  <2>2. (M + Debt' + Tokens') + Left <= (L + Debt + Tokens) + Left
    BY <1>9, <1>10, <1>11, <1>12, <1>16, <2>1, Zenon
  <2> QED
    BY <1>9, <2>2
<1>20. \A k \in B : \E j \in A : (M - k) + Debt' + Left <= (L - j) + Debt + Left'
  <2> TAKE k \in B
  <2>1. \A l, m, d, d2, n, b \in Nat : m <= l + 1 /\ d2 + 1 <= d => (m - n) + d2 + b <= (l - n) + d + b
    OBVIOUS
  <2>2. k \in Nat /\ k \in A
    BY <1>13
  <2>3. (M - k) + Debt' + Left <= (L - k) + Debt + Left
    BY <1>9, <1>10, <1>11, <1>12, <1>16, <2>1, <2>2, Zenon
  <2> QED
    BY <1>9, <2>2, <2>3
<1>21. Looks' + Reads' + Posts' + Frees' + gAttflag' <= Looks + Reads + Posts + Frees + gAttflag
  BY <1>9, <1>12
<1>22. ~Asking /\ at # "warn" =>
         /\ (Len(toParent') + Debt' + Tokens') + Left <= (Len(toParent) + Debt + Tokens) + Left'
         /\ \A k \in Where(toParent', "READ_ATTLOG") :
              \E j \in Where(toParent, "READ_ATTLOG") :
                (Len(toParent') - k) + Debt' + Left <= (Len(toParent) - j) + Debt + Left'
  BY <1>19, <1>20 DEF A, B, L, M
<1>23. Asking => /\ (Waiting' <=> Waiting) /\ Owed' <= Owed
                 /\ Len(toParent') + Owed' <= Len(toParent) + Owed
                 /\ (Waiting => Len(toParent') <= Len(toParent))
  BY <1>3, <1>9, <1>18 DEF L, M
<1>24. (\A j \in Where(toParent, "READ_ATTLOG") : j \in Nat) /\ (\A k \in Where(toParent', "READ_ATTLOG") : k \in Nat)
  BY <1>13 DEF A, B
<1> QED
  BY <1>2, <1>3, <1>9, <1>14, <1>15, <1>17, <1>21, <1>22, <1>23, <1>24, BudgetKept

\* A question is written: the child waits from here on.
LEMMA BudgetRequest ==
  ASSUME Typed, Typed', Budget, ChildTell, Do("request")
  PROVE  Budget'
<1>1. Cells /\ TodoForm(todo) /\ toParent \in Seq(ToParent)
  BY DEF Typed, Forms, Cells
<1> USE DEF flags, mailbox, pipes, child, main, history
<1>2. /\ at' = at /\ serving' = serving /\ commands' = commands /\ copy' = copy /\ flag' = flag
      /\ toChild' = toChild /\ gAttflag' = gAttflag
      /\ toParent' = Put(toParent, <<Head(todo).arg>>, ParentCap)
  BY DEF ChildTell
<1>3. /\ todo # <<>> /\ Head(todo).op = "request" /\ Head(todo) \in ChildOp
      /\ Asking /\ Asking' /\ ~Waiting /\ Waiting'
  BY <1>1, DoCounts
<1>4. Head(todo).arg \in Questions /\ Head(todo).arg \in ToParent /\ Head(todo).arg # "READ_ATTLOG"
  BY <1>3, OpTypes DEF ToParent, Questions
<1>5. Posts' = Posts /\ Inits' = Inits
  BY <1>2 DEF Posts, Inits
<1>6. Posts \in Nat /\ gAttflag \in Nat /\ Inits \in Nat
  BY AmountsNow DEF Amounts
<1>7. /\ Posts <= Posts /\ Inits <= Inits + One(Head(todo) = Self)
      /\ gAttflag <= gAttflag + One(Head(todo) = FreeIt)
  <2>1. \A b : One(b) \in Nat
    BY DEF One
  <2>2. \A n \in Nat : n <= n
    OBVIOUS
  <2>3. \A n, m \in Nat : n <= n + m
    OBVIOUS
  <2>4. Posts <= Posts
    BY <1>6, <2>2, Zenon
  <2>5. Inits <= Inits + One(Head(todo) = Self)
    BY <1>6, <2>1, <2>3, Zenon
  <2>6. gAttflag <= gAttflag + One(Head(todo) = FreeIt)
    BY <1>6, <2>1, <2>3, Zenon
  <2> QED
    BY <2>4, <2>5, <2>6
<1>8. Offline' => Offline
  <2>1. Head(todo) # Connect /\ Head(todo) # Cut
    BY <1>3, ConnectOps
  <2>2. Effective' = Effective
    BY <1>2 DEF Effective
  <2> QED
    BY <1>1, <2>1, <2>2, OfflineDo
<1>9. /\ Amounts /\ Amounts' /\ Left' = Left /\ Owed' <= Owed /\ Inits' + Selfs' <= Inits + Selfs
      /\ Looks + Reads' + Posts' + Frees' + gAttflag' <= Looks + Reads + Posts + Frees + gAttflag
  BY <1>2, <1>5, <1>7, <1>8, DoAmounts
<1> DEFINE L == Len(toParent)
           M == Len(toParent')
<1>10. L \in Nat /\ M \in Nat /\ M <= L + 1 /\ Looks' = Looks
  <2> DEFINE a == Head(todo).arg
             u == toParent \o <<a>>
  <2>1. toParent \in Seq(ToParent) /\ a \in ToParent
    BY <1>1, <1>4
  <2>2. /\ toParent' = toParent \/ toParent' = u
        /\ L \in Nat /\ Len(u) = L + 1
    BY <1>2, <2>1, PutCounts
  <2>3. \A x : Num(u, x) = Num(toParent, x) + One(a = x)
    BY <2>1, PutCounts, SMT
  <2>a. a # "READ_ATTLOG"
    BY <1>4
  <2> HIDE DEF u, a
  <2>4. Num(u, "READ_ATTLOG") = Num(toParent, "READ_ATTLOG") + 0
    BY <2>3, <2>a DEF One
  <2>5. CASE toParent' = toParent
    BY <2>2, <2>5 DEF Looks
  <2>6. CASE toParent' = u
    <3>1. Looks' = Looks + 0 /\ Looks \in Nat
      BY <1>9, <2>4, <2>6 DEF Looks, Amounts
    <3> QED
      BY <2>2, <2>6, <3>1
  <2> QED
    BY <2>2, <2>5, <2>6
<1>11. /\ Left \in Nat /\ Owed' \in Nat /\ Owed \in Nat /\ Inits' \in Nat /\ Selfs' \in Nat /\ Inits \in Nat
       /\ Selfs \in Nat /\ Looks \in Nat /\ Reads \in Nat /\ Posts \in Nat /\ Frees \in Nat /\ gAttflag \in Nat
       /\ Reads' \in Nat /\ Posts' \in Nat /\ Frees' \in Nat /\ gAttflag' \in Nat
  BY <1>9 DEF Amounts
<1> HIDE DEF L, M
<1>12. Inits' + Selfs' <= Left'
  <2>1. Inits + Selfs <= Left
    BY DEF Budget
  <2>2. \A i, s, i2, s2, l \in Nat : i + s <= l /\ i2 + s2 <= i + s => i2 + s2 <= l
    OBVIOUS
  <2>3. Inits' + Selfs' <= Left
    BY <1>9, <1>11, <2>1, <2>2, Zenon
  <2> QED
    BY <1>9, <2>3
<1>13. Looks' + Reads' + Posts' + Frees' + gAttflag' <= 1
  <2>1. Looks + Reads + Posts + Frees + gAttflag <= 1
    BY DEF Budget
  <2>2. Looks + Reads + Posts + Frees + gAttflag \in Int
    BY <1>11, FiveSum, Zenon
  <2>3. Looks + Reads' + Posts' + Frees' + gAttflag' \in Int
    BY <1>11, FiveSum, Zenon
  <2>4. Looks + Reads' + Posts' + Frees' + gAttflag' <= 1
    BY <1>9, <2>1, <2>2, <2>3, AtMost, Zenon
  <2> QED
    BY <1>10, <2>4
<1>14. Owed' <= 1
  <2>1. Owed <= 1
    BY <1>3 DEF Budget
  <2>2. \A o, o2 \in Nat : o <= 1 /\ o2 <= o => o2 <= 1
    OBVIOUS
  <2> QED
    BY <1>9, <1>11, <2>1, <2>2, Zenon
<1>15. M <= 7 + Left'
  <2>1. L + Owed + 1 <= 7 + Left
    BY <1>3 DEF Budget, L
  <2>2. \A m, l, o, b \in Nat : l + o + 1 <= 7 + b /\ m <= l + 1 => m <= 7 + b
    OBVIOUS
  <2>3. M <= 7 + Left
    BY <1>10, <1>11, <2>1, <2>2, Zenon
  <2> QED
    BY <1>9, <2>3
<1> QED
  BY <1>3, <1>12, <1>13, <1>14, <1>15 DEF Budget, M

-----------------------------------------------------------------------------

\* While the parent is calm the debts are few.
LEMMA CalmSum ==
  ASSUME NEW o \in Nat, NEW f \in Nat, NEW i \in Nat, NEW s \in Nat, NEW l \in Nat, f <= 1, i + s <= l
  PROVE  o + f + i + s + 2 + 0 + 0 <= o + 3 + l
OBVIOUS

LEMMA CalmNow ==
  Typed /\ Calm /\ Inits + Selfs <= Left /\ Looks + Reads + Posts + Frees + gAttflag <= 1 =>
    Tokens <= 2 /\ Debt <= Owed + 3 + Left
<1> SUFFICES ASSUME Typed, Calm, Inits + Selfs <= Left, Looks + Reads + Posts + Frees + gAttflag <= 1
             PROVE  Tokens <= 2 /\ Debt <= Owed + 3 + Left
  OBVIOUS
<1>1. ServingForm(serving) /\ serving \notin LookForms /\ copy["parent"] = <<>>
  BY DEF Typed, Forms, Calm
<1>2. Num(serving, SetCmd) = 0 /\ Num(serving, ClearCmd) = 0 /\ Num(serving, ReadIt) = 0
  BY <1>1, ServingCounts
<1>3. Reads = 0 /\ Loads = 0 /\ One(Wrong) = 0
  BY <1>1, <1>2 DEF Reads, Loads, Wrong, One
<1>4. Amounts
  BY AmountsNow
<1>5. /\ Owed \in Nat /\ One(Offline) \in Nat /\ One(Offline) <= 1 /\ Inits \in Nat /\ Selfs \in Nat /\ Left \in Nat
      /\ Looks \in Nat /\ Posts \in Nat /\ Frees \in Nat /\ gAttflag \in Nat
  BY <1>4 DEF Amounts
<1>6. Tokens <= 2
  <2>1. \A k, p, f, g \in Nat : k + 0 + p + f + g <= 1 => 2 * (0 + p) + f + g <= 2
    OBVIOUS
  <2>2. Looks + 0 + Posts + Frees + gAttflag <= 1
    BY <1>3
  <2>3. 2 * (0 + Posts) + Frees + gAttflag <= 2
    BY <1>5, <2>1, <2>2, Zenon
  <2> QED
    BY <1>3, <2>3 DEF Tokens
<1>7. Debt <= Owed + 3 + Left
  <2>1. Owed + One(Offline) + Inits + Selfs + 2 + 0 + 0 <= Owed + 3 + Left
    BY <1>5, CalmSum, Zenon
  <2> QED
    BY <1>3, <2>1 DEF Debt
<1> QED
  BY <1>6, <1>7

LEMMA CalmNext ==
  (Typed /\ Calm /\ Inits + Selfs <= Left /\ Looks + Reads + Posts + Frees + gAttflag <= 1)' =>
    (Tokens <= 2 /\ Debt <= Owed + 3 + Left)'
BY CalmNow, PTL

\* The child goes on behind its question: the parent has read everything.
LEMMA BudgetAwait ==
  ASSUME Typed, Typed', Exchange, Budget, ChildAwait
  PROVE  Budget'
<1>1. Cells /\ TodoForm(todo)
  BY DEF Typed, Forms
<1> USE DEF flags, mailbox, pipes, child, main, history
<1>2. /\ at' = at /\ serving' = serving /\ commands' = commands /\ copy' = copy /\ flag' = flag
      /\ toChild' = toChild /\ gAttflag' = gAttflag /\ toParent' = toParent
      /\ Do("await") /\ over
  BY DEF ChildAwait
<1>3. /\ todo # <<>> /\ Head(todo).op = "await" /\ Head(todo) \in ChildOp
      /\ Asking /\ Waiting
  BY <1>1, <1>2, DoCounts
<1>5. Posts' = Posts /\ Inits' = Inits /\ Looks' = Looks
  BY <1>2 DEF Posts, Inits, Looks
<1>6. Posts \in Nat /\ gAttflag \in Nat /\ Inits \in Nat
  BY AmountsNow DEF Amounts
<1>7. /\ Posts <= Posts /\ Inits <= Inits + One(Head(todo) = Self)
      /\ gAttflag <= gAttflag + One(Head(todo) = FreeIt)
  <2>1. \A b : One(b) \in Nat
    BY DEF One
  <2>2. \A n \in Nat : n <= n
    OBVIOUS
  <2>3. \A n, m \in Nat : n <= n + m
    OBVIOUS
  <2>4. Posts <= Posts
    BY <1>6, <2>2, Zenon
  <2>5. Inits <= Inits + One(Head(todo) = Self)
    BY <1>6, <2>1, <2>3, Zenon
  <2>6. gAttflag <= gAttflag + One(Head(todo) = FreeIt)
    BY <1>6, <2>1, <2>3, Zenon
  <2> QED
    BY <2>4, <2>5, <2>6
<1>8. Offline' => Offline
  <2>1. Head(todo) # Connect /\ Head(todo) # Cut
    BY <1>3, ConnectOps
  <2>2. Effective' = Effective
    BY <1>2 DEF Effective
  <2> QED
    BY <1>1, <1>2, <2>1, <2>2, OfflineDo
<1>9. /\ Amounts /\ Amounts' /\ Left' = Left /\ Owed' <= Owed /\ Inits' + Selfs' <= Inits + Selfs
      /\ Debt' \in Nat /\ Tokens' \in Nat
      /\ Looks + Reads' + Posts' + Frees' + gAttflag' <= Looks + Reads + Posts + Frees + gAttflag
  BY <1>2, <1>5, <1>7, <1>8, DoAmounts
<1>10. toParent' = <<>> /\ Len(toParent') = 0 /\ Calm'
  <2>1. toParent = <<>> /\ Calm
    BY <1>2, <1>3 DEF Exchange
  <2> QED
    BY <1>2, <2>1 DEF Calm
<1>11. /\ Left \in Nat /\ Owed' \in Nat /\ Owed \in Nat /\ Inits' \in Nat /\ Selfs' \in Nat /\ Inits \in Nat
       /\ Selfs \in Nat /\ Looks \in Nat /\ Reads \in Nat /\ Posts \in Nat /\ Frees \in Nat /\ gAttflag \in Nat
       /\ Reads' \in Nat /\ Posts' \in Nat /\ Frees' \in Nat /\ gAttflag' \in Nat
  BY <1>9 DEF Amounts
<1>12. Inits' + Selfs' <= Left'
  <2>1. Inits + Selfs <= Left
    BY DEF Budget
  <2>2. \A i, s, i2, s2, l \in Nat : i + s <= l /\ i2 + s2 <= i + s => i2 + s2 <= l
    OBVIOUS
  <2>3. Inits' + Selfs' <= Left
    BY <1>9, <1>11, <2>1, <2>2, Zenon
  <2> QED
    BY <1>9, <2>3
<1>13. Looks' + Reads' + Posts' + Frees' + gAttflag' <= 1
  <2>1. Looks + Reads + Posts + Frees + gAttflag <= 1
    BY DEF Budget
  <2>2. Looks + Reads + Posts + Frees + gAttflag \in Int
    BY <1>11, FiveSum, Zenon
  <2>3. Looks + Reads' + Posts' + Frees' + gAttflag' \in Int
    BY <1>11, FiveSum, Zenon
  <2>4. Looks + Reads' + Posts' + Frees' + gAttflag' <= 1
    BY <1>9, <2>1, <2>2, <2>3, AtMost, Zenon
  <2> QED
    BY <1>5, <2>4
<1>14. Owed' <= 1
  <2>1. Owed <= 1
    BY <1>3 DEF Budget
  <2>2. \A o, o2 \in Nat : o <= 1 /\ o2 <= o => o2 <= 1
    OBVIOUS
  <2> QED
    BY <1>9, <1>11, <2>1, <2>2, Zenon
<1>15. 0 <= 7 + Left' /\ 0 + Owed' + 1 <= 7 + Left' /\ 0 + Debt' + Tokens' <= 7 + Left'
  <2>1. \A o, l, d, t \in Nat : o <= 1 => 0 <= 7 + l /\ 0 + o + 1 <= 7 + l
    OBVIOUS
  <2>2. Tokens' <= 2 /\ Debt' <= Owed' + 3 + Left'
    BY <1>10, <1>12, <1>13, CalmNext
  <2>3. \A o, l, d, t \in Nat : o <= 1 /\ t <= 2 /\ d <= o + 3 + l => 0 + d + t <= 7 + l
    OBVIOUS
  <2>4. Debt' <= Owed' + 3 + Left
    BY <1>9, <2>2
  <2>5. 0 + Debt' + Tokens' <= 7 + Left
    BY <1>9, <1>11, <1>14, <2>2, <2>3, <2>4, Zenon
  <2>6. 0 <= 7 + Left /\ 0 + Owed' + 1 <= 7 + Left
    BY <1>9, <1>11, <1>14, <2>1, Zenon
  <2> QED
    BY <1>9, <2>5, <2>6
<1>16. Where(toParent', "READ_ATTLOG") = {}
  BY <1>10 DEF Where
<1> QED
  BY <1>10, <1>12, <1>13, <1>14, <1>15, <1>16 DEF Budget

\* The child's own write of running_flag.
LEMMA BudgetChildStore ==
  ASSUME Typed, Typed', Budget, Store("child")
  PROVE  Budget'
<1>1. Cells
  BY DEF Typed
<1> USE DEF flags, mailbox, pipes, child, main, history
<1>2. /\ todo' = todo /\ at' = at /\ toParent' = toParent /\ toChild' = toChild /\ serving' = serving
      /\ gAttflag' = gAttflag /\ commands' = commands
      /\ copy["child"] # <<>> /\ flag' = copy["child"][1]
      /\ copy'["child"] = <<>> /\ copy'["parent"] = copy["parent"]
  BY <1>1 DEF Store, Cells, Threads
<1>3. Posts' = Posts /\ Inits' = Inits /\ Left' = Left /\ Reads' = Reads /\ Loads' = Loads
      /\ Sets' = Sets /\ Cuts' = Cuts /\ Effective' = Effective
  BY <1>2 DEF Posts, Inits, Left, Reads, Loads, Sets, Cuts, Effective
<1>4. One(Offline') = One(Offline) /\ One(Wrong') = One(Wrong)
  BY <1>2, <1>3 DEF One, Offline, Wrong
<1>5. Calm => Calm'
  BY <1>2 DEF Calm
<1>6. Amounts
  BY AmountsNow
<1>7. /\ Posts \in Nat /\ gAttflag \in Nat /\ Reads \in Nat /\ Loads \in Nat /\ Inits \in Nat /\ Left \in Nat
      /\ One(Offline) \in Nat /\ One(Wrong) \in Nat
  BY <1>6 DEF Amounts
<1>8. /\ Reads + Posts + gAttflag <= Reads + Posts + gAttflag
      /\ 2 * (Reads + Posts) + gAttflag <= 2 * (Reads + Posts) + gAttflag
      /\ Inits + Left <= Inits + Left /\ Left <= Left
      /\ One(Offline) + Loads + One(Wrong) <= One(Offline) + Loads + One(Wrong)
  <2>1. \A r, p, g, i, l \in Nat : /\ r + p + g <= r + p + g /\ 2 * (r + p) + g <= 2 * (r + p) + g
                                   /\ i + l <= i + l /\ l <= l
    OBVIOUS
  <2>2. \A f, lo, w \in Nat : f + lo + w <= f + lo + w
    OBVIOUS
  <2>3. One(Offline) + Loads + One(Wrong) <= One(Offline) + Loads + One(Wrong)
    BY <1>7, <2>2, Zenon
  <2>4. /\ Reads + Posts + gAttflag <= Reads + Posts + gAttflag
        /\ 2 * (Reads + Posts) + gAttflag <= 2 * (Reads + Posts) + gAttflag
        /\ Inits + Left <= Inits + Left /\ Left <= Left
    BY <1>7, <2>1, Zenon
  <2> QED
    BY <2>3, <2>4
<1> QED
  BY <1>2, <1>3, <1>4, <1>5, <1>8, BudgetParent

\* The child moves on in its loop.
LEMMA BudgetMoves ==
  ASSUME Budget, Top \/ Silence \/ Paused \/ UNCHANGED vars
  PROVE  Budget'
<1> USE DEF flags, mailbox, pipes, child, main, history
<1>1. /\ todo' = todo /\ toParent' = toParent /\ toChild' = toChild /\ serving' = serving
      /\ gAttflag' = gAttflag /\ commands' = commands /\ copy' = copy /\ flag' = flag
      /\ at' = at \/ (at # "warn" /\ at' \notin {"warn", "due"})
  BY DEF Top, Silence, Paused, vars
<1>2. /\ Inits' = Inits /\ Selfs' = Selfs /\ Left' = Left /\ Looks' = Looks /\ Reads' = Reads /\ Posts' = Posts
      /\ Frees' = Frees /\ (Asking' <=> Asking) /\ (Waiting' <=> Waiting) /\ Owed' = Owed
  BY <1>1 DEF Inits, Selfs, Left, Looks, Reads, Posts, Frees, Asking, Waiting, Owed
<1>3. (Calm' <=> Calm) /\ Debt' = Debt /\ Tokens' = Tokens
  <2>1. Offline' = Offline /\ Wrong' = Wrong /\ Loads' = Loads
    BY <1>1 DEF Offline, Sets, Cuts, Effective, Wrong, Loads
  <2>2. Calm' <=> Calm
    BY <1>1 DEF Calm
  <2> QED
    BY <1>1, <1>2, <2>1, <2>2 DEF Debt, Tokens
<1> QED
  BY <1>1, <1>2, <1>3 DEF Budget

-----------------------------------------------------------------------------
(* What the child does next.                                                *)

LEMMA StartDebt ==
  ASSUME NEW o \in Nat, NEW f \in Nat, NEW f2 \in Nat, NEW i \in Nat, NEW i2 \in Nat,
         NEW lo \in Nat, NEW w \in Nat, f2 + i2 <= f + i
  PROVE  o + f2 + i2 + 0 + 2 + lo + w <= (0 + f + i + 0 + 2 + lo + w) + o
OBVIOUS

LEMMA StartTokens ==
  ASSUME NEW o \in Nat, NEW r \in Nat, NEW p \in Nat, NEW p2 \in Nat, NEW e \in Nat, NEW g \in Nat,
         o <= e, p2 + e <= p
  PROVE  o + (2 * (r + p2) + e + g) <= 2 * (r + p) + 0 + g
OBVIOUS

LEMMA StartSum ==
  ASSUME NEW m \in Nat, NEW a \in Nat, NEW b \in Nat, NEW c \in Nat, NEW d \in Nat, NEW o \in Nat, NEW l \in Nat,
         a <= b + o, o + c <= d, m + b + d <= 7 + l
  PROVE  m + a + c <= 7 + l
OBVIOUS

\* Nothing is counted of a child that is free.
LEMMA FreeCounts ==
  ASSUME todo = <<>>
  PROVE  Owed = 0 /\ Selfs = 0 /\ Frees = 0 /\ Sets = 0 /\ Cuts = 0 /\ ~Asking /\ ~Waiting
<1>1. Owed = 0 /\ Selfs = 0 /\ Frees = 0 /\ Sets = 0 /\ Cuts = 0
  BY PartCounts DEF Owed, Selfs, Frees, Sets, Cuts
<1> QED
  BY <1>1 DEF Asking, Occurs, Waiting

LEMMA BudgetStarts ==
  ASSUME Typed, Typed', Budget, todo = <<>>, at # "warn", at' \notin {"warn", "due"},
         toParent' = toParent, serving' = serving, copy' = copy, gAttflag' = gAttflag, commands' = commands,
         ~Asking', Selfs' = 0, Owed' <= Frees', Posts' + Frees' <= Posts, Inits' <= Inits,
         One(Offline') + Inits' <= One(Offline) + Inits
  PROVE  Budget'
<1>1. toParent \in Seq(ToParent)
  BY DEF Typed, Cells
<1>2. Owed = 0 /\ Selfs = 0 /\ Frees = 0 /\ ~Asking
  BY FreeCounts
<1>3. Left' = Left /\ Looks' = Looks /\ Reads' = Reads /\ Loads' = Loads /\ One(Wrong') = One(Wrong)
  BY DEF Left, Looks, Reads, Loads, Wrong, One
<1>4. Amounts /\ Amounts'
  BY AmountsNow, AmountsNext
<1>5. /\ Len(toParent) \in Nat /\ Owed' \in Nat /\ One(Offline) \in Nat /\ One(Offline') \in Nat
      /\ Inits \in Nat /\ Inits' \in Nat /\ Loads \in Nat /\ One(Wrong) \in Nat /\ Reads \in Nat
      /\ Posts \in Nat /\ Posts' \in Nat /\ Frees' \in Nat /\ gAttflag \in Nat /\ Left \in Nat /\ Looks \in Nat
  BY <1>4 DEF Amounts
<1> DEFINE L == Len(toParent)
<1>6. /\ Inits + 0 <= Left
      /\ Looks + Reads + Posts + 0 + gAttflag <= 1
      /\ L + (0 + One(Offline) + Inits + 0 + 2 + Loads + One(Wrong)) + (2 * (Reads + Posts) + 0 + gAttflag) <= 7 + Left
      /\ \A k \in Where(toParent, "READ_ATTLOG") :
           (L - k) + (0 + One(Offline) + Inits + 0 + 2 + Loads + One(Wrong)) + 4 <= 7 + Left
  BY <1>2 DEF Budget, Debt, Tokens
<1> HIDE DEF L
<1>7. Inits' + Selfs' <= Left'
  <2>1. \A i, i2, l \in Nat : i + 0 <= l /\ i2 <= i => i2 + 0 <= l
    OBVIOUS
  <2>2. Inits' + 0 <= Left
    BY <1>5, <1>6, <2>1, Zenon
  <2> QED
    BY <1>3, <2>2
<1>8. Looks' + Reads' + Posts' + Frees' + gAttflag' <= 1
  <2>1. \A k, r, p, p2, e, g \in Nat : k + r + p + 0 + g <= 1 /\ p2 + e <= p => k + r + p2 + e + g <= 1
    OBVIOUS
  <2>2. Looks + Reads + Posts' + Frees' + gAttflag <= 1
    BY <1>5, <1>6, <2>1, Zenon
  <2> QED
    BY <1>3, <2>2
<1>9. L + Debt' + Tokens' <= 7 + Left'
  <2> DEFINE d == 0 + One(Offline) + Inits + 0 + 2 + Loads + One(Wrong)
             d2 == Owed' + One(Offline') + Inits' + 0 + 2 + Loads + One(Wrong)
             t == 2 * (Reads + Posts) + 0 + gAttflag
             t2 == 2 * (Reads + Posts') + Frees' + gAttflag
  <2>1. d2 <= d + Owed'
    BY <1>5, StartDebt, Zenon
  <2>2. Owed' + t2 <= t
    BY <1>5, StartTokens, Zenon
  <2>3. L + d + t <= 7 + Left
    BY <1>6
  <2>4. d = Debt /\ d2 = Debt' /\ t = Tokens /\ t2 = Tokens'
    BY <1>2, <1>3 DEF Debt, Tokens
  <2>5. d \in Nat /\ d2 \in Nat /\ t \in Nat /\ t2 \in Nat /\ L \in Nat
    <3>1. Debt \in Nat /\ Debt' \in Nat /\ Tokens \in Nat /\ Tokens' \in Nat
      BY <1>4, DebtsNow, DebtsNext
    <3> HIDE DEF d, d2, t, t2
    <3> QED
      BY <1>5, <2>4, <3>1 DEF L
  <2> HIDE DEF d, d2, t, t2
  <2>6. L + d2 + t2 <= 7 + Left
    BY <1>5, <2>1, <2>2, <2>3, <2>5, StartSum, Zenon
  <2> QED
    BY <1>3, <2>4, <2>6
<1>10. ASSUME NEW k \in Where(toParent, "READ_ATTLOG")
       PROVE  (L - k) + Debt' + 4 <= 7 + Left'
  <2>1. Looks # 0
    <3>1. Num(toParent, "READ_ATTLOG") = 0 <=> Where(toParent, "READ_ATTLOG") = {}
      BY <1>1, WhereIs, Zenon
    <3> QED
      BY <3>1, <1>10 DEF Looks
  <2>2. Posts = 0
    <3>1. \A a, r, p, g \in Nat : a # 0 /\ a + r + p + 0 + g <= 1 => p = 0
      OBVIOUS
    <3> QED
      BY <1>5, <1>6, <2>1, <3>1, Zenon
  <2>3. Owed' = 0
    <3>1. \A p, e, o \in Nat : o <= e /\ p + e <= 0 => o = 0
      OBVIOUS
    <3>2. Posts' + Frees' <= 0
      BY <2>2
    <3> QED
      BY <1>5, <3>1, <3>2, Zenon
  <2>4. k \in Nat /\ L \in Nat
    BY <1>1, <1>10, <1>5 DEF Where, L
  <2> DEFINE d == 0 + One(Offline) + Inits + 0 + 2 + Loads + One(Wrong)
             d2 == 0 + One(Offline') + Inits' + 0 + 2 + Loads + One(Wrong)
  <2>5. d2 <= d + 0
    <3>1. 0 \in Nat
      OBVIOUS
    <3> QED
      BY <1>5, <3>1, StartDebt, Zenon
  <2>6. (L - k) + d + 4 <= 7 + Left
    BY <1>6, <1>10
  <2>7. d = Debt /\ d2 = Debt' /\ Left' = Left
    BY <1>2, <1>3, <2>3 DEF Debt
  <2>8. d \in Int /\ d2 \in Int
    <3>1. Debt \in Nat /\ Debt' \in Nat
      BY <1>4, DebtsNow, DebtsNext
    <3> HIDE DEF d, d2
    <3> QED
      BY <2>7, <3>1
  <2> HIDE DEF d, d2
  <2>9. \A m, n, a, b, l \in Int : a <= b + 0 /\ (m - n) + b + 4 <= 7 + l => (m - n) + a + 4 <= 7 + l
    OBVIOUS
  <2>10. k \in Int /\ L \in Int /\ Left \in Int
    BY <1>5, <2>4
  <2>11. (L - k) + d2 + 4 <= 7 + Left
    BY <2>5, <2>6, <2>8, <2>9, <2>10, Zenon
  <2> QED
    BY <2>7, <2>11
<1> QED
  BY <1>7, <1>8, <1>9, <1>10 DEF Budget, L

LEMMA OutDebt ==
  ASSUME NEW o \in Nat, NEW f \in Nat, NEW f2 \in Nat, NEW i \in Nat, NEW s \in Nat,
         NEW lo \in Nat, NEW w \in Nat, NEW n \in Nat, o + f2 + s <= f + n
  PROVE  o + f2 + i + s + 2 + lo + w <= (0 + f + i + 0 + 2 + lo + w) + n
OBVIOUS

LEMMA OutNow ==
  ASSUME Owed' \in Nat, One(Offline) \in Nat, One(Offline') \in Nat, Inits \in Nat, Selfs' \in Nat, Loads \in Nat,
         One(Wrong) \in Nat, NEW n \in Nat, Owed' + One(Offline') + Selfs' <= One(Offline) + n
  PROVE  Owed' + One(Offline') + Inits + Selfs' + 2 + Loads + One(Wrong)
           <= (0 + One(Offline) + Inits + 0 + 2 + Loads + One(Wrong)) + n
BY OutDebt, Zenon

LEMMA DebtTwo ==
  ASSUME NEW f \in Nat, NEW i \in Nat, NEW lo \in Nat, NEW w \in Nat
  PROVE  2 <= 0 + f + i + 0 + 2 + lo + w
OBVIOUS

\* The child sets out, and n disturbances pay for what it may write.
LEMMA BudgetSetsOut ==
  ASSUME Typed, Typed', Budget, todo = <<>>, at # "warn",
         toParent' = toParent, toChild' = toChild, serving' = serving, copy' = copy, gAttflag' = gAttflag,
         NEW n \in Nat, Left' = Left + n, ~Waiting', Frees' = 0, Owed' <= 1, Selfs' <= n,
         \/ at' = "warn" /\ Asking'
         \/ at' \notin {"warn", "due"} /\ Owed' + One(Offline') + Selfs' <= One(Offline) + n
  PROVE  Budget'
<1>1. toParent \in Seq(ToParent)
  BY DEF Typed, Cells
<1>2. Owed = 0 /\ Selfs = 0 /\ Frees = 0 /\ ~Asking
  BY FreeCounts
<1>3. Inits' = Inits /\ Posts' = Posts /\ Looks' = Looks /\ Reads' = Reads /\ Loads' = Loads
      /\ One(Wrong') = One(Wrong)
  BY DEF Inits, Posts, Looks, Reads, Loads, Wrong, One
<1>4. /\ Amounts /\ Amounts' /\ Debt \in Nat /\ Debt' \in Nat /\ Tokens \in Nat /\ Tokens' \in Nat
  BY AmountsNow, AmountsNext, DebtsNow, DebtsNext
<1>5. /\ Len(toParent) \in Nat /\ Owed' \in Nat /\ One(Offline) \in Nat /\ One(Offline') \in Nat
      /\ Inits \in Nat /\ Loads \in Nat /\ One(Wrong) \in Nat /\ Selfs' \in Nat /\ Left \in Nat
  BY <1>4 DEF Amounts
<1> DEFINE L == Len(toParent)
<1>6. /\ Inits + 0 <= Left
      /\ Looks + Reads + Posts + Frees + gAttflag <= 1
      /\ L + Debt + Tokens <= 7 + Left
      /\ \A k \in Where(toParent, "READ_ATTLOG") : (L - k) + Debt + 4 <= 7 + Left
  BY <1>2 DEF Budget
<1>7. Tokens' = Tokens
  BY <1>2, <1>3 DEF Tokens
<1>8. Inits' + Selfs' <= Left'
  <2>1. \A i, s, l, m \in Nat : i + 0 <= l /\ s <= m => i + s <= l + m
    OBVIOUS
  <2>2. Inits + Selfs' <= Left + n
    BY <1>5, <1>6, <2>1, Zenon
  <2> QED
    BY <1>3, <2>2
<1>9. Looks' + Reads' + Posts' + Frees' + gAttflag' <= 1
  BY <1>2, <1>3, <1>6
<1>10. L + Owed' + 1 <= 7 + Left'
  <2>1. 2 <= 0 + One(Offline) + Inits + 0 + 2 + Loads + One(Wrong)
    BY <1>5, DebtTwo, Zenon
  <2>2. 2 <= Debt
    BY <1>2, <2>1 DEF Debt
  <2>3. \A m, d, t, l, o, a \in Nat : m + d + t <= 7 + l /\ 2 <= d /\ o <= 1 => m + o + 1 <= 7 + (l + a)
    OBVIOUS
  <2>4. L \in Nat
    BY <1>5
  <2> HIDE DEF L
  <2>5. L + Owed' + 1 <= 7 + (Left + n)
    BY <1>4, <1>5, <1>6, <2>2, <2>3, <2>4, Zenon
  <2> QED
    BY <2>5
<1>11. ASSUME ~Asking'
       PROVE  /\ at' \notin {"warn", "due"}
              /\ L + Debt' + Tokens' <= 7 + Left'
              /\ \A k \in Where(toParent, "READ_ATTLOG") : (L - k) + Debt' + 4 <= 7 + Left'
  <2>1. at' \notin {"warn", "due"} /\ Owed' + One(Offline') + Selfs' <= One(Offline) + n
    BY <1>11
  <2>2. Debt' <= Debt + n
    <3>1. Owed' + One(Offline') + Inits + Selfs' + 2 + Loads + One(Wrong)
            <= (0 + One(Offline) + Inits + 0 + 2 + Loads + One(Wrong)) + n
      BY <1>5, <2>1, OutNow
    <3> QED
      BY <1>2, <1>3, <3>1 DEF Debt
  <2>3. L \in Nat
    BY <1>5
  <2> HIDE DEF L
  <2>4. L + Debt' + Tokens <= 7 + (Left + n)
    <3>1. \A m, d, d2, t, l, a \in Nat : m + d + t <= 7 + l /\ d2 <= d + a => m + d2 + t <= 7 + (l + a)
      OBVIOUS
    <3> QED
      BY <1>4, <1>5, <1>6, <2>2, <2>3, <3>1, Zenon
  <2>5. ASSUME NEW k \in Where(toParent, "READ_ATTLOG") PROVE (L - k) + Debt' + 4 <= 7 + (Left + n)
    <3>1. \A m, k0, d, d2, l, a \in Nat :
            (m - k0) + d + 4 <= 7 + l /\ d2 <= d + a => (m - k0) + d2 + 4 <= 7 + (l + a)
      OBVIOUS
    <3>2. (L - k) + Debt + 4 <= 7 + Left
      BY <1>6, <2>5
    <3>3. k \in Nat
      BY <1>5, <2>5 DEF Where
    <3> QED
      BY <1>4, <1>5, <2>2, <2>3, <3>1, <3>2, <3>3, Zenon
  <2> QED
    BY <1>7, <2>1, <2>4, <2>5
<1>12. Asking' => Owed' <= 1
  OBVIOUS
<1> QED
  BY <1>8, <1>9, <1>10, <1>11 DEF Budget, L

\* Uploads, counted.
LEMMA UploadCounts ==
  ASSUME NEW s \in {<<SetCmd, TellIt, FreeIt, ClearCmd>>, <<SetCmd, FreeIt, ClearCmd>>}
  PROVE  /\ Num(s, TellIt) <= 1 /\ Num(s, FreeIt) = 1 /\ Num(s, Self) = 0 /\ Num(s, Connect) = 0 /\ Num(s, Cut) = 0
         /\ ~Occurs(s, "await")
<1>1. /\ SetCmd \notin {TellIt, FreeIt, Self, Connect, Cut} /\ ClearCmd \notin {TellIt, FreeIt, Self, Connect, Cut}
      /\ FreeIt \notin {TellIt, Self, Connect, Cut} /\ TellIt \notin {FreeIt, Self, Connect, Cut}
  <2>1. Connect.arg = "connect" /\ Cut.arg = "connect" /\ Self.op = "self" /\ Connect.op = "set" /\ Cut.op = "clear"
    BY DEF Connect, Cut, Self, Op
  <2> QED
    BY <2>1, OpNames
<1> DEFINE S == {SetCmd, TellIt, FreeIt, ClearCmd}
           s1 == <<ClearCmd>>
           s2 == <<FreeIt, ClearCmd>>
           s3 == <<TellIt, FreeIt, ClearCmd>>
           s4 == <<SetCmd, TellIt, FreeIt, ClearCmd>>
           s5 == <<SetCmd, FreeIt, ClearCmd>>
<1>2. /\ s1 \in Seq(S) /\ s1 # <<>> /\ Head(s1) = ClearCmd /\ Tail(s1) = <<>>
      /\ s2 \in Seq(S) /\ s2 # <<>> /\ Head(s2) = FreeIt /\ Tail(s2) = s1
      /\ s3 \in Seq(S) /\ s3 # <<>> /\ Head(s3) = TellIt /\ Tail(s3) = s2
      /\ s4 \in Seq(S) /\ s4 # <<>> /\ Head(s4) = SetCmd /\ Tail(s4) = s3
      /\ s5 \in Seq(S) /\ s5 # <<>> /\ Head(s5) = SetCmd /\ Tail(s5) = s2
  OBVIOUS
<1>3. \A o \in S : o.op # "await"
  BY OpNames
<1>4. s = s4 \/ s = s5
  OBVIOUS
<1> HIDE DEF s1, s2, s3, s4, s5, S
<1>5. ASSUME NEW u \in Seq(S), u # <<>> PROVE \A x : Num(u, x) = One(Head(u) = x) + Num(Tail(u), x)
  BY <1>5, NumTail, Zenon
<1>6. \A x : Num(s1, x) = One(ClearCmd = x) + Num(<<>>, x)
  <2>0. s1 \in Seq(S) /\ s1 # <<>>
    BY <1>2
  <2>1. \A x : Num(s1, x) = One(Head(s1) = x) + Num(Tail(s1), x)
    BY <1>5, <2>0
  <2> QED
    BY <1>2, <2>1, Zenon
<1>7. \A x : Num(s2, x) = One(FreeIt = x) + Num(s1, x)
  <2>0. s2 \in Seq(S) /\ s2 # <<>>
    BY <1>2
  <2>1. \A x : Num(s2, x) = One(Head(s2) = x) + Num(Tail(s2), x)
    BY <1>5, <2>0
  <2> QED
    BY <1>2, <2>1, Zenon
<1>8. \A x : Num(s3, x) = One(TellIt = x) + Num(s2, x)
  <2>0. s3 \in Seq(S) /\ s3 # <<>>
    BY <1>2
  <2>1. \A x : Num(s3, x) = One(Head(s3) = x) + Num(Tail(s3), x)
    BY <1>5, <2>0
  <2> QED
    BY <1>2, <2>1, Zenon
<1>9. \A x : Num(s4, x) = One(SetCmd = x) + Num(s3, x)
  <2>0. s4 \in Seq(S) /\ s4 # <<>>
    BY <1>2
  <2>1. \A x : Num(s4, x) = One(Head(s4) = x) + Num(Tail(s4), x)
    BY <1>5, <2>0
  <2> QED
    BY <1>2, <2>1, Zenon
<1>10. \A x : Num(s5, x) = One(SetCmd = x) + Num(s2, x)
  <2>0. s5 \in Seq(S) /\ s5 # <<>>
    BY <1>2
  <2>1. \A x : Num(s5, x) = One(Head(s5) = x) + Num(Tail(s5), x)
    BY <1>5, <2>0
  <2> QED
    BY <1>2, <2>1, Zenon
<1>11. Num(s1, TellIt) = 0 /\ Num(s1, FreeIt) = 0 /\ Num(s1, Self) = 0 /\ Num(s1, Connect) = 0 /\ Num(s1, Cut) = 0
  BY <1>1, <1>6, PartCounts DEF One
<1>12. Num(s2, TellIt) = 0 /\ Num(s2, FreeIt) = 1 /\ Num(s2, Self) = 0 /\ Num(s2, Connect) = 0 /\ Num(s2, Cut) = 0
  BY <1>1, <1>7, <1>11 DEF One
<1>13. Num(s3, TellIt) = 1 /\ Num(s3, FreeIt) = 1 /\ Num(s3, Self) = 0 /\ Num(s3, Connect) = 0 /\ Num(s3, Cut) = 0
  BY <1>1, <1>8, <1>12 DEF One
<1>14. Num(s4, TellIt) = 1 /\ Num(s4, FreeIt) = 1 /\ Num(s4, Self) = 0 /\ Num(s4, Connect) = 0 /\ Num(s4, Cut) = 0
  BY <1>1, <1>9, <1>13 DEF One
<1>15. Num(s5, TellIt) = 0 /\ Num(s5, FreeIt) = 1 /\ Num(s5, Self) = 0 /\ Num(s5, Connect) = 0 /\ Num(s5, Cut) = 0
  BY <1>1, <1>10, <1>12 DEF One
<1>16. ~Occurs(s, "await")
  <2>1. s \in Seq(S)
    BY <1>2, <1>4
  <2>2. \A i \in 1 .. Len(s) : s[i] \in S
    BY <2>1
  <2> QED
    BY <1>3, <2>2 DEF Occurs
<1> QED
  BY <1>4, <1>14, <1>15, <1>16

\* What a command sets out to do, counted.
LEMMA HeardCounts ==
  ASSUME Cells, Hear, NEW c, c = Head(toChild)
  PROVE  /\ ~Asking' /\ Selfs' = 0 /\ Sets' = 0
         /\ Owed' <= Frees'
         /\ c # "POST_ATT" => Frees' = 0 /\ Owed' = 0
         /\ c = "POST_ATT" => Frees' = 1
         /\ c # "RE_INIT" => Cuts' = 0
<1>1. \/ c \in WithType /\ todo' = <<Op("payload", c)>>
      \/ c = "RE_INIT" /\ todo' = Disconnect
      \/ c = "PAUSE" /\ todo' = <<Op("set", "pause")>>
      \/ c = "RESUME" /\ todo' = <<Op("clear", "pause")>>
      \/ c = "POST_ATT" /\ todo' \in {<<SetCmd, TellIt, FreeIt, ClearCmd>>, <<SetCmd, FreeIt, ClearCmd>>}
      \/ c = "byte" /\ todo' = <<>>
  BY Heard
<1>2. /\ TellIt.op = "tell" /\ FreeIt.op = "free" /\ Self.op = "self" /\ Connect.op = "set" /\ Cut.op = "clear"
      /\ Connect.arg = "connect" /\ Cut.arg = "connect"
  BY OpNames DEF Self, Connect, Cut, Op
<1>3. ASSUME NEW o \in ChildOp, todo' = <<o>>, o \notin {TellIt, FreeIt, Self, Connect}, o.op # "await"
      PROVE  /\ ~Asking' /\ Selfs' = 0 /\ Sets' = 0 /\ Owed' = 0 /\ Frees' = 0
             /\ o # Cut => Cuts' = 0
  <2>1. \A x : Num(todo', x) = One(o = x)
    BY <1>3, NumOne
  <2>2. Selfs' = 0 /\ Sets' = 0 /\ Owed' = 0 /\ Frees' = 0 /\ (o # Cut => Cuts' = 0)
    BY <1>3, <2>1 DEF Selfs, Sets, Owed, Frees, Cuts, One
  <2>3. Len(todo') = 1 /\ todo'[1] = o
    BY <1>3
  <2>4. \A i \in 1 .. Len(todo') : todo'[i] = o
    BY <2>3
  <2>5. ~Asking'
    BY <1>3, <2>4 DEF Asking, Occurs
  <2> QED
    BY <2>2, <2>5
<1>4. CASE c \in WithType /\ todo' = <<Op("payload", c)>>
  <2> DEFINE o == Op("payload", c)
  <2>1. o \in ChildOp /\ o.op = "payload"
    BY <1>4 DEF Op, ChildOp, AloneOp
  <2>2. todo' = <<o>>
    BY <1>4
  <2>3. c # "POST_ATT" /\ c # "RE_INIT"
    BY <1>4 DEF WithType
  <2> HIDE DEF o
  <2>4. o \notin {TellIt, FreeIt, Self, Connect, Cut} /\ o.op # "await"
    BY <1>2, <2>1
  <2>5. ~Asking' /\ Selfs' = 0 /\ Sets' = 0 /\ Owed' = 0 /\ Frees' = 0 /\ Cuts' = 0
    BY <1>3, <2>1, <2>2, <2>4
  <2> QED
    BY <2>3, <2>5
<1>5. CASE c = "RE_INIT" /\ todo' = Disconnect
  <2>1. todo' = <<Cut>> /\ Cut \in ChildOp
    BY <1>5, PartOps DEF Disconnect, Cut, PartOp
  <2>2. Cut \notin {TellIt, FreeIt, Self, Connect} /\ Cut.op # "await"
    BY <1>2
  <2>3. ~Asking' /\ Selfs' = 0 /\ Sets' = 0 /\ Owed' = 0 /\ Frees' = 0
    BY <1>3, <2>1, <2>2
  <2> QED
    BY <1>5, <2>3
<1>6. ASSUME NEW w \in {"set", "clear"}, todo' = <<Op(w, "pause")>>, c \in {"PAUSE", "RESUME"}
      PROVE  ~Asking' /\ Selfs' = 0 /\ Sets' = 0 /\ Owed' = 0 /\ Frees' = 0 /\ Cuts' = 0
  <2> DEFINE o == Op(w, "pause")
  <2>1. o \in ChildOp /\ o.op \in {"set", "clear"} /\ o.arg = "pause"
    BY DEF Op, ChildOp, AloneOp
  <2>2. todo' = <<o>>
    BY <1>6
  <2> HIDE DEF o
  <2>4. o \notin {TellIt, FreeIt, Self, Connect, Cut} /\ o.op # "await"
    BY <1>2, <2>1
  <2> QED
    BY <1>3, <2>1, <2>2, <2>4
<1>7. CASE \/ c = "PAUSE" /\ todo' = <<Op("set", "pause")>>
           \/ c = "RESUME" /\ todo' = <<Op("clear", "pause")>>
  <2>1. ~Asking' /\ Selfs' = 0 /\ Sets' = 0 /\ Owed' = 0 /\ Frees' = 0 /\ Cuts' = 0
    BY <1>6, <1>7
  <2> QED
    BY <1>7, <2>1
<1>8. CASE c = "POST_ATT" /\ todo' \in {<<SetCmd, TellIt, FreeIt, ClearCmd>>, <<SetCmd, FreeIt, ClearCmd>>}
  <2>1. /\ Num(todo', TellIt) <= 1 /\ Num(todo', FreeIt) = 1 /\ Num(todo', Self) = 0
        /\ Num(todo', Connect) = 0 /\ Num(todo', Cut) = 0
        /\ ~Occurs(todo', "await")
    BY <1>8, UploadCounts
  <2> QED
    BY <1>8, <2>1 DEF Asking, Selfs, Sets, Owed, Frees, Cuts
<1>9. CASE c = "byte" /\ todo' = <<>>
  <2>1. (todo = <<>>)' => (Owed = 0 /\ Selfs = 0 /\ Frees = 0 /\ Sets = 0 /\ Cuts = 0 /\ ~Asking /\ ~Waiting)'
    BY FreeCounts, PTL
  <2>2. Owed' = 0 /\ Selfs' = 0 /\ Frees' = 0 /\ Sets' = 0 /\ Cuts' = 0 /\ ~Asking'
    BY <1>9, <2>1
  <2> QED
    BY <1>9, <2>2
<1> QED
  BY <1>1, <1>4, <1>5, <1>7, <1>8, <1>9

LEMMA BudgetHear ==
  ASSUME Typed, Typed', Budget, Hear
  PROVE  Budget'
<1>1. Cells
  BY DEF Typed
<1> USE DEF flags, mailbox, pipes, child, main, history
<1> DEFINE c == Head(toChild)
<1>2. /\ todo = <<>> /\ toChild # <<>> /\ toChild' = Tail(toChild) /\ toChild \in Seq(ToChild)
      /\ at = "listen" /\ at' = "call"
      /\ toParent' = toParent /\ serving' = serving /\ copy' = copy /\ flag' = flag /\ gAttflag' = gAttflag
      /\ commands' = commands
  BY <1>1, Heard DEF Hear, Cells
<1>3. /\ ~Asking' /\ Selfs' = 0 /\ Sets' = 0 /\ Owed' <= Frees'
      /\ c # "POST_ATT" => Frees' = 0 /\ Owed' = 0
      /\ c = "POST_ATT" => Frees' = 1
      /\ c # "RE_INIT" => Cuts' = 0
  BY <1>1, HeardCounts
<1> HIDE DEF c
<1>4. \A x : Num(toChild, x) = One(c = x) + Num(toChild', x)
  <2>1. toChild \in Seq(ToChild) /\ toChild # <<>>
    BY <1>2
  <2>2. \A x : Num(toChild, x) = One(Head(toChild) = x) + Num(Tail(toChild), x)
    BY <2>1, NumTail, Zenon
  <2> QED
    BY <1>2, <2>2 DEF c
<1>5. Posts = One(c = "POST_ATT") + Posts' /\ Inits = One(c = "RE_INIT") + Inits'
  BY <1>4 DEF Posts, Inits
<1>6. /\ Posts' \in Nat /\ Inits' \in Nat /\ One(Offline') \in Nat /\ One(Offline') <= 1 /\ One(Offline) \in Nat
  BY AmountsNow, AmountsNext DEF Amounts
<1>7. Posts' + Frees' <= Posts
  <2>1. \A p \in Nat : p + 1 <= 1 + p /\ p + 0 <= 0 + p
    OBVIOUS
  <2>2. Posts' + 1 <= 1 + Posts' /\ Posts' + 0 <= 0 + Posts'
    BY <1>6, <2>1, Zenon
  <2>3. CASE c = "POST_ATT"
    BY <1>3, <1>5, <2>2, <2>3 DEF One
  <2>4. CASE c # "POST_ATT"
    BY <1>3, <1>5, <2>2, <2>4 DEF One
  <2> QED
    BY <2>3, <2>4
<1>8. Inits' <= Inits /\ One(Offline') + Inits' <= One(Offline) + Inits
  <2>1. \A f, f2, i \in Nat : f2 <= 1 => i <= 1 + i /\ f2 + i <= f + (1 + i)
    OBVIOUS
  <2>2. \A f, i \in Nat : i <= 0 + i /\ f + i <= f + (0 + i)
    OBVIOUS
  <2>3. CASE c = "RE_INIT"
    <3>1. Inits' <= 1 + Inits' /\ One(Offline') + Inits' <= One(Offline) + (1 + Inits')
      BY <1>6, <2>1, Zenon
    <3>2. Inits = 1 + Inits'
      BY <1>5, <2>3 DEF One
    <3> QED
      BY <3>1, <3>2
  <2>4. CASE c # "RE_INIT"
    <3>1. Inits' <= 0 + Inits' /\ One(Offline) + Inits' <= One(Offline) + (0 + Inits')
      BY <1>6, <2>2, Zenon
    <3>2. Inits = 0 + Inits'
      BY <1>5, <2>4 DEF One
    <3>3. One(Offline') = One(Offline)
      <4>1. Sets = 0 /\ Cuts = 0 /\ Sets' = 0 /\ Cuts' = 0
        BY <1>2, <1>3, <2>4, FreeCounts
      <4>2. Effective' = Effective
        BY <1>2 DEF Effective
      <4> QED
        BY <4>1, <4>2 DEF Offline, One
    <3> QED
      BY <3>1, <3>2, <3>3
  <2> QED
    BY <2>3, <2>4
<1> QED
  BY <1>2, <1>3, <1>7, <1>8, BudgetStarts

LEMMA BudgetNotYet ==
  ASSUME Typed, Typed', Budget, NotYet
  PROVE  Budget'
<1> USE DEF flags, mailbox, pipes, child, main, history
<1>1. /\ todo = <<>> /\ todo' = <<ClearCmd>> /\ at \in {"call", "due"} /\ at' = "top"
      /\ toParent' = toParent /\ serving' = serving /\ copy' = copy /\ flag' = flag /\ gAttflag' = gAttflag
      /\ commands' = commands /\ toChild' = toChild
  BY DEF NotYet, Working, ChildFree, ClearCmd
<1>2. ClearCmd \in ChildOp /\ ClearCmd \notin {TellIt, FreeIt, Self, Connect, Cut} /\ ClearCmd.op # "await"
  <2>1. Connect.arg = "connect" /\ Cut.arg = "connect" /\ Self.op = "self" /\ Connect.op = "set" /\ Cut.op = "clear"
    BY DEF Connect, Cut, Self, Op
  <2> QED
    BY <2>1, OpNames, OpTypes
<1>3. \A x : Num(todo', x) = One(ClearCmd = x)
  BY <1>1, <1>2, NumOne
<1>4. Selfs' = 0 /\ Owed' = 0 /\ Frees' = 0 /\ Sets' = 0 /\ Cuts' = 0
  BY <1>2, <1>3 DEF Selfs, Owed, Frees, Sets, Cuts, One
<1>5. ~Asking'
  <2>1. Len(todo') = 1 /\ todo'[1] = ClearCmd
    BY <1>1
  <2>2. \A i \in 1 .. Len(todo') : todo'[i] = ClearCmd
    BY <2>1
  <2> QED
    BY <1>2, <2>2 DEF Asking, Occurs
<1>6. One(Offline') = One(Offline) /\ Posts' = Posts /\ Inits' = Inits
  <2>1. Sets = 0 /\ Cuts = 0
    BY <1>1, FreeCounts
  <2>2. Effective' = Effective
    BY <1>1 DEF Effective
  <2>3. One(Offline') = One(Offline)
    BY <1>4, <2>1, <2>2 DEF Offline, One
  <2> QED
    BY <1>1, <2>3 DEF Posts, Inits
<1>7. Posts + 0 <= Posts /\ Inits <= Inits /\ One(Offline) + Inits <= One(Offline) + Inits /\ 0 <= 0
  <2>1. \A p, i, f \in Nat : p + 0 <= p /\ i <= i /\ f + i <= f + i
    OBVIOUS
  <2>2. Posts \in Nat /\ Inits \in Nat /\ One(Offline) \in Nat
    BY AmountsNow DEF Amounts
  <2>3. Posts + 0 <= Posts /\ Inits <= Inits /\ One(Offline) + Inits <= One(Offline) + Inits
    BY <2>1, <2>2, Zenon
  <2> QED
    BY <2>3
<1> QED
  BY <1>1, <1>4, <1>5, <1>6, <1>7, BudgetStarts

\* The child tries to come online, or its server moves.
LEMMA BudgetReconnect ==
  ASSUME Typed, Typed', Budget, Reconnect
  PROVE  Budget'
<1>1. Cells
  BY DEF Typed
<1> USE DEF flags, mailbox, pipes, child, main, history
<1>2. /\ todo = <<>> /\ copy["child"] = <<>> /\ at = "call" /\ "connect" \notin flag /\ at' = "top"
      /\ toParent' = toParent /\ toChild' = toChild /\ serving' = serving /\ copy' = copy /\ flag' = flag
      /\ gAttflag' = gAttflag
  BY DEF Reconnect, ChildFree
<1>3. One(Offline) = 1
  <2>1. Sets = 0 /\ Cuts = 0
    BY <1>2, FreeCounts
  <2> QED
    BY <1>2, <2>1 DEF One, Offline, Effective
<1>4. One(Offline') \in Nat /\ One(Offline') <= 1
  BY AmountsNext DEF Amounts
<1>5. ~Waiting'
  <2>1. Starts(todo')
    BY HandlerStarts
  <2> QED
    BY <2>1 DEF Waiting, Starts
<1>6. PICK asks \in Services :
        \/ /\ Disturbs(Moves(asks))
           /\ todo' = asks \o Status \o Online \/ todo' = asks \o Disconnect
        \/ Disturbs(Moves(asks) + 1) /\ todo' = asks \o Status \o Disconnect
  BY DEF Reconnect, Online, Zero, Connect
<1> DEFINE n == Moves(asks)
<1>7. n \in Nat
  BY DEF Moves
<1>8. commands \in Int /\ CommandBound \in Int
  BY <1>1, RunAssumption DEF Cells
<1>9. ASSUME NEW m \in Nat, Disturbs(m) PROVE Left' = Left + m
  <2>1. commands' = commands - m
    BY <1>9 DEF Disturbs
  <2> QED
    BY <1>8, <1>9, <2>1 DEF Left
<1>10. CASE Disturbs(n) /\ todo' = asks \o Status \o Online
  <2>1. Frees' = 0 /\ Selfs' = n /\ Owed' = 1 /\ Sets' = 1
    BY <1>10, OnlineCounts DEF Frees, Selfs, Owed, Sets
  <2>2. One(Offline') = 0
    BY <2>1 DEF One, Offline
  <2> HIDE DEF n
  <2>3. Left' = Left + n
    BY <1>7, <1>9, <1>10
  <2>4. Owed' + One(Offline') + Selfs' <= One(Offline) + n /\ Selfs' <= n /\ Owed' <= 1
    BY <1>3, <1>7, <2>1, <2>2
  <2> QED
    BY <1>2, <1>5, <1>7, <2>1, <2>3, <2>4, BudgetSetsOut
<1>11. CASE Disturbs(n) /\ todo' = asks \o Disconnect
  <2>1. Frees' = 0 /\ Selfs' = n /\ Owed' = 0
    BY <1>11, OfflineCounts DEF Frees, Selfs, Owed
  <2> HIDE DEF n
  <2>3. Left' = Left + n
    BY <1>7, <1>9, <1>11
  <2>4. Owed' + One(Offline') + Selfs' <= One(Offline) + n /\ Selfs' <= n /\ Owed' <= 1
    <3>1. \A f, a \in Nat : f <= 1 => 0 + f + a <= 1 + a /\ a <= a
      OBVIOUS
    <3>2. 0 + One(Offline') + n <= 1 + n /\ n <= n
      BY <1>4, <1>7, <3>1, Zenon
    <3> QED
      BY <1>3, <2>1, <3>2
  <2> QED
    BY <1>2, <1>5, <1>7, <2>1, <2>3, <2>4, BudgetSetsOut
<1>12. CASE Disturbs(n + 1) /\ todo' = asks \o Status \o Disconnect
  <2>1. Frees' = 0 /\ Selfs' = n /\ Owed' = 1
    BY <1>12, LastTryCounts DEF Frees, Selfs, Owed
  <2> HIDE DEF n
  <2>2. n + 1 \in Nat
    BY <1>7
  <2>3. Left' = Left + (n + 1)
    BY <1>9, <1>12, <2>2
  <2>4. Owed' + One(Offline') + Selfs' <= One(Offline) + (n + 1) /\ Selfs' <= n + 1 /\ Owed' <= 1
    <3>1. \A f, a \in Nat : f <= 1 => 1 + f + a <= 1 + (a + 1) /\ a <= a + 1
      OBVIOUS
    <3>2. 1 + One(Offline') + n <= 1 + (n + 1) /\ n <= n + 1
      BY <1>4, <1>7, <3>1, Zenon
    <3> QED
      BY <1>3, <2>1, <3>2
  <2> QED
    BY <1>2, <1>5, <2>1, <2>2, <2>3, <2>4, BudgetSetsOut
<1> QED
  BY <1>6, <1>10, <1>11, <1>12

LEMMA BudgetHeartbeat ==
  ASSUME Typed, Typed', Budget, Heartbeat
  PROVE  Budget'
<1>1. Cells
  BY DEF Typed
<1> USE DEF flags, mailbox, pipes, child, main, history
<1>2. /\ todo = <<>> /\ at = "call" /\ at' = "warn"
      /\ toParent' = toParent /\ toChild' = toChild /\ serving' = serving /\ copy' = copy
      /\ gAttflag' = gAttflag
  BY DEF Heartbeat, Working, ChildFree
<1>3. ~Waiting'
  <2>1. Starts(todo')
    BY HandlerStarts
  <2> QED
    BY <2>1 DEF Waiting, Starts
<1>4. PICK asks \in Services, answer \in {<<>>, Status} :
        Disturbs(Moves(asks)) /\ todo' = asks \o answer \o CheckErrorStatus
  BY DEF Heartbeat
<1> DEFINE n == Moves(asks)
<1>5. /\ Num(todo', FreeIt) = 0 /\ Num(todo', Self) = n /\ Num(todo', TellIt) <= 1
      /\ Occurs(todo', "await")
  BY <1>4, HeartbeatCounts
<1>6. n \in Nat
  BY DEF Moves
<1>7. commands' = commands - n
  BY <1>4 DEF Disturbs
<1> HIDE DEF n
<1>8. Left' = Left + n
  <2>1. commands \in Int /\ CommandBound \in Int
    BY <1>1, RunAssumption DEF Cells
  <2> QED
    BY <1>6, <1>7, <2>1 DEF Left
<1>9. Frees' = 0 /\ Selfs' <= n /\ Owed' <= 1 /\ Asking'
  <2>1. n <= n
    BY <1>6
  <2> QED
    BY <1>5, <2>1 DEF Frees, Selfs, Owed, Asking
<1> QED
  BY <1>2, <1>3, <1>6, <1>8, <1>9, BudgetSetsOut

\* A warning, and what an error does: the parent has read everything.
LEMMA BudgetWarn ==
  ASSUME Typed, Typed', Budget, Warn
  PROVE  Budget'
<1> USE DEF flags, mailbox, pipes, child, main, history
<1>1. /\ todo = <<>> /\ at = "warn" /\ at' = "due"
      /\ toParent' = toParent /\ toChild' = toChild /\ serving' = serving /\ copy' = copy
      /\ gAttflag' = gAttflag /\ commands' = commands
  BY DEF Warn, ChildFree
<1>2. PICK warning \in Warnings, failed \in {<<>>, Disconnect \o Status} : todo' = warning \o failed
  BY DEF Warn
<1>3. Frees' = 0 /\ Selfs' = 0 /\ Owed' <= 2 /\ ~Asking'
  <2>1. /\ Num(todo', FreeIt) = 0 /\ Num(todo', Self) = 0 /\ Num(todo', TellIt) <= 2
        /\ ~Occurs(todo', "await")
    BY <1>2, WarnCounts
  <2> QED
    BY <2>1 DEF Frees, Selfs, Owed, Asking
<1>4. Owed = 0 /\ Selfs = 0 /\ Frees = 0 /\ ~Asking
  BY <1>1, FreeCounts
<1>5. Left' = Left /\ Looks' = Looks /\ Reads' = Reads /\ Posts' = Posts /\ Inits' = Inits
  BY <1>1 DEF Left, Looks, Reads, Posts, Inits
<1>6. toParent' = <<>> /\ Len(toParent') = 0 /\ Calm'
  <2>1. toParent = <<>> /\ Calm
    BY <1>1, <1>4 DEF Budget
  <2> QED
    BY <1>1, <2>1 DEF Calm
<1>7. Inits' + Selfs' <= Left' /\ Looks' + Reads' + Posts' + Frees' + gAttflag' <= 1
  BY <1>1, <1>3, <1>4, <1>5 DEF Budget
<1>8. Owed' \in Nat /\ Debt' \in Nat /\ Tokens' \in Nat /\ Left' \in Nat
  <2>1. Amounts'
    BY AmountsNext
  <2>2. Owed' \in Nat /\ Left' \in Nat
    BY <2>1 DEF Amounts
  <2> QED
    BY <2>1, <2>2, DebtsNext
<1>9. 0 + Debt' + Tokens' <= 7 + Left'
  <2>1. Tokens' <= 2 /\ Debt' <= Owed' + 3 + Left'
    BY <1>6, <1>7, CalmNext
  <2>2. \A o, l, d, t \in Nat : o <= 2 /\ t <= 2 /\ d <= o + 3 + l => 0 + d + t <= 7 + l
    OBVIOUS
  <2> QED
    BY <1>3, <1>8, <2>1, <2>2, Zenon
<1>10. Where(toParent', "READ_ATTLOG") = {}
  BY <1>6 DEF Where
<1> QED
  BY <1>1, <1>3, <1>6, <1>7, <1>9, <1>10 DEF Budget

\* When a record is asked for, little else can come of the parent.
LEMMA DueDebt ==
  ASSUME Typed, Plan, Budget, PostDue, gAttflag = 1
  PROVE  One(Offline) + Loads + One(Wrong) <= 1
<1>1. ServingForm(serving)
  BY DEF Typed, Forms
<1>2. Amounts
  BY AmountsNow
<1>3. /\ Looks \in Nat /\ Reads \in Nat /\ Posts \in Nat /\ Frees \in Nat
      /\ One(Offline) \in Nat /\ One(Offline) <= 1 /\ One(Wrong) \in Nat /\ One(Wrong) <= 1
  BY <1>2 DEF Amounts
<1>4. Reads = 0
  <2>1. Looks + Reads + Posts + Frees + 1 <= 1
    BY DEF Budget
  <2>2. \A k, r, p, f \in Nat : k + r + p + f + 1 <= 1 => r = 0
    OBVIOUS
  <2> QED
    BY <1>3, <2>1, <2>2, Zenon
<1>5. serving \notin LookForms => Loads = 0
  <2>1. serving \notin LookForms => Num(serving, SetCmd) = 0 /\ Num(serving, ClearCmd) = 0
    BY <1>1, ServingCounts
  <2> QED
    BY <2>1 DEF Loads
<1>6. \A a \in Nat : a <= 1 => a + 0 + 0 <= 1 /\ 0 + 0 + a <= 1
  OBVIOUS
<1>7. CASE Working
  <2>1. todo = <<>> /\ copy["child"] = <<>> /\ "connect" \in flag
    BY <1>7 DEF Working, ChildFree
  <2>2. One(Offline) = 0
    <3>1. Cuts = 0
      BY <2>1, FreeCounts
    <3>2. "connect" \in Effective
      BY <2>1 DEF Effective
    <3>3. ~Offline
      BY <3>1, <3>2 DEF Offline
    <3> QED
      BY <3>3 DEF One
  <2>3. CASE serving \notin LookForms
    BY <1>3, <1>5, <1>6, <2>2, <2>3
  <2>4. CASE serving \in LookForms
    <3>1. serving = <<ClearCmd>>
      <4>1. serving # <<SetCmd, ReadIt, ClearCmd>> /\ serving # <<ReadIt, ClearCmd>>
        <5>1. serving = <<SetCmd, ReadIt, ClearCmd>> => Num(serving, ReadIt) = 1
          BY <1>1, ServingCounts
        <5>2. serving = <<ReadIt, ClearCmd>> => Num(serving, ReadIt) = 1
          BY <1>1, ServingCounts
        <5> QED
          BY <1>4, <5>1, <5>2 DEF Reads
      <4> QED
        BY <2>4, <4>1 DEF LookForms
    <3>2. Loads = 1
      <4>1. Num(serving, SetCmd) = 0 /\ Num(serving, ClearCmd) = 1
        BY <1>1, <3>1, ServingCounts
      <4> QED
        BY <4>1 DEF Loads
    <3>3. One(Wrong) = 0
      BY <3>1 DEF Plan, Wrong, One
    <3> QED
      BY <2>2, <3>2, <3>3
  <2> QED
    BY <2>3, <2>4
<1>8. CASE ChildFree /\ at = "due"
  <2>1. ~Asking
    BY <1>8, FreeCounts DEF ChildFree
  <2>2. Calm
    BY <1>8, <2>1 DEF Budget
  <2>3. Loads = 0 /\ One(Wrong) = 0
    BY <1>5, <2>2 DEF Calm, Wrong, One
  <2>4. One(Offline) + 0 + 0 <= 1
    BY <1>3, <1>6, Zenon
  <2> QED
    BY <2>3, <2>4
<1> QED
  BY <1>7, <1>8 DEF PostDue

LEMMA DueSum ==
  ASSUME NEW f \in Nat, NEW i \in Nat, NEW lo \in Nat, NEW w \in Nat, NEW l \in Nat,
         f + lo + w <= 1, i + 0 <= l
  PROVE  0 + (0 + f + i + 0 + 2 + lo + w) + 4 <= 7 + l
OBVIOUS

LEMMA BudgetPostDue ==
  ASSUME Typed, Typed', Plan, Budget, PostDue
  PROVE  Budget'
<1>1. Cells /\ toParent \in Seq(ToParent)
  BY DEF Typed, Cells
<1> USE DEF flags, mailbox, pipes, child, main, history
<1>2. /\ todo = <<>> /\ todo' = todo /\ at \in {"call", "due"} /\ at' = "top"
      /\ toChild' = toChild /\ serving' = serving /\ copy' = copy /\ flag' = flag /\ commands' = commands
  BY DEF PostDue, Working, ChildFree
<1>3. Owed = 0 /\ Selfs = 0 /\ Frees = 0 /\ ~Asking
  BY <1>2, FreeCounts
<1>4. /\ Inits' = Inits /\ Selfs' = Selfs /\ Left' = Left /\ Reads' = Reads /\ Posts' = Posts
      /\ Frees' = Frees /\ ~Asking' /\ Owed' = Owed /\ Debt' = Debt
  <2>1. /\ Inits' = Inits /\ Selfs' = Selfs /\ Left' = Left /\ Reads' = Reads /\ Posts' = Posts
        /\ Frees' = Frees /\ ~Asking' /\ Owed' = Owed
    BY <1>2, <1>3 DEF Inits, Selfs, Left, Reads, Posts, Frees, Asking, Owed
  <2>2. Offline' = Offline /\ Wrong' = Wrong /\ Loads' = Loads
    BY <1>2 DEF Offline, Sets, Cuts, Effective, Wrong, Loads
  <2> QED
    BY <2>1, <2>2 DEF Debt
<1>5. CASE UNCHANGED <<gAttflag, toParent>>
  <2>1. Looks' = Looks /\ Tokens' = Tokens
    BY <1>4, <1>5 DEF Looks, Tokens
  <2> QED
    BY <1>2, <1>3, <1>4, <1>5, <2>1 DEF Budget
<1>6. CASE gAttflag = 1 /\ gAttflag' = 0 /\ toParent' = Put(toParent, <<"READ_ATTLOG">>, ParentCap)
  <2> DEFINE L == Len(toParent)
             M == Len(toParent')
  <2>1. /\ Amounts /\ Debt \in Nat /\ Tokens \in Nat
    BY AmountsNow, DebtsNow
  <2>2. /\ Looks \in Nat /\ Reads \in Nat /\ Posts \in Nat /\ L \in Nat /\ Left \in Nat /\ Inits \in Nat
        /\ One(Offline) \in Nat /\ Loads \in Nat /\ One(Wrong) \in Nat
    BY <2>1 DEF Amounts
  <2>3. Looks = 0 /\ Reads = 0 /\ Posts = 0
    <3>1. Looks + Reads + Posts + 0 + 1 <= 1
      BY <1>3, <1>6 DEF Budget
    <3>2. \A k, r, p \in Nat : k + r + p + 0 + 1 <= 1 => k = 0 /\ r = 0 /\ p = 0
      OBVIOUS
    <3> QED
      BY <2>2, <3>1, <3>2, Zenon
  <2>4. Tokens = 1 /\ Tokens' = 0
    BY <1>3, <1>4, <1>6, <2>3 DEF Tokens
  <2>5. /\ Inits + 0 <= Left
        /\ L + Debt + Tokens <= 7 + Left
    BY <1>2, <1>3 DEF Budget
  <2>6. Where(toParent, "READ_ATTLOG") = {}
    <3>1. Num(toParent, "READ_ATTLOG") = 0 <=> Where(toParent, "READ_ATTLOG") = {}
      BY <1>1, WhereIs, Zenon
    <3> QED
      BY <2>3, <3>1 DEF Looks
  <2>7. /\ M \in Nat /\ M <= L + 1 /\ Looks' \in Nat /\ Looks' <= 1
        /\ \A k \in Where(toParent', "READ_ATTLOG") : k = M
    <3> DEFINE u == toParent \o <<"READ_ATTLOG">>
    <3>1. toParent \in Seq(ToParent) /\ "READ_ATTLOG" \in ToParent
      BY <1>1 DEF ToParent
    <3>2. /\ toParent' = toParent \/ toParent' = u
          /\ u \in Seq(ToParent) /\ L \in Nat /\ Len(u) = L + 1
          /\ \A i \in 1 .. L : u[i] = toParent[i]
      BY <1>6, <3>1, PutCounts
    <3>3. \A x : Num(u, x) = Num(toParent, x) + One("READ_ATTLOG" = x)
      BY <3>1, PutCounts, SMT
    <3> HIDE DEF u
    <3>4. Num(u, "READ_ATTLOG") = Num(toParent, "READ_ATTLOG") + 1
      BY <3>3 DEF One
    <3>5. CASE toParent' = toParent
      BY <2>3, <2>6, <3>2, <3>5 DEF Looks
    <3>6. CASE toParent' = u
      <4>1. Looks' = 0 + 1
        BY <2>3, <3>4, <3>6 DEF Looks
      <4>2. ASSUME NEW k \in 1 .. Len(u), u[k] = "READ_ATTLOG" PROVE k = L + 1
        <5>1. \A i \in 1 .. L : toParent[i] # "READ_ATTLOG"
          BY <2>6 DEF Where
        <5>2. k \notin 1 .. L
          BY <3>2, <4>2, <5>1
        <5> QED
          BY <3>2, <4>2, <5>2
      <4>3. \A k \in Where(u, "READ_ATTLOG") : k = L + 1
        BY <4>2 DEF Where
      <4> QED
        BY <3>2, <3>6, <4>1, <4>3
    <3> QED
      BY <3>2, <3>5, <3>6
  <2> HIDE DEF L, M
  <2>8. M + Debt + 0 <= 7 + Left
    <3>1. \A m, l, d, b \in Nat : m <= l + 1 /\ l + d + 1 <= 7 + b => m + d + 0 <= 7 + b
      OBVIOUS
    <3>2. L + Debt + 1 <= 7 + Left
      BY <2>4, <2>5
    <3> QED
      BY <2>1, <2>2, <2>7, <3>1, <3>2, Zenon
  <2>9. (M - M) + Debt + 4 <= 7 + Left
    <3>1. One(Offline) + Loads + One(Wrong) <= 1
      BY <1>6, DueDebt
    <3>2. 0 + (0 + One(Offline) + Inits + 0 + 2 + Loads + One(Wrong)) + 4 <= 7 + Left
      BY <2>2, <2>5, <3>1, DueSum, Zenon
    <3>3. 0 + Debt + 4 <= 7 + Left
      BY <1>3, <3>2 DEF Debt
    <3>4. M - M = 0
      BY <2>7
    <3> QED
      BY <3>3, <3>4
  <2>10. \A k \in Where(toParent', "READ_ATTLOG") : (M - k) + Debt + 4 <= 7 + Left
    BY <2>7, <2>9
  <2>11. Looks' + Reads' + Posts' + Frees' + gAttflag' <= 1
    <3>0. \A k \in Nat : k <= 1 => k + 0 + 0 + 0 + 0 <= 1
      OBVIOUS
    <3>1. Looks' + 0 + 0 + 0 + 0 <= 1
      BY <2>7, <3>0, Zenon
    <3> QED
      BY <1>3, <1>4, <1>6, <2>3, <3>1
  <2>12. Inits' + Selfs' <= Left'
    BY <1>3, <1>4, <2>5
  <2> QED
    BY <1>2, <1>4, <2>4, <2>8, <2>10, <2>11, <2>12 DEF Budget, M
<1> QED
  BY <1>5, <1>6 DEF PostDue, Due

-----------------------------------------------------------------------------

LEMMA ChildBudget ==
  ASSUME Typed, Typed', Exchange, Plan, Budget, ChildNext
  PROVE  Budget'
<1>1. CASE Top \/ Silence \/ Paused
  BY <1>1, BudgetMoves
<1>2. CASE ChildPayload \/ ChildFreesUpload \/ ChildReset \/ ChildSelf
  BY <1>2, BudgetPlainOps
<1>3. CASE ChildFlag \/ ChildZero
  BY <1>3, BudgetChildFlag
<1>4. CASE ChildTell
  BY <1>4, BudgetStatus, BudgetRequest DEF ChildTell
<1>5. CASE Hear \/ NotYet \/ Reconnect \/ Heartbeat \/ Warn \/ PostDue
  BY <1>5, BudgetHear, BudgetNotYet, BudgetReconnect, BudgetHeartbeat, BudgetWarn, BudgetPostDue
<1>6. CASE ChildAwait \/ Store("child")
  BY <1>6, BudgetAwait, BudgetChildStore
<1> QED
  BY <1>1, <1>2, <1>3, <1>4, <1>5, <1>6 DEF ChildNext

LEMMA BudgetStep ==
  ASSUME Typed, Typed', Exchange, Plan, Budget, [Next]_vars
  PROVE  Budget'
BY BudgetMoves, ParentBudget, ChildBudget DEF Next

LEMMA BudgetInit ==
  ASSUME Init
  PROVE  Plan /\ Budget
<1>1. /\ todo = <<>> /\ flag = {"connect"} /\ copy["child"] = <<>> /\ copy["parent"] = <<>>
      /\ toChild = <<>> /\ toParent = <<"STATUS">> /\ at = "top" /\ serving = <<>> /\ gAttflag = 1
      /\ commands = CommandBound
  BY DEF Init, Threads
<1>2. Owed = 0 /\ Selfs = 0 /\ Frees = 0 /\ Sets = 0 /\ Cuts = 0 /\ ~Asking
  BY <1>1, FreeCounts
<1>3. Inits = 0 /\ Posts = 0 /\ Reads = 0 /\ Loads = 0
  <2>1. \A x : Num(<<>>, x) = 0
    BY PartCounts
  <2> QED
    BY <1>1, <2>1 DEF Inits, Posts, Reads, Loads
<1>4. Left = 0
  BY <1>1, RunAssumption DEF Left
<1>5. Len(toParent) = 1 /\ Where(toParent, "READ_ATTLOG") = {} /\ Looks = 0
  <2>1. Len(toParent) = 1 /\ toParent[1] = "STATUS"
    BY <1>1
  <2>2. Where(toParent, "READ_ATTLOG") = {}
    BY <2>1 DEF Where
  <2> QED
    BY <2>1, <2>2, FS_EmptySet DEF Looks, Num
<1>6. One(Offline) = 0 /\ One(Wrong) = 0
  BY <1>1, <1>2 DEF One, Offline, Effective, Wrong
<1>7. Debt = 2 /\ Tokens = 1
  BY <1>1, <1>2, <1>3, <1>6 DEF Debt, Tokens
<1>8. Budget
  BY <1>1, <1>2, <1>3, <1>4, <1>5, <1>7 DEF Budget
<1>9. Plan
  <2>1. Linked(todo)
    BY <1>1 DEF Linked
  <2> QED
    BY <1>1, <2>1 DEF Plan
<1> QED
  BY <1>8, <1>9

LEMMA BudgetIsShort ==
  ASSUME Typed, Plan, Budget
  PROVE  ParentPipeShort
<1>1. Amounts /\ Debt \in Nat /\ Tokens \in Nat
  BY AmountsNow, DebtsNow
<1>2. Len(toParent) \in Nat /\ Left \in Nat /\ Owed \in Nat
  BY <1>1 DEF Amounts
<1>3. Len(toParent) <= 7 + Left
  <2>1. CASE Asking /\ Waiting
    BY <2>1 DEF Budget
  <2>2. CASE Asking /\ ~Waiting
    <3>1. Len(toParent) + Owed + 1 <= 7 + Left
      BY <2>2 DEF Budget
    <3>2. \A m, o, l \in Nat : m + o + 1 <= 7 + l => m <= 7 + l
      OBVIOUS
    <3> QED
      BY <1>2, <3>1, <3>2, Zenon
  <2>3. CASE ~Asking /\ at = "warn"
    <3>1. Len(toParent) = 0
      BY <2>3 DEF Budget
    <3>2. \A l \in Nat : 0 <= 7 + l
      OBVIOUS
    <3> QED
      BY <1>2, <3>1, <3>2
  <2>4. CASE ~Asking /\ at # "warn"
    <3>1. Len(toParent) + Debt + Tokens <= 7 + Left
      BY <2>4 DEF Budget
    <3>2. \A m, d, t, l \in Nat : m + d + t <= 7 + l => m <= 7 + l
      OBVIOUS
    <3> QED
      BY <1>1, <1>2, <3>1, <3>2, Zenon
  <2> QED
    BY <2>1, <2>2, <2>3, <2>4
<1>4. 7 + CommandBound - commands = 7 + (CommandBound - commands)
  BY RunAssumption DEF Typed, Cells
<1> QED
  BY <1>3, <1>4 DEF ParentPipeShort, Left

\* ParentPipeShort: the pipe to the parent holds at most 7 bytes and one for each
\* disturbance so far (tell_and_wait_parent is what bounds it: the child says
\* little before it asks, and is not answered before everything it said was read).
THEOREM ParentPipeStaysShort == Spec => []ParentPipeShort
<1>1. Spec => [](Typed /\ Exchange)
  BY ExchangeInv
<1>2. Init => Plan /\ Budget
  BY BudgetInit
<1>3. (Typed /\ Exchange) /\ (Typed /\ Exchange)' /\ (Plan /\ Budget) /\ [Next]_vars => (Plan /\ Budget)'
  <2>1. Typed /\ Exchange /\ Typed' /\ Plan /\ Budget /\ [Next]_vars => Plan' /\ Budget'
    BY PlanStep, BudgetStep
  <2> QED
    BY <2>1
<1>4. (Typed /\ Exchange) /\ (Plan /\ Budget) => ParentPipeShort
  BY BudgetIsShort
<1> QED
  BY <1>1, <1>2, <1>3, <1>4, PTL DEF Spec

\* So a question or READ_ATTLOG is never refused by a pipe that holds 8 bytes and
\* one for each disturbance: tell_and_wait_parent and request_upload_attlog need
\* not look at the result of their write.
THEOREM NoQuestionIsLost ==
  ASSUME 8 + CommandBound <= ParentCap
  PROVE  Spec => [][ChildTell \/ gAttflag' < gAttflag => Len(toParent') = Len(toParent) + 1]_vars
<1>1. Spec => [](Typed /\ Exchange)
  BY ExchangeInv
<1>2. ASSUME Typed, ParentPipeShort, [Next]_vars
      PROVE  [ChildTell \/ gAttflag' < gAttflag => Len(toParent') = Len(toParent) + 1]_vars
  <2>1. toParent \in Seq(ToParent) /\ Len(toParent) \in Nat /\ commands \in 0 .. CommandBound
        /\ gAttflag \in {0, 1}
    BY <1>2 DEF Typed, Cells
  <2>2. Len(toParent) + 1 <= ParentCap
    BY <1>2, <2>1, RunAssumption, PipeAssumption DEF ParentPipeShort
  <2>3. ASSUME NEW a, toParent' = Put(toParent, <<a>>, ParentCap)
        PROVE  Len(toParent') = Len(toParent) + 1
    <3>1. toParent' = toParent \o <<a>>
      BY <2>2, <2>3 DEF Put, Fits
    <3> QED
      BY <2>1, <3>1
  <2>4. ChildTell => Len(toParent') = Len(toParent) + 1
    BY <2>3 DEF ChildTell
  <2>5. ASSUME gAttflag' < gAttflag, ~UNCHANGED vars
        PROVE  Len(toParent') = Len(toParent) + 1
    <3>1. gAttflag' # gAttflag /\ gAttflag' # 1
      BY <2>1, <2>5
    <3>2. PostDue
      BY <1>2, <2>5, <3>1
         DEF Next, ParentService, ChildNext, ParentTake, ParentFlag, ParentDone, ParentOver, ParentSend, ParentRead,
             Store, MainTells, Tells, EnterMenu, LeaveMenu, Top, Silence, Hear, ChildPayload, ChildFlag, ChildZero,
             ChildFreesUpload, ChildReset, ChildTell, ChildAwait, ChildSelf, Reconnect, Paused, Heartbeat, Warn, NotYet
    <3> QED
      BY <2>3, <3>1, <3>2 DEF PostDue
  <2> QED
    BY <2>4, <2>5
<1>3. Typed /\ ParentPipeShort /\ [Next]_vars =>
        [ChildTell \/ gAttflag' < gAttflag => Len(toParent') = Len(toParent) + 1]_vars
  BY <1>2
<1> QED
  BY <1>1, <1>3, ParentPipeStaysShort, PTL DEF Spec

=============================================================================
