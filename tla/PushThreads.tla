----------------------------- MODULE PushThreads -----------------------------
(***************************************************************************)
(* How the child thread of the push SDK and the firmware's main thread, its *)
(* parent, talk: two pipes of bounded size whose writes do not block and    *)
(* whose results nobody looks at (pipe.c), the word running_flag, changed   *)
(* by both without a lock (lib.c), and questions to the parent that the     *)
(* child waits for without a limit (tell_and_wait_parent).                  *)
(*                                                                         *)
(* What a handler still has to do is a sequence of small operations, so     *)
(* that the other thread can come between any two of them.  The server is   *)
(* free to answer or not, and to send anything with a heartbeat.  The store  *)
(* of records and calls by UDP are in PushUpload; here a record is due or    *)
(* not.                                                                     *)
(***************************************************************************)
EXTENDS Integers, Sequences

CONSTANTS
  ChildCap,     \* bytes the pipe to the child holds (65536)
  ParentCap,    \* bytes the pipe to the parent holds (65536)
  PayBytes,     \* sizeof(int), the type behind NEW_DATA and RESET_DATA
  Downloads,    \* what a packet of the server may ask of the parent
  CommandBound  \* bound of a run on what disturbs the two: commands of the
                \* main thread, changes of the server's address, heartbeats
                \* answered at the last attempt while offline

ASSUME PipeAssumption ==
  ChildCap \in Nat \ {0} /\ ParentCap \in Nat \ {0} /\ PayBytes \in Nat \ {0}

Threads == {"child", "parent"}
Bits == {"cmd", "pause", "connect"}
Flags == {"PAUSE", "RESUME", "RE_INIT"}
WithType == {"NEW_DATA", "RESET_DATA"}
ToChild == Flags \cup WithType \cup {"POST_ATT", "byte"}
Questions == {"USER_CNT", "NEW_DATA", "CLEAR_DATA", "SET_OPTIONS"}

ASSUME RunAssumption == CommandBound \in Nat /\ Downloads \subseteq Seq(Questions)

\* ONLINE and OFFLINE are one here, STATUS: the parent only notes which.
ToParent == Questions \cup {"STATUS", "READ_ATTLOG"}

VARIABLES
  flag,        \* running_flag: the bits that are set
  copy,        \* [Threads]: a new value of running_flag not yet written
  conType,     \* opt->con_type is not 0
  gAttflag,    \* no upload is under way
  over,        \* opt->cmd_deal_over
  done,        \* what the child asked for last has been done
  toChild, toParent,
  at, todo,    \* the child: where in its loop, and what is left of a handler
  serving,     \* the parent: what is left of a handler
  inMenu,      \* a user is being enrolled
  asked,       \* history: the pause the parent asked for last, TRUE or FALSE
  commands,    \* disturbances left
  lost,        \* history: a write to the child did not fit
  raced        \* history: a change of running_flag came between another's
               \* read and write

flags   == <<flag, copy>>
mailbox == <<over, done>>
pipes   == <<toChild, toParent>>
child   == <<at, todo>>
main    == <<inMenu, asked, commands>>
history == <<lost, raced>>
vars == <<flags, conType, gAttflag, mailbox, pipes, child, serving, main, history>>

Op(o, a) == [op |-> o, arg |-> a]
ChildOps == {"set", "clear", "zero", "tell", "reset", "request", "await",
             "payload", "free", "self"}
ParentOps == {"set", "clear", "read", "done", "over", "send"}

TypeOK ==
  /\ flag \subseteq Bits /\ copy \in [Threads -> {<<>>} \cup {<<f>> : f \in SUBSET Bits}]
  /\ conType \in BOOLEAN /\ gAttflag \in {0, 1}
  /\ over \in BOOLEAN /\ done \in BOOLEAN
  /\ toChild \in Seq(ToChild) /\ Len(toChild) <= ChildCap
  /\ toParent \in Seq(ToParent) /\ Len(toParent) <= ParentCap
  /\ at \in {"top", "listen", "call", "warn", "due"}
  /\ \A i \in 1 .. Len(todo) : todo[i].op \in ChildOps
  /\ \A i \in 1 .. Len(serving) : serving[i].op \in ParentOps
  /\ inMenu \in BOOLEAN /\ asked \in BOOLEAN
  /\ commands \in Nat
  /\ lost \in BOOLEAN /\ raced \in BOOLEAN

\* The child behind init(), online.
Init ==
  /\ flag = {"connect"} /\ copy = [t \in Threads |-> <<>>]
  /\ conType = FALSE /\ gAttflag = 1
  /\ over = FALSE /\ done = TRUE
  /\ toChild = <<>> /\ toParent = <<"STATUS">>
  /\ at = "top" /\ todo = <<>> /\ serving = <<>>
  /\ inMenu = FALSE /\ asked = FALSE
  /\ commands = CommandBound
  /\ lost = FALSE /\ raced = FALSE

-----------------------------------------------------------------------------
(* The pipes and the word of flags.                                          *)

\* Fault: the last byte that fits is one too many.
FitsOneMore(pipe, bytes, cap) == Len(pipe) + bytes <= cap + 1

\* A write of at most PIPE_BUF bytes is stored whole or refused.
Fits(pipe, bytes, cap) == Len(pipe) + bytes <= cap

Put(pipe, bytes, cap) == IF Fits(pipe, Len(bytes), cap) THEN pipe \o bytes ELSE pipe

Type == [i \in 1 .. PayBytes |-> "byte"]

\* A command, and for some the type in a write of its own.
TellChild(c) ==
  LET first == Put(toChild, <<c>>, ChildCap)
      whole == IF c \in WithType THEN Put(first, Type, ChildCap) ELSE first
  IN  /\ toChild' = whole
      /\ lost' = (lost \/ Len(whole) # Len(toChild) + 1 + (IF c \in WithType THEN PayBytes ELSE 0))

\* set_bit and clear_bit: a new value is made of the old one ...
Load(t, value) == copy' = [copy EXCEPT ![t] = <<value>>]

\* ... and written.
Store(t) ==
  /\ copy[t] # <<>>
  /\ flag' = copy[t][1]
  /\ copy' = [copy EXCEPT ![t] = <<>>]
  /\ raced' = (raced \/ \E u \in Threads \ {t} : copy[u] # <<>>)
  /\ UNCHANGED <<conType, gAttflag, mailbox, pipes, child, serving, main, lost>>

-----------------------------------------------------------------------------
(* The parent: the main thread, in parent_mainloop_handle or elsewhere.      *)

ParentIdle == serving = <<>> /\ copy["parent"] = <<>>

\* Fault: the child is let go before its question is dealt with.
AnswerFirst(c) == <<Op("over", ""), Op("done", "")>>

\* call_main_update_data, main_save_options, and the case of USER_CNT.
Answer(c) == <<Op("done", ""), Op("over", "")>>

\* main_clear_data tells the child to start over only behind its answer.
StartOver == <<Op("send", "RESET_DATA"), Op("send", "RESET_DATA"), Op("send", "RESET_DATA")>>

Handler(c) ==
  IF c \in Questions THEN Answer(c) \o (IF c = "CLEAR_DATA" THEN StartOver ELSE <<>>)
  ELSE IF c = "READ_ATTLOG" THEN <<Op("set", "cmd"), Op("read", ""), Op("clear", "cmd")>>
  ELSE <<>>

ParentTake ==
  /\ ParentIdle /\ toParent # <<>>
  /\ serving' = Handler(Head(toParent))
  /\ toParent' = Tail(toParent)
  /\ UNCHANGED <<flags, conType, gAttflag, mailbox, toChild, child, main, history>>

Serve(o) ==
  /\ serving # <<>> /\ copy["parent"] = <<>> /\ Head(serving).op = o
  /\ serving' = Tail(serving)

ParentFlag ==
  /\ \/ Serve("set") /\ Load("parent", flag \cup {Head(serving).arg})
     \/ Serve("clear") /\ Load("parent", flag \ {Head(serving).arg})
  /\ UNCHANGED <<flag, conType, gAttflag, mailbox, pipes, child, main, history>>

ParentDone ==
  /\ Serve("done")
  /\ done' = TRUE
  /\ UNCHANGED <<flags, conType, gAttflag, over, pipes, child, main, history>>

ParentOver ==
  /\ Serve("over")
  /\ over' = TRUE
  /\ UNCHANGED <<flags, conType, gAttflag, done, pipes, child, main, history>>

ParentSend ==
  /\ Serve("send")
  /\ TellChild(Head(serving).arg)
  /\ UNCHANGED <<flags, conType, gAttflag, mailbox, toParent, child, main, raced>>

\* main_read_attlog: a record to post, or none.
ParentRead ==
  /\ Serve("read")
  /\ \/ TellChild("POST_ATT") /\ UNCHANGED gAttflag
     \/ gAttflag' = 1 /\ UNCHANGED <<toChild, lost>>
  /\ UNCHANGED <<flags, conType, mailbox, toParent, child, main, raced>>

\* Between two calls of pushsdk_check: a record is stored, records are deleted,
\* too many echoes are missing.
Tells(cs) ==
  /\ ParentIdle /\ commands > 0
  /\ commands' = commands - 1
  /\ \E c \in cs : TellChild(c)
  /\ UNCHANGED <<flags, conType, gAttflag, mailbox, toParent, child, serving, inMenu, asked, raced>>

MainTells == Tells({"NEW_DATA", "RESET_DATA", "RE_INIT"})

\* A user is enrolled at the menu.
EnterMenu ==
  /\ ParentIdle /\ ~inMenu /\ commands > 0
  /\ commands' = commands - 1
  /\ inMenu' = TRUE
  /\ TellChild("PAUSE")
  /\ asked' = TRUE
  /\ UNCHANGED <<flags, conType, gAttflag, mailbox, toParent, child, serving, raced>>

LeaveMenu ==
  /\ ParentIdle /\ inMenu
  /\ inMenu' = FALSE
  /\ TellChild("RESUME")
  /\ serving' = <<Op("send", "NEW_DATA")>>
  /\ asked' = FALSE
  /\ UNCHANGED <<flags, conType, gAttflag, mailbox, toParent, child, commands, raced>>

-----------------------------------------------------------------------------
(* The child.                                                               *)

ChildFree == todo = <<>> /\ copy["child"] = <<>>

\* child_mainloop_handle looks for a command, for up to a second, unless the
\* bit of RUN_STAT_CMD holds it off.
MayRead == "cmd" \notin flag \/ "pause" \in flag \/ "connect" \notin flag

Top ==
  /\ ChildFree /\ at = "top"
  /\ at' = IF MayRead THEN "listen" ELSE "call"
  /\ UNCHANGED <<flags, conType, gAttflag, mailbox, pipes, todo, serving, main, history>>

Silence ==
  /\ ChildFree /\ at = "listen" /\ toChild = <<>>
  /\ at' = "call"
  /\ UNCHANGED <<flags, conType, gAttflag, mailbox, pipes, todo, serving, main, history>>

\* Fault: an upload that is given up leaves the bit set.
PostForgets(end) ==
  IF end = <<>> THEN <<Op("set", "cmd"), Op("free", ""), Op("clear", "cmd")>>
  ELSE <<Op("set", "cmd")>> \o end \o <<Op("free", "")>>

\* Case CHILD_CMD_POST_ATT; the upload ends with a status if it used up its
\* attempts.
Post(end) == <<Op("set", "cmd")>> \o end \o <<Op("free", ""), Op("clear", "cmd")>>
PostEnds == {<<>>, <<Op("tell", "STATUS")>>}

\* Fault: a resume is taken for a pause.
FlagHandlerPauses(c) == Op(IF c = "RE_INIT" THEN "clear" ELSE "set",
                           IF c = "RE_INIT" THEN "connect" ELSE "pause")

\* child_deal_parent_cmd.
FlagHandler(c) == Op(IF c = "PAUSE" THEN "set" ELSE "clear",
                     IF c = "RE_INIT" THEN "connect" ELSE "pause")

Hear ==
  /\ ChildFree /\ at = "listen" /\ toChild # <<>>
  /\ LET c == Head(toChild)
     IN  \/ c \in WithType /\ todo' = <<Op("payload", c)>>
         \/ c \in Flags /\ todo' = <<FlagHandler(c)>>
         \/ c = "POST_ATT" /\ \E end \in PostEnds : todo' = Post(end)
         \/ c = "byte" /\ UNCHANGED todo
  /\ toChild' = Tail(toChild)
  /\ at' = "call"
  /\ UNCHANGED <<flags, conType, gAttflag, mailbox, toParent, serving, main, lost, raced>>

Do(o) ==
  /\ todo # <<>> /\ copy["child"] = <<>> /\ Head(todo).op = o
  /\ todo' = Tail(todo)

\* Fault: a char is read where an int was written.
PayloadChar == 1

Payload == PayBytes

\* pipe_read_from_parent takes the whole type or, when there are too few
\* bytes, nothing.
ChildPayload ==
  /\ Do("payload")
  /\ LET whole == Len(toChild) >= Payload
     IN  /\ toChild' = IF whole THEN SubSeq(toChild, Payload + 1, Len(toChild)) ELSE toChild
         /\ conType' = (conType \/ (whole /\ Head(todo).arg = "NEW_DATA"))
  /\ UNCHANGED <<flags, gAttflag, mailbox, toParent, at, serving, main, history>>

ChildFlag ==
  /\ \/ Do("set") /\ Load("child", flag \cup {Head(todo).arg})
     \/ Do("clear") /\ Load("child", flag \ {Head(todo).arg})
  /\ UNCHANGED <<flag, conType, gAttflag, mailbox, pipes, at, serving, main, history>>

\* running_flag = 0.
ChildZero ==
  /\ Do("zero")
  /\ flag' = {}
  /\ raced' = (raced \/ copy["parent"] # <<>>)
  /\ UNCHANGED <<copy, conType, gAttflag, mailbox, pipes, at, serving, main, lost>>

ChildFreesUpload ==
  /\ Do("free")
  /\ gAttflag' = 1
  /\ UNCHANGED <<flags, conType, mailbox, pipes, at, serving, main, history>>

\* Fault: cmd_deal_over is cleared behind the write of the command.
AskLate(c) == <<Op("request", c), Op("reset", c), Op("await", c)>>

\* tell_and_wait_parent.
Ask(c) == <<Op("reset", c), Op("request", c), Op("await", c)>>

ChildReset ==
  /\ Do("reset")
  /\ over' = FALSE /\ done' = FALSE
  /\ UNCHANGED <<flags, conType, gAttflag, pipes, at, serving, main, history>>

ChildTell ==
  /\ Do("tell") \/ Do("request")
  /\ toParent' = Put(toParent, <<Head(todo).arg>>, ParentCap)
  /\ UNCHANGED <<flags, conType, gAttflag, mailbox, toChild, at, serving, main, history>>

ChildAwait ==
  /\ Do("await") /\ over
  /\ UNCHANGED <<flags, conType, gAttflag, mailbox, pipes, at, serving, main, history>>

\* pushsdk_reload_svrip_init, called in the child: RE_INIT to itself.
ChildSelf ==
  /\ Do("self")
  /\ TellChild("RE_INIT")
  /\ UNCHANGED <<flags, conType, gAttflag, mailbox, toParent, at, serving, main, raced>>

\* One question after the other.
AskAll(qs) == [i \in 1 .. 3 * Len(qs) |-> Ask(qs[(i + 2) \div 3])[((i + 2) % 3) + 1]]

\* What ProcessService may do with the answer to a heartbeat: nothing to ask,
\* a packet that asks, or a new address of the server.
Services ==
  {<<>>} \cup {AskAll(qs) : qs \in Downloads}
    \cup {AskAll(<<"SET_OPTIONS", "SET_OPTIONS">>) \o <<Op("self", "")>>}

Occurs(ops, o) == \E i \in 1 .. Len(ops) : ops[i].op = o

\* A change of the address, or an answer at the last attempt, is a disturbance.
Disturbs(n) == n <= commands /\ commands' = commands - n
Moves(asks) == IF Occurs(asks, "self") THEN 1 ELSE 0

Status == <<Op("tell", "STATUS")>>
Disconnect == <<Op("clear", "connect")>>

\* child_call_proc, offline: a heartbeat that succeeds clears all bits and sets
\* CONNECT; one that fails clears CONNECT; one that succeeds at the last
\* attempt tells of it and fails.
Reconnect ==
  /\ ChildFree /\ at = "call" /\ "connect" \notin flag
  /\ \E asks \in Services :
       \/ /\ Disturbs(Moves(asks))
          /\ \/ todo' = asks \o Status \o <<Op("zero", ""), Op("set", "connect")>>
             \/ todo' = asks \o Disconnect
       \/ /\ Disturbs(Moves(asks) + 1)
          /\ todo' = asks \o Status \o Disconnect
  /\ at' = "top"
  /\ UNCHANGED <<flags, conType, gAttflag, mailbox, pipes, serving, inMenu, asked, lost, raced>>

Paused ==
  /\ ChildFree /\ at = "call" /\ "connect" \in flag /\ "pause" \in flag
  /\ at' = "top"
  /\ UNCHANGED <<flags, conType, gAttflag, mailbox, pipes, todo, serving, main, history>>

Working == ChildFree /\ at = "call" /\ "connect" \in flag /\ "pause" \notin flag

\* proc(): the heartbeat, then the look at the free places (CheckErrorStatus) ...
CheckErrorStatus == Ask("USER_CNT")

Heartbeat ==
  /\ Working
  /\ \E asks \in Services, answer \in {<<>>, Status} :
       /\ Disturbs(Moves(asks))
       /\ todo' = asks \o answer \o CheckErrorStatus
  /\ at' = "warn"
  /\ UNCHANGED <<flags, conType, gAttflag, mailbox, pipes, serving, inMenu, asked, history>>

\* ... a warning if there is one, and what an error does.
Warnings == {<<>>, Status, Status \o Disconnect}

Warn ==
  /\ ChildFree /\ at = "warn"
  /\ \E warning \in Warnings, failed \in {<<>>, Disconnect \o Status} :
       todo' = warning \o failed
  /\ at' = "due"
  /\ UNCHANGED <<flags, conType, gAttflag, mailbox, pipes, serving, main, history>>

\* Fault: a record is asked for again before the last one is settled.
DueAgain == TRUE

Due == gAttflag = 1

\* proc(): post_interval has passed, and a record is due or not.
PostDue ==
  /\ Working \/ (ChildFree /\ at = "due")
  /\ \/ /\ Due
        /\ gAttflag' = 0
        /\ toParent' = Put(toParent, <<"READ_ATTLOG">>, ParentCap)
     \/ UNCHANGED <<gAttflag, toParent>>
  /\ at' = "top"
  /\ UNCHANGED <<flags, conType, mailbox, toChild, todo, serving, main, history>>

\* proc(): it has not passed; RUN_STAT_CMD is cleared if nothing is to be sent.
NotYet ==
  /\ Working \/ (ChildFree /\ at = "due")
  /\ "cmd" \in flag /\ ~conType
  /\ todo' = <<Op("clear", "cmd")>>
  /\ at' = "top"
  /\ UNCHANGED <<flags, conType, gAttflag, mailbox, pipes, serving, main, history>>

-----------------------------------------------------------------------------

ParentService ==
  ParentTake \/ ParentFlag \/ ParentDone \/ ParentOver \/ ParentSend \/ ParentRead
    \/ Store("parent")

ChildNext ==
  \/ Top \/ Silence \/ Hear
  \/ ChildPayload \/ ChildFlag \/ ChildZero \/ ChildFreesUpload
  \/ ChildReset \/ ChildTell \/ ChildAwait \/ ChildSelf \/ Store("child")
  \/ Reconnect \/ Paused \/ Heartbeat \/ Warn \/ PostDue \/ NotYet

Next == ParentService \/ MainTells \/ EnterMenu \/ LeaveMenu \/ ChildNext

Spec == Init /\ [][Next]_vars

\* The main thread comes back to pushsdk_check and finishes what it does there.
FairSpec == Spec /\ WF_vars(ParentService) /\ WF_vars(ChildNext)

-----------------------------------------------------------------------------

\* While nothing was dropped, the bytes of the pipe to the child
\* are whole commands from where the child reads on: a type is never taken for
\* a command, nor a command for part of a type.
Whole(s) ==
  \A i \in 1 .. Len(s) :
    /\ s[i] \in WithType =>
         /\ i + PayBytes <= Len(s)
         /\ \A j \in i + 1 .. i + PayBytes : s[j] = "byte"
    /\ s[i] = "byte" => \E j \in 1 .. i - 1 : i <= j + PayBytes /\ s[j] \in WithType

InSync ==
  ~lost =>
    Whole((IF Occurs(todo, "payload") THEN <<Head(todo).arg>> ELSE <<>>) \o toChild)

\* The pipe to the parent stays short however long the main thread is busy,
\* since the child asks and waits in every round in which it says something:
\* so a question or READ_ATTLOG cannot be lost to a full pipe.  Each
\* disturbance may add a status.
ParentPipeShort == Len(toParent) <= 7 + CommandBound - commands

\* The child goes on behind a question only when what it asked for is done.
AnsweredMeansDone ==
  [][ChildAwait => done]_vars

\* Once all commands in the pipe have been heard the child is paused only if
\* the main thread last asked for a pause, unless a command was lost or
\* two changes of running_flag crossed.
LastFlag(b, v, ops) ==
  IF Occurs(ops, "set") /\ Head(ops) = Op("set", b) THEN TRUE
  ELSE IF ops # <<>> /\ Head(ops) = Op("clear", b) THEN FALSE ELSE v

PausedNow ==
  LET now == "pause" \in IF copy["child"] # <<>> THEN copy["child"][1] ELSE flag
  IN  LastFlag("pause", now, todo)

PauseAfterPipe ==
  LET told == {i \in 1 .. Len(toChild) : toChild[i] \in {"PAUSE", "RESUME"}}
  IN  IF told = {} THEN PausedNow
      ELSE \E i \in told : toChild[i] = "PAUSE" /\ \A j \in told : j <= i

PauseAsAsked ==
  ~lost /\ ~raced => (PauseAfterPipe => asked)

\* RUN_STAT_CMD, which keeps the child from reading commands, is set only
\* while somebody is going to clear it, unless two changes crossed.
CmdReleased ==
  ~raced /\ "cmd" \in flag =>
    \/ \E ops \in {todo, serving} : \E i \in 1 .. Len(ops) : ops[i] = Op("clear", "cmd")
    \/ \E t \in Threads : copy[t] # <<>> /\ "cmd" \notin copy[t][1]

\* Whatever the child waits for comes.
Waiting == todo # <<>> /\ Head(todo).op = "await"
WaitEnds == Waiting ~> ~Waiting

=============================================================================
