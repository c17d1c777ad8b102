----------------------------- MODULE CommSession -----------------------------
(***************************************************************************)
(* The PC protocol of the terminal: sessions, the reply ids that tell a      *)
(* repeated packet from a new one, stored answers, uploads into the buffer  *)
(* of a session or into the batch file, the real-time event list, and the     *)
(* enabling of the device (commu.c, net.c, main.c).  Packets and answers     *)
(* travel over UDP: one that was sent may arrive late, a packet any number of *)
(* times, or never.  No connection password.                                *)
(***************************************************************************)
EXTENDS Integers, Sequences, FiniteSets

CONSTANTS
  PCs,          \* senders: address and port of a PC
  IdMax,        \* largest reply id: 65535
  PieceMax,     \* pieces of data that fit the buffer prepared
  RTCache,      \* MAXRTLOGSCACHE
  CmdBound,     \* bound of a run on the packets PCs make
  EventBound,   \* bound of a run on the events at the terminal
  SecondBound   \* bound of a run on the seconds that give session ids

ASSUME IdAssumption == IdMax \in Nat \ {0}
ASSUME RoomAssumption == PieceMax \in Nat /\ RTCache \in Nat
ASSUME LimitAssumption ==
  CmdBound \in Nat /\ EventBound \in Nat /\ SecondBound \in Nat

Commands == {"CONNECT", "EXIT", "WRITE", "DISABLEDEVICE", "ENABLEDEVICE",
             "PREPARE_DATA", "DATA", "FREE_DATA", "RTLOG_RRQ",
             "LARGE_FINGER_UPDATEFLAG", "UPDATE_FIREWARE"}

\* A packet of a PC.  Its number is the specification's own: a packet sent
\* again has the number it had.  arg: the timeout of DISABLEDEVICE and one more
\* (0 when it carries none), the piece carried by DATA, the lists received so
\* far in RTLOG_RRQ.
Packet == [pc : PCs, no : Nat, sid : Nat, id : 0 .. IdMax, cmd : Commands,
           arg : Nat]

\* An answer: the sender of the session, the packet it answers, and what it
\* carries (OK or error, the session for CONNECT, the events for RTLOG_RRQ).
Answer == [pc : PCs, to : Packet, ok : BOOLEAN, sid : Nat, events : Seq(Nat)]

\* TCommSession.  ans is LastSendData, <<>> when LastSendLen is 0; Buffer is
\* the pieces written to the buffer, or no buffer.
NoBuffer == <<-1>>
Session == [SessionID : Nat, LastReplyID : 0 .. IdMax,
            ans : Seq(Answer),
            TimeOutSec : Nat, Buffer : Seq(Int)]
NoSession == [SessionID |-> 0, LastReplyID |-> 0, ans |-> <<>>,
              TimeOutSec |-> 0, Buffer |-> NoBuffer]

VARIABLES
  sess,       \* CommSessions, by Sender; NoSession is not in the table
  Enabled,    \* EnableDevice: DeviceEnabled
  rtlist,     \* events since the last list was made
  LastRTLog,  \* LastRTLogBuf
  RTLogNum,
  isWriteFlashTmp, \* pieces of data go to the batch file, whoever sends them
  net,        \* packets sent to the terminal
  back,       \* answers under way to a PC
  pc,         \* what each PC knows
  made,       \* packets made
  events,     \* history: events raised
  ran,        \* history: how often ProcessCommand ran packet n
  evicted,    \* history: events AppendRTLog dropped
  loose,      \* history: PCs whose reply ids started or came round again
  blind,      \* history: PCs that gave up on a piece of the upload they are at
  mixed,      \* history: PCs that met the batch file or a boot on their session
  restarted,  \* history: RTLogNum started again after a list, or a boot
  pollers     \* history: PCs whose RTLOG_RRQ was run

device == <<sess, Enabled, rtlist, LastRTLog, RTLogNum, isWriteFlashTmp>>
polling == <<restarted, pollers>>
vars == <<device, net, back, pc, made, events, ran, evicted, loose, blind, mixed,
          polling>>

\* A PC: its session, the next reply id, the packet it waits for (or <<>>),
\* the pieces of its upload it has sent (-1: no upload), the events received
\* and the lists they came in.
PC == [sid : Nat, id : 0 .. IdMax, wait : Seq(Packet),
       sent : Int, got : Seq(Nat), lists : Nat]

TypeOK ==
  /\ sess \in [PCs -> Session]
  /\ Enabled \in BOOLEAN
  /\ rtlist \in Seq(Nat) /\ LastRTLog \in Seq(Nat) /\ RTLogNum \in Nat
  /\ isWriteFlashTmp \in BOOLEAN
  /\ net \subseteq Packet /\ back \subseteq Answer
  /\ pc \in [PCs -> PC]
  /\ made \in Nat /\ events \in Nat
  /\ ran \in [1 .. CmdBound -> Nat]
  /\ evicted \subseteq Nat
  /\ loose \subseteq PCs /\ blind \subseteq PCs /\ mixed \subseteq PCs
  /\ restarted \in BOOLEAN /\ pollers \subseteq PCs

Init ==
  /\ sess = [p \in PCs |-> NoSession]
  /\ Enabled = TRUE
  /\ rtlist = <<>> /\ LastRTLog = <<>> /\ RTLogNum = 0
  /\ isWriteFlashTmp = FALSE
  /\ net = {} /\ back = {}
  /\ pc = [p \in PCs |-> [sid |-> 0, id |-> 0, wait |-> <<>>, sent |-> -1,
                          got |-> <<>>, lists |-> 0]]
  /\ made = 0 /\ events = 0
  /\ ran = [n \in 1 .. CmdBound |-> 0]
  /\ evicted = {} /\ loose = {} /\ blind = {} /\ mixed = {}
  /\ restarted = FALSE /\ pollers = {}

Connected(p) == sess[p].SessionID # 0
Used == {sess[p].SessionID : p \in PCs}

-----------------------------------------------------------------------------
\* The PC (external): one command at a time, each with the next reply id, the
\* first one after CONNECT with 0.

NextId(i) == IF i = IdMax THEN 0 ELSE i + 1

\* No packet and no answer stays under way until its id comes again, or until
\* the PC calls up again.
Send(p, cmd, arg) ==
  LET k == [pc |-> p, no |-> made + 1, cmd |-> cmd, arg |-> arg,
            sid |-> IF cmd = "CONNECT" THEN 0 ELSE pc[p].sid,
            id  |-> IF cmd = "CONNECT" THEN IdMax ELSE pc[p].id]
  IN  /\ made < CmdBound
      /\ made' = made + 1
      /\ net' = {l \in net : l.pc # p \/ (cmd # "CONNECT" /\ l.id # k.id)}
                  \cup {k}
      /\ back' = {a \in back : a.pc # p \/ (cmd # "CONNECT" /\ a.to.id # k.id)}
      /\ loose' = IF cmd # "CONNECT" /\ k.id = IdMax THEN loose \cup {p} ELSE loose
      /\ pc' = [pc EXCEPT ![p].wait = <<k>>, ![p].id = NextId(k.id),
                           ![p].sid = k.sid,
                           ![p].sent = IF cmd = "DATA" THEN arg ELSE -1]

\* A PC calls its session up, with no data prepared and no list received.
CallUp(p) ==
  /\ pc[p].wait = <<>>
  /\ Send(p, "CONNECT", 0)
  /\ mixed' = IF sess[p].Buffer = NoBuffer THEN mixed \ {p} ELSE mixed
  /\ UNCHANGED <<device, events, ran, evicted, blind, polling>>

\* It sends a command; pieces of data follow PREPARE_DATA with nothing else
\* in between.
Command(p) ==
  /\ pc[p].wait = <<>> /\ pc[p].sid # 0
  /\ \/ \E cmd \in {"EXIT", "WRITE", "ENABLEDEVICE", "PREPARE_DATA", "FREE_DATA",
                     "LARGE_FINGER_UPDATEFLAG", "UPDATE_FIREWARE"} : Send(p, cmd, 0)
     \/ \E timeout \in {0, 1, 2} : Send(p, "DISABLEDEVICE", timeout)
     \/ pc[p].sent >= 0 /\ Send(p, "DATA", pc[p].sent + 1)
     \/ Send(p, "RTLOG_RRQ", pc[p].lists)
  /\ UNCHANGED <<device, events, ran, evicted, blind, mixed, polling>>

\* An answer with the reply id it waits for arrives.
Accepted(p, a) ==
  LET cmd == pc[p].wait[1].cmd
  IN  [sid   |-> IF cmd = "CONNECT" THEN a.sid
                 ELSE IF cmd = "EXIT" THEN 0 ELSE pc[p].sid,
       id    |-> pc[p].id,
       wait  |-> <<>>,
       sent  |-> IF cmd = "PREPARE_DATA" /\ a.ok THEN 0
                 ELSE IF cmd = "DATA" /\ a.ok THEN pc[p].sent ELSE -1,
       got   |-> pc[p].got \o a.events,
       lists |-> IF cmd = "CONNECT" THEN 0
                 ELSE IF a.events # <<>> THEN pc[p].lists + 1 ELSE pc[p].lists]

Hear(p) ==
  /\ pc[p].wait # <<>>
  /\ \E a \in back :
       /\ a.pc = p /\ a.to.id = pc[p].wait[1].id
       /\ pc' = [pc EXCEPT ![p] = Accepted(p, a)]
       /\ back' = back \ {a}
       /\ blind' = IF pc[p].wait[1].cmd = "PREPARE_DATA" /\ a.ok THEN blind \ {p} ELSE blind
  /\ UNCHANGED <<device, net, made, events, ran, evicted, loose, mixed, polling>>

\* It stops waiting, and goes on with what comes next; the answer may still
\* come.
GiveUp(p) ==
  /\ pc[p].wait # <<>>
  /\ pc' = [pc EXCEPT ![p].wait = <<>>]
  /\ blind' = IF pc[p].wait[1].cmd = "DATA" THEN blind \cup {p} ELSE blind
  /\ UNCHANGED <<device, net, back, made, events, ran, evicted, loose, mixed, polling>>

-----------------------------------------------------------------------------
\* The terminal.

\* session->Send.
Reply(a) == back \cup {a}

\* Fault: a session found keeps its stored answer.
CreateSessionKept(p, id) ==
  IF Connected(p) THEN [sess[p] EXCEPT !.LastReplyID = 0]
  ELSE [NoSession EXCEPT !.SessionID = id]

\* CreateSession finds the session of this sender or makes one, whose id is the
\* second it is made in (it waits for one no session has), and resets what
\* belongs to the reply ids.
CreateSession(p, id) ==
  IF Connected(p) THEN [sess[p] EXCEPT !.LastReplyID = 0, !.ans = <<>>]
  ELSE [NoSession EXCEPT !.SessionID = id]

\* EthCommCheck, a CONNECT.  RTLogNum starts again for all PCs.
Connect(k, id) ==
  /\ k.cmd = "CONNECT" /\ ran[k.no] < 2
  /\ Connected(k.pc) \/ id \notin Used
  /\ sess' = [sess EXCEPT ![k.pc] = CreateSession(k.pc, id)]
  /\ RTLogNum' = 0
  /\ back' = Reply([pc |-> k.pc, to |-> k, ok |-> TRUE, sid |-> sess'[k.pc].SessionID,
                    events |-> <<>>])
  /\ loose' = IF ran[k.no] > 0 THEN loose \cup {k.pc} ELSE loose
  /\ ran' = [ran EXCEPT ![k.no] = @ + 1]
  /\ restarted' = (restarted \/ RTLogNum > 0)
  /\ UNCHANGED <<Enabled, rtlist, LastRTLog, isWriteFlashTmp, net, pc, made, events,
                 evicted, blind, mixed, pollers>>

\* Fault: an older id is accepted.
NotOld(p, k) == FALSE

\* RunCommand: the packet has the id of the last one answered ...
Repeated(p, k) == k.id = sess[p].LastReplyID /\ sess[p].ans # <<>>

\* ... or an older one, unless the last was the largest there is.
Old(p, k) == k.id < sess[p].LastReplyID /\ sess[p].LastReplyID # IdMax

\* GetSession: the session the packet names, whoever sent the packet; answers
\* go to the sender of the session.
Known(k) == k.cmd # "CONNECT" /\ k.sid \in Used \ {0}
Owner(k) == CHOOSE p \in PCs : sess[p].SessionID = k.sid

\* The stored answer is sent again.
Resend(k) ==
  /\ Known(k) /\ Repeated(Owner(k), k)
  /\ back' = Reply(sess[Owner(k)].ans[1])
  /\ UNCHANGED <<device, net, pc, made, events, ran, evicted, loose, blind, mixed,
                 polling>>

\* Fault: the id of the packet answered is not kept with the answer.
KeptWithoutId(s, k, a) == [s EXCEPT !.ans = <<a>>]

Kept(s, k, a) == [s EXCEPT !.LastReplyID = k.id, !.ans = <<a>>]

\* What RunCommand does around ProcessCommand when that has an answer.
Answered(k, s, ok, list) ==
  LET p == Owner(k)
      a == [pc |-> p, to |-> k, ok |-> ok, sid |-> 0, events |-> list]
  IN  /\ ~Repeated(p, k) /\ ~Old(p, k)
      /\ ran[k.no] < 2
      /\ sess' = [sess EXCEPT ![p] = Kept(s, k, a)]
      /\ back' = Reply(a)
      /\ ran' = [ran EXCEPT ![k.no] = @ + 1]
      /\ loose' = IF sess[p].LastReplyID = IdMax \/ p # k.pc
                  THEN loose \cup {p, k.pc} ELSE loose
      /\ UNCHANGED <<net, pc, made, events, evicted, blind>>

\* A command that changes the data of the terminal.
Write(k) ==
  /\ k.cmd = "WRITE" /\ Known(k)
  /\ Answered(k, sess[Owner(k)], TRUE, <<>>)
  /\ UNCHANGED <<Enabled, rtlist, LastRTLog, RTLogNum, isWriteFlashTmp, mixed, polling>>

\* The time is set only by a packet that carries one.
TimeGiven(s, k) == IF k.arg = 0 THEN s ELSE [s EXCEPT !.TimeOutSec = k.arg - 1]

DisableDevice(k) ==
  /\ k.cmd = "DISABLEDEVICE" /\ Known(k)
  /\ Answered(k, TimeGiven(sess[Owner(k)], k), TRUE, <<>>)
  /\ Enabled' = FALSE
  /\ UNCHANGED <<rtlist, LastRTLog, RTLogNum, isWriteFlashTmp, mixed, polling>>

EnableDevice(k) ==
  /\ k.cmd = "ENABLEDEVICE" /\ Known(k)
  /\ Answered(k, sess[Owner(k)], TRUE, <<>>)
  /\ Enabled' = TRUE
  /\ UNCHANGED <<rtlist, LastRTLog, RTLogNum, isWriteFlashTmp, mixed, polling>>

\* The buffer the session has is freed, and an empty one made.
Prepared(s) == [s EXCEPT !.Buffer = <<>>]

\* Memory may be short; with the batch file open instead, that may fail too.
PrepareData(k) ==
  LET s == sess[Owner(k)]
  IN  /\ k.cmd = "PREPARE_DATA" /\ Known(k)
      /\ \/ /\ ~isWriteFlashTmp
            /\ \/ Answered(k, Prepared(s), TRUE, <<>>)
               \/ Answered(k, [s EXCEPT !.Buffer = NoBuffer], FALSE, <<>>)
            /\ UNCHANGED mixed
         \/ /\ isWriteFlashTmp
            /\ \E ok \in BOOLEAN : Answered(k, s, ok, <<>>)
            /\ mixed' = mixed \cup {Owner(k)}
      /\ UNCHANGED <<Enabled, rtlist, LastRTLog, RTLogNum, isWriteFlashTmp, polling>>

\* Only the id behind the last one counts (never across the largest id), and
\* only what the buffer has room for.
NextPiece(s, k) == s.LastReplyID + 1 = k.id /\ Len(s.Buffer) < PieceMax

\* A piece for the batch file is written without a look at its id.
Data(k) ==
  LET s == sess[Owner(k)]
  IN  /\ k.cmd = "DATA" /\ Known(k)
      /\ \/ /\ ~isWriteFlashTmp /\ s.Buffer # NoBuffer
            /\ IF NextPiece(s, k)
               THEN Answered(k, [s EXCEPT !.Buffer = Append(@, k.arg)], TRUE, <<>>)
               ELSE Answered(k, s, FALSE, <<>>)
            /\ UNCHANGED mixed
         \/ /\ isWriteFlashTmp
            /\ \E ok \in BOOLEAN : Answered(k, s, ok, <<>>)
            /\ mixed' = mixed \cup {Owner(k)}
      /\ UNCHANGED <<Enabled, rtlist, LastRTLog, RTLogNum, isWriteFlashTmp, polling>>

\* CMD_LARGE_FINGER_UPDATEFLAG: from now on pieces go to the batch file.
UpdateFlag(k) ==
  /\ k.cmd = "LARGE_FINGER_UPDATEFLAG" /\ Known(k)
  /\ Answered(k, sess[Owner(k)], TRUE, <<>>)
  /\ isWriteFlashTmp' = TRUE
  /\ UNCHANGED <<Enabled, rtlist, LastRTLog, RTLogNum, mixed, polling>>

\* CMD_UPDATE_FIREWARE with UPDATE_BATCHUSERDATA carries out the batch, from
\* the file, which goes with it, or from the buffer.
UpdateFireware(k) ==
  /\ k.cmd = "UPDATE_FIREWARE" /\ Known(k)
  /\ isWriteFlashTmp \/ sess[Owner(k)].Buffer # NoBuffer
  /\ Answered(k, sess[Owner(k)], TRUE, <<>>)
  /\ isWriteFlashTmp' = FALSE
  /\ UNCHANGED <<Enabled, rtlist, LastRTLog, RTLogNum, mixed, polling>>

FreeData(k) ==
  /\ k.cmd = "FREE_DATA" /\ Known(k)
  /\ Answered(k, [sess[Owner(k)] EXCEPT !.Buffer = NoBuffer], TRUE, <<>>)
  /\ UNCHANGED <<Enabled, rtlist, LastRTLog, RTLogNum, isWriteFlashTmp, mixed, polling>>

\* Fault: a list is never sent again.
NeverAgain(k) == FALSE

\* CMD_RTLOG_RRQ: the PC has fewer lists than were made, so the last one goes
\* out again; otherwise the events since then become a list.
ListAgain(k) == RTLogNum > k.arg

RTLog(k) ==
  /\ k.cmd = "RTLOG_RRQ" /\ Known(k)
  /\ Answered(k, sess[Owner(k)], TRUE, IF ListAgain(k) THEN LastRTLog ELSE rtlist)
  /\ IF ListAgain(k) \/ rtlist = <<>>
     THEN UNCHANGED <<rtlist, LastRTLog, RTLogNum>>
     ELSE /\ rtlist' = <<>>
          /\ LastRTLog' = rtlist
          /\ RTLogNum' = RTLogNum + 1
  /\ pollers' = pollers \cup {k.pc}
  /\ UNCHANGED <<Enabled, isWriteFlashTmp, mixed, restarted>>

\* Fault: the device is left as it is when a session ends.
LeaveEnabled(others) == Enabled

\* CMD_EXIT is answered, then FreeSession; the last session to go enables the
\* device.
EnabledAfterFree(others) == IF others = {} THEN TRUE ELSE Enabled

Exit(k) ==
  LET p == Owner(k)
      a == [pc |-> p, to |-> k, ok |-> TRUE, sid |-> 0, events |-> <<>>]
  IN  /\ k.cmd = "EXIT" /\ Known(k) /\ ~Repeated(p, k) /\ ~Old(p, k)
      /\ sess' = [sess EXCEPT ![p] = NoSession]
      /\ Enabled' = EnabledAfterFree({q \in PCs \ {p} : Connected(q)})
      /\ back' = Reply(a)
      /\ ran' = [ran EXCEPT ![k.no] = @ + 1]
      /\ loose' = IF p # k.pc THEN loose \cup {p, k.pc} ELSE loose
      /\ UNCHANGED <<rtlist, LastRTLog, RTLogNum, isWriteFlashTmp, net, pc, made,
                     events, evicted, blind, mixed, polling>>

\* CheckSessionTimeOut, from the timer: the session has been silent for the
\* time it gave with DISABLEDEVICE.
TimeOut(p) ==
  /\ sess[p].TimeOutSec > 0
  /\ Enabled' = TRUE
  /\ sess' = [sess EXCEPT ![p].TimeOutSec = 0]
  /\ UNCHANGED <<rtlist, LastRTLog, RTLogNum, isWriteFlashTmp, net, back, pc, made,
                 events, ran, evicted, loose, blind, mixed, polling>>

\* Something happens at the terminal: AppendRTLog, which drops the oldest
\* event when more than RTCache wait.
AppendRTLog ==
  /\ events < EventBound
  /\ events' = events + 1
  /\ IF Len(rtlist) > RTCache
     THEN /\ rtlist' = Append(Tail(rtlist), events + 1)
          /\ evicted' = evicted \cup {Head(rtlist)}
     ELSE /\ rtlist' = Append(rtlist, events + 1)
          /\ UNCHANGED evicted
  /\ UNCHANGED <<sess, Enabled, LastRTLog, RTLogNum, isWriteFlashTmp, net, back, pc,
                 made, ran, loose, blind, mixed, polling>>

\* The power comes back: all of this was in memory.
Boot ==
  /\ sess' = [p \in PCs |-> NoSession]
  /\ Enabled' = TRUE
  /\ rtlist' = <<>> /\ LastRTLog' = <<>> /\ RTLogNum' = 0
  /\ isWriteFlashTmp' = FALSE
  /\ mixed' = mixed \cup {p \in PCs : Connected(p)}
  /\ restarted' = TRUE
  /\ UNCHANGED <<net, back, pc, made, events, ran, evicted, loose, blind, pollers>>

\* Both commands follow session->Buffer without a test for NULL: the program
\* ends on the spot, and is there again after a boot.
NoBufferThere(k) ==
  /\ k.cmd \in {"DATA", "UPDATE_FIREWARE"} /\ Known(k)
  /\ ~Repeated(Owner(k), k) /\ ~Old(Owner(k), k)
  /\ ~isWriteFlashTmp /\ sess[Owner(k)].Buffer = NoBuffer
  /\ Boot

Receive(k) ==
  \/ \E id \in 1 .. SecondBound : Connect(k, id)
  \/ Resend(k) \/ Write(k) \/ DisableDevice(k) \/ EnableDevice(k)
  \/ PrepareData(k) \/ Data(k) \/ FreeData(k) \/ RTLog(k) \/ Exit(k)
  \/ UpdateFlag(k) \/ UpdateFireware(k) \/ NoBufferThere(k)

Next ==
  \/ \E p \in PCs : CallUp(p) \/ Command(p) \/ Hear(p) \/ GiveUp(p) \/ TimeOut(p)
  \/ \E k \in net : Receive(k)
  \/ AppendRTLog
  \/ Boot

Spec == Init /\ [][Next]_vars

-----------------------------------------------------------------------------

\* However often a packet arrives and in whatever order, the terminal runs its
\* command at most once, as long as the PC's reply ids only grow on the session.
RunsOnce ==
  \A k \in net : k.cmd # "CONNECT" /\ k.pc \notin loose => ran[k.no] <= 1

\* The answer a PC takes is the answer to the packet it waits for, although it
\* knows answers only by their ids, and answers come late, also when it has given
\* up on others or called up again on a session that still has the answer to an earlier
\* packet with the same id.
AnswerIsOwn ==
  \A a \in back : LET w == pc[a.pc].wait IN
    a.pc \notin loose /\ w # <<>> /\ a.to.id = w[1].id => a.to = w[1]

\* The buffer of a session holds the pieces the PC sent, in order and without
\* a gap or a repetition, under the same condition and while the PC goes on only
\* behind a piece that was answered: a piece refused for want of the one before
\* it still becomes the last one, so that the one behind it would be taken.  The
\* batch file takes any piece; a buffer whose upload met it has gaps, too.
UploadInOrder ==
  \A p \in PCs \ (loose \cup blind \cup mixed) :
    sess[p].Buffer # NoBuffer =>
      \A i \in 1 .. Len(sess[p].Buffer) : sess[p].Buffer[i] = i

\* What the PC has got, the list it has not got, and the next list.
Open(p) == IF RTLogNum > pc[p].lists THEN LastRTLog ELSE <<>>
Stream(p) == pc[p].got \o Open(p) \o rtlist

\* Each event reaches the polling PC once: it has it already, or it is in the
\* list the PC has not got, or it waits for the next list, or it was dropped
\* for want of room.  This needs one polling PC that does not call up again, and
\* a terminal that is not started again.
EventsDelivered ==
  \A p \in PCs \ loose : ~restarted /\ pollers \subseteq {p} =>
    /\ \A i, j \in 1 .. Len(Stream(p)) : i < j => Stream(p)[i] < Stream(p)[j]
    /\ {Stream(p)[i] : i \in 1 .. Len(Stream(p))} \cup evicted = 1 .. events

\* A device that takes no verifications has a PC in session that can enable it.
DisabledIsHeld == ~Enabled => \E p \in PCs : Connected(p)

=============================================================================
