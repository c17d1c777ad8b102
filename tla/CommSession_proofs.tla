-------------------------- MODULE CommSession_proofs --------------------------
(***************************************************************************)
(* What is proved of CommSession, for every number of PCs, range of reply   *)
(* ids and size of buffers: the types, that a device that takes no           *)
(* verifications can be enabled again, that a command runs at most once,     *)
(* that an answer is that to the packet waited for, that an upload has its   *)
(* pieces in order, and that the events reach a PC that polls alone once and *)
(* in order.                                                                 *)
(***************************************************************************)
EXTENDS CommSession, TLAPS

-----------------------------------------------------------------------------
(* What the actions do to the state of one PC and its session.              *)

LEMMA OwnerFound ==
  ASSUME NEW k, Known(k)
  PROVE  /\ Owner(k) \in PCs /\ sess[Owner(k)].SessionID = k.sid
         /\ k.sid # 0 /\ k.cmd # "CONNECT"
BY DEF Known, Used, Owner

\* A PC has sent packet k with this command.
Sent(p, cmd, arg, k) ==
  /\ k.pc = p /\ k.no = made + 1 /\ k.cmd = cmd /\ k.arg = arg
  /\ k.sid = (IF cmd = "CONNECT" THEN 0 ELSE pc[p].sid)
  /\ k.id = (IF cmd = "CONNECT" THEN IdMax ELSE pc[p].id)
  /\ made < CmdBound /\ made' = made + 1
  /\ \A l : l \in net' <=>
       \/ l = k
       \/ l \in net /\ (l.pc # p \/ (cmd # "CONNECT" /\ l.id # k.id))
  /\ back' = {a \in back : a.pc # p \/ (cmd # "CONNECT" /\ a.to.id # k.id)}
  /\ loose' = (IF cmd # "CONNECT" /\ k.id = IdMax THEN loose \cup {p} ELSE loose)
  /\ pc' \in [PCs -> PC]
  /\ \A q \in PCs \ {p} : pc'[q] = pc[q]
  /\ pc'[p].wait = <<k>> /\ pc'[p].id = NextId(k.id) /\ pc'[p].sid = k.sid
  /\ pc'[p].sent = (IF cmd = "DATA" THEN arg ELSE -1)
  /\ pc'[p].got = pc[p].got /\ pc'[p].lists = pc[p].lists

\* When a PC may send.
MaySend(p, cmd, arg) ==
  /\ pc[p].wait = <<>>
  /\ cmd # "CONNECT" => pc[p].sid # 0
  /\ cmd = "DATA" => pc[p].sent >= 0 /\ arg = pc[p].sent + 1
  /\ cmd = "RTLOG_RRQ" => arg = pc[p].lists
  /\ mixed' = (IF cmd = "CONNECT" /\ sess[p].Buffer = NoBuffer THEN mixed \ {p} ELSE mixed)
  /\ UNCHANGED <<device, events, ran, evicted, blind, polling>>

LEMMA SendPacket ==
  ASSUME TypeOK, NEW p \in PCs, NEW cmd \in Commands, NEW arg \in Nat, Send(p, cmd, arg)
  PROVE  \E k \in Packet : Sent(p, cmd, arg, k)
<1> DEFINE k == [pc |-> p, no |-> made + 1, cmd |-> cmd, arg |-> arg,
                 sid |-> IF cmd = "CONNECT" THEN 0 ELSE pc[p].sid,
                 id  |-> IF cmd = "CONNECT" THEN IdMax ELSE pc[p].id]
           new == [pc[p] EXCEPT !.wait = <<k>>, !.id = NextId(k.id), !.sid = k.sid,
                                !.sent = IF cmd = "DATA" THEN arg ELSE -1]
<1>1. made \in Nat /\ pc \in [PCs -> PC] /\ pc[p] \in PC
  BY DEF TypeOK
<1>2. k \in Packet
  BY <1>1, IdAssumption DEF Packet, PC
<1>3. NextId(k.id) \in 0 .. IdMax
  BY <1>2, IdAssumption DEF Packet, NextId
<1>4. new \in PC
  <2>1. <<k>> \in Seq(Packet) /\ k.sid \in Nat
    BY <1>2 DEF Packet
  <2>2. (IF cmd = "DATA" THEN arg ELSE -1) \in Int
    OBVIOUS
  <2> HIDE DEF k
  <2> QED
    BY <1>1, <1>3, <2>1, <2>2 DEF PC
<1>5. pc' = [pc EXCEPT ![p] = new]
  BY <1>1 DEF Send, PC
<1>6. /\ pc' \in [PCs -> PC] /\ pc'[p] = new /\ \A q \in PCs \ {p} : pc'[q] = pc[q]
  BY <1>1, <1>4, <1>5
<1>7. new.wait = <<k>> /\ new.id = NextId(k.id) /\ new.sid = k.sid
      /\ new.sent = (IF cmd = "DATA" THEN arg ELSE -1)
      /\ new.got = pc[p].got /\ new.lists = pc[p].lists
  BY <1>1 DEF PC
<1>8. /\ made < CmdBound /\ made' = made + 1
      /\ net' = {l \in net : l.pc # p \/ (cmd # "CONNECT" /\ l.id # k.id)} \cup {k}
      /\ back' = {a \in back : a.pc # p \/ (cmd # "CONNECT" /\ a.to.id # k.id)}
      /\ loose' = IF cmd # "CONNECT" /\ k.id = IdMax THEN loose \cup {p} ELSE loose
  BY DEF Send
<1>9. k.pc = p /\ k.no = made + 1 /\ k.cmd = cmd /\ k.arg = arg
      /\ k.sid = (IF cmd = "CONNECT" THEN 0 ELSE pc[p].sid)
      /\ k.id = (IF cmd = "CONNECT" THEN IdMax ELSE pc[p].id)
  OBVIOUS
<1> HIDE DEF k, new
<1>10. Sent(p, cmd, arg, k)
  BY <1>6, <1>7, <1>8, <1>9 DEF Sent
<1> QED
  BY <1>2, <1>10

LEMMA PCSends ==
  ASSUME TypeOK, NEW p \in PCs, CallUp(p) \/ Command(p)
  PROVE  \E cmd \in Commands, arg \in Nat, k \in Packet :
           MaySend(p, cmd, arg) /\ Sent(p, cmd, arg, k)
<1>1. \E cmd \in Commands, arg \in Nat : MaySend(p, cmd, arg) /\ Send(p, cmd, arg)
  <2>1. pc[p] \in PC
    BY DEF TypeOK
  <2>2. CASE CallUp(p)
    <3>1. MaySend(p, "CONNECT", 0) /\ Send(p, "CONNECT", 0)
      BY <2>2 DEF CallUp, MaySend
    <3> QED
      BY <3>1 DEF Commands
  <2>3. CASE Command(p)
    <3>1. pc[p].wait = <<>> /\ pc[p].sid # 0
          /\ UNCHANGED <<device, events, ran, evicted, blind, mixed, polling>>
      BY <2>3 DEF Command
    <3>2. CASE \E cmd \in {"EXIT", "WRITE", "ENABLEDEVICE", "PREPARE_DATA", "FREE_DATA",
                             "LARGE_FINGER_UPDATEFLAG", "UPDATE_FIREWARE"} :
                  Send(p, cmd, 0)
      BY <3>1, <3>2 DEF MaySend, Commands
    <3>3. CASE \E timeout \in {0, 1, 2} : Send(p, "DISABLEDEVICE", timeout)
      BY <3>1, <3>3 DEF MaySend, Commands
    <3>4. CASE pc[p].sent >= 0 /\ Send(p, "DATA", pc[p].sent + 1)
      <4>1. pc[p].sent + 1 \in Nat
        BY <2>1, <3>4 DEF PC
      <4>2. MaySend(p, "DATA", pc[p].sent + 1)
        BY <3>1, <3>4 DEF MaySend
      <4> QED
        BY <3>4, <4>1, <4>2 DEF Commands
    <3>5. CASE Send(p, "RTLOG_RRQ", pc[p].lists)
      <4>1. pc[p].lists \in Nat
        BY <2>1 DEF PC
      <4> QED
        BY <3>1, <3>5, <4>1 DEF MaySend, Commands
    <3> QED
      BY <2>3, <3>2, <3>3, <3>4, <3>5 DEF Command
  <2> QED
    BY <2>2, <2>3
<1> QED
  BY <1>1, SendPacket

\* Sessions differ only in the time kept for DISABLEDEVICE.
SameSession(s, t) ==
  /\ s.SessionID = t.SessionID /\ s.LastReplyID = t.LastReplyID
  /\ s.ans = t.ans /\ s.Buffer = t.Buffer

\* What a command does to the buffer of its session, away from the batch file.
Filled(k, s, t, ok) ==
  IF k.cmd = "PREPARE_DATA" THEN t.Buffer = (IF ok THEN <<>> ELSE NoBuffer)
  ELSE IF k.cmd = "FREE_DATA" THEN t.Buffer = NoBuffer
  ELSE IF k.cmd = "DATA"
       THEN /\ s.Buffer # NoBuffer
            /\ \/ NextPiece(s, k) /\ t.Buffer = Append(s.Buffer, k.arg)
               \/ ~NextPiece(s, k) /\ ~ok /\ t.Buffer = s.Buffer
  ELSE t.Buffer = s.Buffer

\* The events in the answer.
Told(k) ==
  IF k.cmd # "RTLOG_RRQ" THEN <<>> ELSE IF ListAgain(k) THEN LastRTLog ELSE rtlist

\* The terminal has run command k on session p and keeps the answer a.
Runs(k, p, t, a) ==
  /\ ~Repeated(p, k) /\ ~Old(p, k)
  /\ t.SessionID = sess[p].SessionID /\ t.LastReplyID = k.id /\ t.ans = <<a>>
  /\ a.pc = p /\ a.to = k /\ a.sid = 0 /\ a.events = Told(k)
  /\ (mixed \subseteq mixed') /\ (p \notin mixed' => Filled(k, sess[p], t, a.ok))
  /\ sess' = [sess EXCEPT ![p] = t]
  /\ back' = Reply(a)
  /\ ran' = [ran EXCEPT ![k.no] = @ + 1]
  /\ loose' = (IF sess[p].LastReplyID = IdMax \/ p # k.pc
               THEN loose \cup {p, k.pc} ELSE loose)
  /\ UNCHANGED <<net, pc, made, events, evicted, blind>>

OnSession(k) ==
  Write(k) \/ DisableDevice(k) \/ EnableDevice(k) \/ PrepareData(k) \/ Data(k)
    \/ FreeData(k) \/ RTLog(k) \/ UpdateFlag(k) \/ UpdateFireware(k)

LEMMA AnsweredRuns ==
  ASSUME TypeOK, NEW k \in Packet, Known(k), NEW s \in Session, NEW ok \in BOOLEAN,
         NEW list \in Seq(Nat), Answered(k, s, ok, list),
         s.SessionID = sess[Owner(k)].SessionID,
         mixed \subseteq mixed', Owner(k) \notin mixed' => Filled(k, sess[Owner(k)], s, ok),
         list = Told(k)
  PROVE  \E t \in Session, a \in Answer : Runs(k, Owner(k), t, a)
<1> DEFINE p == Owner(k)
           a == [pc |-> p, to |-> k, ok |-> ok, sid |-> 0, events |-> list]
           t == [s EXCEPT !.LastReplyID = k.id, !.ans = <<a>>]
<1>1. p \in PCs
  BY OwnerFound
<1>2. a \in Answer
  BY <1>1 DEF Answer
<1>3. t \in Session /\ t.SessionID = s.SessionID /\ t.LastReplyID = k.id /\ t.ans = <<a>>
      /\ t.Buffer = s.Buffer
  <2>1. k.id \in 0 .. IdMax
    BY DEF Packet
  <2>2. <<a>> \in Seq(Answer)
    BY <1>2
  <2> HIDE DEF a
  <2> QED
    BY <2>1, <2>2 DEF Session
<1>4. p \notin mixed' => Filled(k, sess[p], t, a.ok)
  <2>1. a.ok = ok
    OBVIOUS
  <2> HIDE DEF a, t, p
  <2> QED
    BY <1>3, <2>1 DEF Filled, p
<1>5. a.pc = p /\ a.to = k /\ a.sid = 0 /\ a.events = list
  OBVIOUS
<1>6. /\ ~Repeated(p, k) /\ ~Old(p, k)
      /\ sess' = [sess EXCEPT ![p] = t]
      /\ back' = Reply(a)
      /\ ran' = [ran EXCEPT ![k.no] = @ + 1]
      /\ loose' = IF sess[p].LastReplyID = IdMax \/ p # k.pc
                  THEN loose \cup {p, k.pc} ELSE loose
      /\ UNCHANGED <<net, pc, made, events, evicted, blind>>
  BY DEF Answered, Kept
<1> HIDE DEF a, t, p
<1>7. Runs(k, p, t, a)
  BY <1>3, <1>4, <1>5, <1>6 DEF Runs, p
<1> QED
  BY <1>2, <1>3, <1>7 DEF p

LEMMA CommandRuns ==
  ASSUME TypeOK, NEW k \in net, OnSession(k)
  PROVE  /\ Known(k)
         /\ \E t \in Session, a \in Answer : Runs(k, Owner(k), t, a)
<1> DEFINE s == sess[Owner(k)]
<1>1. k \in Packet /\ Known(k) /\ s \in Session /\ Owner(k) \in PCs
  BY OwnerFound DEF TypeOK, OnSession, Write, DisableDevice, EnableDevice, PrepareData,
     Data, FreeData, RTLog, UpdateFlag, UpdateFireware
<1>2. /\ s.SessionID \in Nat /\ s.LastReplyID \in 0 .. IdMax /\ s.ans \in Seq(Answer)
      /\ s.TimeOutSec \in Nat /\ s.Buffer \in Seq(Int) /\ k.arg \in Nat
      /\ rtlist \in Seq(Nat) /\ LastRTLog \in Seq(Nat)
  BY <1>1 DEF Session, Packet, TypeOK
<1> DEFINE Goal == \E t \in Session, a \in Answer : Runs(k, Owner(k), t, a)
<1>a. ASSUME NEW r \in Session, NEW ok \in BOOLEAN, NEW list \in Seq(Nat),
             Answered(k, r, ok, list), r.SessionID = s.SessionID,
             mixed \subseteq mixed', Owner(k) \notin mixed' => Filled(k, s, r, ok),
             list = Told(k)
      PROVE  Goal
  BY <1>1, <1>a, AnsweredRuns
<1>b. <<>> \in Seq(Nat) /\ TRUE \in BOOLEAN /\ FALSE \in BOOLEAN
  OBVIOUS
<1> SUFFICES Goal
  BY <1>1
<1> HIDE DEF Goal
<1>d. k.cmd # "RTLOG_RRQ" => <<>> = Told(k)
  BY DEF Told
<1>c. ASSUME NEW ok \in BOOLEAN, NEW list \in Seq(Nat), Answered(k, s, ok, list),
             k.cmd \notin {"PREPARE_DATA", "FREE_DATA", "DATA"}, list = Told(k),
             mixed' = mixed
      PROVE  Goal
  <2>1. Filled(k, s, s, ok)
    BY <1>c DEF Filled
  <2> QED
    BY <1>1, <1>a, <1>c, <2>1
<1>3. CASE Write(k)
  <2>1. Answered(k, s, TRUE, <<>>) /\ k.cmd = "WRITE" /\ mixed' = mixed
    BY <1>3 DEF Write
  <2> QED
    BY <1>b, <1>c, <1>d, <2>1
<1>4. CASE DisableDevice(k)
  <2> DEFINE r == TimeGiven(s, k)
  <2>1. r \in Session /\ r.SessionID = s.SessionID /\ r.Buffer = s.Buffer
    <3>1. k.arg # 0 => k.arg - 1 \in Nat
      BY <1>2
    <3>2. CASE k.arg = 0
      BY <1>1, <3>2 DEF TimeGiven
    <3>3. CASE k.arg # 0
      BY <1>1, <1>2, <3>1, <3>3 DEF TimeGiven, Session
    <3> QED
      BY <3>2, <3>3
  <2>2. Answered(k, r, TRUE, <<>>) /\ k.cmd = "DISABLEDEVICE" /\ mixed' = mixed
    BY <1>4 DEF DisableDevice
  <2>3. Filled(k, s, r, TRUE)
    BY <2>1, <2>2 DEF Filled
  <2> HIDE DEF r
  <2> QED
    BY <1>a, <1>b, <1>d, <2>1, <2>2, <2>3
<1>5. CASE EnableDevice(k)
  <2>1. Answered(k, s, TRUE, <<>>) /\ k.cmd = "ENABLEDEVICE" /\ mixed' = mixed
    BY <1>5 DEF EnableDevice
  <2> QED
    BY <1>b, <1>c, <1>d, <2>1
<1>e. ASSUME NEW ok \in BOOLEAN, Answered(k, s, ok, <<>>), k.cmd # "RTLOG_RRQ",
             mixed' = mixed \cup {Owner(k)}
      PROVE  Goal
  BY <1>1, <1>a, <1>b, <1>d, <1>e
<1>6. CASE PrepareData(k)
  <2>1. k.cmd = "PREPARE_DATA"
    BY <1>6 DEF PrepareData
  <2>2. CASE \E ok \in BOOLEAN : Answered(k, s, ok, <<>>) /\ mixed' = mixed \cup {Owner(k)}
    BY <1>e, <2>1, <2>2
  <2>3. ASSUME NEW ok \in BOOLEAN, NEW c \in {<<>>, NoBuffer}, mixed' = mixed,
               c = (IF ok THEN <<>> ELSE NoBuffer),
               Answered(k, [s EXCEPT !.Buffer = c], ok, <<>>)
        PROVE  Goal
    <3> DEFINE r == [s EXCEPT !.Buffer = c]
    <3>1. c \in Seq(Int)
      <4>1. <<>> \in Seq(Int) /\ NoBuffer \in Seq(Int)
        BY DEF NoBuffer
      <4> QED
        BY <4>1
    <3>2. r \in Session /\ r.SessionID = s.SessionID /\ r.Buffer = c
      BY <1>1, <1>2, <3>1 DEF Session
    <3>3. Filled(k, s, r, ok)
      BY <2>1, <2>3, <3>2 DEF Filled
    <3>4. Answered(k, r, ok, <<>>)
      BY <2>3
    <3> HIDE DEF r
    <3> QED
      BY <1>a, <1>b, <1>d, <2>1, <2>3, <3>2, <3>3, <3>4
  <2>4. CASE Answered(k, Prepared(s), TRUE, <<>>) /\ mixed' = mixed
    <3>1. Answered(k, [s EXCEPT !.Buffer = <<>>], TRUE, <<>>)
      BY <2>4 DEF Prepared
    <3> QED
      BY <1>b, <2>3, <2>4, <3>1
  <2>5. CASE Answered(k, [s EXCEPT !.Buffer = NoBuffer], FALSE, <<>>) /\ mixed' = mixed
    BY <1>b, <2>3, <2>5
  <2> QED
    BY <1>6, <2>2, <2>4, <2>5 DEF PrepareData
<1>7. CASE Data(k)
  <2>1. k.cmd = "DATA"
    BY <1>7 DEF Data
  <2>2. CASE \E ok \in BOOLEAN : Answered(k, s, ok, <<>>) /\ mixed' = mixed \cup {Owner(k)}
    BY <1>e, <2>1, <2>2
  <2>3. CASE /\ s.Buffer # NoBuffer /\ NextPiece(s, k) /\ mixed' = mixed
             /\ Answered(k, [s EXCEPT !.Buffer = Append(@, k.arg)], TRUE, <<>>)
    <3> DEFINE r == [s EXCEPT !.Buffer = Append(s.Buffer, k.arg)]
    <3>1. Append(s.Buffer, k.arg) \in Seq(Int)
      BY <1>2
    <3>2. r \in Session /\ r.SessionID = s.SessionID /\ r.Buffer = Append(s.Buffer, k.arg)
      BY <1>1, <1>2, <3>1 DEF Session
    <3>3. [s EXCEPT !.Buffer = Append(@, k.arg)] = r
      BY <1>1 DEF Session
    <3>4. Answered(k, r, TRUE, <<>>)
      BY <2>3, <3>3
    <3>5. Filled(k, s, r, TRUE)
      BY <2>1, <2>3, <3>2 DEF Filled
    <3> HIDE DEF r
    <3> QED
      BY <1>a, <1>b, <1>d, <2>1, <2>3, <3>2, <3>4, <3>5
  <2>4. CASE /\ s.Buffer # NoBuffer /\ ~NextPiece(s, k) /\ mixed' = mixed
             /\ Answered(k, s, FALSE, <<>>)
    <3>1. Filled(k, s, s, FALSE)
      BY <2>1, <2>4 DEF Filled
    <3> QED
      BY <1>1, <1>a, <1>b, <1>d, <2>1, <2>4, <3>1
  <2> QED
    BY <1>7, <2>2, <2>3, <2>4 DEF Data
<1>8. CASE FreeData(k)
  <2> DEFINE r == [s EXCEPT !.Buffer = NoBuffer]
  <2>0. NoBuffer \in Seq(Int)
    BY DEF NoBuffer
  <2>1. r \in Session /\ r.SessionID = s.SessionID /\ r.Buffer = NoBuffer
    BY <1>1, <1>2, <2>0 DEF Session
  <2>2. Answered(k, r, TRUE, <<>>) /\ k.cmd = "FREE_DATA" /\ mixed' = mixed
    BY <1>8 DEF FreeData
  <2>3. Filled(k, s, r, TRUE)
    BY <2>1, <2>2 DEF Filled
  <2> HIDE DEF r
  <2> QED
    BY <1>a, <1>b, <1>d, <2>1, <2>2, <2>3
<1>9. CASE RTLog(k)
  <2> DEFINE list == IF ListAgain(k) THEN LastRTLog ELSE rtlist
  <2>1. list \in Seq(Nat)
    BY <1>2
  <2>2. Answered(k, s, TRUE, list) /\ k.cmd = "RTLOG_RRQ" /\ list = Told(k) /\ mixed' = mixed
    BY <1>9 DEF RTLog, Told
  <2> HIDE DEF list
  <2> QED
    BY <1>b, <1>c, <2>1, <2>2
<1>10. CASE UpdateFlag(k) \/ UpdateFireware(k)
  <2>1. /\ Answered(k, s, TRUE, <<>>) /\ mixed' = mixed
        /\ k.cmd \in {"LARGE_FINGER_UPDATEFLAG", "UPDATE_FIREWARE"}
    BY <1>10 DEF UpdateFlag, UpdateFireware
  <2> QED
    BY <1>b, <1>c, <1>d, <2>1
<1> QED
  BY <1>1, <1>3, <1>4, <1>5, <1>6, <1>7, <1>8, <1>9, <1>10 DEF OnSession

-----------------------------------------------------------------------------
(* The types.                                                               *)

LEMMA ReplyType ==
  ASSUME TypeOK, NEW a \in Answer
  PROVE  Reply(a) \subseteq Answer
BY DEF TypeOK, Reply

LEMMA NoSessionType == NoSession \in Session
<1>1. NoBuffer \in Seq(Int) /\ <<>> \in Seq(Answer) /\ 0 \in 0 .. IdMax /\ 0 \in Nat
  BY IdAssumption DEF NoBuffer
<1> QED
  BY <1>1 DEF NoSession, Session

LEMMA SessionType ==
  ASSUME TypeOK, NEW k \in net, NEW id \in Nat
  PROVE  /\ k \in Packet /\ k.pc \in PCs /\ k.no \in Nat
         /\ CreateSession(k.pc, id) \in Session
<1>1. k \in Packet /\ k.pc \in PCs /\ k.no \in Nat
  BY DEF TypeOK, Packet
<1>2. sess[k.pc] \in Session /\ 0 \in 0 .. IdMax /\ <<>> \in Seq(Answer) /\ NoBuffer \in Seq(Int)
  BY <1>1, IdAssumption DEF TypeOK, NoBuffer
<1>3. [sess[k.pc] EXCEPT !.LastReplyID = 0, !.ans = <<>>] \in Session
  BY <1>2 DEF Session
<1>4. [NoSession EXCEPT !.SessionID = id] \in Session
  BY <1>2 DEF Session, NoSession
<1> QED
  BY <1>1, <1>3, <1>4 DEF CreateSession

LEMMA RanType ==
  ASSUME TypeOK, NEW n
  PROVE  [ran EXCEPT ![n] = @ + 1] \in [1 .. CmdBound -> Nat]
<1>1. ran \in [1 .. CmdBound -> Nat]
  BY DEF TypeOK
<1>2. CASE n \in 1 .. CmdBound
  <2>1. ran[n] + 1 \in Nat
    BY <1>1, <1>2
  <2> QED
    BY <1>1, <2>1
<1>3. CASE n \notin 1 .. CmdBound
  BY <1>1, <1>3
<1> QED
  BY <1>2, <1>3

LEMMA RunsType ==
  ASSUME TypeOK, NEW k \in net, NEW p \in PCs, NEW t \in Session, NEW a \in Answer,
         Runs(k, p, t, a)
  PROVE  /\ sess' \in [PCs -> Session] /\ net' \subseteq Packet /\ back' \subseteq Answer
         /\ pc' \in [PCs -> PC] /\ made' \in Nat /\ events' \in Nat
         /\ ran' \in [1 .. CmdBound -> Nat] /\ evicted' \subseteq Nat
         /\ loose' \subseteq PCs /\ blind' \subseteq PCs
<1>1. k.pc \in PCs
  BY DEF TypeOK, Packet
<1>2. ran' \in [1 .. CmdBound -> Nat]
  BY RanType DEF Runs
<1>3. sess' \in [PCs -> Session]
  BY DEF TypeOK, Runs
<1>4. back' \subseteq Answer
  BY ReplyType DEF Runs
<1> QED
  BY <1>1, <1>2, <1>3, <1>4 DEF TypeOK, Runs

LEMMA TypeStep ==
  ASSUME TypeOK, [Next]_vars
  PROVE  TypeOK'
<1>1. CASE \E p \in PCs : CallUp(p) \/ Command(p)
  <2>1. PICK p \in PCs : CallUp(p) \/ Command(p)
    BY <1>1
  <2>2. PICK cmd \in Commands, arg \in Nat, k \in Packet :
          MaySend(p, cmd, arg) /\ Sent(p, cmd, arg, k)
    BY <2>1, PCSends
  <2>3. /\ net' \subseteq Packet /\ back' \subseteq Answer /\ made' \in Nat
        /\ loose' \subseteq PCs /\ pc' \in [PCs -> PC]
    BY <2>2 DEF Sent, TypeOK
  <2>4. mixed' \subseteq PCs
    BY <2>2 DEF MaySend, TypeOK
  <2> QED
    BY <2>2, <2>3, <2>4 DEF MaySend, TypeOK, device, polling
<1>2. CASE \E p \in PCs : Hear(p)
  <2>1. PICK p \in PCs : Hear(p)
    BY <1>2
  <2>2. PICK a \in back : pc' = [pc EXCEPT ![p] = Accepted(p, a)]
                          /\ blind' = IF pc[p].wait[1].cmd = "PREPARE_DATA" /\ a.ok
                                      THEN blind \ {p} ELSE blind
    BY <2>1 DEF Hear
  <2>3. a \in Answer /\ pc[p] \in PC
    BY DEF TypeOK
  <2>4. a.sid \in Nat /\ a.events \in Seq(Nat) /\ pc[p].sid \in Nat /\ pc[p].id \in 0 .. IdMax
        /\ pc[p].sent \in Int /\ pc[p].got \in Seq(Nat) /\ pc[p].lists \in Nat
    BY <2>3 DEF Answer, PC
  <2>5. pc[p].got \o a.events \in Seq(Nat) /\ <<>> \in Seq(Packet)
    BY <2>4
  <2>6. Accepted(p, a) \in PC
    BY <2>4, <2>5 DEF Accepted, PC
  <2>7. back' \subseteq Answer
    BY <2>1 DEF Hear, TypeOK
  <2> QED
    BY <2>1, <2>2, <2>6, <2>7 DEF Hear, TypeOK, device, polling
<1>3. CASE \E p \in PCs : GiveUp(p)
  <2>1. PICK p \in PCs : GiveUp(p)
    BY <1>3
  <2>2. [pc[p] EXCEPT !.wait = <<>>] \in PC
    <3>1. pc[p] \in PC /\ <<>> \in Seq(Packet)
      BY DEF TypeOK
    <3> QED
      BY <3>1 DEF PC
  <2>3. pc' \in [PCs -> PC] /\ back' \subseteq Answer /\ blind' \subseteq PCs
    BY <2>1, <2>2 DEF GiveUp, TypeOK
  <2> QED
    BY <2>1, <2>3 DEF GiveUp, TypeOK, device, polling
<1>4. CASE \E p \in PCs : TimeOut(p)
  <2>1. PICK p \in PCs : TimeOut(p)
    BY <1>4
  <2>2. [sess[p] EXCEPT !.TimeOutSec = 0] \in Session
    BY DEF TypeOK, Session
  <2>3. sess' \in [PCs -> Session]
    BY <2>1, <2>2 DEF TimeOut, TypeOK
  <2> QED
    BY <2>1, <2>3 DEF TimeOut, TypeOK, polling
<1>5. CASE \E k \in net, id \in 1 .. SecondBound : Connect(k, id)
  <2>1. PICK k \in net, id \in 1 .. SecondBound : Connect(k, id)
    BY <1>5
  <2>2. id \in Nat
    BY LimitAssumption
  <2> DEFINE a == [pc |-> k.pc, to |-> k, ok |-> TRUE, sid |-> sess'[k.pc].SessionID,
                   events |-> <<>>]
  <2>3. sess' \in [PCs -> Session] /\ sess'[k.pc] \in Session
    BY <2>1, <2>2, SessionType DEF Connect, TypeOK
  <2>4. a \in Answer
    <3>1. sess'[k.pc].SessionID \in Nat
      BY <2>3 DEF Session
    <3>2. k \in Packet /\ k.pc \in PCs /\ <<>> \in Seq(Nat)
      BY <2>2, SessionType
    <3> QED
      BY <3>1, <3>2 DEF Answer
  <2>5. back' \subseteq Answer
    BY <2>1, <2>4, ReplyType DEF Connect
  <2>6. ran' \in [1 .. CmdBound -> Nat]
    BY <2>1, RanType DEF Connect
  <2>7. loose' \subseteq PCs /\ RTLogNum' \in Nat
    BY <2>1, <2>2, SessionType DEF Connect, TypeOK
  <2>8. restarted' \in BOOLEAN
    BY <2>1, Zenon DEF Connect
  <2> QED
    BY <2>1, <2>3, <2>5, <2>6, <2>7, <2>8 DEF Connect, TypeOK
<1>6. CASE \E k \in net : Resend(k)
  <2>1. PICK k \in net : Resend(k)
    BY <1>6
  <2>2. Owner(k) \in PCs /\ sess[Owner(k)].ans # <<>> /\ sess[Owner(k)].ans \in Seq(Answer)
    BY <2>1, OwnerFound DEF Resend, Repeated, TypeOK, Session
  <2>3. sess[Owner(k)].ans[1] \in Answer
    BY <2>2
  <2>4. back' \subseteq Answer
    BY <2>1, <2>3, ReplyType DEF Resend
  <2> QED
    BY <2>1, <2>4 DEF Resend, TypeOK, device, polling
<1>7. CASE \E k \in net : OnSession(k)
  <2>1. PICK k \in net : OnSession(k)
    BY <1>7
  <2>2. PICK t \in Session, a \in Answer : Runs(k, Owner(k), t, a)
    BY <2>1, CommandRuns
  <2>3. Owner(k) \in PCs
    BY <2>1, CommandRuns, OwnerFound
  <2>4. k.pc \in PCs /\ rtlist \in Seq(Nat) /\ RTLogNum \in Nat
    BY DEF TypeOK, Packet
  <2>5. /\ Enabled' \in BOOLEAN /\ rtlist' \in Seq(Nat) /\ LastRTLog' \in Seq(Nat)
        /\ RTLogNum' \in Nat /\ restarted' \in BOOLEAN /\ pollers' \subseteq PCs
        /\ isWriteFlashTmp' \in BOOLEAN /\ mixed' \subseteq PCs
    <3>1. CASE Write(k) \/ FreeData(k)
      BY <3>1 DEF TypeOK, Write, FreeData, polling
    <3>2. CASE DisableDevice(k) \/ EnableDevice(k)
      BY <3>2 DEF TypeOK, DisableDevice, EnableDevice, polling
    <3>4. CASE PrepareData(k) \/ Data(k)
      <4>1. /\ UNCHANGED <<Enabled, rtlist, LastRTLog, RTLogNum, isWriteFlashTmp, polling>>
            /\ mixed' = mixed \/ mixed' = mixed \cup {Owner(k)}
        <5>1. CASE PrepareData(k)
          BY <5>1, Zenon DEF PrepareData
        <5>2. CASE Data(k)
          BY <5>2, Zenon DEF Data
        <5> QED
          BY <3>4, <5>1, <5>2
      <4> QED
        BY <2>3, <4>1 DEF TypeOK, polling
    <3>5. CASE UpdateFlag(k) \/ UpdateFireware(k)
      BY <3>5 DEF TypeOK, UpdateFlag, UpdateFireware, polling
    <3>3. CASE RTLog(k)
      <4>1. restarted' = restarted /\ pollers' = pollers \cup {k.pc}
        BY <3>3 DEF RTLog
      <4>2. rtlist' \in Seq(Nat) /\ LastRTLog' \in Seq(Nat) /\ RTLogNum' \in Nat
        <5>1. LastRTLog \in Seq(Nat) /\ <<>> \in Seq(Nat)
          BY DEF TypeOK
        <5>2. CASE ListAgain(k) \/ rtlist = <<>>
          BY <2>4, <3>3, <5>1, <5>2 DEF RTLog
        <5>3. CASE ~(ListAgain(k) \/ rtlist = <<>>)
          BY <2>4, <3>3, <5>1, <5>3 DEF RTLog
        <5> QED
          BY <5>2, <5>3
      <4>3. Enabled' = Enabled
        BY <3>3 DEF RTLog
      <4> QED
        BY <2>4, <3>3, <4>1, <4>2, <4>3 DEF TypeOK, RTLog
    <3> QED
      BY <2>1, <3>1, <3>2, <3>3, <3>4, <3>5 DEF OnSession
  <2> QED
    BY <2>2, <2>3, <2>5, RunsType DEF TypeOK
<1>8. CASE \E k \in net : Exit(k)
  <2>1. PICK k \in net : Exit(k)
    BY <1>8
  <2>2. Owner(k) \in PCs /\ k \in Packet /\ k.pc \in PCs
    BY <2>1, OwnerFound DEF Exit, TypeOK, Packet
  <2>3. [pc |-> Owner(k), to |-> k, ok |-> TRUE, sid |-> 0, events |-> <<>>] \in Answer
    BY <2>2 DEF Answer
  <2>4. back' \subseteq Answer
    BY <2>1, <2>3, ReplyType DEF Exit
  <2>5. NoSession \in Session
    BY NoSessionType
  <2>6. sess' \in [PCs -> Session] /\ ran' \in [1 .. CmdBound -> Nat]
    BY <2>1, <2>5, RanType DEF Exit, TypeOK
  <2>7. Enabled' \in BOOLEAN /\ loose' \subseteq PCs
    BY <2>1, <2>2 DEF Exit, EnabledAfterFree, TypeOK
  <2> QED
    BY <2>1, <2>4, <2>6, <2>7 DEF Exit, TypeOK, polling
<1>9. CASE AppendRTLog
  <2>1. events + 1 \in Nat /\ RTCache \in Nat /\ rtlist \in Seq(Nat)
    BY RoomAssumption DEF TypeOK
  <2>2. CASE Len(rtlist) > RTCache
    <3>1. rtlist # <<>>
      BY <2>1, <2>2
    <3>2. Head(rtlist) \in Nat /\ Append(Tail(rtlist), events + 1) \in Seq(Nat)
      BY <2>1, <3>1
    <3>3. rtlist' \in Seq(Nat) /\ evicted' \subseteq Nat /\ events' \in Nat
      BY <1>9, <2>1, <2>2, <3>2 DEF AppendRTLog, TypeOK, polling
    <3> QED
      BY <1>9, <3>3 DEF AppendRTLog, TypeOK, polling
  <2>3. CASE ~(Len(rtlist) > RTCache)
    <3>1. rtlist' \in Seq(Nat) /\ evicted' = evicted /\ events' \in Nat
      BY <1>9, <2>1, <2>3 DEF AppendRTLog
    <3> QED
      BY <1>9, <3>1 DEF AppendRTLog, TypeOK, polling
  <2> QED
    BY <2>2, <2>3
<1>10. CASE UNCHANGED vars
  BY <1>10 DEF vars, device, polling, TypeOK
<1>11. CASE Boot
  <2>1. sess' \in [PCs -> Session]
    BY <1>11, NoSessionType DEF Boot
  <2>2. mixed' \subseteq PCs /\ <<>> \in Seq(Nat) /\ 0 \in Nat
    BY <1>11 DEF Boot, TypeOK
  <2> QED
    BY <1>11, <2>1, <2>2 DEF Boot, TypeOK
<1>12. CASE \E k \in net : NoBufferThere(k)
  BY <1>11, <1>12 DEF NoBufferThere
<1> QED
  BY <1>1, <1>2, <1>3, <1>4, <1>5, <1>6, <1>7, <1>8, <1>9, <1>10, <1>11, <1>12
     DEF Next, Receive, OnSession

LEMMA InitType ==
  ASSUME Init
  PROVE  TypeOK
<1>1. [sid |-> 0, id |-> 0, wait |-> <<>>, sent |-> -1, got |-> <<>>, lists |-> 0] \in PC
  <2>1. <<>> \in Seq(Packet) /\ <<>> \in Seq(Nat) /\ 0 \in 0 .. IdMax /\ -1 \in Int
    BY IdAssumption
  <2> QED
    BY <2>1 DEF PC
<1>2. sess \in [PCs -> Session] /\ pc \in [PCs -> PC]
  BY <1>1, NoSessionType DEF Init
<1>3. ran \in [1 .. CmdBound -> Nat]
  BY DEF Init
<1>4. rtlist \in Seq(Nat) /\ LastRTLog \in Seq(Nat) /\ RTLogNum \in Nat
      /\ made \in Nat /\ events \in Nat
  BY DEF Init
<1>5. /\ Enabled \in BOOLEAN /\ restarted \in BOOLEAN /\ pollers \subseteq PCs /\ net \subseteq Packet
      /\ back \subseteq Answer /\ evicted \subseteq Nat /\ loose \subseteq PCs
      /\ blind \subseteq PCs /\ mixed \subseteq PCs /\ isWriteFlashTmp \in BOOLEAN
  BY DEF Init
<1> QED
  BY <1>2, <1>3, <1>4, <1>5 DEF TypeOK

\* Sessions, packets, answers and lists keep their shape, whatever is lost,
\* late or repeated (commu.c, net.c).
THEOREM TypeCorrect == Spec => []TypeOK
<1>1. Init => TypeOK
  BY InitType
<1>2. TypeOK /\ [Next]_vars => TypeOK'
  BY TypeStep
<1> QED
  BY <1>1, <1>2, PTL DEF Spec

-----------------------------------------------------------------------------
(* The device that takes no verifications.                                  *)

\* A PC disables the device only on a session, and the last session to end
\* enables it, so there is always a session that can enable it.
THEOREM DisabledHasASession == Spec => []DisabledIsHeld
<1>1. Init => DisabledIsHeld
  BY DEF Init, DisabledIsHeld
<1>2. ASSUME TypeOK, DisabledIsHeld, [Next]_vars
      PROVE  DisabledIsHeld'
  <2> USE DEF Connected
  <2>1. CASE \E p \in PCs : CallUp(p) \/ Command(p) \/ Hear(p) \/ GiveUp(p)
    <3>1. UNCHANGED <<sess, Enabled>>
      BY <2>1 DEF CallUp, Command, Hear, GiveUp, device
    <3> QED
      BY <1>2, <3>1 DEF DisabledIsHeld
  <2>2. CASE \E p \in PCs : TimeOut(p)
    BY <2>2 DEF TimeOut, DisabledIsHeld
  <2>3. CASE \E k \in net, id \in 1 .. SecondBound : Connect(k, id)
    <3>1. PICK k \in net, id \in 1 .. SecondBound : Connect(k, id)
      BY <2>3
    <3>2. k.pc \in PCs /\ CreateSession(k.pc, id).SessionID # 0
      <4>1. k.pc \in PCs /\ id \in Nat \ {0} /\ sess[k.pc] \in Session
        BY <1>2, LimitAssumption DEF TypeOK, Packet
      <4> QED
        BY <4>1 DEF CreateSession, Session, NoSession
    <3>3. sess'[k.pc].SessionID # 0
      BY <1>2, <3>1, <3>2 DEF Connect, TypeOK
    <3> QED
      BY <3>2, <3>3 DEF DisabledIsHeld
  <2>4. CASE \E k \in net : Resend(k)
    BY <1>2, <2>4 DEF Resend, device, DisabledIsHeld
  <2>5. CASE \E k \in net : OnSession(k)
    <3>1. PICK k \in net : OnSession(k)
      BY <2>5
    <3>2. PICK t \in Session, a \in Answer : Runs(k, Owner(k), t, a)
      BY <1>2, <3>1, CommandRuns
    <3>3. Owner(k) \in PCs /\ sess[Owner(k)].SessionID # 0
      BY <1>2, <3>1, CommandRuns, OwnerFound
    <3>4. sess'[Owner(k)].SessionID # 0
      BY <1>2, <3>2, <3>3 DEF Runs, TypeOK
    <3> QED
      BY <3>3, <3>4 DEF DisabledIsHeld
  <2>6. CASE \E k \in net : Exit(k)
    <3>1. PICK k \in net : Exit(k)
      BY <2>6
    <3>2. CASE {q \in PCs \ {Owner(k)} : Connected(q)} = {}
      BY <3>1, <3>2 DEF Exit, EnabledAfterFree, DisabledIsHeld
    <3>3. CASE {q \in PCs \ {Owner(k)} : Connected(q)} # {}
      <4>1. PICK q \in PCs \ {Owner(k)} : sess[q].SessionID # 0
        BY <3>3
      <4>2. sess'[q].SessionID # 0
        BY <1>2, <3>1, <4>1 DEF Exit, TypeOK
      <4> QED
        BY <4>2 DEF DisabledIsHeld
    <3> QED
      BY <3>2, <3>3
  <2>7. CASE AppendRTLog \/ UNCHANGED vars
    BY <1>2, <2>7 DEF AppendRTLog, vars, device, DisabledIsHeld
  <2>8. CASE Boot \/ \E k \in net : NoBufferThere(k)
    BY <2>8 DEF NoBufferThere, Boot, DisabledIsHeld
  <2> QED
    BY <1>2, <2>1, <2>2, <2>3, <2>4, <2>5, <2>6, <2>7, <2>8 DEF Next, Receive, OnSession
<1> QED
  BY <1>1, <1>2, TypeCorrect, PTL DEF Spec

-----------------------------------------------------------------------------
(* Packets, what a PC waits for, and answers.                               *)

PacketInv ==
  /\ made <= CmdBound
  /\ \A k \in net : /\ k.no \in 1 .. made
                    /\ k.cmd = "CONNECT" => k.id = IdMax
                    /\ k.cmd # "CONNECT" => k.sid # 0
  /\ \A k, l \in net : k.no = l.no => k = l
  /\ \A n \in 1 .. CmdBound : n > made => ran[n] = 0

\* PC p waits for the answer to k, the last packet it sent.
Waits(p, k) ==
  /\ k.pc = p /\ pc[p].wait = <<k>> /\ pc[p].sid = k.sid /\ pc[p].id = NextId(k.id)
  /\ pc[p].sent >= 0 => k.cmd = "DATA"

WaitInv ==
  \A p \in PCs : pc[p].wait # <<>> => \E k \in net : Waits(p, k)

\* An answer of session p, to a packet that was run.
Made(p, a) == a.pc = p /\ a.to.no \in 1 .. made /\ ran[a.to.no] > 0

MadeInv ==
  /\ \A a \in back : Made(a.pc, a)
  /\ \A p \in PCs : sess[p].ans # <<>> => \E a \in Answer : sess[p].ans = <<a>> /\ Made(p, a)

Common == PacketInv /\ WaitInv /\ MadeInv

LEMMA RanOnceMore ==
  ASSUME TypeOK, NEW n \in 1 .. CmdBound, ran' = [ran EXCEPT ![n] = @ + 1]
  PROVE  \A m \in 1 .. CmdBound :
           ran'[m] \in Nat /\ ran[m] \in Nat /\ ran'[m] = (IF m = n THEN ran[m] + 1 ELSE ran[m])
<1>1. ran \in [1 .. CmdBound -> Nat]
  BY DEF TypeOK
<1> SUFFICES ASSUME NEW m \in 1 .. CmdBound
             PROVE  ran'[m] \in Nat /\ ran[m] \in Nat
                    /\ ran'[m] = (IF m = n THEN ran[m] + 1 ELSE ran[m])
  OBVIOUS
<1>2. ran[m] \in Nat
  BY <1>1
<1>3. CASE m = n
  BY <1>1, <1>2, <1>3
<1>4. CASE m # n
  BY <1>1, <1>2, <1>4
<1> QED
  BY <1>3, <1>4

LEMMA NoInRange ==
  ASSUME TypeOK, PacketInv, NEW k \in net
  PROVE  k.no \in 1 .. CmdBound /\ k.no \in 1 .. made /\ k \in Packet /\ k.pc \in PCs
BY LimitAssumption DEF TypeOK, PacketInv, Packet

LEMMA ReplyAdds ==
  ASSUME NEW a, NEW x \in Reply(a)
  PROVE  x \in back \/ x = a
BY DEF Reply

LEMMA CommonSend ==
  ASSUME TypeOK, Common, NEW p \in PCs, NEW cmd \in Commands, NEW arg \in Nat,
         NEW k \in Packet, MaySend(p, cmd, arg), Sent(p, cmd, arg, k)
  PROVE  Common'
<1>1. made \in Nat /\ CmdBound \in Nat /\ made + 1 <= CmdBound /\ made' = made + 1
      /\ k.no = made + 1 /\ ran' = ran /\ sess' = sess /\ (back' \subseteq back)
  BY LimitAssumption DEF TypeOK, Sent, MaySend, device
<1>2. \A l \in net' : l = k \/ l \in net
  BY DEF Sent
<1>3. PacketInv'
  <2>1. k.cmd = "CONNECT" => k.id = IdMax
    BY DEF Sent
  <2>2. k.cmd # "CONNECT" => k.sid # 0
    BY DEF Sent, MaySend
  <2>3. \A l \in net' : l.no \in 1 .. made' /\ (l.cmd = "CONNECT" => l.id = IdMax)
                        /\ (l.cmd # "CONNECT" => l.sid # 0)
    BY <1>1, <1>2, <2>1, <2>2 DEF Common, PacketInv
  <2>4. \A l, m \in net' : l.no = m.no => l = m
    BY <1>1, <1>2 DEF Common, PacketInv
  <2>5. \A n \in 1 .. CmdBound : n > made' => ran'[n] = 0
    BY <1>1 DEF Common, PacketInv
  <2> QED
    BY <1>1, <2>3, <2>4, <2>5 DEF PacketInv
<1>4. WaitInv'
  <2> SUFFICES ASSUME NEW q \in PCs, pc'[q].wait # <<>>
               PROVE  \E l \in net' : Waits(q, l)'
    BY DEF WaitInv
  <2>1. CASE q = p
    <3>1. k \in net' /\ Waits(p, k)'
      BY DEF Sent, Waits
    <3> QED
      BY <2>1, <3>1
  <2>2. CASE q # p
    <3>1. pc'[q] = pc[q]
      BY <2>2 DEF Sent
    <3>2. PICK l \in net : Waits(q, l)
      BY <3>1 DEF Common, WaitInv
    <3>3. l \in net'
      BY <2>2, <3>2 DEF Sent, Waits
    <3> QED
      BY <3>1, <3>2, <3>3 DEF Waits
  <2> QED
    BY <2>1, <2>2
<1>5. MadeInv'
  <2>1. \A q, a : Made(q, a) => Made(q, a)'
    BY <1>1 DEF Made
  <2> QED
    BY <1>1, <2>1 DEF Common, MadeInv
<1> QED
  BY <1>3, <1>4, <1>5 DEF Common

\* PC p stops waiting, with or without the answer.
LEMMA CommonStops ==
  ASSUME TypeOK, Common, NEW p \in PCs,
         pc' \in [PCs -> PC], pc'[p].wait = <<>>, \A q \in PCs \ {p} : pc'[q] = pc[q],
         back' \subseteq back,
         UNCHANGED <<sess, net, made, ran>>
  PROVE  Common'
<1>1. PacketInv'
  BY DEF Common, PacketInv
<1>2. WaitInv'
  BY DEF Common, WaitInv, Waits
<1>3. MadeInv'
  BY DEF Common, MadeInv, Made
<1> QED
  BY <1>1, <1>2, <1>3 DEF Common

\* The terminal runs packet k and sends the answer a.
LEMMA CommonRun ==
  ASSUME TypeOK, Common, NEW k \in net, NEW a \in Answer, a.to = k,
         ran' = [ran EXCEPT ![k.no] = @ + 1], back' = Reply(a),
         \A q \in PCs : \/ sess'[q].ans = sess[q].ans
                        \/ sess'[q].ans = <<>>
                        \/ sess'[q].ans = <<a>> /\ a.pc = q,
         UNCHANGED <<net, pc, made>>
  PROVE  Common'
<1>1. \A m \in 1 .. CmdBound :
        ran'[m] \in Nat /\ ran[m] \in Nat
        /\ ran'[m] = (IF m = k.no THEN ran[m] + 1 ELSE ran[m])
  BY NoInRange, RanOnceMore DEF Common
<1>2. k.no \in 1 .. made /\ made \in Nat /\ made <= CmdBound /\ CmdBound \in Nat
  BY NoInRange, LimitAssumption DEF Common, PacketInv, TypeOK
<1>3. PacketInv'
  BY <1>1, <1>2 DEF Common, PacketInv
<1>4. WaitInv'
  BY DEF Common, WaitInv, Waits
<1>5. \A q, x : Made(q, x) => Made(q, x)'
  BY <1>1, <1>2 DEF Made
<1>6. Made(a.pc, a)'
  BY <1>1, <1>2 DEF Made
<1>7. \A x \in back' : Made(x.pc, x)'
  BY <1>5, <1>6, ReplyAdds DEF Common, MadeInv
<1>8. \A q \in PCs : sess'[q].ans # <<>> =>
        \E x \in Answer : sess'[q].ans = <<x>> /\ Made(q, x)'
  BY <1>5, <1>6 DEF Common, MadeInv
<1>9. MadeInv'
  BY <1>7, <1>8 DEF MadeInv
<1> QED
  BY <1>3, <1>4, <1>9 DEF Common

\* The terminal sends answer a to nobody but the sender of the session.
LEMMA CommonResend ==
  ASSUME TypeOK, Common, NEW a \in Answer, Made(a.pc, a), back' = Reply(a),
         UNCHANGED <<sess, net, pc, made, ran>>
  PROVE  Common'
<1>1. PacketInv' /\ WaitInv'
  BY DEF Common, PacketInv, WaitInv, Waits
<1>2. \A q, x : Made(q, x)' <=> Made(q, x)
  BY DEF Made
<1>3. \A x \in back' : Made(x.pc, x)'
  BY <1>2, ReplyAdds DEF Common, MadeInv
<1>4. MadeInv'
  BY <1>2, <1>3 DEF Common, MadeInv
<1> QED
  BY <1>1, <1>4 DEF Common

\* What a step does, told by who takes it.
LEMMA Steps ==
  ASSUME TypeOK, [Next]_vars
  PROVE  \/ \E p \in PCs, cmd \in Commands, arg \in Nat, k \in Packet :
              MaySend(p, cmd, arg) /\ Sent(p, cmd, arg, k)
         \/ \E p \in PCs : Hear(p)
         \/ \E p \in PCs : GiveUp(p)
         \/ (\E p \in PCs : TimeOut(p)) \/ AppendRTLog \/ UNCHANGED vars
         \/ \E k \in net, id \in 1 .. SecondBound : Connect(k, id)
         \/ \E k \in net : Resend(k)
         \/ \E k \in net, t \in Session, a \in Answer : Known(k) /\ Runs(k, Owner(k), t, a)
         \/ \E k \in net : Exit(k)
         \/ Boot
<1>1. CASE \E p \in PCs : CallUp(p) \/ Command(p)
  BY <1>1, PCSends
<1>2. CASE \E k \in net : OnSession(k)
  BY <1>2, CommandRuns
<1> QED
  BY <1>1, <1>2 DEF Next, Receive, OnSession, NoBufferThere

\* A PC waits for nothing any more.
LEMMA Stops ==
  ASSUME TypeOK, NEW p \in PCs, Hear(p) \/ GiveUp(p)
  PROVE  /\ pc' \in [PCs -> PC] /\ pc'[p].wait = <<>> /\ pc'[p].id = pc[p].id
         /\ \A q \in PCs \ {p} : pc'[q] = pc[q]
         /\ back' \subseteq back
         /\ UNCHANGED <<device, net, made, ran, loose, mixed>>
         /\ \A q \in PCs \ {p} : q \in blind' <=> q \in blind
<1>1. pc' \in [PCs -> PC]
  BY TypeStep DEF Next, TypeOK
<1>2. pc[p] \in PC /\ pc \in [PCs -> PC]
  BY DEF TypeOK
<1>3. CASE Hear(p)
  <2>1. PICK a \in back : pc' = [pc EXCEPT ![p] = Accepted(p, a)]
    BY <1>3 DEF Hear
  <2>2. pc'[p] = Accepted(p, a) /\ \A q \in PCs \ {p} : pc'[q] = pc[q]
    BY <1>2, <2>1
  <2>3. Accepted(p, a).wait = <<>> /\ Accepted(p, a).id = pc[p].id
    BY DEF Accepted
  <2>4. \A q \in PCs \ {p} : q \in blind' <=> q \in blind
    BY <1>3 DEF Hear
  <2> QED
    BY <1>1, <1>3, <2>2, <2>3, <2>4 DEF Hear
<1>4. CASE GiveUp(p)
  <2>1. pc' = [pc EXCEPT ![p].wait = <<>>] /\ \A q \in PCs \ {p} : q \in blind' <=> q \in blind
    BY <1>4 DEF GiveUp
  <2>2. pc'[p].wait = <<>> /\ pc'[p].id = pc[p].id /\ \A q \in PCs \ {p} : pc'[q] = pc[q]
    BY <1>2, <2>1 DEF PC
  <2> QED
    BY <1>1, <1>4, <2>1, <2>2 DEF GiveUp
<1> QED
  BY <1>3, <1>4

\* A session that is found keeps its id and its buffer, a new one has none.
LEMMA Connects ==
  ASSUME TypeOK, NEW k \in net, NEW id \in 1 .. SecondBound, Connect(k, id)
  PROVE  /\ \A q \in PCs \ {k.pc} : sess'[q] = sess[q]
         /\ sess'[k.pc].ans = <<>> /\ sess'[k.pc].LastReplyID = 0
         /\ sess'[k.pc].Buffer \in {sess[k.pc].Buffer, NoBuffer}
         /\ \E a \in Answer : a.pc = k.pc /\ a.to = k /\ a.events = <<>> /\ back' = Reply(a)
<1>1. id \in Nat
  BY LimitAssumption
<1>2. k \in Packet /\ k.pc \in PCs /\ CreateSession(k.pc, id) \in Session
      /\ sess \in [PCs -> Session]
  BY <1>1, SessionType DEF TypeOK
<1>3. sess' = [sess EXCEPT ![k.pc] = CreateSession(k.pc, id)]
  BY DEF Connect
<1>4. sess'[k.pc] = CreateSession(k.pc, id) /\ \A q \in PCs \ {k.pc} : sess'[q] = sess[q]
  BY <1>2, <1>3
<1>5. sess[k.pc] \in Session
  BY <1>2
<1>6. LET s == CreateSession(k.pc, id)
      IN  s.ans = <<>> /\ s.LastReplyID = 0 /\ s.Buffer \in {sess[k.pc].Buffer, NoBuffer}
  BY <1>5 DEF CreateSession, Session, NoSession
<1>7. \E a \in Answer : a.pc = k.pc /\ a.to = k /\ a.events = <<>> /\ back' = Reply(a)
  <2> DEFINE a == [pc |-> k.pc, to |-> k, ok |-> TRUE, sid |-> sess'[k.pc].SessionID,
                   events |-> <<>>]
  <2>1. sess'[k.pc].SessionID \in Nat
    BY <1>2, <1>4 DEF Session
  <2>2. a \in Answer
    BY <1>2, <2>1 DEF Answer
  <2>3. back' = Reply(a)
    BY DEF Connect
  <2>4. a.pc = k.pc /\ a.to = k /\ a.events = <<>>
    OBVIOUS
  <2> HIDE DEF a
  <2> QED
    BY <2>2, <2>3, <2>4
<1> QED
  BY <1>4, <1>6, <1>7

LEMMA Exits ==
  ASSUME TypeOK, NEW k \in net, Exit(k)
  PROVE  /\ Known(k) /\ ~Repeated(Owner(k), k) /\ ~Old(Owner(k), k)
         /\ sess' = [sess EXCEPT ![Owner(k)] = NoSession]
         /\ \E a \in Answer : a.pc = Owner(k) /\ a.to = k /\ a.events = <<>> /\ back' = Reply(a)
<1> DEFINE a == [pc |-> Owner(k), to |-> k, ok |-> TRUE, sid |-> 0, events |-> <<>>]
<1>1. Known(k) /\ Owner(k) \in PCs /\ k \in Packet
  BY OwnerFound DEF Exit, TypeOK
<1>2. a \in Answer
  BY <1>1 DEF Answer
<1>3. back' = Reply(a) /\ a.pc = Owner(k) /\ a.to = k /\ a.events = <<>>
  BY DEF Exit
<1>4. ~Repeated(Owner(k), k) /\ ~Old(Owner(k), k) /\ sess' = [sess EXCEPT ![Owner(k)] = NoSession]
  BY DEF Exit
<1> HIDE DEF a
<1> QED
  BY <1>1, <1>2, <1>3, <1>4

LEMMA CommonStep ==
  ASSUME TypeOK, Common, [Next]_vars
  PROVE  Common'
<1>0. sess \in [PCs -> Session]
  BY DEF TypeOK
<1>1. CASE \E p \in PCs, cmd \in Commands, arg \in Nat, k \in Packet :
             MaySend(p, cmd, arg) /\ Sent(p, cmd, arg, k)
  BY <1>1, CommonSend
<1>2. CASE \E p \in PCs : Hear(p) \/ GiveUp(p)
  <2>1. PICK p \in PCs : Hear(p) \/ GiveUp(p)
    BY <1>2
  <2>2. sess' = sess
    BY <2>1, Stops DEF device
  <2> QED
    BY <2>1, <2>2, Stops, CommonStops
<1>3. CASE (\E p \in PCs : TimeOut(p)) \/ AppendRTLog \/ UNCHANGED vars
  <2>1. UNCHANGED <<net, back, pc, made, ran>>
    BY <1>3 DEF TimeOut, AppendRTLog, vars
  <2>2. \A q \in PCs : sess'[q].ans = sess[q].ans
    <3>1. ASSUME NEW p \in PCs, TimeOut(p) PROVE \A q \in PCs : sess'[q].ans = sess[q].ans
      BY <1>0, <3>1 DEF TimeOut, Session
    <3> QED
      BY <1>3, <3>1 DEF AppendRTLog, vars, device
  <2>3. PacketInv' /\ WaitInv'
    BY <2>1 DEF Common, PacketInv, WaitInv, Waits
  <2>4. MadeInv'
    BY <2>1, <2>2 DEF Common, MadeInv, Made
  <2> QED
    BY <2>3, <2>4 DEF Common
<1>4. CASE \E k \in net, id \in 1 .. SecondBound : Connect(k, id)
  <2>1. PICK k \in net, id \in 1 .. SecondBound : Connect(k, id)
    BY <1>4
  <2>2. PICK a \in Answer : a.pc = k.pc /\ a.to = k /\ back' = Reply(a)
    BY <2>1, Connects
  <2>3. \A q \in PCs : sess'[q].ans = sess[q].ans \/ sess'[q].ans = <<>>
    BY <2>1, Connects
  <2>4. ran' = [ran EXCEPT ![k.no] = @ + 1] /\ UNCHANGED <<net, pc, made>>
    BY <2>1 DEF Connect
  <2> QED
    BY <2>2, <2>3, <2>4, CommonRun
<1>5. CASE \E k \in net : Resend(k)
  <2>1. PICK k \in net : Resend(k)
    BY <1>5
  <2>2. Owner(k) \in PCs /\ sess[Owner(k)].ans # <<>>
    BY <2>1, OwnerFound DEF Resend, Repeated
  <2>3. PICK a \in Answer : sess[Owner(k)].ans = <<a>> /\ Made(Owner(k), a)
    BY <2>2 DEF Common, MadeInv
  <2>4. back' = Reply(a) /\ a.pc = Owner(k) /\ UNCHANGED <<sess, net, pc, made, ran>>
    BY <2>1, <2>3 DEF Resend, Made, device
  <2> QED
    BY <2>3, <2>4, CommonResend
<1>6. CASE \E k \in net, t \in Session, a \in Answer : Known(k) /\ Runs(k, Owner(k), t, a)
  <2>1. PICK k \in net, t \in Session, a \in Answer : Known(k) /\ Runs(k, Owner(k), t, a)
    BY <1>6
  <2>2. Owner(k) \in PCs /\ sess' = [sess EXCEPT ![Owner(k)] = t] /\ t.ans = <<a>>
        /\ a.pc = Owner(k) /\ a.to = k
    BY <2>1, OwnerFound DEF Runs
  <2>3. \A q \in PCs : sess'[q].ans = sess[q].ans \/ (sess'[q].ans = <<a>> /\ a.pc = q)
    BY <1>0, <2>2
  <2>4. ran' = [ran EXCEPT ![k.no] = @ + 1] /\ back' = Reply(a) /\ UNCHANGED <<net, pc, made>>
    BY <2>1 DEF Runs
  <2> QED
    BY ZenonT(60), <2>2, <2>3, <2>4, CommonRun
<1>7. CASE \E k \in net : Exit(k)
  <2>1. PICK k \in net : Exit(k)
    BY <1>7
  <2>2. Known(k) /\ sess' = [sess EXCEPT ![Owner(k)] = NoSession]
    BY <2>1, Exits
  <2>3. PICK a \in Answer : a.to = k /\ back' = Reply(a)
    BY <2>1, Exits
  <2>4. \A q \in PCs : sess'[q].ans = sess[q].ans \/ sess'[q].ans = <<>>
    BY <1>0, <2>2, OwnerFound DEF NoSession
  <2>5. ran' = [ran EXCEPT ![k.no] = @ + 1] /\ UNCHANGED <<net, pc, made>>
    BY <2>1 DEF Exit
  <2> QED
    BY <2>3, <2>4, <2>5, CommonRun
<1>8. CASE Boot
  <2>1. UNCHANGED <<net, back, pc, made, ran>> /\ \A q \in PCs : sess'[q].ans = <<>>
    BY <1>8 DEF Boot, NoSession
  <2> QED
    BY <2>1 DEF Common, PacketInv, WaitInv, Waits, MadeInv, Made
<1> QED
  BY <1>1, <1>2, <1>3, <1>4, <1>5, <1>6, <1>7, <1>8, Steps

-----------------------------------------------------------------------------
(* The ids, answers and pieces of one PC, as long as its ids only grow.      *)

\* A CONNECT of p is under way that has never arrived.
Pending(p) == \E c \in net : c.pc = p /\ c.cmd = "CONNECT" /\ ran[c.no] = 0

Last(p) == sess[p].LastReplyID

\* A command that was run on the session p still has is not newer than the
\* last one answered.
Numbered(p, k) ==
  /\ k.id < pc[p].id /\ ran[k.no] <= 1
  /\ ran[k.no] > 0 /\ sess[p].SessionID = k.sid => sess[p].ans # <<>> /\ k.id <= Last(p)

IdInv(p) ==
  /\ \A k \in net : k.pc = p /\ k.cmd # "CONNECT" => Numbered(p, k)
  /\ \A k, l \in net : k.pc = p /\ l.pc = p /\ k.id = l.id => k = l
  /\ Last(p) < IdMax
  /\ Pending(p) => /\ pc[p].sid = 0 /\ pc[p].id = 0
                   /\ \A k \in net : k.pc = p => k.cmd = "CONNECT"

\* An answer under way is to a packet that is still known, or to one of a
\* session before, with an id that the PC has not used again yet.
Traced(p, a) ==
  \/ a.to \in net /\ a.to.pc = p
  \/ a.to.cmd # "CONNECT" /\ a.to.id < IdMax /\ a.to.id >= pc[p].id

AnswerInv(p) ==
  /\ \A a \in back : a.pc = p => Traced(p, a)
  /\ \A a \in Answer : sess[p].ans = <<a>> =>
       /\ a.to.pc = p /\ a.to.cmd # "CONNECT" /\ a.to.id < IdMax
       /\ a.to \in net \/ Pending(p)
  /\ \A a \in back : a.pc = p /\ pc[p].wait = <<a.to>> /\ a.to.cmd # "CONNECT"
                   /\ sess[p].SessionID = a.to.sid => sess[p].ans = <<a>>

\* A PREPARE_DATA the PC waits for was the last command, if it has arrived.
PrepareInv(p) ==
  \A w \in net : Waits(p, w) /\ w.cmd = "PREPARE_DATA" /\ ran[w.no] > 0 =>
    /\ sess[p].SessionID = w.sid /\ Last(p) = w.id /\ sess[p].ans # <<>>
    /\ \A a \in Answer : sess[p].ans = <<a>> /\ a.ok => sess[p].Buffer = <<>>

OrderInv(p) == IdInv(p) /\ AnswerInv(p)

Filling(p) == Len(sess[p].Buffer)

\* Where an upload has got to: all the pieces sent are in the buffer, or the
\* PC waits for the last one, which has arrived or not.
Uploading(p) ==
  /\ sess[p].SessionID = pc[p].sid /\ pc[p].sid # 0
  /\ sess[p].ans # <<>> /\ sess[p].Buffer # NoBuffer
  /\ pc[p].wait = <<>> => Last(p) = pc[p].id - 1 /\ Filling(p) = pc[p].sent
  /\ \A w \in net : Waits(p, w) =>
       /\ w.arg = pc[p].sent
       /\ \/ Last(p) = w.id - 1 /\ Filling(p) = w.arg - 1 /\ ran[w.no] = 0
          \/ /\ Last(p) = w.id
             /\ \A a \in Answer : sess[p].ans = <<a>> /\ a.ok => Filling(p) = w.arg

\* A piece under way is waited for in the upload, or the session will not take it.
Spent(p, k) ==
  \/ k.id <= Last(p) /\ sess[p].ans # <<>>
  \/ k.sid # sess[p].SessionID
  \/ pc[p].wait = <<k>> /\ pc[p].sent >= 0

InOrder(p) ==
  sess[p].Buffer # NoBuffer => \A i \in 1 .. Filling(p) : sess[p].Buffer[i] = i

UploadInv(p) ==
  /\ pc[p].sent >= 0 => Uploading(p)
  /\ InOrder(p)
  /\ \A k \in net : k.pc = p /\ k.cmd = "DATA" => Spent(p, k)

\* What goes into the buffer, away from the batch file.
PieceInv(p) == p \notin mixed => PrepareInv(p) /\ (p \notin blind => UploadInv(p))

Good(p) == p \notin loose => OrderInv(p) /\ PieceInv(p)

LEMMA Kinds ==
  ASSUME TypeOK, NEW p \in PCs
  PROVE  /\ Last(p) \in 0 .. IdMax /\ pc[p].id \in 0 .. IdMax /\ IdMax \in Nat
         /\ sess[p].SessionID \in Nat /\ sess[p].Buffer \in Seq(Int) /\ Filling(p) \in Nat
         /\ pc[p].sid \in Nat /\ pc[p].sent \in Int
         /\ sess[p] \in Session /\ pc[p] \in PC
         /\ \A k \in net : /\ k.id \in 0 .. IdMax /\ k.arg \in Nat /\ k.sid \in Nat
                           /\ k.no \in Nat /\ k.cmd \in Commands /\ k.pc \in PCs
         /\ \A a \in back : a \in Answer /\ a.to \in Packet
<1>1. sess[p] \in Session /\ pc[p] \in PC
  BY DEF TypeOK
<1>2. \A k \in net : k \in Packet
  BY DEF TypeOK
<1>3. \A a \in back : a \in Answer /\ a.to \in Packet
  BY DEF TypeOK, Answer
<1>4. /\ sess[p].SessionID \in Nat /\ sess[p].LastReplyID \in 0 .. IdMax
      /\ sess[p].Buffer \in Seq(Int)
  BY <1>1 DEF Session
<1>5. Last(p) \in 0 .. IdMax
  BY <1>4 DEF Last
<1>6. Filling(p) \in Nat
  BY <1>4 DEF Filling
<1>7. pc[p].id \in 0 .. IdMax /\ pc[p].sid \in Nat /\ pc[p].sent \in Int
  BY <1>1 DEF PC
<1>8. \A k \in net : /\ k.id \in 0 .. IdMax /\ k.arg \in Nat /\ k.sid \in Nat
                      /\ k.no \in Nat /\ k.cmd \in Commands /\ k.pc \in PCs
  BY <1>2 DEF Packet
<1>9. IdMax \in Nat
  BY IdAssumption
<1> QED
  BY <1>1, <1>3, <1>4, <1>5, <1>6, <1>7, <1>8, <1>9

\* Nothing happens to p, its packets, its session and its answers but losses.
Untouched(p) ==
  /\ SameSession(sess[p], sess'[p])
  /\ pc'[p] = pc[p] /\ IdMax \in Nat
  /\ \A k : k.pc = p => (k \in net' <=> k \in net)
  /\ \A k \in net : k.pc = p => ran'[k.no] = ran[k.no]
  /\ \A a \in back' : a.pc = p => a \in back
  /\ p \in loose => p \in loose'
  /\ p \in blind => p \in blind'
  /\ p \in mixed => p \in mixed'

LEMMA Frame ==
  ASSUME NEW p \in PCs, Good(p), Untouched(p)
  PROVE  Good(p)'
<1>1. CASE p \in loose'
  BY <1>1 DEF Good
<1>2. CASE p \notin loose'
  <2>1. OrderInv(p) /\ PieceInv(p)
    BY <1>2 DEF Good, Untouched
  <2>2. /\ sess'[p].SessionID = sess[p].SessionID /\ sess'[p].ans = sess[p].ans
        /\ Last(p)' = Last(p) /\ Filling(p)' = Filling(p) /\ sess'[p].Buffer = sess[p].Buffer
        /\ pc'[p] = pc[p]
    BY DEF Untouched, SameSession, Last, Filling
  <2>3. Pending(p)' <=> Pending(p)
    BY DEF Pending, Untouched
  <2>4. \A k : Waits(p, k)' <=> Waits(p, k)
    BY <2>2 DEF Waits
  <2>5. IdInv(p)'
    <3>1. \A k \in net : k.pc = p /\ Numbered(p, k) => Numbered(p, k)'
      BY <2>2 DEF Numbered, Untouched
    <3> QED
      BY <2>1, <2>2, <2>3, <3>1 DEF OrderInv, IdInv, Untouched
  <2>6. AnswerInv(p)'
    <3>1. \A a : a.to.pc = p => (a.to \in net' <=> a.to \in net)
      BY DEF Untouched
    <3>2. \A a : Traced(p, a) => Traced(p, a)'
      BY <2>2, <3>1 DEF Traced
    <3> QED
      BY <2>1, <2>2, <2>3, <3>1, <3>2 DEF OrderInv, AnswerInv, Untouched
  <2>7. PrepareInv(p) => PrepareInv(p)'
    <3>1. \A w \in net' : Waits(p, w)' => w \in net /\ w.pc = p /\ ran'[w.no] = ran[w.no]
      BY DEF Waits, Untouched
    <3> QED
      BY <2>2, <2>4, <3>1 DEF PrepareInv
  <2>8. ASSUME UploadInv(p) PROVE UploadInv(p)'
    <3>1. \A w \in net' : Waits(p, w)' => w \in net /\ w.pc = p /\ ran'[w.no] = ran[w.no]
      BY DEF Waits, Untouched
    <3>2. Uploading(p) => Uploading(p)'
      BY <2>2, <2>4, <3>1 DEF Uploading
    <3>3. \A k : Spent(p, k) => Spent(p, k)'
      BY <2>2 DEF Spent
    <3>4. \A k \in net' : k.pc = p => k \in net
      BY DEF Untouched
    <3>5. InOrder(p)'
      BY <2>2, <2>8 DEF UploadInv, InOrder
    <3> QED
      BY <2>2, <2>8, <3>2, <3>3, <3>4, <3>5 DEF UploadInv
  <2> QED
    BY <2>1, <2>5, <2>6, <2>7, <2>8 DEF Good, OrderInv, PieceInv, Untouched
<1> QED
  BY <1>1, <1>2

LEMMA WaitsFor ==
  ASSUME Common, NEW p \in PCs, NEW x, pc[p].wait = <<x>>
  PROVE  x \in net /\ Waits(p, x)
<1>1. pc[p].wait # <<>>
  OBVIOUS
<1>2. PICK w \in net : Waits(p, w)
  BY <1>1 DEF Common, WaitInv
<1>3. <<w>> = <<x>>
  BY <1>2 DEF Waits
<1>4. w = x
  BY <1>3
<1> QED
  BY <1>2, <1>4

\* What is known when the terminal takes a command of p on its own session.
LEMMA RunFacts ==
  ASSUME TypeOK, Common, NEW k \in net, k.cmd # "CONNECT", OrderInv(k.pc),
         sess[k.pc].SessionID = k.sid, ~Repeated(k.pc, k), ~Old(k.pc, k)
  PROVE  /\ ran[k.no] = 0 /\ k.id < IdMax /\ k.id >= Last(k.pc) /\ ~Pending(k.pc)
         /\ k.id = Last(k.pc) => sess[k.pc].ans = <<>>
         /\ \A w \in net : Waits(k.pc, w) /\ w.cmd # "CONNECT" =>
              /\ k.id <= w.id
              /\ w.sid = k.sid => ran[w.no] = 0
<1> DEFINE p == k.pc
<1>1. /\ p \in PCs /\ Last(p) \in 0 .. IdMax /\ pc[p].id \in 0 .. IdMax /\ IdMax \in Nat
      /\ k.id \in 0 .. IdMax /\ \A l \in net : l.id \in 0 .. IdMax
  BY Kinds, NoInRange DEF Common
<1>2. Numbered(p, k) /\ Last(p) < IdMax /\ ~Pending(p)
  BY DEF OrderInv, IdInv
<1>3. k.id >= Last(p) /\ (k.id = Last(p) => sess[p].ans = <<>>)
  BY <1>1, <1>2 DEF Repeated, Old, Last
<1>4. ran[k.no] \in Nat
  BY NoInRange DEF Common, TypeOK
<1>5. ran[k.no] = 0 /\ k.id < IdMax
  BY <1>1, <1>2, <1>3, <1>4 DEF Numbered
<1>6. ASSUME NEW w \in net, Waits(p, w), w.cmd # "CONNECT"
      PROVE  k.id <= w.id /\ (w.sid = k.sid => ran[w.no] = 0)
  <2>1. w.pc = p /\ pc[p].id = NextId(w.id) /\ ran[w.no] \in Nat
    BY <1>6, NoInRange DEF Waits, Common, TypeOK
  <2>2. Numbered(p, w)
    BY <1>6, <2>1 DEF OrderInv, IdInv
  <2>3. pc[p].id = w.id + 1
    BY <1>1, <2>1, <2>2 DEF Numbered, NextId
  <2>4. k.id <= w.id
    BY <1>1, <1>2, <2>3 DEF Numbered
  <2>5. ASSUME w.sid = k.sid, ran[w.no] > 0 PROVE FALSE
    <3>1. sess[p].ans # <<>> /\ w.id <= Last(p)
      BY <2>2, <2>5 DEF Numbered
    <3> QED
      BY <1>1, <1>3, <2>4, <3>1
  <2> QED
    BY <2>1, <2>4, <2>5
<1> QED
  BY <1>2, <1>3, <1>5, <1>6

-----------------------------------------------------------------------------
(* Good(q) is kept by every step.  First the steps of a PC.                 *)

\* An answer with the id the PC waits for is to the packet it waits for.
LEMMA Awaited ==
  ASSUME TypeOK, Common, NEW p \in PCs, OrderInv(p), NEW w \in net, Waits(p, w),
         NEW a \in Answer, Traced(p, a), a.to.id = w.id
  PROVE  a.to = w
<1>1. w.pc = p /\ pc[p].id = NextId(w.id)
  BY DEF Waits
<1>2. /\ IdMax \in Nat /\ w.id \in 0 .. IdMax /\ pc[p].id \in 0 .. IdMax
      /\ a.to.id \in 0 .. IdMax
  BY Kinds DEF Answer, Packet
<1>3. w.cmd = "CONNECT" => w.id = IdMax
  BY DEF Common, PacketInv
<1>4. w.cmd # "CONNECT" => w.id < pc[p].id
  BY <1>1 DEF OrderInv, IdInv, Numbered
<1>5. CASE a.to \in net /\ a.to.pc = p
  BY <1>1, <1>5 DEF OrderInv, IdInv
<1>6. CASE a.to.id < IdMax /\ a.to.id >= pc[p].id
  BY <1>2, <1>3, <1>4, <1>6
<1> QED
  BY <1>5, <1>6 DEF Traced

LEMMA GoodCallUp ==
  ASSUME TypeOK, Common, NEW p \in PCs, NEW arg \in Nat, NEW k \in Packet,
         MaySend(p, "CONNECT", arg), Sent(p, "CONNECT", arg, k), OrderInv(p),
         PieceInv(p)
  PROVE  OrderInv(p)' /\ PieceInv(p)'
<1>1. /\ \A l : l \in net' /\ l.pc = p <=> l = k
      /\ k.pc = p /\ k.cmd = "CONNECT" /\ pc'[p].sid = 0 /\ pc'[p].sent = -1 /\ pc'[p].id = 0
      /\ pc'[p].wait = <<k>> /\ k.no = made + 1
      /\ (\A a \in back' : a.pc # p) /\ UNCHANGED <<sess, ran, blind>>
      /\ p \in mixed' \/ p \notin mixed \/ sess[p].Buffer = NoBuffer
  BY DEF Sent, MaySend, device, NextId
<1>2. ran'[k.no] = 0
  BY <1>1, LimitAssumption DEF Common, PacketInv, Sent, TypeOK
<1>3. Pending(p)'
  BY <1>1, <1>2 DEF Pending
<1>4. IdInv(p)'
  BY <1>1 DEF OrderInv, IdInv, Last
<1>5. AnswerInv(p)'
  BY <1>1, <1>3 DEF OrderInv, AnswerInv
<1>6. PrepareInv(p)'
  BY <1>1 DEF PrepareInv, Waits
<1>7. ASSUME UploadInv(p) \/ sess[p].Buffer = NoBuffer PROVE UploadInv(p)'
  BY <1>1, <1>7 DEF UploadInv, InOrder, Filling
<1> QED
  BY <1>1, <1>4, <1>5, <1>6, <1>7 DEF OrderInv, PieceInv

LEMMA GoodCommand ==
  ASSUME TypeOK, Common, NEW p \in PCs, NEW cmd \in Commands \ {"CONNECT"}, NEW arg \in Nat,
         NEW k \in Packet, MaySend(p, cmd, arg), Sent(p, cmd, arg, k), p \notin loose',
         OrderInv(p), PieceInv(p)
  PROVE  OrderInv(p)' /\ PieceInv(p)'
<1>1. /\ \A l : l \in net' <=> l = k \/ (l \in net /\ (l.pc # p \/ l.id # k.id))
      /\ k.pc = p /\ k.cmd = cmd /\ cmd # "CONNECT" /\ k.arg = arg
      /\ k.sid = pc[p].sid /\ pc'[p].sid = k.sid /\ k.sid # 0 /\ k.id = pc[p].id
      /\ pc'[p].wait = <<k>> /\ pc'[p].id = NextId(k.id) /\ k.no = made + 1
      /\ pc'[p].sent = (IF cmd = "DATA" THEN arg ELSE -1)
      /\ cmd = "DATA" => pc[p].sent >= 0 /\ arg = pc[p].sent + 1
      /\ \A a \in back' : a \in back /\ (a.pc = p => a.to.id # k.id)
      /\ UNCHANGED <<sess, ran, blind, mixed>>
  BY DEF Sent, MaySend, device
<1>2. /\ k.id \in 0 .. IdMax /\ IdMax \in Nat /\ k.id # IdMax /\ pc'[p].id = k.id + 1
      /\ \A l \in net : l.id \in 0 .. IdMax
  <2>1. k.id # IdMax
    BY DEF Sent
  <2>2. k.id \in 0 .. IdMax /\ IdMax \in Nat
    BY <1>1, Kinds
  <2> QED
    BY <1>1, <2>1, <2>2, Kinds DEF NextId
<1>3. k.no \in 1 .. CmdBound /\ ran[k.no] = 0
  BY <1>1, LimitAssumption DEF Common, PacketInv, Sent, TypeOK
<1>4. ~Pending(p) /\ ~Pending(p)'
  BY <1>1 DEF OrderInv, IdInv, Pending
<1>5. \A a \in back' : a.pc = p => Traced(p, a)' /\ a.to # k
  <2> SUFFICES ASSUME NEW a \in back', a.pc = p PROVE Traced(p, a)' /\ a.to # k
    OBVIOUS
  <2>1. /\ a \in back /\ a \in Answer /\ a.to.id # k.id /\ Traced(p, a)
        /\ a.to.id \in 0 .. IdMax
    BY <1>1, Kinds DEF OrderInv, AnswerInv, Packet
  <2>2. CASE a.to \in net /\ a.to.pc = p
    BY <1>1, <2>1, <2>2 DEF Traced
  <2>3. CASE a.to.cmd # "CONNECT" /\ a.to.id < IdMax /\ a.to.id >= pc[p].id
    BY <1>1, <1>2, <2>1, <2>3 DEF Traced
  <2> QED
    BY <2>1, <2>2, <2>3 DEF Traced
<1>6. \A l \in net : l.pc = p /\ l.cmd # "CONNECT" => l.id < k.id /\ l \in net'
  BY <1>1, <1>2 DEF OrderInv, IdInv, Numbered
<1>7. IdInv(p)'
  <2>1. ASSUME NEW l \in net', l.pc = p, l.cmd # "CONNECT" PROVE Numbered(p, l)'
    <3>1. CASE l = k
      BY <1>1, <1>2, <1>3, <3>1 DEF Numbered
    <3>2. CASE l \in net
      <4>1. Numbered(p, l) /\ l.id < k.id
        BY <1>6, <2>1, <3>2 DEF OrderInv, IdInv
      <4> QED
        BY <1>1, <1>2, <3>2, <4>1 DEF Numbered, Last
    <3> QED
      BY <1>1, <3>1, <3>2
  <2>2. \A l, m \in net' : l.pc = p /\ m.pc = p /\ l.id = m.id => l = m
    BY <1>1 DEF OrderInv, IdInv
  <2>3. Last(p)' < IdMax
    BY <1>1 DEF OrderInv, IdInv, Last
  <2> QED
    BY <1>4, <2>1, <2>2, <2>3 DEF IdInv
<1>8. AnswerInv(p)'
  <2>1. \A a \in back' : a.pc = p => ~(pc'[p].wait = <<a.to>>)
    BY <1>1, <1>5
  <2>2. \A a \in Answer : sess'[p].ans = <<a>> =>
          /\ a.to.pc = p /\ a.to.cmd # "CONNECT" /\ a.to.id < IdMax
          /\ a.to \in net'
    BY <1>1, <1>4, <1>6 DEF OrderInv, AnswerInv
  <2> QED
    BY <1>5, <2>1, <2>2 DEF AnswerInv
<1>9. PrepareInv(p)'
  BY <1>1, <1>3 DEF PrepareInv, Waits
<1>10. ASSUME UploadInv(p) PROVE UploadInv(p)'
  <2>1. pc[p].wait = <<>> /\ pc[p].sent \in Int
    BY Kinds DEF MaySend
  <2>2. InOrder(p)'
    BY <1>1, <1>10 DEF UploadInv, InOrder, Filling
  <2>3. CASE cmd = "DATA"
    <3>1. Uploading(p)'
      <4>1. Uploading(p) /\ pc[p].sent >= 0 /\ arg = pc[p].sent + 1
        BY <1>1, <1>10, <2>3 DEF UploadInv
      <4>2. Last(p)' = k.id - 1 /\ Filling(p)' = k.arg - 1 /\ k.arg = pc'[p].sent
        BY <1>1, <2>1, <2>3, <4>1 DEF Uploading, Last, Filling
      <4>3. \A w : Waits(p, w)' => w = k
        BY <1>1 DEF Waits
      <4>4. pc'[p].wait # <<>>
        BY <1>1
      <4> QED
        BY <1>1, <1>3, <4>1, <4>2, <4>3, <4>4 DEF Uploading
    <3>2. ASSUME NEW l \in net', l.pc = p, l.cmd = "DATA" PROVE Spent(p, l)'
      <4>1. CASE l = k
        <5>1. pc'[p].sent >= 0 /\ pc'[p].wait = <<k>>
          BY <1>1, <2>3
        <5> QED
          BY <4>1, <5>1 DEF Spent
      <4>2. CASE l \in net
        BY <1>1, <1>10, <2>1, <3>2, <4>2 DEF UploadInv, Spent, Last
      <4> QED
        BY <1>1, <4>1, <4>2
    <3> QED
      BY <2>2, <3>1, <3>2 DEF UploadInv
  <2>4. CASE cmd # "DATA"
    <3>1. pc'[p].sent = -1
      BY <1>1, <2>4
    <3>2. ASSUME NEW l \in net', l.pc = p, l.cmd = "DATA" PROVE Spent(p, l)'
      <4>1. l \in net
        BY <1>1, <2>4, <3>2
      <4> QED
        BY <1>1, <1>10, <2>1, <3>2, <4>1 DEF UploadInv, Spent, Last
    <3> QED
      BY <2>2, <3>1, <3>2 DEF UploadInv
  <2> QED
    BY <2>3, <2>4
<1> QED
  BY <1>1, <1>7, <1>8, <1>9, <1>10 DEF OrderInv, PieceInv

LEMMA GoodSend ==
  ASSUME TypeOK, Common, NEW p \in PCs, NEW cmd \in Commands, NEW arg \in Nat,
         NEW k \in Packet, MaySend(p, cmd, arg), Sent(p, cmd, arg, k),
         NEW q \in PCs, Good(q)
  PROVE  Good(q)'
<1>0. (loose \subseteq loose') /\ blind' = blind
  BY DEF Sent, MaySend
<1>1. CASE q # p
  <2>1. Untouched(q)
    BY <1>0, <1>1, Kinds DEF Untouched, SameSession, Sent, MaySend, device
  <2> QED
    BY <2>1, Frame
<1>2. CASE q = p
  BY <1>0, <1>2, GoodCallUp, GoodCommand DEF Good
<1> QED
  BY <1>1, <1>2

\* The PC takes the answer it waits for.
LEMMA GoodHearOwn ==
  ASSUME TypeOK, Common, NEW p \in PCs, Hear(p), OrderInv(p), PieceInv(p)
  PROVE  OrderInv(p)' /\ PieceInv(p)'
<1>1. PICK a \in back : /\ a.pc = p /\ a.to.id = pc[p].wait[1].id /\ back' = back \ {a}
                        /\ pc' = [pc EXCEPT ![p] = Accepted(p, a)]
                        /\ blind' = IF pc[p].wait[1].cmd = "PREPARE_DATA" /\ a.ok
                                    THEN blind \ {p} ELSE blind
  BY DEF Hear
<1>2. PICK w \in net : Waits(p, w)
  BY DEF Hear, Common, WaitInv
<1>3. a.to = w /\ pc[p].wait = <<w>> /\ pc[p].wait[1] = w /\ w.pc = p /\ pc[p].sid = w.sid
      /\ pc[p].id = NextId(w.id)
  <2>1. pc[p].wait = <<w>> /\ pc[p].wait[1] = w /\ w.pc = p /\ pc[p].sid = w.sid
        /\ pc[p].id = NextId(w.id)
    BY <1>2 DEF Waits
  <2>2. a \in Answer /\ Traced(p, a)
    BY <1>1, Kinds DEF OrderInv, AnswerInv
  <2> QED
    BY <1>1, <1>2, <2>1, <2>2, Awaited
<1>4. ran[w.no] > 0 /\ ran[w.no] \in Nat
  BY <1>1, <1>3, NoInRange DEF Common, MadeInv, Made, TypeOK
<1>5. UNCHANGED <<sess, net, ran, mixed>> /\ (back' \subseteq back)
  BY <1>1 DEF Hear, device
<1>6. pc'[p] = Accepted(p, a)
  BY <1>1 DEF TypeOK
<1>7. /\ pc'[p].wait = <<>> /\ pc'[p].id = pc[p].id
      /\ pc'[p].sent = (IF w.cmd = "PREPARE_DATA" /\ a.ok THEN 0
                        ELSE IF w.cmd = "DATA" /\ a.ok THEN pc[p].sent ELSE -1)
      /\ w.cmd \notin {"CONNECT", "EXIT"} => pc'[p].sid = pc[p].sid
  BY <1>3, <1>6 DEF Accepted
<1>8. ~Pending(p)
  <2> SUFFICES ASSUME NEW c \in net, c.pc = p, c.cmd = "CONNECT", ran[c.no] = 0 PROVE FALSE
    BY DEF Pending
  <2>1. Pending(p)
    BY DEF Pending
  <2>2. w.cmd = "CONNECT"
    BY <1>3, <2>1 DEF OrderInv, IdInv
  <2>3. w.id = IdMax /\ c.id = IdMax
    BY <2>2 DEF Common, PacketInv
  <2>4. w = c
    BY <1>3, <2>3 DEF OrderInv, IdInv
  <2> QED
    BY <1>4, <2>4
<1>9. ~Pending(p)'
  BY <1>5, <1>8 DEF Pending
<1>10. IdInv(p)'
  <2>1. \A k \in net : Numbered(p, k) => Numbered(p, k)'
    BY <1>5, <1>7 DEF Numbered, Last
  <2> QED
    BY <1>5, <1>9, <2>1 DEF OrderInv, IdInv, Last
<1>11. AnswerInv(p)'
  <2>1. \A x : Traced(p, x) => Traced(p, x)'
    BY <1>5, <1>7 DEF Traced
  <2>2. \A x : ~(pc'[p].wait = <<x>>)
    BY <1>7
  <2> QED
    BY <1>5, <1>8, <2>1, <2>2 DEF OrderInv, AnswerInv
<1>12. PrepareInv(p)'
  <2>1. \A v : ~Waits(p, v)'
    BY <1>7 DEF Waits
  <2> QED
    BY <2>1 DEF PrepareInv
<1>13. /\ Last(p) \in 0 .. IdMax /\ IdMax \in Nat /\ pc[p].sent \in Int
       /\ \A k \in net : k.id \in 0 .. IdMax
  BY Kinds
<1>14. w.cmd # "CONNECT" => pc[p].id = w.id + 1
  BY <1>3, <1>13 DEF OrderInv, IdInv, Numbered, NextId
<1>15. CASE w.cmd = "PREPARE_DATA" /\ a.ok /\ p \notin mixed
  <2>1. sess[p].SessionID = w.sid /\ Last(p) = w.id /\ sess[p].ans # <<>>
        /\ sess[p].Buffer = <<>> /\ w.sid # 0
    <3>1. /\ sess[p].SessionID = w.sid /\ Last(p) = w.id /\ sess[p].ans # <<>> /\ w.sid # 0
          /\ \A x \in Answer : sess[p].ans = <<x>> /\ x.ok => sess[p].Buffer = <<>>
      BY <1>2, <1>4, <1>15 DEF PieceInv, PrepareInv, Common, PacketInv
    <3>2. a \in Answer /\ sess[p].ans = <<a>>
      BY <1>1, <1>3, <1>15, <3>1, Kinds DEF OrderInv, AnswerInv
    <3> QED
      BY <1>15, <3>1, <3>2
  <2>2. pc'[p].sid = w.sid /\ pc'[p].sent = 0 /\ pc'[p].id = w.id + 1
    BY <1>3, <1>7, <1>14, <1>15
  <2>3. <<>> # NoBuffer /\ Filling(p) = 0
    BY <2>1 DEF NoBuffer, Filling
  <2>4. Uploading(p)'
    BY <1>5, <1>7, <1>13, <2>1, <2>2, <2>3 DEF Uploading, Last, Filling, Waits
  <2>5. ASSUME NEW k \in net, k.pc = p, k.cmd = "DATA" PROVE Spent(p, k)'
    <3>1. k.id < pc[p].id
      BY <2>5 DEF OrderInv, IdInv, Numbered
    <3>2. k.id <= Last(p)
      BY <1>13, <1>14, <1>15, <2>1, <3>1
    <3> QED
      BY <1>5, <2>1, <3>2 DEF Spent, Last
  <2>6. InOrder(p)'
    BY <1>5, <2>3 DEF InOrder, Filling
  <2> QED
    BY <1>5, <1>10, <1>11, <1>12, <2>4, <2>5, <2>6 DEF OrderInv, PieceInv, UploadInv
<1>16. CASE ~(w.cmd = "PREPARE_DATA" /\ a.ok)
  <2>1. blind' = blind
    BY <1>1, <1>3, <1>16
  <2>2. ASSUME UploadInv(p) PROVE UploadInv(p)'
    <3>1. InOrder(p)'
      BY <1>5, <2>2 DEF UploadInv, InOrder, Filling
    <3>2. CASE w.cmd = "DATA" /\ pc[p].sent >= 0
      <4>1. Uploading(p)
        BY <2>2, <3>2 DEF UploadInv
      <4>2. sess[p].ans = <<a>>
        BY <1>1, <1>3, <3>2, <4>1 DEF OrderInv, AnswerInv, Uploading
      <4>3. Last(p) = w.id /\ w.arg = pc[p].sent /\ (a.ok => Filling(p) = w.arg)
        <5>1. a \in Answer
          BY DEF TypeOK
        <5> QED
          BY <1>2, <1>4, <4>1, <4>2, <5>1 DEF Uploading
      <4>4. pc'[p].sent >= 0 => Uploading(p)'
        BY <1>5, <1>7, <1>13, <1>14, <3>2, <4>1, <4>3 DEF Uploading, Last, Filling, Waits
      <4>5. ASSUME NEW k \in net, k.pc = p, k.cmd = "DATA" PROVE Spent(p, k)'
        <5>1. Spent(p, k)
          BY <2>2, <4>5 DEF UploadInv
        <5>2. CASE pc[p].wait = <<k>>
          <6>1. k = w /\ sess[p].ans # <<>>
            BY <1>3, <4>2, <5>2
          <6> QED
            BY <1>5, <1>13, <4>3, <6>1 DEF Spent, Last
        <5> QED
          BY <1>5, <5>1, <5>2 DEF Spent, Last
      <4> QED
        BY <1>5, <3>1, <4>4, <4>5 DEF UploadInv
    <3>3. CASE ~(w.cmd = "DATA" /\ pc[p].sent >= 0)
      <4>1. pc'[p].sent < 0
        BY <1>7, <1>13, <1>16, <3>3
      <4>2. ASSUME NEW k \in net, k.pc = p, k.cmd = "DATA" PROVE Spent(p, k)'
        <5>1. Spent(p, k)
          BY <2>2, <4>2 DEF UploadInv
        <5>2. ~(pc[p].wait = <<k>> /\ pc[p].sent >= 0)
          BY <1>3, <3>3, <4>2
        <5> QED
          BY <1>5, <5>1, <5>2 DEF Spent, Last
      <4>3. ~(pc'[p].sent >= 0)
        BY <1>7, <1>13, <1>16, <3>3
      <4> QED
        BY <1>5, <3>1, <4>2, <4>3 DEF UploadInv
    <3> QED
      BY <3>2, <3>3
  <2> QED
    BY <1>5, <1>10, <1>11, <1>12, <2>1, <2>2 DEF OrderInv, PieceInv
<1>17. CASE p \in mixed
  BY <1>5, <1>10, <1>11, <1>17 DEF OrderInv, PieceInv
<1> QED
  BY <1>15, <1>16, <1>17

\* The PC goes on without one.
LEMMA GoodGiveUpOwn ==
  ASSUME TypeOK, Common, NEW p \in PCs, GiveUp(p), OrderInv(p), PieceInv(p)
  PROVE  OrderInv(p)' /\ PieceInv(p)'
<1>1. PICK w \in net : Waits(p, w)
  BY DEF GiveUp, Common, WaitInv
<1>2. UNCHANGED <<sess, net, back, ran, mixed>>
      /\ pc' = [pc EXCEPT ![p].wait = <<>>]
  BY DEF GiveUp, device
<1>3. pc'[p].wait = <<>> /\ pc'[p].id = pc[p].id /\ pc'[p].sid = pc[p].sid
      /\ pc'[p].sent = pc[p].sent
  BY <1>2 DEF TypeOK, PC
<1>4. Pending(p)' <=> Pending(p)
  BY <1>2 DEF Pending
<1>5. IdInv(p)'
  <2>1. \A k \in net : Numbered(p, k) => Numbered(p, k)'
    BY <1>2, <1>3 DEF Numbered, Last
  <2> QED
    BY <1>2, <1>3, <1>4, <2>1 DEF OrderInv, IdInv, Last
<1>6. AnswerInv(p)'
  <2>1. \A x : Traced(p, x) => Traced(p, x)'
    BY <1>2, <1>3 DEF Traced
  <2>2. \A x : ~(pc'[p].wait = <<x>>)
    BY <1>3
  <2> QED
    BY <1>2, <1>4, <2>1, <2>2 DEF OrderInv, AnswerInv
<1>7. PrepareInv(p)'
  <2>1. \A v : ~Waits(p, v)'
    BY <1>3 DEF Waits
  <2> QED
    BY <2>1 DEF PrepareInv
<1>8. ASSUME p \notin blind', UploadInv(p) PROVE UploadInv(p)'
  <2>1. pc[p].wait = <<w>> /\ pc[p].wait[1] = w /\ (pc[p].sent >= 0 => w.cmd = "DATA")
    BY <1>1 DEF Waits
  <2>2. w.cmd # "DATA"
    BY <1>8, <2>1 DEF GiveUp
  <2>3. ~(pc[p].sent >= 0)
    BY <2>1, <2>2
  <2>4. \A k \in net : Spent(p, k) => Spent(p, k)'
    BY <1>2, <2>3 DEF Spent, Last
  <2>5. InOrder(p)'
    BY <1>2, <1>8 DEF UploadInv, InOrder, Filling
  <2> QED
    BY <1>2, <1>3, <1>8, <2>3, <2>4, <2>5 DEF UploadInv
<1>9. p \notin blind' => p \notin blind
  BY DEF GiveUp
<1> QED
  BY <1>2, <1>5, <1>6, <1>7, <1>8, <1>9 DEF OrderInv, PieceInv

LEMMA GoodStop ==
  ASSUME TypeOK, Common, NEW p \in PCs, Hear(p) \/ GiveUp(p), NEW q \in PCs, Good(q)
  PROVE  Good(q)'
<1>1. CASE q # p
  <2>1. Untouched(q)
    BY <1>1, Stops, Kinds DEF Untouched, SameSession, device
  <2> QED
    BY <2>1, Frame
<1>2. CASE q = p
  <2>1. loose' = loose
    BY Stops
  <2> QED
    BY <1>2, <2>1, GoodHearOwn, GoodGiveUpOwn DEF Good
<1> QED
  BY <1>1, <1>2

-----------------------------------------------------------------------------
(* The steps of the terminal.                                               *)

LEMMA Quiet ==
  ASSUME TypeOK, (\E p \in PCs : TimeOut(p)) \/ AppendRTLog \/ UNCHANGED vars,
         NEW q \in PCs
  PROVE  Untouched(q)
<1>1. UNCHANGED <<net, back, pc, ran, loose, blind, mixed>>
  BY DEF TimeOut, AppendRTLog, vars
<1>2. SameSession(sess[q], sess'[q])
  <2>1. ASSUME NEW p \in PCs, TimeOut(p) PROVE SameSession(sess[q], sess'[q])
    <3>1. sess' = [sess EXCEPT ![p].TimeOutSec = 0] /\ sess \in [PCs -> Session]
      BY <2>1 DEF TimeOut, TypeOK
    <3> QED
      BY <3>1 DEF Session, SameSession
  <2> QED
    BY <2>1 DEF AppendRTLog, vars, device, SameSession
<1> QED
  BY <1>1, <1>2, Kinds DEF Untouched

LEMMA GoodQuiet ==
  ASSUME TypeOK, (\E p \in PCs : TimeOut(p)) \/ AppendRTLog \/ UNCHANGED vars,
         NEW q \in PCs, Good(q)
  PROVE  Good(q)'
BY Quiet, Frame

\* Running a packet of another PC leaves the packets of q as they were.
LEMMA OthersRan ==
  ASSUME TypeOK, Common, NEW k \in net, ran' = [ran EXCEPT ![k.no] = @ + 1]
  PROVE  \A l \in net : /\ ran[l.no] \in Nat /\ ran'[l.no] \in Nat
                        /\ l # k => ran'[l.no] = ran[l.no]
                        /\ l = k => ran'[l.no] = ran[l.no] + 1
<1>1. \A l \in net : l.no \in 1 .. CmdBound /\ (l.no = k.no => l = k)
  BY NoInRange DEF Common, PacketInv
<1>2. k.no \in 1 .. CmdBound
  BY <1>1
<1>3. \A m \in 1 .. CmdBound :
        ran'[m] \in Nat /\ ran[m] \in Nat
        /\ ran'[m] = (IF m = k.no THEN ran[m] + 1 ELSE ran[m])
  BY <1>2, RanOnceMore
<1> QED
  BY <1>1, <1>3

LEMMA GoodConnectOwn ==
  ASSUME TypeOK, Common, NEW k \in net, NEW id \in 1 .. SecondBound, Connect(k, id),
         OrderInv(k.pc), PieceInv(k.pc), ran[k.no] = 0
  PROVE  OrderInv(k.pc)' /\ PieceInv(k.pc)'
<1> DEFINE p == k.pc
<1>1. p \in PCs /\ k.cmd = "CONNECT" /\ IdMax \in Nat /\ IdMax # 0
  BY Kinds, NoInRange, IdAssumption DEF Common, Connect
<1>2. /\ sess'[p].ans = <<>> /\ sess'[p].LastReplyID = 0
      /\ sess'[p].Buffer \in {sess[p].Buffer, NoBuffer}
  BY Connects
<1>3. PICK a \in Answer : a.pc = p /\ a.to = k /\ back' = Reply(a)
  BY Connects
<1>4. UNCHANGED <<net, pc, blind, mixed>>
  BY DEF Connect
<1>5. ran'[k.no] > 0
  <2>1. ran[k.no] \in Nat /\ ran'[k.no] = ran[k.no] + 1
    BY OthersRan DEF Connect
  <2> QED
    BY <2>1
<1>6. Pending(p) /\ pc[p].sid = 0 /\ \A l \in net : l.pc = p => l.cmd = "CONNECT"
  BY <1>1 DEF Pending, OrderInv, IdInv
<1>7. \A l \in net : l.pc = p => l = k
  <2>1. \A l \in net : l.pc = p => l.id = k.id
    BY <1>1, <1>6 DEF Common, PacketInv
  <2> QED
    BY <2>1 DEF OrderInv, IdInv
<1>8. ~Pending(p)'
  BY <1>4, <1>5, <1>7 DEF Pending
<1>9. IdInv(p)'
  BY <1>1, <1>2, <1>4, <1>6, <1>8 DEF OrderInv, IdInv, Last
<1>10. \A x \in back' : x.pc = p => Traced(p, x)'
  <2>1. \A x : Traced(p, x) => Traced(p, x)'
    BY <1>4 DEF Traced
  <2>2. Traced(p, a)'
    BY <1>3, <1>4 DEF Traced
  <2>3. \A x \in back' : x \in back \/ x = a
    BY <1>3, ReplyAdds
  <2> QED
    BY <2>1, <2>2, <2>3 DEF OrderInv, AnswerInv
<1>11. ASSUME NEW x, pc[p].wait = <<x>> PROVE x.cmd = "CONNECT"
  <2>1. PICK w \in net : Waits(p, w)
    BY <1>1, <1>11, WaitsFor
  <2>2. w.cmd = "CONNECT" /\ pc[p].wait = <<w>>
    BY <1>6, <2>1 DEF Waits
  <2> QED
    BY <1>11, <2>2
<1>12. AnswerInv(p)'
  BY <1>2, <1>4, <1>10, <1>11 DEF AnswerInv
<1>13. PrepareInv(p)'
  BY <1>4, <1>6 DEF PrepareInv, Waits
<1>14. ASSUME UploadInv(p) PROVE UploadInv(p)'
  <2>1. ~(pc[p].sent >= 0)
    BY <1>6, <1>14 DEF UploadInv, Uploading
  <2>2. InOrder(p)'
    BY <1>2, <1>14 DEF UploadInv, InOrder, Filling
  <2> QED
    BY <1>4, <1>6, <2>1, <2>2 DEF UploadInv
<1> QED
  BY <1>4, <1>9, <1>12, <1>13, <1>14 DEF OrderInv, PieceInv

\* Somebody else's packet is taken, and the answer goes to somebody else.
LEMMA Apart ==
  ASSUME TypeOK, Common, NEW k \in net, NEW a \in Answer, NEW q \in PCs,
         ran' = ran \/ (ran' = [ran EXCEPT ![k.no] = @ + 1] /\ k.pc # q),
         back' = Reply(a), a.pc # q, SameSession(sess[q], sess'[q]),
         UNCHANGED <<net, pc, blind>>, loose \subseteq loose', mixed \subseteq mixed'
  PROVE  Untouched(q)
<1>1. \A x \in back' : x.pc = q => x \in back
  BY ReplyAdds
<1>2. \A l \in net : l.pc = q => ran'[l.no] = ran[l.no]
  BY OthersRan
<1> QED
  BY <1>1, <1>2, Kinds DEF Untouched

LEMMA Elsewhere ==
  ASSUME TypeOK, Common, NEW k \in net, NEW a \in Answer, NEW q \in PCs,
         ran' = ran \/ (ran' = [ran EXCEPT ![k.no] = @ + 1] /\ k.pc # q),
         back' = Reply(a), a.pc # q, SameSession(sess[q], sess'[q]),
         UNCHANGED <<net, pc, blind>>, loose \subseteq loose', mixed \subseteq mixed', Good(q)
  PROVE  Good(q)'
BY Apart, Frame

LEMMA GoodConnect ==
  ASSUME TypeOK, Common, NEW k \in net, NEW id \in 1 .. SecondBound, Connect(k, id),
         NEW q \in PCs, Good(q)
  PROVE  Good(q)'
<1>1. (loose \subseteq loose') /\ ran' = [ran EXCEPT ![k.no] = @ + 1]
      /\ UNCHANGED <<net, pc, blind, mixed>>
  BY DEF Connect
<1>2. CASE q # k.pc
  <2>1. sess'[q] = sess[q]
    BY <1>2, Connects
  <2>2. PICK a \in Answer : a.pc = k.pc /\ back' = Reply(a)
    BY Connects
  <2> QED
    BY <1>1, <1>2, <2>1, <2>2, Elsewhere DEF SameSession
<1>3. CASE q = k.pc
  <2>1. q \notin loose' => ran[k.no] = 0
    <3>1. ran[k.no] \in Nat
      BY OthersRan DEF Connect
    <3> QED
      BY <1>3, <3>1 DEF Connect
  <2> QED
    BY <1>1, <1>3, <2>1, GoodConnectOwn DEF Good
<1> QED
  BY <1>2, <1>3

\* The stored answer is that to the packet waited for, or has another id.
LEMMA GoodResendOwn ==
  ASSUME TypeOK, Common, NEW p \in PCs, NEW a \in Answer, sess[p].ans = <<a>>,
         back' = Reply(a), a.pc = p, UNCHANGED <<sess, net, pc, ran, blind, mixed>>,
         OrderInv(p), PieceInv(p)
  PROVE  OrderInv(p)' /\ PieceInv(p)'
<1>1. Pending(p)' <=> Pending(p)
  BY DEF Pending
<1>2. IdInv(p)' /\ (PrepareInv(p) => PrepareInv(p)')
  <2>1. \A k : Numbered(p, k)' <=> Numbered(p, k)
    BY DEF Numbered, Last
  <2> QED
    BY <1>1, <2>1 DEF OrderInv, IdInv, PrepareInv, Waits, Last
<1>3. Traced(p, a)
  <2>1. a.to.pc = p /\ a.to.cmd # "CONNECT" /\ a.to.id < IdMax /\ (a.to \in net \/ Pending(p))
    BY DEF OrderInv, AnswerInv
  <2>2. a.to.id \in 0 .. IdMax
    BY DEF Answer, Packet
  <2>3. Pending(p) => pc[p].id = 0
    BY DEF OrderInv, IdInv
  <2> QED
    BY <2>1, <2>2, <2>3 DEF Traced
<1>4. AnswerInv(p)'
  <2>1. \A x \in back' : x \in back \/ x = a
    BY ReplyAdds
  <2>2. \A x : Traced(p, x)' <=> Traced(p, x)
    BY DEF Traced
  <2> QED
    BY <1>1, <1>3, <2>1, <2>2 DEF OrderInv, AnswerInv
<1>5. UploadInv(p) => UploadInv(p)'
  <2>1. \A k : Spent(p, k)' <=> Spent(p, k)
    BY DEF Spent, Last
  <2>2. Uploading(p)' <=> Uploading(p)
    BY DEF Uploading, Last, Filling, Waits
  <2>3. InOrder(p)' <=> InOrder(p)
    BY DEF InOrder, Filling
  <2> QED
    BY <2>1, <2>2, <2>3 DEF UploadInv
<1> QED
  BY <1>2, <1>4, <1>5 DEF OrderInv, PieceInv

LEMMA GoodResend ==
  ASSUME TypeOK, Common, NEW k \in net, Resend(k), NEW q \in PCs, Good(q)
  PROVE  Good(q)'
<1>1. Owner(k) \in PCs /\ sess[Owner(k)].ans # <<>>
  BY OwnerFound DEF Resend, Repeated
<1>2. PICK a \in Answer : sess[Owner(k)].ans = <<a>> /\ Made(Owner(k), a)
  BY <1>1 DEF Common, MadeInv
<1>3. back' = Reply(a) /\ a.pc = Owner(k)
      /\ UNCHANGED <<sess, net, pc, ran, blind, loose, mixed>>
  BY <1>2 DEF Resend, Made, device
<1>4. CASE q # Owner(k)
  BY <1>3, <1>4, Elsewhere DEF SameSession
<1>5. CASE q = Owner(k)
  BY <1>2, <1>3, <1>5, GoodResendOwn DEF Good
<1> QED
  BY <1>4, <1>5

\* What the terminal answers to a packet of p is the only answer there is to it.
LEMMA AnswersOwn ==
  ASSUME TypeOK, Common, NEW k \in net, NEW a \in Answer, a.to = k, a.pc = k.pc,
         back' = Reply(a), OrderInv(k.pc), k.cmd # "CONNECT",
         sess[k.pc].SessionID = k.sid, ~Repeated(k.pc, k), ~Old(k.pc, k)
  PROVE  /\ \A x \in back' : x.pc = k.pc => Traced(k.pc, x)
         /\ \A x \in back' : x.pc = k.pc /\ pc[k.pc].wait = <<x.to>> /\ x.to.cmd # "CONNECT"
                            /\ k.sid = x.to.sid => x = a
<1> DEFINE p == k.pc
<1>1. p \in PCs
  BY Kinds, NoInRange DEF Common
<1>2. \A x \in back' : x \in back \/ x = a
  BY ReplyAdds
<1>3. Traced(p, a)
  BY DEF Traced
<1>4. ASSUME NEW x \in back', x.pc = p, pc[p].wait = <<x.to>>, x.to.cmd # "CONNECT",
             k.sid = x.to.sid
      PROVE  x = a
  <2>1. PICK w \in net : Waits(p, w)
    BY <1>1, <1>4, WaitsFor
  <2>2. x.to = w
    BY <1>4, <2>1 DEF Waits
  <2>3. ran[w.no] = 0
    BY <1>4, <2>1, <2>2, RunFacts
  <2>4. x \notin back
    BY <2>2, <2>3 DEF Common, MadeInv, Made
  <2> QED
    BY <1>2, <1>4, <2>4
<1> QED
  BY <1>2, <1>3, <1>4 DEF OrderInv, AnswerInv

\* While an upload goes on only its next piece is taken.
LEMMA OnlyNextPiece ==
  ASSUME TypeOK, Common, NEW k \in net, k.cmd # "CONNECT", OrderInv(k.pc), UploadInv(k.pc),
         sess[k.pc].SessionID = k.sid, ~Repeated(k.pc, k), ~Old(k.pc, k)
  PROVE  /\ pc[k.pc].sent >= 0 =>
              /\ Waits(k.pc, k) /\ k.cmd = "DATA" /\ pc[k.pc].sent = k.arg
              /\ Last(k.pc) = k.id - 1 /\ Filling(k.pc) = k.arg - 1
         /\ k.cmd = "DATA" => pc[k.pc].sent >= 0
<1> DEFINE p == k.pc
<1>1. /\ p \in PCs /\ Last(p) \in 0 .. IdMax /\ pc[p].id \in 0 .. IdMax /\ IdMax \in Nat
      /\ \A l \in net : l.id \in 0 .. IdMax
  BY Kinds, NoInRange DEF Common
<1>2. /\ k.id >= Last(p) /\ (k.id = Last(p) => sess[p].ans = <<>>)
      /\ \A w \in net : Waits(p, w) /\ w.cmd # "CONNECT" => k.id <= w.id
  BY RunFacts
<1>3. k.id < pc[p].id
  BY DEF OrderInv, IdInv, Numbered
<1>4. ASSUME pc[p].sent >= 0
      PROVE  /\ Waits(p, k) /\ k.cmd = "DATA" /\ pc[p].sent = k.arg
             /\ Last(p) = k.id - 1 /\ Filling(p) = k.arg - 1
  <2>1. Uploading(p)
    BY <1>4 DEF UploadInv
  <2>2. k.id # Last(p)
    BY <1>2, <2>1 DEF Uploading
  <2>3. pc[p].wait # <<>>
    BY <1>1, <1>2, <1>3, <2>1, <2>2 DEF Uploading
  <2>4. PICK w \in net : Waits(p, w)
    BY <1>1, <2>3 DEF Common, WaitInv
  <2>5. w.cmd = "DATA" /\ w.pc = p
    BY <1>4, <2>4 DEF Waits
  <2>6. k.id <= w.id
    BY <1>2, <2>4, <2>5
  <2>7. /\ Last(p) = w.id - 1 /\ Filling(p) = w.arg - 1 /\ w.arg = pc[p].sent
    BY <1>1, <1>2, <2>1, <2>2, <2>4, <2>6 DEF Uploading
  <2>8. k.id = w.id
    BY <1>1, <1>2, <2>2, <2>6, <2>7
  <2>9. k = w
    BY <2>5, <2>8 DEF OrderInv, IdInv
  <2> QED
    BY <2>4, <2>5, <2>7, <2>9
<1>5. ASSUME k.cmd = "DATA" PROVE pc[p].sent >= 0
  <2>1. Spent(p, k)
    BY <1>5 DEF UploadInv
  <2>2. ~(k.id <= Last(p) /\ sess[p].ans # <<>>)
    BY <1>1, <1>2
  <2> QED
    BY <2>1, <2>2 DEF Spent
<1> QED
  BY <1>4, <1>5

LEMMA GoodRunOwn ==
  ASSUME TypeOK, Common, NEW k \in net, NEW t \in Session, NEW a \in Answer,
         k.cmd # "CONNECT", sess[k.pc].SessionID = k.sid, Runs(k, k.pc, t, a),
         OrderInv(k.pc), PieceInv(k.pc)
  PROVE  OrderInv(k.pc)' /\ PieceInv(k.pc)'
<1> DEFINE p == k.pc
<1>1. /\ p \in PCs /\ Last(p) \in 0 .. IdMax /\ pc[p].id \in 0 .. IdMax /\ IdMax \in Nat
      /\ pc[p].sent \in Int /\ \A l \in net : l.id \in 0 .. IdMax /\ l.arg \in Nat
  BY Kinds, NoInRange DEF Common
<1>2. /\ sess'[p] = t /\ t.SessionID = k.sid /\ t.LastReplyID = k.id /\ t.ans = <<a>>
      /\ a.pc = p /\ a.to = k /\ (p \notin mixed' => Filled(k, sess[p], t, a.ok))
      /\ (p \in mixed => p \in mixed')
      /\ back' = Reply(a) /\ ran' = [ran EXCEPT ![k.no] = @ + 1]
      /\ UNCHANGED <<net, pc, blind>>
  BY <1>1 DEF Runs, TypeOK
<1>3. ~Repeated(p, k) /\ ~Old(p, k)
  BY DEF Runs
<1>4. \A l \in net : /\ ran[l.no] \in Nat /\ ran'[l.no] \in Nat
                     /\ l # k => ran'[l.no] = ran[l.no]
                     /\ l = k => ran'[l.no] = ran[l.no] + 1
  BY <1>2, OthersRan
<1>5. /\ ran[k.no] = 0 /\ k.id < IdMax /\ k.id >= Last(p) /\ ~Pending(p)
      /\ k.id = Last(p) => sess[p].ans = <<>>
      /\ \A w \in net : Waits(p, w) /\ w.cmd # "CONNECT" =>
           /\ k.id <= w.id
           /\ w.sid = k.sid => ran[w.no] = 0
  BY <1>3, RunFacts
<1>6. Last(p)' = k.id /\ sess'[p].ans # <<>> /\ sess'[p].SessionID = sess[p].SessionID
  BY <1>2 DEF Last
<1>7. ~Pending(p)'
  BY <1>2, <1>4, <1>5 DEF Pending
<1>8. IdInv(p)'
  <2>1. ASSUME NEW l \in net, l.pc = p, l.cmd # "CONNECT" PROVE Numbered(p, l)'
    <3>1. Numbered(p, l)
      BY <2>1 DEF OrderInv, IdInv
    <3>2. CASE l = k
      BY <1>1, <1>2, <1>4, <1>5, <1>6, <3>1, <3>2 DEF Numbered
    <3>3. CASE l # k
      <4>1. ran[l.no] > 0 /\ sess[p].SessionID = l.sid => l.id <= k.id
        BY <1>1, <1>5, <3>1 DEF Numbered
      <4> QED
        BY <1>2, <1>4, <1>6, <3>1, <3>3, <4>1 DEF Numbered
    <3> QED
      BY <3>2, <3>3
  <2> QED
    BY <1>2, <1>5, <1>6, <1>7, <2>1 DEF OrderInv, IdInv
<1>9. /\ \A x \in back' : x.pc = p => Traced(p, x)
      /\ \A x \in back' : x.pc = p /\ pc[p].wait = <<x.to>> /\ x.to.cmd # "CONNECT"
                         /\ k.sid = x.to.sid => x = a
  BY <1>2, <1>3, AnswersOwn
<1>10. AnswerInv(p)'
  <2>1. \A x : Traced(p, x) => Traced(p, x)'
    BY <1>2 DEF Traced
  <2> QED
    BY <1>2, <1>5, <1>9, <2>1 DEF AnswerInv
<1>11. ASSUME p \notin mixed' PROVE PrepareInv(p)'
  <2> SUFFICES ASSUME NEW w \in net, Waits(p, w), w.cmd = "PREPARE_DATA", ran'[w.no] > 0
               PROVE  /\ sess'[p].SessionID = w.sid /\ Last(p)' = w.id /\ sess'[p].ans # <<>>
                      /\ \A x \in Answer : sess'[p].ans = <<x>> /\ x.ok => sess'[p].Buffer = <<>>
    BY <1>2 DEF PrepareInv, Waits
  <2>1. CASE w = k
    BY <1>2, <1>6, <1>11, <2>1 DEF Filled
  <2>2. CASE w # k
    <3>1. ran[w.no] > 0
      BY <1>4, <2>2
    <3>2. sess[p].SessionID = w.sid
      BY <1>2, <1>11, <3>1 DEF PieceInv, PrepareInv
    <3> QED
      BY <1>5, <3>1, <3>2
  <2> QED
    BY <2>1, <2>2
<1>12. ASSUME UploadInv(p), p \notin mixed' PROVE UploadInv(p)'
  <2>1. /\ pc[p].sent >= 0 =>
             /\ Waits(p, k) /\ k.cmd = "DATA" /\ pc[p].sent = k.arg
             /\ Last(p) = k.id - 1 /\ Filling(p) = k.arg - 1
        /\ k.cmd = "DATA" => pc[p].sent >= 0
    BY <1>3, <1>12, OnlyNextPiece
  <2>2. ASSUME NEW l \in net, l.pc = p, l.cmd = "DATA" PROVE Spent(p, l)'
    <3>1. Spent(p, l)
      BY <1>12, <2>2 DEF UploadInv
    <3> QED
      BY <1>1, <1>2, <1>5, <1>6, <3>1 DEF Spent
  <2>3. sess[p].Buffer \in Seq(Int) /\ sess'[p].Buffer = t.Buffer /\ InOrder(p)
    BY <1>1, <1>2, <1>12, Kinds DEF UploadInv
  <2>4. CASE k.cmd = "DATA"
    <3>1. Uploading(p)
      BY <1>12, <2>1, <2>4 DEF UploadInv
    <3>2. pc[p].wait = <<k>> /\ \A w : Waits(p, w) => w = k
      BY <2>1, <2>4 DEF Waits
    <3>3. /\ sess[p].Buffer # NoBuffer
          /\ \/ t.Buffer = Append(sess[p].Buffer, k.arg)
             \/ ~a.ok /\ t.Buffer = sess[p].Buffer
      BY <1>2, <1>12, <2>4 DEF Filled
    <3>4. k.arg = Filling(p) + 1 /\ k.arg \in Nat /\ Filling(p) \in Nat
      <4>1. Filling(p) \in Nat
        BY <2>3 DEF Filling
      <4>2. Filling(p) = k.arg - 1
        BY <2>1, <2>4
      <4>3. k.arg \in Nat
        BY <1>1
      <4> QED
        BY <4>1, <4>2, <4>3
    <3>5. CASE t.Buffer = Append(sess[p].Buffer, k.arg)
      <4>1. Filling(p)' = k.arg
        BY <2>3, <3>4, <3>5 DEF Filling
      <4>2. InOrder(p)'
        <5>1. ASSUME NEW i \in 1 .. k.arg PROVE sess'[p].Buffer[i] = i
          <6>1. CASE i = k.arg
            BY <2>3, <3>4, <3>5, <6>1 DEF Filling
          <6>2. CASE i # k.arg
            <7>1. i \in 1 .. Filling(p)
              BY <3>4, <6>2
            <7>2. sess'[p].Buffer[i] = sess[p].Buffer[i]
              BY <2>3, <3>5, <7>1 DEF Filling
            <7> QED
              BY <2>3, <3>3, <7>1, <7>2 DEF InOrder
          <6> QED
            BY <6>1, <6>2
        <5> QED
          BY <4>1, <5>1 DEF InOrder
      <4>3. t.Buffer # NoBuffer
        <5> SUFFICES ASSUME t.Buffer = NoBuffer PROVE FALSE
          OBVIOUS
        <5>1. Len(t.Buffer) = Filling(p) + 1 /\ t.Buffer[Filling(p) + 1] = k.arg
          BY <2>3, <3>5 DEF Filling
        <5>2. Len(NoBuffer) = 1 /\ NoBuffer[1] = -1
          BY DEF NoBuffer
        <5>3. Filling(p) + 1 = 1
          BY <5>1, <5>2
        <5>4. t.Buffer[1] = k.arg
          BY <5>1, <5>3
        <5> QED
          BY <3>4, <5>2, <5>4
      <4>4. Uploading(p)'
        BY <1>2, <1>6, <2>1, <2>3, <2>4, <3>1, <3>2, <4>1, <4>3 DEF Uploading, Waits
      <4> QED
        BY <1>2, <2>2, <4>2, <4>4 DEF UploadInv
    <3>6. CASE ~a.ok /\ t.Buffer = sess[p].Buffer
      <4>1. InOrder(p)'
        BY <2>3, <3>6 DEF InOrder, Filling
      <4>2. \A x \in Answer : sess'[p].ans = <<x>> => x = a
        BY <1>2
      <4>3. Uploading(p)'
        BY <1>2, <1>6, <2>1, <2>3, <2>4, <3>1, <3>2, <3>3, <3>6, <4>2 DEF Uploading, Waits
      <4> QED
        BY <1>2, <2>2, <4>1, <4>3 DEF UploadInv
    <3> QED
      BY <3>3, <3>5, <3>6
  <2>5. CASE k.cmd # "DATA"
    <3>1. ~(pc[p].sent >= 0)
      BY <2>1, <2>5
    <3>2. t.Buffer = <<>> \/ t.Buffer = NoBuffer \/ t.Buffer = sess[p].Buffer
      BY <1>2, <1>12, <2>5 DEF Filled
    <3>3. InOrder(p)'
      BY <2>3, <3>2 DEF InOrder, Filling
    <3> QED
      BY <1>2, <2>2, <3>1, <3>3 DEF UploadInv
  <2> QED
    BY <2>4, <2>5
<1> QED
  BY <1>2, <1>8, <1>10, <1>11, <1>12 DEF OrderInv, PieceInv

LEMMA GoodRun ==
  ASSUME TypeOK, Common, NEW k \in net, NEW t \in Session, NEW a \in Answer, Known(k),
         Runs(k, Owner(k), t, a), NEW q \in PCs, Good(q)
  PROVE  Good(q)'
<1>1. Owner(k) \in PCs /\ sess[Owner(k)].SessionID = k.sid /\ k.cmd # "CONNECT"
  BY OwnerFound
<1>2. (loose \subseteq loose') /\ ran' = [ran EXCEPT ![k.no] = @ + 1] /\ back' = Reply(a)
      /\ a.pc = Owner(k) /\ sess' = [sess EXCEPT ![Owner(k)] = t]
      /\ (Owner(k) # k.pc => Owner(k) \in loose' /\ k.pc \in loose')
      /\ (mixed \subseteq mixed') /\ UNCHANGED <<net, pc, blind>>
  BY DEF Runs
<1>3. CASE q \in loose'
  BY <1>3 DEF Good
<1>4. CASE q # Owner(k) /\ q # k.pc
  <2>1. sess'[q] = sess[q]
    BY <1>1, <1>2, <1>4 DEF TypeOK
  <2> QED
    BY <1>2, <1>4, <2>1, Elsewhere DEF SameSession
<1>5. CASE q = k.pc /\ Owner(k) = k.pc
  <2>1. q \notin loose => OrderInv(q)' /\ PieceInv(q)'
    BY <1>1, <1>5, GoodRunOwn DEF Good
  <2> QED
    BY <1>2, <2>1 DEF Good
<1> QED
  BY <1>2, <1>3, <1>4, <1>5

LEMMA GoodExitOwn ==
  ASSUME TypeOK, Common, NEW k \in net, Exit(k), Owner(k) = k.pc,
         OrderInv(k.pc), PieceInv(k.pc)
  PROVE  OrderInv(k.pc)' /\ PieceInv(k.pc)'
<1> DEFINE p == k.pc
<1>1. /\ p \in PCs /\ IdMax \in Nat /\ IdMax # 0 /\ pc[p].sent \in Int
      /\ sess[p].SessionID = k.sid /\ k.sid # 0 /\ k.cmd = "EXIT" /\ k.cmd # "CONNECT"
  BY Kinds, NoInRange, OwnerFound, Exits, IdAssumption DEF Common, Exit
<1>2. PICK a \in Answer : a.pc = p /\ a.to = k /\ back' = Reply(a)
  BY Exits
<1>3. ran' = [ran EXCEPT ![k.no] = @ + 1] /\ UNCHANGED <<net, pc, blind, mixed>>
  BY DEF Exit
<1>4. ~Repeated(p, k) /\ ~Old(p, k)
  BY Exits
<1>5. /\ sess'[p] = NoSession /\ sess'[p].SessionID = 0 /\ sess'[p].ans = <<>>
      /\ sess'[p].Buffer = NoBuffer /\ Last(p)' = 0
  BY <1>1, Exits DEF TypeOK, NoSession, Last
<1>6. \A l \in net : /\ ran[l.no] \in Nat /\ ran'[l.no] \in Nat
                     /\ l # k => ran'[l.no] = ran[l.no]
                     /\ l = k => ran'[l.no] = ran[l.no] + 1
  BY <1>3, OthersRan
<1>7. /\ ran[k.no] = 0 /\ ~Pending(p)
      /\ \A w \in net : Waits(p, w) /\ w.cmd # "CONNECT" =>
           (w.sid = k.sid => ran[w.no] = 0)
  BY <1>1, <1>4, RunFacts
<1>8. \A l \in net : l.pc = p /\ l.cmd # "CONNECT" => l.sid # 0
  BY DEF Common, PacketInv
<1>9. ~Pending(p)'
  BY <1>1, <1>3, <1>6, <1>7 DEF Pending
<1>10. IdInv(p)'
  <2>1. ASSUME NEW l \in net, l.pc = p, l.cmd # "CONNECT" PROVE Numbered(p, l)'
    BY <1>3, <1>5, <1>6, <1>7, <1>8, <2>1 DEF OrderInv, IdInv, Numbered
  <2> QED
    BY <1>1, <1>3, <1>5, <1>9, <2>1 DEF OrderInv, IdInv
<1>11. AnswerInv(p)'
  <2>1. \A x \in back' : x.pc = p => Traced(p, x)
    BY <1>1, <1>2, <1>4, AnswersOwn
  <2>2. \A x : Traced(p, x) => Traced(p, x)'
    BY <1>3 DEF Traced
  <2>3. ASSUME NEW x, pc[p].wait = <<x>>, x.cmd # "CONNECT" PROVE x.sid # 0
    <3>1. PICK w \in net : Waits(p, w)
      BY <1>1, <2>3, WaitsFor
    <3>2. w = x /\ w.pc = p
      BY <2>3, <3>1 DEF Waits
    <3> QED
      BY <1>8, <2>3, <3>2
  <2> QED
    BY <1>3, <1>5, <2>1, <2>2, <2>3 DEF AnswerInv
<1>12. ASSUME PrepareInv(p) PROVE PrepareInv(p)'
  <2>1. ASSUME NEW w \in net, Waits(p, w), w.cmd = "PREPARE_DATA", ran'[w.no] > 0
        PROVE  FALSE
    <3>1. ran[w.no] > 0 /\ w.cmd # "CONNECT"
      BY <1>1, <1>6, <2>1
    <3>2. sess[p].SessionID = w.sid
      BY <1>12, <2>1, <3>1 DEF PrepareInv
    <3> QED
      BY <1>1, <1>7, <2>1, <3>1, <3>2
  <2> QED
    BY <1>3, <2>1 DEF PrepareInv, Waits
<1>13. ASSUME UploadInv(p) PROVE UploadInv(p)'
  <2>1. ~(pc[p].sent >= 0)
    BY <1>1, <1>4, <1>13, OnlyNextPiece
  <2>2. \A l \in net : l.pc = p /\ l.cmd = "DATA" => Spent(p, l)'
    BY <1>5, <1>8 DEF Spent
  <2>3. InOrder(p)'
    BY <1>5 DEF InOrder
  <2> QED
    BY <1>3, <2>1, <2>2, <2>3 DEF UploadInv
<1> QED
  BY <1>3, <1>10, <1>11, <1>12, <1>13 DEF OrderInv, PieceInv

LEMMA GoodExit ==
  ASSUME TypeOK, Common, NEW k \in net, Exit(k), NEW q \in PCs, Good(q)
  PROVE  Good(q)'
<1>1. Owner(k) \in PCs
  BY OwnerFound, Exits
<1>2. (loose \subseteq loose') /\ ran' = [ran EXCEPT ![k.no] = @ + 1]
      /\ sess' = [sess EXCEPT ![Owner(k)] = NoSession]
      /\ (Owner(k) # k.pc => Owner(k) \in loose' /\ k.pc \in loose')
      /\ UNCHANGED <<net, pc, blind, mixed>>
  BY DEF Exit
<1>3. CASE q \in loose'
  BY <1>3 DEF Good
<1>4. CASE q # Owner(k) /\ q # k.pc
  <2>1. sess'[q] = sess[q]
    BY <1>1, <1>2, <1>4 DEF TypeOK
  <2>2. PICK a \in Answer : a.pc = Owner(k) /\ back' = Reply(a)
    BY Exits
  <2> QED
    BY <1>2, <1>4, <2>1, <2>2, Elsewhere DEF SameSession
<1>5. CASE q = k.pc /\ Owner(k) = k.pc
  <2>1. q \notin loose => OrderInv(q)' /\ PieceInv(q)'
    BY <1>5, GoodExitOwn DEF Good
  <2> QED
    BY <1>2, <2>1 DEF Good
<1> QED
  BY <1>2, <1>3, <1>4, <1>5

\* The terminal is started again: no session is left.
LEMMA GoodBoot ==
  ASSUME TypeOK, Common, Boot, NEW q \in PCs, Good(q)
  PROVE  Good(q)'
<1> SUFFICES ASSUME q \notin loose' PROVE OrderInv(q)' /\ PieceInv(q)'
  BY DEF Good
<1>1. /\ UNCHANGED <<net, back, pc, ran, loose, blind>>
      /\ mixed' = mixed \cup {p \in PCs : Connected(p)}
      /\ sess'[q] = NoSession
  BY DEF Boot
<1>2. /\ sess'[q].SessionID = 0 /\ sess'[q].ans = <<>> /\ sess'[q].Buffer = NoBuffer
      /\ Last(q)' = 0
  BY <1>1 DEF NoSession, Last
<1>3. OrderInv(q) /\ PieceInv(q)
  BY <1>1 DEF Good
<1>4. \A k \in net : k.cmd # "CONNECT" => k.sid # 0
  BY DEF Common, PacketInv
<1>5. IdMax \in Nat /\ IdMax # 0
  BY IdAssumption
<1>6. Pending(q)' <=> Pending(q)
  BY <1>1 DEF Pending
<1>7. IdInv(q)'
  <2>1. \A k \in net : k.cmd # "CONNECT" /\ Numbered(q, k) => Numbered(q, k)'
    BY <1>1, <1>2, <1>4 DEF Numbered
  <2> QED
    BY <1>1, <1>2, <1>3, <1>5, <1>6, <2>1 DEF OrderInv, IdInv
<1>8. AnswerInv(q)'
  <2>1. \A x : Traced(q, x) => Traced(q, x)'
    BY <1>1 DEF Traced
  <2>2. ASSUME NEW x, pc[q].wait = <<x>>, x.cmd # "CONNECT" PROVE x.sid # 0
    <3>1. PICK w \in net : Waits(q, w)
      BY <2>2 DEF Common, WaitInv
    <3>2. w = x
      BY <2>2, <3>1 DEF Waits
    <3> QED
      BY <1>4, <2>2, <3>2
  <2> QED
    BY <1>1, <1>2, <1>3, <2>1, <2>2 DEF OrderInv, AnswerInv
<1>9. ASSUME q \notin mixed' PROVE PrepareInv(q)' /\ (q \notin blind => UploadInv(q)')
  <2>1. q \notin mixed /\ sess[q].SessionID = 0
    BY <1>1, <1>9 DEF Connected
  <2>2. PrepareInv(q) /\ (q \notin blind => UploadInv(q))
    BY <1>3, <2>1 DEF PieceInv
  <2>3. PrepareInv(q)'
    <3>1. ASSUME NEW w \in net, Waits(q, w), w.cmd = "PREPARE_DATA", ran[w.no] > 0 PROVE FALSE
      BY <1>4, <2>1, <2>2, <3>1 DEF PrepareInv
    <3> QED
      BY <1>1, <3>1 DEF PrepareInv, Waits
  <2>4. ASSUME UploadInv(q) PROVE UploadInv(q)'
    <3>1. ~(pc[q].sent >= 0)
      BY <2>1, <2>4 DEF UploadInv, Uploading
    <3>2. \A k \in net : k.cmd = "DATA" => Spent(q, k)'
      BY <1>2, <1>4 DEF Spent
    <3>3. InOrder(q)'
      BY <1>2 DEF InOrder
    <3> QED
      BY <1>1, <3>1, <3>2, <3>3 DEF UploadInv
  <2> QED
    BY <2>2, <2>3, <2>4
<1> QED
  BY <1>1, <1>7, <1>8, <1>9 DEF OrderInv, PieceInv

-----------------------------------------------------------------------------
(* The theorems.                                                            *)

CommInv == TypeOK /\ Common /\ \A p \in PCs : Good(p)

LEMMA CommInit == Init => CommInv
<1> SUFFICES ASSUME Init PROVE CommInv
  OBVIOUS
<1>1. TypeOK
  BY InitType
<1>2. /\ net = {} /\ back = {} /\ made = 0
      /\ \A p \in PCs : /\ sess[p] = NoSession /\ pc[p].wait = <<>> /\ pc[p].sent = -1
      /\ \A n \in 1 .. CmdBound : ran[n] = 0
  BY DEF Init
<1>3. \A p \in PCs : sess[p].ans = <<>> /\ Last(p) = 0 /\ sess[p].Buffer = NoBuffer
  BY <1>2 DEF NoSession, Last
<1>4. Common
  BY <1>2, <1>3, LimitAssumption DEF Common, PacketInv, WaitInv, MadeInv
<1>5. ASSUME NEW p \in PCs PROVE Good(p)
  <2>1. IdInv(p)
    BY <1>2, <1>3, IdAssumption DEF IdInv, Pending
  <2>2. AnswerInv(p)
    BY <1>2, <1>3 DEF AnswerInv
  <2>3. PrepareInv(p)
    BY <1>2 DEF PrepareInv
  <2>4. UploadInv(p)
    BY <1>2, <1>3 DEF UploadInv, InOrder
  <2> QED
    BY <2>1, <2>2, <2>3, <2>4 DEF Good, OrderInv, PieceInv
<1> QED
  BY <1>1, <1>4, <1>5 DEF CommInv

LEMMA CommStep ==
  ASSUME CommInv, [Next]_vars
  PROVE  CommInv'
<1>1. TypeOK /\ Common /\ \A q \in PCs : Good(q)
  BY DEF CommInv
<1>2. TypeOK' /\ Common'
  BY <1>1, TypeStep, CommonStep
<1>3. ASSUME NEW q \in PCs PROVE Good(q)'
  <2>1. Good(q)
    BY <1>1
  <2>2. CASE \E p \in PCs, cmd \in Commands, arg \in Nat, k \in Packet :
               MaySend(p, cmd, arg) /\ Sent(p, cmd, arg, k)
    BY <1>1, <2>1, <2>2, GoodSend
  <2>3. CASE \E p \in PCs : Hear(p) \/ GiveUp(p)
    BY <1>1, <2>1, <2>3, GoodStop
  <2>4. CASE (\E p \in PCs : TimeOut(p)) \/ AppendRTLog \/ UNCHANGED vars
    BY <1>1, <2>1, <2>4, GoodQuiet
  <2>5. CASE \E k \in net, id \in 1 .. SecondBound : Connect(k, id)
    BY <1>1, <2>1, <2>5, GoodConnect
  <2>6. CASE \E k \in net : Resend(k)
    BY <1>1, <2>1, <2>6, GoodResend
  <2>7. CASE \E k \in net, t \in Session, a \in Answer : Known(k) /\ Runs(k, Owner(k), t, a)
    BY <1>1, <2>1, <2>7, GoodRun
  <2>8. CASE \E k \in net : Exit(k)
    BY <1>1, <2>1, <2>8, GoodExit
  <2>9. CASE Boot
    BY <1>1, <2>1, <2>9, GoodBoot
  <2> QED
    BY <1>1, <2>2, <2>3, <2>4, <2>5, <2>6, <2>7, <2>8, <2>9, Steps
<1> QED
  BY <1>2, <1>3 DEF CommInv

THEOREM CommInvariant == Spec => []CommInv
<1>1. CommInv /\ [Next]_vars => CommInv'
  BY CommStep
<1> QED
  BY <1>1, CommInit, PTL DEF Spec

\* Late and repeated packets do not make the terminal run a command twice, as
\* long as the ids of the PC only grow on its session (RunCommand, commu.c).
THEOREM OnlyOnce == Spec => []RunsOnce
<1>1. CommInv => RunsOnce
  <2> SUFFICES ASSUME CommInv, NEW k \in net, k.cmd # "CONNECT", k.pc \notin loose
               PROVE  ran[k.no] <= 1
    BY DEF RunsOnce
  <2>1. k.pc \in PCs
    BY NoInRange DEF CommInv, Common
  <2> QED
    BY <2>1 DEF CommInv, Good, OrderInv, IdInv, Numbered
<1> QED
  BY <1>1, CommInvariant, PTL

\* The answer a PC takes is the one to the packet it waits for, whether it was
\* made now or stored, and whatever answers come late (CreateSession,
\* RunCommand, commu.c).
THEOREM OwnAnswers == Spec => []AnswerIsOwn
<1>1. CommInv => AnswerIsOwn
  <2> SUFFICES ASSUME CommInv, NEW a \in back, a.pc \notin loose, pc[a.pc].wait # <<>>,
                      a.to.id = pc[a.pc].wait[1].id
               PROVE  a.to = pc[a.pc].wait[1]
    BY DEF AnswerIsOwn
  <2>1. a.pc \in PCs /\ a \in Answer
    BY DEF CommInv, TypeOK, Answer
  <2>2. OrderInv(a.pc) /\ Traced(a.pc, a)
    BY <2>1 DEF CommInv, Good, OrderInv, AnswerInv
  <2>3. PICK w \in net : Waits(a.pc, w)
    BY <2>1 DEF CommInv, Common, WaitInv
  <2>4. pc[a.pc].wait[1] = w
    BY <2>3 DEF Waits
  <2> QED
    BY <2>1, <2>2, <2>3, <2>4, Awaited DEF CommInv
<1> QED
  BY <1>1, CommInvariant, PTL

\* The buffer of an upload holds its pieces in order, although they carry no
\* position (CMD_PREPARE_DATA and CMD_DATA, commu.c).
THEOREM PiecesInOrder == Spec => []UploadInOrder
<1>1. CommInv => UploadInOrder
  BY DEF CommInv, Good, PieceInv, UploadInv, InOrder, Filling, UploadInOrder
<1> QED
  BY <1>1, CommInvariant, PTL

-----------------------------------------------------------------------------
(* The events of the PC that polls.                                         *)

Rises(s) == \A i, j \in 1 .. Len(s) : i < j => s[i] < s[j]
Elements(s) == {s[i] : i \in 1 .. Len(s)}

LEMMA RisesOnTop ==
  ASSUME NEW s \in Seq(Nat), NEW e \in Nat, NEW D \in SUBSET Nat,
         Rises(s), Elements(s) \cup D = 1 .. e
  PROVE  Rises(Append(s, e + 1)) /\ Elements(Append(s, e + 1)) \cup D = 1 .. e + 1
<1> DEFINE t == Append(s, e + 1)
           n == Len(s)
<1>1. n \in Nat /\ Len(t) = n + 1 /\ t[n + 1] = e + 1 /\ (\A i \in 1 .. n : t[i] = s[i])
  OBVIOUS
<1>2. \A i \in 1 .. n : s[i] \in 1 .. e
  BY DEF Elements
<1>3. \A i \in 1 .. n + 1 : i \in 1 .. n \/ i = n + 1
  BY <1>1
<1> HIDE DEF t
<1>4. ASSUME NEW i \in 1 .. n + 1, NEW j \in 1 .. n + 1, i < j PROVE t[i] < t[j]
  <2>1. i \in 1 .. n
    BY <1>1, <1>4
  <2>2. CASE j \in 1 .. n
    BY <1>1, <1>4, <2>1, <2>2 DEF Rises
  <2>3. CASE j = n + 1
    BY <1>1, <1>2, <2>1, <2>3
  <2> QED
    BY <1>3, <2>2, <2>3
<1>5. Rises(t)
  BY <1>1, <1>4 DEF Rises
<1>6. Elements(t) = Elements(s) \cup {e + 1}
  BY <1>1, <1>3 DEF Elements
<1>7. (1 .. e) \cup {e + 1} = 1 .. e + 1
  OBVIOUS
<1> QED
  BY <1>5, <1>6, <1>7 DEF t

LEMMA RisesWithout ==
  ASSUME NEW b \in Seq(Nat), NEW u \in Seq(Nat), u # <<>>, Rises(b \o u)
  PROVE  Rises(b \o Tail(u)) /\ Elements(b \o u) = Elements(b \o Tail(u)) \cup {Head(u)}
<1> DEFINE s == b \o u
           t == b \o Tail(u)
           n == Len(b)
           m == Len(u)
           At(i) == IF i <= n THEN i ELSE i + 1
<1>1. n \in Nat /\ m \in Nat /\ m >= 1 /\ Tail(u) \in Seq(Nat) /\ Len(Tail(u)) = m - 1
      /\ \A i \in 1 .. m - 1 : Tail(u)[i] = u[i + 1]
  OBVIOUS
<1>2. Len(s) = n + m /\ \A i \in 1 .. n + m : s[i] = IF i <= n THEN b[i] ELSE u[i - n]
  OBVIOUS
<1>3. Len(t) = n + m - 1 /\ \A i \in 1 .. n + m - 1 : t[i] = IF i <= n THEN b[i] ELSE Tail(u)[i - n]
  BY <1>1
<1>4. Head(u) = u[1]
  OBVIOUS
<1> HIDE DEF s, t, n, m
<1>5. s[n + 1] = Head(u) /\ n + 1 \in 1 .. n + m
  BY <1>1, <1>2, <1>4
<1>6. \A i \in 1 .. n + m - 1 : At(i) \in 1 .. n + m /\ t[i] = s[At(i)]
  <2> TAKE i \in 1 .. n + m - 1
  <2>1. CASE i <= n
    <3>1. i \in 1 .. n + m /\ At(i) = i
      BY <1>1, <2>1
    <3>2. t[i] = b[i] /\ s[i] = b[i]
      BY <1>2, <1>3, <2>1, <3>1
    <3> HIDE DEF At
    <3> QED
      BY <3>1, <3>2
  <2>2. CASE ~(i <= n)
    <3>a. At(i) = i + 1
      BY <2>2
    <3>1. i - n \in 1 .. m - 1 /\ i + 1 \in 1 .. n + m /\ (i + 1) - n = (i - n) + 1
      BY <1>1, <2>2
    <3>2. t[i] = u[(i - n) + 1]
      BY <1>1, <1>3, <2>2, <3>1
    <3>3. s[i + 1] = u[(i + 1) - n]
      <4>1. ~(i + 1 <= n)
        BY <1>1, <2>2
      <4> QED
        BY <1>2, <3>1, <4>1
    <3> HIDE DEF At
    <3> QED
      BY <3>a, <3>1, <3>2, <3>3
  <2> QED
    BY <2>1, <2>2
<1>7. \A i, j \in 1 .. n + m - 1 : i < j => At(i) < At(j)
  BY <1>1
<1>8. \A j \in 1 .. n + m : j = n + 1 \/ \E i \in 1 .. n + m - 1 : j = At(i)
  <2> TAKE j \in 1 .. n + m
  <2>1. CASE j <= n
    <3>1. j \in 1 .. n + m - 1 /\ j = At(j)
      BY <1>1, <2>1
    <3> QED
      BY <3>1
  <2>2. CASE j > n + 1
    <3>1. j - 1 \in 1 .. n + m - 1 /\ j = At(j - 1)
      BY <1>1, <2>2
    <3> QED
      BY <3>1
  <2> QED
    BY <1>1, <2>1, <2>2
<1> HIDE DEF At
<1>9. Rises(s)
  BY DEF s
<1>10. Rises(t)
  BY <1>2, <1>3, <1>6, <1>7, <1>9 DEF Rises
<1>11. Elements(s) = Elements(t) \cup {Head(u)}
  <2>1. ASSUME NEW x \in Elements(s) PROVE x \in Elements(t) \cup {Head(u)}
    <3>1. PICK j \in 1 .. n + m : x = s[j]
      BY <1>2 DEF Elements
    <3>2. CASE j = n + 1
      BY <1>5, <3>1, <3>2
    <3>3. CASE \E i \in 1 .. n + m - 1 : j = At(i)
      BY <1>3, <1>6, <3>1, <3>3 DEF Elements
    <3> QED
      BY <1>8, <3>2, <3>3
  <2>2. ASSUME NEW x \in Elements(t) PROVE x \in Elements(s)
    <3>1. PICK i \in 1 .. n + m - 1 : x = t[i]
      BY <1>3, <2>2 DEF Elements
    <3>2. At(i) \in 1 .. n + m /\ x = s[At(i)]
      BY <1>6, <3>1
    <3> QED
      BY <1>2, <3>2 DEF Elements
  <2>3. Head(u) \in Elements(s)
    BY <1>2, <1>5 DEF Elements
  <2> QED
    BY <2>1, <2>2, <2>3
<1> QED
  BY <1>10, <1>11 DEF s, t

LEMMA Regrouped ==
  ASSUME NEW s \in Seq(Nat), NEW t \in Seq(Nat), NEW u \in Seq(Nat)
  PROVE  (s \o t) \o u = s \o (t \o u)
BY SMTT(60)

\* PC p polls alone and has not called up again since the first list.
Polling(p) == p \notin loose /\ ~restarted /\ pollers \subseteq {p}

\* The session will not run this command, or not any more.
Late(p, k) ==
  \/ k.id <= Last(p) /\ sess[p].ans # <<>>
  \/ k.sid # sess[p].SessionID

\* Commands under way are of the session the PC knows.
SidInv(p) == \A k \in net : k.pc = p /\ k.cmd # "CONNECT" => pc[p].sid \in {0, k.sid}

\* The PC has every list that was made but perhaps the last.
CountInv(p) ==
  /\ pc[p].lists <= RTLogNum /\ RTLogNum <= pc[p].lists + 1
  /\ RTLogNum > 0 => LastRTLog # <<>>
  /\ \A w \in net : Waits(p, w) /\ w.cmd = "CONNECT" /\ ran[w.no] > 0 => RTLogNum = 0

\* A poll that can still be run tells how many lists the PC has.
PollInv(p) ==
  \A k \in net : k.pc = p /\ k.cmd = "RTLOG_RRQ" => k.arg = pc[p].lists \/ Late(p, k)

\* The list in an answer the PC may take is the one it has not got.
Carries(p, a) ==
  IF a.to.cmd = "RTLOG_RRQ" THEN pc[p].wait = <<a.to>> => a.events = Open(p)
  ELSE a.events = <<>>
ListInv(p) ==
  /\ \A a \in back : a.pc = p => Carries(p, a)
  /\ \A a \in Answer : sess[p].ans = <<a>> => Carries(p, a)

StreamInv(p) == Rises(Stream(p)) /\ Elements(Stream(p)) \cup evicted = 1 .. events

EventInv(p) ==
  Polling(p) => SidInv(p) /\ CountInv(p) /\ PollInv(p) /\ ListInv(p) /\ StreamInv(p)

LEMMA EventKinds ==
  ASSUME TypeOK, NEW p \in PCs
  PROVE  /\ pc[p].got \in Seq(Nat) /\ pc[p].lists \in Nat /\ Open(p) \in Seq(Nat)
         /\ rtlist \in Seq(Nat) /\ LastRTLog \in Seq(Nat) /\ RTLogNum \in Nat
         /\ events \in Nat /\ evicted \subseteq Nat
         /\ pc[p].got \o Open(p) \in Seq(Nat)
<1>1. pc[p] \in PC /\ rtlist \in Seq(Nat) /\ LastRTLog \in Seq(Nat) /\ RTLogNum \in Nat
      /\ events \in Nat /\ evicted \subseteq Nat
  BY DEF TypeOK
<1>2. pc[p].got \in Seq(Nat) /\ pc[p].lists \in Nat
  BY <1>1 DEF PC
<1>3. Open(p) \in Seq(Nat)
  BY <1>1 DEF Open
<1> QED
  BY <1>1, <1>2, <1>3

\* A step that leaves p and the lists alone.
LEMMA EventFrame ==
  ASSUME NEW p \in PCs, EventInv(p), Polling(p)' => Polling(p), Untouched(p),
         UNCHANGED <<RTLogNum, LastRTLog>>, Polling(p) => StreamInv(p)'
  PROVE  EventInv(p)'
<1> SUFFICES ASSUME Polling(p)'
             PROVE  (SidInv(p) /\ CountInv(p) /\ PollInv(p) /\ ListInv(p) /\ StreamInv(p))'
  BY DEF EventInv
<1>1. SidInv(p) /\ CountInv(p) /\ PollInv(p) /\ ListInv(p) /\ StreamInv(p)'
  BY DEF EventInv
<1>2. /\ sess'[p].SessionID = sess[p].SessionID /\ sess'[p].ans = sess[p].ans
      /\ Last(p)' = Last(p) /\ pc'[p] = pc[p] /\ Open(p)' = Open(p)
  BY DEF Untouched, SameSession, Last, Open
<1>3. \A k \in net' : k.pc = p => k \in net /\ ran'[k.no] = ran[k.no]
  BY DEF Untouched
<1>4. SidInv(p)'
  BY <1>1, <1>2, <1>3 DEF SidInv
<1>5. CountInv(p)'
  <2>1. \A w : Waits(p, w)' <=> Waits(p, w)
    BY <1>2 DEF Waits
  <2>2. \A w : Waits(p, w) => w.pc = p
    BY DEF Waits
  <2> QED
    BY <1>1, <1>2, <1>3, <2>1, <2>2 DEF CountInv
<1>6. PollInv(p)'
  <2>1. \A k : Late(p, k)' <=> Late(p, k)
    BY <1>2 DEF Late
  <2> QED
    BY <1>1, <1>2, <1>3, <2>1 DEF PollInv
<1>7. ListInv(p)'
  <2>1. \A a : Carries(p, a)' <=> Carries(p, a)
    BY <1>2 DEF Carries
  <2>2. \A a \in back' : a.pc = p => a \in back
    BY DEF Untouched
  <2> QED
    BY <1>1, <1>2, <2>1, <2>2 DEF ListInv
<1> QED
  BY <1>1, <1>4, <1>5, <1>6, <1>7

\* The stream changes only with the lists, the PC and the events.
LEMMA StreamKept ==
  ASSUME NEW p \in PCs, StreamInv(p), pc'[p] = pc[p],
         UNCHANGED <<RTLogNum, LastRTLog, rtlist, evicted, events>>
  PROVE  StreamInv(p)'
<1>1. Stream(p)' = Stream(p)
  BY DEF Stream, Open
<1> QED
  BY <1>1 DEF StreamInv

\* An event is raised: AppendRTLog.
LEMMA StreamGrows ==
  ASSUME TypeOK, NEW p \in PCs, StreamInv(p), AppendRTLog
  PROVE  StreamInv(p)'
<1> DEFINE b == pc[p].got \o Open(p)
<1>1. /\ b \in Seq(Nat) /\ rtlist \in Seq(Nat) /\ events \in Nat /\ evicted \in SUBSET Nat
      /\ RTCache \in Nat
  BY EventKinds, RoomAssumption
<1>2. b' = b /\ events' = events + 1
  BY DEF AppendRTLog, Open
<1>3. Stream(p) = b \o rtlist /\ Stream(p)' = b \o rtlist'
  BY <1>2 DEF Stream
<1>4. Rises(b \o rtlist) /\ Elements(b \o rtlist) \cup evicted = 1 .. events
  BY <1>3 DEF StreamInv
<1> HIDE DEF b
<1>5. \A u \in Seq(Nat) : b \o Append(u, events + 1) = Append(b \o u, events + 1)
  <2> TAKE u \in Seq(Nat)
  <2> DEFINE one == <<events + 1>>
  <2>1. Append(u, events + 1) = u \o one /\ one \in Seq(Nat)
    BY <1>1
  <2>2. b \o u \in Seq(Nat)
    BY <1>1
  <2>3. Append(b \o u, events + 1) = (b \o u) \o one
    BY <1>1, <2>2
  <2> HIDE DEF one
  <2>4. (b \o u) \o one = b \o (u \o one)
    BY <1>1, <2>1, Regrouped, Zenon
  <2> QED
    BY <2>1, <2>3, <2>4
<1>6. CASE Len(rtlist) > RTCache
  <2>1. rtlist # <<>> /\ Tail(rtlist) \in Seq(Nat) /\ Head(rtlist) \in Nat
    BY <1>1, <1>6
  <2>2. rtlist' = Append(Tail(rtlist), events + 1) /\ evicted' = evicted \cup {Head(rtlist)}
    BY <1>6 DEF AppendRTLog
  <2> DEFINE s == b \o Tail(rtlist)
             D == evicted \cup {Head(rtlist)}
  <2>3. Rises(s) /\ Elements(b \o rtlist) = Elements(s) \cup {Head(rtlist)}
    BY <1>1, <1>4, <2>1, RisesWithout
  <2>4. s \in Seq(Nat) /\ D \in SUBSET Nat /\ Elements(s) \cup D = 1 .. events
    BY <1>1, <1>4, <2>1, <2>3
  <2>5. Stream(p)' = Append(s, events + 1) /\ evicted' = D
    BY <1>3, <1>5, <2>1, <2>2
  <2> HIDE DEF s, D
  <2>6. Rises(Append(s, events + 1)) /\ Elements(Append(s, events + 1)) \cup D = 1 .. events + 1
    BY <1>1, <2>3, <2>4, RisesOnTop
  <2> QED
    BY <1>2, <2>5, <2>6 DEF StreamInv
<1>7. CASE ~(Len(rtlist) > RTCache)
  <2>1. rtlist' = Append(rtlist, events + 1) /\ evicted' = evicted
    BY <1>7 DEF AppendRTLog
  <2> DEFINE s == b \o rtlist
  <2>2. s \in Seq(Nat) /\ Stream(p)' = Append(s, events + 1)
    BY <1>1, <1>3, <1>5, <2>1
  <2>3. Rises(s) /\ Elements(s) \cup evicted = 1 .. events
    BY <1>4
  <2> HIDE DEF s
  <2>4. Rises(Append(s, events + 1)) /\ Elements(Append(s, events + 1)) \cup evicted = 1 .. events + 1
    BY <1>1, <2>2, <2>3, RisesOnTop
  <2> QED
    BY <1>2, <2>1, <2>2, <2>4 DEF StreamInv
<1> QED
  BY <1>6, <1>7

\* What is true of the polling PC stays so only while it was.
LEMMA PollingBefore ==
  ASSUME TypeOK, [Next]_vars, NEW p \in PCs, Polling(p)'
  PROVE  Polling(p)
<1>1. (loose \subseteq loose') /\ (restarted => restarted') /\ (pollers \subseteq pollers')
  <2>1. CASE \E q \in PCs, cmd \in Commands, arg \in Nat, k \in Packet :
               MaySend(q, cmd, arg) /\ Sent(q, cmd, arg, k)
    BY <2>1 DEF MaySend, Sent, polling
  <2>2. CASE \E q \in PCs : CallUp(q) \/ Command(q)
    BY <2>1, <2>2, PCSends
  <2>3. CASE \E q \in PCs : Hear(q) \/ GiveUp(q) \/ TimeOut(q)
    <3>1. PICK q \in PCs : Hear(q) \/ GiveUp(q) \/ TimeOut(q)
      BY <2>3
    <3>2. UNCHANGED <<loose, polling>>
      <4>1. CASE Hear(q)
        BY <4>1, Zenon DEF Hear
      <4>2. CASE GiveUp(q)
        BY <4>2, Zenon DEF GiveUp
      <4>3. CASE TimeOut(q)
        BY <4>3, Zenon DEF TimeOut
      <4> QED
        BY <3>1, <4>1, <4>2, <4>3
    <3> QED
      BY <3>2 DEF polling
  <2>4. CASE AppendRTLog \/ UNCHANGED vars
    BY <2>4 DEF AppendRTLog, vars, polling
  <2>5. CASE \E k \in net : Resend(k) \/ Exit(k) \/ \E id \in 1 .. SecondBound : Connect(k, id)
    <3>1. PICK k \in net : Resend(k) \/ Exit(k) \/ \E id \in 1 .. SecondBound : Connect(k, id)
      BY <2>5
    <3>2. CASE Resend(k)
      <4>1. UNCHANGED <<loose, polling>>
        BY <3>2, Zenon DEF Resend
      <4> QED
        BY <4>1 DEF polling
    <3>3. CASE Exit(k)
      <4>1. /\ loose' = IF Owner(k) # k.pc THEN loose \cup {Owner(k), k.pc} ELSE loose
            /\ UNCHANGED polling
        BY <3>3, Zenon DEF Exit
      <4> QED
        BY <4>1 DEF polling
    <3>4. CASE \E id \in 1 .. SecondBound : Connect(k, id)
      <4>1. /\ loose' = IF ran[k.no] > 0 THEN loose \cup {k.pc} ELSE loose
            /\ restarted' = (restarted \/ RTLogNum > 0) /\ pollers' = pollers
        BY <3>4, Zenon DEF Connect
      <4>2. restarted => restarted'
        BY <4>1, Zenon
      <4> QED
        BY <4>1, <4>2
    <3> QED
      BY <3>1, <3>2, <3>3, <3>4
  <2>6. CASE \E k \in net : OnSession(k)
    <3>1. PICK k \in net : OnSession(k)
      BY <2>6
    <3>2. PICK t \in Session, a \in Answer : Runs(k, Owner(k), t, a)
      BY <3>1, CommandRuns
    <3>3. loose \subseteq loose'
      BY <3>2 DEF Runs
    <3>4. restarted' = restarted /\ pollers \subseteq pollers'
      <4>1. CASE PrepareData(k)
        BY <4>1, Zenon DEF PrepareData, polling
      <4>2. CASE Data(k)
        BY <4>2, Zenon DEF Data, polling
      <4>3. CASE ~(PrepareData(k) \/ Data(k))
        BY <3>1, <4>3 DEF OnSession, Write, DisableDevice, EnableDevice, FreeData, RTLog,
           UpdateFlag, UpdateFireware, polling
      <4> QED
        BY <4>1, <4>2, <4>3
    <3> QED
      BY <3>3, <3>4
  <2>7. CASE Boot \/ \E k \in net : NoBufferThere(k)
    BY <2>7 DEF NoBufferThere, Boot
  <2> QED
    BY <2>2, <2>3, <2>4, <2>5, <2>6, <2>7 DEF Next, Receive, OnSession
<1> QED
  BY <1>1 DEF Polling

\* The PC sends: a poll tells how many lists the PC has.
LEMMA EventSend ==
  ASSUME TypeOK, Common, NEW p \in PCs, NEW cmd \in Commands, NEW arg \in Nat,
         NEW k \in Packet, MaySend(p, cmd, arg), Sent(p, cmd, arg, k),
         Polling(p), EventInv(p)
  PROVE  EventInv(p)'
<1>1. SidInv(p) /\ CountInv(p) /\ PollInv(p) /\ ListInv(p) /\ StreamInv(p)
  BY DEF EventInv
<1>2. /\ k.pc = p /\ k.no = made + 1 /\ k.cmd = cmd /\ k.arg = arg
      /\ cmd # "CONNECT" => k.sid = pc[p].sid
      /\ \A l \in net' : l.pc = p => l = k \/ (l \in net /\ cmd # "CONNECT")
      /\ pc'[p].wait = <<k>> /\ pc'[p].sid = k.sid
      /\ pc'[p].got = pc[p].got /\ pc'[p].lists = pc[p].lists
      /\ cmd = "RTLOG_RRQ" => arg = pc[p].lists
      /\ UNCHANGED <<sess, RTLogNum, LastRTLog, rtlist, ran, evicted, events>>
      /\ (back' \subseteq back)
  BY DEF Sent, MaySend, device
<1>3. made \in Nat /\ made + 1 \in 1 .. CmdBound /\ ran[k.no] = 0
  BY <1>2, LimitAssumption DEF Common, PacketInv, Sent, TypeOK
<1>4. Open(p)' = Open(p) /\ Last(p)' = Last(p)
  BY <1>2 DEF Open, Last
<1>5. SidInv(p)'
  BY <1>1, <1>2 DEF SidInv
<1>6. CountInv(p)'
  BY <1>1, <1>2, <1>3 DEF CountInv, Waits
<1>7. PollInv(p)'
  <2>1. \A l : Late(p, l)' <=> Late(p, l)
    BY <1>2, <1>4 DEF Late
  <2> QED
    BY <1>1, <1>2, <2>1 DEF PollInv
<1>8. ListInv(p)'
  <2>1. ASSUME NEW a \in Answer, Carries(p, a), Made(p, a) PROVE Carries(p, a)'
    <3>1. a.to # k
      BY <1>2, <1>3, <2>1 DEF Made
    <3> QED
      BY <1>2, <2>1, <3>1 DEF Carries
  <2>2. \A a \in back : a \in Answer /\ (a.pc = p => Made(p, a))
    BY Kinds DEF Common, MadeInv
  <2>3. \A a \in Answer : sess[p].ans = <<a>> => Made(p, a)
    BY DEF Common, MadeInv
  <2> QED
    BY <1>1, <1>2, <2>1, <2>2, <2>3 DEF ListInv
<1>9. StreamInv(p)'
  <2>1. Stream(p)' = Stream(p)
    BY <1>2, <1>4 DEF Stream
  <2> QED
    BY <1>1, <1>2, <2>1 DEF StreamInv
<1> QED
  BY <1>5, <1>6, <1>7, <1>8, <1>9 DEF EventInv

\* The PC goes on without the answer.
LEMMA EventGiveUp ==
  ASSUME TypeOK, Common, NEW p \in PCs, GiveUp(p), Polling(p), EventInv(p)
  PROVE  EventInv(p)'
<1>1. SidInv(p) /\ CountInv(p) /\ PollInv(p) /\ ListInv(p) /\ StreamInv(p)
  BY DEF EventInv
<1>2. /\ pc'[p].wait = <<>> /\ pc'[p].sid = pc[p].sid
      /\ pc'[p].got = pc[p].got /\ pc'[p].lists = pc[p].lists
  <2>1. pc' = [pc EXCEPT ![p].wait = <<>>] /\ pc \in [PCs -> PC]
    BY DEF GiveUp, TypeOK
  <2> QED
    BY <2>1 DEF PC
<1>3. UNCHANGED <<back, sess, RTLogNum, LastRTLog, rtlist, net, ran, evicted, events>>
  BY DEF GiveUp, device
<1>4. Open(p)' = Open(p) /\ Last(p)' = Last(p)
  BY <1>2, <1>3 DEF Open, Last
<1>5. SidInv(p)'
  BY <1>1, <1>2, <1>3 DEF SidInv
<1>6. CountInv(p)'
  BY <1>1, <1>2, <1>3 DEF CountInv, Waits
<1>7. PollInv(p)'
  <2>1. \A l : Late(p, l)' <=> Late(p, l)
    BY <1>3, <1>4 DEF Late
  <2> QED
    BY <1>1, <1>2, <1>3, <2>1 DEF PollInv
<1>8. ListInv(p)'
  BY <1>1, <1>2, <1>3 DEF ListInv, Carries
<1>9. StreamInv(p)'
  <2>1. Stream(p)' = Stream(p)
    BY <1>2, <1>3, <1>4 DEF Stream
  <2> QED
    BY <1>1, <1>3, <2>1 DEF StreamInv
<1> QED
  BY <1>5, <1>6, <1>7, <1>8, <1>9 DEF EventInv
\* What the PC knows of an answer it takes.
LEMMA Heard ==
  ASSUME TypeOK, Common, NEW p \in PCs, Hear(p), OrderInv(p)
  PROVE  \E a \in back, w \in net :
           /\ a.pc = p /\ a.to = w /\ Waits(p, w) /\ ran[w.no] > 0
           /\ pc'[p].wait = <<>> /\ pc'[p].got = pc[p].got \o a.events
           /\ pc'[p].sid = (IF w.cmd = "CONNECT" THEN a.sid
                            ELSE IF w.cmd = "EXIT" THEN 0 ELSE pc[p].sid)
           /\ pc'[p].lists = (IF w.cmd = "CONNECT" THEN 0
                              ELSE IF a.events # <<>> THEN pc[p].lists + 1 ELSE pc[p].lists)
<1>1. PICK a \in back : a.pc = p /\ a.to.id = pc[p].wait[1].id /\ pc' = [pc EXCEPT ![p] = Accepted(p, a)]
  BY DEF Hear
<1>2. PICK w \in net : Waits(p, w)
  BY DEF Hear, Common, WaitInv
<1>3. a.to = w /\ pc[p].wait[1] = w
  <2>1. pc[p].wait[1] = w
    BY <1>2 DEF Waits
  <2>2. a \in Answer /\ Traced(p, a)
    BY <1>1, Kinds DEF OrderInv, AnswerInv
  <2> QED
    BY <1>1, <1>2, <2>1, <2>2, Awaited
<1>4. ran[w.no] > 0
  BY <1>1, <1>3 DEF Common, MadeInv, Made
<1> DEFINE new == Accepted(p, a)
<1>5. pc'[p] = new
  BY <1>1 DEF TypeOK
<1>a. /\ new.wait = <<>> /\ new.got = pc[p].got \o a.events
      /\ new.sid = (IF w.cmd = "CONNECT" THEN a.sid
                    ELSE IF w.cmd = "EXIT" THEN 0 ELSE pc[p].sid)
      /\ new.lists = (IF w.cmd = "CONNECT" THEN 0
                      ELSE IF a.events # <<>> THEN pc[p].lists + 1 ELSE pc[p].lists)
  BY <1>3 DEF Accepted
<1> HIDE DEF new
<1>6. /\ pc'[p].wait = <<>> /\ pc'[p].got = pc[p].got \o a.events
      /\ pc'[p].sid = (IF w.cmd = "CONNECT" THEN a.sid
                       ELSE IF w.cmd = "EXIT" THEN 0 ELSE pc[p].sid)
      /\ pc'[p].lists = (IF w.cmd = "CONNECT" THEN 0
                         ELSE IF a.events # <<>> THEN pc[p].lists + 1 ELSE pc[p].lists)
  BY <1>5, <1>a
<1> QED
  BY <1>1, <1>2, <1>3, <1>4, <1>6

\* The PC takes an answer: a list in it is the one the PC has not got.
LEMMA EventHear ==
  ASSUME TypeOK, Common, NEW p \in PCs, Hear(p), OrderInv(p), Polling(p), EventInv(p)
  PROVE  EventInv(p)'
<1>1. SidInv(p) /\ CountInv(p) /\ PollInv(p) /\ ListInv(p) /\ StreamInv(p)
  BY DEF EventInv
<1>2. PICK a \in back, w \in net :
           /\ a.pc = p /\ a.to = w /\ Waits(p, w) /\ ran[w.no] > 0
           /\ pc'[p].wait = <<>> /\ pc'[p].got = pc[p].got \o a.events
           /\ pc'[p].sid = (IF w.cmd = "CONNECT" THEN a.sid
                            ELSE IF w.cmd = "EXIT" THEN 0 ELSE pc[p].sid)
           /\ pc'[p].lists = (IF w.cmd = "CONNECT" THEN 0
                              ELSE IF a.events # <<>> THEN pc[p].lists + 1 ELSE pc[p].lists)
  BY Heard
<1>3. UNCHANGED <<sess, net, ran, RTLogNum, LastRTLog, rtlist, evicted, events>>
      /\ (back' \subseteq back)
  BY DEF Hear, device
<1>4. /\ w.pc = p /\ pc[p].wait = <<w>> /\ pc[p].sid = w.sid /\ pc[p].id = NextId(w.id)
      /\ w.cmd # "CONNECT" => w.sid # 0
      /\ w.cmd = "CONNECT" => w.id = IdMax
  BY <1>2 DEF Waits, Common, PacketInv
<1>5. /\ IdMax \in Nat /\ Last(p) \in 0 .. IdMax /\ \A k \in net : k.id \in 0 .. IdMax
  BY Kinds
<1>6. /\ pc[p].got \in Seq(Nat) /\ pc[p].lists \in Nat /\ RTLogNum \in Nat
      /\ rtlist \in Seq(Nat) /\ Open(p) \in Seq(Nat)
      /\ pc[p].got \o Open(p) \in Seq(Nat)
  BY EventKinds
<1>7. Carries(p, a)
  BY <1>1, <1>2 DEF ListInv
<1>8. \A k \in net : k.pc = p /\ k.cmd # "CONNECT" => w.cmd # "CONNECT" /\ k.id <= w.id
  <2> TAKE k \in net
  <2> HAVE k.pc = p /\ k.cmd # "CONNECT"
  <2>1. k.id < pc[p].id
    BY DEF OrderInv, IdInv, Numbered
  <2>2. w.cmd # "CONNECT"
    BY <1>4, <1>5, <2>1 DEF NextId
  <2>3. w.id < pc[p].id
    BY <1>4, <2>2 DEF OrderInv, IdInv, Numbered
  <2>4. pc[p].id = w.id + 1
    BY <1>4, <1>5, <2>3 DEF NextId
  <2> QED
    BY <1>5, <2>1, <2>2, <2>4
<1>9. SidInv(p)'
  BY <1>1, <1>2, <1>3, <1>8 DEF SidInv
<1>10. ListInv(p)'
  <2>1. \A b : Carries(p, b) => Carries(p, b)'
    BY <1>2 DEF Carries
  <2> QED
    BY <1>1, <1>3, <2>1 DEF ListInv
<1>11. \A v : ~Waits(p, v)'
  BY <1>2 DEF Waits
<1>12. CASE a.events = <<>>
  <2>1. pc'[p].lists = pc[p].lists
    BY <1>1, <1>2, <1>6, <1>12 DEF CountInv
  <2>2. pc'[p].got = pc[p].got
    BY <1>2, <1>6, <1>12
  <2>3. Open(p)' = Open(p) /\ Last(p)' = Last(p)
    BY <1>3, <2>1 DEF Open, Last
  <2>4. CountInv(p)'
    BY <1>1, <1>3, <1>11, <2>1 DEF CountInv
  <2>5. PollInv(p)'
    <3>1. \A k : Late(p, k)' <=> Late(p, k)
      BY <1>3, <2>3 DEF Late
    <3> QED
      BY <1>1, <1>3, <2>1, <3>1 DEF PollInv
  <2>6. StreamInv(p)'
    <3>1. Stream(p)' = Stream(p)
      BY <1>3, <2>2, <2>3 DEF Stream
    <3> QED
      BY <1>1, <1>3, <3>1 DEF StreamInv
  <2> QED
    BY <1>9, <1>10, <2>4, <2>5, <2>6 DEF EventInv
<1>13. CASE a.events # <<>>
  <2>1. w.cmd = "RTLOG_RRQ" /\ a.events = Open(p)
    BY <1>2, <1>4, <1>7, <1>13 DEF Carries
  <2>2. pc'[p].lists = pc[p].lists + 1
    BY <1>2, <1>13, <2>1
  <2>3. RTLogNum = pc[p].lists + 1
    BY <1>1, <1>6, <1>13, <2>1 DEF CountInv, Open
  <2>4. CountInv(p)'
    BY <1>1, <1>3, <1>6, <1>11, <2>2, <2>3 DEF CountInv
  <2>5. PollInv(p)'
    <3>1. ASSUME NEW k \in net, k.pc = p, k.cmd = "RTLOG_RRQ" PROVE Late(p, k)
      <4>1. w.sid = k.sid
        BY <1>1, <1>4, <2>1, <3>1 DEF SidInv
      <4>2. k.id <= w.id
        BY <1>8, <3>1
      <4>3. Numbered(p, w)
        BY <1>4, <2>1 DEF OrderInv, IdInv
      <4>4. CASE sess[p].SessionID = w.sid
        BY <1>2, <1>5, <4>2, <4>3, <4>4 DEF Numbered, Late
      <4> QED
        BY <4>1, <4>4 DEF Late
    <3>2. \A k : Late(p, k)' <=> Late(p, k)
      BY <1>3 DEF Late, Last
    <3> QED
      BY <1>3, <3>1, <3>2 DEF PollInv
  <2>6. StreamInv(p)'
    <3>1. Open(p)' = <<>>
      BY <1>3, <1>6, <2>2, <2>3 DEF Open
    <3>2. pc'[p].got \o Open(p)' = pc[p].got \o Open(p)
      BY <1>2, <1>6, <2>1, <3>1
    <3>3. Stream(p)' = Stream(p)
      BY <1>3, <3>2 DEF Stream
    <3> QED
      BY <1>1, <1>3, <3>3 DEF StreamInv
  <2> QED
    BY <1>9, <1>10, <2>4, <2>5, <2>6 DEF EventInv
<1> QED
  BY <1>12, <1>13
\* The PC's CONNECT arrives for the first time: no list has been made.
LEMMA EventConnect ==
  ASSUME TypeOK, Common, NEW k \in net, NEW id \in 1 .. SecondBound, Connect(k, id),
         OrderInv(k.pc), ran[k.no] = 0, Polling(k.pc)', Polling(k.pc), EventInv(k.pc)
  PROVE  EventInv(k.pc)'
<1> DEFINE p == k.pc
<1>1. SidInv(p) /\ CountInv(p) /\ PollInv(p) /\ ListInv(p) /\ StreamInv(p)
  BY DEF EventInv
<1>2. p \in PCs /\ k.cmd = "CONNECT"
  BY NoInRange DEF Common, Connect
<1>3. sess'[p].ans = <<>>
  BY <1>2, Connects
<1>4. PICK a \in Answer : a.pc = p /\ a.to = k /\ a.events = <<>> /\ back' = Reply(a)
  BY Connects
<1>5. UNCHANGED <<net, pc, LastRTLog, rtlist, evicted, events>> /\ RTLogNum' = 0
  BY DEF Connect
<1>6. RTLogNum = 0 /\ ~restarted
  <2>1. RTLogNum \in Nat
    BY DEF TypeOK
  <2>2. ~(RTLogNum > 0)
    BY DEF Connect, Polling
  <2> QED
    BY <2>1, <2>2 DEF Polling
<1>7. \A l \in net : l.pc = p => l.cmd = "CONNECT"
  <2>1. Pending(p)
    BY <1>2 DEF Pending
  <2> QED
    BY <2>1 DEF OrderInv, IdInv
<1>8. Open(p)' = Open(p) /\ Stream(p)' = Stream(p)
  BY <1>5, <1>6 DEF Open, Stream
<1>9. SidInv(p)' /\ PollInv(p)'
  BY <1>5, <1>7 DEF SidInv, PollInv
<1>10. CountInv(p)'
  BY <1>1, <1>5, <1>6 DEF CountInv
<1>11. ListInv(p)'
  <2>1. \A x \in back : x.pc = p => Carries(p, x)'
    BY <1>1, <1>5, <1>8 DEF ListInv, Carries
  <2>2. Carries(p, a)'
    BY <1>2, <1>4 DEF Carries
  <2>3. \A x \in back' : x \in back \/ x = a
    BY <1>4, ReplyAdds
  <2> QED
    BY <1>3, <2>1, <2>2, <2>3 DEF ListInv
<1>12. StreamInv(p)'
  BY <1>1, <1>5, <1>8 DEF StreamInv
<1> QED
  BY <1>9, <1>10, <1>11, <1>12 DEF EventInv

\* The stored answer goes out again.
LEMMA EventResend ==
  ASSUME TypeOK, Common, NEW p \in PCs, NEW a \in Answer, sess[p].ans = <<a>>,
         back' = Reply(a), UNCHANGED <<sess, net, pc, ran, rtlist, LastRTLog, RTLogNum>>,
         UNCHANGED <<evicted, events>>, Polling(p), EventInv(p)
  PROVE  EventInv(p)'
<1>1. SidInv(p) /\ CountInv(p) /\ PollInv(p) /\ ListInv(p) /\ StreamInv(p)
  BY DEF EventInv
<1>2. Open(p)' = Open(p) /\ Last(p)' = Last(p) /\ Stream(p)' = Stream(p)
  BY DEF Open, Last, Stream
<1>3. SidInv(p)' /\ CountInv(p)'
  BY <1>1 DEF SidInv, CountInv, Waits
<1>4. PollInv(p)'
  <2>1. \A k : Late(p, k)' <=> Late(p, k)
    BY <1>2 DEF Late
  <2> QED
    BY <1>1, <2>1 DEF PollInv
<1>5. ListInv(p)'
  <2>1. \A x \in back' : x \in back \/ x = a
    BY ReplyAdds
  <2>2. \A x : Carries(p, x)' <=> Carries(p, x)
    BY <1>2 DEF Carries
  <2> QED
    BY <1>1, <2>1, <2>2 DEF ListInv
<1>6. StreamInv(p)'
  BY <1>1, <1>2 DEF StreamInv
<1> QED
  BY <1>3, <1>4, <1>5, <1>6 DEF EventInv

\* Of the commands only a poll touches the lists.
LEMMA Says ==
  ASSUME NEW k, OnSession(k)
  PROVE  \/ /\ k.cmd # "RTLOG_RRQ" /\ pollers' = pollers /\ restarted' = restarted
            /\ UNCHANGED <<rtlist, LastRTLog, RTLogNum>>
         \/ /\ k.cmd = "RTLOG_RRQ" /\ pollers' = pollers \cup {k.pc} /\ restarted' = restarted
            /\ IF ListAgain(k) \/ rtlist = <<>>
               THEN UNCHANGED <<rtlist, LastRTLog, RTLogNum>>
               ELSE rtlist' = <<>> /\ LastRTLog' = rtlist /\ RTLogNum' = RTLogNum + 1
<1>1. CASE RTLog(k)
  BY <1>1 DEF RTLog
<1>2. CASE ~RTLog(k)
  <2>1. k.cmd # "RTLOG_RRQ" /\ UNCHANGED <<rtlist, LastRTLog, RTLogNum, polling>>
    <3>1. CASE PrepareData(k)
      BY <3>1, Zenon DEF PrepareData
    <3>2. CASE Data(k)
      BY <3>2, Zenon DEF Data
    <3>3. CASE ~(PrepareData(k) \/ Data(k))
      BY <1>2, <3>3 DEF OnSession, Write, DisableDevice, EnableDevice, FreeData, UpdateFlag,
         UpdateFireware
    <3> QED
      BY <3>1, <3>2, <3>3
  <2> QED
    BY <2>1 DEF polling
<1> QED
  BY <1>1, <1>2
\* What a command that is run on the session of its PC does to the lists, and
\* which list its answer has.
LEMMA ListsRun ==
  ASSUME TypeOK, NEW p \in PCs, NEW k \in net, k.pc = p, OnSession(k), UNCHANGED pc,
         CountInv(p), k.cmd = "RTLOG_RRQ" => k.arg = pc[p].lists
  PROVE  /\ k.cmd = "RTLOG_RRQ" => Told(k) = Open(p)'
         /\ pc[p].lists <= RTLogNum' /\ RTLogNum' <= pc[p].lists + 1
         /\ RTLogNum' > 0 => LastRTLog' # <<>>
         /\ Stream(p)' = Stream(p)
<1>1. /\ pc[p].got \in Seq(Nat) /\ pc[p].lists \in Nat /\ RTLogNum \in Nat
      /\ rtlist \in Seq(Nat) /\ LastRTLog \in Seq(Nat) /\ k.arg \in Nat
  BY EventKinds, Kinds
<1>2. /\ pc[p].lists <= RTLogNum /\ RTLogNum <= pc[p].lists + 1
      /\ RTLogNum > 0 => LastRTLog # <<>>
  BY DEF CountInv
<1>3. CASE UNCHANGED <<rtlist, LastRTLog, RTLogNum>>
  <2>1. Open(p)' = Open(p)
    BY <1>3 DEF Open
  <2>2. ASSUME k.cmd = "RTLOG_RRQ" PROVE Told(k) = Open(p)
    <3>1. k.arg = pc[p].lists
      BY <2>2
    <3>2. CASE ListAgain(k)
      BY <2>2, <3>1, <3>2 DEF Told, ListAgain, Open
    <3>3. CASE ~ListAgain(k)
      <4>1. rtlist = <<>> \/ rtlist' = <<>>
        BY <2>2, <3>3, Says
      <4> QED
        BY <1>3, <2>2, <3>1, <3>3, <4>1 DEF Told, ListAgain, Open
    <3> QED
      BY <3>2, <3>3
  <2>3. Stream(p)' = Stream(p)
    BY <1>3, <2>1 DEF Stream
  <2> QED
    BY <1>2, <1>3, <2>1, <2>2, <2>3
<1>4. CASE ~UNCHANGED <<rtlist, LastRTLog, RTLogNum>>
  <2>1. /\ k.cmd = "RTLOG_RRQ" /\ ~ListAgain(k) /\ rtlist # <<>>
        /\ rtlist' = <<>> /\ LastRTLog' = rtlist /\ RTLogNum' = RTLogNum + 1
    BY <1>4, Says
  <2>2. RTLogNum = pc[p].lists
    BY <1>1, <1>2, <2>1 DEF ListAgain
  <2>3. Open(p) = <<>> /\ Open(p)' = rtlist /\ Told(k) = rtlist
    BY <1>1, <2>1, <2>2 DEF Open, Told
  <2>4. Stream(p)' = Stream(p)
    <3>1. Stream(p) = pc[p].got \o <<>> \o rtlist
      BY <2>3 DEF Stream
    <3>2. Stream(p)' = pc[p].got \o rtlist \o <<>>
      BY <2>1, <2>3 DEF Stream
    <3>3. pc[p].got \o <<>> \o rtlist = pc[p].got \o rtlist \o <<>>
      BY <1>1
    <3> QED
      BY <3>1, <3>2, <3>3
  <2> QED
    BY <1>1, <2>1, <2>2, <2>3, <2>4
<1> QED
  BY <1>3, <1>4

\* A command of the polling PC is run on its own session.
LEMMA EventRunOwn ==
  ASSUME TypeOK, Common, NEW k \in net, NEW t \in Session, NEW a \in Answer,
         k.cmd # "CONNECT", sess[k.pc].SessionID = k.sid, OnSession(k), Runs(k, k.pc, t, a),
         OrderInv(k.pc), Polling(k.pc), EventInv(k.pc)
  PROVE  EventInv(k.pc)'
<1> DEFINE p == k.pc
<1>1. SidInv(p) /\ CountInv(p) /\ PollInv(p) /\ ListInv(p) /\ StreamInv(p)
  BY DEF EventInv
<1>2. /\ p \in PCs /\ Last(p) \in 0 .. IdMax /\ pc[p].id \in 0 .. IdMax /\ IdMax \in Nat
      /\ \A l \in net : l.id \in 0 .. IdMax
  BY Kinds, NoInRange DEF Common
<1>3. /\ sess'[p] = t /\ t.SessionID = k.sid /\ t.LastReplyID = k.id /\ t.ans = <<a>>
      /\ a.pc = p /\ a.to = k /\ a.events = Told(k)
      /\ back' = Reply(a) /\ ran' = [ran EXCEPT ![k.no] = @ + 1]
      /\ UNCHANGED <<net, pc, evicted, events>>
      /\ ~Repeated(p, k) /\ ~Old(p, k)
  BY <1>2 DEF Runs, TypeOK
<1>4. k.id >= Last(p) /\ (k.id = Last(p) => sess[p].ans = <<>>)
  BY <1>3, RunFacts
<1>5. Last(p)' = k.id /\ sess'[p].ans # <<>> /\ sess'[p].SessionID = sess[p].SessionID
  BY <1>3 DEF Last
<1>6. ASSUME NEW l \in net, Late(p, l) PROVE Late(p, l)'
  BY <1>2, <1>4, <1>5, <1>6 DEF Late
<1>7. k.cmd = "RTLOG_RRQ" => k.arg = pc[p].lists
  <2>1. ~Late(p, k)
    BY <1>2, <1>4 DEF Late
  <2> QED
    BY <1>1, <2>1 DEF PollInv
<1>8. /\ k.cmd = "RTLOG_RRQ" => Told(k) = Open(p)'
      /\ pc[p].lists <= RTLogNum' /\ RTLogNum' <= pc[p].lists + 1
      /\ RTLogNum' > 0 => LastRTLog' # <<>>
      /\ Stream(p)' = Stream(p)
  BY <1>1, <1>2, <1>3, <1>7, ListsRun
<1>9. ASSUME NEW w \in net, Waits(p, w) PROVE w.cmd # "CONNECT" /\ w.sid = k.sid
  <2>1. k.id < pc[p].id
    BY DEF OrderInv, IdInv, Numbered
  <2>2. w.cmd = "CONNECT" => pc[p].id = 0
    BY <1>9 DEF Waits, NextId, Common, PacketInv
  <2>3. w.cmd # "CONNECT"
    BY <1>2, <2>1, <2>2
  <2>4. w.sid # 0 /\ pc[p].sid = w.sid
    BY <1>9, <2>3 DEF Waits, Common, PacketInv
  <2> QED
    BY <1>1, <2>3, <2>4 DEF SidInv
<1>10. ASSUME NEW x \in back', x.pc = p, pc[p].wait = <<x.to>> PROVE x = a
  <2>1. PICK w \in net : Waits(p, w)
    BY <1>2, <1>10, WaitsFor
  <2>2. w = x.to
    BY <1>10, <2>1 DEF Waits
  <2>3. x.to.cmd # "CONNECT" /\ k.sid = x.to.sid
    BY <1>9, <2>1, <2>2
  <2> QED
    BY <1>3, <1>10, <2>3, AnswersOwn
<1>11. SidInv(p)'
  BY <1>1, <1>3 DEF SidInv
<1>12. CountInv(p)'
  <2>1. \A w \in net' : Waits(p, w)' => w.cmd # "CONNECT"
    BY <1>3, <1>9 DEF Waits
  <2> QED
    BY <1>3, <1>8, <2>1 DEF CountInv
<1>13. PollInv(p)'
  BY <1>1, <1>3, <1>6 DEF PollInv
<1>14. ListInv(p)'
  <2>1. Carries(p, a)'
    BY <1>3, <1>8 DEF Carries, Told
  <2>2. \A b : sess'[p].ans = <<b>> => b = a
    BY <1>3
  <2>3. \A x \in back' : x.pc = p => Carries(p, x)'
    <3> SUFFICES ASSUME NEW x \in back', x.pc = p, x # a PROVE Carries(p, x)'
      BY <2>1
    <3>1. x \in back
      BY <1>3, ReplyAdds
    <3>2. Carries(p, x) /\ ~(pc[p].wait = <<x.to>>)
      BY <1>1, <1>10, <3>1 DEF ListInv
    <3> QED
      BY <1>3, <3>2 DEF Carries
  <2> QED
    BY <1>1, <1>3, <1>10, <2>1, <2>2, <2>3 DEF ListInv
<1>15. StreamInv(p)'
  BY <1>1, <1>3, <1>8 DEF StreamInv
<1> QED
  BY <1>11, <1>12, <1>13, <1>14, <1>15 DEF EventInv
\* The polling PC leaves: what it sent before is not of a session any more.
LEMMA EventExitOwn ==
  ASSUME TypeOK, Common, NEW k \in net, Exit(k), Owner(k) = k.pc,
         OrderInv(k.pc), Polling(k.pc), EventInv(k.pc)
  PROVE  EventInv(k.pc)'
<1> DEFINE p == k.pc
<1>1. SidInv(p) /\ CountInv(p) /\ PollInv(p) /\ ListInv(p) /\ StreamInv(p)
  BY DEF EventInv
<1>2. p \in PCs /\ k.cmd = "EXIT"
  BY NoInRange DEF Common, Exit
<1>3. PICK a \in Answer : a.pc = p /\ a.to = k /\ a.events = <<>> /\ back' = Reply(a)
  BY Exits
<1>4. /\ ran' = [ran EXCEPT ![k.no] = @ + 1]
      /\ UNCHANGED <<net, pc, rtlist, LastRTLog, RTLogNum, evicted, events>>
  BY DEF Exit
<1>5. sess'[p].SessionID = 0 /\ sess'[p].ans = <<>>
  BY <1>2, Exits DEF TypeOK, NoSession
<1>6. Open(p)' = Open(p) /\ Stream(p)' = Stream(p)
  BY <1>4 DEF Open, Stream
<1>7. SidInv(p)'
  BY <1>1, <1>4 DEF SidInv
<1>8. CountInv(p)'
  <2>1. \A w \in net : w.cmd = "CONNECT" => ran'[w.no] = ran[w.no]
    BY <1>2, <1>4, OthersRan
  <2>2. \A w : Waits(p, w)' <=> Waits(p, w)
    BY <1>4 DEF Waits
  <2> QED
    BY <1>1, <1>4, <2>1, <2>2 DEF CountInv
<1>9. PollInv(p)'
  <2>1. ASSUME NEW l \in net, l.pc = p, l.cmd = "RTLOG_RRQ" PROVE Late(p, l)'
    BY <1>5, <2>1 DEF Late, Common, PacketInv
  <2> QED
    BY <1>4, <2>1 DEF PollInv
<1>10. ListInv(p)'
  <2>1. \A x \in back : x.pc = p => Carries(p, x)'
    BY <1>1, <1>4, <1>6 DEF ListInv, Carries
  <2>2. Carries(p, a)'
    BY <1>2, <1>3 DEF Carries
  <2>3. \A x \in back' : x \in back \/ x = a
    BY <1>3, ReplyAdds
  <2> QED
    BY <1>5, <2>1, <2>2, <2>3 DEF ListInv
<1>11. StreamInv(p)'
  BY <1>1, <1>4, <1>6 DEF StreamInv
<1> QED
  BY <1>7, <1>8, <1>9, <1>10, <1>11 DEF EventInv

\* What happens to others does not disturb it.
LEMMA EventElsewhere ==
  ASSUME NEW q \in PCs, Polling(q), EventInv(q), Untouched(q),
         UNCHANGED <<RTLogNum, LastRTLog, rtlist, evicted, events>>
  PROVE  EventInv(q)'
<1>1. pc'[q] = pc[q]
  BY DEF Untouched
<1>2. StreamInv(q)'
  BY <1>1, StreamKept DEF EventInv
<1> QED
  BY <1>2, EventFrame

LEMMA EventStep ==
  ASSUME CommInv, [Next]_vars, NEW q \in PCs, EventInv(q)
  PROVE  EventInv(q)'
<1> SUFFICES ASSUME Polling(q)' PROVE EventInv(q)'
  BY DEF EventInv
<1>1. TypeOK /\ Common /\ Polling(q) /\ OrderInv(q)
  BY PollingBefore DEF CommInv, Good, Polling
<1>2. CASE \E p \in PCs, cmd \in Commands, arg \in Nat, k \in Packet :
             MaySend(p, cmd, arg) /\ Sent(p, cmd, arg, k)
  <2>1. PICK p \in PCs, cmd \in Commands, arg \in Nat, k \in Packet :
          MaySend(p, cmd, arg) /\ Sent(p, cmd, arg, k)
    BY <1>2
  <2>2. CASE q # p
    <3>1. (loose \subseteq loose') /\ UNCHANGED <<RTLogNum, LastRTLog, rtlist, evicted, events>>
      BY <2>1 DEF Sent, MaySend, device
    <3>2. Untouched(q)
      BY <1>1, <2>1, <2>2, <3>1, Kinds DEF Untouched, SameSession, Sent, MaySend, device
    <3> QED
      BY <1>1, <3>1, <3>2, EventElsewhere
  <2>3. CASE q = p
    BY <1>1, <2>1, <2>3, EventSend
  <2> QED
    BY <2>2, <2>3
<1>3. CASE \E p \in PCs : Hear(p) \/ GiveUp(p)
  <2>1. PICK p \in PCs : Hear(p) \/ GiveUp(p)
    BY <1>3
  <2>2. CASE q # p
    <3>1. UNCHANGED <<evicted, events>>
      <4>1. CASE Hear(p)
        BY <4>1, Zenon DEF Hear
      <4>2. CASE GiveUp(p)
        BY <4>2, Zenon DEF GiveUp
      <4> QED
        BY <2>1, <4>1, <4>2
    <3>2. Untouched(q)
      BY <1>1, <2>1, <2>2, Stops, Kinds DEF Untouched, SameSession, device
    <3>3. UNCHANGED <<RTLogNum, LastRTLog, rtlist>>
      BY <1>1, <2>1, Stops DEF device
    <3> QED
      BY <1>1, <3>1, <3>2, <3>3, EventElsewhere
  <2>3. CASE q = p
    BY <1>1, <2>1, <2>3, EventHear, EventGiveUp
  <2> QED
    BY <2>2, <2>3
<1>4. CASE (\E p \in PCs : TimeOut(p)) \/ AppendRTLog \/ UNCHANGED vars
  <2>1. Untouched(q)
    BY <1>1, <1>4, Quiet
  <2>2. CASE AppendRTLog
    <3>1. StreamInv(q)'
      BY <1>1, <2>2, StreamGrows DEF EventInv
    <3>2. UNCHANGED <<RTLogNum, LastRTLog>>
      BY <2>2 DEF AppendRTLog
    <3> QED
      BY <1>1, <2>1, <3>1, <3>2, EventFrame
  <2>3. CASE (\E p \in PCs : TimeOut(p)) \/ UNCHANGED vars
    <3>1. UNCHANGED <<RTLogNum, LastRTLog, rtlist, evicted, events>>
      BY <2>3 DEF TimeOut, vars, device
    <3> QED
      BY <1>1, <2>1, <3>1, EventElsewhere
  <2> QED
    BY <1>4, <2>2, <2>3
<1>5. CASE \E k \in net, id \in 1 .. SecondBound : Connect(k, id)
  <2>1. PICK k \in net, id \in 1 .. SecondBound : Connect(k, id)
    BY <1>5
  <2>2. /\ ran' = [ran EXCEPT ![k.no] = @ + 1] /\ (loose \subseteq loose')
        /\ ran[k.no] > 0 => k.pc \in loose'
        /\ UNCHANGED <<net, pc, blind, mixed, LastRTLog, rtlist, evicted, events>>
    BY <2>1 DEF Connect
  <2>3. CASE q # k.pc
    <3>1. sess'[q] = sess[q]
      BY <1>1, <2>1, <2>3, Connects
    <3>2. PICK a \in Answer : a.pc = k.pc /\ back' = Reply(a)
      BY <1>1, <2>1, Connects
    <3>3. Untouched(q)
      BY <1>1, <2>2, <2>3, <3>1, <3>2, Apart DEF SameSession
    <3>4. RTLogNum' = RTLogNum
      <4>1. RTLogNum \in Nat
        BY <1>1 DEF TypeOK
      <4>2. RTLogNum' = 0 /\ ~(RTLogNum > 0)
        BY <2>1 DEF Connect, Polling
      <4> QED
        BY <4>1, <4>2
    <3> QED
      BY <1>1, <2>2, <3>3, <3>4, EventElsewhere
  <2>4. CASE q = k.pc
    <3>1. ran[k.no] \in Nat
      BY <1>1, <2>2, OthersRan
    <3>2. ran[k.no] = 0
      BY <2>2, <2>4, <3>1 DEF Polling
    <3> QED
      BY <1>1, <2>1, <2>4, <3>2, EventConnect
  <2> QED
    BY <2>3, <2>4
<1>6. CASE \E k \in net : Resend(k)
  <2>1. PICK k \in net : Resend(k)
    BY <1>6
  <2>2. Owner(k) \in PCs /\ sess[Owner(k)].ans # <<>>
    BY <2>1, OwnerFound DEF Resend, Repeated
  <2>3. PICK a \in Answer : sess[Owner(k)].ans = <<a>> /\ Made(Owner(k), a)
    BY <1>1, <2>2 DEF Common, MadeInv
  <2>4. back' = Reply(a) /\ a.pc = Owner(k)
        /\ UNCHANGED <<sess, net, pc, ran, blind, loose, mixed, rtlist, LastRTLog, RTLogNum>>
        /\ UNCHANGED <<evicted, events>>
    BY <2>1, <2>3 DEF Resend, Made, device
  <2>5. CASE q # Owner(k)
    <3>1. Untouched(q)
      BY <1>1, <2>4, <2>5, Apart DEF SameSession
    <3> QED
      BY <1>1, <2>4, <3>1, EventElsewhere
  <2>6. CASE q = Owner(k)
    BY <1>1, <2>3, <2>4, <2>6, EventResend
  <2> QED
    BY <2>5, <2>6
<1>7. CASE \E k \in net : OnSession(k)
  <2>1. PICK k \in net : OnSession(k)
    BY <1>7
  <2>2. PICK t \in Session, a \in Answer : Runs(k, Owner(k), t, a)
    BY <1>1, <2>1, CommandRuns
  <2>3. Owner(k) \in PCs /\ sess[Owner(k)].SessionID = k.sid /\ k.cmd # "CONNECT"
    BY <1>1, <2>1, CommandRuns, OwnerFound
  <2>4. (loose \subseteq loose') /\ ran' = [ran EXCEPT ![k.no] = @ + 1] /\ back' = Reply(a)
        /\ a.pc = Owner(k) /\ sess' = [sess EXCEPT ![Owner(k)] = t]
        /\ (Owner(k) # k.pc => Owner(k) \in loose' /\ k.pc \in loose')
        /\ (mixed \subseteq mixed') /\ UNCHANGED <<net, pc, blind, evicted, events>>
    BY <2>2 DEF Runs
  <2>5. CASE q # Owner(k) /\ q # k.pc
    <3>1. sess'[q] = sess[q]
      BY <1>1, <2>3, <2>4, <2>5 DEF TypeOK
    <3>2. Untouched(q)
      BY <1>1, <2>4, <2>5, <3>1, Apart DEF SameSession
    <3>3. UNCHANGED <<RTLogNum, LastRTLog, rtlist>>
      BY <2>1, <2>5, Says DEF Polling
    <3> QED
      BY <1>1, <2>4, <3>2, <3>3, EventElsewhere
  <2>6. CASE q = Owner(k) \/ q = k.pc
    <3>1. q = k.pc /\ Owner(k) = k.pc
      BY <2>4, <2>6 DEF Polling
    <3> QED
      BY <1>1, <2>1, <2>2, <2>3, <3>1, EventRunOwn
  <2> QED
    BY <2>5, <2>6
<1>8. CASE \E k \in net : Exit(k)
  <2>1. PICK k \in net : Exit(k)
    BY <1>8
  <2>2. Owner(k) \in PCs
    BY <1>1, <2>1, OwnerFound, Exits
  <2>3. (loose \subseteq loose') /\ ran' = [ran EXCEPT ![k.no] = @ + 1]
        /\ sess' = [sess EXCEPT ![Owner(k)] = NoSession]
        /\ (Owner(k) # k.pc => Owner(k) \in loose' /\ k.pc \in loose')
        /\ UNCHANGED <<net, pc, blind, mixed, RTLogNum, LastRTLog, rtlist, evicted, events>>
    BY <2>1 DEF Exit
  <2>4. CASE q # Owner(k) /\ q # k.pc
    <3>1. sess'[q] = sess[q]
      BY <1>1, <2>2, <2>3, <2>4 DEF TypeOK
    <3>2. PICK a \in Answer : a.pc = Owner(k) /\ back' = Reply(a)
      BY <1>1, <2>1, Exits
    <3>3. Untouched(q)
      BY <1>1, <2>3, <2>4, <3>1, <3>2, Apart DEF SameSession
    <3> QED
      BY <1>1, <2>3, <3>3, EventElsewhere
  <2>5. CASE q = Owner(k) \/ q = k.pc
    <3>1. q = k.pc /\ Owner(k) = k.pc
      BY <2>3, <2>5 DEF Polling
    <3> QED
      BY <1>1, <2>1, <3>1, EventExitOwn
  <2> QED
    BY <2>4, <2>5
<1>9. \/ \E p \in PCs : CallUp(p) \/ Command(p)
      \/ \E p \in PCs : Hear(p) \/ GiveUp(p)
      \/ (\E p \in PCs : TimeOut(p)) \/ AppendRTLog \/ UNCHANGED vars
      \/ \E k \in net, id \in 1 .. SecondBound : Connect(k, id)
      \/ \E k \in net : Resend(k)
      \/ \E k \in net : OnSession(k)
      \/ \E k \in net : Exit(k)
      \/ Boot
  BY DEF Next, Receive, OnSession, NoBufferThere
<1>10. (\E p \in PCs : CallUp(p) \/ Command(p)) => EventInv(q)'
  BY <1>1, <1>2, PCSends
<1>11. ~Boot
  BY DEF Boot, Polling
<1> QED
  BY <1>3, <1>4, <1>5, <1>6, <1>7, <1>8, <1>9, <1>10, <1>11

\* A PC that polls alone gets every event once and in order, although answers
\* are lost and polls repeated (CMD_RTLOG_RRQ, commu.c).
THEOREM EventsReachThePC == Spec => []EventsDelivered
<1>1. Init => \A q \in PCs : EventInv(q)
  <2> SUFFICES ASSUME Init, NEW q \in PCs PROVE EventInv(q)
    OBVIOUS
  <2>1. /\ net = {} /\ back = {} /\ RTLogNum = 0 /\ rtlist = <<>> /\ events = 0 /\ evicted = {}
        /\ sess[q].ans = <<>> /\ pc[q].got = <<>> /\ pc[q].lists = 0
    BY DEF Init, NoSession
  <2>2. SidInv(q) /\ CountInv(q) /\ PollInv(q) /\ ListInv(q)
    BY <2>1 DEF SidInv, CountInv, PollInv, ListInv
  <2>3. Stream(q) = <<>>
    BY <2>1 DEF Stream, Open
  <2>4. StreamInv(q)
    BY <2>1, <2>3 DEF StreamInv, Rises, Elements
  <2> QED
    BY <2>2, <2>4 DEF EventInv
<1>2. CommInv /\ (\A q \in PCs : EventInv(q)) /\ [Next]_vars => (\A q \in PCs : EventInv(q))'
  <2> SUFFICES ASSUME CommInv, \A q \in PCs : EventInv(q), [Next]_vars, NEW q \in PCs
               PROVE  EventInv(q)'
    OBVIOUS
  <2> QED
    BY EventStep
<1>3. (\A q \in PCs : EventInv(q)) => EventsDelivered
  BY DEF EventInv, StreamInv, Polling, Rises, Elements, EventsDelivered
<1> QED
  BY <1>1, <1>2, <1>3, CommInvariant, PTL DEF Spec

=============================================================================
