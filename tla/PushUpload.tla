----------------------------- MODULE PushUpload -----------------------------
(***************************************************************************)
(* The real-time upload of attendance records (push/, YMIP protocol) on top *)
(* of the store AttLog.  Two threads share the store's counter recindex,    *)
(* the upload state postattlog, the flag gAttflag and the bits of           *)
(* running_flag; they talk through two pipes, one command per message here. *)
(*                                                                         *)
(* The child (pushsdk_mainloop_handle) decides when a record is due and     *)
(* sends it; the parent is the firmware's main thread, which owns the store *)
(* and therefore reads the record out of it when the child asks.            *)
(***************************************************************************)
EXTENDS AttLog, FiniteSets

CONSTANTS
  Reposttime,   \* opt->reposttime: attempts per packet
  Budget,       \* how often each event of the environment may happen in a run
  PipeBound     \* bound of a run: status messages waiting for the parent

Events == {"try", "badlen", "heartbeat", "udp", "reinit", "menu", "crash",
           "clear", "reload", "deleted"}

ASSUME ReposttimeAssumption == Reposttime \in Nat \ {0}
ASSUME BudgetAssumption == Budget \in [Events -> Nat]
ASSUME PipeAssumption == PipeBound \in Nat

VARIABLES
  cmd, pause, connect,  \* RUN_STAT_CMD, RUN_STAT_PAUSE, RUN_STAT_CONNECT
  conType,              \* opt->con_type is not 0
  gAttflag,             \* 1: no upload is under way
  attbuffer, reclenght, \* postattlog: the record read, and how many (0 or 1)
  currec, curfp,        \* postattlog: records acknowledged, position in file
  bsatt,                \* BsAtt.dat, the progress kept on flash
  toChild, toParent,    \* the pipes, pipe_fd1 and pipe_fd2
  iclockState,          \* what the parent believes: ONLINE or OFFLINE
  ppc, inMenu,          \* where the parent is; a user is being enrolled
  cpc,                  \* where the child is
  packet,               \* what the child is sending
  j, fdatt,             \* in cache_att_to_svr: attempts, is BsAtt.dat open
  got,                  \* history: serials the server has stored
  top,                  \* history: highest serial on file since the last clear
  reissued,             \* history: a record got a serial no higher than that
  dropped,              \* history: records deleted as the oldest
  budget

flags  == <<cmd, pause, connect, conType>>
cursor == <<attbuffer, reclenght, currec, curfp>>
posting == <<packet, j, fdatt>>
parent == <<iclockState, ppc, inMenu>>
past == <<top, reissued, dropped>>
uvars == <<flags, gAttflag, cursor, bsatt, toChild, toParent, parent,
           cpc, posting, got, past, budget>>
allvars == <<vars, uvars>>

ParentCmds == {"NEW_DATA", "RESET_DATA", "POST_ATT", "PAUSE", "RESUME",
               "RE_INIT", "FROM_SVR"}
ChildCmds == {"READ_ATTLOG", "ONLINE", "OFFLINE"}

\* attbuffer after memset: a record of zeros.
Zero == Hole

UploadTypeOK ==
  /\ <<cmd, pause, connect, conType>> \in BOOLEAN \X BOOLEAN \X BOOLEAN \X BOOLEAN
  /\ gAttflag \in {0, 1}
  /\ attbuffer \in Record /\ reclenght \in {0, 1}
  /\ currec \in Nat /\ curfp \in Nat
  /\ bsatt \in [exists : BOOLEAN, currec : Nat, curfp : Nat]
  /\ toChild \in Seq(ParentCmds) /\ toParent \in Seq(ChildCmds)
  /\ iclockState \in {"ONLINE", "OFFLINE"}
  /\ ppc \in {"idle", "reading", "answering", "closing", "loading"}
  /\ inMenu \in BOOLEAN
  /\ cpc \in {"off", "top", "swallow", "post", "acked", "posted", "call", "due"}
  /\ packet \in [rec : Record, count : {0, 1}]
  /\ j \in 0 .. Reposttime /\ fdatt \in BOOLEAN
  /\ got \subseteq Nat
  /\ top \in Nat /\ reissued \in BOOLEAN /\ dropped \in Nat
  /\ budget \in [Events -> Nat]

-----------------------------------------------------------------------------

Spend(event) ==
  /\ budget[event] > 0
  /\ budget' = [budget EXCEPT ![event] = @ - 1]

\* pushsdk_pause, pushsdk_data_new, ...: written if the child thread exists.
Tell(cmds) ==
  toChild' = IF cpc = "off" THEN toChild ELSE toChild \o cmds

NoBsAtt == [exists |-> FALSE, currec |-> 0, curfp |-> 0]
NoPacket == [rec |-> Zero, count |-> 0]

UInit ==
  /\ Init
  /\ cmd = FALSE /\ pause = FALSE /\ connect = FALSE /\ conType = FALSE
  /\ gAttflag = 0
  /\ attbuffer = Zero /\ reclenght = 0 /\ currec = 0 /\ curfp = 0
  /\ toChild = <<>> /\ toParent = <<>>
  /\ iclockState = "OFFLINE"
  /\ ppc = "idle" /\ inMenu = FALSE /\ cpc = "off"
  /\ packet = NoPacket /\ j = 0 /\ fdatt = FALSE
  /\ bsatt = NoBsAtt
  /\ got = {}
  /\ top = 0 /\ reissued = FALSE /\ dropped = 0
  /\ budget = Budget

\* The power fails: what is in RAM is gone, the two files stay.
Crash ==
  /\ Spend("crash")
  /\ Reboot
  /\ cmd' = FALSE /\ pause' = FALSE /\ connect' = FALSE /\ conType' = FALSE
  /\ gAttflag' = 0
  /\ attbuffer' = Zero /\ reclenght' = 0 /\ currec' = 0 /\ curfp' = 0
  /\ toChild' = <<>> /\ toParent' = <<>>
  /\ iclockState' = "OFFLINE"
  /\ ppc' = "idle" /\ inMenu' = FALSE /\ cpc' = "off"
  /\ packet' = NoPacket /\ j' = 0 /\ fdatt' = FALSE
  /\ UNCHANGED <<bsatt, got, past>>

-----------------------------------------------------------------------------
(* The parent: the main thread.  Between two calls of pushsdk_check it is     *)
(* idle and may do any of these.                                            *)

ParentIdle == ppc = "idle" /\ Running

\* What a record saved in this step has on file as its serial.
Serial == IF LoopWriteRecordOn THEN recindex' ELSE SensorNo

\* A verification; SearchAndSave tells the child of the record it stored, and
\* check_attlog_capacity of the records it deleted (if AlarmAttLog is set).
SaveRecord(outcome) ==
  /\ ParentIdle /\ ~inMenu
  /\ Verify(outcome)
  /\ dropped' = dropped + Len(file) - Len(CheckedFile)
  /\ IF Exceed \/ outcome = "failed" THEN UNCHANGED <<top, reissued>>
     ELSE /\ top' = MaxOf(top, Serial)
          /\ reissued' = (reissued \/ Serial <= top)
  /\ \E alarm \in BOOLEAN :
       Tell((IF DropOld /\ alarm THEN <<"RESET_DATA">> ELSE <<>>) \o
            (IF ~Exceed /\ outcome # "failed" THEN <<"NEW_DATA">> ELSE <<>>))
  /\ UNCHANGED <<flags, gAttflag, cursor, bsatt, toParent, parent, cpc, posting,
                 got, budget>>

SaveCardRecord(outcome) ==
  /\ ParentIdle /\ ~inMenu
  /\ CardVerify(outcome)
  /\ Tell(IF outcome # "failed" THEN <<"NEW_DATA">> ELSE <<>>)
  /\ UNCHANGED <<flags, gAttflag, cursor, bsatt, toParent, parent, cpc, posting,
                 got, past, budget>>

\* The log is cleared, from the menu or by main_clear_data.  postattlog in RAM
\* stays.  The rm of BsAtt.dat is formatted with one argument too few, so the
\* shell may also refuse the line and leave the file.
Clear ==
  /\ ParentIdle /\ Spend("clear")
  /\ ClearData
  /\ Tell(<<"RESET_DATA">>)
  /\ bsatt' \in {bsatt, NoBsAtt}
  /\ got' = {} /\ top' = 0 /\ reissued' = FALSE /\ dropped' = 0
  /\ UNCHANGED <<flags, gAttflag, cursor, toParent, parent, cpc, posting>>

\* CHILD_CMD_RELOAD_DATA: FDB_InitDBs(FALSE) between a pause and a resume.
ReloadData ==
  /\ ParentIdle /\ Spend("reload")
  /\ Reload
  /\ Tell(<<"PAUSE">>)
  /\ ppc' = "loading"
  /\ UNCHANGED <<flags, gAttflag, cursor, bsatt, toParent, iclockState, inMenu,
                 cpc, posting, got, past>>

\* The scan of FDB_InitDBs, at boot or in a reload.
Scan ==
  /\ \/ /\ ScanStep \/ (ScanDone /\ ppc = "idle")
        /\ UNCHANGED <<toChild, ppc>>
     \/ /\ ScanDone /\ ppc = "loading"
        /\ Tell(<<"RESUME">>)
        /\ ppc' = "idle"
  /\ UNCHANGED <<flags, gAttflag, cursor, bsatt, toParent, iclockState, inMenu,
                 cpc, posting, got, past, budget>>

\* A user is enrolled with fingerprints at the menu.
EnterMenu ==
  /\ ParentIdle /\ ~inMenu /\ Spend("menu")
  /\ Tell(<<"PAUSE">>)
  /\ inMenu' = TRUE
  /\ UNCHANGED <<vars, past, flags, gAttflag, cursor, bsatt, toParent, iclockState,
                 ppc, cpc, posting, got>>

LeaveMenu ==
  /\ ParentIdle /\ inMenu
  /\ Tell(<<"RESUME", "NEW_DATA">>)
  /\ inMenu' = FALSE
  /\ UNCHANGED <<vars, past, flags, gAttflag, cursor, bsatt, toParent, iclockState,
                 ppc, cpc, posting, got, budget>>

\* iClock_Invoke after too many echo failures, and svr_cmd_check_by_udp when
\* the server asks to be called.
Interrupt(event, command) ==
  /\ ParentIdle /\ Spend(event)
  /\ Tell(<<command>>)
  /\ UNCHANGED <<vars, past, flags, gAttflag, cursor, bsatt, toParent, parent, cpc,
                 posting, got>>

ReInit  == Interrupt("reinit", "RE_INIT")
UdpCall == Interrupt("udp", "FROM_SVR")

\* parent_mainloop_handle, case CHILD_CMD_ONLINE and CHILD_CMD_OFFLINE.
ParentStatus ==
  /\ ParentIdle
  /\ toParent # <<>> /\ Head(toParent) \in {"ONLINE", "OFFLINE"}
  /\ iclockState' = Head(toParent)
  /\ toParent' = Tail(toParent)
  /\ UNCHANGED <<vars, past, flags, gAttflag, cursor, bsatt, toChild, ppc, inMenu, cpc,
                 posting, got, budget>>

\* Case CHILD_CMD_READ_ATTLOG, up to the memset of attbuffer ...
ParentTake ==
  /\ ParentIdle
  /\ toParent # <<>> /\ Head(toParent) = "READ_ATTLOG"
  /\ toParent' = Tail(toParent)
  /\ cmd' = TRUE
  /\ attbuffer' = Zero
  /\ ppc' = "reading"
  /\ UNCHANGED <<vars, past, pause, connect, conType, gAttflag, reclenght, currec,
                 curfp, bsatt, toChild, iclockState, inMenu, cpc, posting, got,
                 budget>>

Length(hit) == IF hit.found THEN 1 ELSE 0

\* ... main_read_attlog: one record from curfp on.  iconvattlog leaves zeros
\* when the person is no longer enrolled ...
ParentRead ==
  /\ ppc = "reading"
  /\ LET hit == GetAttByIndex(file, curfp, currec)
     IN  /\ curfp' = hit.fp
         /\ reclenght' = Length(hit)
         /\ \/ /\ attbuffer' = IF hit.found THEN file[hit.at] ELSE attbuffer
               /\ UNCHANGED budget
            \/ /\ hit.found /\ Spend("deleted")
               /\ attbuffer' = Zero
  /\ ppc' = "answering"
  /\ UNCHANGED <<vars, past, flags, gAttflag, currec, bsatt, toChild, toParent,
                 iclockState, inMenu, cpc, posting, got>>

\* Faults: an empty answer does not give the right to ask back; it is given
\* back with any answer.
AnswerFlagKept == gAttflag
AnswerFlagEarly == 1

AnswerFlag == IF reclenght = 0 THEN 1 ELSE gAttflag

\* ... the answer: a record to post, or the right to ask again ...
ParentAnswer ==
  /\ ppc = "answering"
  /\ Tell(IF reclenght > 0 THEN <<"POST_ATT">> ELSE <<>>)
  /\ gAttflag' = AnswerFlag
  /\ ppc' = "closing"
  /\ UNCHANGED <<vars, past, flags, cursor, bsatt, toParent, iclockState, inMenu, cpc,
                 posting, got, budget>>

\* ... and clear_bit.
ParentClose ==
  /\ ppc = "closing"
  /\ cmd' = FALSE
  /\ ppc' = "idle"
  /\ UNCHANGED <<vars, past, pause, connect, conType, gAttflag, cursor, bsatt, toChild,
                 toParent, iclockState, inMenu, cpc, posting, got, budget>>

-----------------------------------------------------------------------------
(* The child thread.                                                        *)

\* svr_heartbeat_ymip tells ONLINE when the server answers, and yet returns an
\* error if that was at the last attempt.
HeartbeatFailed == {toParent, Append(toParent, "ONLINE")}

\* init() of a registered terminal: initpostatt restores the progress from
\* BsAtt.dat, creating it if it is missing; then the first heartbeat tells if
\* the server answers.
ChildInit ==
  /\ cpc = "off" /\ Running
  /\ LET saved == bsatt.exists /\ bsatt.currec > 0
     IN  /\ currec' = IF saved THEN bsatt.currec ELSE 0
         /\ curfp' = IF saved THEN bsatt.curfp ELSE 0
  /\ bsatt' = [bsatt EXCEPT !.exists = TRUE]
  /\ attbuffer' = Zero /\ reclenght' = 0
  /\ gAttflag' = 1
  /\ cmd' = FALSE /\ pause' = FALSE
  /\ \/ connect' = TRUE /\ toParent' = Append(toParent, "ONLINE") /\ UNCHANGED budget
     \/ connect' = FALSE /\ toParent' \in HeartbeatFailed /\ Spend("heartbeat")
  /\ cpc' = "top"
  /\ UNCHANGED <<vars, past, conType, toChild, parent, posting, got>>

\* child_mainloop_handle reads a command only if the parent is not reading
\* the log, or if it is paused or offline.
MayRead == ~cmd \/ pause \/ ~connect

Nothing ==
  /\ cpc = "top"
  /\ ~MayRead \/ toChild = <<>>
  /\ cpc' = "call"
  /\ UNCHANGED <<vars, past, flags, gAttflag, cursor, bsatt, toChild, toParent,
                 parent, posting, got, budget>>

\* Fault: RESUME is not looked at.
PauseKept(c) == c = "PAUSE" \/ pause

PauseAfter(c) == c = "PAUSE" \/ (pause /\ c # "RESUME")

\* The commands that only change flags (RESET_DATA belongs to the HTTP tables).
FlagCommand ==
  /\ cpc = "top" /\ MayRead /\ toChild # <<>>
  /\ LET c == Head(toChild)
     IN  /\ c \in {"NEW_DATA", "RESET_DATA", "PAUSE", "RESUME", "RE_INIT"}
         /\ conType' = (conType \/ c = "NEW_DATA")
         /\ pause' = PauseAfter(c)
         /\ connect' = (connect /\ c # "RE_INIT")
  /\ toChild' = Tail(toChild)
  /\ cpc' = "call"
  /\ UNCHANGED <<vars, past, cmd, gAttflag, cursor, bsatt, toParent, parent,
                 posting, got, budget>>

\* FROM_SVR: the loop reads on while FROM_SVR follows, and stops at an empty
\* pipe.  At any other command it leaves the loop and falls into the case
\* below, CHILD_CMD_POST_ATT, whatever the command it has just read.
FromSvr ==
  /\ cpc = "top" /\ MayRead /\ toChild # <<>> /\ Head(toChild) = "FROM_SVR"
  /\ toChild' = Tail(toChild)
  /\ cpc' = "swallow"
  /\ UNCHANGED <<vars, past, flags, gAttflag, cursor, bsatt, toParent, parent, posting, got, budget>>

Swallow ==
  /\ cpc = "swallow" /\ toChild # <<>> /\ Head(toChild) = "FROM_SVR"
  /\ toChild' = Tail(toChild)
  /\ UNCHANGED <<vars, past, flags, gAttflag, cursor, bsatt, toParent, parent, cpc, posting, got, budget>>

SwallowEnd ==
  /\ cpc = "swallow" /\ toChild = <<>>
  /\ cpc' = "call"
  /\ UNCHANGED <<vars, past, flags, gAttflag, cursor, bsatt, toChild, toParent,
                 parent, posting, got, budget>>

\* Fault: the progress is kept before the server has answered.
PostAttSaves ==
  /\ \/ cpc = "top" /\ MayRead /\ toChild # <<>> /\ Head(toChild) = "POST_ATT"
     \/ cpc = "swallow" /\ toChild # <<>> /\ Head(toChild) # "FROM_SVR"
  /\ toChild' = Tail(toChild)
  /\ cmd' = TRUE
  /\ packet' = [rec |-> attbuffer, count |-> reclenght]
  /\ j' = 0
  /\ bsatt' = IF bsatt.exists
              THEN [exists |-> TRUE, currec |-> currec + reclenght, curfp |-> curfp]
              ELSE bsatt
  /\ fdatt' = bsatt.exists
  /\ cpc' = "post"
  /\ UNCHANGED <<vars, past, pause, connect, conType, gAttflag, cursor,
                 toParent, parent, got, budget>>

\* The start of cache_att_to_svr: the packet is built from postattlog once,
\* and BsAtt.dat is opened, which fails if the file is not there.
PostAtt ==
  /\ \/ cpc = "top" /\ MayRead /\ toChild # <<>> /\ Head(toChild) = "POST_ATT"
     \/ cpc = "swallow" /\ toChild # <<>> /\ Head(toChild) # "FROM_SVR"
  /\ toChild' = Tail(toChild)
  /\ cmd' = TRUE
  /\ packet' = [rec |-> attbuffer, count |-> reclenght]
  /\ j' = 0
  /\ fdatt' = bsatt.exists
  /\ cpc' = "post"
  /\ UNCHANGED <<vars, past, pause, connect, conType, gAttflag, cursor, bsatt,
                 toParent, parent, got, budget>>

\* One turn of its loop.  Without a usable answer the server may have stored
\* the packet or not.
Stored == got \cup (IF packet.count = 1 /\ packet.rec.staff
                    THEN {packet.rec.idx} ELSE {})

TryFails ==
  /\ cpc = "post" /\ j < Reposttime
  /\ j' = j + 1
  /\ Spend("try")
  /\ got' \in {got, Stored}
  /\ UNCHANGED <<vars, past, flags, gAttflag, cursor, bsatt, toChild, toParent,
                 parent, cpc, packet, fdatt>>

\* Fault: the end of an upload does not allow the next one.
EndPostQuiet ==
  /\ gAttflag' = gAttflag
  /\ cmd' = FALSE
  /\ packet' = NoPacket /\ j' = 0 /\ fdatt' = FALSE
  /\ cpc' = "call"

\* Back in child_mainloop_handle: the next record may be asked for.
EndPost ==
  /\ gAttflag' = 1
  /\ cmd' = FALSE
  /\ packet' = NoPacket /\ j' = 0 /\ fdatt' = FALSE
  /\ cpc' = "call"

\* An answer of the wrong length ends the function at once, returning -1.
TryBadLength ==
  /\ cpc = "post" /\ j < Reposttime
  /\ Spend("badlen")
  /\ got' \in {got, Stored}
  /\ EndPost
  /\ UNCHANGED <<vars, past, pause, connect, conType, cursor, bsatt, toChild,
                 toParent, parent>>

TryAcked ==
  /\ cpc = "post" /\ j < Reposttime
  /\ j' = j + 1
  /\ got' = Stored
  /\ attbuffer' = Zero /\ reclenght' = 0
  /\ currec' = currec + packet.count
  /\ cpc' = "acked"
  /\ UNCHANGED <<vars, past, flags, gAttflag, curfp, bsatt, toChild, toParent,
                 parent, packet, fdatt, budget>>

\* The progress goes to BsAtt.dat, if it was open and is still there.
SaveProgress ==
  /\ cpc = "acked"
  /\ bsatt' = IF fdatt /\ bsatt.exists
              THEN [exists |-> TRUE, currec |-> currec, curfp |-> curfp]
              ELSE bsatt
  /\ cpc' = "posted"
  /\ UNCHANGED <<vars, past, flags, gAttflag, cursor, toChild, toParent, parent, posting, got, budget>>

\* After the loop: OFFLINE if it took all the attempts, successful or not;
\* then the upload is over.
Posted ==
  /\ \/ cpc = "posted"
     \/ cpc = "post" /\ j = Reposttime
  /\ toParent' = IF j >= Reposttime THEN Append(toParent, "OFFLINE") ELSE toParent
  /\ EndPost
  /\ UNCHANGED <<vars, past, pause, connect, conType, cursor, bsatt, toChild,
                 parent, got, budget>>

-----------------------------------------------------------------------------

\* child_call_proc, offline: a heartbeat that the server answers clears every
\* bit and sets CONNECT.
Reconnect ==
  /\ cpc = "call" /\ ~connect
  /\ \/ /\ cmd' = FALSE /\ pause' = FALSE /\ connect' = TRUE
        /\ toParent' = Append(toParent, "ONLINE")
        /\ UNCHANGED budget
     \/ /\ Spend("heartbeat")
        /\ toParent' \in HeartbeatFailed
        /\ UNCHANGED <<cmd, pause, connect>>
  /\ cpc' = "top"
  /\ UNCHANGED <<vars, past, conType, gAttflag, cursor, bsatt, toChild, parent, posting, got>>

\* child_call_proc, paused.
Paused ==
  /\ cpc = "call" /\ connect /\ pause
  /\ cpc' = "top"
  /\ UNCHANGED <<vars, past, flags, gAttflag, cursor, bsatt, toChild, toParent,
                 parent, posting, got, budget>>

\* proc(): a heartbeat when get_interval has passed.  On an error the child is
\* offline, unless TransErrorCode settles the matter with the server; either
\* way proc() goes on to the records.
Online == cpc = "call" /\ connect /\ ~pause

Heartbeat ==
  /\ Online
  /\ Len(toParent) < PipeBound
  /\ \/ /\ toParent' = Append(toParent, "ONLINE")
        /\ UNCHANGED <<connect, budget>>
     \/ /\ Spend("heartbeat")
        /\ \/ /\ connect' = FALSE
              /\ toParent' \in {Append(s, "OFFLINE") : s \in HeartbeatFailed}
           \/ /\ toParent' \in HeartbeatFailed
              /\ UNCHANGED connect
  /\ cpc' = "due"
  /\ UNCHANGED <<vars, past, cmd, pause, conType, gAttflag, cursor, bsatt, toChild,
                 parent, posting, got>>

\* Fault: asking without the flag.
DueUnguarded == currec < recindex

\* proc(): post_interval has passed.  A record is due when fewer have been
\* acknowledged than serials issued.  (The test of RUN_STAT_CMD in this
\* condition looks at the address of running_flag, not at its value.)
Due == currec < recindex /\ gAttflag = 1

PostDue ==
  /\ Online \/ cpc = "due"
  /\ \/ /\ Due
        /\ gAttflag' = 0
        /\ toParent' = Append(toParent, "READ_ATTLOG")
     \/ ~Due /\ UNCHANGED <<gAttflag, toParent>>
  /\ cpc' = "top"
  /\ UNCHANGED <<vars, past, flags, cursor, bsatt, toChild, parent, posting,
                 got, budget>>

\* proc(): neither interval has passed.
NotYet ==
  /\ Online \/ cpc = "due"
  /\ cmd' = (cmd /\ conType)
  /\ cpc' = "top"
  /\ UNCHANGED <<vars, past, pause, connect, conType, gAttflag, cursor, bsatt,
                 toChild, toParent, parent, posting, got, budget>>

-----------------------------------------------------------------------------

ParentNext ==
  \/ \E outcome \in WriteOutcomes : SaveRecord(outcome) \/ SaveCardRecord(outcome)
  \/ Clear \/ ReloadData \/ Scan \/ EnterMenu \/ LeaveMenu \/ ReInit \/ UdpCall
  \/ ParentStatus \/ ParentTake \/ ParentRead \/ ParentAnswer \/ ParentClose

ChildNext ==
  \/ ChildInit
  \/ Nothing \/ FlagCommand \/ FromSvr \/ Swallow \/ SwallowEnd
  \/ PostAtt \/ TryFails \/ TryBadLength \/ TryAcked \/ SaveProgress \/ Posted
  \/ Reconnect \/ Paused \/ Heartbeat \/ PostDue \/ NotYet

UNext == ParentNext \/ ChildNext \/ Crash

USpec == UInit /\ [][UNext]_allvars

\* Both threads keep running, an enrolment ends, and post_interval passes
\* while the child is online again and again.
ParentService == Scan \/ ParentStatus \/ ParentTake \/ ParentRead
                   \/ ParentAnswer \/ ParentClose

UFairness ==
  /\ WF_allvars(ParentService)
  /\ WF_allvars(LeaveMenu)
  /\ WF_allvars(ChildNext)
  /\ SF_allvars(PostDue)

UFairSpec == USpec /\ UFairness

-----------------------------------------------------------------------------

\* The buffer attbuffer has no lock: while the parent fills it, the child is
\* not building or sending a packet from it.  (Given up when the server calls
\* by UDP: FROM_SVR posts without being asked to.)
ReadPostExclusive ==
  ppc \in {"reading", "answering"} => cpc \notin {"post", "acked", "posted"}

\* Who may act on the next record: the child that may ask (gAttflag), the
\* question in the pipe, the parent that answers it, the answer in the pipe,
\* or the child that sends.  There is exactly one such token while the child
\* runs; none would stop the uploads for good, two would race for attbuffer.
\* (Without UDP calls, as above; with them there may be two, still never none.)
Count(s, m) == Cardinality({i \in 1 .. Len(s) : s[i] = m})

Tokens ==
  gAttflag + Count(toParent, "READ_ATTLOG") + Count(toChild, "POST_ATT")
    + (IF ppc \in {"reading", "answering"} THEN 1 ELSE 0)
    + (IF cpc \in {"post", "acked", "posted"} THEN 1 ELSE 0)

OneToken == cpc # "off" => Tokens = 1
UploadNotBlocked == cpc # "off" => Tokens >= 1

\* The hand-over as long as the server has not called by UDP.
OneTokenUntilCalled == budget["udp"] = Budget["udp"] => OneToken

\* What is sent as a record is a record of a person.  attbuffer is cleared at
\* the start of every read, before the parent knows if there is a record, so
\* this needs the hand-over; and it takes a person deleted between recording
\* and upload to send (and to have confirmed) a record of zeros.
PacketIsARecord ==
  cpc = "post" /\ packet.count = 1
    /\ budget["deleted"] = Budget["deleted"] /\ budget["udp"] = Budget["udp"]
  => packet.rec.staff

\* The order of the log is what the upload builds on: no serial above the
\* capacity yet and none given twice, no clear, no call of the server.
Followed ==
  /\ ~wrapped /\ ~reissued
  /\ \A event \in {"clear", "udp"} : budget[event] = Budget[event]

\* Events of one kind so far.
Spent(event) == Budget[event] - budget[event]

\* The progress on flash never claims more records than the server has, through
\* power cuts at any step between the answer of the server and the write; but
\* for the records of deleted people, of which it stored zeros.
ProgressNeverOutrunsDelivery ==
  Followed => bsatt.currec <= Cardinality(got) + Spent("deleted")

\* The positions before fp that hold a record which is not in S, or none yet:
\* what is there, and what comes there, will not be read.
PassedOver(f, fp, S) ==
  {i \in 1 .. fp : i > Len(f) \/ (f[i].staff /\ f[i].idx \notin S)}

\* No record is passed over for nothing: each one before the position kept on
\* flash, where the next start will go on, that is not at the server is that of
\* a packet given up (after Reposttime failures, or one answer of the wrong
\* length), of a deleted person, or one that moved there when as many of the
\* oldest were deleted.
PassedOverForCause ==
  Followed =>
    Reposttime * Cardinality(PassedOver(file, bsatt.curfp, got))
      <= Spent("try") + Reposttime * (Spent("badlen") + Spent("deleted") + dropped)

\* Every record stored is at the server in the end, through failed tries,
\* lost connections, pauses, reloads and power cuts.
EveryRecordArrives ==
  \A s \in 1 .. IssueBound :
    (\E i \in 1 .. Len(file) : file[i].staff /\ file[i].idx = s) ~> s \in got

\* The upload implements UploadLog.
Promise == INSTANCE UploadLog
  WITH log <- file, delivered <- got, mark <- bsatt.curfp
ImplementsUploadLog == Promise!LogSpec

=============================================================================
