----------------------------- MODULE PushSession -----------------------------
(***************************************************************************)
(* The session of the child thread with the push server: registration and   *)
(* opening, heartbeats, the change of the communication key, and the list   *)
(* of people, which the server sends as changes between two versions and of *)
(* which the terminal reports the version it has (fuliye.c, pushsdk.c,      *)
(* cmd_get.c, user_update in pushapi.c).                                    *)
(*                                                                         *)
(* The server is external: it keeps a log of changes, answers a heartbeat   *)
(* with what the reported version lacks, and goes over to a new key when    *)
(* the terminal has answered.  An answer may be lost, an operation on the   *)
(* tables may fail, and the power may fail between any two steps; options   *)
(* and people are on flash.                                                 *)
(***************************************************************************)
EXTENDS Integers, Sequences, FiniteSets

CONSTANTS
  Changes,        \* the log of the server: who was added or removed
  MaxUserCounts,  \* possible sizes of the list
  PacketMax,      \* changes that fit a packet
  Trouble,        \* bound of a run: how often each trouble may happen
  KeyBound        \* bound of a run on the keys issued

Troubles == {"fail", "unset", "illegal", "erase", "lost", "crash"}
Version == 0 .. Len(Changes)
People == {Changes[v].who : v \in Version \ {0}}

ASSUME ListAssumption ==
  /\ Changes \in Seq([who : People, there : BOOLEAN])
  /\ IsFiniteSet(People)
ASSUME RoomAssumption == MaxUserCounts \subseteq Nat /\ PacketMax \in Nat \ {0}
ASSUME TroubleAssumption == Trouble \in [Troubles -> Nat] /\ KeyBound \in Nat

Keys == 0 .. KeyBound      \* 0: the default key of a registration
OpenKey == KeyBound + 1    \* the key of an opening, which a registration brings

VARIABLES
  pc,           \* the child: what it does next
  RegistOpenFlag, push_comm_key, UserVersion, MaxUserCount,   \* saved options
  commkey, ListVer,                             \* RAM
  connect,      \* RUN_STAT_CONNECT
  gErrorCode,   \* 0, 4: illegal value, 7: list full, 9: wrong MAC
  users,        \* the people on file
  packet,       \* the packet in hand: the next change and the last one
  ret,          \* of user_update: "unset" until something sets it
  serverKey,    \* external: the key the server uses
  issued,       \* external: keys issued so far
  trouble,      \* troubles left
  masked,       \* history: a change failed and its packet counted as done
  torn,         \* history: the list was erased and its version stayed
  stale,        \* history: a packet failed behind one whose version was not saved
  unheard       \* history: the answer to a new key did not arrive

options == <<RegistOpenFlag, push_comm_key, UserVersion, MaxUserCount>>
ram     == <<commkey, ListVer, connect, gErrorCode>>
loading == <<packet, ret>>
server  == <<serverKey, issued>>
history == <<masked, torn, stale, unheard>>
vars == <<pc, options, ram, users, loading, server, trouble, history>>

NoPacket == [next |-> 1, last |-> 0, failed |-> FALSE]

Init ==
  /\ pc = "idle"
  /\ RegistOpenFlag = FALSE /\ push_comm_key = 0 /\ UserVersion = 0
  /\ MaxUserCount \in MaxUserCounts
  /\ commkey = 0 /\ ListVer = 0 /\ connect = FALSE /\ gErrorCode = 0
  /\ users = {}
  /\ packet = NoPacket /\ ret = "unset"
  /\ serverKey = 0 /\ issued = 0
  /\ trouble = Trouble
  /\ masked = FALSE /\ torn = FALSE /\ stale = FALSE /\ unheard = FALSE

Spend(t) ==
  /\ trouble[t] > 0
  /\ trouble' = [trouble EXCEPT ![t] = @ - 1]

-----------------------------------------------------------------------------
(* Registration and opening: svr_init_ymip and svr_open_ymip.                *)

Issue == issued < KeyBound /\ issued' = issued + 1

\* The registration goes by the default key.
Register ==
  /\ pc = "idle" /\ ~RegistOpenFlag
  /\ commkey' = OpenKey
  /\ pc' = "open"
  /\ UNCHANGED <<options, ListVer, connect, gErrorCode, users, loading, server,
                 trouble, history>>

\* proopendevret: the communication key, on flash before the flag.
OpenDev ==
  /\ pc = "open"
  /\ Issue
  /\ serverKey' = issued'
  /\ commkey' = issued' /\ push_comm_key' = issued'
  /\ pc' = "flag"
  /\ UNCHANGED <<RegistOpenFlag, UserVersion, MaxUserCount, ListVer, connect,
                 gErrorCode, users, loading, trouble, history>>

\* No answer: the child registers again.
OpenDevLost ==
  /\ pc = "open"
  /\ Spend("lost")
  /\ pc' = "idle"
  /\ UNCHANGED <<options, ram, users, loading, server, history>>

SaveFlag ==
  /\ pc = "flag"
  /\ RegistOpenFlag' = TRUE
  /\ connect' = TRUE
  /\ pc' = "idle"
  /\ UNCHANGED <<push_comm_key, UserVersion, MaxUserCount, commkey, ListVer,
                 gErrorCode, users, loading, server, trouble, history>>

-----------------------------------------------------------------------------
(* Heartbeats.  The answer is the server's next word, under its key.         *)

Beat == pc = "idle" /\ RegistOpenFlag
MacRight == push_comm_key = serverKey

\* The end of a heartbeat.  While connected, an error is reported next, and
\* the result of the report takes the place of the heartbeat's.
EndBeat(good) ==
  IF connect /\ gErrorCode' # 0
    THEN pc' = "report" /\ UNCHANGED connect
    ELSE pc' = "idle" /\ connect' = good

\* ChectMAC fails: the server uses another key.
HeartbeatRefused ==
  /\ Beat /\ ~MacRight
  /\ commkey' = push_comm_key
  /\ gErrorCode' = 9
  /\ EndBeat(FALSE)
  /\ UNCHANGED <<options, ListVer, users, loading, server, trouble, history>>

Heartbeat ==
  /\ Beat /\ MacRight
  /\ commkey' = push_comm_key
  /\ UNCHANGED gErrorCode
  /\ EndBeat(TRUE)
  /\ UNCHANGED <<options, ListVer, users, loading, server, trouble, history>>

HeartbeatLost ==
  /\ Beat
  /\ Spend("lost")
  /\ commkey' = push_comm_key
  /\ UNCHANGED gErrorCode
  /\ EndBeat(FALSE)
  /\ UNCHANGED <<options, ListVer, users, loading, server, history>>

\* TransErrorCode, in proc.
Report ==
  /\ pc = "report"
  /\ gErrorCode' = 0
  /\ commkey' = push_comm_key
  /\ \/ UNCHANGED <<connect, trouble>>
     \/ connect' = FALSE /\ Spend("lost")
  /\ pc' = "idle"
  /\ UNCHANGED <<options, ListVer, users, loading, server, history>>

-----------------------------------------------------------------------------
(* updatecommkey: the new key is taken, saved and answered.                  *)

\* Fault: the answer goes out before the key is saved.
KeyStepAnswerFirst == [taken |-> "answer", answered |-> "save", saved |-> "end"]

KeyStep == [taken |-> "save", saved |-> "answer", answered |-> "end"]

\* What comes next, or the end of the heartbeat.
GoOn(next, good) ==
  IF next = "end" THEN EndBeat(good) ELSE pc' = next /\ UNCHANGED connect

UpdateCommKey ==
  /\ Beat /\ MacRight
  /\ Issue
  /\ commkey' = issued'
  /\ GoOn(KeyStep.taken, TRUE)
  /\ UNCHANGED <<options, ListVer, gErrorCode, users, loading, serverKey, trouble, history>>

SaveKey ==
  /\ pc = "save"
  /\ push_comm_key' = commkey
  /\ UNCHANGED gErrorCode
  /\ GoOn(KeyStep.saved, TRUE)
  /\ UNCHANGED <<RegistOpenFlag, UserVersion, MaxUserCount, commkey, ListVer, users,
                 loading, server, trouble, history>>

AnswerKey ==
  /\ pc = "answer"
  /\ serverKey' = commkey
  /\ UNCHANGED gErrorCode
  /\ GoOn(KeyStep.answered, TRUE)
  /\ UNCHANGED <<options, commkey, ListVer, users, loading, issued, trouble, history>>

\* AnswerToServer hears nothing from the server: an answer that was sent may
\* have been lost all the same.
AnswerKeyLost ==
  /\ pc = "answer"
  /\ Spend("lost")
  /\ unheard' = TRUE
  /\ UNCHANGED gErrorCode
  /\ \E good \in BOOLEAN : GoOn(KeyStep.answered, good)
  /\ UNCHANGED <<options, commkey, ListVer, users, loading, server, masked, torn, stale>>

-----------------------------------------------------------------------------
(* downuserinfo and user_update.                                            *)

\* Changes after the version the terminal has reported.
DownUserInfo ==
  /\ Beat /\ MacRight
  /\ commkey' = push_comm_key
  /\ \E last \in Version :
       /\ UserVersion < last /\ last <= UserVersion + PacketMax
       /\ packet' = [next |-> UserVersion + 1, last |-> last, failed |-> FALSE]
  /\ ret' = "unset"
  /\ pc' = "apply"
  /\ UNCHANGED <<options, ListVer, connect, gErrorCode, users, server, trouble, history>>

\* OperationType 0: the server orders the list to be erased, in a packet that
\* carries no changes.
EraseUserInfo ==
  /\ Beat /\ MacRight
  /\ Spend("erase")
  /\ commkey' = push_comm_key
  /\ users' = {}
  /\ ListVer' = 0
  /\ pc' = "erased"
  /\ UNCHANGED <<options, connect, gErrorCode, loading, server, history>>

Applying == pc = "apply" /\ packet.next <= packet.last
Change == Changes[packet.next]

\* One change is made.  Removing someone unknown leaves ret as it is.
UserUpdate ==
  /\ Applying
  /\ Change.there /\ Change.who \notin users => Cardinality(users) <= MaxUserCount
  /\ users' = IF Change.there THEN users \cup {Change.who} ELSE users \ {Change.who}
  /\ ret' = IF Change.there \/ Change.who \in users THEN "ok" ELSE ret
  /\ packet' = [packet EXCEPT !.next = @ + 1]
  /\ UNCHANGED <<pc, options, ram, server, trouble, history>>

\* The table is full, or cannot be written.
UserUpdateFails ==
  /\ Applying
  /\ \/ Change.there /\ Change.who \notin users
        /\ Cardinality(users) > MaxUserCount
        /\ UNCHANGED trouble
     \/ (Change.there # (Change.who \in users)) /\ Spend("fail")
  /\ ret' = "error"
  /\ packet' = [packet EXCEPT !.next = @ + 1, !.failed = TRUE]
  /\ UNCHANGED <<pc, options, ram, users, server, history>>

\* A value out of its range ends the packet with the changes made so far.
UserIllegal ==
  /\ Applying
  /\ Spend("illegal")
  /\ gErrorCode' = 4
  /\ EndBeat(FALSE)
  /\ UNCHANGED <<options, commkey, ListVer, users, loading, server, history>>

\* Fault: the version is taken whatever the result.
CountsAlways == ret \in {"ok", "error", "unset"}

\* ret is 0.  It is the result of the last change that set it, or was in
\* memory already.
Counts == ret \in {"ok", "unset"}

PacketDone ==
  /\ pc = "apply" /\ packet.next > packet.last
  /\ Counts
  /\ ListVer' = packet.last
  /\ masked' = (masked \/ (packet.failed /\ ret # "error"))
  /\ pc' = "count"
  /\ UNCHANGED <<options, commkey, connect, gErrorCode, users, loading, server,
                 trouble, torn, stale, unheard>>

PacketFailed ==
  /\ pc = "apply" /\ packet.next > packet.last
  /\ \/ ret = "error" /\ UNCHANGED trouble
     \/ ret = "unset" /\ Spend("unset")
  /\ stale' = (stale \/ ListVer > UserVersion)
  /\ pc' = "count"
  /\ UNCHANGED <<options, ram, users, loading, server, masked, torn, unheard>>

\* The people are counted: a full list is refused, after all was done.
UserRemain == MaxUserCount - Cardinality(users)

ListFull ==
  /\ pc \in {"count", "erased"} /\ UserRemain <= 0
  /\ gErrorCode' = 7
  /\ EndBeat(FALSE)
  /\ UNCHANGED <<options, commkey, ListVer, users, loading, server, trouble, history>>

\* The version to report from now on: that of the last packet done, or 0
\* when none was since the boot.
Reported == ListVer

SaveVersion ==
  /\ pc \in {"count", "erased"} /\ UserRemain > 0
  /\ UserVersion' = Reported
  /\ UNCHANGED gErrorCode
  /\ \/ EndBeat(TRUE) /\ UNCHANGED trouble
     \/ EndBeat(FALSE) /\ Spend("lost")
  /\ UNCHANGED <<RegistOpenFlag, push_comm_key, MaxUserCount, commkey, ListVer,
                 users, loading, server, history>>

-----------------------------------------------------------------------------
(* The power fails.                                                         *)

Crash ==
  /\ Spend("crash")
  /\ torn' = (torn \/ pc = "erased")
  /\ unheard' = (unheard \/ pc = "answer")
  /\ pc' = "idle"
  /\ commkey' = 0 /\ ListVer' = 0 /\ connect' = FALSE /\ gErrorCode' = 0
  /\ packet' = NoPacket /\ ret' = "unset"
  /\ UNCHANGED <<options, users, server, masked, stale>>

Session ==
  \/ Register \/ OpenDev \/ SaveFlag
  \/ HeartbeatRefused \/ Heartbeat \/ Report
  \/ UpdateCommKey \/ SaveKey \/ AnswerKey
  \/ DownUserInfo \/ UserUpdate \/ PacketDone \/ ListFull \/ SaveVersion

Next ==
  \/ Session
  \/ OpenDevLost \/ HeartbeatLost \/ AnswerKeyLost
  \/ EraseUserInfo \/ UserUpdateFails \/ UserIllegal \/ PacketFailed
  \/ Crash

Spec == Init /\ [][Next]_vars

\* The child runs its loop, and the server answers an opening and, now and
\* then, a heartbeat with the list.
FairSpec ==
  /\ Spec
  /\ WF_vars(Session \/ UserUpdateFails \/ PacketFailed)
  /\ SF_vars(DownUserInfo)

-----------------------------------------------------------------------------
\* The variables have their types.
TypeOK ==
  /\ pc \in {"idle", "open", "flag", "save", "answer", "apply", "erased", "count", "report"}
  /\ RegistOpenFlag \in BOOLEAN /\ push_comm_key \in Keys /\ UserVersion \in Version
  /\ MaxUserCount \in MaxUserCounts
  /\ commkey \in Keys \cup {OpenKey} /\ ListVer \in Version
  /\ pc \in {"save", "answer"} => commkey \in Keys
  /\ connect \in BOOLEAN /\ gErrorCode \in {0, 4, 7, 9}
  /\ users \subseteq People
  /\ packet \in [next : 1 .. Len(Changes) + 1, last : Version, failed : BOOLEAN]
  /\ ret \in {"ok", "error", "unset"}
  /\ serverKey \in Keys /\ issued \in Keys
  /\ trouble \in [Troubles -> Nat]
  /\ masked \in BOOLEAN /\ torn \in BOOLEAN /\ stale \in BOOLEAN /\ unheard \in BOOLEAN

\* Whether p is on the list after version v.
There(p, v) ==
  LET about == {w \in 1 .. v : Changes[w].who = p} IN
    about # {} /\ Changes[CHOOSE w \in about : \A x \in about : x <= w].there

\* The version the terminal reports is never ahead of its list: everyone is on
\* file as in that version or a later one, through packets that fail half-way,
\* a full list and power cuts.  Only three things break it: a change whose
\* failure the next change's result has covered, a power cut between the
\* erasure of the list and the save of version 0, and a packet that fails when
\* the same changes had been made before and the list was then refused as full,
\* since ListVer still says that they are made (downuserinfo).
VersionHonest ==
  (~masked /\ ~torn /\ ~stale /\ pc # "erased") =>
    \A p \in People : \E v \in UserVersion .. Len(Changes) : (p \in users) = There(p, v)

\* A registered terminal and the server have the same key, or the terminal is
\* just about to answer; only an answer that is lost for good parts them
\* (proopendevret, updatecommkey).
SameKey ==
  (RegistOpenFlag /\ ~unheard /\ pc # "answer") => push_comm_key = serverKey

\* The list is as the server has it.
InStep ==
  /\ UserVersion = Len(Changes)
  /\ \A p \in People : (p \in users) = There(p, Len(Changes))

\* The list arrives and stays, with room for everyone, unless a failure was
\* covered, an erasure torn, a stale version saved or the answer to a key lost: whatever else is
\* lost, fails or is cut off, the version that was saved makes the server
\* send again what is missing.
ListArrives ==
  Cardinality(People) < MaxUserCount =>
    <>[](masked \/ torn \/ stale \/ unheard \/ InStep)

=============================================================================
