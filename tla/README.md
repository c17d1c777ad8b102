# Verification of fp-firmware

TLA+ models of the time-attendance terminal firmware: how a verification opens
the door and becomes a record in the flash file `data/ssrattlog.dat`, how the
record gets from there to the push server through two threads, two pipes and an
unreliable connection, how the table of people is kept by everybody who changes
it, and how a PC reads and controls the terminal.

Contents: 1 the system, 2 the modules, 3 the runs and their bounds, 4 what does
not hold, 5 the proofs, 6 what is not modelled, 7 the plan.

## 1. The system

| Component | Source | State it keeps | Operations | Talks to |
|---|---|---|---|---|
| Attendance store | `flashdb.c`, `utils2.c` | `ssrattlog.dat`, `recindex`, `CurAttLogCount`, `AttOffset` | `FDB_AddAttLog`/`SearchAndSave`, `FDB_DelOldAttLog`/`delFileHead`, `FDB_ReadAttBlock`, `FDB_ClearData`, `FDB_InitDBs`, `FDB_GetAttByIndex` | tells the child of new records (`pushsdk_data_new`) |
| User table | `flashdb.c`, `commu.c`, `iclock/pushapi.c` | user file, `UserIDMap`, `gUser`, templates, card numbers | `FDB_AddUser`, `FDB_ChgUser`, `FDB_DelUser`, `ProcessEnroll`, `ProcessUploadUDiskUser`, `FDB_ChgSerialCardNumber`, ... | called by the main thread (PC, menu, card, U-disk, server) and by the push thread |
| Verification and recording | `ssrvfwin.c`, `ssracc.c`, `flashdb.c` | `exceedflag`, those who wait, `CurAlarmRec` | `check_attlog_capacity`, `process_workcode`, `SaveAttLog`, `TestOpenLock`, anti-passback, `FetchLastLogs` | store, lock |
| Push child thread | `push/pushsdk.c`, `push/cmd_post.c` | `running_flag`, `postattlog`, `gAttflag`, `con_type`, `BsAtt.dat` | `init`, `child_mainloop_handle`, `child_call_proc`, `proc`, `cache_att_to_svr` | parent by `pipe_fd2`, server by TCP |
| Push parent (main thread) | `push/pushsdk.c`, `iclock/pushapi.c` | `iclock_state` | `parent_mainloop_handle`, `svr_cmd_check_by_udp`, `read_attlog_func`, `iClock_Invoke`, `user_deal` | child by `pipe_fd1`, store, users |
| Registration and session | `push/pushsdk.c`, `push/fuliye.c` | `RegistOpenFlag`, keys, `UserVersion`, `ListVer` | register, open, heartbeat, `TransErrorCode`, `updatecommkey`, `downuserinfo` | server, users |
| Pipes and bits | `push/pipe.c`, `push/lib.c`, `push/cmd_get.c` | the pipes, `running_flag`, `cmd_deal_over` | write that does not block, read with wait, `set_bit`/`clear_bit`, `tell_and_wait_parent` | both threads |
| PC protocol | `commu.c`, `net.c`, `main.c` | sessions, `LastReplyID`, stored answers, buffers, RT event lists | `RunCommand` and its commands, `EthCommCheck` | PCs by UDP |
| Transport, cryptography | `push/http.c`, `push/tcp.c`, `push/3des.c` | sockets | | server |
| Windows, option tables, drivers, wifi, sound, compression | rest of `trunk/M880trunk` | | | |

What makes this hard: two threads share `postattlog`, `gAttflag`, `running_flag`
and the user file without a lock, and only the order of pipe commands keeps them
apart; pipe writes may be dropped unnoticed; the progress of the upload lives in
RAM and in a second flash file that are updated in separate steps; serials are
kept in RAM and rebuilt from the records; the log wraps, is cut at the head in
blocks that are no whole number of records, cleared and reloaded while an upload
is under way; a server or a PC may do what was asked while the answer is lost.
`PROJECT.json` lists these hazards with the line where each bites and the
properties about it.

What makes each part correct:

* store: serials of persons grow along the file, the counter is never below a
  serial on file, only the oldest records leave, the capacity is kept; a power
  cut inside a deletion loses nothing but what was to be deleted; the PC's
  download passes nothing over;
* upload: one upload at a time, no race for the buffer, a packet carries a
  record, none is passed over without a cause that is worth it, the progress on
  flash never ahead of the server, every record arrives;
* threads: commands stay framed, every question is answered, the child is held
  or paused only as asked;
* session: both sides have the same key, the version reported is never ahead of
  the list of people, the list arrives;
* users: nobody is on file twice, the map of PINs is that of the file, nobody
  inherits the finger or the card of somebody deleted;
* PC protocol: a command runs at most once, an answer belongs to its question,
  an upload is in order, no event is lost, a disabled device can be enabled;
* access: the door opens only for enough people, in time, and the way that
  anti-passback goes by is that of the last opening on file.

## 2. Modules

Several definitions are marked `Fault:`. They are variants, with a plausible
bug, of the definition that follows them, and show that each property can fail.
No behaviour of the specifications uses them.

**Attendance store**

* `AttLogFile`: what happens to the file, as operators without state. One
  position stands for `sizeof(TAttLog)` bytes; a record keeps whether its PIN is
  nonzero (`staff`) and the U32 of `reserved` (`idx`). `Position` and `WriteAt`
  are the seek and write of `SearchAndSave` (a seek past the end leaves a
  `Hole`), `DelHead` is `delFileHead` with its quirk that a file of at most n
  records keeps them all, `ScanIndex` is the comparison at boot including
  `ntohl` on a little-endian board, `GetAttByIndex` is `FDB_GetAttByIndex` with
  `MAX_POST_ATT_COUNT` = 1. `Base` is the number of values of a byte, 256 in
  the device, so that byte order is visible with small serials.
* `AttLog`: the store as a state machine. `file`, `recindex`,
  `CurAttLogCount`, `exceedflag` are the variables of the code; `scan` is the
  position of the loop in `FDB_InitDBs` (-1 outside it), `wrapped` a history
  variable. Actions: `Verify`, `VerifyCancelled` (the capacity check deletes old
  records although nothing is saved), `SlaveVerify`, `CardVerify`, `ClearData`,
  `Reload`, `Reboot`, `ScanStep`, `ScanDone`. A write is `stored`, `unverified`
  (written, but the read back differs, so it is not counted) or `failed`.
* `AttDownload`: the same file below the level of records, cell by cell.
  `Verify` starts a deletion when the store is full, `CopyBlock` and `CopyDone`
  are the loop and the truncation of `delFileHead`, `Adjust` the correction of
  `AttOffset` behind it, `SaveAttLog` the write and, after a short one, the
  second write, `SaveFails` two short writes, whose cells stay in the file,
  `SaveNothing` a work code menu left without a choice,
  `FDB_ReadAttBlock` the download of what is new. `Crash` may hit any step, a
  block half written included. History: `handed` (what the PC got), `orig` (the
  file before the deletion), `drifted` and `short`. The log does not wrap here.

**Push upload**

* `PushUpload` extends `AttLog` with both threads. The child is at `top` (about
  to read its pipe), `swallow` (the FROM_SVR loop), `post`, `acked`, `posted`
  (inside `cache_att_to_svr`), `call` or `due` (inside `child_call_proc`); the
  parent is `idle`, `reading`, `answering`, `closing` (inside case
  READ_ATTLOG) or `loading` (inside case RELOAD_DATA). Every access to
  a variable that the other thread uses is a step of its own, except that one
  bit of `running_flag` changes atomically (see `PushThreads`). History: `got`,
  the serials that the server stored; `top`, the highest serial on file
  (`Serial` is what a save puts there), and `reissued`, whether a record got one
  no higher; `dropped`, how many records were deleted as the oldest. `budget`
  limits the environment's events, and tells which have happened. A cancelled verification and a slave reader are left
  out: they add nothing to the upload that `SaveRecord` does not.
* `UploadLog`: the abstract promise. A log that grows, in-order delivery, and a
  mark that never passes an undelivered record. `PushUpload` implements it with
  `log <- file`, `delivered <- got`, `mark <- bsatt.curfp`.
* `PushThreads`: what `PushUpload` takes for granted. Pipes of bounded size in
  bytes, of which a full one drops a write without anybody noticing; a change of
  `running_flag` is a read and a write with the other thread in between;
  `tell_and_wait_parent` waits without a limit. What a handler still has to do
  is a sequence of small operations, `todo` for the child and `serving` for the
  parent; each operation is a step. The store and UDP calls are left to
  `PushUpload`; a record is due or not. `CHILD_CMD_MUTEX` and `STOP_DATA` are
  never sent, no caller reaches `RELOAD_DATA`, `CNT` and `ENROLL_FP` of the
  questions, and `PARENT_CMD_DSTF` only stores a daylight flag: left out.
* `PushSession`: registration and opening, heartbeats, the error report, the
  change of the key, the list of people in packets of changes, the change of
  server, power cuts. The server is external: a log of changes, a heartbeat
  answered with what the reported version lacks, a key that takes effect when
  it hears the terminal's answer. Each packet is applied change by change, with
  the result of `user_update` as the code computes it (a later success covers an
  earlier failure). Time synchronisation, warnings and the packets for address,
  device and communication parameters are not modelled, nor a failing clear of
  the tables behind an erased list.

**People, PC, door**

* `UserTable`: the user file, its offset `pos` and buffer `gUser` that both
  threads share, `UserIDMap`, templates and cards. An operation is its lookup,
  its write and, for a deletion, the removal from cards, map and templates, each
  a step of thread `main` or `push`; any write may fail (`WriteFails`,
  `DelFails`), and `Crash` loses RAM between any two. The main thread adds for
  the PC (`PCAddUser`, `AppendNamed`: a template with a name), the menu and a
  card (`AddNextPin`), the U-disk (`ImportUser`, `ImportOver`, `ImportNew`) and
  the server. `StartEnroll`, `EnrolFinger`, `EnrolFails` and `Rebuild` are
  `ProcessEnroll`: the PIN is looked up before the window opens, PC commands go
  on inside it, the template is written first, the record of somebody new behind
  it and without a look at the capacity. History: `overlap` (both threads were
  in the file at once), `torn` (a deletion, or the enrolment of somebody new,
  was left half done), `stale` (an enrolment ended when its PIN meant somebody
  else), `revived` (the U-disk gave a PIN to a free record of somebody on file),
  `unchecked` (the PINs given out without a look at the capacity), `garbled`
  (`FDB_ChgSerialCardNumber` wrote the bytes of a pointer).
* `CommSession`: sessions by address, reply ids that wrap at 65535, the stored
  answer that is sent again, uploads into the buffer of a session or,
  while `isWriteFlashTmp` is set, into the batch file, buffers for which there
  is no memory, lists of real-time events, `DISABLEDEVICE`/`ENABLEDEVICE`,
  expiry, and restarts of the terminal, which two commands bring about by
  following a buffer that is not there (`NoBufferThere`). A packet stays in
  `net` once sent, so it may arrive late, again, or never; an answer stays in
  `back`, so it may come when its PC has given up. History: `ran`,
  `evicted` (events dropped for want of room), `loose` (ids started or came
  round again), `blind` (went on behind a piece without answer), `mixed`
  (an upload met the batch file, or a session a restart), `pollers` (who
  polled), `restarted` (`RTLogNum` started again after a list was made). The
  password of a connection (`ComKey` = 0) and the event queue are not modelled.
* `AccessControl`: `TestOpenLock` for several people by number or by
  combination, repetition, anti-passback, forced opening and closing, and what
  `SaveAttLog` records of it: the records of persons on file (`file`), with the
  capacity check and its deletion of the oldest at the terminal's own reader
  (which is inside here; the slave reader outside goes by the last
  `exceedflag`), the times `FDB_AddAttLog` moves apart under `IclockSvrFun`, and
  the copy `CurAlarmRec`, which follows a save only when it was verified and
  which `Restart` builds anew from the file (`FetchLastLogs`). Time zones are
  inputs; the clock may be set back. History: `seen` (last verification that may
  still count), `passed` (last opening, with the time its record would have),
  `unverified`, `disorder` (whose record is no later than one before it). Records
  are appended here; their wrap is in `AttLog`.

`MCAttLog`, `MCAttDownload`, `MCPushUpload`, `MCPushThreads`, `MCPushSession`,
`MCUserTable`, `MCCommSession` and `MCAccessControl` give values for the runs;
two of them state what a comment of the code says and the code does not keep.
The modules `*_proofs` hold the theorems.

What is abstracted everywhere: contents of records other than those named, time
stamps and wording, packet layout, MAC and frame numbers, sleeping times.

## 3. Runs

| Run | Question | Instance |
|---|---|---|
| `store` | order of serials, counter, capacity, nothing but the oldest leaves | capacity 3, byte base 2, DelRecord 2, all write outcomes, strangers, slave reader, reboots, 9 serials (three wraps), 6 positions |
| `att_download` | a deletion in blocks, power cuts, short writes, the download mark | records of 2 cells, blocks of 3, capacity 4, DelRecord 2, short writes of one cell, two power cuts, 5 records |
| `upload` | token, race, every record arrives, `UploadLog` is implemented | 2 serials, failed writes, two attempts per packet; one failed attempt, failed heartbeat, power cut and enrolment |
| `upload_losses` | what each lost record is paid for by, progress | capacity 3, 3 serials, 4 positions, DelRecord 1, records of strangers, one attempt per packet; any two of: failed attempts, a bad length, a deleted person, a lost heartbeat; two power cuts |
| `upload_handover` | hand-over when records are lost, packets carry records | one attempt per packet; any two of: a failed attempt, a bad length, a deleted person, a clear, a reload, an enrolment, a re-initialisation, two UDP calls |
| `push_threads` | framing, full pipes, lost updates of a bit, unanswered questions | pipe of 4 bytes to the child (it overflows), 10 commands to the parent, one disturbance |
| `push_session` | keys, versions, the list arrives | 2 people, 4 changes, room for 2 or 3, packets of up to 4, each trouble once |
| `users` | numbers, map, fingers, cards, capacity | 3 people (symmetric), 3 PINs, capacity 1, 2 serials, 4 operations, one power cut, failing writes; started with no file, with two free records, and with two people on file |
| `pc_session` | ids, answers, pieces, events, disabled device | 2 PCs (symmetric), ids 0..4, buffers of 2 pieces, lists of 1 event, 5 packets of one PC, fewer of two or with events and late answers, 3 events, 2 seconds, restarts |
| `access` | who opens, what is recorded | 3 people in groups 1, 1, 2; combinations {1, 2} and {1, 1, 3}; 4 settings; capacity 2, DelRecord 0 and 1; clock 0..3, a clock moved by up to 1 second; one trouble |
| `doc_full_store_records`, `doc_post_sends_record` | a comment of the code against the code | smallest instance that shows it |

The bounds. Capacity 3 with 9 serials reaches every relation of serial,
length and capacity that the code distinguishes (below, at, one above, two
rounds above). Base 2 makes serial 2 a "second digit" serial. Two cells a record
and three a block make every other block end inside a record. With capacity 4 and
two power cuts a second deletion moves the record that the first one tore. Two or three
records are enough for one in flight, one stored behind it and one lost. In
`upload` each trouble happens once, in `upload_handover` any two meet
(`FewAtOnce`), two calls included, which make the swallow loop turn, and in
`upload_losses` any two that lose a record (`FewLost`) with two power cuts,
failed attempts twice since one attempt is a packet. Capacity 3 with records of
strangers fills the store before serial 3, so that a deletion of the oldest
comes while records wait behind it (without strangers it would come together
with the serial that ends what is stated); records are really passed over by the
deletion there, and by each of the others. `PipeBound`
stops the child from heartbeating while a status message waits. In
`push_threads` the small pipe overflows after a few commands as the device's
does after thousands; `CommandBound` limits what the main thread and the server
do out of turn. In `push_session` one person leaves and comes back, so that a
version that is too new and one that is too old give different lists. In
`users` capacity 1 lets the PC refuse where the server accepts; four operations
reach a deletion inside an enrolment and an addition behind it, the starting
states save those that come before; `Apart` follows a behaviour until the
threads overlap or an enrolment ends on a PIN that means somebody else, from
where nothing is stated. In `pc_session`
five packets are a CONNECT, an announced upload and three pieces, so that one is
refused for want of the one before it and the next comes behind it; ids wrap
within six, and `FewTogether` spares two PCs the last one, and everybody one
more where events happened, an answer comes that its PC no longer waits for, or
the terminal was started again (events are then not followed at all: their
promise is over); `Orderly` follows a behaviour until a PC's ids
have come round or its CONNECT arrived twice, from where the reply ids promise
nothing. In `access`, two records fill the file, and a third deletes the oldest
or is refused; `Alone` keeps the third person away where one person opens
alone, since the others then do not matter, and ends that part of the run a
second earlier. `IssueBound`, `FileBound`,
`OpBound`, `CrashBound`, `CmdBound`, `EventBound`, `SecondBound`, `KeyBound`,
`ClockMax` and `Trouble` bound counters of a run. Deadlock is not checked in
`push_session`, `users` and `pc_session`, which end when their bounded
operations are used up.

Fairness. `PushUpload` (`UFairSpec`): the main thread and the child are both
scheduled, so weak fairness of the parent's loop body, of the boot scan and of
the child; the user leaves the enrolment menu (it has a time-out); the test of
`post_interval` (one second) is passed again and again while the child is
online, since a turn takes at most a heartbeat, hence strong fairness of
`PostDue`. Heartbeats and attempts fail only as often as the budget says.
`PushThreads`: weak fairness of each thread's loop (`ParentService`,
`ChildNext`), nothing of the server. `PushSession`: weak fairness of the child's
steps, a failing operation included, and strong fairness of `DownUserInfo`: a
server that is reached again and again sends the list again and again.

## 4. What does not hold

The `doc_*` runs end in a counterexample; `PROJECT.json` quotes the comment and
the line. With `LoopWriteRecordOn`, a full store still refuses the record, and
the program treats the refusal as success; FROM_SVR followed by another command
loses that command and posts a packet without a record.

Several properties hold only up to an event that the history variables record,
and fail after it. Each such event is a weakness of the code worth knowing, and
what comes of it is then caught by no property; where that is the whole of a
hazard, `PROJECT.json` lists the hazard without one:

* `SerialsInOrder`, `CounterCoversFile`: until a serial passes the capacity;
  the counter also while serials fit two bytes, since they are compared after a
  byte swap at boot (`flashdb.c:1117`).
* `PassedOverForCause`, `ProgressNeverOutrunsDelivery`: until a serial passes
  the capacity or is given twice, the log is cleared (stale `currec`,
  `flashdb.c:1389`) or the server calls by UDP. Records are lost before that
  too: one when a packet is given up (`pushsdk.c:1156`), one when its answer has
  the wrong length, which ends the retries (`cmd_post.c:341`), one when its
  person was deleted, and as many as are deleted as the oldest, since `curfp`
  keeps its value (`ssrvfwin.c:1732`). `PassedOverForCause` is the account of
  these: none is lost without one of them, and each costs no more than that.
* `EveryRecordArrives`, `ImplementsUploadLog`: checked where none of these
  happens, and fail otherwise.
* `OneToken`, `ReadPostExclusive`: until the server calls by UDP.
* `NothingSkipped` (`AttDownload`): until a deletion is cut by a power failure,
  or finds all records downloaded, or a stranger's at the mark; this and
  `TornOnlyByCrash` until a write was short (`flashdb.c:636`).
* `OnlyOldestLeave`: until a serial passes the capacity (`flashdb.c:491`).
* `PauseAsAsked`, `CmdReleased`: until two changes of `running_flag` cross;
  `InSync`: until the full pipe to the child dropped a byte.
* `VersionHonest`, `ListArrives`: until a failing change is covered by a later
  one (`pushapi.c:1289`), an erasure is cut before version 0 is saved
  (`fuliye.c:590`), or a packet fails behind a list refused as full, since
  `ListVer` stays ahead (`fuliye.c:634`).
* `SameKey`: until the answer to a new key is lost; then every heartbeat is
  refused for ever (`pushsdk.c:706`).
* `EachOnce`, `MapAgrees`, `FingersStayOwn`, `CardsStayOwn`, `AtMostOneOver`:
  until the two threads are in the user file at once, or an enrolment ends
  behind a change, by the PC, of what its PIN meant when it began
  (`commu.c:481`): the number is added twice, or the finger goes to somebody
  else. Names are also on file twice when the U-disk gives a PIN to a free record
  of somebody who was added again (`flashdb.c:6731`). Fingers and cards:
  until a deletion is left half done, or the enrolment of somebody new, whose
  template is written before the record (`commu.c:503`): the next owner of the
  PIN has the finger. Cards also until one is changed (`flashdb.c:8334`).
  `AtMostOneOver` does not count those whom an enrolment (`commu.c:512`), a
  template with a name or the U-disk's free records add without a look at the
  capacity: of them there may be as many as there are PINs.
* `RunsOnce`, `AnswerIsOwn`, `UploadInOrder`: for a PC whose ids have not come
  round and whose CONNECT arrived once; `EventsDelivered`: with one polling PC
  that does not call up again once a list was made, since any CONNECT sets the
  count of lists back (`net.c:109`) while the list is still under way, and until
  the terminal is started again, since the lists are in RAM.
* `UploadInOrder`: until the PC goes on behind a piece that was not answered. A
  piece refused as ahead is kept as the last packet answered (`commu.c:745`), so
  the one behind it is taken and the buffer has a gap that only an error code
  for the piece before it told of. And until the upload meets the batch file:
  `isWriteFlashTmp` is one flag for all sessions (`commu.c:2447`).
* `MembersOnce` (order of times), `OpenNeedsEnough`: until the clock is set
  back.
* `WayIsRecorded`: for people whose last opening is on file; until the last
  record of a person was written but not verified (to the next record or a
  restart, which takes it from the file), or was made no later than another of
  theirs, by a clock set back or `IclockSvrFun` (`AddToOrderedLastLogs` then
  keeps the older one). The door also opens without a record, for a repetition
  or on a full log, and the next check goes by an older way.

Seen while modelling, without a run of their own: a success at the last attempt
is reported as OFFLINE (`cmd_post.c:381`); after a deletion of old records the
wrapped position is not that of the oldest record; after a wrap the last record
in file order decides the counter at boot; `currec` (`fuliye.h:253`: the serial
being uploaded) is a count that gaps in the serials leave behind for ever; the
record of a deleted person goes out as zeros and is acknowledged; `CMD_DATA`
(`commu.c:2455`) and `CMD_UPDATE_FIREWARE` (`commu.c:2166`) look into the buffer
before they test whether there is one; the command line for removing
`BsAtt.dat` has two `%s` and one argument.

## 5. Proofs

The theorems hold for every value of the constants under the named `ASSUME`s of
the modules, and are about the unbounded code as well: a bound of a run is a
constant like any other.

**`AttLog_proofs`.** What the file operators do (types,
that an append is an append, bounds of the byte swap), and then

* `TypeCorrect`, by one lemma per action;
* `SerialsStayInOrder` and `CounterStaysAbove`, assuming `MaxLog < Base * Base`
  (65536 in the device: below it a swapped serial is never smaller than the
  plain one). `SerialsInOrder` is not inductive: during the boot scan
  the counter is low. The strengthening `SerialInv` adds that the counter is
  above the serials already scanned (`Seen`), and that no serial passed the
  capacity, which turns every write into an append;
* `CapacityHolds`. The capacity is not inductive
  either: as long as every save was checked and counted, `CapacityInv` relates the length to the count, or to the position of
  a wrapping write, in every phase of a scan;
* `OldestLeaveFirst`, the action property, from the same lemmas.

**`AttDownload_proofs`.** For every size of record and block and every number
of power cuts:

* `DeletionIsExact` and `NothingIsLost`. `CopyInv` says, cell by cell, what the
  file holds when `head` cells have been moved: the original shifted up to there,
  and the original behind it; whole records follow from it because source and
  target of a cell are `Gap` apart;
* `FailuresTearOneEach`. That a power cut tears one record at most is not
  inductive: the next deletion moves what the last one left behind, and one
  that stops between a torn record and its copy could tear two. `Twinned` is
  what excludes it: a torn record stands where a deletion stopped, the records
  within `DelRecord` places in front of it are the same as those `DelRecord`
  places on, so a mixture of such a pair is whole, and two torn records are at
  least `DelRecord` places apart;
* `NoneIsSkipped`. `MarkInv` keeps `AttOffset` within the file and, during a
  deletion, the record at the mark at hand, so that the place it is found at
  again has nothing in front of it that the PC has not had.

**`PushUpload_proofs`.** `StoreUnderUpload` (every step of `PushUpload` is a step
of `AttLog` or leaves the store alone, so the theorems about the store hold while
records are uploaded) and `UploadTypes`. The next part counts a command in a
pipe and states for each action how the five places of the upload token change:

* `UploadNeverBlocked`, for every supply of events, UDP calls included:
  with the types, `UploadNotBlocked` is inductive as it stands;
* `OneTokenBeforeCalls`, with no assumption, and from it `OneTokenAlways` and
  `NoBufferRace`, assuming `Budget["udp"] = 0`. `OneToken` is not inductive: a
  boot of the child creates a token, so there must be none before, and a
  FROM_SVR in the pipe would create a second one. `TokenInv` adds both. That the
  parent answers, or the child ends an upload, only while it holds the token
  then makes the flag given back the only one;
* `PacketsCarryRecords`: `RecordInv` says that a record has been read wherever
  the token is between the parent's read and the child's packet.

The last part is about progress, without an assumption on the constants:

* `PassedOverIsPaidFor` and `ProgressIsHonest`, as long as the upload is
  `Followed` (no serial above the capacity or given twice, no clear, no UDP
  call). Neither is inductive: `curfp` moves at the read and `currec` at the
  confirmation, in different threads, both are set back from flash by a power
  cut, and a deletion of the oldest moves the records under both. `LossInv`
  states one formula, `Progress`, twice: for position and count on flash
  (`SavedInv`), and for those in RAM together with the record in flight
  (`CursorInv`), which is in the buffer, the pipe or the packet of the token's
  one holder (`Carried`) and carries the attempts made for it so far. `Progress`
  keeps the account of what was passed over against `Loss` (failed attempts, and
  `Reposttime` for a wrong length, a deleted person, a deleted record), and says
  that the count is below the serial of every record behind the position, which
  is therefore due, and at most the number of the server's serials below these.
  It survives an append, because new serials are higher
  (`OrderInv`); a deletion, because at most so many more records come to lie in
  front of the position as the account allows for (`ProgressDelete`); a give-up,
  because the attempts of the packet pay for its record; and a power cut,
  because RAM restarts from what flash says;
* `UploadIsInOrder`, the safety part of the refinement: while nothing is lost
  (`Untroubled`) the account is below `Reposttime`, so nothing was passed over;
  `MarkInv` orders the marks on flash and in RAM, and every step is then a step
  of `UploadLog` or leaves log, deliveries and mark alone.

**`PushSession_proofs`.** `TypeCorrect`, `SameKeyHolds` (`KeyInv`: in each phase
of a heartbeat, which keys the two sides can have) and `VersionIsHonest`
(`VersionInv`: while a packet is applied everyone is as in some version from the
saved one up to the change just made; a save may therefore only move up when
all changes were made).

**`UserTable_proofs`.** `TypeCorrect`, `NobodyTwice`, `MapIsTheFile`,
`NoFingerInherited`, `NoCardInherited`, `OneAboveCapacity`, from one invariant
`UserInv`: until an overlap, or an enrolment that ends on another meaning of its
PIN, only one thread is inside an operation (`Alone`), what it looked up is
still true when it writes (`Ready`), and map, count, fingers and cards are those
of the file except for the person it is at: between the template and the record
of somebody new, the finger is of the person being added. That an enrolment
keeps `Ready` over the PC's commands inside its window is what `stale` is about:
`EnrolFinger` establishes it from `Meant`, not from the lookup. A cut between
the two writes leaves a finger without a person, which is why `torn` covers it.

**`AccessControl_proofs`.** `TypeCorrect`, `MembersAreOnce`, `WayOnRecord` and
`OpeningNeedsEnough`. `WayOnRecord` compares the last opening, the file and the
copy in RAM, which change in different steps: `WayAgrees` says that the records
of a person are on file in the order of their times, that none is later than
the last opening, and that, unless one was not verified, the way of the last of
them is that of the copy. It rests on lemmas about the end of a file (what
stays of it when the oldest go, what an append adds), and on `FetchIsOwn` and
`RestartWay`: in a file in order, the record that `FetchLastLogs` finds is the
last one. For `OpeningNeedsEnough`, `SeenInv` says that everybody who waits
verified when the list says and has not counted for an opening since.

**`CommSession_proofs`.** `TypeCorrect`, `DisabledHasASession`, `OnlyOnce`,
`OwnAnswers`, `PiecesInOrder` and `EventsReachThePC`, for any number of PCs and
any range of ids. `OnlyOnce` to `PiecesInOrder` come from one invariant, kept
separately for each PC (`Good`) until its ids come round; `Frame` says that a
step of others keeps it. `IdInv`: what was run on a session still there is not
newer than the last id answered, and everything under way, answers to packets
given up included, is older than the next id, so that a command that is neither repeated nor old has never run
(`RunFacts`). `AnswerInv`: the stored answer belongs to a packet still under
way, or a CONNECT is on its way that will forget it. `UploadInv`: an upload
stands at the last piece, arrived or not, and no other packet of this PC can be
taken meanwhile (`OnlyNextPiece`).

`EventsReachThePC` adds `EventInv` for a PC that polls alone. The PC has every
list made but perhaps the last (`CountInv`), a poll that can still be run tells
the terminal which of the two it is (`PollInv`), and an answer that the PC may
still take holds the list it has not got (`ListInv`). What the PC has, the list
it has not and the events behind it are then all events but those dropped, in
order (`StreamInv`). The first attempt at this proof failed: in a behaviour of seven packets, beyond
the bound of the run, one PC polls and calls up again, and another polls before
that CONNECT arrives, which the history variable of that time did not notice. It
now records who polled and whether the count of lists started again, and the
property is stated, for more states than before, until either happens.

**`PushThreads_proofs`.** For pipes of every size, every length of a type and
every list of questions in a packet. `Typed` says that the rest of a handler is
always one of a few forms; on it rest

* `Types`, which bounds the pipes, and `TypesStayWithCommands`: up to the first
  dropped write the pipe to the child is a sequence of whole commands (`Synced`);
* `WaitsForItsAnswer`: `Exchange` puts a question last in the pipe, a single
  answer behind it, and the two bits in between, so that an earlier `over` is
  never seen by a later question;
* `CommandsAreHeardAgain` (`Held`: whoever has RUN_STAT_CMD in its copy of the
  flags still has to clear it) and `PausedOnlyAsAsked` (`SamePause`: without a
  crossing a copy agrees with the flags);
* `ParentPipeStaysShort`. Nothing in the code limits what the child writes
  before the parent reads; that it is at most 7 bytes and one for each
  disturbance comes from the whole protocol. `Budget` counts what the child may
  still write before it asks something, which empties the pipe: statuses in
  `todo`, one more if it will be offline behind it, RE_INITs and changes of
  address that will take it offline, stores of the parent that may do so by
  undoing CONNECT (`Debt`), and the one right to ask for a record, wherever it
  is (`Tokens`);
* `NoQuestionIsLost`: with room for 8 bytes and one for each disturbance the
  pipe never refuses a question or READ_ATTLOG, although nobody looks at the
  result of these writes. On the device it holds 65536, so the hypothesis is
  `CommandBound` <= 65528; a disturbance counts for good, also when the parent
  has long read what came of it. With room for two bytes TLC finds a question
  dropped and both threads waiting for ever.

Checked by TLC only is liveness under fairness (`EveryRecordArrives`, `WaitEnds`,
`ListArrives`, the fairness part of `ImplementsUploadLog`), which is out of the
prover's reach.

## 6. Not modelled

The repository has 160,000 lines, nearly all of them vendored libraries (LZO,
wireless tools, an MP3 decoder, speech, the window system), drivers, and
windows, option tables and locales of the user interface, with no state shared
between actors. Only a small share of the lines is therefore covered. In
particular:

* `push/http.c`, `tcp.c`, `3des.c`: the modules see attempts that fail or are
  answered, and keys that agree or not;
* the text commands of `cmd_get.c` and the other posting functions of
  `cmd_post.c`: their calls in `proc` (`pushsdk.c:836-878`) are commented out,
  nothing reaches them;
* faces, SMS, work codes, photos, extended users and the layout of templates;
* connection passwords, the event queue, serial lines and the remaining commands
  of the PC protocol;
* door sensors, alarms, relays, and how time zones and holidays are computed;
* the EM card, fingerprint and face sensors and matching.

## 7. Plan

1. Done: everything in sections 2, 3 and 5.
2. `CommSession`: passwords and the commands that read and write tables,
   composed with `UserTable`.
3. Time zones and holidays as functions, checked against a reference definition
   and used by `AccessControl` in place of inputs.
4. The packets of `fuliye.c` for address and parameters, and the resume state of
   the HTTP download.
