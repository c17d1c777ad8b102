------------------------- MODULE PushUpload_proofs -------------------------
(***************************************************************************)
(* Theorems about the upload, for every size of the store, number of        *)
(* attempts and supply of events.  The upload keeps its types and leaves the *)
(* store a store: every step is one of AttLog or leaves the store alone, so  *)
(* that what AttLog_proofs proves holds under the upload as well.  The last  *)
(* token is never lost; until the server calls by UDP there is exactly one,  *)
(* hence the threads never use attbuffer together and a packet carries a     *)
(* record.  As long as serials grow along the log, the records passed over   *)
(* are paid for one by one by what went wrong, the progress on flash is      *)
(* honest, and while nothing went wrong every step is one of UploadLog.      *)
(***************************************************************************)
EXTENDS PushUpload, AttLog_proofs, FiniteSetTheorems, FunctionTheorems,
        WellFoundedInduction

-----------------------------------------------------------------------------
(* The record FDB_GetAttByIndex returns.                                    *)

LEMMA FirstOf ==
  ASSUME NEW T \in SUBSET Nat, T # {}
  PROVE  \E x \in T : \A y \in T : x <= y
<1> DEFINE R == OpToRel(<, Nat)
<1>1. IsWellFoundedOn(R, Nat)
  BY NatLessThanWellFounded
<1>2. PICK x \in T : \A y \in T : ~(<<y, x>> \in R)
  BY <1>1, WFMin
<1>3. \A y \in T : ~(y < x)
  BY <1>2 DEF OpToRel
<1> QED
  BY <1>3

\* It lies past the position searched from, is a person's, and has a serial
\* above the count; the new position is its own.
LEMMA GetAttByIndexHit ==
  ASSUME NEW f \in Seq(Record), NEW fp \in Nat, NEW c \in Nat
  PROVE  LET hit == GetAttByIndex(f, fp, c)
         IN  /\ hit.found \in BOOLEAN /\ hit.fp \in Nat
             /\ hit.found => /\ hit.at \in fp + 1 .. Len(f) /\ hit.fp = hit.at
                             /\ f[hit.at] \in Record
                             /\ f[hit.at].staff /\ f[hit.at].idx > c
<1> DEFINE H == Hits(f, fp, c)
           first == CHOOSE i \in H : \A k \in H : i <= k
<1>1. H \in SUBSET (fp + 1 .. Len(f)) /\ H \in SUBSET Nat /\ Len(f) \in Nat
  BY DEF Hits
<1>2. CASE H = {}
  BY <1>1, <1>2 DEF GetAttByIndex
<1>3. CASE H # {}
  <2>1. first \in H
    <3>1. \E i \in H : \A k \in H : i <= k
      BY <1>1, <1>3, FirstOf
    <3> QED
      BY <3>1
  <2>2. GetAttByIndex(f, fp, c) = [found |-> TRUE, at |-> first, fp |-> first]
    BY <1>3 DEF GetAttByIndex
  <2>3. first \in fp + 1 .. Len(f) /\ first \in Nat /\ f[first].staff /\ f[first].idx > c
    BY <1>1, <2>1 DEF Hits
  <2>4. f[first] \in Record
    BY <2>3
  <2> HIDE DEF first
  <2> QED
    BY <2>2, <2>3, <2>4
<1> QED
  BY <1>2, <1>3

-----------------------------------------------------------------------------
(* The store under the upload.                                              *)

LEMMA StoreStep == [UNext]_allvars => [Next]_vars
<1> SUFFICES ASSUME [UNext]_allvars PROVE [Next]_vars
  OBVIOUS
<1>1. ASSUME NEW outcome \in WriteOutcomes,
             SaveRecord(outcome) \/ SaveCardRecord(outcome)
      PROVE  Next
  BY <1>1 DEF SaveRecord, SaveCardRecord, Next
<1>2. CASE Clear \/ ReloadData \/ Scan \/ Crash
  BY <1>2 DEF Clear, ReloadData, Scan, Crash, Next
<1>3. CASE \/ EnterMenu \/ LeaveMenu \/ ReInit \/ UdpCall
           \/ ParentStatus \/ ParentTake \/ ParentRead \/ ParentAnswer \/ ParentClose
  BY <1>3 DEF EnterMenu, LeaveMenu, ReInit, UdpCall, Interrupt, ParentStatus,
              ParentTake, ParentRead, ParentAnswer, ParentClose
<1>4. CASE ChildNext
  BY <1>4 DEF ChildNext, ChildInit, Nothing, FlagCommand, FromSvr, Swallow,
              SwallowEnd, PostAtt, TryFails, TryBadLength, TryAcked,
              SaveProgress, Posted, Reconnect, Paused, Heartbeat, PostDue, NotYet
<1>5. CASE UNCHANGED allvars
  BY <1>5 DEF allvars
<1> QED
  BY <1>1, <1>2, <1>3, <1>4, <1>5 DEF UNext, ParentNext

\* Whatever the upload does, the store behaves as AttLog: every theorem about
\* the store alone (order of serials, counter, capacity, what leaves the file)
\* holds while records are uploaded.
THEOREM StoreUnderUpload == USpec => Spec
<1>1. UInit => Init
  BY DEF UInit
<1> QED
  BY <1>1, StoreStep, PTL DEF USpec, Spec

-----------------------------------------------------------------------------
(* The types.  What several actions do to a variable, first.                *)

LEMMA SpendType ==
  ASSUME budget \in [Events -> Nat],
         UNCHANGED budget \/ \E event \in Events : Spend(event)
  PROVE  budget' \in [Events -> Nat]
<1>1. ASSUME NEW event \in Events, Spend(event) PROVE budget' \in [Events -> Nat]
  <2>1. budget[event] > 0 /\ budget[event] \in Nat
    BY <1>1 DEF Spend
  <2>2. budget' = [budget EXCEPT ![event] = budget[event] - 1]
    BY <1>1 DEF Spend
  <2> QED
    BY <2>1, <2>2
<1> QED
  BY <1>1

LEMMA TellType ==
  ASSUME toChild \in Seq(ParentCmds), NEW cmds \in Seq(ParentCmds), Tell(cmds)
  PROVE  toChild' \in Seq(ParentCmds)
<1>1. toChild \o cmds \in Seq(ParentCmds)
  OBVIOUS
<1> QED
  BY <1>1 DEF Tell

LEMMA StatusType ==
  ASSUME toParent \in Seq(ChildCmds), NEW s \in HeartbeatFailed
  PROVE  /\ s \in Seq(ChildCmds)
         /\ \A c \in ChildCmds : Append(s, c) \in Seq(ChildCmds)
<1>1. s = toParent \/ s = Append(toParent, "ONLINE")
  BY DEF HeartbeatFailed
<1>2. "ONLINE" \in ChildCmds
  BY DEF ChildCmds
<1> QED
  BY <1>1, <1>2, AppendProperties

LEMMA TailType ==
  ASSUME NEW S, NEW s \in Seq(S), s # <<>>
  PROVE  Tail(s) \in Seq(S) /\ Head(s) \in S
BY HeadTailProperties

\* The variables in groups, so that a step need only look at those it changes.
FlagsOK  == <<cmd, pause, connect, conType>> \in BOOLEAN \X BOOLEAN \X BOOLEAN \X BOOLEAN
CursorOK == /\ attbuffer \in Record /\ reclenght \in {0, 1}
            /\ currec \in Nat /\ curfp \in Nat
PipesOK  == toChild \in Seq(ParentCmds) /\ toParent \in Seq(ChildCmds)
BsAttOK  == bsatt \in [exists : BOOLEAN, currec : Nat, curfp : Nat]
ParentOK == /\ iclockState \in {"ONLINE", "OFFLINE"}
            /\ ppc \in {"idle", "reading", "answering", "closing", "loading"}
            /\ inMenu \in BOOLEAN
ChildOK  == cpc \in {"off", "top", "swallow", "post", "acked", "posted", "call", "due"}
PostOK   == /\ packet \in [rec : Record, count : {0, 1}]
            /\ j \in 0 .. Reposttime /\ fdatt \in BOOLEAN
GotOK    == /\ got \subseteq Nat
            /\ top \in Nat /\ reissued \in BOOLEAN /\ dropped \in Nat
BudgetOK == budget \in [Events -> Nat]

LEMMA Groups ==
  UploadTypeOK <=> /\ FlagsOK /\ gAttflag \in {0, 1} /\ CursorOK /\ PipesOK
                   /\ BsAttOK /\ ParentOK /\ ChildOK /\ PostOK /\ GotOK /\ BudgetOK
BY DEF UploadTypeOK, FlagsOK, CursorOK, PipesOK, BsAttOK, ParentOK, ChildOK,
       PostOK, GotOK, BudgetOK

-----------------------------------------------------------------------------
(* The types, step by step.                                                 *)

\* What the parent tells the child between two pipe commands: never that there
\* is a record to post, and FROM_SVR only when the server calls.
Quiet == ParentCmds \ {"POST_ATT"}

LEMMA IdleTells ==
  ASSUME UploadTypeOK,
         \/ \E outcome \in WriteOutcomes : SaveRecord(outcome) \/ SaveCardRecord(outcome)
         \/ Clear \/ ReloadData \/ Scan \/ EnterMenu \/ LeaveMenu \/ ReInit \/ UdpCall
  PROVE  \E cmds \in Seq(Quiet) :
           Tell(cmds) /\ (UdpCall \/ cmds \in Seq(Quiet \ {"FROM_SVR"}))
<1> DEFINE Q == Quiet \ {"FROM_SVR"}
<1>1. {"NEW_DATA", "RESET_DATA", "PAUSE", "RESUME", "RE_INIT"} \in SUBSET Q
  BY DEF Quiet, ParentCmds
<1>2. /\ <<>> \in Seq(Q)
      /\ \A c \in Q : <<c>> \in Seq(Q)
      /\ \A c, d \in Q : <<c, d>> \in Seq(Q)
      /\ \A a, b \in Seq(Q) : a \o b \in Seq(Q)
      /\ Seq(Q) \in SUBSET Seq(Quiet)
  BY EmptySeq
<1> HIDE DEF Q
<1>3. ASSUME NEW outcome \in WriteOutcomes, SaveRecord(outcome)
      PROVE  \E cmds \in Seq(Q) : Tell(cmds)
  <2>1. PICK alarm \in BOOLEAN :
          Tell((IF DropOld /\ alarm THEN <<"RESET_DATA">> ELSE <<>>) \o
               (IF ~Exceed /\ outcome # "failed" THEN <<"NEW_DATA">> ELSE <<>>))
    BY <1>3 DEF SaveRecord
  <2>2. /\ (IF DropOld /\ alarm THEN <<"RESET_DATA">> ELSE <<>>) \in Seq(Q)
        /\ (IF ~Exceed /\ outcome # "failed" THEN <<"NEW_DATA">> ELSE <<>>) \in Seq(Q)
    BY <1>1, <1>2
  <2> QED
    BY <1>2, <2>1, <2>2
<1>4. ASSUME NEW outcome \in WriteOutcomes, SaveCardRecord(outcome)
      PROVE  \E cmds \in Seq(Q) : Tell(cmds)
  BY <1>1, <1>2, <1>4 DEF SaveCardRecord
<1>5. CASE Clear \/ ReloadData \/ EnterMenu \/ LeaveMenu \/ ReInit
  <2>1. \E cmds \in {<<"RESET_DATA">>, <<"PAUSE">>, <<"RESUME", "NEW_DATA">>,
                     <<"RE_INIT">>} : Tell(cmds)
    BY <1>5 DEF Clear, ReloadData, EnterMenu, LeaveMenu, ReInit, Interrupt
  <2>2. {<<"RESET_DATA">>, <<"PAUSE">>, <<"RESUME", "NEW_DATA">>, <<"RE_INIT">>}
          \in SUBSET Seq(Q)
    BY <1>1, <1>2
  <2> QED
    BY <1>2, <2>1, <2>2 DEF Q
<1>6. CASE Scan
  <2>1. CASE toChild' = toChild
    <3>1. toChild \o <<>> = toChild
      BY Groups DEF PipesOK
    <3>2. Tell(<<>>)
      BY <2>1, <3>1 DEF Tell
    <3> QED
      BY <1>2, <3>2 DEF Q
  <2>2. CASE Tell(<<"RESUME">>)
    BY <1>1, <1>2, <2>2 DEF Q
  <2> QED
    BY <1>6, <2>1, <2>2 DEF Scan
<1>7. CASE UdpCall
  <2>1. Tell(<<"FROM_SVR">>)
    BY <1>7 DEF UdpCall, Interrupt
  <2>2. "FROM_SVR" \in Quiet
    BY DEF Quiet, ParentCmds
  <2>3. <<"FROM_SVR">> \in Seq(Quiet)
    BY <2>2
  <2> QED
    BY <1>7, <2>1, <2>3
<1> QED
  BY <1>2, <1>3, <1>4, <1>5, <1>6, <1>7 DEF Q

\* The capacity check takes records from the front or none.
LEMMA CheckedShape ==
  ASSUME TypeOK
  PROVE  /\ CheckedFile \in Seq(Record)
         /\ Len(file) - Len(CheckedFile) \in Nat
         /\ \A i \in 1 .. Len(CheckedFile) :
              CheckedFile[i] = file[i + (Len(file) - Len(CheckedFile))]
<1>1. file \in Seq(Record) /\ Len(file) \in Nat /\ DelRecord \in Nat
  BY DelRecordAssumption DEF TypeOK
<1>2. CASE CheckedFile = file
  BY <1>1, <1>2
<1>3. CASE CheckedFile # file
  <2>1. DelRecord < Len(file) /\ CheckedFile = DelHead(file, DelRecord)
    BY <1>1, <1>3, DelHeadFile DEF CheckedFile
  <2>2. /\ CheckedFile \in Seq(Record) /\ Len(CheckedFile) = Len(file) - DelRecord
        /\ \A i \in 1 .. Len(file) - DelRecord : CheckedFile[i] = file[i + DelRecord]
    BY <1>1, <2>1, DelHeadFile
  <2>3. Len(file) - Len(CheckedFile) = DelRecord
    BY <1>1, <2>2
  <2> QED
    BY <1>1, <2>2, <2>3
<1> QED
  BY <1>2, <1>3

\* The history of the log.
LEMMA GotStep ==
  ASSUME TypeOK, TypeOK', GotOK,
         \/ \E outcome \in WriteOutcomes : SaveRecord(outcome) \/ SaveCardRecord(outcome)
         \/ Clear \/ UNCHANGED past
  PROVE  UNCHANGED got \/ got' = {} => GotOK'
<1> SUFFICES ASSUME UNCHANGED got \/ got' = {} PROVE GotOK'
  OBVIOUS
<1>1. CASE UNCHANGED past
  BY <1>1 DEF past, GotOK
<1>2. CASE Clear
  BY <1>2 DEF Clear, GotOK
<1>3. ASSUME NEW outcome \in WriteOutcomes, SaveRecord(outcome) PROVE GotOK'
  <2>1. Serial \in Nat
    BY OptionAssumption DEF Serial, TypeOK
  <2>2. Len(file) \in Nat /\ Len(CheckedFile) \in Nat /\ Len(CheckedFile) <= Len(file)
    BY CheckedShape DEF TypeOK
  <2>3. dropped' = dropped + Len(file) - Len(CheckedFile) /\ dropped \in Nat
    BY <1>3 DEF SaveRecord, GotOK
  <2>5. dropped' \in Nat
    BY <2>2, <2>3
  <2>4. top' \in Nat /\ reissued' \in BOOLEAN
    BY <1>3, <2>1 DEF SaveRecord, GotOK, MaxOf
  <2> QED
    BY <2>4, <2>5 DEF GotOK
<1>4. ASSUME NEW outcome \in WriteOutcomes, SaveCardRecord(outcome) PROVE GotOK'
  BY <1>4 DEF SaveCardRecord, past, GotOK
<1> QED
  BY <1>1, <1>2, <1>3, <1>4

\* The parent between two pipe commands.
LEMMA ParentIdleTypes ==
  ASSUME TypeOK, TypeOK', UploadTypeOK,
         \/ \E outcome \in WriteOutcomes : SaveRecord(outcome) \/ SaveCardRecord(outcome)
         \/ Clear \/ ReloadData \/ Scan \/ EnterMenu \/ LeaveMenu \/ ReInit \/ UdpCall
  PROVE  UploadTypeOK'
<1>1. UNCHANGED <<flags, gAttflag, cursor, toParent, cpc, posting>>
  BY DEF SaveRecord, SaveCardRecord, Clear, ReloadData, Scan, EnterMenu,
         LeaveMenu, ReInit, UdpCall, Interrupt
<1>2. ParentOK'
  <2>1. ParentOK
    BY Groups
  <2> QED
    BY <2>1 DEF SaveRecord, SaveCardRecord, Clear, ReloadData, Scan, EnterMenu,
         LeaveMenu, ReInit, UdpCall, Interrupt, parent, ParentOK
<1>3. BsAttOK' /\ GotOK'
  <2>1. BsAttOK /\ GotOK
    BY Groups
  <2>2. NoBsAtt \in [exists : BOOLEAN, currec : Nat, curfp : Nat]
    BY DEF NoBsAtt
  <2>3. BsAttOK'
    BY <2>1, <2>2
       DEF SaveRecord, SaveCardRecord, Clear, ReloadData, Scan, EnterMenu,
           LeaveMenu, ReInit, UdpCall, Interrupt, BsAttOK
  <2>4. /\ UNCHANGED got \/ got' = {}
        /\ \/ \E outcome \in WriteOutcomes : SaveRecord(outcome) \/ SaveCardRecord(outcome)
           \/ Clear \/ UNCHANGED past
    BY DEF SaveRecord, SaveCardRecord, Clear, ReloadData, Scan, EnterMenu,
           LeaveMenu, ReInit, UdpCall, Interrupt
  <2> QED
    BY <2>1, <2>3, <2>4, GotStep
<1>4. BudgetOK'
  <2>1. UNCHANGED budget \/ \E event \in Events : Spend(event)
    BY DEF SaveRecord, SaveCardRecord, Clear, ReloadData, Scan, EnterMenu,
           LeaveMenu, ReInit, UdpCall, Interrupt, Events
  <2> QED
    BY <2>1, SpendType, Groups DEF BudgetOK
<1>5. toChild' \in Seq(ParentCmds)
  <2>1. PICK cmds \in Seq(Quiet) : Tell(cmds)
    BY IdleTells
  <2>2. cmds \in Seq(ParentCmds)
    BY DEF Quiet
  <2> QED
    BY <2>1, <2>2, TellType, Groups DEF PipesOK
<1>6. FlagsOK' /\ gAttflag' \in {0, 1} /\ CursorOK' /\ ChildOK' /\ PostOK'
  <2>1. FlagsOK /\ gAttflag \in {0, 1} /\ CursorOK /\ ChildOK /\ PostOK
    BY Groups
  <2> QED
    BY <1>1, <2>1 DEF FlagsOK, CursorOK, ChildOK, PostOK, flags, cursor, posting
<1>7. PipesOK'
  <2>1. toParent \in Seq(ChildCmds)
    BY Groups DEF PipesOK
  <2> QED
    BY <1>1, <1>5, <2>1 DEF PipesOK
<1>8. UploadTypeOK'
  BY <1>2, <1>3, <1>4, <1>6, <1>7
     DEF UploadTypeOK, FlagsOK, CursorOK, PipesOK, BsAttOK, ParentOK, ChildOK,
         PostOK, GotOK, BudgetOK
<1> QED
  BY <1>8

\* The parent answering the child.
LEMMA ParentAnswerTypes ==
  ASSUME TypeOK, UploadTypeOK,
         ParentStatus \/ ParentTake \/ ParentRead \/ ParentAnswer \/ ParentClose
  PROVE  UploadTypeOK'
<1>1. /\ FlagsOK /\ gAttflag \in {0, 1} /\ CursorOK /\ PipesOK
      /\ BsAttOK /\ ParentOK /\ ChildOK /\ PostOK /\ GotOK /\ BudgetOK
  BY Groups
<1>2. UNCHANGED <<pause, connect, conType, bsatt, inMenu, cpc, posting, got, past>>
  BY DEF ParentStatus, ParentTake, ParentRead, ParentAnswer, ParentClose, flags, parent
<1>3. BsAttOK' /\ ChildOK' /\ PostOK' /\ GotOK'
  BY <1>1, <1>2 DEF BsAttOK, ChildOK, PostOK, GotOK, posting, past
<1>4. FlagsOK'
  BY <1>1, <1>2
     DEF ParentStatus, ParentTake, ParentRead, ParentAnswer, ParentClose, flags, FlagsOK
<1>5. gAttflag' \in {0, 1}
  BY <1>1 DEF ParentStatus, ParentTake, ParentRead, ParentAnswer, ParentClose, AnswerFlag
<1>6. ParentOK'
  BY <1>1 DEF ParentStatus, ParentTake, ParentRead, ParentAnswer, ParentClose,
              parent, ParentOK
<1>7. BudgetOK'
  <2>1. UNCHANGED budget \/ \E event \in Events : Spend(event)
    BY DEF ParentStatus, ParentTake, ParentRead, ParentAnswer, ParentClose, Events
  <2> QED
    BY <1>1, <2>1, SpendType DEF BudgetOK
<1>8. PipesOK'
  <2>1. toChild \in Seq(ParentCmds) /\ toParent \in Seq(ChildCmds)
    BY <1>1 DEF PipesOK
  <2>2. CASE ParentStatus \/ ParentTake
    BY <2>1, <2>2, TailType DEF ParentStatus, ParentTake, PipesOK
  <2>3. CASE ParentRead \/ ParentClose
    BY <2>1, <2>3 DEF ParentRead, ParentClose, PipesOK
  <2>4. CASE ParentAnswer
    <3>1. "POST_ATT" \in ParentCmds
      BY DEF ParentCmds
    <3>2. (IF reclenght > 0 THEN <<"POST_ATT">> ELSE <<>>) \in Seq(ParentCmds)
      BY <3>1, EmptySeq
    <3>3. toParent' = toParent /\ toChild' \in Seq(ParentCmds)
      BY <2>1, <2>4, <3>2, TellType DEF ParentAnswer
    <3> QED
      BY <2>1, <3>3 DEF PipesOK
  <2> QED
    BY <2>2, <2>3, <2>4
<1>9. CursorOK'
  <2>1. CASE ParentStatus \/ ParentAnswer \/ ParentClose
    BY <1>1, <2>1 DEF ParentStatus, ParentAnswer, ParentClose, cursor, CursorOK
  <2>2. Zero \in Record
    BY DEF Zero, Hole, Record
  <2>3. CASE ParentTake
    BY <1>1, <2>2, <2>3 DEF ParentTake, CursorOK
  <2>4. CASE ParentRead
    <3> DEFINE hit == GetAttByIndex(file, curfp, currec)
    <3>1. file \in Seq(Record) /\ curfp \in Nat /\ currec \in Nat /\ attbuffer \in Record
      BY <1>1 DEF TypeOK, CursorOK
    <3>2. /\ hit.fp \in Nat
          /\ hit.found => file[hit.at] \in Record
      BY <3>1, GetAttByIndexHit
    <3>3. /\ curfp' = hit.fp /\ reclenght' = Length(hit) /\ UNCHANGED currec
          /\ \/ attbuffer' = IF hit.found THEN file[hit.at] ELSE attbuffer
             \/ attbuffer' = Zero
      BY <2>4 DEF ParentRead
    <3> HIDE DEF hit
    <3> QED
      BY <2>2, <3>1, <3>2, <3>3 DEF CursorOK, Length
  <2> QED
    BY <2>1, <2>3, <2>4
<1> QED
  BY <1>3, <1>4, <1>5, <1>6, <1>7, <1>8, <1>9
     DEF UploadTypeOK, FlagsOK, CursorOK, PipesOK, BsAttOK, ParentOK, ChildOK,
         PostOK, GotOK, BudgetOK

\* The child outside cache_att_to_svr.
LEMMA ChildTypes ==
  ASSUME UploadTypeOK,
         \/ ChildInit \/ Nothing \/ FlagCommand \/ FromSvr \/ Swallow \/ SwallowEnd
         \/ Reconnect \/ Paused \/ Heartbeat \/ PostDue \/ NotYet
  PROVE  UploadTypeOK'
<1>1. /\ FlagsOK /\ gAttflag \in {0, 1} /\ CursorOK /\ PipesOK
      /\ BsAttOK /\ ParentOK /\ ChildOK /\ PostOK /\ GotOK /\ BudgetOK
  BY Groups
<1>2. ParentOK' /\ PostOK' /\ GotOK'
  <2>1. UNCHANGED <<parent, posting, got, past>>
    BY DEF ChildInit, Nothing, FlagCommand, FromSvr, Swallow, SwallowEnd,
           Reconnect, Paused, Heartbeat, PostDue, NotYet
  <2> QED
    BY <1>1, <2>1 DEF ParentOK, PostOK, GotOK, parent, posting, past
<1>3. FlagsOK'
  <2>1. /\ cmd \in BOOLEAN /\ pause \in BOOLEAN
        /\ connect \in BOOLEAN /\ conType \in BOOLEAN
    BY <1>1 DEF FlagsOK
  <2>2. CASE ~FlagCommand /\ ~NotYet
    BY <2>1, <2>2 DEF ChildInit, Nothing, FromSvr, Swallow, SwallowEnd,
             Reconnect, Paused, Heartbeat, PostDue, flags, FlagsOK
  <2>3. CASE FlagCommand
    BY <2>1, <2>3 DEF FlagCommand, PauseAfter, FlagsOK
  <2>4. CASE NotYet
    BY <2>1, <2>4 DEF NotYet, FlagsOK
  <2> QED
    BY <2>2, <2>3, <2>4
<1>4. gAttflag' \in {0, 1} /\ ChildOK'
  BY <1>1 DEF ChildInit, Nothing, FlagCommand, FromSvr, Swallow, SwallowEnd,
              Reconnect, Paused, Heartbeat, PostDue, NotYet, ChildOK
<1>5. CursorOK' /\ BsAttOK'
  <2>1. CASE ChildInit
    <3>1. Zero \in Record
      BY DEF Zero, Hole, Record
    <3>2. bsatt' = [bsatt EXCEPT !.exists = TRUE]
      BY <2>1 DEF ChildInit
    <3>3. BsAttOK'
      BY <1>1, <3>2 DEF BsAttOK
    <3>4. currec' \in Nat /\ curfp' \in Nat /\ attbuffer' = Zero /\ reclenght' = 0
      BY <1>1, <2>1 DEF ChildInit, BsAttOK
    <3> QED
      BY <3>1, <3>3, <3>4 DEF CursorOK
  <2>2. CASE ~ChildInit
    <3>1. UNCHANGED <<cursor, bsatt>>
      BY <2>2 DEF Nothing, FlagCommand, FromSvr, Swallow, SwallowEnd,
                  Reconnect, Paused, Heartbeat, PostDue, NotYet
    <3> QED
      BY <1>1, <3>1 DEF CursorOK, BsAttOK, cursor
  <2> QED
    BY <2>1, <2>2
<1>6. PipesOK'
  <2>1. toChild \in Seq(ParentCmds) /\ toParent \in Seq(ChildCmds)
    BY <1>1 DEF PipesOK
  <2>2. toChild' \in Seq(ParentCmds)
    BY <2>1, TailType
       DEF ChildInit, Nothing, FlagCommand, FromSvr, Swallow, SwallowEnd,
           Reconnect, Paused, Heartbeat, PostDue, NotYet
  <2>3. toParent' \in Seq(ChildCmds)
    <3>1. {"ONLINE", "OFFLINE", "READ_ATTLOG"} \in SUBSET ChildCmds
      BY DEF ChildCmds
    <3>2. toParent \in HeartbeatFailed /\ Append(toParent, "ONLINE") \in HeartbeatFailed
      BY DEF HeartbeatFailed
    <3>3. \/ toParent' \in HeartbeatFailed
          \/ toParent' \in {Append(s, "OFFLINE") : s \in HeartbeatFailed}
          \/ toParent' = Append(toParent, "READ_ATTLOG")
      BY <3>2 DEF ChildInit, Nothing, FlagCommand, FromSvr, Swallow, SwallowEnd,
             Reconnect, Paused, Heartbeat, PostDue, NotYet
    <3> QED
      BY <2>1, <3>1, <3>2, <3>3, StatusType
  <2> QED
    BY <2>2, <2>3 DEF PipesOK
<1>7. BudgetOK'
  <2>1. UNCHANGED budget \/ \E event \in Events : Spend(event)
    BY DEF ChildInit, Nothing, FlagCommand, FromSvr, Swallow, SwallowEnd,
           Reconnect, Paused, Heartbeat, PostDue, NotYet, Events
  <2> QED
    BY <1>1, <2>1, SpendType DEF BudgetOK
<1> QED
  BY <1>2, <1>3, <1>4, <1>5, <1>6, <1>7
     DEF UploadTypeOK, FlagsOK, CursorOK, PipesOK, BsAttOK, ParentOK, ChildOK,
         PostOK, GotOK, BudgetOK

\* The child inside cache_att_to_svr.
LEMMA PostTypes ==
  ASSUME UploadTypeOK,
         PostAtt \/ TryFails \/ TryBadLength \/ TryAcked \/ SaveProgress \/ Posted
  PROVE  UploadTypeOK'
<1>1. /\ FlagsOK /\ gAttflag \in {0, 1} /\ CursorOK /\ PipesOK
      /\ BsAttOK /\ ParentOK /\ ChildOK /\ PostOK /\ GotOK /\ BudgetOK
  BY Groups
<1>2. Zero \in Record
  BY DEF Zero, Hole, Record
<1>3. FlagsOK' /\ gAttflag' \in {0, 1} /\ ChildOK' /\ ParentOK'
  <2>1. /\ cmd \in BOOLEAN /\ pause \in BOOLEAN
        /\ connect \in BOOLEAN /\ conType \in BOOLEAN
    BY <1>1 DEF FlagsOK
  <2>2. /\ cmd' \in BOOLEAN /\ UNCHANGED <<pause, connect, conType>>
        /\ UNCHANGED parent /\ ChildOK'
    BY <2>1 DEF PostAtt, TryFails, TryBadLength, TryAcked, SaveProgress, Posted,
                EndPost, flags, ChildOK
  <2>3. gAttflag' \in {0, 1}
    BY <1>1 DEF PostAtt, TryFails, TryBadLength, TryAcked, SaveProgress, Posted, EndPost
  <2> QED
    BY <1>1, <2>1, <2>2, <2>3 DEF FlagsOK, ParentOK, parent
<1>4. GotOK'
  <2>1. Stored \in SUBSET Nat
    BY <1>1 DEF Stored, GotOK, PostOK, Record
  <2> QED
    BY <1>1, <2>1 DEF PostAtt, TryFails, TryBadLength, TryAcked, SaveProgress, Posted,
                      GotOK, past
<1>5. PostOK'
  <2>1. NoPacket \in [rec : Record, count : {0, 1}]
    BY <1>2 DEF NoPacket
  <2>2. 0 \in 0 .. Reposttime /\ Reposttime \in Nat
    BY ReposttimeAssumption
  <2>3. packet' \in [rec : Record, count : {0, 1}]
    BY <1>1, <2>1 DEF PostAtt, TryFails, TryBadLength, TryAcked, SaveProgress,
                      Posted, EndPost, posting, PostOK, CursorOK
  <2>4. j' \in 0 .. Reposttime
    BY <1>1, <2>2 DEF PostAtt, TryFails, TryBadLength, TryAcked, SaveProgress,
                      Posted, EndPost, posting, PostOK
  <2>5. fdatt' \in BOOLEAN
    BY <1>1 DEF PostAtt, TryFails, TryBadLength, TryAcked, SaveProgress,
                Posted, EndPost, posting, PostOK, BsAttOK
  <2> QED
    BY <2>3, <2>4, <2>5 DEF PostOK
<1>6. CursorOK' /\ BsAttOK'
  <2>1. CASE PostAtt \/ TryFails \/ TryBadLength \/ Posted
    BY <1>1, <2>1 DEF PostAtt, TryFails, TryBadLength, Posted, CursorOK, BsAttOK, cursor
  <2>2. CASE TryAcked
    <3>1. currec + packet.count \in Nat
      BY <1>1 DEF CursorOK, PostOK
    <3> QED
      BY <1>1, <1>2, <2>2, <3>1 DEF TryAcked, CursorOK, BsAttOK
  <2>3. CASE SaveProgress
    BY <1>1, <2>3 DEF SaveProgress, CursorOK, BsAttOK, cursor
  <2> QED
    BY <2>1, <2>2, <2>3
<1>7. PipesOK'
  <2>1. toChild \in Seq(ParentCmds) /\ toParent \in Seq(ChildCmds)
    BY <1>1 DEF PipesOK
  <2>2. toChild' \in Seq(ParentCmds)
    BY <2>1, TailType
       DEF PostAtt, TryFails, TryBadLength, TryAcked, SaveProgress, Posted
  <2>3. toParent' = toParent \/ toParent' = Append(toParent, "OFFLINE")
    BY DEF PostAtt, TryFails, TryBadLength, TryAcked, SaveProgress, Posted
  <2>4. "OFFLINE" \in ChildCmds
    BY DEF ChildCmds
  <2>5. toParent' \in Seq(ChildCmds)
    BY <2>1, <2>3, <2>4, AppendProperties
  <2> QED
    BY <2>2, <2>5 DEF PipesOK
<1>8. BudgetOK'
  <2>1. UNCHANGED budget \/ \E event \in Events : Spend(event)
    BY DEF PostAtt, TryFails, TryBadLength, TryAcked, SaveProgress, Posted, Events
  <2> QED
    BY <1>1, <2>1, SpendType DEF BudgetOK
<1> QED
  BY <1>3, <1>4, <1>5, <1>6, <1>7, <1>8
     DEF UploadTypeOK, FlagsOK, CursorOK, PipesOK, BsAttOK, ParentOK, ChildOK,
         PostOK, GotOK, BudgetOK

LEMMA CrashTypes ==
  ASSUME UploadTypeOK, Crash
  PROVE  UploadTypeOK'
<1>1. BsAttOK /\ GotOK /\ BudgetOK
  BY Groups
<1>2. Zero \in Record
  BY DEF Zero, Hole, Record
<1>3. BudgetOK'
  <2>1. \E event \in Events : Spend(event)
    BY DEF Crash, Events
  <2> QED
    BY <1>1, <2>1, SpendType DEF BudgetOK
<1>4. BsAttOK' /\ GotOK'
  BY <1>1 DEF Crash, BsAttOK, GotOK, past
<1>5. PipesOK'
  BY EmptySeq DEF Crash, PipesOK
<1>6. CursorOK' /\ PostOK'
  <2>1. CursorOK'
    BY <1>2 DEF Crash, CursorOK
  <2>2. NoPacket \in [rec : Record, count : {0, 1}]
    BY <1>2 DEF NoPacket
  <2>3. packet' = NoPacket /\ j' = 0 /\ fdatt' = FALSE
    BY DEF Crash
  <2>4. j' \in 0 .. Reposttime
    BY <2>3, ReposttimeAssumption
  <2>5. fdatt' \in BOOLEAN
    BY <2>3
  <2> QED
    BY <2>1, <2>2, <2>3, <2>4, <2>5 DEF PostOK
<1>7. FlagsOK' /\ gAttflag' \in {0, 1} /\ ParentOK' /\ ChildOK'
  BY DEF Crash, FlagsOK, ParentOK, ChildOK
<1> QED
  BY <1>3, <1>4, <1>5, <1>6, <1>7
     DEF UploadTypeOK, FlagsOK, CursorOK, PipesOK, BsAttOK, ParentOK, ChildOK,
         PostOK, GotOK, BudgetOK

LEMMA UploadTypeStep ==
  TypeOK /\ TypeOK' /\ UploadTypeOK /\ [UNext]_allvars => UploadTypeOK'
<1> SUFFICES ASSUME TypeOK, TypeOK', UploadTypeOK, [UNext]_allvars PROVE UploadTypeOK'
  OBVIOUS
<1>1. CASE ParentNext
  BY <1>1, ParentIdleTypes, ParentAnswerTypes DEF ParentNext
<1>2. CASE ChildNext
  BY <1>2, ChildTypes, PostTypes DEF ChildNext
<1>3. CASE Crash
  BY <1>3, CrashTypes
<1>4. CASE UNCHANGED allvars
  BY <1>4 DEF allvars, uvars, flags, cursor, posting, parent, past,
                   UploadTypeOK
<1> QED
  BY <1>1, <1>2, <1>3, <1>4 DEF UNext

LEMMA UploadTypeInit == UInit => UploadTypeOK
<1> SUFFICES ASSUME UInit PROVE UploadTypeOK
  OBVIOUS
<1>1. Zero \in Record
  BY DEF Zero, Hole, Record
<1>2. PipesOK
  BY EmptySeq DEF UInit, PipesOK
<1>3. CursorOK /\ PostOK
  <2>1. CursorOK
    BY <1>1 DEF UInit, CursorOK
  <2>2. NoPacket \in [rec : Record, count : {0, 1}]
    BY <1>1 DEF NoPacket
  <2>3. packet = NoPacket /\ j = 0 /\ fdatt = FALSE
    BY DEF UInit
  <2>4. j \in 0 .. Reposttime
    BY <2>3, ReposttimeAssumption
  <2>5. fdatt \in BOOLEAN
    BY <2>3
  <2> QED
    BY <2>1, <2>2, <2>3, <2>4, <2>5 DEF PostOK
<1>4. FlagsOK /\ gAttflag \in {0, 1} /\ ParentOK /\ ChildOK
  BY DEF UInit, FlagsOK, ParentOK, ChildOK
<1>5. BsAttOK /\ GotOK /\ BudgetOK
  BY BudgetAssumption DEF UInit, BsAttOK, GotOK, BudgetOK, NoBsAtt
<1> QED
  BY <1>2, <1>3, <1>4, <1>5, Groups

\* The flags, the pipes, the buffer, the progress and the packet keep their
\* types in every behaviour of the two threads; in particular the buffer never
\* holds more than one record, and no attempt is made beyond Reposttime.
THEOREM UploadTypes == USpec => []UploadTypeOK
BY StoreUnderUpload, TypeCorrect, UploadTypeInit, UploadTypeStep, PTL DEF USpec


-----------------------------------------------------------------------------
(* How often a command is in a pipe.                                        *)

Where(s, m) == {i \in 1 .. Len(s) : s[i] = m}

LEMMA WhereFinite ==
  ASSUME NEW S, NEW s \in Seq(S), NEW m
  PROVE  /\ IsFiniteSet(Where(s, m))
         /\ Count(s, m) = Cardinality(Where(s, m))
         /\ Count(s, m) \in Nat
<1>1. IsFiniteSet(1 .. Len(s)) /\ Where(s, m) \in SUBSET (1 .. Len(s))
  BY FS_Interval DEF Where
<1>2. IsFiniteSet(Where(s, m))
  BY <1>1, FS_Subset
<1>3. Count(s, m) = Cardinality(Where(s, m))
  BY DEF Count, Where
<1> QED
  BY <1>2, <1>3, FS_CardinalityType

LEMMA CountEmpty == ASSUME NEW m PROVE Count(<<>>, m) = 0
<1>1. Where(<<>>, m) = {}
  BY DEF Where
<1> QED
  BY <1>1, FS_EmptySet DEF Count, Where

\* Appending a command counts it, and no other.
LEMMA CountAppend ==
  ASSUME NEW S, NEW s \in Seq(S), NEW c \in S, NEW m
  PROVE  Count(Append(s, c), m) = Count(s, m) + (IF c = m THEN 1 ELSE 0)
<1> DEFINE t == Append(s, c)
<1>1. /\ t \in Seq(S) /\ Len(t) = Len(s) + 1 /\ t[Len(s) + 1] = c
      /\ \A i \in 1 .. Len(s) : t[i] = s[i]
      /\ Len(s) \in Nat
  BY AppendProperties
<1>2. Where(t, m) = IF c = m THEN Where(s, m) \cup {Len(s) + 1} ELSE Where(s, m)
  BY <1>1 DEF Where
<1>3. Len(s) + 1 \notin Where(s, m)
  BY <1>1 DEF Where
<1>4. Cardinality(Where(s, m) \cup {Len(s) + 1}) = Cardinality(Where(s, m)) + 1
  BY <1>3, WhereFinite, FS_AddElement
<1>5. Count(t, m) = Cardinality(Where(t, m)) /\ Count(s, m) = Cardinality(Where(s, m))
      /\ Count(s, m) \in Nat
  BY <1>1, WhereFinite
<1> QED
  BY <1>2, <1>4, <1>5

\* Reading a command takes it out of the count, and no other.
LEMMA CountTail ==
  ASSUME NEW S, NEW s \in Seq(S), s # <<>>, NEW m
  PROVE  /\ Tail(s) \in Seq(S)
         /\ Count(s, m) = Count(Tail(s), m) + (IF Head(s) = m THEN 1 ELSE 0)
<1> DEFINE t == Tail(s)
           F == [i \in Where(t, m) |-> i + 1]
           R == Where(s, m) \ {1}
<1>1. /\ t \in Seq(S) /\ Len(t) = Len(s) - 1 /\ Len(t) \in Nat /\ Len(s) \in Nat
      /\ \A i \in 1 .. Len(t) : t[i] = s[i + 1]
  BY HeadTailProperties
<1>2. F \in Bijection(Where(t, m), R)
  <2>1. F \in [Where(t, m) -> R]
    BY <1>1 DEF Where
  <2>2. \A a, b \in Where(t, m) : F[a] = F[b] => a = b
    BY <1>1 DEF Where
  <2>3. \A u \in R : \E a \in Where(t, m) : F[a] = u
    <3> SUFFICES ASSUME NEW u \in R PROVE \E a \in Where(t, m) : F[a] = u
      OBVIOUS
    <3>1. u - 1 \in Where(t, m)
      BY <1>1 DEF Where
    <3> WITNESS u - 1 \in Where(t, m)
    <3> QED
      BY <1>1, <3>1 DEF Where
  <2> QED
    BY <2>1, <2>2, <2>3, Fun_IsBij
<1>3. Cardinality(R) = Cardinality(Where(t, m))
  BY <1>1, <1>2, WhereFinite, FS_Bijection DEF ExistsBijection
<1>4. 1 \in Where(s, m) <=> Head(s) = m
  BY <1>1 DEF Where
<1>5. Cardinality(R) = IF 1 \in Where(s, m) THEN Cardinality(Where(s, m)) - 1
                       ELSE Cardinality(Where(s, m))
  BY WhereFinite, FS_RemoveElement
<1>6. Count(t, m) = Cardinality(Where(t, m)) /\ Count(t, m) \in Nat
  BY <1>1, WhereFinite
<1>7. Count(s, m) = Cardinality(Where(s, m)) /\ Count(s, m) \in Nat
  BY WhereFinite
<1> HIDE DEF t, F, R
<1> QED
  BY <1>1, <1>3, <1>4, <1>5, <1>6, <1>7 DEF t

LEMMA CountLess ==
  ASSUME NEW S, NEW s \in Seq(S), s # <<>>, NEW m
  PROVE  Count(Tail(s), m) <= Count(s, m)
<1>1. /\ Count(Tail(s), m) \in Nat
      /\ \/ Count(s, m) = Count(Tail(s), m) + 1
         \/ Count(s, m) = Count(Tail(s), m) + 0
  BY CountTail, WhereFinite
<1> QED
  BY <1>1

-----------------------------------------------------------------------------
(* The five places of the token.                                            *)

Asked    == Count(toParent, "READ_ATTLOG")
Answered == Count(toChild, "POST_ATT")
Reading  == IF ppc \in {"reading", "answering"} THEN 1 ELSE 0
Sending  == IF cpc \in {"post", "acked", "posted"} THEN 1 ELSE 0

LEMMA Places ==
  ASSUME UploadTypeOK
  PROVE  /\ gAttflag \in {0, 1} /\ Asked \in Nat /\ Answered \in Nat
         /\ Reading \in {0, 1} /\ Sending \in {0, 1}
         /\ Tokens = gAttflag + Asked + Answered + Reading + Sending
<1>1. gAttflag \in {0, 1} /\ Asked \in Nat /\ Answered \in Nat
  BY WhereFinite DEF UploadTypeOK, Asked, Answered
<1> QED
  BY <1>1 DEF Tokens, Asked, Answered, Reading, Sending

\* The same after a step.
LEMMA PlacesNext ==
  ASSUME UploadTypeOK'
  PROVE  /\ gAttflag' \in {0, 1} /\ Asked' \in Nat /\ Answered' \in Nat
         /\ Reading' \in {0, 1} /\ Sending' \in {0, 1}
         /\ Tokens' = gAttflag' + Asked' + Answered' + Reading' + Sending'
<1>1. gAttflag' \in {0, 1} /\ Asked' \in Nat /\ Answered' \in Nat
  BY WhereFinite DEF UploadTypeOK, Asked, Answered
<1> QED
  BY <1>1 DEF Tokens, Asked, Answered, Reading, Sending

\* A step that moves a token, or none, keeps their number.
LEMMA TokenMoves ==
  ASSUME UploadTypeOK, UploadTypeOK',
         gAttflag' + Asked' + Answered' + Reading' + Sending'
           = gAttflag + Asked + Answered + Reading + Sending
  PROVE  Tokens' = Tokens
BY Places, PlacesNext

-----------------------------------------------------------------------------
(* The steps that keep the number of tokens: the parent.                    *)

\* Commands other than POST_ATT leave the answers in the pipe as they are.
LEMMA TellQuiet ==
  ASSUME toChild \in Seq(ParentCmds), NEW cmds \in Seq(Quiet), Tell(cmds)
  PROVE  Answered' = Answered
<1>1. CASE toChild' = toChild
  BY <1>1 DEF Answered
<1>2. CASE toChild' = toChild \o cmds
  <2>1. cmds \in Seq(ParentCmds) /\ \A i \in 1 .. Len(cmds) : cmds[i] # "POST_ATT"
    BY DEF Quiet
  <2>2. toChild \o cmds \in Seq(ParentCmds)
    BY <2>1
  <2>3. Where(toChild \o cmds, "POST_ATT") = Where(toChild, "POST_ATT")
    BY <2>1 DEF Where
  <2>4. /\ Count(toChild \o cmds, "POST_ATT")
             = Cardinality(Where(toChild \o cmds, "POST_ATT"))
        /\ Count(toChild, "POST_ATT") = Cardinality(Where(toChild, "POST_ATT"))
    BY <2>2, WhereFinite
  <2> QED
    BY <1>2, <2>3, <2>4 DEF Answered
<1> QED
  BY <1>1, <1>2 DEF Tell

LEMMA ParentIdleTokens ==
  ASSUME UploadTypeOK, UploadTypeOK',
         \/ \E outcome \in WriteOutcomes : SaveRecord(outcome) \/ SaveCardRecord(outcome)
         \/ Clear \/ ReloadData \/ Scan \/ EnterMenu \/ LeaveMenu \/ ReInit \/ UdpCall
  PROVE  Tokens' = Tokens /\ cpc' = cpc
<1>1. UNCHANGED <<gAttflag, toParent, cpc>> /\ Reading' = Reading
  BY DEF SaveRecord, SaveCardRecord, Clear, ReloadData, Scan, EnterMenu,
         LeaveMenu, ReInit, UdpCall, Interrupt, ParentIdle, cursor, parent, Reading
<1>2. Answered' = Answered
  <2>1. toChild \in Seq(ParentCmds)
    BY DEF UploadTypeOK
  <2> QED
    BY <2>1, IdleTells, TellQuiet
<1>3. Asked' = Asked /\ Sending' = Sending
  BY <1>1 DEF Asked, Sending
<1> QED
  BY <1>1, <1>2, <1>3, TokenMoves

LEMMA ParentReadsTokens ==
  ASSUME UploadTypeOK, UploadTypeOK',
         ParentStatus \/ ParentTake \/ ParentRead \/ ParentClose
  PROVE  Tokens' = Tokens /\ cpc' = cpc
<1>1. UNCHANGED <<gAttflag, toChild, cpc>>
  BY DEF ParentStatus, ParentTake, ParentRead, ParentClose
<1>2. Answered' = Answered /\ Sending' = Sending
  BY <1>1 DEF Answered, Sending
<1>3. /\ gAttflag \in {0, 1} /\ Asked \in Nat /\ Answered \in Nat
      /\ Sending \in {0, 1} /\ Asked' \in Nat
  BY Places, PlacesNext
<1>4. CASE ParentRead \/ ParentClose
  <2>1. Asked' = Asked /\ Reading' = Reading
    BY <1>4 DEF ParentRead, ParentClose, Asked, Reading
  <2> QED
    BY <1>1, <1>2, <2>1, TokenMoves
<1>5. CASE ParentStatus \/ ParentTake
  <2>1. toParent \in Seq(ChildCmds) /\ toParent # <<>> /\ toParent' = Tail(toParent)
    BY <1>5 DEF ParentStatus, ParentTake, UploadTypeOK
  <2>2. Asked = Asked' + (IF Head(toParent) = "READ_ATTLOG" THEN 1 ELSE 0)
    BY <2>1, CountTail DEF Asked
  <2>3. CASE ParentStatus
    <3>1. Head(toParent) # "READ_ATTLOG" /\ Reading' = Reading
      BY <2>3 DEF ParentStatus, Reading
    <3>2. Asked = Asked' + 0
      BY <2>2, <3>1
    <3> HIDE DEF Asked
    <3> QED
      BY <1>1, <1>2, <1>3, <3>1, <3>2, Places, TokenMoves
  <2>4. CASE ParentTake
    <3>1. Head(toParent) = "READ_ATTLOG" /\ Reading = 0 /\ Reading' = 1
      BY <2>4 DEF ParentTake, ParentIdle, Reading
    <3>2. Asked = Asked' + 1
      BY <2>2, <3>1
    <3> QED
      BY <1>1, <1>2, <1>3, <3>1, <3>2, TokenMoves
  <2> QED
    BY <1>5, <2>3, <2>4
<1> QED
  BY <1>1, <1>4, <1>5

\* The answer: a record to post, or the right to ask goes back to the child.
\* (If the child may ask already, the right given back adds nothing to it.)
LEMMA ParentAnswerTokens ==
  ASSUME UploadTypeOK, UploadTypeOK', ParentAnswer, cpc # "off"
  PROVE  /\ cpc' = cpc /\ Tokens' >= 1
         /\ gAttflag = 0 => Tokens' = Tokens
<1>1. cpc' = cpc /\ UNCHANGED toParent /\ Reading = 1 /\ Reading' = 0
  BY DEF ParentAnswer, Reading
<1>2. Asked' = Asked /\ Sending' = Sending
  BY <1>1 DEF Asked, Sending
<1>3. /\ gAttflag \in {0, 1} /\ Asked \in Nat /\ Answered \in Nat
      /\ Sending \in {0, 1} /\ reclenght \in {0, 1}
  BY Places DEF UploadTypeOK
<1>4. toChild \in Seq(ParentCmds) /\ "POST_ATT" \in ParentCmds
  BY DEF UploadTypeOK, ParentCmds
<1>5. CASE reclenght = 0
  <2>1. gAttflag' = 1
    BY <1>5 DEF ParentAnswer, AnswerFlag
  <2>2. toChild' = toChild
    BY <1>4, <1>5 DEF ParentAnswer, Tell
  <2>3. Answered' = Answered
    BY <2>2 DEF Answered
  <2> QED
    BY <1>1, <1>2, <1>3, <2>1, <2>3, Places, PlacesNext
<1>6. CASE reclenght = 1
  <2>1. gAttflag' = gAttflag /\ toChild' = toChild \o <<"POST_ATT">>
    BY <1>6 DEF ParentAnswer, AnswerFlag, Tell
  <2>2. toChild' = Append(toChild, "POST_ATT")
    BY <1>4, <2>1
  <2>3. Answered' = Answered + 1
    BY <1>4, <2>2, CountAppend DEF Answered
  <2> QED
    BY <1>1, <1>2, <1>3, <2>1, <2>3, Places, PlacesNext
<1> QED
  BY <1>3, <1>5, <1>6

-----------------------------------------------------------------------------
(* The child.                                                               *)

\* What a heartbeat leaves in the pipe.
LEMMA HeartbeatQuiet ==
  ASSUME toParent \in Seq(ChildCmds), NEW s,
         \/ s \in HeartbeatFailed
         \/ s \in {Append(t, "OFFLINE") : t \in HeartbeatFailed}
  PROVE  Count(s, "READ_ATTLOG") = Asked
<1>1. {"ONLINE", "OFFLINE"} \in SUBSET ChildCmds
  BY DEF ChildCmds
<1>2. ASSUME NEW t \in Seq(ChildCmds), NEW c \in {"ONLINE", "OFFLINE"}
      PROVE  Count(Append(t, c), "READ_ATTLOG") = Count(t, "READ_ATTLOG")
  <2>1. Count(Append(t, c), "READ_ATTLOG") = Count(t, "READ_ATTLOG") + 0
    BY <1>1, CountAppend
  <2>2. Count(t, "READ_ATTLOG") \in Nat
    BY WhereFinite
  <2> QED
    BY <2>1, <2>2
<1>3. ASSUME NEW t \in HeartbeatFailed
      PROVE  t \in Seq(ChildCmds) /\ Count(t, "READ_ATTLOG") = Asked
  BY <1>2, StatusType DEF HeartbeatFailed, Asked
<1>4. ASSUME NEW t \in HeartbeatFailed, s = Append(t, "OFFLINE")
      PROVE  Count(s, "READ_ATTLOG") = Asked
  BY <1>2, <1>3, <1>4
<1> QED
  BY <1>3, <1>4

LEMMA ChildQuietTokens ==
  ASSUME UploadTypeOK, UploadTypeOK',
         \/ Nothing \/ SwallowEnd \/ Reconnect \/ Paused \/ Heartbeat \/ NotYet
         \/ TryFails \/ TryAcked \/ SaveProgress
  PROVE  Tokens' = Tokens /\ cpc # "off"
<1>1. UNCHANGED <<gAttflag, toChild, ppc>> /\ cpc # "off" /\ Sending' = Sending
  BY DEF Nothing, SwallowEnd, Reconnect, Paused, Heartbeat, NotYet, Online,
         TryFails, TryAcked, SaveProgress, parent, Sending
<1>2. Answered' = Answered /\ Reading' = Reading
  BY <1>1 DEF Answered, Reading
<1>3. Asked' = Asked
  <2>1. toParent \in Seq(ChildCmds)
    BY DEF UploadTypeOK
  <2>2. toParent \in HeartbeatFailed /\ Append(toParent, "ONLINE") \in HeartbeatFailed
    BY DEF HeartbeatFailed
  <2>3. \/ toParent' \in HeartbeatFailed
        \/ toParent' \in {Append(t, "OFFLINE") : t \in HeartbeatFailed}
    BY <2>2 DEF Nothing, SwallowEnd, Reconnect, Paused, Heartbeat, NotYet,
                TryFails, TryAcked, SaveProgress
  <2>4. Count(toParent', "READ_ATTLOG") = Asked
    BY <2>1, <2>3, HeartbeatQuiet
  <2> QED
    BY <2>4 DEF Asked
<1> QED
  BY <1>1, <1>2, <1>3, TokenMoves

\* A command is read: a token moves with POST_ATT only.  PostAtt itself reads
\* POST_ATT, except at the end of the FROM_SVR loop.
LEMMA ChildReadsTokens ==
  ASSUME UploadTypeOK, UploadTypeOK',
         FlagCommand \/ FromSvr \/ Swallow \/ (PostAtt /\ cpc # "swallow")
  PROVE  Tokens' = Tokens /\ cpc # "off"
<1>1. /\ UNCHANGED <<gAttflag, toParent, ppc>> /\ cpc # "off" /\ Sending = 0
      /\ toChild # <<>> /\ toChild' = Tail(toChild) /\ toChild \in Seq(ParentCmds)
  BY DEF FlagCommand, FromSvr, Swallow, PostAtt, parent, Sending, UploadTypeOK
<1>2. Asked' = Asked /\ Reading' = Reading
  BY <1>1 DEF Asked, Reading
<1>3. Answered = Answered' + (IF Head(toChild) = "POST_ATT" THEN 1 ELSE 0)
  BY <1>1, CountTail DEF Answered
<1>4. /\ gAttflag \in {0, 1} /\ Asked \in Nat /\ Answered \in Nat
      /\ Reading \in {0, 1} /\ Answered' \in Nat
  BY Places, PlacesNext
<1>5. CASE FlagCommand \/ FromSvr \/ Swallow
  <2>1. Head(toChild) # "POST_ATT" /\ Sending' = 0
    BY <1>5 DEF FlagCommand, FromSvr, Swallow, Sending
  <2>2. Answered = Answered' + 0
    BY <1>3, <2>1
  <2> QED
    BY <1>1, <1>2, <1>4, <2>1, <2>2, TokenMoves
<1>6. CASE PostAtt /\ cpc # "swallow"
  <2>1. Head(toChild) = "POST_ATT" /\ Sending' = 1
    BY <1>6 DEF PostAtt, Sending
  <2>2. Answered = Answered' + 1
    BY <1>3, <2>1
  <2> QED
    BY <1>1, <1>2, <1>4, <2>1, <2>2, TokenMoves
<1> QED
  BY <1>5, <1>6

\* The child asks: its right becomes the question in the pipe.
LEMMA PostDueTokens ==
  ASSUME UploadTypeOK, UploadTypeOK', PostDue
  PROVE  Tokens' = Tokens /\ cpc # "off"
<1>1. UNCHANGED <<toChild, ppc>> /\ cpc # "off" /\ Sending = 0 /\ Sending' = 0
  BY DEF PostDue, Online, parent, Sending
<1>2. Answered' = Answered /\ Reading' = Reading
  BY <1>1 DEF Answered, Reading
<1>3. CASE UNCHANGED <<gAttflag, toParent>>
  <2>1. Asked' = Asked
    BY <1>3 DEF Asked
  <2> QED
    BY <1>1, <1>2, <1>3, <2>1, TokenMoves
<1>4. CASE Due /\ gAttflag' = 0 /\ toParent' = Append(toParent, "READ_ATTLOG")
  <2>1. "READ_ATTLOG" \in ChildCmds /\ toParent \in Seq(ChildCmds)
    BY DEF ChildCmds, UploadTypeOK
  <2>2. Asked' = Asked + 1
    BY <1>4, <2>1, CountAppend DEF Asked
  <2>3. gAttflag = 1
    BY <1>4 DEF Due
  <2>4. Asked \in Nat /\ Answered \in Nat /\ Reading \in {0, 1}
    BY Places
  <2> QED
    BY <1>1, <1>2, <1>4, <2>2, <2>3, <2>4, TokenMoves
<1> QED
  BY <1>1, <1>3, <1>4 DEF PostDue

\* The end of an upload: the token the child held is its right again.
LEMMA EndPostTokens ==
  ASSUME UploadTypeOK, UploadTypeOK', TryBadLength \/ Posted
  PROVE  /\ cpc # "off" /\ Tokens' >= 1
         /\ gAttflag = 0 => Tokens' = Tokens
<1>1. /\ gAttflag' = 1 /\ cpc \in {"post", "posted"} /\ cpc' = "call"
      /\ UNCHANGED <<toChild, ppc>>
  BY DEF TryBadLength, Posted, EndPost, parent
<1>2. /\ Sending = 1 /\ Sending' = 0 /\ Answered' = Answered /\ Reading' = Reading
  BY <1>1 DEF Sending, Answered, Reading
<1>3. Asked' = Asked
  <2>1. toParent \in Seq(ChildCmds) /\ "OFFLINE" \in ChildCmds
    BY DEF UploadTypeOK, ChildCmds
  <2>2. CASE toParent' = toParent
    BY <2>2 DEF Asked
  <2>3. CASE toParent' = Append(toParent, "OFFLINE")
    <3>1. Asked' = Asked + 0
      BY <2>1, <2>3, CountAppend DEF Asked
    <3>2. Asked \in Nat
      BY Places
    <3> QED
      BY <3>1, <3>2
  <2> QED
    BY <2>2, <2>3 DEF TryBadLength, Posted
<1>4. Asked \in Nat /\ Answered \in Nat /\ Reading \in {0, 1}
  BY Places
<1>5. Tokens' >= 1
  BY <1>1, <1>2, <1>3, <1>4, PlacesNext
<1>6. ASSUME gAttflag = 0 PROVE Tokens' = Tokens
  BY <1>1, <1>2, <1>3, <1>4, <1>6, TokenMoves
<1> QED
  BY <1>1, <1>5, <1>6

\* A boot of the child: it may ask, and nothing else is under way.
LEMMA ChildInitTokens ==
  ASSUME UploadTypeOK, UploadTypeOK', ChildInit
  PROVE  /\ cpc = "off" /\ cpc' # "off" /\ Tokens' >= 1
         /\ Tokens = 0 => Tokens' = 1
<1>1. /\ gAttflag' = 1 /\ cpc = "off" /\ cpc' = "top"
      /\ UNCHANGED <<toChild, ppc>>
  BY DEF ChildInit, parent
<1>2. Answered' = Answered /\ Reading' = Reading /\ Sending' = 0
  BY <1>1 DEF Answered, Reading, Sending
<1>3. Asked' = Asked
  <2>1. toParent \in Seq(ChildCmds)
    BY DEF UploadTypeOK
  <2>2. toParent' \in HeartbeatFailed
    BY DEF ChildInit, HeartbeatFailed
  <2>3. Count(toParent', "READ_ATTLOG") = Asked
    BY <2>1, <2>2, HeartbeatQuiet
  <2> QED
    BY <2>3 DEF Asked
<1> QED
  BY <1>1, <1>2, <1>3, Places, PlacesNext

LEMMA CrashTokens ==
  ASSUME Crash
  PROVE  cpc' = "off" /\ Tokens' = 0
<1>1. /\ gAttflag' = 0 /\ ppc' = "idle" /\ cpc' = "off"
      /\ toChild' = <<>> /\ toParent' = <<>>
  BY DEF Crash
<1>2. Count(toParent', "READ_ATTLOG") = 0 /\ Count(toChild', "POST_ATT") = 0
  BY <1>1, CountEmpty
<1>3. /\ (IF ppc' \in {"reading", "answering"} THEN 1 ELSE 0) = 0
      /\ (IF cpc' \in {"post", "acked", "posted"} THEN 1 ELSE 0) = 0
  BY <1>1
<1> QED
  BY <1>1, <1>2, <1>3 DEF Tokens

-----------------------------------------------------------------------------
(* The last token is never lost.                                            *)

LEMMA StutterTokens ==
  UNCHANGED allvars => Tokens' = Tokens /\ cpc' = cpc
<1> SUFFICES ASSUME UNCHANGED allvars PROVE Tokens' = Tokens /\ cpc' = cpc
  OBVIOUS
<1>1. UNCHANGED <<gAttflag, toParent, toChild, ppc, cpc>>
  BY DEF allvars, uvars, parent
<1> QED
  BY <1>1 DEF Tokens, Count

LEMMA NotBlockedStep ==
  ASSUME UploadTypeOK, UploadTypeOK', UploadNotBlocked, [UNext]_allvars
  PROVE  UploadNotBlocked'
<1> SUFFICES ASSUME cpc' # "off" PROVE Tokens' >= 1
  BY DEF UploadNotBlocked
<1>0. Tokens \in Int
  BY Places
<1>1. CASE ParentNext
  <2>1. CASE \/ \E outcome \in WriteOutcomes :
                  SaveRecord(outcome) \/ SaveCardRecord(outcome)
             \/ Clear \/ ReloadData \/ Scan \/ EnterMenu \/ LeaveMenu \/ ReInit
             \/ UdpCall
    BY <2>1, ParentIdleTokens DEF UploadNotBlocked
  <2>2. CASE ParentStatus \/ ParentTake \/ ParentRead \/ ParentClose
    BY <2>2, ParentReadsTokens DEF UploadNotBlocked
  <2>3. CASE ParentAnswer
    <3>1. cpc' = cpc
      BY <2>3 DEF ParentAnswer
    <3> QED
      BY <2>3, <3>1, ParentAnswerTokens
  <2> QED
    BY <1>1, <2>1, <2>2, <2>3 DEF ParentNext
<1>2. CASE ChildNext
  <2>1. CASE ChildInit
    BY <2>1, ChildInitTokens
  <2>2. CASE TryBadLength \/ Posted
    BY <2>2, EndPostTokens
  <2>3. CASE PostAtt /\ cpc = "swallow"
    <3>1. Sending' = 1
      BY <2>3 DEF PostAtt, Sending
    <3> QED
      BY <3>1, PlacesNext
  <2>4. CASE FlagCommand \/ FromSvr \/ Swallow \/ (PostAtt /\ cpc # "swallow")
    BY <2>4, ChildReadsTokens DEF UploadNotBlocked
  <2>5. CASE \/ Nothing \/ SwallowEnd \/ Reconnect \/ Paused \/ Heartbeat \/ NotYet
             \/ TryFails \/ TryAcked \/ SaveProgress
    BY <2>5, ChildQuietTokens DEF UploadNotBlocked
  <2>6. CASE PostDue
    BY <2>6, PostDueTokens DEF UploadNotBlocked
  <2> QED
    BY <1>2, <2>1, <2>2, <2>3, <2>4, <2>5, <2>6 DEF ChildNext
<1>3. CASE Crash
  BY <1>3, CrashTokens
<1>4. CASE UNCHANGED allvars
  BY <1>4, StutterTokens DEF UploadNotBlocked
<1> QED
  BY <1>1, <1>2, <1>3, <1>4 DEF UNext

\* While the child runs there is always someone who may act on the next
\* record, whatever fails, restarts, is cleared or called in between, spurious
\* uploads after UDP calls included: the hand-over never runs dry.
THEOREM UploadNeverBlocked == USpec => []UploadNotBlocked
<1>1. UInit => UploadNotBlocked
  BY DEF UInit, UploadNotBlocked
<1>2. UploadTypeOK /\ UploadTypeOK' /\ UploadNotBlocked /\ [UNext]_allvars
        => UploadNotBlocked'
  BY NotBlockedStep
<1> QED
  BY <1>1, <1>2, UploadTypes, PTL DEF USpec

-----------------------------------------------------------------------------
(* Until the server calls by UDP there is exactly one.                      *)

\* What the environment does is spent, never given back.
LEMMA BudgetFalls ==
  ASSUME UploadTypeOK, [UNext]_allvars
  PROVE  \A event \in Events : budget'[event] <= budget[event]
<1>1. budget \in [Events -> Nat]
  BY DEF UploadTypeOK
<1>2. UNCHANGED budget \/ \E event \in Events : Spend(event)
  BY DEF UNext, ParentNext, ChildNext, SaveRecord, SaveCardRecord, Clear,
         ReloadData, Scan, EnterMenu, LeaveMenu, ReInit, UdpCall, Interrupt,
         ParentStatus, ParentTake, ParentRead, ParentAnswer, ParentClose,
         ChildInit, Nothing, FlagCommand, FromSvr, Swallow, SwallowEnd, PostAtt,
         TryFails, TryBadLength, TryAcked, SaveProgress, Posted, Reconnect,
         Paused, Heartbeat, PostDue, NotYet, Crash, allvars, uvars, Events
<1>3. ASSUME NEW spent \in Events, Spend(spent), NEW event \in Events
      PROVE  budget'[event] <= budget[event]
  <2>1. budget' = [budget EXCEPT ![spent] = budget[spent] - 1]
    BY <1>3 DEF Spend
  <2> QED
    BY <1>1, <2>1
<1> QED
  BY <1>1, <1>2, <1>3

\* The server has not called; no FROM_SVR is in the pipe or being read.
Uncalled == budget["udp"] = Budget["udp"]

NoUdp ==
  /\ cpc # "swallow"
  /\ toChild \in Seq(ParentCmds \ {"FROM_SVR"})

\* Off the child, no token; it is no more than OneToken plus that.  The bound
\* of the budget makes a call that was spent stay spent.
TokenInv ==
  /\ \A event \in Events : budget[event] <= Budget[event]
  /\ Uncalled => NoUdp /\ Tokens = IF cpc = "off" THEN 0 ELSE 1

LEMMA UncalledBefore ==
  ASSUME UploadTypeOK, TokenInv, [UNext]_allvars, NEW event \in Events,
         budget'[event] = Budget[event]
  PROVE  budget[event] = Budget[event] /\ ~Spend(event)
<1>1. budget \in [Events -> Nat] /\ Budget \in [Events -> Nat]
  BY BudgetAssumption DEF UploadTypeOK
<1>2. budget[event] <= Budget[event] /\ budget'[event] <= budget[event]
  BY BudgetFalls DEF TokenInv
<1>3. budget[event] = Budget[event]
  BY <1>1, <1>2
<1>4. ASSUME Spend(event) PROVE FALSE
  <2>1. budget' = [budget EXCEPT ![event] = budget[event] - 1]
    BY <1>4 DEF Spend
  <2> QED
    BY <1>1, <1>3, <2>1
<1> QED
  BY <1>3, <1>4

LEMMA NoUdpStep ==
  ASSUME UploadTypeOK, NoUdp, [UNext]_allvars, ~Spend("udp")
  PROVE  NoUdp' /\ ~UdpCall /\ ~FromSvr /\ ~(PostAtt /\ cpc = "swallow")
<1> DEFINE Told == ParentCmds \ {"FROM_SVR"}
<1>1. ~UdpCall
  BY DEF UdpCall, Interrupt
<1>2. toChild \in Seq(Told) /\ (toChild # <<>> => Head(toChild) \in Told)
  BY HeadTailProperties DEF NoUdp
<1>3. ~FromSvr /\ ~Swallow /\ ~SwallowEnd /\ ~(PostAtt /\ cpc = "swallow")
  BY <1>2 DEF FromSvr, Swallow, SwallowEnd, NoUdp
<1>4. cpc' # "swallow"
  BY <1>1, <1>3
     DEF UNext, ParentNext, ChildNext, SaveRecord, SaveCardRecord, Clear,
         ReloadData, Scan, EnterMenu, LeaveMenu, ReInit, Interrupt, ParentStatus,
         ParentTake, ParentRead, ParentAnswer, ParentClose, ChildInit, Nothing,
         FlagCommand, PostAtt, TryFails, TryBadLength, EndPost, TryAcked,
         SaveProgress, Posted, Reconnect, Paused, Heartbeat, PostDue, NotYet,
         Crash, allvars, uvars, NoUdp
<1>5. toChild' \in Seq(Told)
  <2>1. CASE \/ \E outcome \in WriteOutcomes :
                  SaveRecord(outcome) \/ SaveCardRecord(outcome)
             \/ Clear \/ ReloadData \/ Scan \/ EnterMenu \/ LeaveMenu \/ ReInit
    <3>1. PICK cmds \in Seq(Quiet \ {"FROM_SVR"}) : Tell(cmds)
      BY <1>1, <2>1, IdleTells
    <3>2. cmds \in Seq(Told)
      BY DEF Quiet
    <3>3. toChild \o cmds \in Seq(Told)
      BY <1>2, <3>2
    <3> QED
      BY <1>2, <3>1, <3>3 DEF Tell
  <2>2. CASE ParentAnswer
    <3>1. "POST_ATT" \in Told
      BY DEF ParentCmds
    <3> HIDE DEF Told
    <3>2. (IF reclenght > 0 THEN <<"POST_ATT">> ELSE <<>>) \in Seq(Told)
      BY <3>1, EmptySeq
    <3> QED
      BY <1>2, <2>2, <3>2 DEF ParentAnswer, Tell
  <2>3. CASE FlagCommand \/ PostAtt
    <3>1. toChild # <<>> /\ toChild' = Tail(toChild)
      BY <2>3 DEF FlagCommand, PostAtt
    <3> QED
      BY <1>2, <3>1, HeadTailProperties
  <2>4. CASE Crash
    BY <2>4, EmptySeq DEF Crash
  <2>5. CASE \/ ParentStatus \/ ParentTake \/ ParentRead \/ ParentClose
             \/ ChildInit \/ Nothing \/ TryFails \/ TryBadLength \/ TryAcked
             \/ SaveProgress \/ Posted \/ Reconnect \/ Paused \/ Heartbeat
             \/ PostDue \/ NotYet \/ UNCHANGED allvars
    <3>1. toChild' = toChild
      BY <2>5
         DEF ParentStatus, ParentTake, ParentRead, ParentClose, ChildInit,
             Nothing, TryFails, TryBadLength, TryAcked, SaveProgress, Posted,
             Reconnect, Paused, Heartbeat, PostDue, NotYet, allvars, uvars
    <3> QED
      BY <1>2, <3>1
  <2> QED
    BY <1>1, <1>3, <2>1, <2>2, <2>3, <2>4, <2>5 DEF UNext, ParentNext, ChildNext
<1> QED
  BY <1>1, <1>3, <1>4, <1>5 DEF NoUdp

\* A step that is no call keeps the one token.
LEMMA TokenKept ==
  ASSUME UploadTypeOK, UploadTypeOK', NoUdp, Tokens = IF cpc = "off" THEN 0 ELSE 1,
         [UNext]_allvars, ~Spend("udp")
  PROVE  NoUdp' /\ Tokens' = IF cpc' = "off" THEN 0 ELSE 1
<1>0. NoUdp' /\ ~UdpCall /\ ~FromSvr /\ ~(PostAtt /\ cpc = "swallow")
  BY NoUdpStep
<1> SUFFICES Tokens' = IF cpc' = "off" THEN 0 ELSE 1
  BY <1>0
<1>1. Tokens = IF cpc = "off" THEN 0 ELSE 1
  OBVIOUS
<1>2. CASE ParentNext
  <2>1. CASE \/ \E outcome \in WriteOutcomes :
                  SaveRecord(outcome) \/ SaveCardRecord(outcome)
             \/ Clear \/ ReloadData \/ Scan \/ EnterMenu \/ LeaveMenu \/ ReInit
             \/ UdpCall
    BY <1>1, <2>1, ParentIdleTokens
  <2>2. CASE ParentStatus \/ ParentTake \/ ParentRead \/ ParentClose
    BY <1>1, <2>2, ParentReadsTokens
  <2>3. CASE ParentAnswer
    \* The parent answers only while it holds the token.
    <3>1. Reading = 1
      BY <2>3 DEF ParentAnswer, Reading
    <3>2. cpc # "off" /\ gAttflag = 0
      BY <1>1, <3>1, Places
    <3> QED
      BY <1>1, <2>3, <3>2, ParentAnswerTokens
  <2> QED
    BY <1>2, <2>1, <2>2, <2>3 DEF ParentNext
<1>3. CASE ChildNext
  <2>1. CASE ChildInit
    BY <1>1, <2>1, ChildInitTokens
  <2>2. CASE TryBadLength \/ Posted
    \* The upload ends only while the child holds the token.
    <3>1. Sending = 1
      BY <2>2 DEF TryBadLength, Posted, Sending
    <3>2. gAttflag = 0
      BY <1>1, <3>1, Places
    <3>3. cpc' # "off"
      BY <2>2 DEF TryBadLength, Posted, EndPost
    <3> QED
      BY <1>1, <2>2, <3>2, <3>3, EndPostTokens
  <2>3. CASE FlagCommand \/ FromSvr \/ Swallow \/ (PostAtt /\ cpc # "swallow")
    <3>1. cpc' # "off"
      BY <2>3 DEF FlagCommand, FromSvr, Swallow, PostAtt
    <3> QED
      BY <1>1, <2>3, <3>1, ChildReadsTokens
  <2>4. CASE \/ Nothing \/ SwallowEnd \/ Reconnect \/ Paused \/ Heartbeat \/ NotYet
             \/ TryFails \/ TryAcked \/ SaveProgress
    <3>1. Tokens' = Tokens /\ cpc # "off"
      BY <2>4, ChildQuietTokens
    <3>2. cpc' = cpc \/ cpc' \in {"call", "top", "due", "acked", "posted"}
      BY <2>4 DEF Nothing, SwallowEnd, Reconnect, Paused, Heartbeat, NotYet,
                  TryFails, TryAcked, SaveProgress
    <3> QED
      BY <1>1, <3>1, <3>2
  <2>5. CASE PostDue
    <3>1. cpc' # "off"
      BY <2>5 DEF PostDue
    <3> QED
      BY <1>1, <2>5, <3>1, PostDueTokens
  <2> QED
    BY <1>0, <1>3, <2>1, <2>2, <2>3, <2>4, <2>5 DEF ChildNext
<1>4. CASE Crash
  BY <1>4, CrashTokens
<1>5. CASE UNCHANGED allvars
  BY <1>1, <1>5, StutterTokens
<1> QED
  BY <1>2, <1>3, <1>4, <1>5 DEF UNext

\* TokenInv is inductive.
LEMMA TokenStep ==
  ASSUME UploadTypeOK, UploadTypeOK', TokenInv, [UNext]_allvars
  PROVE  TokenInv'
<1>1. ASSUME NEW event \in Events PROVE budget'[event] <= Budget[event]
  <2>1. /\ budget[event] \in Nat /\ Budget[event] \in Nat /\ budget'[event] \in Nat
        /\ budget[event] <= Budget[event] /\ budget'[event] <= budget[event]
    BY BudgetFalls, BudgetAssumption DEF UploadTypeOK, TokenInv
  <2> QED
    BY <2>1
<1>2. ASSUME Uncalled'
      PROVE  NoUdp' /\ Tokens' = IF cpc' = "off" THEN 0 ELSE 1
  <2>1. "udp" \in Events
    BY DEF Events
  <2>2. Uncalled /\ ~Spend("udp")
    BY <1>2, <2>1, UncalledBefore DEF Uncalled
  <2> QED
    BY <2>2, TokenKept DEF TokenInv
<1> QED
  BY <1>1, <1>2 DEF TokenInv

LEMMA TokenInit == UInit => TokenInv
<1> SUFFICES ASSUME UInit PROVE TokenInv
  OBVIOUS
<1>1. /\ gAttflag = 0 /\ ppc = "idle" /\ cpc = "off"
      /\ toChild = <<>> /\ toParent = <<>> /\ budget = Budget
  BY DEF UInit
<1>2. NoUdp
  BY <1>1, EmptySeq DEF NoUdp
<1>3. Asked = 0 /\ Answered = 0 /\ Reading = 0 /\ Sending = 0
  BY <1>1, CountEmpty DEF Asked, Answered, Reading, Sending
<1>4. Tokens = 0
  BY <1>1, <1>3, UploadTypeInit, Places
<1>5. \A event \in Events : budget[event] <= Budget[event]
  BY <1>1, BudgetAssumption
<1> QED
  BY <1>1, <1>2, <1>4, <1>5 DEF TokenInv

LEMMA TokenAlways == USpec => []TokenInv
<1>1. UploadTypeOK /\ UploadTypeOK' /\ TokenInv /\ [UNext]_allvars => TokenInv'
  BY TokenStep
<1> QED
  BY <1>1, TokenInit, UploadTypes, PTL DEF USpec

\* Until the server calls by UDP there is exactly one upload token while the
\* child runs, through failed uploads, lost connections, pauses, clears,
\* reloads and power cuts: the hand-over neither runs dry nor doubles.
THEOREM OneTokenBeforeCalls == USpec => []OneTokenUntilCalled
<1>1. TokenInv => OneTokenUntilCalled
  BY DEF TokenInv, Uncalled, OneTokenUntilCalled, OneToken
<1> QED
  BY <1>1, TokenAlways, PTL

\* Where no call is to come there has been none.
LEMMA NeverCalled == Budget["udp"] = 0 /\ UploadTypeOK /\ TokenInv => Uncalled
<1> SUFFICES ASSUME Budget["udp"] = 0, UploadTypeOK, TokenInv PROVE Uncalled
  OBVIOUS
<1>1. "udp" \in Events
  BY DEF Events
<1>2. budget["udp"] \in Nat /\ budget["udp"] <= Budget["udp"]
  BY <1>1 DEF UploadTypeOK, TokenInv
<1> QED
  BY <1>2 DEF Uncalled

\* So with a server that never calls there is one token all the time.
THEOREM OneTokenAlways ==
  ASSUME Budget["udp"] = 0
  PROVE  USpec => []OneToken
<1>1. UploadTypeOK /\ TokenInv => OneToken
  BY NeverCalled DEF TokenInv, OneToken
<1> QED
  BY <1>1, TokenAlways, UploadTypes, PTL

\* One token is one thread at attbuffer.
LEMMA OneUser == UploadTypeOK /\ TokenInv /\ Uncalled => ReadPostExclusive
<1> SUFFICES ASSUME UploadTypeOK, TokenInv, Uncalled, Reading = 1, Sending = 1 PROVE FALSE
  BY DEF ReadPostExclusive, Reading, Sending
<1>1. Tokens \in {0, 1}
  BY DEF TokenInv
<1> QED
  BY <1>1, Places

\* On the same terms the parent never fills attbuffer while the child builds
\* or sends a packet from it, although no lock keeps them apart.
THEOREM NoBufferRace ==
  ASSUME Budget["udp"] = 0
  PROVE  USpec => []ReadPostExclusive
<1>1. UploadTypeOK /\ TokenInv => ReadPostExclusive
  BY NeverCalled, OneUser
<1> QED
  BY <1>1, TokenAlways, UploadTypes, PTL

-----------------------------------------------------------------------------
(* What is sent is a record.                                                *)

Unspoiled == Uncalled /\ budget["deleted"] = Budget["deleted"]

\* The record that was read stays in attbuffer from the answer to the packet.
RecordInv ==
  Unspoiled =>
    /\ cpc = "post" /\ packet.count = 1 => packet.rec.staff
    /\ (Answered > 0 \/ ppc = "answering") /\ reclenght = 1 => attbuffer.staff

\* The buffer after a step of a thread that has no business with it.
Kept ==
  /\ UNCHANGED <<attbuffer, reclenght>>
  /\ ppc' = "answering" => ppc = "answering"
  /\ Answered' <= Answered

LEMMA QuietKeeps ==
  ASSUME UploadTypeOK, UploadTypeOK',
         \/ \E outcome \in WriteOutcomes : SaveRecord(outcome) \/ SaveCardRecord(outcome)
         \/ Clear \/ ReloadData \/ Scan \/ EnterMenu \/ LeaveMenu \/ ReInit
         \/ UdpCall \/ ParentStatus \/ ParentClose
         \/ FlagCommand \/ FromSvr \/ Swallow \/ PostAtt
         \/ Nothing \/ SwallowEnd \/ Reconnect \/ Paused \/ Heartbeat \/ NotYet
         \/ TryFails \/ SaveProgress \/ PostDue \/ TryBadLength \/ Posted
         \/ UNCHANGED allvars
  PROVE  Kept
<1>1. UNCHANGED <<attbuffer, reclenght>> /\ (ppc' = "answering" => ppc = "answering")
  BY DEF SaveRecord, SaveCardRecord, Clear, ReloadData, Scan, EnterMenu, LeaveMenu,
         ReInit, UdpCall, Interrupt, ParentStatus, ParentClose, FlagCommand,
         FromSvr, Swallow, PostAtt, Nothing, SwallowEnd, Reconnect, Paused,
         Heartbeat, NotYet, TryFails, SaveProgress, PostDue, TryBadLength, Posted,
         allvars, uvars, cursor, parent
<1>2. Answered \in Nat /\ Answered' \in Nat /\ toChild \in Seq(ParentCmds)
  BY Places, PlacesNext DEF UploadTypeOK
<1>3. CASE \/ \E outcome \in WriteOutcomes :
                SaveRecord(outcome) \/ SaveCardRecord(outcome)
           \/ Clear \/ ReloadData \/ Scan \/ EnterMenu \/ LeaveMenu \/ ReInit \/ UdpCall
  <2>1. Answered' = Answered
    BY <1>2, <1>3, IdleTells, TellQuiet
  <2> QED
    BY <1>1, <1>2, <2>1 DEF Kept
<1>4. CASE FlagCommand \/ FromSvr \/ Swallow \/ PostAtt
  <2>1. toChild # <<>> /\ toChild' = Tail(toChild)
    BY <1>4 DEF FlagCommand, FromSvr, Swallow, PostAtt
  <2>2. Answered' <= Answered
    BY <1>2, <2>1, CountLess DEF Answered
  <2> QED
    BY <1>1, <2>2 DEF Kept
<1>5. CASE \/ ParentStatus \/ ParentClose \/ Nothing \/ SwallowEnd \/ Reconnect
           \/ Paused \/ Heartbeat \/ NotYet \/ TryFails \/ SaveProgress \/ PostDue
           \/ TryBadLength \/ Posted \/ UNCHANGED allvars
  <2>1. toChild' = toChild
    BY <1>5 DEF ParentStatus, ParentClose, Nothing, SwallowEnd, Reconnect, Paused,
                Heartbeat, NotYet, TryFails, SaveProgress, PostDue, TryBadLength,
                Posted, allvars, uvars
  <2>2. Answered' = Answered
    BY <2>1 DEF Answered
  <2> QED
    BY <1>1, <1>2, <2>2 DEF Kept
<1> QED
  BY <1>3, <1>4, <1>5, Zenon

\* The parent and the packet.
LEMMA BufferStep ==
  ASSUME UploadTypeOK, UploadTypeOK', TypeOK, TokenInv, RecordInv, Unspoiled,
         Unspoiled', [UNext]_allvars, ~Spend("deleted"),
         Answered' > 0 \/ ppc' = "answering", reclenght' = 1
  PROVE  attbuffer'.staff
<1>1. Tokens \in {0, 1} /\ Asked \in Nat /\ Answered \in Nat /\ Sending \in {0, 1}
  BY Places DEF TokenInv, Unspoiled
<1>2. CASE ParentTake
  <2>1. /\ Head(toParent) = "READ_ATTLOG" /\ toParent \in Seq(ChildCmds)
        /\ toParent # <<>> /\ toChild' = toChild /\ ppc' = "reading"
    BY <1>2 DEF ParentTake, UploadTypeOK
  <2>2. Asked = Count(Tail(toParent), "READ_ATTLOG") + 1
        /\ Count(Tail(toParent), "READ_ATTLOG") \in Nat
    BY <2>1, CountTail, WhereFinite DEF Asked
  <2>3. Answered = 0
    BY <1>1, <2>2, Places
  <2>4. Answered' = 0
    BY <2>1, <2>3 DEF Answered
  <2> QED
    BY <2>1, <2>4
<1>3. CASE ParentRead
  <2> DEFINE hit == GetAttByIndex(file, curfp, currec)
  <2>1. file \in Seq(Record) /\ curfp \in Nat /\ currec \in Nat
    BY DEF UploadTypeOK, TypeOK
  <2>2. hit.found => file[hit.at].staff
    BY <2>1, GetAttByIndexHit
  <2>3. reclenght' = Length(hit) /\ attbuffer' = IF hit.found THEN file[hit.at] ELSE attbuffer
    BY <1>3 DEF ParentRead
  <2> HIDE DEF hit
  <2>4. hit.found
    BY <2>3 DEF Length
  <2> QED
    BY <2>2, <2>3, <2>4
<1>4. CASE ParentAnswer
  BY <1>4 DEF ParentAnswer, cursor, RecordInv
<1>5. CASE ChildInit \/ TryAcked \/ Crash
  BY <1>5 DEF ChildInit, TryAcked, Crash
<1>6. CASE Kept
  BY <1>1, <1>6, PlacesNext DEF Kept, RecordInv
<1> QED
  BY <1>2, <1>3, <1>4, <1>5, <1>6, QuietKeeps DEF UNext, ParentNext, ChildNext

LEMMA PacketStep ==
  ASSUME UploadTypeOK, UploadTypeOK', TokenInv, RecordInv, Unspoiled,
         [UNext]_allvars, cpc' = "post", packet'.count = 1
  PROVE  packet'.rec.staff
<1>1. CASE PostAtt
  <2>1. cpc # "swallow"
    BY DEF TokenInv, Unspoiled, NoUdp
  <2>2. /\ toChild # <<>> /\ Head(toChild) = "POST_ATT" /\ toChild \in Seq(ParentCmds)
        /\ packet' = [rec |-> attbuffer, count |-> reclenght]
    BY <1>1, <2>1 DEF PostAtt, UploadTypeOK
  <2>3. Answered = Count(Tail(toChild), "POST_ATT") + 1
        /\ Count(Tail(toChild), "POST_ATT") \in Nat
    BY <2>2, CountTail, WhereFinite DEF Answered
  <2>4. Answered > 0
    BY <2>3
  <2> QED
    BY <2>2, <2>4 DEF RecordInv
<1>2. CASE cpc = "post" /\ packet' = packet
  BY <1>2 DEF RecordInv
<1>3. PostAtt \/ (cpc = "post" /\ packet' = packet)
  BY DEF UNext, ParentNext, ChildNext, SaveRecord, SaveCardRecord, Clear,
         ReloadData, Scan, EnterMenu, LeaveMenu, ReInit, UdpCall, Interrupt,
         ParentStatus, ParentTake, ParentRead, ParentAnswer, ParentClose,
         ChildInit, Nothing, FlagCommand, FromSvr, Swallow, SwallowEnd, TryFails,
         TryBadLength, EndPost, TryAcked, SaveProgress, Posted, Reconnect, Paused,
         Heartbeat, PostDue, NotYet, Crash, allvars, uvars, posting
<1> QED
  BY <1>1, <1>2, <1>3

LEMMA RecordStep ==
  ASSUME UploadTypeOK, UploadTypeOK', TypeOK, TokenInv, RecordInv, [UNext]_allvars
  PROVE  RecordInv'
<1> SUFFICES ASSUME Unspoiled'
             PROVE  /\ cpc' = "post" /\ packet'.count = 1 => packet'.rec.staff
                    /\ (Answered' > 0 \/ ppc' = "answering") /\ reclenght' = 1
                         => attbuffer'.staff
  BY DEF RecordInv
<1>1. {"udp", "deleted"} \in SUBSET Events
  BY DEF Events
<1>2. Unspoiled /\ ~Spend("deleted")
  BY <1>1, UncalledBefore DEF Unspoiled, Uncalled
<1> QED
  BY <1>2, BufferStep, PacketStep

\* Until the server calls by UDP, or the person of a record is deleted before
\* its upload, a packet that is sent as a record carries one: attbuffer, which
\* every read clears first, is not touched between answer and packet.
THEOREM PacketsCarryRecords == USpec => []PacketIsARecord
<1>1. UInit => RecordInv
  BY CountEmpty DEF UInit, RecordInv, Answered
<1>2. UploadTypeOK /\ UploadTypeOK' /\ TypeOK /\ TokenInv /\ RecordInv
        /\ [UNext]_allvars => RecordInv'
  BY RecordStep
<1>3. RecordInv => PacketIsARecord
  BY DEF RecordInv, PacketIsARecord, Unspoiled, Uncalled
<1> QED
  BY <1>1, <1>2, <1>3, TokenAlways, UploadTypes, StoreUnderUpload, TypeCorrect, PTL DEF USpec

-----------------------------------------------------------------------------
(* The progress of the upload, on one file.                                 *)

\* The serials in S that are below those of all records behind fp.
Before(f, fp, S) ==
  {s \in S : \A k \in fp + 1 .. Len(f) : f[k].staff => s < f[k].idx}

\* Persons' serials grow along f, up to T.
InOrder(f, T) ==
  Ordered(f) /\ \A i \in 1 .. Len(f) : f[i].staff => f[i].idx \in 1 .. T

\* An upload that has the position fp, the count c and the serials S, with t
\* failed attempts for the next record, after a loss of L attempts and z
\* deleted people: what is behind fp will be found, and what is before it and
\* not in S was paid for.
Progress(f, fp, c, S, t, T, L, z) ==
  /\ c <= T /\ \A s \in S : s <= T
  /\ \A k \in fp + 1 .. Len(f) : f[k].staff => c < f[k].idx
  /\ Reposttime * Cardinality(PassedOver(f, fp, S)) + t <= L
  /\ c <= Cardinality(Before(f, fp, S)) + z

LEMMA PassedFinite ==
  ASSUME NEW f, NEW fp \in Nat, NEW S
  PROVE  IsFiniteSet(PassedOver(f, fp, S)) /\ Cardinality(PassedOver(f, fp, S)) \in Nat
<1>1. IsFiniteSet(1 .. fp) /\ PassedOver(f, fp, S) \in SUBSET (1 .. fp)
  BY FS_Interval DEF PassedOver
<1> QED
  BY <1>1, FS_Subset, FS_CardinalityType

LEMMA BeforeFinite ==
  ASSUME NEW f, NEW fp, NEW S, IsFiniteSet(S)
  PROVE  IsFiniteSet(Before(f, fp, S)) /\ Cardinality(Before(f, fp, S)) \in Nat
<1>1. Before(f, fp, S) \in SUBSET S
  BY DEF Before
<1> QED
  BY <1>1, FS_Subset, FS_CardinalityType

\* A product, for the solver.
LEMMA Times ==
  ASSUME NEW r \in Nat, NEW a \in Nat, NEW b \in Nat
  PROVE  /\ r * a \in Nat /\ r * (a + b) = r * a + r * b /\ r * 1 = r /\ r * 0 = 0
         /\ a <= b => r * a <= r * b
OBVIOUS

LEMMA IntervalSize ==
  ASSUME NEW a \in Nat, NEW d \in Nat
  PROVE  IsFiniteSet(a + 1 .. a + d) /\ Cardinality(a + 1 .. a + d) = d
<1> DEFINE lo == a + 1
           hi == a + d
<1>1. lo \in Int /\ hi \in Int /\ (IF lo > hi THEN 0 ELSE hi - lo + 1) = d
  OBVIOUS
<1> HIDE DEF lo, hi
<1>2. IsFiniteSet(lo .. hi) /\ Cardinality(lo .. hi) = d
  BY <1>1, FS_Interval
<1> QED
  BY <1>2 DEF lo, hi

\* Fewer records passed over cost fewer attempts.
LEMMA PassedFewer ==
  ASSUME NEW f, NEW g, NEW fp \in Nat, NEW gp \in Nat, NEW S, NEW U,
         PassedOver(g, gp, U) \subseteq PassedOver(f, fp, S)
  PROVE  /\ Reposttime * Cardinality(PassedOver(g, gp, U)) \in Nat
         /\ Reposttime * Cardinality(PassedOver(f, fp, S)) \in Nat
         /\ Reposttime * Cardinality(PassedOver(g, gp, U))
              <= Reposttime * Cardinality(PassedOver(f, fp, S))
<1> DEFINE A == Cardinality(PassedOver(f, fp, S))
           B == Cardinality(PassedOver(g, gp, U))
<1>1. A \in Nat /\ B \in Nat /\ IsFiniteSet(PassedOver(f, fp, S))
  BY PassedFinite
<1>2. B <= A
  BY <1>1, FS_Subset
<1> HIDE DEF A, B
<1>3. Reposttime * A \in Nat /\ Reposttime * B \in Nat /\ Reposttime * B <= Reposttime * A
  BY <1>1, <1>2, ReposttimeAssumption, Times
<1> QED
  BY <1>3 DEF A, B

LEMMA BeforeMore ==
  ASSUME NEW f, NEW g, NEW fp, NEW gp, NEW S, NEW U, IsFiniteSet(S), IsFiniteSet(U),
         Before(f, fp, S) \subseteq Before(g, gp, U)
  PROVE  /\ Cardinality(Before(f, fp, S)) \in Nat /\ Cardinality(Before(g, gp, U)) \in Nat
         /\ Cardinality(Before(f, fp, S)) <= Cardinality(Before(g, gp, U))
BY BeforeFinite, FS_Subset

\* A record with a new highest serial comes to the end; or a stranger's.
LEMMA ProgressAppend ==
  ASSUME NEW f \in Seq(Record), NEW g \in Seq(Record),
         Len(g) = Len(f) + 1, \A i \in 1 .. Len(f) : g[i] = f[i],
         NEW T \in Nat, NEW T2 \in Nat, T <= T2,
         g[Len(g)].staff => g[Len(g)].idx \in T + 1 .. T2,
         NEW fp \in Nat, NEW c \in Nat, NEW S, IsFiniteSet(S), S \subseteq Nat,
         NEW t \in Nat, NEW L \in Nat, NEW z \in Nat,
         Progress(f, fp, c, S, t, T, L, z)
  PROVE  Progress(g, fp, c, S, t, T2, L, z)
<1>1. Len(f) \in Nat /\ Len(g) \in Nat
  OBVIOUS
<1>2. ASSUME NEW k \in fp + 1 .. Len(g)
      PROVE  (k \in fp + 1 .. Len(f) /\ g[k] = f[k]) \/ k = Len(g)
  BY <1>1, <1>2
<1>3. c <= T /\ (\A s \in S : s <= T) /\ \A k \in fp + 1 .. Len(f) : f[k].staff => c < f[k].idx
  BY DEF Progress
<1>4. ASSUME NEW s \in Nat, s <= T, g[Len(g)].staff PROVE s < g[Len(g)].idx
  BY <1>4
<1>5. \A k \in fp + 1 .. Len(g) : g[k].staff => c < g[k].idx
  BY <1>2, <1>3, <1>4
<1>6. PassedOver(g, fp, S) \subseteq PassedOver(f, fp, S)
  BY <1>1 DEF PassedOver
<1>7. Before(f, fp, S) \subseteq Before(g, fp, S)
  <2> SUFFICES ASSUME NEW s \in Before(f, fp, S), NEW k \in fp + 1 .. Len(g), g[k].staff
               PROVE  s < g[k].idx
    BY DEF Before
  <2>1. s \in Nat /\ s <= T
    BY <1>3 DEF Before
  <2> QED
    BY <1>2, <1>4, <2>1 DEF Before
<1>8. \A s \in S : s <= T2
  <2> TAKE s \in S
  <2>1. s \in Nat /\ s <= T
    BY <1>3
  <2> QED
    BY <2>1
<1>9. Reposttime * Cardinality(PassedOver(g, fp, S)) + t <= L
  <2>1. Reposttime * Cardinality(PassedOver(f, fp, S)) + t <= L
    BY DEF Progress
  <2> QED
    BY <1>6, <2>1, PassedFewer
<1>10. c <= Cardinality(Before(g, fp, S)) + z
  <2>1. c <= Cardinality(Before(f, fp, S)) + z
    BY DEF Progress
  <2> QED
    BY <1>7, <2>1, BeforeMore
<1>11. c <= T2
  BY <1>3
<1> QED
  BY <1>5, <1>8, <1>9, <1>10, <1>11 DEF Progress

\* The d oldest are deleted: the records move, the position does not.
LEMMA ProgressDelete ==
  ASSUME NEW f \in Seq(Record), NEW g \in Seq(Record), NEW d \in Nat,
         Len(g) = Len(f) - d, \A i \in 1 .. Len(g) : g[i] = f[i + d],
         NEW fp \in Nat, NEW c \in Nat, NEW S, IsFiniteSet(S),
         NEW t \in Nat, NEW T \in Nat, NEW L \in Nat, NEW z \in Nat,
         Progress(f, fp, c, S, t, T, L, z)
  PROVE  Progress(g, fp, c, S, t, T, L + Reposttime * d, z)
<1> DEFINE P == PassedOver(f, fp, S)
           Q == PassedOver(g, fp, S)
           New == fp + 1 .. fp + d
           F == [i \in Q |-> i + d]
<1>1. Len(f) \in Nat /\ Len(g) \in Nat
  OBVIOUS
<1>2. IsFiniteSet(P) /\ IsFiniteSet(Q) /\ Cardinality(P) \in Nat /\ Cardinality(Q) \in Nat
  BY PassedFinite
<1>3. IsFiniteSet(New) /\ Cardinality(New) = d
  BY IntervalSize
<1>4. IsFiniteSet(P \cup New) /\ Cardinality(P \cup New) <= Cardinality(P) + d
      /\ Cardinality(P \cup New) \in Nat
  <2>1. P \cap New = {}
    BY DEF PassedOver
  <2>2. IsFiniteSet(P \cap New) /\ Cardinality(P \cap New) = 0
    BY <2>1, FS_EmptySet
  <2>3. IsFiniteSet(P \cup New)
          /\ Cardinality(P \cup New) = Cardinality(P) + Cardinality(New) - Cardinality(P \cap New)
    BY <1>2, <1>3, FS_Union
  <2> QED
    BY <1>2, <1>3, <2>2, <2>3
<1>5. F \in Injection(Q, P \cup New)
  <2>1. ASSUME NEW i \in Q PROVE i \in Nat /\ i + d \in P \cup New
    <3>1. i \in 1 .. fp /\ (i > Len(g) \/ (g[i].staff /\ g[i].idx \notin S))
      BY DEF PassedOver
    <3>2. CASE i + d > fp
      BY <3>1, <3>2
    <3>3. CASE i + d <= fp /\ i > Len(g)
      <4>1. i + d \in 1 .. fp /\ i + d > Len(f)
        BY <1>1, <3>1, <3>3
      <4> QED
        BY <3>1, <4>1 DEF PassedOver
    <3>4. CASE i + d <= fp /\ ~(i > Len(g))
      <4>1. i \in 1 .. Len(g) /\ i + d \in 1 .. fp
        BY <1>1, <3>1, <3>4
      <4> QED
        BY <3>1, <3>4, <4>1 DEF PassedOver
    <3> QED
      BY <3>1, <3>2, <3>3, <3>4
  <2>2. F \in [Q -> P \cup New] /\ DOMAIN F = Q
    BY <2>1
  <2>3. \A a, b \in Q : F[a] = F[b] => a = b
    BY <2>1
  <2> HIDE DEF F, Q, P, New
  <2> QED
    BY <2>2, <2>3 DEF Injection, IsInjective
<1>6. Cardinality(Q) <= Cardinality(P) + d
  <2>1. Cardinality(Q) <= Cardinality(P \cup New)
    <3> HIDE DEF P, Q, New, F
    <3> QED
      BY <1>4, <1>5, FS_Injection
  <2> HIDE DEF P, Q, New, F
  <2> QED
    BY <1>2, <1>4, <2>1
<1>7. ASSUME NEW k \in fp + 1 .. Len(g)
      PROVE  k + d \in fp + 1 .. Len(f) /\ g[k] = f[k + d]
  BY <1>1, <1>7
<1>8. Before(f, fp, S) \subseteq Before(g, fp, S)
  BY <1>7 DEF Before
<1>9. Cardinality(Before(f, fp, S)) <= Cardinality(Before(g, fp, S))
      /\ Cardinality(Before(f, fp, S)) \in Nat /\ Cardinality(Before(g, fp, S)) \in Nat
  BY <1>8, BeforeFinite, FS_Subset
<1>10. /\ c <= T /\ (\A s \in S : s <= T) /\ c <= Cardinality(Before(f, fp, S)) + z
       /\ \A k \in fp + 1 .. Len(f) : f[k].staff => c < f[k].idx
       /\ Reposttime * Cardinality(P) + t <= L
  BY DEF Progress
<1>11. \A k \in fp + 1 .. Len(g) : g[k].staff => c < g[k].idx
  BY <1>7, <1>10
<1>12. c <= Cardinality(Before(g, fp, S)) + z
  BY <1>9, <1>10
<1>13. Reposttime * Cardinality(Q) + t <= L + Reposttime * d
  <2> HIDE DEF P, Q, New, F
  <2>1. Cardinality(P) + d \in Nat /\ Reposttime \in Nat
    BY <1>2, ReposttimeAssumption
  <2>2. Reposttime * Cardinality(Q) <= Reposttime * (Cardinality(P) + d)
    BY <1>2, <1>6, <2>1, Times
  <2>3. Reposttime * (Cardinality(P) + d) = Reposttime * Cardinality(P) + Reposttime * d
    BY <1>2, <2>1, Times
  <2>4. Reposttime * Cardinality(P) \in Nat /\ Reposttime * Cardinality(Q) \in Nat
        /\ Reposttime * d \in Nat
    BY <1>2, <2>1, Times
  <2> QED
    BY <1>10, <2>2, <2>3, <2>4
<1> QED
  BY <1>10, <1>11, <1>12, <1>13 DEF Progress

\* A save: the d oldest go (g is left), then a record may come to the end.
LEMMA ProgressSave ==
  ASSUME NEW f \in Seq(Record), NEW g \in Seq(Record), NEW h \in Seq(Record),
         NEW d \in Nat, Len(g) = Len(f) - d, \A i \in 1 .. Len(g) : g[i] = f[i + d],
         NEW T \in Nat, NEW U \in Nat, T <= U,
         \/ h = g
         \/ /\ Len(h) = Len(g) + 1 /\ \A i \in 1 .. Len(g) : h[i] = g[i]
            /\ h[Len(h)].staff => h[Len(h)].idx \in T + 1 .. U,
         NEW fp \in Nat, NEW c \in Nat, NEW S, IsFiniteSet(S), S \subseteq Nat,
         NEW t \in Nat, NEW L \in Nat, NEW z \in Nat,
         Progress(f, fp, c, S, t, T, L, z)
  PROVE  Progress(h, fp, c, S, t, U, L + Reposttime * d, z)
<1>1. Progress(g, fp, c, S, t, T, L + Reposttime * d, z)
  BY ProgressDelete
<1>2. L + Reposttime * d \in Nat
  <2>1. Reposttime * d \in Nat
    BY ReposttimeAssumption, Times
  <2> QED
    BY <2>1
<1>3. CASE h = g
  <2>1. c <= U /\ \A s \in S : s <= U
    BY <1>1 DEF Progress
  <2> QED
    BY <1>1, <1>3, <2>1 DEF Progress
<1>4. CASE h # g
  BY <1>1, <1>2, <1>4, ProgressAppend
<1> QED
  BY <1>3, <1>4

\* The order of the file outlives it.
LEMMA OrderSave ==
  ASSUME NEW f \in Seq(Record), NEW g \in Seq(Record), NEW h \in Seq(Record),
         NEW d \in Nat, Len(g) = Len(f) - d, \A i \in 1 .. Len(g) : g[i] = f[i + d],
         NEW T \in Nat, NEW U \in Nat, T <= U,
         \/ h = g
         \/ /\ Len(h) = Len(g) + 1 /\ \A i \in 1 .. Len(g) : h[i] = g[i]
            /\ h[Len(h)].staff => h[Len(h)].idx \in T + 1 .. U,
         InOrder(f, T)
  PROVE  InOrder(h, U)
<1>1. Len(f) \in Nat /\ Len(g) \in Nat /\ Len(h) \in Nat
  OBVIOUS
<1>2. ASSUME NEW i \in 1 .. Len(g)
      PROVE  i + d \in 1 .. Len(f) /\ g[i] = f[i + d] /\ h[i] = g[i]
  BY <1>1, <1>2
<1>3. ASSUME NEW i \in 1 .. Len(h) PROVE i \in 1 .. Len(g) \/ (i = Len(h) /\ h # g)
  BY <1>1, <1>3
<1>4. \A i \in 1 .. Len(g) : h[i].staff => h[i].idx \in 1 .. T
  BY <1>2 DEF InOrder
<1>5. h # g /\ h[Len(h)].staff => h[Len(h)].idx \in T + 1 .. U
  OBVIOUS
<1>6. \A i \in 1 .. Len(h) : h[i].staff => h[i].idx \in 1 .. U
  BY <1>3, <1>4, <1>5
<1>7. ASSUME NEW i \in 1 .. Len(h), NEW k \in 1 .. Len(h), i < k, h[i].staff, h[k].staff
      PROVE  h[i].idx < h[k].idx
  <2>1. CASE k \in 1 .. Len(g)
    <3>1. i \in 1 .. Len(g)
      BY <1>1, <1>7, <2>1
    <3>2. i + d < k + d
      BY <1>7
    <3>3. h[i] = f[i + d] /\ h[k] = f[k + d] /\ i + d \in 1 .. Len(f) /\ k + d \in 1 .. Len(f)
      BY <1>2, <2>1, <3>1
    <3> QED
      BY <1>7, <3>2, <3>3 DEF InOrder, Ordered
  <2>2. CASE k = Len(h) /\ h # g
    <3>1. i \in 1 .. Len(g)
      BY <1>1, <1>7, <2>2
    <3>2. h[i].idx \in 1 .. T /\ h[k].idx \in T + 1 .. U
      BY <1>4, <1>5, <1>7, <2>2, <3>1
    <3>3. \A a \in 1 .. T, b \in T + 1 .. U : a < b
      OBVIOUS
    <3> QED
      BY <3>2, <3>3
  <2> QED
    BY <1>3, <2>1, <2>2
<1> QED
  BY <1>6, <1>7 DEF InOrder, Ordered

\* More serials at the server, a smaller count, a greater loss: less is claimed.
LEMMA ProgressWeaker ==
  ASSUME NEW f, NEW fp \in Nat, NEW c \in Nat, NEW c2 \in Nat, c2 <= c,
         NEW S, NEW U, S \subseteq U, IsFiniteSet(S), IsFiniteSet(U),
         NEW T \in Nat, \A s \in U : s <= T,
         NEW t \in Nat, NEW t2 \in Nat, NEW L \in Nat, NEW L2 \in Nat, L + t2 <= L2 + t,
         NEW z \in Nat, NEW z2 \in Nat, z <= z2, U \subseteq Nat,
         \A k \in fp + 1 .. Len(f) : f[k].staff => f[k].idx \in Nat,
         Progress(f, fp, c, S, t, T, L, z)
  PROVE  Progress(f, fp, c2, U, t2, T, L2, z2)
<1>1. PassedOver(f, fp, U) \subseteq PassedOver(f, fp, S)
  BY DEF PassedOver
<1>2. Before(f, fp, S) \subseteq Before(f, fp, U)
  BY DEF Before
<1>3. /\ c <= T /\ c <= Cardinality(Before(f, fp, S)) + z
      /\ Reposttime * Cardinality(PassedOver(f, fp, S)) + t <= L
      /\ \A k \in fp + 1 .. Len(f) : f[k].staff => c < f[k].idx
  BY DEF Progress
<1>4. Reposttime * Cardinality(PassedOver(f, fp, U)) + t2 <= L2
  BY <1>1, <1>3, PassedFewer
<1>5. c2 <= Cardinality(Before(f, fp, U)) + z2
  BY <1>2, <1>3, BeforeMore
<1>6. \A k \in fp + 1 .. Len(f) : f[k].staff => c2 < f[k].idx
  BY <1>3
<1> QED
  BY <1>3, <1>4, <1>5, <1>6 DEF Progress

\* A start from nothing claims nothing.
LEMMA ProgressNone ==
  ASSUME NEW f \in Seq(Record), NEW T \in Nat, InOrder(f, T), NEW S, IsFiniteSet(S),
         \A s \in S : s <= T, NEW L \in Nat, NEW z \in Nat
  PROVE  Progress(f, 0, 0, S, 0, T, L, z)
<1>1. PassedOver(f, 0, S) = {}
  BY DEF PassedOver
<1>2. Cardinality(PassedOver(f, 0, S)) = 0
  BY <1>1, FS_EmptySet
<1>3. Reposttime * Cardinality(PassedOver(f, 0, S)) + 0 <= L
  BY <1>2, ReposttimeAssumption, Times
<1>4. Cardinality(Before(f, 0, S)) \in Nat
  BY BeforeFinite
<1>5. \A k \in 0 + 1 .. Len(f) : f[k].staff => 0 < f[k].idx
  BY DEF InOrder
<1> QED
  BY <1>3, <1>4, <1>5 DEF Progress

LEMMA OneMore ==
  ASSUME NEW S, IsFiniteSet(S), NEW x
  PROVE  /\ IsFiniteSet(S \cup {x}) /\ Cardinality(S \cup {x}) \in Nat
         /\ Cardinality(S) \in Nat
         /\ Cardinality(S \cup {x}) <= Cardinality(S) + 1
         /\ x \notin S => Cardinality(S \cup {x}) = Cardinality(S) + 1
<1>1. /\ IsFiniteSet(S \cup {x})
      /\ Cardinality(S \cup {x}) = IF x \in S THEN Cardinality(S) ELSE Cardinality(S) + 1
  BY FS_AddElement
<1>2. Cardinality(S) \in Nat
  BY FS_CardinalityType
<1> QED
  BY <1>1, <1>2

\* One record more may be passed over, at the price of Reposttime.
LEMMA OneMorePassed ==
  ASSUME NEW f, NEW g, NEW fp \in Nat, NEW gp \in Nat, NEW S, NEW U, NEW x,
         PassedOver(g, gp, U) \subseteq PassedOver(f, fp, S) \cup {x}
  PROVE  /\ Reposttime * Cardinality(PassedOver(g, gp, U)) \in Nat
         /\ Reposttime * Cardinality(PassedOver(f, fp, S)) \in Nat
         /\ Reposttime * Cardinality(PassedOver(g, gp, U))
              <= Reposttime * Cardinality(PassedOver(f, fp, S)) + Reposttime
<1> DEFINE P == PassedOver(f, fp, S)
           Q == PassedOver(g, gp, U)
<1>1. IsFiniteSet(P) /\ Cardinality(P) \in Nat /\ Cardinality(Q) \in Nat
  BY PassedFinite
<1> HIDE DEF P, Q
<1>2. /\ IsFiniteSet(P \cup {x}) /\ Cardinality(P \cup {x}) \in Nat
      /\ Cardinality(P \cup {x}) <= Cardinality(P) + 1
  BY <1>1, OneMore
<1>3. Cardinality(Q) <= Cardinality(P \cup {x})
  BY <1>2, FS_Subset DEF P, Q
<1>4. Cardinality(Q) <= Cardinality(P) + 1 /\ Cardinality(P) + 1 \in Nat
  BY <1>1, <1>2, <1>3
<1>5. Reposttime * Cardinality(Q) <= Reposttime * (Cardinality(P) + 1)
  BY <1>1, <1>4, ReposttimeAssumption, Times
<1>6. /\ Reposttime * (Cardinality(P) + 1) = Reposttime * Cardinality(P) + Reposttime * 1
      /\ Reposttime * 1 = Reposttime
      /\ Reposttime * Cardinality(P) \in Nat /\ Reposttime * Cardinality(Q) \in Nat
  BY <1>1, ReposttimeAssumption, Times
<1> QED
  BY <1>5, <1>6 DEF P, Q

\* The packet of the record with serial x is given up.
LEMMA ProgressGivenUp ==
  ASSUME NEW f \in Seq(Record), NEW T \in Nat, InOrder(f, T),
         NEW fp \in Nat, NEW c \in Nat, NEW S, NEW x \in Nat,
         IsFiniteSet(S), S \subseteq Nat,
         NEW t \in Nat, Reposttime <= t, NEW L \in Nat, NEW z \in Nat,
         Progress(f, fp, c + 1, S \cup {x}, t, T, L, z)
  PROVE  Progress(f, fp, c, S, 0, T, L, z)
<1> DEFINE V == S \cup {x}
<1>1. IsFiniteSet(V) /\ V \subseteq Nat /\ Len(f) \in Nat
  BY FS_AddElement
<1>2. /\ c + 1 <= T /\ (\A s \in V : s <= T) /\ c + 1 <= Cardinality(Before(f, fp, V)) + z
      /\ \A k \in fp + 1 .. Len(f) : f[k].staff => c + 1 < f[k].idx
      /\ Reposttime * Cardinality(PassedOver(f, fp, V)) + t <= L
  BY DEF Progress
<1>3. \E y : PassedOver(f, fp, S) \subseteq PassedOver(f, fp, V) \cup {y}
  <2> DEFINE At == {i \in 1 .. Len(f) : f[i].staff /\ f[i].idx = x}
  <2>1. PassedOver(f, fp, S) \subseteq PassedOver(f, fp, V) \cup At
    <3> SUFFICES ASSUME NEW i \in PassedOver(f, fp, S), i \notin At
                 PROVE  i \in PassedOver(f, fp, V)
      OBVIOUS
    <3> QED
      BY <1>1 DEF PassedOver
  <2>2. \A i, k \in At : i = k
    <3> SUFFICES ASSUME NEW i \in At, NEW k \in At, i < k PROVE FALSE
      OBVIOUS
    <3>1. f[i].idx < f[k].idx
      BY DEF InOrder, Ordered
    <3> QED
      BY <3>1
  <2> HIDE DEF At, V
  <2> QED
    BY <2>1, <2>2
<1>4. PICK y : PassedOver(f, fp, S) \subseteq PassedOver(f, fp, V) \cup {y}
  BY <1>3
<1> HIDE DEF V
<1>5. Reposttime * Cardinality(PassedOver(f, fp, S)) + 0 <= L
  <2>1. /\ Reposttime * Cardinality(PassedOver(f, fp, S)) \in Nat
        /\ Reposttime * Cardinality(PassedOver(f, fp, V)) \in Nat
        /\ Reposttime * Cardinality(PassedOver(f, fp, S))
             <= Reposttime * Cardinality(PassedOver(f, fp, V)) + Reposttime
    BY <1>4, OneMorePassed
  <2>2. Reposttime * Cardinality(PassedOver(f, fp, V)) + t <= L
    BY <1>2
  <2> QED
    BY <2>1, <2>2, ReposttimeAssumption
<1>6. c <= Cardinality(Before(f, fp, S)) + z
  <2>1. Before(f, fp, V) \subseteq Before(f, fp, S) \cup {x}
    BY DEF Before, V
  <2>2. IsFiniteSet(Before(f, fp, S)) /\ Cardinality(Before(f, fp, S)) \in Nat
        /\ Cardinality(Before(f, fp, V)) \in Nat
    BY <1>1, BeforeFinite
  <2> DEFINE B == Before(f, fp, S)
             C == Before(f, fp, V)
  <2> HIDE DEF B, C
  <2>3. IsFiniteSet(B \cup {x}) /\ Cardinality(B \cup {x}) \in Nat
        /\ Cardinality(B \cup {x}) <= Cardinality(B) + 1
    BY <2>2, OneMore DEF B
  <2>4. Cardinality(C) <= Cardinality(B \cup {x})
    BY <2>1, <2>3, FS_Subset DEF B, C
  <2>5. c + 1 <= Cardinality(C) + z /\ Cardinality(B) \in Nat /\ Cardinality(C) \in Nat
    BY <1>2, <2>2 DEF B, C
  <2> QED
    BY <2>3, <2>4, <2>5 DEF B
<1>7. \A s \in S : s <= T
  BY <1>2 DEF V
<1>8. \A k \in fp + 1 .. Len(f) : f[k].staff => c < f[k].idx
  <2> TAKE k \in fp + 1 .. Len(f)
  <2>1. k \in 1 .. Len(f)
    BY <1>1
  <2>2. f[k].staff => f[k].idx \in Nat
    BY <2>1 DEF InOrder
  <2> QED
    BY <1>2, <2>2
<1> QED
  BY <1>2, <1>5, <1>6, <1>7, <1>8 DEF Progress

\* FDB_GetAttByIndex skips nobody: what lies between the old position and the
\* record found are strangers', since every later serial is above the count.
LEMMA NextRecord ==
  ASSUME NEW f \in Seq(Record), NEW T \in Nat, InOrder(f, T),
         NEW fp \in Nat, NEW c \in Nat, NEW S, IsFiniteSet(S), S \subseteq Nat,
         NEW t \in Nat, NEW L \in Nat, NEW z \in Nat,
         Progress(f, fp, c, S, t, T, L, z)
  PROVE  LET hit == GetAttByIndex(f, fp, c)
         IN  IF hit.found
             THEN /\ hit.fp \in fp + 1 .. Len(f) /\ hit.at = hit.fp /\ f[hit.fp].staff
                  /\ Progress(f, hit.fp, c + 1, S \cup {f[hit.fp].idx}, t, T, L, z)
                  /\ Progress(f, hit.fp, c + 1, S, t, T, L + Reposttime, z + 1)
             ELSE hit.fp = Len(f) /\ Progress(f, hit.fp, c, S, t, T, L, z)
<1> DEFINE H == Hits(f, fp, c)
           first == CHOOSE i \in H : \A k \in H : i <= k
<1>1. /\ c <= T /\ (\A s \in S : s <= T) /\ c <= Cardinality(Before(f, fp, S)) + z
      /\ \A k \in fp + 1 .. Len(f) : f[k].staff => c < f[k].idx
      /\ Reposttime * Cardinality(PassedOver(f, fp, S)) + t <= L
      /\ Len(f) \in Nat
  BY DEF Progress
<1>2. \A k \in fp + 1 .. Len(f) : k \in 1 .. Len(f) /\ k \in Nat /\ (f[k].staff => f[k].idx \in 1 .. T)
  BY <1>1 DEF InOrder
<1>3. \A k \in fp + 1 .. Len(f) : f[k].staff <=> k \in H
  BY <1>1, <1>2 DEF Hits
<1>4. H \in SUBSET (fp + 1 .. Len(f)) /\ H \in SUBSET Nat
  BY <1>1 DEF Hits
<1>5. CASE H = {}
  <2>1. GetAttByIndex(f, fp, c) = [found |-> FALSE, at |-> 0, fp |-> Len(f)]
    BY <1>5 DEF GetAttByIndex
  <2> HIDE DEF H, first
  <2>2. PassedOver(f, Len(f), S) \subseteq PassedOver(f, fp, S)
    <3> SUFFICES ASSUME NEW i \in PassedOver(f, Len(f), S) PROVE i \in PassedOver(f, fp, S)
      OBVIOUS
    <3>1. i \in 1 .. Len(f) /\ f[i].staff /\ f[i].idx \notin S
      BY <1>1 DEF PassedOver
    <3>2. i \notin fp + 1 .. Len(f)
      BY <1>3, <1>5, <3>1
    <3>3. i \in 1 .. fp
      BY <1>1, <3>1, <3>2
    <3> QED
      BY <3>1, <3>3 DEF PassedOver
  <2>3. Before(f, fp, S) \subseteq Before(f, Len(f), S)
    BY <1>1 DEF Before
  <2>4. Reposttime * Cardinality(PassedOver(f, Len(f), S)) + t <= L
    BY <1>1, <2>2, PassedFewer
  <2>5. c <= Cardinality(Before(f, Len(f), S)) + z
    BY <1>1, <2>3, BeforeMore
  <2>6. \A k \in Len(f) + 1 .. Len(f) : f[k].staff => c < f[k].idx
    BY <1>1
  <2>7. Progress(f, Len(f), c, S, t, T, L, z)
    BY <1>1, <2>4, <2>5, <2>6 DEF Progress
  <2> QED
    BY <2>1, <2>7
<1>6. CASE H # {}
  <2>1. \E i \in H : \A k \in H : i <= k
    BY <1>4, <1>6, FirstOf
  <2>2. first \in H /\ \A k \in H : first <= k
    BY <2>1
  <2>3. GetAttByIndex(f, fp, c) = [found |-> TRUE, at |-> first, fp |-> first]
    BY <1>6 DEF GetAttByIndex
  <2> DEFINE x == f[first].idx
             V == S \cup {x}
  <2> HIDE DEF H, first
  <2>4. /\ first \in fp + 1 .. Len(f) /\ first \in 1 .. Len(f) /\ first \in Nat
        /\ f[first].staff /\ x \in 1 .. T /\ x \in Nat /\ c < x /\ fp < first
    BY <1>1, <1>2, <1>3, <1>4, <2>2
  <2>5. ASSUME NEW i \in fp + 1 .. Len(f), i < first PROVE ~f[i].staff
    BY <1>2, <1>3, <2>2, <2>4, <2>5
  <2>6. \A k \in first + 1 .. Len(f) : f[k].staff => x < f[k].idx /\ f[k].idx \in Nat
    <3> SUFFICES ASSUME NEW k \in first + 1 .. Len(f), f[k].staff
                 PROVE  x < f[k].idx /\ f[k].idx \in Nat
      OBVIOUS
    <3>1. k \in 1 .. Len(f) /\ first < k
      BY <1>1, <2>4
    <3> QED
      BY <2>4, <3>1 DEF InOrder, Ordered
  <2>7. \A k \in first + 1 .. Len(f) : f[k].staff => c + 1 < f[k].idx
    BY <2>4, <2>6
  <2>8. PassedOver(f, first, S) \subseteq PassedOver(f, fp, S) \cup {first}
        /\ PassedOver(f, first, V) \subseteq PassedOver(f, fp, S)
    <3>1. ASSUME NEW i \in 1 .. first, i # first, f[i].staff PROVE i \in 1 .. fp
      BY <1>1, <2>4, <2>5, <3>1
    <3>2. \A i \in 1 .. first : ~(i > Len(f))
      BY <1>1, <2>4
    <3> QED
      BY <2>4, <3>1, <3>2 DEF PassedOver
  <2>9. /\ Before(f, fp, S) \cup {x} \subseteq Before(f, first, V)
        /\ Before(f, fp, S) \subseteq Before(f, first, S)
        /\ x \notin Before(f, fp, S)
    <3>1. \A k \in first + 1 .. Len(f) : k \in fp + 1 .. Len(f)
      BY <1>1, <2>4
    <3>2. ASSUME x \in Before(f, fp, S) PROVE FALSE
      <4>1. x < x
        BY <2>4, <3>2 DEF Before
      <4> QED
        BY <2>4, <4>1
    <3>3. x \in Before(f, first, V)
      BY <2>6 DEF Before
    <3>4. Before(f, fp, S) \subseteq Before(f, first, S)
      BY <3>1 DEF Before
    <3>5. Before(f, first, S) \subseteq Before(f, first, V)
      BY DEF Before
    <3> HIDE DEF x, V
    <3> QED
      BY <3>2, <3>3, <3>4, <3>5
  <2>10. IsFiniteSet(V) /\ \A s \in V : s <= T
    <3>1. \A s \in V : s <= T
      BY <1>1, <2>4
    <3>2. IsFiniteSet(V)
      BY OneMore
    <3> QED
      BY <3>1, <3>2
  <2> HIDE DEF x, V
  <2>11. c + 1 <= Cardinality(Before(f, first, V)) + z
    <3>1. IsFiniteSet(Before(f, fp, S)) /\ Cardinality(Before(f, fp, S)) \in Nat
          /\ IsFiniteSet(Before(f, first, V)) /\ Cardinality(Before(f, first, V)) \in Nat
      BY <2>10, BeforeFinite
    <3>2. Cardinality(Before(f, fp, S) \cup {x}) = Cardinality(Before(f, fp, S)) + 1
      BY <2>9, <3>1, FS_AddElement
    <3>3. Cardinality(Before(f, fp, S) \cup {x}) <= Cardinality(Before(f, first, V))
      BY <2>9, <3>1, FS_Subset
    <3> QED
      BY <1>1, <3>1, <3>2, <3>3
  <2>12. c + 1 <= Cardinality(Before(f, first, S)) + (z + 1)
    BY <1>1, <2>9, BeforeMore
  <2>13. Reposttime * Cardinality(PassedOver(f, first, V)) + t <= L
    <3>1. /\ Reposttime * Cardinality(PassedOver(f, first, V)) \in Nat
          /\ Reposttime * Cardinality(PassedOver(f, fp, S)) \in Nat
          /\ Reposttime * Cardinality(PassedOver(f, first, V))
               <= Reposttime * Cardinality(PassedOver(f, fp, S))
      BY <2>4, <2>8, PassedFewer
    <3> QED
      BY <1>1, <3>1
  <2>14. Reposttime * Cardinality(PassedOver(f, first, S)) + t <= L + Reposttime
    <3>1. /\ Reposttime * Cardinality(PassedOver(f, first, S)) \in Nat
          /\ Reposttime * Cardinality(PassedOver(f, fp, S)) \in Nat
          /\ Reposttime * Cardinality(PassedOver(f, first, S))
               <= Reposttime * Cardinality(PassedOver(f, fp, S)) + Reposttime
      BY <2>4, <2>8, OneMorePassed
    <3> QED
      BY <1>1, <3>1, ReposttimeAssumption
  <2>15. c + 1 <= T
    BY <2>4
  <2>16. Progress(f, first, c + 1, V, t, T, L, z)
    BY <2>7, <2>10, <2>11, <2>13, <2>15 DEF Progress
  <2>17. Progress(f, first, c + 1, S, t, T, L + Reposttime, z + 1)
    BY <1>1, <2>7, <2>12, <2>14, <2>15 DEF Progress
  <2> QED
    BY <2>3, <2>4, <2>16, <2>17 DEF V, x
<1> QED
  BY <1>5, <1>6

-----------------------------------------------------------------------------
(* ... and its invariant.                                                   *)

\* What was lost so far, in failed attempts: Reposttime for each record that a
\* wrong answer, a deleted person or a deletion of the oldest may cost.
Loss == Spent("try") + Reposttime * (Spent("badlen") + Spent("deleted") + dropped)

\* A record was read and waits in attbuffer; it is on its way, with its serial
\* (a deleted person's has none).
Held     == (ppc = "answering" /\ reclenght = 1) \/ Answered > 0
InFlight == Held \/ cpc = "post"
Flying   == IF InFlight /\ attbuffer.staff THEN {attbuffer.idx} ELSE {}

\* The progress kept on flash, and the one in RAM, where the record on its way
\* is passed over already.
OrderInv  == InOrder(file, top)
SavedInv  == Progress(file, bsatt.curfp, bsatt.currec, got, 0, top, Loss, Spent("deleted"))
CursorInv ==
  Progress(file, curfp, IF InFlight THEN currec + 1 ELSE currec, got \cup Flying,
           IF cpc = "post" THEN j ELSE 0, top, Loss, Spent("deleted"))

\* The packet is the buffer.
Carried ==
  /\ Held => reclenght = 1
  /\ cpc = "post" => packet = [rec |-> attbuffer, count |-> 1]

Accounted == OrderInv /\ SavedInv /\ CursorInv /\ Carried
LossInv   == IsFiniteSet(got) /\ (Followed => Accounted)

\* The account: what one event adds to it.
LEMMA SpentTypes ==
  ASSUME UploadTypeOK, UploadTypeOK', TokenInv, [UNext]_allvars, NEW event \in Events
  PROVE  Spent(event) \in Nat /\ Spent(event)' \in Nat /\ Spent(event) <= Spent(event)'
<1>1. Budget[event] \in Nat /\ budget[event] \in Nat /\ budget'[event] \in Nat
  BY BudgetAssumption DEF UploadTypeOK
<1>2. budget[event] <= Budget[event] /\ budget'[event] <= budget[event]
  BY BudgetFalls DEF TokenInv
<1> QED
  BY <1>1, <1>2 DEF Spent

LEMMA SpentOnce ==
  ASSUME UploadTypeOK, NEW event \in Events, Spend(event)
  PROVE  /\ Spent(event)' = Spent(event) + 1
         /\ \A other \in Events \ {event} : Spent(other)' = Spent(other)
<1>1. budget \in [Events -> Nat] /\ Budget \in [Events -> Nat]
  BY BudgetAssumption DEF UploadTypeOK
<1>2. budget' = [budget EXCEPT ![event] = budget[event] - 1]
  BY DEF Spend
<1> QED
  BY <1>1, <1>2 DEF Spent

LEMMA LossTypes ==
  ASSUME UploadTypeOK, UploadTypeOK', TokenInv, [UNext]_allvars
  PROVE  /\ Loss \in Nat /\ Loss' \in Nat
         /\ Spent("deleted") \in Nat /\ Spent("deleted")' \in Nat
         /\ Spent("deleted") <= Spent("deleted")'
         /\ dropped' = dropped => Loss <= Loss'
<1> DEFINE a == Spent("badlen") + Spent("deleted") + dropped
           b == Spent("badlen")' + Spent("deleted")' + dropped'
<1>1. {"try", "badlen", "deleted"} \subseteq Events
  BY DEF Events
<1>2. dropped \in Nat /\ dropped' \in Nat
  BY DEF UploadTypeOK
<1>3. \A event \in {"try", "badlen", "deleted"} :
        Spent(event) \in Nat /\ Spent(event)' \in Nat /\ Spent(event) <= Spent(event)'
  BY <1>1, SpentTypes
<1>4. a \in Nat /\ b \in Nat /\ (dropped' = dropped => a <= b)
  BY <1>2, <1>3
<1>5. Loss = Spent("try") + Reposttime * a /\ Loss' = Spent("try")' + Reposttime * b
  BY DEF Loss
<1> HIDE DEF a, b
<1>6. Reposttime * a \in Nat /\ Reposttime * b \in Nat
      /\ (a <= b => Reposttime * a <= Reposttime * b)
  BY <1>4, ReposttimeAssumption, Times
<1> QED
  BY <1>3, <1>4, <1>5, <1>6

LEMMA LossMoves ==
  ASSUME UploadTypeOK, UploadTypeOK', TokenInv, [UNext]_allvars
  PROVE  /\ Spend("try") /\ dropped' = dropped => Loss' = Loss + 1
         /\ Spend("badlen") /\ dropped' = dropped => Loss' = Loss + Reposttime
         /\ Spend("deleted") /\ dropped' = dropped
              => Loss' = Loss + Reposttime /\ Spent("deleted")' = Spent("deleted") + 1
         /\ \A d \in Nat : UNCHANGED budget /\ dropped' = dropped + d
              => /\ Loss' = Loss + Reposttime * d
                 /\ Spent("deleted")' = Spent("deleted")
<1> DEFINE x == Spent("try")
           y == Spent("try")'
           a == Spent("badlen") + Spent("deleted") + dropped
           b == Spent("badlen")' + Spent("deleted")' + dropped'
<1>1. {"try", "badlen", "deleted"} \subseteq Events
  BY DEF Events
<1>2. dropped \in Nat /\ dropped' \in Nat
  BY DEF UploadTypeOK
<1>3. \A event \in {"try", "badlen", "deleted"} :
        Spent(event) \in Nat /\ Spent(event)' \in Nat /\ Spent(event) <= Spent(event)'
  BY <1>1, SpentTypes
<1>4. a \in Nat /\ b \in Nat /\ x \in Nat /\ y \in Nat
  BY <1>2, <1>3
<1>5. Loss = x + Reposttime * a /\ Loss' = y + Reposttime * b
  BY DEF Loss
<1>6. /\ Spend("try") /\ dropped' = dropped => y = x + 1 /\ b = a
      /\ Spend("badlen") /\ dropped' = dropped => y = x /\ b = a + 1
      /\ Spend("deleted") /\ dropped' = dropped
           => y = x /\ b = a + 1 /\ Spent("deleted")' = Spent("deleted") + 1
  <2>1. ASSUME NEW event \in {"try", "badlen", "deleted"}, Spend(event)
        PROVE  /\ Spent(event)' = Spent(event) + 1
               /\ \A other \in {"try", "badlen", "deleted"} \ {event} :
                    Spent(other)' = Spent(other)
    BY <1>1, <2>1, SpentOnce
  <2>2. Spend("try") => /\ Spent("try")' = Spent("try") + 1
                        /\ Spent("badlen")' = Spent("badlen")
                        /\ Spent("deleted")' = Spent("deleted")
    BY <2>1
  <2>3. Spend("badlen") => /\ Spent("badlen")' = Spent("badlen") + 1
                           /\ Spent("try")' = Spent("try")
                           /\ Spent("deleted")' = Spent("deleted")
    BY <2>1
  <2>4. Spend("deleted") => /\ Spent("deleted")' = Spent("deleted") + 1
                            /\ Spent("try")' = Spent("try")
                            /\ Spent("badlen")' = Spent("badlen")
    BY <2>1
  <2> QED
    BY <1>2, <1>3, <2>2, <2>3, <2>4
<1>7. \A d \in Nat : UNCHANGED budget /\ dropped' = dropped + d
        => y = x /\ b = a + d /\ Spent("deleted")' = Spent("deleted")
  <2> SUFFICES ASSUME NEW d \in Nat, UNCHANGED budget, dropped' = dropped + d
               PROVE  y = x /\ b = a + d /\ Spent("deleted")' = Spent("deleted")
    OBVIOUS
  <2>1. \A event \in {"try", "badlen", "deleted"} : Spent(event)' = Spent(event)
    BY DEF Spent
  <2> QED
    BY <1>2, <1>3, <2>1
<1> HIDE DEF a, b, x, y
<1>8. /\ Reposttime * a \in Nat /\ Reposttime * (a + 1) = Reposttime * a + Reposttime
      /\ \A d \in Nat : /\ Reposttime * (a + d) = Reposttime * a + Reposttime * d
                        /\ Reposttime * d \in Nat
  <2>1. ASSUME NEW d \in Nat
        PROVE  /\ Reposttime * (a + d) = Reposttime * a + Reposttime * d
               /\ Reposttime * d \in Nat /\ Reposttime * 1 = Reposttime
    BY <1>4, <2>1, ReposttimeAssumption, Times
  <2>2. Reposttime * a \in Nat
    BY <1>4, ReposttimeAssumption, Times
  <2> QED
    BY <2>1, <2>2
<1>9. /\ Spend("try") /\ dropped' = dropped => Loss' = Loss + 1
      /\ Spend("badlen") /\ dropped' = dropped => Loss' = Loss + Reposttime
      /\ Spend("deleted") /\ dropped' = dropped => Loss' = Loss + Reposttime
  BY <1>4, <1>5, <1>6, <1>8, ReposttimeAssumption
<1>10. \A d \in Nat : UNCHANGED budget /\ dropped' = dropped + d
         => Loss' = Loss + Reposttime * d
  <2> SUFFICES ASSUME NEW d \in Nat, UNCHANGED budget, dropped' = dropped + d
               PROVE  Loss' = Loss + Reposttime * d
    OBVIOUS
  <2>1. y = x /\ b = a + d
    BY <1>7
  <2>2. Reposttime * b = Reposttime * a + Reposttime * d /\ Reposttime * d \in Nat
    BY <1>8, <2>1
  <2> QED
    BY <1>4, <1>5, <1>8, <2>1, <2>2
<1> QED
  BY <1>6, <1>7, <1>9, <1>10

-----------------------------------------------------------------------------
(* What the log does in a step.                                             *)

\* FDB_AddAttLog, while serials stay below MaxLog: one record at the end.
LEMMA AddAttLogAppends ==
  ASSUME NEW f \in Seq(Record), NEW c \in Nat, NEW staff \in BOOLEAN,
         NEW outcome \in WriteOutcomes,
         TypeOK, AddAttLog(f, c, staff, outcome), ~wrapped'
  PROVE  \/ file' = f
         \/ /\ outcome # "failed"
            /\ Len(file') = Len(f) + 1 /\ \A i \in 1 .. Len(f) : file'[i] = f[i]
            /\ file'[Len(file')].staff = staff /\ file'[Len(file')].idx = Serial
<1>1. PICK rec \in Record :
           /\ rec.staff = staff
           /\ rec.idx = IF LoopWriteRecordOn THEN recindex' ELSE SensorNo
           /\ recindex' = IF LoopWriteRecordOn THEN recindex + 1 ELSE recindex
           /\ wrapped' = (wrapped \/ recindex' > MaxLog)
           /\ file' = IF outcome = "failed" THEN f
                      ELSE WriteAt(f, Position(f, recindex'), rec)
  BY AddAttLogStep
<1>2. recindex' \in Nat /\ recindex' <= MaxLog
  <2>1. recindex' \in Nat
    BY <1>1 DEF TypeOK
  <2>2. ~(recindex' > MaxLog)
    BY <1>1, Zenon
  <2> QED
    BY <2>1, <2>2, MaxLogAssumption
<1>3. Position(f, recindex') = Len(f) + 1
  BY <1>2, PositionAppends
<1> DEFINE g == WriteAt(f, Len(f) + 1, rec)
<1>4. /\ Len(g) = Len(f) + 1 /\ \A i \in 1 .. Len(f) : g[i] = f[i]
      /\ g[Len(g)] = rec
  <2> DEFINE n == Len(f) + 1
  <2>1. Len(f) \in Nat /\ n \in Nat \ {0} /\ n = Len(f) + 1 /\ MaxOf(n, Len(f)) = n
    BY DEF MaxOf
  <2> HIDE DEF n
  <2>2. /\ Len(WriteAt(f, n, rec)) = n
        /\ \A i \in 1 .. n :
             WriteAt(f, n, rec)[i]
               = IF i = n THEN rec ELSE IF i <= Len(f) THEN f[i] ELSE Hole
    BY <2>1, WriteAtFile
  <2>3. g = WriteAt(f, n, rec)
    BY DEF n
  <2> HIDE DEF g
  <2> QED
    BY <2>1, <2>2, <2>3
<1> HIDE DEF g
<1>5. rec.idx = Serial
  BY <1>1 DEF Serial
<1> QED
  BY <1>1, <1>3, <1>4, <1>5 DEF g

LEMMA SaveShape ==
  ASSUME TypeOK, TypeOK', UploadTypeOK, NEW outcome \in WriteOutcomes,
         SaveRecord(outcome) \/ SaveCardRecord(outcome), ~wrapped', ~reissued'
  PROVE  \E g \in Seq(Record), d \in Nat :
           /\ Len(g) = Len(file) - d /\ \A i \in 1 .. Len(g) : g[i] = file[i + d]
           /\ dropped' = dropped + d /\ top <= top'
           /\ \/ file' = g
              \/ /\ Len(file') = Len(g) + 1 /\ \A i \in 1 .. Len(g) : file'[i] = g[i]
                 /\ file'[Len(file')].staff => file'[Len(file')].idx \in top + 1 .. top'
<1>1. file \in Seq(Record) /\ file' \in Seq(Record) /\ CurAttLogCount \in Nat
      /\ top \in Nat /\ dropped \in Nat /\ Len(file) \in Nat
  BY DEF TypeOK, UploadTypeOK
<1>2. ASSUME SaveCardRecord(outcome)
      PROVE  /\ dropped' = dropped + 0 /\ top' = top
             /\ \/ file' = file
                \/ /\ Len(file') = Len(file) + 1
                   /\ \A i \in 1 .. Len(file) : file'[i] = file[i]
                   /\ ~file'[Len(file')].staff
  <2>1. AddAttLog(file, CurAttLogCount, FALSE, outcome) /\ UNCHANGED past
    BY <1>2 DEF SaveCardRecord, CardVerify
  <2>2. \/ file' = file
        \/ /\ Len(file') = Len(file) + 1
           /\ \A i \in 1 .. Len(file) : file'[i] = file[i]
           /\ file'[Len(file')].staff = FALSE
    BY <1>1, <2>1, AddAttLogAppends
  <2> QED
    BY <1>1, <2>1, <2>2 DEF past
<1>3. ASSUME SaveRecord(outcome)
      PROVE  /\ dropped' = dropped + (Len(file) - Len(CheckedFile)) /\ top <= top'
             /\ \/ file' = CheckedFile
                \/ /\ Len(file') = Len(CheckedFile) + 1
                   /\ \A i \in 1 .. Len(CheckedFile) : file'[i] = CheckedFile[i]
                   /\ file'[Len(file')].idx \in top + 1 .. top'
  <2>1. /\ SaveAttLog(CheckedFile, CheckedCount, Exceed, outcome)
        /\ dropped' = dropped + Len(file) - Len(CheckedFile)
        /\ IF Exceed \/ outcome = "failed" THEN UNCHANGED <<top, reissued>>
           ELSE /\ top' = MaxOf(top, Serial)
                /\ reissued' = (reissued \/ Serial <= top)
    BY <1>3 DEF SaveRecord, Verify
  <2>2. CheckedFile \in Seq(Record) /\ Len(CheckedFile) \in Nat /\ CheckedCount \in Nat
    BY <1>1, CheckedShape DEF CheckedCount
  <2>3. Serial \in Nat
    BY OptionAssumption DEF Serial, TypeOK
  <2>4. dropped' = dropped + (Len(file) - Len(CheckedFile))
    BY <1>1, <2>1, <2>2
  <2>5. top <= top'
    BY <1>1, <2>1, <2>3 DEF MaxOf
  <2>6. CASE Exceed
    BY <2>1, <2>4, <2>5, <2>6 DEF SaveAttLog
  <2>7. CASE ~Exceed
    <3>1. AddAttLog(CheckedFile, CheckedCount, TRUE, outcome)
      BY <2>1, <2>7 DEF SaveAttLog
    <3>2. \/ file' = CheckedFile
          \/ /\ outcome # "failed" /\ Len(file') = Len(CheckedFile) + 1
             /\ \A i \in 1 .. Len(CheckedFile) : file'[i] = CheckedFile[i]
             /\ file'[Len(file')].idx = Serial
      BY <2>2, <3>1, AddAttLogAppends
    <3>3. outcome # "failed" => Serial \in top + 1 .. top'
      <4>1. outcome # "failed" => top' = MaxOf(top, Serial) /\ ~(Serial <= top)
        BY <2>1, <2>7, Zenon
      <4> QED
        BY <1>1, <2>3, <4>1 DEF MaxOf
    <3> QED
      BY <2>4, <2>5, <3>2, <3>3
  <2> QED
    BY <2>6, <2>7
<1>4. CASE SaveCardRecord(outcome)
  <2>1. 0 \in Nat /\ Len(file) = Len(file) - 0 /\ \A i \in 1 .. Len(file) : file[i] = file[i + 0]
    BY <1>1
  <2>2. top <= top
    BY <1>1
  <2> QED
    BY <1>1, <1>2, <1>4, <2>1, <2>2
<1>5. CASE SaveRecord(outcome)
  <2> DEFINE d == Len(file) - Len(CheckedFile)
  <2>1. /\ CheckedFile \in Seq(Record) /\ d \in Nat /\ Len(CheckedFile) = Len(file) - d
        /\ \A i \in 1 .. Len(CheckedFile) : CheckedFile[i] = file[i + d]
    BY <1>1, CheckedShape
  <2>2. /\ dropped' = dropped + d /\ top <= top'
        /\ \/ file' = CheckedFile
           \/ /\ Len(file') = Len(CheckedFile) + 1
              /\ \A i \in 1 .. Len(CheckedFile) : file'[i] = CheckedFile[i]
              /\ file'[Len(file')].idx \in top + 1 .. top'
    BY <1>3, <1>5
  <2> HIDE DEF d
  <2> QED
    BY <2>1, <2>2
<1> QED
  BY <1>4, <1>5

\* The other steps do not touch it.
LEMMA LogStays ==
  ASSUME [UNext]_allvars, ~Clear
  PROVE  \/ \E outcome \in WriteOutcomes : SaveRecord(outcome) \/ SaveCardRecord(outcome)
         \/ UNCHANGED <<file, wrapped, past>>
BY DEF UNext, ParentNext, ChildNext, ReloadData, Reload, Scan, ScanStep, ScanDone,
       EnterMenu, LeaveMenu, ReInit, UdpCall, Interrupt, ParentStatus, ParentTake,
       ParentRead, ParentAnswer, ParentClose, ChildInit, Nothing, FlagCommand,
       FromSvr, Swallow, SwallowEnd, PostAtt, TryFails, TryBadLength, TryAcked,
       SaveProgress, Posted, Reconnect, Paused, Heartbeat, PostDue, NotYet,
       Crash, Reboot, allvars, vars, uvars, past

LEMMA FollowedBefore ==
  ASSUME TypeOK, TypeOK', UploadTypeOK, UploadTypeOK', TokenInv, [UNext]_allvars,
         Followed'
  PROVE  Followed /\ ~Clear /\ ~Spend("udp") /\ ~wrapped' /\ ~reissued'
<1>1. {"clear", "udp"} \subseteq Events
  BY DEF Events
<1>2. /\ ~wrapped' /\ ~reissued'
      /\ \A event \in {"clear", "udp"} : budget'[event] = Budget[event]
  BY DEF Followed
<1>3. \A event \in {"clear", "udp"} : budget[event] = Budget[event] /\ ~Spend(event)
  BY <1>1, <1>2, UncalledBefore
<1>4. ~Clear
  BY <1>3 DEF Clear
<1>5. (wrapped => wrapped') /\ (reissued => reissued')
  <2>1. ASSUME NEW outcome \in WriteOutcomes, SaveRecord(outcome)
        PROVE  (wrapped => wrapped') /\ (reissued => reissued')
    <3>1. /\ SaveAttLog(CheckedFile, CheckedCount, Exceed, outcome)
          /\ reissued' = reissued \/ reissued' = (reissued \/ Serial <= top)
      BY <2>1 DEF SaveRecord, Verify
    <3>2. wrapped => wrapped'
      <4>1. \/ UNCHANGED wrapped
            \/ wrapped' = (wrapped \/ (IF LoopWriteRecordOn THEN recindex + 1
                                                          ELSE recindex) > MaxLog)
        BY <3>1 DEF SaveAttLog, AddAttLog
      <4> QED
        BY <4>1, Zenon
    <3>3. reissued => reissued'
      BY <3>1, Zenon
    <3> QED
      BY <3>2, <3>3
  <2>2. ASSUME NEW outcome \in WriteOutcomes, SaveCardRecord(outcome)
        PROVE  (wrapped => wrapped') /\ (reissued => reissued')
    BY <2>2 DEF SaveCardRecord, CardVerify, AddAttLog, past
  <2> QED
    BY <1>4, <2>1, <2>2, LogStays DEF past
<1> QED
  BY <1>2, <1>3, <1>4, <1>5 DEF Followed

-----------------------------------------------------------------------------
(* What the hand-over does in a step.                                       *)

\* There is one token: whoever has it, the others have none.
LEMMA OneHolder ==
  ASSUME UploadTypeOK, TokenInv, Uncalled
  PROVE  /\ Answered \in Nat
         /\ cpc = "off" => Answered = 0 /\ Reading = 0 /\ Sending = 0
         /\ Asked > 0 => Answered = 0 /\ Reading = 0 /\ Sending = 0
         /\ Answered > 0 => Reading = 0 /\ Sending = 0
         /\ Reading = 1 => Answered = 0 /\ Sending = 0
         /\ Sending = 1 => Answered = 0 /\ Reading = 0
<1>1. Tokens = IF cpc = "off" THEN 0 ELSE 1
  BY DEF TokenInv
<1>2. /\ gAttflag \in {0, 1} /\ Asked \in Nat /\ Answered \in Nat
      /\ Reading \in {0, 1} /\ Sending \in {0, 1}
      /\ Tokens = gAttflag + Asked + Answered + Reading + Sending
  BY Places
<1>3. Tokens \in {0, 1} /\ (cpc = "off" => Tokens = 0)
  BY <1>1
<1> HIDE DEF Asked, Answered, Reading, Sending
<1> QED
  BY <1>2, <1>3

LEMMA HeldPlaces ==
  ASSUME UploadTypeOK, TokenInv, Uncalled
  PROVE  /\ Held => cpc # "post" /\ cpc # "acked" /\ cpc # "posted" /\ cpc # "off"
         /\ ppc = "reading" => ~InFlight
         /\ cpc \in {"off", "acked", "posted"} => ~InFlight
         /\ Asked > 0 => ~InFlight /\ ppc # "answering"
<1>1. Answered \in Nat
  BY OneHolder
<1>2. /\ (Reading = 1 <=> ppc \in {"reading", "answering"})
      /\ (Reading = 0 <=> ppc \notin {"reading", "answering"})
      /\ (Sending = 1 <=> cpc \in {"post", "acked", "posted"})
      /\ (Sending = 0 <=> cpc \notin {"post", "acked", "posted"})
  BY DEF Reading, Sending
<1> HIDE DEF Asked, Answered, Reading, Sending
<1> QED
  BY <1>1, <1>2, OneHolder DEF Held, InFlight

\* A step that moves the record on its way no further.
Still ==
  /\ UNCHANGED <<bsatt, attbuffer, reclenght, currec, curfp, got>>
  /\ Held' <=> Held
  /\ cpc' = "post" <=> cpc = "post"
  /\ cpc' = "post" => UNCHANGED <<packet, j>>

LEMMA StillActions ==
  ASSUME UploadTypeOK, UploadTypeOK', TokenInv, Uncalled, [UNext]_allvars,
         \/ \E outcome \in WriteOutcomes : SaveRecord(outcome) \/ SaveCardRecord(outcome)
         \/ ReloadData \/ Scan \/ EnterMenu \/ LeaveMenu \/ ReInit
         \/ ParentStatus \/ ParentAnswer \/ ParentClose
         \/ Nothing \/ FlagCommand \/ FromSvr \/ Swallow \/ SwallowEnd
         \/ (Posted /\ cpc = "posted")
         \/ Reconnect \/ Paused \/ Heartbeat \/ PostDue \/ NotYet
         \/ UNCHANGED allvars
  PROVE  Still
<1>0. Answered \in Nat /\ Answered' \in Nat /\ toChild \in Seq(ParentCmds)
  BY Places, PlacesNext DEF UploadTypeOK
<1>1. UNCHANGED <<bsatt, attbuffer, reclenght, currec, curfp, got>>
  BY DEF SaveRecord, SaveCardRecord, ReloadData, Scan, EnterMenu, LeaveMenu, ReInit,
         Interrupt, ParentStatus, ParentAnswer, ParentClose, Nothing, FlagCommand,
         FromSvr, Swallow, SwallowEnd, Posted, Reconnect, Paused, Heartbeat, PostDue,
         NotYet, allvars, uvars, cursor
<1>3. (cpc' = "post" <=> cpc = "post") /\ (cpc' = "post" => UNCHANGED <<packet, j>>)
  BY DEF SaveRecord, SaveCardRecord, ReloadData, Scan, EnterMenu, LeaveMenu,
         ReInit, Interrupt, ParentStatus, ParentAnswer, ParentClose, Nothing,
         FlagCommand, FromSvr, Swallow, SwallowEnd, Posted, EndPost, Reconnect,
         Paused, Heartbeat, Online, PostDue, NotYet, allvars, uvars, posting
<1>4. Held' <=> Held
  <2>1. CASE \/ \E outcome \in WriteOutcomes :
                  SaveRecord(outcome) \/ SaveCardRecord(outcome)
             \/ ReloadData \/ Scan \/ EnterMenu \/ LeaveMenu \/ ReInit
    <3>1. Answered' = Answered
      BY <1>0, <2>1, IdleTells, TellQuiet
    <3>2. (ppc # "answering" /\ ppc' # "answering") \/ UNCHANGED ppc
      BY <2>1 DEF SaveRecord, SaveCardRecord, ReloadData, Scan, EnterMenu, LeaveMenu,
                  ReInit, Interrupt, ParentIdle, parent
    <3> QED
      BY <1>1, <3>1, <3>2 DEF Held
  <2>2. CASE FlagCommand \/ FromSvr \/ Swallow
    <3>1. toChild # <<>> /\ toChild' = Tail(toChild) /\ Head(toChild) # "POST_ATT" /\ ppc' = ppc
      BY <2>2 DEF FlagCommand, FromSvr, Swallow, parent
    <3>2. /\ Count(toChild, "POST_ATT") = Count(toChild', "POST_ATT") + 0
          /\ Count(toChild', "POST_ATT") \in Nat
      BY <1>0, <3>1, CountTail, WhereFinite
    <3>3. Answered' = Answered
      BY <3>2 DEF Answered
    <3> QED
      BY <1>1, <3>1, <3>3 DEF Held
  <2>3. CASE ParentAnswer
    <3>1. ppc = "answering" /\ ppc' = "closing" /\ cpc # "off" /\ reclenght \in {0, 1}
      <4>1. ppc = "answering" /\ ppc' = "closing" /\ reclenght \in {0, 1}
        BY <2>3 DEF ParentAnswer, UploadTypeOK
      <4>2. Reading = 1
        BY <4>1 DEF Reading
      <4> QED
        BY <4>1, <4>2, OneHolder
    <3>2. CASE reclenght = 0
      <4>1. toChild' = toChild
        BY <1>0, <2>3, <3>2 DEF ParentAnswer, Tell
      <4>2. Answered' = Answered
        BY <4>1 DEF Answered
      <4> QED
        BY <1>1, <3>1, <3>2, <4>2 DEF Held
    <3>3. CASE reclenght = 1
      <4>1. toChild' = toChild \o <<"POST_ATT">> /\ "POST_ATT" \in ParentCmds
        BY <2>3, <3>1, <3>3 DEF ParentAnswer, Tell, ParentCmds
      <4>2. toChild' = Append(toChild, "POST_ATT")
        BY <1>0, <4>1
      <4>3. Answered' = Answered + 1
        BY ZenonT(60), <1>0, <4>1, <4>2, CountAppend DEF Answered
      <4>4. Answered' > 0
        BY <1>0, <4>3
      <4> QED
        BY <3>1, <3>3, <4>4 DEF Held
    <3> QED
      BY <3>1, <3>2, <3>3
  <2>4. CASE \/ ParentStatus \/ ParentClose \/ Nothing \/ SwallowEnd \/ (Posted /\ cpc = "posted")
             \/ Reconnect \/ Paused \/ Heartbeat \/ PostDue \/ NotYet
             \/ UNCHANGED allvars
    <3>1. toChild' = toChild
      BY <2>4 DEF ParentStatus, ParentClose, Nothing, SwallowEnd, Posted, Reconnect,
                  Paused, Heartbeat, PostDue, NotYet, allvars, uvars
    <3>2. (ppc # "answering" /\ ppc' # "answering") \/ UNCHANGED ppc
      BY <2>4 DEF ParentStatus, ParentClose, Nothing, SwallowEnd, Posted, Reconnect,
                  Paused, Heartbeat, PostDue, NotYet, parent, allvars, uvars
    <3>3. Answered' = Answered
      BY <3>1 DEF Answered
    <3> QED
      BY <1>1, <3>2, <3>3 DEF Held
  <2> QED
    BY <2>1, <2>2, <2>3, <2>4
<1> QED
  BY <1>1, <1>3, <1>4 DEF Still

-----------------------------------------------------------------------------
(* The steps, with the account.                                             *)

LEMMA FlyingType ==
  ASSUME UploadTypeOK, IsFiniteSet(got)
  PROVE  IsFiniteSet(got \cup Flying) /\ got \cup Flying \subseteq Nat /\ got \subseteq Nat
<1>1. got \subseteq Nat /\ attbuffer \in Record
  BY DEF UploadTypeOK
<1>2. attbuffer.idx \in Nat
  BY <1>1 DEF Record
<1>3. Flying = {} \/ Flying = {attbuffer.idx}
  BY DEF Flying
<1>4. CASE Flying = {}
  BY <1>1, <1>4
<1>5. CASE Flying = {attbuffer.idx}
  BY <1>1, <1>2, <1>5, OneMore
<1> QED
  BY <1>3, <1>4, <1>5

\* On the same log a progress outlives what only adds to the loss.
LEMMA Later ==
  ASSUME TypeOK, UploadTypeOK, UploadTypeOK', TokenInv, [UNext]_allvars, OrderInv,
         UNCHANGED <<file, top, dropped>>,
         NEW fp \in Nat, NEW c \in Nat, NEW c2 \in Nat, c2 <= c,
         NEW S, NEW U, S \subseteq U, IsFiniteSet(S), IsFiniteSet(U), U \subseteq Nat,
         \A s \in U : s <= top,
         NEW t \in Nat, NEW t2 \in Nat, Loss + t2 <= Loss' + t,
         Progress(file, fp, c, S, t, top, Loss, Spent("deleted"))
  PROVE  Progress(file', fp, c2, U, t2, top', Loss', Spent("deleted")')
<1> DEFINE L == Loss
           M == Loss'
           y == Spent("deleted")
           z == Spent("deleted")'
<1>1. L \in Nat /\ M \in Nat /\ y \in Nat /\ z \in Nat /\ y <= z /\ L + t2 <= M + t
  BY LossTypes
<1>2. file \in Seq(Record) /\ top \in Nat
  BY DEF TypeOK, UploadTypeOK
<1>3. \A k \in fp + 1 .. Len(file) : file[k].staff => file[k].idx \in Nat
  BY <1>2 DEF OrderInv, InOrder
<1>4. Progress(file, fp, c, S, t, top, L, y)
  OBVIOUS
<1> HIDE DEF L, M, y, z
<1>5. Progress(file, fp, c2, U, t2, top, M, z)
  BY <1>1, <1>2, <1>3, <1>4, ProgressWeaker
<1> QED
  BY <1>5 DEF M, z

\* What is kept on flash, when nothing is written there.
LEMMA SavedLater ==
  ASSUME TypeOK, UploadTypeOK, UploadTypeOK', TokenInv, [UNext]_allvars, OrderInv,
         SavedInv, UNCHANGED <<file, top, dropped>>, IsFiniteSet(got),
         bsatt'.curfp = bsatt.curfp, bsatt'.currec = bsatt.currec,
         got \subseteq got', IsFiniteSet(got'), \A s \in got' : s <= top
  PROVE  SavedInv' /\ OrderInv'
<1>1. bsatt.curfp \in Nat /\ bsatt.currec \in Nat /\ got' \subseteq Nat
      /\ bsatt.currec <= bsatt.currec
  BY DEF UploadTypeOK
<1>2. Loss + 0 <= Loss' + 0
  BY LossTypes
<1>3. Progress(file', bsatt.curfp, bsatt.currec, got', 0, top', Loss', Spent("deleted")')
  BY <1>1, <1>2, Later DEF SavedInv
<1> QED
  BY <1>3 DEF SavedInv, OrderInv

LEMMA StillAccounted ==
  ASSUME TypeOK, TypeOK', UploadTypeOK, UploadTypeOK', TokenInv, [UNext]_allvars,
         Accounted, IsFiniteSet(got), UNCHANGED <<file, past>>, Still
  PROVE  Accounted'
<1> DEFINE c == IF InFlight THEN currec + 1 ELSE currec
           t == IF cpc = "post" THEN j ELSE 0
           S == got \cup Flying
<1>1. UNCHANGED <<file, top, dropped>> /\ OrderInv
  BY DEF past, Accounted
<1>2. /\ UNCHANGED <<bsatt, attbuffer, reclenght, currec, curfp, got>>
      /\ (InFlight' <=> InFlight)
  BY DEF Still, InFlight
<1>3. S' = S /\ c' = c /\ t' = t
  BY <1>2 DEF Still, Flying
<1>4. IsFiniteSet(S) /\ S \subseteq Nat /\ c \in Nat /\ t \in Nat /\ c <= c /\ curfp \in Nat
  BY FlyingType DEF UploadTypeOK
<1>5. Progress(file, curfp, c, S, t, top, Loss, Spent("deleted"))
  BY DEF Accounted, CursorInv
<1>6. (\A s \in S : s <= top) /\ (\A s \in got : s <= top)
  BY <1>5 DEF Progress
<1>7. Loss + t <= Loss' + t
  BY <1>1, <1>4, LossTypes
<1> HIDE DEF c, t, S
<1>8. Progress(file', curfp, c, S, t, top', Loss', Spent("deleted")')
  BY <1>1, <1>4, <1>5, <1>6, <1>7, Later
<1>9. CursorInv'
  BY <1>2, <1>3, <1>8 DEF CursorInv, c, t, S
<1>10. SavedInv' /\ OrderInv'
  BY <1>1, <1>2, <1>6, SavedLater DEF Accounted
<1>11. Carried'
  BY <1>2 DEF Still, Accounted, Carried
<1> QED
  BY <1>9, <1>10, <1>11 DEF Accounted

LEMMA SaveAccounted ==
  ASSUME TypeOK, TypeOK', UploadTypeOK, UploadTypeOK', TokenInv, [UNext]_allvars,
         Accounted, IsFiniteSet(got), NEW outcome \in WriteOutcomes,
         SaveRecord(outcome) \/ SaveCardRecord(outcome), ~wrapped', ~reissued', Still
  PROVE  Accounted'
<1> DEFINE c == IF InFlight THEN currec + 1 ELSE currec
           t == IF cpc = "post" THEN j ELSE 0
           S == got \cup Flying
<1>1. PICK g \in Seq(Record), d \in Nat :
           /\ Len(g) = Len(file) - d /\ \A i \in 1 .. Len(g) : g[i] = file[i + d]
           /\ dropped' = dropped + d /\ top <= top'
           /\ \/ file' = g
              \/ /\ Len(file') = Len(g) + 1 /\ \A i \in 1 .. Len(g) : file'[i] = g[i]
                 /\ file'[Len(file')].staff => file'[Len(file')].idx \in top + 1 .. top'
  BY SaveShape
<1>2. /\ UNCHANGED <<bsatt, attbuffer, reclenght, currec, curfp, got>>
      /\ (InFlight' <=> InFlight)
  BY DEF Still, InFlight
<1>3. S' = S /\ c' = c /\ t' = t
  BY <1>2 DEF Still, Flying
<1>4. /\ IsFiniteSet(S) /\ S \subseteq Nat /\ got \subseteq Nat
      /\ c \in Nat /\ t \in Nat /\ curfp \in Nat
      /\ bsatt.curfp \in Nat /\ bsatt.currec \in Nat
  <2>1. IsFiniteSet(S) /\ S \subseteq Nat /\ got \subseteq Nat
    BY FlyingType
  <2>2. /\ c \in Nat /\ t \in Nat /\ curfp \in Nat
        /\ bsatt.curfp \in Nat /\ bsatt.currec \in Nat
    BY DEF UploadTypeOK
  <2> QED
    BY <2>1, <2>2
<1>5. UNCHANGED budget
  BY DEF SaveRecord, SaveCardRecord
<1>6. Loss' = Loss + Reposttime * d /\ Spent("deleted")' = Spent("deleted")
      /\ Loss \in Nat /\ Spent("deleted") \in Nat
  BY <1>1, <1>5, LossMoves, LossTypes
<1>7. /\ file \in Seq(Record) /\ file' \in Seq(Record) /\ top \in Nat /\ top' \in Nat
  BY DEF TypeOK, UploadTypeOK
<1>8. OrderInv'
  BY <1>1, <1>7, OrderSave DEF Accounted, OrderInv
<1> HIDE DEF c, t, S
<1>9. Progress(file, curfp, c, S, t, top, Loss, Spent("deleted"))
  BY DEF Accounted, CursorInv, c, t, S
<1>10. Progress(file', curfp, c, S, t, top', Loss', Spent("deleted")')
  <2>1. Progress(file', curfp, c, S, t, top', Loss + Reposttime * d, Spent("deleted"))
    BY <1>1, <1>4, <1>6, <1>7, <1>9, ProgressSave
  <2> QED
    BY <1>6, <2>1
<1>11. CursorInv'
  BY <1>2, <1>3, <1>10 DEF CursorInv, c, t, S
<1>12. SavedInv'
  <2>1. Progress(file, bsatt.curfp, bsatt.currec, got, 0, top, Loss, Spent("deleted"))
    BY DEF Accounted, SavedInv
  <2>2. Progress(file', bsatt.curfp, bsatt.currec, got, 0, top', Loss + Reposttime * d,
                 Spent("deleted"))
    BY <1>1, <1>4, <1>6, <1>7, <2>1, ProgressSave
  <2> QED
    BY <1>2, <1>6, <2>2 DEF SavedInv
<1>13. Carried'
  BY <1>2 DEF Still, Accounted, Carried
<1> QED
  BY <1>8, <1>11, <1>12, <1>13 DEF Accounted

\* The steps that move the record on its way.  A question leaves the pipe.
LEMMA ParentTakeAccounted ==
  ASSUME TypeOK, TypeOK', UploadTypeOK, UploadTypeOK', TokenInv, [UNext]_allvars,
         Uncalled, Accounted, IsFiniteSet(got), ParentTake
  PROVE  Accounted'
<1>1. /\ toParent # <<>> /\ Head(toParent) = "READ_ATTLOG" /\ toParent \in Seq(ChildCmds)
      /\ ppc' = "reading"
      /\ UNCHANGED <<file, top, dropped, bsatt, reclenght, currec, curfp, got, toChild, cpc>>
  BY DEF ParentTake, UploadTypeOK, vars, past
<1>2. Asked > 0
  <2>1. Asked = Count(Tail(toParent), "READ_ATTLOG") + 1
        /\ Count(Tail(toParent), "READ_ATTLOG") \in Nat
    BY <1>1, CountTail, WhereFinite DEF Asked
  <2> QED
    BY <2>1
<1>3. ~InFlight /\ Answered = 0 /\ cpc # "post"
  BY <1>2, HeldPlaces, OneHolder DEF InFlight
<1>4. Answered' = 0
  BY <1>1, <1>3 DEF Answered
<1>5. ~Held' /\ ~InFlight' /\ cpc' # "post"
  BY <1>1, <1>3, <1>4 DEF Held, InFlight
<1>6. Progress(file, curfp, currec, got, 0, top, Loss, Spent("deleted")) /\ OrderInv
  BY <1>3 DEF Accounted, CursorInv, Flying
<1>7. \A s \in got : s <= top
  BY <1>6 DEF Progress
<1>8. got \subseteq Nat /\ curfp \in Nat /\ currec \in Nat /\ currec <= currec
  BY DEF UploadTypeOK
<1>9. Loss + 0 <= Loss' + 0
  BY <1>1, LossTypes
<1>10. Progress(file', curfp, currec, got, 0, top', Loss', Spent("deleted")')
  BY <1>1, <1>6, <1>7, <1>8, <1>9, Later
<1>11. CursorInv'
  BY <1>1, <1>5, <1>10 DEF CursorInv, Flying
<1>12. SavedInv' /\ OrderInv'
  BY <1>1, <1>7, SavedLater DEF Accounted
<1> QED
  BY <1>5, <1>11, <1>12 DEF Accounted, Carried

\* FDB_GetAttByIndex finds the next record, of a person who may be deleted.
LEMMA ParentReadAccounted ==
  ASSUME TypeOK, TypeOK', UploadTypeOK, UploadTypeOK', TokenInv, [UNext]_allvars,
         Uncalled, Accounted, IsFiniteSet(got), ParentRead
  PROVE  Accounted'
<1> DEFINE hit == GetAttByIndex(file, curfp, currec)
<1>1. /\ ppc = "reading" /\ ppc' = "answering" /\ curfp' = hit.fp
      /\ reclenght' = Length(hit)
      /\ \/ /\ attbuffer' = IF hit.found THEN file[hit.at] ELSE attbuffer
            /\ UNCHANGED budget
         \/ hit.found /\ Spend("deleted") /\ attbuffer' = Zero
      /\ UNCHANGED <<file, top, dropped, bsatt, currec, got, toChild, cpc>>
  BY DEF ParentRead, vars, past
<1>2. ~InFlight /\ Answered = 0 /\ cpc # "post"
  <2>1. Reading = 1
    BY <1>1 DEF Reading
  <2> QED
    BY <1>1, <2>1, HeldPlaces, OneHolder DEF InFlight
<1>3. /\ file \in Seq(Record) /\ curfp \in Nat /\ currec \in Nat /\ top \in Nat
      /\ got \subseteq Nat
  BY DEF TypeOK, UploadTypeOK
<1>4. Loss \in Nat /\ Spent("deleted") \in Nat /\ 0 \in Nat
  BY LossTypes
<1>5. Progress(file, curfp, currec, got, 0, top, Loss, Spent("deleted"))
      /\ InOrder(file, top)
  BY <1>2 DEF Accounted, CursorInv, Flying, OrderInv
<1>6. IF hit.found
      THEN /\ hit.fp \in curfp + 1 .. Len(file) /\ hit.at = hit.fp /\ file[hit.fp].staff
           /\ Progress(file, hit.fp, currec + 1, got \cup {file[hit.fp].idx}, 0, top, Loss,
                       Spent("deleted"))
           /\ Progress(file, hit.fp, currec + 1, got, 0, top, Loss + Reposttime,
                       Spent("deleted") + 1)
      ELSE /\ hit.fp = Len(file)
           /\ Progress(file, hit.fp, currec, got, 0, top, Loss, Spent("deleted"))
  BY <1>3, <1>4, <1>5, NextRecord
<1>7. hit.found \in BOOLEAN
  BY <1>3, GetAttByIndexHit
<1> HIDE DEF hit
<1>8. Answered' = 0
  BY <1>1, <1>2 DEF Answered
<1>9. cpc' # "post" /\ (Held' <=> hit.found) /\ (InFlight' <=> hit.found)
      /\ (hit.found => reclenght' = 1)
  BY <1>1, <1>2, <1>7, <1>8 DEF Held, InFlight, Length
<1>10. SavedInv' /\ OrderInv'
  <2>1. \A s \in got : s <= top
    BY <1>5 DEF Progress
  <2> QED
    BY <1>1, <2>1, SavedLater DEF Accounted
<1>11. CursorInv'
  <2>1. UNCHANGED budget => Loss' = Loss /\ Spent("deleted")' = Spent("deleted")
    BY <1>1 DEF Loss, Spent
  <2>2. CASE ~hit.found
    <3>1. UNCHANGED budget /\ Flying' = {}
      BY <1>1, <1>9, <2>2 DEF Flying
    <3> QED
      BY <1>1, <1>6, <1>9, <2>1, <2>2, <3>1 DEF CursorInv
  <2>3. CASE hit.found /\ UNCHANGED budget /\ attbuffer' = file[hit.at]
    <3>1. Flying' = {file[hit.fp].idx}
      BY <1>6, <1>9, <2>3 DEF Flying
    <3> QED
      BY <1>1, <1>6, <1>9, <2>1, <2>3, <3>1 DEF CursorInv
  <2>4. CASE hit.found /\ Spend("deleted") /\ attbuffer' = Zero
    <3>1. Flying' = {}
      BY <2>4 DEF Flying, Zero, Hole
    <3>2. Loss' = Loss + Reposttime /\ Spent("deleted")' = Spent("deleted") + 1
      BY <1>1, <2>4, LossMoves
    <3> QED
      BY <1>1, <1>6, <1>9, <2>4, <3>1, <3>2 DEF CursorInv
  <2> QED
    BY <1>1, <1>7, <2>2, <2>3, <2>4
<1>12. Carried'
  BY <1>9 DEF Carried
<1> QED
  BY <1>10, <1>11, <1>12 DEF Accounted

\* The packet is built from the buffer.
LEMMA PostAttAccounted ==
  ASSUME TypeOK, TypeOK', UploadTypeOK, UploadTypeOK', TokenInv, [UNext]_allvars,
         Uncalled, Accounted, IsFiniteSet(got), PostAtt
  PROVE  Accounted'
<1>1. cpc # "swallow"
  BY DEF TokenInv, NoUdp
<1>2. /\ toChild # <<>> /\ Head(toChild) = "POST_ATT" /\ toChild \in Seq(ParentCmds)
      /\ toChild' = Tail(toChild) /\ packet' = [rec |-> attbuffer, count |-> reclenght]
      /\ j' = 0 /\ cpc' = "post" /\ cpc = "top"
      /\ UNCHANGED <<file, top, dropped, bsatt, attbuffer, reclenght, currec, curfp, got,
                     ppc, budget>>
  BY <1>1 DEF PostAtt, UploadTypeOK, cursor, parent, vars, past
<1>3. Answered = Answered' + 1 /\ Answered' \in Nat /\ Answered > 0
  <2>1. /\ Count(toChild, "POST_ATT") = Count(toChild', "POST_ATT") + 1
        /\ Count(toChild', "POST_ATT") \in Nat
    BY <1>2, CountTail, WhereFinite
  <2> QED
    BY <2>1 DEF Answered
<1>4. Held /\ InFlight /\ Reading = 0 /\ Sending = 0 /\ reclenght = 1
  BY <1>3, OneHolder DEF Held, InFlight, Accounted, Carried
<1>5. InFlight'
  BY <1>2 DEF InFlight
<1>6. ~Held'
  <2>1. ppc' \notin {"reading", "answering"}
    BY <1>2, <1>4 DEF Reading
  <2>2. Answered' = 0
    <3>1. Tokens \in {0, 1} /\ Tokens = gAttflag + Asked + Answered + Reading + Sending
          /\ gAttflag \in {0, 1} /\ Asked \in Nat /\ Reading \in {0, 1} /\ Sending \in {0, 1}
          /\ Answered \in Nat
      BY Places DEF TokenInv
    <3>2. Answered <= 1
      BY <3>1
    <3> QED
      BY <1>3, <3>2 DEF Answered
  <2> QED
    BY <2>1, <2>2 DEF Held
<1>7. Loss' = Loss /\ Spent("deleted")' = Spent("deleted")
  BY <1>2 DEF Loss, Spent
<1>8. CursorInv'
  <2>1. Progress(file, curfp, currec + 1, got \cup Flying, 0, top, Loss, Spent("deleted"))
    BY <1>2, <1>4 DEF Accounted, CursorInv
  <2>2. Flying' = Flying
    BY <1>2, <1>4, <1>5 DEF Flying
  <2> QED
    BY <1>2, <1>5, <1>7, <2>1, <2>2 DEF CursorInv
<1>9. SavedInv' /\ OrderInv'
  BY <1>2, <1>7 DEF Accounted, SavedInv, OrderInv
<1>10. Carried'
  BY <1>2, <1>4, <1>6 DEF Carried
<1> QED
  BY <1>8, <1>9, <1>10 DEF Accounted

\* The packet while it is sent.
LEMMA Sent ==
  ASSUME UploadTypeOK, TokenInv, Uncalled, Accounted, IsFiniteSet(got), cpc = "post"
  PROVE  /\ InFlight /\ ~Held /\ Answered = 0 /\ ppc # "answering"
         /\ Stored = got \cup Flying /\ packet = [rec |-> attbuffer, count |-> 1]
         /\ IsFiniteSet(Stored) /\ \A s \in Stored : s <= top
         /\ OrderInv
         /\ Progress(file, curfp, currec + 1, Stored, j, top, Loss, Spent("deleted"))
<1>1. Sending = 1 /\ InFlight
  BY DEF Sending, InFlight
<1>2. Answered = 0 /\ Reading = 0
  BY <1>1, OneHolder
<1>3. ~Held /\ ppc # "answering"
  BY <1>2 DEF Held, Reading
<1>4. packet = [rec |-> attbuffer, count |-> 1]
  BY DEF Accounted, Carried
<1>5. Stored = got \cup Flying
  BY <1>1, <1>4 DEF Stored, Flying
<1>6. Progress(file, curfp, currec + 1, got \cup Flying, j, top, Loss, Spent("deleted"))
  BY <1>1 DEF Accounted, CursorInv
<1>7. \A s \in got \cup Flying : s <= top
  BY <1>6 DEF Progress
<1> QED
  BY <1>1, <1>2, <1>3, <1>4, <1>5, <1>6, <1>7, FlyingType DEF Accounted

LEMMA TryFailsAccounted ==
  ASSUME TypeOK, TypeOK', UploadTypeOK, UploadTypeOK', TokenInv, [UNext]_allvars,
         Uncalled, Accounted, IsFiniteSet(got), IsFiniteSet(got'), TryFails
  PROVE  Accounted'
<1>1. /\ cpc = "post" /\ cpc' = "post" /\ j' = j + 1 /\ Spend("try")
      /\ got' \in {got, Stored}
      /\ UNCHANGED <<file, top, dropped, bsatt, attbuffer, reclenght, currec, curfp,
                     toChild, ppc, packet>>
  BY DEF TryFails, vars, cursor, parent, past
<1>2. /\ InFlight /\ ~Held /\ Answered = 0 /\ ppc # "answering"
      /\ Stored = got \cup Flying /\ packet = [rec |-> attbuffer, count |-> 1]
      /\ IsFiniteSet(Stored) /\ \A s \in Stored : s <= top
      /\ OrderInv
      /\ Progress(file, curfp, currec + 1, Stored, j, top, Loss, Spent("deleted"))
  BY <1>1, Sent
<1>3. Answered' = 0
  BY <1>1, <1>2 DEF Answered
<1>4. InFlight' /\ ~Held'
  BY <1>1, <1>2, <1>3 DEF InFlight, Held
<1>5. got \subseteq got' /\ got' \cup Flying' = Stored /\ \A s \in got' : s <= top
  BY <1>1, <1>2, <1>4 DEF Flying
<1>6. SavedInv' /\ OrderInv'
  BY <1>1, <1>2, <1>5, SavedLater DEF Accounted
<1>7. Loss' = Loss + 1 /\ Loss \in Nat
  BY <1>1, LossMoves, LossTypes
<1>8. CursorInv'
  <2>1. /\ curfp \in Nat /\ currec + 1 \in Nat /\ currec + 1 <= currec + 1
        /\ j \in Nat /\ j + 1 \in Nat /\ Loss + (j + 1) <= Loss' + j
    BY <1>7 DEF UploadTypeOK
  <2>2. Stored \subseteq Stored /\ Stored \subseteq Nat
    BY <1>2, FlyingType
  <2>3. Progress(file', curfp, currec + 1, Stored, j + 1, top', Loss', Spent("deleted")')
    BY <1>1, <1>2, <2>1, <2>2, Later
  <2> QED
    BY <1>1, <1>4, <1>5, <2>3 DEF CursorInv
<1>9. Carried'
  BY <1>1, <1>2, <1>4 DEF Carried
<1> QED
  BY <1>6, <1>8, <1>9 DEF Accounted

LEMMA TryAckedAccounted ==
  ASSUME TypeOK, TypeOK', UploadTypeOK, UploadTypeOK', TokenInv, [UNext]_allvars,
         Uncalled, Accounted, IsFiniteSet(got), IsFiniteSet(got'), TryAcked
  PROVE  Accounted'
<1>1. /\ cpc = "post" /\ cpc' = "acked" /\ got' = Stored /\ currec' = currec + packet.count
      /\ UNCHANGED <<file, top, dropped, bsatt, curfp, toChild, ppc, budget>>
  BY DEF TryAcked, vars, parent, past
<1>2. /\ InFlight /\ ~Held /\ Answered = 0 /\ ppc # "answering"
      /\ Stored = got \cup Flying /\ packet = [rec |-> attbuffer, count |-> 1]
      /\ IsFiniteSet(Stored) /\ \A s \in Stored : s <= top
      /\ OrderInv
      /\ Progress(file, curfp, currec + 1, Stored, j, top, Loss, Spent("deleted"))
  BY <1>1, Sent
<1>3. Answered' = 0 /\ currec' = currec + 1
  BY <1>1, <1>2 DEF Answered
<1>4. ~InFlight' /\ ~Held'
  BY <1>1, <1>2, <1>3 DEF InFlight, Held
<1>5. SavedInv' /\ OrderInv'
  BY <1>1, <1>2, SavedLater DEF Accounted
<1>6. CursorInv'
  <2>1. /\ curfp \in Nat /\ currec + 1 \in Nat /\ currec + 1 <= currec + 1
        /\ j \in Nat /\ 0 \in Nat /\ Loss + 0 <= Loss' + j
    BY <1>1, LossTypes DEF UploadTypeOK
  <2>2. Stored \subseteq Stored /\ Stored \subseteq Nat
    BY <1>2, FlyingType
  <2>3. Progress(file', curfp, currec + 1, Stored, 0, top', Loss', Spent("deleted")')
    BY <1>1, <1>2, <2>1, <2>2, Later
  <2> QED
    BY <1>1, <1>3, <1>4, <2>3 DEF CursorInv, Flying
<1>7. Carried'
  BY <1>1, <1>4 DEF Carried
<1> QED
  BY <1>5, <1>6, <1>7 DEF Accounted

\* A packet given up costs at most the one record it carries.
LEMMA GivenUp ==
  ASSUME TypeOK, UploadTypeOK, UploadTypeOK', TokenInv, [UNext]_allvars,
         Uncalled, Accounted, IsFiniteSet(got), IsFiniteSet(got'), cpc = "post",
         got' \in {got, Stored}, cpc' = "call",
         UNCHANGED <<file, top, dropped, bsatt, currec, curfp, toChild, ppc>>,
         Loss + Reposttime <= Loss' + j
  PROVE  Accounted'
<1>1. /\ ~Held /\ Answered = 0 /\ ppc # "answering"
      /\ Stored = got \cup Flying
      /\ IsFiniteSet(Stored) /\ \A s \in Stored : s <= top
      /\ OrderInv
      /\ Progress(file, curfp, currec + 1, Stored, j, top, Loss, Spent("deleted"))
  BY Sent
<1>2. /\ file \in Seq(Record) /\ curfp \in Nat /\ currec \in Nat /\ j \in Nat /\ top \in Nat
      /\ got \subseteq Nat /\ currec + 1 \in Nat /\ currec <= currec + 1
      /\ currec <= currec /\ currec + 1 <= currec + 1
      /\ attbuffer \in Record /\ got' \subseteq Nat
  BY DEF TypeOK, UploadTypeOK
<1>3. Stored \subseteq Nat /\ Stored \subseteq Stored
  BY <1>1, FlyingType
<1>4. /\ Loss' \in Nat /\ Spent("deleted")' \in Nat /\ Reposttime \in Nat
  BY LossTypes, ReposttimeAssumption
<1>5. Answered' = 0
  BY <1>1 DEF Answered
<1>6. ~InFlight' /\ ~Held'
  BY <1>1, <1>5 DEF InFlight, Held
<1>7. got \subseteq got' /\ \A s \in got' : s <= top
  BY <1>1
<1>8. SavedInv' /\ OrderInv'
  BY <1>1, <1>7, SavedLater DEF Accounted
<1>9. Progress(file', curfp, currec + 1, Stored, Reposttime, top', Loss', Spent("deleted")')
  BY <1>1, <1>2, <1>3, <1>4, Later
<1>10. Progress(file', curfp, currec, got', 0, top', Loss', Spent("deleted")')
  <2> DEFINE M == Loss'
             z == Spent("deleted")'
             P(c, S, t) == Progress(file, curfp, c, S, t, top, M, z)
  <2>1. /\ P(currec + 1, Stored, Reposttime) /\ InOrder(file, top)
        /\ M \in Nat /\ z \in Nat
    BY <1>1, <1>4, <1>9 DEF OrderInv
  <2> HIDE DEF M, z
  <2> SUFFICES P(currec, got', 0)
    BY DEF M, z
  <2>2. CASE got' = Stored
    <3>1. \A k \in curfp + 1 .. Len(file) : file[k].staff => file[k].idx \in Nat
      BY <1>2, <2>1 DEF InOrder
    <3>2. M + 0 <= M + Reposttime /\ z <= z
      BY <1>4, <2>1
    <3>3. P(currec, Stored, 0)
      BY <1>1, <1>2, <1>3, <1>4, <2>1, <3>1, <3>2, ProgressWeaker
    <3> QED
      BY <2>2, <3>3
  <2>3. CASE got' = got /\ Flying = {}
    <3>1. got' = Stored
      BY <1>1, <2>3
    <3> QED
      BY <2>2, <3>1
  <2>4. CASE got' = got /\ Flying # {}
    <3>1. Stored = got \cup {attbuffer.idx} /\ attbuffer.idx \in Nat
      BY <1>1, <1>2, <2>4 DEF Flying, Record
    <3>2. P(currec + 1, got \cup {attbuffer.idx}, Reposttime) /\ Reposttime <= Reposttime
      BY <1>4, <2>1, <3>1
    <3>3. P(currec, got, 0)
      BY <1>2, <1>4, <2>1, <3>1, <3>2, ProgressGivenUp
    <3> QED
      BY <2>4, <3>3
  <2> QED
    BY <2>2, <2>3, <2>4
<1>11. CursorInv'
  BY <1>6, <1>10 DEF CursorInv, Flying
<1>12. Carried'
  BY <1>6 DEF Carried
<1> QED
  BY <1>8, <1>11, <1>12 DEF Accounted

LEMMA TryBadLengthAccounted ==
  ASSUME TypeOK, TypeOK', UploadTypeOK, UploadTypeOK', TokenInv, [UNext]_allvars,
         Uncalled, Accounted, IsFiniteSet(got), IsFiniteSet(got'), TryBadLength
  PROVE  Accounted'
<1>1. /\ cpc = "post" /\ cpc' = "call" /\ Spend("badlen") /\ got' \in {got, Stored}
      /\ UNCHANGED <<file, top, dropped, bsatt, currec, curfp, toChild, ppc>>
  BY DEF TryBadLength, EndPost, vars, cursor, parent, past
<1> DEFINE L == Loss
           M == Loss'
<1>2. M = L + Reposttime
  BY <1>1, LossMoves
<1>3. L \in Nat /\ M \in Nat
  BY LossTypes
<1>4. j \in Nat /\ Reposttime \in Nat
  BY ReposttimeAssumption DEF UploadTypeOK
<1> HIDE DEF L, M
<1>5. L + Reposttime <= M + j
  BY <1>2, <1>3, <1>4
<1>6. Loss + Reposttime <= Loss' + j
  BY <1>5 DEF L, M
<1> QED
  BY <1>1, <1>6, GivenUp

LEMMA PostedAccounted ==
  ASSUME TypeOK, TypeOK', UploadTypeOK, UploadTypeOK', TokenInv, [UNext]_allvars,
         Uncalled, Accounted, IsFiniteSet(got), IsFiniteSet(got'), Posted, cpc = "post"
  PROVE  Accounted'
<1>1. /\ cpc' = "call" /\ j = Reposttime /\ got' = got
      /\ UNCHANGED <<file, top, dropped, bsatt, currec, curfp, toChild, ppc>>
  BY DEF Posted, EndPost, vars, cursor, parent, past
<1> DEFINE L == Loss
           M == Loss'
<1>2. L \in Nat /\ M \in Nat /\ L <= M
  BY <1>1, LossTypes
<1> HIDE DEF L, M
<1>3. L + Reposttime <= M + j
  BY <1>1, <1>2, ReposttimeAssumption
<1>4. Loss + Reposttime <= Loss' + j
  BY <1>3 DEF L, M
<1> QED
  BY <1>1, <1>4, GivenUp

LEMMA SaveProgressAccounted ==
  ASSUME TypeOK, TypeOK', UploadTypeOK, UploadTypeOK', TokenInv, [UNext]_allvars,
         Uncalled, Accounted, IsFiniteSet(got), SaveProgress
  PROVE  Accounted'
<1>1. /\ cpc = "acked" /\ cpc' = "posted"
      /\ bsatt' = bsatt \/ bsatt' = [exists |-> TRUE, currec |-> currec, curfp |-> curfp]
      /\ UNCHANGED <<file, top, dropped, reclenght, curfp, currec, got, toChild, ppc, budget>>
  BY DEF SaveProgress, vars, cursor, parent, past
<1>2. ~InFlight
  BY <1>1, HeldPlaces
<1>3. Answered' = Answered
  BY <1>1 DEF Answered
<1>4. ~InFlight' /\ ~Held'
  BY <1>1, <1>2, <1>3 DEF InFlight, Held
<1>5. Loss' = Loss /\ Spent("deleted")' = Spent("deleted")
  BY <1>1 DEF Loss, Spent
<1>6. Progress(file, curfp, currec, got, 0, top, Loss, Spent("deleted"))
  BY <1>1, <1>2 DEF Accounted, CursorInv, Flying
<1>7. CursorInv'
  BY <1>1, <1>4, <1>5, <1>6 DEF CursorInv, Flying
<1>8. SavedInv' /\ OrderInv'
  BY <1>1, <1>5, <1>6 DEF Accounted, SavedInv, OrderInv
<1> QED
  BY <1>1, <1>4, <1>7, <1>8 DEF Accounted, Carried

\* A start goes on from the flash, or from nothing.
LEMMA RestartAccounted ==
  ASSUME TypeOK, TypeOK', UploadTypeOK, UploadTypeOK', TokenInv, [UNext]_allvars,
         Uncalled, Accounted, IsFiniteSet(got), ChildInit \/ Crash
  PROVE  Accounted'
<1>1. /\ UNCHANGED <<file, top, dropped, got>> /\ reclenght' = 0 /\ cpc' \in {"top", "off"}
      /\ bsatt'.curfp = bsatt.curfp /\ bsatt'.currec = bsatt.currec
      /\ \/ currec' = bsatt.currec /\ curfp' = bsatt.curfp
         \/ currec' = 0 /\ curfp' = 0
  BY DEF ChildInit, Crash, Reboot, vars, past, UploadTypeOK
<1>2. Answered' = 0
  <2>1. CASE ChildInit
    <3>1. cpc = "off" /\ toChild' = toChild
      BY <2>1 DEF ChildInit
    <3>2. Answered = 0
      BY <3>1, OneHolder
    <3> QED
      BY <3>1, <3>2 DEF Answered
  <2>2. CASE Crash
    BY <2>2, CountEmpty DEF Crash, Answered
  <2> QED
    BY <2>1, <2>2
<1>3. ~InFlight' /\ ~Held' /\ cpc' # "post"
  BY <1>1, <1>2 DEF InFlight, Held
<1>4. \A s \in got : s <= top
  BY DEF Accounted, SavedInv, Progress
<1>5. SavedInv' /\ OrderInv'
  BY <1>1, <1>4, SavedLater DEF Accounted
<1>6. Progress(file', 0, 0, got', 0, top', Loss', Spent("deleted")')
  <2>1. file' \in Seq(Record) /\ top' \in Nat /\ InOrder(file', top')
        /\ IsFiniteSet(got') /\ \A s \in got' : s <= top'
    BY <1>1, <1>4, <1>5 DEF TypeOK, UploadTypeOK, OrderInv
  <2>2. Loss' \in Nat /\ Spent("deleted")' \in Nat
    BY LossTypes
  <2> QED
    BY <2>1, <2>2, ProgressNone
<1>7. Progress(file', curfp', currec', got', 0, top', Loss', Spent("deleted")')
  BY <1>1, <1>5, <1>6 DEF SavedInv
<1>8. CursorInv'
  BY <1>3, <1>7 DEF CursorInv, Flying
<1> QED
  BY <1>3, <1>5, <1>8 DEF Accounted, Carried

LEMMA GotFinite ==
  ASSUME IsFiniteSet(got), [UNext]_allvars
  PROVE  IsFiniteSet(got')
<1>1. got' \in {got, Stored, {}}
  BY DEF UNext, ParentNext, ChildNext, SaveRecord, SaveCardRecord, Clear,
         ReloadData, Scan, EnterMenu, LeaveMenu, ReInit, UdpCall, Interrupt,
         ParentStatus, ParentTake, ParentRead, ParentAnswer, ParentClose,
         ChildInit, Nothing, FlagCommand, FromSvr, Swallow, SwallowEnd, PostAtt,
         TryFails, TryBadLength, TryAcked, SaveProgress, Posted, Reconnect,
         Paused, Heartbeat, PostDue, NotYet, Crash, allvars, uvars
<1>2. IsFiniteSet(Stored)
  BY FS_AddElement DEF Stored
<1>3. IsFiniteSet({})
  BY FS_EmptySet
<1> QED
  BY <1>1, <1>2, <1>3

LEMMA LossStep ==
  ASSUME TypeOK, TypeOK', UploadTypeOK, UploadTypeOK', TokenInv, LossInv,
         [UNext]_allvars
  PROVE  LossInv'
<1>1. IsFiniteSet(got) /\ IsFiniteSet(got')
  BY GotFinite DEF LossInv
<1>2. ASSUME Followed' PROVE Accounted'
  <2>1. Followed /\ ~Clear /\ ~Spend("udp") /\ ~wrapped' /\ ~reissued'
    BY <1>2, FollowedBefore
  <2>2. Uncalled /\ Accounted
    BY <2>1 DEF LossInv, Followed, Uncalled
  <2>3. ~UdpCall
    BY <2>1 DEF UdpCall, Interrupt
  <2>4. CASE Still
    <3>1. ASSUME NEW outcome \in WriteOutcomes, SaveRecord(outcome) \/ SaveCardRecord(outcome)
          PROVE  Accounted'
      BY <1>1, <2>1, <2>2, <2>4, <3>1, SaveAccounted
    <3>2. CASE UNCHANGED <<file, wrapped, past>>
      BY <1>1, <2>2, <2>4, <3>2, StillAccounted
    <3> QED
      BY <2>1, <3>1, <3>2, LogStays
  <2>5. CASE ParentTake
    BY <1>1, <2>2, <2>5, ParentTakeAccounted
  <2>6. CASE ParentRead
    BY <1>1, <2>2, <2>6, ParentReadAccounted
  <2>7. CASE PostAtt
    BY <1>1, <2>2, <2>7, PostAttAccounted
  <2>8. CASE TryFails
    BY <1>1, <2>2, <2>8, TryFailsAccounted
  <2>9. CASE TryBadLength
    BY <1>1, <2>2, <2>9, TryBadLengthAccounted
  <2>10. CASE TryAcked
    BY <1>1, <2>2, <2>10, TryAckedAccounted
  <2>11. CASE SaveProgress
    BY <1>1, <2>2, <2>11, SaveProgressAccounted
  <2>12. CASE Posted /\ cpc = "post"
    BY <1>1, <2>2, <2>12, PostedAccounted
  <2>13. CASE ChildInit \/ Crash
    BY <1>1, <2>2, <2>13, RestartAccounted
  <2>14. Posted => cpc = "post" \/ cpc = "posted"
    BY DEF Posted
  <2>15. \/ Still \/ ParentTake \/ ParentRead \/ PostAtt \/ TryFails \/ TryBadLength
         \/ TryAcked \/ SaveProgress \/ (Posted /\ cpc = "post") \/ ChildInit \/ Crash
    BY <2>1, <2>2, <2>3, <2>14, StillActions DEF UNext, ParentNext, ChildNext
  <2> QED
    BY <2>4, <2>5, <2>6, <2>7, <2>8, <2>9, <2>10, <2>11, <2>12, <2>13, <2>15
<1> QED
  BY <1>1, <1>2 DEF LossInv

LEMMA LossInit == UInit => LossInv
<1> SUFFICES ASSUME UInit PROVE LossInv
  OBVIOUS
<1>1. /\ file = <<>> /\ got = {} /\ curfp = 0 /\ currec = 0 /\ reclenght = 0 /\ top = 0
      /\ bsatt.curfp = 0 /\ bsatt.currec = 0 /\ cpc = "off" /\ toChild = <<>>
      /\ ppc = "idle" /\ budget = Budget /\ dropped = 0
  BY DEF UInit, Init, NoBsAtt
<1>2. Answered = 0
  BY <1>1, CountEmpty DEF Answered
<1>3. ~Held /\ ~InFlight /\ Flying = {}
  BY <1>1, <1>2 DEF Held, InFlight, Flying
<1>4. file \in Seq(Record) /\ InOrder(file, 0)
  BY <1>1, EmptySeq DEF InOrder, Ordered
<1>5. IsFiniteSet(got) /\ \A s \in got : s <= 0
  BY <1>1, FS_EmptySet
<1>6. Loss \in Nat /\ Spent("deleted") \in Nat
  <2>1. {"try", "badlen", "deleted"} \subseteq Events
    BY DEF Events
  <2>2. \A event \in {"try", "badlen", "deleted"} : Spent(event) = 0
    BY <1>1, <2>1, BudgetAssumption DEF Spent
  <2>3. Spent("badlen") + Spent("deleted") + dropped = 0
    BY <1>1, <2>2
  <2>4. Loss = 0 + Reposttime * 0
    BY <2>2, <2>3 DEF Loss
  <2> QED
    BY <2>2, <2>4, ReposttimeAssumption
<1>7. Progress(file, 0, 0, got, 0, top, Loss, Spent("deleted"))
  BY <1>1, <1>4, <1>5, <1>6, ProgressNone
<1>8. OrderInv /\ SavedInv /\ CursorInv /\ Carried
  BY <1>1, <1>3, <1>4, <1>7 DEF OrderInv, SavedInv, CursorInv, Carried
<1> QED
  BY <1>5, <1>8 DEF LossInv, Accounted

LEMMA LossAlways == USpec => []LossInv
<1>1. TypeOK /\ TypeOK' /\ UploadTypeOK /\ UploadTypeOK' /\ TokenInv /\ LossInv
        /\ [UNext]_allvars => LossInv'
  BY LossStep
<1> QED
  BY <1>1, LossInit, StoreUnderUpload, TypeCorrect, UploadTypes, TokenAlways,
     PTL DEF USpec

\* While the serials grow along the log and the server does not call: through
\* failed attempts, packets given up, deleted people, lost connections, power
\* cuts at any step and deletions of the oldest records under the upload, each
\* record before the position kept on flash that the server lacks is paid for,
\* by Reposttime failures, an answer of the wrong length, a deleted person or
\* a deleted record.
THEOREM PassedOverIsPaidFor == USpec => []PassedOverForCause
<1>1. UploadTypeOK /\ LossInv => PassedOverForCause
  <2> SUFFICES ASSUME UploadTypeOK, Followed, SavedInv
               PROVE  Reposttime * Cardinality(PassedOver(file, bsatt.curfp, got)) <= Loss
    BY DEF LossInv, Accounted, PassedOverForCause, Loss
  <2> DEFINE X == Reposttime * Cardinality(PassedOver(file, bsatt.curfp, got))
             L == Loss
  <2>1. X + 0 <= L
    BY DEF SavedInv, Progress
  <2>2. X \in Nat
    <3>1. bsatt.curfp \in Nat
      BY DEF UploadTypeOK
    <3> QED
      BY <3>1, PassedFewer
  <2> HIDE DEF X
  <2>3. X + 0 = X
    BY <2>2
  <2>4. X <= L
    BY <2>1, <2>3
  <2> QED
    BY <2>4 DEF X
<1> QED
  BY <1>1, LossAlways, UploadTypes, PTL

\* On the same terms the count kept on flash claims no more than the server
\* has, but for the zeros sent for deleted people; the serials, all different,
\* are what makes a count of records one of what the server stored.
THEOREM ProgressIsHonest == USpec => []ProgressNeverOutrunsDelivery
<1>1. UploadTypeOK /\ TokenInv /\ LossInv => ProgressNeverOutrunsDelivery
  <2> SUFFICES ASSUME UploadTypeOK, TokenInv, LossInv, Followed
               PROVE  bsatt.currec <= Cardinality(got) + Spent("deleted")
    BY DEF ProgressNeverOutrunsDelivery
  <2>1. IsFiniteSet(got) /\ SavedInv
    BY DEF LossInv, Accounted
  <2> DEFINE B == Before(file, bsatt.curfp, got)
  <2>2. bsatt.currec <= Cardinality(B) + Spent("deleted")
    BY <2>1 DEF SavedInv, Progress
  <2>3. B \subseteq got
    BY DEF Before
  <2>4. Cardinality(B) <= Cardinality(got) /\ Cardinality(B) \in Nat /\ Cardinality(got) \in Nat
    BY <2>1, <2>3, FS_Subset, FS_CardinalityType
  <2>5. "deleted" \in Events
    BY DEF Events
  <2>6. Spent("deleted") \in Nat /\ bsatt.currec \in Nat
    <3>1. /\ Budget["deleted"] \in Nat /\ budget["deleted"] \in Nat /\ bsatt.currec \in Nat
          /\ budget["deleted"] <= Budget["deleted"]
      BY <2>5, BudgetAssumption DEF UploadTypeOK, TokenInv
    <3> QED
      BY <3>1 DEF Spent
  <2> HIDE DEF B
  <2> QED
    BY <2>2, <2>4, <2>6
<1> QED
  BY <1>1, LossAlways, UploadTypes, TokenAlways, PTL

-----------------------------------------------------------------------------
(* The safety part of the refinement of UploadLog: while nothing is lost.   *)

\* Fewer failed attempts than a packet is given, no answer of the wrong length,
\* no deleted person, no deleted record.
Untroubled ==
  /\ Followed
  /\ Spent("try") < Reposttime
  /\ Spent("badlen") = 0 /\ Spent("deleted") = 0 /\ dropped = 0

\* The mark on flash is never ahead of the position in RAM, from which it is
\* written; a mark is there only with a count, without which the next start
\* would not use it; and the record on its way is the one at that position.
MarkInv ==
  Untroubled =>
    /\ bsatt.curfp > 0 => bsatt.exists /\ bsatt.currec > 0
    /\ cpc # "off" => bsatt.curfp <= curfp
    /\ cpc = "acked" => currec > 0
    /\ InFlight => curfp \in 1 .. Len(file) /\ attbuffer = file[curfp] /\ attbuffer.staff

LEMMA NothingPassed ==
  ASSUME NEW f \in Seq(Record), NEW fp \in Nat, NEW S, NEW t \in Nat, NEW L \in Nat,
         L < Reposttime, Reposttime * Cardinality(PassedOver(f, fp, S)) + t <= L
  PROVE  fp <= Len(f) /\ \A i \in 1 .. fp : f[i].staff => f[i].idx \in S
<1> DEFINE n == Cardinality(PassedOver(f, fp, S))
<1>1. n \in Nat /\ IsFiniteSet(PassedOver(f, fp, S))
  BY PassedFinite
<1>2. Reposttime * n + t <= L
  OBVIOUS
<1>3. n = 0
  <2> HIDE DEF n
  <2>1. Reposttime * n \in Nat /\ (1 <= n => Reposttime * 1 <= Reposttime * n)
        /\ Reposttime * 1 = Reposttime
    BY <1>1, ReposttimeAssumption, Times
  <2> QED
    BY <1>1, <1>2, <2>1, ReposttimeAssumption
<1>4. PassedOver(f, fp, S) = {}
  BY <1>1, <1>3, FS_EmptySet
<1>5. ~(fp > Len(f))
  <2> SUFFICES ASSUME fp > Len(f) PROVE FALSE
    OBVIOUS
  <2>1. fp \in 1 .. fp
    OBVIOUS
  <2> QED
    BY <1>4, <2>1 DEF PassedOver
<1>6. \A i \in 1 .. fp : f[i].staff => f[i].idx \in S
  BY <1>4 DEF PassedOver
<1> QED
  BY <1>5, <1>6

LEMMA UntroubledSound ==
  ASSUME TypeOK, UploadTypeOK, TokenInv, LossInv, Untroubled
  PROVE  /\ Uncalled /\ Accounted /\ IsFiniteSet(got)
         /\ Loss \in Nat /\ Loss < Reposttime
         /\ curfp <= Len(file)
         /\ \A i \in 1 .. curfp : file[i].staff => file[i].idx \in got \cup Flying
<1>1. Uncalled /\ Accounted /\ IsFiniteSet(got)
  BY DEF Untroubled, Followed, Uncalled, LossInv
<1>2. Loss \in Nat /\ Loss < Reposttime
  <2>1. "try" \in Events
    BY DEF Events
  <2>2. Spent("try") \in Nat
    <3>1. /\ Budget["try"] \in Nat /\ budget["try"] \in Nat /\ budget["try"] <= Budget["try"]
      BY <2>1, BudgetAssumption DEF UploadTypeOK, TokenInv
    <3> QED
      BY <3>1 DEF Spent
  <2>3. Spent("badlen") + Spent("deleted") + dropped = 0
    BY DEF Untroubled
  <2>4. Loss = Spent("try") + Reposttime * 0
    BY <2>3 DEF Loss
  <2>5. Loss = Spent("try")
    BY <2>2, <2>4, ReposttimeAssumption
  <2> QED
    BY <2>2, <2>5 DEF Untroubled
<1>3. \E t \in Nat :
        Reposttime * Cardinality(PassedOver(file, curfp, got \cup Flying)) + t <= Loss
  <2>1. (IF cpc = "post" THEN j ELSE 0) \in Nat
    BY DEF UploadTypeOK
  <2> QED
    BY <1>1, <2>1 DEF Accounted, CursorInv, Progress
<1>4. file \in Seq(Record) /\ curfp \in Nat
  BY DEF TypeOK, UploadTypeOK
<1> QED
  BY <1>1, <1>2, <1>3, <1>4, NothingPassed

LEMMA UntroubledBefore ==
  ASSUME TypeOK, TypeOK', UploadTypeOK, UploadTypeOK', TokenInv, [UNext]_allvars,
         Untroubled'
  PROVE  /\ Untroubled /\ ~Clear /\ ~UdpCall /\ ~wrapped' /\ ~reissued'
         /\ ~Spend("badlen") /\ ~Spend("deleted") /\ dropped' = dropped
<1>1. Followed' /\ Spent("try")' < Reposttime /\ Spent("badlen")' = 0
      /\ Spent("deleted")' = 0 /\ dropped' = 0
  BY DEF Untroubled
<1>2. Followed /\ ~Clear /\ ~Spend("udp") /\ ~wrapped' /\ ~reissued'
  BY <1>1, FollowedBefore
<1>3. {"try", "badlen", "deleted"} \subseteq Events
  BY DEF Events
<1>4. \A event \in {"try", "badlen", "deleted"} :
        /\ Spent(event) \in Nat /\ Spent(event)' \in Nat /\ Spent(event) <= Spent(event)'
        /\ Spend(event) => Spent(event)' = Spent(event) + 1
  BY <1>3, SpentTypes, SpentOnce
<1>5. /\ Spent("try") < Reposttime /\ Spent("badlen") = 0 /\ Spent("deleted") = 0
      /\ ~Spend("badlen") /\ ~Spend("deleted")
  BY <1>1, <1>4, ReposttimeAssumption
<1>6. dropped \in Nat /\ (dropped' = dropped \/ \E d \in Nat : dropped' = dropped + d)
  <2>1. dropped \in Nat
    BY DEF UploadTypeOK
  <2>2. ASSUME NEW outcome \in WriteOutcomes, SaveRecord(outcome) \/ SaveCardRecord(outcome)
        PROVE  \E d \in Nat : dropped' = dropped + d
    BY <1>2, <2>2, SaveShape
  <2> QED
    BY <1>2, <2>1, <2>2, LogStays DEF past
<1>7. dropped = 0
  BY <1>1, <1>6
<1> QED
  BY <1>1, <1>2, <1>5, <1>7 DEF Untroubled, UdpCall, Interrupt

LEMMA FileGrows ==
  ASSUME TypeOK, TypeOK', UploadTypeOK, UploadTypeOK', [UNext]_allvars, ~Clear,
         ~wrapped', ~reissued', dropped' = dropped
  PROVE  /\ Len(file) <= Len(file') /\ \A i \in 1 .. Len(file) : file'[i] = file[i]
         /\ \/ UNCHANGED file
            \/ Len(file') = Len(file) + 1 /\ UNCHANGED <<got, bsatt>>
<1>1. file \in Seq(Record) /\ file' \in Seq(Record) /\ Len(file) \in Nat
  BY DEF TypeOK
<1>2. ASSUME NEW outcome \in WriteOutcomes, SaveRecord(outcome) \/ SaveCardRecord(outcome)
      PROVE  /\ \A i \in 1 .. Len(file) : file'[i] = file[i]
             /\ UNCHANGED file \/ Len(file') = Len(file) + 1
             /\ UNCHANGED <<got, bsatt>>
  <2>1. PICK g \in Seq(Record), d \in Nat :
             /\ Len(g) = Len(file) - d /\ \A i \in 1 .. Len(g) : g[i] = file[i + d]
             /\ dropped' = dropped + d
             /\ \/ file' = g
                \/ Len(file') = Len(g) + 1 /\ \A i \in 1 .. Len(g) : file'[i] = g[i]
    BY <1>2, SaveShape
  <2>2. d = 0
    BY <2>1 DEF UploadTypeOK
  <2>3. Len(g) = Len(file) /\ \A i \in 1 .. Len(file) : g[i] = file[i]
    BY <1>1, <2>1, <2>2
  <2>4. g = file
    BY <1>1, <2>3, SeqEqual
  <2>5. UNCHANGED <<got, bsatt>>
    BY <1>2 DEF SaveRecord, SaveCardRecord
  <2> QED
    BY <2>1, <2>4, <2>5
<1> QED
  BY <1>1, <1>2, LogStays

\* A record gets on its way by being read.
LEMMA OnItsWay ==
  ASSUME UploadTypeOK, UploadTypeOK', TokenInv, Uncalled, Accounted, IsFiniteSet(got),
         [UNext]_allvars, ~Clear, ~UdpCall
  PROVE  ParentRead \/ ~InFlight' \/ (InFlight /\ UNCHANGED <<curfp, attbuffer>>)
<1>1. CASE Still
  BY <1>1 DEF Still, InFlight
<1>2. CASE TryFails
  BY <1>2 DEF TryFails, InFlight, cursor
<1>3. CASE PostAtt
  <2>1. /\ toChild # <<>> /\ Head(toChild) = "POST_ATT" /\ toChild \in Seq(ParentCmds)
        /\ UNCHANGED <<curfp, attbuffer>>
    BY <1>3 DEF PostAtt, UploadTypeOK, cursor, TokenInv, NoUdp
  <2>2. /\ Count(toChild, "POST_ATT") = Count(Tail(toChild), "POST_ATT") + 1
        /\ Count(Tail(toChild), "POST_ATT") \in Nat
    BY <2>1, CountTail, WhereFinite
  <2>3. Answered > 0
    BY <2>2 DEF Answered
  <2> QED
    BY <2>1, <2>3 DEF InFlight, Held
<1>4. CASE ParentTake
  <2>1. /\ toParent # <<>> /\ Head(toParent) = "READ_ATTLOG" /\ toParent \in Seq(ChildCmds)
        /\ ppc' = "reading" /\ UNCHANGED <<toChild, cpc>>
    BY <1>4 DEF ParentTake, UploadTypeOK
  <2>2. /\ Count(toParent, "READ_ATTLOG") = Count(Tail(toParent), "READ_ATTLOG") + 1
        /\ Count(Tail(toParent), "READ_ATTLOG") \in Nat
    BY <2>1, CountTail, WhereFinite
  <2>3. Asked > 0
    BY <2>2 DEF Asked
  <2>4. Answered = 0 /\ cpc # "post"
    BY <2>3, OneHolder, HeldPlaces DEF InFlight
  <2> QED
    BY <2>1, <2>4 DEF InFlight, Held, Answered
<1>5. CASE cpc = "post" /\ (TryBadLength \/ TryAcked \/ Posted)
  <2>1. cpc' # "post" /\ UNCHANGED <<ppc, toChild>>
    BY <1>5 DEF TryBadLength, TryAcked, Posted, EndPost, parent
  <2>2. Answered = 0 /\ ppc # "answering"
    BY <1>5, Sent
  <2> QED
    BY <2>1, <2>2 DEF InFlight, Held, Answered
<1>6. CASE SaveProgress
  <2>1. cpc = "acked" /\ cpc' = "posted" /\ UNCHANGED <<ppc, reclenght, toChild>>
    BY <1>6 DEF SaveProgress, parent, cursor
  <2>2. ~InFlight
    BY <2>1, HeldPlaces
  <2> QED
    BY <2>1, <2>2 DEF InFlight, Held, Answered
<1>7. CASE ChildInit
  <2>1. cpc = "off" /\ cpc' = "top" /\ UNCHANGED <<ppc, toChild>> /\ reclenght' = 0
    BY <1>7 DEF ChildInit, parent
  <2>2. Answered = 0
    BY <2>1, OneHolder
  <2> QED
    BY <2>1, <2>2 DEF InFlight, Held, Answered
<1>8. CASE Crash
  BY <1>8, CountEmpty DEF Crash, InFlight, Held, Answered
<1>9. /\ Posted => cpc = "post" \/ cpc = "posted"
      /\ TryBadLength \/ TryAcked => cpc = "post"
  BY DEF Posted, TryBadLength, TryAcked
<1>10. \/ Still \/ ParentTake \/ ParentRead \/ PostAtt \/ TryFails \/ SaveProgress
       \/ (cpc = "post" /\ (TryBadLength \/ TryAcked \/ Posted)) \/ ChildInit \/ Crash
  BY <1>9, StillActions DEF UNext, ParentNext, ChildNext
<1> QED
  BY <1>1, <1>2, <1>3, <1>4, <1>5, <1>6, <1>7, <1>8, <1>10

LEMMA MarkStep ==
  ASSUME TypeOK, TypeOK', UploadTypeOK, UploadTypeOK', TokenInv, LossInv, MarkInv,
         [UNext]_allvars
  PROVE  MarkInv'
<1> SUFFICES ASSUME Untroubled'
             PROVE  /\ bsatt'.curfp > 0 => bsatt'.exists /\ bsatt'.currec > 0
                    /\ cpc' # "off" => bsatt'.curfp <= curfp'
                    /\ cpc' = "acked" => currec' > 0
                    /\ InFlight' => /\ curfp' \in 1 .. Len(file') /\ attbuffer' = file'[curfp']
                                    /\ attbuffer'.staff
  BY DEF MarkInv
<1>1. /\ Untroubled /\ ~Clear /\ ~UdpCall /\ ~wrapped' /\ ~reissued'
      /\ ~Spend("badlen") /\ ~Spend("deleted") /\ dropped' = dropped
  BY UntroubledBefore
<1>2. /\ bsatt.curfp > 0 => bsatt.exists /\ bsatt.currec > 0
      /\ cpc # "off" => bsatt.curfp <= curfp
      /\ cpc = "acked" => currec > 0
      /\ InFlight => curfp \in 1 .. Len(file) /\ attbuffer = file[curfp] /\ attbuffer.staff
  BY <1>1 DEF MarkInv
<1>3. /\ bsatt.curfp \in Nat /\ bsatt.currec \in Nat /\ curfp \in Nat /\ currec \in Nat
      /\ curfp' \in Nat
  BY DEF UploadTypeOK
<1>4. /\ Uncalled /\ Accounted /\ IsFiniteSet(got) /\ curfp <= Len(file)
      /\ Len(file) \in Nat /\ Len(file') \in Nat /\ file \in Seq(Record)
  BY <1>1, UntroubledSound DEF TypeOK
<1> DEFINE hit == GetAttByIndex(file, curfp, currec)
<1>5. ASSUME ParentRead
      PROVE  /\ ppc = "reading" /\ UNCHANGED <<file, bsatt, currec, cpc, toChild>>
             /\ curfp <= curfp' /\ reclenght' = Length(hit)
             /\ hit.found => curfp' \in 1 .. Len(file) /\ attbuffer' = file[curfp']
                             /\ attbuffer'.staff
  <2>1. /\ ppc = "reading" /\ UNCHANGED <<file, bsatt, currec, cpc, toChild>>
        /\ curfp' = hit.fp /\ reclenght' = Length(hit)
        /\ attbuffer' = IF hit.found THEN file[hit.at] ELSE attbuffer
    BY <1>1, <1>5 DEF ParentRead, vars
  <2>2. hit.found => /\ hit.fp \in curfp + 1 .. Len(file) /\ hit.fp = hit.at
                     /\ file[hit.at].staff
    BY <1>3, <1>4, GetAttByIndexHit
  <2>3. ~hit.found => hit.fp = Len(file)
    BY DEF GetAttByIndex
  <2>4. hit.found \in BOOLEAN
    BY <1>3, <1>4, GetAttByIndexHit
  <2> HIDE DEF hit
  <2>5. CASE hit.found
    BY <1>3, <1>4, <2>1, <2>2, <2>5
  <2>6. CASE ~hit.found
    BY <1>3, <1>4, <2>1, <2>3, <2>6
  <2> QED
    BY <2>4, <2>5, <2>6
<1> HIDE DEF hit
<1>6. InFlight' => /\ curfp' \in 1 .. Len(file') /\ attbuffer' = file'[curfp']
                   /\ attbuffer'.staff
  <2> SUFFICES ASSUME InFlight'
               PROVE  /\ curfp' \in 1 .. Len(file') /\ attbuffer' = file'[curfp']
                      /\ attbuffer'.staff
    OBVIOUS
  <2>1. CASE ParentRead
    <3>1. ppc = "reading" /\ UNCHANGED <<file, cpc, toChild>> /\ reclenght' = Length(hit)
      BY <1>5, <2>1
    <3>2. ~InFlight /\ Answered = 0
      <4>1. Reading = 1
        BY <3>1 DEF Reading
      <4> QED
        BY <1>4, <3>1, <4>1, HeldPlaces, OneHolder
    <3>3. hit.found
      BY <3>1, <3>2 DEF InFlight, Held, Answered, Length
    <3> QED
      BY <1>5, <2>1, <3>1, <3>3
  <2>2. CASE InFlight /\ UNCHANGED <<curfp, attbuffer>>
    <3>1. Len(file) <= Len(file') /\ \A i \in 1 .. Len(file) : file'[i] = file[i]
      BY <1>1, FileGrows
    <3> QED
      BY <1>2, <1>4, <2>2, <3>1
  <2> QED
    BY <1>1, <1>4, <2>1, <2>2, OnItsWay
<1>7. /\ bsatt'.curfp > 0 => bsatt'.exists /\ bsatt'.currec > 0
      /\ cpc' # "off" => bsatt'.curfp <= curfp'
      /\ cpc' = "acked" => currec' > 0
  <2>1. CASE ParentRead
    BY <1>2, <1>3, <1>5, <2>1
  <2>2. CASE TryAcked
    <3>1. cpc = "post" /\ UNCHANGED <<bsatt, curfp>> /\ currec' = currec + packet.count
      BY <2>2 DEF TryAcked
    <3>2. packet.count = 1
      BY <1>4, <3>1 DEF Accounted, Carried
    <3> QED
      BY <1>2, <1>3, <3>1, <3>2
  <2>3. CASE SaveProgress
    <3>1. /\ cpc = "acked" /\ cpc' = "posted" /\ UNCHANGED <<curfp, currec>>
          /\ bsatt' = bsatt \/ bsatt' = [exists |-> TRUE, currec |-> currec, curfp |-> curfp]
      BY <2>3 DEF SaveProgress, cursor
    <3> QED
      BY <1>2, <1>3, <3>1
  <2>4. CASE ChildInit
    <3>1. /\ cpc' = "top" /\ bsatt'.curfp = bsatt.curfp /\ bsatt'.currec = bsatt.currec
          /\ bsatt'.exists = TRUE
          /\ curfp' = IF bsatt.exists /\ bsatt.currec > 0 THEN bsatt.curfp ELSE 0
      BY <2>4 DEF ChildInit, UploadTypeOK
    <3> QED
      BY <1>2, <1>3, <3>1
  <2>5. CASE Crash
    BY <1>2, <2>5 DEF Crash
  <2>6. CASE /\ UNCHANGED <<bsatt, curfp, currec>>
             /\ (cpc' # "off" => cpc # "off") /\ (cpc' = "acked" => cpc = "acked")
    BY <1>2, <2>6
  <2>7. \/ ParentRead \/ TryAcked \/ SaveProgress \/ ChildInit \/ Crash
        \/ /\ UNCHANGED <<bsatt, curfp, currec>>
           /\ (cpc' # "off" => cpc # "off") /\ (cpc' = "acked" => cpc = "acked")
    BY <1>1 DEF UNext, ParentNext, ChildNext, SaveRecord, SaveCardRecord,
           ReloadData, Scan, EnterMenu, LeaveMenu, ReInit, UdpCall, Interrupt,
           ParentStatus, ParentTake, ParentAnswer, ParentClose, Nothing,
           FlagCommand, FromSvr, Swallow, SwallowEnd, PostAtt, TryFails, TryBadLength,
           EndPost, Posted, Reconnect, Paused, Heartbeat, Online, PostDue, NotYet,
           allvars, uvars, cursor
  <2> QED
    BY <2>1, <2>2, <2>3, <2>4, <2>5, <2>6, <2>7
<1> QED
  BY <1>6, <1>7

\* Every step appends a record, delivers the next one, moves the mark over
\* delivered records, or is none of UploadLog's.
PromiseKept == Promise!LogNext \/ UNCHANGED <<file, got, bsatt.curfp>>

LEMMA PromiseStep ==
  ASSUME TypeOK, TypeOK', UploadTypeOK, UploadTypeOK', TokenInv, LossInv, MarkInv,
         [UNext]_allvars, Untroubled'
  PROVE  PromiseKept
<1>1. /\ Untroubled /\ ~Clear /\ ~UdpCall /\ ~wrapped' /\ ~reissued'
      /\ ~Spend("badlen") /\ ~Spend("deleted") /\ dropped' = dropped
  BY UntroubledBefore
<1>2. /\ file \in Seq(Record) /\ file' \in Seq(Record) /\ Len(file) \in Nat
      /\ curfp \in Nat /\ bsatt.curfp \in Nat
  BY DEF TypeOK, UploadTypeOK
<1>3. /\ Uncalled /\ Accounted /\ IsFiniteSet(got) /\ curfp <= Len(file)
      /\ \A i \in 1 .. curfp : file[i].staff => file[i].idx \in got \cup Flying
  BY <1>1, UntroubledSound
<1>4. /\ Len(file) <= Len(file') /\ \A i \in 1 .. Len(file) : file'[i] = file[i]
      /\ \/ UNCHANGED file
         \/ Len(file') = Len(file) + 1 /\ UNCHANGED <<got, bsatt>>
  BY <1>1, FileGrows
<1>5. CASE Len(file') = Len(file) + 1 /\ UNCHANGED <<got, bsatt>>
  <2>1. SubSeq(file', 1, Len(file)) = file
    <3>1. /\ SubSeq(file', 1, Len(file)) \in Seq(Record)
          /\ Len(SubSeq(file', 1, Len(file))) = Len(file)
          /\ \A i \in 1 .. Len(file) : SubSeq(file', 1, Len(file))[i] = file'[i]
      BY <1>2, <1>5, SubSeqProperties
    <3> QED
      BY <1>2, <1>4, <3>1, SeqEqual
  <2> QED
    BY <1>5, <2>1 DEF PromiseKept, Promise!LogNext, Promise!AppendRecord
<1>6. CASE UNCHANGED <<file, bsatt>> /\ cpc = "post" /\ got' = Stored /\ got' # got
  <2>1. InFlight /\ Stored = got \cup Flying
    BY <1>1, <1>3, <1>6, Sent DEF Untroubled
  <2>2. curfp \in 1 .. Len(file) /\ file[curfp].staff /\ attbuffer = file[curfp]
    BY <1>1, <2>1 DEF MarkInv
  <2>3. Flying = {file[curfp].idx} /\ file[curfp].idx \notin got
    BY <1>6, <2>1, <2>2 DEF Flying
  <2>4. ASSUME NEW i \in 1 .. curfp - 1, file[i].staff PROVE file[i].idx \in got
    <3>1. i \in 1 .. curfp /\ i \in 1 .. Len(file) /\ i < curfp
      BY <1>2, <1>3, <2>4
    <3>2. InOrder(file, top)
      BY <1>3 DEF Accounted, OrderInv
    <3>3. file[i].idx < file[curfp].idx
      BY <2>2, <2>4, <3>1, <3>2 DEF InOrder, Ordered
    <3>4. file[i].idx \in Nat /\ file[curfp].idx \in Nat
      <4>1. file[i] \in Record /\ file[curfp] \in Record
        BY <1>2, <2>2, <3>1
      <4> QED
        BY <4>1 DEF Record
    <3> QED
      BY <1>3, <2>3, <2>4, <3>1, <3>3, <3>4
  <2>5. Promise!DeliveredUpTo(curfp - 1)
    BY <2>4 DEF Promise!DeliveredUpTo
  <2> QED
    BY <1>6, <2>1, <2>2, <2>3, <2>5 DEF PromiseKept, Promise!LogNext, Promise!Deliver
<1>7. CASE SaveProgress
  <2>1. /\ cpc = "acked" /\ UNCHANGED <<file, got>>
        /\ bsatt' = bsatt \/ bsatt'.curfp = curfp
    BY <1>7 DEF SaveProgress, vars
  <2>2. ~InFlight /\ bsatt.curfp <= curfp
    BY <1>1, <1>3, <2>1, HeldPlaces DEF MarkInv
  <2>3. Promise!DeliveredUpTo(curfp)
    BY <1>3, <2>2 DEF Flying, Promise!DeliveredUpTo
  <2>4. CASE bsatt'.curfp = bsatt.curfp
    BY <2>1, <2>4 DEF PromiseKept
  <2>5. CASE bsatt'.curfp # bsatt.curfp
    <3>1. bsatt'.curfp = curfp /\ curfp \in bsatt.curfp + 1 .. Len(file)
      BY <1>2, <1>3, <2>1, <2>2, <2>5
    <3> QED
      BY <2>1, <2>3, <3>1 DEF PromiseKept, Promise!LogNext, Promise!Commit
  <2> QED
    BY <2>4, <2>5
<1>8. CASE UNCHANGED <<file, got, bsatt.curfp>>
  BY <1>8 DEF PromiseKept
<1>9. \/ SaveProgress
      \/ UNCHANGED <<got, bsatt>>
      \/ UNCHANGED got /\ bsatt'.curfp = bsatt.curfp
      \/ UNCHANGED bsatt /\ cpc = "post" /\ got' = Stored
  BY <1>1 DEF UNext, ParentNext, ChildNext, SaveRecord, SaveCardRecord,
         ReloadData, Scan, EnterMenu, LeaveMenu, ReInit, UdpCall, Interrupt,
         ParentStatus, ParentTake, ParentRead, ParentAnswer, ParentClose,
         ChildInit, Nothing, FlagCommand, FromSvr, Swallow, SwallowEnd, PostAtt,
         TryFails, TryBadLength, TryAcked, Posted, Reconnect,
         Paused, Heartbeat, PostDue, NotYet, Crash, allvars, uvars, UploadTypeOK
<1> QED
  BY <1>4, <1>5, <1>6, <1>7, <1>8, <1>9

LEMMA MarkInit == UInit => MarkInv
<1> SUFFICES ASSUME UInit PROVE MarkInv
  OBVIOUS
<1>1. /\ bsatt.curfp = 0 /\ cpc = "off" /\ reclenght = 0 /\ toChild = <<>>
  BY DEF UInit, NoBsAtt
<1>2. Answered = 0
  BY <1>1, CountEmpty DEF Answered
<1> QED
  BY <1>1, <1>2 DEF MarkInv, InFlight, Held

\* While nothing is lost and the log keeps its order, the upload implements
\* UploadLog step by step, whatever the options: the threads, pipes, retries
\* and power cuts only ever append a record, deliver the first one the server
\* lacks, or move the mark over delivered ones.
THEOREM UploadIsInOrder ==
  USpec => Promise!LogInit /\ [][Untroubled' => PromiseKept]_<<file, got, bsatt.curfp>>
<1>1. UInit => Promise!LogInit
  BY DEF UInit, Init, NoBsAtt, Promise!LogInit
<1>2. TypeOK /\ TypeOK' /\ UploadTypeOK /\ UploadTypeOK' /\ TokenInv
        /\ LossInv /\ MarkInv /\ [UNext]_allvars => MarkInv'
  BY MarkStep
<1>3. TypeOK /\ TypeOK' /\ UploadTypeOK /\ UploadTypeOK' /\ TokenInv
        /\ LossInv /\ MarkInv /\ [UNext]_allvars
        => [Untroubled' => PromiseKept]_<<file, got, bsatt.curfp>>
  BY PromiseStep
<1> QED
  BY <1>1, <1>2, <1>3, LossAlways, MarkInit, StoreUnderUpload, TypeCorrect, UploadTypes,
     TokenAlways, PTL DEF USpec

=============================================================================
