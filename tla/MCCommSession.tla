---------------------------- MODULE MCCommSession ----------------------------
(***************************************************************************)
(* An instance of CommSession for TLC.  Behaviours are followed until a PC's *)
(* reply ids have come round or its CONNECT arrived twice: from there on the *)
(* properties of reply ids promise nothing for that PC.  A PC that is alone  *)
(* sends one packet more than two together, enough to go on with an upload   *)
(* behind a piece that was refused, but fewer events happen.                 *)
(***************************************************************************)
EXTENDS CommSession, TLC

Symmetric == Permutations(PCs)

Orderly == loose = {}

\* Answers their PC does not wait for.
Late == {a \in back : pc[a.pc].wait = <<>> \/ pc[a.pc].wait[1].id # a.to.id}

FewTogether ==
  \/ made < CmdBound - 1 /\ Cardinality(Late) <= 1 /\ (restarted => events = 0)
  \/ made < CmdBound /\ events = 0 /\ Late = {} /\ ~restarted
  \/ /\ events = 0 /\ Late = {} /\ ~restarted
     /\ \E p \in PCs : \A k \in net : k.pc = p

=============================================================================
