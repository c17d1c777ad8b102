---------------------------- MODULE MCPushThreads ----------------------------
(***************************************************************************)
(* An instance of PushThreads for TLC: the pipe to the child so small that  *)
(* it overflows, the one to the parent so large that it would show if the   *)
(* child said more than it should.                                          *)
(***************************************************************************)
EXTENDS PushThreads

\* A list of users behind a clearing of the old one.
ClearAndList == {<<"CLEAR_DATA", "NEW_DATA", "USER_CNT">>}

=============================================================================
