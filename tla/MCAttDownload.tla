---------------------------- MODULE MCAttDownload ----------------------------
(***************************************************************************)
(* An instance of AttDownload for TLC: records of two cells, moved in blocks *)
(* of three, so that a block ends inside a record.                          *)
(***************************************************************************)
EXTENDS AttDownload

=============================================================================
