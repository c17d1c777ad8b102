------------------------------ MODULE MCAttLog ------------------------------
(***************************************************************************)
(* Instances of AttLog for TLC, and what a comment of the code says of    *)
(* the store that the code does not keep.                                   *)
(***************************************************************************)
EXTENDS AttLog

\* options.h says of LoopWriteRecordOn: "When the record capacity is full,
\* Overwrite the old record".  So with the option on, a full store refuses
\* no verification.
FullStoreStillRecords == LoopWriteRecordOn => ~exceedflag

=============================================================================
