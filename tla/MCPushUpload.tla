---------------------------- MODULE MCPushUpload ----------------------------
(***************************************************************************)
(* Instances of PushUpload for TLC: how often each event of the environment *)
(* may happen, and what a comment of the code says of the upload that the   *)
(* code does not keep.                                                      *)
(***************************************************************************)
EXTENDS PushUpload

NoEvents == [e \in Events |-> 0]

\* A failed attempt, a lost connection, a power cut, an enrolment.
Setbacks == [NoEvents EXCEPT !["try"] = 1, !["heartbeat"] = 1, !["crash"] = 1,
                             !["menu"] = 1]

\* Packets given up, a person deleted, the log cleared, the data reloaded, an
\* enrolment, a forced re-initialisation, calls of the server by UDP; at most
\* Together of them in one behaviour.
Handover == [NoEvents EXCEPT !["try"] = 1, !["badlen"] = 1, !["deleted"] = 1,
                             !["clear"] = 1, !["reload"] = 1, !["menu"] = 1,
                             !["reinit"] = 1, !["udp"] = 2]
Together == 2

FewAtOnce ==
  Spent("try") + Spent("badlen") + Spent("deleted") + Spent("clear")
    + Spent("reload") + Spent("menu") + Spent("reinit") + Spent("udp") <= Together

\* What loses records (failed attempts, a wrong answer, a deleted person) and a
\* lost connection, at most Together of them, and two power cuts.
Losses == [NoEvents EXCEPT !["try"] = 2, !["badlen"] = 1, !["deleted"] = 1,
                           !["heartbeat"] = 1, !["crash"] = 2]
FewLost ==
  Spent("try") + Spent("badlen") + Spent("deleted") + Spent("heartbeat") <= Together

OneCall == [NoEvents EXCEPT !["udp"] = 1, !["menu"] = 1]

-----------------------------------------------------------------------------

\* pushsdk.c on CHILD_CMD_POST_ATT: "send the attendance record".  What the
\* command sends is a packet with a record.
PostSendsARecord == cpc = "post" => packet.count = 1

=============================================================================
