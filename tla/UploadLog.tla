----------------------------- MODULE UploadLog -----------------------------
(***************************************************************************)
(* What the upload of attendance records promises, with no threads, pipes  *)
(* or retries: a log that only grows, the serials the server has, and a    *)
(* mark kept on flash, up to which nothing will be sent again.             *)
(***************************************************************************)
EXTENDS Integers, Sequences

VARIABLES log, delivered, mark

logvars == <<log, delivered, mark>>

\* The records of persons among the first n of the log are at the server.
DeliveredUpTo(n) ==
  \A i \in 1 .. n : log[i].staff => log[i].idx \in delivered

LogInit ==
  /\ log = <<>>
  /\ delivered = {}
  /\ mark = 0

AppendRecord ==
  /\ Len(log') = Len(log) + 1
  /\ SubSeq(log', 1, Len(log)) = log
  /\ UNCHANGED <<delivered, mark>>

\* In the order of the log, the first record the server does not have.
Deliver ==
  /\ \E i \in 1 .. Len(log) :
       /\ log[i].staff /\ log[i].idx \notin delivered
       /\ DeliveredUpTo(i - 1)
       /\ delivered' = delivered \cup {log[i].idx}
  /\ UNCHANGED <<log, mark>>

Commit ==
  /\ \E n \in mark + 1 .. Len(log) : DeliveredUpTo(n) /\ mark' = n
  /\ UNCHANGED <<log, delivered>>

LogNext == AppendRecord \/ Deliver \/ Commit

LogSpec == LogInit /\ [][LogNext]_logvars /\ WF_logvars(Deliver)

=============================================================================
