---------------------------- MODULE MCPushSession ----------------------------
\* PushSession with a list of two people, one of whom leaves and comes back, in
\* packets of up to all changes, and every trouble once.
EXTENDS PushSession

Add(p) == [who |-> p, there |-> TRUE]
Del(p) == [who |-> p, there |-> FALSE]

MCChanges == <<Add("x"), Add("y"), Del("x"), Add("x")>>
Once == [t \in {"fail", "unset", "illegal", "erase", "lost", "crash"} |-> 1]
=============================================================================
