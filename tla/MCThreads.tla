----------------------------- MODULE MCThreads -----------------------------
EXTENDS Threads, TLC

CONSTANTS a, b, c, i

MCThread == {a, b, c, i}
\* One tick of slice for the clients, none for the idle thread: both branches
\* of the timer handler are taken (the source uses 31 and 10).
MCPriority == [t \in MCThread |-> IF t = i THEN 0 ELSE 1]
=============================================================================
