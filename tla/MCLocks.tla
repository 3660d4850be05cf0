------------------------------ MODULE MCLocks ------------------------------
EXTENDS Locks, TLC

CONSTANTS a, b, c, i, l

MCThread == {a, b, c, i}
MCFirst == <<b, c>>
MCPriority == [t \in MCThread |-> 0]
MCLock == {l}
=============================================================================
