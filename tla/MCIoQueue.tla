----------------------------- MODULE MCIoQueue -----------------------------
EXTENDS IoQueue, TLC

CONSTANTS m, r, s, i, q

\* Main, the idle thread, and one or two readers.
MCThread == {m, r, s, i}
MCFirsts == {<<r>>, <<r, s>>}
MCFirstsTwo == {<<r, s>>}
MCReader == {r, s}
MCPriority == [t \in MCThread |-> 0]

MCLock == {q}
MCKey == {"x", "y"}
=============================================================================
