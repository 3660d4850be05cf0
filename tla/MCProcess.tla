----------------------------- MODULE MCProcess -----------------------------
EXTENDS Process

CONSTANTS init, main, a, b, i

\* Two pages for processes besides the tasks of the boot.
MCThread == {init, main, i, a, b}
\* Every process exits with a status of its own.
MCCode == [t \in MCThread |-> {t}]
MCPriority == [t \in MCThread |-> 0]
=============================================================================
