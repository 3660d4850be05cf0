------------------------------- MODULE MCIde -------------------------------
EXTENDS Ide, TLC

CONSTANTS a, b, m, i, lk, dd

\* The clients, the idle thread and main(), which after the start only yields
\* (while(1) mtime_sleep(1000)), with interrupts on.  a is a kernel thread, b a process.
MCThread == {a, b, m, i}
MCFirst == <<a, b>>
MCClient == {a, b}
MCKernel == {a}
MCPriority == [t \in MCThread |-> 0]
MCSema == {lk, dd}
MCLock == {lk}
=============================================================================
