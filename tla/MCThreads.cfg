SPECIFICATION ThreadsSpec
CONSTANTS
  a = a
  b = b
  c = c
  i = i
  Thread <- MCThread
  Idle = i
  MainThread = a
  InitThread = b
  Priority <- MCPriority
INVARIANTS
  NoSchedPanic
  SchedInv
PROPERTIES
  NoOvertaking
  ReadyRuns
