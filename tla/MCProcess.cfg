SPECIFICATION Spec
CONSTANTS
  init = init
  main = main
  a = a
  b = b
  i = i
  NoThread = NoThread
  Thread <- MCThread
  Priority <- MCPriority
  Idle = i
  InitProc = init
  Main = main
  MaxPid = 6
  Code <- MCCode
  NoCode = NoCode
INVARIANTS
  NoPanic
  PidsExact
  NoMissedExit
PROPERTIES
  WaitReturns
  ImplementsFamily
