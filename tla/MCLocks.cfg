SPECIFICATION Spec
CONSTANTS
  a = a
  b = b
  c = c
  i = i
  l = l
  None = None
  Thread <- MCThread
  Idle = i
  Main = a
  First <- MCFirst
  Priority <- MCPriority
  Lock <- MCLock
  Sema <- MCLock
  MaxRepeat = 2
INVARIANTS
  NoPanic
  MutualExclusion
  LockFieldsAgree
  NestAgrees
  SleepersListed
  NoLostWakeup
PROPERTIES
  ImplementsMutex
