SPECIFICATION Spec
CONSTANTS
  m = m
  r = r
  s = s
  i = i
  q = q
  None = None
  NoKey = "none"
  Thread <- MCThread
  Firsts <- MCFirstsTwo
  Reader <- MCReader
  Priority <- MCPriority
  Idle = i
  Main = m
  Lock <- MCLock
  Sema <- MCLock
  IoqLock = q
  Key <- MCKey
  bufsize = 3
  MaxCount = 1
PROPERTIES
  TakesOnlyWhenNotEmpty
