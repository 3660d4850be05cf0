SPECIFICATION FilesSpec
CONSTANTS
  p = p
  q = q
  NoInode = NoInode
  Hole = Hole
  BlockSize = 2
  Direct = 1
  Indirect = 2
  Blocks = 5
  Byte = {0, 1}
  Positions = {0, 1, 2, 3, 4, 5, 6, 7}
  Counts = {1, 2, 3, 4, 5}
  Proc = {p, q}
  InitProc = p
  Number = {1, 2, 3}
  Dirs = {1}
  Slots = 3
  MaxFd = 5
  Object = {1, 2, 3, 4}
  MaxCount = 3
  Sessions <- MCSessions
INVARIANTS
  OneInode
  CountIsSlots
  BlocksOwned
  ReadIsExact
PROPERTY IsByteFile
