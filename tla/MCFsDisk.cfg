SPECIFICATION Spec
CONSTANTS
  p = p
  q = q
  n1 = n1
  n2 = n2
  n3 = n3
  n4 = n4
  n5 = n5
  None = None
  Proc = {p, q}
  Name = {n1, n2, n3, n4, n5}
  Setups <- MCSetups
  Inodes = 6
  Blocks = 8
  Slots = 4
  Direct = 1
  Indirect = 2
SYMMETRY Symmetric
VIEW View
INVARIANTS
  BlocksExact
  NamesExact
  SizeIsEntries
  DirsComplete
  TakenOnce
