SPECIFICATION Spec
CONSTANTS
  n1 = n1
  n2 = n2
  n27 = n27
  n28 = n28
  InodeCount = 3
  BlockCount = 3
  BlockCells = 2
  Names = {n1, n2, n27, n28}
  Dot = Dot
  DotDot = DotDot
  TooLong = {n28}
  Stored <- LastIsCut
  Texts = {t}
  InputLengths = {0, 3}
  FreedLengths = {0}
  MaxFileSize = 3
  OnlyLeafRmdir = FALSE
SYMMETRY NameSymmetry
INVARIANTS
  TypeOK
  Accounting
  Ownership
  RefusedOnlyWhenFull
PROPERTIES
  ImplementsInodeStore
