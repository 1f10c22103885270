SPECIFICATION Spec
CONSTANTS
  n1 = n1
  n2 = n2
  n27 = n27
  n28 = n28
  InodeCount = 4
  BlockCount = 4
  BlockCells = 2
  Names = {n1}
  Dot = Dot
  DotDot = DotDot
  TooLong = {}
  Stored <- Whole
  Texts = {t}
  InputLengths = {2, 3, 5}
  FreedLengths = {}
  MaxFileSize = 6
  OnlyLeafRmdir = TRUE
INVARIANTS
  Ownership
  TextIsWhole
  CurrentDirIsDirectory
  DotDotReachesRoot
  ReadDirInBounds
PROPERTIES
  CreatedIsFound
