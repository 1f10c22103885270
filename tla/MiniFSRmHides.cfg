SPECIFICATION Spec
CONSTANTS
  n1 = n1
  n2 = n2
  n27 = n27
  n28 = n28
  InodeCount = 3
  BlockCount = 4
  BlockCells = 2
  Names = {n1, n2}
  Dot = Dot
  DotDot = DotDot
  TooLong = {}
  Stored <- Whole
  Texts = {t}
  InputLengths = {0, 3}
  FreedLengths = {0}
  MaxFileSize = 3
  OnlyLeafRmdir = TRUE
SYMMETRY NameSymmetry
PROPERTIES
  RmHidesOnlyItsName
