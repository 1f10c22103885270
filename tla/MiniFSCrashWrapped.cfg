SPECIFICATION CrashSpec
CONSTANTS
  n1 = n1
  InodeCount = 3
  BlockCount = 3
  BlockCells = 2
  Names = {n1}
  Dot = Dot
  DotDot = DotDot
  TooLong = {}
  Stored <- Whole
  Texts = {t}
  InputLengths = {0, 1, 3}
  FreedLengths = {0}
  MaxFileSize = 3
  OnlyLeafRmdir = FALSE
  MaxWrap = 1
  MaxEntries = 6
  Under <- OneHit
  LowBlocks = 2
  LowCells = 4
  StruckHead = 2
  StruckField = "type"
INVARIANTS
  RefusedOnlyWhenFull
