SPECIFICATION CrashSpec
CONSTANTS
  n1 = n1
  InodeCount = 4
  BlockCount = 4
  BlockCells = 2
  Names = {n1}
  Dot = Dot
  DotDot = DotDot
  TooLong = {}
  Stored <- Whole
  Texts = {t}
  InputLengths = {1}
  FreedLengths = {0}
  MaxFileSize = 1
  OnlyLeafRmdir = FALSE
  MaxWrap = 1
  MaxEntries = 1
  Under <- OneHit
  LowBlocks = 2
  LowCells = 4
  StruckHead = 2
  StruckField = "type"
INVARIANTS
  DiskIsMemory
  DropIsAtomic
  OthersSurvive
