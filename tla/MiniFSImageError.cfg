SPECIFICATION Spec
CONSTANTS
  SuperSize = 2
  InodesSize = 3
  BlocksSize = 3
  Wrap = 16
  MaxErrors = 1
INVARIANTS
  ReadyIsAlwaysWhole
