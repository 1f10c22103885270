SPECIFICATION FairSpec
CONSTANTS
  MaxLength = 7
INVARIANTS
  TypeOK
  TokensAreWords
  CountedAreSet
PROPERTIES
  EverySplitEnds
