SPECIFICATION FairSpec
CONSTANTS
  NULL = NULL
  Component <- MCComponent
  LongComponent <- MCLong
  Empty = ""
  Dot = "."
  PathMax = 3
  Names <- MCNames
  Entries <- MCEntries
  Cwds <- MCCwds
  MAX_LIST_LEN = 3
INVARIANTS
  TypeOK
  LoopInv
  
  HitNamesTarget
PROPERTIES
  LookupReturns
CHECK_DEADLOCK FALSE
