SPECIFICATION FairSpec
CONSTANTS
  NULL = NULL
  MaxUps = 4
INVARIANTS
  TypeOK
  NewLibcKept
  ExtractedComplete
PROPERTIES
  ServedArchiveStays
  UpServes
CHECK_DEADLOCK FALSE
