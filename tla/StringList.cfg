SPECIFICATION Spec
CONSTANTS
  NULL = NULL
  NUL = NUL
  Colon = ":"
  Actors <- LibOnly
  Texts <- MCTexts
  MAX_LIST_LEN = 3
INVARIANTS
  TypeOK
  ListIsSplit
  
  
PROPERTIES
  LoopEnds
