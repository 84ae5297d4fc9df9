SPECIFICATION Spec
CONSTANTS
  NULL = NULL
  NUL = NUL
  Colon = ":"
  Actors <- LibAndApp
  Texts <- TwoTexts
  MAX_LIST_LEN = 3
INVARIANTS
  AppFindsItsTokens
