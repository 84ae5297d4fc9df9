SPECIFICATION FairSpec
CONSTANTS
  NULL = NULL
  UNSET = UNSET
  NotANumber = NotANumber
  Component <- MCComponent
  LongComponent = {}
  Empty = ""
  Dot = "."
  PathMax = 4
  Threads = {t1}
  MaxFd = 4
  IntHalf = 8
  TornLen = 1
  FileArgs <- PreopenArgs
  OFlags <- PreopenFlags
  Envs <- PreopenEnvs
  Cwd <- MCCwd
  Object <- MCObject
  Dirs <- MCDirs
  Existing <- MCExisting
INVARIANTS
  TypeOK
  
  ListedFileNotOpened
PROPERTIES
  CallReturns
CHECK_DEADLOCK FALSE
