SPECIFICATION FairSpec
CONSTANTS
  NULL = NULL
  UNSET = UNSET
  NotANumber = NotANumber
  Component <- MCComponent
  LongComponent = {}
  Empty = ""
  Dot = "."
  PathMax = 4
  Threads = {t1, t2}
  MaxFd = 4
  IntHalf = 8
  TornLen = 1
  FileArgs <- PlainArgs
  OFlags <- PlainFlags
  Envs <- PlainEnvs
  Cwd <- MCCwd
  Object <- MCObject
  Dirs <- MCDirs
  Existing <- MCExisting
INVARIANTS
  DescriptorsSeparate
  InheritedKept
  RightFile
  LogToLogFile
  NoLeak
PROPERTIES
  CallReturns
  ImplementsPosixOpen
CHECK_DEADLOCK FALSE
