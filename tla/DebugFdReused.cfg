SPECIFICATION Spec
CONSTANTS
  NULL = NULL
  UNSET = UNSET
  NotANumber = NotANumber
  Component <- MCComponent
  LongComponent = {}
  Empty = ""
  Dot = "."
  PathMax = 4
  Threads = {t1}
  MaxFd = 4
  IntHalf = 8
  TornLen = 1
  FileArgs <- PlainArgs
  OFlags <- PlainFlags
  Envs <- DebugFdEnvs
  Cwd <- MCCwd
  Object <- MCObject
  Dirs <- MCDirs
  Existing <- MCExisting
INVARIANTS
  DebugOutputGoesToDebugFd
CHECK_DEADLOCK FALSE
