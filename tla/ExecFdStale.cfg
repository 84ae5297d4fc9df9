SPECIFICATION Spec
CONSTANTS
  MaxFd = 4
  IntHalf = 8
  File <- MCFile
  Dir <- MCDir
  LibName <- MCLibName
  PathName <- MCPathName
  Kind <- MCKind
  Has <- MCHas
  At <- MCAt
  Soname <- MCSoname
  Needed <- MCNeeded
  Rpath <- MCRpath
  Runpath <- MCRunpath
  LdLibraryPath <- MCLdLibraryPath
  SystemDirs <- MCSystemDirs
  Configs <- MCConfigs
  AppFiles <- MCAppFiles
  AppNames <- MCAppNames
  NULL = NULL
  UNSET = UNSET
INVARIANT FdRefersToFile
CHECK_DEADLOCK FALSE
