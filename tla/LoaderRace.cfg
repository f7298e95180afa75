SPECIFICATION Spec
CONSTANTS
  Workers = {w1, w2}
  Shared = TRUE
  Classes <- RaceClasses
  Words <- RaceWords
  Disk <- MCDisk
  Dirs <- MCDirs
  Real <- SameReal
  AppLibrary = "local"
  GlobalLibrary = "global"
  Null = Null
  MaxText = 1
  MaxDepth = 2
INVARIANTS
  RightFile
