SPECIFICATION Spec
CONSTANTS
  Workers = {w1}
  Shared = FALSE
  Classes <- MCClasses
  Words <- MCWords
  Disk <- MCDisk
  Dirs <- MCDirs
  Real <- SameReal
  AppLibrary = "local"
  GlobalLibrary = Null
  Null = Null
  MaxText = 4
  MaxDepth = 4
INVARIANTS
  RightFile
  ImportOnce
  SearchBounded
