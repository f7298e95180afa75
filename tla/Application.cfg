SPECIFICATION Spec
CONSTANTS
  Objects = {a1, a2, a3}
  Options <- MCOptions
  Script <- MCScript
  Directories = {"site", "shop"}
  Inits = 2
  Null = Null
  MaxDepth = 2
INVARIANTS
  CurrentIsWhole
  OneApplication
  RunOnce
  
PROPERTIES
  OptionsOfCurrent
CHECK_DEADLOCK FALSE
