SPECIFICATION Spec
CONSTANTS
  Names <- MCNames
  Canon <- MCCanon
  Lower <- MCLower
  Modules <- MCModules
  DefaultModule = "Index"
  DefaultController = "Index"
  DefaultAction = "index"
  ErrorController = "Error"
  ErrorAction = "error"
  NoName = "NoName"
  Keep = "Keep"
  UintMax = 7
  Script <- DiskTwins
  RouteTargets <- RoutesDefault
  Targets <- TargetsModule
  Throwables = {"Exception"}
  Flags = {}
  Overrides = {}
  AppDir = {TRUE}
  HeaderRefused = FALSE
  NumPlugins = 0
  ForwardLimit = 2
  MaxInitForwards = 1
  MaxDispatches = 1
INVARIANTS
  ClassFromModule
