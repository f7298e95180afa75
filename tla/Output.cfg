SPECIFICATION FairSpec
CONSTANTS
  Names <- MCNames
  Canon <- MCCanon
  Lower <- MCLower
  Modules <- MCModules
  DefaultModule = "Index"
  DefaultController = "Index"
  DefaultAction = "index"
  ErrorController = "Error"
  ErrorAction = "error"
  NoName = "NoName"
  Keep = "Keep"
  UintMax = 7
  Script <- DiskAdminError
  RouteTargets <- RoutesFailing
  Targets <- TargetsOne
  Throwables = {"Exception"}
  Flags = {"flushInstantly", "returnResponse", "autoRender"}
  Overrides = {FALSE}
  AppDir = {TRUE}
  HeaderRefused = FALSE
  NumPlugins = 1
  ForwardLimit = 2
  MaxInitForwards = 1
  MaxDispatches = 1
INVARIANTS
  RenderedOutputOnce
PROPERTIES
  DispatchTerminates
