SPECIFICATION Spec
CONSTANTS
  Names <- MCNames
  Canon <- MCCanon
  Lower <- MCLower
  Modules <- MCModules
  DefaultModule = "Index"
  DefaultController = "Index"
  DefaultAction = "index"
  ErrorController = "Error"
  ErrorAction = "error"
  NoName = "NoName"
  Keep = "Keep"
  UintMax = 7
  Script <- DiskFailover
  RouteTargets <- RoutesDefault
  Targets <- TargetsForward
  Throwables = {"Exception"}
  Flags = {}
  Overrides = {}
  AppDir = {TRUE}
  HeaderRefused = TRUE
  NumPlugins = 1
  ForwardLimit = 2
  MaxInitForwards = 1
  MaxDispatches = 1
PROPERTIES RefinesCycle
INVARIANTS
  TypeOK
  RoundsWithinForwardLimit
  CompletedMeansDispatched
  OutputInDispatchOrder
  TemplateOfInvokedAction
