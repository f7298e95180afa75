SPECIFICATION Spec
CONSTANTS
  Names <- MCNames
  Canon <- MCCanon
  Lower <- MCLower
  Modules <- MCModules
  DefaultModule = "Index"
  DefaultController = "Index"
  DefaultAction = "index"
  ErrorController = "Error"
  ErrorAction = "error"
  NoName = "NoName"
  Keep = "Keep"
  UintMax = 7
  Script <- DiskFailover
  RouteTargets <- RoutesFailing
  Targets = {}
  Throwables = {"Exception", "Error"}
  Flags = {"catchException", "throwException"}
  Overrides = {}
  AppDir = {TRUE, FALSE}
  HeaderRefused = TRUE
  NumPlugins = 1
  ForwardLimit = 1
  MaxInitForwards = 0
  MaxDispatches = 2
INVARIANTS
  HandlerOncePerRequest
  EscapesOnlyAfterHandler
  NoSilentFailure
  RoutedOnce
  FailoverFindsErrorController
