SPECIFICATION Spec
CONSTANTS
  Segs <- MCSegs
  Modules = {"admin"}
  Begins <- MCBegins
  ActionPrefer = TRUE
  Null = Null
  Default = "_default"
  DefaultConfigs <- WalkDefaults
  RouteNames = {"_default", "one", "two"}
  NewRoutes <- WalkRoutes
  Configs <- WalkConfigs
  CustomNames <- CustomX
  Asks <- AllAsks
  Infos <- AssembleInfos
  Queries <- MCQueries
INVARIANTS
  TypeOK
  FirstMatchWins
  DefaultCatchesAll
  PathRoutedAsMeant
  AssembledRoutesBack
  VariablesComeBack
