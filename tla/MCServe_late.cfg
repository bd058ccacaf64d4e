SPECIFICATION Spec
CONSTANTS
  GlobalMW = {"audit"}
  GlobalGuards = {"globalGuard"}
  ModuleMW <- MCModuleMW
  RouteMW <- MCRouteMW
  ModuleGuards <- MCModuleGuards
  RouteGuards <- MCRouteGuards
  Recovers = {}
  Tags = {"requestid"}
  Cors = {}
  Checks <- MCChecks
  Requests <- MCRequests
  UserMay = {"fail", "panic"}
  HandlerMay = {"ok", "fail"}
  ErrorMay = {}
  Timed = FALSE
  Limited = FALSE
INVARIANT EveryGlobalGuardRuns
