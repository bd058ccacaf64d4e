SPECIFICATION Spec
CONSTANTS
  GlobalMW = {"audit", "recover", "cors"}
  GlobalGuards = {"globalGuard"}
  ModuleMW <- MCModuleMW
  RouteMW <- MCRouteMW
  ModuleGuards <- MCModuleGuards
  RouteGuards <- MCRouteGuards
  Recovers = {"recover"}
  Tags = {"requestid"}
  Cors = {"cors"}
  Checks <- MCChecks
  Requests <- MCRequests
  UserMay = {"ok", "fail", "header", "panic"}
  HandlerMay = {"ok", "0", "early", "invalid", "redirect", "fail", "panic", "abort"}
  ErrorMay = {"0", "fail", "panic"}
  Timed = TRUE
  Limited = TRUE
INVARIANTS GuardsGateHandler MiddlewareNests RouteErrorsMapped SettingsInForce RequestIDOnSuccess CorsDecides ReadyTellsChecks
PROPERTIES Exchanged
