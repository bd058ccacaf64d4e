------------------------------- MODULE MCServe -------------------------------
(* Instances of Serve for TLC: global middleware and a global guard, and one  *)
(* middleware and one guard each of the module and of the route.              *)
EXTENDS Serve

MCModuleMW == <<"requestid">>
MCRouteMW == <<"route">>
MCModuleGuards == <<"moduleGuard">>
MCRouteGuards == <<"routeGuard">>
MCChecks == <<"db", "cache">>
MCRequests == {<<"GET", "allowed">>, <<"OPTIONS", "allowed">>, <<"OPTIONS", "other">>, <<"OPTIONS", "asking">>}
=============================================================================
