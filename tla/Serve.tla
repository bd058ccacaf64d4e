-------------------------------- MODULE Serve --------------------------------
(* How a route is registered and how one request runs through its pipeline    *)
(* (bast.go: Use, Guard, registerRoute, guardMiddleware, ServeHTTP, invoke;   *)
(* middleware.go; errors in response_write.go; middleware/recover.go,         *)
(* requestid.go, cors.go; the probes of health.go).  Stream routes are in     *)
(* Stream.                                                                    *)
(*                                                                            *)
(* The closures that registerRoute and buildPipeline nest are the sequence    *)
(* `chain' of frames, outermost first; `at' is the frame that runs, or the    *)
(* one a response or a panic is travelling to (0 is invoke itself).           *)
EXTENDS Integers, Sequences, FiniteSets, SequencesExt

CONSTANTS GlobalMW, GlobalGuards,   \* what main may register globally: sets, each once, in any order
          ModuleMW, RouteMW,         \* the middleware of the module and of the route: sequences
          ModuleGuards, RouteGuards, \* their guards: sequences
          Recovers,    \* the middleware that are middleware.Recover
          Tags,        \* the middleware that are middleware.RequestID
          Cors,        \* the middleware that are middleware.CORS, for a list of origins
          UserMay,     \* what other middleware may do: see Fresh; "header", "panic", "abort", which guards may too
          HandlerMay,  \* what the handler may do: see Fresh; "panic", "abort"
          ErrorMay,    \* what the error handler may do that DefaultErrorHandler never does, likewise
          Requests,    \* the requests that come: pairs of a method and an origin
          Timed,       \* the route has a deadline (its own or HandlerTimeout)
          Limited,     \* the route has a MaxBodySize of its own
          Checks       \* HealthConfig.Checks: a sequence of names

ASSUME ServeAssumption ==
    /\ Timed \in BOOLEAN /\ Limited \in BOOLEAN
    /\ Requests \subseteq {"GET", "OPTIONS"} \X {"none", "allowed", "other", "asking"}
    /\ Recovers \cap Tags = {} /\ Cors \cap (Recovers \cup Tags) = {}
    /\ \A s \in {ModuleMW, RouteMW, ModuleGuards, RouteGuards, Checks} : s \in Seq(ToSet(s))

\* A guard is declared at one level only; a middleware is known by where it is registered, so that the
\* same function registered twice is two of them.
ASSUME LevelsAssumption ==
    /\ GlobalGuards \cap ToSet(ModuleGuards) = {}
    /\ (GlobalGuards \cup ToSet(ModuleGuards)) \cap ToSet(RouteGuards) = {}
    /\ GlobalMW \cap ToSet(ModuleMW) = {}
    /\ (GlobalMW \cup ToSet(ModuleMW)) \cap ToSet(RouteMW) = {}
    /\ IsInjective(ModuleMW) /\ IsInjective(RouteMW)

MW == GlobalMW \cup ToSet(ModuleMW) \cup ToSet(RouteMW)
Guard == GlobalGuards \cup ToSet(ModuleGuards) \cup ToSet(RouteGuards)

VARIABLES mws, guards,  \* App.middleware, App.guards
          route,        \* the registered route: the middleware and guards it captured
          target,       \* what the request matches
          method,       \* its method, as far as CORS looks at it
          origin,       \* its Origin: none, allowed, other; "asking": other, and it asks for a method
          phase,        \* "setup", then how ServeHTTP gets on
          chain, at,    \* see above
          check,        \* the guard, or the readiness check, that runs next
          resp,         \* the Response in flight
          raised,       \* the last panic raised; in flight while phase is "unwind"; "broken" is one outside invoke
          settings,     \* what the route has set on the *Ctx
          writes,       \* the responses written to the client, in order, as they were sent
          logged,       \* the status handed to Logger.OnRequest
          trace         \* the callbacks that ran, in order

vars == <<mws, guards, route, target, method, origin, phase, chain, at, check, resp, raised, settings, writes, logged, trace>>
app == <<mws, guards, route>>
request == <<target, method, origin>>
flight == <<resp, raised>>
outcome == <<writes, logged>>

NoRoute == [mw |-> <<>>, guards |-> <<>>, registered |-> FALSE]
NoResponse == [status |-> "none", err |-> "none", redirect |-> FALSE, mapped |-> FALSE, headers |-> {}]
Raw(status) == [NoResponse EXCEPT !.status = status]
Failed(err) == [NoResponse EXCEPT !.status = "500", !.err = err]
Redirected(status) == [Raw(status) EXCEPT !.redirect = TRUE]

\* Statuses a program may give that are not sent: none (0), 1xx, and what net/http's WriteHeader refuses.
Odd == {"0", "early", "invalid"}

\* The responses code may make that may do what `may' says.
Fresh(may) ==
    {Raw(s) : s \in may \cap ({"ok"} \cup Odd)}
    \cup {Redirected(s) : s \in IF "redirect" \in may THEN {"302", "307"} \cup (may \cap Odd) ELSE {}}
    \cup {Failed(err) : err \in IF "fail" \in may THEN {"typed", "unknown"} ELSE {}}
Panics(may) == may \cap {"panic", "abort"}

\* Mutant: the header goes into a copy that is not returned.
WithHeaderLost(r, h) == r

WithHeader(r, h) == [r EXCEPT !.headers = @ \cup {h}]

\* What the error handler may answer.  DefaultErrorHandler: a BastError has its own status, anything else
\* is a 500.  That status may be an odd one, and an ErrorHandler of the application's own may answer anything.
ErrorHandler(err) == {Raw(IF err = "typed" THEN "rejected" ELSE "500")} \cup Fresh(ErrorMay)

Frame(kind, name) == [kind |-> kind, name |-> name]

\* Mutant: buildPipeline wraps from the first middleware to the last.
BuildPipelineForward(handler, ms) ==
    [i \in DOMAIN ms |-> Frame("mw", Reverse(ms)[i])] \o handler

\* buildPipeline wraps from the last middleware to the first, so that the first runs first.
BuildPipeline(handler, ms) == [i \in DOMAIN ms |-> Frame("mw", ms[i])] \o handler

Guarded(r) == IF r.guards = <<>> THEN <<Frame("handler", "user")>>
                                 ELSE <<Frame("guards", "all"), Frame("handler", "user")>>
Wraps == (IF Timed THEN <<Frame("timeout", "route")>> ELSE <<>>)
         \o (IF Limited THEN <<Frame("limit", "route")>> ELSE <<>>)

\* Mutant: deadline and limit wrap the guarded handler only, inside the middleware.
PipelineInside(r) == BuildPipeline(Wraps \o Guarded(r), r.mw)

\* registerRoute: guards around the handler, middleware around them, then limit and deadline.
Pipeline(r) == Wraps \o BuildPipeline(Guarded(r), r.mw)

-----------------------------------------------------------------------------
Init ==
    /\ mws = <<>> /\ guards = <<>> /\ route = NoRoute
    /\ target = "none" /\ method = "GET" /\ origin = "none" /\ phase = "setup"
    /\ chain = <<>> /\ at = 0 /\ check = 1
    /\ resp = NoResponse /\ raised = "none"
    /\ settings = [deadline |-> "none", limit |-> "app"]
    /\ writes = <<>> /\ logged = "none" /\ trace = <<>>

(* Set-up: one goroutine, before the first request; in any order.             *)

Use(m) ==
    /\ phase = "setup" /\ m \notin ToSet(mws)
    /\ mws' = Append(mws, m)
    /\ UNCHANGED <<guards, route, request, phase, chain, at, check, flight, settings, outcome, trace>>

AddGuard(g) ==
    /\ phase = "setup" /\ g \notin ToSet(guards)
    /\ guards' = Append(guards, g)
    /\ UNCHANGED <<mws, route, request, phase, chain, at, check, flight, settings, outcome, trace>>

\* registerRoute copies the global lists as they are now: what Use and Guard add later is not in them.
Register ==
    /\ phase = "setup" /\ ~route.registered
    /\ route' = [mw |-> mws \o ModuleMW \o RouteMW,
                 guards |-> guards \o ModuleGuards \o RouteGuards,
                 registered |-> TRUE]
    /\ UNCHANGED <<mws, guards, request, phase, chain, at, check, flight, settings, outcome, trace>>

-----------------------------------------------------------------------------
(* ServeHTTP.                                                                 *)

Invoke(t, c, methods) ==
    /\ phase = "setup"
    /\ target' = t /\ chain' = c /\ at' = 1 /\ phase' = "enter"
    /\ \E q \in Requests : q[1] \in methods /\ method' = q[1] /\ origin' = q[2]
    /\ UNCHANGED <<app, check, flight, settings, outcome, trace>>

\* The route may be one for OPTIONS.
ServeRoute == route.registered /\ Invoke("route", Pipeline(route), {"GET", "OPTIONS"})

\* New mounts the probes before any Use or Guard: their handlers are bare.
ServeProbe == \E probe \in {"live", "ready"} : Invoke(probe, <<Frame("handler", probe)>>, {"GET"})

\* The path has a route, OPTIONS has none: the global middleware as they are now, no guard.
ServeOptions == Invoke("options", BuildPipeline(<<Frame("handler", "allow")>>, mws), {"OPTIONS"})

\* http.Error without any callback: no route for the method, none for the path.
ServeError(t, status) ==
    /\ phase = "setup"
    /\ target' = t /\ resp' = Raw(status) /\ phase' = "write"
    /\ UNCHANGED <<app, method, origin, chain, at, check, raised, settings, outcome, trace>>

Return(r) ==
    /\ resp' = r /\ phase' = "leave" /\ at' = at - 1
    /\ UNCHANGED <<raised, request, app, chain, outcome>>
Panic(value) ==
    /\ raised' = value /\ phase' = "unwind" /\ at' = at - 1
    /\ UNCHANGED <<resp, request, app, chain, outcome>>
GoOn == at' = at + 1 /\ UNCHANGED <<phase, flight, request, app, chain, outcome>>
Note(what, name) == trace' = Append(trace, [what |-> what, name |-> name])

Running(direction, kind) == phase = direction /\ at > 0 /\ chain[at].kind = kind

EnterTimeout ==
    /\ Running("enter", "timeout")
    /\ settings' = [settings EXCEPT !.deadline = "live"]
    /\ GoOn /\ UNCHANGED <<check, trace>>

EnterLimit ==
    /\ Running("enter", "limit")
    /\ settings' = [settings EXCEPT !.limit = "route"]
    /\ GoOn /\ UNCHANGED <<check, trace>>

\* The deadline passes while callbacks run; only what looks at ctx.Context() notices.
DeadlinePasses ==
    /\ settings.deadline = "live"
    /\ settings' = [settings EXCEPT !.deadline = "passed"]
    /\ UNCHANGED <<app, request, phase, chain, at, check, flight, outcome, trace>>

Other(name) == name \notin Recovers \cup Tags \cup Cors

\* Mutant: CORS leaves the preflight of an origin that is not allowed to the handler.
AnsweredByCorsIfAllowed(name) == name \in Cors /\ method = "OPTIONS" /\ origin = "allowed"

\* What CORS answers itself: OPTIONS of an allowed origin, and the preflight of another one.
AnsweredByCors(name) == name \in Cors /\ method = "OPTIONS" /\ origin \in {"allowed", "asking"}

\* CORS adds its headers for allowed origins only.
Marked(r, name) == IF name \in Cors /\ origin = "allowed" THEN WithHeader(r, name) ELSE r

EnterMW ==
    /\ Running("enter", "mw")
    /\ Note("enter", chain[at].name)
    /\ \/ ~AnsweredByCors(chain[at].name) /\ GoOn
       \/ AnsweredByCors(chain[at].name) /\ Return(Marked(Raw("ok"), chain[at].name))
       \/ Other(chain[at].name) /\ \E r \in Fresh(UserMay) : Return(r)
       \/ Other(chain[at].name) /\ \E value \in Panics(UserMay) : Panic(value)
    /\ UNCHANGED <<check, settings>>

\* Mutant: a guard's error is remembered, the next guard still runs, and the handler.
CheckGuardOn ==
    /\ Running("enter", "guards") /\ check <= Len(route.guards)
    /\ \E passes \in BOOLEAN : Note(IF passes THEN "passed" ELSE "blocked", route.guards[check])
    /\ check' = check + 1
    /\ UNCHANGED <<app, request, phase, chain, at, flight, settings, outcome>>

\* guardMiddleware: the first error goes to the error handler right there; either may panic.
CheckGuard ==
    /\ Running("enter", "guards") /\ check <= Len(route.guards)
    /\ \/ /\ Note("passed", route.guards[check])
          /\ check' = check + 1
          /\ UNCHANGED <<app, request, phase, chain, at, flight, outcome>>
       \/ /\ Note("blocked", route.guards[check])
          /\ \E err \in {"typed", "unknown"} : \E r \in ErrorHandler(err) : Return(r)
          /\ UNCHANGED check
       \/ /\ Note("blocked", route.guards[check])
          /\ \E value \in Panics(UserMay \cup ErrorMay) : Panic(value)
          /\ UNCHANGED check
    /\ UNCHANGED settings

GuardsPass ==
    /\ Running("enter", "guards") /\ check > Len(route.guards)
    /\ GoOn /\ UNCHANGED <<check, settings, trace>>

\* ReadinessHandler runs every check, whatever the ones before said.
RunCheck ==
    /\ Running("enter", "handler") /\ chain[at].name = "ready" /\ check <= Len(Checks)
    /\ check' = check + 1
    /\ \/ \E result \in {"healthy", "degraded"} : Note(result, Checks[check])
          /\ UNCHANGED <<app, request, phase, chain, at, flight, outcome>>
       \/ (\E value \in {"panic", "abort"} : Panic(value)) /\ UNCHANGED trace
    /\ UNCHANGED settings

\* Mutant: the last check decides.
ReadinessOfLast == Raw(IF Checks # <<>> /\ trace[Len(trace)].what = "degraded" THEN "503" ELSE "ok")

Readiness == Raw(IF \E i \in DOMAIN trace : trace[i].what = "degraded" THEN "503" ELSE "ok")

\* The handlers the framework brings itself answer; the user's may do anything.
Handle ==
    /\ Running("enter", "handler")
    /\ chain[at].name = "ready" => check > Len(Checks)
    /\ Note("handler", chain[at].name)
    /\ LET user == chain[at].name = "user" IN
       \/ ~user /\ Return(IF chain[at].name = "ready" THEN Readiness ELSE Raw("ok"))
       \/ user /\ \E r \in Fresh(HandlerMay) : Return(r)
       \/ user /\ \E value \in Panics(HandlerMay) : Panic(value)
    /\ UNCHANGED <<check, settings>>

(* The way out: a Response goes back through the frames, or a panic does.     *)

Outward == at' = at - 1 /\ UNCHANGED <<phase, request, app, chain, outcome>>

\* The deferred cancel of the route's deadline, on both ways out.
LeaveTimeout ==
    /\ Running("leave", "timeout") \/ Running("unwind", "timeout")
    /\ settings' = [settings EXCEPT !.deadline = "cancelled"]
    /\ Outward /\ UNCHANGED <<flight, check, trace>>

LeavePlain ==
    /\ \E kind \in {"limit", "guards"}, way \in {"leave", "unwind"} : Running(way, kind)
    /\ Outward /\ UNCHANGED <<flight, check, settings, trace>>

\* Middleware returns what next has returned, perhaps with a header, or answers anew, or panics.
LeaveMW ==
    /\ Running("leave", "mw")
    /\ \/ /\ chain[at].name \notin Tags
          /\ resp' = Marked(resp, chain[at].name)
          /\ Outward /\ UNCHANGED raised /\ Note("leave", chain[at].name)
       \/ /\ chain[at].name \in Tags \/ (Other(chain[at].name) /\ "header" \in UserMay)
          /\ resp' = WithHeader(resp, chain[at].name)
          /\ Outward /\ UNCHANGED raised /\ Note("leave", chain[at].name)
       \/ /\ Other(chain[at].name) /\ resp' \in Fresh(UserMay)
          /\ Outward /\ UNCHANGED raised /\ Note("anew", chain[at].name)
       \/ /\ Other(chain[at].name) /\ \E value \in Panics(UserMay) : Panic(value)
          /\ Note("leave", chain[at].name)
    /\ UNCHANGED <<check, settings>>

\* middleware.Recover recovers every value; other middleware is left by the panic.
UnwindMW ==
    /\ Running("unwind", "mw")
    /\ IF chain[at].name \in Recovers
       THEN Return(Failed("internal")) /\ Note("anew", chain[at].name)
       ELSE Outward /\ UNCHANGED <<flight, trace>>
    /\ UNCHANGED <<check, settings>>

\* Mutant: invoke lets every panic go to net/http.
InvokeDies ==
    /\ phase = "unwind" /\ at = 0
    /\ phase' = "dead"
    /\ UNCHANGED <<app, request, chain, at, check, flight, settings, outcome, trace>>

\* Mutant: every panic is answered.
InvokeRecoversAll ==
    /\ phase = "unwind" /\ at = 0
    /\ phase' = "leave" /\ resp' \in ErrorHandler("internal")
    /\ UNCHANGED <<app, request, chain, at, check, raised, settings, outcome, trace>>

\* The error handler answers; or it panics where nothing recovers, and net/http closes the connection.
Map(err, next) ==
    \/ /\ \E r \in ErrorHandler(err) : resp' = [r EXCEPT !.mapped = TRUE]
       /\ phase' = next /\ UNCHANGED raised
    \/ /\ Panics(ErrorMay) # {}
       /\ phase' = "dead" /\ raised' = "broken" /\ UNCHANGED resp

\* invoke's own recover: http.ErrAbortHandler panics on, to net/http.
InvokeRecovers ==
    /\ phase = "unwind" /\ at = 0
    /\ IF raised = "abort"
       THEN phase' = "dead" /\ UNCHANGED flight
       ELSE Map("internal", "leave")
    /\ UNCHANGED <<app, request, chain, at, check, settings, outcome, trace>>

\* Mutant: the boundary only logs the error.
BoundaryLogsOnly ==
    /\ phase = "leave" /\ at = 0
    /\ phase' = "write"
    /\ UNCHANGED <<app, request, chain, at, check, flight, settings, outcome, trace>>

\* ServeHTTP after invoke: the error handler makes a new Response of an error; not so for OPTIONS.
Boundary ==
    /\ phase = "leave" /\ at = 0
    /\ IF resp.err # "none" /\ target # "options"
       THEN Map(resp.err, "write")
       ELSE phase' = "write" /\ UNCHANGED flight
    /\ UNCHANGED <<app, request, chain, at, check, settings, outcome, trace>>

\* What the client gets of a Response: writeResponse makes a redirect of status 0 a 302, and else calls no
\* WriteHeader for 0, so that net/http sends 200, as it does after a 1xx; a redirect goes without its
\* headers and cookies.
Sent(r) == IF r.status \notin {"0", "early"} THEN r.status
           ELSE IF r.status = "0" /\ r.redirect THEN "302" ELSE "ok"
Wire(r) == [r EXCEPT !.status = Sent(r), !.headers = IF r.redirect THEN {} ELSE @]

\* Mutant: every redirect is a 302.
WriteFound ==
    /\ phase = "write"
    /\ writes' = Append(writes, [Wire(resp) EXCEPT !.status = IF resp.redirect THEN "302" ELSE @])
    /\ phase' = "log"
    /\ UNCHANGED <<app, request, chain, at, check, flight, settings, logged, trace>>

\* writeResponse, or http.Error.  WriteHeader panics for a status that is none.
Write ==
    /\ phase = "write"
    /\ IF resp.status = "invalid"
       THEN phase' = "dead" /\ raised' = "broken" /\ UNCHANGED writes
       ELSE phase' = "log" /\ writes' = Append(writes, Wire(resp)) /\ UNCHANGED raised
    /\ UNCHANGED <<app, request, chain, at, check, resp, settings, logged, trace>>

Log ==
    /\ phase = "log"
    /\ logged' = resp.status
    /\ phase' = "done"
    /\ UNCHANGED <<app, request, chain, at, check, flight, settings, writes, trace>>

Over == phase \in {"done", "dead"} /\ UNCHANGED vars

-----------------------------------------------------------------------------
SetUp == Register \/ (\E m \in GlobalMW : Use(m)) \/ (\E g \in GlobalGuards : AddGuard(g))
Receive == ServeRoute \/ ServeProbe \/ ServeOptions \/ ServeError("missing", "404") \/ ServeError("method", "405")
Enter == EnterTimeout \/ EnterLimit \/ EnterMW \/ CheckGuard \/ GuardsPass \/ RunCheck \/ Handle
Leave == LeaveTimeout \/ LeavePlain \/ LeaveMW \/ UnwindMW \/ InvokeRecovers
Answer == Boundary \/ Write \/ Log

Next == SetUp \/ Receive \/ Enter \/ Leave \/ Answer \/ DeadlinePasses \/ Over
Spec == Init /\ [][Next]_vars

-----------------------------------------------------------------------------
Happened(i, what, name) == trace[i].what = what /\ trace[i].name = name
Before(what, name, j) == \E i \in 1..j - 1 : Happened(i, what, name)
RankMW(m) == CASE m \in GlobalMW -> 1 [] m \in ToSet(ModuleMW) -> 2 [] OTHER -> 3
RankGuard(g) == CASE g \in GlobalGuards -> 1 [] g \in ToSet(ModuleGuards) -> 2 [] OTHER -> 3

\* Some middleware that was entered before the j-th callback has answered anew.
Overruled(j) == \E a \in 1..j - 1, k \in DOMAIN trace :
                    trace[a].what = "enter" /\ Happened(k, "anew", trace[a].name)

\* The answer is one of the pipeline's, not of the error handler, and goes with its headers.
Plain(w) == ~w.mapped /\ ~w.redirect

\* A user's handler runs only when no guard has objected and every guard of its module and route,
\* and every global one known when the route was registered, has passed; guards run level by level.
GuardsGateHandler ==
    \A j \in DOMAIN trace :
        /\ Happened(j, "handler", "user") =>
              /\ \A g \in ToSet(route.guards) \cup ToSet(ModuleGuards) \cup ToSet(RouteGuards) :
                    Before("passed", g, j)
              /\ \A i \in 1..j : trace[i].what # "blocked"
        /\ \A i \in 1..j : trace[i].what = "passed" /\ trace[j].what = "passed" =>
              RankGuard(trace[i].name) <= RankGuard(trace[j].name)

\* Middleware is entered level by level, before any guard and the handler; what was entered is left
\* innermost first.
MiddlewareNests ==
    \A i, j \in DOMAIN trace : i < j =>
        /\ trace[i].what = "enter" /\ trace[j].what = "enter" => RankMW(trace[i].name) <= RankMW(trace[j].name)
        /\ trace[i].what # "enter" => trace[j].what # "enter"
        /\ {trace[i].what, trace[j].what} \subseteq {"leave", "anew"} =>
              \A a, b \in DOMAIN trace : Happened(a, "enter", trace[i].name) /\ Happened(b, "enter", trace[j].name)
                                          => b < a

\* No error of a registered route reaches the client but what the error handler makes of it.
RouteErrorsMapped ==
    target # "options" => \A i \in DOMAIN writes : writes[i].err # "none" => writes[i].mapped

\* Everything of the route, its middleware and guards included, runs under the route's own body
\* limit and within its deadline: the context is cancelled only once all of it is over.
SettingsInForce ==
    target = "route" /\ phase \in {"enter", "leave"} /\ at > 0 /\ chain[at].kind \in {"mw", "guards", "handler"} =>
        /\ Limited => settings.limit = "route"
        /\ Timed => settings.deadline \in {"live", "passed"}

\* "attaches it as X-Request-ID on the response" (middleware/requestid.go:10-11): the header is on what is
\* written once RequestID was left, unless a middleware outside it answered anew.  An error and a
\* redirect lose it: the boundary answers anew, and writeResponse sends a redirect without its headers.
RequestIDOnSuccess ==
    \A i \in DOMAIN writes, m \in Tags, j, k \in DOMAIN trace :
        /\ Happened(j, "enter", m) /\ Happened(k, "leave", m) /\ ~Overruled(j)
        /\ Plain(writes[i])
        => m \in writes[i].headers

\* "A preflight from a disallowed origin must not reach the handler" (middleware/cors.go:50): nothing
\* inside CORS runs for an OPTIONS request that it answers, be it to a route of its own or not; and an
\* answer carries the headers exactly when the origin is an allowed one, with the same exceptions.
CorsDecides ==
    \A c \in Cors, j \in DOMAIN trace : Happened(j, "enter", c) =>
        /\ method = "OPTIONS" /\ origin \in {"allowed", "asking"} =>
              \A k \in DOMAIN trace : k > j => trace[k].what \in {"leave", "anew"}
        /\ \A i \in DOMAIN writes : Plain(writes[i]) /\ ~Overruled(j) =>
              (c \in writes[i].headers <=> origin = "allowed")

\* "Returns 200 if all checks pass, 503 if any check fails" (health.go:47): no check is skipped since
\* an earlier one failed or forgotten since a later one passed; for one that panics the error handler answers.
ReadyTellsChecks ==
    target = "ready" => \A i \in DOMAIN writes :
        LET Results == {j \in DOMAIN trace : trace[j].what \in {"healthy", "degraded"}}
            Bad == {j \in Results : trace[j].what = "degraded"}
        IN  IF raised = "none"
            THEN /\ Cardinality(Results) = Len(Checks) /\ ~writes[i].mapped
                 /\ writes[i].status = IF Bad = {} THEN "ok" ELSE "503"
            ELSE writes[i].mapped

\* One request is an exchange: answered at most once, with the status that is logged unless that is 0 or 1xx;
\* unanswered only after http.ErrAbortHandler, which "propagates untouched" (bast.go:289) unless a
\* middleware.Recover was entered, after a panic of the error handler outside the pipeline, and for a
\* status that is none.
E == INSTANCE Exchange WITH
        Statuses <- {"ok", "rejected", "302", "307", "404", "405", "500", "503"}, Unsent <- {"0", "early"},
        Default <- "ok", None <- "none",
        answer <- IF writes = <<>> THEN "none" ELSE Last(writes).status,
        aborting <- raised \in {"abort", "broken"} /\ phase \in {"unwind", "dead"},
        shielded <- \E j \in DOMAIN trace, m \in Recovers : Happened(j, "enter", m),
        certain <- writes = <<>> \/ resp.status \notin {"0", "early"},
        dropped <- phase = "dead"

Exchanged == E!Spec

\* "Guard registers global guards.  Runs for every request before the handler" (bast.go:113): before a
\* user's handler every global guard has passed, also one that was added after the route.
EveryGlobalGuardRuns ==
    \A j \in DOMAIN trace : Happened(j, "handler", "user") => \A g \in ToSet(guards) : Before("passed", g, j)
=============================================================================
