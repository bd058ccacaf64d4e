----------------------------- MODULE Registration -----------------------------
(* What an application consists of before it serves: New mounts the probes    *)
(* and the documentation, Guard adds global guards, Register walks a tree of  *)
(* modules and hands every route to the router and to the builder of the      *)
(* OpenAPI document; the first lookup closes the table.                       *)
(*                                                                            *)
(* A pattern or prefix as it is written is the sequence of what follows each  *)
(* "/": "" is empty, "/" is <<Slash>>, "/users/" is <<users, Slash>>.  So     *)
(* that to append one string to another is to append the sequences.           *)
EXTENDS RouteTable

CONSTANTS Tree,     \* Tree[m] is the Module m: prefix, guards, routes, modules, name
          Probes,   \* the paths New mounts with GET: LivePath, ReadyPath, JSONPath, Path
          Global,   \* guards main may make global
          Scheme,   \* Scheme[g] is the SecurityScheme of a SecuredGuard: its key and the rest
          MaxRoots, \* bound: calls of Register
          MaxGuards \* bound: calls of Guard

VARIABLES guards,      \* App.guards
          modules,     \* App.modules
          tags,        \* specBuilder.tags
          spec,        \* specBuilder.routes
          schemes,     \* specBuilder.schemes
          handlers,    \* handlers[h]: what the h-th Add was given
          todo,        \* what the walk still has to do, next first
          phase,       \* "setup", "listening", "dead" after a panic
          roots        \* the modules main has registered, and the global guards of that moment

appVars == <<guards, modules, tags, roots>>
docVars == <<spec, schemes>>
vars == <<tableVars, appVars, docVars, handlers, todo, phase>>

Modules == DOMAIN Tree
Secured(g) == g \in DOMAIN Scheme

SchemeKey(g) == Scheme[g].key
SchemeDef(g) == Scheme[g].rest
Declares(g, k) == Secured(g) /\ SchemeKey(g) = k

\* buildOperation: the keys of the schemes an operation lists, each an alternative to the others.
Schemes(gs) == {SchemeKey(g) : g \in {g \in ToSet(gs) : Secured(g)}}

\* A pattern as Add reads it: "/" has no segments.
Routed(s) == IF s = <<Slash>> THEN <<>> ELSE s

\* toOpenAPIPath: ":id" and "*id" both become "{id}".
OpenAPIPath(s) == [i \in DOMAIN s |-> IF s[i].kind \in {"param", "wild"} THEN Seg("braces", s[i].name) ELSE s[i]]

\* Add: the pattern has to begin with "/" and the method to be a known one.
Addable(m, s) == s # <<>> /\ m \in Method /\ Accepts(m, Routed(s))

\* guardMiddleware, addRoute: the guards of the application, the module, the route, in this order.
AllGuards(m, r) == guards \o Tree[m].guards \o r.guards

ModuleTask(m, prefix) == [kind |-> "module", module |-> m, prefix |-> prefix, route |-> <<>>]
RouteTask(m, prefix, r) == [kind |-> "route", module |-> m, prefix |-> prefix, route |-> r]
ProbeTask(p) == [kind |-> "probe", module |-> "", prefix |-> p, route |-> <<>>]

\* registerHealthRoutes and registerDocsRoutes are the first thing the walk does.
Init ==
    /\ TableInit
    /\ guards = <<>> /\ modules = <<>> /\ tags = <<>> /\ roots = <<>>
    /\ spec = <<>> /\ schemes = [k \in {} |-> ""]
    /\ handlers = <<>> /\ phase = "setup"
    /\ todo = [i \in DOMAIN Probes |-> ProbeTask(Probes[i])]

\* main has returned from New, Guard or Register.
Idle == phase = "setup" /\ todo = <<>>

\* Router.Add, and what is left to do; or its panic, on which the program ends.
Add(m, s, handler) ==
    IF Addable(m, s)
    THEN /\ TableAdd(m, Routed(s))
         /\ handlers' = Append(handlers, handler)
         /\ todo' = Tail(todo)
         /\ UNCHANGED phase
    ELSE phase' = "dead" /\ UNCHANGED <<tableVars, handlers, todo>>

MountProbe ==
    /\ phase = "setup" /\ todo # <<>> /\ Head(todo).kind = "probe"
    /\ Add("GET", Head(todo).prefix, [method |-> "GET", pattern |-> Head(todo).prefix, guards |-> <<>>, probe |-> TRUE])
    /\ UNCHANGED <<appVars, docVars>>

Guard(g) ==
    /\ Idle /\ Len(guards) < MaxGuards
    /\ guards' = Append(guards, g)
    /\ UNCHANGED <<tableVars, modules, tags, roots, docVars, handlers, todo, phase>>

Register(m) ==
    /\ Idle /\ Len(roots) < MaxRoots
    /\ roots' = Append(roots, [module |-> m, guards |-> guards])
    /\ todo' = <<ModuleTask(m, <<>>)>>
    /\ UNCHANGED <<tableVars, guards, modules, tags, docVars, handlers, phase>>

\* addModuleDoc
Tagged(name) == IF name = "" \/ name \in ToSet(tags) THEN tags ELSE Append(tags, name)

\* Mutant: a nested module does not inherit the prefix.
EnterModuleFlat ==
    /\ phase = "setup" /\ todo # <<>> /\ Head(todo).kind = "module"
    /\ LET m == Head(todo).module
           prefix == Head(todo).prefix \o Tree[m].prefix
       IN  /\ modules' = Append(modules, m)
           /\ tags' = Tagged(Tree[m].name)
           /\ todo' = [i \in DOMAIN Tree[m].routes |-> RouteTask(m, prefix, Tree[m].routes[i])]
                      \o [i \in DOMAIN Tree[m].modules |-> ModuleTask(Tree[m].modules[i], <<>>)]
                      \o Tail(todo)
    /\ UNCHANGED <<tableVars, guards, roots, docVars, handlers, phase>>

\* registerModule: its own routes, then its sub-modules, which inherit the prefix and nothing else.
EnterModule ==
    /\ phase = "setup" /\ todo # <<>> /\ Head(todo).kind = "module"
    /\ LET m == Head(todo).module
           prefix == Head(todo).prefix \o Tree[m].prefix
       IN  /\ modules' = Append(modules, m)
           /\ tags' = Tagged(Tree[m].name)
           /\ todo' = [i \in DOMAIN Tree[m].routes |-> RouteTask(m, prefix, Tree[m].routes[i])]
                      \o [i \in DOMAIN Tree[m].modules |-> ModuleTask(Tree[m].modules[i], prefix)]
                      \o Tail(todo)
    /\ UNCHANGED <<tableVars, guards, roots, docVars, handlers, phase>>

\* addRoute: every security scheme of these guards whose key is new; of two with one key the first.
SchemesOf(gs) ==
    schemes' = [k \in DOMAIN schemes \cup Schemes(gs) |->
                   IF k \in DOMAIN schemes THEN schemes[k]
                   ELSE SchemeDef(gs[CHOOSE i \in DOMAIN gs : Declares(gs[i], k) /\ \A j \in 1..i - 1 : ~Declares(gs[j], k)])]

\* Mutant of Documented: only the guards of the route itself declare their scheme.
DocumentedByRoute(m, r, s) ==
    /\ spec' = Append(spec, [method |-> r.method, path |-> OpenAPIPath(s), guards |-> AllGuards(m, r)])
    /\ SchemesOf(r.guards)

\* addRoute: the entry and the schemes.
Documented(m, r, s) ==
    /\ spec' = Append(spec, [method |-> r.method, path |-> OpenAPIPath(s), guards |-> AllGuards(m, r)])
    /\ SchemesOf(AllGuards(m, r))

\* registerRoute
MountRoute ==
    /\ phase = "setup" /\ todo # <<>> /\ Head(todo).kind = "route"
    /\ LET m == Head(todo).module
           r == Head(todo).route
           s == Head(todo).prefix \o r.pattern
       IN  /\ Documented(m, r, s)
           /\ Add(r.method, s, [method |-> r.method, pattern |-> s, guards |-> AllGuards(m, r), probe |-> FALSE])
    /\ UNCHANGED appVars

\* Listen, and the first request.
Listen ==
    /\ Idle
    /\ TableSeal
    /\ phase' = "listening"
    /\ UNCHANGED <<appVars, docVars, handlers, todo>>

Next == \/ MountProbe \/ EnterModule \/ MountRoute \/ Listen
        \/ \E g \in Global : Guard(g)
        \/ \E m \in Modules : Register(m)
Spec == Init /\ [][Next]_vars

-----------------------------------------------------------------------------
Entries(path, method) == {i \in DOMAIN spec : spec[i].path = path /\ spec[i].method = method}
Documents == {<<spec[i].path, spec[i].method>> : i \in DOMAIN spec}

\* Mutant of Operation: the first entry stays.
OperationFirst(op) == Schemes(spec[CHOOSE i \in Entries(op[1], op[2]) : \A j \in Entries(op[1], op[2]) : i <= j].guards)

\* build: of several entries for a path and a method the last one stays.
Operation(op) == Schemes(spec[CHOOSE i \in Entries(op[1], op[2]) : \A j \in Entries(op[1], op[2]) : j <= i].guards)

\* The handler the router has for its pattern: a later Add replaces an earlier one.
Live(h) == routes[handlers[h].method][Routed(handlers[h].pattern)] = h
DocumentedAs(h) == <<OpenAPIPath(handlers[h].pattern), handlers[h].method>>

\* What a module declares, read off the tree: its routes and those of its sub-modules, all under its prefix.
Own(m) == [i \in DOMAIN Tree[m].routes |->
              [method |-> Tree[m].routes[i].method, pattern |-> Tree[m].routes[i].pattern,
               guards |-> Tree[m].guards \o Tree[m].routes[i].guards]]
Under(prefix, q) == [i \in DOMAIN q |-> [q[i] EXCEPT !.pattern = prefix \o @]]
Declared[m \in Modules] ==
    Under(Tree[m].prefix, Own(m) \o FlattenSeq([i \in DOMAIN Tree[m].modules |-> Declared[Tree[m].modules[i]]]))

\* The handlers of what is declared, behind guards that are global.
Behind(gs, q) == [i \in DOMAIN q |-> [method |-> q[i].method, pattern |-> q[i].pattern, guards |-> gs \o q[i].guards,
                                      probe |-> FALSE]]

\* A module is no part of itself, or Register would not return; Patterns has every pattern that may be added.
ASSUME RegistrationAssumption ==
    /\ \A m \in Modules :
          /\ Tree[m].prefix \in Seq(ToSet(Tree[m].prefix)) /\ Tree[m].guards \in Seq(ToSet(Tree[m].guards))
          /\ Tree[m].routes \in Seq(ToSet(Tree[m].routes)) /\ Tree[m].modules \in Seq(Modules)
          /\ \A r \in ToSet(Tree[m].routes) : r.pattern \in Seq(ToSet(r.pattern)) /\ r.guards \in Seq(ToSet(r.guards))
    /\ IsFiniteSet(Modules)
    /\ \E depth \in [Modules -> 0..Cardinality(Modules)] :
          \A m \in Modules : \A s \in ToSet(Tree[m].modules) : depth[s] < depth[m]
    /\ Probes \in Seq(ToSet(Probes))
    /\ \A p \in ToSet(Probes) : Routed(p) \in Patterns
    /\ \A m \in Modules : \A d \in ToSet(Declared[m]) :
          d.pattern # <<>> /\ d.method \in Method /\ WellFormed(Routed(d.pattern)) => Routed(d.pattern) \in Patterns

\* What serves is what main declared, in the order of declaration, behind its module's and its own guards:
\* "Child modules inherit the parent's prefix" (docs/concepts/modules.md:120), and not its guards.  In
\* front of them stand global guards alone, in their order, and at least those that were global when the
\* module was registered.
MountedAsDeclared ==
    phase = "listening" =>
        \E known \in [DOMAIN roots -> 0..Len(guards)] :
            /\ \A k \in DOMAIN roots : known[k] >= Len(roots[k].guards)
            /\ SubSeq(handlers, Len(Probes) + 1, Len(handlers)) =
                   FlattenSeq([k \in DOMAIN roots |-> Behind(SubSeq(guards, 1, known[k]), Declared[roots[k].module])])

Serving == {h \in DOMAIN handlers : Live(h) /\ ~handlers[h].probe}

\* The document describes what the router serves: an operation for every route that was not replaced,
\* no other; with just the schemes of the guards that stand before that route, where no other route that
\* serves has the same operation, and where several have it, of one of them.  Whatever was registered so
\* far, no operation names a scheme the document does not define.
DocumentAgrees ==
    /\ \A op \in Documents : Operation(op) \subseteq DOMAIN schemes
    /\ phase = "listening" =>
        /\ {DocumentedAs(h) : h \in Serving} = Documents
        /\ \A h \in Serving :
              \/ Operation(DocumentedAs(h)) = Schemes(handlers[h].guards)
              \/ \E g \in Serving : g # h /\ DocumentedAs(g) = DocumentedAs(h) /\ Operation(DocumentedAs(h)) = Schemes(handlers[g].guards)
=============================================================================
