------------------------------- MODULE Router --------------------------------
(* The router (internal/router): per method a tree of segments that Add       *)
(* grows, frozen by the first Find into one array in breadth-first order, and *)
(* the search of that array.                                                  *)
(*                                                                            *)
(* A node of the mutable tree is known by the segments that lead to it; the   *)
(* array is as in the code, but indexed from 1.                               *)
EXTENDS RouteTable, FiniteSets

CONSTANTS Width  \* uint8 holds the values below this (256)

ASSUME RouterAssumption ==
    /\ \A i, j \in DOMAIN Methods : i # j => Methods[i] # Methods[j]
    /\ Asked \subseteq Paths /\ Other \notin ToSet(Methods) /\ MaxAdds \in Nat /\ Width \in Nat \ {0}

VARIABLES mutable,  \* Router.mutable: the tree of every method, empty if nil
          frozen,   \* Router.frozen: the array of every method
          once,     \* Router.once: "new", "running", "done"
          call      \* every goroutine's call of Find: where it is and with what

vars == <<tableVars, mutable, frozen, once, call>>

\* A mutableNode: its static children in the order of insertion, its parameter and wildcard child.
EmptyNode == [handler |-> 0, ts |-> 0, static |-> <<>>, param |-> {}, wild |-> {}]
EmptyTree == [q \in {} |-> EmptyNode]

\* insert on the way down: the child for the next segment s is there afterwards.
WithChild(n, s) ==
    CASE s.kind = "static" -> [n EXCEPT !.static = IF Contains(@, s.name) THEN @ ELSE Append(@, s.name)]
      [] s.kind = "param" -> [n EXCEPT !.param = {s.name}]
      [] s.kind = "wild" -> [n EXCEPT !.wild = {s.name}]

\* Mutant of Inserted: a pattern with a trailing slash is the pattern without it.
InsertedSlashless(tree, p, h) ==
    LET key == IF p # <<>> /\ Last(p) = Slash THEN Front(p) ELSE p
        old(q) == IF q \in DOMAIN tree THEN tree[q] ELSE EmptyNode
        path == {SubSeq(key, 1, k) : k \in 0..Len(key)}
    IN  [q \in DOMAIN tree \cup path |->
            IF q \notin path THEN tree[q]
            ELSE IF q # key THEN WithChild(old(q), key[Len(q) + 1])
            ELSE [old(q) EXCEPT !.handler = h]]

\* insert: the nodes of the pattern p are there, the last one has the handler h.
Inserted(tree, p, h) ==
    LET slash == p # <<>> /\ Last(p) = Slash
        key == IF slash THEN Front(p) ELSE p
        old(q) == IF q \in DOMAIN tree THEN tree[q] ELSE EmptyNode
        path == {SubSeq(key, 1, k) : k \in 0..Len(key)}
    IN  [q \in DOMAIN tree \cup path |->
            IF q \notin path THEN tree[q]
            ELSE IF q # key THEN WithChild(old(q), key[Len(q) + 1])
            ELSE IF slash THEN [old(q) EXCEPT !.ts = h] ELSE [old(q) EXCEPT !.handler = h]]

\* The panics of insert: another name for the parameter or wildcard of a node on the way.
Clashes(tree, p) ==
    \E i \in DOMAIN p : LET q == SubSeq(p, 1, i - 1) IN
        /\ q \in DOMAIN tree
        /\ \/ p[i].kind = "param" /\ tree[q].param \notin {{}, {p[i].name}}
           \/ p[i].kind = "wild" /\ tree[q].wild \notin {{}, {p[i].name}}

Kids(tree, q) == [i \in DOMAIN tree[q].static |-> Append(q, Seg("static", tree[q].static[i]))]
                 \o (IF tree[q].param = {} THEN <<>> ELSE <<Append(q, Seg("param", CHOOSE n \in tree[q].param : TRUE))>>)
                 \o (IF tree[q].wild = {} THEN <<>> ELSE <<Append(q, Seg("wild", CHOOSE n \in tree[q].wild : TRUE))>>)

\* freeze: the k-th node of the queue is processed.
Visited(tree, k, queue) == queue \o Kids(tree, queue[k])

\* Its queue after k nodes have been processed (CHOOSE of one: TLC evaluates the queue before once).
Queue(tree) ==
    LET queue[k \in 0..Cardinality(DOMAIN tree)] ==
            IF k = 0 THEN <<<<>>>>
            ELSE CHOOSE next \in {Visited(tree, k, done) : done \in {queue[k - 1]}} : TRUE
    IN  queue

\* The queue is also the order of the array.
Freeze(tree) ==
    LET queue == Queue(tree)
        total == Cardinality(DOMAIN tree)
    IN  [k \in 1..total |->
            LET q == queue[total][k] n == tree[q] IN
            [segment |-> IF q = <<>> THEN "" ELSE Last(q).name,
             handler |-> n.handler, ts |-> n.ts,
             childBase |-> Len(queue[k - 1]),
             staticCount |-> Len(n.static) % Width,
             hasParam |-> Cardinality(n.param),
             hasWild |-> Cardinality(n.wild)]]

\* The static children of n for the segment seg.
Static(nodes, n, seg) == {c \in n.childBase + 1..n.childBase + n.staticCount : nodes[c].segment = seg}

\* search: from the node w.cur to the one for the i-th segment, or where it stops.
Onward(nodes, path, i, w) ==
    LET n == nodes[w.cur]
        here == Static(nodes, n, path[i])
        pi == n.childBase + n.staticCount + 1
        wi == pi + n.hasParam
    IN  IF w.at # "node" THEN w
        ELSE IF here # {} THEN [w EXCEPT !.cur = CHOOSE c \in here : \A d \in here : c <= d]
        ELSE IF n.hasParam = 1 THEN
             [w EXCEPT !.cur = pi, !.params = Append(@, <<nodes[pi].segment, <<path[i]>>>>)]
        ELSE IF n.hasWild = 1 THEN
             [cur |-> wi, at |-> "wildcard",
              params |-> Append(w.params, <<nodes[wi].segment, SubSeq(path, i, Len(path))>>)]
        ELSE [w EXCEPT !.at = "nowhere"]

Walk(nodes, path) ==
    LET walk[i \in 0..Depth(path)] ==
            IF i = 0 THEN [cur |-> 1, params |-> <<>>, at |-> "node"] ELSE Onward(nodes, path, i, walk[i - 1])
    IN  walk

Search(nodes, path) ==
    LET end == Walk(nodes, path)[Depth(path)]
        handler == IF end.at = "nowhere" THEN 0
                   ELSE IF end.at = "node" /\ Trailing(path) /\ Depth(path) > 0 THEN nodes[end.cur].ts
                   ELSE nodes[end.cur].handler
    IN  IF handler = 0 THEN NoMatch ELSE [handler |-> handler, params |-> end.params]

Found(nodes, path) == IF nodes = <<>> THEN NoMatch ELSE Search(nodes, path)

-----------------------------------------------------------------------------
NoCall == [pc |-> "idle", method |-> Other, path |-> <<"">>]

Init ==
    /\ TableInit
    /\ mutable = [m \in Method |-> EmptyTree]
    /\ frozen = [m \in Method |-> <<>>]
    /\ once = "new"
    /\ call = [g \in Lookups |-> NoCall]

\* Add, during start-up: the contract has every Add return before the first Find.  A pattern it panics
\* on changes nothing.
Add(m, p) ==
    /\ ~sealed /\ once = "new" /\ adds < MaxAdds
    /\ \A g \in Lookups : call[g].pc = "idle"
    /\ WellFormed(p) /\ ~Clashes(mutable[m], p)
    /\ mutable' = [mutable EXCEPT ![m] = Inserted(mutable[m], p, adds + 1)]
    /\ routes' = [routes EXCEPT ![m][p] = adds + 1]
    /\ adds' = adds + 1
    /\ UNCHANGED <<sealed, answer, frozen, once, call>>

Find(g, m, path) ==
    /\ call[g].pc = "idle"
    /\ call' = [call EXCEPT ![g] = [pc |-> "once", method |-> m, path |-> path]]
    /\ UNCHANGED <<tableVars, mutable, frozen, once>>

\* Mutant of Enter: a flag instead of once.Do, which does not wait for the one who is freezing.
EnterAtOnce(g) ==
    /\ call[g].pc = "once"
    /\ once' = IF once = "new" THEN "running" ELSE once
    /\ call' = [call EXCEPT ![g].pc = IF once = "new" THEN "freeze" ELSE "search"]
    /\ UNCHANGED <<tableVars, mutable, frozen>>

\* once.Do: the first call runs the freeze, the others wait until it is over.
Enter(g) ==
    /\ call[g].pc = "once" /\ once # "running"
    /\ once' = IF once = "new" THEN "running" ELSE once
    /\ call' = [call EXCEPT ![g].pc = IF once = "new" THEN "freeze" ELSE "search"]
    /\ UNCHANGED <<tableVars, mutable, frozen>>

FreezeOne(g) ==
    /\ call[g].pc = "freeze"
    /\ \E i \in DOMAIN Methods : LET m == Methods[i] IN
          /\ mutable[m] # EmptyTree /\ \A j \in 1..i - 1 : mutable[Methods[j]] = EmptyTree
          /\ frozen' = [frozen EXCEPT ![m] = Freeze(mutable[m])]
          /\ mutable' = [mutable EXCEPT ![m] = EmptyTree]
    /\ UNCHANGED <<tableVars, once, call>>

\* Mutant of Seal: a once that is never left.
SealInside(g) ==
    /\ call[g].pc = "freeze"
    /\ \A m \in Method : mutable[m] = EmptyTree
    /\ sealed' = TRUE
    /\ call' = [call EXCEPT ![g].pc = "search"]
    /\ UNCHANGED <<routes, adds, answer, mutable, frozen, once>>

Seal(g) ==
    /\ call[g].pc = "freeze"
    /\ \A m \in Method : mutable[m] = EmptyTree
    /\ sealed' = TRUE /\ once' = "done"
    /\ call' = [call EXCEPT ![g].pc = "search"]
    /\ UNCHANGED <<routes, adds, answer, mutable, frozen>>

\* Mutant of FoundAnywhere: the Allow header of a method the router does not know lists nothing.
FoundAnywhereKnown(m, path) ==
    LET own == IF m \in Method THEN Found(frozen[m], path) ELSE NoMatch IN
    [match |-> own, done |-> TRUE,
     allow |-> IF own.handler # 0 \/ m \notin Method THEN <<>>
               ELSE Listed({o \in Method : o # m /\ Found(frozen[o], path).handler # 0})]

\* The method's own array, then every other one for the Allow header.
FoundAnywhere(m, path) ==
    LET own == IF m \in Method THEN Found(frozen[m], path) ELSE NoMatch IN
    [match |-> own, done |-> TRUE,
     allow |-> IF own.handler # 0 THEN <<>>
               ELSE Listed({o \in Method : o # m /\ Found(frozen[o], path).handler # 0})]

Lookup(g) ==
    /\ call[g].pc = "search"
    /\ answer' = [answer EXCEPT ![g] = FoundAnywhere(call[g].method, call[g].path)]
    /\ call' = [call EXCEPT ![g].pc = "done"]
    /\ UNCHANGED <<routes, adds, sealed, mutable, frozen, once>>

Over == (\A g \in Lookups : call[g].pc = "done") /\ UNCHANGED vars

Next == \/ \E m \in Method, p \in Patterns : Add(m, p)
        \/ \E g \in Lookups : \/ \E m \in Method \cup {Other}, path \in Asked : Find(g, m, path)
                              \/ Enter(g) \/ FreezeOne(g) \/ Seal(g) \/ Lookup(g)
        \/ Over

\* Every call gets on: once.Do is left by the goroutine that freezes.
Spec == Init /\ [][Next]_vars
FairSpec == Spec /\ \A g \in Lookups : WF_vars(Enter(g) \/ FreezeOne(g) \/ Seal(g) \/ Lookup(g))

-----------------------------------------------------------------------------
\* At any moment of start-up, the array that a freeze would make of a tree answers every path, also those
\* nobody asks for, as the routes added so far promise.
ArenaIsTable ==
    (\A g \in Lookups : call[g].pc = "idle") =>
        \A m \in Method, path \in Paths : Found(Freeze(mutable[m]), path) = Match(routes[m], path)

\* Nobody searches before every array is complete: one goroutine freezes, all others wait for it.
SearchWaitsForFreeze ==
    /\ \A g \in Lookups : call[g].pc \in {"search", "done"} =>
          sealed /\ \A m \in Method : mutable[m] = EmptyTree
    /\ \A g, h \in Lookups : call[g].pc = "freeze" /\ call[h].pc = "freeze" => g = h

\* The router is a route table.
ImplementsTable == TableSpec

\* Every lookup returns, also one that has to wait for another one's freeze: again and again none is
\* under way (a goroutine here makes one call, so that this is each of them returning).
LookupsReturn == []<>(\A g \in Lookups : call[g].pc \in {"idle", "done"})
=============================================================================
