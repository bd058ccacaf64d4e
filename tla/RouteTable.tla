------------------------------ MODULE RouteTable -----------------------------
(* What a router promises, without a tree: a set of routes that grows until   *)
(* the first lookup and never changes again, and lookups that all answer from *)
(* that set.  Router implements it.                                           *)
(*                                                                            *)
(* A pattern or a path is the sequence of its segments: "/" is <<"">>, "/a/"  *)
(* is <<"a", "">>.  A pattern's segments have a kind; a trailing slash is a   *)
(* last segment of kind "slash", the pattern "/" is empty.  A handler is the  *)
(* number of the Add that registered it, 0 is nil.                            *)
EXTENDS Integers, Sequences, SequencesExt

CONSTANTS Methods,   \* the methods of the router, in the order of methodIdx: a sequence
          Patterns,  \* the patterns that may be added
          Paths,     \* the paths there are
          Asked,     \* the paths that are looked up
          Lookups,   \* goroutines, one lookup each
          MaxAdds,   \* bound: calls of Add
          Other      \* a method the router does not know

VARIABLES routes,    \* routes[m][p] is the handler of the pattern p under the method m
          adds,      \* how many Adds there were
          sealed,    \* the table is closed
          answer     \* what a lookup returned

tableVars == <<routes, adds, sealed, answer>>

Seg(kind, name) == [kind |-> kind, name |-> name]
Slash == Seg("slash", "")
Method == ToSet(Methods)

ASSUME PatternsAssumption ==
    /\ Methods \in Seq(ToSet(Methods))
    /\ \A p \in Patterns : p \in Seq(ToSet(p)) /\ \A s \in ToSet(p) :
          s = Slash \/ (s = Seg(s.kind, s.name) /\ s.kind \in {"static", "param", "wild"})
    /\ \A path \in Paths : path \in Seq(ToSet(path)) /\ path # <<>>

\* What Add panics on: the wildcard, or an empty segment, before the end.
WellFormed(p) == \A i \in 1..Len(p) - 1 : p[i].kind \notin {"wild", "slash"}

\* Two patterns that name the parameter, or the wildcard, at the same place differently.
Conflict(p, q) ==
    \E i \in DOMAIN p \cap DOMAIN q :
        /\ \A j \in 1..i - 1 : p[j] = q[j]
        /\ p[i].kind = q[i].kind /\ p[i].kind \in {"param", "wild"}
        /\ p[i].name # q[i].name

\* A route of T continues with the prefix q.
Leads(T, q) == \E p \in Patterns : T[p] # 0 /\ IsPrefix(q, p)
Named(T, q, kind) == {p[Len(q) + 1].name : p \in {p \in Patterns :
                          T[p] # 0 /\ Len(p) > Len(q) /\ IsPrefix(q, p) /\ p[Len(q) + 1].kind = kind}}

Trailing(path) == path[Len(path)] = ""

NoMatch == [handler |-> 0, params |-> <<>>]

\* The segments of a path without the slash at its end.
Depth(path) == IF Trailing(path) THEN Len(path) - 1 ELSE Len(path)

\* The route a path takes: at every segment a static child before the parameter before the wildcard,
\* never coming back from a choice.
Further(T, path, i, t) ==
    IF t.at # "node" THEN t
    ELSE IF Leads(T, Append(t.q, Seg("static", path[i]))) THEN [t EXCEPT !.q = Append(@, Seg("static", path[i]))]
    ELSE IF Named(T, t.q, "param") # {} THEN
         LET n == CHOOSE n \in Named(T, t.q, "param") : TRUE IN
         [t EXCEPT !.q = Append(@, Seg("param", n)), !.params = Append(@, <<n, <<path[i]>>>>)]
    ELSE IF Named(T, t.q, "wild") # {} THEN
         LET n == CHOOSE n \in Named(T, t.q, "wild") : TRUE IN
         [q |-> Append(t.q, Seg("wild", n)), at |-> "wildcard",
          params |-> Append(t.params, <<n, SubSeq(path, i, Len(path))>>)]
    ELSE [t EXCEPT !.at = "nowhere"]

Taken(T, path) ==
    LET taken[i \in 0..Depth(path)] ==
            IF i = 0 THEN [q |-> <<>>, params |-> <<>>, at |-> "node"] ELSE Further(T, path, i, taken[i - 1])
    IN  taken

Match(T, path) ==
    LET end == Taken(T, path)[Depth(path)]
        last == IF end.at = "node" /\ Trailing(path) /\ Depth(path) > 0 THEN Append(end.q, Slash) ELSE end.q
    IN  IF end.at = "nowhere" \/ last \notin Patterns \/ T[last] = 0 THEN NoMatch
        ELSE [handler |-> T[last], params |-> end.params]

\* Of the methods in S, in the order of methodIdx.
Listed(S) == SelectSeq(Methods, LAMBDA o : o \in S)

\* The other methods that know the path.
Allow(R, m, path) == Listed({o \in Method : o # m /\ Match(R[o], path).handler # 0})

\* Find.
Answer(R, m, path) ==
    LET own == IF m \in Method THEN Match(R[m], path) ELSE NoMatch IN
    [match |-> own, allow |-> IF own.handler # 0 THEN <<>> ELSE Allow(R, m, path)]

Nothing == [match |-> NoMatch, allow |-> <<>>, done |-> FALSE]

TableInit ==
    /\ routes = [m \in Method |-> [p \in Patterns |-> 0]]
    /\ adds = 0 /\ sealed = FALSE
    /\ answer = [g \in Lookups |-> Nothing]

\* Add takes the pattern and does not panic.
Accepts(m, p) == WellFormed(p) /\ \A q \in Patterns : routes[m][q] # 0 => ~Conflict(p, q)

TableAdd(m, p) ==
    /\ ~sealed /\ Accepts(m, p)
    /\ adds' = adds + 1
    /\ routes' = [routes EXCEPT ![m][p] = adds + 1]
    /\ UNCHANGED <<sealed, answer>>

TableSeal == ~sealed /\ sealed' = TRUE /\ UNCHANGED <<routes, adds, answer>>

TableFind(g, m, path) ==
    /\ sealed /\ ~answer[g].done
    /\ answer' = [answer EXCEPT ![g] = [match |-> Answer(routes, m, path).match,
                                        allow |-> Answer(routes, m, path).allow, done |-> TRUE]]
    /\ UNCHANGED <<routes, adds, sealed>>

TableNext == \/ \E m \in Method, p \in Patterns : TableAdd(m, p)
             \/ TableSeal
             \/ \E g \in Lookups, m \in Method \cup {Other}, path \in Asked : TableFind(g, m, path)
TableSpec == TableInit /\ [][TableNext]_tableVars
=============================================================================
