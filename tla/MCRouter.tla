------------------------------ MODULE MCRouter -------------------------------
(* Instances of Router for TLC: patterns that share, shadow and contradict    *)
(* one another, and every path of up to three segments of a small alphabet.   *)
EXTENDS Router

S(name) == Seg("static", name)
P(name) == Seg("param", name)
W(name) == Seg("wild", name)

MCMethods == <<"GET", "POST">>

MCPatterns == {<<S("a")>>, <<S("a"), Slash>>, <<P("x")>>, <<P("x"), S("b")>>, <<P("y"), S("b")>>, <<W("w")>>,
               <<W("w"), S("a")>>}

MCPaths == UNION {[1..n -> {"", "a", "b"}] : n \in 1..3}

MCAsked == {<<"a", "b">>}
=============================================================================
