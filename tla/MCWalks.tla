------------------------------- MODULE MCWalks --------------------------------
(* Registration and Binding share no state, and each says how a tree is       *)
(* walked: a behaviour here is one of the one or of the other.                *)
(*                                                                            *)
(* For Registration: a module with sub-modules, one of them used twice;       *)
(* routes that replace a probe or another module's route, that differ only in *)
(* the kind of a segment, that name a parameter differently, or are no        *)
(* patterns at all.                                                           *)
(*                                                                            *)
(* For Binding: a nested struct whose variable a field outside has too, every *)
(* kind of field, strings that are numbers, too large ones, lists, empty, and *)
(* no number at all.                                                          *)
EXTENDS Registration, Binding

VARIABLE walk  \* the one: "modules", or the other: "structs"

WalksInit ==
    /\ Init /\ BindingInit
    /\ walk \in {"modules", "structs"}
    /\ walk = "modules" => task = "load" /\ env = [v \in Vars |-> Unset]

WalksNext ==
    \/ walk = "modules" /\ Next /\ UNCHANGED <<walk, bindingVars>>
    \/ walk = "structs" /\ BindingNext /\ UNCHANGED <<walk, vars>>

WalksSpec == WalksInit /\ [][WalksNext]_<<walk, vars, bindingVars>>

-----------------------------------------------------------------------------
S(name) == Seg("static", name)
P(name) == Seg("param", name)
W(name) == Seg("wild", name)

Route(method, pattern, gs) == [method |-> method, pattern |-> pattern, guards |-> gs]
Module(prefix, gs, rs, ms, name) == [prefix |-> prefix, guards |-> gs, routes |-> rs, modules |-> ms, name |-> name]

MCMethods == <<"GET", "POST">>
MCProbes == <<<<S("health")>>, <<S("docs")>>>>

MCTree ==
    [v1    |-> Module(<<S("v1")>>, <<"auth">>, <<Route("GET", <<Slash>>, <<>>)>>, <<"users", "files">>, "v1"),
     users |-> Module(<<S("users")>>, <<"role">>, <<Route("GET", <<P("id")>>, <<"basic">>), Route("POST", <<>>, <<>>)>>, <<>>, "Users"),
     files |-> Module(<<S("files")>>, <<>>, <<Route("GET", <<P("id")>>, <<"basic">>), Route("GET", <<W("id")>>, <<"auth">>)>>, <<>>, ""),
     bare  |-> Module(<<>>, <<>>, <<Route("GET", <<S("health")>>, <<"key">>), Route("GET", <<S("users"), P("id")>>, <<>>)>>, <<"users">>, "Users"),
     clash |-> Module(<<S("users")>>, <<>>, <<Route("GET", <<P("name")>>, <<>>)>>, <<>>, "Clash"),
     root  |-> Module(<<Slash>>, <<>>, <<Route("GET", <<>>, <<>>), Route("GET", <<S("x")>>, <<>>)>>, <<>>, "Root"),
     odd   |-> Module(<<>>, <<>>, <<Route("BREW", <<S("tea")>>, <<>>)>>, <<>>, "Odd")]

\* Two guards declare a scheme with the same key.
MCScheme == [auth |-> [key |-> "bearerAuth", rest |-> "JWT"],
             key |-> [key |-> "bearerAuth", rest |-> "opaque"],
             basic |-> [key |-> "basicAuth", rest |-> ""]]

MCPatterns == {<<>>, <<S("health")>>, <<S("docs")>>, <<S("v1"), Slash>>, <<S("v1"), S("users"), P("id")>>, <<S("v1"), S("users")>>,
               <<S("v1"), S("files"), P("id")>>, <<S("v1"), S("files"), W("id")>>, <<S("users"), P("id")>>, <<S("users")>>,
               <<S("files"), P("id")>>, <<S("files"), W("id")>>, <<S("users"), P("name")>>}

-----------------------------------------------------------------------------
MCStruct ==
    [cfg |-> <<Field(<<"PORT">>, "int64", "", "5", FALSE, TRUE),
               Field(<<"SECRET">>, "string", "", "unset", TRUE, FALSE),
               Field(<<"DB">>, "struct", "db", "unset", FALSE, TRUE),
               Field(<<>>, "struct", "db", "unset", FALSE, TRUE),
               Field(<<"DB", "URL">>, "strings", "", "unset", TRUE, TRUE)>>,
     db  |-> <<Field(<<"URL">>, "string", "", "unset", TRUE, TRUE),
               Field(<<"POOL">>, "struct", "pool", "unset", FALSE, TRUE),
               Field(<<"NAME">>, "string", "", "x", TRUE, TRUE)>>,
     pool |-> <<Field(<<"MAX">>, "int64", "", "unset", TRUE, TRUE)>>,
     form |-> <<Field(<<"small">>, "int8", "", "unset", FALSE, TRUE),
                Field(<<"-">>, "string", "", "unset", FALSE, TRUE),
                Field(<<"count">>, "uint8", "", "unset", FALSE, TRUE),
                Field(<<"small">>, "strings", "", "unset", FALSE, TRUE),
                Field(<<"other">>, "struct", "db", "unset", FALSE, TRUE),
                Field(<<"count">>, "string", "", "unset", FALSE, FALSE)>>]

MCVars == {<<"PORT">>, <<"DB", "URL">>, <<"DB", "POOL", "MAX">>, <<"DB", "NAME">>, <<"URL">>}
MCNames == {<<"small">>, <<"count">>, <<"other">>}
MCRaw == {"", "5", "300", "a,b"}
MCValues == {<<>>} \cup {<<r>> : r \in MCRaw} \cup {<<"5", "a,b">>, <<"a,b", "5">>}
MCQueries == {[n \in MCNames |-> <<>>], [n \in MCNames |-> IF n = <<"small">> THEN <<"5">> ELSE <<>>]}
MCNumber == [r \in {"5", "300"} |-> IF r = "5" THEN 5 ELSE 300]
MCParts == [r \in MCRaw |-> IF r = "a,b" THEN <<"a", "b">> ELSE <<r>>]
=============================================================================
