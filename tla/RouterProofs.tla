---------------------------- MODULE RouterProofs ------------------------------
(* Proofs about Router, for any methods, patterns and paths and any number of *)
(* goroutines, as long as fewer routes are added than uint8 has values:       *)
(* nobody searches before every array is complete (OInv), the array of a tree *)
(* finds what its routes promise (FoundIsMatch), and so every lookup answers  *)
(* from the table: Router implements RouteTable.                              *)
EXTENDS Router, SequenceTheorems, FiniteSetTheorems, WellFoundedInduction, TLAPS

\* Where everyone is, and how far the freeze.
OInv ==
    /\ once \in {"new", "running", "done"}
    /\ \A g \in Lookups : call[g].pc \in {"idle", "once", "freeze", "search", "done"}
    /\ once = "new" => \A g \in Lookups : call[g].pc \in {"idle", "once"}
    /\ once # "new" => \E g \in Lookups : call[g].pc # "idle"
    /\ once = "running" => \A g \in Lookups : call[g].pc \notin {"search", "done"}
    /\ once = "done" => sealed /\ \A m \in Method : mutable[m] = EmptyTree
    /\ once = "done" => \A g \in Lookups : call[g].pc # "freeze"
    /\ sealed => once = "done"
    /\ \A g, h \in Lookups : call[g].pc = "freeze" /\ call[h].pc = "freeze" => g = h

IsCall(c) == c = [pc |-> c.pc, method |-> c.method, path |-> c.path] /\ c.method \in Method \cup {Other}

\* The states of calls and tables.
Typed ==
    /\ DOMAIN call = Lookups
    /\ \A g \in Lookups : IsCall(call[g])
    /\ \A g \in Lookups : call[g].pc # "idle" => call[g].path \in Asked
    /\ DOMAIN mutable = Method /\ DOMAIN frozen = Method /\ DOMAIN answer = Lookups
    /\ routes \in [Method -> [Patterns -> Nat]] /\ adds \in Nat

-----------------------------------------------------------------------------
LEMMA InitOnce == Init => OInv /\ Typed
<1> SUFFICES ASSUME Init PROVE OInv /\ Typed
    OBVIOUS
<1>1. \A g \in Lookups : call[g] = NoCall
    BY DEF Init
<1>2. OInv
    BY <1>1 DEF Init, TableInit, OInv, NoCall
<1>3. IsCall(NoCall) /\ NoCall.pc = "idle"
    BY DEF NoCall, IsCall
<1>4. Typed
    BY <1>1, <1>3 DEF Init, TableInit, Typed
<1> QED
    BY <1>2, <1>4

\* A goroutine moves on.
Moves(g, pc) ==
    /\ DOMAIN call' = Lookups
    /\ call'[g].pc = pc /\ call'[g].method = call[g].method /\ call'[g].path = call[g].path
    /\ IsCall(call'[g])
    /\ \A h \in Lookups : h # g => call'[h] = call[h]

LEMMA CallMoves ==
    ASSUME Typed, NEW g \in Lookups, NEW pc, call' = [call EXCEPT ![g].pc = pc]
    PROVE  Moves(g, pc)
<1>1. call'[g] = [call[g] EXCEPT !.pc = pc] /\ DOMAIN call' = Lookups /\ \A h \in Lookups : h # g => call'[h] = call[h]
    BY DEF Typed
<1>2. IsCall(call[g])
    BY DEF Typed
<1>3. /\ call'[g] = [pc |-> pc, method |-> call[g].method, path |-> call[g].path]
      /\ call[g].method \in Method \cup {Other}
    BY <1>1, <1>2 DEF IsCall
<1> QED
    BY <1>1, <1>3 DEF Moves, IsCall

LEMMA NextOnce == OInv /\ Typed /\ [Next]_vars => OInv' /\ Typed'
<1> SUFFICES ASSUME OInv, Typed, [Next]_vars PROVE OInv' /\ Typed'
    OBVIOUS
<1>1. ASSUME NEW m \in Method, NEW p \in Patterns, Add(m, p) PROVE OInv' /\ Typed'
  <2>1. OInv'
    BY <1>1 DEF Add, OInv
  <2>2. DOMAIN mutable' = Method /\ routes' \in [Method -> [Patterns -> Nat]] /\ adds' \in Nat
    BY <1>1 DEF Add, Typed
  <2> QED
    BY <1>1, <2>1, <2>2 DEF Add, Typed
<1>2. ASSUME NEW g \in Lookups, NEW m \in Method \cup {Other}, NEW path \in Asked, Find(g, m, path) PROVE OInv' /\ Typed'
  <2>1. /\ DOMAIN call' = Lookups /\ call'[g] = [pc |-> "once", method |-> m, path |-> path]
        /\ \A h \in Lookups : h # g => call'[h] = call[h]
    BY <1>2 DEF Find, Typed
  <2>2. OInv'
    BY <1>2, <2>1 DEF Find, OInv, tableVars
  <2>3. IsCall(call'[g]) /\ call'[g].path \in Asked
    <3>1. call'[g].pc = "once" /\ call'[g].method = m /\ call'[g].path = path
      BY <2>1
    <3> QED
      BY <2>1, <3>1 DEF IsCall
  <2> QED
    BY <1>2, <2>1, <2>2, <2>3 DEF Find, Typed, tableVars
<1>3. ASSUME NEW g \in Lookups, Enter(g) PROVE OInv' /\ Typed'
  <2>1. Moves(g, IF once = "new" THEN "freeze" ELSE "search") /\ call[g].pc = "once"
    BY <1>3, CallMoves DEF Enter
  <2>2. OInv'
    BY <1>3, <2>1 DEF Enter, Moves, OInv, tableVars
  <2> QED
    BY <1>3, <2>1, <2>2 DEF Enter, Moves, Typed, tableVars
<1>4. ASSUME NEW g \in Lookups, FreezeOne(g) PROVE OInv' /\ Typed'
  <2>1. once # "done" /\ UNCHANGED <<tableVars, once, call>> /\ DOMAIN mutable' = Method /\ DOMAIN frozen' = Method
    BY <1>4 DEF FreezeOne, OInv, Typed
  <2> QED
    BY <2>1 DEF OInv, Typed, tableVars
<1>5. ASSUME NEW g \in Lookups, Seal(g) PROVE OInv' /\ Typed'
  <2>1. Moves(g, "search") /\ call[g].pc = "freeze"
    BY <1>5, CallMoves DEF Seal
  <2>2. OInv'
    BY <1>5, <2>1 DEF Seal, Moves, OInv
  <2> QED
    BY <1>5, <2>1, <2>2 DEF Seal, Moves, Typed
<1>6. ASSUME NEW g \in Lookups, Lookup(g) PROVE OInv' /\ Typed'
  <2>1. Moves(g, "done") /\ call[g].pc = "search" /\ DOMAIN answer' = Lookups
    BY <1>6, CallMoves DEF Lookup, Typed
  <2>2. OInv'
    BY <1>6, <2>1 DEF Lookup, Moves, OInv
  <2> QED
    BY <1>6, <2>1, <2>2 DEF Lookup, Moves, Typed
<1>7. CASE UNCHANGED vars
    BY <1>7 DEF vars, OInv, Typed, tableVars
<1> QED
    BY <1>1, <1>2, <1>3, <1>4, <1>5, <1>6, <1>7 DEF Next, Over

\* For any number of goroutines: no search before the freeze is over, and one goroutine freezes
\* (router.go 135-144).
THEOREM SearchWaitsForFreezeAlways == Spec => []SearchWaitsForFreeze
<1>1. OInv => SearchWaitsForFreeze
    BY DEF OInv, SearchWaitsForFreeze
<1> QED
    BY InitOnce, NextOnce, <1>1, PTL DEF Spec


-----------------------------------------------------------------------------
(* Sequences.                                                                 *)

IsSeq(s) == s \in Seq(ToSet(s))

LEMMA InSeq == ASSUME NEW S, NEW s \in Seq(S) PROVE IsSeq(s)
BY DEF IsSeq, ToSet

LEMMA SeqFacts ==
    ASSUME NEW s, IsSeq(s)
    PROVE  /\ Len(s) \in Nat /\ DOMAIN s = 1..Len(s) /\ \A i \in 1..Len(s) : s[i] \in ToSet(s)
           /\ s # <<>> <=> Len(s) > 0
<1>1. s \in Seq(ToSet(s))
    BY DEF IsSeq
<1> HIDE DEF IsSeq
<1>2. Len(s) \in Nat /\ DOMAIN s = 1..Len(s)
    BY <1>1, LenProperties
<1>3. \A i \in 1..Len(s) : s[i] \in ToSet(s)
    BY <1>1, ElementOfSeq
<1>4. s # <<>> => Len(s) \in Nat \ {0}
    BY <1>1, EmptySeq
<1>5. s = <<>> => Len(s) = 0
    BY EmptySeq
<1> QED
    BY <1>2, <1>3, <1>4, <1>5

LEMMA EmptyIsSeq == IsSeq(<<>>) /\ Len(<<>>) = 0 /\ DOMAIN <<>> = {}
<1>1. <<>> \in Seq({}) /\ Len(<<>>) = 0
    BY EmptySeq
<1>2. IsSeq(<<>>)
    BY <1>1, InSeq
<1> QED
    BY <1>1, <1>2, SeqFacts

LEMMA SameSeq ==
    ASSUME NEW s, NEW t, IsSeq(s), IsSeq(t), Len(s) = Len(t), \A i \in 1..Len(s) : s[i] = t[i]
    PROVE  s = t
<1>1. s \in Seq(ToSet(s) \cup ToSet(t)) /\ t \in Seq(ToSet(s) \cup ToSet(t))
    BY SeqMonotonic DEF IsSeq
<1> QED
    BY <1>1, SeqEqual

LEMMA AppendSeq ==
    ASSUME NEW s, IsSeq(s), NEW e
    PROVE  /\ IsSeq(Append(s, e)) /\ Len(Append(s, e)) = Len(s) + 1 /\ Append(s, e) # <<>>
           /\ \A i \in 1..Len(s) : Append(s, e)[i] = s[i]
           /\ Append(s, e)[Len(s) + 1] = e
<1>1. s \in Seq(ToSet(s) \cup {e})
    BY SeqMonotonic DEF IsSeq
<1>2. /\ Append(s, e) \in Seq(ToSet(s) \cup {e}) /\ Len(Append(s, e)) = Len(s) + 1 /\ Append(s, e) # <<>>
      /\ \A i \in 1..Len(s) : Append(s, e)[i] = s[i]
      /\ Append(s, e)[Len(s) + 1] = e
    BY <1>1, AppendProperties
<1> QED
    BY <1>2, InSeq

LEMMA PrefixSeq ==
    ASSUME NEW s, IsSeq(s), NEW n \in 0..Len(s)
    PROVE  /\ IsSeq(SubSeq(s, 1, n)) /\ Len(SubSeq(s, 1, n)) = n
           /\ \A j \in 1..n : SubSeq(s, 1, n)[j] = s[j]
<1>1. s \in Seq(ToSet(s))
    BY DEF IsSeq
<1>2. /\ Len(s) \in Nat /\ n \in Int /\ 1 \in Int /\ \A i \in 1..n : s[i] \in ToSet(s)
    BY <1>1, ElementOfSeq
<1>3. SubSeq(s, 1, n) \in Seq(ToSet(s)) /\ Len(SubSeq(s, 1, n)) = IF 1 <= n THEN n - 1 + 1 ELSE 0
    BY <1>2, SubSeqProperties
<1>4. \A j \in 1..n - 1 + 1 : SubSeq(s, 1, n)[j] = s[1 + j - 1]
    BY <1>2, SubSeqProperties
<1>5. IsSeq(SubSeq(s, 1, n))
    BY <1>3, InSeq
<1>6. Len(SubSeq(s, 1, n)) = n
    BY <1>2, <1>3
<1>7. n - 1 + 1 = n /\ \A j \in 1..n : 1 + j - 1 = j
    BY <1>2
<1>8. \A j \in 1..n : SubSeq(s, 1, n)[j] = s[j]
    BY <1>4, <1>7
<1> QED
    BY <1>5, <1>6, <1>8

LEMMA FrontLast ==
    ASSUME NEW s, IsSeq(s)
    PROVE  /\ \A e : Front(Append(s, e)) = s /\ Last(Append(s, e)) = e
           /\ s # <<>> => /\ IsSeq(Front(s)) /\ Len(Front(s)) = Len(s) - 1 /\ s = Append(Front(s), Last(s))
                          /\ \A i \in 1..Len(s) - 1 : Front(s)[i] = s[i]
<1>1. ASSUME NEW e PROVE Front(Append(s, e)) = s /\ Last(Append(s, e)) = e
  <2> DEFINE t == Append(s, e)
  <2>1. IsSeq(t) /\ Len(t) = Len(s) + 1 /\ Len(s) \in Nat /\ \A i \in 1..Len(s) : t[i] = s[i]
    BY AppendSeq, SeqFacts
  <2>2. t[Len(s) + 1] = e
    BY AppendSeq
  <2> HIDE DEF t
  <2>3. Len(t) - 1 = Len(s) /\ Len(s) \in 0..Len(t)
    BY <2>1
  <2>4. IsSeq(SubSeq(t, 1, Len(s))) /\ Len(SubSeq(t, 1, Len(s))) = Len(s) /\ \A i \in 1..Len(s) : SubSeq(t, 1, Len(s))[i] = t[i]
    BY <2>1, <2>3, PrefixSeq
  <2>5. \A i \in 1..Len(s) : SubSeq(t, 1, Len(s))[i] = s[i]
    BY <2>1, <2>4
  <2>6. SubSeq(t, 1, Len(s)) = s
    BY <2>4, <2>5, SameSeq
  <2> QED
    BY <2>1, <2>2, <2>3, <2>6 DEF Front, Last, t
<1>2. ASSUME s # <<>>
      PROVE  /\ IsSeq(Front(s)) /\ Len(Front(s)) = Len(s) - 1 /\ s = Append(Front(s), Last(s))
             /\ \A i \in 1..Len(s) - 1 : Front(s)[i] = s[i]
  <2> DEFINE f == Front(s)
  <2>1. Len(s) \in Nat /\ Len(s) > 0
    BY <1>2, SeqFacts
  <2>2. Len(s) - 1 \in 0..Len(s)
    BY <2>1
  <2>3. IsSeq(f) /\ Len(f) = Len(s) - 1 /\ \A i \in 1..Len(s) - 1 : f[i] = s[i]
    BY <2>2, PrefixSeq DEF Front
  <2> HIDE DEF f
  <2>4. /\ IsSeq(Append(f, Last(s))) /\ Len(Append(f, Last(s))) = Len(f) + 1
        /\ \A i \in 1..Len(f) : Append(f, Last(s))[i] = f[i]
        /\ Append(f, Last(s))[Len(f) + 1] = Last(s)
    BY <2>3, AppendSeq
  <2>5. ASSUME NEW i \in 1..Len(s) PROVE Append(f, Last(s))[i] = s[i]
    <3>1. CASE i = Len(s)
      BY <2>1, <2>3, <2>4, <3>1 DEF Last
    <3>2. CASE i # Len(s)
      <4>1. i \in 1..Len(s) - 1 /\ i \in 1..Len(f)
        BY <2>1, <2>3, <3>2
      <4> QED
        BY <2>3, <2>4, <4>1
    <3> QED
      BY <3>1, <3>2
  <2>6. Len(Append(f, Last(s))) = Len(s)
    BY <2>1, <2>3, <2>4
  <2>7. Append(f, Last(s)) = s
    BY <2>4, <2>5, <2>6, SameSeq
  <2> QED
    BY <2>3, <2>7 DEF f
<1> QED
    BY <1>1, <1>2

LEMMA AppendSame ==
    ASSUME NEW s, IsSeq(s), NEW t, IsSeq(t), NEW d, NEW e, Append(s, d) = Append(t, e)
    PROVE  s = t /\ d = e
<1>1. Front(Append(s, d)) = s /\ Last(Append(s, d)) = d /\ Front(Append(t, e)) = t /\ Last(Append(t, e)) = e
    BY FrontLast
<1> QED
    BY <1>1

\* Prefixes.
LEMMA PrefixIs ==
    ASSUME NEW s, IsSeq(s), NEW t, IsSeq(t)
    PROVE  /\ IsPrefix(s, t) <=> Len(s) <= Len(t) /\ \A i \in 1..Len(s) : s[i] = t[i]
           /\ IsPrefix(s, t) <=> \E k \in 0..Len(t) : s = SubSeq(t, 1, k)
<1>1. Len(s) \in Nat /\ Len(t) \in Nat
    BY SeqFacts
<1>2. Len(s) \in 0..Len(s)
    BY <1>1
<1>3. /\ IsSeq(SubSeq(s, 1, Len(s))) /\ Len(SubSeq(s, 1, Len(s))) = Len(s)
      /\ \A i \in 1..Len(s) : SubSeq(s, 1, Len(s))[i] = s[i]
    BY <1>2, PrefixSeq
<1>4. SubSeq(s, 1, Len(s)) = s
    BY <1>3, SameSeq
<1>5. ASSUME IsPrefix(s, t)
      PROVE  Len(s) <= Len(t) /\ (\A i \in 1..Len(s) : s[i] = t[i]) /\ \E k \in 0..Len(t) : s = SubSeq(t, 1, k)
  <2>1. Len(s) <= Len(t) /\ s = SubSeq(t, 1, Len(s))
    BY <1>4, <1>5 DEF IsPrefix
  <2>2. Len(s) \in 0..Len(t)
    BY <1>1, <2>1
  <2>3. \A i \in 1..Len(s) : SubSeq(t, 1, Len(s))[i] = t[i]
    BY <2>2, PrefixSeq
  <2> QED
    BY <2>1, <2>2, <2>3
<1>6. ASSUME Len(s) <= Len(t) /\ \A i \in 1..Len(s) : s[i] = t[i] PROVE IsPrefix(s, t)
  <2>1. Len(s) \in 0..Len(t)
    BY <1>1, <1>6
  <2>2. /\ IsSeq(SubSeq(t, 1, Len(s))) /\ Len(SubSeq(t, 1, Len(s))) = Len(s)
        /\ \A i \in 1..Len(s) : SubSeq(t, 1, Len(s))[i] = t[i]
    BY <2>1, PrefixSeq
  <2>3. \A i \in 1..Len(s) : SubSeq(t, 1, Len(s))[i] = s[i]
    BY <1>6, <2>2
  <2>4. SubSeq(t, 1, Len(s)) = s
    BY <2>2, <2>3, SameSeq
  <2> QED
    BY <1>4, <1>6, <2>4 DEF IsPrefix
<1>7. ASSUME NEW k \in 0..Len(t), s = SubSeq(t, 1, k) PROVE IsPrefix(s, t)
  <2>1. Len(s) = k
    BY <1>7, PrefixSeq
  <2> QED
    BY <1>1, <1>4, <1>7, <2>1 DEF IsPrefix
<1>8. IsPrefix(s, t) <=> Len(s) <= Len(t) /\ \A i \in 1..Len(s) : s[i] = t[i]
    BY <1>5, <1>6
<1>9. IsPrefix(s, t) <=> \E k \in 0..Len(t) : s = SubSeq(t, 1, k)
    BY <1>5, <1>7
<1> QED
    BY <1>8, <1>9

-----------------------------------------------------------------------------
(* Patterns and the nodes on their way.                                       *)

Kinds == {"static", "param", "wild"}

\* A sequence of segments without a slash.
Plain(q) == IsSeq(q) /\ \A i \in 1..Len(q) : q[i] # Slash

\* The node of a pattern, and the nodes on the way to it.
Key(p) == IF p # <<>> /\ Last(p) = Slash THEN Front(p) ELSE p
Way(p) == {SubSeq(Key(p), 1, k) : k \in 0..Len(Key(p))}

LEMMA PatternFacts ==
    ASSUME NEW p \in Patterns
    PROVE  IsSeq(p) /\ \A i \in 1..Len(p) : p[i] = Slash \/ (p[i] = Seg(p[i].kind, p[i].name) /\ p[i].kind \in Kinds)
<1>1. IsSeq(p) /\ \A s \in ToSet(p) : s = Slash \/ (s = Seg(s.kind, s.name) /\ s.kind \in Kinds)
    BY PatternsAssumption DEF IsSeq, Kinds
<1>2. \A i \in 1..Len(p) : p[i] \in ToSet(p)
    BY <1>1, SeqFacts
<1> QED
    BY <1>1, <1>2

LEMMA SlashIs ==
    \A kind, name : kind \in Kinds => Seg(kind, name) # Slash /\ Seg(kind, name).kind = kind /\ Seg(kind, name).name = name
BY DEF Slash, Seg, Kinds

LEMMA PlainKey ==
    ASSUME NEW p, Plain(p)
    PROVE  Key(p) = p /\ Key(Append(p, Slash)) = p
<1>1. IsSeq(p)
    BY DEF Plain
<1>2. p # <<>> => Last(p) # Slash
  <2>1. p # <<>> => Len(p) \in 1..Len(p)
    BY <1>1, SeqFacts
  <2> QED
    BY <2>1 DEF Plain, Last
<1>3. Front(Append(p, Slash)) = p /\ Last(Append(p, Slash)) = Slash /\ Append(p, Slash) # <<>>
    BY <1>1, FrontLast, AppendSeq
<1> QED
    BY <1>2, <1>3 DEF Key

LEMMA KeyFacts ==
    ASSUME NEW p \in Patterns, WellFormed(p)
    PROVE  /\ Plain(Key(p)) /\ Len(Key(p)) <= Len(p)
           /\ \A i \in 1..Len(Key(p)) : Key(p)[i] = p[i] /\ p[i] = Seg(p[i].kind, p[i].name) /\ p[i].kind \in Kinds
           /\ \A i \in 1..Len(p) : p[i] # Slash => i <= Len(Key(p))
           /\ p = Key(p) \/ (p = Append(Key(p), Slash) /\ Last(p) = Slash)
<1>1. /\ IsSeq(p) /\ Len(p) \in Nat
      /\ \A i \in 1..Len(p) : p[i] = Slash \/ (p[i] = Seg(p[i].kind, p[i].name) /\ p[i].kind \in Kinds)
    BY PatternFacts, SeqFacts
<1>2. Slash.kind = "slash"
    BY DEF Slash, Seg
<1>3. ASSUME NEW i \in 1..Len(p) - 1 PROVE p[i] # Slash /\ p[i] = Seg(p[i].kind, p[i].name) /\ p[i].kind \in Kinds
  <2>1. p[i].kind # "slash" /\ i \in 1..Len(p)
    BY <1>1 DEF WellFormed
  <2> QED
    BY <1>1, <1>2, <2>1
<1>4. CASE p # <<>> /\ Last(p) = Slash
  <2> DEFINE k == Key(p)
  <2>1. k = Front(p)
    BY <1>4 DEF Key
  <2>2. Len(p) > 0
    BY <1>1, <1>4, SeqFacts
  <2>3. IsSeq(k) /\ Len(k) = Len(p) - 1 /\ p = Append(k, Last(p)) /\ \A i \in 1..Len(p) - 1 : k[i] = p[i]
    BY <1>1, <1>4, <2>1, FrontLast
  <2>4. p[Len(p)] = Slash
    BY <1>4 DEF Last
  <2> HIDE DEF k
  <2>5. Plain(k)
    BY <1>3, <2>3 DEF Plain
  <2>6. ASSUME NEW i \in 1..Len(p), p[i] # Slash PROVE i <= Len(k)
    <3>1. i # Len(p)
      BY <2>4, <2>6
    <3> QED
      BY <1>1, <2>3, <3>1
  <2>7. Len(k) <= Len(p)
    BY <1>1, <2>3
  <2>8. p = Append(k, Slash)
    BY <1>4, <2>3
  <2>9. \A i \in 1..Len(k) : k[i] = p[i] /\ p[i] = Seg(p[i].kind, p[i].name) /\ p[i].kind \in Kinds
    BY <1>3, <2>3
  <2> QED
    BY <1>4, <2>5, <2>6, <2>7, <2>8, <2>9 DEF k
<1>5. CASE ~(p # <<>> /\ Last(p) = Slash)
  <2>1. Key(p) = p
    BY <1>5 DEF Key
  <2>2. ASSUME NEW i \in 1..Len(p) PROVE p[i] # Slash
    <3>1. CASE i = Len(p)
      <4>1. p # <<>>
        BY <1>1, <2>2, SeqFacts
      <4> QED
        BY <1>5, <3>1, <4>1 DEF Last
    <3>2. CASE i # Len(p)
      <4>1. i \in 1..Len(p) - 1
        BY <1>1, <3>2
      <4> QED
        BY <1>3, <4>1
    <3> QED
      BY <3>1, <3>2
  <2>3. Plain(p)
    BY <1>1, <2>2 DEF Plain
  <2>4. Len(p) <= Len(p) /\ \A i \in 1..Len(p) : i <= Len(p)
    BY <1>1
  <2> QED
    BY <1>1, <2>1, <2>2, <2>3, <2>4
<1> QED
    BY <1>4, <1>5

\* The ways of a pattern.
LEMMA WayFacts ==
    ASSUME NEW p \in Patterns, WellFormed(p)
    PROVE  /\ \A q \in Way(p) : Plain(q) /\ Len(q) \in 0..Len(Key(p)) /\ (q = Key(p) <=> Len(q) = Len(Key(p)))
           /\ \A q \in Way(p) : q = SubSeq(p, 1, Len(q)) /\ IsPrefix(q, p)
           /\ <<>> \in Way(p) /\ Key(p) \in Way(p)
           /\ \A q : Plain(q) /\ IsPrefix(q, p) => q \in Way(p)
           /\ IsFiniteSet(Way(p))
<1> DEFINE key == Key(p)
<1>1. /\ Plain(key) /\ Len(key) <= Len(p) /\ \A i \in 1..Len(key) : key[i] = p[i]
      /\ \A i \in 1..Len(p) : p[i] # Slash => i <= Len(key)
    BY KeyFacts
<1>2. IsSeq(key) /\ IsSeq(p) /\ Len(key) \in Nat /\ Len(p) \in Nat
    BY <1>1, PatternFacts, SeqFacts DEF Plain
<1>3. Way(p) = {SubSeq(key, 1, k) : k \in 0..Len(key)}
    BY DEF Way
<1> HIDE DEF key
<1>4. ASSUME NEW q \in Way(p)
      PROVE  Plain(q) /\ Len(q) \in 0..Len(key) /\ (q = key <=> Len(q) = Len(key)) /\ q = SubSeq(p, 1, Len(q)) /\ IsPrefix(q, p)
  <2>1. PICK k \in 0..Len(key) : q = SubSeq(key, 1, k)
    BY <1>3
  <2>2. IsSeq(q) /\ Len(q) = k /\ \A i \in 1..k : q[i] = key[i]
    BY <1>2, <2>1, PrefixSeq
  <2>3. \A i \in 1..k : i \in 1..Len(key) /\ i \in 1..Len(p)
    BY <1>1, <1>2
  <2>4. Plain(q)
    BY <1>1, <2>2, <2>3 DEF Plain
  <2>5. Len(q) = Len(key) => q = key
    BY <1>2, <2>2, SameSeq
  <2>6. Len(q) <= Len(p) /\ k \in 0..Len(p)
    BY <1>1, <1>2, <2>2
  <2>7. \A i \in 1..k : q[i] = p[i]
    BY <1>1, <2>2, <2>3
  <2>8. IsPrefix(q, p)
    BY <1>2, <2>2, <2>6, <2>7, PrefixIs
  <2>9. IsSeq(SubSeq(p, 1, k)) /\ Len(SubSeq(p, 1, k)) = k /\ \A i \in 1..k : SubSeq(p, 1, k)[i] = p[i]
    BY <1>2, <2>6, PrefixSeq
  <2>10. q = SubSeq(p, 1, k)
    BY <2>2, <2>7, <2>9, SameSeq
  <2> QED
    BY <2>2, <2>4, <2>5, <2>8, <2>10
<1>5. <<>> \in Way(p) /\ key \in Way(p)
  <2>1. IsSeq(<<>>) /\ Len(<<>>) = 0
    BY EmptyIsSeq
  <2>2. IsPrefix(<<>>, key)
    BY <1>2, <2>1, PrefixIs
  <2>3. \A i \in 1..Len(key) : key[i] = key[i]
    OBVIOUS
  <2>4. Len(key) <= Len(key)
    BY <1>2
  <2>5. IsPrefix(key, key)
    BY <1>2, <2>3, <2>4, PrefixIs
  <2>6. (\E k \in 0..Len(key) : <<>> = SubSeq(key, 1, k)) /\ \E k \in 0..Len(key) : key = SubSeq(key, 1, k)
    BY <1>2, <2>1, <2>2, <2>5, PrefixIs
  <2> QED
    BY <1>3, <2>6
<1>6. ASSUME NEW q, Plain(q), IsPrefix(q, p) PROVE q \in Way(p)
  <2>1. IsSeq(q) /\ Len(q) \in Nat
    BY <1>6, SeqFacts DEF Plain
  <2>2. Len(q) <= Len(p) /\ \A i \in 1..Len(q) : q[i] = p[i]
    BY <1>2, <1>6, <2>1, PrefixIs
  <2>3. Len(q) <= Len(key)
    <3>1. CASE Len(q) = 0
      BY <1>2, <3>1
    <3>2. CASE Len(q) # 0
      <4>1. Len(q) \in 1..Len(q) /\ Len(q) \in 1..Len(p)
        BY <1>2, <2>1, <2>2, <3>2
      <4>2. p[Len(q)] # Slash
        BY <1>6, <2>2, <4>1 DEF Plain
      <4> QED
        BY <1>1, <4>1, <4>2
    <3> QED
      BY <3>1, <3>2
  <2>4. \A i \in 1..Len(q) : i \in 1..Len(key)
    BY <1>2, <2>1, <2>3
  <2>5. \A i \in 1..Len(q) : q[i] = key[i]
    BY <1>1, <2>2, <2>4
  <2>6. \E k \in 0..Len(key) : q = SubSeq(key, 1, k)
    BY <1>2, <2>1, <2>3, <2>5, PrefixIs
  <2> QED
    BY <1>3, <2>6
<1>7. IsFiniteSet(Way(p))
  <2> DEFINE f == [k \in 0..Len(key) |-> SubSeq(key, 1, k)]
  <2>1. f \in Surjection(0..Len(key), Way(p))
    BY <1>3 DEF Surjection
  <2>2. IsFiniteSet(0..Len(key))
    BY <1>2, FS_Interval
  <2> HIDE DEF f
  <2> QED
    BY <2>1, <2>2, FS_Surjection
<1> QED
    BY <1>4, <1>5, <1>6, <1>7 DEF key

\* One segment further on the way.
LEMMA WayStep ==
    ASSUME NEW p \in Patterns, WellFormed(p), NEW q, Plain(q), NEW s, s # Slash
    PROVE  Append(q, s) \in Way(p) <=> q \in Way(p) /\ q # Key(p) /\ s = p[Len(q) + 1]
<1> DEFINE key == Key(p)
           t == Append(q, s)
<1>1. IsSeq(q) /\ IsSeq(p) /\ IsSeq(t) /\ Len(q) \in Nat /\ Len(p) \in Nat
    BY PatternFacts, SeqFacts, AppendSeq DEF Plain
<1>2. Len(t) = Len(q) + 1 /\ (\A i \in 1..Len(q) : t[i] = q[i]) /\ t[Len(q) + 1] = s
    BY <1>1, AppendSeq
<1>3. Len(key) \in Nat /\ Len(key) <= Len(p)
    BY KeyFacts, SeqFacts DEF Plain
<1> HIDE DEF t, key
<1>4. ASSUME t \in Way(p) PROVE q \in Way(p) /\ q # key /\ s = p[Len(q) + 1]
  <2>1. IsPrefix(t, p) /\ Len(t) \in 0..Len(key)
    BY <1>4, WayFacts DEF key
  <2>2. Len(t) <= Len(p) /\ \A i \in 1..Len(t) : t[i] = p[i]
    BY <1>1, <2>1, PrefixIs
  <2>3. Len(q) <= Len(p) /\ (\A i \in 1..Len(q) : i \in 1..Len(t)) /\ Len(q) + 1 \in 1..Len(t) /\ Len(q) # Len(key)
    BY <1>1, <1>2, <1>3, <2>1, <2>2
  <2>4. \A i \in 1..Len(q) : q[i] = p[i]
    BY <1>2, <2>2, <2>3
  <2>5. q \in Way(p)
    BY <1>1, <2>3, <2>4, PrefixIs, WayFacts
  <2> QED
    BY <1>2, <2>2, <2>3, <2>5
<1>5. ASSUME q \in Way(p), q # key, s = p[Len(q) + 1] PROVE t \in Way(p)
  <2>1. Len(q) \in 0..Len(key) /\ Len(q) # Len(key) /\ IsPrefix(q, p)
    BY <1>5, WayFacts DEF key
  <2>2. Len(t) <= Len(p)
    BY <1>1, <1>2, <1>3, <2>1
  <2>3. \A i \in 1..Len(q) : q[i] = p[i]
    BY <1>1, <2>1, PrefixIs
  <2>4. ASSUME NEW i \in 1..Len(t) PROVE t[i] = p[i] /\ t[i] # Slash
    <3>1. CASE i = Len(q) + 1
      BY <1>2, <1>5, <3>1
    <3>2. CASE i # Len(q) + 1
      <4>1. i \in 1..Len(q)
        BY <1>1, <1>2, <3>2
      <4> QED
        BY <1>2, <2>3, <4>1 DEF Plain
    <3> QED
      BY <3>1, <3>2
  <2>5. Plain(t)
    BY <1>1, <2>4 DEF Plain
  <2>6. IsPrefix(t, p)
    BY <1>1, <2>2, <2>4, PrefixIs
  <2> QED
    BY <2>5, <2>6, WayFacts
<1> QED
    BY <1>4, <1>5 DEF t, key

-----------------------------------------------------------------------------
(* The tree that insert grows.                                                *)

IsNode(n) == n = [handler |-> n.handler, ts |-> n.ts, static |-> n.static, param |-> n.param, wild |-> n.wild]

Node(tree, q) == IF q \in DOMAIN tree THEN tree[q] ELSE EmptyNode
Of(T, p) == IF p \in Patterns THEN T[p] ELSE 0
Routed(T) == {p \in Patterns : T[p] # 0}

\* The children of n are the nodes of D right below q: one for every name, one parameter, one wildcard.
Branches(D, q, n) ==
    /\ IsNode(n) /\ IsSeq(n.static) /\ IsInjective(n.static)
    /\ \A name : Contains(n.static, name) <=> Append(q, Seg("static", name)) \in D
    /\ \A name : name \in n.param <=> Append(q, Seg("param", name)) \in D
    /\ \A name : name \in n.wild <=> Append(q, Seg("wild", name)) \in D
    /\ \A a, b \in n.param : a = b
    /\ \A a, b \in n.wild : a = b

\* The tree of the routes T: the ways of their patterns, with their handlers where they end.
Grown(T, tree, limit) ==
    /\ DOMAIN tree = UNION {Way(p) : p \in Routed(T)} /\ IsFiniteSet(DOMAIN tree)
    /\ \A p \in Routed(T) : WellFormed(p)
    /\ \A q : Plain(q) =>
          /\ Branches(DOMAIN tree, q, Node(tree, q)) /\ Len(Node(tree, q).static) <= limit
          /\ Node(tree, q).handler = Of(T, q) /\ Node(tree, q).ts = Of(T, Append(q, Slash))

\* One more child.
LEMMA ChildAdded ==
    ASSUME NEW D, NEW E, NEW q, IsSeq(q), NEW n, Branches(D, q, n), NEW s, s = Seg(s.kind, s.name), s.kind \in Kinds,
           s.kind = "param" => \A a \in n.param : a = s.name, s.kind = "wild" => \A a \in n.wild : a = s.name,
           \A t : t # Slash => (Append(q, t) \in E <=> Append(q, t) \in D \/ t = s)
    PROVE  Branches(E, q, WithChild(n, s))
<1> DEFINE m == WithChild(n, s)
<1>1. IsNode(n) /\ IsSeq(n.static) /\ IsInjective(n.static)
    BY DEF Branches
<1>2. ASSUME NEW kind \in Kinds, NEW name
      PROVE  Append(q, Seg(kind, name)) \in E <=> Append(q, Seg(kind, name)) \in D \/ (kind = s.kind /\ name = s.name)
  <2>1. Seg(kind, name) # Slash /\ (Seg(kind, name) = s <=> kind = s.kind /\ name = s.name)
    BY SlashIs
  <2> QED
    BY <2>1
<1>3. Len(n.static) \in Nat
    BY <1>1, SeqFacts
<1>4. CASE s.kind = "static"
  <2>1. m = [handler |-> n.handler, ts |-> n.ts, param |-> n.param, wild |-> n.wild,
             static |-> IF Contains(n.static, s.name) THEN n.static ELSE Append(n.static, s.name)]
    BY <1>1, <1>4 DEF WithChild, IsNode
  <2>2. IsNode(m) /\ m.param = n.param /\ m.wild = n.wild /\ m.handler = n.handler /\ m.ts = n.ts
    BY <2>1 DEF IsNode
  <2>3. /\ IsSeq(m.static) /\ IsInjective(m.static) /\ Len(m.static) <= Len(n.static) + 1
        /\ \A name : Contains(m.static, name) <=> Contains(n.static, name) \/ name = s.name
    <3>1. CASE Contains(n.static, s.name)
      <4>1. m.static = n.static
        BY <2>1, <3>1
      <4>2. Len(n.static) <= Len(n.static) + 1
        BY <1>3
      <4> QED
        BY <1>1, <3>1, <4>1, <4>2
    <3>2. CASE ~Contains(n.static, s.name)
      <4> DEFINE a == n.static
                 b == Append(a, s.name)
      <4>1. m.static = b
        BY <2>1, <3>2
      <4>2. /\ IsSeq(b) /\ Len(b) = Len(a) + 1 /\ (\A i \in 1..Len(a) : b[i] = a[i]) /\ b[Len(a) + 1] = s.name
            /\ DOMAIN b = 1..Len(b) /\ DOMAIN a = 1..Len(a)
        BY <1>1, AppendSeq, SeqFacts
      <4> HIDE DEF b
      <4>3. \A i \in 1..Len(b) : i \in 1..Len(a) \/ i = Len(a) + 1
        BY <1>3, <4>2
      <4>4. (\A i \in 1..Len(a) : i \in 1..Len(b)) /\ Len(a) + 1 \in 1..Len(b)
        BY <1>3, <4>2
      <4>5. \A name : Contains(b, name) <=> Contains(a, name) \/ name = s.name
        BY <4>2, <4>3, <4>4 DEF Contains
      <4>6. \A i \in 1..Len(a) : a[i] # s.name
        BY <3>2 DEF Contains
      <4>7. \A i, j \in 1..Len(a) : a[i] = a[j] => i = j
        BY <1>1, <4>2 DEF IsInjective
      <4>8. IsInjective(b)
        BY <4>2, <4>3, <4>6, <4>7 DEF IsInjective
      <4>9. Len(b) <= Len(a) + 1
        BY <1>3, <4>2
      <4> QED
        BY <4>1, <4>2, <4>5, <4>8, <4>9
    <3> QED
      BY <3>1, <3>2
  <2>4. \A name : Contains(m.static, name) <=> Append(q, Seg("static", name)) \in E
    BY <1>2, <1>4, <2>3 DEF Branches, Kinds
  <2>5. \A name : name \in m.param <=> Append(q, Seg("param", name)) \in E
    BY <1>2, <1>4, <2>2 DEF Branches, Kinds
  <2>6. \A name : name \in m.wild <=> Append(q, Seg("wild", name)) \in E
    BY <1>2, <1>4, <2>2 DEF Branches, Kinds
  <2>7. (\A a, b \in m.param : a = b) /\ \A a, b \in m.wild : a = b
    BY <2>2 DEF Branches
  <2> HIDE DEF m
  <2> QED
    BY <2>2, <2>3, <2>4, <2>5, <2>6, <2>7 DEF Branches, m
<1>5. CASE s.kind = "param"
  <2>1. m = [handler |-> n.handler, ts |-> n.ts, param |-> {s.name}, wild |-> n.wild, static |-> n.static]
    BY <1>1, <1>5 DEF WithChild, IsNode
  <2>2. IsNode(m) /\ m.static = n.static /\ m.param = {s.name} /\ m.wild = n.wild /\ m.handler = n.handler /\ m.ts = n.ts
    BY <2>1 DEF IsNode
  <2>3. \A a \in n.param : a = s.name
    BY <1>5
  <2>4. \A name : Contains(m.static, name) <=> Append(q, Seg("static", name)) \in E
    BY <1>2, <1>5, <2>2 DEF Branches, Kinds
  <2>5. \A name : name \in m.param <=> Append(q, Seg("param", name)) \in E
    BY <1>2, <1>5, <2>2, <2>3 DEF Branches, Kinds
  <2>6. \A name : name \in m.wild <=> Append(q, Seg("wild", name)) \in E
    BY <1>2, <1>5, <2>2 DEF Branches, Kinds
  <2>7. (\A a, b \in m.param : a = b) /\ \A a, b \in m.wild : a = b
    BY <2>2 DEF Branches
  <2>8. Len(n.static) <= Len(n.static) + 1
    BY <1>3
  <2> HIDE DEF m
  <2> QED
    BY <1>1, <2>2, <2>4, <2>5, <2>6, <2>7, <2>8 DEF Branches, m
<1>6. CASE s.kind = "wild"
  <2>1. m = [handler |-> n.handler, ts |-> n.ts, param |-> n.param, wild |-> {s.name}, static |-> n.static]
    BY <1>1, <1>6 DEF WithChild, IsNode
  <2>2. IsNode(m) /\ m.static = n.static /\ m.param = n.param /\ m.wild = {s.name} /\ m.handler = n.handler /\ m.ts = n.ts
    BY <2>1 DEF IsNode
  <2>3. \A a \in n.wild : a = s.name
    BY <1>6
  <2>4. \A name : Contains(m.static, name) <=> Append(q, Seg("static", name)) \in E
    BY <1>2, <1>6, <2>2 DEF Branches, Kinds
  <2>5. \A name : name \in m.param <=> Append(q, Seg("param", name)) \in E
    BY <1>2, <1>6, <2>2 DEF Branches, Kinds
  <2>6. \A name : name \in m.wild <=> Append(q, Seg("wild", name)) \in E
    BY <1>2, <1>6, <2>2, <2>3 DEF Branches, Kinds
  <2>7. (\A a, b \in m.param : a = b) /\ \A a, b \in m.wild : a = b
    BY <2>2 DEF Branches
  <2>8. Len(n.static) <= Len(n.static) + 1
    BY <1>3
  <2> HIDE DEF m
  <2> QED
    BY <1>1, <2>2, <2>4, <2>5, <2>6, <2>7, <2>8 DEF Branches, m
<1> QED
    BY <1>4, <1>5, <1>6 DEF Kinds

LEMMA ChildKeeps ==
    ASSUME NEW D, NEW q, NEW n, Branches(D, q, n), NEW s, s.kind \in Kinds
    PROVE  /\ Len(WithChild(n, s).static) <= Len(n.static) + 1
           /\ WithChild(n, s).handler = n.handler /\ WithChild(n, s).ts = n.ts
<1>1. IsNode(n) /\ IsSeq(n.static)
    BY DEF Branches
<1>2. Len(n.static) \in Nat /\ Len(Append(n.static, s.name)) = Len(n.static) + 1
    BY <1>1, SeqFacts, AppendSeq
<1>3. WithChild(n, s).static \in {n.static, Append(n.static, s.name)}
    BY <1>1 DEF WithChild, IsNode, Kinds
<1>4. WithChild(n, s).handler = n.handler /\ WithChild(n, s).ts = n.ts
    BY <1>1 DEF WithChild, IsNode, Kinds
<1> QED
    BY <1>2, <1>3, <1>4

LEMMA EmptyBranches == \A D, q : (\A s : s # Slash => Append(q, s) \notin D) => Branches(D, q, EmptyNode)
<1> SUFFICES ASSUME NEW D, NEW q, \A s : s # Slash => Append(q, s) \notin D PROVE Branches(D, q, EmptyNode)
    OBVIOUS
<1>1. \A kind, name : kind \in Kinds => Append(q, Seg(kind, name)) \notin D
    BY SlashIs
<1>2. IsNode(EmptyNode) /\ EmptyNode.static = <<>> /\ EmptyNode.param = {} /\ EmptyNode.wild = {}
    BY DEF IsNode, EmptyNode
<1>3. IsSeq(<<>>) /\ IsInjective(<<>>) /\ \A name : ~Contains(<<>>, name)
    BY EmptyIsSeq DEF IsInjective, Contains
<1> QED
    BY <1>1, <1>2, <1>3 DEF Branches, Kinds

\* Without routes there is no tree.
LEMMA NothingGrown == Grown([p \in Patterns |-> 0], EmptyTree, 0)
<1>1. DOMAIN EmptyTree = {} /\ Routed([p \in Patterns |-> 0]) = {} /\ IsFiniteSet({})
    BY FS_EmptySet DEF EmptyTree, Routed
<1>2. \A q : Node(EmptyTree, q) = EmptyNode /\ Of([p \in Patterns |-> 0], q) = 0
    BY <1>1 DEF Node, Of
<1>3. \A q : Branches({}, q, EmptyNode)
    BY EmptyBranches
<1>4. EmptyNode.static = <<>> /\ EmptyNode.handler = 0 /\ EmptyNode.ts = 0 /\ Len(<<>>) <= 0
    BY EmptyIsSeq DEF EmptyNode
<1> QED
    BY <1>1, <1>2, <1>3, <1>4 DEF Grown

LEMMA NoClashAt ==
    ASSUME NEW tree, NEW p, ~Clashes(tree, p), NEW i \in DOMAIN p, SubSeq(p, 1, i - 1) \in DOMAIN tree
    PROVE  /\ p[i].kind = "param" => tree[SubSeq(p, 1, i - 1)].param \in {{}, {p[i].name}}
           /\ p[i].kind = "wild" => tree[SubSeq(p, 1, i - 1)].wild \in {{}, {p[i].name}}
BY DEF Clashes

LEMMA InsertGrows ==
    ASSUME NEW T \in [Patterns -> Nat], NEW tree, NEW n \in Nat, Grown(T, tree, n),
           NEW p \in Patterns, WellFormed(p), ~Clashes(tree, p), NEW h \in Nat \ {0}
    PROVE  Grown([T EXCEPT ![p] = h], Inserted(tree, p, h), n + 1)
<1> DEFINE slash == p # <<>> /\ Last(p) = Slash
           key == Key(p)
           new == Inserted(tree, p, h)
           U == [T EXCEPT ![p] = h]
           D == DOMAIN tree
           E == DOMAIN new
<1>1. E = D \cup Way(p)
    BY DEF Inserted, Way, Key
<1>2. \A q \in E :
          new[q] = IF q \notin Way(p) THEN tree[q]
                   ELSE IF q # key THEN WithChild(Node(tree, q), key[Len(q) + 1])
                   ELSE IF slash THEN [Node(tree, q) EXCEPT !.ts = h] ELSE [Node(tree, q) EXCEPT !.handler = h]
    BY DEF Inserted, Way, Key, Node
<1>3. \A q : Of(U, q) = IF q = p THEN h ELSE Of(T, q)
    BY DEF Of
<1>4. Routed(U) = Routed(T) \cup {p}
    BY DEF Routed
<1>5. E = UNION {Way(q) : q \in Routed(U)} /\ IsFiniteSet(E)
  <2>1. IsFiniteSet(Way(p)) /\ IsFiniteSet(D) /\ D = UNION {Way(q) : q \in Routed(T)}
    BY WayFacts DEF Grown
  <2> HIDE DEF D, E, U
  <2>2. IsFiniteSet(E)
    BY <1>1, <2>1, FS_Union
  <2> QED
    BY <1>1, <1>4, <2>1, <2>2
<1>6. \A q \in Routed(U) : WellFormed(q)
    BY <1>4 DEF Grown
<1>7. Plain(key) /\ (slash => p = Append(key, Slash)) /\ (~slash => p = key) /\ Len(key) \in Nat
  <2>1. Plain(key)
    BY KeyFacts
  <2>2. Len(key) \in Nat
    BY <2>1, SeqFacts DEF Plain
  <2>3. slash => p = Append(Front(p), Last(p))
    BY PatternFacts, FrontLast
  <2>4. slash => p = Append(key, Slash)
    BY <2>3 DEF Key
  <2>5. ~slash => p = key
    BY DEF Key
  <2> QED
    BY <2>1, <2>2, <2>4, <2>5
<1> HIDE DEF slash, key, new, U, D, E
<1>8. ASSUME NEW q, Plain(q)
      PROVE  /\ Branches(E, q, Node(new, q)) /\ Len(Node(new, q).static) <= n + 1
             /\ Node(new, q).handler = Of(U, q) /\ Node(new, q).ts = Of(U, Append(q, Slash))
  <2> DEFINE old == Node(tree, q)
  <2>1. IsSeq(q) /\ Len(q) \in Nat
    BY <1>8, SeqFacts DEF Plain
  <2>2. Branches(D, q, old) /\ Len(old.static) <= n /\ old.handler = Of(T, q) /\ old.ts = Of(T, Append(q, Slash))
    BY <1>8 DEF Grown, D
  <2>3. IsNode(old) /\ Len(old.static) \in Nat
    BY <2>2, SeqFacts DEF Branches
  <2>4. \A s : s # Slash => (Append(q, s) \in E <=> Append(q, s) \in D \/ (q \in Way(p) /\ q # key /\ s = p[Len(q) + 1]))
    BY <1>1, <1>8, WayStep DEF key
  <2>5. (q = p \/ Append(q, Slash) = p) => q = key
    BY <1>8, PlainKey DEF key
  <2>6. key \in Way(p)
    BY WayFacts DEF key
  <2>7. ASSUME NEW nd, nd = Node(new, q), nd.static = old.static, nd.param = old.param, nd.wild = old.wild, IsNode(nd),
               ~(q \in Way(p) /\ q # key)
        PROVE  Branches(E, q, nd) /\ Len(nd.static) <= n + 1
    <3>1. \A kind, name : kind \in Kinds => (Append(q, Seg(kind, name)) \in E <=> Append(q, Seg(kind, name)) \in D)
      BY <2>4, <2>7, SlashIs
    <3>2. Len(nd.static) <= n + 1
      BY <2>2, <2>3, <2>7
    <3>3. Branches(D, q, old)
      BY <2>2
    <3> HIDE DEF old
    <3> QED
      BY <2>7, <3>1, <3>2, <3>3 DEF Branches, Kinds
  <2>8. CASE q \notin Way(p)
    <3>1. Node(new, q) = old
      BY <1>1, <1>2, <2>8 DEF Node, D, E
    <3>2. q # p /\ Append(q, Slash) # p
      BY <2>5, <2>6, <2>8
    <3>3. Branches(E, q, Node(new, q)) /\ Len(Node(new, q).static) <= n + 1
      BY <2>3, <2>7, <2>8, <3>1
    <3>4. Of(U, q) = Of(T, q) /\ Of(U, Append(q, Slash)) = Of(T, Append(q, Slash))
      BY <1>3, <3>2
    <3> QED
      BY <2>2, <3>1, <3>3, <3>4
  <2>9. CASE q \in Way(p) /\ q # key
    <3> DEFINE s == p[Len(q) + 1]
    <3>1. Len(q) \in 0..Len(key) /\ Len(q) # Len(key) /\ q = SubSeq(p, 1, Len(q))
      BY <2>9, WayFacts DEF key
    <3>2. Len(q) + 1 \in 1..Len(key) /\ Len(q) + 1 - 1 = Len(q)
      BY <1>7, <2>1, <3>1
    <3>3. key[Len(q) + 1] = s /\ s = Seg(s.kind, s.name) /\ s.kind \in Kinds
      BY <3>2, KeyFacts DEF key
    <3>4. Len(key) <= Len(p) /\ Len(key) \in Nat
      BY <1>7, KeyFacts DEF key
    <3>5. Node(new, q) = WithChild(old, s)
      BY <1>1, <1>2, <2>9, <3>3 DEF Node, E
    <3>6. Len(q) + 1 \in DOMAIN p
      <4>1. DOMAIN p = 1..Len(p) /\ Len(p) \in Nat
        BY PatternFacts, SeqFacts
      <4>2. \A i \in 1..Len(key) : i \in 1..Len(p)
        BY <3>4, <4>1
      <4> QED
        BY <3>2, <4>1, <4>2
    <3>7. q \in D => (s.kind = "param" => tree[q].param \in {{}, {s.name}}) /\ (s.kind = "wild" => tree[q].wild \in {{}, {s.name}})
      <4>1. SubSeq(p, 1, Len(q) + 1 - 1) = q
        BY <3>1, <3>2
      <4> DEFINE t == SubSeq(p, 1, Len(q) + 1 - 1)
      <4>2. t \in DOMAIN tree => /\ s.kind = "param" => tree[t].param \in {{}, {s.name}}
                                 /\ s.kind = "wild" => tree[t].wild \in {{}, {s.name}}
        BY <3>6, NoClashAt
      <4>3. t = q
        BY <4>1
      <4> HIDE DEF t, s
      <4> QED
        BY <4>2, <4>3 DEF D
    <3>8. EmptyNode.param = {} /\ EmptyNode.wild = {}
      BY DEF EmptyNode
    <3>9. (s.kind = "param" => \A a \in old.param : a = s.name) /\ (s.kind = "wild" => \A a \in old.wild : a = s.name)
      BY <3>7, <3>8 DEF Node, D
    <3>10. \A t : t # Slash => (Append(q, t) \in E <=> Append(q, t) \in D \/ t = s)
      BY <2>4, <2>9
    <3> HIDE DEF s, old
    <3>11. /\ Branches(E, q, WithChild(old, s)) /\ Len(WithChild(old, s).static) <= Len(old.static) + 1
           /\ WithChild(old, s).handler = old.handler /\ WithChild(old, s).ts = old.ts
      <4>1. Branches(D, q, old) /\ s = Seg(s.kind, s.name) /\ s.kind \in Kinds
        BY <2>2, <3>3
      <4>2. IsSeq(q)
        BY <2>1
      <4>3. s.kind = "param" => \A a \in old.param : a = s.name
        BY <3>9
      <4>4. s.kind = "wild" => \A a \in old.wild : a = s.name
        BY <3>9
      <4>5. Branches(E, q, WithChild(old, s))
        BY <3>10, <4>1, <4>2, <4>3, <4>4, ChildAdded
      <4>6. Len(WithChild(old, s).static) <= Len(old.static) + 1
        BY <4>1, ChildKeeps
      <4>7. WithChild(old, s).handler = old.handler /\ WithChild(old, s).ts = old.ts
        BY <4>1, ChildKeeps
      <4> QED
        BY <4>5, <4>6, <4>7
    <3>12. Len(WithChild(old, s).static) <= n + 1
      <4>1. IsSeq(WithChild(old, s).static)
        BY <3>11 DEF Branches
      <4>2. Len(WithChild(old, s).static) \in Nat
        BY <4>1, SeqFacts
      <4> QED
        BY <2>2, <2>3, <3>11, <4>2
    <3>13. q # p /\ Append(q, Slash) # p
      BY <2>5, <2>9
    <3> QED
      BY <1>3, <2>2, <3>5, <3>11, <3>12, <3>13
  <2>10. CASE q = key
    <3>1. q \in E /\ q \in Way(p)
      BY <1>1, <2>6, <2>10
    <3>2. Node(new, q) = IF slash THEN [old EXCEPT !.ts = h] ELSE [old EXCEPT !.handler = h]
      BY <1>2, <2>10, <3>1 DEF Node, E
    <3> HIDE DEF old
    <3>3. CASE slash
      <4>1. Node(new, q) = [handler |-> old.handler, ts |-> h, static |-> old.static, param |-> old.param, wild |-> old.wild]
        BY <2>3, <3>2, <3>3 DEF IsNode
      <4>2. /\ IsNode(Node(new, q)) /\ Node(new, q).static = old.static /\ Node(new, q).param = old.param
            /\ Node(new, q).wild = old.wild /\ Node(new, q).handler = old.handler /\ Node(new, q).ts = h
        BY <4>1 DEF IsNode
      <4>3. p = Append(q, Slash) /\ p # q
        <5>1. Len(Append(q, Slash)) = Len(q) + 1
          BY <2>1, AppendSeq
        <5>2. Len(q) + 1 # Len(q)
          BY <2>1
        <5>3. Append(q, Slash) # q
          BY <5>1, <5>2
        <5> QED
          BY <1>7, <2>10, <3>3, <5>3
      <4>4. Branches(E, q, Node(new, q)) /\ Len(Node(new, q).static) <= n + 1
        BY <2>7, <2>10, <4>2
      <4>5. Of(U, q) = Of(T, q) /\ Of(U, Append(q, Slash)) = h
        BY <1>3, <4>3
      <4> QED
        BY <2>2, <4>2, <4>4, <4>5
    <3>4. CASE ~slash
      <4>1. Node(new, q) = [handler |-> h, ts |-> old.ts, static |-> old.static, param |-> old.param, wild |-> old.wild]
        BY <2>3, <3>2, <3>4 DEF IsNode
      <4>2. /\ IsNode(Node(new, q)) /\ Node(new, q).static = old.static /\ Node(new, q).param = old.param
            /\ Node(new, q).wild = old.wild /\ Node(new, q).handler = h /\ Node(new, q).ts = old.ts
        BY <4>1 DEF IsNode
      <4>3. p = q /\ p # Append(q, Slash)
        <5>1. Len(Append(q, Slash)) = Len(q) + 1
          BY <2>1, AppendSeq
        <5>2. Len(q) + 1 # Len(q)
          BY <2>1
        <5>3. Append(q, Slash) # q
          BY <5>1, <5>2
        <5> QED
          BY <1>7, <2>10, <3>4, <5>3
      <4>4. Branches(E, q, Node(new, q)) /\ Len(Node(new, q).static) <= n + 1
        BY <2>7, <2>10, <4>2
      <4>5. Of(U, q) = h /\ Of(U, Append(q, Slash)) = Of(T, Append(q, Slash))
        BY <1>3, <4>3
      <4> QED
        BY <2>2, <4>2, <4>4, <4>5
    <3> QED
      BY <3>3, <3>4
  <2> QED
    BY <2>8, <2>9, <2>10
<1> QED
    BY <1>5, <1>6, <1>8 DEF Grown, new, U, E

\* The nodes of a tree: the root, and below every node its children.
LEMMA GrownTree ==
    ASSUME NEW T, NEW tree, NEW n, Grown(T, tree, n)
    PROVE  /\ \A q \in DOMAIN tree : Plain(q) /\ <<>> \in DOMAIN tree
           /\ \A q \in DOMAIN tree : q # <<>> =>
                 Front(q) \in DOMAIN tree /\ \E kind, name : kind \in Kinds /\ q = Append(Front(q), Seg(kind, name))
<1> SUFFICES ASSUME NEW q \in DOMAIN tree
             PROVE  /\ Plain(q) /\ <<>> \in DOMAIN tree
                    /\ q # <<>> => /\ Front(q) \in DOMAIN tree
                                   /\ \E kind, name : kind \in Kinds /\ q = Append(Front(q), Seg(kind, name))
    OBVIOUS
<1>1. PICK p \in Routed(T) : q \in Way(p)
    BY DEF Grown
<1>2. p \in Patterns /\ WellFormed(p) /\ Way(p) \subseteq DOMAIN tree
    BY <1>1 DEF Grown, Routed
<1>3. Plain(q) /\ <<>> \in Way(p) /\ Len(q) \in 0..Len(Key(p))
    BY <1>1, <1>2, WayFacts
<1>4. ASSUME q # <<>>
      PROVE  Front(q) \in DOMAIN tree /\ \E kind, name : kind \in Kinds /\ q = Append(Front(q), Seg(kind, name))
  <2>1. IsSeq(q) /\ Len(q) \in Nat /\ Len(q) > 0
    BY <1>3, <1>4, SeqFacts DEF Plain
  <2>2. /\ IsSeq(Front(q)) /\ Len(Front(q)) = Len(q) - 1 /\ q = Append(Front(q), Last(q))
        /\ \A i \in 1..Len(q) - 1 : Front(q)[i] = q[i]
    BY <1>4, <2>1, FrontLast
  <2>3. Plain(Front(q)) /\ Last(q) # Slash
    <3>1. \A i \in 1..Len(q) - 1 : i \in 1..Len(q)
      BY <2>1
    <3>2. Len(q) \in 1..Len(q)
      BY <2>1
    <3> QED
      BY <1>3, <2>2, <3>1, <3>2 DEF Plain, Last
  <2>4. Front(q) \in Way(p) /\ Last(q) = p[Len(Front(q)) + 1]
    <3>1. Append(Front(q), Last(q)) \in Way(p)
      BY <1>1, <2>2
    <3> QED
      BY <1>2, <2>3, <3>1, WayStep
  <2>5. Len(Front(q)) + 1 = Len(q) /\ Len(q) \in 1..Len(Key(p))
    BY <1>3, <2>1, <2>2
  <2>6. Last(q) = Seg(Last(q).kind, Last(q).name) /\ Last(q).kind \in Kinds
    <3>1. p[Len(q)] = Last(q)
      BY <2>4, <2>5
    <3> QED
      BY <1>2, <2>5, <3>1, KeyFacts
  <2> QED
    BY <1>2, <2>2, <2>4, <2>6
<1> QED
    BY <1>2, <1>3, <1>4

-----------------------------------------------------------------------------
(* The children of a node in the array.                                       *)

LEMMA FunIsSeq ==
    ASSUME NEW n \in Nat, NEW f, f = [i \in 1..n |-> f[i]]
    PROVE  IsSeq(f) /\ Len(f) = n
<1>1. f \in [1..n -> ToSet(f)]
    BY DEF ToSet
<1>2. f \in Seq(ToSet(f))
    BY <1>1, SeqDef
<1>3. Len(f) \in Nat /\ 1..Len(f) = 1..n
    BY <1>2, LenProperties
<1>4. Len(f) = n
  <2>1. CASE Len(f) < n
    <3>1. n \in 1..n /\ n \notin 1..Len(f)
      BY <1>3, <2>1
    <3> QED
      BY <1>3, <3>1
  <2>2. CASE Len(f) > n
    <3>1. Len(f) \in 1..Len(f) /\ Len(f) \notin 1..n
      BY <1>3, <2>2
    <3> QED
      BY <1>3, <3>1
  <2> QED
    BY <1>3, <2>1, <2>2
<1> QED
    BY <1>2, <1>4 DEF IsSeq

LEMMA ConcatSeq ==
    ASSUME NEW s, IsSeq(s), NEW t, IsSeq(t)
    PROVE  /\ IsSeq(s \o t) /\ Len(s \o t) = Len(s) + Len(t)
           /\ \A i \in 1..Len(s) : (s \o t)[i] = s[i]
           /\ \A i \in 1..Len(t) : (s \o t)[Len(s) + i] = t[i]
<1> DEFINE S == ToSet(s) \cup ToSet(t)
<1>1. s \in Seq(S) /\ t \in Seq(S)
    BY SeqMonotonic DEF IsSeq
<1>2. Len(s) \in Nat /\ Len(t) \in Nat
    BY SeqFacts
<1> HIDE DEF S
<1>3. s \o t \in Seq(S) /\ Len(s \o t) = Len(s) + Len(t)
    BY <1>1, ConcatProperties
<1>4. \A i \in 1..Len(s) + Len(t) : (s \o t)[i] = IF i <= Len(s) THEN s[i] ELSE t[i - Len(s)]
    BY <1>1, ConcatProperties
<1>5. ASSUME NEW i \in 1..Len(s) PROVE (s \o t)[i] = s[i]
  <2>1. i \in 1..Len(s) + Len(t) /\ i <= Len(s)
    BY <1>2
  <2> QED
    BY <1>4, <2>1
<1>6. ASSUME NEW i \in 1..Len(t) PROVE (s \o t)[Len(s) + i] = t[i]
  <2>1. Len(s) + i \in 1..Len(s) + Len(t) /\ ~(Len(s) + i <= Len(s)) /\ Len(s) + i - Len(s) = i
    BY <1>2
  <2> QED
    BY <1>4, <2>1
<1> QED
    BY <1>3, <1>5, <1>6, InSeq

\* A set of at most one name, as a sequence.
LEMMA OneOrNone ==
    ASSUME NEW A, \A a, b \in A : a = b, NEW q, NEW kind, NEW s,
           s = IF A = {} THEN <<>> ELSE <<Append(q, Seg(kind, CHOOSE x \in A : TRUE))>>
    PROVE  /\ IsSeq(s) /\ Len(s) = Cardinality(A) /\ Cardinality(A) \in {0, 1} /\ (Cardinality(A) = 0 <=> A = {})
           /\ \A a \in A : Len(s) = 1 /\ s[1] = Append(q, Seg(kind, a)) /\ a = CHOOSE x \in A : TRUE
<1>1. CASE A = {}
    BY <1>1, EmptyIsSeq, FS_EmptySet
<1>2. CASE A # {}
  <2>1. PICK a \in A : A = {a}
    BY <1>2
  <2>2. (CHOOSE x \in A : TRUE) = a
    BY <2>1
  <2>3. s = <<Append(q, Seg(kind, a))>>
    BY <1>2, <2>2
  <2>4. Cardinality(A) = 1
    BY <2>1, FS_Singleton
  <2>5. s \in Seq({Append(q, Seg(kind, a))}) /\ Len(s) = 1 /\ s[1] = Append(q, Seg(kind, a))
    BY <2>3
  <2>6. IsSeq(s)
    BY <2>5, InSeq
  <2> QED
    BY <1>2, <2>1, <2>2, <2>4, <2>5, <2>6
<1> QED
    BY <1>1, <1>2

\* Where the children stand: the static ones, the parameter, the wildcard.
Placed(k, q, n) ==
    LET a == Len(n.static) b == Cardinality(n.param) c == Cardinality(n.wild) IN
    /\ IsSeq(k) /\ Len(k) = a + b + c
    /\ a \in Nat /\ b \in {0, 1} /\ c \in {0, 1} /\ (b = 0 <=> n.param = {}) /\ (c = 0 <=> n.wild = {})
    /\ \A i \in 1..a : k[i] = Append(q, Seg("static", n.static[i]))
    /\ \A x \in n.param : k[a + 1] = Append(q, Seg("param", x)) /\ b = 1 /\ x = CHOOSE y \in n.param : TRUE
    /\ \A x \in n.wild : k[a + b + 1] = Append(q, Seg("wild", x)) /\ c = 1 /\ x = CHOOSE y \in n.wild : TRUE

LEMMA KidsFacts ==
    ASSUME NEW tree, NEW D, NEW q, IsSeq(q), NEW n, n = tree[q], Branches(D, q, n)
    PROVE  Placed(Kids(tree, q), q, n)
<1> DEFINE a == Len(n.static)
           b == Cardinality(n.param)
           c == Cardinality(n.wild)
           s == [i \in DOMAIN n.static |-> Append(q, Seg("static", n.static[i]))]
           t == IF n.param = {} THEN <<>> ELSE <<Append(q, Seg("param", CHOOSE x \in n.param : TRUE))>>
           u == IF n.wild = {} THEN <<>> ELSE <<Append(q, Seg("wild", CHOOSE x \in n.wild : TRUE))>>
           k == Kids(tree, q)
<1>1. k = s \o t \o u
    BY DEF Kids
<1>2. IsSeq(n.static) /\ (\A x, y \in n.param : x = y) /\ (\A x, y \in n.wild : x = y)
    BY DEF Branches
<1>3. a \in Nat /\ DOMAIN n.static = 1..a
    BY <1>2, SeqFacts
<1>4. a = Len(n.static) /\ b = Cardinality(n.param) /\ c = Cardinality(n.wild)
    OBVIOUS
<1>5. IsSeq(s) /\ Len(s) = a /\ \A i \in 1..a : s[i] = Append(q, Seg("static", n.static[i]))
  <2>1. s = [i \in 1..a |-> Append(q, Seg("static", n.static[i]))]
    BY <1>3
  <2>2. \A i \in 1..a : s[i] = Append(q, Seg("static", n.static[i]))
    BY <2>1
  <2>3. s = [i \in 1..a |-> s[i]]
    BY <2>1, <2>2
  <2> HIDE DEF s
  <2> QED
    BY <1>3, <2>2, <2>3, FunIsSeq
<1>6. /\ IsSeq(t) /\ Len(t) = b /\ b \in {0, 1} /\ (b = 0 <=> n.param = {})
      /\ \A x \in n.param : Len(t) = 1 /\ t[1] = Append(q, Seg("param", x)) /\ x = CHOOSE y \in n.param : TRUE
    BY <1>2, OneOrNone
<1>7. /\ IsSeq(u) /\ Len(u) = c /\ c \in {0, 1} /\ (c = 0 <=> n.wild = {})
      /\ \A x \in n.wild : Len(u) = 1 /\ u[1] = Append(q, Seg("wild", x)) /\ x = CHOOSE y \in n.wild : TRUE
    BY <1>2, OneOrNone
<1> HIDE DEF s, t, u, k, a, b, c
<1>8. /\ IsSeq(s \o t) /\ Len(s \o t) = a + b /\ (\A i \in 1..a : (s \o t)[i] = s[i])
      /\ \A i \in 1..b : (s \o t)[a + i] = t[i]
  <2>1. /\ IsSeq(s \o t) /\ Len(s \o t) = Len(s) + Len(t) /\ (\A i \in 1..Len(s) : (s \o t)[i] = s[i])
        /\ \A i \in 1..Len(t) : (s \o t)[Len(s) + i] = t[i]
    BY <1>5, <1>6, ConcatSeq
  <2> QED
    BY <1>5, <1>6, <2>1
<1>9. /\ IsSeq(k) /\ Len(k) = a + b + c /\ (\A i \in 1..a + b : k[i] = (s \o t)[i])
      /\ \A i \in 1..c : k[a + b + i] = u[i]
  <2> DEFINE v == s \o t
  <2>1. IsSeq(v) /\ Len(v) = a + b /\ k = v \o u
    BY <1>1, <1>8
  <2> HIDE DEF v
  <2>2. /\ IsSeq(v \o u) /\ Len(v \o u) = Len(v) + Len(u) /\ (\A i \in 1..Len(v) : (v \o u)[i] = v[i])
        /\ \A i \in 1..Len(u) : (v \o u)[Len(v) + i] = u[i]
    BY <1>7, <2>1, ConcatSeq
  <2> QED
    BY <1>7, <2>1, <2>2 DEF v
<1>10. ASSUME NEW i \in 1..a PROVE k[i] = Append(q, Seg("static", n.static[i]))
  <2>1. i \in 1..a + b
    BY <1>3, <1>6
  <2> QED
    BY <1>5, <1>8, <1>9, <2>1
<1>11. ASSUME NEW x \in n.param PROVE k[a + 1] = Append(q, Seg("param", x)) /\ b = 1 /\ x = CHOOSE y \in n.param : TRUE
  <2>1. b = 1 /\ a + 1 \in 1..a + b /\ 1 \in 1..b
    BY <1>3, <1>6
  <2> QED
    BY <1>6, <1>8, <1>9, <2>1
<1>12. ASSUME NEW x \in n.wild PROVE k[a + b + 1] = Append(q, Seg("wild", x)) /\ c = 1 /\ x = CHOOSE y \in n.wild : TRUE
  <2>1. c = 1 /\ 1 \in 1..c
    BY <1>7
  <2> QED
    BY <1>7, <1>9, <2>1
<1>13. /\ IsSeq(k) /\ Len(k) = a + b + c
       /\ a \in Nat /\ b \in {0, 1} /\ c \in {0, 1} /\ (b = 0 <=> n.param = {}) /\ (c = 0 <=> n.wild = {})
    BY <1>3, <1>6, <1>7, <1>9
<1> HIDE DEF b, c
<1> QED
    BY <1>10, <1>11, <1>12, <1>13 DEF k, a, b, c, Placed

\* The children are the nodes right below, each once.
Children(k, q, D) ==
    /\ \A i, j \in 1..Len(k) : k[i] = k[j] => i = j
    /\ \A i \in 1..Len(k) : k[i] \in D /\ \E kind, name : kind \in Kinds /\ k[i] = Append(q, Seg(kind, name))
    /\ \A kind, name : kind \in Kinds /\ Append(q, Seg(kind, name)) \in D => \E i \in 1..Len(k) : k[i] = Append(q, Seg(kind, name))

LEMMA KidsAre ==
    ASSUME NEW tree, NEW D, NEW q, IsSeq(q), NEW n, n = tree[q], Branches(D, q, n)
    PROVE  Children(Kids(tree, q), q, D)
<1> DEFINE k == Kids(tree, q)
           a == Len(n.static)
           b == Cardinality(n.param)
           c == Cardinality(n.wild)
<1>1. /\ IsSeq(k) /\ Len(k) = a + b + c
      /\ a \in Nat /\ b \in {0, 1} /\ c \in {0, 1} /\ (b = 0 <=> n.param = {}) /\ (c = 0 <=> n.wild = {})
      /\ \A i \in 1..a : k[i] = Append(q, Seg("static", n.static[i]))
      /\ \A x \in n.param : k[a + 1] = Append(q, Seg("param", x)) /\ b = 1
      /\ \A x \in n.wild : k[a + b + 1] = Append(q, Seg("wild", x)) /\ c = 1
  <2>1. Placed(k, q, n)
    BY KidsFacts
  <2> HIDE DEF k
  <2> QED
    BY <2>1 DEF Placed
<1>2. /\ IsInjective(n.static) /\ DOMAIN n.static = 1..a
      /\ \A name : Contains(n.static, name) <=> Append(q, Seg("static", name)) \in D
      /\ \A name : name \in n.param <=> Append(q, Seg("param", name)) \in D
      /\ \A name : name \in n.wild <=> Append(q, Seg("wild", name)) \in D
    BY SeqFacts DEF Branches
<1> HIDE DEF k, a, b, c
\* the segment of a child
<1> DEFINE Kid(i, kind, name) == k[i] = Append(q, Seg(kind, name)) /\ Append(q, Seg(kind, name)) \in D
<1>3. ASSUME NEW i \in 1..Len(k)
      PROVE  \/ i \in 1..a /\ Kid(i, "static", n.static[i])
             \/ i = a + 1 /\ b = 1 /\ \E x \in n.param : Kid(i, "param", x)
             \/ i = a + b + 1 /\ c = 1 /\ \E x \in n.wild : Kid(i, "wild", x)
  <2>1. i \in 1..a \/ (i = a + 1 /\ b = 1) \/ (i = a + b + 1 /\ c = 1)
    BY <1>1
  <2>2. CASE i \in 1..a
    <3>1. Contains(n.static, n.static[i])
      BY <2>2 DEF Contains, a
    <3> QED
      BY <1>1, <1>2, <2>2, <3>1
  <2>3. CASE i = a + 1 /\ b = 1
    <3>1. PICK x : x \in n.param
      BY <1>1, <2>3
    <3> QED
      BY <1>1, <1>2, <2>3, <3>1
  <2>4. CASE i = a + b + 1 /\ c = 1
    <3>1. PICK x : x \in n.wild
      BY <1>1, <2>4
    <3> QED
      BY <1>1, <1>2, <2>4, <3>1
  <2> QED
    BY <2>1, <2>2, <2>3, <2>4
<1>4. \A d, e : Append(q, d) = Append(q, e) => d = e
    BY AppendSame
<1>5. \A kind, name, kind2, name2 : Seg(kind, name) = Seg(kind2, name2) => kind = kind2 /\ name = name2
    BY DEF Seg
<1>6. \A i, kind, name, kind2, name2 : Kid(i, kind, name) /\ Kid(i, kind2, name2) => kind = kind2 /\ name = name2
    BY <1>4, <1>5
<1>7. \A i, j, kind, name : k[i] = k[j] /\ Kid(j, kind, name) => Kid(i, kind, name)
    OBVIOUS
<1>8. \A i, kind, name : Kid(i, kind, name) => k[i] \in D /\ k[i] = Append(q, Seg(kind, name))
    OBVIOUS
<1> HIDE DEF Kid
<1>9. ASSUME NEW i \in 1..Len(k), NEW j \in 1..Len(k), k[i] = k[j] PROVE i = j
  <2>1. CASE i \in 1..a /\ Kid(i, "static", n.static[i])
    <3>1. Kid(j, "static", n.static[i])
      BY <1>7, <1>9, <2>1
    <3>2. j \in 1..a /\ n.static[j] = n.static[i]
      BY <1>3, <1>6, <3>1
    <3> QED
      BY <1>2, <2>1, <3>2 DEF IsInjective
  <2>2. CASE i = a + 1 /\ b = 1 /\ \E x \in n.param : Kid(i, "param", x)
    <3>1. PICK x : Kid(i, "param", x)
      BY <2>2
    <3>2. Kid(j, "param", x)
      BY <1>7, <1>9, <3>1
    <3> QED
      BY <1>3, <1>6, <2>2, <3>2
  <2>3. CASE i = a + b + 1 /\ c = 1 /\ \E x \in n.wild : Kid(i, "wild", x)
    <3>1. PICK x : Kid(i, "wild", x)
      BY <2>3
    <3>2. Kid(j, "wild", x)
      BY <1>7, <1>9, <3>1
    <3> QED
      BY <1>3, <1>6, <2>3, <3>2
  <2> QED
    BY <1>3, <2>1, <2>2, <2>3
<1>10. ASSUME NEW i \in 1..Len(k) PROVE k[i] \in D /\ \E kind, name : kind \in Kinds /\ k[i] = Append(q, Seg(kind, name))
  <2>1. PICK kind, name : kind \in Kinds /\ Kid(i, kind, name)
    BY <1>3 DEF Kinds
  <2> QED
    BY <1>8, <2>1
<1>11. ASSUME NEW kind, NEW name, kind \in Kinds, Append(q, Seg(kind, name)) \in D
       PROVE  \E i \in 1..Len(k) : k[i] = Append(q, Seg(kind, name))
  <2>1. CASE kind = "static"
    <3>1. PICK i \in 1..a : n.static[i] = name
      BY <1>2, <1>11, <2>1 DEF Contains, a
    <3>2. i \in 1..Len(k)
      BY <1>1
    <3> QED
      BY <1>1, <2>1, <3>1, <3>2
  <2>2. CASE kind = "param"
    <3>1. name \in n.param
      BY <1>2, <1>11, <2>2
    <3>2. a + 1 \in 1..Len(k)
      BY <1>1, <3>1
    <3> QED
      BY <1>1, <2>2, <3>1, <3>2
  <2>3. CASE kind = "wild"
    <3>1. name \in n.wild
      BY <1>2, <1>11, <2>3
    <3>2. a + b + 1 \in 1..Len(k)
      BY <1>1, <3>1
    <3> QED
      BY <1>1, <2>3, <3>1, <3>2
  <2> QED
    BY <1>11, <2>1, <2>2, <2>3 DEF Kinds
<1> QED
    BY <1>9, <1>10, <1>11 DEF k, Children

-----------------------------------------------------------------------------
(* The recursive functions are what their equations say.                      *)

Smaller == {ss \in Nat \X Nat : ss[1] < ss[2]}

LEMMA Least == ASSUME NEW S \in SUBSET Nat, S # {} PROVE \E m \in S : \A k \in S : m <= k
<1>1. IsWellFoundedOn(Smaller, Nat)
    BY NatLessThanWellFounded, Zenon DEF OpToRel, Smaller
<1>2. PICK m \in S : \A k \in S : ~(<<k, m>> \in Smaller)
    BY <1>1, WFMin
<1>3. \A k \in S : ~(k < m)
    BY <1>2 DEF Smaller
<1> QED
    BY <1>3

IsQueue(tree, n, f) == f = [k \in 0..n |-> IF k = 0 THEN <<<<>>>> ELSE Visited(tree, k, f[k - 1])]

LEMMA QueueIs ==
    ASSUME NEW tree, Cardinality(DOMAIN tree) \in Nat
    PROVE  /\ Queue(tree)[0] = <<<<>>>>
           /\ \A k \in 1..Cardinality(DOMAIN tree) :
                 Queue(tree)[k] = Queue(tree)[k - 1] \o Kids(tree, Queue(tree)[k - 1][k])
<1> DEFINE N == Cardinality(DOMAIN tree)
           S == {n \in Nat : ~\E f : IsQueue(tree, n, f)}
<1>1. \A k, done : (CHOOSE r \in {Visited(tree, k, d) : d \in {done}} : TRUE) = Visited(tree, k, done)
    OBVIOUS
<1>2. Queue(tree) = CHOOSE f : f = [k \in 0..N |-> IF k = 0 THEN <<<<>>>>
                                                  ELSE CHOOSE r \in {Visited(tree, k, d) : d \in {f[k - 1]}} : TRUE]
    BY DEF Queue
<1>3. \A f : IsQueue(tree, N, f) <=> f = [k \in 0..N |-> IF k = 0 THEN <<<<>>>>
                                                        ELSE CHOOSE r \in {Visited(tree, k, d) : d \in {f[k - 1]}} : TRUE]
    BY <1>1 DEF IsQueue
<1>4. S = {}
  <2> SUFFICES ASSUME S # {} PROVE FALSE
    OBVIOUS
  <2>1. PICK m \in S : \A k \in S : m <= k
    BY Least
  <2>2. m # 0
    <3>1. IsQueue(tree, 0, [k \in 0..0 |-> <<<<>>>>])
      BY DEF IsQueue
    <3> QED
      BY <2>1, <3>1
  <2>3. m \in Nat /\ m - 1 \in Nat /\ m - 1 \notin S
    BY <2>1, <2>2
  <2>4. PICK g : IsQueue(tree, m - 1, g)
    BY <2>3
  <2> DEFINE f == [k \in 0..m |-> IF k = 0 THEN <<<<>>>> ELSE Visited(tree, k, g[k - 1])]
  <2>5. ASSUME NEW k \in 0..m - 1 PROVE f[k] = g[k]
    <3>1. g[k] = IF k = 0 THEN <<<<>>>> ELSE Visited(tree, k, g[k - 1])
      BY <2>4, Zenon DEF IsQueue
    <3>2. k \in 0..m
      BY <2>3
    <3> QED
      BY <3>1, <3>2
  <2>6. IsQueue(tree, m, f)
    <3>1. ASSUME NEW k \in 0..m, k # 0 PROVE f[k - 1] = g[k - 1]
      <4>1. k - 1 \in 0..m - 1
        BY <2>3, <3>1
      <4> QED
        BY <2>5, <4>1
    <3> QED
      BY <3>1 DEF IsQueue
  <2> QED
    BY <2>1, <2>6
<1>5. \E f : IsQueue(tree, N, f)
    BY <1>4
<1>6. IsQueue(tree, N, Queue(tree))
    BY <1>2, <1>3, <1>5
<1> DEFINE Q == Queue(tree)
<1> HIDE DEF Q, N
<1>7. \A k \in 0..N : Q[k] = IF k = 0 THEN <<<<>>>> ELSE Visited(tree, k, Q[k - 1])
    BY <1>6, Zenon DEF IsQueue, Q
<1>8. 0 \in 0..N /\ \A k \in 1..N : k \in 0..N /\ k # 0
    BY DEF N
<1> QED
    BY <1>7, <1>8 DEF Visited, Q, N

IsWalk(nodes, path, n, f) ==
    f = [k \in 0..n |-> IF k = 0 THEN [cur |-> 1, params |-> <<>>, at |-> "node"]
                        ELSE Onward(nodes, path, k, f[k - 1])]

LEMMA WalkIs ==
    ASSUME NEW nodes, NEW path, Depth(path) \in Nat
    PROVE  /\ Walk(nodes, path)[0] = [cur |-> 1, params |-> <<>>, at |-> "node"]
           /\ \A k \in 1..Depth(path) : Walk(nodes, path)[k] = Onward(nodes, path, k, Walk(nodes, path)[k - 1])
<1> DEFINE N == Depth(path)
           S == {n \in Nat : ~\E f : IsWalk(nodes, path, n, f)}
<1>1. Walk(nodes, path) = CHOOSE f : IsWalk(nodes, path, N, f)
    BY DEF Walk, IsWalk
<1>2. S = {}
  <2> SUFFICES ASSUME S # {} PROVE FALSE
    OBVIOUS
  <2>1. PICK m \in S : \A k \in S : m <= k
    BY Least
  <2>2. m # 0
    <3>1. IsWalk(nodes, path, 0, [k \in 0..0 |-> [cur |-> 1, params |-> <<>>, at |-> "node"]])
      BY DEF IsWalk
    <3> QED
      BY <2>1, <3>1
  <2>3. m \in Nat /\ m - 1 \in Nat /\ m - 1 \notin S
    BY <2>1, <2>2
  <2>4. PICK g : IsWalk(nodes, path, m - 1, g)
    BY <2>3
  <2> DEFINE f == [k \in 0..m |-> IF k = 0 THEN [cur |-> 1, params |-> <<>>, at |-> "node"]
                                  ELSE Onward(nodes, path, k, g[k - 1])]
  <2>5. ASSUME NEW k \in 0..m - 1 PROVE f[k] = g[k]
    <3>1. g[k] = IF k = 0 THEN [cur |-> 1, params |-> <<>>, at |-> "node"] ELSE Onward(nodes, path, k, g[k - 1])
      BY <2>4, Zenon DEF IsWalk
    <3>2. k \in 0..m
      BY <2>3
    <3> QED
      BY <3>1, <3>2
  <2>6. IsWalk(nodes, path, m, f)
    <3>1. ASSUME NEW k \in 0..m, k # 0 PROVE f[k - 1] = g[k - 1]
      <4>1. k - 1 \in 0..m - 1
        BY <2>3, <3>1
      <4> QED
        BY <2>5, <4>1
    <3> QED
      BY <3>1 DEF IsWalk
  <2> QED
    BY <2>1, <2>6
<1>3. IsWalk(nodes, path, N, Walk(nodes, path))
    BY <1>1, <1>2
<1> DEFINE F == Walk(nodes, path)
<1> HIDE DEF F, N
<1>4. \A k \in 0..N : F[k] = IF k = 0 THEN [cur |-> 1, params |-> <<>>, at |-> "node"] ELSE Onward(nodes, path, k, F[k - 1])
    BY <1>3, Zenon DEF IsWalk, F
<1>5. 0 \in 0..N /\ \A k \in 1..N : k \in 0..N /\ k # 0
    BY DEF N
<1> QED
    BY <1>4, <1>5 DEF F, N

IsTaken(T, path, n, f) ==
    f = [k \in 0..n |-> IF k = 0 THEN [q |-> <<>>, params |-> <<>>, at |-> "node"]
                        ELSE Further(T, path, k, f[k - 1])]

LEMMA TakenIs ==
    ASSUME NEW T, NEW path, Depth(path) \in Nat
    PROVE  /\ Taken(T, path)[0] = [q |-> <<>>, params |-> <<>>, at |-> "node"]
           /\ \A k \in 1..Depth(path) : Taken(T, path)[k] = Further(T, path, k, Taken(T, path)[k - 1])
<1> DEFINE N == Depth(path)
           S == {n \in Nat : ~\E f : IsTaken(T, path, n, f)}
<1>1. Taken(T, path) = CHOOSE f : IsTaken(T, path, N, f)
    BY DEF Taken, IsTaken
<1>2. S = {}
  <2> SUFFICES ASSUME S # {} PROVE FALSE
    OBVIOUS
  <2>1. PICK m \in S : \A k \in S : m <= k
    BY Least
  <2>2. m # 0
    <3>1. IsTaken(T, path, 0, [k \in 0..0 |-> [q |-> <<>>, params |-> <<>>, at |-> "node"]])
      BY DEF IsTaken
    <3> QED
      BY <2>1, <3>1
  <2>3. m \in Nat /\ m - 1 \in Nat /\ m - 1 \notin S
    BY <2>1, <2>2
  <2>4. PICK g : IsTaken(T, path, m - 1, g)
    BY <2>3
  <2> DEFINE f == [k \in 0..m |-> IF k = 0 THEN [q |-> <<>>, params |-> <<>>, at |-> "node"]
                                  ELSE Further(T, path, k, g[k - 1])]
  <2>5. ASSUME NEW k \in 0..m - 1 PROVE f[k] = g[k]
    <3>1. g[k] = IF k = 0 THEN [q |-> <<>>, params |-> <<>>, at |-> "node"] ELSE Further(T, path, k, g[k - 1])
      BY <2>4, Zenon DEF IsTaken
    <3>2. k \in 0..m
      BY <2>3
    <3> QED
      BY <3>1, <3>2
  <2>6. IsTaken(T, path, m, f)
    <3>1. ASSUME NEW k \in 0..m, k # 0 PROVE f[k - 1] = g[k - 1]
      <4>1. k - 1 \in 0..m - 1
        BY <2>3, <3>1
      <4> QED
        BY <2>5, <4>1
    <3> QED
      BY <3>1 DEF IsTaken
  <2> QED
    BY <2>1, <2>6
<1>3. IsTaken(T, path, N, Taken(T, path))
    BY <1>1, <1>2
<1> DEFINE F == Taken(T, path)
<1> HIDE DEF F, N
<1>4. \A k \in 0..N : F[k] = IF k = 0 THEN [q |-> <<>>, params |-> <<>>, at |-> "node"] ELSE Further(T, path, k, F[k - 1])
    BY <1>3, Zenon DEF IsTaken, F
<1>5. 0 \in 0..N /\ \A k \in 1..N : k \in 0..N /\ k # 0
    BY DEF N
<1> QED
    BY <1>4, <1>5 DEF F, N

-----------------------------------------------------------------------------
(* Breadth first: every node enters the queue once, before its turn comes.    *)

\* The queue after k nodes: what stood in it before still does; a node is in it if and only if its parent
\* is among the first k.
Ahead(D, Q, k) ==
    /\ IsSeq(Q[k]) /\ k <= Len(Q[k]) /\ 1 <= Len(Q[k]) /\ Q[k][1] = <<>>
    /\ \A i \in 1..Len(Q[k]) : Q[k][i] \in D
    /\ \A i, j \in 1..Len(Q[k]) : Q[k][i] = Q[k][j] => i = j
    /\ \A q \in D : q # <<>> => ((\E i \in 1..Len(Q[k]) : Q[k][i] = q) <=> \E i \in 1..k : Q[k][i] = Front(q))
    /\ \A j \in 0..k : Len(Q[j]) <= Len(Q[k]) /\ \A i \in 1..Len(Q[j]) : Q[k][i] = Q[j][i]

\* As long as nodes are missing, there is a next one.
LEMMA Progress ==
    ASSUME NEW T, NEW tree, NEW n, Grown(T, tree, n), NEW Q,
           NEW k \in Nat, k < Cardinality(DOMAIN tree), Ahead(DOMAIN tree, Q, k)
    PROVE  k < Len(Q[k])
<1> DEFINE D == DOMAIN tree
           V == {Q[k][i] : i \in 1..k}
<1>1. IsSeq(Q[k]) /\ Len(Q[k]) \in Nat /\ k <= Len(Q[k])
    BY SeqFacts DEF Ahead
<1> SUFFICES ASSUME Len(Q[k]) = k PROVE FALSE
    BY <1>1
<1>2. \A q \in D \ V : q # <<>> /\ Front(q) \notin V
  <2>1. <<>> \in V
    BY DEF Ahead
  <2> QED
    BY <2>1 DEF Ahead
<1>3. D \subseteq V
  <2> DEFINE S == {Len(q) : q \in D \ V}
  <2>1. \A q \in D : IsSeq(q) /\ Len(q) \in Nat
    BY GrownTree, SeqFacts DEF Plain
  <2>2. S \in SUBSET Nat
    BY <2>1
  <2> SUFFICES ASSUME S # {} PROVE FALSE
    OBVIOUS
  <2>3. PICK m \in S : \A j \in S : m <= j
    BY <2>2, Least
  <2>4. PICK q \in D \ V : Len(q) = m
    BY <2>3
  <2>5. Front(q) \in D /\ Front(q) \notin V /\ Len(Front(q)) = Len(q) - 1
    BY <1>2, <2>1, <2>4, GrownTree, FrontLast
  <2>6. Len(Front(q)) \in S
    BY <2>5
  <2>7. m <= Len(q) - 1 /\ m \in Nat
    BY <2>2, <2>3, <2>5, <2>6
  <2> QED
    BY <2>4, <2>7
<1>4. Cardinality(V) <= k /\ IsFiniteSet(V)
  <2> DEFINE f == [i \in 1..k |-> Q[k][i]]
  <2>1. f \in Surjection(1..k, V)
    BY DEF Surjection
  <2>2. IsFiniteSet(1..k) /\ Cardinality(1..k) = k
    BY FS_Interval
  <2> HIDE DEF f, V
  <2> QED
    BY <2>1, <2>2, FS_Surjection
<1>5. Cardinality(D) <= Cardinality(V) /\ Cardinality(D) \in Nat /\ Cardinality(V) \in Nat
  <2>1. IsFiniteSet(D)
    BY DEF Grown
  <2> HIDE DEF D, V
  <2> QED
    BY <1>3, <1>4, <2>1, FS_Subset, FS_CardinalityType
<1> QED
    BY <1>4, <1>5

LEMMA AheadStep ==
    ASSUME NEW T, NEW tree, NEW n, Grown(T, tree, n), NEW Q,
           NEW k \in Nat \ {0}, k <= Len(Q[k - 1]), Ahead(DOMAIN tree, Q, k - 1),
           Q[k] = Q[k - 1] \o Kids(tree, Q[k - 1][k])
    PROVE  Ahead(DOMAIN tree, Q, k)
<1> DEFINE D == DOMAIN tree
           old == Q[k - 1]
           new == Q[k]
           x == old[k]
           kids == Kids(tree, x)
           a == Len(old)
           b == Len(kids)
<1>1. /\ IsSeq(old) /\ k - 1 <= a /\ 1 <= a /\ old[1] = <<>>
      /\ \A i \in 1..a : old[i] \in D
      /\ \A i, j \in 1..a : old[i] = old[j] => i = j
      /\ \A q \in D : q # <<>> => ((\E i \in 1..a : old[i] = q) <=> \E i \in 1..k - 1 : old[i] = Front(q))
      /\ \A j \in 0..k - 1 : Len(Q[j]) <= a /\ \A i \in 1..Len(Q[j]) : old[i] = Q[j][i]
    BY DEF Ahead
<1>2. a \in Nat /\ k \in 1..a
    BY <1>1, SeqFacts
<1>3. x \in D /\ Plain(x) /\ IsSeq(x)
    BY <1>1, <1>2, GrownTree DEF Plain
<1>4. Branches(D, x, tree[x])
    BY <1>3 DEF Grown, Node
<1>5. IsSeq(kids) /\ b \in Nat
  <2>1. Placed(kids, x, tree[x])
    BY <1>3, <1>4, KidsFacts
  <2>2. IsSeq(kids)
    BY <2>1 DEF Placed
  <2> QED
    BY <2>2, SeqFacts
<1>6. /\ \A i, j \in 1..b : kids[i] = kids[j] => i = j
      /\ \A i \in 1..b : kids[i] \in D /\ \E kind, name : kind \in Kinds /\ kids[i] = Append(x, Seg(kind, name))
      /\ \A kind, name : kind \in Kinds /\ Append(x, Seg(kind, name)) \in D => \E i \in 1..b : kids[i] = Append(x, Seg(kind, name))
  <2>1. Children(kids, x, D)
    BY <1>3, <1>4, KidsAre
  <2> HIDE DEF kids, x
  <2> QED
    BY <2>1 DEF Children
<1>7. new = old \o kids
    OBVIOUS
<1> HIDE DEF D, old, new, x, kids
<1>8. /\ IsSeq(new) /\ Len(new) = a + b
      /\ \A i \in 1..a : new[i] = old[i]
      /\ \A i \in 1..b : new[a + i] = kids[i]
    BY <1>1, <1>5, <1>7, ConcatSeq
<1> HIDE DEF a, b
<1>9. ASSUME NEW i \in 1..a + b PROVE i \in 1..a \/ \E j \in 1..b : i = a + j /\ new[i] = kids[j]
  <2>1. CASE i <= a
    BY <1>2, <2>1
  <2>2. CASE ~(i <= a)
    <3>1. i - a \in 1..b /\ i = a + (i - a)
      BY <1>2, <1>5, <2>2
    <3> QED
      BY <1>8, <3>1
  <2> QED
    BY <2>1, <2>2
<1>10. \A i \in 1..b : kids[i] # <<>> /\ Front(kids[i]) = x /\ kids[i] \in D
  <2>1. \A s : Append(x, s) # <<>> /\ Front(Append(x, s)) = x
    BY <1>3, FrontLast, AppendSeq
  <2> QED
    BY <1>6, <2>1
<1>11. ASSUME NEW i \in 1..a, NEW j \in 1..b PROVE old[i] # kids[j]
  <2> SUFFICES ASSUME old[i] = kids[j] PROVE FALSE
    OBVIOUS
  <2>1. PICK l \in 1..k - 1 : old[l] = x
    BY <1>1, <1>10
  <2>2. l \in 1..a /\ l # k
    BY <1>2, <2>1
  <2> QED
    BY <1>1, <1>2, <2>1, <2>2 DEF x
<1>12. ASSUME NEW i \in 1..a + b, NEW j \in 1..a + b, new[i] = new[j] PROVE i = j
  <2>1. CASE i \in 1..a /\ j \in 1..a
    BY <1>1, <1>8, <1>12, <2>1
  <2>2. CASE i \in 1..a /\ j \notin 1..a
    BY <1>8, <1>9, <1>11, <1>12, <2>2
  <2>3. CASE i \notin 1..a /\ j \in 1..a
    BY <1>8, <1>9, <1>11, <1>12, <2>3
  <2>4. CASE i \notin 1..a /\ j \notin 1..a
    BY <1>6, <1>9, <1>12, <2>4
  <2> QED
    BY <2>1, <2>2, <2>3, <2>4
<1>13. \A i \in 1..a : i \in 1..a + b
    BY <1>2, <1>5
<1>14. \A i \in 1..b : a + i \in 1..a + b
    BY <1>2, <1>5
<1>15. ASSUME NEW q \in D, q # <<>>
       PROVE  (\E i \in 1..a + b : new[i] = q) <=> \E i \in 1..k : new[i] = Front(q)
  <2>1. ASSUME NEW i \in 1..a, old[i] = q PROVE \E j \in 1..k : new[j] = Front(q)
    <3>1. PICK j \in 1..k - 1 : old[j] = Front(q)
      BY <1>1, <1>15, <2>1
    <3>2. j \in 1..a /\ j \in 1..k
      BY <1>2, <3>1
    <3> QED
      BY <1>8, <3>1, <3>2
  <2>2. ASSUME NEW i \in 1..b, kids[i] = q PROVE \E j \in 1..k : new[j] = Front(q)
    <3>1. new[k] = x /\ k \in 1..k
      BY <1>2, <1>8 DEF x
    <3> QED
      BY <1>10, <2>2, <3>1
  <2>3. ASSUME NEW j \in 1..k, new[j] = Front(q) PROVE \E i \in 1..a + b : new[i] = q
    <3>1. new[j] = old[j]
      <4>1. j \in 1..a
        BY <1>2
      <4> QED
        BY <1>8, <4>1
    <3>2. CASE j = k
      <4>1. Front(q) = x
        BY <2>3, <3>1, <3>2 DEF x
      <4>2. PICK kind, name : kind \in Kinds /\ q = Append(x, Seg(kind, name))
        BY <1>15, <4>1, GrownTree DEF D
      <4>3. PICK i \in 1..b : kids[i] = q
        BY <1>6, <1>15, <4>2
      <4> QED
        BY <1>8, <1>14, <4>3
    <3>3. CASE j # k
      <4>1. j \in 1..k - 1
        BY <1>2, <3>3
      <4>2. PICK i \in 1..a : old[i] = q
        BY <1>1, <1>15, <2>3, <3>1, <4>1
      <4> QED
        BY <1>8, <1>13, <4>2
    <3> QED
      BY <3>2, <3>3
  <2>4. ASSUME NEW i \in 1..a + b, new[i] = q PROVE \E j \in 1..k : new[j] = Front(q)
    <3>1. CASE i \in 1..a
      BY <1>8, <2>1, <2>4, <3>1
    <3>2. CASE i \notin 1..a
      <4>1. PICK j \in 1..b : new[i] = kids[j]
        BY <1>9, <3>2
      <4> QED
        BY <2>2, <2>4, <4>1
    <3> QED
      BY <3>1, <3>2
  <2> QED
    BY <2>3, <2>4
<1>16. ASSUME NEW j \in 0..k PROVE Len(Q[j]) <= a + b /\ \A i \in 1..Len(Q[j]) : new[i] = Q[j][i]
  <2>1. CASE j = k
    <3>1. Q[j] = new
      BY <2>1 DEF new
    <3> QED
      BY <1>2, <1>5, <1>8, <3>1
  <2>2. CASE j # k
    <3>1. j \in 0..k - 1
      BY <1>2, <2>2
    <3>2. Len(Q[j]) <= a /\ \A i \in 1..Len(Q[j]) : old[i] = Q[j][i]
      BY <1>1, <3>1
    <3>3. \A i \in 1..Len(Q[j]) : i \in 1..a
      BY <1>2, <3>2
    <3>4. Len(Q[j]) <= a + b
      <4>1. Len(Q[j]) \in Int
        OBVIOUS
      <4> QED
        BY <1>2, <1>5, <3>2, <4>1
    <3> QED
      BY <1>8, <3>2, <3>3, <3>4
  <2> QED
    BY <2>1, <2>2
<1>17. k <= a + b /\ 1 <= a + b /\ new[1] = <<>>
    BY <1>1, <1>2, <1>5, <1>8
<1>18. \A i \in 1..a + b : new[i] \in D
    BY <1>1, <1>8, <1>9, <1>10
<1> QED
    BY <1>8, <1>12, <1>15, <1>16, <1>17, <1>18 DEF Ahead, D, new

LEMMA AheadAlways ==
    ASSUME NEW T, NEW tree, NEW n, Grown(T, tree, n), DOMAIN tree # {}
    PROVE  /\ Cardinality(DOMAIN tree) \in Nat
           /\ \A k \in 0..Cardinality(DOMAIN tree) : Ahead(DOMAIN tree, Queue(tree), k)
<1> DEFINE D == DOMAIN tree
           N == Cardinality(D)
           Q == Queue(tree)
           S == {k \in 0..N : ~Ahead(D, Q, k)}
<1>1. N \in Nat
    BY FS_CardinalityType DEF Grown
<1>2. /\ Q[0] = <<<<>>>>
      /\ \A k \in 1..N : Q[k] = Q[k - 1] \o Kids(tree, Q[k - 1][k])
    BY <1>1, QueueIs
<1> HIDE DEF Q, N
<1>3. Ahead(D, Q, 0)
  <2>1. <<>> \in D
    BY GrownTree
  <2>2. Q[0] \in Seq({<<>>}) /\ Len(Q[0]) = 1 /\ Q[0][1] = <<>>
    BY <1>2
  <2>3. IsSeq(Q[0])
    BY <2>2, InSeq
  <2>4. \A i \in 1..Len(Q[0]) : i = 1
    BY <2>2
  <2>5. \A q \in D : q # <<>> => ~(\E i \in 1..Len(Q[0]) : Q[0][i] = q) /\ ~(\E i \in 1..0 : Q[0][i] = Front(q))
    BY <2>2, <2>4
  <2>6. \A j \in 0..0 : Len(Q[j]) <= Len(Q[0]) /\ \A i \in 1..Len(Q[j]) : Q[0][i] = Q[j][i]
    <3>1. \A j \in 0..0 : j = 0
      OBVIOUS
    <3>2. Len(Q[0]) <= Len(Q[0])
      BY <2>2
    <3> QED
      BY <3>1, <3>2
  <2> HIDE DEF D
  <2> QED
    BY <2>1, <2>2, <2>3, <2>4, <2>5, <2>6 DEF Ahead
<1>4. S = {}
  <2> SUFFICES ASSUME S # {} PROVE FALSE
    OBVIOUS
  <2>1. PICK m \in S : \A k \in S : m <= k
    <3>1. S \in SUBSET Nat
      OBVIOUS
    <3> HIDE DEF S
    <3> QED
      BY <3>1, Least
  <2>2. m \in 0..N /\ ~Ahead(D, Q, m) /\ m # 0
    BY <1>3, <2>1
  <2>3. m - 1 \in 0..N /\ m \in 1..N /\ m - 1 \notin S
    BY <1>1, <2>1, <2>2
  <2>4. Ahead(D, Q, m - 1) /\ m - 1 \in Nat /\ m - 1 < N
    BY <1>1, <2>3
  <2>5. m - 1 < Len(Q[m - 1])
    BY <2>4, Progress DEF D, N
  <2>6. m <= Len(Q[m - 1]) /\ m \in Nat \ {0}
    <3>1. IsSeq(Q[m - 1])
      BY <2>4 DEF Ahead
    <3>2. Len(Q[m - 1]) \in Nat
      BY <3>1, SeqFacts
    <3> QED
      BY <2>3, <2>5, <3>2
  <2>7. Q[m] = Q[m - 1] \o Kids(tree, Q[m - 1][m])
    BY <1>2, <2>3
  <2>8. Ahead(D, Q, m)
    BY <2>4, <2>6, <2>7, AheadStep DEF D
  <2> QED
    BY <2>2, <2>8
<1> QED
    BY <1>1, <1>4 DEF N, Q

\* The array of a tree: every node once, the root first, and the children of the k-th in a row behind base.
Order(tree, A, base) ==
    LET N == Cardinality(DOMAIN tree) IN
    /\ N \in Nat /\ 1 <= N /\ A[1] = <<>>
    /\ \A k \in 1..N : A[k] \in DOMAIN tree
    /\ \A k, l \in 1..N : A[k] = A[l] => k = l
    /\ \A k \in 1..N : /\ base[k] \in Nat
                       /\ \A i \in 1..Len(Kids(tree, A[k])) : base[k] + i \in 1..N /\ A[base[k] + i] = Kids(tree, A[k])[i]

LEMMA InOrder ==
    ASSUME NEW T, NEW tree, NEW n, Grown(T, tree, n), DOMAIN tree # {}
    PROVE  Order(tree, Queue(tree)[Cardinality(DOMAIN tree)],
                 [k \in 1..Cardinality(DOMAIN tree) |-> Len(Queue(tree)[k - 1])])
<1> DEFINE D == DOMAIN tree
           N == Cardinality(D)
           Q == Queue(tree)
           A == Q[N]
<1>1. N \in Nat /\ \A k \in 0..N : Ahead(D, Q, k)
    BY AheadAlways
<1>2. \A k \in 1..N : Q[k] = Q[k - 1] \o Kids(tree, Q[k - 1][k])
    BY <1>1, QueueIs
<1>3. IsFiniteSet(D)
    BY DEF Grown
<1> HIDE DEF D, N, Q, A
<1>4. Ahead(D, Q, N)
    BY <1>1
<1>5. /\ IsSeq(A) /\ N <= Len(A) /\ 1 <= Len(A) /\ A[1] = <<>>
      /\ \A i \in 1..Len(A) : A[i] \in D
      /\ \A i, j \in 1..Len(A) : A[i] = A[j] => i = j
      /\ \A j \in 0..N : Len(Q[j]) <= Len(A) /\ \A i \in 1..Len(Q[j]) : A[i] = Q[j][i]
    BY <1>4 DEF Ahead, A
<1>6. Len(A) \in Nat
    BY <1>5, SeqFacts
<1>7. Len(A) = N
  <2> DEFINE f == [i \in 1..Len(A) |-> A[i]]
  <2>1. f \in Injection(1..Len(A), D)
    BY <1>5 DEF Injection, IsInjective
  <2>2. Cardinality(1..Len(A)) = Len(A)
    BY <1>6, FS_Interval
  <2> HIDE DEF f
  <2>3. Cardinality(1..Len(A)) <= Cardinality(D)
    BY <1>3, <2>1, FS_Injection
  <2>4. Len(A) <= N
    BY <2>2, <2>3 DEF N
  <2> QED
    BY <1>1, <1>5, <1>6, <2>4
<1>8. ASSUME NEW k \in 1..N
      PROVE  /\ Len(Q[k - 1]) \in Nat
             /\ \A i \in 1..Len(Kids(tree, A[k])) : Len(Q[k - 1]) + i \in 1..N /\ A[Len(Q[k - 1]) + i] = Kids(tree, A[k])[i]
  <2> DEFINE old == Q[k - 1]
             kids == Kids(tree, A[k])
  <2>1. k - 1 \in 0..N /\ k \in 0..N
    BY <1>1
  <2>2. Ahead(D, Q, k - 1)
    BY <1>1, <2>1
  <2>3. IsSeq(old) /\ \A i \in 1..Len(old) : A[i] = old[i]
    BY <1>5, <2>1, <2>2 DEF Ahead
  <2>4. k <= Len(old)
    <3>1. k - 1 \in Nat /\ k - 1 < Cardinality(DOMAIN tree)
      BY <1>1 DEF N, D
    <3>2. k - 1 < Len(Q[k - 1])
      BY <2>2, <3>1, Progress DEF D
    <3>3. Len(old) \in Nat
      BY <2>3, SeqFacts
    <3> QED
      BY <2>1, <3>2, <3>3
  <2>5. Len(old) \in Nat /\ k \in 1..Len(old)
    BY <2>3, <2>4, SeqFacts
  <2>6. old[k] = A[k]
    BY <2>3, <2>5
  <2>7. Q[k] = old \o kids
    BY <1>2, <2>6
  <2>8. IsSeq(kids)
    <3>1. A[k] \in D
      BY <1>5, <1>7
    <3>2. Plain(A[k])
      BY <3>1, GrownTree DEF D
    <3>3. Branches(D, A[k], tree[A[k]]) /\ IsSeq(A[k])
      BY <3>1, <3>2 DEF Grown, Node, D, Plain
    <3>4. Placed(kids, A[k], tree[A[k]])
      BY <3>3, KidsFacts
    <3> HIDE DEF kids
    <3> QED
      BY <3>4 DEF Placed
  <2>9. /\ Len(Q[k]) = Len(old) + Len(kids) /\ Len(kids) \in Nat
        /\ \A i \in 1..Len(kids) : Q[k][Len(old) + i] = kids[i]
    <3> HIDE DEF old, kids
    <3>1. Len(old \o kids) = Len(old) + Len(kids) /\ \A i \in 1..Len(kids) : (old \o kids)[Len(old) + i] = kids[i]
      BY <2>3, <2>8, ConcatSeq
    <3>2. Len(kids) \in Nat
      BY <2>8, SeqFacts
    <3> QED
      BY <2>7, <3>1, <3>2
  <2>10. Len(Q[k]) <= N /\ \A i \in 1..Len(Q[k]) : A[i] = Q[k][i]
    BY <1>5, <1>7, <2>1
  <2> HIDE DEF old, kids
  <2>11. ASSUME NEW i \in 1..Len(kids) PROVE Len(old) + i \in 1..N /\ A[Len(old) + i] = kids[i]
    <3>1. Len(old) + i \in 1..Len(Q[k]) /\ Len(old) + i \in 1..N
      BY <1>1, <2>5, <2>9, <2>10
    <3> QED
      BY <2>9, <2>10, <3>1
  <2> QED
    BY <2>5, <2>11 DEF old, kids
<1>9. \A k \in 1..N : [l \in 1..N |-> Len(Q[l - 1])][k] = Len(Q[k - 1])
    OBVIOUS
<1> DEFINE base == [k \in 1..N |-> Len(Q[k - 1])]
<1> HIDE DEF base
<1>10. N \in Nat /\ 1 <= N /\ A[1] = <<>> /\ (\A k \in 1..N : A[k] \in D) /\ \A k, l \in 1..N : A[k] = A[l] => k = l
    BY <1>1, <1>5, <1>7
<1>11. \A k \in 1..N : /\ base[k] \in Nat
                       /\ \A i \in 1..Len(Kids(tree, A[k])) : base[k] + i \in 1..N /\ A[base[k] + i] = Kids(tree, A[k])[i]
    BY <1>8, <1>9 DEF base
<1>12. Order(tree, A, base)
    BY <1>10, <1>11 DEF Order, N, D
<1> QED
    BY <1>12 DEF A, N, Q, D, base

-----------------------------------------------------------------------------
(* From the array to the routes.                                              *)

LEMMA PlainAppend ==
    ASSUME NEW q, Plain(q), NEW s, s # Slash
    PROVE  Plain(Append(q, s))
<1>1. IsSeq(q) /\ Len(q) \in Nat
    BY SeqFacts DEF Plain
<1>2. /\ IsSeq(Append(q, s)) /\ Len(Append(q, s)) = Len(q) + 1
      /\ \A i \in 1..Len(q) : Append(q, s)[i] = q[i]
      /\ Append(q, s)[Len(q) + 1] = s
    BY <1>1, AppendSeq
<1>3. \A i \in 1..Len(q) + 1 : i \in 1..Len(q) \/ i = Len(q) + 1
    BY <1>1
<1> QED
    BY <1>2, <1>3 DEF Plain

LEMMA LeadsIs ==
    ASSUME NEW T, NEW tree, NEW n, Grown(T, tree, n), NEW q, Plain(q)
    PROVE  Leads(T, q) <=> q \in DOMAIN tree
<1>1. DOMAIN tree = UNION {Way(p) : p \in Routed(T)} /\ \A p \in Routed(T) : WellFormed(p)
    BY DEF Grown
<1>2. \A p \in Routed(T) : q \in Way(p) <=> IsPrefix(q, p)
  <2>1. \A p \in Routed(T) : p \in Patterns
    BY DEF Routed
  <2> QED
    BY <1>1, <2>1, WayFacts
<1> QED
    BY <1>1, <1>2 DEF Leads, Routed

LEMMA NamedIs ==
    ASSUME NEW T, NEW q, Plain(q), NEW kind \in Kinds, NEW name
    PROVE  name \in Named(T, q, kind) <=> Leads(T, Append(q, Seg(kind, name)))
<1> DEFINE t == Append(q, Seg(kind, name))
<1>1. IsSeq(q) /\ Len(q) \in Nat
    BY SeqFacts DEF Plain
<1>2. IsSeq(t) /\ Len(t) = Len(q) + 1 /\ (\A i \in 1..Len(q) : t[i] = q[i]) /\ t[Len(q) + 1] = Seg(kind, name)
    BY <1>1, AppendSeq
<1> HIDE DEF t
<1>3. ASSUME NEW p \in Patterns
      PROVE  IsPrefix(t, p) <=> /\ Len(p) > Len(q) /\ IsPrefix(q, p)
                                /\ p[Len(q) + 1].kind = kind /\ p[Len(q) + 1].name = name
  <2>1. IsSeq(p) /\ Len(p) \in Nat
    BY PatternFacts, SeqFacts
  <2>2. IsPrefix(t, p) <=> Len(t) <= Len(p) /\ \A i \in 1..Len(t) : t[i] = p[i]
    BY <1>2, <2>1, PrefixIs
  <2>3. IsPrefix(q, p) <=> Len(q) <= Len(p) /\ \A i \in 1..Len(q) : q[i] = p[i]
    BY <1>1, <2>1, PrefixIs
  <2>4. Len(t) <= Len(p) <=> Len(p) > Len(q)
    BY <1>1, <1>2, <2>1
  <2>5. \A i : i \in 1..Len(t) <=> i \in 1..Len(q) \/ i = Len(q) + 1
    BY <1>1, <1>2
  <2>6. (\A i \in 1..Len(t) : t[i] = p[i]) <=> (\A i \in 1..Len(q) : q[i] = p[i]) /\ p[Len(q) + 1] = Seg(kind, name)
    BY <1>2, <2>5
  <2>7. ASSUME Len(p) > Len(q)
        PROVE  p[Len(q) + 1] = Seg(kind, name) <=> p[Len(q) + 1].kind = kind /\ p[Len(q) + 1].name = name
    <3>1. Len(q) + 1 \in 1..Len(p)
      BY <1>1, <2>1, <2>7
    <3>2. p[Len(q) + 1] = Slash \/ p[Len(q) + 1] = Seg(p[Len(q) + 1].kind, p[Len(q) + 1].name)
      BY <3>1, PatternFacts
    <3>3. Slash.kind = "slash" /\ kind # "slash"
      BY DEF Slash, Seg, Kinds
    <3>4. Seg(kind, name).kind = kind /\ Seg(kind, name).name = name
      BY DEF Seg
    <3> QED
      BY <3>2, <3>3, <3>4
  <2> QED
    BY <1>1, <2>1, <2>2, <2>3, <2>4, <2>6, <2>7
<1> QED
    BY <1>3 DEF Named, Leads, t

\* What the routes say at a node is what the node says.
LEMMA NodeSays ==
    ASSUME NEW T, NEW tree, NEW n, Grown(T, tree, n), NEW q \in DOMAIN tree
    PROVE  /\ Plain(q) /\ Branches(DOMAIN tree, q, tree[q]) /\ Len(tree[q].static) <= n
           /\ \A name : Leads(T, Append(q, Seg("static", name))) <=> Contains(tree[q].static, name)
           /\ Named(T, q, "param") = tree[q].param /\ Named(T, q, "wild") = tree[q].wild
           /\ tree[q].handler = Of(T, q) /\ tree[q].ts = Of(T, Append(q, Slash))
<1>1. Plain(q)
    BY GrownTree
<1>2. Node(tree, q) = tree[q]
    BY DEF Node
<1>3. /\ Branches(DOMAIN tree, q, tree[q]) /\ Len(tree[q].static) <= n
      /\ tree[q].handler = Of(T, q) /\ tree[q].ts = Of(T, Append(q, Slash))
    BY <1>1, <1>2 DEF Grown
<1>4. \A kind, name : kind \in Kinds => (Leads(T, Append(q, Seg(kind, name))) <=> Append(q, Seg(kind, name)) \in DOMAIN tree)
    BY <1>1, SlashIs, PlainAppend, LeadsIs
<1>5. \A name : Leads(T, Append(q, Seg("static", name))) <=> Contains(tree[q].static, name)
    BY <1>3, <1>4 DEF Branches, Kinds
<1>6. \A name : name \in Named(T, q, "param") <=> name \in tree[q].param
    BY <1>1, <1>3, <1>4, NamedIs DEF Branches, Kinds
<1>7. \A name : name \in Named(T, q, "wild") <=> name \in tree[q].wild
    BY <1>1, <1>3, <1>4, NamedIs DEF Branches, Kinds
<1> QED
    BY <1>1, <1>3, <1>5, <1>6, <1>7

\* The array says of every node what the tree does.
Stored(tree, A, base, nodes) ==
    \A k \in 1..Cardinality(DOMAIN tree) :
        /\ nodes[k].segment = IF A[k] = <<>> THEN "" ELSE Last(A[k]).name
        /\ nodes[k].handler = tree[A[k]].handler /\ nodes[k].ts = tree[A[k]].ts
        /\ nodes[k].childBase = base[k] /\ nodes[k].staticCount = Len(tree[A[k]].static)
        /\ nodes[k].hasParam = Cardinality(tree[A[k]].param) /\ nodes[k].hasWild = Cardinality(tree[A[k]].wild)

\* Where the search turns to from the k-th node.
Turns(tree, A, nodes, k) ==
    LET N == Cardinality(DOMAIN tree)
        d == tree[A[k]]
        m == nodes[k]
        pi == m.childBase + m.staticCount + 1
        wi == pi + m.hasParam
        x == CHOOSE y \in d.param : TRUE
        z == CHOOSE y \in d.wild : TRUE
    IN  /\ \A seg : LET here == Static(nodes, m, seg) IN
              /\ here # {} <=> Contains(d.static, seg)
              /\ here # {} => LET c == CHOOSE c \in here : \A e \in here : c <= e IN
                                  c \in 1..N /\ A[c] = Append(A[k], Seg("static", seg))
        /\ m.hasParam = 1 <=> d.param # {}
        /\ d.param # {} => pi \in 1..N /\ A[pi] = Append(A[k], Seg("param", x)) /\ nodes[pi].segment = x
        /\ m.hasWild = 1 <=> d.wild # {}
        /\ d.wild # {} => wi \in 1..N /\ A[wi] = Append(A[k], Seg("wild", z)) /\ nodes[wi].segment = z

LEMMA Turning ==
    ASSUME NEW T, NEW tree, NEW n, Grown(T, tree, n), NEW A, NEW base, Order(tree, A, base),
           NEW nodes, Stored(tree, A, base, nodes), NEW k \in 1..Cardinality(DOMAIN tree)
    PROVE  Turns(tree, A, nodes, k)
<1> DEFINE N == Cardinality(DOMAIN tree)
           q == A[k]
           d == tree[q]
           m == nodes[k]
           kids == Kids(tree, q)
           a == Len(d.static)
           b == Cardinality(d.param)
           c == Cardinality(d.wild)
           x == CHOOSE y \in d.param : TRUE
           z == CHOOSE y \in d.wild : TRUE
<1>1. /\ q \in DOMAIN tree /\ base[k] \in Nat
      /\ \A i \in 1..Len(kids) : base[k] + i \in 1..N /\ A[base[k] + i] = kids[i]
    BY DEF Order
<1>2. IsSeq(q) /\ Branches(DOMAIN tree, q, d)
    BY <1>1, NodeSays DEF Plain
<1>3. IsInjective(d.static) /\ DOMAIN d.static = 1..a
    BY <1>2, SeqFacts DEF Branches
<1>4. /\ IsSeq(kids) /\ Len(kids) = a + b + c
      /\ a \in Nat /\ b \in {0, 1} /\ c \in {0, 1} /\ (b = 0 <=> d.param = {}) /\ (c = 0 <=> d.wild = {})
      /\ \A i \in 1..a : kids[i] = Append(q, Seg("static", d.static[i]))
      /\ \A y \in d.param : kids[a + 1] = Append(q, Seg("param", y)) /\ b = 1 /\ y = x
      /\ \A y \in d.wild : kids[a + b + 1] = Append(q, Seg("wild", y)) /\ c = 1 /\ y = z
  <2>1. Placed(kids, q, d)
    BY <1>2, KidsFacts
  <2> HIDE DEF kids, q, d
  <2> QED
    BY <2>1 DEF Placed
<1>5. m.childBase = base[k] /\ m.staticCount = a /\ m.hasParam = b /\ m.hasWild = c
    BY DEF Stored
<1>6. \A i, kind, name : i \in 1..N /\ A[i] = Append(q, Seg(kind, name)) => nodes[i].segment = name
  <2>1. \A s : Append(q, s) # <<>> /\ Last(Append(q, s)) = s
    BY <1>2, AppendSeq, FrontLast
  <2>2. \A kind, name : Seg(kind, name).name = name
    BY DEF Seg
  <2>3. \A i \in 1..N : nodes[i].segment = IF A[i] = <<>> THEN "" ELSE Last(A[i]).name
    BY DEF Stored
  <2> SUFFICES ASSUME NEW i, NEW kind, NEW name, i \in 1..N, A[i] = Append(q, Seg(kind, name))
               PROVE  nodes[i].segment = name
    OBVIOUS
  <2> HIDE DEF q, N
  <2>4. A[i] # <<>> /\ Last(A[i]) = Seg(kind, name)
    BY <2>1
  <2> QED
    BY <2>2, <2>3, <2>4
<1> HIDE DEF N, q, d, m, kids, a, b, c, x, z
<1>7. ASSUME NEW i \in 1..a
      PROVE  /\ base[k] + i \in 1..N /\ A[base[k] + i] = Append(q, Seg("static", d.static[i]))
             /\ nodes[base[k] + i].segment = d.static[i]
  <2>1. i \in 1..Len(kids)
    BY <1>4
  <2>2. base[k] + i \in 1..N /\ A[base[k] + i] = Append(q, Seg("static", d.static[i]))
    BY <1>1, <1>4, <2>1
  <2> QED
    BY <1>6, <2>2
<1>8. ASSUME NEW seg
      PROVE  LET here == Static(nodes, m, seg) IN
             /\ here # {} <=> Contains(d.static, seg)
             /\ here # {} => LET o == CHOOSE o \in here : \A e \in here : o <= e IN
                                 o \in 1..N /\ A[o] = Append(q, Seg("static", seg))
  <2> DEFINE here == Static(nodes, m, seg)
             o == CHOOSE o \in here : \A e \in here : o <= e
  <2>1. here = {j \in base[k] + 1..base[k] + a : nodes[j].segment = seg}
    BY <1>5 DEF Static
  <2> HIDE DEF here
  <2>2. ASSUME NEW j \in here PROVE \E i \in 1..a : j = base[k] + i /\ d.static[i] = seg
    <3>1. j - base[k] \in 1..a /\ j = base[k] + (j - base[k]) /\ nodes[j].segment = seg
      BY <1>1, <1>4, <2>1
    <3> QED
      BY <1>7, <3>1
  <2>3. ASSUME NEW i \in 1..a, d.static[i] = seg PROVE base[k] + i \in here
    <3>1. base[k] + i \in base[k] + 1..base[k] + a
      BY <1>1, <1>4
    <3> QED
      BY <1>7, <2>1, <2>3, <3>1
  <2>4. here # {} <=> Contains(d.static, seg)
    BY <2>2, <2>3 DEF Contains, a
  <2>5. ASSUME here # {} PROVE o \in here
    <3>1. PICK j : j \in here
      BY <2>5
    <3>2. \A e \in here : e = j
      BY <1>3, <2>2, <3>1 DEF IsInjective
    <3>3. j \in Int /\ \A e \in here : j <= e
      BY <1>1, <1>4, <2>2, <3>1, <3>2
    <3> QED
      BY <3>1, <3>3
  <2>6. ASSUME here # {} PROVE o \in 1..N /\ A[o] = Append(q, Seg("static", seg))
    <3> HIDE DEF o
    <3> QED
      BY <1>7, <2>2, <2>5, <2>6
  <2> QED
    BY <2>4, <2>6 DEF here
<1>9. m.hasParam = 1 <=> d.param # {}
    BY <1>4, <1>5
<1>10. m.hasWild = 1 <=> d.wild # {}
    BY <1>4, <1>5
<1> DEFINE pi == m.childBase + m.staticCount + 1
           wi == pi + m.hasParam
<1>11. a \in Int /\ b \in Int /\ base[k] \in Int
    BY <1>1, <1>4
<1>12. pi = base[k] + (a + 1) /\ wi = base[k] + (a + b + 1)
  <2>1. pi = base[k] + a + 1 /\ wi = base[k] + a + 1 + b
    BY <1>5
  <2> HIDE DEF pi, wi
  <2> QED
    BY <2>1, <1>11
<1>13. ASSUME d.param # {} PROVE pi \in 1..N /\ A[pi] = Append(q, Seg("param", x)) /\ nodes[pi].segment = x
  <2>1. PICK y : y \in d.param
    BY <1>13
  <2>2. kids[a + 1] = Append(q, Seg("param", x)) /\ b = 1
    BY <1>4, <2>1
  <2>3. a + 1 \in 1..Len(kids)
    BY <1>4, <2>2
  <2>4. pi \in 1..N /\ A[pi] = Append(q, Seg("param", x))
    BY <1>1, <1>12, <2>2, <2>3
  <2> HIDE DEF pi
  <2> QED
    BY <1>6, <2>4
<1>14. ASSUME d.wild # {} PROVE wi \in 1..N /\ A[wi] = Append(q, Seg("wild", z)) /\ nodes[wi].segment = z
  <2>1. PICK y : y \in d.wild
    BY <1>14
  <2>2. kids[a + b + 1] = Append(q, Seg("wild", z)) /\ c = 1
    BY <1>4, <2>1
  <2>3. a + b + 1 \in 1..Len(kids)
    BY <1>4, <2>2
  <2>4. wi \in 1..N /\ A[wi] = Append(q, Seg("wild", z))
    BY <1>1, <1>12, <2>2, <2>3
  <2> HIDE DEF wi
  <2> QED
    BY <1>6, <2>4
<1> QED
    BY <1>8, <1>9, <1>10, <1>13, <1>14 DEF Turns, N, q, d, m, x, z

LEMMA StoredIs ==
    ASSUME NEW T, NEW tree, NEW n \in Nat, Grown(T, tree, n), n < Width, DOMAIN tree # {}
    PROVE  LET A == Queue(tree)[Cardinality(DOMAIN tree)]
               base == [k \in 1..Cardinality(DOMAIN tree) |-> Len(Queue(tree)[k - 1])] IN
           Order(tree, A, base) /\ Stored(tree, A, base, Freeze(tree)) /\ Freeze(tree) # <<>>
<1> DEFINE N == Cardinality(DOMAIN tree)
           A == Queue(tree)[N]
           base == [k \in 1..N |-> Len(Queue(tree)[k - 1])]
           nodes == Freeze(tree)
<1>1. Order(tree, A, base)
    BY InOrder
<1>2. N \in Nat /\ 1 <= N /\ \A k \in 1..N : A[k] \in DOMAIN tree
    BY <1>1 DEF Order
<1>3. nodes = [k \in 1..N |-> [segment |-> IF A[k] = <<>> THEN "" ELSE Last(A[k]).name,
                               handler |-> tree[A[k]].handler, ts |-> tree[A[k]].ts,
                               childBase |-> base[k], staticCount |-> Len(tree[A[k]].static) % Width,
                               hasParam |-> Cardinality(tree[A[k]].param),
                               hasWild |-> Cardinality(tree[A[k]].wild)]]
    BY DEF Freeze
<1>4. \A q \in DOMAIN tree : Len(tree[q].static) % Width = Len(tree[q].static)
  <2> SUFFICES ASSUME NEW q \in DOMAIN tree PROVE Len(tree[q].static) % Width = Len(tree[q].static)
    OBVIOUS
  <2>1. IsSeq(tree[q].static) /\ Len(tree[q].static) <= n
    BY NodeSays DEF Branches
  <2>2. Len(tree[q].static) \in Nat /\ Width \in Nat \ {0} /\ Len(tree[q].static) < Width
    BY <2>1, SeqFacts, RouterAssumption
  <2>3. \A x \in Nat, w \in Nat \ {0} : x < w => x % w = x
    OBVIOUS
  <2> QED
    BY <2>2, <2>3
<1>5. nodes # <<>>
  <2>1. DOMAIN nodes = 1..N
    BY <1>3
  <2> HIDE DEF nodes, N
  <2> QED
    BY <1>2, <2>1, EmptyIsSeq
<1> HIDE DEF N, A, base, nodes
<1>6. ASSUME NEW k \in 1..N
      PROVE  /\ nodes[k].segment = IF A[k] = <<>> THEN "" ELSE Last(A[k]).name
             /\ nodes[k].handler = tree[A[k]].handler /\ nodes[k].ts = tree[A[k]].ts
             /\ nodes[k].childBase = base[k] /\ nodes[k].staticCount = Len(tree[A[k]].static)
             /\ nodes[k].hasParam = Cardinality(tree[A[k]].param) /\ nodes[k].hasWild = Cardinality(tree[A[k]].wild)
    BY <1>2, <1>3, <1>4
<1>7. Stored(tree, A, base, nodes)
    BY <1>6 DEF Stored, N
<1> QED
    BY <1>1, <1>5, <1>7 DEF N, A, base, nodes

\* The walk through the array and the way through the routes are at the same place.
Together(tree, A, w, t) ==
    \E cur, params, at :
        /\ w = [cur |-> cur, params |-> params, at |-> at] /\ t = [q |-> A[cur], params |-> params, at |-> at]
        /\ cur \in 1..Cardinality(DOMAIN tree)

\* The steps of the walk and of the way.
At(w, e) == [w EXCEPT !.cur = e]
AtBound(w, e, f) == [w EXCEPT !.cur = e, !.params = Append(@, f)]
By(t, e) == [t EXCEPT !.q = Append(@, e)]
ByBound(t, e, f) == [t EXCEPT !.q = Append(@, e), !.params = Append(@, f)]
Lost(w) == [w EXCEPT !.at = "nowhere"]

Walker(w) == w = [cur |-> w.cur, params |-> w.params, at |-> w.at]

LEMMA CurUpdated ==
    ASSUME NEW w, Walker(w)
    PROVE  \A e, f : /\ At(w, e) = [cur |-> e, params |-> w.params, at |-> w.at]
                    /\ AtBound(w, e, f) = [cur |-> e, params |-> Append(w.params, f), at |-> w.at]
                    /\ Lost(w) = [cur |-> w.cur, params |-> w.params, at |-> "nowhere"]
<1> SUFFICES ASSUME NEW e, NEW f PROVE /\ At(w, e) = [cur |-> e, params |-> w.params, at |-> w.at]
                                       /\ AtBound(w, e, f) = [cur |-> e, params |-> Append(w.params, f), at |-> w.at]
                                       /\ Lost(w) = [cur |-> w.cur, params |-> w.params, at |-> "nowhere"]
    OBVIOUS
<1> DEFINE u == At(w, e)
           v == AtBound(w, e, f)
           x == Lost(w)
<1>1. u = [k \in {"cur", "params", "at"} |-> u[k]] /\ u.cur = e /\ u.params = w.params /\ u.at = w.at
    BY DEF At, AtBound, Lost, Walker
<1>2. v = [k \in {"cur", "params", "at"} |-> v[k]] /\ v.cur = e /\ v.params = Append(w.params, f) /\ v.at = w.at
    BY DEF At, AtBound, Lost, Walker
<1>3. x = [k \in {"cur", "params", "at"} |-> x[k]] /\ x.cur = w.cur /\ x.params = w.params /\ x.at = "nowhere"
    BY DEF At, AtBound, Lost, Walker
<1> HIDE DEF u, v, x
<1>4. u = [cur |-> e, params |-> w.params, at |-> w.at]
    BY <1>1
<1>5. v = [cur |-> e, params |-> Append(w.params, f), at |-> w.at]
    BY <1>2
<1>6. x = [cur |-> w.cur, params |-> w.params, at |-> "nowhere"]
    BY <1>3
<1> QED
    BY <1>4, <1>5, <1>6 DEF u, v, x

Wayfarer(t) == t = [q |-> t.q, params |-> t.params, at |-> t.at]

LEMMA WayUpdated ==
    ASSUME NEW t, Wayfarer(t)
    PROVE  \A e, f : /\ By(t, e) = [q |-> Append(t.q, e), params |-> t.params, at |-> t.at]
                    /\ ByBound(t, e, f) = [q |-> Append(t.q, e), params |-> Append(t.params, f), at |-> t.at]
                    /\ Lost(t) = [q |-> t.q, params |-> t.params, at |-> "nowhere"]
<1> SUFFICES ASSUME NEW e, NEW f PROVE /\ By(t, e) = [q |-> Append(t.q, e), params |-> t.params, at |-> t.at]
                                       /\ ByBound(t, e, f) = [q |-> Append(t.q, e), params |-> Append(t.params, f), at |-> t.at]
                                       /\ Lost(t) = [q |-> t.q, params |-> t.params, at |-> "nowhere"]
    OBVIOUS
<1> DEFINE u == By(t, e)
           v == ByBound(t, e, f)
           x == Lost(t)
<1>1. u = [k \in {"q", "params", "at"} |-> u[k]] /\ u.q = Append(t.q, e) /\ u.params = t.params /\ u.at = t.at
    BY DEF By, ByBound, Lost, Wayfarer
<1>2. v = [k \in {"q", "params", "at"} |-> v[k]] /\ v.q = Append(t.q, e) /\ v.params = Append(t.params, f) /\ v.at = t.at
    BY DEF By, ByBound, Lost, Wayfarer
<1>3. x = [k \in {"q", "params", "at"} |-> x[k]] /\ x.q = t.q /\ x.params = t.params /\ x.at = "nowhere"
    BY DEF By, ByBound, Lost, Wayfarer
<1> HIDE DEF u, v, x
<1>4. u = [q |-> Append(t.q, e), params |-> t.params, at |-> t.at]
    BY <1>1
<1>5. v = [q |-> Append(t.q, e), params |-> Append(t.params, f), at |-> t.at]
    BY <1>2
<1>6. x = [q |-> t.q, params |-> t.params, at |-> "nowhere"]
    BY <1>3
<1> QED
    BY <1>4, <1>5, <1>6 DEF u, v, x

One(S) == CHOOSE y \in S : TRUE
First(S) == CHOOSE c \in S : \A e \in S : c <= e

LEMMA OnwardIs ==
    ASSUME NEW nodes, NEW path, NEW i, NEW w, w.at = "node"
    PROVE  LET m == nodes[w.cur]
               here == Static(nodes, m, path[i])
               pi == m.childBase + m.staticCount + 1
               wi == pi + m.hasParam IN
           Onward(nodes, path, i, w) =
               IF here # {} THEN At(w, First(here))
               ELSE IF m.hasParam = 1 THEN AtBound(w, pi, <<nodes[pi].segment, <<path[i]>>>>)
               ELSE IF m.hasWild = 1 THEN [cur |-> wi, at |-> "wildcard",
                                           params |-> Append(w.params, <<nodes[wi].segment, SubSeq(path, i, Len(path))>>)]
               ELSE Lost(w)
BY DEF Onward, First, At, AtBound, Lost

LEMMA FurtherIs ==
    ASSUME NEW T, NEW path, NEW i, NEW t, t.at = "node"
    PROVE  LET x == One(Named(T, t.q, "param"))
               z == One(Named(T, t.q, "wild")) IN
           Further(T, path, i, t) =
               IF Leads(T, Append(t.q, Seg("static", path[i]))) THEN By(t, Seg("static", path[i]))
               ELSE IF Named(T, t.q, "param") # {} THEN ByBound(t, Seg("param", x), <<x, <<path[i]>>>>)
               ELSE IF Named(T, t.q, "wild") # {} THEN [q |-> Append(t.q, Seg("wild", z)), at |-> "wildcard",
                                                        params |-> Append(t.params, <<z, SubSeq(path, i, Len(path))>>)]
               ELSE Lost(t)
BY DEF Further, One, By, ByBound, Lost

LEMMA StepTogether ==
    ASSUME NEW T, NEW tree, NEW n, Grown(T, tree, n), NEW A, NEW base, Order(tree, A, base),
           NEW nodes, Stored(tree, A, base, nodes), NEW path, NEW i, NEW w, NEW t, Together(tree, A, w, t)
    PROVE  Together(tree, A, Onward(nodes, path, i, w), Further(T, path, i, t))
<1> DEFINE k == w.cur
           params == w.params
           at == w.at
<1>1. /\ w = [cur |-> k, params |-> params, at |-> at] /\ t = [q |-> A[k], params |-> params, at |-> at]
      /\ k \in 1..Cardinality(DOMAIN tree)
    BY DEF Together
<1> HIDE DEF k, params, at
<1> DEFINE N == Cardinality(DOMAIN tree)
           d == tree[A[k]]
           m == nodes[k]
           here == Static(nodes, m, path[i])
           c == First(here)
           pi == m.childBase + m.staticCount + 1
           wi == pi + m.hasParam
           x == One(d.param)
           z == One(d.wild)
<1>2. A[k] \in DOMAIN tree
    BY <1>1 DEF Order
<1>3. /\ Leads(T, Append(A[k], Seg("static", path[i]))) <=> Contains(d.static, path[i])
      /\ Named(T, A[k], "param") = d.param /\ Named(T, A[k], "wild") = d.wild
    BY <1>2, NodeSays
<1>4. Turns(tree, A, nodes, k)
    BY <1>1, Turning
<1>5. /\ here # {} <=> Contains(d.static, path[i])
      /\ here # {} => c \in 1..N /\ A[c] = Append(A[k], Seg("static", path[i]))
    BY <1>4 DEF Turns, First
<1>6. /\ m.hasParam = 1 <=> d.param # {}
      /\ d.param # {} => pi \in 1..N /\ A[pi] = Append(A[k], Seg("param", x)) /\ nodes[pi].segment = x
      /\ m.hasWild = 1 <=> d.wild # {}
      /\ d.wild # {} => wi \in 1..N /\ A[wi] = Append(A[k], Seg("wild", z)) /\ nodes[wi].segment = z
    BY <1>4 DEF Turns, One
<1>7. w.cur = k /\ w.params = params /\ w.at = at /\ t.q = A[k] /\ t.params = params /\ t.at = at
    BY <1>1 DEF k, params, at
<1>8. CASE at # "node"
    BY <1>7, <1>8 DEF Onward, Further
<1>9. CASE at = "node"
  <2> DEFINE v == Onward(nodes, path, i, w)
             u == Further(T, path, i, t)
  <2>1. v = IF here # {} THEN [cur |-> c, params |-> params, at |-> at]
            ELSE IF m.hasParam = 1 THEN [cur |-> pi, params |-> Append(params, <<nodes[pi].segment, <<path[i]>>>>), at |-> at]
            ELSE IF m.hasWild = 1 THEN [cur |-> wi, at |-> "wildcard",
                                        params |-> Append(params, <<nodes[wi].segment, SubSeq(path, i, Len(path))>>)]
            ELSE [cur |-> k, params |-> params, at |-> "nowhere"]
    <3> HIDE DEF here, c, pi, wi, m
    <3>1. \A e, f : /\ At(w, e) = [cur |-> e, params |-> params, at |-> at]
                    /\ AtBound(w, e, f) = [cur |-> e, params |-> Append(params, f), at |-> at]
                    /\ Lost(w) = [cur |-> k, params |-> params, at |-> "nowhere"]
      <4>1. Walker(w)
        BY <1>1 DEF Walker, k, params, at
      <4> QED
        BY <1>7, <4>1, CurUpdated
    <3>2. v = IF here # {} THEN At(w, c)
              ELSE IF m.hasParam = 1 THEN AtBound(w, pi, <<nodes[pi].segment, <<path[i]>>>>)
              ELSE IF m.hasWild = 1 THEN [cur |-> wi, at |-> "wildcard",
                                          params |-> Append(w.params, <<nodes[wi].segment, SubSeq(path, i, Len(path))>>)]
              ELSE Lost(w)
      BY <1>9, OnwardIs DEF k, at, here, c, pi, wi, m
    <3> QED
      BY <1>7, <3>1, <3>2
  <2>2. u = IF Contains(d.static, path[i]) THEN [q |-> Append(A[k], Seg("static", path[i])), params |-> params, at |-> at]
            ELSE IF d.param # {} THEN [q |-> Append(A[k], Seg("param", x)), params |-> Append(params, <<x, <<path[i]>>>>), at |-> at]
            ELSE IF d.wild # {} THEN [q |-> Append(A[k], Seg("wild", z)), at |-> "wildcard",
                                      params |-> Append(params, <<z, SubSeq(path, i, Len(path))>>)]
            ELSE [q |-> A[k], params |-> params, at |-> "nowhere"]
    <3> HIDE DEF x, z, d
    <3>1. \A e, f : /\ By(t, e) = [q |-> Append(A[k], e), params |-> params, at |-> at]
                    /\ ByBound(t, e, f) = [q |-> Append(A[k], e), params |-> Append(params, f), at |-> at]
                    /\ Lost(t) = [q |-> A[k], params |-> params, at |-> "nowhere"]
      <4>1. Wayfarer(t)
        BY <1>1, <1>7 DEF Wayfarer
      <4> QED
        BY <1>7, <4>1, WayUpdated
    <3>2. x = One(Named(T, t.q, "param")) /\ z = One(Named(T, t.q, "wild"))
      BY <1>3, <1>7 DEF x, z
    <3>3. u = IF Leads(T, Append(t.q, Seg("static", path[i]))) THEN By(t, Seg("static", path[i]))
              ELSE IF Named(T, t.q, "param") # {} THEN ByBound(t, Seg("param", x), <<x, <<path[i]>>>>)
              ELSE IF Named(T, t.q, "wild") # {} THEN [q |-> Append(t.q, Seg("wild", z)), at |-> "wildcard",
                                                       params |-> Append(t.params, <<z, SubSeq(path, i, Len(path))>>)]
              ELSE Lost(t)
      BY <1>7, <1>9, <3>2, FurtherIs
    <3> HIDE DEF u
    <3> QED
      BY <1>3, <1>7, <3>1, <3>3
  <2> SUFFICES Together(tree, A, v, u)
    OBVIOUS
  <2> HIDE DEF v, u, here, c, pi, wi, m, d, x, z
  <2>3. CASE here # {}
    BY <1>5, <2>1, <2>2, <2>3 DEF Together
  <2>4. CASE here = {} /\ d.param # {}
    BY <1>5, <1>6, <2>1, <2>2, <2>4 DEF Together
  <2>5. CASE here = {} /\ d.param = {} /\ d.wild # {}
    BY <1>5, <1>6, <2>1, <2>2, <2>5 DEF Together
  <2>6. CASE here = {} /\ d.param = {} /\ d.wild = {}
    BY <1>1, <1>5, <1>6, <2>1, <2>2, <2>6 DEF Together
  <2> QED
    BY <2>3, <2>4, <2>5, <2>6
<1> QED
    BY <1>8, <1>9

LEMMA StayTogether ==
    ASSUME NEW T, NEW tree, NEW n, Grown(T, tree, n), NEW A, NEW base, Order(tree, A, base),
           NEW nodes, Stored(tree, A, base, nodes), NEW path, Depth(path) \in Nat
    PROVE  Together(tree, A, Walk(nodes, path)[Depth(path)], Taken(T, path)[Depth(path)])
<1> DEFINE W == Walk(nodes, path)
           P == Taken(T, path)
           N == Depth(path)
           S == {i \in 0..N : ~Together(tree, A, W[i], P[i])}
<1>1. W[0] = [cur |-> 1, params |-> <<>>, at |-> "node"] /\ P[0] = [q |-> <<>>, params |-> <<>>, at |-> "node"]
    BY WalkIs, TakenIs
<1>2. \A i \in 1..N : W[i] = Onward(nodes, path, i, W[i - 1]) /\ P[i] = Further(T, path, i, P[i - 1])
    BY WalkIs, TakenIs
<1>3. A[1] = <<>> /\ 1 \in 1..Cardinality(DOMAIN tree)
    BY DEF Order
<1> HIDE DEF W, P
<1>4. Together(tree, A, W[0], P[0])
    BY <1>1, <1>3 DEF Together
<1>5. S = {}
  <2> SUFFICES ASSUME S # {} PROVE FALSE
    OBVIOUS
  <2>1. S \in SUBSET Nat
    OBVIOUS
  <2>2. PICK i \in S : \A j \in S : i <= j
    BY <2>1, Least
  <2>3. i \in 1..N /\ i - 1 \in 0..N /\ i - 1 \notin S
    BY <1>4, <2>2
  <2>4. Together(tree, A, W[i - 1], P[i - 1])
    BY <2>3
  <2>5. Together(tree, A, Onward(nodes, path, i, W[i - 1]), Further(T, path, i, P[i - 1]))
    BY <2>4, StepTogether
  <2> QED
    BY <1>2, <2>2, <2>3, <2>5
<1>6. N \in 0..N
    OBVIOUS
<1> QED
    BY <1>5, <1>6 DEF W, P

\* What the array of a tree finds is what its routes promise.
LEMMA FoundIsMatch ==
    ASSUME NEW T \in [Patterns -> Nat], NEW tree, NEW n \in Nat, Grown(T, tree, n), n < Width, NEW path \in Paths
    PROVE  Found(Freeze(tree), path) = Match(T, path)
<1> DEFINE nodes == Freeze(tree)
           N == Cardinality(DOMAIN tree)
           A == Queue(tree)[N]
           base == [k \in 1..N |-> Len(Queue(tree)[k - 1])]
<1>1. Depth(path) \in Nat
  <2>1. IsSeq(path) /\ path # <<>>
    BY PatternsAssumption DEF IsSeq
  <2>2. Len(path) \in Nat /\ Len(path) > 0
    BY <2>1, SeqFacts
  <2> QED
    BY <2>2 DEF Depth
<1>2. CASE DOMAIN tree = {}
  <2>1. nodes = <<>>
    <3>1. N = 0
      BY <1>2, FS_EmptySet
    <3>2. nodes = [k \in 1..N |-> nodes[k]]
      BY DEF Freeze
    <3> HIDE DEF nodes, N
    <3>3. IsSeq(nodes) /\ Len(nodes) = 0
      BY <3>1, <3>2, FunIsSeq
    <3> QED
      BY <3>3, SeqFacts
  <2>2. Found(nodes, path) = NoMatch
    BY <2>1 DEF Found
  <2>3. ASSUME NEW p \in Patterns PROVE T[p] = 0
    <3>1. p \in Routed(T) => Way(p) = {} /\ WellFormed(p)
      BY <1>2 DEF Grown
    <3>2. WellFormed(p) => <<>> \in Way(p)
      BY WayFacts
    <3> QED
      BY <3>1, <3>2 DEF Routed
  <2> QED
    BY <2>2, <2>3 DEF Match
<1>3. CASE DOMAIN tree # {}
  <2>1. Order(tree, A, base) /\ Stored(tree, A, base, nodes) /\ nodes # <<>>
    BY <1>3, StoredIs
  <2> DEFINE w == Walk(nodes, path)[Depth(path)]
             t == Taken(T, path)[Depth(path)]
  <2> HIDE DEF nodes, A, base, N
  <2>2. Together(tree, A, w, t)
    BY <1>1, <2>1, StayTogether
  <2>3. PICK k, params, at :
            /\ w = [cur |-> k, params |-> params, at |-> at] /\ t = [q |-> A[k], params |-> params, at |-> at]
            /\ k \in 1..Cardinality(DOMAIN tree)
    BY <2>2 DEF Together
  <2>4. A[k] \in DOMAIN tree
    BY <2>1, <2>3 DEF Order
  <2>5. tree[A[k]].handler = Of(T, A[k]) /\ tree[A[k]].ts = Of(T, Append(A[k], Slash))
    BY <2>4, NodeSays
  <2>6. nodes[k].handler = Of(T, A[k]) /\ nodes[k].ts = Of(T, Append(A[k], Slash))
    BY <2>1, <2>3, <2>5 DEF Stored
  <2> DEFINE slash == at = "node" /\ Trailing(path) /\ Depth(path) > 0
             last == IF slash THEN Append(A[k], Slash) ELSE A[k]
             h == IF at = "nowhere" THEN 0 ELSE Of(T, last)
  <2> HIDE DEF w, t
  <2>7. Found(nodes, path) = IF h = 0 THEN NoMatch ELSE [handler |-> h, params |-> params]
    <3>1. Found(nodes, path) = Search(nodes, path)
      BY <2>1 DEF Found
    <3>2. w.at = at /\ w.cur = k /\ w.params = params
      BY <2>3
    <3>3. w = Walk(nodes, path)[Depth(path)]
      BY DEF w
    <3>4. h = IF at = "nowhere" THEN 0 ELSE IF slash THEN nodes[k].ts ELSE nodes[k].handler
      BY <2>6
    <3> HIDE DEF h
    <3> QED
      BY <3>1, <3>2, <3>3, <3>4 DEF Search
  <2>8. Match(T, path) = IF at = "nowhere" \/ last \notin Patterns \/ T[last] = 0 THEN NoMatch
                         ELSE [handler |-> T[last], params |-> params]
    <3>1. t.at = at /\ t.q = A[k] /\ t.params = params
      BY <2>3
    <3>2. t = Taken(T, path)[Depth(path)]
      BY DEF t
    <3> QED
      BY <3>1, <3>2 DEF Match
  <2> HIDE DEF last
  <2> QED
    BY <2>7, <2>8 DEF Of, nodes
<1> QED
    BY <1>2, <1>3

LEMMA GrownMore ==
    ASSUME NEW T, NEW tree, NEW n \in Nat, Grown(T, tree, n)
    PROVE  Grown(T, tree, n + 1)
<1>1. ASSUME NEW q, Plain(q) PROVE Len(Node(tree, q).static) <= n + 1
  <2>1. IsSeq(Node(tree, q).static) /\ Len(Node(tree, q).static) <= n
    BY <1>1 DEF Grown, Branches
  <2>2. Len(Node(tree, q).static) \in Nat
    BY <2>1, SeqFacts
  <2> QED
    BY <2>1, <2>2
<1> QED
    BY <1>1 DEF Grown

\* What insert does not panic on the table accepts.
LEMMA NoClash ==
    ASSUME NEW m \in Method, NEW p \in Patterns, NEW n, Grown(routes[m], mutable[m], n),
           WellFormed(p), ~Clashes(mutable[m], p)
    PROVE  Accepts(m, p)
<1> SUFFICES ASSUME NEW q \in Patterns, routes[m][q] # 0, Conflict(p, q)
             PROVE  FALSE
    BY DEF Accepts
<1> DEFINE tree == mutable[m]
<1>1. PICK i \in DOMAIN p \cap DOMAIN q :
          /\ \A j \in 1..i - 1 : p[j] = q[j]
          /\ p[i].kind = q[i].kind /\ p[i].kind \in {"param", "wild"}
          /\ p[i].name # q[i].name
    BY DEF Conflict
<1> DEFINE r == SubSeq(p, 1, i - 1)
<1>2. /\ IsSeq(p) /\ IsSeq(q) /\ DOMAIN p = 1..Len(p) /\ DOMAIN q = 1..Len(q) /\ Len(p) \in Nat /\ Len(q) \in Nat
      /\ i - 1 \in 0..Len(p) /\ i - 1 \in 0..Len(q)
    BY PatternFacts, SeqFacts
<1>3. r = SubSeq(q, 1, i - 1) /\ IsSeq(r) /\ Len(r) = i - 1
  <2>1. IsSeq(r) /\ Len(r) = i - 1 /\ \A j \in 1..i - 1 : r[j] = p[j]
    BY <1>2, PrefixSeq
  <2>2. /\ IsSeq(SubSeq(q, 1, i - 1)) /\ Len(SubSeq(q, 1, i - 1)) = i - 1
        /\ \A j \in 1..i - 1 : SubSeq(q, 1, i - 1)[j] = q[j]
    BY <1>2, PrefixSeq
  <2> HIDE DEF r
  <2> QED
    BY <1>1, <2>1, <2>2, SameSeq
<1>4. WellFormed(q) /\ Way(q) \subseteq DOMAIN tree
    BY DEF Grown, Routed
<1> HIDE DEF r
\* the node where they part, and its child on the way of q
<1>5. r \in Way(q) /\ r # Key(q) /\ Plain(r)
  <2>1. Slash.kind = "slash" /\ q[i].kind \in {"param", "wild"}
    BY <1>1 DEF Slash, Seg
  <2>2. q[i] # Slash
    BY <2>1
  <2>3. i <= Len(Key(q)) /\ Plain(Key(q)) /\ Len(Key(q)) <= Len(q) /\ \A j \in 1..Len(Key(q)) : Key(q)[j] = q[j]
    BY <1>2, <1>4, <2>2, KeyFacts
  <2>4. IsSeq(Key(q)) /\ Len(Key(q)) \in Nat
    BY <2>3, SeqFacts DEF Plain
  <2>5. i - 1 \in 0..Len(Key(q)) /\ i - 1 # Len(Key(q)) /\ \A j \in 1..i - 1 : j \in 1..Len(Key(q)) /\ j \in 1..Len(r)
    BY <1>2, <1>3, <2>3, <2>4
  <2>6. \A j \in 1..Len(r) : r[j] = q[j] /\ r[j] = Key(q)[j]
    <3>1. \A j \in 1..i - 1 : r[j] = q[j]
      BY <1>2, <1>3, PrefixSeq
    <3> QED
      BY <1>3, <2>3, <2>5, <3>1
  <2>7. Plain(r)
    <3>1. \A j \in 1..Len(r) : r[j] # Slash
      BY <1>3, <2>3, <2>5, <2>6 DEF Plain
    <3> QED
      BY <1>3, <3>1 DEF Plain
  <2>8. IsPrefix(r, q)
    <3>1. Len(r) <= Len(q)
      BY <1>2, <1>3
    <3> QED
      BY <1>2, <1>3, <2>6, <3>1, PrefixIs
  <2> QED
    BY <1>3, <1>4, <2>5, <2>7, <2>8, WayFacts
<1>6. Append(r, q[i]) \in DOMAIN tree /\ r \in DOMAIN tree
  <2>1. Len(r) + 1 = i
    BY <1>2, <1>3
  <2>2. Slash.kind = "slash" /\ q[i].kind \in {"param", "wild"}
    BY <1>1 DEF Slash, Seg
  <2>3. q[i] # Slash
    BY <2>2
  <2> QED
    BY <1>4, <1>5, <2>1, <2>3, WayStep
<1>7. q[i] = Seg(q[i].kind, q[i].name)
  <2>1. q[i] = Slash \/ q[i] = Seg(q[i].kind, q[i].name)
    BY <1>2, PatternFacts
  <2> QED
    BY <1>1, <2>1 DEF Slash, Seg
<1>8. (q[i].kind = "param" => q[i].name \in tree[r].param) /\ (q[i].kind = "wild" => q[i].name \in tree[r].wild)
  <2>1. Branches(DOMAIN tree, r, tree[r])
    BY <1>6, NodeSays
  <2> QED
    BY <1>6, <1>7, <2>1 DEF Branches
<1>9. SubSeq(p, 1, i - 1) \in DOMAIN tree
    BY <1>6 DEF r
<1>10. /\ p[i].kind = "param" => tree[r].param \in {{}, {p[i].name}}
       /\ p[i].kind = "wild" => tree[r].wild \in {{}, {p[i].name}}
    BY <1>9, NoClashAt DEF r
<1> QED
    BY <1>1, <1>8, <1>10

-----------------------------------------------------------------------------
(* The lookups.                                                               *)

\* What answers for a tree, before and after its freeze.
Arena(m) == IF mutable[m] = EmptyTree THEN frozen[m] ELSE Freeze(mutable[m])

\* Every array answers as the routes promise; until the freeze a tree is the one of its routes; an answer
\* is given once.
FInv ==
    /\ \A m \in Method, path \in Paths : Found(Arena(m), path) = Match(routes[m], path)
    /\ once = "new" => ~sealed /\ adds <= MaxAdds /\ \A m \in Method : Grown(routes[m], mutable[m], adds)
    /\ \A g \in Lookups : answer[g].done => call[g].pc = "done"

\* Without a route nothing matches.
LEMMA NoRoutes == \A path : Match([p \in Patterns |-> 0], path) = NoMatch
BY DEF Match

LEMMA InitFaithful == Init => FInv
<1> SUFFICES ASSUME Init PROVE FInv
    OBVIOUS
<1>1. ASSUME NEW m \in Method
      PROVE  mutable[m] = EmptyTree /\ frozen[m] = <<>> /\ routes[m] = [p \in Patterns |-> 0]
    BY DEF Init, TableInit
<1>2. \A m \in Method, path \in Paths : Found(Arena(m), path) = Match(routes[m], path)
    BY <1>1, NoRoutes DEF Found, Arena
<1>3. \A m \in Method : Grown(routes[m], mutable[m], 0)
    BY <1>1, NothingGrown
<1> QED
    BY <1>2, <1>3, RouterAssumption DEF Init, TableInit, FInv, Nothing

LEMMA AddFaithful ==
    ASSUME MaxAdds < Width, OInv, Typed, FInv, NEW m \in Method, NEW p \in Patterns, Add(m, p)
    PROVE  FInv' /\ TableAdd(m, p)
<1>1. /\ mutable' = [mutable EXCEPT ![m] = Inserted(mutable[m], p, adds + 1)]
      /\ routes' = [routes EXCEPT ![m][p] = adds + 1] /\ once = "new" /\ ~sealed
      /\ UNCHANGED <<sealed, answer, frozen, once, call>> /\ WellFormed(p) /\ ~Clashes(mutable[m], p)
      /\ \A g \in Lookups : call[g].pc = "idle"
    BY DEF Add
<1>2. \A o \in Method : routes'[o] = IF o = m THEN [routes[m] EXCEPT ![p] = adds + 1] ELSE routes[o]
    BY <1>1 DEF Typed
<1>3. \A o \in Method : mutable'[o] = IF o = m THEN Inserted(mutable[m], p, adds + 1) ELSE mutable[o]
    BY <1>1 DEF Typed
<1>4. ASSUME NEW o \in Method PROVE Grown(routes'[o], mutable'[o], adds')
  <2>1. Grown(routes[o], mutable[o], adds) /\ routes[o] \in [Patterns -> Nat] /\ adds \in Nat /\ adds' = adds + 1
    BY <1>1 DEF FInv, Typed, Add
  <2>2. CASE o = m
    <3>1. adds + 1 \in Nat \ {0}
      BY <2>1
    <3> QED
      BY <1>1, <1>2, <1>3, <2>1, <2>2, <3>1, InsertGrows
  <2>3. CASE o # m
    BY <1>2, <1>3, <2>1, <2>3, GrownMore
  <2> QED
    BY <2>2, <2>3
<1>5. adds' \in Nat /\ adds' <= MaxAdds /\ adds' < Width
    BY RouterAssumption DEF Add, Typed
<1>6. Inserted(mutable[m], p, adds + 1) # EmptyTree
  <2>1. Key(p) \in Way(p)
    BY <1>1, WayFacts
  <2>2. Key(p) \in DOMAIN Inserted(mutable[m], p, adds + 1)
    BY <2>1 DEF Inserted, Way, Key
  <2> QED
    BY <2>2 DEF EmptyTree
<1>7. ASSUME NEW o \in Method, NEW path \in Paths PROVE Found(Arena(o), path)' = Match(routes[o], path)'
  <2>1. CASE o = m
    <3>1. routes'[m] \in [Patterns -> Nat]
      BY <1>2, <1>5 DEF Typed, Add
    <3>2. Found(Freeze(mutable'[m]), path) = Match(routes'[m], path)
      BY <1>4, <1>5, <3>1, FoundIsMatch
    <3> QED
      BY <1>3, <1>6, <2>1, <3>2 DEF Arena
  <2>2. CASE o # m
    BY <1>1, <1>2, <1>3, <2>2 DEF FInv, Arena
  <2> QED
    BY <2>1, <2>2
<1>8. Accepts(m, p)
    BY <1>1, NoClash DEF FInv
<1> QED
    BY <1>1, <1>4, <1>5, <1>7, <1>8 DEF FInv, TableAdd, Add

\* A freeze leaves what a tree answers.
LEMMA FreezeFaithful ==
    ASSUME OInv, Typed, FInv, NEW g \in Lookups, FreezeOne(g)
    PROVE  FInv' /\ UNCHANGED tableVars
<1>1. PICK i \in DOMAIN Methods :
          /\ mutable[Methods[i]] # EmptyTree
          /\ frozen' = [frozen EXCEPT ![Methods[i]] = Freeze(mutable[Methods[i]])]
          /\ mutable' = [mutable EXCEPT ![Methods[i]] = EmptyTree]
    BY DEF FreezeOne
<1>2. \A m \in Method : Arena(m)' = Arena(m)
    BY <1>1 DEF Arena, Typed
<1>3. UNCHANGED <<routes, adds, sealed, answer, once, call>> /\ once # "new"
    BY DEF FreezeOne, tableVars, OInv
<1>4. ASSUME NEW m \in Method, NEW path \in Paths PROVE Found(Arena(m), path)' = Match(routes[m], path)'
    BY <1>2, <1>3 DEF FInv
<1> QED
    BY <1>3, <1>4 DEF FInv, tableVars

\* The arrays answer what the table does.
LEMMA LookupAnswers ==
    ASSUME OInv, Typed, FInv, NEW g \in Lookups, Lookup(g)
    PROVE  FInv' /\ \E m \in Method \cup {Other}, path \in Asked : TableFind(g, m, path)
<1> DEFINE m == call[g].method
           path == call[g].path
<1>1. m \in Method \cup {Other} /\ path \in Asked /\ path \in Paths /\ call[g].pc = "search"
    BY RouterAssumption DEF Lookup, Typed, IsCall
<1>2. once = "done" /\ sealed /\ ~answer[g].done
    BY <1>1 DEF OInv, FInv
<1> HIDE DEF m, path
<1>3. \A o \in Method : Found(frozen[o], path) = Match(routes[o], path)
    BY <1>1, <1>2 DEF OInv, FInv, Arena
<1>4. FoundAnywhere(m, path) = [match |-> Answer(routes, m, path).match, allow |-> Answer(routes, m, path).allow, done |-> TRUE]
  <2>1. {o \in Method : o # m /\ Found(frozen[o], path).handler # 0} = {o \in Method : o # m /\ Match(routes[o], path).handler # 0}
    BY <1>3
  <2>2. (IF m \in Method THEN Found(frozen[m], path) ELSE NoMatch) = IF m \in Method THEN Match(routes[m], path) ELSE NoMatch
    BY <1>3
  <2> QED
    BY <2>1, <2>2 DEF FoundAnywhere, Answer, Allow
<1>5. answer' = [answer EXCEPT ![g] = FoundAnywhere(m, path)]
    BY DEF Lookup, m, path
<1>6. TableFind(g, m, path)
    BY <1>2, <1>4, <1>5 DEF TableFind, Lookup
<1>7. FInv'
  <2>1. Moves(g, "done") /\ UNCHANGED <<routes, mutable, frozen, sealed, once>>
    BY CallMoves DEF Lookup
  <2>2. \A o \in Method : Arena(o)' = Arena(o)
    BY <2>1 DEF Arena
  <2>3. \A h \in Lookups : answer'[h].done => call'[h].pc = "done"
    BY <1>5, <2>1 DEF Moves, FInv, Typed
  <2>4. ASSUME NEW o \in Method, NEW a \in Paths PROVE Found(Arena(o), a)' = Match(routes[o], a)'
    BY <2>1, <2>2 DEF FInv
  <2> QED
    BY <1>2, <2>1, <2>3, <2>4 DEF FInv
<1> QED
    BY <1>1, <1>6, <1>7

LEMMA NextFaithful ==
    ASSUME MaxAdds < Width, OInv, Typed, FInv, [Next]_vars
    PROVE  FInv' /\ [TableNext]_tableVars
<1>1. CASE \E m \in Method, p \in Patterns : Add(m, p)
    BY <1>1, AddFaithful DEF TableNext
<1>2. CASE \E g \in Lookups : FreezeOne(g)
    BY <1>2, FreezeFaithful
<1>3. CASE \E g \in Lookups : Lookup(g)
    BY <1>3, LookupAnswers DEF TableNext
<1>4. ASSUME UNCHANGED <<routes, mutable, frozen>> PROVE \A o \in Method, a \in Paths : Found(Arena(o), a)' = Match(routes[o], a)'
    BY <1>4 DEF FInv, Arena
<1>5. ASSUME NEW g \in Lookups,
             Enter(g) \/ Seal(g) \/ \E m \in Method \cup {Other}, path \in Asked : Find(g, m, path)
      PROVE  FInv' /\ [TableNext]_tableVars
  <2>1. UNCHANGED <<routes, adds, mutable, frozen, answer>> /\ (once' = "new" => once = "new" /\ UNCHANGED sealed)
    BY <1>5 DEF Enter, Seal, Find, tableVars
  <2>2. \A h \in Lookups : answer[h].done => call'[h].pc = "done"
    BY <1>5 DEF Enter, Seal, Find, FInv, Typed
  <2>3. UNCHANGED tableVars \/ TableSeal
    BY <1>5 DEF Enter, Seal, Find, TableSeal, OInv, tableVars
  <2>4. once' = "new" => ~sealed' /\ adds' <= MaxAdds /\ \A m \in Method : Grown(routes'[m], mutable'[m], adds')
    BY <2>1 DEF FInv
  <2> QED
    BY <1>4, <2>1, <2>2, <2>3, <2>4 DEF FInv, TableNext
<1>6. CASE UNCHANGED vars
  <2>1. UNCHANGED <<routes, adds, sealed, answer, mutable, frozen, once, call>>
    BY <1>6 DEF vars, tableVars
  <2> QED
    BY <1>4, <2>1 DEF FInv, tableVars
<1> QED
    BY <1>1, <1>2, <1>3, <1>5, <1>6 DEF Next, Over

-----------------------------------------------------------------------------
LEMMA InvFaithful == ASSUME MaxAdds < Width PROVE Spec => [](OInv /\ Typed /\ FInv) /\ [][TableNext]_tableVars
<1>1. OInv /\ Typed /\ FInv /\ [Next]_vars => FInv' /\ [TableNext]_tableVars
    BY NextFaithful
<1> QED
    BY InitOnce, NextOnce, InitFaithful, <1>1, PTL DEF Spec

\* For any patterns and paths: as long as there are fewer routes than uint8 has values, the array of every
\* tree finds what the routes promise (node.go 102-163, router.go 177-228).
THEOREM ArenaIsTableAlways == ASSUME MaxAdds < Width PROVE Spec => []ArenaIsTable
<1>1. OInv /\ Typed /\ FInv => ArenaIsTable
  <2> SUFFICES ASSUME OInv, Typed, FInv, \A g \in Lookups : call[g].pc = "idle", NEW m \in Method, NEW path \in Paths
               PROVE  Found(Freeze(mutable[m]), path) = Match(routes[m], path)
    BY DEF ArenaIsTable
  <2>1. once = "new"
    BY DEF OInv
  <2>2. Grown(routes[m], mutable[m], adds) /\ adds \in Nat /\ adds < Width /\ routes[m] \in [Patterns -> Nat]
    BY <2>1, RouterAssumption DEF FInv, Typed
  <2> QED
    BY <2>2, FoundIsMatch
<1> QED
    BY InvFaithful, <1>1, PTL

\* Whatever is added and looked up, by any number of goroutines: the router is a route table that the
\* first lookup closes (router.go 98-175).
THEOREM RouterIsTable == ASSUME MaxAdds < Width PROVE Spec => ImplementsTable
<1>1. Init => TableInit
    BY DEF Init
<1>2. Spec => Init
    BY PTL DEF Spec
<1> QED
    BY InvFaithful, <1>1, <1>2, PTL DEF ImplementsTable, TableSpec
=============================================================================
