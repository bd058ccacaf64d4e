----------------------------- MODULE WalkProofs -------------------------------
(* Proofs about the two walks over trees: Register goes down a tree of        *)
(* modules and mounts what it declares (Registration), LoadConfig goes down a *)
(* tree of struct types and takes what it asks for (Binding), and BindForm    *)
(* goes over one struct (Forms).  Both say what a tree holds as a recursive   *)
(* function that flattens what its children hold; the lemmas on FlattenSeq    *)
(* that this takes come first.  Both invariants say that what is done and     *)
(* what the stack still has ahead make up just that.                          *)
EXTENDS Registration, Binding, SequenceTheorems, WellFoundedInduction, NaturalsInduction, FiniteSetTheorems, TLAPS

(* Sequences of sequences.                                                    *)

Smaller == {ss \in Nat \X Nat : ss[1] < ss[2]}

LEMMA Least == ASSUME NEW S \in SUBSET Nat, S # {} PROVE \E m \in S : \A k \in S : m <= k
<1>1. IsWellFoundedOn(Smaller, Nat)
    BY NatLessThanWellFounded, Zenon DEF OpToRel, Smaller
<1>2. PICK m \in S : \A k \in S : ~(<<k, m>> \in Smaller)
    BY <1>1, WFMin
<1>3. \A k \in S : ~(k < m)
    BY <1>2 DEF Smaller
<1> QED
    BY <1>3

\* Induction over sequences, for a set.
LEMMA Grown ==
    ASSUME NEW S, NEW X \in SUBSET Seq(S), <<>> \in X, \A s \in X, e \in S : Append(s, e) \in X
    PROVE  X = Seq(S)
<1> DEFINE N == {n \in Nat : \E s \in Seq(S) : s \notin X /\ Len(s) = n}
<1> SUFFICES ASSUME NEW q \in Seq(S), q \notin X PROVE FALSE
    OBVIOUS
<1>0. Len(q) \in N
    OBVIOUS
<1>1. PICK m \in N : \A k \in N : m <= k
    BY <1>0, Least
<1>2. PICK s \in Seq(S) : s \notin X /\ Len(s) = m
    BY <1>1
<1>3. PICK r \in Seq(S), e \in S : s = Append(r, e)
    BY <1>2, SequenceEmptyOrAppend
<1>4. Len(r) \in Nat /\ Len(r) < m
  <2>1. Len(Append(r, e)) = Len(r) + 1 /\ Len(r) \in Nat
    BY <1>3, AppendProperties, LenProperties
  <2> QED
    BY <1>2, <1>3, <2>1
<1>5. r \in X
    BY <1>1, <1>4
<1> QED
    BY <1>2, <1>3, <1>5

IsFlat(s, n, f) == f = [i \in 1..n |-> IF i = 1 THEN s[i] ELSE f[i - 1] \o s[i]]

LEMMA FlatExists == ASSUME NEW s, NEW n \in Nat PROVE \E f : IsFlat(s, n, f)
<1> DEFINE N == {k \in Nat : ~\E f : IsFlat(s, k, f)}
<1> SUFFICES ASSUME N # {} PROVE FALSE
    OBVIOUS
<1>1. PICK m \in N : \A k \in N : m <= k
    BY Least
<1>2. m # 0
  <2>1. IsFlat(s, 0, [i \in {} |-> <<>>])
    BY DEF IsFlat
  <2> QED
    BY <1>1, <2>1
<1>3. m \in Nat /\ m - 1 \in Nat /\ m - 1 \notin N
    BY <1>1, <1>2
<1>4. PICK g : IsFlat(s, m - 1, g)
    BY <1>3
<1> DEFINE f == [i \in 1..m |-> IF i = 1 THEN s[i] ELSE g[i - 1] \o s[i]]
<1>5. ASSUME NEW i \in 1..m - 1 PROVE f[i] = g[i]
  <2>1. g[i] = IF i = 1 THEN s[i] ELSE g[i - 1] \o s[i]
    BY <1>4, Zenon DEF IsFlat
  <2>2. i \in 1..m
    BY <1>3
  <2> QED
    BY <2>1, <2>2
<1>6. IsFlat(s, m, f)
  <2>1. ASSUME NEW i \in 1..m, i # 1 PROVE f[i - 1] = g[i - 1]
    <3>1. i - 1 \in 1..m - 1
      BY <1>3, <2>1
    <3> QED
      BY <1>5, <3>1
  <2> QED
    BY <2>1 DEF IsFlat
<1> QED
    BY <1>1, <1>6

LEMMA FlatUnfolds ==
    ASSUME NEW s, Len(s) \in Nat \ {0}
    PROVE  \E f : IsFlat(s, Len(s), f) /\ FlattenSeq(s) = f[Len(s)]
<1> DEFINE flatten == CHOOSE f : IsFlat(s, Len(s), f)
<1>1. IsFlat(s, Len(s), flatten)
    BY FlatExists
<1>2. FlattenSeq(s) = flatten[Len(s)]
    BY DEF FlattenSeq, IsFlat
<1> QED
    BY <1>1, <1>2

LEMMA FlatEmpty == FlattenSeq(<<>>) = <<>>
BY DEF FlattenSeq

LEMMA FlatAppend ==
    ASSUME NEW S, NEW s \in Seq(Seq(S)), NEW x \in Seq(S)
    PROVE  FlattenSeq(Append(s, x)) = FlattenSeq(s) \o x
<1> DEFINE t == Append(s, x)
           n == Len(s)
<1>1. n \in Nat /\ Len(t) = n + 1 /\ t[n + 1] = x /\ \A i \in 1..n : t[i] = s[i]
    OBVIOUS
<1>2. PICK g : IsFlat(t, n + 1, g) /\ FlattenSeq(t) = g[n + 1]
  <2>1. Len(t) \in Nat \ {0} /\ Len(t) = n + 1
    BY <1>1
  <2> HIDE DEF t, n
  <2> QED
    BY <2>1, FlatUnfolds
<1>3. CASE n = 0
  <2>1. s = <<>> /\ g[1] = x
    BY <1>1, <1>2, <1>3 DEF IsFlat
  <2> QED
    BY <1>2, <1>3, <2>1, FlatEmpty
<1>4. CASE n # 0
  <2>1. PICK f : IsFlat(s, n, f) /\ FlattenSeq(s) = f[n]
    BY <1>1, <1>4, FlatUnfolds
  <2>2. \A i \in 1..n : f[i] = IF i = 1 THEN s[i] ELSE f[i - 1] \o s[i]
    BY <2>1, Zenon DEF IsFlat
  <2>3. \A i \in 1..n + 1 : g[i] = IF i = 1 THEN t[i] ELSE g[i - 1] \o t[i]
    BY <1>2, Zenon DEF IsFlat
  <2> DEFINE N == {i \in Nat : i \in 1..n /\ f[i] # g[i]}
  <2> HIDE DEF t
  <2>4. N = {}
    <3> SUFFICES ASSUME N # {} PROVE FALSE
      OBVIOUS
    <3>1. PICK m \in N : \A k \in N : m <= k
      BY Least
    <3>2. m \in 1..n /\ m \in 1..n + 1 /\ f[m] # g[m] /\ t[m] = s[m]
      BY <1>1, <3>1
    <3>3. m # 1
      BY <2>2, <2>3, <3>2
    <3>4. m - 1 \in 1..n /\ m - 1 \notin N
      BY <1>1, <3>1, <3>2, <3>3
    <3>5. f[m - 1] = g[m - 1]
      BY <3>4
    <3> QED
      BY <2>2, <2>3, <3>2, <3>3, <3>5
  <2>5. f[n] = g[n]
    BY <1>1, <1>4, <2>4
  <2>6. n + 1 \in 1..n + 1 /\ n + 1 # 1 /\ (n + 1) - 1 = n
    BY <1>1, <1>4
  <2>7. g[n + 1] = g[n] \o t[n + 1]
    BY <2>3, <2>6
  <2> QED
    BY <1>1, <1>2, <2>1, <2>5, <2>7 DEF t
<1> QED
    BY <1>3, <1>4

LEMMA FlatType == ASSUME NEW S, NEW s \in Seq(Seq(S)) PROVE FlattenSeq(s) \in Seq(S)
<1> DEFINE X == {q \in Seq(Seq(S)) : FlattenSeq(q) \in Seq(S)}
<1>1. <<>> \in X
    BY FlatEmpty, EmptySeq
<1>2. ASSUME NEW q \in X, NEW e \in Seq(S) PROVE Append(q, e) \in X
  <2>1. FlattenSeq(Append(q, e)) = FlattenSeq(q) \o e /\ Append(q, e) \in Seq(Seq(S)) /\ FlattenSeq(q) \o e \in Seq(S)
    BY FlatAppend, ConcatProperties
  <2> QED
    BY <2>1
<1> HIDE DEF X
<1>3. X = Seq(Seq(S))
  <2>1. X \in SUBSET Seq(Seq(S))
    BY DEF X
  <2> QED
    BY <1>1, <1>2, <2>1, Grown
<1> QED
    BY <1>3 DEF X

LEMMA FlatCat ==
    ASSUME NEW S, NEW s \in Seq(Seq(S)), NEW t \in Seq(Seq(S))
    PROVE  FlattenSeq(s \o t) = FlattenSeq(s) \o FlattenSeq(t)
<1> DEFINE X == {q \in Seq(Seq(S)) : FlattenSeq(s \o q) = FlattenSeq(s) \o FlattenSeq(q)}
<1>0. FlattenSeq(s) \in Seq(S)
    BY FlatType
<1>1. <<>> \in X
    BY <1>0, FlatEmpty
<1>2. ASSUME NEW q \in X, NEW e \in Seq(S) PROVE Append(q, e) \in X
  <2>1. FlattenSeq(Append(q, e)) = FlattenSeq(q) \o e /\ Append(q, e) \in Seq(Seq(S)) /\ FlattenSeq(q) \in Seq(S)
    BY FlatAppend, FlatType
  <2>2. s \o Append(q, e) = Append(s \o q, e) /\ s \o q \in Seq(Seq(S))
    OBVIOUS
  <2>3. FlattenSeq(s \o Append(q, e)) = FlattenSeq(s \o q) \o e
    BY <2>2, FlatAppend
  <2>4. (FlattenSeq(s) \o FlattenSeq(q)) \o e = FlattenSeq(s) \o (FlattenSeq(q) \o e)
    BY <1>0, <2>1, ConcatAssociative
  <2> QED
    BY <2>1, <2>3, <2>4
<1> HIDE DEF X
<1>3. X = Seq(Seq(S))
  <2>1. X \in SUBSET Seq(Seq(S))
    BY DEF X
  <2> QED
    BY <1>1, <1>2, <2>1, Grown
<1> QED
    BY <1>3 DEF X

LEMMA FlatOne == ASSUME NEW S, NEW x \in Seq(S) PROVE FlattenSeq(<<x>>) = x
<1>1. <<x>> = Append(<<>>, x) /\ <<>> \in Seq(Seq(S))
    OBVIOUS
<1>2. FlattenSeq(Append(<<>>, x)) = FlattenSeq(<<>>) \o x
    BY <1>1, FlatAppend
<1>3. <<>> \o x = x
    OBVIOUS
<1> QED
    BY <1>1, <1>2, <1>3, FlatEmpty

\* A function with the domain of a sequence.
LEMMA EachType ==
    ASSUME NEW S, NEW q \in Seq(S), NEW T, NEW f, DOMAIN f = DOMAIN q, f = [i \in DOMAIN f |-> f[i]],
           \A i \in DOMAIN q : f[i] \in T
    PROVE  f \in Seq(T) /\ Len(f) = Len(q)
<1>1. DOMAIN q = 1..Len(q) /\ Len(q) \in Nat
    OBVIOUS
<1>2. f \in [1..Len(q) -> T]
    BY <1>1
<1> QED
    BY <1>1, <1>2

\* A sequence, item by item.
LEMMA FlatItems ==
    ASSUME NEW S, NEW s \in Seq(S)
    PROVE  FlattenSeq([i \in DOMAIN s |-> <<s[i]>>]) = s
<1> DEFINE items(q) == [i \in DOMAIN q |-> <<q[i]>>]
           X == {q \in Seq(S) : FlattenSeq(items(q)) = q}
<1>1. <<>> \in X
  <2>1. items(<<>>) = <<>>
    OBVIOUS
  <2> QED
    BY <2>1, FlatEmpty
<1>2. ASSUME NEW q \in X, NEW e \in S PROVE Append(q, e) \in X
  <2>0. q \in Seq(S) /\ \A i \in DOMAIN q : <<q[i]>> \in Seq(S)
    OBVIOUS
  <2>1. items(q) \in Seq(Seq(S)) /\ <<e>> \in Seq(S)
    <3> DEFINE m == items(q)
    <3>1. DOMAIN m = DOMAIN q /\ m = [i \in DOMAIN m |-> m[i]] /\ \A i \in DOMAIN q : m[i] \in Seq(S)
      BY <2>0
    <3> HIDE DEF m, X
    <3>2. m \in Seq(Seq(S))
      BY <2>0, <3>1, EachType
    <3> QED
      BY <3>2 DEF m
  <2>2. items(Append(q, e)) = Append(items(q), <<e>>)
    <3> DEFINE a == items(Append(q, e))
               b == Append(items(q), <<e>>)
    <3>1. DOMAIN a = 1..Len(q) + 1 /\ DOMAIN b = 1..Len(q) + 1
      BY <2>1
    <3>2. ASSUME NEW i \in 1..Len(q) + 1 PROVE a[i] = b[i]
      OBVIOUS
    <3>3. a = [i \in DOMAIN a |-> a[i]] /\ b = [i \in DOMAIN b |-> b[i]]
      BY <2>1
    <3> HIDE DEF a, b
    <3> QED
      BY <3>1, <3>2, <3>3
  <2> HIDE DEF items
  <2>3. FlattenSeq(items(Append(q, e))) = q \o <<e>>
    BY <2>1, <2>2, FlatAppend
  <2>4. q \o <<e>> = Append(q, e) /\ Append(q, e) \in Seq(S)
    OBVIOUS
  <2> QED
    BY <2>3, <2>4
<1> HIDE DEF X
<1>3. X = Seq(S)
  <2>1. X \in SUBSET Seq(S)
    BY DEF X
  <2> QED
    BY <1>1, <1>2, <2>1, Grown
<1> QED
    BY <1>3 DEF X

\* What a function does to every item.
Mapped(g, q) == [j \in DOMAIN q |-> g[q[j]]]

LEMMA MappedType ==
    ASSUME NEW S, NEW T, NEW g \in [S -> T], NEW q \in Seq(S)
    PROVE  Mapped(g, q) \in Seq(T) /\ Len(Mapped(g, q)) = Len(q)
BY DEF Mapped

LEMMA MappedCat ==
    ASSUME NEW S, NEW g
    PROVE  \A q, r \in Seq(S) : Mapped(g, q \o r) = Mapped(g, q) \o Mapped(g, r)
<1> SUFFICES ASSUME NEW q \in Seq(S), NEW r \in Seq(S)
             PROVE  Mapped(g, q \o r) = Mapped(g, q) \o Mapped(g, r)
    OBVIOUS
<1> DEFINE a == Mapped(g, q \o r)
           b == Mapped(g, q) \o Mapped(g, r)
           T == {g[x] : x \in S}
<1>0. \A s \in Seq(S) : Mapped(g, s) \in Seq(T) /\ Len(Mapped(g, s)) = Len(s)
  <2> SUFFICES ASSUME NEW s \in Seq(S) PROVE Mapped(g, s) \in Seq(T) /\ Len(Mapped(g, s)) = Len(s)
    OBVIOUS
  <2>1. \A i \in DOMAIN s : g[s[i]] \in T
    OBVIOUS
  <2> HIDE DEF T
  <2> QED
    BY <2>1 DEF Mapped
<1> HIDE DEF T
<1>1. Mapped(g, q) \in Seq(T) /\ Mapped(g, r) \in Seq(T) /\ q \o r \in Seq(S) /\ Len(q \o r) = Len(q) + Len(r)
    BY <1>0
<1>2. a \in Seq(T) /\ b \in Seq(T) /\ Len(a) = Len(q) + Len(r) /\ Len(b) = Len(q) + Len(r)
  <2>1. Len(b) = Len(Mapped(g, q)) + Len(Mapped(g, r)) /\ b \in Seq(T)
    BY <1>1
  <2> QED
    BY <1>0, <1>1, <2>1
<1>3. ASSUME NEW i \in 1..Len(q) + Len(r) PROVE a[i] = b[i]
  <2>1. CASE i <= Len(q)
    BY <1>1, <2>1 DEF Mapped
  <2>2. CASE i > Len(q)
    BY <1>1, <2>2 DEF Mapped
  <2>3. i \in Nat /\ Len(q) \in Nat
    OBVIOUS
  <2> HIDE DEF a, b
  <2> QED
    BY <2>1, <2>2, <2>3
<1> HIDE DEF a, b
<1>4. a = b
    BY <1>2, <1>3, SeqEqual
<1> QED
    BY <1>4 DEF a, b

LEMMA FlatMapped ==
    ASSUME NEW S, NEW T, NEW g \in [S -> T], NEW s \in Seq(Seq(S))
    PROVE  FlattenSeq([i \in DOMAIN s |-> Mapped(g, s[i])]) = Mapped(g, FlattenSeq(s))
<1> DEFINE each(q) == [i \in DOMAIN q |-> Mapped(g, q[i])]
           X == {q \in Seq(Seq(S)) : FlattenSeq(each(q)) = Mapped(g, FlattenSeq(q))}
<1>0. \A q, r \in Seq(S) : Mapped(g, q \o r) = Mapped(g, q) \o Mapped(g, r)
  <2> HIDE DEF X, each
  <2> QED
    BY MappedCat
<1>1. <<>> \in X
  <2>1. each(<<>>) = <<>> /\ Mapped(g, <<>>) = <<>>
    BY DEF Mapped
  <2> QED
    BY <2>1, FlatEmpty
<1>2. ASSUME NEW q \in X, NEW e \in Seq(S) PROVE Append(q, e) \in X
  <2>1. \A r \in Seq(S) : Mapped(g, r) \in Seq(T)
    BY MappedType
  <2>0. q \in Seq(Seq(S)) /\ \A i \in DOMAIN q : Mapped(g, q[i]) \in Seq(T)
    BY <2>1
  <2>2. each(q) \in Seq(Seq(T)) /\ Mapped(g, e) \in Seq(T) /\ Len(each(q)) = Len(q)
    <3> DEFINE m == each(q)
    <3>1. DOMAIN m = DOMAIN q /\ m = [i \in DOMAIN m |-> m[i]] /\ \A i \in DOMAIN q : m[i] \in Seq(T)
      BY <2>0
    <3> HIDE DEF m, X
    <3>2. m \in Seq(Seq(T)) /\ Len(m) = Len(q)
      BY <2>0, <3>1, EachType
    <3> QED
      BY <2>1, <3>2 DEF m
  <2>6. each(Append(q, e)) = Append(each(q), Mapped(g, e))
    <3> DEFINE a == each(Append(q, e))
               b == Append(each(q), Mapped(g, e))
    <3>1. DOMAIN a = 1..Len(q) + 1 /\ DOMAIN b = 1..Len(q) + 1
      BY <2>2
    <3>2. ASSUME NEW i \in 1..Len(q) + 1 PROVE a[i] = b[i]
      OBVIOUS
    <3>3. a = [i \in DOMAIN a |-> a[i]] /\ b = [i \in DOMAIN b |-> b[i]]
      BY <2>2
    <3> HIDE DEF a, b
    <3> QED
      BY <3>1, <3>2, <3>3
  <2> HIDE DEF each
  <2>3. FlattenSeq(each(Append(q, e))) = Mapped(g, FlattenSeq(q)) \o Mapped(g, e)
    BY <2>1, <2>2, <2>6, FlatAppend
  <2>4. FlattenSeq(Append(q, e)) = FlattenSeq(q) \o e /\ FlattenSeq(q) \in Seq(S)
    BY FlatAppend, FlatType
  <2>5. FlattenSeq(each(Append(q, e))) = Mapped(g, FlattenSeq(Append(q, e)))
    <3>1. Mapped(g, FlattenSeq(q) \o e) = Mapped(g, FlattenSeq(q)) \o Mapped(g, e)
      BY <1>0, <2>4
    <3> QED
      BY <2>3, <2>4, <3>1
  <2> QED
    BY <2>5
<1> HIDE DEF X
<1>3. X = Seq(Seq(S))
  <2>1. X \in SUBSET Seq(Seq(S))
    BY DEF X
  <2> QED
    BY <1>1, <1>2, <2>1, Grown
<1> QED
    BY <1>3 DEF X

\* An item of the whole is an item of one of its parts.
LEMMA FlatItem ==
    ASSUME NEW S, NEW s \in Seq(Seq(S)), NEW j \in DOMAIN FlattenSeq(s)
    PROVE  \E k \in DOMAIN s : \E i \in DOMAIN s[k] : FlattenSeq(s)[j] = s[k][i]
<1> DEFINE from(q) == \A n \in DOMAIN FlattenSeq(q) : \E k \in DOMAIN q : \E i \in DOMAIN q[k] : FlattenSeq(q)[n] = q[k][i]
           X == {q \in Seq(Seq(S)) : from(q)}
<1>1. <<>> \in X
    BY FlatEmpty
<1>2. ASSUME NEW q \in X, NEW x \in Seq(S) PROVE Append(q, x) \in X
  <2> DEFINE r == Append(q, x)
             f == FlattenSeq(q)
  <2>1. q \in Seq(Seq(S)) /\ from(q)
    OBVIOUS
  <2>2. FlattenSeq(r) = f \o x /\ f \in Seq(S) /\ r \in Seq(Seq(S))
    BY <2>1, FlatAppend, FlatType
  <2>3. DOMAIN q \subseteq DOMAIN r /\ (\A k \in DOMAIN q : r[k] = q[k]) /\ Len(q) + 1 \in DOMAIN r /\ r[Len(q) + 1] = x
    BY <2>1
  <2>4. ASSUME NEW n \in DOMAIN (f \o x) PROVE \E k \in DOMAIN r : \E i \in DOMAIN r[k] : (f \o x)[n] = r[k][i]
    <3>1. (n \in DOMAIN f /\ (f \o x)[n] = f[n]) \/ (n - Len(f) \in DOMAIN x /\ (f \o x)[n] = x[n - Len(f)])
      <4> HIDE DEF f
      <4>1. x \in Seq(S) /\ f \in Seq(S)
        BY <2>2
      <4> QED
        BY <4>1
    <3>2. CASE n \in DOMAIN f /\ (f \o x)[n] = f[n]
      <4>1. PICK k \in DOMAIN q : \E i \in DOMAIN q[k] : f[n] = q[k][i]
        BY <2>1, <3>2
      <4> HIDE DEF r, f
      <4> QED
        BY <2>3, <3>2, <4>1
    <3>3. CASE n - Len(f) \in DOMAIN x /\ (f \o x)[n] = x[n - Len(f)]
      <4> HIDE DEF r, f
      <4> QED
        BY <2>3, <3>3
    <3> QED
      BY <3>1, <3>2, <3>3
  <2> HIDE DEF r, f
  <2>5. from(r)
    BY <2>2, <2>4
  <2> HIDE DEF from
  <2> QED
    BY <2>2, <2>5 DEF r
<1> HIDE DEF X, from
<1>3. X \in SUBSET Seq(Seq(S))
    BY DEF X
<1>4. X = Seq(Seq(S))
    BY <1>1, <1>2, <1>3, Grown
<1>5. from(s)
    BY <1>4 DEF X
<1> QED
    BY <1>5 DEF from

-----------------------------------------------------------------------------
(* What a tree of modules declares.                                           *)

Rts == UNION {ToSet(Tree[m].routes) : m \in Modules}
Verbs == {r.method : r \in Rts}
Segs == UNION ({ToSet(Tree[m].prefix) : m \in Modules} \cup {ToSet(r.pattern) : r \in Rts})
Gs == Global \cup UNION ({ToSet(Tree[m].guards) : m \in Modules} \cup {ToSet(r.guards) : r \in Rts})
Decls == [method : Verbs, pattern : Seq(Segs), guards : Seq(Gs)]
Mounts == [method : Verbs, pattern : Seq(Segs), guards : Seq(Gs), probe : {FALSE}]

LEMMA TreeTypes ==
    ASSUME NEW m \in Modules
    PROVE  /\ Tree[m].prefix \in Seq(Segs) /\ Tree[m].guards \in Seq(Gs)
           /\ Tree[m].routes \in Seq(Rts) /\ Tree[m].modules \in Seq(Modules)
<1>1. ToSet(Tree[m].prefix) \subseteq Segs /\ ToSet(Tree[m].guards) \subseteq Gs /\ ToSet(Tree[m].routes) \subseteq Rts
    BY DEF Segs, Gs, Rts
<1> QED
    BY <1>1, RegistrationAssumption, SeqMonotonic

LEMMA RouteTypes ==
    ASSUME NEW r \in Rts
    PROVE  r.method \in Verbs /\ r.pattern \in Seq(Segs) /\ r.guards \in Seq(Gs)
<1>1. ToSet(r.pattern) \subseteq Segs /\ ToSet(r.guards) \subseteq Gs /\ r.method \in Verbs
    BY DEF Segs, Gs, Verbs
<1>2. r.pattern \in Seq(ToSet(r.pattern)) /\ r.guards \in Seq(ToSet(r.guards))
    BY RegistrationAssumption DEF Rts
<1> QED
    BY <1>1, <1>2, SeqMonotonic

LEMMA OwnType == ASSUME NEW m \in Modules PROVE Own(m) \in Seq(Decls)
<1>1. Tree[m].routes \in Seq(Rts) /\ Tree[m].guards \in Seq(Gs)
    BY TreeTypes
<1>2. ASSUME NEW i \in DOMAIN Tree[m].routes PROVE Own(m)[i] \in Decls
  <2>1. Tree[m].routes[i] \in Rts
    BY <1>1
  <2>2. Tree[m].guards \o Tree[m].routes[i].guards \in Seq(Gs)
    BY <1>1, <2>1, RouteTypes, ConcatProperties
  <2> QED
    BY <2>1, <2>2, RouteTypes DEF Own, Decls
<1>3. DOMAIN Own(m) = DOMAIN Tree[m].routes /\ Own(m) = [i \in DOMAIN Own(m) |-> Own(m)[i]]
    BY DEF Own
<1> QED
    BY <1>1, <1>2, <1>3, EachType

LEMMA DeclParts ==
    ASSUME NEW d \in Decls
    PROVE  /\ d.method \in Verbs /\ d.pattern \in Seq(Segs) /\ d.guards \in Seq(Gs)
           /\ d = [method |-> d.method, pattern |-> d.pattern, guards |-> d.guards]
           /\ \A x : [d EXCEPT !.pattern = x] = [method |-> d.method, pattern |-> x, guards |-> d.guards]
BY DEF Decls

UnderEach(p) == [d \in Decls |-> [d EXCEPT !.pattern = p \o @]]
BehindEach(gs) == [d \in Decls |-> [method |-> d.method, pattern |-> d.pattern, guards |-> gs \o d.guards, probe |-> FALSE]]

LEMMA UnderIs ==
    ASSUME NEW p \in Seq(Segs)
    PROVE  /\ UnderEach(p) \in [Decls -> Decls]
           /\ \A q \in Seq(Decls) : Under(p, q) = Mapped(UnderEach(p), q) /\ Under(p, q) \in Seq(Decls)
<1>1. ASSUME NEW d \in Decls PROVE [d EXCEPT !.pattern = p \o @] \in Decls
  <2>1. p \o d.pattern \in Seq(Segs)
    BY ConcatProperties DEF Decls
  <2> QED
    BY <2>1 DEF Decls
<1>2. UnderEach(p) \in [Decls -> Decls]
    BY <1>1 DEF UnderEach
<1>3. ASSUME NEW q \in Seq(Decls) PROVE Under(p, q) = Mapped(UnderEach(p), q)
  <2>1. \A i \in DOMAIN q : q[i] \in Decls
    OBVIOUS
  <2> QED
    BY <2>1 DEF Under, Mapped, UnderEach
<1>4. ASSUME NEW q \in Seq(Decls) PROVE Under(p, q) \in Seq(Decls)
    BY <1>2, <1>3, MappedType
<1> QED
    BY <1>2, <1>3, <1>4

LEMMA BehindIs ==
    ASSUME NEW gs \in Seq(Gs)
    PROVE  /\ BehindEach(gs) \in [Decls -> Mounts]
           /\ \A q \in Seq(Decls) : Behind(gs, q) = Mapped(BehindEach(gs), q) /\ Behind(gs, q) \in Seq(Mounts)
<1>1. ASSUME NEW d \in Decls PROVE BehindEach(gs)[d] \in Mounts
  <2>1. gs \o d.guards \in Seq(Gs)
    BY ConcatProperties DEF Decls
  <2> QED
    BY <2>1 DEF Decls, Mounts, BehindEach
<1>2. BehindEach(gs) \in [Decls -> Mounts]
    BY <1>1 DEF BehindEach
<1>3. ASSUME NEW q \in Seq(Decls) PROVE Behind(gs, q) = Mapped(BehindEach(gs), q)
  <2>1. \A i \in DOMAIN q : q[i] \in Decls
    OBVIOUS
  <2> QED
    BY <2>1 DEF Behind, Mapped, BehindEach
<1>4. ASSUME NEW q \in Seq(Decls) PROVE Behind(gs, q) \in Seq(Mounts)
    BY <1>2, <1>3, MappedType
<1> QED
    BY <1>2, <1>3, <1>4

LEMMA ThreeCat ==
    /\ \A a, b, c \in Seq(Segs) : a \o (b \o c) = (a \o b) \o c
    /\ \A a, b, c \in Seq(Gs) : a \o (b \o c) = (a \o b) \o c
<1>1. \A a, b, c \in Seq(Segs) : a \o (b \o c) = (a \o b) \o c
    BY ConcatAssociative
<1>2. \A a, b, c \in Seq(Gs) : a \o (b \o c) = (a \o b) \o c
    BY ConcatAssociative
<1> QED
    BY <1>1, <1>2

\* A prefix under a prefix.
LEMMA UnderUnder ==
    ASSUME NEW p \in Seq(Segs), NEW o \in Seq(Segs), NEW q \in Seq(Decls)
    PROVE  Under(p, Under(o, q)) = Under(p \o o, q)
<1> DEFINE u == Under(o, q)
<1>2. DOMAIN u = DOMAIN q /\ \A i \in DOMAIN q : u[i] = [q[i] EXCEPT !.pattern = o \o @]
    BY DEF Under
<1>3. ASSUME NEW i \in DOMAIN q PROVE [u[i] EXCEPT !.pattern = p \o @] = [q[i] EXCEPT !.pattern = (p \o o) \o @]
  <2> DEFINE d == q[i]
             e == u[i]
  <2>1. d \in Decls /\ d.pattern \in Seq(Segs)
    BY DeclParts
  <2>2. e \in Decls
    <3>1. u \in Seq(Decls)
      BY UnderIs
    <3> HIDE DEF u
    <3> QED
      BY <1>2, <3>1
  <2>3. e = [d EXCEPT !.pattern = o \o @]
    BY <1>2
  <2> HIDE DEF d, e
  <2>4. e = [method |-> d.method, pattern |-> o \o d.pattern, guards |-> d.guards]
    BY <2>1, <2>3, DeclParts
  <2>5. [e EXCEPT !.pattern = p \o @] = [method |-> e.method, pattern |-> p \o e.pattern, guards |-> e.guards]
    BY <2>2, DeclParts
  <2>6. [d EXCEPT !.pattern = (p \o o) \o @] = [method |-> d.method, pattern |-> (p \o o) \o d.pattern, guards |-> d.guards]
    BY <2>1, DeclParts
  <2>7. p \o (o \o d.pattern) = (p \o o) \o d.pattern
    BY <2>1, ThreeCat
  <2>8. [e EXCEPT !.pattern = p \o @] = [d EXCEPT !.pattern = (p \o o) \o @]
    BY <2>4, <2>5, <2>6, <2>7
  <2> QED
    BY <2>8 DEF d, e
<1> HIDE DEF u
<1>4. Under(p, u) = Under(p \o o, q)
    BY <1>2, <1>3 DEF Under
<1> QED
    BY <1>4 DEF u

LEMMA UnderNothing == ASSUME NEW q \in Seq(Decls) PROVE Under(<<>>, q) = q
<1>1. ASSUME NEW i \in DOMAIN q PROVE [q[i] EXCEPT !.pattern = <<>> \o @] = q[i]
  <2> DEFINE d == q[i]
  <2>1. d \in Decls
    OBVIOUS
  <2> HIDE DEF d
  <2>2. <<>> \o d.pattern = d.pattern
    BY <2>1, DeclParts, ConcatEmptySeq
  <2>3. [d EXCEPT !.pattern = <<>> \o @] = d
    BY <2>1, <2>2, DeclParts
  <2> QED
    BY <2>3 DEF d
<1>2. q = [i \in DOMAIN q |-> q[i]]
    OBVIOUS
<1> QED
    BY <1>1, <1>2 DEF Under

-----------------------------------------------------------------------------
(* Declared is what its equation says.                                        *)

Kids(D, m) == [i \in DOMAIN Tree[m].modules |-> D[Tree[m].modules[i]]]
Unfolded(D, m) == Under(Tree[m].prefix, Own(m) \o FlattenSeq(Kids(D, m)))

LEMMA DeclaredIs ==
    \A m \in Modules : Declared[m] = Unfolded(Declared, m) /\ Declared[m] \in Seq(Decls)
<1>1. PICK depth \in [Modules -> 0..Cardinality(Modules)] :
          \A m \in Modules : \A s \in ToSet(Tree[m].modules) : depth[s] < depth[m]
    BY RegistrationAssumption
<1>2. \A m \in Modules : depth[m] \in Int /\ depth[m] >= 0
    BY <1>1
<1>3. ASSUME NEW m \in Modules, NEW i \in DOMAIN Tree[m].modules
      PROVE  Tree[m].modules[i] \in Modules /\ depth[Tree[m].modules[i]] < depth[m]
  <2>1. Tree[m].modules \in Seq(Modules)
    BY TreeTypes
  <2> QED
    BY <1>1, <2>1 DEF ToSet
<1> DEFINE upto(n) == {m \in Modules : depth[m] < n}
           found(n, D) == D \in [Modules -> Seq(Decls)] /\ \A m \in upto(n) : D[m] = Unfolded(D, m)
           N == {n \in Nat : ~\E D : found(n, D)}
<1>4. ASSUME NEW D \in [Modules -> Seq(Decls)], NEW m \in Modules PROVE Unfolded(D, m) \in Seq(Decls)
  <2>1. Tree[m].modules \in Seq(Modules) /\ Own(m) \in Seq(Decls) /\ Tree[m].prefix \in Seq(Segs)
    BY TreeTypes, OwnType
  <2>2. \A i \in DOMAIN Tree[m].modules : D[Tree[m].modules[i]] \in Seq(Decls)
    BY <2>1
  <2>3. Kids(D, m) \in Seq(Seq(Decls))
    BY <2>1, <2>2, EachType DEF Kids
  <2>4. Own(m) \o FlattenSeq(Kids(D, m)) \in Seq(Decls)
    BY <2>1, <2>3, FlatType, ConcatProperties
  <2> QED
    BY <2>1, <2>4, UnderIs DEF Unfolded
<1>5. N = {}
  <2> SUFFICES ASSUME N # {} PROVE FALSE
    OBVIOUS
  <2>1. PICK n \in N : \A k \in N : n <= k
    BY Least
  <2>2. n # 0
    <3>1. found(0, [m \in Modules |-> <<>>])
      BY <1>2
    <3> QED
      BY <2>1, <3>1
  <2>3. n \in Nat /\ n - 1 \in Nat /\ n - 1 \notin N
    <3> HIDE DEF found
    <3> QED
      BY <2>1, <2>2
  <2>4. PICK D : found(n - 1, D)
    BY <2>3
  <2> DEFINE E == [m \in Modules |-> Unfolded(D, m)]
  <2>5. E \in [Modules -> Seq(Decls)]
    BY <1>4, <2>4
  <2>6. \A m \in upto(n - 1) : E[m] = D[m]
    BY <2>4
  <2>7. ASSUME NEW m \in upto(n) PROVE Kids(E, m) = Kids(D, m)
    <3>1. \A i \in DOMAIN Tree[m].modules : Tree[m].modules[i] \in upto(n - 1)
      BY <1>2, <1>3, <2>3
    <3> HIDE DEF E
    <3> QED
      BY <2>6, <3>1 DEF Kids
  <2>8. \A m \in upto(n) : E[m] = Unfolded(E, m)
    BY <2>7 DEF Unfolded
  <2> QED
    BY <2>1, <2>5, <2>8
<1>6. PICK D : found(Cardinality(Modules) + 1, D)
  <2>1. Cardinality(Modules) \in Nat
    BY RegistrationAssumption, FS_CardinalityType
  <2> HIDE DEF found
  <2> QED
    BY <1>5, <2>1
<1>7. \A m \in Modules : m \in upto(Cardinality(Modules) + 1)
  <2>1. Cardinality(Modules) \in Nat
    BY RegistrationAssumption, FS_CardinalityType
  <2> QED
    BY <1>1, <2>1
<1>8. D \in [Modules -> Seq(Decls)] /\ \A m \in Modules : D[m] = Unfolded(D, m)
    BY <1>6, <1>7
<1>9. D = [m \in Modules |-> Unfolded(D, m)]
    BY <1>8
<1>10. Declared = CHOOSE E : E = [m \in Modules |-> Unfolded(E, m)]
    BY DEF Declared, Unfolded, Kids
<1>11. Declared = [m \in Modules |-> Unfolded(Declared, m)]
  <2> DEFINE E0 == CHOOSE E : E = [m \in Modules |-> Unfolded(E, m)]
  <2>1. E0 = [m \in Modules |-> Unfolded(E0, m)]
    BY <1>9
  <2> QED
    BY <1>10, <2>1
\* There is only one such function.
<1> DEFINE odd == {n \in Nat : \E m \in Modules : depth[m] = n /\ Declared[m] # D[m]}
<1>12. odd = {}
  <2> SUFFICES ASSUME odd # {} PROVE FALSE
    OBVIOUS
  <2>1. PICK n \in odd : \A k \in odd : n <= k
    BY Least
  <2>2. PICK m \in Modules : depth[m] = n /\ Declared[m] # D[m]
    BY <2>1
  <2>3. ASSUME NEW i \in DOMAIN Tree[m].modules PROVE Declared[Tree[m].modules[i]] = D[Tree[m].modules[i]]
    <3> DEFINE s == Tree[m].modules[i]
    <3>1. s \in Modules /\ depth[s] \in Nat /\ depth[s] < n
      BY <1>2, <1>3, <2>2
    <3> HIDE DEF s
    <3> QED
      BY <2>1, <3>1 DEF s
  <2>4. Kids(Declared, m) = Kids(D, m)
    BY <2>3 DEF Kids
  <2>5. Declared[m] = Unfolded(Declared, m)
    BY <1>11
  <2> QED
    BY <1>8, <2>2, <2>4, <2>5 DEF Unfolded
<1>13. ASSUME NEW m \in Modules PROVE Declared[m] = D[m]
  <2>1. depth[m] \in Nat /\ depth[m] \notin odd
    BY <1>2, <1>12
  <2> QED
    BY <2>1
<1>14. ASSUME NEW m \in Modules PROVE Declared[m] = Unfolded(Declared, m)
    BY <1>11
<1> QED
    BY <1>8, <1>13, <1>14

-----------------------------------------------------------------------------
(* What the walk still has to mount.                                          *)

RouteTasks == {RouteTask(m, p, r) : m \in Modules, p \in Seq(Segs), r \in Rts}
ModuleTasks == {ModuleTask(m, p) : m \in Modules, p \in Seq(Segs)}
Tasks == RouteTasks \cup ModuleTasks

DeclaredBy(t) == [method |-> t.route.method, pattern |-> t.prefix \o t.route.pattern,
                  guards |-> Tree[t.module].guards \o t.route.guards]
Expanded(t) == IF t.kind = "route" THEN <<DeclaredBy(t)>> ELSE Under(t.prefix, Declared[t.module])
ExpandedEach == [t \in Tasks |-> Expanded(t)]
Pending(ts) == FlattenSeq(Mapped(ExpandedEach, ts))

LEMMA TaskParts ==
    ASSUME NEW m \in Modules, NEW p \in Seq(Segs)
    PROVE  /\ ModuleTask(m, p) \in Tasks /\ ModuleTask(m, p).kind = "module"
           /\ ModuleTask(m, p).module = m /\ ModuleTask(m, p).prefix = p
           /\ \A r \in Rts : /\ RouteTask(m, p, r) \in Tasks /\ RouteTask(m, p, r).kind = "route"
                             /\ RouteTask(m, p, r).module = m /\ RouteTask(m, p, r).prefix = p
                             /\ RouteTask(m, p, r).route = r
BY DEF Tasks, RouteTasks, ModuleTasks, ModuleTask, RouteTask

LEMMA ExpandedIs ==
    ASSUME NEW m \in Modules, NEW p \in Seq(Segs)
    PROVE  /\ ExpandedEach[ModuleTask(m, p)] = Under(p, Declared[m])
           /\ ExpandedEach[ModuleTask(m, p)] \in Seq(Decls)
           /\ \A r \in Rts :
                 LET d == [method |-> r.method, pattern |-> p \o r.pattern, guards |-> Tree[m].guards \o r.guards]
                 IN  ExpandedEach[RouteTask(m, p, r)] = <<d>> /\ d \in Decls
<1>1. ExpandedEach[ModuleTask(m, p)] = Under(p, Declared[m])
    BY TaskParts DEF ExpandedEach, Expanded
<1>2. Under(p, Declared[m]) \in Seq(Decls)
    BY DeclaredIs, UnderIs
<1>3. ASSUME NEW r \in Rts
      PROVE  LET d == [method |-> r.method, pattern |-> p \o r.pattern, guards |-> Tree[m].guards \o r.guards]
             IN  ExpandedEach[RouteTask(m, p, r)] = <<d>> /\ d \in Decls
  <2>1. p \o r.pattern \in Seq(Segs) /\ Tree[m].guards \o r.guards \in Seq(Gs) /\ r.method \in Verbs
    BY RouteTypes, TreeTypes, ConcatProperties
  <2>2. ExpandedEach[RouteTask(m, p, r)] = <<DeclaredBy(RouteTask(m, p, r))>>
    BY TaskParts DEF ExpandedEach, Expanded
  <2>3. DeclaredBy(RouteTask(m, p, r)) =
            [method |-> r.method, pattern |-> p \o r.pattern, guards |-> Tree[m].guards \o r.guards]
    <3> DEFINE t == RouteTask(m, p, r)
    <3>1. t.module = m /\ t.prefix = p /\ t.route = r
      BY TaskParts
    <3> HIDE DEF t
    <3>2. DeclaredBy(t) = [method |-> r.method, pattern |-> p \o r.pattern, guards |-> Tree[m].guards \o r.guards]
      BY <3>1 DEF DeclaredBy
    <3> QED
      BY <3>2 DEF t
  <2> QED
    BY <2>1, <2>2, <2>3 DEF Decls
<1> QED
    BY <1>1, <1>2, <1>3

LEMMA ExpandedType == ExpandedEach \in [Tasks -> Seq(Decls)]
<1>1. ASSUME NEW t \in Tasks PROVE ExpandedEach[t] \in Seq(Decls)
  <2>1. CASE t \in ModuleTasks
    <3>1. PICK m \in Modules, p \in Seq(Segs) : t = ModuleTask(m, p)
      BY <2>1 DEF ModuleTasks
    <3> QED
      BY <3>1, ExpandedIs
  <2>2. CASE t \in RouteTasks
    <3>1. PICK m \in Modules, p \in Seq(Segs), r \in Rts : t = RouteTask(m, p, r)
      BY <2>2 DEF RouteTasks
    <3>2. PICK d \in Decls : ExpandedEach[t] = <<d>>
      BY <3>1, ExpandedIs
    <3> QED
      BY <3>2
  <2> QED
    BY <2>1, <2>2 DEF Tasks
<1> QED
    BY <1>1 DEF ExpandedEach

LEMMA PendingIs ==
    /\ Pending(<<>>) = <<>>
    /\ \A ts \in Seq(Tasks) : Pending(ts) \in Seq(Decls)
    /\ \A ts, us \in Seq(Tasks) : Pending(ts \o us) = Pending(ts) \o Pending(us)
    /\ \A t \in Tasks : Pending(<<t>>) = ExpandedEach[t]
<1>1. \A ts \in Seq(Tasks) : Mapped(ExpandedEach, ts) \in Seq(Seq(Decls))
    BY ExpandedType, MappedType
<1>2. Pending(<<>>) = <<>>
  <2>1. Mapped(ExpandedEach, <<>>) = <<>>
    BY DEF Mapped
  <2> QED
    BY <2>1, FlatEmpty DEF Pending
<1>3. \A ts \in Seq(Tasks) : Pending(ts) \in Seq(Decls)
    BY <1>1, FlatType DEF Pending
<1>4. ASSUME NEW ts \in Seq(Tasks), NEW us \in Seq(Tasks) PROVE Pending(ts \o us) = Pending(ts) \o Pending(us)
  <2>1. Mapped(ExpandedEach, ts \o us) = Mapped(ExpandedEach, ts) \o Mapped(ExpandedEach, us)
    BY MappedCat
  <2> QED
    BY <1>1, <2>1, FlatCat DEF Pending
<1>5. ASSUME NEW t \in Tasks PROVE Pending(<<t>>) = ExpandedEach[t]
  <2>1. Mapped(ExpandedEach, <<t>>) = <<ExpandedEach[t]>> /\ ExpandedEach[t] \in Seq(Decls)
    BY ExpandedType DEF Mapped
  <2> QED
    BY <2>1, FlatOne DEF Pending
<1> QED
    BY <1>2, <1>3, <1>4, <1>5

\* What registerModule does for a module: its routes, then its sub-modules.
Entered(m, p) == [i \in DOMAIN Tree[m].routes |-> RouteTask(m, p, Tree[m].routes[i])]
                 \o [i \in DOMAIN Tree[m].modules |-> ModuleTask(Tree[m].modules[i], p)]

LEMMA EnteredIs ==
    ASSUME NEW m \in Modules, NEW p \in Seq(Segs)
    PROVE  /\ p \o Tree[m].prefix \in Seq(Segs)
           /\ Entered(m, p \o Tree[m].prefix) \in Seq(Tasks)
           /\ Pending(Entered(m, p \o Tree[m].prefix)) = ExpandedEach[ModuleTask(m, p)]
<1> DEFINE here == p \o Tree[m].prefix
           rs == [i \in DOMAIN Tree[m].routes |-> RouteTask(m, here, Tree[m].routes[i])]
           ms == [i \in DOMAIN Tree[m].modules |-> ModuleTask(Tree[m].modules[i], here)]
           own == Own(m)
           kids == Kids(Declared, m)
<1>1. here \in Seq(Segs) /\ Tree[m].prefix \in Seq(Segs) /\ Tree[m].routes \in Seq(Rts) /\ Tree[m].modules \in Seq(Modules)
    BY TreeTypes, ConcatProperties
<1> HIDE DEF here
<1>2. \A i \in DOMAIN Tree[m].routes : Tree[m].routes[i] \in Rts /\ rs[i] = RouteTask(m, here, Tree[m].routes[i]) /\ rs[i] \in Tasks
    BY <1>1, TaskParts
<1>3. \A i \in DOMAIN Tree[m].modules : Tree[m].modules[i] \in Modules /\ ms[i] = ModuleTask(Tree[m].modules[i], here) /\ ms[i] \in Tasks
    BY <1>1, TaskParts
<1>4. DOMAIN rs = DOMAIN Tree[m].routes /\ rs = [i \in DOMAIN rs |-> rs[i]]
      /\ DOMAIN ms = DOMAIN Tree[m].modules /\ ms = [i \in DOMAIN ms |-> ms[i]]
    OBVIOUS
<1> HIDE DEF rs, ms
<1>5. rs \in Seq(Tasks) /\ ms \in Seq(Tasks)
    BY <1>1, <1>2, <1>3, <1>4, EachType
<1>6. own \in Seq(Decls) /\ kids \in Seq(Seq(Decls)) /\ FlattenSeq(kids) \in Seq(Decls)
  <2>1. \A i \in DOMAIN Tree[m].modules : Declared[Tree[m].modules[i]] \in Seq(Decls)
    BY <1>3, DeclaredIs
  <2>2. kids \in Seq(Seq(Decls))
    BY <1>1, <2>1, EachType DEF Kids
  <2> QED
    BY <2>2, OwnType, FlatType
<1>7. Pending(rs) = Under(here, own)
  <2> DEFINE q == Under(here, own)
             e == Mapped(ExpandedEach, rs)
  <2>1. q \in Seq(Decls) /\ DOMAIN q = DOMAIN Tree[m].routes
    BY <1>1, <1>6, UnderIs DEF Under, Own
  <2>2. ASSUME NEW i \in DOMAIN Tree[m].routes PROVE ExpandedEach[rs[i]] = <<q[i]>>
    <3> DEFINE r == Tree[m].routes[i]
               d == [method |-> r.method, pattern |-> here \o r.pattern, guards |-> Tree[m].guards \o r.guards]
    <3>1. ExpandedEach[rs[i]] = <<d>>
      <4>1. r \in Rts /\ rs[i] = RouteTask(m, here, r)
        BY <1>2
      <4>2. ExpandedEach[RouteTask(m, here, r)] = <<d>>
        BY <1>1, <4>1, ExpandedIs
      <4> QED
        BY <4>1, <4>2
    <3>2. own[i] = [method |-> r.method, pattern |-> r.pattern, guards |-> Tree[m].guards \o r.guards]
      BY DEF Own
    <3>3. q[i] = [own[i] EXCEPT !.pattern = here \o @]
      BY DEF Under, Own
    <3>4. q[i] = d
      <4> DEFINE o == own[i]
      <4>0. DOMAIN own = DOMAIN Tree[m].routes
        BY DEF Own
      <4> HIDE DEF own, r
      <4>1. o \in Decls
        BY <1>6, <4>0
      <4> HIDE DEF o, q
      <4>2. q[i] = [method |-> o.method, pattern |-> here \o o.pattern, guards |-> o.guards]
        BY <3>3, <4>1, DeclParts DEF o
      <4>3. o.method = r.method /\ o.pattern = r.pattern /\ o.guards = Tree[m].guards \o r.guards
        <5>1. o = [method |-> r.method, pattern |-> r.pattern, guards |-> Tree[m].guards \o r.guards]
          BY <3>2 DEF o
        <5> HIDE DEF d
        <5> QED
          BY <5>1
      <4> QED
        BY <4>2, <4>3
    <3> QED
      BY <3>1, <3>4
  <2>3. e = [i \in DOMAIN q |-> <<q[i]>>]
    BY <1>4, <2>1, <2>2 DEF Mapped
  <2> HIDE DEF q, e
  <2>4. FlattenSeq(e) = q
    BY <2>1, <2>3, FlatItems
  <2> QED
    BY <2>4 DEF Pending, q, e
<1>8. Pending(ms) = Under(here, FlattenSeq(kids))
  <2>1. Mapped(ExpandedEach, ms) = [i \in DOMAIN kids |-> Mapped(UnderEach(here), kids[i])]
    <3>1. ASSUME NEW i \in DOMAIN Tree[m].modules
          PROVE  ExpandedEach[ms[i]] = Mapped(UnderEach(here), kids[i])
      <4>1. ExpandedEach[ms[i]] = Under(here, Declared[Tree[m].modules[i]])
        BY <1>1, <1>3, ExpandedIs
      <4>2. Declared[Tree[m].modules[i]] \in Seq(Decls) /\ kids[i] = Declared[Tree[m].modules[i]]
        BY <1>3, DeclaredIs DEF Kids
      <4> QED
        BY <1>1, <4>1, <4>2, UnderIs
    <3>2. DOMAIN kids = DOMAIN Tree[m].modules
      BY DEF Kids
    <3> HIDE DEF kids
    <3> QED
      BY <1>4, <3>1, <3>2 DEF Mapped
  <2>2. FlattenSeq([i \in DOMAIN kids |-> Mapped(UnderEach(here), kids[i])]) = Mapped(UnderEach(here), FlattenSeq(kids))
    <3> HIDE DEF kids
    <3>1. UnderEach(here) \in [Decls -> Decls]
      BY <1>1, UnderIs
    <3> QED
      BY <1>6, <3>1, FlatMapped
  <2> QED
    BY <1>1, <1>6, <2>1, <2>2, UnderIs DEF Pending
<1>9. Pending(rs \o ms) = Under(here, own) \o Under(here, FlattenSeq(kids))
    BY <1>5, <1>7, <1>8, PendingIs
<1>10. Under(here, own) \o Under(here, FlattenSeq(kids)) = Under(here, own \o FlattenSeq(kids))
  <2> HIDE DEF own, kids
  <2>1. \A a, b \in Seq(Decls) : Mapped(UnderEach(here), a \o b) = Mapped(UnderEach(here), a) \o Mapped(UnderEach(here), b)
    BY MappedCat
  <2>2. \A a, b \in Seq(Decls) : a \o b \in Seq(Decls)
    BY ConcatProperties
  <2> QED
    <3>1. \A q \in Seq(Decls) : Under(here, q) = Mapped(UnderEach(here), q)
      BY <1>1, UnderIs
    <3> QED
      BY <1>6, <2>1, <2>2, <3>1
<1>11. ExpandedEach[ModuleTask(m, p)] = Under(here, own \o FlattenSeq(kids))
  <2>1. Declared[m] = Under(Tree[m].prefix, own \o FlattenSeq(kids))
    BY DeclaredIs DEF Unfolded
  <2>2. own \o FlattenSeq(kids) \in Seq(Decls)
    BY <1>6, ConcatProperties
  <2> HIDE DEF own, kids
  <2>3. Under(p, Declared[m]) = Under(p \o Tree[m].prefix, own \o FlattenSeq(kids))
    <3> DEFINE q == own \o FlattenSeq(kids)
               o == Tree[m].prefix
    <3>1. q \in Seq(Decls) /\ o \in Seq(Segs) /\ Declared[m] = Under(o, q)
      BY <1>1, <2>1, <2>2
    <3> HIDE DEF q, o
    <3>2. Under(p, Under(o, q)) = Under(p \o o, q)
      BY <3>1, UnderUnder
    <3> QED
      BY <3>1, <3>2 DEF q, o
  <2> QED
    BY <2>3, ExpandedIs DEF here
<1>12. Entered(m, here) = rs \o ms
    BY DEF Entered, rs, ms
<1>13. rs \o ms \in Seq(Tasks)
    BY <1>5, ConcatProperties
<1> QED
    BY <1>1, <1>9, <1>10, <1>11, <1>12, <1>13 DEF here

-----------------------------------------------------------------------------
(* What is mounted, and what is still to do.                                  *)

NP == Len(Probes)
ProbeMount(p) == [method |-> "GET", pattern |-> p, guards |-> <<>>, probe |-> TRUE]
AnyMounts == Mounts \cup {ProbeMount(p) : p \in ToSet(Probes)}
Roots == [module : Modules, guards : Seq(Gs)]

\* What the modules of rs declare, each behind the guards of its moment.
DeclaredRoots(rs) == [k \in DOMAIN rs |-> Behind(rs[k].guards, Declared[rs[k].module])]
Mounted == SubSeq(handlers, NP + 1, Len(handlers))

MountTypes ==
    /\ guards \in Seq(Gs) /\ roots \in Seq(Roots) /\ handlers \in Seq(AnyMounts)
    /\ phase = "listening" => todo = <<>>

\* New is mounting the probes.
Probing ==
    \E n \in 0..NP : /\ Len(handlers) = n /\ todo = [i \in 1..NP - n |-> ProbeTask(Probes[n + i])]
                     /\ \A i \in 1..n : handlers[i].probe

\* What is mounted and what is still to do is what the registered modules declare.
Walking ==
    /\ todo \in Seq(Tasks) /\ Len(handlers) >= NP
    /\ \A i \in 1..Len(handlers) : handlers[i].probe <=> i <= NP
    /\ todo # <<>> => guards = roots[Len(roots)].guards
    /\ Mounted \o Behind(guards, Pending(todo)) = FlattenSeq(DeclaredRoots(roots))

MountInv ==
    /\ MountTypes
    /\ phase # "dead" /\ roots = <<>> => Probing
    /\ phase # "dead" /\ roots # <<>> => Walking

LEMMA ProbesAre == Probes \in Seq(ToSet(Probes)) /\ NP \in Nat /\ DOMAIN Probes = 1..NP
BY RegistrationAssumption DEF NP

LEMMA InitMount == Init => MountInv
<1> SUFFICES ASSUME Init PROVE MountInv
    OBVIOUS
<1>1. MountTypes
    BY DEF Init, MountTypes
<1>2. todo = [i \in 1..NP - 0 |-> ProbeTask(Probes[0 + i])]
    BY ProbesAre DEF Init
<1>3. Probing
    BY <1>2, ProbesAre DEF Init, Probing
<1> QED
    BY <1>1, <1>3 DEF Init, MountInv

\* The first task, and the others.
LEMMA NextTask ==
    ASSUME Walking, todo # <<>>
    PROVE  /\ Head(todo) \in Tasks /\ Tail(todo) \in Seq(Tasks)
           /\ todo = <<Head(todo)>> \o Tail(todo)
           /\ Pending(todo) = ExpandedEach[Head(todo)] \o Pending(Tail(todo))
<1>1. todo \in Seq(Tasks)
    BY DEF Walking
<1>2. Head(todo) \in Tasks /\ Tail(todo) \in Seq(Tasks) /\ todo = <<Head(todo)>> \o Tail(todo) /\ <<Head(todo)>> \in Seq(Tasks)
    BY <1>1
<1> QED
    BY <1>2, PendingIs

LEMMA TaskKinds ==
    ASSUME NEW t \in Tasks
    PROVE  /\ t.kind # "probe" /\ t.module \in Modules /\ t.prefix \in Seq(Segs)
           /\ t.kind = "module" => t = ModuleTask(t.module, t.prefix)
           /\ t.kind = "route" => t.route \in Rts /\ t = RouteTask(t.module, t.prefix, t.route)
BY DEF Tasks, RouteTasks, ModuleTasks, ModuleTask, RouteTask

LEMMA ProbeMounted ==
    ASSUME MountInv, MountProbe
    PROVE  MountInv'
<1>1. phase = "setup" /\ todo # <<>> /\ Head(todo).kind = "probe" /\ UNCHANGED <<guards, roots>>
    BY DEF MountProbe, appVars
<1>2. roots = <<>>
    BY <1>1, NextTask, TaskKinds DEF MountInv
<1>3. PICK n \in 0..NP : /\ Len(handlers) = n /\ todo = [i \in 1..NP - n |-> ProbeTask(Probes[n + i])]
                         /\ \A i \in 1..n : handlers[i].probe
    BY <1>1, <1>2 DEF MountInv, Probing
<1>4. n \in Nat /\ NP \in Nat /\ n < NP
    BY <1>1, <1>3, ProbesAre
<1>5. Head(todo) = ProbeTask(Probes[n + 1]) /\ n + 1 \in 1..NP
  <2>1. 1 \in 1..NP - n
    BY <1>4
  <2> QED
    BY <1>3, <1>4, <2>1
<1>6. Head(todo).prefix = Probes[n + 1] /\ Probes[n + 1] \in ToSet(Probes)
  <2>1. n + 1 \in DOMAIN Probes
    BY <1>5, ProbesAre
  <2>2. Probes[n + 1] \in ToSet(Probes)
    BY <2>1 DEF ToSet
  <2>3. ProbeTask(Probes[n + 1]).prefix = Probes[n + 1]
    BY DEF ProbeTask
  <2> QED
    BY <1>5, <2>2, <2>3
<1> DEFINE h == ProbeMount(Probes[n + 1])
<1>7. h \in AnyMounts /\ h.probe
    BY <1>6 DEF AnyMounts, ProbeMount
<1>8. CASE handlers' = Append(handlers, h) /\ todo' = Tail(todo) /\ UNCHANGED phase
  <2>1. handlers' \in Seq(AnyMounts) /\ Len(handlers') = n + 1 /\ \A i \in 1..n + 1 : handlers'[i].probe
    <3> HIDE DEF h
    <3> QED
      BY <1>3, <1>4, <1>7, <1>8 DEF MountInv, MountTypes
  <2>2. todo' = [i \in 1..NP - (n + 1) |-> ProbeTask(Probes[n + 1 + i])]
    <3>1. Tail(todo) = [i \in 1..(NP - n) - 1 |-> ProbeTask(Probes[n + (i + 1)])]
      BY <1>3, <1>4
    <3>2. (NP - n) - 1 = NP - (n + 1) /\ \A i \in 1..(NP - n) - 1 : n + (i + 1) = n + 1 + i
      BY <1>4
    <3> QED
      BY <1>8, <3>1, <3>2
  <2>3. Probing'
    BY <1>4, <2>1, <2>2 DEF Probing, NP
  <2> QED
    BY <1>1, <1>2, <1>8, <2>1, <2>3 DEF MountInv, MountTypes
<1>9. CASE phase' = "dead" /\ UNCHANGED <<handlers, todo>>
    BY <1>1, <1>9 DEF MountInv, MountTypes
<1> QED
    BY <1>6, <1>8, <1>9 DEF MountProbe, Add, ProbeMount

\* The walk is in the tree of a registered module.
LEMMA AtWork ==
    ASSUME MountInv, phase # "dead", todo # <<>>, Head(todo).kind # "probe"
    PROVE  roots # <<>> /\ Walking
<1> SUFFICES ASSUME roots = <<>> PROVE FALSE
    BY DEF MountInv
<1>1. PICK n \in 0..NP : todo = [i \in 1..NP - n |-> ProbeTask(Probes[n + i])]
    BY DEF MountInv, Probing
<1>2. Head(todo) = ProbeTask(Probes[n + 1])
  <2>1. 1 \in 1..NP - n
    BY <1>1, ProbesAre
  <2> QED
    BY <1>1, <2>1, ProbesAre
<1>3. ProbeTask(Probes[n + 1]).kind = "probe"
    BY DEF ProbeTask
<1> QED
    BY <1>2, <1>3

\* New has mounted every probe when main goes on.
LEMMA ProbesMounted ==
    ASSUME MountInv, phase # "dead", todo = <<>>, roots = <<>>
    PROVE  Len(handlers) = NP /\ \A i \in 1..NP : handlers[i].probe
<1>1. PICK n \in 0..NP : /\ Len(handlers) = n /\ todo = [i \in 1..NP - n |-> ProbeTask(Probes[n + i])]
                         /\ \A i \in 1..n : handlers[i].probe
    BY DEF MountInv, Probing
<1>2. n = NP
  <2>1. 1..NP - n = {}
    BY <1>1
  <2> QED
    BY <1>1, <2>1, ProbesAre
<1> QED
    BY <1>1, <1>2

LEMMA GuardMounted ==
    ASSUME MountInv, NEW g \in Global, Guard(g)
    PROVE  MountInv'
<1>1. guards' = Append(guards, g) /\ todo = <<>> /\ UNCHANGED <<roots, handlers, todo, phase>>
    BY DEF Guard, Idle
<1>2. guards' \in Seq(Gs)
    BY <1>1 DEF MountInv, MountTypes, Gs
<1>3. MountTypes'
    BY <1>1, <1>2 DEF MountInv, MountTypes
<1>4. Probing => Probing'
    BY <1>1 DEF Probing, NP
<1>5. ASSUME Walking PROVE Walking'
  <2>1. \A gs : Behind(gs, <<>>) = <<>>
    BY DEF Behind
  <2>2. Behind(guards, Pending(todo)) = <<>> /\ Behind(guards', Pending(todo')) = <<>>
    BY <1>1, <2>1, PendingIs
  <2>3. Mounted' = Mounted /\ roots' = roots
    BY <1>1 DEF Mounted
  <2>4. Mounted' \o Behind(guards', Pending(todo')) = FlattenSeq(DeclaredRoots(roots'))
    BY <1>5, <2>2, <2>3 DEF Walking
  <2> QED
    BY <1>1, <1>5, <2>4 DEF Walking
<1> QED
    BY <1>1, <1>3, <1>4, <1>5 DEF MountInv

LEMMA ListenMounted ==
    ASSUME MountInv, Listen
    PROVE  MountInv'
<1>1. phase' = "listening" /\ phase = "setup" /\ todo = <<>> /\ UNCHANGED <<guards, roots, handlers, todo>>
    BY DEF Listen, Idle, appVars
<1>2. (Probing => Probing') /\ (Walking => Walking')
    BY <1>1 DEF Probing, Walking, Mounted
<1> QED
    BY <1>1, <1>2 DEF MountInv, MountTypes

\* Behind guards, the whole is what its parts are.
LEMMA BehindCat ==
    ASSUME NEW gs \in Seq(Gs), NEW q \in Seq(Decls), NEW r \in Seq(Decls)
    PROVE  Behind(gs, q \o r) = Behind(gs, q) \o Behind(gs, r)
<1>1. Mapped(BehindEach(gs), q \o r) = Mapped(BehindEach(gs), q) \o Mapped(BehindEach(gs), r)
    BY MappedCat
<1>2. q \o r \in Seq(Decls)
    BY ConcatProperties
<1> QED
    BY <1>1, <1>2, BehindIs

LEMMA RootsType ==
    ASSUME NEW rs \in Seq(Roots)
    PROVE  /\ DeclaredRoots(rs) \in Seq(Seq(Mounts))
           /\ \A r \in Roots : DeclaredRoots(Append(rs, r)) =
                                   Append(DeclaredRoots(rs), Behind(r.guards, Declared[r.module]))
<1>1. ASSUME NEW r \in Roots PROVE Behind(r.guards, Declared[r.module]) \in Seq(Mounts)
  <2>1. r.guards \in Seq(Gs) /\ Declared[r.module] \in Seq(Decls)
    BY DeclaredIs DEF Roots
  <2> QED
    BY <2>1, BehindIs
<1>2. \A k \in DOMAIN rs : rs[k] \in Roots
    OBVIOUS
<1>3. DeclaredRoots(rs) \in Seq(Seq(Mounts)) /\ Len(DeclaredRoots(rs)) = Len(rs)
    BY <1>1, <1>2, EachType DEF DeclaredRoots
<1>4. ASSUME NEW r \in Roots
      PROVE  DeclaredRoots(Append(rs, r)) = Append(DeclaredRoots(rs), Behind(r.guards, Declared[r.module]))
  <2> DEFINE b == [x \in Roots |-> Behind(x.guards, Declared[x.module])]
  <2>1. \A q \in Seq(Roots) : DeclaredRoots(q) = Mapped(b, q)
    BY DEF DeclaredRoots, Mapped
  <2>2. Append(rs, r) = rs \o <<r>> /\ <<r>> \in Seq(Roots) /\ Append(rs, r) \in Seq(Roots)
    OBVIOUS
  <2>3. Mapped(b, <<r>>) = <<b[r]>>
    BY DEF Mapped
  <2> HIDE DEF b
  <2>4. Mapped(b, rs \o <<r>>) = Mapped(b, rs) \o Mapped(b, <<r>>)
    BY <2>2, MappedCat
  <2>5. DeclaredRoots(Append(rs, r)) = DeclaredRoots(rs) \o <<b[r]>>
    BY <2>1, <2>2, <2>3, <2>4
  <2>6. b[r] = Behind(r.guards, Declared[r.module])
    BY DEF b
  <2> QED
    BY <1>3, <2>5, <2>6
<1> QED
    BY <1>3, <1>4

LEMMA RegisterMounted ==
    ASSUME MountInv, NEW m \in Modules, Register(m)
    PROVE  MountInv'
<1> DEFINE r == [module |-> m, guards |-> guards]
<1>1. /\ phase = "setup" /\ todo = <<>> /\ roots' = Append(roots, r) /\ todo' = <<ModuleTask(m, <<>>)>>
      /\ UNCHANGED <<guards, handlers, phase>>
    BY DEF Register, Idle
<1>2. r \in Roots /\ r.guards = guards /\ r.module = m /\ guards \in Seq(Gs) /\ roots \in Seq(Roots)
    BY DEF MountInv, MountTypes, Roots
<1> HIDE DEF r
<1>3. MountTypes'
    BY <1>1, <1>2 DEF MountInv, MountTypes
<1>4. /\ Len(handlers) >= NP /\ \A i \in 1..Len(handlers) : handlers[i].probe <=> i <= NP
      /\ Mounted = FlattenSeq(DeclaredRoots(roots))
  <2>1. CASE roots = <<>>
    <3>1. Len(handlers) = NP /\ \A i \in 1..NP : handlers[i].probe
      BY <1>1, <2>1, ProbesMounted
    <3>2. Mounted = <<>>
      BY <3>1, ProbesAre DEF Mounted, MountInv, MountTypes
    <3>3. DeclaredRoots(roots) = <<>>
      BY <2>1 DEF DeclaredRoots
    <3> QED
      BY <3>1, <3>2, <3>3, FlatEmpty, ProbesAre
  <2>2. CASE roots # <<>>
    <3>1. Walking
      BY <1>1, <2>2 DEF MountInv
    <3>2. Behind(guards, Pending(todo)) = <<>>
      BY <1>1, PendingIs DEF Behind
    <3>3. Mounted \in Seq(AnyMounts)
      BY <3>1, ProbesAre, SubSeqProperties DEF Mounted, MountInv, MountTypes, Walking
    <3> QED
      BY <3>1, <3>2, <3>3, ConcatEmptySeq DEF Walking
  <2> QED
    BY <2>1, <2>2
<1>5. roots' # <<>> /\ roots'[Len(roots')] = r
    BY <1>1, <1>2
<1>6. <<>> \in Seq(Segs) /\ ModuleTask(m, <<>>) \in Tasks /\ todo' \in Seq(Tasks)
  <2>1. <<>> \in Seq(Segs)
    OBVIOUS
  <2>2. ModuleTask(m, <<>>) \in Tasks
    BY <2>1, TaskParts
  <2> QED
    BY <1>1, <2>1, <2>2
<1>7. Pending(todo') = Declared[m]
  <2>1. Pending(todo') = Under(<<>>, Declared[m])
    BY <1>1, <1>6, PendingIs, ExpandedIs
  <2> QED
    BY <2>1, DeclaredIs, UnderNothing
<1>8. Mounted' = Mounted
    BY <1>1 DEF Mounted
<1>9. Mounted' \o Behind(guards', Pending(todo')) = FlattenSeq(DeclaredRoots(roots'))
  <2>1. DeclaredRoots(roots') = Append(DeclaredRoots(roots), Behind(guards, Declared[m]))
    BY <1>1, <1>2, RootsType
  <2>2. Behind(guards, Declared[m]) \in Seq(Mounts) /\ DeclaredRoots(roots) \in Seq(Seq(Mounts))
    BY <1>2, RootsType, BehindIs, DeclaredIs
  <2>3. FlattenSeq(DeclaredRoots(roots')) = FlattenSeq(DeclaredRoots(roots)) \o Behind(guards, Declared[m])
    BY <2>1, <2>2, FlatAppend
  <2> QED
    BY <1>1, <1>4, <1>7, <1>8, <2>3
<1>10. Walking'
    BY <1>1, <1>2, <1>4, <1>5, <1>6, <1>9 DEF Walking
<1> QED
    BY <1>3, <1>5, <1>10 DEF MountInv

LEMMA EnterMounted ==
    ASSUME MountInv, EnterModule
    PROVE  MountInv'
<1>1. phase = "setup" /\ todo # <<>> /\ Head(todo).kind = "module" /\ UNCHANGED <<guards, roots, handlers, phase>>
    BY DEF EnterModule
<1>2. roots # <<>> /\ Walking
    BY <1>1, AtWork
<1> DEFINE t == Head(todo)
           m == t.module
           p == t.prefix
           ent == Entered(m, p \o Tree[m].prefix)
<1>3. todo' = ent \o Tail(todo)
  <2>1. todo' = [i \in DOMAIN Tree[m].routes |-> RouteTask(m, p \o Tree[m].prefix, Tree[m].routes[i])]
                \o [i \in DOMAIN Tree[m].modules |-> ModuleTask(Tree[m].modules[i], p \o Tree[m].prefix)]
                \o Tail(todo)
    BY DEF EnterModule
  <2> QED
    BY <2>1 DEF Entered
<1>4. t \in Tasks /\ Tail(todo) \in Seq(Tasks) /\ Pending(todo) = ExpandedEach[t] \o Pending(Tail(todo))
    BY <1>1, <1>2, NextTask
<1> HIDE DEF t
<1>5. m \in Modules /\ p \in Seq(Segs) /\ t = ModuleTask(m, p)
    BY <1>1, <1>4, TaskKinds DEF t
<1>6. ent \in Seq(Tasks) /\ Pending(ent) = ExpandedEach[t]
    BY <1>5, EnteredIs
<1> HIDE DEF ent
<1>7. todo' \in Seq(Tasks) /\ Pending(todo') = Pending(todo)
    BY <1>3, <1>4, <1>6, PendingIs, ConcatProperties
<1>8. Mounted' = Mounted
    BY <1>1 DEF Mounted
<1>9. Mounted' \o Behind(guards', Pending(todo')) = FlattenSeq(DeclaredRoots(roots'))
    BY <1>1, <1>2, <1>7, <1>8 DEF Walking
<1>10. Walking'
    BY <1>1, <1>2, <1>7, <1>9 DEF Walking
<1>11. MountTypes'
    BY <1>1 DEF MountInv, MountTypes
<1> QED
    BY <1>1, <1>2, <1>10, <1>11 DEF MountInv

\* registerRoute, without the panic: the handler is the next that was declared.
LEMMA RouteMounted ==
    ASSUME MountInv, MountRoute
    PROVE  MountInv'
<1>1. phase = "setup" /\ todo # <<>> /\ Head(todo).kind = "route" /\ UNCHANGED <<guards, roots>>
    BY DEF MountRoute, appVars
<1>2. roots # <<>> /\ Walking
    BY <1>1, AtWork
<1>3. guards \in Seq(Gs) /\ handlers \in Seq(AnyMounts) /\ MountTypes
    BY DEF MountInv, MountTypes
<1> DEFINE t == Head(todo)
           h == [method |-> t.route.method, pattern |-> t.prefix \o t.route.pattern,
                 guards |-> AllGuards(t.module, t.route), probe |-> FALSE]
<1>4. Add(t.route.method, t.prefix \o t.route.pattern, h)
    BY DEF MountRoute
<1>5. t \in Tasks /\ Tail(todo) \in Seq(Tasks) /\ Pending(todo) = ExpandedEach[t] \o Pending(Tail(todo))
    BY <1>1, <1>2, NextTask
<1>6. t.module \in Modules /\ t.prefix \in Seq(Segs) /\ t.route \in Rts /\ t = RouteTask(t.module, t.prefix, t.route)
  <2> HIDE DEF t
  <2> QED
    BY <1>1, <1>5, TaskKinds DEF t
<1>7. PICK m \in Modules, p \in Seq(Segs), r \in Rts :
          t = RouteTask(m, p, r) /\ t.module = m /\ t.prefix = p /\ t.route = r
    BY <1>6
<1> DEFINE d == [method |-> r.method, pattern |-> p \o r.pattern, guards |-> Tree[m].guards \o r.guards]
<1>8. ExpandedEach[t] = <<d>> /\ d \in Decls
  <2>1. ExpandedEach[RouteTask(m, p, r)] = <<d>> /\ d \in Decls
    BY ExpandedIs
  <2> HIDE DEF t, d
  <2> QED
    BY <1>7, <2>1
<1>9. h = [method |-> r.method, pattern |-> p \o r.pattern, guards |-> AllGuards(m, r), probe |-> FALSE]
    BY <1>7
<1> HIDE DEF h, t
<1>10. Behind(guards, <<d>>) = <<h>> /\ h \in Mounts /\ h.probe = FALSE
  <2>1. <<d>> \in Seq(Decls) /\ guards \in Seq(Gs) /\ Tree[m].guards \in Seq(Gs) /\ r.guards \in Seq(Gs)
    BY <1>3, <1>8, TreeTypes, RouteTypes
  <2>2. guards \o d.guards = AllGuards(m, r)
    BY <2>1, ThreeCat DEF AllGuards
  <2>3. BehindEach(guards)[d] = h
    BY <1>8, <1>9, <2>2 DEF BehindEach
  <2>4. BehindEach(guards) \in [Decls -> Mounts] /\ Behind(guards, <<d>>) = Mapped(BehindEach(guards), <<d>>)
    BY <2>1, BehindIs
  <2> HIDE DEF d
  <2>5. Mapped(BehindEach(guards), <<d>>) = <<BehindEach(guards)[d]>>
    BY DEF Mapped
  <2>6. h \in Mounts
    BY <1>8, <2>3, <2>4
  <2>7. h.probe = FALSE
    BY <1>9
  <2> QED
    BY <2>3, <2>4, <2>5, <2>6, <2>7
<1> HIDE DEF d
<1>11. CASE handlers' = Append(handlers, h) /\ todo' = Tail(todo) /\ UNCHANGED phase
  <2>1. handlers' \in Seq(AnyMounts) /\ Len(handlers') = Len(handlers) + 1
    BY <1>11, <1>10 DEF MountInv, MountTypes, AnyMounts
  <2>2. MountTypes'
    BY <1>1, <1>11, <2>1 DEF MountInv, MountTypes
  <2>3. Len(handlers) >= NP /\ Len(handlers) \in Nat /\ NP \in Nat
    BY <1>2, ProbesAre DEF Walking, MountInv, MountTypes
  <2>4. \A i \in 1..Len(handlers') : handlers'[i].probe <=> i <= NP
    BY <1>2, <1>11, <1>10, <2>1, <2>3 DEF Walking, MountInv, MountTypes
  <2>5. Mounted' = Mounted \o <<h>> /\ Mounted \in Seq(AnyMounts)
    <3>1. Mounted' = SubSeq(Append(handlers, h), NP + 1, Len(handlers) + 1)
      BY <1>11, <2>1 DEF Mounted, NP
    <3>2. h \in AnyMounts /\ handlers \in Seq(AnyMounts)
      BY <1>10 DEF MountInv, MountTypes, AnyMounts
    <3>3. Mounted = SubSeq(handlers, NP + 1, Len(handlers)) /\ Mounted \in Seq(AnyMounts)
      BY <2>3, <3>2, SubSeqProperties DEF Mounted
    <3>4. SubSeq(Append(handlers, h), NP + 1, Len(handlers) + 1) = SubSeq(handlers, NP + 1, Len(handlers)) \o <<h>>
      <4> DEFINE u == SubSeq(Append(handlers, h), NP + 1, Len(handlers) + 1)
                 v == SubSeq(handlers, NP + 1, Len(handlers)) \o <<h>>
      <4>1. u \in Seq(AnyMounts) /\ v \in Seq(AnyMounts) /\ Len(u) = Len(v)
        BY <2>3, <3>2
      <4>2. \A i \in 1..Len(u) : u[i] = v[i]
        BY <2>3, <3>2
      <4> HIDE DEF u, v
      <4>3. u = v
        BY <4>1, <4>2, SeqEqual
      <4> QED
        BY <4>3 DEF u, v
    <3> QED
      BY <3>1, <3>3, <3>4
  <2>6. Behind(guards, Pending(todo)) = <<h>> \o Behind(guards, Pending(Tail(todo)))
    <3>1. Pending(Tail(todo)) \in Seq(Decls) /\ <<d>> \in Seq(Decls) /\ guards \in Seq(Gs)
      <4>1. <<d>> \in Seq(Decls)
        BY <1>8
      <4>2. Pending(Tail(todo)) \in Seq(Decls)
        BY <1>5, PendingIs
      <4> QED
        BY <1>3, <4>1, <4>2
    <3>2. Behind(guards, <<d>> \o Pending(Tail(todo))) = Behind(guards, <<d>>) \o Behind(guards, Pending(Tail(todo)))
      BY <3>1, BehindCat
    <3> QED
      BY <1>5, <1>8, <1>10, <3>2
  <2>7. Mounted' \o Behind(guards', Pending(todo')) = FlattenSeq(DeclaredRoots(roots'))
    <3> DEFINE b == Behind(guards, Pending(Tail(todo)))
    <3>1. b \in Seq(Mounts)
      BY <1>5, PendingIs, BehindIs DEF MountInv, MountTypes
    <3>2. b \in Seq(AnyMounts) /\ <<h>> \in Seq(AnyMounts)
      BY <1>10, <3>1, SeqMonotonic DEF AnyMounts
    <3> HIDE DEF b
    <3>3. Mounted \o (<<h>> \o b) = (Mounted \o <<h>>) \o b
      BY <2>5, <3>2, ConcatAssociative
    <3>4. Mounted \o (<<h>> \o b) = FlattenSeq(DeclaredRoots(roots))
      BY <1>2, <2>6 DEF Walking, b
    <3> QED
      BY <1>1, <1>11, <2>5, <3>3, <3>4 DEF b
  <2>8. Walking'
    <3>1. todo # <<>> /\ (todo # <<>> => guards = roots[Len(roots)].guards)
      BY <1>1, <1>2 DEF Walking
    <3>2. todo' \in Seq(Tasks) /\ Len(handlers') >= NP /\ guards' = roots'[Len(roots')].guards
      BY <1>1, <1>5, <1>11, <2>1, <2>3, <3>1
    <3> QED
      BY <2>4, <2>7, <3>2 DEF Walking, NP
  <2> QED
    BY <1>1, <1>2, <2>2, <2>8 DEF MountInv
<1>12. CASE phase' = "dead" /\ UNCHANGED <<handlers, todo>>
    BY <1>1, <1>12 DEF MountInv, MountTypes
<1> QED
    BY <1>4, <1>11, <1>12 DEF Add

LEMMA NextMount == MountInv /\ [Next]_vars => MountInv'
<1> SUFFICES ASSUME MountInv, [Next]_vars PROVE MountInv'
    OBVIOUS
<1>1. CASE UNCHANGED vars
  <2>1. UNCHANGED <<guards, roots, handlers, todo, phase>>
    BY <1>1 DEF vars, appVars
  <2>2. (Probing => Probing') /\ (Walking => Walking')
    BY <2>1 DEF Probing, Walking, Mounted
  <2> QED
    BY <2>1, <2>2 DEF MountInv, MountTypes
<1> QED
    BY <1>1, ProbeMounted, EnterMounted, RouteMounted, ListenMounted, GuardMounted, RegisterMounted DEF Next

\* Guard only appends: what was global when a module was registered is what App.guards begins with.
KnownGuards ==
    \A k \in DOMAIN roots : /\ Len(roots[k].guards) <= Len(guards)
                            /\ roots[k].guards = SubSeq(guards, 1, Len(roots[k].guards))

LEMMA GuardLists ==
    ASSUME MountInv
    PROVE  guards \in Seq(Gs) /\ roots \in Seq(Roots) /\ \A k \in DOMAIN roots : roots[k].guards \in Seq(Gs)
<1>1. guards \in Seq(Gs) /\ roots \in Seq(Roots)
    BY DEF MountInv, MountTypes
<1>2. \A k \in DOMAIN roots : roots[k] \in Roots
    BY <1>1
<1>3. \A r \in Roots : r.guards \in Seq(Gs)
    BY DEF Roots
<1> QED
    BY <1>1, <1>2, <1>3

LEMMA InitKnown == Init => KnownGuards
BY DEF Init, KnownGuards

LEMMA NextKnown ==
    ASSUME MountInv, KnownGuards, [Next]_vars
    PROVE  KnownGuards'
<1>1. guards \in Seq(Gs) /\ roots \in Seq(Roots) /\ \A k \in DOMAIN roots : roots[k].guards \in Seq(Gs)
    BY GuardLists
<1>2. ASSUME NEW g \in Global, Guard(g) PROVE KnownGuards'
  <2>1. guards' = Append(guards, g) /\ roots' = roots /\ g \in Gs
    BY <1>2 DEF Guard, Gs
  <2>2. Len(guards') = Len(guards) + 1 /\ guards' \in Seq(Gs) /\ \A i \in 1..Len(guards) : guards'[i] = guards[i]
    BY <1>1, <2>1
  <2>3. ASSUME NEW k \in DOMAIN roots
        PROVE  /\ Len(roots[k].guards) <= Len(guards')
               /\ roots[k].guards = SubSeq(guards', 1, Len(roots[k].guards))
    <3> DEFINE n == Len(roots[k].guards)
    <3>1. n \in Nat /\ n <= Len(guards) /\ Len(guards) \in Nat /\ roots[k].guards = SubSeq(guards, 1, n)
      BY <1>1, <2>3 DEF KnownGuards
    <3> HIDE DEF n
    <3>2. SubSeq(guards, 1, n) \in Seq(Gs) /\ SubSeq(guards', 1, n) \in Seq(Gs)
      BY <1>1, <2>2, <3>1, SubSeqProperties
    <3>3. Len(SubSeq(guards, 1, n)) = n /\ Len(SubSeq(guards', 1, n)) = n
      BY <1>1, <2>2, <3>1
    <3>4. \A i \in 1..n : SubSeq(guards, 1, n)[i] = SubSeq(guards', 1, n)[i]
      BY <1>1, <2>2, <3>1
    <3>5. SubSeq(guards, 1, n) = SubSeq(guards', 1, n)
      BY <3>2, <3>3, <3>4, SeqEqual
    <3> QED
      BY <2>2, <3>1, <3>5 DEF n
  <2> QED
    BY <2>1, <2>3 DEF KnownGuards
<1>3. ASSUME NEW m \in Modules, Register(m) PROVE KnownGuards'
  <2>1. roots' = Append(roots, [module |-> m, guards |-> guards]) /\ guards' = guards
    BY <1>3 DEF Register
  <2>2. Len(guards) \in Nat /\ SubSeq(guards, 1, Len(guards)) = guards
    <3>1. Len(guards) \in Nat /\ SubSeq(guards, 1, Len(guards)) \in Seq(Gs) /\ Len(SubSeq(guards, 1, Len(guards))) = Len(guards)
      BY <1>1
    <3>2. \A i \in 1..Len(guards) : SubSeq(guards, 1, Len(guards))[i] = guards[i]
      BY <1>1
    <3> QED
      BY <1>1, <3>1, <3>2, SeqEqual
  <2>3. DOMAIN roots' = DOMAIN roots \cup {Len(roots) + 1}
    BY <1>1, <2>1
  <2>4. \A k \in DOMAIN roots : roots'[k] = roots[k]
    BY <1>1, <2>1
  <2>5. roots'[Len(roots) + 1].guards = guards
    BY <1>1, <2>1
  <2>6. ASSUME NEW k \in DOMAIN roots'
        PROVE  /\ Len(roots'[k].guards) <= Len(guards)
               /\ roots'[k].guards = SubSeq(guards, 1, Len(roots'[k].guards))
    <3>1. CASE k \in DOMAIN roots
      BY <2>4, <3>1 DEF KnownGuards
    <3>2. CASE k = Len(roots) + 1
      BY <2>2, <2>5, <3>2
    <3> QED
      BY <2>3, <3>1, <3>2
  <2> QED
    BY <2>1, <2>6 DEF KnownGuards
<1>4. CASE MountProbe \/ EnterModule \/ MountRoute \/ Listen \/ UNCHANGED vars
  <2>1. UNCHANGED <<guards, roots>>
    BY <1>4 DEF MountProbe, EnterModule, MountRoute, Listen, vars, appVars
  <2> QED
    BY <2>1 DEF KnownGuards
<1> QED
    BY <1>2, <1>3, <1>4 DEF Next

LEMMA MountedExactly ==
    ASSUME MountInv, phase = "listening"
    PROVE  Mounted = FlattenSeq(DeclaredRoots(roots))
<1>1. todo = <<>> /\ Behind(guards, Pending(todo)) = <<>>
  BY PendingIs DEF MountInv, MountTypes, Behind
<1>2. CASE roots = <<>>
  <2>1. PICK n \in 0..NP : Len(handlers) = n
    BY <1>2 DEF MountInv, Probing
  <2>2. Mounted = <<>>
    BY <2>1, ProbesAre DEF Mounted, MountInv, MountTypes
  <2>3. DeclaredRoots(roots) = <<>>
    BY <1>2 DEF DeclaredRoots
  <2> QED
    BY <2>2, <2>3, FlatEmpty
<1>3. CASE roots # <<>>
  <2>1. Walking
    BY <1>3 DEF MountInv
  <2>2. Mounted \in Seq(AnyMounts)
    BY <2>1, ProbesAre, SubSeqProperties DEF Mounted, MountInv, MountTypes, Walking
  <2> QED
    BY <1>1, <2>1, <2>2, ConcatEmptySeq DEF Walking
<1> QED
  BY <1>2, <1>3

\* While main sets up and when it listens: of what the registered modules declare, what is not mounted is to do,
\* behind the guards that were global when the module was registered.
THEOREM MountedAsDeclaredAlways == Spec => []MountedAsDeclared
<1>1. ASSUME MountInv, KnownGuards, phase = "listening" PROVE MountedAsDeclared
  <2> DEFINE known == [k \in DOMAIN roots |-> Len(roots[k].guards)]
             behind == [k \in DOMAIN roots |-> Behind(SubSeq(guards, 1, known[k]), Declared[roots[k].module])]
  <2>1. Mounted = FlattenSeq(DeclaredRoots(roots))
    BY <1>1, MountedExactly
  <2>2. guards \in Seq(Gs) /\ \A k \in DOMAIN roots : roots[k].guards \in Seq(Gs)
    BY <1>1, GuardLists
  <2>3. known \in [DOMAIN roots -> 0..Len(guards)]
    BY <1>1, <2>2 DEF KnownGuards
  <2>4. behind = DeclaredRoots(roots)
    BY <1>1 DEF KnownGuards, DeclaredRoots
  <2>5. \A k \in DOMAIN roots : known[k] >= Len(roots[k].guards)
    BY <2>2
  <2>6. SubSeq(handlers, Len(Probes) + 1, Len(handlers)) = FlattenSeq(behind)
    BY <2>1, <2>4 DEF Mounted, NP
  <2> HIDE DEF known
  <2> QED
    BY <2>3, <2>5, <2>6 DEF MountedAsDeclared
<1>2. MountInv /\ KnownGuards => MountedAsDeclared
    BY <1>1 DEF MountedAsDeclared
<1> QED
    BY <1>2, InitMount, NextMount, InitKnown, NextKnown, PTL DEF Spec

\* What the registered modules declare, behind guards, is declared by a module.
LEMMA DeclaredByOne ==
    ASSUME NEW rs \in Seq(Roots), NEW j \in DOMAIN FlattenSeq(DeclaredRoots(rs))
    PROVE  \E m \in Modules : \E d \in ToSet(Declared[m]) :
               /\ FlattenSeq(DeclaredRoots(rs))[j].method = d.method
               /\ FlattenSeq(DeclaredRoots(rs))[j].pattern = d.pattern
<1> DEFINE D == DeclaredRoots(rs)
<1>1. D \in Seq(Seq(Mounts))
    BY RootsType
<1>2. \A k \in DOMAIN D : k \in DOMAIN rs /\ D[k] = Behind(rs[k].guards, Declared[rs[k].module])
    BY DEF DeclaredRoots
<1> HIDE DEF D
<1>3. PICK k \in DOMAIN D : \E i \in DOMAIN D[k] : FlattenSeq(D)[j] = D[k][i]
    BY <1>1, FlatItem DEF D
<1>4. PICK i \in DOMAIN D[k] : FlattenSeq(D)[j] = D[k][i]
    BY <1>3
<1> DEFINE m == rs[k].module
           q == Declared[m]
<1>5. m \in Modules /\ q \in Seq(Decls)
  <2>1. rs[k] \in Roots
    BY <1>2
  <2> QED
    BY <2>1, DeclaredIs DEF Roots
<1> HIDE DEF m
<1>6. i \in DOMAIN q /\ D[k][i].method = q[i].method /\ D[k][i].pattern = q[i].pattern
  <2> DEFINE gs == rs[k].guards
  <2>1. D[k] = Behind(gs, q)
    BY <1>2 DEF m
  <2> HIDE DEF gs, q
  <2>2. i \in DOMAIN q
    BY <2>1 DEF Behind
  <2>3. D[k][i] = [method |-> q[i].method, pattern |-> q[i].pattern, guards |-> gs \o q[i].guards, probe |-> FALSE]
    BY <2>1, <2>2 DEF Behind
  <2> QED
    BY <2>2, <2>3
<1>7. q[i] \in ToSet(q)
    BY <1>6 DEF ToSet
<1> QED
    BY <1>4, <1>5, <1>6, <1>7 DEF D

-----------------------------------------------------------------------------
(* What the table and the document know of the handlers.                      *)

Docs == [method : Verbs, path : {OpenAPIPath(s) : s \in Seq(Segs)}, guards : Seq(Gs)]
Entry(h) == [method |-> h.method, path |-> OpenAPIPath(h.pattern), guards |-> h.guards]

\* The router has, for a method and a pattern, the last handler that was given for it.
Tabled ==
    /\ adds = Len(handlers) /\ routes \in [Method -> [Patterns -> Nat]]
    /\ \A h \in DOMAIN handlers :
          /\ handlers[h].pattern # <<>> /\ handlers[h].method \in Method /\ Routed(handlers[h].pattern) \in Patterns
          /\ h <= routes[handlers[h].method][Routed(handlers[h].pattern)]
    /\ \A m \in Method, p \in Patterns : routes[m][p] # 0 =>
          /\ routes[m][p] \in DOMAIN handlers
          /\ handlers[routes[m][p]].method = m /\ Routed(handlers[routes[m][p]].pattern) = p

\* Every scheme an entry needs is defined.
Defined == \A i \in DOMAIN spec : Schemes(spec[i].guards) \subseteq DOMAIN schemes

\* The entries are those of the routes' handlers.
Recorded ==
    /\ roots = <<>> => spec = <<>>
    /\ roots # <<>> => Len(spec) + NP = Len(handlers) /\ \A i \in DOMAIN spec : spec[i] = Entry(handlers[NP + i])

DocInv ==
    /\ MountInv /\ spec \in Seq(Docs)
    /\ Tabled /\ Defined
    /\ phase # "dead" => Recorded

LEMMA InitDoc == Init => DocInv
<1> SUFFICES ASSUME Init PROVE DocInv
    OBVIOUS
<1>1. Tabled
  <2>1. adds = 0 /\ handlers = <<>> /\ routes = [m \in Method |-> [p \in Patterns |-> 0]]
    BY DEF Init, TableInit
  <2> QED
    BY <2>1 DEF Tabled
<1>2. spec = <<>> /\ roots = <<>>
    BY DEF Init
<1> QED
    BY <1>1, <1>2, InitMount DEF DocInv, Defined, Recorded

\* Add is given a handler for a pattern the table has a place for.
LEMMA AddTabled ==
    ASSUME MountInv, Tabled, NEW h \in AnyMounts, Routed(h.pattern) \in Patterns \/ ~Addable(h.method, h.pattern),
           Add(h.method, h.pattern, h)
    PROVE  Tabled'
<1>1. CASE Addable(h.method, h.pattern)
  <2> DEFINE n == Len(handlers) + 1
             p == Routed(h.pattern)
             m == h.method
  <2>1. /\ handlers' = Append(handlers, h) /\ adds' = adds + 1 /\ routes' = [routes EXCEPT ![m][p] = adds + 1]
        /\ h.pattern # <<>> /\ m \in Method /\ p \in Patterns
    BY <1>1 DEF Add, Addable, TableAdd
  <2>2. handlers \in Seq(AnyMounts) /\ adds = Len(handlers) /\ routes \in [Method -> [Patterns -> Nat]]
    BY DEF MountInv, MountTypes, Tabled
  <2>3. n \in Nat \ {0} /\ Len(handlers') = n /\ handlers'[n] = h /\ \A i \in DOMAIN handlers : handlers'[i] = handlers[i] /\ i < n
    BY <2>1, <2>2
  <2>4. DOMAIN handlers' = 1..n /\ DOMAIN handlers = 1..n - 1
    BY <2>1, <2>2
  <2> HIDE DEF n, p, m
  <2>5. routes' \in [Method -> [Patterns -> Nat]] /\ adds' = n
    BY <2>1, <2>2, <2>3 DEF n
  <2>6. /\ routes'[m][p] = n
        /\ \A m1 \in Method, p1 \in Patterns : (m1 = m /\ p1 = p) \/ routes'[m1][p1] = routes[m1][p1]
    BY <2>1, <2>2 DEF n
  <2>7. ASSUME NEW i \in 1..n
        PROVE  /\ handlers'[i].pattern # <<>> /\ handlers'[i].method \in Method /\ Routed(handlers'[i].pattern) \in Patterns
               /\ i <= routes'[handlers'[i].method][Routed(handlers'[i].pattern)]
    <3>1. CASE i = n
      BY <2>1, <2>3, <2>6, <3>1 DEF m, p
    <3>2. CASE i # n
      <4>1. i \in DOMAIN handlers /\ handlers'[i] = handlers[i] /\ i < n
        BY <2>3, <2>4, <3>2
      <4> DEFINE m1 == handlers[i].method
                 p1 == Routed(handlers[i].pattern)
      <4>2. handlers[i].pattern # <<>> /\ m1 \in Method /\ p1 \in Patterns /\ i <= routes[m1][p1]
        BY <4>1 DEF Tabled
      <4> HIDE DEF m1, p1
      <4>3. i <= routes'[m1][p1]
        BY <2>3, <2>6, <4>1, <4>2
      <4> QED
        BY <4>1, <4>2, <4>3 DEF m1, p1
    <3> QED
      BY <3>1, <3>2
  <2>8. ASSUME NEW m1 \in Method, NEW p1 \in Patterns, routes'[m1][p1] # 0
        PROVE  /\ routes'[m1][p1] \in DOMAIN handlers'
               /\ handlers'[routes'[m1][p1]].method = m1 /\ Routed(handlers'[routes'[m1][p1]].pattern) = p1
    <3>1. CASE m1 = m /\ p1 = p
      <4>1. n \in 1..n
        BY <2>3, <2>4
      <4> QED
        BY <2>3, <2>4, <2>6, <3>1, <4>1 DEF m, p
    <3>2. CASE routes'[m1][p1] = routes[m1][p1]
      <4> DEFINE i == routes[m1][p1]
      <4>1. i \in DOMAIN handlers /\ handlers[i].method = m1 /\ Routed(handlers[i].pattern) = p1
        BY <2>8, <3>2 DEF Tabled
      <4> HIDE DEF i
      <4>2. i \in DOMAIN handlers' /\ handlers'[i] = handlers[i]
        BY <2>3, <2>4, <4>1
      <4> QED
        BY <3>2, <4>1, <4>2 DEF i
    <3> QED
      BY <2>6, <3>1, <3>2
  <2> QED
    BY <2>3, <2>4, <2>5, <2>7, <2>8 DEF Tabled
<1>2. CASE ~Addable(h.method, h.pattern)
    BY <1>2 DEF Add, tableVars, Tabled
<1> QED
    BY <1>1, <1>2

LEMMA ProbeDoc ==
    ASSUME DocInv, MountProbe
    PROVE  DocInv'
<1>1. phase = "setup" /\ todo # <<>> /\ Head(todo).kind = "probe" /\ UNCHANGED <<guards, roots, spec, schemes>>
    BY DEF MountProbe, appVars, docVars
<1>2. MountInv /\ MountInv' /\ Tabled /\ Recorded
    BY <1>1, ProbeMounted DEF DocInv
<1>3. roots = <<>>
    BY <1>1, <1>2, NextTask, TaskKinds DEF MountInv
<1>4. PICK n \in 0..NP : /\ Len(handlers) = n /\ todo = [i \in 1..NP - n |-> ProbeTask(Probes[n + i])]
    BY <1>1, <1>2, <1>3 DEF MountInv, Probing
<1>5. Head(todo) = ProbeTask(Probes[n + 1]) /\ n + 1 \in DOMAIN Probes
  <2>1. 1 \in 1..NP - n /\ n + 1 \in DOMAIN Probes
    BY <1>1, <1>4, ProbesAre
  <2> QED
    BY <1>4, <2>1, ProbesAre
<1> DEFINE s == Probes[n + 1]
           h == ProbeMount(s)
<1>6. Head(todo).prefix = s /\ s \in ToSet(Probes)
  <2>1. ProbeTask(s).prefix = s
    BY DEF ProbeTask
  <2> QED
    BY <1>5, <2>1 DEF ToSet
<1>7. h \in AnyMounts /\ h.method = "GET" /\ h.pattern = s /\ Routed(s) \in Patterns
    BY <1>6, RegistrationAssumption DEF AnyMounts, ProbeMount
<1>8. Add("GET", s, h)
    BY <1>6 DEF MountProbe, ProbeMount
<1> HIDE DEF h, s
<1>9. Tabled'
    BY <1>2, <1>7, <1>8, AddTabled
<1> QED
    BY <1>1, <1>2, <1>3, <1>9 DEF DocInv, Defined, Recorded

\* What registerRoute records and what it hands to the router.
LEMMA RouteStep ==
    ASSUME MountInv, MountRoute
    PROVE  \E h \in Mounts : /\ Add(h.method, h.pattern, h)
                             /\ spec' = Append(spec, Entry(h)) /\ Entry(h) \in Docs
                             /\ DOMAIN schemes' = DOMAIN schemes \cup Schemes(h.guards)
                             /\ (Addable(h.method, h.pattern) => Routed(h.pattern) \in Patterns)
<1>1. phase = "setup" /\ todo # <<>> /\ Head(todo).kind = "route" /\ UNCHANGED <<guards, roots>>
    BY DEF MountRoute, appVars
<1>2. roots # <<>> /\ Walking /\ guards \in Seq(Gs)
    BY <1>1, AtWork DEF MountInv, MountTypes
<1> DEFINE t == Head(todo)
           h == [method |-> t.route.method, pattern |-> t.prefix \o t.route.pattern,
                 guards |-> AllGuards(t.module, t.route), probe |-> FALSE]
<1>3. /\ Add(t.route.method, t.prefix \o t.route.pattern, h)
      /\ spec' = Append(spec, [method |-> t.route.method, path |-> OpenAPIPath(t.prefix \o t.route.pattern),
                               guards |-> AllGuards(t.module, t.route)])
      /\ SchemesOf(AllGuards(t.module, t.route))
    BY DEF MountRoute, Documented
<1>4. t \in Tasks
    BY <1>1, <1>2, NextTask
<1>5. t.module \in Modules /\ t.prefix \in Seq(Segs) /\ t.route \in Rts
  <2> HIDE DEF t
  <2> QED
    BY <1>1, <1>4, TaskKinds DEF t
<1>6. /\ h.method = t.route.method /\ h.pattern = t.prefix \o t.route.pattern
      /\ h.guards = AllGuards(t.module, t.route)
    OBVIOUS
<1>7. h \in Mounts
  <2>1. t.route.method \in Verbs /\ t.route.pattern \in Seq(Segs) /\ t.route.guards \in Seq(Gs)
        /\ Tree[t.module].guards \in Seq(Gs)
    BY <1>5, RouteTypes, TreeTypes
  <2>2. t.prefix \o t.route.pattern \in Seq(Segs) /\ AllGuards(t.module, t.route) \in Seq(Gs)
    BY <1>2, <1>5, <2>1, ConcatProperties DEF AllGuards
  <2> QED
    BY <2>1, <2>2 DEF Mounts
<1> HIDE DEF h, t
<1>8. Entry(h) \in Docs
    BY <1>7 DEF Entry, Docs, Mounts
<1>9. Add(h.method, h.pattern, h) /\ spec' = Append(spec, Entry(h)) /\ SchemesOf(h.guards)
    BY <1>3, <1>6 DEF Entry
<1>10. DOMAIN schemes' = DOMAIN schemes \cup Schemes(h.guards)
    BY <1>9 DEF SchemesOf
<1>11. PICK m \in Modules : \E d \in ToSet(Declared[m]) : h.method = d.method /\ h.pattern = d.pattern
  <2> DEFINE d1 == DeclaredBy(t)
             rest == Pending(Tail(todo))
             all == FlattenSeq(DeclaredRoots(roots))
             b == Behind(guards, <<d1>> \o rest)
             n == Len(Mounted) + 1
  <2>1. ExpandedEach[t] = <<d1>> /\ h.method = d1.method /\ h.pattern = d1.pattern
    BY <1>1, <1>4, <1>6 DEF ExpandedEach, Expanded, DeclaredBy, t
  <2>2. Pending(todo) = <<d1>> \o rest /\ rest \in Seq(Decls) /\ Pending(todo) \in Seq(Decls)
    BY <1>1, <1>2, <2>1, NextTask, PendingIs DEF Walking, t
  <2>3. d1 \in Decls
    <3>1. <<d1>> \in Seq(Decls)
      BY <1>4, <2>1, ExpandedType
    <3> HIDE DEF d1
    <3>2. <<d1>>[1] \in Decls
      BY <3>1
    <3> QED
      BY <3>2
  <2>4. handlers \in Seq(AnyMounts) /\ Mounted \o b = all /\ roots \in Seq(Roots)
    BY <1>2, <2>2 DEF MountInv, MountTypes, Walking
  <2>5. Mounted \in Seq(AnyMounts)
    BY <1>2, <2>4, ProbesAre, SubSeqProperties DEF Mounted, Walking
  <2>6. b \in Seq(Mounts)
    BY <1>2, <2>2, BehindIs
  <2> HIDE DEF d1, rest
  <2>7. 1 \in DOMAIN b /\ b[1].method = d1.method /\ b[1].pattern = d1.pattern
    <3>1. 1 \in DOMAIN (<<d1>> \o rest) /\ (<<d1>> \o rest)[1] = d1
      BY <2>2, <2>3
    <3> QED
      BY <3>1 DEF Behind
  <2> HIDE DEF b, all
  <2>8. n \in DOMAIN all /\ all[n] = b[1]
    <3>1. n \in DOMAIN (Mounted \o b) /\ (Mounted \o b)[n] = b[1]
      BY <2>5, <2>6, <2>7
    <3> QED
      BY <2>4, <3>1
  <2> QED
    BY <2>1, <2>4, <2>7, <2>8, DeclaredByOne DEF all
<1>12. ASSUME Addable(h.method, h.pattern) PROVE Routed(h.pattern) \in Patterns
  <2>1. PICK d \in ToSet(Declared[m]) : h.method = d.method /\ h.pattern = d.pattern
    BY <1>11
  <2>2. h.pattern # <<>> /\ h.method \in Method /\ WellFormed(Routed(h.pattern))
    BY <1>12 DEF Addable, Accepts
  <2> QED
    BY <2>1, <2>2, RegistrationAssumption
<1> QED
    BY <1>7, <1>8, <1>9, <1>10, <1>12

LEMMA RouteDoc ==
    ASSUME DocInv, MountRoute
    PROVE  DocInv'
<1>1. phase = "setup" /\ todo # <<>> /\ Head(todo).kind = "route" /\ UNCHANGED <<guards, roots>>
    BY DEF MountRoute, appVars
<1>2. MountInv /\ MountInv' /\ Tabled /\ Recorded /\ Defined /\ spec \in Seq(Docs)
    BY <1>1, RouteMounted DEF DocInv
<1>3. roots # <<>> /\ Walking
    BY <1>1, <1>2, AtWork
<1>4. PICK h \in Mounts : /\ Add(h.method, h.pattern, h)
                          /\ spec' = Append(spec, Entry(h)) /\ Entry(h) \in Docs
                          /\ DOMAIN schemes' = DOMAIN schemes \cup Schemes(h.guards)
                          /\ (Addable(h.method, h.pattern) => Routed(h.pattern) \in Patterns)
    BY <1>2, RouteStep
<1>5. spec' \in Seq(Docs)
    BY <1>2, <1>4
<1>6. Defined'
  <2>1. Entry(h).guards = h.guards
    BY DEF Entry
  <2>2. Len(spec) \in Nat /\ \A i \in DOMAIN spec' : (i \in DOMAIN spec /\ spec'[i] = spec[i]) \/ spec'[i] = Entry(h)
    BY <1>2, <1>4
  <2> QED
    BY <1>2, <1>4, <2>1, <2>2 DEF Defined
<1>7. Tabled'
  <2>1. h \in AnyMounts
    BY DEF AnyMounts
  <2> QED
    BY <1>2, <1>4, <2>1, AddTabled
<1>8. ASSUME phase' # "dead" PROVE Recorded'
  <2>1. handlers' = Append(handlers, h) /\ roots' # <<>>
    BY <1>1, <1>3, <1>4, <1>8 DEF Add
  <2>2. handlers \in Seq(AnyMounts) /\ NP \in Nat /\ Len(spec) + NP = Len(handlers)
    BY <1>2, <1>3, ProbesAre DEF MountInv, MountTypes, Recorded
  <2>3. Len(handlers') = Len(handlers) + 1 /\ Len(spec') = Len(spec) + 1
    BY <1>2, <1>4, <2>1, <2>2
  <2>4. ASSUME NEW i \in DOMAIN spec' PROVE spec'[i] = Entry(handlers'[NP + i])
    <3>1. CASE i = Len(spec) + 1
      <4>1. spec'[i] = Entry(h) /\ handlers'[NP + i] = h
        BY <1>2, <1>4, <2>1, <2>2, <3>1
      <4> QED
        BY <4>1
    <3>2. CASE i # Len(spec) + 1
      <4>1. i \in DOMAIN spec /\ spec'[i] = spec[i] /\ handlers'[NP + i] = handlers[NP + i]
        BY <1>2, <1>4, <2>1, <2>2, <3>2
      <4> QED
        BY <1>2, <1>3, <4>1 DEF Recorded
    <3> QED
      BY <3>1, <3>2
  <2> QED
    BY <2>1, <2>2, <2>3, <2>4 DEF Recorded, NP
<1> QED
    BY <1>2, <1>5, <1>6, <1>7, <1>8 DEF DocInv

LEMMA OtherDoc ==
    ASSUME DocInv, MountInv', UNCHANGED <<routes, adds, docVars, handlers>>, phase' = "dead" \/ phase # "dead",
           UNCHANGED roots \/ (Idle /\ roots' # <<>>)
    PROVE  DocInv'
<1>1. Tabled' /\ Defined' /\ spec' \in Seq(Docs)
    BY DEF DocInv, Tabled, Defined, docVars
<1>2. ASSUME phase' # "dead" PROVE Recorded'
  <2>1. phase # "dead" /\ Recorded /\ UNCHANGED <<spec, handlers>>
    BY <1>2 DEF DocInv, docVars
  <2>2. CASE UNCHANGED roots
    BY <2>1, <2>2 DEF Recorded, NP
  <2>3. CASE Idle /\ roots' # <<>> /\ roots # <<>>
    BY <2>1, <2>3 DEF Recorded, NP
  <2>4. CASE Idle /\ roots' # <<>> /\ roots = <<>>
    <3>1. Len(handlers) = NP /\ spec = <<>>
      BY <2>1, <2>4, ProbesMounted DEF Idle, DocInv, Recorded
    <3>2. Len(spec) + NP = Len(handlers)
      BY <3>1, ProbesAre
    <3> QED
      BY <2>1, <2>4, <3>1, <3>2 DEF Recorded, NP
  <2> QED
    BY <2>2, <2>3, <2>4
<1> QED
    BY <1>1, <1>2 DEF DocInv

LEMMA NextDoc == DocInv /\ [Next]_vars => DocInv'
<1> SUFFICES ASSUME DocInv, [Next]_vars PROVE DocInv'
    OBVIOUS
<1>1. MountInv /\ MountInv'
    BY NextMount DEF DocInv
<1>2. CASE EnterModule
    BY <1>1, <1>2, OtherDoc DEF EnterModule, tableVars
<1>3. CASE Listen
    BY <1>1, <1>3, OtherDoc DEF Listen, Idle, TableSeal, appVars
<1>4. ASSUME NEW g \in Global, Guard(g) PROVE DocInv'
    BY <1>1, <1>4, OtherDoc DEF Guard, Idle, tableVars
<1>5. ASSUME NEW m \in Modules, Register(m) PROVE DocInv'
  <2>1. roots' # <<>>
    BY <1>5 DEF Register, DocInv, MountInv, MountTypes
  <2> QED
    BY <1>1, <1>5, <2>1, OtherDoc DEF Register, Idle, tableVars
<1>6. CASE UNCHANGED vars
    BY <1>1, <1>6, OtherDoc DEF vars, appVars, tableVars
<1> QED
    BY <1>2, <1>3, <1>4, <1>5, <1>6, ProbeDoc, RouteDoc DEF Next

-----------------------------------------------------------------------------
(* Which entry stays, and which handler.                                      *)

LEMMA LastEntry ==
    ASSUME spec \in Seq(Docs), NEW op \in Documents
    PROVE  \E i \in Entries(op[1], op[2]) : /\ \A j \in Entries(op[1], op[2]) : j <= i
                                            /\ Operation(op) = Schemes(spec[i].guards)
                                            /\ op = <<spec[i].path, spec[i].method>>
<1> DEFINE E == Entries(op[1], op[2])
           back == {n \in Nat : Len(spec) - n \in E}
           last(i) == \A j \in E : j <= i
<1>1. Len(spec) \in Nat /\ E \subseteq 1..Len(spec)
    BY DEF Entries
<1>2. PICK k \in DOMAIN spec : op = <<spec[k].path, spec[k].method>>
    BY DEF Documents
<1>3. k \in E
    BY <1>2 DEF Entries
<1>4. Len(spec) - k \in back
    BY <1>1, <1>3
<1>5. PICK n \in back : \A x \in back : n <= x
    BY <1>4, Least
<1>6. \A j \in E : Len(spec) - j \in back
    BY <1>1
<1>7. Len(spec) - n \in E /\ last(Len(spec) - n)
  <2>1. \A j \in E : j \in Int /\ n <= Len(spec) - j
    BY <1>1, <1>5, <1>6
  <2>2. Len(spec) - n \in E /\ n \in Nat
    BY <1>5
  <2> HIDE DEF E, back
  <2> QED
    BY <1>1, <2>1, <2>2
<1> DEFINE i == CHOOSE i \in E : last(i)
<1>8. i \in E /\ last(i)
  <2> HIDE DEF E, last
  <2> QED
    BY <1>7
<1>9. Operation(op) = Schemes(spec[i].guards)
    BY DEF Operation
<1>10. op = <<spec[i].path, spec[i].method>>
  <2>1. spec[i].path = op[1] /\ spec[i].method = op[2]
    BY <1>8 DEF Entries
  <2> QED
    BY <1>2, <2>1
<1> HIDE DEF i
<1> QED
    BY <1>8, <1>9, <1>10

\* A pattern that begins with a slash is what Add reads of it.
LEMMA RoutedOnce ==
    ASSUME NEW s, NEW t, s # <<>>, t # <<>>, Routed(s) = Routed(t)
    PROVE  s = t
BY DEF Routed

\* The handler of the last entry is the one the router has.
LEMMA LastLive ==
    ASSUME DocInv, phase # "dead", NEW op \in Documents
    PROVE  \E h \in DOMAIN handlers : /\ Live(h) /\ ~handlers[h].probe /\ DocumentedAs(h) = op
                                      /\ Operation(op) = Schemes(handlers[h].guards)
<1>1. PICK i \in Entries(op[1], op[2]) : /\ \A j \in Entries(op[1], op[2]) : j <= i
                                         /\ Operation(op) = Schemes(spec[i].guards)
                                         /\ op = <<spec[i].path, spec[i].method>>
    BY LastEntry DEF DocInv
<1>2. i \in DOMAIN spec /\ spec \in Seq(Docs) /\ Recorded /\ Tabled /\ MountInv
    BY <1>1 DEF Entries, DocInv
<1>3. roots # <<>>
    BY <1>2 DEF Recorded
<1>4. Walking /\ handlers \in Seq(AnyMounts) /\ NP \in Nat
    BY <1>2, <1>3, ProbesAre DEF MountInv, MountTypes
<1>5. Len(spec) + NP = Len(handlers) /\ \A j \in DOMAIN spec : spec[j] = Entry(handlers[NP + j])
    BY <1>2, <1>3 DEF Recorded
<1> DEFINE h == NP + i
           m == handlers[h].method
           p == Routed(handlers[h].pattern)
           r == routes[m][p]
<1>6. h \in DOMAIN handlers /\ h \in Nat /\ h > NP
    BY <1>2, <1>4, <1>5
<1>7. spec[i].path = OpenAPIPath(handlers[h].pattern) /\ spec[i].method = m /\ spec[i].guards = handlers[h].guards
    BY <1>2, <1>5 DEF Entry
<1> HIDE DEF h
<1>8. m \in Method /\ p \in Patterns /\ handlers[h].pattern # <<>> /\ h <= r /\ r \in Nat
    BY <1>2, <1>6 DEF Tabled
<1>9. r \in DOMAIN handlers /\ handlers[r].method = m /\ Routed(handlers[r].pattern) = p /\ handlers[r].pattern # <<>>
  <2>1. r # 0
    BY <1>4, <1>6, <1>8
  <2> QED
    BY <1>2, <1>8, <2>1 DEF Tabled
<1>10. handlers[r].pattern = handlers[h].pattern
    BY <1>8, <1>9, RoutedOnce
<1> HIDE DEF r
<1>11. r = h
  <2> SUFFICES ASSUME r > h PROVE FALSE
    BY <1>6, <1>8
  <2> DEFINE j == r - NP
  <2>1. j \in DOMAIN spec /\ NP + j = r /\ j > i
    BY <1>2, <1>4, <1>5, <1>6, <1>8, <1>9 DEF h
  <2> HIDE DEF j
  <2>2. spec[j].path = OpenAPIPath(handlers[r].pattern) /\ spec[j].method = handlers[r].method
    BY <1>5, <2>1 DEF Entry
  <2>3. j \in Entries(op[1], op[2])
    BY <1>1, <1>7, <1>9, <1>10, <2>1, <2>2 DEF Entries
  <2> QED
    BY <1>1, <1>2, <2>1, <2>3
<1>12. Live(h)
    BY <1>11 DEF Live, r
<1>13. ~handlers[h].probe
    BY <1>4, <1>6 DEF Walking
<1>14. DocumentedAs(h) = op
    BY <1>1, <1>7 DEF DocumentedAs
<1> QED
    BY <1>1, <1>6, <1>7, <1>12, <1>13, <1>14

\* Every route's handler has its entry.
LEMMA LiveDocumented ==
    ASSUME DocInv, phase # "dead", NEW h \in DOMAIN handlers, ~handlers[h].probe
    PROVE  DocumentedAs(h) \in Documents
<1>1. MountInv /\ Recorded /\ handlers \in Seq(AnyMounts) /\ NP \in Nat
    BY ProbesAre DEF DocInv, MountInv, MountTypes
<1>2. roots # <<>>
    BY <1>1 DEF MountInv, Probing
<1>3. Walking
    BY <1>1, <1>2 DEF MountInv
<1>4. h > NP /\ Len(spec) + NP = Len(handlers) /\ spec \in Seq(Docs)
    BY <1>1, <1>2, <1>3 DEF Walking, Recorded, DocInv
<1> DEFINE i == h - NP
<1>5. i \in DOMAIN spec /\ NP + i = h
    BY <1>1, <1>4
<1> HIDE DEF i
<1>6. spec[i] = Entry(handlers[h])
    BY <1>1, <1>2, <1>5 DEF Recorded
<1>7. DocumentedAs(h) = <<spec[i].path, spec[i].method>>
    BY <1>6 DEF Entry, DocumentedAs
<1> QED
    BY <1>5, <1>7 DEF Documents

\* Each entry is the entry of a handler, and the last one for an operation that of a handler that serves it:
\* where one handler alone serves an operation, of that one.
THEOREM DocumentAgreesAlways == Spec => []DocumentAgrees
<1>1. DocInv => DocumentAgrees
  <2> SUFFICES ASSUME DocInv PROVE DocumentAgrees
    OBVIOUS
  <2>1. ASSUME NEW op \in Documents PROVE Operation(op) \subseteq DOMAIN schemes
    <3>1. spec \in Seq(Docs) /\ Defined
      BY DEF DocInv
    <3>2. PICK i \in Entries(op[1], op[2]) : Operation(op) = Schemes(spec[i].guards)
      BY <3>1, LastEntry
    <3>3. i \in DOMAIN spec
      BY DEF Entries
    <3> QED
      BY <3>1, <3>2, <3>3 DEF Defined
  <2>2. ASSUME phase = "listening", NEW op \in Documents
        PROVE  \E h \in Serving : DocumentedAs(h) = op /\ Operation(op) = Schemes(handlers[h].guards)
    BY <2>2, LastLive DEF Serving
  <2>3. ASSUME phase = "listening" PROVE {DocumentedAs(h) : h \in Serving} = Documents
    <3>1. ASSUME NEW h \in Serving PROVE DocumentedAs(h) \in Documents
      BY <2>3, LiveDocumented DEF Serving
    <3> QED
      BY <2>2, <2>3, <3>1
  <2>4. ASSUME phase = "listening", NEW h \in Serving
        PROVE  \/ Operation(DocumentedAs(h)) = Schemes(handlers[h].guards)
               \/ \E g \in Serving : g # h /\ DocumentedAs(g) = DocumentedAs(h) /\ Operation(DocumentedAs(h)) = Schemes(handlers[g].guards)
    BY <2>2, <2>3, <2>4
  <2> QED
    BY <2>1, <2>3, <2>4 DEF DocumentAgrees
<1> QED
    BY <1>1, InitDoc, NextDoc, PTL DEF Spec

-----------------------------------------------------------------------------
(* What a struct type asks for.                                               *)

Fields == UNION {ToSet(Struct[s]) : s \in DOMAIN Struct}
Words == UNION {ToSet(f.tag) : f \in Fields}
Leafs == [path : Seq(Nat), key : Seq(Words), field : Fields]

\* A leaf as it is seen from outside: its path under p, its name under k.
Lift(p, k) == [l \in Leafs |-> [path |-> p \o l.path, key |-> k \o l.key, field |-> l.field]]

LEMMA FieldTypes ==
    /\ Config \in DOMAIN Struct
    /\ \A s \in DOMAIN Struct : Struct[s] \in Seq(Fields)
    /\ \A f \in Fields : f.tag \in Seq(Words) /\ (f.kind = "struct" => f.of \in DOMAIN Struct)
<1>1. ASSUME NEW s \in DOMAIN Struct PROVE Struct[s] \in Seq(Fields)
  <2>1. ToSet(Struct[s]) \subseteq Fields
    BY DEF Fields
  <2> QED
    BY <2>1, BindingAssumption, SeqMonotonic
<1>2. ASSUME NEW f \in Fields PROVE f.tag \in Seq(Words) /\ (f.kind = "struct" => f.of \in DOMAIN Struct)
  <2>1. ToSet(f.tag) \subseteq Words
    BY DEF Words
  <2>2. f.tag \in Seq(ToSet(f.tag)) /\ (f.kind = "struct" => f.of \in DOMAIN Struct)
    BY BindingAssumption DEF Fields
  <2> QED
    BY <2>1, <2>2, SeqMonotonic
<1> QED
    BY <1>1, <1>2, BindingAssumption

LEMMA LeafParts ==
    ASSUME NEW l \in Leafs
    PROVE  l.path \in Seq(Nat) /\ l.key \in Seq(Words) /\ l.field \in Fields
           /\ l = [path |-> l.path, key |-> l.key, field |-> l.field]
BY DEF Leafs

LEMMA LiftIs ==
    ASSUME NEW p \in Seq(Nat), NEW k \in Seq(Words)
    PROVE  /\ Lift(p, k) \in [Leafs -> Leafs]
           /\ \A l \in Leafs : Lift(p, k)[l] = [path |-> p \o l.path, key |-> k \o l.key, field |-> l.field]
<1>1. ASSUME NEW l \in Leafs PROVE [path |-> p \o l.path, key |-> k \o l.key, field |-> l.field] \in Leafs
  <2>1. p \o l.path \in Seq(Nat) /\ k \o l.key \in Seq(Words) /\ l.field \in Fields
    BY LeafParts, ConcatProperties
  <2> QED
    BY <2>1 DEF Leafs
<1> QED
    BY <1>1 DEF Lift

LEMMA ThreeWords ==
    /\ \A a, b, c \in Seq(Nat) : a \o (b \o c) = (a \o b) \o c
    /\ \A a, b, c \in Seq(Words) : a \o (b \o c) = (a \o b) \o c
<1> DEFINE N == Nat
<1> HIDE DEF N
<1>1. ASSUME NEW a \in Seq(N), NEW b \in Seq(N), NEW c \in Seq(N)
      PROVE  a \o (b \o c) = (a \o b) \o c
    BY ConcatAssociative
<1>2. ASSUME NEW a \in Seq(Words), NEW b \in Seq(Words), NEW c \in Seq(Words)
      PROVE  a \o (b \o c) = (a \o b) \o c
    BY ConcatAssociative
<1> QED
    BY <1>1, <1>2 DEF N

\* Seen from outside, and once more from outside.
LEMMA LiftLift ==
    ASSUME NEW p \in Seq(Nat), NEW k \in Seq(Words), NEW o \in Seq(Nat), NEW t \in Seq(Words), NEW q \in Seq(Leafs)
    PROVE  Mapped(Lift(p, k), Mapped(Lift(o, t), q)) = Mapped(Lift(p \o o, k \o t), q)
<1>1. p \o o \in Seq(Nat) /\ k \o t \in Seq(Words)
    BY ConcatProperties
<1>2. ASSUME NEW l \in Leafs PROVE Lift(p, k)[Lift(o, t)[l]] = Lift(p \o o, k \o t)[l]
  <2> DEFINE m == Lift(o, t)[l]
  <2>1. m \in Leafs /\ m = [path |-> o \o l.path, key |-> t \o l.key, field |-> l.field]
    BY LiftIs
  <2> HIDE DEF m
  <2>2. m.path = o \o l.path /\ m.key = t \o l.key /\ m.field = l.field
    BY <2>1
  <2>3. Lift(p, k)[m] = [path |-> p \o (o \o l.path), key |-> k \o (t \o l.key), field |-> l.field]
    BY <2>1, <2>2, LiftIs
  <2>4. Lift(p \o o, k \o t)[l] = [path |-> (p \o o) \o l.path, key |-> (k \o t) \o l.key, field |-> l.field]
    BY <1>1, LiftIs
  <2>5. p \o (o \o l.path) = (p \o o) \o l.path /\ k \o (t \o l.key) = (k \o t) \o l.key
    BY LeafParts, ThreeWords
  <2> QED
    BY <2>3, <2>4, <2>5 DEF m
<1>3. \A j \in DOMAIN q : q[j] \in Leafs
    OBVIOUS
<1> QED
    BY <1>2, <1>3 DEF Mapped

LEMMA LiftNothing == ASSUME NEW q \in Seq(Leafs) PROVE Mapped(Lift(<<>>, <<>>), q) = q
<1>1. <<>> \in Seq(Nat) /\ <<>> \in Seq(Words)
    OBVIOUS
<1>2. ASSUME NEW l \in Leafs PROVE Lift(<<>>, <<>>)[l] = l
  <2>1. <<>> \o l.path = l.path /\ <<>> \o l.key = l.key
    BY LeafParts, ConcatEmptySeq
  <2>2. Lift(<<>>, <<>>)[l] = [path |-> <<>> \o l.path, key |-> <<>> \o l.key, field |-> l.field]
    BY <1>1, LiftIs
  <2>3. l = [path |-> l.path, key |-> l.key, field |-> l.field]
    BY LeafParts
  <2> QED
    BY <2>1, <2>2, <2>3
<1>3. q = [j \in DOMAIN q |-> q[j]] /\ \A j \in DOMAIN q : q[j] \in Leafs
    OBVIOUS
<1> QED
    BY <1>2, <1>3 DEF Mapped

-----------------------------------------------------------------------------
(* Leaves is what its equation says.                                          *)

\* What the field i asks for, given what the struct types ask for, and all fields.
FieldLeaves(L, i, f) ==
    IF ~f.exported \/ f.tag = <<>> THEN <<>>
    ELSE IF f.kind = "struct"
         THEN [j \in DOMAIN L[f.of] |-> [path |-> <<i>> \o L[f.of][j].path, key |-> f.tag \o L[f.of][j].key,
                                         field |-> L[f.of][j].field]]
         ELSE <<[path |-> <<i>>, key |-> f.tag, field |-> f]>>
EachLeaves(L, s) == [i \in DOMAIN Struct[s] |-> FieldLeaves(L, i, Struct[s][i])]
LeavesOf(L, s) == FlattenSeq(EachLeaves(L, s))

LEMMA FieldLeavesIs ==
    ASSUME NEW L \in [DOMAIN Struct -> Seq(Leafs)], NEW i \in Nat, NEW f \in Fields
    PROVE  /\ FieldLeaves(L, i, f) \in Seq(Leafs)
           /\ f.exported /\ f.tag # <<>> /\ f.kind = "struct" => FieldLeaves(L, i, f) = Mapped(Lift(<<i>>, f.tag), L[f.of])
           /\ \A j \in DOMAIN FieldLeaves(L, i, f) : FieldLeaves(L, i, f)[j].path[1] = i
<1>1. f.tag \in Seq(Words) /\ <<i>> \in Seq(Nat)
    BY FieldTypes
<1>2. CASE ~f.exported \/ f.tag = <<>>
  <2>1. FieldLeaves(L, i, f) = <<>>
    BY <1>2 DEF FieldLeaves
  <2>2. ~(f.exported /\ f.tag # <<>> /\ f.kind = "struct")
    BY <1>2
  <2> QED
    BY <2>1, <2>2
<1>3. CASE f.exported /\ f.tag # <<>> /\ f.kind = "struct"
  <2> DEFINE q == L[f.of]
  <2>1. q \in Seq(Leafs)
    BY <1>3, FieldTypes
  <2>2. FieldLeaves(L, i, f) = [j \in DOMAIN q |-> [path |-> <<i>> \o q[j].path, key |-> f.tag \o q[j].key, field |-> q[j].field]]
    BY <1>3 DEF FieldLeaves
  <2> HIDE DEF q
  <2>3. \A j \in DOMAIN q : q[j] \in Leafs
    BY <2>1
  <2>4. FieldLeaves(L, i, f) = Mapped(Lift(<<i>>, f.tag), q)
    BY <1>1, <2>2, <2>3, LiftIs DEF Mapped
  <2>5. FieldLeaves(L, i, f) \in Seq(Leafs)
    <3>1. Lift(<<i>>, f.tag) \in [Leafs -> Leafs]
      BY <1>1, LiftIs
    <3> QED
      BY <2>1, <2>4, <3>1, MappedType
  <2>6. ASSUME NEW j \in DOMAIN FieldLeaves(L, i, f) PROVE FieldLeaves(L, i, f)[j].path[1] = i
    <3>1. j \in DOMAIN q /\ FieldLeaves(L, i, f)[j].path = <<i>> \o q[j].path /\ q[j].path \in Seq(Nat)
      BY <2>2, <2>3, LeafParts
    <3> QED
      BY <3>1
  <2> QED
    BY <2>4, <2>5, <2>6 DEF q
<1>4. CASE f.exported /\ f.tag # <<>> /\ f.kind # "struct"
  <2> DEFINE l == [path |-> <<i>>, key |-> f.tag, field |-> f]
  <2>1. FieldLeaves(L, i, f) = <<l>>
    BY <1>4 DEF FieldLeaves
  <2>2. l \in Leafs
    BY <1>1 DEF Leafs
  <2>3. l.path[1] = i
    OBVIOUS
  <2> HIDE DEF l
  <2> QED
    BY <1>4, <2>1, <2>2, <2>3
<1> QED
    BY <1>2, <1>3, <1>4

LEMMA EachLeavesIs ==
    ASSUME NEW L \in [DOMAIN Struct -> Seq(Leafs)], NEW s \in DOMAIN Struct
    PROVE  EachLeaves(L, s) \in Seq(Seq(Leafs)) /\ Len(EachLeaves(L, s)) = Len(Struct[s]) /\ LeavesOf(L, s) \in Seq(Leafs)
<1>1. Struct[s] \in Seq(Fields)
    BY FieldTypes
<1>2. \A i \in DOMAIN Struct[s] : i \in Nat /\ Struct[s][i] \in Fields
    BY <1>1
<1>3. \A i \in DOMAIN Struct[s] : FieldLeaves(L, i, Struct[s][i]) \in Seq(Leafs)
    BY <1>2, FieldLeavesIs
<1>4. EachLeaves(L, s) \in Seq(Seq(Leafs)) /\ Len(EachLeaves(L, s)) = Len(Struct[s])
    BY <1>1, <1>3, EachType DEF EachLeaves
<1> QED
    BY <1>4, FlatType DEF LeavesOf

LEMMA LeavesIs ==
    /\ Leaves \in [DOMAIN Struct -> Seq(Leafs)]
    /\ \A s \in DOMAIN Struct : Leaves[s] = LeavesOf(Leaves, s)
<1> DEFINE Types == DOMAIN Struct
           High == Cardinality(Types)
<1>1. PICK depth \in [Types -> 0..High] :
          \A s \in Types : \A f \in ToSet(Struct[s]) : f.kind = "struct" => depth[f.of] < depth[s]
    BY BindingAssumption
<1>2. \A s \in Types : depth[s] \in Int /\ depth[s] >= 0 /\ depth[s] <= High
    BY <1>1
<1>3. ASSUME NEW s \in Types, NEW i \in DOMAIN Struct[s], Struct[s][i].kind = "struct"
      PROVE  Struct[s][i].of \in Types /\ depth[Struct[s][i].of] < depth[s]
    BY <1>1, <1>3, BindingAssumption DEF ToSet
<1> DEFINE upto(n) == {s \in Types : depth[s] < n}
           found(n, L) == L \in [Types -> Seq(Leafs)] /\ \A s \in upto(n) : L[s] = LeavesOf(L, s)
           N == {n \in Nat : ~\E L : found(n, L)}
\* Two such functions that agree on the types a type has fields of agree on the type.
<1>4. ASSUME NEW L, NEW M, NEW s \in Types,
             \A i \in DOMAIN Struct[s] : Struct[s][i].kind = "struct" => L[Struct[s][i].of] = M[Struct[s][i].of]
      PROVE  LeavesOf(L, s) = LeavesOf(M, s)
  <2>1. \A i \in DOMAIN Struct[s] : FieldLeaves(L, i, Struct[s][i]) = FieldLeaves(M, i, Struct[s][i])
    BY <1>4 DEF FieldLeaves
  <2>2. EachLeaves(L, s) = EachLeaves(M, s)
    BY <2>1 DEF EachLeaves
  <2> QED
    BY <2>2 DEF LeavesOf
<1>5. N = {}
  <2> SUFFICES ASSUME N # {} PROVE FALSE
    OBVIOUS
  <2>1. PICK n \in N : \A k \in N : n <= k
    BY Least
  <2>2. n # 0
    <3>1. found(0, [s \in Types |-> <<>>])
      BY <1>2
    <3> QED
      BY <2>1, <3>1
  <2>3. n \in Nat /\ n - 1 \in Nat /\ n - 1 \notin N
    <3> HIDE DEF found
    <3> QED
      BY <2>1, <2>2
  <2>4. PICK L : found(n - 1, L)
    BY <2>3
  <2> DEFINE E == [s \in Types |-> LeavesOf(L, s)]
  <2>5. E \in [Types -> Seq(Leafs)]
    BY <2>4, EachLeavesIs
  <2>6. \A s \in upto(n - 1) : E[s] = L[s]
    BY <2>4
  <2>7. ASSUME NEW s \in upto(n) PROVE E[s] = LeavesOf(E, s)
    <3>1. ASSUME NEW i \in DOMAIN Struct[s], Struct[s][i].kind = "struct" PROVE E[Struct[s][i].of] = L[Struct[s][i].of]
      <4> DEFINE t == Struct[s][i].of
      <4>1. t \in Types /\ depth[t] < depth[s] /\ depth[s] < n
        BY <1>3, <3>1
      <4> HIDE DEF E, t
      <4>2. t \in upto(n - 1)
        BY <1>2, <2>3, <4>1
      <4> QED
        BY <2>6, <4>2 DEF t
    <3>2. s \in Types /\ E[s] = LeavesOf(L, s)
      OBVIOUS
    <3> HIDE DEF E, upto
    <3> QED
      BY <1>4, <3>1, <3>2
  <2>8. found(n, E)
    BY <2>5, <2>7
  <2> QED
    BY <2>1, <2>8
<1>6. High \in Nat /\ High + 1 \in Nat
  <2>1. IsFiniteSet(Types)
    BY BindingAssumption
  <2> QED
    BY <2>1, FS_CardinalityType
<1>7. PICK L : found(High + 1, L)
  <2> HIDE DEF found
  <2> QED
    BY <1>5, <1>6
<1>8. \A s \in Types : s \in upto(High + 1)
    BY <1>2, <1>6
<1>9. L \in [Types -> Seq(Leafs)] /\ \A s \in Types : L[s] = LeavesOf(L, s)
    BY <1>7, <1>8
<1>10. L = [s \in Types |-> LeavesOf(L, s)]
    BY <1>9
<1>11. Leaves = CHOOSE E : E = [s \in Types |-> LeavesOf(E, s)]
    BY DEF Leaves, LeavesOf, EachLeaves, FieldLeaves
<1>12. Leaves = [s \in Types |-> LeavesOf(Leaves, s)]
  <2> DEFINE E0 == CHOOSE E : E = [s \in Types |-> LeavesOf(E, s)]
  <2>1. E0 = [s \in Types |-> LeavesOf(E0, s)]
    BY <1>10
  <2> QED
    BY <1>11, <2>1
\* There is only one such function.
<1> DEFINE odd == {n \in Nat : \E s \in Types : depth[s] = n /\ Leaves[s] # L[s]}
<1>13. odd = {}
  <2> SUFFICES ASSUME odd # {} PROVE FALSE
    OBVIOUS
  <2>1. PICK n \in odd : \A k \in odd : n <= k
    BY Least
  <2>2. PICK s \in Types : depth[s] = n /\ Leaves[s] # L[s]
    BY <2>1
  <2>3. ASSUME NEW i \in DOMAIN Struct[s], Struct[s][i].kind = "struct" PROVE Leaves[Struct[s][i].of] = L[Struct[s][i].of]
    <3> DEFINE t == Struct[s][i].of
    <3>1. t \in Types /\ depth[t] \in Nat /\ depth[t] < n
      BY <1>2, <1>3, <2>2, <2>3
    <3> HIDE DEF t
    <3> QED
      BY <2>1, <3>1 DEF t
  <2>4. LeavesOf(Leaves, s) = LeavesOf(L, s)
    BY <1>4, <2>3
  <2>5. Leaves[s] = LeavesOf(Leaves, s)
    BY <1>12
  <2> QED
    BY <1>9, <2>2, <2>4, <2>5
<1>14. ASSUME NEW s \in Types PROVE Leaves[s] = L[s] /\ Leaves[s] = LeavesOf(Leaves, s)
  <2>1. depth[s] \in Nat /\ depth[s] \notin odd
    BY <1>2, <1>13
  <2>2. Leaves[s] = LeavesOf(Leaves, s)
    BY <1>12
  <2> QED
    BY <2>1, <2>2
<1>15. DOMAIN Leaves = Types /\ Leaves = [s \in Types |-> Leaves[s]]
    BY <1>12
<1> HIDE DEF odd, found, N, upto
<1> QED
    BY <1>9, <1>14, <1>15

-----------------------------------------------------------------------------
(* No two leaves have one path.                                               *)

Distinct(q) == \A i, j \in DOMAIN q : q[i].path = q[j].path => i = j
Apart(s) ==
    /\ \A k \in DOMAIN s : Distinct(s[k])
    /\ \A k, n \in DOMAIN s : \A i \in DOMAIN s[k], j \in DOMAIN s[n] : s[k][i].path = s[n][j].path => k = n

LEMMA FlatDistinct ==
    ASSUME NEW S, NEW s \in Seq(Seq(S)), Apart(s)
    PROVE  Distinct(FlattenSeq(s))
<1> DEFINE X == {q \in Seq(Seq(S)) : Apart(q) => Distinct(FlattenSeq(q))}
<1>1. <<>> \in X
    BY FlatEmpty DEF Distinct
<1>2. ASSUME NEW q \in X, NEW x \in Seq(S) PROVE Append(q, x) \in X
  <2> DEFINE r == Append(q, x)
             f == FlattenSeq(q)
  <2>1. FlattenSeq(r) = f \o x /\ f \in Seq(S) /\ q \in Seq(Seq(S)) /\ r \in Seq(Seq(S))
    BY FlatAppend, FlatType
  <2>2. DOMAIN q \subseteq DOMAIN r /\ (\A k \in DOMAIN q : r[k] = q[k] /\ k # Len(q) + 1)
        /\ Len(q) + 1 \in DOMAIN r /\ r[Len(q) + 1] = x
    BY <2>1
  <2>3. ASSUME Apart(r) PROVE Distinct(f \o x)
    <3>1. Apart(q)
      <4> HIDE DEF r
      <4>1. \A k \in DOMAIN q : Distinct(q[k])
        BY <2>2, <2>3 DEF Apart
      <4>2. \A k, n \in DOMAIN q : \A i \in DOMAIN q[k], j \in DOMAIN q[n] : q[k][i].path = q[n][j].path => k = n
        BY <2>2, <2>3 DEF Apart
      <4> QED
        BY <4>1, <4>2 DEF Apart
    <3>2. Distinct(f)
      BY <3>1
    <3>3. Distinct(x)
      BY <2>2, <2>3 DEF Apart
    <3>4. ASSUME NEW i \in DOMAIN f, NEW j \in DOMAIN x PROVE f[i].path # x[j].path
      <4>1. PICK k \in DOMAIN q : \E n \in DOMAIN q[k] : f[i] = q[k][n]
        BY <2>1, FlatItem
      <4>2. PICK n \in DOMAIN q[k] : f[i] = q[k][n]
        BY <4>1
      <4> HIDE DEF r, f
      <4> QED
        BY <2>2, <2>3, <4>2 DEF Apart
    <3> HIDE DEF f, r
    <3>5. ASSUME NEW i \in DOMAIN (f \o x)
          PROVE  (i \in DOMAIN f /\ (f \o x)[i] = f[i]) \/ (i - Len(f) \in DOMAIN x /\ (f \o x)[i] = x[i - Len(f)])
      <4>1. x \in Seq(S) /\ f \in Seq(S)
        BY <2>1
      <4> QED
        BY <4>1
    <3>6. ASSUME NEW i \in DOMAIN (f \o x), NEW j \in DOMAIN (f \o x), (f \o x)[i].path = (f \o x)[j].path PROVE i = j
      <4>1. i \in Int /\ j \in Int /\ Len(f) \in Int
        BY <2>1
      <4>2. CASE i \in DOMAIN f /\ (f \o x)[i] = f[i] /\ j \in DOMAIN f /\ (f \o x)[j] = f[j]
        BY <3>2, <3>6, <4>2 DEF Distinct
      <4>3. CASE i - Len(f) \in DOMAIN x /\ (f \o x)[i] = x[i - Len(f)] /\ j - Len(f) \in DOMAIN x /\ (f \o x)[j] = x[j - Len(f)]
        <5>1. i - Len(f) = j - Len(f)
          BY <3>3, <3>6, <4>3 DEF Distinct
        <5> QED
          BY <4>1, <5>1
      <4> QED
        BY <3>4, <3>5, <3>6, <4>2, <4>3
    <3> QED
      BY <3>6 DEF Distinct
  <2> HIDE DEF r, f
  <2> QED
    BY <2>1, <2>3 DEF r
<1> HIDE DEF X
<1>3. X = Seq(Seq(S))
  <2>1. X \in SUBSET Seq(Seq(S))
    BY DEF X
  <2> QED
    BY <1>1, <1>2, <2>1, Grown
<1> QED
    BY <1>3 DEF X

LEMMA LiftDistinct ==
    ASSUME NEW p \in Seq(Nat), NEW k \in Seq(Words), NEW q \in Seq(Leafs), Distinct(q)
    PROVE  Distinct(Mapped(Lift(p, k), q))
<1> DEFINE m == Mapped(Lift(p, k), q)
<1>1. ASSUME NEW i \in DOMAIN q PROVE m[i].path = p \o q[i].path /\ q[i].path \in Seq(Nat)
  <2>1. q[i] \in Leafs /\ m[i] = Lift(p, k)[q[i]]
    BY DEF Mapped
  <2> HIDE DEF m
  <2> QED
    <3> DEFINE l == q[i]
    <3> HIDE DEF l
    <3>1. l \in Leafs /\ m[i] = Lift(p, k)[l]
      BY <2>1 DEF l
    <3>2. m[i] = [path |-> p \o l.path, key |-> k \o l.key, field |-> l.field]
      BY <3>1, LiftIs
    <3>3. l.path \in Seq(Nat)
      BY <3>1, LeafParts
    <3> QED
      BY <3>2, <3>3 DEF l
<1>2. DOMAIN m = DOMAIN q
    BY DEF Mapped
<1>3. ASSUME NEW a \in Seq(Nat), NEW b \in Seq(Nat), p \o a = p \o b PROVE a = b
  <2>1. Len(a) = Len(b)
    BY <1>3
  <2>2. ASSUME NEW i \in 1..Len(a) PROVE a[i] = b[i]
    <3>1. (p \o a)[Len(p) + i] = a[i] /\ (p \o b)[Len(p) + i] = b[i]
      BY <2>1
    <3> QED
      BY <1>3, <3>1
  <2> QED
    BY <2>1, <2>2, SeqEqual
<1> HIDE DEF m
<1>4. ASSUME NEW i \in DOMAIN q, NEW j \in DOMAIN q, m[i].path = m[j].path PROVE i = j
  <2>1. q[i].path = q[j].path
    BY <1>1, <1>3, <1>4
  <2> QED
    BY <2>1 DEF Distinct
<1>5. Distinct(m)
    BY <1>2, <1>4 DEF Distinct
<1> QED
    BY <1>5 DEF m

\* What a field asks for.
LEMMA FieldAsks ==
    /\ Leaves \in [DOMAIN Struct -> Seq(Leafs)]
    /\ \A i \in Nat, f \in Fields :
          /\ FieldLeaves(Leaves, i, f) \in Seq(Leafs)
          /\ f.exported /\ f.tag # <<>> /\ f.kind = "struct" =>
                FieldLeaves(Leaves, i, f) = Mapped(Lift(<<i>>, f.tag), Leaves[f.of])
          /\ \A j \in DOMAIN FieldLeaves(Leaves, i, f) : FieldLeaves(Leaves, i, f)[j].path[1] = i
<1> DEFINE L == Leaves
<1>1. L \in [DOMAIN Struct -> Seq(Leafs)]
    BY LeavesIs
<1> HIDE DEF L
<1>2. \A i \in Nat, f \in Fields :
          /\ FieldLeaves(L, i, f) \in Seq(Leafs)
          /\ f.exported /\ f.tag # <<>> /\ f.kind = "struct" => FieldLeaves(L, i, f) = Mapped(Lift(<<i>>, f.tag), L[f.of])
          /\ \A j \in DOMAIN FieldLeaves(L, i, f) : FieldLeaves(L, i, f)[j].path[1] = i
    BY <1>1, FieldLeavesIs
<1> QED
    BY <1>1, <1>2 DEF L

LEMMA LeavesDistinct == \A s \in DOMAIN Struct : Distinct(Leaves[s])
<1>1. PICK depth \in [DOMAIN Struct -> 0..Cardinality(DOMAIN Struct)] :
          \A s \in DOMAIN Struct : \A f \in ToSet(Struct[s]) : f.kind = "struct" => depth[f.of] < depth[s]
    BY BindingAssumption
<1>2. \A s \in DOMAIN Struct : depth[s] \in Int /\ depth[s] >= 0
    BY <1>1
<1> DEFINE N == {n \in Nat : \E s \in DOMAIN Struct : depth[s] = n /\ ~Distinct(Leaves[s])}
<1>3. N = {}
  <2> SUFFICES ASSUME N # {} PROVE FALSE
    OBVIOUS
  <2>1. PICK n \in N : \A k \in N : n <= k
    BY Least
  <2>2. n \in Nat /\ \E s \in DOMAIN Struct : depth[s] = n /\ ~Distinct(Leaves[s])
    BY <2>1
  <2>3. PICK s \in DOMAIN Struct : depth[s] = n /\ ~Distinct(Leaves[s])
    BY <2>2
  <2> DEFINE e == EachLeaves(Leaves, s)
  <2>4. e \in Seq(Seq(Leafs)) /\ DOMAIN e = DOMAIN Struct[s] /\ Leaves \in [DOMAIN Struct -> Seq(Leafs)]
    BY LeavesIs, EachLeavesIs DEF EachLeaves
  <2>5. ASSUME NEW i \in DOMAIN e
        PROVE  i \in Nat /\ Struct[s][i] \in Fields /\ e[i] = FieldLeaves(Leaves, i, Struct[s][i])
    <3>1. Struct[s] \in Seq(Fields)
      BY FieldTypes
    <3> QED
      BY <2>4, <3>1 DEF EachLeaves
  <2>6. ASSUME NEW i \in DOMAIN e PROVE Distinct(e[i])
    <3> DEFINE f == Struct[s][i]
    <3>1. i \in Nat /\ f \in Fields /\ e[i] = FieldLeaves(Leaves, i, f)
      BY <2>5
    <3>2. f \in ToSet(Struct[s])
      BY <2>4 DEF ToSet
    <3> HIDE DEF e, f
    <3>3. CASE f.exported /\ f.tag # <<>> /\ f.kind = "struct"
      <4>1. f.of \in DOMAIN Struct /\ f.tag \in Seq(Words) /\ depth[f.of] < n /\ depth[f.of] \in Nat
        BY <1>1, <1>2, <2>2, <2>3, <3>1, <3>2, <3>3, FieldTypes
      <4>2. depth[f.of] \notin N
        <5> HIDE DEF N
        <5> QED
          BY <2>1, <2>2, <4>1
      <4>3. Distinct(Leaves[f.of]) /\ Leaves[f.of] \in Seq(Leafs)
        BY <2>4, <4>1, <4>2
      <4>4. FieldLeaves(Leaves, i, f) = Mapped(Lift(<<i>>, f.tag), Leaves[f.of])
        BY <3>1, <3>3, FieldAsks
      <4>5. <<i>> \in Seq(Nat)
        BY <3>1
      <4> QED
        BY <3>1, <4>1, <4>3, <4>4, <4>5, LiftDistinct
    <3>4. CASE ~(f.exported /\ f.tag # <<>> /\ f.kind = "struct")
      <4>1. FieldLeaves(Leaves, i, f) = <<>> \/ FieldLeaves(Leaves, i, f) = <<[path |-> <<i>>, key |-> f.tag, field |-> f]>>
        BY <3>4 DEF FieldLeaves
      <4>2. \A l : Distinct(<<l>>)
        BY DEF Distinct
      <4>3. Distinct(<<>>)
        BY DEF Distinct
      <4> QED
        BY <3>1, <4>1, <4>2, <4>3
    <3> QED
      BY <3>3, <3>4
  <2>7. ASSUME NEW i \in DOMAIN e, NEW j \in DOMAIN e, NEW k \in DOMAIN e[i], NEW l \in DOMAIN e[j],
               e[i][k].path = e[j][l].path
        PROVE  i = j
    <3> HIDE DEF e
    <3>1. ASSUME NEW x \in DOMAIN e, NEW y \in DOMAIN e[x] PROVE e[x][y].path[1] = x
      <4>1. x \in Nat /\ Struct[s][x] \in Fields /\ e[x] = FieldLeaves(Leaves, x, Struct[s][x])
        BY <2>5
      <4> DEFINE f == Struct[s][x]
      <4> HIDE DEF f
      <4>2. \A z \in DOMAIN FieldLeaves(Leaves, x, f) : FieldLeaves(Leaves, x, f)[z].path[1] = x
        BY <4>1, FieldAsks DEF f
      <4> QED
        BY <4>1, <4>2 DEF f
    <3> QED
      BY <2>7, <3>1
  <2> HIDE DEF e
  <2>8. Apart(e)
    BY <2>6, <2>7 DEF Apart
  <2>9. Distinct(FlattenSeq(e))
    BY <2>4, <2>8, FlatDistinct
  <2> QED
    BY <2>9, <2>3, LeavesIs DEF LeavesOf, e
<1>4. ASSUME NEW s \in DOMAIN Struct PROVE Distinct(Leaves[s])
  <2>1. depth[s] \in Nat /\ depth[s] \notin N
    BY <1>2, <1>3
  <2> QED
    BY <2>1
<1> QED
    BY <1>4

-----------------------------------------------------------------------------
(* What the walk is still going to look up.                                   *)

Frames == [struct : DOMAIN Struct, next : Nat \ {0}, prefix : Seq(Words), path : Seq(Nat)]
Rest(fr) == Mapped(Lift(fr.path, fr.prefix),
                   FlattenSeq(SubSeq(EachLeaves(Leaves, fr.struct), fr.next, Len(Struct[fr.struct]))))
RestEach == [fr \in Frames |-> Rest(fr)]
Ahead(st) == FlattenSeq(Mapped(RestEach, st))

LEMMA FrameParts ==
    ASSUME NEW fr \in Frames
    PROVE  /\ fr.struct \in DOMAIN Struct /\ fr.next \in Nat \ {0} /\ fr.prefix \in Seq(Words) /\ fr.path \in Seq(Nat)
           /\ LET on == [fr EXCEPT !.next = @ + 1] IN
              /\ on \in Frames /\ on.struct = fr.struct /\ on.next = fr.next + 1
              /\ on.prefix = fr.prefix /\ on.path = fr.path
BY DEF Frames

LEMMA RestIs ==
    ASSUME NEW fr \in Frames
    PROVE  /\ Rest(fr) \in Seq(Leafs)
           /\ fr.next > Len(Struct[fr.struct]) => Rest(fr) = <<>>
           /\ fr.next <= Len(Struct[fr.struct]) =>
                 Rest(fr) = Mapped(Lift(fr.path, fr.prefix), FieldLeaves(Leaves, fr.next, Struct[fr.struct][fr.next]))
                            \o Rest([fr EXCEPT !.next = @ + 1])
<1> DEFINE s == fr.struct
           n == fr.next
           e == EachLeaves(Leaves, s)
           L == Len(Struct[s])
           g == Lift(fr.path, fr.prefix)
           q == SubSeq(e, n, L)
<1>1. s \in DOMAIN Struct /\ n \in Nat \ {0} /\ fr.prefix \in Seq(Words) /\ fr.path \in Seq(Nat)
    BY FrameParts
<1>2. e \in Seq(Seq(Leafs)) /\ Len(e) = L /\ L \in Nat
  <2>1. Leaves \in [DOMAIN Struct -> Seq(Leafs)]
    BY LeavesIs
  <2>2. e \in Seq(Seq(Leafs)) /\ Len(e) = L
    BY <1>1, <2>1, EachLeavesIs
  <2> HIDE DEF e, L
  <2> QED
    BY <2>2
<1>3. g \in [Leafs -> Leafs]
    BY <1>1, LiftIs
<1>4. Rest(fr) = Mapped(g, FlattenSeq(q))
    BY DEF Rest
<1>5. n \in DOMAIN e => e[n] = FieldLeaves(Leaves, n, Struct[s][n])
    BY DEF EachLeaves
<1>6. Rest([fr EXCEPT !.next = @ + 1]) = Mapped(g, FlattenSeq(SubSeq(e, n + 1, L)))
  <2> DEFINE on == [fr EXCEPT !.next = @ + 1]
  <2>1. on.struct = fr.struct /\ on.next = fr.next + 1 /\ on.prefix = fr.prefix /\ on.path = fr.path
    BY FrameParts
  <2> HIDE DEF on
  <2>2. Rest(on) = Mapped(g, FlattenSeq(SubSeq(e, n + 1, L)))
    BY <2>1 DEF Rest
  <2> QED
    BY <2>2 DEF on
<1> HIDE DEF s, n, e, L, g
<1>7. q \in Seq(Seq(Leafs))
    BY <1>1, <1>2
<1> HIDE DEF q
<1>8. Rest(fr) \in Seq(Leafs)
    BY <1>3, <1>4, <1>7, FlatType, MappedType
<1>9. ASSUME n > L PROVE Rest(fr) = <<>>
  <2>1. q = <<>>
    BY <1>1, <1>2, <1>9 DEF q
  <2>2. Mapped(g, <<>>) = <<>>
    BY DEF Mapped
  <2> QED
    BY <1>4, <2>1, <2>2, FlatEmpty
<1>10. ASSUME n <= L
       PROVE  Rest(fr) = Mapped(g, e[n]) \o Mapped(g, FlattenSeq(SubSeq(e, n + 1, L))) /\ n \in DOMAIN e
  <2> DEFINE r == SubSeq(e, n + 1, L)
             one == <<e[n]>>
  <2>1. e[n] \in Seq(Leafs) /\ n \in DOMAIN e /\ one \in Seq(Seq(Leafs)) /\ r \in Seq(Seq(Leafs))
    BY <1>1, <1>2, <1>10
  <2>2. q = one \o r
    <3>1. q \in Seq(Seq(Leafs)) /\ one \o r \in Seq(Seq(Leafs)) /\ Len(q) = Len(one \o r)
      BY <1>1, <1>2, <1>10, <2>1 DEF q
    <3>2. ASSUME NEW i \in 1..Len(q) PROVE q[i] = (one \o r)[i]
      <4>1. q[i] = e[n - 1 + i] /\ i \in Nat \ {0} /\ n - 1 + i <= L
        BY <1>1, <1>2, <1>10 DEF q
      <4>2. CASE i = 1
        BY <1>1, <2>1, <4>1, <4>2
      <4>3. CASE i # 1
        <5>1. i - 1 \in DOMAIN r /\ r[i - 1] = e[n + 1 - 1 + (i - 1)] /\ n + 1 - 1 + (i - 1) = n - 1 + i
          BY <1>1, <1>2, <4>1, <4>3
        <5> HIDE DEF r
        <5>2. (one \o r)[i] = r[i - 1]
          BY <2>1, <4>1, <4>3, <5>1
        <5> QED
          BY <4>1, <5>1, <5>2
      <4> QED
        BY <4>2, <4>3
    <3> QED
      BY <3>1, <3>2, SeqEqual
  <2>3. FlattenSeq(one) = e[n]
    BY <2>1, FlatOne
  <2> HIDE DEF one, r
  <2>4. FlattenSeq(q) = e[n] \o FlattenSeq(r) /\ FlattenSeq(r) \in Seq(Leafs)
    BY <2>1, <2>2, <2>3, FlatCat, FlatType
  <2>5. Mapped(g, e[n] \o FlattenSeq(r)) = Mapped(g, e[n]) \o Mapped(g, FlattenSeq(r))
    BY <2>1, <2>4, MappedCat
  <2> QED
    BY <1>4, <2>1, <2>4, <2>5 DEF r
<1>11. ASSUME n <= L
       PROVE  Rest(fr) = Mapped(g, FieldLeaves(Leaves, n, Struct[s][n])) \o Rest([fr EXCEPT !.next = @ + 1])
    BY <1>5, <1>6, <1>10, <1>11
<1> QED
    BY <1>8, <1>9, <1>11 DEF s, n, L, g

LEMMA AheadIs ==
    /\ Ahead(<<>>) = <<>>
    /\ \A st \in Seq(Frames) : Ahead(st) \in Seq(Leafs)
    /\ \A fr \in Frames : \A st \in Seq(Frames) : Ahead(<<fr>> \o st) = Rest(fr) \o Ahead(st)
<1>1. RestEach \in [Frames -> Seq(Leafs)]
    BY RestIs DEF RestEach
<1>2. \A st \in Seq(Frames) : Mapped(RestEach, st) \in Seq(Seq(Leafs))
    BY <1>1, MappedType
<1>3. Ahead(<<>>) = <<>>
  <2>1. Mapped(RestEach, <<>>) = <<>>
    BY DEF Mapped
  <2> QED
    BY <2>1, FlatEmpty DEF Ahead
<1>4. \A st \in Seq(Frames) : Ahead(st) \in Seq(Leafs)
    BY <1>2, FlatType DEF Ahead
<1>5. ASSUME NEW fr \in Frames, NEW st \in Seq(Frames) PROVE Ahead(<<fr>> \o st) = Rest(fr) \o Ahead(st)
  <2>1. <<fr>> \in Seq(Frames)
    OBVIOUS
  <2>2. \A a, b \in Seq(Frames) : Mapped(RestEach, a \o b) = Mapped(RestEach, a) \o Mapped(RestEach, b)
    BY MappedCat
  <2>3. Mapped(RestEach, <<fr>>) = <<Rest(fr)>> /\ Rest(fr) \in Seq(Leafs) /\ <<Rest(fr)>> \in Seq(Seq(Leafs))
    <3>1. RestEach[fr] = Rest(fr)
      BY DEF RestEach
    <3>2. Mapped(RestEach, <<fr>>) = <<RestEach[fr]>>
      BY DEF Mapped
    <3>3. Rest(fr) \in Seq(Leafs)
      BY RestIs
    <3> QED
      BY <3>1, <3>2, <3>3
  <2>4. FlattenSeq(<<Rest(fr)>>) = Rest(fr)
    BY <2>3, FlatOne
  <2> QED
    <3>1. Mapped(RestEach, <<fr>> \o st) = <<Rest(fr)>> \o Mapped(RestEach, st)
      BY <2>1, <2>2, <2>3
    <3>2. \A a, b \in Seq(Seq(Leafs)) : FlattenSeq(a \o b) = FlattenSeq(a) \o FlattenSeq(b)
      BY FlatCat
    <3> QED
      BY <1>2, <2>3, <2>4, <3>1, <3>2 DEF Ahead
<1> QED
    BY <1>3, <1>4, <1>5

\* A struct that is just entered, seen from outside, has all its leaves ahead.
LEMMA EnteredRest ==
    ASSUME NEW s \in DOMAIN Struct, NEW k \in Seq(Words), NEW p \in Seq(Nat)
    PROVE  Frame(s, k, p) \in Frames /\ Rest(Frame(s, k, p)) = Mapped(Lift(p, k), Leaves[s])
<1>1. Frame(s, k, p) \in Frames
    BY DEF Frame, Frames
<1> DEFINE e == EachLeaves(Leaves, s)
<1>2. e \in Seq(Seq(Leafs)) /\ Len(e) = Len(Struct[s])
  <2>1. Leaves \in [DOMAIN Struct -> Seq(Leafs)]
    BY LeavesIs
  <2> QED
    BY <2>1, EachLeavesIs
<1> HIDE DEF e
<1>3. SubSeq(e, 1, Len(Struct[s])) = e
    BY <1>2
<1>4. Rest(Frame(s, k, p)) = Mapped(Lift(p, k), FlattenSeq(SubSeq(e, 1, Len(Struct[s]))))
    BY DEF Rest, Frame, e
<1> QED
    BY <1>1, <1>3, <1>4, LeavesIs DEF LeavesOf, e

-----------------------------------------------------------------------------
(* LoadConfig.                                                                *)

All == Leaves[Config]
RawOf(i) == Source(All[i].key, All[i].field)
Present == {i \in DOMAIN All : RawOf(i) # Unset}
Lost == {i \in DOMAIN All : RawOf(i) = Unset /\ All[i].field.required}
ParsedOf(i) == Parsed(All[i].field.kind, RawOf(i))

\* The first n leaves are looked up, and those that are there were values.
LoadedUpTo(n) ==
    /\ DOMAIN target = {All[i].path : i \in {i \in Present : i <= n}}
    /\ \A i \in Present : i <= n => target[All[i].path] = ParsedOf(i) /\ ParsedOf(i) # Error
    /\ missing \in Seq(Seq(Words)) /\ Lists(missing, {i \in Lost : i <= n}, All)

\* fillStruct is between two leaves, through, or has met a leaf that is no value.
LoadInv ==
    task = "load" =>
        \E n \in 0..Len(All) :
            /\ LoadedUpTo(n)
            /\ \/ result = "none" /\ stack \in Seq(Frames) /\ Ahead(stack) = SubSeq(All, n + 1, Len(All))
               \/ result = (IF missing = <<>> THEN "ok" ELSE "missing") /\ n = Len(All)
               \/ result = "invalid" /\ n + 1 \in Present /\ ParsedOf(n + 1) = Error

LEMMA AllIs == All \in Seq(Leafs) /\ Len(All) \in Nat /\ DOMAIN All = 1..Len(All) /\ Distinct(All)
<1>1. All \in Seq(Leafs) /\ Distinct(All)
    BY LeavesIs, LeavesDistinct, FieldTypes DEF All
<1> QED
    BY <1>1

\* One more item is listed.
LEMMA ListsMore ==
    ASSUME NEW T, NEW ks \in Seq(T), NEW S, S \subseteq Nat, NEW q, NEW m \in Nat, q[m].key \in T, \A i \in S : i < m,
           Lists(ks, S, q)
    PROVE  Append(ks, q[m].key) \in Seq(T) /\ Lists(Append(ks, q[m].key), S \cup {m}, q)
<1> DEFINE N == Len(ks) + 1
           more == Append(ks, q[m].key)
<1>1. N \in Nat \ {0} /\ more \in Seq(T) /\ DOMAIN ks = 1..N - 1 /\ DOMAIN more = 1..N /\ more[N] = q[m].key
      /\ \A n \in 1..N - 1 : more[n] = ks[n]
    OBVIOUS
<1>2. PICK at \in [DOMAIN ks -> S] : /\ \A k, n \in DOMAIN ks : k < n => at[k] < at[n]
                                     /\ \A i \in S : \E n \in DOMAIN ks : at[n] = i
                                     /\ \A n \in DOMAIN ks : ks[n] = q[at[n]].key
    BY DEF Lists
<1> HIDE DEF N, more
<1> DEFINE to == [n \in 1..N |-> IF n = N THEN m ELSE at[n]]
<1>3. \A n \in 1..N : n = N \/ n \in 1..N - 1
    BY <1>1
<1>4. to \in [DOMAIN more -> S \cup {m}] /\ to[N] = m /\ \A n \in 1..N - 1 : to[n] = at[n]
    BY <1>1, <1>2, <1>3
<1> HIDE DEF to
<1>5. \A k, n \in DOMAIN more : k < n => to[k] < to[n]
  <2> SUFFICES ASSUME NEW k \in 1..N, NEW n \in 1..N, k < n PROVE to[k] < to[n]
    BY <1>1
  <2>1. k \in 1..N - 1 /\ to[k] = at[k] /\ at[k] \in S
    BY <1>1, <1>2, <1>4
  <2>2. CASE n = N
    BY <1>4, <2>1, <2>2
  <2>3. CASE n \in 1..N - 1
    BY <1>1, <1>2, <1>4, <2>1, <2>3
  <2> QED
    BY <1>3, <2>2, <2>3
<1>6. ASSUME NEW i \in S \cup {m} PROVE \E n \in DOMAIN more : to[n] = i
  <2>1. CASE i = m
    <3>1. N \in DOMAIN more
      BY <1>1
    <3> QED
      BY <1>4, <2>1, <3>1
  <2>2. CASE i \in S
    <3>1. PICK n \in DOMAIN ks : at[n] = i
      BY <1>2, <2>2
    <3>2. n \in DOMAIN more /\ to[n] = i
      BY <1>1, <1>4, <3>1
    <3> QED
      BY <3>2
  <2> QED
    BY <2>1, <2>2
<1>7. \A n \in DOMAIN more : more[n] = q[to[n]].key
  <2> SUFFICES ASSUME NEW n \in 1..N PROVE more[n] = q[to[n]].key
    BY <1>1
  <2>1. CASE n = N
    BY <1>1, <1>4, <2>1
  <2>2. CASE n \in 1..N - 1
    BY <1>1, <1>2, <1>4, <2>2
  <2> QED
    BY <1>3, <2>1, <2>2
<1>8. Lists(more, S \cup {m}, q)
    BY <1>4, <1>5, <1>6, <1>7 DEF Lists
<1> QED
    BY <1>1, <1>8 DEF more

LEMMA InitLoad == BindingInit => LoadInv
<1> SUFFICES ASSUME BindingInit, task = "load"
             PROVE  LoadedUpTo(0) /\ result = "none" /\ stack \in Seq(Frames) /\ Ahead(stack) = SubSeq(All, 0 + 1, Len(All))
    BY AllIs DEF LoadInv
<1>1. stack = <<Frame(Config, <<>>, <<>>)>> /\ DOMAIN target = {} /\ missing = <<>> /\ result = "none"
    BY DEF BindingInit
<1> DEFINE fr == Frame(Config, <<>>, <<>>)
<1>2. fr \in Frames /\ Rest(fr) = Mapped(Lift(<<>>, <<>>), All)
  <2>1. <<>> \in Seq(Words) /\ <<>> \in Seq(Nat)
    OBVIOUS
  <2> QED
    BY <2>1, EnteredRest, FieldTypes DEF All
<1>3. Rest(fr) = All
    BY <1>2, AllIs, LiftNothing
<1> HIDE DEF fr
<1>4. Ahead(<<fr>>) = All
  <2>1. <<>> \in Seq(Frames) /\ <<fr>> \o <<>> = <<fr>>
    OBVIOUS
  <2>2. Ahead(<<fr>> \o <<>>) = Rest(fr) \o Ahead(<<>>)
    BY <1>2, <2>1, AheadIs
  <2>3. All \o <<>> = All
    BY AllIs, ConcatEmptySeq
  <2> QED
    BY <1>3, <2>1, <2>2, <2>3, AheadIs
<1>5. SubSeq(All, 0 + 1, Len(All)) = All
    BY AllIs
<1>6. {i \in Present : i <= 0} = {} /\ {i \in Lost : i <= 0} = {}
    BY AllIs DEF Present, Lost
<1>7. Lists(<<>>, {}, All)
  <2>1. [n \in {} |-> 0] \in [DOMAIN <<>> -> {}]
    OBVIOUS
  <2> QED
    BY <2>1 DEF Lists
<1>8. LoadedUpTo(0)
  <2>1. DOMAIN target = {All[i].path : i \in {i \in Present : i <= 0}}
    BY <1>1, <1>6
  <2>2. \A i \in Present : ~(i <= 0)
    BY <1>6
  <2>3. missing \in Seq(Seq(Words))
    BY <1>1
  <2>4. Lists(missing, {i \in Lost : i <= 0}, All)
    <3> DEFINE none == {i \in Lost : i <= 0}
    <3>1. none = {} /\ missing = <<>>
      BY <1>1, <1>6
    <3> HIDE DEF none
    <3>2. Lists(missing, none, All)
      BY <1>7, <3>1
    <3> QED
      BY <3>2 DEF none
  <2> QED
    BY <2>1, <2>2, <2>3, <2>4 DEF LoadedUpTo
<1> QED
    BY <1>1, <1>2, <1>4, <1>5, <1>8 DEF fr

\* The frame the walk is in.
LEMMA TopIs ==
    ASSUME stack \in Seq(Frames), stack # <<>>
    PROVE  /\ Top \in Frames /\ Tail(stack) \in Seq(Frames) /\ stack = <<Top>> \o Tail(stack)
           /\ Ahead(stack) = Rest(Top) \o Ahead(Tail(stack)) /\ Ahead(Tail(stack)) \in Seq(Leafs)
<1>1. Top \in Frames /\ Tail(stack) \in Seq(Frames) /\ stack = <<Top>> \o Tail(stack)
    BY DEF Top
<1> QED
    BY <1>1, AheadIs

\* The field it is at, and what is ahead after that.
LEMMA FieldIs ==
    ASSUME stack \in Seq(Frames), AtField("load")
    PROVE  /\ Current \in Fields /\ Top.next \in Nat /\ Here \in Seq(Nat) /\ Key \in Seq(Words)
           /\ Here = Top.path \o <<Top.next>>
           /\ Continued \in Seq(Frames) /\ Ahead(Continued) \in Seq(Leafs)
           /\ Ahead(stack) = Mapped(Lift(Top.path, Top.prefix), FieldLeaves(Leaves, Top.next, Current)) \o Ahead(Continued)
<1> DEFINE on == [Top EXCEPT !.next = @ + 1]
           rest == Tail(stack)
           g == Lift(Top.path, Top.prefix)
           ls == FieldLeaves(Leaves, Top.next, Current)
<1>1. stack # <<>> /\ Top.next <= Len(Struct[Top.struct])
    BY DEF AtField
<1>2. Top \in Frames /\ rest \in Seq(Frames) /\ Ahead(stack) = Rest(Top) \o Ahead(rest) /\ Ahead(rest) \in Seq(Leafs)
    BY <1>1, TopIs
<1>3. Top.struct \in DOMAIN Struct /\ Top.next \in Nat \ {0} /\ Top.prefix \in Seq(Words) /\ Top.path \in Seq(Nat)
    BY <1>2, FrameParts
<1>4. on \in Frames /\ Continued = <<on>> \o rest
  <2>1. on \in Frames
    BY <1>2, FrameParts
  <2> QED
    BY <2>1 DEF Continued
<1>5. Current \in Fields
  <2>1. Struct[Top.struct] \in Seq(Fields)
    BY <1>3, FieldTypes
  <2> QED
    BY <1>1, <1>3, <2>1 DEF Current
<1>6. Here = Top.path \o <<Top.next>> /\ Here \in Seq(Nat)
  <2> DEFINE p == Top.path
             n == Top.next
  <2>1. p \in Seq(Nat) /\ n \in Nat
    BY <1>3
  <2> HIDE DEF p, n
  <2>2. Append(p, n) = p \o <<n>> /\ Append(p, n) \in Seq(Nat)
    BY <2>1
  <2> QED
    BY <2>2 DEF p, n, Here
<1>7. Key \in Seq(Words)
    BY <1>3, <1>5, FieldTypes, ConcatProperties DEF Key
<1>8. Rest(Top) = Mapped(g, ls) \o Rest(on) /\ Rest(on) \in Seq(Leafs)
    BY <1>1, <1>2, <1>4, RestIs DEF Current
<1>9. Mapped(g, ls) \in Seq(Leafs)
  <2>1. ls \in Seq(Leafs) /\ g \in [Leafs -> Leafs]
    BY <1>3, <1>5, FieldAsks, LiftIs
  <2> HIDE DEF ls, g
  <2> QED
    BY <2>1, MappedType
<1> HIDE DEF on, rest, g, ls
<1>10. Ahead(Continued) = Rest(on) \o Ahead(rest) /\ Continued \in Seq(Frames) /\ Ahead(Continued) \in Seq(Leafs)
  <2>1. <<on>> \in Seq(Frames)
    BY <1>4
  <2>2. Continued \in Seq(Frames)
    BY <1>2, <1>4, <2>1, ConcatProperties
  <2> QED
    BY <1>2, <1>4, <2>2, AheadIs
<1>11. (Mapped(g, ls) \o Rest(on)) \o Ahead(rest) = Mapped(g, ls) \o (Rest(on) \o Ahead(rest))
    BY <1>2, <1>8, <1>9, ConcatAssociative
<1>12. Ahead(stack) = Mapped(g, ls) \o Ahead(Continued)
    BY <1>2, <1>8, <1>10, <1>11
<1> QED
    BY <1>3, <1>5, <1>6, <1>7, <1>10, <1>12 DEF g, ls

\* Nothing is looked up: what is ahead stays.
LEMMA SkipAhead ==
    ASSUME stack \in Seq(Frames), task = "load", Skip
    PROVE  stack' \in Seq(Frames) /\ Ahead(stack') = Ahead(stack)
<1>1. AtField("load") /\ (~Current.exported \/ Current.tag = <<>>) /\ stack' = Continued
    BY DEF Skip, AtField
<1>2. FieldLeaves(Leaves, Top.next, Current) = <<>>
    BY <1>1 DEF FieldLeaves
<1>3. Mapped(Lift(Top.path, Top.prefix), <<>>) = <<>>
    BY DEF Mapped
<1> QED
    BY <1>1, <1>2, <1>3, FieldIs, ConcatEmptySeq

LEMMA ReturnAhead ==
    ASSUME stack \in Seq(Frames), Return
    PROVE  stack' \in Seq(Frames) /\ Ahead(stack') = Ahead(stack)
<1>1. stack # <<>> /\ Top.next > Len(Struct[Top.struct]) /\ stack' = Tail(stack)
    BY DEF Return
<1>2. Rest(Top) = <<>>
    BY <1>1, TopIs, RestIs
<1> QED
    BY <1>1, <1>2, TopIs, ConcatEmptySeq

LEMMA DescendAhead ==
    ASSUME stack \in Seq(Frames), Descend
    PROVE  stack' \in Seq(Frames) /\ Ahead(stack') = Ahead(stack)
<1>1. /\ AtField("load") /\ Current.exported /\ Current.tag # <<>> /\ Current.kind = "struct"
      /\ stack' = <<Frame(Current.of, Key, Here)>> \o Continued
    BY DEF Descend
<1>2. /\ Current \in Fields /\ Top.next \in Nat /\ Here \in Seq(Nat) /\ Key \in Seq(Words)
      /\ Here = Top.path \o <<Top.next>> /\ Continued \in Seq(Frames)
      /\ Ahead(stack) = Mapped(Lift(Top.path, Top.prefix), FieldLeaves(Leaves, Top.next, Current)) \o Ahead(Continued)
    BY <1>1, FieldIs
<1>3. Current.of \in DOMAIN Struct /\ Current.tag \in Seq(Words)
    BY <1>1, <1>2, FieldTypes
<1>4. Top.path \in Seq(Nat) /\ Top.prefix \in Seq(Words)
    BY <1>1, TopIs, FrameParts DEF AtField
<1> DEFINE q == Leaves[Current.of]
           fr == Frame(Current.of, Key, Here)
<1>5. q \in Seq(Leafs) /\ <<Top.next>> \in Seq(Nat)
    BY <1>2, <1>3, LeavesIs
<1>6. FieldLeaves(Leaves, Top.next, Current) = Mapped(Lift(<<Top.next>>, Current.tag), q)
    BY <1>1, <1>2, FieldAsks
<1>7. fr \in Frames /\ Rest(fr) = Mapped(Lift(Here, Key), q)
    BY <1>2, <1>3, EnteredRest
<1> HIDE DEF q, fr
<1>8. Mapped(Lift(Top.path, Top.prefix), Mapped(Lift(<<Top.next>>, Current.tag), q)) =
          Mapped(Lift(Top.path \o <<Top.next>>, Top.prefix \o Current.tag), q)
    BY <1>3, <1>4, <1>5, LiftLift
<1>9. Ahead(stack) = Rest(fr) \o Ahead(Continued)
    BY <1>2, <1>6, <1>7, <1>8 DEF Key
<1>10. stack' = <<fr>> \o Continued /\ <<fr>> \in Seq(Frames)
    BY <1>1, <1>7 DEF fr
<1>11. stack' \in Seq(Frames)
    BY <1>2, <1>10, ConcatProperties
<1> QED
    BY <1>2, <1>7, <1>9, <1>10, <1>11, AheadIs

\* The leaf at a field that is no struct is the first ahead.
LEMMA LookUpAhead ==
    ASSUME stack \in Seq(Frames), LookUp
    PROVE  LET l == [path |-> Here, key |-> Key, field |-> Current] IN
           /\ l \in Leafs /\ Continued \in Seq(Frames) /\ Ahead(Continued) \in Seq(Leafs)
           /\ Ahead(stack) = <<l>> \o Ahead(Continued)
<1>1. AtField("load") /\ Current.exported /\ Current.tag # <<>> /\ Current.kind # "struct"
    BY DEF LookUp
<1>2. /\ Current \in Fields /\ Top.next \in Nat /\ Here \in Seq(Nat) /\ Key \in Seq(Words)
      /\ Here = Top.path \o <<Top.next>> /\ Continued \in Seq(Frames) /\ Ahead(Continued) \in Seq(Leafs)
      /\ Ahead(stack) = Mapped(Lift(Top.path, Top.prefix), FieldLeaves(Leaves, Top.next, Current)) \o Ahead(Continued)
    BY <1>1, FieldIs
<1>3. Current.tag \in Seq(Words) /\ Top.path \in Seq(Nat) /\ Top.prefix \in Seq(Words)
    BY <1>1, <1>2, TopIs, FrameParts, FieldTypes DEF AtField
<1> DEFINE o == [path |-> <<Top.next>>, key |-> Current.tag, field |-> Current]
           l == [path |-> Here, key |-> Key, field |-> Current]
           g == Lift(Top.path, Top.prefix)
<1>4. FieldLeaves(Leaves, Top.next, Current) = <<o>>
    BY <1>1 DEF FieldLeaves
<1>5. o \in Leafs /\ l \in Leafs
    BY <1>2, <1>3 DEF Leafs
<1>6. o.path = <<Top.next>> /\ o.key = Current.tag /\ o.field = Current
    OBVIOUS
<1> HIDE DEF o
<1>7. g[o] = [path |-> Top.path \o o.path, key |-> Top.prefix \o o.key, field |-> o.field]
    BY <1>3, <1>5, LiftIs
<1>8. g[o] = l
    BY <1>2, <1>6, <1>7 DEF Key
<1> HIDE DEF l, g
<1>9. Mapped(g, <<o>>) = <<g[o]>>
    BY DEF Mapped
<1>10. Ahead(stack) = <<l>> \o Ahead(Continued)
    BY <1>2, <1>4, <1>8, <1>9 DEF g
<1> QED
    BY <1>2, <1>5, <1>10 DEF l

\* The next leaf is looked up.
LEMMA LookUpLoad ==
    ASSUME stack \in Seq(Frames), LookUp, NEW n \in 0..Len(All), LoadedUpTo(n), Ahead(stack) = SubSeq(All, n + 1, Len(All))
    PROVE  /\ n < Len(All)
           /\ \/ LoadedUpTo(n + 1)' /\ result' = "none" /\ stack' \in Seq(Frames) /\ Ahead(stack') = SubSeq(All, n + 2, Len(All))
              \/ LoadedUpTo(n)' /\ result' = "invalid" /\ n + 1 \in Present /\ ParsedOf(n + 1) = Error
<1> DEFINE m == n + 1
           l == [path |-> Here, key |-> Key, field |-> Current]
           rest == Ahead(Continued)
           set == {i \in Present : i <= n}
           lost == {i \in Lost : i <= n}
<1>1. l \in Leafs /\ Continued \in Seq(Frames) /\ rest \in Seq(Leafs) /\ Ahead(stack) = <<l>> \o rest
    BY LookUpAhead
<1>2. n \in Nat /\ m \in Nat /\ Len(All) \in Nat /\ All \in Seq(Leafs)
    BY AllIs
<1>0. l.path = Here /\ l.key = Key /\ l.field = Current
    OBVIOUS
<1> HIDE DEF l, rest
<1>3. n < Len(All) /\ All[m] = l /\ rest = SubSeq(All, n + 2, Len(All))
  <2> DEFINE q == SubSeq(All, n + 1, Len(All))
  <2>1. q = <<l>> \o rest /\ Len(q) = 1 + Len(rest) /\ Len(rest) \in Nat
    <3>1. q = <<l>> \o rest
      BY <1>1
    <3> HIDE DEF q
    <3> QED
      BY <1>1, <3>1
  <2>2. n < Len(All)
    BY <1>2, <2>1
  <2>3. q[1] = l /\ Tail(q) = rest
    <3> HIDE DEF q
    <3> QED
      BY <1>1, <2>1
  <2>4. q[1] = All[m]
    BY <1>2, <2>2
  <2>5. Tail(q) = SubSeq(All, n + 2, Len(All))
    <3> DEFINE r == SubSeq(All, n + 2, Len(All))
    <3>1. r \in Seq(Leafs) /\ rest \in Seq(Leafs) /\ Len(r) = Len(rest)
      BY <1>1, <1>2, <2>1, <2>2
    <3>2. ASSUME NEW i \in 1..Len(rest) PROVE rest[i] = r[i]
      <4>1. rest[i] = q[i + 1] /\ i + 1 \in 1..Len(q)
        <5> HIDE DEF q
        <5> QED
          BY <1>1, <2>1
      <4>2. q[i + 1] = All[n + 1 + i] /\ r[i] = All[n + 1 + i]
        BY <1>2, <2>1, <2>2, <3>1
      <4> QED
        BY <4>1, <4>2
    <3> HIDE DEF r, q
    <3>3. rest = r
      BY <3>1, <3>2, SeqEqual
    <3> QED
      BY <2>3, <3>3 DEF r
  <2> HIDE DEF q
  <2> QED
    BY <2>2, <2>3, <2>4, <2>5
<1>4. m \in DOMAIN All /\ All[m].path = Here /\ All[m].key = Key /\ All[m].field = Current
    BY <1>0, <1>2, <1>3, AllIs
<1>5. RawOf(m) = Source(Key, Current) /\ ParsedOf(m) = Parsed(Current.kind, Source(Key, Current))
    BY <1>4 DEF RawOf, ParsedOf
<1>6. UNCHANGED inputs /\ result = "none"
    BY DEF LookUp, AtField
<1>7. Present' = Present /\ Lost' = Lost /\ (\A i : ParsedOf(i)' = ParsedOf(i))
    BY <1>6 DEF Present, Lost, ParsedOf, RawOf, Source, Value, inputs
<1>8. Present \subseteq Nat /\ Lost \subseteq Nat /\ Present \subseteq DOMAIN All /\ Lost \subseteq DOMAIN All
    BY AllIs DEF Present, Lost
<1>9. /\ DOMAIN target = {All[i].path : i \in set}
      /\ \A i \in Present : i <= n => target[All[i].path] = ParsedOf(i) /\ ParsedOf(i) # Error
      /\ missing \in Seq(Seq(Words)) /\ Lists(missing, lost, All)
    BY DEF LoadedUpTo
<1> HIDE DEF m
<1>10. \A i \in Nat : i <= m <=> i <= n \/ i = m
    BY <1>2 DEF m
<1>11. CASE RawOf(m) # Unset /\ ParsedOf(m) = Error
  <2>1. result' = "invalid" /\ UNCHANGED <<target, missing>> /\ m \in Present
    BY <1>4, <1>5, <1>11 DEF LookUp, Assign, Present
  <2>2. LoadedUpTo(n)'
    BY <1>7, <1>9, <2>1 DEF LoadedUpTo
  <2> QED
    BY <1>3, <1>11, <2>1, <2>2 DEF m
<1>12. CASE RawOf(m) # Unset /\ ParsedOf(m) # Error
  <2>1. result' = "none" /\ stack' = Continued /\ missing' = missing /\ m \in Present
        /\ target' = With(target, All[m].path, ParsedOf(m))
    BY <1>4, <1>5, <1>6, <1>12 DEF LookUp, Assign, Present
  <2>2. m \notin Lost
    BY <1>12 DEF Lost
  <2>3. {i \in Lost : i <= m} = lost /\ {i \in Present : i <= m} = set \cup {m}
    BY <1>8, <1>10, <2>1, <2>2
  <2> DEFINE p == All[m].path
  <2>4. \A i \in set : All[i].path # p
    BY <1>2, <1>4, <1>8, AllIs DEF Distinct, m
  <2>5. DOMAIN target' = DOMAIN target \cup {p} /\ target'[p] = ParsedOf(m)
        /\ \A x \in DOMAIN target : x # p => target'[x] = target[x]
    BY <2>1, Zenon DEF With
  <2>6. DOMAIN target' = {All[i].path : i \in {i \in Present : i <= m}}
    BY <1>9, <2>3, <2>5
  <2>7. ASSUME NEW i \in Present, i <= m PROVE target'[All[i].path] = ParsedOf(i) /\ ParsedOf(i) # Error
    <3>1. CASE i = m
      BY <1>12, <2>5, <3>1
    <3>2. CASE i <= n
      <4>1. i \in set /\ All[i].path \in DOMAIN target
        BY <1>9, <3>2
      <4> QED
        BY <1>9, <2>4, <2>5, <3>2, <4>1
    <3> QED
      BY <1>8, <1>10, <2>7, <3>1, <3>2
  <2>8. LoadedUpTo(m)'
    BY <1>7, <1>9, <2>1, <2>3, <2>6, <2>7 DEF LoadedUpTo
  <2> QED
    BY <1>1, <1>3, <2>1, <2>8 DEF m, rest
<1>13. CASE RawOf(m) = Unset
  <2>1. /\ missing' = IF Current.required THEN Append(missing, Key) ELSE missing
        /\ stack' = Continued /\ target' = target /\ result' = "none"
    BY <1>5, <1>6, <1>13 DEF LookUp
  <2>2. m \notin Present /\ (m \in Lost <=> Current.required)
    BY <1>4, <1>13 DEF Present, Lost
  <2>3. {i \in Present : i <= m} = set
    BY <1>8, <1>10, <2>2
  <2>4. missing' \in Seq(Seq(Words)) /\ Lists(missing', {i \in Lost : i <= m}, All)
    <3>1. CASE m \in Lost
      <4>1. {i \in Lost : i <= m} = lost \cup {m} /\ lost \subseteq Nat /\ \A i \in lost : i < m
        <5>1. lost \subseteq Nat /\ \A i \in lost : i < m
          <6> SUFFICES ASSUME NEW i \in lost PROVE i \in Nat /\ i < n + 1
            BY DEF m
          <6>1. i \in Lost /\ i <= n
            OBVIOUS
          <6> QED
            BY <1>2, <1>8, <6>1
        <5>2. \A i \in Lost : i <= m <=> i <= n \/ i = m
          BY <1>8, <1>10
        <5>3. m <= m
          BY <1>2
        <5> QED
          BY <3>1, <5>1, <5>2, <5>3
      <4>2. missing' = Append(missing, All[m].key) /\ All[m].key \in Seq(Words)
        BY <1>1, <1>3, <1>4, <2>1, <2>2, <3>1, LeafParts
      <4> QED
        <5>1. \A i \in lost : i < m
          BY <4>1
        <5> HIDE DEF lost
        <5>2. Append(missing, All[m].key) \in Seq(Seq(Words)) /\ Lists(Append(missing, All[m].key), lost \cup {m}, All)
          BY <1>2, <1>9, <4>1, <4>2, <5>1, ListsMore
        <5> QED
          BY <4>1, <4>2, <5>2
    <3>2. CASE m \notin Lost
      <4>1. {i \in Lost : i <= m} = lost
        BY <1>8, <1>10, <3>2
      <4> QED
        BY <1>9, <2>1, <2>2, <3>2, <4>1
    <3> QED
      BY <3>1, <3>2
  <2>5. LoadedUpTo(m)'
    <3>1. \A i \in Present : i <= m => i <= n
      BY <1>8, <1>10, <2>2
    <3> QED
      BY <1>7, <1>9, <2>1, <2>3, <2>4, <3>1 DEF LoadedUpTo
  <2> QED
    BY <1>1, <1>3, <2>1, <2>5 DEF m, rest
<1> QED
    BY <1>11, <1>12, <1>13

\* What was looked up stays while the walk goes from field to field.
LEMMA StillLoaded ==
    ASSUME NEW n \in Nat, LoadedUpTo(n), UNCHANGED <<inputs, target, missing>>
    PROVE  LoadedUpTo(n)'
<1>1. Present' = Present /\ Lost' = Lost /\ (\A i : ParsedOf(i)' = ParsedOf(i))
    BY DEF Present, Lost, ParsedOf, RawOf, Source, Value, inputs
<1> QED
    BY <1>1 DEF LoadedUpTo

\* A sequence none of whose items are ahead is through.
LEMMA NoneAhead ==
    ASSUME NEW T, NEW q \in Seq(T), NEW n \in 0..Len(q), SubSeq(q, n + 1, Len(q)) = <<>>
    PROVE  n = Len(q)
<1>1. Len(q) \in Nat /\ n \in Nat /\ n <= Len(q)
    OBVIOUS
<1>2. n < Len(q) => Len(SubSeq(q, n + 1, Len(q))) = Len(q) - n
    BY <1>1
<1>3. Len(SubSeq(q, n + 1, Len(q))) = 0
  <2> DEFINE ahead == SubSeq(q, n + 1, Len(q))
  <2>1. ahead = <<>> /\ Len(<<>>) = 0
    OBVIOUS
  <2> HIDE DEF ahead
  <2>2. Len(ahead) = 0
    BY <2>1
  <2> QED
    BY <2>2 DEF ahead
<1> QED
    BY <1>1, <1>2, <1>3

LEMMA NextLoad == LoadInv /\ [BindingNext]_bindingVars => LoadInv'
<1> SUFFICES ASSUME LoadInv, [BindingNext]_bindingVars, task' = "load" PROVE LoadInv'
    BY DEF LoadInv
<1>1. task = "load"
    BY DEF BindingNext, Before, BindForm, Skip, Descend, LookUp, TakeValues, Return, Finish, inputs, bindingVars
<1>2. PICK n \in 0..Len(All) :
            /\ LoadedUpTo(n)
            /\ \/ result = "none" /\ stack \in Seq(Frames) /\ Ahead(stack) = SubSeq(All, n + 1, Len(All))
               \/ result = (IF missing = <<>> THEN "ok" ELSE "missing") /\ n = Len(All)
               \/ result = "invalid" /\ n + 1 \in Present /\ ParsedOf(n + 1) = Error
    BY <1>1 DEF LoadInv
<1>3. n \in Nat /\ n \in 0..Len(All) /\ Len(All) \in Nat
    BY AllIs
<1>4. CASE UNCHANGED bindingVars
  <2>1. UNCHANGED <<inputs, target, missing>> /\ UNCHANGED <<stack, result>>
    BY <1>4 DEF bindingVars, inputs
  <2>2. LoadedUpTo(n)'
    BY <1>2, <1>3, <2>1, StillLoaded
  <2>3. Ahead(stack)' = Ahead(stack) /\ Present' = Present /\ ParsedOf(n + 1)' = ParsedOf(n + 1)
    BY <2>1 DEF Ahead, Present, ParsedOf, RawOf, Source, Value, inputs
  <2> QED
    BY <1>2, <2>1, <2>2, <2>3 DEF LoadInv
<1>5. ASSUME UNCHANGED <<inputs, target, missing, result>>, stack' \in Seq(Frames), Ahead(stack') = Ahead(stack),
             result = "none"
      PROVE  LoadInv'
  <2>1. LoadedUpTo(n)'
    BY <1>2, <1>3, <1>5, StillLoaded
  <2>2. Ahead(stack) = SubSeq(All, n + 1, Len(All))
    BY <1>2, <1>5
  <2> QED
    BY <1>5, <2>1, <2>2 DEF LoadInv
<1>6. CASE Skip
  <2>1. result = "none" /\ UNCHANGED <<inputs, target, missing, result>>
    BY <1>6 DEF Skip, AtField
  <2> QED
    BY <1>1, <1>2, <1>5, <1>6, <2>1, SkipAhead
<1>7. CASE Return
  <2>1. result = "none" /\ UNCHANGED <<inputs, target, missing, result>>
    BY <1>7 DEF Return
  <2> QED
    BY <1>2, <1>5, <1>7, <2>1, ReturnAhead
<1>8. CASE Descend
  <2>1. result = "none" /\ UNCHANGED <<inputs, target, missing, result>>
    BY <1>8 DEF Descend, AtField
  <2> QED
    BY <1>2, <1>5, <1>8, <2>1, DescendAhead
<1>9. CASE LookUp
  <2>1. result = "none"
    BY <1>9 DEF LookUp, AtField
  <2>2. stack \in Seq(Frames) /\ Ahead(stack) = SubSeq(All, n + 1, Len(All))
    BY <1>2, <2>1
  <2>3. /\ n < Len(All)
        /\ \/ LoadedUpTo(n + 1)' /\ result' = "none" /\ stack' \in Seq(Frames) /\ Ahead(stack') = SubSeq(All, n + 2, Len(All))
           \/ LoadedUpTo(n)' /\ result' = "invalid" /\ n + 1 \in Present /\ ParsedOf(n + 1) = Error
    BY <1>2, <1>3, <1>9, <2>2, LookUpLoad
  <2>4. CASE LoadedUpTo(n + 1)' /\ result' = "none" /\ stack' \in Seq(Frames) /\ Ahead(stack') = SubSeq(All, n + 2, Len(All))
    <3>1. n + 1 \in 0..Len(All) /\ (n + 1) + 1 = n + 2
      BY <1>3, <2>3
    <3> QED
      BY <2>4, <3>1 DEF LoadInv
  <2>5. CASE LoadedUpTo(n)' /\ result' = "invalid" /\ n + 1 \in Present /\ ParsedOf(n + 1) = Error
    <3>1. UNCHANGED inputs
      BY <1>9 DEF LookUp
    <3>2. Present' = Present /\ ParsedOf(n + 1)' = ParsedOf(n + 1)
      BY <3>1 DEF Present, ParsedOf, RawOf, Source, Value, inputs
    <3> QED
      BY <1>3, <2>5, <3>2 DEF LoadInv
  <2> QED
    BY <2>3, <2>4, <2>5
<1>10. CASE Finish
  <2>1. /\ result = "none" /\ stack = <<>> /\ UNCHANGED <<inputs, target, missing>>
        /\ result' = IF missing = <<>> THEN "ok" ELSE "missing"
    BY <1>10 DEF Finish
  <2>2. SubSeq(All, n + 1, Len(All)) = <<>>
    BY <1>2, <2>1, AheadIs
  <2>3. n = Len(All)
    BY <2>2, AllIs, NoneAhead
  <2>4. LoadedUpTo(n)'
    BY <1>2, <1>3, <2>1, StillLoaded
  <2>5. result' = (IF missing' = <<>> THEN "ok" ELSE "missing")
    BY <2>1
  <2> QED
    BY <1>3, <2>3, <2>4, <2>5 DEF LoadInv
<1>11. ~Before /\ ~BindForm /\ ~TakeValues
    BY <1>1 DEF Before, BindForm, TakeValues, AtField
<1> QED
    BY <1>4, <1>6, <1>7, <1>8, <1>9, <1>10, <1>11 DEF BindingNext

\* Nothing is listed exactly when there is nothing to list.
LEMMA ListsNone ==
    ASSUME NEW T, NEW ks \in Seq(T), NEW S, NEW q, Lists(ks, S, q)
    PROVE  ks = <<>> <=> S = {}
<1>1. PICK at \in [DOMAIN ks -> S] : \A i \in S : \E n \in DOMAIN ks : at[n] = i
    BY DEF Lists
<1>2. CASE ks = <<>>
    BY <1>1, <1>2
<1>3. CASE ks # <<>>
  <2>1. 1 \in DOMAIN ks
    BY <1>3
  <2> QED
    BY <1>1, <1>3, <2>1
<1> QED
    BY <1>2, <1>3

\* LoadConfig, at any depth of nesting: the environment before the default; no error exactly when every value is
\* one and no required variable is nowhere; what is set, and which variables a report of missing ones names.
THEOREM LoadedAsDeclaredAlways == BindingSpec => []LoadedAsDeclared
<1>1. ASSUME LoadInv PROVE LoadedAsDeclared
  <2> SUFFICES ASSUME task = "load", result # "none" PROVE LoadedAsDeclared
    BY DEF LoadedAsDeclared
  <2> DEFINE raw == [i \in DOMAIN All |-> RawOf(i)]
             there == {i \in DOMAIN All : raw[i] # Unset}
             lost == {i \in DOMAIN All : raw[i] = Unset /\ All[i].field.required}
             values == [i \in there |-> Parsed(All[i].field.kind, raw[i])]
             paths == [i \in there |-> All[i].path]
             bad == {i \in there : values[i] = Error}
             set == {i \in there : \A j \in there : values[j] = Error => i < j}
  <2>1. there = Present /\ lost = Lost
    BY DEF Present, Lost
  <2>2. \A i \in there : values[i] = ParsedOf(i) /\ paths[i] = All[i].path
    BY DEF ParsedOf
  <2>3. LoadedAsDeclared <=> (/\ result = "ok" <=> bad = {} /\ lost = {}
                              /\ result = "invalid" => bad # {}
                              /\ result = "missing" => lost # {} /\ Lists(missing, lost, All)
                              /\ FilledUpTo(there, values, paths))
    BY DEF LoadedAsDeclared, All, RawOf
  <2> HIDE DEF values, paths, there, lost
  <2>4. PICK n \in 0..Len(All) :
            /\ LoadedUpTo(n)
            /\ \/ result = (IF missing = <<>> THEN "ok" ELSE "missing") /\ n = Len(All)
               \/ result = "invalid" /\ n + 1 \in Present /\ ParsedOf(n + 1) = Error
    BY <1>1 DEF LoadInv
  <2>5. /\ DOMAIN target = {All[i].path : i \in {i \in there : i <= n}}
        /\ \A i \in there : i <= n => target[All[i].path] = ParsedOf(i) /\ ParsedOf(i) # Error
        /\ missing \in Seq(Seq(Words)) /\ Lists(missing, {i \in lost : i <= n}, All)
    BY <2>1, <2>4 DEF LoadedUpTo
  <2>6. n \in Nat /\ Len(All) \in Nat /\ there \subseteq 1..Len(All) /\ lost \subseteq 1..Len(All)
    BY <2>1, AllIs DEF Present, Lost
  <2>7. \A i \in bad : n < i
    BY <2>2, <2>5, <2>6
  <2>8. ASSUME set = {i \in there : i <= n} PROVE FilledUpTo(there, values, paths)
    <3>1. DOMAIN target = {paths[i] : i \in set}
      BY <2>2, <2>5, <2>8
    <3>2. \A i \in set : target[paths[i]] = values[i]
      BY <2>2, <2>5, <2>8
    <3> QED
      BY <2>8, <3>1, <3>2 DEF FilledUpTo
  <2>9. CASE result = (IF missing = <<>> THEN "ok" ELSE "missing") /\ n = Len(All)
    <3>0. \A i \in 1..Len(All) : i <= n /\ ~(n < i)
      BY <2>6, <2>9
    <3>1. bad = {} /\ set = {i \in there : i <= n}
      <4>1. bad = {}
        BY <2>6, <2>7, <3>0
      <4> QED
        BY <2>6, <3>0, <4>1
    <3>2. {i \in lost : i <= n} = lost
      BY <2>6, <3>0
    <3>3. Lists(missing, lost, All) /\ (missing = <<>> <=> lost = {})
      BY <2>5, <3>2, ListsNone
    <3>4. FilledUpTo(there, values, paths)
      BY <2>8, <3>1
    <3> QED
      BY <2>3, <2>9, <3>1, <3>3, <3>4
  <2>10. CASE result = "invalid" /\ n + 1 \in Present /\ ParsedOf(n + 1) = Error
    <3>1. n + 1 \in bad
      BY <2>1, <2>2, <2>10
    <3>2. set = {i \in there : i <= n}
      <4>1. \A i \in there : i < n + 1 <=> i <= n
        BY <2>6
      <4>2. \A i \in there : i <= n => \A j \in bad : i < j
        BY <2>6, <2>7
      <4> QED
        BY <3>1, <4>1, <4>2
    <3>3. FilledUpTo(there, values, paths)
      BY <2>8, <3>2
    <3> QED
      BY <2>3, <2>10, <3>1, <3>3
  <2> QED
    BY <2>4, <2>9, <2>10
<1> QED
    BY InitLoad, NextLoad, <1>1, PTL DEF BindingSpec

-----------------------------------------------------------------------------
(* The accessors of a form.                                                   *)

\* What RawBody returned is kept, or the body is one that only gives errors; no form accessor mends that.
Kept ==
    /\ bodyBuf \in {"nil", "whole", "nothing"}
    /\ rawBody = "error" => bodyBuf = "nil" /\ input = "error"
    /\ rawBody \notin {"none", "error"} => bodyBuf = rawBody /\ bodyBuf # "nil"

LEMMA InitKept == BindingInit => Kept
BY DEF BindingInit, FormsInit, Kept

\* Parsing never makes a body readable that was not.
LEMMA BrokenStays ==
    ASSUME input = "error"
    PROVE  ParsedForm.input = "error" /\ ParsedMultipart.input = "error"
<1>1. ParsedForm.input = "error"
    BY DEF ParsedForm, Drained, Broken
<1>2. ParsedMultipart.input = "error"
    BY <1>1 DEF ParsedMultipart, Drained, Broken
<1> QED
    BY <1>1, <1>2

\* Accessors other than RawBody keep what RawBody kept.
LEMMA LeftKept ==
    ASSUME Kept, NEW after, Left(after), input = "error" => after.input = "error"
    PROVE  Kept' /\ rawBody' = rawBody
BY DEF Kept, Left, reading

\* One step of an accessor.
LEMMA AccessKept ==
    ASSUME Kept, Access
    PROVE  Kept' /\ (rawBody # "none" => rawBody' = rawBody)
<1>1. CASE FormValue
  <2>1. CASE Left(ParsedMultipart)
    BY <2>1, LeftKept, BrokenStays
  <2>2. CASE UNCHANGED <<reading, parsing>>
    BY <2>2 DEF Kept, reading
  <2> QED
    BY <1>1, <2>1, <2>2 DEF FormValue
<1>2. CASE File
    BY <1>2, LeftKept, BrokenStays DEF File
<1>3. CASE RawBody
  <2>1. CASE bodyBuf # "nil" /\ rawBody' = bodyBuf /\ UNCHANGED <<bodyBuf, input>>
    BY <2>1 DEF Kept
  <2>2. CASE bodyBuf = "nil" /\ rawBody' = "error" /\ input' = "error" /\ UNCHANGED bodyBuf
    BY <2>2 DEF Kept
  <2>3. CASE bodyBuf = "nil" /\ ~Broken /\ bodyBuf' \in {"nothing", "whole"} /\ rawBody' = bodyBuf'
    BY <2>3 DEF Kept, Broken
  <2> QED
    BY <1>3, <2>1, <2>2, <2>3 DEF RawBody
<1> QED
    BY <1>1, <1>2, <1>3 DEF Access

\* One step of anything.
LEMMA NextKept ==
    ASSUME Kept, [BindingNext]_bindingVars
    PROVE  Kept' /\ (rawBody # "none" => rawBody' = rawBody)
<1>1. CASE Before
    BY <1>1, AccessKept DEF Before
<1>2. CASE BindForm
    BY <1>2, LeftKept, BrokenStays DEF BindForm
<1>3. CASE Skip \/ Descend \/ LookUp \/ TakeValues \/ Return \/ Finish
  <2>1. UNCHANGED inputs
    BY <1>3 DEF Skip, Descend, LookUp, TakeValues, Return, Finish
  <2> QED
    BY <2>1 DEF Kept, inputs, formVars, reading
<1>4. CASE UNCHANGED bindingVars
    BY <1>4 DEF Kept, bindingVars, formVars, reading
<1> QED
    BY <1>1, <1>2, <1>3, <1>4 DEF BindingNext

\* Whatever is called in between, RawBody returns what it returned at first, an error included
\* (ctx.go 347-388; line 385: "safe to call multiple times").
THEOREM RawBodyStableAlways == BindingSpec => RawBodyStable
<1>1. Kept /\ [BindingNext]_bindingVars => Kept' /\ [rawBody # "none" => rawBody' = rawBody]_formVars
    BY NextKept
<1> QED
    BY InitKept, <1>1, PTL DEF BindingSpec, RawBodyStable

-----------------------------------------------------------------------------
(* BindForm.                                                                  *)

\* A form accessor was called.
FormRead == \E i \in DOMAIN calls : calls[i] # "RawBody"

Sending ==
    /\ contentType \in {"urlencoded", "multipart", "other"} /\ sound \in {"sound", "malformed", "large"}
    /\ sent \in [Names -> Seq(Raw)] /\ (contentType = "other" => sent = NoValues)
    /\ query \in [Names -> Seq(Raw)]
    /\ calls \in Seq({"RawBody", "FormValue", "File"})

\* What BindForm finds, and what another accessor leaves: what of the body has been parsed, and the URL.
Found(accessed) ==
    IF contentType = "urlencoded" /\ sound # "large" THEN Both(sent, query)
    ELSE IF contentType = "multipart" /\ sound # "large" /\ accessed THEN Both(query, sent)
    ELSE query
Visible == Found(FormRead)
There == Found(TRUE)

\* What the accessors before BindForm leave: a body that is too large stays unreadable, and the first form
\* accessor leaves the form as Visible tells it.
Accessed ==
    /\ Broken <=> sound = "large"
    /\ FormRead => form = Visible /\ (contentType = "multipart" /\ sound # "large" => multi)
    /\ ~FormRead => form = Unparsed /\ ~multi /\ input # "nothing"

\* Request.ParseForm fails in BindForm.
Refused == ~FormRead /\ (sound = "malformed" \/ (sound = "large" /\ contentType = "urlencoded"))

Wanted == {i \in DOMAIN Struct[Form] :
              Struct[Form][i].exported /\ Struct[Form][i].tag # <<"-">> /\ Given(Visible, Struct[Form][i].tag) # <<>>}
Bound(i) == BoundForm(Struct[Form][i].kind, Given(Visible, Struct[Form][i].tag))

\* The loop of BindForm has done the fields before k, and stands at k, is done, or has failed at k.
BoundUpTo(k) ==
    /\ DOMAIN target = {<<i>> : i \in {i \in Wanted : i < k}}
    /\ \A i \in Wanted : i < k => target[<<i>>] = Bound(i) /\ Bound(i) # Error
    /\ \/ result = "none" /\ stack = <<[struct |-> Form, next |-> k, prefix |-> <<>>, path |-> <<>>]>>
       \/ result \in {"none", "ok"} /\ stack = <<>> /\ k = Len(Struct[Form]) + 1
       \/ result = "invalid" /\ k \in Wanted /\ Bound(k) = Error

BoundInv ==
    /\ Sending
    /\ task = "access" => /\ Accessed /\ result = "none" /\ stack = <<>> /\ missing = <<>> /\ DOMAIN target = {}
    /\ task = "bind" =>
        /\ missing = <<>> /\ form = Visible
        /\ Refused => result = "invalid" /\ DOMAIN target = {}
        /\ ~Refused => \E k \in 1..Len(Struct[Form]) + 1 : BoundUpTo(k)

LEMMA FormsTypes ==
    /\ Names # {} /\ NoValues # Unparsed /\ Values \subseteq Seq(Raw)
    /\ Struct[Form] \in Seq(ToSet(Struct[Form]))
    /\ \A i \in DOMAIN Struct[Form] : Struct[Form][i].tag \in Seq(ToSet(Struct[Form][i].tag))
<1>1. NoValues # Unparsed
    BY FormsAssumption DEF NoValues, Unparsed
<1>2. Names # {}
    BY FormsAssumption
<1> QED
    BY <1>1, <1>2, BindingAssumption DEF ToSet

LEMMA FoundIsForm ==
    ASSUME Sending, NEW accessed \in BOOLEAN
    PROVE  Found(accessed) \in [Names -> Seq(Raw)] /\ Found(accessed) # Unparsed
<1>1. ASSUME NEW f \in [Names -> Seq(Raw)], NEW g \in [Names -> Seq(Raw)] PROVE Both(f, g) \in [Names -> Seq(Raw)]
    BY ConcatProperties DEF Both
<1>2. Found(accessed) \in [Names -> Seq(Raw)]
    BY <1>1 DEF Found, Sending
<1> QED
    BY <1>2, FormsAssumption DEF Unparsed

LEMMA InitBound == BindingInit => BoundInv
<1> SUFFICES ASSUME BindingInit PROVE BoundInv
    OBVIOUS
<1>1. NoValues \in [Names -> Seq(Raw)] /\ [Names -> Values] \subseteq [Names -> Seq(Raw)]
    BY FormsTypes DEF NoValues
<1>2. Sending
    BY <1>1, FormsAssumption DEF BindingInit, FormsInit, Sending
<1>3. task # "bind" /\ (task = "access" => stack = <<>>) /\ result = "none" /\ missing = <<>> /\ DOMAIN target = {}
    BY DEF BindingInit
<1>4. Accessed
    BY DEF BindingInit, FormsInit, Accessed, Broken, FormRead
<1> QED
    BY <1>2, <1>3, <1>4 DEF BoundInv

LEMMA VisibleOnceRead == (FormRead => Visible = There) /\ (~FormRead => Visible = Found(FALSE))
<1>1. (FormRead => FormRead = TRUE) /\ (~FormRead => FormRead = FALSE)
    BY DEF FormRead
<1> QED
    BY <1>1 DEF Visible, There

\* What parsing finds.
LEMMA Parsing ==
    ASSUME Sending, Accessed
    PROVE  /\ ParsedForm.form = Visible /\ (ParsedForm.failed <=> Refused)
           /\ ParsedMultipart.form = There
           /\ contentType = "multipart" /\ sound # "large" => ParsedMultipart.multi
           /\ (ParsedMultipart.input = "error" \/ (ParsedMultipart.input = "network" /\ sound = "large")) <=> sound = "large"
<1> DEFINE p == ParsedForm
           m == ParsedMultipart
<1>1. CASE FormRead
  <2>1. form = There /\ form = Visible /\ form # Unparsed
    BY <1>1, FoundIsForm, VisibleOnceRead DEF Accessed, There
  <2>2. p = [form |-> form, input |-> input, multi |-> multi, failed |-> FALSE]
    BY <2>1 DEF ParsedForm
  <2>3. ~(contentType = "multipart" /\ ~multi /\ ~Broken)
    BY <1>1 DEF Accessed
  <2>4. m = [p EXCEPT !.failed = ~multi, !.input = IF contentType = "multipart" /\ ~multi THEN Drained ELSE @]
    BY <2>3 DEF ParsedMultipart
  <2>5. m.form = form /\ m.multi = multi /\ m.input = IF contentType = "multipart" /\ ~multi THEN "error" ELSE input
    BY <2>2, <2>3, <2>4 DEF Drained
  <2>6. (m.input = "error" \/ (m.input = "network" /\ sound = "large")) <=> sound = "large"
    BY <2>3, <2>5 DEF Accessed, Broken
  <2>7. ~Refused /\ (contentType = "multipart" /\ sound # "large" => m.multi)
    BY <1>1, <2>5 DEF Refused, Accessed
  <2> QED
    BY <2>1, <2>2, <2>5, <2>6, <2>7
<1>2. CASE ~FormRead
  <2>1. form = Unparsed /\ ~multi /\ input # "nothing" /\ (Broken <=> sound = "large")
    BY <1>2 DEF Accessed
  <2>2. Visible = Found(FALSE) /\ (Refused <=> sound = "malformed" \/ (sound = "large" /\ contentType = "urlencoded"))
    BY <1>2, VisibleOnceRead DEF Refused
  <2>3. CASE contentType = "urlencoded"
    <3>1. p = [form |-> IF Broken THEN query ELSE Both(sent, query), input |-> Drained, multi |-> multi,
               failed |-> Broken \/ sound = "malformed"]
      BY <2>1, <2>3 DEF ParsedForm
    <3>2. m = [p EXCEPT !.failed = ~multi, !.input = p.input]
      BY <2>3 DEF ParsedMultipart
    <3>3. m.form = p.form /\ m.input = Drained
      BY <3>1, <3>2
    <3>4. p.form = There /\ p.form = Found(FALSE)
      BY <2>1, <2>3, <3>1 DEF There, Found
    <3>5. p.failed <=> Refused
      BY <2>1, <2>2, <2>3, <3>1
    <3> QED
      BY <2>1, <2>2, <2>3, <3>3, <3>4, <3>5 DEF Drained
  <2>4. CASE contentType # "urlencoded"
    <3>1. p = [form |-> query, input |-> input, multi |-> multi, failed |-> sound = "malformed"]
      BY <2>1, <2>4 DEF ParsedForm
    <3>2. p.form = Visible /\ (p.failed <=> Refused)
      BY <2>2, <2>4, <3>1 DEF Found
    <3>3. CASE contentType = "multipart" /\ ~Broken
      <4>1. m = [form |-> Both(p.form, sent), input |-> "nothing", multi |-> TRUE, failed |-> p.failed]
        BY <2>1, <3>3 DEF ParsedMultipart
      <4>2. m.form = There
        BY <2>1, <3>1, <3>3, <4>1 DEF There, Found
      <4> QED
        BY <2>1, <3>2, <3>3, <4>1, <4>2
    <3>4. CASE ~(contentType = "multipart" /\ ~Broken)
      <4>1. m = [p EXCEPT !.failed = ~multi, !.input = IF contentType = "multipart" /\ ~multi THEN Drained ELSE @]
        BY <3>4 DEF ParsedMultipart
      <4>2. m.form = query /\ m.input = IF contentType = "multipart" THEN "error" ELSE input
        BY <2>1, <3>1, <3>4, <4>1 DEF Drained
      <4>3. There = query
        BY <2>1, <2>4, <3>4 DEF There, Found
      <4>4. (m.input = "error" \/ (m.input = "network" /\ sound = "large")) <=> sound = "large"
        BY <2>1, <3>4, <4>2 DEF Broken
      <4> QED
        BY <2>1, <3>2, <3>4, <4>2, <4>3, <4>4
    <3> QED
      BY <3>3, <3>4
  <2> QED
    BY <2>3, <2>4
<1> QED
    BY <1>1, <1>2

\* One more accessor is in calls.
LEMMA OneMore ==
    ASSUME Sending, NEW name \in {"RawBody", "FormValue", "File"}, Called(name)
    PROVE  /\ Sending' /\ UNCHANGED body /\ Visible' = IF FormRead \/ name # "RawBody" THEN There ELSE Visible
           /\ FormRead' <=> FormRead \/ name # "RawBody"
<1>1. calls' = Append(calls, name) /\ UNCHANGED body
    BY DEF Called
<1>2. Sending'
    BY <1>1 DEF Sending, body
<1>3. FormRead' <=> FormRead \/ name # "RawBody"
  <2>1. DOMAIN calls' = 1..Len(calls) + 1 /\ DOMAIN calls = 1..Len(calls) /\ Len(calls) \in Nat
    BY <1>1 DEF Sending
  <2>2. \A i \in DOMAIN calls : calls'[i] = calls[i]
    BY <1>1 DEF Sending
  <2>3. calls'[Len(calls) + 1] = name
    BY <1>1 DEF Sending
  <2> QED
    BY <2>1, <2>2, <2>3 DEF FormRead
<1>4. \A accessed \in BOOLEAN : Found(accessed)' = Found(accessed)
    BY <1>1 DEF Found, body, Both
<1>5. FormRead' \in BOOLEAN /\ FormRead \in BOOLEAN
    BY DEF FormRead
<1>6. Visible' = Found(FormRead')
    BY <1>4, <1>5 DEF Visible
<1> QED
    BY <1>1, <1>2, <1>3, <1>5, <1>6 DEF There, Visible

\* Every accessor leaves what Accessed says.
LEMMA AccessAccessed ==
    ASSUME Sending, Accessed, Access
    PROVE  Sending' /\ Accessed'
<1>1. ASSUME NEW name \in {"FormValue", "File"}, Called(name), Left(ParsedMultipart)
      PROVE  Sending' /\ Accessed'
  <2>1. Sending' /\ FormRead' /\ Visible' = There /\ UNCHANGED body
    BY <1>1, OneMore
  <2>2. form' = There /\ input' = ParsedMultipart.input /\ multi' = ParsedMultipart.multi
    BY <1>1, Parsing DEF Left
  <2> QED
    BY <2>1, <2>2, Parsing DEF Accessed, Broken, body
<1>2. CASE Called("FormValue") /\ form # Unparsed /\ UNCHANGED <<reading, parsing>>
  <2>1. Sending' /\ FormRead' /\ Visible' = There /\ UNCHANGED body
    BY <1>2, OneMore
  <2>2. FormRead /\ Visible = There
    BY <1>2, VisibleOnceRead DEF Accessed
  <2> QED
    BY <1>2, <2>1, <2>2 DEF Accessed, Broken, body, reading, parsing
<1>3. CASE RawBody
  <2>1. Sending' /\ (FormRead' <=> FormRead) /\ UNCHANGED body /\ UNCHANGED parsing
    BY <1>3, OneMore DEF RawBody
  <2>2. Visible' = Visible
    BY <1>3, OneMore, VisibleOnceRead DEF RawBody
  <2>3. (Broken' <=> Broken) /\ (input # "nothing" => input' # "nothing")
    BY <1>3, <2>1 DEF RawBody, Broken, body
  <2> QED
    BY <2>1, <2>2, <2>3 DEF Accessed, body, parsing
<1> QED
  <2>1. CASE FormValue
    BY <1>1, <1>2, <2>1 DEF FormValue
  <2> QED
    BY <1>1, <1>3, <2>1 DEF Access, File

\* A step of the loop of BindForm from k.
LEMMA LoopBound ==
    ASSUME BoundInv, task = "bind", BindingNext
    PROVE  BoundInv'
<1> DEFINE fields == Struct[Form]
           n == Len(fields)
<1>1. UNCHANGED inputs /\ (Skip \/ TakeValues \/ Return \/ Finish)
    BY DEF BindingNext, Before, BindForm, Descend, LookUp, AtField, Skip, TakeValues, Return, Finish
<1>2. result = "none"
    BY <1>1 DEF Skip, TakeValues, AtField, Return, Finish
<1>3. ~Refused /\ ~Refused' /\ Sending' /\ task' = "bind" /\ Visible' = Visible /\ form' = Visible /\ missing = <<>>
    BY <1>1, <1>2 DEF BoundInv, Refused, Sending, Visible, Found, Both, FormRead, inputs, formVars, body, parsing
<1>4. PICK k \in 1..n + 1 : BoundUpTo(k)
    BY <1>3 DEF BoundInv
<1>5. Wanted' = Wanted /\ \A i : Bound(i)' = Bound(i)
    BY <1>3 DEF Wanted, Bound
<1>6. n \in Nat /\ DOMAIN fields = 1..n
    BY FormsTypes
<1>7. missing' = <<>>
    BY <1>1, <1>3 DEF Skip, TakeValues, Return, Finish
<1> DEFINE at(l) == <<[struct |-> Form, next |-> l, prefix |-> <<>>, path |-> <<>>]>>
<1>8. \E l \in 1..n + 1 : BoundUpTo(l)'
  <2>1. CASE stack = <<>>
    <3>1. Finish /\ k = n + 1
      BY <1>1, <1>2, <1>4, <2>1 DEF BoundUpTo, Skip, TakeValues, AtField, Return
    <3>2. result' = "ok" /\ stack' = <<>> /\ target' = target
      BY <1>3, <2>1, <3>1 DEF Finish
    <3> QED
      BY <1>4, <1>5, <3>1, <3>2 DEF BoundUpTo
  <2>2. CASE stack # <<>>
    <3>1. stack = at(k) /\ Top.next = k /\ Top.struct = Form
      BY <1>2, <1>4, <2>2 DEF BoundUpTo, Top
    <3>2. Tail(stack) = <<>>
      BY <3>1
    <3>3. CASE Return
      <4>1. stack' = <<>> /\ target' = target /\ result' = result /\ k = n + 1
        BY <1>6, <3>1, <3>2, <3>3 DEF Return
      <4> QED
        BY <1>2, <1>4, <1>5, <4>1 DEF BoundUpTo
    <3>4. CASE Skip \/ TakeValues
      <4>1. k \in 1..n /\ k + 1 \in 1..n + 1 /\ Current = fields[k]
        BY <1>6, <3>1, <3>4 DEF Skip, TakeValues, AtField, Current
      <4>2. Here = <<k>> /\ Key = fields[k].tag
        <5>1. fields[k].tag \in Seq(ToSet(fields[k].tag))
          BY <1>6, <4>1, FormsTypes
        <5>2. Top.path = <<>> /\ Top.prefix = <<>>
          BY <3>1 DEF Top
        <5> QED
          BY <3>1, <4>1, <5>1, <5>2 DEF Here, Key
      <4>3. Continued = at(k + 1)
        BY <3>1, <3>2, <4>1 DEF Continued, Top
      <4>4. k \in Wanted <=> fields[k].exported /\ fields[k].tag # <<"-">> /\ Given(form, Key) # <<>>
        BY <1>3, <1>6, <4>1, <4>2 DEF Wanted, BoundInv
      <4>5. CASE k \notin Wanted /\ stack' = Continued /\ UNCHANGED <<target, result>>
        <5>1. {i \in Wanted : i < k + 1} = {i \in Wanted : i < k}
          BY <1>6, <4>1, <4>5 DEF Wanted
        <5>2. \A i \in Wanted : i < k + 1 => i < k
          BY <1>6, <4>1, <4>5 DEF Wanted
        <5> QED
          BY <1>2, <1>4, <1>5, <4>1, <4>3, <4>5, <5>1, <5>2 DEF BoundUpTo
      <4>6. CASE k \in Wanted /\ Assign(Bound(k))
        <5>1. CASE Bound(k) = Error
          BY <1>4, <1>5, <4>6, <5>1 DEF Assign, BoundUpTo
        <5>2. CASE Bound(k) # Error
          <6>1. target' = With(target, <<k>>, Bound(k)) /\ stack' = at(k + 1) /\ result' = result
            BY <4>2, <4>3, <4>6, <5>2 DEF Assign
          <6>2. DOMAIN target = {<<i>> : i \in {i \in Wanted : i < k}}
            BY <1>4 DEF BoundUpTo
          <6>3. \A i, j : <<i>> = <<j>> => i = j
            OBVIOUS
          <6>4. <<k>> \notin DOMAIN target
            BY <1>6, <4>1, <6>2, <6>3
          <6>5. DOMAIN target' = DOMAIN target \cup {<<k>>} /\ target'[<<k>>] = Bound(k)
            BY <6>1, <6>4 DEF With
          <6>6. ASSUME NEW p \in DOMAIN target PROVE target'[p] = target[p]
            <7>1. p # <<k>> /\ p \in DOMAIN target \cup {<<k>>}
              BY <6>4
            <7> QED
              BY <6>1, <7>1, Zenon DEF With
          <6>7. {i \in Wanted : i < k + 1} = {i \in Wanted : i < k} \cup {k}
            BY <1>6, <4>1, <4>6 DEF Wanted
          <6>8. DOMAIN target' = {<<i>> : i \in {i \in Wanted : i < k + 1}}
            BY <6>2, <6>5, <6>7
          <6>9. ASSUME NEW i \in Wanted, i < k + 1
                PROVE  target'[<<i>>] = Bound(i) /\ Bound(i) # Error
            <7>1. CASE i = k
              BY <5>2, <6>5, <7>1
            <7>2. CASE i < k
              BY <1>4, <6>2, <6>6, <7>2 DEF BoundUpTo
            <7> QED
              BY <1>6, <4>1, <6>9, <7>1, <7>2 DEF Wanted
          <6> QED
            BY <1>2, <1>5, <4>1, <6>1, <6>8, <6>9 DEF BoundUpTo
        <5> QED
          BY <5>1, <5>2
      <4>7. CASE Skip
        <5>1. k \notin Wanted
          BY <4>1, <4>2, <4>4, <4>7 DEF Skip, AtField
        <5> QED
          BY <4>5, <4>7, <5>1 DEF Skip
      <4>8. CASE TakeValues
        <5>1. k \in Wanted <=> Given(form, Key) # <<>>
          BY <4>1, <4>2, <4>4, <4>8 DEF TakeValues
        <5>2. BoundForm(Current.kind, Given(form, Key)) = Bound(k)
          BY <4>1, <4>2 DEF Bound, BoundInv
        <5> QED
          BY <4>5, <4>6, <4>8, <5>1, <5>2 DEF TakeValues
      <4> QED
        BY <3>4, <4>7, <4>8
    <3> QED
      BY <1>1, <2>2, <3>3, <3>4 DEF Finish
  <2> QED
    BY <2>1, <2>2
<1> QED
    BY <1>3, <1>7, <1>8 DEF BoundInv

LEMMA NextBound ==
    ASSUME BoundInv, [BindingNext]_bindingVars
    PROVE  BoundInv'
<1>1. CASE Before
  <2>1. Sending' /\ Accessed'
    BY <1>1, AccessAccessed DEF Before, BoundInv
  <2> QED
    BY <1>1, <2>1 DEF Before, BoundInv
<1>2. CASE BindForm
  <2>1. Sending /\ Accessed /\ task' = "bind" /\ missing' = <<>> /\ DOMAIN target' = {} /\ result = "none" /\ stack = <<>>
    BY <1>2 DEF BindForm, BoundInv
  <2>2. form' = Visible /\ UNCHANGED <<body, calls, target>>
    BY <1>2, <2>1, Parsing DEF BindForm, Left
  <2>3. Sending' /\ Visible' = Visible /\ (Refused' <=> Refused)
    BY <2>1, <2>2 DEF Sending, Visible, Found, Both, Refused, FormRead, body
  <2>4. CASE Refused
    BY <1>2, <2>1, <2>2, <2>3, <2>4, Parsing DEF BindForm, BoundInv
  <2>5. CASE ~Refused
    <3>1. result' = "none" /\ stack' = <<Frame(Form, <<>>, <<>>)>>
      BY <1>2, <2>1, <2>5, Parsing DEF BindForm
    <3>2. ~\E i \in Wanted' : i < 1
      BY FormsTypes DEF Wanted
    <3>3. BoundUpTo(1)'
      BY <2>1, <2>2, <3>1, <3>2 DEF BoundUpTo, Frame
    <3>4. 1 \in 1..Len(Struct[Form]) + 1
      BY FormsTypes
    <3> QED
      BY <2>1, <2>2, <2>3, <2>5, <3>3, <3>4 DEF BoundInv
  <2> QED
    BY <2>4, <2>5
<1>3. CASE BindingNext /\ task = "bind"
  BY <1>3, LoopBound
<1>4. CASE task = "load" /\ BindingNext
  <2>1. UNCHANGED inputs
    BY <1>4 DEF BindingNext, Before, BindForm, Skip, TakeValues, Descend, LookUp, Return, Finish
  <2> QED
    BY <1>4, <2>1 DEF BoundInv, Sending, inputs, formVars, body
<1>5. CASE task = "access" /\ BindingNext /\ ~Before /\ ~BindForm
  BY <1>5 DEF BoundInv, BindingNext, Skip, TakeValues, AtField, Descend, LookUp, Return, Finish
<1>6. CASE task \notin {"load", "access", "bind"} /\ BindingNext /\ ~Before /\ ~BindForm
  <2>1. UNCHANGED inputs
    BY <1>6 DEF BindingNext, Skip, TakeValues, Descend, LookUp, Return, Finish
  <2> QED
    BY <1>6, <2>1 DEF BoundInv, Sending, inputs, formVars, body
<1>7. CASE UNCHANGED bindingVars
  <2>1. UNCHANGED inputs /\ UNCHANGED <<stack, target, missing, result>>
    BY <1>7 DEF bindingVars, inputs
  <2>2. UNCHANGED <<task, body, reading, parsing, calls>>
    BY <2>1 DEF inputs, formVars
  <2>3. Sending' = Sending /\ Visible' = Visible /\ Accessed' = Accessed /\ Refused' = Refused
    BY <2>2 DEF Sending, Accessed, Broken, Visible, Found, Both, Refused, FormRead, body, reading, parsing
  <2>4. Wanted' = Wanted /\ \A i : Bound(i)' = Bound(i)
    BY <2>3 DEF Wanted, Bound
  <2>5. \A k : BoundUpTo(k)' = BoundUpTo(k)
    BY <2>1, <2>4 DEF BoundUpTo
  <2> QED
    BY <2>1, <2>2, <2>3, <2>5 DEF BoundInv, parsing
<1> QED
    BY <1>1, <1>2, <1>3, <1>4, <1>5, <1>6, <1>7

\* What BindForm has bound once it has ended, for what it found.
LEMMA BoundExactly ==
    ASSUME BoundInv, task = "bind", result # "none", ~Refused
    PROVE  /\ result = "ok" <=> \A i \in Wanted : Bound(i) # Error
           /\ FilledUpTo(Wanted, [i \in Wanted |-> Bound(i)], [i \in Wanted |-> <<i>>])
           /\ \A p \in DOMAIN target : \E i \in Wanted : p = <<i>> /\ target[p] = Bound(i)
<1>1. PICK k \in 1..Len(Struct[Form]) + 1 : BoundUpTo(k)
  BY DEF BoundInv
<1> DEFINE values == [i \in Wanted |-> Bound(i)]
           paths == [i \in Wanted |-> <<i>>]
           bad == {i \in Wanted : values[i] = Error}
           set == {i \in Wanted : \A j \in bad : i < j}
<1>2. Wanted \subseteq 1..Len(Struct[Form]) /\ Len(Struct[Form]) \in Nat
  BY FormsTypes DEF Wanted
<1>3. /\ bad = {i \in Wanted : Bound(i) = Error} /\ set = {i \in Wanted : \A j \in bad : i < j}
      /\ \A i \in Wanted : i \in Nat /\ i <= Len(Struct[Form]) /\ (i < k => i \notin bad)
  <2>1. \A i \in Wanted : values[i] = Bound(i)
    OBVIOUS
  <2>2. bad = {i \in Wanted : Bound(i) = Error}
    BY <2>1
  <2>3. \A i \in Wanted : i \in Nat /\ i <= Len(Struct[Form]) /\ (i < k => i \notin bad)
    <3> HIDE DEF values
    <3>1. \A i \in Wanted : i < k => Bound(i) # Error
      BY <1>1 DEF BoundUpTo
    <3> QED
      BY <1>2, <2>2, <3>1
  <2> QED
    BY <2>2, <2>3
<1>4. set = {i \in Wanted : i < k} /\ (result = "invalid" <=> bad # {})
  <2> HIDE DEF bad, set
  <2>1. CASE result = "invalid"
    <3>1. k \in bad
      BY <1>1, <1>3, <2>1 DEF BoundUpTo
    <3>2. \A j \in bad : k <= j
      BY <1>3
    <3>3. ASSUME NEW i \in Wanted PROVE (\A j \in bad : i < j) <=> i < k
      BY <1>3, <3>1, <3>2
    <3> QED
      BY <1>3, <2>1, <3>1, <3>3
  <2>2. CASE result # "invalid"
    <3>1. k = Len(Struct[Form]) + 1
      BY <1>1, <2>2 DEF BoundUpTo
    <3>2. \A i \in Wanted : i < k
      BY <1>2, <1>3, <3>1
    <3>3. bad = {}
      BY <1>3, <3>2
    <3> QED
      BY <1>3, <2>2, <3>2, <3>3
  <2> QED
    BY <2>1, <2>2
<1>5. DOMAIN target = {paths[i] : i \in set} /\ \A i \in set : target[paths[i]] = values[i]
  BY <1>1, <1>4 DEF BoundUpTo
<1>6. FilledUpTo(Wanted, values, paths)
  <2>1. set = {i \in Wanted : \A j \in Wanted : values[j] = Error => i < j}
    OBVIOUS
  <2> HIDE DEF set, values, paths
  <2> QED
    BY <1>5, <2>1 DEF FilledUpTo
<1>7. result = "ok" <=> \A i \in Wanted : Bound(i) # Error
  <2>1. result \in {"ok", "invalid"}
    BY <1>1 DEF BoundUpTo
  <2> QED
    BY <1>3, <1>4, <2>1
<1>8. \A p \in DOMAIN target : \E i \in Wanted : p = <<i>> /\ target[p] = Bound(i)
    BY <1>1 DEF BoundUpTo
<1> QED
    BY <1>6, <1>7, <1>8

\* BindForm, for any form, URL, fields and accessors before: what it refuses, what it binds in full, and that
\* all it binds is in the form or the URL (ctx.go:442-484).
THEOREM BoundAsSentAlways == BindingSpec => []BoundAsSent
<1>1. ASSUME BoundInv, task = "bind", result # "none" PROVE BoundAsSent
  <2> DEFINE fields == Struct[Form]
             bindable == {i \in DOMAIN fields : fields[i].exported /\ fields[i].tag # <<"-">>}
             whole == IF contentType = "urlencoded" THEN Both(sent, query) ELSE Both(query, sent)
             Of(f, i) == Given(f, fields[i].tag)
             Get(f, i) == BoundForm(fields[i].kind, Of(f, i))
             Held(f, i) == Fits(fields[i].kind, Of(f, i)[1])
             given == {i \in bindable : Of(whole, i) # <<>>}
             first == \A i \in DOMAIN calls : calls[i] = "RawBody"
  <2>1. first <=> ~FormRead
    BY DEF FormRead
  <2>2. Visible \in {query, whole}
    BY DEF Visible, Found
  <2>3. Wanted = {i \in bindable : Of(Visible, i) # <<>>} /\ \A i : Bound(i) = Get(Visible, i)
    BY DEF Wanted, Bound
  <2>4. Sending /\ (Refused => result = "invalid" /\ DOMAIN target = {})
    BY <1>1 DEF BoundInv
  <2>5. ASSUME sound = "sound", ~(first /\ contentType = "multipart") PROVE Visible = whole /\ ~Refused
    <3>1. ~Refused
      BY <2>5 DEF Refused
    <3>2. CASE contentType = "other"
      <4>1. sent = NoValues /\ query \in [Names -> Seq(Raw)]
        BY <2>4, <3>2 DEF Sending
      <4>2. \A n \in Names : query[n] \o sent[n] = query[n]
        BY <4>1 DEF NoValues
      <4>3. Both(query, sent) = query
        BY <4>1, <4>2 DEF Both
      <4> QED
        BY <3>1, <3>2, <4>3 DEF Visible, Found
    <3>3. CASE contentType # "other"
      BY <2>1, <2>4, <2>5, <3>1, <3>3 DEF Visible, Found, Sending
    <3> QED
      BY <3>2, <3>3
  <2>6. first /\ (sound = "malformed" \/ (sound = "large" /\ contentType = "urlencoded")) =>
            result = "invalid" /\ DOMAIN target = {}
    BY <2>1, <2>4 DEF Refused
  <2>7. sound = "sound" /\ ~(first /\ contentType = "multipart") =>
            /\ result = "ok" <=> \A i \in given : Get(whole, i) # Error
            /\ FilledUpTo(given, [i \in given |-> Get(whole, i)], [i \in given |-> <<i>>])
    <3> SUFFICES ASSUME sound = "sound", ~(first /\ contentType = "multipart")
                 PROVE  /\ result = "ok" <=> \A i \in given : Get(whole, i) # Error
                        /\ FilledUpTo(given, [i \in given |-> Get(whole, i)], [i \in given |-> <<i>>])
      OBVIOUS
    <3> HIDE DEF whole, first, Get, Of, bindable
    <3>1. Visible = whole /\ ~Refused
      BY <2>5
    <3>2. given = Wanted /\ \A i : Bound(i) = Get(whole, i)
      BY <2>3, <3>1
    <3> HIDE DEF given
    <3>3. [i \in Wanted |-> Bound(i)] = [i \in given |-> Get(whole, i)]
      BY <3>2
    <3> QED
      BY <1>1, <3>1, <3>2, <3>3, BoundExactly
  <2>8. \A p \in DOMAIN target : \E i \in bindable, f \in {query, whole} :
            p = <<i>> /\ Of(f, i) # <<>> /\ (Held(f, i) => target[p] = Get(f, i))
    <3> SUFFICES ASSUME NEW p \in DOMAIN target
                 PROVE  \E i \in bindable, f \in {query, whole} :
                            p = <<i>> /\ Of(f, i) # <<>> /\ (Held(f, i) => target[p] = Get(f, i))
      OBVIOUS
    <3>1. PICK i \in Wanted : p = <<i>> /\ target[p] = Bound(i)
      BY <1>1, <2>4, BoundExactly
    <3> HIDE DEF whole, Of, Get, Held, bindable
    <3>2. i \in bindable /\ Of(Visible, i) # <<>> /\ target[p] = Get(Visible, i)
      BY <2>3, <3>1
    <3> QED
      BY <2>2, <3>1, <3>2
  <2> QED
    BY <2>6, <2>7, <2>8 DEF BoundAsSent
<1>2. BoundInv => BoundAsSent
    BY <1>1 DEF BoundAsSent
<1> QED
    BY InitBound, NextBound, <1>2, PTL DEF BindingSpec
=============================================================================
