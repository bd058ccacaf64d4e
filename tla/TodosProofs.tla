----------------------------- MODULE TodosProofs -----------------------------
(* Proofs about Todos, for any number of requests, patches and todos to start *)
(* with: an id names one todo, answers are snapshots, changes are patches.    *)
(* What is shown (the contents something points to, and the answers) only     *)
(* ever grows by a todo of the next id or by a patched form of a todo that is *)
(* shown already; Good is kept by both.  Private says whose object is whose.  *)
EXTENDS Todos, TLAPS

\* The todos of S have ids up to n, and an id is that of one creation.
Good(S, n) ==
    /\ n \in Nat
    /\ \A t \in S : IsTodo(t) /\ t.id <= n
    /\ \A t, u \in S : t.id = u.id => t.created = u.created

IInv ==
    /\ job \in [Req -> Jobs]
    /\ DOMAIN pc = Req /\ DOMAIN mine = Req /\ DOMAIN answer = Req
    /\ Good(Shown, seq)
    \* Every pointer is to contents.
    /\ Range(store) \cup (Range(mine) \ {None}) \subseteq DOMAIN heap
    \* A handler about to use its object has one; an update has a body Bind accepted.
    /\ \A r \in Req : pc[r] \in {"patch", "save", "encode"} => mine[r] # None
    /\ \A r \in Req : pc[r] = "patch" => job[r].body \in Patches

-----------------------------------------------------------------------------
LEMMA GoodSubset ==
    ASSUME NEW S, NEW n, Good(S, n), NEW T \in SUBSET S
    PROVE  Good(T, n)
BY DEF Good

\* A todo of the next id.
LEMMA GoodNew ==
    ASSUME NEW S, NEW n, Good(S, n), NEW t, IsTodo(t), t.id = n + 1
    PROVE  Good(S \cup {t}, n + 1)
<1>1. n \in Nat /\ n + 1 \in Nat
    BY DEF Good
<1>2. \A u \in S : IsTodo(u) /\ u.id \in Nat /\ u.id <= n /\ u.id <= n + 1 /\ u.id # t.id
    BY <1>1 DEF Good, IsTodo
<1> QED
    BY <1>1, <1>2 DEF Good

\* A todo that is there already, patched.
LEMMA GoodPatched ==
    ASSUME NEW S, NEW n, Good(S, n), NEW u \in S, NEW p \in Patches
    PROVE  Good(S \cup {Apply(u, p)}, n)
<1> DEFINE t == Apply(u, p)
<1>1. DOMAIN p \subseteq Fields
    BY TodosAssumption
<1>2. IsTodo(u) /\ u.id <= n
    BY DEF Good
<1>3. "id" \notin DOMAIN p /\ "created" \notin DOMAIN p
    BY <1>1 DEF Fields
<1>4. DOMAIN t = DOMAIN u /\ t.id = u.id /\ t.created = u.created
    BY <1>2, <1>3 DEF Apply, IsTodo
<1>5. IsTodo(t) /\ t.id <= n
    BY <1>2, <1>4 DEF IsTodo
<1> HIDE DEF t
<1>6. Good(S \cup {t}, n)
    BY <1>4, <1>5 DEF Good
<1> QED
    BY <1>6 DEF t

\* The body of an update Bind accepted.
LEMMA UpdateBody ==
    ASSUME NEW j \in Jobs, j.op = "update", j.body # Bad
    PROVE  j.body \in Patches
BY DEF Jobs, Job

\* Collecting keeps the contents of what is pointed to, and adds none.
LEMMA Collected ==
    ASSUME NEW h, Collect(h), Range(store') \cup (Range(mine') \ {None}) \subseteq DOMAIN h
    PROVE  /\ Range(heap') \subseteq Range(h)
           /\ Range(store') \cup (Range(mine') \ {None}) = DOMAIN heap'
           /\ \A o \in DOMAIN heap' : o \in DOMAIN h /\ heap'[o] = h[o]
BY DEF Collect, Restrict, Range

\* New memory holds the copy, and the handler points to it.
LEMMA Copied ==
    ASSUME NEW r \in Req, NEW h, NEW todo, ReturnCopy(r, h, todo), DOMAIN mine = Req,
           Range(store') \cup (Range(mine) \ {None}) \subseteq DOMAIN h
    PROVE  /\ Range(heap') \subseteq Range(h) \cup {todo}
           /\ Range(store') \cup (Range(mine') \ {None}) \subseteq DOMAIN heap'
           /\ DOMAIN mine' = Req /\ mine'[r] # None
           /\ \A q \in Req \ {r} : mine'[q] = mine[q]
           /\ mine'[r] \notin DOMAIN h /\ heap'[mine'[r]] = todo
           /\ \A p \in DOMAIN heap' \ {mine'[r]} : p \in DOMAIN h /\ heap'[p] = h[p]
<1> DEFINE o == Free(h)
           k == With(h, o, todo)
<1>1. o \in Obj /\ o # None /\ o \notin DOMAIN h
    BY TodosAssumption DEF ReturnCopy, Room, Free
<1>2. /\ DOMAIN k = DOMAIN h \cup {o} /\ Range(k) \subseteq Range(h) \cup {todo}
      /\ k[o] = todo /\ \A p \in DOMAIN h \ {o} : k[p] = h[p]
    BY DEF With, Range
<1>3. mine' = [mine EXCEPT ![r] = o] /\ Collect(k)
    BY DEF ReturnCopy
<1> HIDE DEF o, k
<1>4. Range(mine') \subseteq Range(mine) \cup {o}
    BY <1>3 DEF Range
<1>5. Range(store') \cup (Range(mine') \ {None}) \subseteq DOMAIN k
    BY <1>2, <1>4
<1>6. /\ Range(heap') \subseteq Range(k)
      /\ Range(store') \cup (Range(mine') \ {None}) \subseteq DOMAIN heap'
      /\ \A p \in DOMAIN heap' : p \in DOMAIN k /\ heap'[p] = k[p]
    BY <1>3, <1>5, Collected
<1>7. mine'[r] = o /\ o \in DOMAIN heap'
    BY <1>1, <1>3, <1>6 DEF Range
<1> QED
    BY <1>1, <1>2, <1>3, <1>6, <1>7

-----------------------------------------------------------------------------
LEMMA InitInv == Init => IInv
<1> SUFFICES ASSUME Init PROVE IInv
    OBVIOUS
<1>1. seq \in Nat /\ Shown = Range(Seeds)
    BY TodosAssumption DEF Init, Shown, Answer
<1>2. Good(Shown, seq)
    BY <1>1, TodosAssumption DEF Init, Good, Range
<1> QED
    BY <1>2 DEF Init, IInv, Range

\* A handler that ends with an answer of todos that are shown already.
LEMMA Ended ==
    ASSUME IInv, NEW r \in Req, NEW status, NEW todos \in SUBSET Shown,
           Finish(r, status, todos), UNCHANGED <<seq, job>>,
           Range(store') \subseteq Range(store), heap' = heap \/ Collect(heap)
    PROVE  IInv'
<1>1. /\ DOMAIN pc' = Req /\ DOMAIN mine' = Req /\ DOMAIN answer' = Req
      /\ Range(mine') \subseteq Range(mine) \cup {None}
      /\ pc'[r] = "done" /\ \A q \in Req \ {r} : pc'[q] = pc[q] /\ mine'[q] = mine[q]
    BY DEF IInv, Finish, Goto, Range
<1>2. /\ answer'[r].todos = todos
      /\ \A q \in Req \ {r} : answer'[q] = answer[q]
    BY DEF IInv, Finish, Answer
<1>3. Range(store') \cup (Range(mine') \ {None}) \subseteq DOMAIN heap
    BY <1>1 DEF IInv
<1>4. /\ Range(heap') \subseteq Range(heap)
      /\ Range(store') \cup (Range(mine') \ {None}) \subseteq DOMAIN heap'
    BY <1>3, Collected
<1>5. Shown' \subseteq Shown
    BY <1>2, <1>4 DEF Shown
<1>6. Good(Shown', seq')
    BY <1>5, GoodSubset DEF IInv
<1> QED
    BY <1>1, <1>4, <1>6 DEF IInv

\* A handler that gets a copy of a todo t: what is shown grows by t at most.
LEMMA Got ==
    ASSUME IInv, NEW r \in Req, NEW h, NEW t, ReturnCopy(r, h, t),
           Range(store') \cup (Range(mine) \ {None}) \subseteq DOMAIN h,
           Range(h) \subseteq Shown \cup {t}, Good(Shown \cup {t}, seq'),
           UNCHANGED <<job, answer>>, NEW label, Goto(r, label),
           label = "patch" => job[r].body \in Patches
    PROVE  IInv'
<1>1. /\ Range(heap') \subseteq Range(h) \cup {t}
      /\ Range(store') \cup (Range(mine') \ {None}) \subseteq DOMAIN heap'
      /\ DOMAIN mine' = Req /\ mine'[r] # None
      /\ \A q \in Req \ {r} : mine'[q] = mine[q]
    BY Copied DEF IInv
<1>2. Shown' \subseteq Shown \cup {t}
    BY <1>1 DEF Shown
<1>3. Good(Shown', seq')
    BY <1>2, GoodSubset
<1>4. DOMAIN pc' = Req /\ pc'[r] = label /\ \A q \in Req \ {r} : pc'[q] = pc[q]
    BY DEF Goto, IInv
<1> QED
    BY <1>1, <1>3, <1>4 DEF IInv

LEMMA NextInv == IInv /\ [Next]_vars => IInv'
<1> SUFFICES ASSUME IInv, [Next]_vars PROVE IInv'
    OBVIOUS
<1>0. /\ Range(heap) \subseteq Shown
      /\ \A i \in DOMAIN store : store[i] \in DOMAIN heap /\ Stored(i) \in Shown
    BY DEF IInv, Shown, Range, Stored
<1>1. ASSUME NEW r \in Req, Refuse(r) PROVE IInv'
    BY <1>1, Ended DEF Refuse
<1>2. ASSUME NEW r \in Req, FindAll(r) PROVE IInv'
  <2>1. {Stored(i) : i \in DOMAIN store} \subseteq Shown
    BY <1>0
  <2> QED
    BY <1>2, <2>1, Ended DEF FindAll
<1>3. ASSUME NEW r \in Req, FindByID(r) PROVE IInv'
  <2> DEFINE id == job[r].id
             label == CASE job[r].op = "get" -> "encode"
                        [] job[r].op = "update" -> "patch"
                        [] job[r].op = "delete" -> "delete"
  <2>1. CASE id \notin DOMAIN store
    BY <1>3, <2>1, Ended DEF FindByID
  <2>2. CASE id \in DOMAIN store
    <3>1. /\ UNCHANGED <<store, seq, job, answer>>
          /\ ReturnCopy(r, heap, Stored(id)) /\ Goto(r, label)
      BY <1>3, <2>2 DEF FindByID
    <3>2. Shown \cup {Stored(id)} = Shown
      BY <1>0, <2>2
    <3>3. label = "patch" => job[r].body \in Patches
      <4>1. job[r] \in Jobs /\ job[r].op \in {"get", "update", "delete"} /\ job[r].body # Bad
        BY <1>3 DEF IInv, FindByID
      <4>2. label = "patch" => job[r].op = "update"
        BY <4>1
      <4> QED
        BY <4>1, <4>2, UpdateBody
    <3> HIDE DEF label, id
    <3>4. Good(Shown \cup {Stored(id)}, seq') /\ Range(heap) \subseteq Shown \cup {Stored(id)}
      BY <1>0, <3>1, <3>2 DEF IInv
    <3>5. Range(store') \cup (Range(mine) \ {None}) \subseteq DOMAIN heap
      BY <3>1 DEF IInv
    <3> QED
      BY <3>1, <3>3, <3>4, <3>5, Got
  <2> QED
    BY <2>1, <2>2
<1>4. ASSUME NEW r \in Req, Create(r) PROVE IInv'
  <2> DEFINE todo == [id |-> NextId, title |-> job[r].body, done |-> FALSE, created |-> r]
             o == Free(heap)
             h == With(heap, o, todo)
  <2>1. seq \in Nat /\ NextId = seq + 1
    BY DEF IInv, Good, NextId
  <2>2. IsTodo(todo) /\ todo.id = seq + 1
    BY <2>1 DEF IsTodo, Fields
  <2>3. /\ store' = With(store, NextId, o) /\ seq' = seq + 1
        /\ ReturnCopy(r, h, todo) /\ Goto(r, "encode") /\ UNCHANGED <<job, answer>>
    BY <1>4 DEF Create
  <2> HIDE DEF todo
  <2>4. Good(Shown \cup {todo}, seq')
    BY <2>2, <2>3, GoodNew DEF IInv
  <2>5. Range(h) \subseteq Shown \cup {todo} /\ DOMAIN h = DOMAIN heap \cup {o}
    BY <1>0 DEF With, Range
  <2>6. Range(store') \subseteq Range(store) \cup {o}
    BY <2>3 DEF With, Range
  <2> HIDE DEF o, h
  <2>7. Range(store') \cup (Range(mine) \ {None}) \subseteq DOMAIN h
    BY <2>5, <2>6 DEF IInv
  <2> QED
    BY <2>3, <2>4, <2>5, <2>7, Got
<1>5. ASSUME NEW r \in Req, Patch(r) PROVE IInv'
  <2> DEFINE t == heap[mine[r]]
             p == job[r].body
  <2>1. mine[r] \in DOMAIN heap /\ t \in Shown /\ p \in Patches
    BY <1>0, <1>5 DEF IInv, Patch, Range
  <2>2. /\ DOMAIN heap' = DOMAIN heap
        /\ Range(heap') \subseteq Range(heap) \cup {Apply(t, p)}
        /\ UNCHANGED <<store, seq, job, mine, answer>>
    BY <1>5, <2>1 DEF Patch, Range
  <2>3. DOMAIN pc' = Req /\ pc'[r] = "save" /\ \A q \in Req \ {r} : pc'[q] = pc[q]
    BY <1>5 DEF Patch, Goto, IInv
  <2>4. Good(Shown \cup {Apply(t, p)}, seq)
    BY <2>1, GoodPatched DEF IInv
  <2>5. Shown' \subseteq Shown \cup {Apply(t, p)}
    BY <2>2 DEF Shown
  <2>6. Good(Shown', seq')
    BY <2>2, <2>4, <2>5, GoodSubset
  <2> QED
    BY <1>5, <2>1, <2>2, <2>3, <2>6 DEF IInv, Patch
<1>6. ASSUME NEW r \in Req, Save(r) PROVE IInv'
  <2> DEFINE t == heap[mine[r]]
  <2>1. mine[r] \in DOMAIN heap /\ t \in Shown
    BY <1>0, <1>6 DEF IInv, Save, Range
  <2>2. /\ store' = With(store, t.id, mine[r]) /\ ReturnCopy(r, heap, t)
        /\ Goto(r, "encode") /\ UNCHANGED <<seq, job, answer>>
    BY <1>6 DEF Save
  <2>3. Shown \cup {t} = Shown
    BY <2>1
  <2> HIDE DEF t
  <2>4. Range(store') \subseteq Range(store) \cup {mine[r]}
    BY <2>2 DEF With, Range
  <2>5. Range(store') \cup (Range(mine) \ {None}) \subseteq DOMAIN heap
    BY <2>1, <2>4 DEF IInv
  <2>6. Good(Shown \cup {t}, seq') /\ Range(heap) \subseteq Shown \cup {t}
    BY <1>0, <2>2, <2>3 DEF IInv
  <2> QED
    BY <2>2, <2>5, <2>6, Got
<1>7. ASSUME NEW r \in Req, Delete(r) PROVE IInv'
  <2>1. Range(store') \subseteq Range(store)
    BY <1>7 DEF Delete, Restrict, Range
  <2> QED
    BY <1>7, <2>1, Ended DEF Delete
<1>8. ASSUME NEW r \in Req, Encode(r) PROVE IInv'
  <2>1. {heap[mine[r]]} \subseteq Shown
    BY <1>0, <1>8 DEF IInv, Encode, Range
  <2> QED
    BY <1>8, <2>1, Ended DEF Encode
<1>9. CASE Over \/ UNCHANGED vars
  <2>1. UNCHANGED vars
    BY <1>9 DEF Over
  <2>2. UNCHANGED <<Shown, Range(store), Range(mine)>>
    BY <2>1 DEF vars, Shown
  <2> QED
    BY <2>1, <2>2 DEF vars, IInv
<1> QED
    BY <1>1, <1>2, <1>3, <1>4, <1>5, <1>6, <1>7, <1>8, <1>9 DEF Next

\* Whatever requests do, the id of a todo that was ever answered or is held anywhere in the
\* application is that of one creation (new.go 373-390, the repository's create and save).
THEOREM IdsNameOneTodoAlways == Spec => []IdsNameOneTodo
<1>1. IInv => IdsNameOneTodo
    BY DEF IInv, Good, IdsNameOneTodo
<1> QED
    BY InitInv, NextInv, <1>1, PTL DEF Spec

-----------------------------------------------------------------------------
\* No two handlers, and no handler and the store, point to one object: what a handler's
\* object holds is what it read, patched by nobody else.
Private ==
    /\ DOMAIN seen = Req
    /\ \A i \in DOMAIN store : Stored(i).id = i
    /\ \A r \in Req : mine[r] # None => mine[r] \notin Range(store)
    /\ \A r, q \in Req : mine[r] # None /\ q # r => mine[r] # mine[q]
    /\ \A r \in Req : pc[r] \in {"patch", "save"} => job[r].op = "update" /\ heap[mine[r]].id = job[r].id
    /\ \A r \in Req : pc[r] \in {"patch", "encode"} => heap[mine[r]] = seen[r]
    /\ \A r \in Req : pc[r] = "save" => heap[mine[r]] = Apply(seen[r], job[r].body)
    /\ \A r \in Req : pc[r] # "done" => answer[r].status = 0
    /\ AnswersAreSnapshots

\* A patch leaves the id alone.
LEMMA PatchedId ==
    ASSUME NEW t, IsTodo(t), NEW p \in Patches
    PROVE  Apply(t, p).id = t.id
BY TodosAssumption DEF IsTodo, Apply, Fields

\* Where a change of the store comes from.
Traced ==
    \A i \in DOMAIN store \cap DOMAIN store' :
        Stored(i)' # Stored(i) =>
            \E r \in Req : Saves(r) /\ job[r].id = i /\ Stored(i)' = Apply(seen[r], job[r].body)

\* An update nobody has overtaken has read what is stored.
Current == \A r \in Req \ overtaken : pc[r] \in {"patch", "save"} =>
              job[r].id \in DOMAIN store /\ Stored(job[r].id) = seen[r]

LEMMA InitPrivate == Init => Private
BY TodosAssumption DEF Init, Private, Answer, AnswersAreSnapshots, Stored

\* A handler that ends.
LEMMA EndedPrivate ==
    ASSUME IInv, IInv', Private, NEW r \in Req, NEW status, NEW todos, Finish(r, status, todos),
           UNCHANGED <<job, seen>>,
           status \in {200, 201} /\ job[r].op # "list" => todos = {seen[r]},
           \A i \in DOMAIN store' : i \in DOMAIN store /\ store'[i] = store[i],
           heap' = heap \/ Collect(heap)
    PROVE  Private'
<1>1. /\ pc'[r] = "done" /\ mine'[r] = None
      /\ answer'[r].status = status /\ answer'[r].todos = todos
      /\ \A q \in Req \ {r} : pc'[q] = pc[q] /\ mine'[q] = mine[q] /\ answer'[q] = answer[q]
    BY DEF IInv, Finish, Goto, Answer
<1>2. Range(store') \subseteq Range(store)
    BY DEF Range
<1>3. Range(store') \cup (Range(mine') \ {None}) \subseteq DOMAIN heap
    BY <1>1, <1>2 DEF IInv, Range
<1>4. \A o \in DOMAIN heap' : heap'[o] = heap[o]
    BY <1>3, Collected
<1>5. \A i \in DOMAIN store' : store'[i] \in DOMAIN heap' /\ Stored(i)' = Stored(i)
    BY <1>4 DEF IInv, Range, Stored
<1>6. \A q \in Req : pc'[q] \in {"patch", "save", "encode"} => heap'[mine'[q]] = heap[mine[q]] /\ q # r
    BY <1>1, <1>4 DEF IInv, Range
<1>7. AnswersAreSnapshots'
    BY <1>1 DEF Private, AnswersAreSnapshots
<1> QED
    BY <1>1, <1>2, <1>5, <1>6, <1>7 DEF Private

\* A handler that gets a copy of t, in contents h that keep what there was.
LEMMA GotPrivate ==
    ASSUME IInv, Private, NEW r \in Req, NEW h, NEW t, ReturnCopy(r, h, t), Note(r, t),
           Range(store') \cup (Range(mine) \ {None}) \subseteq DOMAIN h,
           \A o \in DOMAIN heap : o \in DOMAIN h /\ h[o] = heap[o],
           \A i \in DOMAIN store' : h[store'[i]].id = i,
           \A q \in Req \ {r} : mine[q] # None => mine[q] \notin Range(store'),
           pc[r] # "done", UNCHANGED <<job, answer>>, NEW label, Goto(r, label),
           label \notin {"save", "done"},
           label = "patch" => job[r].op = "update" /\ t.id = job[r].id
    PROVE  Private'
<1>1. /\ mine'[r] # None /\ mine'[r] \notin DOMAIN h /\ heap'[mine'[r]] = t
      /\ \A q \in Req \ {r} : mine'[q] = mine[q]
      /\ \A o \in DOMAIN heap' \ {mine'[r]} : o \in DOMAIN h /\ heap'[o] = h[o]
      /\ Range(store') \cup (Range(mine') \ {None}) \subseteq DOMAIN heap'
      /\ DOMAIN mine' = Req
    BY Copied DEF IInv
<1>2. /\ DOMAIN seen' = Req /\ seen'[r] = t /\ \A q \in Req \ {r} : seen'[q] = seen[q]
      /\ pc'[r] = label /\ \A q \in Req \ {r} : pc'[q] = pc[q]
    BY DEF Private, Note, Goto, IInv
<1>3. \A i \in DOMAIN store' : Stored(i)'.id = i
    BY <1>1 DEF Range, Stored
<1>4. \A q \in Req \ {r} : mine[q] # None => mine[q] \in DOMAIN heap /\ mine[q] \in DOMAIN h
    BY DEF IInv, Range
<1>5. \A q \in Req \ {r} : pc[q] \in {"patch", "save", "encode"} => heap'[mine'[q]] = heap[mine[q]]
    BY <1>1, <1>4 DEF IInv, Range
<1>6. mine'[r] \notin Range(store') /\ \A q \in Req \ {r} : mine'[q] # mine'[r]
    BY <1>1, <1>4
<1>7. answer[r].status = 0 /\ AnswersAreSnapshots'
    BY <1>2 DEF Private, AnswersAreSnapshots
<1> QED
    BY <1>1, <1>2, <1>3, <1>5, <1>6, <1>7 DEF Private

\* Every step keeps both, and what is in the store changes as it may.
LEMMA NextPrivate == IInv /\ IInv' /\ Private /\ [Next]_vars => Private' /\ Traced
<1> SUFFICES ASSUME IInv, IInv', Private, [Next]_vars PROVE Private' /\ Traced
    OBVIOUS
<1>0. /\ \A i \in DOMAIN store : store[i] \in DOMAIN heap /\ Stored(i) \in Shown
      /\ \A t \in Shown : IsTodo(t) /\ t.id \in Nat /\ t.id <= seq
      /\ seq \in Nat
  <2>1. \A i \in DOMAIN store : store[i] \in DOMAIN heap /\ Stored(i) \in Shown
    BY DEF IInv, Shown, Range, Stored
  <2> QED
    BY <2>1 DEF IInv, Good, IsTodo
\* A step that keeps the store's pointers, and the contents behind them, changes no todo of it.
<1>a. ASSUME \A i \in DOMAIN store' : i \in DOMAIN store /\ store'[i] = store[i],
             \A i \in DOMAIN store' : heap'[store[i]] = heap[store[i]]
      PROVE  Traced
    BY <1>a DEF Traced, Saves, Stored
<1>b. ASSUME \A i \in DOMAIN store' : i \in DOMAIN store /\ store'[i] = store[i],
             heap' = heap \/ Collect(heap), Range(mine') \subseteq Range(mine) \cup {None}
      PROVE  Traced
  <2>1. Range(store') \cup (Range(mine') \ {None}) \subseteq DOMAIN heap
    BY <1>b DEF IInv, Range
  <2>2. \A o \in DOMAIN heap' : heap'[o] = heap[o]
    BY <1>b, <2>1, Collected
  <2>3. \A i \in DOMAIN store' : heap'[store[i]] = heap[store[i]]
    BY <1>b, <2>2 DEF IInv, Range
  <2> QED
    BY <1>a, <1>b, <2>3
<1>c. ASSUME NEW r \in Req, NEW status, NEW todos, Finish(r, status, todos)
      PROVE  Range(mine') \subseteq Range(mine) \cup {None}
    BY <1>c DEF Finish, Range, IInv
<1>1. ASSUME NEW r \in Req, Refuse(r) PROVE Private' /\ Traced
    BY <1>1, <1>b, <1>c, EndedPrivate DEF Refuse
<1>2. ASSUME NEW r \in Req, FindAll(r) PROVE Private' /\ Traced
    BY <1>2, <1>b, <1>c, EndedPrivate DEF FindAll
<1>3. ASSUME NEW r \in Req, FindByID(r) PROVE Private' /\ Traced
  <2> DEFINE id == job[r].id
             label == CASE job[r].op = "get" -> "encode"
                        [] job[r].op = "update" -> "patch"
                        [] job[r].op = "delete" -> "delete"
  <2>1. CASE id \notin DOMAIN store
    BY <1>3, <2>1, <1>b, <1>c, EndedPrivate DEF FindByID
  <2>2. CASE id \in DOMAIN store
    <3>1. /\ UNCHANGED <<store, seq, job, answer>> /\ pc[r] = "start"
          /\ ReturnCopy(r, heap, Stored(id)) /\ Note(r, Stored(id)) /\ Goto(r, label)
          /\ job[r].op \in {"get", "update", "delete"}
      BY <1>3, <2>2 DEF FindByID
    <3>2. label \notin {"save", "done"} /\ (label = "patch" => job[r].op = "update")
      BY <3>1
    <3>3. Stored(id).id = id
      BY <2>2 DEF Private
    <3> HIDE DEF label
    <3>4. Range(store') \cup (Range(mine) \ {None}) \subseteq DOMAIN heap
      BY <3>1 DEF IInv
    <3>5. \A i \in DOMAIN store' : heap[store'[i]].id = i
      BY <3>1 DEF Private, Stored
    <3>6. \A q \in Req \ {r} : mine[q] # None => mine[q] \notin Range(store')
      BY <3>1 DEF Private
    <3>7. Private'
      BY <3>1, <3>2, <3>3, <3>4, <3>5, <3>6, GotPrivate
    <3>8. \A i \in DOMAIN store' : heap'[store[i]] = heap[store[i]]
      BY <1>0, <3>1, <3>4, Copied DEF IInv, Range
    <3> QED
      BY <1>a, <3>1, <3>7, <3>8
  <2> QED
    BY <2>1, <2>2
<1>4. ASSUME NEW r \in Req, Create(r) PROVE Private' /\ Traced
  <2> DEFINE todo == [id |-> NextId, title |-> job[r].body, done |-> FALSE, created |-> r]
             o == Free(heap)
             h == With(heap, o, todo)
  <2>1. /\ store' = With(store, NextId, o) /\ pc[r] = "start" /\ Note(r, todo)
        /\ ReturnCopy(r, h, todo) /\ Goto(r, "encode") /\ UNCHANGED <<job, answer>>
    BY <1>4 DEF Create
  <2>2. o \notin DOMAIN heap
    BY <1>4 DEF Create, Room, Free
  <2>3. NextId \notin DOMAIN store
    <3>1. \A i \in DOMAIN store : i \in Nat /\ i <= seq
      BY <1>0 DEF Private
    <3> QED
      BY <1>0, <3>1 DEF NextId
  <2>4. todo.id = NextId
    OBVIOUS
  <2> HIDE DEF todo, o
  <2>5. /\ DOMAIN h = DOMAIN heap \cup {o} /\ h[o] = todo
        /\ \A p \in DOMAIN heap : h[p] = heap[p]
    BY <2>2 DEF With
  <2>6. /\ DOMAIN store' = DOMAIN store \cup {NextId} /\ store'[NextId] = o
        /\ \A i \in DOMAIN store : store'[i] = store[i]
    BY <2>1, <2>3 DEF With
  <2> HIDE DEF h
  <2>7. Range(store') \subseteq Range(store) \cup {o}
    BY <2>6 DEF Range
  <2>8. Range(store') \cup (Range(mine) \ {None}) \subseteq DOMAIN h
    BY <2>5, <2>7 DEF IInv
  <2>9. \A i \in DOMAIN store' : h[store'[i]].id = i
    BY <1>0, <2>4, <2>5, <2>6 DEF Private, Stored
  <2>10. \A q \in Req \ {r} : mine[q] # None => mine[q] \notin Range(store')
    BY <2>2, <2>7 DEF Private, IInv, Range
  <2>11. Private'
    BY <2>1, <2>5, <2>8, <2>9, <2>10, GotPrivate
  <2>12. \A i \in DOMAIN store : heap'[store[i]] = heap[store[i]]
    BY <1>0, <2>1, <2>5, <2>6, <2>8, Copied DEF IInv, Range
  <2> QED
    BY <2>3, <2>6, <2>11, <2>12 DEF Traced, Saves, Stored
<1>5. ASSUME NEW r \in Req, Patch(r) PROVE Private' /\ Traced
  <2>1. /\ mine[r] # None /\ mine[r] \in DOMAIN heap /\ heap[mine[r]] = seen[r]
        /\ pc[r] = "patch" /\ job[r].op = "update" /\ seen[r].id = job[r].id
        /\ heap[mine[r]] \in Shown /\ job[r].body \in Patches
    BY <1>5 DEF IInv, Private, Patch, Range, Shown
  <2>2. /\ UNCHANGED <<store, seq, job, mine, seen, answer>>
        /\ heap'[mine[r]] = Apply(seen[r], job[r].body) /\ heap'[mine[r]].id = job[r].id
        /\ \A o \in DOMAIN heap \ {mine[r]} : heap'[o] = heap[o]
    BY <1>0, <1>5, <2>1, PatchedId DEF Patch
  <2>3. pc'[r] = "save" /\ \A q \in Req \ {r} : pc'[q] = pc[q]
    BY <1>5 DEF Patch, Goto, IInv
  <2>4. \A i \in DOMAIN store : heap'[store[i]] = heap[store[i]]
    BY <1>0, <2>1, <2>2 DEF Private, Range
  <2>5. \A q \in Req \ {r} : mine[q] # None => heap'[mine[q]] = heap[mine[q]]
    BY <2>1, <2>2 DEF Private, IInv, Range
  <2>6. \A q \in Req \ {r} : pc[q] \in {"patch", "save", "encode"} => heap'[mine[q]] = heap[mine[q]]
    BY <2>5 DEF IInv
  <2>7. AnswersAreSnapshots'
    BY <2>2 DEF Private, AnswersAreSnapshots
  <2>8. Private'
    BY <2>1, <2>2, <2>3, <2>4, <2>6, <2>7 DEF Private, Stored
  <2> QED
    BY <1>a, <2>2, <2>4, <2>8
<1>6. ASSUME NEW r \in Req, Save(r) PROVE Private' /\ Traced
  <2> DEFINE t == heap[mine[r]]
  <2>1. /\ mine[r] # None /\ mine[r] \in DOMAIN heap /\ t \in Shown /\ pc[r] = "save"
    BY <1>6 DEF IInv, Save, Shown, Range
  <2>2. t = Apply(seen[r], job[r].body) /\ job[r].op = "update" /\ t.id = job[r].id
    BY <2>1 DEF Private
  <2>3. /\ store' = With(store, t.id, mine[r]) /\ ReturnCopy(r, heap, t) /\ Note(r, t)
        /\ Goto(r, "encode") /\ UNCHANGED <<seq, job, answer>>
    BY <1>6 DEF Save
  <2>4. /\ DOMAIN store' = DOMAIN store \cup {t.id} /\ store'[t.id] = mine[r]
        /\ \A i \in DOMAIN store \ {t.id} : store'[i] = store[i]
    BY <2>3 DEF With
  <2>5. Range(store') \subseteq Range(store) \cup {mine[r]}
    BY <2>4 DEF Range
  <2>6. Range(store') \cup (Range(mine) \ {None}) \subseteq DOMAIN heap
    BY <2>1, <2>5 DEF IInv
  <2>7. \A i \in DOMAIN store' : heap[store'[i]].id = i
    BY <2>4 DEF Private, Stored
  <2>8. \A q \in Req \ {r} : mine[q] # None => mine[q] \notin Range(store')
    BY <2>1, <2>5 DEF Private
  <2>9. Private'
    BY <2>1, <2>3, <2>6, <2>7, <2>8, GotPrivate
  <2>10. \A i \in DOMAIN store' : heap'[store'[i]] = heap[store'[i]]
    BY <2>3, <2>6, Copied DEF IInv, Range
  <2>11. pc'[r] = "encode"
    BY <2>3 DEF Goto, IInv
  <2> QED
    BY <2>1, <2>2, <2>4, <2>9, <2>10, <2>11 DEF Traced, Saves, Stored
<1>7. ASSUME NEW r \in Req, Delete(r) PROVE Private' /\ Traced
  <2>1. \A i \in DOMAIN store' : i \in DOMAIN store /\ store'[i] = store[i]
    BY <1>7 DEF Delete, Restrict
  <2> QED
    BY <1>7, <2>1, <1>b, <1>c, EndedPrivate DEF Delete
<1>8. ASSUME NEW r \in Req, Encode(r) PROVE Private' /\ Traced
  <2> DEFINE status == IF job[r].op = "create" THEN 201 ELSE 200
             todos == {heap[mine[r]]}
  <2>1. todos = {seen[r]}
    BY <1>8 DEF Private, Encode
  <2>2. Finish(r, status, todos) /\ UNCHANGED <<store, seq, job, seen>> /\ Collect(heap)
    BY <1>8 DEF Encode
  <2> HIDE DEF status, todos
  <2>3. Private'
    BY <2>1, <2>2, EndedPrivate
  <2>4. Range(mine') \subseteq Range(mine) \cup {None}
    BY <2>2, <1>c
  <2>5. Traced
    BY <2>2, <2>4, <1>b
  <2> QED
    BY <2>3, <2>5
<1>9. CASE Over \/ UNCHANGED vars
  <2>1. UNCHANGED vars
    BY <1>9 DEF Over
  <2> QED
    BY <2>1 DEF vars, Private, AnswersAreSnapshots, Stored, Traced, Saves
<1> QED
    BY <1>1, <1>2, <1>3, <1>4, <1>5, <1>6, <1>7, <1>8, <1>9 DEF Next

LEMMA NextCurrent ==
    ASSUME IInv, Private, Current, [Next]_vars, Traced
    PROVE  Current'
<1> SUFFICES ASSUME NEW q \in Req \ overtaken', pc'[q] \in {"patch", "save"}
             PROVE  job'[q].id \in DOMAIN store' /\ heap'[store'[job'[q].id]] = seen'[q]
    BY DEF Current, Stored
<1> DEFINE id == job[q].id
\* It has read the todo, and the step leaves it there.
<1> DEFINE Known == id \in DOMAIN store /\ Stored(id) = seen'[q] /\ id \in DOMAIN store'
<1>1. ASSUME NEW r \in Req, Known, \A p \in Req \ {r} : pc'[p] = pc[p], r = q \/ ~Saves(r) \/ job[r].id # id,
             job' = job
      PROVE  job'[q].id \in DOMAIN store' /\ heap'[store'[job'[q].id]] = seen'[q]
  <2>1. \A p \in Req : Saves(p) => p = r /\ p # q
    BY <1>1 DEF Saves
  <2>2. heap'[store'[id]] = Stored(id)
    BY <1>1, <2>1 DEF Traced, Stored
  <2> QED
    BY <1>1, <2>2
\* Another request's step that neither saves nor deletes.
<1>2. ASSUME NEW r \in Req, r # q, \A p \in Req \ {r} : pc'[p] = pc[p], \A p \in Req \ {r} : seen'[p] = seen[p],
             UNCHANGED <<job, overtaken>>, DOMAIN store \subseteq DOMAIN store', ~Saves(r)
      PROVE  job'[q].id \in DOMAIN store' /\ heap'[store'[job'[q].id]] = seen'[q]
    BY <1>2, <1>1 DEF Current
\* One that does either overtakes it, or is about another todo.
<1>3. ASSUME NEW r \in Req, r # q, \A p \in Req \ {r} : pc'[p] = pc[p], \A p \in Req \ {r} : seen'[p] = seen[p],
             job' = job, DOMAIN store \ {job[r].id} \subseteq DOMAIN store', Overtake(r)
      PROVE  job'[q].id \in DOMAIN store' /\ heap'[store'[job'[q].id]] = seen'[q]
  <2>1. q \notin overtaken /\ pc[q] \in {"patch", "save"} /\ job[r].id # id
    BY <1>3 DEF Overtake
  <2>2. Known
    BY <1>3, <2>1 DEF Current
  <2> QED
    BY <1>1, <1>3, <2>1, <2>2
<1>4. ASSUME NEW r \in Req, Refuse(r) \/ FindAll(r) \/ Encode(r)
      PROVE  job'[q].id \in DOMAIN store' /\ heap'[store'[job'[q].id]] = seen'[q]
  <2>1. /\ pc'[r] = "done" /\ \A p \in Req \ {r} : pc'[p] = pc[p]
        /\ UNCHANGED <<store, job, seen, overtaken>>
    BY <1>4 DEF Refuse, FindAll, Encode, Finish, Goto, IInv
  <2> QED
    BY <1>2, <2>1 DEF Saves
<1>5. ASSUME NEW r \in Req, FindByID(r)
      PROVE  job'[q].id \in DOMAIN store' /\ heap'[store'[job'[q].id]] = seen'[q]
  <2>1. UNCHANGED <<store, job, overtaken>> /\ pc[r] = "start" /\ \A p \in Req \ {r} : pc'[p] = pc[p]
    BY <1>5 DEF FindByID, Finish, Goto, IInv
  <2>2. \A p \in Req \ {r} : seen'[p] = seen[p]
    <3>1. seen' = seen \/ seen' = [seen EXCEPT ![r] = Stored(job[r].id)]
      BY <1>5 DEF FindByID, Note
    <3> QED
      BY <3>1 DEF Private
  <2>3. CASE r = q
    <3>1. id \in DOMAIN store /\ Note(q, Stored(id))
      BY <1>5, <2>3 DEF FindByID, Finish, Goto, IInv
    <3>2. seen'[q] = Stored(id)
      BY <3>1 DEF Note, Private
    <3> QED
      BY <1>1, <2>1, <2>3, <3>1, <3>2
  <2> QED
    BY <1>2, <2>1, <2>2, <2>3 DEF Saves
<1>6. ASSUME NEW r \in Req, Create(r)
      PROVE  job'[q].id \in DOMAIN store' /\ heap'[store'[job'[q].id]] = seen'[q]
  <2>1. /\ UNCHANGED <<job, overtaken>> /\ pc[r] = "start" /\ pc'[r] = "encode"
        /\ \A p \in Req \ {r} : pc'[p] = pc[p] /\ seen'[p] = seen[p]
        /\ DOMAIN store \subseteq DOMAIN store'
    BY <1>6 DEF Create, Goto, Note, With, IInv
  <2> QED
    BY <1>2, <2>1 DEF Saves
<1>7. ASSUME NEW r \in Req, Patch(r)
      PROVE  job'[q].id \in DOMAIN store' /\ heap'[store'[job'[q].id]] = seen'[q]
  <2>1. /\ UNCHANGED <<store, job, seen, overtaken>> /\ pc[r] = "patch" /\ pc'[r] = "save"
        /\ \A p \in Req \ {r} : pc'[p] = pc[p]
    BY <1>7 DEF Patch, Goto, IInv
  <2>2. Known
    BY <2>1 DEF Current
  <2> QED
    BY <1>1, <2>1, <2>2 DEF Saves
<1>8. ASSUME NEW r \in Req, Save(r)
      PROVE  job'[q].id \in DOMAIN store' /\ heap'[store'[job'[q].id]] = seen'[q]
  <2>1. /\ job' = job /\ Overtake(r) /\ pc'[r] = "encode" /\ r # q
        /\ \A p \in Req \ {r} : pc'[p] = pc[p] /\ seen'[p] = seen[p]
        /\ DOMAIN store \subseteq DOMAIN store'
    BY <1>8 DEF Save, Goto, Note, With, IInv
  <2> QED
    BY <1>3, <2>1
<1>9. ASSUME NEW r \in Req, Delete(r)
      PROVE  job'[q].id \in DOMAIN store' /\ heap'[store'[job'[q].id]] = seen'[q]
  <2>1. /\ UNCHANGED <<job, seen>> /\ Overtake(r) /\ pc'[r] = "done" /\ r # q
        /\ \A p \in Req \ {r} : pc'[p] = pc[p]
        /\ DOMAIN store \ {job[r].id} \subseteq DOMAIN store'
    BY <1>9 DEF Delete, Finish, Goto, Restrict, IInv
  <2> QED
    BY <1>3, <2>1
<1>10. CASE Over \/ UNCHANGED vars
  <2>1. UNCHANGED vars
    BY <1>10 DEF Over
  <2> QED
    BY <2>1 DEF vars, Current, Stored
<1> QED
    BY <1>4, <1>5, <1>6, <1>7, <1>8, <1>9, <1>10 DEF Next

\* What an update saves is the patch of what it read, which is what is stored.
LEMMA StepChanges ==
    ASSUME IInv, Private, Current, [Next]_vars, Traced
    PROVE  Changes
<1>1. \A i \in DOMAIN store \cap DOMAIN store' :
         Stored(i)' # Stored(i) => \E r \in Req : Saves(r) /\ job[r].id = i
    BY DEF Traced
<1>2. ASSUME NEW r \in Req \ overtaken, Saves(r)
      PROVE  /\ job[r].id \in DOMAIN store
             /\ heap'[store'[job[r].id]] = Apply(Stored(job[r].id), job[r].body)
  <2> DEFINE t == heap[mine[r]]
  <2>1. job[r].id \in DOMAIN store /\ Stored(job[r].id) = seen[r]
    BY <1>2 DEF Current, Saves
  <2>2. Save(r)
    <3>1. \A p \in Req : ~(Refuse(p) \/ FindAll(p) \/ FindByID(p) \/ Create(p) \/ Patch(p) \/ Delete(p) \/ Encode(p))
      <4>1. \A p \in Req : Refuse(p) \/ FindAll(p) \/ FindByID(p) \/ Create(p) \/ Patch(p) \/ Delete(p) \/ Encode(p)
                             => pc[p] # "save" /\ \A q \in Req \ {p} : pc'[q] = pc[q]
        BY DEF Refuse, FindAll, FindByID, Create, Patch, Delete, Encode, Finish, Goto, IInv
      <4> QED
        BY <1>2, <4>1 DEF Saves
    <3>2. \A p \in Req : Save(p) => p = r
      <4>1. \A p \in Req : Save(p) => \A q \in Req \ {p} : pc'[q] = pc[q]
        BY DEF Save, Goto, IInv
      <4> QED
        BY <1>2, <4>1 DEF Saves
    <3>3. ~(Over \/ UNCHANGED vars)
      BY <1>2 DEF Over, vars, Saves
    <3> QED
      BY <3>1, <3>2, <3>3 DEF Next
  <2>3. t = Apply(seen[r], job[r].body) /\ t.id = job[r].id
    BY <2>2 DEF Private, Save
  <2>4. store' = With(store, t.id, mine[r]) /\ ReturnCopy(r, heap, t)
    BY <2>2 DEF Save
  <2>5. mine[r] # None /\ mine[r] \in DOMAIN heap
    BY <2>2 DEF IInv, Save, Range
  <2>6. store'[job[r].id] = mine[r] /\ job[r].id \in DOMAIN store' /\ Range(store') \subseteq Range(store) \cup {mine[r]}
    BY <2>3, <2>4 DEF With, Range
  <2>7. Range(store') \cup (Range(mine) \ {None}) \subseteq DOMAIN heap
    BY <2>5, <2>6 DEF IInv
  <2> HIDE DEF t
  <2>8. heap'[mine[r]] = heap[mine[r]]
    <3>1. mine[r] \in DOMAIN heap'
      BY <2>4, <2>6, <2>7, Copied DEF IInv, Range
    <3> QED
      BY <2>4, <2>5, <2>7, <3>1, Copied DEF IInv
  <2> QED
    BY <2>1, <2>3, <2>6, <2>8 DEF t
<1> QED
    BY <1>1, <1>2 DEF Changes, Stored

\* Whatever requests do meanwhile, the answer of a get, a create or an update is the todo as the
\* store held it when the handler last had the lock (new.go 362-390: each method's copy).
THEOREM SnapshotsAlways == Spec => []AnswersAreSnapshots
<1>1. Private => AnswersAreSnapshots
    BY DEF Private
<1> QED
    BY InitInv, NextInv, InitPrivate, NextPrivate, <1>1, PTL DEF Spec

\* Whatever requests do meanwhile, a todo in the store changes only by the save of an update; and
\* one that no other request has overtaken changes what is stored in the fields its request
\* provides only, and brings nothing back that was deleted (new.go 306-318).
THEOREM PatchIsPatchAlways == Spec => PatchIsPatch
<1>1. Init => Current
    BY DEF Init, Current
<1>2. IInv /\ IInv' /\ Private /\ Current /\ [Next]_vars => Current' /\ Changes
    BY NextPrivate, NextCurrent, StepChanges
<1> QED
    BY InitInv, NextInv, InitPrivate, NextPrivate, <1>1, <1>2, PTL DEF Spec, PatchIsPatch
=============================================================================
