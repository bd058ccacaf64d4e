-------------------------------- MODULE Todos --------------------------------
(* The resource that bast new writes, the skeleton of which bast generate     *)
(* module writes for any name (cmd/bast/new.go and generate.go, the templates *)
(* of controller, service, repository and DTO), under concurrent requests.    *)
(*                                                                            *)
(* A method of the repository holds its lock from start to end and is one     *)
(* step; what the service does between two of them is not locked.  The store  *)
(* and the handlers hold pointers: a todo's object is told from its contents. *)
EXTENDS Integers, FiniteSets, Functions

CONSTANTS Req,      \* requests
          Obj,      \* memory for todos
          Titles,   \* titles CreateTodoRequest may say
          Patches,  \* what UpdateTodoRequest may say: functions of the fields provided
          Asked,    \* ids the paths of the requests may say
          Seeds,    \* the todos of newRepo, by id
          Bad,      \* a body Bind refuses: not JSON, or a title its validation refuses
          None

Fields == {"title", "done"}
IsTodo(t) == DOMAIN t = {"id", "created"} \cup Fields /\ t.id \in Nat

ASSUME TodosAssumption ==
    /\ Asked \subseteq Nat /\ DOMAIN Seeds \subseteq Nat \cap Obj
    /\ \A i \in DOMAIN Seeds : IsTodo(Seeds[i]) /\ Seeds[i].id = i
    /\ \A p \in Patches : DOMAIN p \subseteq Fields
    /\ Bad \notin Titles \cup Patches \cup {None} /\ None \notin Obj

VARIABLES store,    \* repo.store: an object for every id that is there
          seq,      \* repo.seq
          heap,     \* the contents of the objects something points to
          job,      \* what a request asks for
          pc,       \* where its handler is
          mine,     \* the object its handler points to, None without
          seen,     \* history: the todo as it was in the store when the handler held the lock last
          overtaken, \* history: updates whose todo another request saved or deleted after they read it
          answer    \* the status and the todos encoded

vars == <<store, seq, heap, job, pc, mine, seen, overtaken, answer>>

Job(op, id, body) == [op |-> op, id |-> id, body |-> body]
Jobs == {Job("list", 0, None)} \cup {Job("create", 0, t) : t \in Titles \cup {Bad}}
        \cup {Job(op, i, None) : op \in {"get", "delete"}, i \in Asked}
        \cup {Job("update", i, p) : i \in Asked, p \in Patches \cup {Bad}}
Answer(status, todos) == [status |-> status, todos |-> todos]

\* The todo of an id in the store, by its contents.
Stored(id) == heap[store[id]]

Init ==
    /\ store = [i \in DOMAIN Seeds |-> i] /\ heap = Seeds
    /\ seq \in {0} \cup DOMAIN Seeds /\ \A i \in DOMAIN Seeds : i <= seq
    /\ job \in [Req -> Jobs] /\ pc = [r \in Req |-> "start"]
    /\ mine = [r \in Req |-> None] /\ seen = [r \in Req |-> None] /\ overtaken = {}
    /\ answer = [r \in Req |-> Answer(0, {})]

-----------------------------------------------------------------------------
\* An object of memory that is free beside the contents h, where there is one.
Room(h) == Obj \ DOMAIN h # {}
Free(h) == CHOOSE o \in Obj : o \notin DOMAIN h

With(f, x, y) == [z \in DOMAIN f \cup {x} |-> IF z = x THEN y ELSE f[z]]

\* The contents become h, without what nothing points to any more.
Collect(h) == heap' = Restrict(h, Range(store') \cup (Range(mine') \ {None}))

\* Mutant: the pointer in the store is returned.
ReturnShared(r, h, todo) == mine' = [mine EXCEPT ![r] = store'[todo.id]] /\ Collect(h)

\* copy := *t; return &copy: how findByID, create and save end, in either template.
ReturnCopy(r, h, todo) ==
    Room(h) /\ mine' = [mine EXCEPT ![r] = Free(h)] /\ Collect(With(h, Free(h), todo))

Goto(r, label) == pc' = [pc EXCEPT ![r] = label]
Note(r, todo) == seen' = [seen EXCEPT ![r] = todo]
Overtake(r) ==
    overtaken' = overtaken \cup {q \in Req \ {r} : pc[q] \in {"patch", "save"} /\ job[q].id = job[r].id}
Finish(r, status, todos) ==
    /\ answer' = [answer EXCEPT ![r] = Answer(status, todos)]
    /\ Goto(r, "done") /\ mine' = [mine EXCEPT ![r] = None]

\* Bind fails: ctx.Error answers 400.
Refuse(r) ==
    /\ pc[r] = "start" /\ job[r].body = Bad
    /\ Finish(r, 400, {})
    /\ UNCHANGED <<store, seq, heap, job, seen, overtaken>>

\* findAll copies every todo under the lock.
FindAll(r) ==
    /\ pc[r] = "start" /\ job[r].op = "list"
    /\ Finish(r, 200, {Stored(i) : i \in DOMAIN store})
    /\ UNCHANGED <<store, seq, heap, job, seen, overtaken>>

\* findByID, of Get, Update and Delete.
FindByID(r) ==
    /\ pc[r] = "start" /\ job[r].op \in {"get", "update", "delete"} /\ job[r].body # Bad
    /\ LET id == job[r].id IN
       \/ /\ id \notin DOMAIN store
          /\ Finish(r, 404, {}) /\ UNCHANGED <<heap, seen>>
       \/ /\ id \in DOMAIN store
          /\ UNCHANGED store /\ ReturnCopy(r, heap, Stored(id)) /\ Note(r, Stored(id))
          /\ Goto(r, CASE job[r].op = "get" -> "encode"
                       [] job[r].op = "update" -> "patch"
                       [] job[r].op = "delete" -> "delete")
          /\ UNCHANGED answer
    /\ UNCHANGED <<store, seq, job, overtaken>>

\* Mutant: the id is the number of todos there are, plus one.
IdByCount == Cardinality(DOMAIN store) + 1

\* r.seq++, and the id printed from it.
NextId == seq + 1

\* create: the store's todo, and a copy of it for the answer.
Create(r) ==
    /\ pc[r] = "start" /\ job[r].op = "create" /\ job[r].body # Bad /\ Room(heap)
    /\ LET todo == [id |-> NextId, title |-> job[r].body, done |-> FALSE, created |-> r]
       IN /\ store' = With(store, NextId, Free(heap)) /\ seq' = seq + 1
          /\ ReturnCopy(r, With(heap, Free(heap), todo), todo) /\ Note(r, todo)
    /\ Goto(r, "encode")
    /\ UNCHANGED <<job, overtaken, answer>>

\* Update's assignments: the fields the request provides.
Apply(todo, patch) == [f \in DOMAIN todo |-> IF f \in DOMAIN patch THEN patch[f] ELSE todo[f]]

\* The service changes its copy, without the lock.
Patch(r) ==
    /\ pc[r] = "patch"
    /\ heap' = [heap EXCEPT ![mine[r]] = Apply(heap[mine[r]], job[r].body)]
    /\ Goto(r, "save")
    /\ UNCHANGED <<store, seq, job, mine, seen, overtaken, answer>>

\* save: the store takes the service's object, the answer a copy.
Save(r) ==
    /\ pc[r] = "save"
    /\ LET todo == heap[mine[r]] IN
       /\ store' = With(store, todo.id, mine[r])
       /\ ReturnCopy(r, heap, todo) /\ Note(r, todo)
    /\ Goto(r, "encode") /\ Overtake(r)
    /\ UNCHANGED <<seq, job, answer>>

\* delete, and NoContent.
Delete(r) ==
    /\ pc[r] = "delete"
    /\ store' = Restrict(store, DOMAIN store \ {job[r].id})
    /\ Finish(r, 204, {}) /\ Collect(heap) /\ Overtake(r)
    /\ UNCHANGED <<seq, job, seen>>

\* OK and Created encode the object the handler points to.
Encode(r) ==
    /\ pc[r] = "encode"
    /\ Finish(r, IF job[r].op = "create" THEN 201 ELSE 200, {heap[mine[r]]})
    /\ UNCHANGED store /\ Collect(heap)
    /\ UNCHANGED <<seq, job, seen, overtaken>>

Over == (\A r \in Req : pc[r] = "done") /\ UNCHANGED vars

Next ==
    \/ \E r \in Req : \/ Refuse(r) \/ FindAll(r) \/ FindByID(r) \/ Create(r)
                      \/ Patch(r) \/ Save(r) \/ Delete(r) \/ Encode(r)
    \/ Over

Spec == Init /\ [][Next]_vars

-----------------------------------------------------------------------------
\* The todo of an answer is the todo as it was in the store at one moment, the last at
\* which its handler held the lock: no change another request makes afterwards, before
\* the answer is encoded, shows in it (new.go 362-390: the copies).
AnswersAreSnapshots ==
    \A r \in Req : answer[r].status \in {200, 201} /\ job[r].op # "list" => answer[r].todos = {seen[r]}

\* Whatever is or was answered, an id is that of one todo: all that carry it were made
\* by the same creation, so that an id deleted is not given again and a late save of a
\* deleted todo never takes another one's place (new.go 373-390).
Shown == Range(heap) \cup UNION {answer[r].todos : r \in Req}
IdsNameOneTodo == \A t, u \in Shown : t.id = u.id => t.created = u.created

\* A todo in the store changes only when an update saves it; and when nothing else saved or
\* deleted that todo since the update read it, the save changes what is stored in just the
\* fields its request provides, and brings nothing back (new.go 306-318).
Saves(r) == pc[r] = "save" /\ pc'[r] = "encode"
Changes ==
    /\ \A i \in DOMAIN store \cap DOMAIN store' :
          Stored(i)' # Stored(i) => \E r \in Req : Saves(r) /\ job[r].id = i
    /\ \A r \in Req \ overtaken, i \in Asked : Saves(r) /\ job[r].id = i =>
          i \in DOMAIN store /\ Stored(i)' = Apply(Stored(i), job[r].body)
PatchIsPatch == [][Changes]_vars

\* "only provided fields are updated" (new.go:418), whoever else writes: a field of a stored todo
\* changes only when an update that provides this field saves it.
ProvidedOnly ==
    \A i \in DOMAIN store \cap DOMAIN store', f \in Fields :
        Stored(i)'[f] # Stored(i)[f] =>
            \E r \in Req : Saves(r) /\ job[r].id = i /\ f \in DOMAIN job[r].body
OnlyProvidedFields == [][ProvidedOnly]_vars
=============================================================================
