------------------------------- MODULE CtxPool -------------------------------
(* The request context and its two sync.Pools (ctx.go).                       *)
(*                                                                            *)
(* Every request runs on a goroutine of its own (net/http).  It takes a *Ctx  *)
(* from ctxPool, lets the handler read and write it in any order, writes the  *)
(* response and puts the *Ctx back; reading the body takes a bytes.Buffer     *)
(* from bodyBufPool, and the response may be backed by that very buffer.      *)
(* Nothing but the discipline of wipe() keeps one request's data away from    *)
(* the next one.                                                              *)
(*                                                                            *)
(* Data is abstracted to the request it came from: a parameter, a stored      *)
(* value, a body byte is the request that produced it.  A pool is a bag       *)
(* (a count per object), so that putting an object back twice is visible; an  *)
(* object nobody references may come back from the allocator at any time.     *)
EXTENDS Integers, FiniteSets

CONSTANTS Req,           \* requests, each served once
          Ctx,           \* the *Ctx objects the allocator may hand out
          Buf,           \* the bytes.Buffers the allocator may hand out
          NoReq, NoCtx, NoBuf,
          Sizes,         \* body sizes a request may have
          Routes,        \* the registered routes: MaxBodySize (0: none set), has a timeout, has parameters
          AppLimit,      \* Config.MaxBodySize; negative: no limit
          DefaultLimit,  \* defaultMaxBodySize
          PoolCap        \* maxPooledBodyCap

ASSUME NoneAssumption == NoReq \notin Req /\ NoCtx \notin Ctx /\ NoBuf \notin Buf
ASSUME LimitAssumption == /\ Sizes \subseteq Nat
                          /\ Routes \subseteq [limit : Nat, timeout : BOOLEAN, params : BOOLEAN]
                          /\ AppLimit \in Int
                          /\ DefaultLimit \in Nat \ {0}
                          /\ PoolCap \in Nat

VARIABLES pc,       \* where the goroutine of a request is
          held,     \* the local ctx of ServeHTTP
          ctx,      \* the fields of every *Ctx
          copy,     \* the handler's WithValue copy; its request field is NoReq if there is none
          ctxPool,  \* how many times each *Ctx sits in ctxPool
          bufPool,  \* how many times each buffer sits in bodyBufPool
          content,  \* whose bytes a buffer holds
          cap,      \* the capacity of a buffer
          size,     \* the size of the request's body
          limit,    \* the MaxBodySize of the route the request matched
          body,     \* Request.Body: what it reads from, under which bound, whether a read failed
          reading,  \* the local buf of readBody while it reads the network
          resp,     \* the buffer backing the response body, NoBuf if it has its own bytes
          wire      \* whose bytes the client got

vars == <<pc, held, ctx, copy, ctxPool, bufPool, content, cap, size, limit, body, reading, resp, wire>>
ctxVars == <<held, ctx, copy, ctxPool>>
bufVars == <<bufPool, content, cap>>
reqVars == <<size, limit, body, reading, resp, wire>>

Max2(m, n) == IF m > n THEN m ELSE n
Unbounded == -1

\* A *Ctx as sync.Pool.New makes it, and as wipe leaves it.
ZeroCtx == [request |-> NoReq, limit |-> 0, limited |-> FALSE, body |-> NoBuf, owned |-> NoBuf,
            params |-> {}, store |-> {}, detached |-> NoReq]

CtxRec == [request : Req \cup {NoReq}, limit : Int, limited : BOOLEAN,
           body : Buf \cup {NoBuf}, owned : Buf \cup {NoBuf},
           params : SUBSET Req, store : SUBSET Req, detached : Req \cup {NoReq}]

CtxOf(r) == IF held[r] = NoCtx THEN ZeroCtx ELSE ctx[held[r]]

\* The buffers a request reaches.
BufsOf(r) == {reading[r], CtxOf(r).owned, copy[r].owned} \ {NoBuf}

\* Config.MaxBodySize, or the route's own limit, as limitBody resolves it.
Resolved(l) == IF l = 0 THEN DefaultLimit ELSE l
Configured(r) == Resolved(IF limit[r] > 0 THEN limit[r] ELSE AppLimit)

-----------------------------------------------------------------------------
Init ==
    /\ pc = [r \in Req |-> "new"]
    /\ held = [r \in Req |-> NoCtx]
    /\ ctx = [c \in Ctx |-> ZeroCtx]
    /\ copy = [r \in Req |-> ZeroCtx]
    /\ ctxPool = [c \in Ctx |-> 0]
    /\ bufPool = [b \in Buf |-> 0]
    /\ content = [b \in Buf |-> NoReq]
    /\ cap = [b \in Buf |-> 0]
    /\ size \in [Req -> Sizes]
    /\ limit = [r \in Req |-> 0]
    /\ body = [r \in Req |-> [from |-> NoBuf, bound |-> Unbounded, failed |-> FALSE]]
    /\ reading = [r \in Req |-> NoBuf]
    /\ resp = [r \in Req |-> NoBuf]
    /\ wire = [r \in Req |-> NoReq]

\* acquireCtx: a pooled *Ctx, or a new one that nobody holds.
Acquire(r) ==
    /\ pc[r] = "new"
    /\ \E c \in Ctx :
         /\ \/ /\ ctxPool[c] > 0
               /\ ctxPool' = [ctxPool EXCEPT ![c] = @ - 1]
               /\ ctx' = [ctx EXCEPT ![c].request = r, ![c].limit = AppLimit]
            \/ /\ ctxPool[c] = 0
               /\ \A q \in Req : held[q] # c
               /\ ctx' = [ctx EXCEPT ![c] = [ZeroCtx EXCEPT !.request = r, !.limit = AppLimit]]
               /\ UNCHANGED ctxPool
         /\ held' = [held EXCEPT ![r] = c]
    /\ pc' = [pc EXCEPT ![r] = "routing"]
    /\ UNCHANGED <<copy, bufVars, reqVars>>

\* A matched route: Find appends the parameters to the (emptied) params slice, then the wrappers
\* built by registerRoute set the route's body limit and, with a timeout, the context.
Match(r) ==
    /\ pc[r] = "routing"
    /\ \E route \in Routes :
         LET z == ctx[held[r]]
         IN  /\ limit' = [limit EXCEPT ![r] = route.limit]
             /\ ctx' = [ctx EXCEPT ![held[r]] =
                         [z EXCEPT !.params = IF route.params THEN z.params \cup {r} ELSE z.params,
                                   !.limit = IF route.limit > 0 THEN route.limit ELSE z.limit,
                                   !.detached = IF route.timeout THEN z.request ELSE z.detached]]
    /\ pc' = [pc EXCEPT ![r] = "running"]
    /\ UNCHANGED <<held, copy, ctxPool, bufVars, size, body, reading, resp, wire>>

\* No route for the method: an OPTIONS request runs the global middleware on the bare context,
\* anything else is answered 404 or 405 at once.
NoMatch(r) ==
    /\ pc[r] = "routing"
    /\ \/ pc' = [pc EXCEPT ![r] = "running"]
       \/ pc' = [pc EXCEPT ![r] = "responding"]
    /\ UNCHANGED <<ctxVars, bufVars, reqVars>>

\* ctx.Set and ctx.Context from the handler.
Set(r) ==
    /\ pc[r] = "running"
    /\ ctx' = [ctx EXCEPT ![held[r]].store = @ \cup {ctx[held[r]].request},
                          ![held[r]].detached = IF @ = NoReq THEN ctx[held[r]].request ELSE @]
    /\ UNCHANGED <<pc, held, copy, ctxPool, bufVars, reqVars>>

\* ctx.WithValue: a shallow copy, with its own store; buffer and Request stay shared.
WithValue(r) ==
    /\ pc[r] = "running"
    /\ copy[r].request = NoReq
    /\ ctx' = [ctx EXCEPT ![held[r]].detached = IF @ = NoReq THEN ctx[held[r]].request ELSE @]
    /\ copy' = [copy EXCEPT ![r] = ctx'[held[r]]]
    /\ UNCHANGED <<pc, held, ctxPool, bufVars, reqVars>>

\* limitBody: wrap Request.Body once, under the limit of this *Ctx.
Bounded(r, z) ==
    LET l == Resolved(z.limit)
    IN  IF z.limited \/ l < 0 THEN body[r].bound
        ELSE IF body[r].bound = Unbounded \/ l < body[r].bound THEN l ELSE body[r].bound

\* readBody up to the blocking read: the limit is put in place, a buffer taken from the pool, and
\* presized from Content-Length when that fits a positive limit.
ReadBegin(r, z) ==
    /\ z.body = NoBuf
    /\ body' = [body EXCEPT ![r].bound = Bounded(r, z)]
    /\ \E b \in Buf :
         LET grown(c) == IF z.limit > 0 /\ size[r] <= z.limit THEN Max2(c, size[r]) ELSE c
         IN  /\ \/ /\ bufPool[b] > 0
                   /\ bufPool' = [bufPool EXCEPT ![b] = @ - 1]
                   /\ cap' = [cap EXCEPT ![b] = grown(@)]
                \/ /\ bufPool[b] = 0
                   /\ \A q \in Req : b \notin BufsOf(q)
                   /\ cap' = [cap EXCEPT ![b] = grown(0)]
                   /\ UNCHANGED bufPool
             /\ reading' = [reading EXCEPT ![r] = b]
             /\ content' = [content EXCEPT ![b] = NoReq]
    /\ UNCHANGED <<held, ctxPool, size, limit, resp, wire>>

\* The handler calls RawBody, Bind or BindJSON on its *Ctx, or on the copy.
ReadStart(r) ==
    /\ pc[r] = "running"
    /\ ReadBegin(r, ctx[held[r]])
    /\ ctx' = [ctx EXCEPT ![held[r]].limited = TRUE]
    /\ pc' = [pc EXCEPT ![r] = "reading"]
    /\ UNCHANGED copy

ReadStartCopy(r) ==
    /\ pc[r] = "running"
    /\ copy[r].request # NoReq
    /\ ReadBegin(r, copy[r])
    /\ copy' = [copy EXCEPT ![r].limited = TRUE]
    /\ pc' = [pc EXCEPT ![r] = "readingCopy"]
    /\ UNCHANGED ctx

\* The read ends inside the bound: the buffer now backs the *Ctx and Request.Body.
ReadDone(r) ==
    LET b == reading[r]
    IN  /\ pc[r] \in {"reading", "readingCopy"}
        /\ ~body[r].failed
        /\ body[r].bound = Unbounded \/ size[r] <= body[r].bound
        /\ content' = [content EXCEPT ![b] = IF body[r].from = NoBuf THEN r ELSE content[body[r].from]]
        /\ cap' = [cap EXCEPT ![b] = Max2(@, size[r])]
        /\ body' = [body EXCEPT ![r] = [from |-> b, bound |-> Unbounded, failed |-> FALSE]]
        /\ IF pc[r] = "reading"
           THEN /\ ctx' = [ctx EXCEPT ![held[r]].owned = b, ![held[r]].body = b]
                /\ UNCHANGED copy
           ELSE /\ copy' = [copy EXCEPT ![r].owned = b, ![r].body = b]
                /\ UNCHANGED ctx
        /\ reading' = [reading EXCEPT ![r] = NoBuf]
        /\ pc' = [pc EXCEPT ![r] = "running"]
        /\ UNCHANGED <<held, ctxPool, bufPool, size, limit, resp, wire>>

\* The read overflows the bound or the connection fails after n bytes: the buffer goes back to the
\* pool as it is, and the reader keeps failing.
ReadFail(r) ==
    /\ pc[r] \in {"reading", "readingCopy"}
    /\ body[r].from = NoBuf
    /\ \E n \in 0..size[r] :
         /\ body[r].bound # Unbounded => n <= body[r].bound
         /\ cap' = [cap EXCEPT ![reading[r]] = Max2(@, n)]
    /\ content' = [content EXCEPT ![reading[r]] = r]
    /\ bufPool' = [bufPool EXCEPT ![reading[r]] = @ + 1]
    /\ body' = [body EXCEPT ![r].failed = TRUE]
    /\ reading' = [reading EXCEPT ![r] = NoBuf]
    /\ pc' = [pc EXCEPT ![r] = "running"]
    /\ UNCHANGED <<ctxVars, size, limit, resp, wire>>

\* Mutant: the buffer goes back to the pool when the handler returns, before the response is written.
RespondReleasing(r) ==
    /\ pc[r] = "running"
    /\ \E b \in {NoBuf, ctx[held[r]].body, copy[r].body} : resp' = [resp EXCEPT ![r] = b]
    /\ bufPool' = IF ctx[held[r]].owned = NoBuf THEN bufPool ELSE [bufPool EXCEPT ![ctx[held[r]].owned] = @ + 1]
    /\ ctx' = [ctx EXCEPT ![held[r]].owned = NoBuf]
    /\ pc' = [pc EXCEPT ![r] = "responding"]
    /\ UNCHANGED <<held, copy, ctxPool, content, cap, size, limit, body, reading, wire>>

\* The handler returns (or panics, and the error handler answers): a body of its own, or the bytes
\* RawBody returned.
Respond(r) ==
    /\ pc[r] = "running"
    /\ \E b \in {NoBuf, ctx[held[r]].body, copy[r].body} : resp' = [resp EXCEPT ![r] = b]
    /\ pc' = [pc EXCEPT ![r] = "responding"]
    /\ UNCHANGED <<ctxVars, bufVars, size, limit, body, reading, wire>>

\* Mutant: the panic path releases the *Ctx, and the deferred call releases it again.
AbortReleasing(r) ==
    /\ pc[r] = "running"
    /\ pc' = [pc EXCEPT ![r] = "leaving"]
    /\ ctxPool' = [ctxPool EXCEPT ![held[r]] = @ + 1]
    /\ UNCHANGED <<held, ctx, copy, bufVars, reqVars>>

\* http.ErrAbortHandler: the stack unwinds through the deferred releaseCtx, nothing is written.
Abort(r) ==
    /\ pc[r] = "running"
    /\ pc' = [pc EXCEPT ![r] = "leaving"]
    /\ UNCHANGED <<ctxVars, bufVars, reqVars>>

Write(r) ==
    /\ pc[r] = "responding"
    /\ wire' = [wire EXCEPT ![r] = IF resp[r] = NoBuf THEN r ELSE content[resp[r]]]
    /\ pc' = [pc EXCEPT ![r] = "leaving"]
    /\ UNCHANGED <<ctxVars, bufVars, size, limit, body, reading, resp>>

\* Mutants: a field wipe forgets.
WipedButStore(c) == [ZeroCtx EXCEPT !.store = ctx[c].store]
WipedButLimited(c) == [ZeroCtx EXCEPT !.limited = ctx[c].limited]
WipedButParams(c) == [ZeroCtx EXCEPT !.params = ctx[c].params]
WipedButOwned(c) == [ZeroCtx EXCEPT !.owned = ctx[c].owned]

\* wipe: every field of the *Ctx zeroed.
Wiped(c) == ZeroCtx

\* wipe: the buffer of the *Ctx goes back to the pool unless it grew too large.
BufPoolAfterWipe(c) ==
    IF ctx[c].owned # NoBuf /\ cap[ctx[c].owned] <= PoolCap
    THEN [bufPool EXCEPT ![ctx[c].owned] = @ + 1]
    ELSE bufPool

\* releaseCtx; the goroutine's locals die with it.
Release(r) ==
    /\ pc[r] = "leaving"
    /\ ctx' = [ctx EXCEPT ![held[r]] = Wiped(held[r])]
    /\ bufPool' = BufPoolAfterWipe(held[r])
    /\ ctxPool' = [ctxPool EXCEPT ![held[r]] = @ + 1]
    /\ held' = [held EXCEPT ![r] = NoCtx]
    /\ copy' = [copy EXCEPT ![r] = ZeroCtx]
    /\ resp' = [resp EXCEPT ![r] = NoBuf]
    /\ body' = [body EXCEPT ![r] = [from |-> NoBuf, bound |-> Unbounded, failed |-> FALSE]]
    /\ pc' = [pc EXCEPT ![r] = "done"]
    /\ UNCHANGED <<content, cap, size, limit, reading, wire>>

\* A garbage collection may empty a sync.Pool at any time.
DropCtx(c) ==
    /\ ctxPool[c] > 0
    /\ ctxPool' = [ctxPool EXCEPT ![c] = @ - 1]
    /\ UNCHANGED <<pc, held, ctx, copy, bufVars, reqVars>>

DropBuf(b) ==
    /\ bufPool[b] > 0
    /\ bufPool' = [bufPool EXCEPT ![b] = @ - 1]
    /\ UNCHANGED <<pc, ctxVars, content, cap, reqVars>>

Served == (\A r \in Req : pc[r] = "done") /\ UNCHANGED vars

Handler(r) == Set(r) \/ WithValue(r) \/ ReadStart(r) \/ ReadStartCopy(r)
              \/ ReadDone(r) \/ ReadFail(r) \/ Respond(r) \/ Abort(r)

Next ==
    \/ \E r \in Req : Acquire(r) \/ Match(r) \/ NoMatch(r) \/ Handler(r) \/ Write(r) \/ Release(r)
    \/ \E c \in Ctx : DropCtx(c)
    \/ \E b \in Buf : DropBuf(b)
    \/ Served

Spec == Init /\ [][Next]_vars

-----------------------------------------------------------------------------
\* The types of the code: above all, a pool never holds a negative number of an object.
TypeOK ==
    /\ pc \in [Req -> {"new", "routing", "running", "reading", "readingCopy", "responding", "leaving", "done"}]
    /\ held \in [Req -> Ctx \cup {NoCtx}]
    /\ ctx \in [Ctx -> CtxRec]
    /\ copy \in [Req -> CtxRec]
    /\ ctxPool \in [Ctx -> Nat]
    /\ bufPool \in [Buf -> Nat]
    /\ content \in [Buf -> Req \cup {NoReq}]
    /\ cap \in [Buf -> Nat]
    /\ size \in [Req -> Sizes]
    /\ limit \in [Req -> Nat]
    /\ body \in [Req -> [from : Buf \cup {NoBuf}, bound : Int, failed : BOOLEAN]]
    /\ reading \in [Req -> Buf \cup {NoBuf}]
    /\ resp \in [Req -> Buf \cup {NoBuf}]
    /\ wire \in [Req -> Req \cup {NoReq}]

\* A *Ctx is in the hands of one request, or once in the pool, never both: two goroutines can not be
\* given the same *Ctx, whatever mix of returns, panics and aborts ended the earlier requests.
CtxExclusive ==
    \A c \in Ctx :
        /\ ctxPool[c] <= 1
        /\ \A r \in Req : held[r] = c =>
              /\ ctxPool[c] = 0
              /\ \A q \in Req \ {r} : held[q] # c

\* A body buffer is reachable from one request (through its *Ctx, its WithValue copy or the read in
\* progress), or once in the pool, never both.
BufExclusive ==
    \A b \in Buf :
        /\ bufPool[b] <= 1
        /\ \A r \in Req : b \in BufsOf(r) =>
              /\ bufPool[b] = 0
              /\ \A q \in Req \ {r} : b \notin BufsOf(q)

\* What a handler can read through its *Ctx or through a copy of it comes from its own request:
\* nothing survives wipe into the next use of the pooled object.
OnlyOf(r, z) ==
    /\ z.request \in {NoReq, r}
    /\ z.params \subseteq {r}
    /\ z.store \subseteq {r}
    /\ z.detached \in {NoReq, r}
    /\ z.body # NoBuf => content[z.body] = r

Isolation == \A r \in Req : OnlyOf(r, CtxOf(r)) /\ OnlyOf(r, copy[r])

\* The client of a request is sent the bytes of that request, also when the response body is the
\* pooled buffer RawBody returned.
OwnResponse == \A r \in Req : wire[r] \in {NoReq, r}

\* A body the framework accepted fits the limit configured for the route (or the application):
\* neither a stale limit nor a stale bodyLimited flag of an earlier request lets a larger one in.
Fits(r) == Configured(r) < 0 \/ size[r] <= Configured(r)

BodyBounded == \A r \in Req : (CtxOf(r).body # NoBuf \/ copy[r].body # NoBuf) => Fits(r)

\* "Buffers above the cap are dropped so one giant upload doesn't pin memory for the process
\* lifetime" (ctx.go:72-73).  readBody puts the buffer of a failed read back whatever it grew to.
PooledBuffersSmall == \A b \in Buf : bufPool[b] > 0 => cap[b] <= PoolCap

-----------------------------------------------------------------------------
(* The strengthening the proofs use.                                          *)

\* An object in ctxPool is indistinguishable from a new one.
PooledClean == \A c \in Ctx : ctxPool[c] > 0 => ctx[c] = ZeroCtx

\* Which locals are alive at which point of ServeHTTP.
Phases ==
    \A r \in Req :
        /\ held[r] = NoCtx <=> pc[r] \in {"new", "done"}
        /\ reading[r] = NoBuf <=> pc[r] \notin {"reading", "readingCopy"}
        /\ pc[r] \in {"new", "routing"} => limit[r] = 0
        /\ pc[r] \in {"new", "routing", "done"} =>
              copy[r] = ZeroCtx /\ body[r].from = NoBuf /\ body[r].bound = Unbounded
        /\ pc[r] \notin {"responding", "leaving"} => resp[r] = NoBuf
        /\ pc[r] = "routing" => CtxOf(r).owned = NoBuf /\ ~CtxOf(r).limited
        /\ held[r] # NoCtx => CtxOf(r).request = r
        /\ copy[r].request = NoReq => copy[r] = ZeroCtx
        /\ pc[r] = "reading" => CtxOf(r).limited
        /\ pc[r] = "readingCopy" => copy[r].request = r /\ copy[r].limited

\* Every reference to a buffer is to one the request owns, with the request's bytes in it.
InRefs(r) ==
    /\ CtxOf(r).body = CtxOf(r).owned
    /\ copy[r].body = copy[r].owned
    /\ CtxOf(r).owned # NoBuf \/ copy[r].owned # NoBuf => body[r].from # NoBuf
    /\ \A b \in {CtxOf(r).owned, copy[r].owned, body[r].from, resp[r]} \ {NoBuf} :
          /\ b \in {CtxOf(r).owned, copy[r].owned}
          /\ b # reading[r]
          /\ content[b] = r

Refs == \A r \in Req : InRefs(r)

\* The limit in a *Ctx is the configured one, and a network read runs under it once limited is set.
InLimit(r, z) ==
    /\ z.request # NoReq => z.limit = (IF limit[r] > 0 THEN limit[r] ELSE AppLimit)
    /\ z.limited /\ body[r].from = NoBuf /\ Configured(r) >= 0 =>
          body[r].bound # Unbounded /\ body[r].bound <= Configured(r)

Limits ==
    \A r \in Req :
        /\ InLimit(r, CtxOf(r)) /\ InLimit(r, copy[r])
        /\ body[r].from # NoBuf => Fits(r)

\* The inductive invariant of the proofs, checked on the instance first.
IInv == /\ TypeOK
        /\ CtxExclusive
        /\ PooledClean
        /\ Phases
        /\ BufExclusive
        /\ Refs
        /\ Isolation
        /\ OwnResponse
        /\ Limits
=============================================================================
