---------------------------- MODULE CtxPoolProofs ----------------------------
(* Proofs about CtxPool, for any sets of requests, contexts, buffers, sizes   *)
(* and routes: the invariant IInv is inductive, and each safety property of   *)
(* CtxPool follows from it.  An action changes at most one *Ctx, so every     *)
(* proof first says what CtxOf is after the step (Held, Updated) and then     *)
(* takes the conjuncts of IInv one by one without opening CtxOf again.        *)
EXTENDS CtxPool, TLAPS

\* A goroutine between acquireCtx and releaseCtx holds a *Ctx that carries its own request.
LEMMA Held ==
    ASSUME IInv, NEW r \in Req, pc[r] \notin {"new", "done"}
    PROVE  /\ held[r] \in Ctx
           /\ ctx[held[r]] \in CtxRec
           /\ CtxOf(r) = ctx[held[r]]
           /\ ctx[held[r]].request = r
           /\ ctxPool[held[r]] = 0
BY NoneAssumption DEF IInv, TypeOK, Phases, CtxOf, CtxExclusive

\* A step that rewrites the *Ctx one request holds leaves every other request's *Ctx, and every
\* pooled one, as it was.
LEMMA Updated ==
    ASSUME IInv, NEW r \in Req, held[r] \in Ctx, NEW n \in CtxRec,
           held' = held, ctx' = [ctx EXCEPT ![held[r]] = n]
    PROVE  /\ ctx' \in [Ctx -> CtxRec]
           /\ CtxOf(r)' = n
           /\ \A q \in Req \ {r} : CtxOf(q)' = CtxOf(q)
           /\ \A c \in Ctx : ctxPool[c] > 0 => ctx'[c] = ctx[c]
<1> USE NoneAssumption DEF IInv
<1>1. ctx' \in [Ctx -> CtxRec]
  BY DEF TypeOK
<1>2. CtxOf(r)' = n
  BY DEF TypeOK, CtxOf
<1>3. \A q \in Req \ {r} : CtxOf(q)' = CtxOf(q)
  BY DEF TypeOK, CtxOf, CtxExclusive
<1>4. \A c \in Ctx : ctxPool[c] > 0 => ctx'[c] = ctx[c]
  BY DEF TypeOK, CtxExclusive
<1> QED BY <1>1, <1>2, <1>3, <1>4

\* The sizes and limits a request is measured against are numbers.
LEMMA Numbers ==
    ASSUME IInv, NEW r \in Req
    PROVE  size[r] \in Nat /\ limit[r] \in Nat /\ Configured(r) \in Int
<1>1. size[r] \in Nat
  BY LimitAssumption DEF IInv, TypeOK
<1>2. limit[r] \in Nat
  BY DEF IInv, TypeOK
<1> QED BY LimitAssumption, <1>1, <1>2 DEF Configured, Resolved

\* What a *Ctx and a copy hold is typed.
LEMMA Typed ==
    ASSUME IInv, NEW r \in Req
    PROVE  CtxOf(r) \in CtxRec /\ copy[r] \in CtxRec /\ ZeroCtx \in CtxRec
BY NoneAssumption DEF IInv, TypeOK, CtxOf, ZeroCtx, CtxRec

\* The buffer a read is filling is referenced from nowhere else.
LEMMA ReadingApart ==
    ASSUME IInv, NEW r \in Req, pc[r] \in {"reading", "readingCopy"}
    PROVE  /\ reading[r] \in Buf
           /\ bufPool[reading[r]] = 0
           /\ \A q \in Req :
                 /\ CtxOf(q).owned # reading[r] /\ CtxOf(q).body # reading[r]
                 /\ copy[q].owned # reading[r] /\ copy[q].body # reading[r]
                 /\ body[q].from # reading[r] /\ resp[q] # reading[r]
                 /\ q # r => reading[q] # reading[r]
<1> USE NoneAssumption DEF IInv
<1>1. reading[r] \in Buf /\ reading[r] # NoBuf
  BY DEF TypeOK, Phases
<1>2. bufPool[reading[r]] = 0 /\ \A q \in Req \ {r} : reading[r] \notin BufsOf(q)
  BY <1>1 DEF BufExclusive, BufsOf
<1>3. \A q \in Req \ {r} : CtxOf(q).owned # reading[r] /\ copy[q].owned # reading[r] /\ reading[q] # reading[r]
  BY <1>1, <1>2 DEF BufsOf
<1>4. CtxOf(r).owned # reading[r] /\ copy[r].owned # reading[r]
  BY <1>1 DEF Refs, InRefs
<1>5. \A q \in Req : body[q].from # reading[r] /\ resp[q] # reading[r]
  BY <1>1, <1>3, <1>4 DEF Refs, InRefs
<1> QED BY <1>1, <1>2, <1>3, <1>4, <1>5 DEF Refs, InRefs

\* A buffer bodyBufPool.Get returns is referenced from nowhere, and no longer in the pool.
LEMMA BufferTaken ==
    ASSUME IInv, NEW r \in Req, NEW z, ReadBegin(r, z)
    PROVE  \E b \in Buf :
             /\ bufPool' = [bufPool EXCEPT ![b] = 0]
             /\ cap' \in [Buf -> Nat]
             /\ reading' = [reading EXCEPT ![r] = b]
             /\ content' = [content EXCEPT ![b] = NoReq]
             /\ \A q \in Req :
                   /\ CtxOf(q).owned # b /\ CtxOf(q).body # b
                   /\ copy[q].owned # b /\ copy[q].body # b
                   /\ body[q].from # b /\ resp[q] # b /\ reading[q] # b
<1> USE DEF IInv
<1>1. PICK b \in Buf :
        /\ \/ bufPool[b] > 0 /\ bufPool' = [bufPool EXCEPT ![b] = @ - 1]
           \/ bufPool[b] = 0 /\ bufPool' = bufPool /\ \A q \in Req : b \notin BufsOf(q)
        /\ \/ cap' = [cap EXCEPT ![b] = IF z.limit > 0 /\ size[r] <= z.limit THEN Max2(cap[b], size[r]) ELSE cap[b]]
           \/ cap' = [cap EXCEPT ![b] = IF z.limit > 0 /\ size[r] <= z.limit THEN Max2(0, size[r]) ELSE 0]
        /\ reading' = [reading EXCEPT ![r] = b]
        /\ content' = [content EXCEPT ![b] = NoReq]
  BY DEF ReadBegin
<1>2. \A q \in Req : b \notin BufsOf(q)
  BY <1>1 DEF TypeOK, BufExclusive
<1>3. bufPool' = [bufPool EXCEPT ![b] = 0]
  BY <1>1 DEF TypeOK, BufExclusive
<1>4. cap' \in [Buf -> Nat]
  <2>1. size[r] \in Nat /\ cap[b] \in Nat
    BY LimitAssumption DEF TypeOK
  <2> QED BY <1>1, <2>1 DEF TypeOK, Max2
<1>5. \A q \in Req : CtxOf(q).owned # b /\ copy[q].owned # b /\ reading[q] # b
  BY NoneAssumption, <1>2 DEF BufsOf
<1>6. \A q \in Req : body[q].from # b /\ resp[q] # b /\ CtxOf(q).body # b /\ copy[q].body # b
  BY NoneAssumption, <1>5 DEF Refs, InRefs
<1> QED BY <1>1, <1>3, <1>4, <1>5, <1>6

-----------------------------------------------------------------------------
\* The invariant holds before the first request.
LEMMA InitInv == Init => IInv
<1> SUFFICES ASSUME Init PROVE IInv
  OBVIOUS
<1> USE NoneAssumption, LimitAssumption
<1>0. /\ ZeroCtx \in CtxRec
      /\ \A r \in Req : CtxOf(r) = ZeroCtx /\ copy[r] = ZeroCtx
  BY DEF Init, CtxOf, ZeroCtx, CtxRec
<1>1. TypeOK
  BY <1>0 DEF Init, TypeOK, Unbounded
<1>2. CtxExclusive /\ PooledClean
  BY DEF Init, CtxExclusive, PooledClean
<1>3. Phases
  BY <1>0 DEF Init, Phases, Unbounded, ZeroCtx
<1>4. BufExclusive
  BY <1>0 DEF Init, BufExclusive, BufsOf, ZeroCtx
<1>5. Refs
  BY <1>0 DEF Init, Refs, InRefs, ZeroCtx
<1>6. Isolation /\ OwnResponse
  BY <1>0 DEF Init, Isolation, OnlyOf, OwnResponse, ZeroCtx
<1>7. Limits
  BY <1>0 DEF Init, Limits, InLimit, ZeroCtx
<1> QED BY <1>1, <1>2, <1>3, <1>4, <1>5, <1>6, <1>7 DEF IInv

-----------------------------------------------------------------------------
\* A request without a route changes no data.
LEMMA NoMatchInv == ASSUME IInv, NEW r \in Req, NoMatch(r) PROVE IInv'
<1> USE DEF IInv
<1>1. \A q \in Req : CtxOf(q)' = CtxOf(q)
  BY DEF CtxOf, NoMatch, vars, ctxVars, bufVars, reqVars
<1>11. TypeOK'
  BY <1>1 DEF NoMatch, vars, ctxVars, bufVars, reqVars, TypeOK
<1>12. CtxExclusive' /\ PooledClean'
  BY <1>1 DEF NoMatch, vars, ctxVars, bufVars, reqVars, TypeOK, CtxExclusive, PooledClean
<1>13. Phases'
  BY <1>1 DEF NoMatch, vars, ctxVars, bufVars, reqVars, TypeOK, Phases
<1>14. BufExclusive'
  BY <1>1 DEF NoMatch, vars, ctxVars, bufVars, reqVars, TypeOK, BufExclusive, BufsOf, Refs, InRefs, Phases
<1>15. Refs'
  BY <1>1 DEF NoMatch, vars, ctxVars, bufVars, reqVars, TypeOK, Refs, InRefs, BufExclusive, BufsOf, Phases
<1>16. Isolation'
  BY <1>1 DEF NoMatch, vars, ctxVars, bufVars, reqVars, TypeOK, Isolation, OnlyOf, Refs, InRefs, BufExclusive, BufsOf, Phases
<1>17. OwnResponse'
  BY <1>1 DEF NoMatch, vars, ctxVars, bufVars, reqVars, TypeOK, OwnResponse, Refs, InRefs
<1>18. Limits'
  BY <1>1 DEF NoMatch, vars, ctxVars, bufVars, reqVars, TypeOK, Limits, InLimit, Configured, Resolved, Fits, Phases
<1> QED BY <1>11, <1>12, <1>13, <1>14, <1>15, <1>16, <1>17, <1>18

\* An aborted request only moves on to its release.
LEMMA AbortInv == ASSUME IInv, NEW r \in Req, Abort(r) PROVE IInv'
<1> USE DEF IInv
<1>1. \A q \in Req : CtxOf(q)' = CtxOf(q)
  BY DEF CtxOf, Abort, vars, ctxVars, bufVars, reqVars
<1>11. TypeOK'
  BY <1>1 DEF Abort, vars, ctxVars, bufVars, reqVars, TypeOK
<1>12. CtxExclusive' /\ PooledClean'
  BY <1>1 DEF Abort, vars, ctxVars, bufVars, reqVars, TypeOK, CtxExclusive, PooledClean
<1>13. Phases'
  BY <1>1 DEF Abort, vars, ctxVars, bufVars, reqVars, TypeOK, Phases
<1>14. BufExclusive'
  BY <1>1 DEF Abort, vars, ctxVars, bufVars, reqVars, TypeOK, BufExclusive, BufsOf, Refs, InRefs, Phases
<1>15. Refs'
  BY <1>1 DEF Abort, vars, ctxVars, bufVars, reqVars, TypeOK, Refs, InRefs, BufExclusive, BufsOf, Phases
<1>16. Isolation'
  BY <1>1 DEF Abort, vars, ctxVars, bufVars, reqVars, TypeOK, Isolation, OnlyOf, Refs, InRefs, BufExclusive, BufsOf, Phases
<1>17. OwnResponse'
  BY <1>1 DEF Abort, vars, ctxVars, bufVars, reqVars, TypeOK, OwnResponse, Refs, InRefs
<1>18. Limits'
  BY <1>1 DEF Abort, vars, ctxVars, bufVars, reqVars, TypeOK, Limits, InLimit, Configured, Resolved, Fits, Phases
<1> QED BY <1>11, <1>12, <1>13, <1>14, <1>15, <1>16, <1>17, <1>18

\* Writing the response reads a buffer that holds the request's own bytes.
LEMMA WriteInv == ASSUME IInv, NEW r \in Req, Write(r) PROVE IInv'
<1> USE DEF IInv
<1>1. \A q \in Req : CtxOf(q)' = CtxOf(q)
  BY DEF CtxOf, Write, vars, ctxVars, bufVars, reqVars
<1>11. TypeOK'
  BY <1>1 DEF Write, vars, ctxVars, bufVars, reqVars, TypeOK
<1>12. CtxExclusive' /\ PooledClean'
  BY <1>1 DEF Write, vars, ctxVars, bufVars, reqVars, TypeOK, CtxExclusive, PooledClean
<1>13. Phases'
  BY <1>1 DEF Write, vars, ctxVars, bufVars, reqVars, TypeOK, Phases
<1>14. BufExclusive'
  BY <1>1 DEF Write, vars, ctxVars, bufVars, reqVars, TypeOK, BufExclusive, BufsOf, Refs, InRefs, Phases
<1>15. Refs'
  BY <1>1 DEF Write, vars, ctxVars, bufVars, reqVars, TypeOK, Refs, InRefs, BufExclusive, BufsOf, Phases
<1>16. Isolation'
  BY <1>1 DEF Write, vars, ctxVars, bufVars, reqVars, TypeOK, Isolation, OnlyOf, Refs, InRefs, BufExclusive, BufsOf, Phases
<1>17. OwnResponse'
  BY <1>1 DEF Write, vars, ctxVars, bufVars, reqVars, TypeOK, OwnResponse, Refs, InRefs
<1>18. Limits'
  BY <1>1 DEF Write, vars, ctxVars, bufVars, reqVars, TypeOK, Limits, InLimit, Configured, Resolved, Fits, Phases
<1> QED BY <1>11, <1>12, <1>13, <1>14, <1>15, <1>16, <1>17, <1>18

\* A response is backed by bytes of its own or by the buffer the request owns.
LEMMA RespondInv == ASSUME IInv, NEW r \in Req, Respond(r) PROVE IInv'
<1> USE DEF IInv
<1>0. /\ held[r] \in Ctx /\ ctx[held[r]] \in CtxRec /\ CtxOf(r) = ctx[held[r]]
      /\ ctx[held[r]].request = r /\ ctxPool[held[r]] = 0
  BY Held DEF Respond
<1>1. \A q \in Req : CtxOf(q)' = CtxOf(q)
  BY DEF CtxOf, Respond, vars, ctxVars, bufVars, reqVars
<1>2. \A b \in {NoBuf, ctx[held[r]].body, copy[r].body} : b \in Buf \cup {NoBuf}
  BY <1>0, Typed DEF CtxRec
<1>11. TypeOK'
  BY <1>0, <1>1, <1>2 DEF Respond, vars, ctxVars, bufVars, reqVars, TypeOK
<1>12. CtxExclusive' /\ PooledClean'
  BY <1>0, <1>1, <1>2 DEF Respond, vars, ctxVars, bufVars, reqVars, TypeOK, CtxExclusive, PooledClean
<1>13. Phases'
  BY <1>0, <1>1, <1>2 DEF Respond, vars, ctxVars, bufVars, reqVars, TypeOK, Phases
<1>14. BufExclusive'
  BY <1>0, <1>1, <1>2 DEF Respond, vars, ctxVars, bufVars, reqVars, TypeOK, BufExclusive, BufsOf, Refs, InRefs, Phases
<1>15. Refs'
  BY <1>0, <1>1, <1>2 DEF Respond, vars, ctxVars, bufVars, reqVars, TypeOK, Refs, InRefs, BufExclusive, BufsOf, Phases
<1>16. Isolation'
  BY <1>0, <1>1, <1>2 DEF Respond, vars, ctxVars, bufVars, reqVars, TypeOK, Isolation, OnlyOf, Refs, InRefs, BufExclusive, BufsOf, Phases
<1>17. OwnResponse'
  BY <1>0, <1>1, <1>2 DEF Respond, vars, ctxVars, bufVars, reqVars, TypeOK, OwnResponse, Refs, InRefs
<1>18. Limits'
  BY <1>0, <1>1, <1>2 DEF Respond, vars, ctxVars, bufVars, reqVars, TypeOK, Limits, InLimit, Configured, Resolved, Fits, Phases
<1> QED BY <1>11, <1>12, <1>13, <1>14, <1>15, <1>16, <1>17, <1>18

\* A failed read hands its buffer back once, and nothing else refers to it.
LEMMA ReadFailInv == ASSUME IInv, NEW r \in Req, ReadFail(r) PROVE IInv'
<1> USE DEF IInv
<1>1. \A q \in Req : CtxOf(q)' = CtxOf(q)
  BY DEF CtxOf, ReadFail, vars, ctxVars, bufVars, reqVars
<1>2. /\ reading[r] \in Buf
      /\ bufPool[reading[r]] = 0
      /\ \A q \in Req :
            /\ CtxOf(q).owned # reading[r] /\ CtxOf(q).body # reading[r]
            /\ copy[q].owned # reading[r] /\ copy[q].body # reading[r]
            /\ body[q].from # reading[r] /\ resp[q] # reading[r]
            /\ q # r => reading[q] # reading[r]
  BY ReadingApart DEF ReadFail
<1>3. cap' \in [Buf -> Nat]
  BY <1>2 DEF ReadFail, TypeOK, Max2
<1>3a. body[r] \in [from : Buf \cup {NoBuf}, bound : Int, failed : BOOLEAN]
  BY DEF TypeOK
<1>4. [body[r] EXCEPT !.failed = TRUE] \in [from : Buf \cup {NoBuf}, bound : Int, failed : BOOLEAN]
  BY <1>3a
<1>5. body' \in [Req -> [from : Buf \cup {NoBuf}, bound : Int, failed : BOOLEAN]]
  BY <1>4 DEF ReadFail, TypeOK
<1>11. TypeOK'
  BY <1>1, <1>2, <1>3, <1>5 DEF ReadFail, vars, ctxVars, bufVars, reqVars, TypeOK
<1>12. CtxExclusive' /\ PooledClean'
  BY <1>1, <1>2, <1>3, <1>5 DEF ReadFail, vars, ctxVars, bufVars, reqVars, TypeOK, CtxExclusive, PooledClean
<1>13. Phases'
  BY <1>1, <1>2, <1>3, <1>5 DEF ReadFail, vars, ctxVars, bufVars, reqVars, TypeOK, Phases
<1>14. BufExclusive'
  BY <1>1, <1>2, <1>3, <1>5 DEF ReadFail, vars, ctxVars, bufVars, reqVars, TypeOK, BufExclusive, BufsOf, Refs, InRefs, Phases
<1>15. Refs'
  BY <1>1, <1>2, <1>3, <1>5 DEF ReadFail, vars, ctxVars, bufVars, reqVars, TypeOK, Refs, InRefs, BufExclusive, BufsOf, Phases
<1>16. Isolation'
  BY <1>1, <1>2, <1>3, <1>5 DEF ReadFail, vars, ctxVars, bufVars, reqVars, TypeOK, Isolation, OnlyOf, Refs, InRefs, BufExclusive, BufsOf, Phases
<1>17. OwnResponse'
  BY <1>1, <1>2, <1>3, <1>5 DEF ReadFail, vars, ctxVars, bufVars, reqVars, TypeOK, OwnResponse, Refs, InRefs
<1>18. Limits'
  BY <1>1, <1>2, <1>3, <1>5 DEF ReadFail, vars, ctxVars, bufVars, reqVars, TypeOK, Limits, InLimit, Configured, Resolved, Fits, Phases
<1> QED BY <1>11, <1>12, <1>13, <1>14, <1>15, <1>16, <1>17, <1>18

\* Set stores only what the request brought.
LEMMA SetInv == ASSUME IInv, NEW r \in Req, Set(r) PROVE IInv'
<1> USE DEF IInv
<1>0. /\ held[r] \in Ctx /\ ctx[held[r]] \in CtxRec /\ CtxOf(r) = ctx[held[r]]
      /\ ctx[held[r]].request = r /\ ctxPool[held[r]] = 0
  BY Held DEF Set
<1> DEFINE z == ctx[held[r]]
           n == [z EXCEPT !.store = z.store \cup {r}, !.detached = IF z.detached = NoReq THEN r ELSE z.detached]
<1>2. n \in CtxRec
  BY <1>0 DEF Set, CtxRec
<1>3. ctx' = [ctx EXCEPT ![held[r]] = n] /\ held' = held
  BY <1>0 DEF Set, TypeOK, vars, ctxVars, bufVars, reqVars
<1>4. /\ ctx' \in [Ctx -> CtxRec] /\ CtxOf(r)' = n
      /\ \A q \in Req \ {r} : CtxOf(q)' = CtxOf(q)
      /\ \A c \in Ctx : ctxPool[c] > 0 => ctx'[c] = ctx[c]
  BY <1>0, <1>2, <1>3, Updated
<1>5. LET old == CtxOf(r) IN
      /\ n.request = old.request
      /\ n.limit = old.limit
      /\ n.limited = old.limited
      /\ n.body = old.body
      /\ n.owned = old.owned
      /\ n.params = old.params
      /\ n.store = old.store \cup {r}
      /\ n.detached = IF old.detached = NoReq THEN r ELSE old.detached
  BY <1>0 DEF CtxRec
<1>6. \A q \in Req : CtxOf(q)'.owned = CtxOf(q).owned /\ CtxOf(q)'.body = CtxOf(q).body
  BY <1>4, <1>5
<1>7. \A q \in Req : BufsOf(q)' = BufsOf(q)
  BY <1>6 DEF Set, BufsOf, ctxVars, reqVars
<1> HIDE DEF n
<1>11. TypeOK'
  BY <1>0, <1>4, <1>5 DEF Set, vars, ctxVars, bufVars, reqVars, TypeOK
<1>12. CtxExclusive' /\ PooledClean'
  BY <1>0, <1>4, <1>5 DEF Set, vars, ctxVars, bufVars, reqVars, TypeOK, CtxExclusive, PooledClean
<1>13. Phases'
  BY <1>0, <1>4, <1>5 DEF Set, vars, ctxVars, bufVars, reqVars, TypeOK, Phases
<1>14. BufExclusive'
  BY <1>7 DEF Set, bufVars, BufExclusive
<1>15. Refs'
  <2>1. ASSUME NEW q \in Req PROVE InRefs(q)'
    <3>1. InRefs(q)
      BY DEF Refs
    <3>2. content' = content /\ copy' = copy /\ resp' = resp /\ body' = body /\ reading' = reading
      BY DEF Set, ctxVars, bufVars, reqVars
    <3> QED BY <1>6, <3>1, <3>2 DEF InRefs
  <2> QED BY <2>1 DEF Refs
<1>16. Isolation'
  <2>1. OnlyOf(r, CtxOf(r))'
    BY <1>4, <1>5 DEF Set, bufVars, Isolation, OnlyOf
  <2>2. \A q \in Req \ {r} : OnlyOf(q, CtxOf(q))'
    BY <1>4 DEF Set, bufVars, Isolation, OnlyOf
  <2>3. \A q \in Req : OnlyOf(q, copy[q])'
    BY DEF Set, ctxVars, bufVars, Isolation, OnlyOf
  <2> QED BY <2>1, <2>2, <2>3 DEF Isolation
<1>17. OwnResponse'
  BY <1>0, <1>4, <1>5 DEF Set, vars, ctxVars, bufVars, reqVars, TypeOK, OwnResponse, Refs, InRefs
<1>18. Limits'
  BY <1>0, <1>4, <1>5 DEF Set, vars, ctxVars, bufVars, reqVars, TypeOK, Limits, InLimit, Configured, Resolved, Fits, Phases
<1> QED BY <1>11, <1>12, <1>13, <1>14, <1>15, <1>16, <1>17, <1>18

\* The copy WithValue makes shares the buffer with its original, and with no other request.
LEMMA WithValueInv == ASSUME IInv, NEW r \in Req, WithValue(r) PROVE IInv'
<1> USE DEF IInv
<1>0. /\ held[r] \in Ctx /\ ctx[held[r]] \in CtxRec /\ CtxOf(r) = ctx[held[r]]
      /\ ctx[held[r]].request = r /\ ctxPool[held[r]] = 0
  BY Held DEF WithValue
<1> DEFINE z == ctx[held[r]]
           n == [z EXCEPT !.detached = IF z.detached = NoReq THEN r ELSE z.detached]
<1>2. n \in CtxRec
  BY <1>0 DEF WithValue, CtxRec
<1>3. ctx' = [ctx EXCEPT ![held[r]] = n] /\ held' = held
  BY <1>0 DEF WithValue, TypeOK, vars, ctxVars, bufVars, reqVars
<1>4. /\ ctx' \in [Ctx -> CtxRec] /\ CtxOf(r)' = n
      /\ \A q \in Req \ {r} : CtxOf(q)' = CtxOf(q)
      /\ \A c \in Ctx : ctxPool[c] > 0 => ctx'[c] = ctx[c]
  BY <1>0, <1>2, <1>3, Updated
<1>5. LET old == CtxOf(r) IN
      /\ n.request = old.request
      /\ n.limit = old.limit
      /\ n.limited = old.limited
      /\ n.body = old.body
      /\ n.owned = old.owned
      /\ n.params = old.params
      /\ n.store = old.store
      /\ n.detached = IF old.detached = NoReq THEN r ELSE old.detached
  BY <1>0 DEF CtxRec
<1>6. copy' = [copy EXCEPT ![r] = n]
  BY <1>0, <1>3 DEF WithValue, TypeOK
<1>7. copy[r].owned = NoBuf
  BY DEF WithValue, Phases, ZeroCtx
<1>8. \A q \in Req : CtxOf(q)'.owned = CtxOf(q).owned /\ CtxOf(q)'.body = CtxOf(q).body
  BY <1>4, <1>5
<1> HIDE DEF n
<1>11. TypeOK'
  BY <1>0, <1>2, <1>4, <1>5, <1>6 DEF WithValue, vars, ctxVars, bufVars, reqVars, TypeOK
<1>12. CtxExclusive' /\ PooledClean'
  BY <1>0, <1>2, <1>4, <1>5, <1>6 DEF WithValue, vars, ctxVars, bufVars, reqVars, TypeOK, CtxExclusive, PooledClean
<1>13. Phases'
  BY NoneAssumption, <1>0, <1>4, <1>5, <1>6 DEF WithValue, vars, ctxVars, bufVars, reqVars, TypeOK, Phases
<1>14. BufExclusive'
  BY <1>0, <1>2, <1>4, <1>5, <1>6 DEF WithValue, vars, ctxVars, bufVars, reqVars, TypeOK, BufExclusive, BufsOf, Refs, InRefs, Phases
<1>15. Refs'
  BY <1>0, <1>5, <1>6, <1>7, <1>8 DEF WithValue, bufVars, reqVars, Refs, InRefs, TypeOK
<1>16. Isolation'
  BY <1>0, <1>2, <1>4, <1>5, <1>6 DEF WithValue, vars, ctxVars, bufVars, reqVars, TypeOK, Isolation, OnlyOf, Refs, InRefs, BufExclusive, BufsOf, Phases
<1>17. OwnResponse'
  BY <1>0, <1>2, <1>4, <1>5, <1>6 DEF WithValue, vars, ctxVars, bufVars, reqVars, TypeOK, OwnResponse, Refs, InRefs
<1>18. Limits'
  <2>1. InLimit(r, CtxOf(r))' /\ InLimit(r, copy[r])'
    BY <1>0, <1>4, <1>5, <1>6 DEF TypeOK, WithValue, reqVars, Limits, InLimit, Configured
  <2>2. \A q \in Req \ {r} : InLimit(q, CtxOf(q))' /\ InLimit(q, copy[q])'
    BY <1>4, <1>6 DEF TypeOK, WithValue, reqVars, Limits, InLimit, Configured
  <2> QED BY <2>1, <2>2 DEF WithValue, reqVars, Limits, Configured, Fits
<1> QED BY <1>11, <1>12, <1>13, <1>14, <1>15, <1>16, <1>17, <1>18

\* Matching a route fills in the request's own parameters and its limit.
LEMMA MatchInv == ASSUME IInv, NEW r \in Req, Match(r) PROVE IInv'
<1> USE DEF IInv
<1>0. /\ held[r] \in Ctx /\ ctx[held[r]] \in CtxRec /\ CtxOf(r) = ctx[held[r]]
      /\ ctx[held[r]].request = r /\ ctxPool[held[r]] = 0
  BY Held DEF Match
<1> DEFINE z == ctx[held[r]]
           p(route) == IF route.params THEN z.params \cup {r} ELSE z.params
           l(route) == IF route.limit > 0 THEN route.limit ELSE z.limit
           d(route) == IF route.timeout THEN r ELSE z.detached
<1>1. PICK route \in Routes :
        /\ limit' = [limit EXCEPT ![r] = route.limit]
        /\ ctx' = [ctx EXCEPT ![held[r]] = [z EXCEPT !.params = p(route), !.limit = l(route), !.detached = d(route)]]
  <2>1. PICK route \in Routes :
          /\ limit' = [limit EXCEPT ![r] = route.limit]
          /\ ctx' = [ctx EXCEPT ![held[r]] =
                      [z EXCEPT !.params = IF route.params THEN z.params \cup {r} ELSE z.params,
                                !.limit = IF route.limit > 0 THEN route.limit ELSE z.limit,
                                !.detached = IF route.timeout THEN z.request ELSE z.detached]]
    BY DEF Match
  <2> QED BY <1>0, <2>1
<1>1a. route.limit \in Nat
  BY LimitAssumption
<1>1b. p(route) \in SUBSET Req /\ l(route) \in Int /\ d(route) \in Req \cup {NoReq}
  BY <1>0, <1>1a DEF CtxRec
<1> DEFINE n == [z EXCEPT !.params = p(route), !.limit = l(route), !.detached = d(route)]
<1> HIDE DEF p, l, d
<1>2. n \in CtxRec
  BY <1>0, <1>1b DEF CtxRec
<1>3. ctx' = [ctx EXCEPT ![held[r]] = n] /\ held' = held
  BY <1>1 DEF Match
<1>5. LET y == CtxOf(r) IN
      /\ n.request = y.request
      /\ n.limit = l(route)
      /\ n.limited = y.limited
      /\ n.body = y.body
      /\ n.owned = y.owned
      /\ n.params = p(route)
      /\ n.store = y.store
      /\ n.detached = d(route)
  BY <1>0 DEF CtxRec
<1>5a. /\ n.params \subseteq CtxOf(r).params \cup {r}
       /\ n.detached \in {CtxOf(r).detached, r}
       /\ n.limit = (IF route.limit > 0 THEN route.limit ELSE CtxOf(r).limit)
  BY <1>0, <1>5 DEF p, l, d
<1> HIDE DEF n
<1>4. /\ ctx' \in [Ctx -> CtxRec] /\ CtxOf(r)' = n
      /\ \A q \in Req \ {r} : CtxOf(q)' = CtxOf(q)
      /\ \A c \in Ctx : ctxPool[c] > 0 => ctx'[c] = ctx[c]
  BY <1>0, <1>2, <1>3, Updated
<1>6. \A q \in Req : CtxOf(q)'.owned = CtxOf(q).owned /\ CtxOf(q)'.body = CtxOf(q).body
  BY <1>4, <1>5
<1>7. \A q \in Req : BufsOf(q)' = BufsOf(q)
  BY <1>6 DEF Match, BufsOf, ctxVars, reqVars
<1>11. TypeOK'
  BY <1>0, <1>1, <1>1a, <1>4, <1>5 DEF Match, vars, ctxVars, bufVars, reqVars, TypeOK
<1>12. CtxExclusive' /\ PooledClean'
  BY <1>0, <1>1, <1>1a, <1>4, <1>5 DEF Match, vars, ctxVars, bufVars, reqVars, TypeOK, CtxExclusive, PooledClean
<1>13. Phases'
  BY <1>0, <1>1, <1>1a, <1>4, <1>5 DEF Match, vars, ctxVars, bufVars, reqVars, TypeOK, Phases
<1>14. BufExclusive'
  BY <1>7 DEF Match, bufVars, BufExclusive
<1>15. Refs'
  BY <1>6 DEF Match, ctxVars, bufVars, Refs, InRefs
<1>16. Isolation'
  <2>1. OnlyOf(r, CtxOf(r))'
    BY <1>4, <1>5, <1>5a DEF Match, bufVars, Isolation, OnlyOf
  <2>2. \A q \in Req \ {r} : OnlyOf(q, CtxOf(q))'
    BY <1>4 DEF Match, bufVars, Isolation, OnlyOf
  <2>3. \A q \in Req : OnlyOf(q, copy[q])'
    BY DEF Match, ctxVars, bufVars, Isolation, OnlyOf
  <2> QED BY <2>1, <2>2, <2>3 DEF Isolation
<1>17. OwnResponse'
  BY <1>0, <1>1, <1>1a, <1>4, <1>5 DEF Match, vars, ctxVars, bufVars, reqVars, TypeOK, OwnResponse, Refs, InRefs
<1>18. Limits'
  <2>1. CtxOf(r).limit = AppLimit /\ ~CtxOf(r).limited /\ limit[r] = 0 /\ copy[r] = ZeroCtx /\ body[r].from = NoBuf
    BY <1>0, NoneAssumption DEF Match, Limits, InLimit, Phases
  <2>2. InLimit(r, CtxOf(r))' /\ InLimit(r, copy[r])'
    BY <1>0, <1>1, <1>1a, <1>4, <1>5, <1>5a, <2>1 DEF Match, TypeOK, InLimit, ZeroCtx
  <2>3. \A q \in Req \ {r} : InLimit(q, CtxOf(q))' /\ InLimit(q, copy[q])'
    BY <1>1, <1>4 DEF TypeOK, Match, Limits, InLimit, Configured
  <2> QED BY <1>1, <2>1, <2>2, <2>3 DEF Match, TypeOK, Limits, Configured, Fits
<1> QED BY <1>11, <1>12, <1>13, <1>14, <1>15, <1>16, <1>17, <1>18

\* acquireCtx hands out a *Ctx nobody holds, clean whether pooled or new.
LEMMA AcquireInv == ASSUME IInv, NEW r \in Req, Acquire(r) PROVE IInv'
<1> USE DEF IInv
<1> DEFINE n == [ZeroCtx EXCEPT !.request = r, !.limit = AppLimit]
<1>1. PICK c \in Ctx :
        /\ \A q \in Req : held[q] # c
        /\ ctx' = [ctx EXCEPT ![c] = n]
        /\ ctxPool' = [ctxPool EXCEPT ![c] = 0]
        /\ held' = [held EXCEPT ![r] = c]
  <2>1. PICK c \in Ctx :
          /\ \/ /\ ctxPool[c] > 0
                /\ ctxPool' = [ctxPool EXCEPT ![c] = @ - 1]
                /\ ctx' = [ctx EXCEPT ![c].request = r, ![c].limit = AppLimit]
             \/ /\ ctxPool[c] = 0
                /\ \A q \in Req : held[q] # c
                /\ ctx' = [ctx EXCEPT ![c] = n]
                /\ UNCHANGED ctxPool
          /\ held' = [held EXCEPT ![r] = c]
    BY DEF Acquire
  <2>2. CASE ctxPool[c] > 0
    <3>1. ctx[c] = ZeroCtx /\ \A q \in Req : held[q] # c
      BY <2>2 DEF PooledClean, CtxExclusive
    <3>2. ctxPool[c] = 1
      BY <2>2 DEF CtxExclusive, TypeOK
    <3>3. ctxPool' = [ctxPool EXCEPT ![c] = 0]
      BY <2>1, <2>2, <3>2
    <3>4. ctx' = [ctx EXCEPT ![c] = n]
      BY <2>1, <2>2, <3>1
    <3> QED BY <2>1, <3>1, <3>3, <3>4
  <2>3. CASE ~(ctxPool[c] > 0)
    <3>1. /\ ctxPool[c] = 0 /\ ctxPool' = ctxPool
          /\ \A q \in Req : held[q] # c
          /\ ctx' = [ctx EXCEPT ![c] = n]
      BY <2>1, <2>3
    <3>2. ctxPool' = [ctxPool EXCEPT ![c] = 0]
      BY <3>1 DEF TypeOK
    <3> QED BY <2>1, <3>1, <3>2
  <2> QED BY <2>2, <2>3
<1>2. n \in CtxRec
  BY LimitAssumption, Typed DEF CtxRec
<1>3. /\ n.request = r /\ n.limit = AppLimit /\ n.limited = FALSE /\ n.body = NoBuf /\ n.owned = NoBuf
      /\ n.params = {} /\ n.store = {} /\ n.detached = NoReq
  BY DEF ZeroCtx
<1> HIDE DEF n
<1>4. ctx' \in [Ctx -> CtxRec] /\ CtxOf(r)' = n
  BY NoneAssumption, <1>1, <1>2 DEF TypeOK, CtxOf
<1>5. \A q \in Req \ {r} : CtxOf(q)' = CtxOf(q)
  BY <1>1 DEF TypeOK, CtxOf
<1>6. CtxOf(r) = ZeroCtx /\ copy[r] = ZeroCtx /\ body[r].from = NoBuf /\ limit[r] = 0 /\ resp[r] = NoBuf
  BY DEF Acquire, Phases, CtxOf
<1>7. \A q \in Req : CtxOf(q)'.owned = CtxOf(q).owned /\ CtxOf(q)'.body = CtxOf(q).body
  BY <1>3, <1>4, <1>5, <1>6 DEF ZeroCtx
<1>8. \A q \in Req : BufsOf(q)' = BufsOf(q)
  BY <1>7 DEF Acquire, BufsOf, reqVars
<1>11. TypeOK'
  BY <1>1, <1>3, <1>4, <1>5, <1>6 DEF Acquire, vars, ctxVars, bufVars, reqVars, TypeOK
<1>12. CtxExclusive' /\ PooledClean'
  BY <1>1, <1>3, <1>4, <1>5, <1>6 DEF Acquire, vars, ctxVars, bufVars, reqVars, TypeOK, CtxExclusive, PooledClean
<1>13. Phases'
  BY NoneAssumption, <1>1, <1>3, <1>4, <1>5, <1>6 DEF Acquire, reqVars, bufVars, TypeOK, Phases
<1>14. BufExclusive'
  BY <1>8 DEF Acquire, bufVars, BufExclusive
<1>15. Refs'
  <2>1. ASSUME NEW q \in Req PROVE InRefs(q)'
    <3>1. InRefs(q)
      BY DEF Refs
    <3>2. content' = content /\ copy' = copy /\ resp' = resp /\ body' = body /\ reading' = reading
      BY DEF Acquire, ctxVars, bufVars, reqVars
    <3> QED BY <1>7, <3>1, <3>2 DEF InRefs
  <2> QED BY <2>1 DEF Refs
<1>16. Isolation'
  <2>1. OnlyOf(r, CtxOf(r))'
    BY <1>3, <1>4 DEF OnlyOf
  <2>2. \A q \in Req \ {r} : OnlyOf(q, CtxOf(q))'
    BY <1>5 DEF Acquire, bufVars, Isolation, OnlyOf
  <2>3. \A q \in Req : OnlyOf(q, copy[q])'
    BY DEF Acquire, bufVars, Isolation, OnlyOf
  <2> QED BY <2>1, <2>2, <2>3 DEF Isolation
<1>17. OwnResponse'
  BY <1>1, <1>3, <1>4, <1>5, <1>6 DEF Acquire, vars, ctxVars, bufVars, reqVars, TypeOK, OwnResponse, Refs, InRefs
<1>18. Limits'
  <2>1. InLimit(r, CtxOf(r))' /\ InLimit(r, copy[r])'
    BY <1>3, <1>4, <1>6 DEF Acquire, reqVars, InLimit, ZeroCtx
  <2>2. \A q \in Req \ {r} : InLimit(q, CtxOf(q))' /\ InLimit(q, copy[q])'
    BY <1>5 DEF Acquire, reqVars, Limits, InLimit, Configured
  <2> QED BY <2>1, <2>2 DEF Acquire, reqVars, Limits, Configured, Fits
<1> QED BY <1>11, <1>12, <1>13, <1>14, <1>15, <1>16, <1>17, <1>18

\* A read of the *Ctx takes a buffer nobody refers to and bounds the body.
LEMMA ReadStartInv == ASSUME IInv, NEW r \in Req, ReadStart(r) PROVE IInv'
<1> USE DEF IInv
<1>0. /\ held[r] \in Ctx /\ ctx[held[r]] \in CtxRec /\ CtxOf(r) = ctx[held[r]]
      /\ ctx[held[r]].request = r /\ ctxPool[held[r]] = 0
  BY Held DEF ReadStart
<1> DEFINE z == ctx[held[r]]
           n == [z EXCEPT !.limited = TRUE]
<1>2. n \in CtxRec
  BY <1>0 DEF ReadStart, CtxRec, ReadBegin
<1>3. ctx' = [ctx EXCEPT ![held[r]] = n] /\ held' = held
  BY <1>0 DEF ReadStart, TypeOK, vars, ctxVars, bufVars, reqVars, ReadBegin
<1>4. /\ ctx' \in [Ctx -> CtxRec] /\ CtxOf(r)' = n
      /\ \A q \in Req \ {r} : CtxOf(q)' = CtxOf(q)
      /\ \A c \in Ctx : ctxPool[c] > 0 => ctx'[c] = ctx[c]
  BY <1>0, <1>2, <1>3, Updated
<1>5. LET old == CtxOf(r) IN
      /\ n.request = old.request
      /\ n.limit = old.limit
      /\ n.limited = TRUE
      /\ n.body = old.body
      /\ n.owned = old.owned
      /\ n.params = old.params
      /\ n.store = old.store
      /\ n.detached = old.detached
  BY <1>0 DEF CtxRec
<1> HIDE DEF n
<1>6. PICK b \in Buf :
        /\ bufPool' = [bufPool EXCEPT ![b] = 0]
        /\ cap' \in [Buf -> Nat]
        /\ reading' = [reading EXCEPT ![r] = b]
        /\ content' = [content EXCEPT ![b] = NoReq]
        /\ \A q \in Req :
              /\ CtxOf(q).owned # b /\ CtxOf(q).body # b
              /\ copy[q].owned # b /\ copy[q].body # b
              /\ body[q].from # b /\ resp[q] # b /\ reading[q] # b
  BY BufferTaken DEF ReadStart
<1>6a. /\ Bounded(r, ctx[held[r]]) \in Int
       /\ body' = [body EXCEPT ![r].bound = Bounded(r, ctx[held[r]])]
       /\ UNCHANGED <<size, limit, resp, wire, ctxPool, held>>
  BY LimitAssumption, <1>0, Typed DEF ReadStart, ReadBegin, Bounded, Resolved, Unbounded, TypeOK, CtxRec
<1>6b. /\ body' \in [Req -> [from : Buf \cup {NoBuf}, bound : Int, failed : BOOLEAN]]
       /\ body'[r].from = body[r].from /\ body'[r].bound = Bounded(r, ctx[held[r]])
       /\ \A q \in Req \ {r} : body'[q] = body[q]
  BY <1>6a DEF TypeOK
<1>7. \A q \in Req : CtxOf(q)'.owned = CtxOf(q).owned /\ CtxOf(q)'.body = CtxOf(q).body
  BY <1>4, <1>5
<1>8. copy' = copy
  BY DEF ReadStart
<1>11. TypeOK'
  BY <1>0, <1>2, <1>4, <1>6, <1>6a, <1>6b DEF ReadStart, TypeOK
<1>12. CtxExclusive' /\ PooledClean'
  BY <1>0, <1>4, <1>5, <1>6, <1>6a, <1>6b, <1>8 DEF ReadStart, vars, ctxVars, bufVars, reqVars, TypeOK, CtxExclusive, PooledClean
<1>13. Phases'
  BY <1>0, <1>4, <1>5, <1>6, <1>6a, <1>6b, <1>8 DEF ReadStart, vars, ctxVars, bufVars, reqVars, TypeOK, Phases
<1>14. BufExclusive'
  <2>1. \A q \in Req \ {r} : BufsOf(q)' = BufsOf(q)
    BY <1>4, <1>6, <1>7 DEF ReadStart, BufsOf, TypeOK
  <2>2. BufsOf(r)' \subseteq BufsOf(r) \cup {b}
    BY <1>4, <1>6, <1>7 DEF ReadStart, BufsOf, TypeOK
  <2>3. \A q \in Req : b \notin BufsOf(q)
    BY <1>6 DEF BufsOf
  <2> QED BY <1>6, <2>1, <2>2, <2>3 DEF TypeOK, BufExclusive
<1>15. Refs'
  BY NoneAssumption, <1>4, <1>6, <1>6a, <1>6b, <1>7 DEF ReadStart, TypeOK, Refs, InRefs
<1>16. Isolation'
  <2>1. OnlyOf(r, CtxOf(r))' /\ OnlyOf(r, copy[r])'
    BY <1>4, <1>5, <1>6, <1>8 DEF ReadStart, TypeOK, Isolation, OnlyOf
  <2>2. \A q \in Req \ {r} : OnlyOf(q, CtxOf(q))' /\ OnlyOf(q, copy[q])'
    BY <1>4, <1>6, <1>8 DEF ReadStart, TypeOK, Isolation, OnlyOf
  <2> QED BY <2>1, <2>2 DEF Isolation
<1>17. OwnResponse'
  BY <1>6a DEF OwnResponse
<1>18. Limits'
  <2>1. ctx[held[r]].limit = (IF limit[r] > 0 THEN limit[r] ELSE AppLimit)
    BY NoneAssumption, <1>0 DEF ReadStart, Limits, InLimit
  <2>2. limit[r] \in Int /\ body[r].bound \in Int /\ Configured(r) \in Int
    BY LimitAssumption DEF TypeOK, Configured, Resolved
  <2>3. body[r].from = NoBuf /\ Configured(r) >= 0 => Bounded(r, ctx[held[r]]) # Unbounded /\ Bounded(r, ctx[held[r]]) <= Configured(r)
    BY <1>0, <2>1, <2>2 DEF Bounded, Configured, Limits, InLimit, Unbounded
  <2>4. Configured(r)' = Configured(r) /\ \A q \in Req : Configured(q)' = Configured(q)
    BY <1>6a DEF Configured
  <2>5. InLimit(r, CtxOf(r))' /\ InLimit(r, copy[r])'
    BY <1>0, <1>4, <1>5, <1>6a, <1>6b, <1>8, <2>1, <2>2, <2>3, <2>4 DEF Limits, InLimit
  <2>6. \A q \in Req \ {r} : InLimit(q, CtxOf(q))' /\ InLimit(q, copy[q])'
    BY <1>4, <1>6a, <1>6b, <1>8, <2>4 DEF Limits, InLimit
  <2> QED BY <1>6a, <1>6b, <2>4, <2>5, <2>6 DEF Limits, Fits
<1> QED BY <1>11, <1>12, <1>13, <1>14, <1>15, <1>16, <1>17, <1>18

\* The same for a read through the WithValue copy.
LEMMA ReadStartCopyInv == ASSUME IInv, NEW r \in Req, ReadStartCopy(r) PROVE IInv'
<1> USE DEF IInv
<1>0. CtxOf(r) \in CtxRec /\ copy[r] \in CtxRec /\ copy[r].request = r
  BY Typed DEF ReadStartCopy, Isolation, OnlyOf
<1> DEFINE n == [copy[r] EXCEPT !.limited = TRUE]
<1>2. n \in CtxRec
  BY <1>0 DEF CtxRec
<1>3. copy' = [copy EXCEPT ![r] = n] /\ held' = held /\ ctx' = ctx /\ ctxPool' = ctxPool
  BY DEF ReadStartCopy, ReadBegin, TypeOK
<1>4. \A q \in Req : CtxOf(q)' = CtxOf(q)
  BY <1>3 DEF CtxOf
<1>5. LET z == copy[r] IN
      /\ n.request = z.request
      /\ n.limit = z.limit
      /\ n.limited = TRUE
      /\ n.body = z.body
      /\ n.owned = z.owned
      /\ n.params = z.params
      /\ n.store = z.store
      /\ n.detached = z.detached
  BY <1>0 DEF CtxRec
<1> HIDE DEF n
<1>6. PICK b \in Buf :
        /\ bufPool' = [bufPool EXCEPT ![b] = 0]
        /\ cap' \in [Buf -> Nat]
        /\ reading' = [reading EXCEPT ![r] = b]
        /\ content' = [content EXCEPT ![b] = NoReq]
        /\ \A q \in Req :
              /\ CtxOf(q).owned # b /\ CtxOf(q).body # b
              /\ copy[q].owned # b /\ copy[q].body # b
              /\ body[q].from # b /\ resp[q] # b /\ reading[q] # b
  BY BufferTaken DEF ReadStartCopy
<1>6a. /\ Bounded(r, copy[r]) \in Int
       /\ body' = [body EXCEPT ![r].bound = Bounded(r, copy[r])]
       /\ UNCHANGED <<size, limit, resp, wire, ctxPool, held>>
  BY LimitAssumption, <1>0, Typed DEF ReadStartCopy, ReadBegin, Bounded, Resolved, Unbounded, TypeOK, CtxRec
<1>6b. /\ body' \in [Req -> [from : Buf \cup {NoBuf}, bound : Int, failed : BOOLEAN]]
       /\ body'[r].from = body[r].from /\ body'[r].bound = Bounded(r, copy[r])
       /\ \A q \in Req \ {r} : body'[q] = body[q]
  BY <1>6a DEF TypeOK
<1>7. copy' \in [Req -> CtxRec] /\ copy'[r] = n /\ \A q \in Req \ {r} : copy'[q] = copy[q]
  BY <1>2, <1>3 DEF TypeOK
<1>11. TypeOK'
  BY <1>3, <1>4, <1>6, <1>6a, <1>6b, <1>7 DEF ReadStartCopy, TypeOK
<1>12. CtxExclusive' /\ PooledClean'
  BY <1>0, <1>3, <1>4, <1>5, <1>6, <1>6a, <1>6b, <1>7 DEF ReadStartCopy, vars, ctxVars, bufVars, reqVars, TypeOK, CtxExclusive, PooledClean
<1>13. Phases'
  BY NoneAssumption, <1>0, <1>3, <1>4, <1>5, <1>6, <1>6a, <1>6b, <1>7 DEF ReadStartCopy, TypeOK, Phases
<1>14. BufExclusive'
  <2>1. \A q \in Req \ {r} : BufsOf(q)' = BufsOf(q)
    BY <1>4, <1>5, <1>6, <1>7 DEF ReadStartCopy, BufsOf, TypeOK
  <2>2. BufsOf(r)' \subseteq BufsOf(r) \cup {b}
    BY <1>4, <1>5, <1>6, <1>7 DEF ReadStartCopy, BufsOf, TypeOK
  <2>3. \A q \in Req : b \notin BufsOf(q)
    BY <1>6 DEF BufsOf
  <2> QED BY <1>6, <2>1, <2>2, <2>3 DEF TypeOK, BufExclusive
<1>15. Refs'
  BY NoneAssumption, <1>4, <1>5, <1>6, <1>6a, <1>6b, <1>7 DEF ReadStartCopy, TypeOK, Refs, InRefs
<1>16. Isolation'
  <2>1. OnlyOf(r, CtxOf(r))' /\ OnlyOf(r, copy[r])'
    BY <1>4, <1>5, <1>6, <1>7 DEF ReadStartCopy, TypeOK, Isolation, OnlyOf
  <2>2. \A q \in Req \ {r} : OnlyOf(q, CtxOf(q))' /\ OnlyOf(q, copy[q])'
    BY <1>4, <1>6, <1>7 DEF ReadStartCopy, TypeOK, Isolation, OnlyOf
  <2> QED BY <2>1, <2>2 DEF Isolation
<1>17. OwnResponse'
  BY <1>6a DEF OwnResponse
<1>18. Limits'
  <2>1. copy[r].limit = (IF limit[r] > 0 THEN limit[r] ELSE AppLimit)
    BY NoneAssumption, <1>0 DEF ReadStartCopy, Limits, InLimit
  <2>2. limit[r] \in Int /\ body[r].bound \in Int /\ Configured(r) \in Int
    BY LimitAssumption DEF TypeOK, Configured, Resolved
  <2>3. body[r].from = NoBuf /\ Configured(r) >= 0 => Bounded(r, copy[r]) # Unbounded /\ Bounded(r, copy[r]) <= Configured(r)
    BY <1>0, <2>1, <2>2 DEF Bounded, Configured, Limits, InLimit, Unbounded
  <2>4. Configured(r)' = Configured(r) /\ \A q \in Req : Configured(q)' = Configured(q)
    BY <1>6a DEF Configured
  <2>5. InLimit(r, CtxOf(r))' /\ InLimit(r, copy[r])'
    BY <1>0, <1>4, <1>5, <1>6a, <1>6b, <1>7, <2>1, <2>2, <2>3, <2>4 DEF Limits, InLimit
  <2>6. \A q \in Req \ {r} : InLimit(q, CtxOf(q))' /\ InLimit(q, copy[q])'
    BY <1>4, <1>6a, <1>6b, <1>7, <2>4 DEF Limits, InLimit
  <2> QED BY <1>6a, <1>6b, <2>4, <2>5, <2>6 DEF Limits, Fits
<1> QED BY <1>11, <1>12, <1>13, <1>14, <1>15, <1>16, <1>17, <1>18

\* A finished read gives its buffer to the *Ctx or the copy, with the request's bytes inside the limit.
LEMMA ReadDoneInv == ASSUME IInv, NEW r \in Req, ReadDone(r) PROVE IInv'
<1> USE DEF IInv
<1>a. PICK b \in Buf : b = reading[r]
  BY ReadingApart DEF ReadDone
<1> DEFINE n(z) == [z EXCEPT !.owned = b, !.body = b]
<1>0. /\ held[r] \in Ctx /\ ctx[held[r]] \in CtxRec /\ CtxOf(r) = ctx[held[r]]
      /\ ctx[held[r]].request = r /\ ctxPool[held[r]] = 0 /\ copy[r] \in CtxRec
  BY Held, Typed DEF ReadDone
<1>1. /\ b \in Buf
      /\ bufPool[b] = 0
      /\ \A q \in Req :
            /\ CtxOf(q).owned # b /\ CtxOf(q).body # b
            /\ copy[q].owned # b /\ copy[q].body # b
            /\ body[q].from # b /\ resp[q] # b
            /\ q # r => reading[q] # b
  BY <1>a, ReadingApart DEF ReadDone
<1>2. /\ content' = [content EXCEPT ![b] = r]
      /\ cap' \in [Buf -> Nat]
      /\ body' = [body EXCEPT ![r] = [from |-> b, bound |-> Unbounded, failed |-> FALSE]]
      /\ reading' = [reading EXCEPT ![r] = NoBuf]
      /\ pc' = [pc EXCEPT ![r] = "running"]
      /\ UNCHANGED <<held, ctxPool, bufPool, size, limit, resp, wire>>
  <2>1. size[r] \in Nat /\ cap[b] \in Nat
    BY LimitAssumption, <1>1 DEF TypeOK
  <2>2. cap' \in [Buf -> Nat]
    BY <1>a, <2>1 DEF ReadDone, TypeOK, Max2
  <2>3. (IF body[r].from = NoBuf THEN r ELSE content[body[r].from]) = r
    BY DEF Refs, InRefs
  <2> QED BY <1>a, <2>2, <2>3 DEF ReadDone
<1>3. /\ \A z \in CtxRec : n(z) \in CtxRec
      /\ \A z \in CtxRec : n(z).owned = b /\ n(z).body = b /\ n(z).request = z.request /\ n(z).limit = z.limit
                           /\ n(z).limited = z.limited /\ n(z).params = z.params /\ n(z).store = z.store
                           /\ n(z).detached = z.detached
  BY <1>1 DEF CtxRec
<1> HIDE DEF n
<1>4. Fits(r)
  <2>1. CASE body[r].from = NoBuf
    <3>1. CtxOf(r).limited \/ copy[r].limited
      BY DEF ReadDone, Phases
    <3>2. Configured(r) >= 0 => body[r].bound # Unbounded /\ body[r].bound <= Configured(r)
      BY <2>1, <3>1 DEF Limits, InLimit
    <3>3. body[r].bound \in Int
      BY DEF TypeOK
    <3>4. size[r] \in Nat /\ Configured(r) \in Int
      BY Numbers
    <3> QED BY <3>2, <3>3, <3>4 DEF ReadDone, Fits
  <2>2. CASE body[r].from # NoBuf
    BY <2>2 DEF Limits
  <2> QED BY <2>1, <2>2
<1>5. \/ /\ ctx' \in [Ctx -> CtxRec] /\ CtxOf(r)' = n(CtxOf(r)) /\ copy' = copy
         /\ \A c \in Ctx : ctxPool[c] > 0 => ctx'[c] = ctx[c]
         /\ \A q \in Req \ {r} : CtxOf(q)' = CtxOf(q)
      \/ /\ copy' \in [Req -> CtxRec] /\ ctx' = ctx /\ copy'[r] = n(copy[r]) /\ copy[r].request = r
         /\ \A q \in Req : CtxOf(q)' = CtxOf(q)
         /\ \A q \in Req \ {r} : copy'[q] = copy[q]
  <2>1. CASE pc[r] = "reading"
    <3>1. ctx' = [ctx EXCEPT ![held[r]] = n(CtxOf(r))] /\ copy' = copy
      BY <1>0, <1>a, <2>1 DEF ReadDone, TypeOK, n
    <3>2. n(CtxOf(r)) \in CtxRec
      BY <1>0, <1>3
    <3> QED BY <1>0, <1>2, <3>1, <3>2, Updated
  <2>2. CASE pc[r] = "readingCopy"
    <3>1. copy' = [copy EXCEPT ![r] = n(copy[r])] /\ ctx' = ctx
      BY <1>a, <2>2 DEF ReadDone, TypeOK, n
    <3>2. copy[r].request = r
      BY <2>2 DEF Phases
    <3> QED BY <1>0, <1>2, <1>3, <3>1, <3>2 DEF TypeOK, CtxOf
  <2> QED BY <2>1, <2>2 DEF ReadDone
<1>6. \A q \in Req \ {r} : CtxOf(q)' = CtxOf(q) /\ copy'[q] = copy[q]
  BY <1>5
<1>7. \/ CtxOf(r)' = n(CtxOf(r)) /\ copy'[r] = copy[r]
      \/ CtxOf(r)' = CtxOf(r) /\ copy'[r] = n(copy[r]) /\ copy[r].request = r
  BY <1>5
<1>8. CtxOf(r) \in CtxRec /\ copy[r] \in CtxRec
  BY Typed
<1>9. CtxOf(r).body \in Buf \cup {NoBuf} /\ copy[r].body \in Buf \cup {NoBuf}
  BY <1>8 DEF CtxRec
<1>10. body'[r].from = b /\ reading'[r] = NoBuf /\ resp'[r] = NoBuf /\ content'[b] = r
  <2>1. resp[r] = NoBuf
    BY DEF Phases, ReadDone
  <2>2. body' = [body EXCEPT ![r] = [from |-> b, bound |-> Unbounded, failed |-> FALSE]] /\ body \in [Req -> [from : Buf \cup {NoBuf}, bound : Int, failed : BOOLEAN]]
    BY <1>2 DEF TypeOK
  <2>3. body'[r] = [from |-> b, bound |-> Unbounded, failed |-> FALSE]
    BY <2>2
  <2> QED BY <1>1, <1>2, <2>1, <2>3 DEF TypeOK
<1>11. TypeOK'
  BY <1>1, <1>2, <1>5 DEF TypeOK, Unbounded
<1>12. CtxExclusive' /\ PooledClean'
  BY <1>2, <1>5 DEF CtxExclusive, PooledClean, TypeOK
<1>13. Phases'
  BY NoneAssumption, <1>1, <1>2, <1>3, <1>6, <1>7, <1>8 DEF Phases, TypeOK, ReadDone
<1>14. BufExclusive'
  <2>1. \A q \in Req \ {r} : BufsOf(q)' = BufsOf(q)
    BY <1>2, <1>6 DEF BufsOf, TypeOK
  <2>2. BufsOf(r)' \subseteq BufsOf(r) \cup {b}
    BY <1>2, <1>3, <1>7, <1>8 DEF BufsOf, TypeOK
  <2>3. \A q \in Req \ {r} : b \notin BufsOf(q)
    BY <1>1 DEF BufsOf
  <2> QED BY <1>1, <1>2, <2>1, <2>2, <2>3 DEF BufExclusive
<1>15. Refs'
  <2>1. \A x \in Buf : x # b => content'[x] = content[x]
    BY <1>2 DEF TypeOK
  <2>2. \A q \in Req : CtxOf(q) \in CtxRec /\ copy[q] \in CtxRec
    BY Typed
  <2>3. \A q \in Req : /\ CtxOf(q).owned \in Buf \cup {NoBuf} /\ copy[q].owned \in Buf \cup {NoBuf}
                       /\ body[q].from \in Buf \cup {NoBuf} /\ resp[q] \in Buf \cup {NoBuf}
    BY <2>2 DEF CtxRec, TypeOK
  <2>4. \A q \in Req \ {r} : body'[q] = body[q] /\ reading'[q] = reading[q] /\ resp'[q] = resp[q]
    BY <1>2 DEF TypeOK
  <2>5. \A q \in Req \ {r} : InRefs(q)'
    BY <1>1, <1>6, <2>1, <2>3, <2>4 DEF Refs, InRefs
  <2>6. InRefs(r)'
    BY NoneAssumption, <1>1, <1>3, <1>7, <1>8, <1>10, <2>1, <2>3 DEF Refs, InRefs
  <2> QED BY <2>5, <2>6 DEF Refs
<1>16. Isolation'
  <2>1. OnlyOf(r, CtxOf(r))' /\ OnlyOf(r, copy[r])'
    <3>1. \A x \in Buf : x # b => content'[x] = content[x]
      BY <1>2 DEF TypeOK
    <3>2. OnlyOf(r, CtxOf(r)) /\ OnlyOf(r, copy[r])
      BY DEF Isolation
    <3>3. \A z \in CtxRec : OnlyOf(r, z) => /\ z.request \in {NoReq, r} /\ z.params \subseteq {r} /\ z.store \subseteq {r}
                                            /\ z.detached \in {NoReq, r}
      BY DEF OnlyOf
    <3>4. \A z \in CtxRec : OnlyOf(r, z) => OnlyOf(r, n(z))'
      BY <1>1, <1>3, <1>10, <3>3 DEF OnlyOf
    <3>5. CtxOf(r).body # b /\ copy[r].body # b
      BY <1>1
    <3>6. (CtxOf(r)' = CtxOf(r) => OnlyOf(r, CtxOf(r))') /\ (copy'[r] = copy[r] => OnlyOf(r, copy[r])')
      BY <1>9, <3>1, <3>2, <3>5 DEF OnlyOf
    <3> QED BY <1>7, <1>8, <3>2, <3>4, <3>6 DEF OnlyOf
  <2>2. \A q \in Req \ {r} : OnlyOf(q, CtxOf(q))' /\ OnlyOf(q, copy[q])'
    BY <1>1, <1>2, <1>6 DEF Isolation, OnlyOf, TypeOK
  <2> QED BY <2>1, <2>2 DEF Isolation
<1>17. OwnResponse'
  BY <1>2 DEF OwnResponse
<1>18. Limits'
  <2>1. InLimit(r, CtxOf(r))' /\ InLimit(r, copy[r])'
    BY NoneAssumption, <1>1, <1>2, <1>3, <1>7, <1>8, <1>10 DEF Limits, InLimit
  <2>2. \A q \in Req \ {r} : InLimit(q, CtxOf(q))' /\ InLimit(q, copy[q])'
    BY <1>2, <1>6 DEF Limits, InLimit, Configured, TypeOK
  <2> QED BY <1>2, <1>4, <2>1, <2>2 DEF Limits, Configured, Fits, TypeOK
<1> QED BY <1>11, <1>12, <1>13, <1>14, <1>15, <1>16, <1>17, <1>18


\* releaseCtx leaves a clean *Ctx in the pool, once, and its buffer at most once.
LEMMA ReleaseInv == ASSUME IInv, NEW r \in Req, Release(r) PROVE IInv'
<1> USE DEF IInv
<1>a. PICK c \in Ctx : c = held[r]
  BY Held DEF Release
<1>0. /\ ctx[c] \in CtxRec /\ CtxOf(r) = ctx[c] /\ ctxPool[c] = 0 /\ ZeroCtx \in CtxRec
      /\ \A q \in Req \ {r} : held[q] # c
  BY <1>a, Held, Typed DEF Release, CtxExclusive
<1>1. /\ ctx' = [ctx EXCEPT ![c] = ZeroCtx]
      /\ ctxPool' = [ctxPool EXCEPT ![c] = @ + 1]
      /\ held' = [held EXCEPT ![r] = NoCtx]
      /\ copy' = [copy EXCEPT ![r] = ZeroCtx]
      /\ resp' = [resp EXCEPT ![r] = NoBuf]
      /\ body' = [body EXCEPT ![r] = [from |-> NoBuf, bound |-> Unbounded, failed |-> FALSE]]
      /\ pc' = [pc EXCEPT ![r] = "done"]
      /\ UNCHANGED <<content, cap, size, limit, reading, wire>>
  BY <1>a DEF Release, Wiped
<1>2. /\ bufPool' \in [Buf -> Nat]
      /\ \A b \in Buf : \/ bufPool'[b] = bufPool[b]
                        \/ b = CtxOf(r).owned /\ bufPool'[b] = bufPool[b] + 1
  <2>1. bufPool' = (IF ctx[c].owned # NoBuf /\ cap[ctx[c].owned] <= PoolCap
                    THEN [bufPool EXCEPT ![ctx[c].owned] = @ + 1] ELSE bufPool)
    BY <1>a DEF Release, BufPoolAfterWipe
  <2>2. ctx[c].owned \in Buf \cup {NoBuf} /\ bufPool \in [Buf -> Nat]
    BY <1>0 DEF CtxRec, TypeOK
  <2> QED BY <1>0, <2>1, <2>2
<1>3. /\ CtxOf(r)' = ZeroCtx /\ copy'[r] = ZeroCtx /\ held'[r] = NoCtx /\ pc'[r] = "done"
      /\ resp'[r] = NoBuf /\ body'[r] = [from |-> NoBuf, bound |-> Unbounded, failed |-> FALSE]
      /\ reading'[r] = NoBuf
  BY <1>1 DEF TypeOK, CtxOf, Release, Phases
<1>4. \A q \in Req \ {r} : /\ CtxOf(q)' = CtxOf(q) /\ copy'[q] = copy[q] /\ held'[q] = held[q] /\ pc'[q] = pc[q]
                           /\ resp'[q] = resp[q] /\ body'[q] = body[q] /\ reading'[q] = reading[q]
  BY <1>0, <1>1 DEF TypeOK, CtxOf
<1>5. /\ ZeroCtx.request = NoReq /\ ZeroCtx.body = NoBuf /\ ZeroCtx.owned = NoBuf /\ ZeroCtx.params = {}
      /\ ZeroCtx.store = {} /\ ZeroCtx.detached = NoReq /\ ZeroCtx.limited = FALSE
  BY DEF ZeroCtx
<1>11. TypeOK'
  BY <1>0, <1>1, <1>2 DEF TypeOK, Unbounded
<1>12. CtxExclusive' /\ PooledClean'
  BY NoneAssumption, <1>0, <1>1 DEF TypeOK, CtxExclusive, PooledClean
<1>13. Phases'
  BY <1>1, <1>3, <1>4, <1>5 DEF Phases
<1>14. BufExclusive'
  <2>1. \A q \in Req \ {r} : BufsOf(q)' = BufsOf(q)
    BY <1>4 DEF BufsOf
  <2>2. BufsOf(r)' = {}
    BY <1>3, <1>5 DEF BufsOf
  <2>3. \A b \in Buf : b = CtxOf(r).owned => b \in BufsOf(r)
    BY NoneAssumption DEF BufsOf
  <2>4. \A b \in Buf : bufPool[b] \in Nat
    BY DEF TypeOK
  <2> QED BY <1>2, <2>1, <2>2, <2>3, <2>4 DEF BufExclusive
<1>15. Refs'
  <2>1. InRefs(r)'
    BY <1>3, <1>5 DEF InRefs
  <2>2. ASSUME NEW q \in Req \ {r} PROVE InRefs(q)'
    <3>1. InRefs(q)
      BY DEF Refs
    <3>2. content' = content /\ CtxOf(q)' = CtxOf(q) /\ copy'[q] = copy[q] /\ resp'[q] = resp[q]
          /\ body'[q] = body[q] /\ reading'[q] = reading[q]
      BY <1>1, <1>4
    <3> QED BY <3>1, <3>2 DEF InRefs
  <2> QED BY <2>1, <2>2 DEF Refs
<1>16. Isolation'
  BY <1>1, <1>3, <1>4, <1>5 DEF Isolation, OnlyOf
<1>17. OwnResponse'
  BY <1>1 DEF OwnResponse
<1>18. Limits'
  <2>1. InLimit(r, CtxOf(r))' /\ InLimit(r, copy[r])'
    BY <1>3, <1>5 DEF InLimit
  <2>2. \A q \in Req \ {r} : InLimit(q, CtxOf(q))' /\ InLimit(q, copy[q])'
    BY <1>1, <1>4 DEF Limits, InLimit, Configured
  <2> QED BY <1>1, <1>3, <1>4, <2>1, <2>2 DEF Limits, Configured, Fits
<1> QED BY <1>11, <1>12, <1>13, <1>14, <1>15, <1>16, <1>17, <1>18

-----------------------------------------------------------------------------
(* A collection only takes objects out of the pools.                          *)

\* The collector may take a *Ctx out of its pool.
LEMMA DropCtxInv == ASSUME IInv, NEW c \in Ctx, DropCtx(c) PROVE IInv'
<1> USE DEF IInv
<1>1. \A q \in Req : CtxOf(q)' = CtxOf(q) /\ BufsOf(q)' = BufsOf(q)
  BY DEF DropCtx, CtxOf, BufsOf, reqVars
<1>2. ctxPool' \in [Ctx -> Nat] /\ \A d \in Ctx : ctxPool'[d] <= ctxPool[d]
  BY DEF DropCtx, TypeOK
<1>3. TypeOK'
  BY <1>2 DEF DropCtx, bufVars, reqVars, TypeOK
<1>4. CtxExclusive' /\ PooledClean'
  <2>1. \A d \in Ctx : ctxPool[d] \in Nat /\ ctxPool'[d] \in Nat
    BY <1>2 DEF TypeOK
  <2> QED BY <1>2, <2>1 DEF DropCtx, CtxExclusive, PooledClean
<1>5. Phases' /\ Refs'
  <2>1. Phases'
    BY <1>1 DEF DropCtx, reqVars, Phases
  <2>2. Refs'
    BY <1>1 DEF DropCtx, bufVars, reqVars, Refs, InRefs
  <2> QED BY <2>1, <2>2
<1>6. BufExclusive'
  BY <1>1 DEF DropCtx, bufVars, BufExclusive
<1>7. Isolation' /\ OwnResponse'
  BY <1>1 DEF DropCtx, bufVars, reqVars, Isolation, OnlyOf, OwnResponse
<1>8. Limits'
  BY <1>1 DEF DropCtx, reqVars, Limits, InLimit, Configured, Fits
<1> QED BY <1>3, <1>4, <1>5, <1>6, <1>7, <1>8

\* The collector may take a buffer out of its pool.
LEMMA DropBufInv == ASSUME IInv, NEW b \in Buf, DropBuf(b) PROVE IInv'
<1> USE DEF IInv
<1>1. \A q \in Req : CtxOf(q)' = CtxOf(q) /\ BufsOf(q)' = BufsOf(q)
  BY DEF DropBuf, CtxOf, BufsOf, ctxVars, reqVars
<1>2. bufPool' \in [Buf -> Nat] /\ \A d \in Buf : bufPool'[d] <= bufPool[d]
  BY DEF DropBuf, TypeOK
<1>3. TypeOK'
  BY <1>2 DEF DropBuf, ctxVars, reqVars, TypeOK
<1>4. CtxExclusive' /\ PooledClean'
  BY DEF DropBuf, ctxVars, CtxExclusive, PooledClean
<1>5. Phases' /\ Refs'
  BY <1>1 DEF DropBuf, ctxVars, reqVars, Phases, Refs, InRefs
<1>6. BufExclusive'
  <2>1. \A d \in Buf : bufPool[d] \in Nat /\ bufPool'[d] \in Nat
    BY <1>2 DEF TypeOK
  <2> QED BY <1>1, <1>2, <2>1 DEF BufExclusive
<1>7. Isolation' /\ OwnResponse'
  BY <1>1 DEF DropBuf, ctxVars, reqVars, Isolation, OnlyOf, OwnResponse
<1>8. Limits'
  BY <1>1 DEF DropBuf, ctxVars, reqVars, Limits, InLimit, Configured, Fits
<1> QED BY <1>3, <1>4, <1>5, <1>6, <1>7, <1>8

\* A step of nothing disturbs nothing.
LEMMA StutterInv == ASSUME IInv, UNCHANGED vars PROVE IInv'
<1> USE DEF IInv, vars
<1>1. \A q \in Req : CtxOf(q)' = CtxOf(q) /\ BufsOf(q)' = BufsOf(q)
  BY DEF CtxOf, BufsOf
<1>2. TypeOK'
  BY DEF TypeOK
<1>3. CtxExclusive' /\ PooledClean' /\ OwnResponse'
  BY DEF CtxExclusive, PooledClean, OwnResponse
<1>4. Phases' /\ BufExclusive' /\ Refs'
  BY <1>1 DEF Phases, BufExclusive, Refs, InRefs
<1>5. Isolation' /\ Limits'
  BY <1>1 DEF Isolation, OnlyOf, Limits, InLimit, Configured, Fits
<1> QED BY <1>2, <1>3, <1>4, <1>5

-----------------------------------------------------------------------------
\* Every step preserves the invariant.
LEMMA NextInv == IInv /\ [Next]_vars => IInv'
<1> SUFFICES ASSUME IInv, [Next]_vars PROVE IInv'
  OBVIOUS
<1>1. ASSUME NEW r \in Req, Acquire(r) \/ Match(r) \/ NoMatch(r) \/ Write(r) \/ Release(r) PROVE IInv'
  BY <1>1, AcquireInv, MatchInv, NoMatchInv, WriteInv, ReleaseInv
<1>2. ASSUME NEW r \in Req, Handler(r) PROVE IInv'
  BY <1>2, SetInv, WithValueInv, ReadStartInv, ReadStartCopyInv, ReadDoneInv, ReadFailInv, RespondInv, AbortInv
     DEF Handler
<1>3. ASSUME NEW c \in Ctx, DropCtx(c) PROVE IInv'
  BY <1>3, DropCtxInv
<1>4. ASSUME NEW b \in Buf, DropBuf(b) PROVE IInv'
  BY <1>4, DropBufInv
<1>5. CASE Served \/ UNCHANGED vars
  BY <1>5, StutterInv DEF Served
<1> QED BY <1>1, <1>2, <1>3, <1>4, <1>5 DEF Next

\* The strengthening is an invariant of every behaviour of the pools, whatever the number of
\* requests in flight and whatever the collector takes out of the pools.
THEOREM Invariance == Spec => []IInv
BY InitInv, NextInv, PTL DEF Spec

\* Every variable keeps its type; in particular no pool count goes below zero.
THEOREM TypeCorrect == Spec => []TypeOK
BY Invariance, PTL DEF IInv

\* Two requests are never given the same *Ctx, and a *Ctx in use is not in ctxPool.
THEOREM CtxIsExclusive == Spec => []CtxExclusive
BY Invariance, PTL DEF IInv

\* Two requests never reach the same body buffer, and a buffer in use is not in bodyBufPool.
THEOREM BufIsExclusive == Spec => []BufExclusive
BY Invariance, PTL DEF IInv

\* A handler finds nothing of another request in its *Ctx or in a copy of it.
THEOREM IsolationHolds == Spec => []Isolation
BY Invariance, PTL DEF IInv

\* The bytes on the wire are the bytes of the request they answer.
THEOREM OwnResponseHolds == Spec => []OwnResponse
BY Invariance, PTL DEF IInv

\* A body that a handler gets to see fits the limit configured for its route.
THEOREM BodyBoundedHolds == Spec => []BodyBounded
<1>1. IInv => BodyBounded
  <2> SUFFICES ASSUME IInv, NEW r \in Req, CtxOf(r).body # NoBuf \/ copy[r].body # NoBuf PROVE Fits(r)
    BY DEF BodyBounded
  <2>1. body[r].from # NoBuf
    BY DEF IInv, Refs, InRefs
  <2> QED BY <2>1 DEF IInv, Limits
<1> QED BY <1>1, Invariance, PTL

=============================================================================
