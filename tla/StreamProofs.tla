---------------------------- MODULE StreamProofs -----------------------------
(* Proofs about Stream, for any buffer size, sizes written, statuses set and  *)
(* number of guards: its safety properties, and that it implements Exchange.  *)
EXTENDS Stream, TLAPS

Statuses == {200, 403, 500} \cup Codes

TypeOK ==
    /\ pc \in {"guards", "handler", "panic", "finish", "done", "dead"}
    /\ flusher \in BOOLEAN /\ headerSent \in BOOLEAN /\ spilled \in BOOLEAN /\ check \in Nat
    /\ status \in Statuses /\ wire \in Statuses \cup {0}
    /\ raised \in {"none", "panic", "abort"}

\* No byte is lost between the buffers; what a Flush promised has been handed on, and pushed while the
\* client is there to take it.
Counted ==
    /\ buffered \in Nat /\ handed \in Nat /\ pushed \in Nat /\ accepted \in Nat /\ synced \in Nat
    /\ accepted = handed + buffered
    /\ pushed <= handed /\ synced <= handed
    /\ flusher /\ ~gone => synced <= pushed

\* How the status the StreamCtx keeps, the one on the wire and headerSent go together.
Known ==
    /\ wire = 0 => status = 200
    /\ wire # 0 /\ ~spilled => wire = status
    /\ pc \in {"handler", "panic"} /\ wire # 0 => headerSent \/ spilled
    /\ pc \in {"guards", "handler", "panic"} /\ ~headerSent => status = 200
    /\ pc = "guards" => wire = 0 /\ ~spilled
    /\ pc \in {"finish", "done"} /\ raised = "panic" /\ ~headerSent /\ ~spilled => wire = 500

Ordered ==
    /\ pc # "done" => logged = 0
    /\ pc \in {"guards", "handler"} => raised = "none"
    /\ pc = "panic" => raised # "none"
    /\ pc \in {"finish", "done"} => raised # "abort"

Copied ==
    /\ pc \notin {"done", "dead"} => ctxStore \in {"empty", "ours"}
    /\ store \in {"none", "ours"}

IInv == TypeOK /\ Counted /\ Known /\ Ordered /\ Copied

LEMMA InitInv == Init => IInv
<1> SUFFICES ASSUME Init PROVE IInv
    OBVIOUS
<1>1. TypeOK
    BY DEF Init, TypeOK, Statuses
<1>3. Counted
    BY DEF Init, Counted
<1>2. Known /\ Ordered /\ Copied
    BY DEF Init, Known, Ordered, Copied
<1> QED
    BY <1>1, <1>2, <1>3 DEF IInv

\* A Write keeps count, whichever way it takes.
LEMMA WriteCounts ==
    ASSUME Counted, NEW n \in Sizes, Write(n)
    PROVE  Counted'
<1>0. UNCHANGED <<flusher, gone>>
    BY DEF Write, rest
<1>1. n \in Nat /\ Cap \in Nat /\ Cap # 0
    BY StreamAssumption
<1>2. buffered + n > Cap => Remainder(n) \in Nat /\ Remainder(n) <= buffered + n
    BY <1>1 DEF Remainder, Counted
<1>3. CASE UNCHANGED bytes
    BY <1>0, <1>3 DEF Counted, bytes
<1>4. CASE buffered' = buffered + n /\ accepted' = accepted + n /\ UNCHANGED <<handed, pushed, synced>>
    BY <1>0, <1>1, <1>4 DEF Counted
<1>5. CASE /\ buffered + n > Cap /\ buffered' = Remainder(n)
           /\ handed' = handed + (buffered + n - Remainder(n)) /\ accepted' = accepted + n
           /\ UNCHANGED <<pushed, synced>>
  <2> DEFINE k == Remainder(n)
  <2>1. k \in Nat /\ k <= buffered + n
    BY <1>2, <1>5
  <2> HIDE DEF k
  <2> QED
    BY <1>0, <1>1, <1>5, <2>1 DEF Counted, k
<1>6. CASE UNCHANGED <<buffered, handed, pushed, accepted, synced>>
    BY <1>0, <1>6 DEF Counted
<1> QED
    BY <1>3, <1>4, <1>5, <1>6 DEF Write

LEMMA NextInv == IInv /\ [Next]_vars => IInv'
<1> SUFFICES ASSUME IInv, [Next]_vars PROVE IInv'
    OBVIOUS
<1> USE StreamAssumption DEF IInv, TypeOK, Statuses, Known, Ordered, Copied, header, bytes, rest, Committed
<1>1. CASE Guard
    BY <1>1 DEF Guard, Counted
<1>2. CASE NewStreamCtx
    BY <1>2 DEF NewStreamCtx, Counted
<1>3. CASE Set
    BY <1>3 DEF Set, Counted
<1>4. ASSUME NEW c \in Codes, Status(c) PROVE IInv'
  <2>1. c \in Statuses /\ c # 0
    OBVIOUS
  <2>2. Counted' /\ Ordered' /\ Copied'
    BY <1>4 DEF Status, Counted
  <2>3. CASE headerSent
    BY <1>4, <2>2, <2>3 DEF Status
  <2>4. CASE ~headerSent
    BY <1>4, <2>1, <2>2, <2>4 DEF Status
  <2> QED
    BY <2>3, <2>4
<1>5. ASSUME NEW n \in Sizes, Write(n) PROVE IInv'
  <2>1. Counted'
    BY <1>5, WriteCounts
  <2>2. /\ pc = "handler"
        /\ UNCHANGED <<pc, check, headerSent, status, raised, flusher, gone, logged, ctxStore, store>>
        /\ \/ UNCHANGED <<wire, spilled>>
           \/ wire' = (IF wire = 0 THEN 200 ELSE wire) /\ spilled' = (spilled \/ ~headerSent)
    BY <1>5 DEF Write
  <2>3. TypeOK'
    <3>1. wire' \in Statuses \cup {0}
      BY <2>2
    <3>2. headerSent' \in BOOLEAN /\ spilled' \in BOOLEAN
      BY <2>2, Zenon
    <3>3. status' = status /\ raised' = raised /\ pc' = pc /\ check' = check /\ flusher' = flusher
      BY <2>2
    <3> QED
      BY <3>1, <3>2, <3>3
  <2>4. Known'
    <3>1. CASE UNCHANGED <<wire, spilled>>
      BY <2>2, <3>1 DEF Known
    <3>2. CASE wire' = (IF wire = 0 THEN 200 ELSE wire) /\ spilled' = (spilled \/ ~headerSent)
      BY <2>2, <3>2 DEF Known
    <3> QED
      BY <2>2, <3>1, <3>2
  <2>5. Ordered' /\ Copied'
    BY <2>2 DEF Ordered, Copied
  <2> QED
    BY <2>1, <2>3, <2>4, <2>5
<1>6. CASE Flush
  <2>1. Counted'
    BY <1>6 DEF Flush, Counted, Push
  <2>2. /\ pc = "handler"
        /\ UNCHANGED <<pc, check, status, raised, flusher, gone, logged, ctxStore, store>>
        /\ \/ UNCHANGED <<wire, spilled, headerSent>>
           \/ /\ wire' = (IF wire = 0 THEN 200 ELSE wire) /\ spilled' = (spilled \/ ~headerSent)
              /\ UNCHANGED headerSent
           \/ /\ headerSent' = TRUE /\ wire' \in {wire, IF wire = 0 THEN 200 ELSE wire}
              /\ UNCHANGED spilled
    BY <1>6 DEF Flush
  <2>3. TypeOK'
    <3>1. wire' \in Statuses \cup {0}
      BY <2>2
    <3>2. headerSent' \in BOOLEAN /\ spilled' \in BOOLEAN
      BY <2>2, Zenon
    <3>3. status' = status /\ raised' = raised /\ pc' = pc /\ check' = check /\ flusher' = flusher
      BY <2>2
    <3> QED
      BY <3>1, <3>2, <3>3
  <2>4. Known'
    <3>1. CASE UNCHANGED <<wire, spilled, headerSent>>
      BY <2>2, <3>1 DEF Known
    <3>2. CASE /\ wire' = (IF wire = 0 THEN 200 ELSE wire) /\ spilled' = (spilled \/ ~headerSent)
               /\ UNCHANGED headerSent
      BY <2>2, <3>2 DEF Known
    <3>3. CASE /\ headerSent' = TRUE /\ wire' \in {wire, IF wire = 0 THEN 200 ELSE wire}
               /\ UNCHANGED spilled
      <4>1. wire' = wire \/ (wire = 0 /\ wire' = 200)
        BY <3>3
      <4> QED
        BY <2>2, <3>3, <4>1 DEF Known
    <3> QED
      BY <2>2, <3>1, <3>2, <3>3
  <2>5. Ordered' /\ Copied'
    BY <2>2 DEF Ordered, Copied
  <2> QED
    BY <2>1, <2>3, <2>4, <2>5
<1>7. CASE Return
    BY <1>7 DEF Return, Counted
<1>8. ASSUME NEW v \in {"panic", "abort"}, Panic(v) PROVE IInv'
    BY <1>8 DEF Panic, Counted
<1>9. CASE Recover
    BY <1>9 DEF Recover, Counted
<1>10. CASE Finish
    BY <1>10 DEF Finish, Counted, Push
<1>11. CASE Recycle \/ Disconnect
    BY <1>11 DEF Recycle, Disconnect, Counted
<1>12. CASE Over \/ UNCHANGED vars
    BY <1>12 DEF Over, vars, Counted
<1> QED
    BY <1>1, <1>2, <1>3, <1>4, <1>5, <1>6, <1>7, <1>8, <1>9, <1>10, <1>11, <1>12 DEF Next, Call

-----------------------------------------------------------------------------
\* What was written before a Flush that returned nil is out of the bufio.Writer and, with an http.Flusher
\* and a client that is still there, out of net/http's buffer (streamctx.go 110-123).
THEOREM FlushDeliversAlways == Spec => []FlushDelivers
<1>1. IInv => FlushDelivers
    BY DEF IInv, Counted, FlushDelivers
<1> QED
    BY InitInv, NextInv, <1>1, PTL DEF Spec

\* A panic before anything was sent gives the client a 500 (bast.go 331-344).
THEOREM EarlyPanicIs500Always == Spec => []EarlyPanicIs500
<1>1. IInv => EarlyPanicIs500
    BY DEF IInv, Known, EarlyPanicIs500
<1> QED
    BY InitInv, NextInv, <1>1, PTL DEF Spec

\* The store of a StreamCtx never shows a later request's values (bast.go 318-328).
THEOREM StoreIsOursAlways == Spec => []StoreIsOurs
<1>1. IInv => StoreIsOurs
    BY DEF IInv, Copied, StoreIsOurs
<1> QED
    BY InitInv, NextInv, <1>1, PTL DEF Spec

-----------------------------------------------------------------------------
LEMMA InitExchange == Init => E!Init
BY DEF Init, E!Init

\* A step that sends a status line, or finds it sent.
LEMMA Answers ==
    ASSUME IInv, IInv', pc \notin {"done", "dead"}, pc' \notin {"done", "dead"}, UNCHANGED logged,
           raised # "abort", raised' # "abort",
           wire # 0 => wire' = wire /\ spilled' = spilled,
           wire' = 0 => spilled' = spilled
    PROVE  [E!Next]_(E!vars)
<1>1. CASE wire' = wire /\ spilled' = spilled
    BY <1>1 DEF E!vars
<1>2. CASE wire = 0 /\ wire' # 0
  <2>1. E!Answer
    BY <1>2 DEF E!Answer, E!Open, IInv, TypeOK, Statuses, Ordered
  <2> QED
    BY <2>1 DEF E!Next
<1> QED
    BY <1>1, <1>2

LEMMA NextExchange == IInv /\ IInv' /\ [Next]_vars => [E!Next]_(E!vars)
<1> SUFFICES ASSUME IInv, IInv', [Next]_vars PROVE [E!Next]_(E!vars)
    OBVIOUS
<1> USE DEF header, bytes, rest
<1>1. CASE Guard
  <2>1. CASE raised' = "panic" /\ pc' = "dead" /\ UNCHANGED <<check, status, wire, ctxStore>>
    <3>1. E!Drop
      BY <1>1, <2>1 DEF Guard, E!Drop, E!Open, IInv, Ordered
    <3> QED
      BY <3>1 DEF E!Next
  <2>2. CASE pc' # "dead"
    BY <1>1, <2>2, Answers DEF Guard, IInv, Ordered, Known
  <2> QED
    BY <1>1, <2>1, <2>2 DEF Guard
<1>2. CASE NewStreamCtx
    BY <1>2, Answers DEF NewStreamCtx, IInv, Ordered
<1>3. CASE Set
    BY <1>3, Answers DEF Set, IInv, Ordered
<1>4. ASSUME NEW c \in Codes, Status(c) PROVE [E!Next]_(E!vars)
    BY <1>4, Answers DEF Status, Committed, IInv, Ordered
<1>5. ASSUME NEW n \in Sizes, Write(n) PROVE [E!Next]_(E!vars)
  <2>1. /\ pc = "handler" /\ UNCHANGED <<pc, raised, headerSent, logged>>
        /\ \/ UNCHANGED <<wire, spilled>>
           \/ wire' = (IF wire = 0 THEN 200 ELSE wire) /\ spilled' = (spilled \/ ~headerSent)
    BY <1>5 DEF Write, Committed
  <2>2. /\ wire # 0 => wire' = wire /\ spilled' = spilled
        /\ wire' = 0 => spilled' = spilled
    BY <2>1 DEF IInv, Known, TypeOK
  <2>3. raised = "none"
    BY <2>1 DEF IInv, Ordered
  <2> QED
    BY <2>1, <2>2, <2>3, Answers
<1>6. CASE Flush
  <2>1. /\ pc = "handler" /\ UNCHANGED <<pc, raised, logged>>
        /\ \/ UNCHANGED <<wire, spilled>>
           \/ wire' = (IF wire = 0 THEN 200 ELSE wire) /\ spilled' = (spilled \/ ~headerSent)
           \/ wire' \in {wire, IF wire = 0 THEN 200 ELSE wire} /\ UNCHANGED spilled
    BY <1>6 DEF Flush, Committed
  <2>2. /\ wire # 0 => wire' = wire /\ spilled' = spilled
        /\ wire' = 0 => spilled' = spilled
    BY <2>1 DEF IInv, Known, TypeOK
  <2>3. raised = "none"
    BY <2>1 DEF IInv, Ordered
  <2> QED
    BY <2>1, <2>2, <2>3, Answers
<1>7. CASE Return
    BY <1>7, Answers DEF Return, IInv, Ordered
<1>8. ASSUME NEW v \in {"panic", "abort"}, Panic(v) PROVE [E!Next]_(E!vars)
  <2>1. CASE v = "panic"
    BY <1>8, <2>1, Answers DEF Panic, IInv, Ordered
  <2>2. CASE v = "abort"
    <3>1. E!Abort
      BY <1>8, <2>2 DEF Panic, E!Abort, E!Open, IInv, Ordered
    <3> QED
      BY <3>1 DEF E!Next
  <2> QED
    BY <2>1, <2>2
<1>9. CASE Recover
  <2>1. CASE raised = "abort"
    <3>1. E!Drop
      BY <1>9, <2>1 DEF Recover, E!Drop, E!Open, IInv, Ordered
    <3> QED
      BY <3>1 DEF E!Next
  <2>2. CASE raised # "abort"
    BY <1>9, <2>2, Answers DEF Recover, Committed, IInv, Ordered, Known
  <2> QED
    BY <2>1, <2>2
<1>10. CASE Finish
  <2>1. wire' = (IF wire = 0 THEN 200 ELSE wire) /\ (~spilled => status = wire') /\ logged' = status
    BY <1>10 DEF Finish, Committed, IInv, Known
  <2>2. E!Log
    BY <1>10, <2>1 DEF Finish, E!Log, E!Open, IInv, TypeOK, Statuses, Ordered
  <2> QED
    BY <2>2 DEF E!Next
<1>11. CASE Recycle
    BY <1>11 DEF Recycle, E!vars
<1>12. CASE Disconnect
    BY <1>12, Answers DEF Disconnect, IInv, E!vars
<1>13. CASE Over \/ UNCHANGED vars
    BY <1>13 DEF Over, vars, E!vars
<1> QED
    BY <1>1, <1>2, <1>3, <1>4, <1>5, <1>6, <1>7, <1>8, <1>9, <1>10, <1>11, <1>12, <1>13 DEF Next, Call

\* A stream route keeps what ServeHTTP promises of any request (bast.go 307-347): one status line, the
\* one that is logged unless bytes overtook it, and no answer only for an abort.
THEOREM StreamIsExchange == Spec => Exchanged
BY InitInv, NextInv, InitExchange, NextExchange, PTL DEF Spec, Exchanged, E!Spec
=============================================================================
