--------------------------- MODULE LifecycleProofs ---------------------------
(* Proofs about Lifecycle, for any number of modules, connections and callers *)
(* of Shutdown: what happens between Listen and the first of them to close    *)
(* the server decides everything, so the invariant ties inShutdown, the       *)
(* listener and the hooks that ran to where Listen is.                        *)
EXTENDS Lifecycle, TLAPS

Entry == [hook : {"init", "ready", "shutdown"}, mod : 1..N, by : Caller \cup {"listen"}]

TypeOK ==
    /\ lpc \in {"idle", "init", "ready", "built", "serving", "returned", "failed"}
    /\ next \in 1..(N + 1) /\ srv \in BOOLEAN /\ bound \in BOOLEAN /\ inShutdown \in BOOLEAN
    /\ conn \in [Conn -> {"none", "backlog", "inflight", "reset", "served"}]
    /\ cpc \in [Caller -> {"idle", "called", "nil", "closing", "draining", "polling", "hooks", "ok", "error"}]
    /\ left \in [Caller -> 0..N]
    /\ log \in Seq(Entry)

RanYet(hook, m) == RanBefore(Len(log), hook, m)

\* There is a server only when every module is initialised and ready.
Started ==
    /\ lpc = "idle" => next = 1
    /\ lpc = "init" => \A m \in 1..N : m < next => RanYet("init", m)
    /\ lpc = "ready" => (\A m \in 1..N : RanYet("init", m)) /\ \A m \in 1..N : m < next => RanYet("ready", m)
    /\ srv => \A m \in 1..N : RanYet("init", m) /\ RanYet("ready", m)
    /\ lpc \in {"built", "serving", "returned"} => srv
    /\ srv => lpc \in {"built", "serving", "returned", "failed"}
    /\ \A q \in Conn : conn[q] \in {"inflight", "served"} => srv

\* Once a call has closed the listeners Serve does not start again; once a call has drained nothing is in flight.
Closed ==
    /\ \A c \in Caller : cpc[c] \in {"closing", "draining", "polling", "hooks", "ok", "error"} => srv
    /\ \A c \in Caller : cpc[c] \in {"draining", "polling", "hooks", "ok", "error"} => inShutdown
    /\ inShutdown => srv
    /\ lpc \in {"idle", "init", "returned", "failed"} => ~bound
    /\ inShutdown /\ bound => lpc = "built"
    /\ \A c \in Caller : cpc[c] \in {"hooks", "ok"} => lpc # "serving" /\ InFlight = {}

\* The hooks a call has run: those of the modules above left[c], from the last down.
TornDown ==
    /\ \A i \in DOMAIN log : log[i].hook = "shutdown" =>
          /\ log[i].by \in Caller /\ cpc[log[i].by] \in {"hooks", "ok"}
          /\ log[i].mod > left[log[i].by]
    /\ \A c \in Caller : cpc[c] \in {"hooks", "ok"} =>
          \A m \in 1..N : m > left[c] => RanYet("shutdown", m)
    /\ \A c \in Caller : cpc[c] = "ok" => left[c] = 0
    /\ \A c \in Caller : InReverse(c)

IInv == TypeOK /\ Started /\ Closed /\ TornDown

-----------------------------------------------------------------------------
\* A hook that runs is the last entry; those that ran before are where they were.
LEMMA Appended ==
    ASSUME log \in Seq(Entry), NEW e \in Entry, log' = Append(log, e)
    PROVE  /\ log' \in Seq(Entry) /\ Len(log) \in Nat /\ Len(log') = Len(log) + 1
           /\ DOMAIN log = 1..Len(log) /\ DOMAIN log' = 1..(Len(log) + 1)
           /\ log'[Len(log) + 1] = e
           /\ \A i \in 1..Len(log) : log'[i] = log[i]
OBVIOUS

LEMMA StillRan ==
    ASSUME log \in Seq(Entry), NEW e \in Entry, log' = Append(log, e), NEW hook, NEW m, RanYet(hook, m)
    PROVE  RanYet(hook, m)' /\ RanBefore(Len(log) + 1, hook, m)'
<1>1. /\ Len(log) \in Nat /\ Len(log') = Len(log) + 1
      /\ \A i \in 1..Len(log) : log'[i] = log[i]
    BY Appended
<1>2. PICK j \in 1..Len(log) : log[j].hook = hook /\ log[j].mod = m
    BY DEF RanYet, RanBefore
<1>3. j \in 1..(Len(log) + 1) /\ log'[j].hook = hook /\ log'[j].mod = m
    BY <1>1, <1>2
<1> QED
    BY <1>1, <1>3 DEF RanYet, RanBefore

LEMMA JustRan ==
    ASSUME log \in Seq(Entry), NEW e \in Entry, log' = Append(log, e), NEW hook, NEW m,
           e.hook = hook, e.mod = m
    PROVE  RanYet(hook, m)'
<1>1. /\ Len(log) \in Nat /\ Len(log') = Len(log) + 1 /\ log'[Len(log) + 1] = e
    BY Appended
<1>2. Len(log) + 1 \in 1..Len(log')
    BY <1>1
<1> QED
    BY <1>1, <1>2 DEF RanYet, RanBefore

LEMMA InitInv == Init => IInv
<1> SUFFICES ASSUME Init PROVE IInv
    OBVIOUS
<1>1. TypeOK
  <2>1. 1 \in 1..(N + 1) /\ 0 \in 0..N /\ <<>> \in Seq(Entry)
    BY LifecycleAssumption
  <2> QED
    BY <2>1 DEF Init, TypeOK
<1>2. InFlight = {} /\ DOMAIN log = {}
    BY DEF Init, InFlight
<1>3. Started
    BY LifecycleAssumption DEF Init, Started
<1>4. Closed
    BY <1>2 DEF Init, Closed
<1>5. TornDown
    BY <1>2 DEF Init, TornDown, InReverse
<1> QED
    BY <1>1, <1>3, <1>4, <1>5 DEF IInv

\* A step of Listen that runs no hook, of the network, or of a call that is not in its hooks: the
\* log stays, and so does what was torn down.
LEMMA SameLog ==
    ASSUME TornDown, UNCHANGED log,
           \A c \in Caller : cpc[c] \in {"hooks", "ok"} => cpc'[c] \in {"hooks", "ok"} /\ left'[c] = left[c],
           \A c \in Caller : cpc'[c] = "ok" => left'[c] = 0,
           \A c \in Caller : cpc'[c] \in {"hooks", "ok"} =>
               \A m \in 1..N : m > left'[c] => RanYet("shutdown", m)
    PROVE  TornDown'
BY DEF TornDown, RanYet, RanBefore, InReverse

\* A hook of Listen's: it is not one of a teardown, and those stay where they were.
LEMMA ListenHook ==
    ASSUME TypeOK, TornDown, NEW e \in Entry, e.hook # "shutdown", log' = Append(log, e), UNCHANGED callVars
    PROVE  TornDown'
<1>1. /\ Len(log) \in Nat /\ DOMAIN log = 1..Len(log) /\ DOMAIN log' = 1..(Len(log) + 1)
      /\ log'[Len(log) + 1] = e /\ \A i \in 1..Len(log) : log'[i] = log[i]
    BY Appended DEF TypeOK
<1>2. \A i \in DOMAIN log' : log'[i].hook = "shutdown" => i \in DOMAIN log /\ log'[i] = log[i]
    BY <1>1
<1>3. \A c \in Caller : InReverse(c)'
    BY <1>1, <1>2 DEF TornDown, InReverse, RanBefore
<1>4. \A m \in 1..N : RanYet("shutdown", m) => RanYet("shutdown", m)'
    BY StillRan DEF TypeOK
<1> QED
    BY <1>2, <1>3, <1>4 DEF TornDown, callVars

LEMMA NextInv == IInv /\ [Next]_vars => IInv'
<1> SUFFICES ASSUME IInv, [Next]_vars PROVE IInv'
    OBVIOUS
<1> USE LifecycleAssumption DEF IInv, listenVars, serverVars, callVars
<1>a. ASSUME UNCHANGED log PROVE \A hook, m : RanYet(hook, m)' = RanYet(hook, m)
    BY <1>a DEF RanYet, RanBefore
<1>b. ASSUME UNCHANGED <<log, callVars>> PROVE TornDown'
    BY <1>b, SameLog DEF TornDown
<1>c. ASSUME UNCHANGED conn PROVE InFlight' = InFlight
    BY <1>c DEF InFlight
<1>1. CASE Start
    BY <1>1, <1>a, <1>b, <1>c DEF Start, TypeOK, Started, Closed
<1>2. CASE InitHook
  <2>1. ASSUME UNCHANGED log, lpc' = "failed", UNCHANGED next PROVE IInv'
    BY <1>2, <2>1, <1>a, <1>b, <1>c DEF InitHook, TypeOK, Started, Closed
  <2>2. ASSUME Ran("init", next, "listen"), next' = next + 1, UNCHANGED lpc PROVE IInv'
    <3>1. next \in 1..N /\ lpc = "init" /\ UNCHANGED <<srv, serverVars, callVars>>
      BY <1>2 DEF InitHook, TypeOK
    <3>2. PICK n \in 1..N : n = next
      BY <3>1
    <3>3. PICK e \in Entry : e.hook = "init" /\ e.mod = n /\ log' = Append(log, e)
      BY <2>2, <3>2 DEF Ran, Entry
    <3>4. TornDown'
      BY <3>1, <3>3, ListenHook
    <3>5. RanYet("init", n)'
      BY <3>3, JustRan DEF TypeOK
    <3>6. \A m \in 1..N : RanYet("init", m) => RanYet("init", m)'
      BY <3>3, StillRan DEF TypeOK
    <3>7. TypeOK'
      BY <2>2, <3>1, <3>3, Appended DEF TypeOK
    <3>8. next' = n + 1 /\ lpc' = "init" /\ n \in Int
      BY <2>2, <3>1, <3>2
    <3>9. \A m \in 1..N : m < next' => RanYet("init", m)'
      BY <3>1, <3>2, <3>5, <3>6, <3>8 DEF Started
    <3>10. Started'
      BY <3>1, <3>8, <3>9 DEF Started
    <3> QED
      BY <2>2, <3>1, <3>4, <3>7, <3>10, <1>c DEF Closed
  <2> QED
    BY <1>2, <2>1, <2>2 DEF InitHook
<1>3. CASE Bind
  <2>1. 1 \in 1..(N + 1) /\ (\A m \in 1..N : m < next \/ next <= N) /\ next \in Int
    BY DEF TypeOK
  <2>2. \A m \in 1..N : RanYet("init", m)
    BY <1>3, <2>1 DEF Bind, Started
  <2>3. \A m \in 1..N : ~(m < 1)
    OBVIOUS
  <2>4. \A m \in 1..N : RanYet("init", m)'
    BY <1>3, <1>a, <2>2 DEF Bind
  <2>5. TypeOK'
    BY <1>3, <2>1 DEF Bind, TypeOK
  <2>7. ~srv /\ ~inShutdown /\ \A c \in Caller : cpc[c] \notin {"closing", "draining", "polling", "hooks", "ok", "error"}
    BY <1>3 DEF Bind, Started, Closed
  <2>8. Closed'
    BY <1>3, <2>7 DEF Bind, Closed
  <2>6. Started'
    BY <1>3, <2>3, <2>4 DEF Bind, Started
  <2> QED
    BY <1>3, <1>b, <2>5, <2>6, <2>8 DEF Bind
<1>4. CASE ReadyHook
  <2>1. next \in 1..N /\ lpc = "ready" /\ UNCHANGED <<lpc, srv, serverVars, callVars>>
    BY <1>4 DEF ReadyHook, TypeOK
  <2>2. PICK n \in 1..N : n = next
    BY <2>1
  <2>3. PICK e \in Entry : e.hook = "ready" /\ e.mod = n /\ log' = Append(log, e)
    BY <1>4, <2>2 DEF ReadyHook, Ran, Entry
  <2>4. TornDown'
    BY <2>1, <2>3, ListenHook
  <2>5. RanYet("ready", n)'
    BY <2>3, JustRan DEF TypeOK
  <2>6. /\ \A m \in 1..N : RanYet("init", m) => RanYet("init", m)'
        /\ \A m \in 1..N : RanYet("ready", m) => RanYet("ready", m)'
    BY <2>3, StillRan DEF TypeOK
  <2>7. next' = n + 1 /\ lpc' = "ready" /\ n \in Int
    BY <1>4, <2>1, <2>2 DEF ReadyHook
  <2>8. TypeOK'
    BY <2>1, <2>3, <2>7, Appended DEF TypeOK
  <2>9. \A m \in 1..N : RanYet("init", m)' /\ (m < next' => RanYet("ready", m)')
    BY <2>1, <2>2, <2>5, <2>6, <2>7 DEF Started
  <2>10. Started'
    BY <2>1, <2>7, <2>9 DEF Started
  <2> QED
    BY <2>1, <2>4, <2>8, <2>10, <1>c DEF Closed
<1>5. CASE BuildServer
    BY <1>5, <1>a, <1>b, <1>c DEF BuildServer, TypeOK, Started, Closed
<1>6. CASE Serve
    BY <1>6, <1>a, <1>b, <1>c DEF Serve, TypeOK, Started, Closed
<1>7. CASE ServeReturns
    BY <1>7, <1>a, <1>b, <1>c DEF ServeReturns, TypeOK, Started, Closed
<1>8. ASSUME NEW q \in Conn, Connect(q) \/ Reset(q) \/ Complete(q) PROVE IInv'
  <2>1. InFlight' \subseteq InFlight
    BY <1>8 DEF Connect, Reset, Complete, InFlight, TypeOK
  <2> QED
    BY <1>8, <2>1, <1>a, <1>b DEF Connect, Reset, Complete, TypeOK, Started, Closed
<1>9. ASSUME NEW q \in Conn, Accept(q) PROVE IInv'
    BY <1>9, <1>a, <1>b DEF Accept, TypeOK, Started, Closed
<1>10. ASSUME NEW c \in Caller, Call(c) \/ CheckServer(c) PROVE IInv'
  <2>1. TornDown'
    BY <1>10, SameLog DEF Call, CheckServer, TypeOK, TornDown
  <2> QED
    BY <1>10, <2>1, <1>a, <1>c DEF Call, CheckServer, TypeOK, Started, Closed
<1>11. ASSUME NEW c \in Caller, CloseListeners(c) PROVE IInv'
  <2>1. TornDown'
    BY <1>11, SameLog DEF CloseListeners, TypeOK, TornDown
  <2> QED
    BY <1>11, <2>1, <1>a, <1>c DEF CloseListeners, TypeOK, Started, Closed
<1>17. ASSUME NEW c \in Caller, Poll(c) \/ DrainTimesOut(c) PROVE IInv'
  <2>1. TornDown'
    BY <1>17, SameLog DEF Poll, DrainTimesOut, TypeOK, TornDown
  <2> QED
    BY <1>17, <2>1, <1>a, <1>c DEF Poll, DrainTimesOut, TypeOK, Started, Closed
<1>12. ASSUME NEW c \in Caller, Drained(c) PROVE IInv'
  <2>1. TornDown'
    BY <1>12, SameLog DEF Drained, TypeOK, TornDown
  <2> QED
    BY <1>12, <2>1, <1>a, <1>c DEF Drained, TypeOK, Started, Closed
<1>13. ASSUME NEW c \in Caller, DeadlinePasses(c) PROVE IInv'
  <2>1. TornDown'
    BY <1>13, SameLog DEF DeadlinePasses, TornDown
  <2> QED
    BY <1>13, <2>1, <1>a, <1>c DEF DeadlinePasses, TypeOK, Started, Closed
<1>14. ASSUME NEW c \in Caller, ShutdownHook(c) PROVE IInv'
  <2>1. /\ cpc[c] = "hooks" /\ left[c] \in 1..N /\ left' = [left EXCEPT ![c] = @ - 1]
        /\ UNCHANGED <<listenVars, serverVars, cpc, expired>>
    BY <1>14 DEF ShutdownHook, TypeOK
  <2>2. PICK n \in 1..N : n = left[c]
    BY <2>1
  <2>3. PICK e \in Entry : e.hook = "shutdown" /\ e.mod = n /\ e.by = c /\ log' = Append(log, e)
    BY <1>14, <2>2 DEF ShutdownHook, Ran, Entry
  <2>4. /\ log' \in Seq(Entry) /\ Len(log) \in Nat /\ Len(log') = Len(log) + 1
        /\ DOMAIN log = 1..Len(log) /\ DOMAIN log' = 1..(Len(log) + 1)
        /\ log'[Len(log) + 1] = e /\ \A i \in 1..Len(log) : log'[i] = log[i]
    BY <2>3, Appended DEF TypeOK
  <2>5. /\ \A m \in 1..N : RanYet("shutdown", m) => RanYet("shutdown", m)'
        /\ \A m \in 1..N : RanYet("init", m) => RanYet("init", m)'
        /\ \A m \in 1..N : RanYet("ready", m) => RanYet("ready", m)'
    BY <2>3, StillRan DEF TypeOK
  <2>6. RanYet("shutdown", n)'
    BY <2>3, JustRan DEF TypeOK
  <2>7. left'[c] = n - 1 /\ \A d \in Caller \ {c} : left'[d] = left[d]
    BY <2>1, <2>2 DEF TypeOK
  <2>8. TypeOK'
    BY <2>1, <2>4 DEF TypeOK
  <2>9. Started' /\ Closed'
    BY <2>1, <2>5, <1>c DEF Started, Closed
  <2>10. \A d \in Caller : cpc'[d] \in {"hooks", "ok"} => \A m \in 1..N : m > left'[d] => RanYet("shutdown", m)'
    <3>1. \A m \in 1..N : m > n - 1 => m = n \/ m > n
      OBVIOUS
    <3> QED
      BY <2>1, <2>2, <2>5, <2>6, <2>7, <3>1 DEF TornDown
  <2>11. ASSUME NEW i \in DOMAIN log', log'[i].hook = "shutdown"
         PROVE  /\ log'[i].by \in Caller /\ cpc'[log'[i].by] \in {"hooks", "ok"}
                /\ log'[i].mod > left'[log'[i].by]
    <3>1. CASE i \in DOMAIN log
      <4>1. log'[i] = log[i]
        BY <2>4, <3>1
      <4>2. log[i].by \in Caller /\ cpc[log[i].by] \in {"hooks", "ok"} /\ log[i].mod > left[log[i].by]
        BY <2>11, <3>1, <4>1 DEF TornDown
      <4>3. log[i] \in Entry /\ log[i].mod \in Int
        <5>1. log[i] \in Entry
          BY <3>1 DEF TypeOK
        <5> QED
          BY <5>1 DEF Entry
      <4>4. log[i].mod > left'[log[i].by]
        BY <2>2, <2>7, <4>2, <4>3
      <4> QED
        BY <2>1, <4>1, <4>2, <4>4
    <3>2. CASE i = Len(log) + 1
      BY <2>1, <2>3, <2>4, <2>7, <3>2
    <3> QED
      BY <2>4, <3>1, <3>2
  <2>12. ASSUME NEW d \in Caller PROVE InReverse(d)'
    <3>1. ASSUME NEW i \in DOMAIN log', log'[i].hook = "shutdown" /\ log'[i].by = d
          PROVE  RanBefore(i, "init", log[i].mod)'
      <4>1. CASE i \in DOMAIN log
        <5>1. log'[i] = log[i] /\ RanBefore(i, "init", log[i].mod)
          BY <2>4, <3>1, <4>1 DEF TornDown, InReverse
        <5>2. PICK k \in 1..i : log[k].hook = "init" /\ log[k].mod = log[i].mod
          BY <5>1 DEF RanBefore
        <5>3. log'[k] = log[k]
          BY <2>4, <4>1
        <5> QED
          BY <5>1, <5>2, <5>3 DEF RanBefore
      <4>2. CASE i = Len(log) + 1
        <5>1. RanYet("init", n)
          BY <2>1 DEF Closed, Started
        <5>2. PICK k \in 1..Len(log) : log[k].hook = "init" /\ log[k].mod = n
          BY <5>1 DEF RanYet, RanBefore
        <5>3. log'[k] = log[k] /\ log'[i].mod = n /\ k \in 1..i
          BY <2>3, <2>4, <4>2
        <5> QED
          BY <5>2, <5>3 DEF RanBefore
      <4> QED
        BY <2>4, <4>1, <4>2
    <3>2. ASSUME NEW i \in DOMAIN log', log'[i].hook = "shutdown" /\ log'[i].by = d,
                 NEW j \in DOMAIN log', log'[j].hook = "shutdown" /\ log'[j].by = d, i < j
          PROVE  log'[j].mod < log'[i].mod
      <4>1. i \in DOMAIN log /\ log'[i] = log[i]
        BY <2>4, <3>2
      <4>2. CASE j \in DOMAIN log
        <5>1. log'[j] = log[j]
          BY <2>4, <4>2
        <5> QED
          BY <3>2, <4>1, <4>2, <5>1 DEF TornDown, InReverse
      <4>3. CASE j = Len(log) + 1
        BY <2>2, <2>3, <2>4, <3>2, <4>1, <4>3 DEF TornDown
      <4> QED
        BY <2>4, <4>2, <4>3
    <3> QED
      BY <3>1, <3>2 DEF InReverse
  <2>13. TornDown'
    BY <2>1, <2>10, <2>11, <2>12 DEF TornDown, TypeOK
  <2> QED
    BY <2>8, <2>9, <2>13
<1>15. ASSUME NEW c \in Caller, Return(c) PROVE IInv'
  <2>1. TornDown'
    BY <1>15, SameLog DEF Return, TypeOK, TornDown
  <2> QED
    BY <1>15, <2>1, <1>a, <1>c DEF Return, TypeOK, Started, Closed
<1>16. CASE Over \/ UNCHANGED vars
    BY <1>16, <1>a, <1>b, <1>c DEF Over, vars, TypeOK, Started, Closed
<1> QED
    BY <1>1, <1>2, <1>3, <1>4, <1>5, <1>6, <1>7, <1>8, <1>9, <1>10, <1>11, <1>12, <1>13, <1>14, <1>15, <1>16, <1>17
    DEF Next, Listen, Network, Shutdown

-----------------------------------------------------------------------------
\* Whichever calls, connections and deadlines meet, no OnShutdown hook has run while a request is in
\* flight (bast.go 411-424).
THEOREM HooksAfterDrainAlways == Spec => []HooksAfterDrain
<1>1. IInv => HooksAfterDrain
    BY DEF IInv, TornDown, Closed, HooksAfterDrain
<1> QED
    BY InitInv, NextInv, <1>1, PTL DEF Spec

\* No request is served before the last OnReady hook has returned (bast.go 352-400).
THEOREM ServedByReadyAppAlways == Spec => []ServedByReadyApp
<1>1. IInv => ServedByReadyApp
    BY DEF IInv, Started, RanYet, ServedByReadyApp
<1> QED
    BY InitInv, NextInv, <1>1, PTL DEF Spec

\* A call of Shutdown that found the server and returned nil has shut everything down, in reverse
\* order, whoever else was calling (bast.go 402-462).
THEOREM OkMeansShutDownAlways == Spec => []OkMeansShutDown
<1>1. IInv => OkMeansShutDown
  <2> SUFFICES ASSUME IInv, NEW c \in Caller, cpc[c] = "ok" PROVE ShutDown /\ InReverse(c)
    BY DEF OkMeansShutDown
  <2>1. InFlight = {} /\ (bound => inShutdown /\ lpc = "built")
    BY DEF IInv, Closed
  <2>2. \A m \in 1..N : RanYet("shutdown", m)
    BY LifecycleAssumption DEF IInv, TornDown
  <2> QED
    BY <2>1, <2>2 DEF IInv, TornDown, ShutDown, RanYet
<1> QED
    BY InitInv, NextInv, <1>1, PTL DEF Spec
=============================================================================
