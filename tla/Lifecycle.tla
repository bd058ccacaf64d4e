------------------------------ MODULE Lifecycle ------------------------------
(* The life of an App (bast.go): Listen on one goroutine, Shutdown on others, *)
(* the http.Server and its connections between them.                          *)
(*                                                                            *)
(* Listen runs every OnInit hook, binds the port, runs every OnReady hook,    *)
(* builds the server into a.srv and serves.  Shutdown reads a.srv without     *)
(* synchronisation, asks the server to close and drain, then runs the         *)
(* OnShutdown hooks.  Modules that do not implement Hooks are skipped by the  *)
(* code and are not among the 1..N here.                                      *)
EXTENDS Integers, Sequences, FiniteSets

CONSTANTS N,             \* modules with hooks, numbered in registration order
          Conn,          \* client connections, one request each
          Caller,        \* goroutines that call Shutdown, once each
          HasDeadline    \* the shutdown context has a deadline (its own or ShutdownTimeout)

ASSUME LifecycleAssumption == /\ N \in Nat
                              /\ HasDeadline \in BOOLEAN

VARIABLES lpc,        \* where Listen is
          next,       \* the module whose hook Listen runs next
          srv,        \* a.srv # nil
          bound,      \* the listener accepts connections into its backlog
          inShutdown, \* http.Server.inShutdown
          conn,       \* state of every connection
          cpc,        \* where every call of Shutdown is
          left,       \* how many OnShutdown hooks a call has left
          expired,    \* the deadline of a call's context has passed
          log         \* the hooks that ran, in order

vars == <<lpc, next, srv, bound, inShutdown, conn, cpc, left, expired, log>>
listenVars == <<lpc, next, srv>>
serverVars == <<bound, inShutdown, conn>>
callVars == <<cpc, left, expired>>

InFlight == {q \in Conn : conn[q] = "inflight"}

Ran(hook, m, c) == log' = Append(log, [hook |-> hook, mod |-> m, by |-> c])

Init ==
    /\ lpc = "idle" /\ next = 1 /\ srv = FALSE
    /\ bound = FALSE /\ inShutdown = FALSE
    /\ conn = [q \in Conn |-> "none"]
    /\ cpc = [c \in Caller |-> "idle"]
    /\ left = [c \in Caller |-> 0]
    /\ expired = [c \in Caller |-> FALSE]
    /\ log = <<>>

-----------------------------------------------------------------------------
(* Listen.                                                                    *)

Start ==
    /\ lpc = "idle"
    /\ lpc' = "init"
    /\ UNCHANGED <<next, srv, serverVars, callVars, log>>

\* runInitHooks: the first error makes Listen return it; modules already initialised stay so.
InitHook ==
    /\ lpc = "init" /\ next <= N
    /\ \/ /\ Ran("init", next, "listen")
          /\ next' = next + 1
          /\ UNCHANGED lpc
       \/ /\ lpc' = "failed"
          /\ UNCHANGED <<next, log>>
    /\ UNCHANGED <<srv, serverVars, callVars>>

\* net.Listen, after the last OnInit.
Bind ==
    /\ lpc = "init" /\ next > N
    /\ \/ lpc' = "ready" /\ bound' = TRUE /\ next' = 1
       \/ lpc' = "failed" /\ UNCHANGED <<bound, next>>
    /\ UNCHANGED <<srv, inShutdown, conn, callVars, log>>

ReadyHook ==
    /\ lpc = "ready" /\ next <= N
    /\ Ran("ready", next, "listen")
    /\ next' = next + 1
    /\ UNCHANGED <<lpc, srv, serverVars, callVars>>

\* Mutant: the server is built and serves before the OnReady hooks have run.
BuildServerEarly ==
    /\ lpc = "ready"
    /\ srv' = TRUE
    /\ lpc' = "built"
    /\ UNCHANGED <<next, serverVars, callVars, log>>

BuildServer ==
    /\ lpc = "ready" /\ next > N
    /\ srv' = TRUE
    /\ lpc' = "built"
    /\ UNCHANGED <<next, serverVars, callVars, log>>

\* Serve refuses to start on a server that is already shutting down, and closes the listener.
Serve ==
    /\ lpc = "built"
    /\ IF inShutdown THEN lpc' = "returned" /\ bound' = FALSE
                     ELSE lpc' = "serving" /\ UNCHANGED bound
    /\ UNCHANGED <<next, srv, inShutdown, conn, callVars, log>>

\* ErrServerClosed: Listen returns nil.  A permanent Accept error: Listen returns it.
ServeReturns ==
    /\ lpc = "serving"
    /\ \/ inShutdown /\ ~bound /\ lpc' = "returned"
       \/ ~inShutdown /\ lpc' = "failed"
    /\ bound' = FALSE
    /\ UNCHANGED <<next, srv, inShutdown, conn, callVars, log>>

-----------------------------------------------------------------------------
(* Connections, as net/http handles them.                                     *)

Connect(q) ==
    /\ bound /\ conn[q] = "none"
    /\ conn' = [conn EXCEPT ![q] = "backlog"]
    /\ UNCHANGED <<listenVars, bound, inShutdown, callVars, log>>

\* Also of a connection accepted just before the listener was closed, while Serve has not yet come
\* back to Accept.
Accept(q) ==
    /\ lpc = "serving" /\ conn[q] = "backlog"
    /\ conn' = [conn EXCEPT ![q] = "inflight"]
    /\ UNCHANGED <<listenVars, bound, inShutdown, callVars, log>>

Reset(q) ==
    /\ ~bound /\ conn[q] = "backlog"
    /\ conn' = [conn EXCEPT ![q] = "reset"]
    /\ UNCHANGED <<listenVars, bound, inShutdown, callVars, log>>

Complete(q) ==
    /\ conn[q] = "inflight"
    /\ conn' = [conn EXCEPT ![q] = "served"]
    /\ UNCHANGED <<listenVars, bound, inShutdown, callVars, log>>

-----------------------------------------------------------------------------
(* Shutdown.                                                                  *)

Call(c) ==
    /\ cpc[c] = "idle"
    /\ cpc' = [cpc EXCEPT ![c] = "called"]
    /\ UNCHANGED <<listenVars, serverVars, left, expired, log>>

\* The check of a.srv.  Until Serve takes the server's lock nothing orders the write of a.srv before
\* this read: it may still see nil.
CheckServer(c) ==
    /\ cpc[c] = "called"
    /\ \/ /\ ~srv \/ lpc = "built"
          /\ cpc' = [cpc EXCEPT ![c] = "nil"]
       \/ /\ srv
          /\ cpc' = [cpc EXCEPT ![c] = "closing"]
    /\ UNCHANGED <<listenVars, serverVars, left, expired, log>>

\* Mutant: the listener stays open.
CloseNoListener(c) ==
    /\ cpc[c] = "closing"
    /\ inShutdown' = TRUE
    /\ cpc' = [cpc EXCEPT ![c] = "draining"]
    /\ UNCHANGED <<listenVars, bound, conn, left, expired, log>>

\* http.Server.Shutdown: set inShutdown, close the listeners Serve has registered.
CloseListeners(c) ==
    /\ cpc[c] = "closing"
    /\ inShutdown' = TRUE
    /\ bound' = (bound /\ lpc # "serving")
    /\ cpc' = [cpc EXCEPT ![c] = "draining"]
    /\ UNCHANGED <<listenVars, conn, left, expired, log>>

DeadlinePasses(c) ==
    /\ HasDeadline /\ ~expired[c]
    /\ cpc[c] \in {"closing", "draining", "polling", "hooks"}
    /\ expired' = [expired EXCEPT ![c] = TRUE]
    /\ UNCHANGED <<listenVars, serverVars, cpc, left, log>>

\* Serve has returned; a poll finds active connections and the call waits for the next one.
Poll(c) ==
    /\ cpc[c] = "draining" /\ lpc # "serving"
    /\ InFlight # {}
    /\ cpc' = [cpc EXCEPT ![c] = "polling"]
    /\ UNCHANGED <<listenVars, serverVars, left, expired, log>>

\* Mutant: the hooks run beside the requests still in flight.
DrainedAtOnce(c) ==
    /\ cpc[c] \in {"draining", "polling"} /\ lpc # "serving"
    /\ cpc' = [cpc EXCEPT ![c] = "hooks"]
    /\ left' = [left EXCEPT ![c] = N]
    /\ UNCHANGED <<listenVars, serverVars, expired, log>>

\* A poll finds no active connection: Shutdown of the server returns nil.
Drained(c) ==
    /\ cpc[c] \in {"draining", "polling"} /\ lpc # "serving"
    /\ InFlight = {}
    /\ cpc' = [cpc EXCEPT ![c] = "hooks"]
    /\ left' = [left EXCEPT ![c] = N]
    /\ UNCHANGED <<listenVars, serverVars, expired, log>>

\* Mutant: the deadline is looked at only when the connections are gone.
DrainOutlivesDeadline(c) ==
    /\ cpc[c] = "polling" /\ expired[c] /\ InFlight = {}
    /\ cpc' = [cpc EXCEPT ![c] = "error"]
    /\ UNCHANGED <<listenVars, serverVars, left, expired, log>>

\* The deadline comes before the next poll: its error is returned and no hook runs.
DrainTimesOut(c) ==
    /\ cpc[c] = "polling" /\ expired[c]
    /\ cpc' = [cpc EXCEPT ![c] = "error"]
    /\ UNCHANGED <<listenVars, serverVars, left, expired, log>>

\* Mutants: the hooks in registration order; the loop that stops at a hook's error; the loop that
\* runs one index too far.
ShutdownHookForward(c) ==
    /\ cpc[c] = "hooks" /\ left[c] > 0
    /\ Ran("shutdown", N + 1 - left[c], c)
    /\ left' = [left EXCEPT ![c] = @ - 1]
    /\ UNCHANGED <<listenVars, serverVars, cpc, expired>>

ShutdownHookStops(c) ==
    /\ cpc[c] = "hooks" /\ left[c] > 0
    /\ Ran("shutdown", left[c], c)
    /\ \E failed \in BOOLEAN : left' = [left EXCEPT ![c] = IF failed THEN 0 ELSE @ - 1]
    /\ UNCHANGED <<listenVars, serverVars, cpc, expired>>

\* runShutdownHooks, from the last module to the first; an error is logged and the loop goes on.
ShutdownHook(c) ==
    /\ cpc[c] = "hooks" /\ left[c] > 0
    /\ Ran("shutdown", left[c], c)
    /\ left' = [left EXCEPT ![c] = @ - 1]
    /\ UNCHANGED <<listenVars, serverVars, cpc, expired>>

Return(c) ==
    /\ cpc[c] = "hooks" /\ left[c] = 0
    /\ cpc' = [cpc EXCEPT ![c] = "ok"]
    /\ UNCHANGED <<listenVars, serverVars, left, expired, log>>

-----------------------------------------------------------------------------
Listen == Start \/ InitHook \/ Bind \/ ReadyHook \/ BuildServer \/ Serve \/ ServeReturns
Shutdown(c) == CheckServer(c) \/ CloseListeners(c) \/ Poll(c) \/ Drained(c) \/ DrainTimesOut(c)
               \/ ShutdownHook(c) \/ Return(c)
Network(q) == Connect(q) \/ Accept(q) \/ Reset(q) \/ Complete(q)

\* Nothing is left to do once Listen has returned and every call and connection has ended.
Over == /\ lpc \in {"returned", "failed"}
        /\ \A c \in Caller : cpc[c] \in {"ok", "error", "nil"}
        /\ \A q \in Conn : conn[q] \in {"none", "reset", "served"}
        /\ UNCHANGED vars

Next == \/ Listen
        \/ \E q \in Conn : Network(q)
        \/ \E c \in Caller : Call(c) \/ Shutdown(c) \/ DeadlinePasses(c)
        \/ Over

\* Listen and a call of Shutdown run on goroutines of their own and their hooks return (each has a
\* deadline to honour); a deadline passes.  Nothing makes a handler finish or a client connect.
Fairness == /\ WF_vars(Listen)
            /\ \A c \in Caller : WF_vars(Shutdown(c)) /\ WF_vars(DeadlinePasses(c))

Spec == Init /\ [][Next]_vars
FairSpec == Spec /\ Fairness

-----------------------------------------------------------------------------
RanBefore(i, hook, m) == \E j \in 1..i : log[j].hook = hook /\ log[j].mod = m

\* Modules are torn down with no request in flight, and none can start afterwards: handlers may use
\* what OnInit opened and OnShutdown closes.
HooksAfterDrain ==
    (\E i \in DOMAIN log : log[i].hook = "shutdown") => InFlight = {}

\* Every request is served by an application whose modules are all initialised and ready.
ServedByReadyApp ==
    \A q \in Conn : conn[q] \in {"inflight", "served"} =>
        \A m \in 1..N : RanBefore(Len(log), "init", m) /\ RanBefore(Len(log), "ready", m)

\* Each module after its own OnInit, and for one caller in the reverse of the order they were started in.
InReverse(c) ==
    \A i, j \in DOMAIN log :
        log[i].hook = "shutdown" /\ log[i].by = c =>
            /\ RanBefore(i, "init", log[i].mod)
            /\ log[j].hook = "shutdown" /\ log[j].by = c /\ i < j => log[j].mod < log[i].mod

\* The listener is closed (or Serve, yet to run, will close it), nothing is in flight, and every module
\* that was initialised has been torn down.
ShutDown == /\ bound => inShutdown /\ lpc = "built"
            /\ InFlight = {}
            /\ \A m \in 1..N : RanBefore(Len(log), "init", m) => RanBefore(Len(log), "shutdown", m)

\* A call that found the server and returned nil has shut everything down, in reverse order, whoever else
\* was calling, whenever it came and whichever hooks failed.
OkMeansShutDown == \A c \in Caller : cpc[c] = "ok" => ShutDown /\ InReverse(c)

\* A call of Shutdown returns, although handlers may never finish: the deadline bounds the drain.
ShutdownReturns ==
    \A c \in Caller : cpc[c] = "called" ~> cpc[c] \in {"ok", "error", "nil"}

\* A call of Shutdown that found the server makes Listen return, so that a process blocked in it can
\* exit; also when it came between the construction of the server and Serve.
ListenReturns ==
    \A c \in Caller : cpc[c] = "closing" ~> lpc \in {"returned", "failed"}
=============================================================================
