------------------------------ MODULE Exchange -------------------------------
(* What ServeHTTP promises about one request, whatever runs inside (bast.go:  *)
(* the comments on invoke and serveStream; docs/production.md): the client    *)
(* gets one status, the log tells that status where ServeHTTP knows it, and   *)
(* only a panic that nothing may or can answer leaves a request without an    *)
(* answer and without a line in the log.  Serve and Stream implement it.      *)
CONSTANTS Statuses, \* statuses an answer may have
          Unsent,   \* statuses a response may have that no answer has: 0 and 1xx
          Default,  \* the one net/http sends when ServeHTTP has sent none
          None      \* not a status

VARIABLES answer,   \* the status line on the wire, or None
          logged,   \* the status given to Logger.OnRequest, or None
          aborting, \* a panic that is not answered is in flight: http.ErrAbortHandler, one of the error
                    \* handler or a guard outside every recover, or net/http's for a status that is none
          shielded, \* a middleware.Recover, which answers every panic, has been entered
          certain,  \* ServeHTTP knows which status the client got
          dropped   \* the panic has reached net/http, which closes the connection

vars == <<answer, logged, aborting, shielded, certain, dropped>>

Open == logged = None /\ ~dropped

Init ==
    /\ answer = None /\ logged = None
    /\ aborting = FALSE /\ shielded = FALSE /\ certain = TRUE /\ dropped = FALSE

Shield ==
    /\ Open /\ answer = None /\ ~aborting
    /\ shielded' = TRUE
    /\ UNCHANGED <<answer, logged, aborting, certain, dropped>>

Abort ==
    /\ Open /\ ~aborting
    /\ aborting' = TRUE
    /\ UNCHANGED <<answer, logged, shielded, certain, dropped>>

Swallow ==
    /\ Open /\ aborting /\ shielded
    /\ aborting' = FALSE
    /\ UNCHANGED <<answer, logged, shielded, certain, dropped>>

\* The first status line counts; it may be sent behind the program's back.
Answer ==
    /\ Open /\ ~aborting /\ answer = None
    /\ answer' \in Statuses
    /\ certain' \in BOOLEAN
    /\ UNCHANGED <<logged, aborting, shielded, dropped>>

Log ==
    /\ Open /\ ~aborting
    /\ answer' = IF answer = None THEN Default ELSE answer
    /\ logged' \in IF certain THEN {answer'} ELSE Statuses \cup Unsent
    /\ UNCHANGED <<aborting, shielded, certain, dropped>>

\* Also when the panic starts and ends in one step of ServeHTTP.
Drop ==
    /\ Open
    /\ dropped' = TRUE /\ aborting' = TRUE
    /\ UNCHANGED <<answer, logged, shielded, certain>>

Next == Shield \/ Abort \/ Swallow \/ Answer \/ Log \/ Drop
Spec == Init /\ [][Next]_vars
=============================================================================
