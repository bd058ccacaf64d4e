----------------------------- MODULE ServeProofs ------------------------------
(* Proofs about Serve, for any middleware, guards, checks and orders of       *)
(* registration, and whatever each of them may do.  In this order: how a      *)
(* request is answered (IInv) and that ServeHTTP implements Exchange; how     *)
(* guards gate the handler (GInv); how middleware nests in the layout of a    *)
(* pipeline (NInv); the settings in force (SInv); the headers of an answer    *)
(* (HInv); the readiness probe (RInv).                                        *)
EXTENDS Serve, FiniteSetTheorems, TLAPS

Statuses == {"ok", "rejected", "302", "307", "404", "405", "500", "503"}
Response(H) == [status : Statuses \cup Odd \cup {"none"}, err : {"none", "typed", "unknown", "internal"},
                redirect : BOOLEAN, mapped : BOOLEAN, headers : SUBSET H]
IsResponse(r) == \E H : r \in Response(H)
IsAnswer(r) == IsResponse(r) /\ r.status # "none"

WasEntered(name) == \E j \in DOMAIN trace : Happened(j, "enter", name)

TypeOK ==
    /\ phase \in {"setup", "enter", "leave", "unwind", "write", "log", "done", "dead"}
    /\ at \in Nat
    /\ \E S : trace \in Seq(S)
    /\ IsResponse(resp)

\* What has been answered and logged at each point, and that there is something to answer.
Written ==
    /\ phase \in {"leave", "write", "log", "done"} => resp.status # "none"
    /\ writes = IF phase \in {"log", "done"} THEN <<Wire(resp)>> ELSE <<>>
    /\ logged = IF phase = "done" THEN resp.status ELSE "none"
    /\ phase \in {"write", "log", "done"} /\ target # "options" /\ resp.err # "none" => resp.mapped
    /\ raised = "broken" => phase = "dead"

\* A middleware that a response or a panic can pass on its way out has been entered.
Entered ==
    /\ phase = "enter" => \A i \in 1..at - 1 : chain[i].kind = "mw" => WasEntered(chain[i].name)
    /\ phase \in {"leave", "unwind"} => \A i \in 1..at : chain[i].kind = "mw" => WasEntered(chain[i].name)

IInv == TypeOK /\ Written /\ Entered

-----------------------------------------------------------------------------
LEMMA Answered ==
    /\ IsResponse(NoResponse) /\ NoResponse.err = "none"
    /\ \A s \in Statuses \cup Odd : IsAnswer(Raw(s)) /\ Raw(s).status = s /\ Raw(s).err = "none"
    /\ \A e \in {"typed", "unknown", "internal"} : IsAnswer(Failed(e))
    /\ \A s \in {"302", "307"} \cup Odd : IsAnswer(Redirected(s))
<1>1. NoResponse \in Response({})
    BY DEF NoResponse, Response
<1>2. \A s \in Statuses \cup Odd : Raw(s) \in Response({}) /\ Raw(s).status = s /\ Raw(s).err = "none" /\ s # "none"
    BY DEF NoResponse, Response, Raw, Statuses, Odd
<1>3. \A e \in {"typed", "unknown", "internal"} : Failed(e) \in Response({}) /\ Failed(e).status # "none"
    BY DEF NoResponse, Response, Failed, Statuses
<1>4. \A s \in {"302", "307"} \cup Odd : Redirected(s) \in Response({}) /\ Redirected(s).status # "none"
    BY DEF NoResponse, Response, Raw, Redirected, Statuses, Odd
<1> QED
    BY <1>1, <1>2, <1>3, <1>4 DEF IsAnswer, IsResponse, NoResponse

\* What code makes of its own is a response, and so is what the error handler does.
LEMMA Made ==
    ASSUME NEW may, NEW r \in Fresh(may)
    PROVE  IsAnswer(r)
<1>1. CASE \E s \in may \cap ({"ok"} \cup Odd) : r = Raw(s)
    BY <1>1, Answered DEF Statuses
<1>2. CASE \E s \in {"302", "307"} \cup Odd : r = Redirected(s)
    BY <1>2, Answered
<1>3. CASE \E err \in {"typed", "unknown"} : r = Failed(err)
    BY <1>3, Answered
<1> QED
    BY <1>1, <1>2, <1>3 DEF Fresh

LEMMA Handled ==
    ASSUME NEW e, NEW r \in ErrorHandler(e)
    PROVE  IsAnswer(r) /\ IsAnswer([r EXCEPT !.mapped = TRUE]) /\ [r EXCEPT !.mapped = TRUE].mapped
<1>1. IsAnswer(r)
    BY Answered, Made DEF ErrorHandler, Statuses
<1>2. PICK H : r \in Response(H)
    BY <1>1 DEF IsAnswer, IsResponse
<1>3. /\ [r EXCEPT !.mapped = TRUE] \in Response(H) /\ [r EXCEPT !.mapped = TRUE].status = r.status
      /\ [r EXCEPT !.mapped = TRUE].mapped
    BY <1>2 DEF Response
<1> QED
    BY <1>1, <1>3 DEF IsAnswer, IsResponse

\* The error handler outside the pipeline: a new response, or the end of the connection.
LEMMA Maps ==
    ASSUME NEW err, NEW next, Map(err, next)
    PROVE  \/ phase' = next /\ IsAnswer(resp') /\ resp'.mapped /\ UNCHANGED raised
           \/ phase' = "dead" /\ UNCHANGED resp /\ raised' = "broken"
BY Handled DEF Map

\* A header changes nothing else.
LEMMA Headed ==
    ASSUME NEW r, IsResponse(r), NEW name
    PROVE  /\ IsResponse(WithHeader(r, name)) /\ WithHeader(r, name).status = r.status
           /\ IsResponse(Marked(r, name)) /\ Marked(r, name).status = r.status
<1>1. PICK H : r \in Response(H)
    BY DEF IsResponse
<1>2. WithHeader(r, name) \in Response(H \cup {name}) /\ WithHeader(r, name).status = r.status
    BY <1>1 DEF Response, WithHeader
<1> QED
    BY <1>1, <1>2 DEF IsResponse, Marked

\* What a callback leaves in the history.
LEMMA Noted ==
    ASSUME NEW S, trace \in Seq(S), NEW what, NEW name, Note(what, name)
    PROVE  /\ trace' \in Seq(S \cup {[what |-> what, name |-> name]})
           /\ \A n : WasEntered(n)' <=> WasEntered(n) \/ (what = "enter" /\ n = name)
<1> DEFINE e == [what |-> what, name |-> name]
<1>1. trace \in Seq(S \cup {e}) /\ trace' = Append(trace, e)
    BY DEF Note
<1>2. /\ trace' \in Seq(S \cup {e}) /\ Len(trace) \in Nat
      /\ DOMAIN trace = 1..Len(trace) /\ DOMAIN trace' = 1..(Len(trace) + 1)
      /\ trace'[Len(trace) + 1] = e
      /\ \A i \in 1..Len(trace) : trace'[i] = trace[i]
    BY <1>1
<1>3. ASSUME NEW n PROVE WasEntered(n)' <=> WasEntered(n) \/ (what = "enter" /\ n = name)
    BY <1>2 DEF WasEntered, Happened
<1> QED
    BY <1>2, <1>3

\* The history only grows.
Grown == (\E S : trace' \in Seq(S)) /\ \A n : WasEntered(n) => WasEntered(n)'

LEMMA Grows ==
    ASSUME TypeOK
    PROVE  /\ UNCHANGED trace => Grown /\ \A n : WasEntered(n)' <=> WasEntered(n)
           /\ \A what, name : Note(what, name) =>
                 Grown /\ \A n : WasEntered(n)' <=> WasEntered(n) \/ (what = "enter" /\ n = name)
<1>1. UNCHANGED trace => Grown /\ \A n : WasEntered(n)' <=> WasEntered(n)
    BY DEF TypeOK, Grown, WasEntered, Happened
<1>2. ASSUME NEW what, NEW name, Note(what, name)
      PROVE  Grown /\ \A n : WasEntered(n)' <=> WasEntered(n) \/ (what = "enter" /\ n = name)
    BY <1>2, Noted DEF TypeOK, Grown
<1> QED
    BY <1>1, <1>2

-----------------------------------------------------------------------------
(* The five ways a request gets on.                                           *)

LEMMA Returns ==
    ASSUME IInv, phase \in {"enter", "unwind"}, at > 0, NEW r, IsAnswer(r), Return(r), Grown
    PROVE  IInv'
<1>1. TypeOK'
    BY DEF IInv, TypeOK, Return, Grown, IsAnswer
<1>2. Written'
    BY DEF IInv, Written, Return, outcome, IsAnswer
<1>3. Entered'
    BY DEF IInv, TypeOK, Entered, Return, Grown
<1> QED
    BY <1>1, <1>2, <1>3 DEF IInv

LEMMA Raises ==
    ASSUME IInv, phase \in {"enter", "leave"}, at > 0, NEW v \in {"panic", "abort"}, Panic(v), Grown
    PROVE  IInv'
<1>1. TypeOK'
    BY DEF IInv, TypeOK, Panic, Grown
<1>2. Written'
    BY DEF IInv, Written, Panic, outcome
<1>3. Entered'
    BY DEF IInv, TypeOK, Entered, Panic, Grown
<1> QED
    BY <1>1, <1>2, <1>3 DEF IInv

LEMMA GoesOn ==
    ASSUME IInv, phase = "enter", at > 0, GoOn, Grown,
           \A n : chain[at].kind = "mw" /\ n = chain[at].name => WasEntered(n)'
    PROVE  IInv'
<1>1. TypeOK'
    BY DEF IInv, TypeOK, GoOn, flight, Grown
<1>2. Written'
    BY DEF IInv, Written, GoOn, outcome, flight, request
<1>3. Entered'
  <2>1. at \in Nat /\ at' = at + 1 /\ at' - 1 = at /\ phase' = "enter" /\ chain' = chain
    <3>1. at \in Nat /\ at' = at + 1 /\ UNCHANGED <<phase, chain>>
      BY DEF IInv, TypeOK, GoOn
    <3> QED
      BY <3>1
  <2>2. ASSUME NEW i \in 1..at, NEW n, chain[i].kind = "mw", n = chain[i].name PROVE WasEntered(n)'
    <3>1. CASE i = at
      BY <2>2, <3>1
    <3>2. CASE i # at
      <4>1. i \in 1..at - 1
        BY <2>1, <3>2
      <4>2. WasEntered(n)
        BY <2>2, <4>1 DEF IInv, Entered
      <4> QED
        BY <4>2 DEF Grown
    <3> QED
      BY <3>1, <3>2
  <2>3. \A i \in 1..at : chain'[i].kind = "mw" => WasEntered(chain[i].name)'
    BY <2>1, <2>2
  <2> QED
    BY <2>1, <2>3 DEF Entered
<1> QED
    BY <1>1, <1>2, <1>3 DEF IInv

LEMMA GoesOut ==
    ASSUME IInv, phase \in {"leave", "unwind"}, at > 0, Outward, UNCHANGED raised, Grown,
           IsResponse(resp'), resp.status # "none" => resp'.status # "none"
    PROVE  IInv'
<1>1. TypeOK'
    BY DEF IInv, TypeOK, Outward, Grown
<1>2. Written'
    BY DEF IInv, Written, Outward, outcome, request
<1>3. Entered'
    BY DEF IInv, TypeOK, Entered, Outward, Grown
<1> QED
    BY <1>1, <1>2, <1>3 DEF IInv

LEMMA Stays ==
    ASSUME IInv, UNCHANGED <<phase, at, chain, resp, raised, writes, logged, target>>, Grown
    PROVE  IInv'
<1>1. TypeOK'
    BY DEF IInv, TypeOK, Grown
<1>2. Written'
    BY DEF IInv, Written
<1>3. Entered'
    BY DEF IInv, TypeOK, Entered, Grown
<1> QED
    BY <1>1, <1>2, <1>3 DEF IInv

-----------------------------------------------------------------------------
LEMMA InitInv == Init => IInv
<1> SUFFICES ASSUME Init PROVE IInv
    OBVIOUS
<1>1. TypeOK
  <2>1. trace \in Seq({})
    BY DEF Init
  <2> QED
    BY <2>1, Answered DEF Init, TypeOK
<1>2. Written /\ Entered
    BY Answered DEF Init, Written, Entered
<1> QED
    BY <1>1, <1>2 DEF IInv

LEMMA ReceiveInv == IInv /\ Receive => IInv'
<1> SUFFICES ASSUME IInv, Receive PROVE IInv'
    OBVIOUS
<1>1. phase = "setup"
    BY DEF Receive, ServeRoute, ServeProbe, ServeOptions, ServeError, Invoke
<1>2. ASSUME NEW t, NEW c, NEW ms, Invoke(t, c, ms) PROVE IInv'
  <2>1. /\ phase' = "enter" /\ at' = 1 /\ UNCHANGED <<trace, resp, raised, writes, logged>>
    BY <1>2 DEF Invoke, flight, outcome
  <2>2. TypeOK'
    BY <2>1 DEF IInv, TypeOK
  <2>3. Written'
    BY <1>1, <2>1 DEF IInv, Written
  <2>4. Entered'
    BY <2>1 DEF Entered
  <2> QED
    BY <2>2, <2>3, <2>4 DEF IInv
<1>3. ASSUME NEW t, NEW status \in {"404", "405"}, ServeError(t, status) PROVE IInv'
  <2>1. resp' = Raw(status) /\ IsAnswer(Raw(status)) /\ Raw(status).err = "none"
    BY <1>3, Answered DEF ServeError, Statuses
  <2>2. TypeOK'
    BY <1>3, <2>1 DEF ServeError, IInv, TypeOK, IsAnswer
  <2>3. Written' /\ Entered'
    BY <1>3, <1>1, <2>1 DEF ServeError, IInv, Written, Entered, outcome, IsAnswer
  <2> QED
    BY <2>2, <2>3 DEF IInv
<1> QED
    BY <1>2, <1>3 DEF Receive, ServeRoute, ServeProbe, ServeOptions

LEMMA EnterInv == IInv /\ Enter => IInv'
<1> SUFFICES ASSUME IInv, Enter PROVE IInv'
    OBVIOUS
<1>1. phase = "enter" /\ at > 0
    BY DEF Enter, EnterTimeout, EnterLimit, EnterMW, CheckGuard, GuardsPass, RunCheck, Handle, Running
<1>2. TypeOK
    BY DEF IInv
<1>3. CASE EnterTimeout \/ EnterLimit \/ GuardsPass
    BY <1>1, <1>2, <1>3, Grows, GoesOn DEF EnterTimeout, EnterLimit, GuardsPass, Running
<1>4. CASE EnterMW
  <2>1. Grown /\ \A n : n = chain[at].name => WasEntered(n)'
    BY <1>2, <1>4, Grows DEF EnterMW
  <2>2. CASE GoOn
    BY <1>1, <2>1, <2>2, GoesOn
  <2>3. CASE Return(Marked(Raw("ok"), chain[at].name))
    <3>1. IsAnswer(Marked(Raw("ok"), chain[at].name))
      BY Answered, Headed DEF Statuses, IsAnswer
    <3> QED
      BY <1>1, <2>1, <2>3, <3>1, Returns
  <2>4. CASE \E r \in Fresh(UserMay) : Return(r)
    BY <1>1, <2>1, <2>4, Returns, Made
  <2>5. CASE \E value \in {"panic", "abort"} : Panic(value)
    BY <1>1, <2>1, <2>5, Raises
  <2> QED
    BY <1>4, <2>2, <2>3, <2>4, <2>5 DEF EnterMW, Panics
<1>5. CASE CheckGuard
  <2>1. Grown
    BY <1>2, <1>5, Grows DEF CheckGuard
  <2>2. CASE UNCHANGED <<app, request, phase, chain, at, flight, outcome>>
    BY <2>1, <2>2, Stays DEF request, flight, outcome
  <2>3. CASE \E err \in {"typed", "unknown"} : \E r \in ErrorHandler(err) : Return(r)
    BY <1>1, <2>1, <2>3, Returns, Handled
  <2>4. CASE \E value \in {"panic", "abort"} : Panic(value)
    BY <1>1, <2>1, <2>4, Raises
  <2> QED
    BY <1>5, <2>2, <2>3, <2>4 DEF CheckGuard, Panics
<1>6. CASE RunCheck
  <2>1. Grown
    BY <1>2, <1>6, Grows DEF RunCheck
  <2>2. CASE UNCHANGED <<app, request, phase, chain, at, flight, outcome>>
    BY <2>1, <2>2, Stays DEF request, flight, outcome
  <2>3. CASE \E value \in {"panic", "abort"} : Panic(value)
    BY <1>1, <2>1, <2>3, Raises
  <2> QED
    BY <1>6, <2>2, <2>3 DEF RunCheck
<1>7. CASE Handle
  <2>1. Grown
    BY <1>2, <1>7, Grows DEF Handle
  <2>2. IsAnswer(Readiness) /\ IsAnswer(Raw("ok"))
    BY Answered DEF Readiness, Statuses
  <2>3. CASE Return(IF chain[at].name = "ready" THEN Readiness ELSE Raw("ok"))
    BY <1>1, <2>1, <2>2, <2>3, Returns
  <2>4. CASE \E r \in Fresh(HandlerMay) : Return(r)
    BY <1>1, <2>1, <2>4, Returns, Made
  <2>5. CASE \E value \in {"panic", "abort"} : Panic(value)
    BY <1>1, <2>1, <2>5, Raises
  <2> QED
    BY <1>7, <2>3, <2>4, <2>5 DEF Handle, Panics
<1> QED
    BY <1>3, <1>4, <1>5, <1>6, <1>7 DEF Enter

LEMMA LeaveInv == IInv /\ Leave => IInv'
<1> SUFFICES ASSUME IInv, Leave PROVE IInv'
    OBVIOUS
<1>1. TypeOK /\ IsResponse(resp)
    BY DEF IInv, TypeOK
<1>2. CASE LeaveTimeout \/ LeavePlain
    BY <1>1, <1>2, Grows, GoesOut DEF LeaveTimeout, LeavePlain, Running, flight
<1>3. CASE LeaveMW
  <2>1. Grown /\ phase = "leave" /\ at > 0
    BY <1>1, <1>3, Grows DEF LeaveMW, Running
  <2>2. CASE resp' = Marked(resp, chain[at].name) /\ Outward /\ UNCHANGED raised
    BY <1>1, <2>1, <2>2, Headed, GoesOut
  <2>3. CASE resp' = WithHeader(resp, chain[at].name) /\ Outward /\ UNCHANGED raised
    BY <1>1, <2>1, <2>3, Headed, GoesOut
  <2>4. CASE resp' \in Fresh(UserMay) /\ Outward /\ UNCHANGED raised
    BY <1>1, <2>1, <2>4, Made, GoesOut DEF IsAnswer
  <2>5. CASE \E value \in {"panic", "abort"} : Panic(value)
    BY <2>1, <2>5, Raises
  <2> QED
    BY <1>3, <2>2, <2>3, <2>4, <2>5 DEF LeaveMW, Panics
<1>4. CASE UnwindMW
  <2>1. Grown /\ phase = "unwind" /\ at > 0
    BY <1>1, <1>4, Grows DEF UnwindMW, Running
  <2>2. CASE Return(Failed("internal"))
    BY <2>1, <2>2, Returns, Answered
  <2>3. CASE Outward /\ UNCHANGED flight
    BY <1>1, <2>1, <2>3, GoesOut DEF flight
  <2> QED
    BY <1>4, <2>2, <2>3 DEF UnwindMW
<1>5. CASE InvokeRecovers
  <2>1. phase = "unwind" /\ UNCHANGED <<at, chain, target, writes, logged, trace>>
    BY <1>5 DEF InvokeRecovers, request, outcome
  <2>2. \/ phase' = "dead" /\ resp' = resp
        \/ phase' = "leave" /\ IsResponse(resp') /\ resp'.status # "none" /\ raised' = raised
    BY <1>5, Maps DEF InvokeRecovers, flight, IsAnswer
  <2>3. TypeOK'
    BY <1>1, <2>1, <2>2 DEF TypeOK
  <2>4. Written'
    BY <2>1, <2>2 DEF IInv, Written
  <2>5. Entered'
    BY <2>1, <2>2 DEF IInv, Entered, WasEntered, Happened
  <2> QED
    BY <2>3, <2>4, <2>5 DEF IInv
<1> QED
    BY <1>2, <1>3, <1>4, <1>5 DEF Leave

LEMMA AnswerInv == IInv /\ Answer => IInv'
<1> SUFFICES ASSUME IInv, Answer PROVE IInv'
    OBVIOUS
<1>1. UNCHANGED <<at, chain, target, trace>> /\ phase' \in {"write", "log", "done", "dead"} /\ phase \in {"leave", "write", "log"}
    BY Maps DEF Answer, Boundary, Write, Log, request
<1>2. IsResponse(resp') /\ (resp.status # "none" => resp'.status # "none")
    BY Maps DEF Answer, Boundary, Write, Log, flight, IInv, TypeOK, IsAnswer
<1>3. TypeOK'
    BY <1>1, <1>2 DEF IInv, TypeOK
<1>4. Entered'
    BY <1>1 DEF Entered
<1>5. Written'
  <2>1. CASE Boundary
    <3>1. /\ phase = "leave" /\ UNCHANGED <<writes, logged>>
          /\ (phase' = "write" /\ raised' = raised) \/ phase' = "dead"
          /\ phase' = "write" /\ target # "options" /\ resp'.err # "none" => resp'.mapped
      BY <2>1, Maps DEF Boundary, outcome, flight
    <3> QED
      BY <1>1, <1>2, <3>1 DEF IInv, Written
  <2>2. CASE Write /\ resp.status # "invalid"
    <3>1. /\ phase = "write" /\ phase' = "log" /\ UNCHANGED <<resp, raised, target, logged>>
          /\ writes' = Append(writes, Wire(resp))
      BY <2>2 DEF Write, request
    <3>2. /\ writes = <<>> /\ logged = "none" /\ resp.status # "none" /\ raised # "broken"
          /\ target # "options" /\ resp.err # "none" => resp.mapped
      BY <3>1 DEF IInv, Written
    <3>3. writes' = <<Wire(resp)>> /\ Wire(resp)' = Wire(resp)
      BY <3>1, <3>2 DEF Wire, Sent
    <3> QED
      BY <3>1, <3>2, <3>3 DEF Written
  <2>3. CASE Write /\ resp.status = "invalid"
    BY <2>3 DEF Write, IInv, Written
  <2>4. CASE Log
    <3>1. /\ phase = "log" /\ phase' = "done" /\ UNCHANGED <<resp, raised, target, writes>>
          /\ logged' = resp.status /\ Wire(resp)' = Wire(resp)
      BY <2>4 DEF Log, flight, request, Wire, Sent
    <3>2. /\ writes = <<Wire(resp)>> /\ resp.status # "none" /\ raised # "broken"
          /\ target # "options" /\ resp.err # "none" => resp.mapped
      BY <3>1 DEF IInv, Written
    <3> QED
      BY <3>1, <3>2 DEF Written
  <2> QED
    BY <2>1, <2>2, <2>3, <2>4 DEF Answer
<1> QED
    BY <1>3, <1>4, <1>5 DEF IInv

LEMMA NextInv == IInv /\ [Next]_vars => IInv'
<1> SUFFICES ASSUME IInv, [Next]_vars PROVE IInv'
    OBVIOUS
<1>1. CASE SetUp \/ DeadlinePasses \/ Over \/ UNCHANGED vars
  <2>1. UNCHANGED <<phase, at, chain, resp, raised, writes, logged, target, trace>>
    BY <1>1 DEF SetUp, Use, AddGuard, Register, DeadlinePasses, Over, vars, request, flight, outcome
  <2> QED
    BY <2>1, Grows, Stays DEF IInv
<1> QED
    BY <1>1, ReceiveInv, EnterInv, LeaveInv, AnswerInv DEF Next

-----------------------------------------------------------------------------
\* Whatever is registered and whatever it does, no error of a registered route reaches the client other
\* than through the error handler (bast.go 271-276, 290-305).
THEOREM RouteErrorsMappedAlways == Spec => []RouteErrorsMapped
<1>1. IInv => RouteErrorsMapped
  <2> SUFFICES ASSUME IInv, target # "options", NEW i \in DOMAIN writes, writes[i].err # "none"
               PROVE  writes[i].mapped
    BY DEF RouteErrorsMapped
  <2>1. IsResponse(resp)
    BY DEF IInv, TypeOK
  <2>2. CASE phase \in {"log", "done"}
    <3>1. writes = <<Wire(resp)>> /\ (resp.err # "none" => resp.mapped)
      BY <2>2 DEF IInv, Written
    <3>2. writes[i] = Wire(resp)
      BY <3>1
    <3>3. Wire(resp).mapped = resp.mapped /\ Wire(resp).err = resp.err
      BY <2>1 DEF Wire, IsResponse, Response
    <3> QED
      BY <3>1, <3>2, <3>3
  <2>3. CASE phase \notin {"log", "done"}
    <3>1. writes = <<>>
      BY <2>3 DEF IInv, Written
    <3> QED
      BY <3>1
  <2> QED
    BY <2>2, <2>3
<1> QED
    BY InitInv, NextInv, <1>1, PTL DEF Spec

-----------------------------------------------------------------------------
(* What Exchange sees of a request.                                           *)
Got == IF writes = <<>> THEN "none" ELSE Last(writes).status
Aborting == raised \in {"abort", "broken"} /\ phase \in {"unwind", "dead"}
Certain == writes = <<>> \/ resp.status \notin {"0", "early"}
Shielded == \E j \in DOMAIN trace, m \in Recovers : Happened(j, "enter", m)
Held == Shielded' <=> Shielded

LEMMA ShieldedWhen == Shielded <=> \E m \in Recovers : WasEntered(m)
BY DEF Shielded, WasEntered

\* Only the entry of a Recover shields.
LEMMA Holds ==
    ASSUME TypeOK
    PROVE  /\ UNCHANGED trace => Held
           /\ \A what, name : Note(what, name) /\ (what = "enter" => name \notin Recovers) => Held
           /\ \A name : Note("enter", name) /\ name \in Recovers => Shielded'
<1>1. Shielded' <=> \E m \in Recovers : WasEntered(m)'
    BY DEF Shielded, WasEntered
<1> QED
    BY <1>1, ShieldedWhen, Grows DEF Held

\* A step that leaves answer, log, abort, shield and connection alone is a stutter of Exchange.
LEMMA Quietly ==
    ASSUME UNCHANGED <<writes, logged>>, writes = <<>> \/ UNCHANGED resp,
           Held, Aborting' <=> Aborting, phase' = "dead" <=> phase = "dead"
    PROVE  UNCHANGED E!vars
<1>1. /\ Aborting' = Aborting /\ Shielded' = Shielded /\ (phase = "dead")' = (phase = "dead")
      /\ Got' = Got /\ Certain' = Certain
    BY DEF Held, Got, Certain
<1> QED
    BY <1>1 DEF E!vars, Got, Aborting, Shielded, Certain

LEMMA Starts == Init => E!Init
<1> SUFFICES ASSUME Init PROVE E!Init
    OBVIOUS
<1>1. Got = "none" /\ logged = "none" /\ ~Aborting /\ ~Shielded /\ phase # "dead" /\ Certain = TRUE
    BY DEF Init, Got, Aborting, Shielded, Certain
<1> QED
    BY <1>1 DEF E!Init, Got, Aborting, Shielded, Certain

\* A panic out of a callback that had not panicked: an abort, or nothing Exchange sees.
LEMMA PanicsOut ==
    ASSUME IInv, phase \in {"enter", "leave"}, NEW v \in {"panic", "abort"}, Panic(v), Held
    PROVE  [E!Next]_E!vars
<1>1. /\ UNCHANGED <<writes, logged>> /\ phase' = "unwind" /\ raised' = v /\ ~Aborting
      /\ writes = <<>> /\ logged = "none"
    BY DEF Panic, outcome, Aborting, IInv, Written
<1>2. CASE v # "abort"
  <2>1. UNCHANGED E!vars
    BY <1>1, <1>2, Quietly DEF Aborting
  <2> QED
    BY <2>1
<1>3. CASE v = "abort"
  <2>1. /\ Aborting' = TRUE /\ Shielded' = Shielded /\ (phase = "dead")' = (phase = "dead")
        /\ Got' = Got /\ Certain' = Certain
    BY <1>1, <1>3 DEF Aborting, Held, Got, Certain
  <2>2. E!Abort
    BY <1>1, <2>1 DEF E!Abort, E!Open, Got, Aborting, Shielded, Certain
  <2> QED
    BY <2>2 DEF E!Next
<1> QED
    BY <1>2, <1>3

\* The connection is closed without an answer.
LEMMA Drops ==
    ASSUME writes = <<>>, logged = "none", UNCHANGED <<writes, logged>>, Held,
           phase # "dead", phase' = "dead", raised' \in {"abort", "broken"}
    PROVE  E!Next
<1>1. /\ Aborting' = TRUE /\ (phase = "dead")' = TRUE /\ Shielded' = Shielded
      /\ Got' = Got /\ Certain' = Certain
    BY DEF Aborting, Held, Got, Certain
<1>2. E!Drop
    BY <1>1 DEF E!Drop, E!Open, Got, Aborting, Shielded, Certain
<1> QED
    BY <1>2 DEF E!Next

LEMMA EnterRefines == IInv /\ Enter => [E!Next]_E!vars
<1> SUFFICES ASSUME IInv, Enter PROVE [E!Next]_E!vars
    OBVIOUS
<1>1. TypeOK /\ phase = "enter" /\ ~Aborting /\ writes = <<>> /\ logged = "none"
    BY DEF IInv, Written, Enter, EnterTimeout, EnterLimit, EnterMW, CheckGuard, GuardsPass, RunCheck, Handle, Running, Aborting
<1>2. ASSUME Held, UNCHANGED <<writes, logged>>, phase' \in {"enter", "leave"} PROVE UNCHANGED E!vars
    BY <1>1, <1>2, Quietly DEF Aborting
<1>3. ASSUME NEW r, Return(r), Held PROVE UNCHANGED E!vars
    BY <1>2, <1>3 DEF Return, outcome
<1>4. CASE EnterTimeout \/ EnterLimit \/ GuardsPass
    BY <1>1, <1>2, <1>4, Holds DEF EnterTimeout, EnterLimit, GuardsPass, GoOn, outcome
<1>5. CASE EnterMW /\ chain[at].name \in Recovers
  <2>1. GoOn /\ Shielded'
    BY <1>1, <1>5, Holds, ServeAssumption DEF EnterMW, AnsweredByCors, Other
  <2>2. UNCHANGED <<writes, logged, phase>>
    BY <2>1 DEF GoOn, outcome
  <2>3. /\ Shielded' = TRUE /\ Aborting' = Aborting /\ (phase = "dead")' = (phase = "dead")
        /\ Got' = Got /\ Certain' = Certain
    BY <1>1, <2>1, <2>2 DEF Aborting, Got, Certain
  <2>4. E!Shield
    BY <1>1, <2>2, <2>3 DEF E!Shield, E!Open, Got, Aborting, Shielded, Certain
  <2> QED
    BY <2>4 DEF E!Next
<1>6. CASE EnterMW /\ chain[at].name \notin Recovers
  <2>1. Held
    BY <1>1, <1>6, Holds DEF EnterMW
  <2>2. CASE GoOn
    BY <1>1, <1>2, <2>1, <2>2 DEF GoOn, outcome
  <2>3. CASE \E r : Return(r)
    BY <1>3, <2>1, <2>3
  <2>4. CASE \E v \in {"panic", "abort"} : Panic(v)
    BY <1>1, <2>1, <2>4, PanicsOut
  <2> QED
    BY <1>6, <2>2, <2>3, <2>4 DEF EnterMW, Panics
<1>7. CASE CheckGuard \/ RunCheck \/ Handle
  <2>1. Held
    BY <1>1, <1>7, Holds DEF CheckGuard, RunCheck, Handle
  <2>2. CASE UNCHANGED <<app, request, phase, chain, at, flight, outcome>>
    BY <1>1, <1>2, <2>1, <2>2 DEF outcome
  <2>3. CASE \E r : Return(r)
    BY <1>3, <2>1, <2>3
  <2>4. CASE \E v \in {"panic", "abort"} : Panic(v)
    BY <1>1, <2>1, <2>4, PanicsOut
  <2> QED
    BY <1>7, <2>2, <2>3, <2>4 DEF CheckGuard, RunCheck, Handle, Panics
<1> QED
    BY <1>4, <1>5, <1>6, <1>7 DEF Enter

LEMMA LeaveRefines == IInv /\ Leave => [E!Next]_E!vars
<1> SUFFICES ASSUME IInv, Leave PROVE [E!Next]_E!vars
    OBVIOUS
<1>1. TypeOK /\ phase \in {"leave", "unwind"} /\ logged = "none" /\ writes = <<>>
    BY DEF IInv, Written, Leave, LeaveTimeout, LeavePlain, LeaveMW, UnwindMW, InvokeRecovers, Running
<1>2. ASSUME Held, Outward, UNCHANGED raised PROVE UNCHANGED E!vars
    BY <1>1, <1>2, Quietly DEF Aborting, Outward, outcome
<1>3. CASE LeaveTimeout \/ LeavePlain
    BY <1>1, <1>2, <1>3, Holds DEF LeaveTimeout, LeavePlain, flight
<1>4. CASE LeaveMW
  <2>1. Held /\ phase = "leave"
    BY <1>1, <1>4, Holds DEF LeaveMW, Running
  <2>2. CASE Outward /\ UNCHANGED raised
    BY <1>2, <2>1, <2>2
  <2>3. CASE \E v \in {"panic", "abort"} : Panic(v)
    BY <2>1, <2>3, PanicsOut
  <2> QED
    BY <1>4, <2>2, <2>3 DEF LeaveMW, Panics
<1>5. CASE UnwindMW
  <2>1. Held /\ phase = "unwind" /\ at > 0 /\ chain[at].kind = "mw"
    BY <1>1, <1>5, Holds DEF UnwindMW, Running
  <2>2. CASE chain[at].name \notin Recovers
    BY <1>2, <1>5, <2>1, <2>2 DEF UnwindMW, flight
  <2>3. CASE chain[at].name \in Recovers
    <3>1. phase' = "leave" /\ UNCHANGED <<writes, logged, raised>>
      BY <1>5, <2>3 DEF UnwindMW, Return, outcome
    <3>2. CASE ~Aborting
      BY <1>1, <2>1, <3>1, <3>2, Quietly DEF Aborting
    <3>3. CASE Aborting
      <4>1. at \in 1..at
        BY <1>1, <2>1 DEF TypeOK
      <4>2. Shielded
        BY <2>1, <2>3, <4>1, ShieldedWhen DEF IInv, Entered
      <4>3. /\ Aborting = TRUE /\ Aborting' = FALSE /\ Shielded = TRUE /\ Shielded' = TRUE
            /\ Got' = Got /\ Certain' = Certain
            /\ (phase = "dead")' = (phase = "dead") /\ phase # "dead"
        BY <1>1, <2>1, <3>1, <3>3, <4>2 DEF Aborting, Held, Got, Certain
      <4>4. E!Swallow
        BY <1>1, <3>1, <4>3 DEF E!Swallow, E!Open, Got, Aborting, Shielded, Certain
      <4> QED
        BY <4>4 DEF E!Next
    <3> QED
      BY <3>2, <3>3
  <2> QED
    BY <2>2, <2>3
<1>6. CASE InvokeRecovers
  <2>1. Held /\ phase = "unwind" /\ UNCHANGED <<writes, logged>>
    BY <1>1, <1>6, Holds DEF InvokeRecovers, outcome
  <2>2. CASE phase' = "leave" /\ raised' = raised /\ raised # "abort"
    <3>1. raised # "broken"
      BY <2>1 DEF IInv, Written
    <3> QED
      BY <1>1, <2>1, <2>2, <3>1, Quietly DEF Aborting
  <2>3. CASE phase' = "dead" /\ raised' \in {"abort", "broken"}
    BY <1>1, <2>1, <2>3, Drops
  <2> QED
    BY <1>6, <2>2, <2>3, Maps DEF InvokeRecovers, flight
<1> QED
    BY <1>3, <1>4, <1>5, <1>6 DEF Leave

LEMMA AnswerRefines == IInv /\ Answer => [E!Next]_E!vars
<1> SUFFICES ASSUME IInv, Answer PROVE [E!Next]_E!vars
    OBVIOUS
<1>1. /\ TypeOK /\ phase \in {"leave", "write", "log"} /\ UNCHANGED trace /\ logged = "none"
    BY DEF IInv, Written, Answer, Boundary, Write, Log
<1>2. Held /\ ~Aborting /\ phase # "dead"
    BY <1>1, Holds DEF Aborting
<1>3. ASSUME phase' \in {"write", "log", "done"}
      PROVE  Aborting' = Aborting /\ Shielded' = Shielded /\ (phase = "dead")' = (phase = "dead")
  <2>1. Aborting' = Aborting
    BY <1>2, <1>3 DEF Aborting
  <2>2. Shielded' = Shielded
    BY <1>2 DEF Held, Shielded
  <2>3. (phase = "dead")' = (phase = "dead")
    BY <1>2, <1>3
  <2> QED
    BY <2>1, <2>2, <2>3
<1>4. CASE Boundary
  <2>1. writes = <<>> /\ logged = "none" /\ UNCHANGED <<writes, logged>>
    BY <1>4 DEF Boundary, outcome, IInv, Written
  <2>2. CASE phase' = "write"
    BY <1>2, <2>1, <2>2, Quietly DEF Aborting
  <2>3. CASE phase' = "dead" /\ raised' = "broken"
    BY <1>2, <2>1, <2>3, Drops
  <2> QED
    BY <1>4, <2>2, <2>3, Maps DEF Boundary
<1>5. CASE Write /\ resp.status # "invalid"
  <2>1. phase = "write" /\ phase' = "log" /\ writes' = Append(writes, Wire(resp)) /\ UNCHANGED logged
    BY <1>5 DEF Write
  <2>2. writes = <<>> /\ resp.status # "none" /\ IsResponse(resp)
    BY <2>1 DEF IInv, TypeOK, Written
  <2>3. writes' = <<Wire(resp)>> /\ writes' # <<>> /\ Last(writes') = Wire(resp)
    BY <2>1, <2>2 DEF Last
  <2>4. Got = "none" /\ Got' \in Statuses
    <3>1. Got = "none" /\ Got' = Wire(resp).status
      BY <2>2, <2>3 DEF Got
    <3>2. Wire(resp).status = Sent(resp)
      BY <2>2 DEF Wire, IsResponse, Response
    <3>3. Sent(resp) \in Statuses
      BY <1>5, <2>2 DEF Sent, IsResponse, Response, Statuses, Odd
    <3> QED
      BY <3>1, <3>2, <3>3
  <2>5. Certain' \in BOOLEAN
    BY DEF Certain
  <2>6. E!Answer
    BY <1>1, <1>2, <1>3, <2>1, <2>4, <2>5 DEF E!Answer, E!Open, Got, Aborting, Shielded, Certain, Statuses
  <2> QED
    BY <2>6 DEF E!Next
<1>6. CASE Write /\ resp.status = "invalid"
  <2>1. writes = <<>> /\ UNCHANGED <<writes, logged>> /\ phase' = "dead" /\ raised' = "broken"
    BY <1>6 DEF Write, IInv, Written
  <2> QED
    BY <1>1, <1>2, <2>1, Drops
<1>7. CASE Log
  <2>1. phase = "log" /\ phase' = "done" /\ logged' = resp.status /\ UNCHANGED <<writes, resp>>
    BY <1>7 DEF Log, flight
  <2>2. writes = <<Wire(resp)>> /\ resp.status # "none" /\ IsResponse(resp)
    BY <2>1 DEF IInv, TypeOK, Written
  <2>3. Got = Sent(resp) /\ Got' = Got /\ Certain' = Certain /\ Certain = (resp.status \notin {"0", "early"})
    <3>1. writes # <<>> /\ Last(writes) = Wire(resp)
      BY <2>2 DEF Last
    <3>2. Wire(resp).status = Sent(resp)
      BY <2>2 DEF Wire, IsResponse, Response
    <3> QED
      BY <2>1, <3>1, <3>2 DEF Got, Certain
  <2>4. Got # "none" /\ logged' \in IF Certain THEN {Got} ELSE Statuses \cup {"0", "early"}
    BY <2>1, <2>2, <2>3 DEF Sent, IsResponse, Response, Statuses, Odd
  <2>5. E!Log
    BY <1>1, <1>2, <1>3, <2>1, <2>3, <2>4 DEF E!Log, E!Open, Got, Aborting, Shielded, Certain, Statuses
  <2> QED
    BY <2>5 DEF E!Next
<1> QED
    BY <1>4, <1>5, <1>6, <1>7 DEF Answer

LEMMA NextRefines == IInv /\ [Next]_vars => [E!Next]_E!vars
<1> SUFFICES ASSUME IInv, [Next]_vars PROVE [E!Next]_E!vars
    OBVIOUS
<1>1. CASE SetUp \/ DeadlinePasses \/ Over \/ UNCHANGED vars
  <2>1. UNCHANGED <<phase, raised, writes, logged, resp, trace>>
    BY <1>1 DEF SetUp, Use, AddGuard, Register, DeadlinePasses, Over, vars, flight, outcome
  <2>2. UNCHANGED E!vars
    BY <2>1, Holds, Quietly DEF IInv, Aborting
  <2> QED
    BY <2>2
<1>2. CASE Receive
  <2>1. /\ phase = "setup" /\ phase' \in {"enter", "write"}
        /\ UNCHANGED <<writes, logged, trace>> /\ writes = <<>>
    BY <1>2 DEF Receive, ServeRoute, ServeProbe, ServeOptions, ServeError, Invoke, outcome, IInv, Written
  <2>2. UNCHANGED E!vars
    BY <2>1, Holds, Quietly DEF IInv, Aborting
  <2> QED
    BY <2>2
<1> QED
    BY <1>1, <1>2, EnterRefines, LeaveRefines, AnswerRefines DEF Next

\* Whatever middleware, guards, checks, handlers and the error handler do, a request is an exchange: one
\* status on the wire, the same one in the log unless that of the response is 0 or 1xx, and no panic
\* unanswered but an abort, one of the error handler outside the pipeline, and net/http's for a status
\* that is none (bast.go 232-284, 287-305, response_write.go 32-69).
THEOREM ServeIsExchange == Spec => Exchanged
<1> QED
    BY InitInv, NextInv, Starts, NextRefines, PTL DEF Spec, Exchanged, E!Spec

-----------------------------------------------------------------------------
(* Guards gate the handler.                                                   *)

Levelled(s) == \A k, l \in 1..Len(s) : k <= l => RankGuard(s[k]) <= RankGuard(s[l])

\* What registerRoute leaves: sequences, the guards of module and route among them, level by level.
Registered ==
    /\ \E S : mws \in Seq(S)
    /\ guards \in Seq(GlobalGuards)
    /\ \E S : route.mw \in Seq(S)
    /\ \E S : route.guards \in Seq(S)
    /\ route.registered =>
          /\ ToSet(ModuleGuards) \cup ToSet(RouteGuards) \subseteq ToSet(route.guards)
          /\ Levelled(route.guards)

\* A pipeline ends in the handler; what stands before a user's handler are the guards of its route, if any.
Piped(c, t) ==
    /\ \E S : c \in Seq(S)
    /\ Len(c) > 0
    /\ \A i \in 1..Len(c) : c[i].kind = "handler" <=> i = Len(c)
    /\ t = "route" <=> c[Len(c)].name = "user"
    /\ t = "route" =>
          /\ route.registered
          /\ route.guards # <<>> => Len(c) > 1 /\ c[Len(c) - 1].kind = "guards"
    /\ \A i \in 1..Len(c) : c[i].kind = "guards" => t = "route"

\* On the way in no guard has objected, and those before `check' have passed, in their order.
Passing ==
    /\ \A j \in DOMAIN trace : trace[j].what \notin {"handler", "blocked"}
    /\ \A j \in DOMAIN trace : trace[j].what = "passed" =>
          target = "route" /\ \E k \in 1..Len(route.guards) : k < check /\ trace[j].name = route.guards[k]
    /\ target = "route" => \A k \in 1..Len(route.guards) : k < check =>
          \E j \in DOMAIN trace : Happened(j, "passed", route.guards[k])
    /\ \A i \in 1..at - 1 : chain[i].kind = "guards" => check > Len(route.guards)

GInv ==
    /\ Registered
    /\ check \in Nat \ {0}
    /\ phase = "setup" => trace = <<>> /\ check = 1
    /\ phase = "enter" => Piped(chain, target) /\ at \in 1..Len(chain) /\ Passing
    /\ GuardsGateHandler

-----------------------------------------------------------------------------
\* Two sequences one after the other.
LEMMA Joined ==
    ASSUME NEW S, NEW s \in Seq(S), NEW t \in Seq(S)
    PROVE  /\ s \o t \in Seq(S) /\ Len(s \o t) = Len(s) + Len(t)
           /\ Len(s) \in Nat /\ Len(t) \in Nat
           /\ \A i \in 1..Len(s) : (s \o t)[i] = s[i]
           /\ \A i \in 1..Len(t) : (s \o t)[Len(s) + i] = t[i]
OBVIOUS

LEMMA Ranks == \A g : RankGuard(g) \in {1, 2, 3}
BY DEF RankGuard

\* The three lists that registerRoute concatenates.
LEMMA Concatenated ==
    ASSUME NEW G \in Seq(GlobalGuards)
    PROVE  LET all == G \o ModuleGuards \o RouteGuards
           IN  /\ all \in Seq(Guard)
               /\ ToSet(ModuleGuards) \cup ToSet(RouteGuards) \subseteq ToSet(all)
               /\ Levelled(all)
<1> DEFINE M == ModuleGuards
           R == RouteGuards
           all == G \o M \o R
<1>1. M \in Seq(ToSet(M)) /\ R \in Seq(ToSet(R))
    BY ServeAssumption
<1>2. G \in Seq(Guard) /\ M \in Seq(Guard) /\ R \in Seq(Guard)
    BY <1>1 DEF Guard
<1>3. /\ \A k \in 1..Len(G) : RankGuard(G[k]) = 1
      /\ \A k \in 1..Len(M) : M[k] \in ToSet(M) /\ RankGuard(M[k]) = 2
      /\ \A k \in 1..Len(R) : R[k] \in ToSet(R) /\ RankGuard(R[k]) = 3
  <2>1. \A k \in 1..Len(G) : G[k] \in GlobalGuards
    OBVIOUS
  <2>2. \A k \in 1..Len(M) : M[k] \in ToSet(M)
    BY <1>1
  <2>3. \A k \in 1..Len(R) : R[k] \in ToSet(R)
    BY <1>1
  <2> QED
    BY <2>1, <2>2, <2>3, LevelsAssumption DEF RankGuard
<1> HIDE DEF M, R
<1>4. /\ all \in Seq(Guard) /\ Len(all) = Len(G) + Len(M) + Len(R)
      /\ \A k \in 1..Len(all) : all[k] = IF k <= Len(G) THEN G[k]
                                         ELSE IF k <= Len(G) + Len(M) THEN M[k - Len(G)]
                                         ELSE R[k - Len(G) - Len(M)]
    BY <1>2
<1>5. Levelled(all)
  <2> SUFFICES ASSUME NEW k \in 1..Len(all), NEW l \in 1..Len(all), k <= l
               PROVE  RankGuard(all[k]) <= RankGuard(all[l])
    BY DEF Levelled
  <2>1. Len(G) \in Nat /\ Len(M) \in Nat /\ Len(R) \in Nat
    BY <1>2
  <2> HIDE DEF all
  <2>2. CASE l <= Len(G)
    BY <1>3, <1>4, <2>1, <2>2
  <2>3. CASE l > Len(G) /\ l <= Len(G) + Len(M)
    <3>1. l - Len(G) \in 1..Len(M) /\ RankGuard(all[l]) = 2
      BY <1>3, <1>4, <2>1, <2>3
    <3>2. RankGuard(all[k]) \in {1, 2}
      <4>1. CASE k <= Len(G)
        BY <1>3, <1>4, <2>1, <4>1
      <4>2. CASE k > Len(G)
        BY <1>3, <1>4, <2>1, <2>3, <4>2
      <4> QED
        BY <2>1, <4>1, <4>2
    <3> QED
      BY <3>1, <3>2
  <2>4. CASE l > Len(G) + Len(M)
    <3> DEFINE i == l - Len(G) - Len(M)
    <3>1. i \in 1..Len(R) /\ ~(l <= Len(G)) /\ ~(l <= Len(G) + Len(M))
      BY <1>4, <2>1, <2>4
    <3>2. all[l] = R[i]
      BY <1>4, <3>1
    <3> HIDE DEF i
    <3>3. RankGuard(all[l]) = 3
      BY <1>3, <3>1, <3>2
    <3> QED
      BY <3>3, Ranks
  <2> QED
    BY <2>1, <2>2, <2>3, <2>4
<1>6. ASSUME NEW g \in ToSet(M) \cup ToSet(R) PROVE g \in ToSet(all)
  <2>1. Len(G) \in Nat /\ Len(M) \in Nat /\ Len(R) \in Nat /\ DOMAIN all = 1..Len(all)
    BY <1>2, <1>4
  <2>2. CASE g \in ToSet(M)
    <3>1. PICK k \in 1..Len(M) : g = M[k]
      BY <1>2, <2>2 DEF ToSet
    <3>2. Len(G) + k \in DOMAIN all /\ all[Len(G) + k] = g
      BY <1>4, <2>1, <3>1
    <3> QED
      BY <3>2 DEF ToSet
  <2>3. CASE g \in ToSet(R)
    <3>1. PICK k \in 1..Len(R) : g = R[k]
      BY <1>2, <2>3 DEF ToSet
    <3> DEFINE i == Len(G) + Len(M) + k
    <3>2. i \in 1..Len(all) /\ ~(i <= Len(G)) /\ ~(i <= Len(G) + Len(M)) /\ i - Len(G) - Len(M) = k
      BY <1>4, <2>1, <3>1
    <3> HIDE DEF i, all
    <3>3. all[i] = g
      BY <1>4, <3>1, <3>2
    <3> QED
      BY <2>1, <3>2, <3>3 DEF ToSet
  <2> QED
    BY <2>2, <2>3
<1> QED
    BY <1>4, <1>5, <1>6 DEF M, R

\* What is wrapped around a pipeline neither gates nor handles.
LEMMA Wrapped ==
    ASSUME NEW c, NEW t, Piped(c, t), NEW S, NEW w \in Seq(S),
           \A i \in 1..Len(w) : w[i].kind \notin {"handler", "guards"}
    PROVE  Piped(w \o c, t)
<1>1. PICK T : c \in Seq(T)
    BY DEF Piped
<1> DEFINE d == w \o c
<1>2. w \in Seq(S \cup T) /\ c \in Seq(S \cup T)
    BY <1>1
<1>3. /\ d \in Seq(S \cup T) /\ Len(d) = Len(w) + Len(c) /\ Len(w) \in Nat /\ Len(c) \in Nat
      /\ \A i \in 1..Len(w) : d[i] = w[i]
      /\ \A i \in 1..Len(c) : d[Len(w) + i] = c[i]
    BY <1>2, Joined
<1> HIDE DEF d
<1>4. Len(c) > 0 /\ d[Len(d)] = c[Len(c)]
  <2>1. Len(c) > 0
    BY DEF Piped
  <2>2. Len(c) \in 1..Len(c)
    BY <1>3, <2>1
  <2> QED
    BY <1>3, <2>1, <2>2
<1>5. ASSUME NEW i \in 1..Len(d)
      PROVE  \/ i \in 1..Len(w) /\ i # Len(d) /\ d[i].kind \notin {"handler", "guards"}
             \/ \E k \in 1..Len(c) : d[i] = c[k] /\ (i = Len(d) <=> k = Len(c))
  <2>1. CASE i <= Len(w)
    <3>1. i \in 1..Len(w) /\ i # Len(d)
      BY <1>3, <1>4, <2>1
    <3> QED
      BY <1>3, <3>1
  <2>2. CASE i > Len(w)
    <3> DEFINE k == i - Len(w)
    <3>1. k \in 1..Len(c) /\ i = Len(w) + k /\ (i = Len(d) <=> k = Len(c))
      BY <1>3, <2>2
    <3>2. d[i] = c[k]
      BY <1>3, <3>1
    <3> HIDE DEF k
    <3> QED
      BY <3>1, <3>2
  <2> QED
    BY <1>3, <2>1, <2>2
<1>6. \A i \in 1..Len(d) : d[i].kind = "handler" <=> i = Len(d)
    BY <1>5 DEF Piped
<1>7. \A i \in 1..Len(d) : d[i].kind = "guards" => t = "route"
    BY <1>5 DEF Piped
<1>8. Len(c) > 1 => Len(d) > 1 /\ d[Len(d) - 1] = c[Len(c) - 1]
  <2> SUFFICES ASSUME Len(c) > 1 PROVE Len(d) > 1 /\ d[Len(d) - 1] = c[Len(c) - 1]
    OBVIOUS
  <2>1. Len(c) - 1 \in 1..Len(c) /\ Len(d) - 1 = Len(w) + (Len(c) - 1) /\ Len(d) > 1
    BY <1>3
  <2> QED
    BY <1>3, <2>1
<1>9. \E U : d \in Seq(U)
    BY <1>3
<1>10. Len(d) > 0
    BY <1>3, <1>4
<1> QED
    BY <1>4, <1>6, <1>7, <1>8, <1>9, <1>10 DEF Piped, d

\* Middleware wraps a pipeline into one.
LEMMA Layered ==
    ASSUME NEW c, NEW t, Piped(c, t), NEW ms, \E S : ms \in Seq(S)
    PROVE  Piped(BuildPipeline(c, ms), t)
<1>1. PICK S : ms \in Seq(S)
    OBVIOUS
<1> DEFINE F == {Frame("mw", m) : m \in S}
           b == [i \in DOMAIN ms |-> Frame("mw", ms[i])]
<1>2. b \in Seq(F) /\ Len(b) = Len(ms) /\ \A i \in 1..Len(b) : b[i] = Frame("mw", ms[i])
    BY <1>1
<1>3. \A i \in 1..Len(b) : b[i].kind \notin {"handler", "guards"}
    BY <1>2 DEF Frame
<1> HIDE DEF b, F
<1>4. Piped(b \o c, t)
    BY <1>2, <1>3, Wrapped
<1> QED
    BY <1>4 DEF BuildPipeline, b

\* Sequences of one and two frames.
LEMMA Few ==
    ASSUME NEW e, NEW f
    PROVE  /\ <<e>> \in Seq({e}) /\ Len(<<e>>) = 1 /\ <<e>>[1] = e
           /\ <<e, f>> \in Seq({e, f}) /\ Len(<<e, f>>) = 2 /\ <<e, f>>[1] = e /\ <<e, f>>[2] = f
OBVIOUS

\* A handler alone; a handler behind its guards; and what registerRoute makes of them.
LEMMA Bare ==
    ASSUME NEW h, h \notin {"user", "route"}
    PROVE  Piped(<<Frame("handler", h)>>, h) /\ Piped(<<Frame("handler", h)>>, "options")
<1> DEFINE c == <<Frame("handler", h)>>
<1>1. c \in Seq({Frame("handler", h)}) /\ Len(c) = 1 /\ c[1] = Frame("handler", h)
    BY Few
<1>2. Frame("handler", h).kind = "handler" /\ Frame("handler", h).name = h
    BY DEF Frame
<1> HIDE DEF c
<1>3. \E S : c \in Seq(S)
    BY <1>1
<1>4. Piped(c, h) /\ Piped(c, "options")
    BY <1>1, <1>2, <1>3 DEF Piped
<1> QED
    BY <1>4 DEF c

LEMMA Behind ==
    ASSUME route.registered
    PROVE  Piped(Guarded(route), "route")
<1> DEFINE g == Frame("guards", "all")
           h == Frame("handler", "user")
<1>1. g.kind = "guards" /\ h.kind = "handler" /\ h.name = "user"
    BY DEF Frame
<1> HIDE DEF g, h
<1>2. CASE route.guards = <<>>
  <2> DEFINE c == <<h>>
  <2>1. c \in Seq({h}) /\ Len(c) = 1 /\ c[1] = h
    BY Few
  <2>2. c = Guarded(route)
    BY <1>2 DEF Guarded, h
  <2> HIDE DEF c
  <2>3. \E S : c \in Seq(S)
    BY <2>1
  <2>4. Piped(c, "route")
    BY <1>1, <1>2, <2>1, <2>3 DEF Piped
  <2> QED
    BY <2>2, <2>4
<1>3. CASE route.guards # <<>>
  <2> DEFINE c == <<g, h>>
  <2>1. c \in Seq({g, h}) /\ Len(c) = 2 /\ c[1] = g /\ c[2] = h
    BY Few
  <2>2. c = Guarded(route)
    BY <1>3 DEF Guarded, g, h
  <2> HIDE DEF c
  <2>3. \E S : c \in Seq(S)
    BY <2>1
  <2>4. Piped(c, "route")
    BY <1>1, <2>1, <2>3 DEF Piped
  <2> QED
    BY <2>2, <2>4
<1> QED
    BY <1>2, <1>3

LEMMA PipelinePiped ==
    ASSUME route.registered, Registered
    PROVE  Piped(Pipeline(route), "route")
<1> DEFINE t == Frame("timeout", "route")
           l == Frame("limit", "route")
<1>1. Piped(BuildPipeline(Guarded(route), route.mw), "route")
    BY Behind, Layered DEF Registered
<1>2. t.kind = "timeout" /\ l.kind = "limit"
    BY DEF Frame
<1>3. \E v, w \in {<<>>, <<t>>, <<l>>} : Wraps = v \o w
    BY DEF Wraps
<1> HIDE DEF t, l
<1>4. Wraps \in Seq({t, l}) /\ \A i \in 1..Len(Wraps) : Wraps[i] \in {t, l}
  <2>1. <<>> \in Seq({t, l}) /\ <<t>> \in Seq({t, l}) /\ <<l>> \in Seq({t, l})
    OBVIOUS
  <2>2. PICK v, w \in {<<>>, <<t>>, <<l>>} : Wraps = v \o w
    BY <1>3
  <2>3. v \in Seq({t, l}) /\ w \in Seq({t, l})
    BY <2>1
  <2>4. v \o w \in Seq({t, l})
    BY <2>3, Joined
  <2>5. Wraps \in Seq({t, l})
    BY <2>2, <2>4
  <2> QED
    BY <2>5
<1>5. \A i \in 1..Len(Wraps) : Wraps[i].kind \notin {"handler", "guards"}
    BY <1>2, <1>4
<1> QED
    BY <1>1, <1>4, <1>5, Wrapped DEF Pipeline

-----------------------------------------------------------------------------
LEMMA InitGated == Init => GInv
<1> SUFFICES ASSUME Init PROVE GInv
    OBVIOUS
<1>1. Registered
  <2>1. <<>> \in Seq({}) /\ <<>> \in Seq(GlobalGuards)
    OBVIOUS
  <2>2. mws = <<>> /\ guards = <<>> /\ route.mw = <<>> /\ route.guards = <<>> /\ ~route.registered
    BY DEF Init, NoRoute
  <2> QED
    BY <2>1, <2>2 DEF Registered
<1>2. GuardsGateHandler
  <2>1. trace = <<>> /\ DOMAIN <<>> = {}
    BY DEF Init
  <2> QED
    BY <2>1 DEF GuardsGateHandler
<1> QED
    BY <1>1, <1>2 DEF Init, GInv

\* Registration, in any order.
LEMMA SetUpGated ==
    ASSUME GInv, SetUp
    PROVE  GInv'
<1>1. /\ phase = "setup" /\ phase' = phase /\ trace = <<>> /\ trace' = <<>> /\ check' = check
    BY DEF SetUp, Use, AddGuard, Register, GInv
<1>2. GuardsGateHandler'
  <2>1. DOMAIN <<>> = {}
    OBVIOUS
  <2> QED
    BY <1>1, <2>1 DEF GuardsGateHandler
<1>3. ASSUME NEW m, Use(m) PROVE Registered'
  <2>1. PICK S : mws \in Seq(S)
    BY DEF GInv, Registered
  <2>2. mws' \in Seq(S \cup {m}) /\ UNCHANGED <<guards, route>>
    BY <1>3, <2>1 DEF Use
  <2> QED
    BY <2>2 DEF GInv, Registered
<1>4. ASSUME NEW g \in GlobalGuards, AddGuard(g) PROVE Registered'
  <2>1. guards' \in Seq(GlobalGuards) /\ UNCHANGED <<mws, route>>
    BY <1>4 DEF AddGuard, GInv, Registered
  <2> QED
    BY <2>1 DEF GInv, Registered
<1>5. ASSUME Register PROVE Registered'
  <2>1. /\ UNCHANGED <<mws, guards>> /\ route'.mw = mws \o ModuleMW \o RouteMW
        /\ route'.guards = guards \o ModuleGuards \o RouteGuards
    BY <1>5 DEF Register
  <2>2. \E S : route'.mw \in Seq(S)
    <3>1. PICK S : mws \in Seq(S)
      BY DEF GInv, Registered
    <3> DEFINE T == S \cup ToSet(ModuleMW) \cup ToSet(RouteMW)
    <3>2. ModuleMW \in Seq(ToSet(ModuleMW)) /\ RouteMW \in Seq(ToSet(RouteMW))
      BY ServeAssumption
    <3>3. mws \in Seq(T) /\ ModuleMW \in Seq(T) /\ RouteMW \in Seq(T)
      BY <3>1, <3>2
    <3> HIDE DEF T
    <3>4. mws \o ModuleMW \in Seq(T)
      BY <3>3, Joined
    <3>5. mws \o ModuleMW \o RouteMW \in Seq(T)
      BY <3>3, <3>4, Joined
    <3> QED
      BY <2>1, <3>5
  <2>3. guards \in Seq(GlobalGuards)
    BY DEF GInv, Registered
  <2>4. /\ route'.guards \in Seq(Guard)
        /\ ToSet(ModuleGuards) \cup ToSet(RouteGuards) \subseteq ToSet(route'.guards)
        /\ Levelled(route'.guards)
    BY <2>1, <2>3, Concatenated
  <2>5. Levelled(route.guards)'
    BY <2>4 DEF Levelled, RankGuard
  <2>6. guards' \in Seq(GlobalGuards) /\ \E S : mws' \in Seq(S)
    BY <2>1 DEF GInv, Registered
  <2>7. (ToSet(ModuleGuards) \cup ToSet(RouteGuards) \subseteq ToSet(route.guards))'
    BY <2>4 DEF ToSet
  <2>8. \E S : route'.guards \in Seq(S)
    BY <2>4
  <2> QED
    BY <2>2, <2>5, <2>6, <2>7, <2>8 DEF Registered
<1>6. Registered'
    BY <1>3, <1>4, <1>5 DEF SetUp
<1> QED
    BY <1>1, <1>2, <1>6 DEF GInv

\* A request comes in.
LEMMA ReceiveGated ==
    ASSUME GInv, Receive
    PROVE  GInv'
<1>1. /\ phase = "setup" /\ trace = <<>> /\ check = 1 /\ phase' \in {"enter", "write"}
      /\ UNCHANGED <<mws, guards, route, trace, check>>
    BY DEF Receive, ServeRoute, ServeProbe, ServeOptions, ServeError, Invoke, app, GInv
<1>2. Registered' /\ GuardsGateHandler' /\ check' \in Nat \ {0}
    BY <1>1 DEF GInv, Registered, GuardsGateHandler, Levelled, RankGuard, Happened, Before
<1>3. ASSUME phase' = "enter"
      PROVE  Piped(chain', target') /\ at' = 1
  <2>1. CASE ServeRoute
    BY <2>1, PipelinePiped DEF ServeRoute, Invoke, GInv, Piped
  <2>2. CASE ServeProbe
    BY <2>2, Bare DEF ServeProbe, Invoke
  <2>3. CASE ServeOptions
    <3>1. Piped(<<Frame("handler", "allow")>>, "options")
      BY Bare
    <3>2. \E S : mws \in Seq(S)
      BY DEF GInv, Registered
    <3> QED
      BY <2>3, <3>1, <3>2, Layered DEF ServeOptions, Invoke
  <2> QED
    BY <1>3, <2>1, <2>2, <2>3 DEF Receive, ServeError
<1>4. ASSUME phase' = "enter"
      PROVE  Piped(chain, target)' /\ at' \in 1..Len(chain')
    BY <1>1, <1>3, <1>4 DEF Piped
<1>5. ASSUME phase' = "enter"
      PROVE  Passing'
  <2>1. DOMAIN trace' = {}
    BY <1>1
  <2>2. 1..at' - 1 = {}
    BY <1>3, <1>5
  <2> QED
    BY <1>1, <2>1, <2>2 DEF Passing
<1> QED
    BY <1>1, <1>2, <1>4, <1>5 DEF GInv

-----------------------------------------------------------------------------
\* The history, one callback longer.
LEMMA Longer ==
    ASSUME TypeOK, NEW what, NEW name, Note(what, name)
    PROVE  /\ Len(trace) \in Nat /\ DOMAIN trace = 1..Len(trace) /\ DOMAIN trace' = 1..Len(trace) + 1
           /\ trace'[Len(trace) + 1] = [what |-> what, name |-> name]
           /\ \A i \in 1..Len(trace) : trace'[i] = trace[i]
<1>1. PICK S : trace \in Seq(S)
    BY DEF TypeOK
<1> DEFINE e == [what |-> what, name |-> name]
<1>2. trace \in Seq(S \cup {e}) /\ trace' = Append(trace, e)
    BY <1>1 DEF Note
<1> HIDE DEF e
<1>3. /\ Len(trace) \in Nat /\ DOMAIN trace = 1..Len(trace) /\ DOMAIN trace' = 1..Len(trace) + 1
      /\ trace'[Len(trace) + 1] = e
      /\ \A i \in 1..Len(trace) : trace'[i] = trace[i]
    BY <1>2
<1> QED
    BY <1>3 DEF e

\* What a further callback must satisfy.
LEMMA GateGrows ==
    ASSUME TypeOK, GuardsGateHandler, UNCHANGED route, NEW what, NEW name, Note(what, name),
           what = "handler" /\ name = "user" =>
              /\ \A g \in ToSet(route.guards) \cup ToSet(ModuleGuards) \cup ToSet(RouteGuards) :
                    \E i \in DOMAIN trace : Happened(i, "passed", g)
              /\ \A i \in DOMAIN trace : trace[i].what # "blocked",
           what = "passed" => \A i \in DOMAIN trace : trace[i].what = "passed" =>
                                 RankGuard(trace[i].name) <= RankGuard(name)
    PROVE  GuardsGateHandler'
<1> DEFINE n == Len(trace)
           Gs == ToSet(route.guards) \cup ToSet(ModuleGuards) \cup ToSet(RouteGuards)
<1>1. /\ n \in Nat /\ DOMAIN trace = 1..n /\ DOMAIN trace' = 1..n + 1
      /\ trace'[n + 1].what = what /\ trace'[n + 1].name = name
      /\ \A i \in 1..n : trace'[i] = trace[i]
  <2>1. [what |-> what, name |-> name].what = what /\ [what |-> what, name |-> name].name = name
    OBVIOUS
  <2> QED
    BY <2>1, Longer
<1>2. Gs' = Gs
    BY DEF ToSet
<1> HIDE DEF n
<1>3. ASSUME NEW j \in 1..n + 1, trace'[j].what = "handler", trace'[j].name = "user"
      PROVE  /\ \A g \in Gs : \E i \in 1..j - 1 : trace'[i].what = "passed" /\ trace'[i].name = g
             /\ \A i \in 1..j : trace'[i].what # "blocked"
  <2>1. CASE j <= n
    <3>1. j \in DOMAIN trace /\ Happened(j, "handler", "user")
      BY <1>1, <1>3, <2>1 DEF Happened
    <3>2. /\ \A g \in Gs : Before("passed", g, j)
          /\ \A i \in 1..j : trace[i].what # "blocked"
      BY <3>1 DEF GuardsGateHandler
    <3>3. \A i \in 1..j : trace'[i] = trace[i]
      BY <1>1, <2>1
    <3>4. \A i \in 1..j - 1 : i \in 1..j
      BY <1>1
    <3> QED
      BY <3>2, <3>3, <3>4 DEF Before, Happened
  <2>2. CASE j = n + 1
    <3>1. what = "handler" /\ name = "user" /\ 1..j - 1 = 1..n
      BY <1>1, <1>3, <2>2
    <3>2. ASSUME NEW g \in Gs PROVE \E i \in 1..j - 1 : trace'[i].what = "passed" /\ trace'[i].name = g
      BY <1>1, <3>1 DEF Happened
    <3>3. \A i \in 1..j : i \in 1..n \/ i = n + 1
      BY <1>1, <2>2
    <3> QED
      BY <1>1, <3>1, <3>2, <3>3
  <2> QED
    BY <1>1, <2>1, <2>2
<1>4. ASSUME NEW j \in 1..n + 1, NEW i \in 1..j, trace'[i].what = "passed", trace'[j].what = "passed"
      PROVE  RankGuard(trace'[i].name) <= RankGuard(trace'[j].name)
  <2>1. CASE j <= n
    <3>1. i \in 1..n /\ j \in 1..n
      BY <1>1, <2>1
    <3> QED
      BY <1>1, <1>4, <3>1 DEF GuardsGateHandler
  <2>2. CASE j = n + 1
    <3>1. i \in 1..n \/ i = j
      BY <1>1, <2>2
    <3>2. RankGuard(trace'[j].name) \in Int
      BY Ranks
    <3> QED
      BY <1>1, <1>4, <2>2, <3>1, <3>2
  <2> QED
    BY <1>1, <2>1, <2>2
<1>5. \A g : RankGuard(g)' = RankGuard(g)
    BY DEF RankGuard
<1> QED
    BY <1>1, <1>2, <1>3, <1>4 DEF GuardsGateHandler, Happened, Before, RankGuard

\* Registration is over.
LEMMA Settled ==
    ASSUME GInv, UNCHANGED <<mws, guards, route>>
    PROVE  Registered'
BY DEF GInv, Registered, Levelled, RankGuard

\* A step on or to the way out.
LEMMA OutGated ==
    ASSUME GInv, UNCHANGED <<mws, guards, route, check>>, phase' \notin {"setup", "enter"}, GuardsGateHandler'
    PROVE  GInv'
BY Settled DEF GInv

\* A step on the way in.
LEMMA InGated ==
    ASSUME GInv, phase = "enter", UNCHANGED <<mws, guards, route, target, chain>>, phase' = "enter",
           check' \in Nat \ {0}, at' = at \/ (at' = at + 1 /\ chain[at].kind # "handler"),
           Passing', GuardsGateHandler'
    PROVE  GInv'
<1>1. Piped(chain, target) /\ at \in 1..Len(chain)
    BY DEF GInv
<1>2. Piped(chain, target)'
    BY <1>1 DEF Piped
<1>3. at' \in 1..Len(chain')
  <2>1. chain[at].kind # "handler" => at # Len(chain)
    BY <1>1 DEF Piped
  <2>2. Len(chain) \in Nat
    BY <1>1 DEF Piped
  <2> QED
    BY <1>1, <2>1, <2>2
<1> QED
    BY <1>2, <1>3, Settled DEF GInv

\* What of the history matters is as it was.
Quiet ==
    /\ \A i \in DOMAIN trace' : trace'[i].what \in {"handler", "blocked", "passed"} =>
          i \in DOMAIN trace /\ trace'[i] = trace[i]
    /\ \A i \in DOMAIN trace : i \in DOMAIN trace' /\ trace'[i] = trace[i]

LEMMA Quieted ==
    ASSUME TypeOK
    PROVE  /\ UNCHANGED trace => Quiet
           /\ \A what, name : Note(what, name) /\ what \notin {"handler", "blocked", "passed"} => Quiet
<1>1. UNCHANGED trace => Quiet
    BY DEF Quiet
<1>2. ASSUME NEW what, NEW name, Note(what, name), what \notin {"handler", "blocked", "passed"}
      PROVE  Quiet
  <2> DEFINE n == Len(trace)
  <2>1. [what |-> what, name |-> name].what = what
    OBVIOUS
  <2>2. /\ n \in Nat /\ DOMAIN trace = 1..n /\ DOMAIN trace' = 1..n + 1 /\ trace'[n + 1].what = what
        /\ \A i \in 1..n : trace'[i] = trace[i]
    BY <1>2, <2>1, Longer
  <2> HIDE DEF n
  <2>3. \A i \in 1..n + 1 : i \in 1..n \/ i = n + 1
    BY <2>2
  <2> QED
    BY <1>2, <2>2, <2>3 DEF Quiet
<1> QED
    BY <1>1, <1>2

\* A callback on the way in that is neither a guard nor the handler.
LEMMA PassingOn ==
    ASSUME Passing, UNCHANGED <<route, target, chain>>, Quiet, at \in Nat, Len(route.guards) \in Int,
           check \in Nat, check' = check \/ (check' = check + 1 /\ target # "route"),
           at' = at \/ (at' = at + 1 /\ (chain[at].kind = "guards" => check > Len(route.guards)))
    PROVE  Passing'
<1>1. \A j \in DOMAIN trace' : trace'[j].what \notin {"handler", "blocked"}
    BY DEF Passing, Quiet
<1>2. ASSUME NEW j \in DOMAIN trace', trace'[j].what = "passed"
      PROVE  target = "route" /\ \E k \in 1..Len(route.guards) : k < check' /\ trace'[j].name = route.guards[k]
  <2>1. j \in DOMAIN trace /\ trace'[j] = trace[j]
    BY <1>2 DEF Quiet
  <2> QED
    BY <1>2, <2>1 DEF Passing
<1>3. ASSUME target = "route", NEW k \in 1..Len(route.guards), k < check'
      PROVE  \E j \in DOMAIN trace' : trace'[j].what = "passed" /\ trace'[j].name = route.guards[k]
  <2>1. PICK j \in DOMAIN trace : Happened(j, "passed", route.guards[k])
    BY <1>3 DEF Passing
  <2> QED
    BY <2>1 DEF Quiet, Happened
<1>4. ASSUME NEW i \in 1..at' - 1, chain[i].kind = "guards"
      PROVE  check' > Len(route.guards)
  <2>1. i \in 1..at - 1 \/ (i = at /\ at' = at + 1)
    OBVIOUS
  <2>2. check > Len(route.guards)
    BY <1>4, <2>1 DEF Passing
  <2> QED
    BY <2>2
<1> QED
    BY <1>1, <1>2, <1>3, <1>4 DEF Passing, Happened

\* Going on through a frame that is no guard.
LEMMA GoesOnGated ==
    ASSUME IInv, GInv, phase = "enter", GoOn, UNCHANGED check, chain[at].kind # "handler",
           chain[at].kind = "guards" => check > Len(route.guards),
           UNCHANGED trace \/ \E name : Note("enter", name)
    PROVE  GInv'
<1>1. TypeOK /\ GuardsGateHandler /\ Piped(chain, target) /\ Passing /\ check \in Nat
    BY DEF IInv, GInv
<1>2. /\ phase' = "enter" /\ at \in Nat /\ at' = at + 1 /\ UNCHANGED <<mws, guards, route, target, chain>>
    BY <1>1 DEF GoOn, app, request, TypeOK
<1>3. Quiet
    BY <1>1, Quieted
<1>4. Len(route.guards) \in Nat
    BY DEF GInv, Registered
<1>5. Passing'
    BY <1>1, <1>2, <1>3, <1>4, PassingOn
<1>6. GuardsGateHandler'
  <2>1. CASE UNCHANGED trace
    BY <1>1, <1>2, <2>1 DEF GuardsGateHandler, RankGuard, Happened, Before
  <2>2. ASSUME NEW name, Note("enter", name) PROVE GuardsGateHandler'
    BY <1>1, <1>2, <2>2, GateGrows
  <2> QED
    BY <2>1, <2>2
<1> QED
    BY <1>1, <1>2, <1>5, <1>6, InGated DEF GInv

\* Returning and panicking, with a callback that is not the user's handler, or with none.
LEMMA TurnsGated ==
    ASSUME IInv, GInv, phase # "setup", UNCHANGED <<mws, guards, route, check>>, phase' \notin {"setup", "enter"},
           UNCHANGED trace \/ \E what, name : Note(what, name) /\ what \notin {"handler", "passed"}
    PROVE  GInv'
<1>1. TypeOK /\ GuardsGateHandler
    BY DEF IInv, GInv
<1>2. CASE UNCHANGED trace
  <2>1. GuardsGateHandler'
    BY <1>1, <1>2 DEF GuardsGateHandler, RankGuard, Happened, Before
  <2> QED
    BY <2>1, OutGated
<1>3. ASSUME NEW what, NEW name, Note(what, name), what \notin {"handler", "passed"}
      PROVE  GInv'
  <2>1. GuardsGateHandler'
    BY <1>1, <1>3, GateGrows
  <2> QED
    BY <2>1, OutGated
<1> QED
    BY <1>2, <1>3

-----------------------------------------------------------------------------
LEMMA CheckGuardGated ==
    ASSUME IInv, GInv, CheckGuard
    PROVE  GInv'
<1>1. /\ phase = "enter" /\ at \in Nat /\ chain[at].kind = "guards" /\ check <= Len(route.guards)
      /\ TypeOK /\ GuardsGateHandler /\ Piped(chain, target) /\ Passing /\ check \in Nat \ {0} /\ at \in 1..Len(chain)
    BY DEF IInv, GInv, CheckGuard, Running, TypeOK
<1>2. target = "route" /\ route.registered
    BY <1>1 DEF Piped
<1>3. Len(route.guards) \in Nat /\ Levelled(route.guards) /\ check \in 1..Len(route.guards)
    BY <1>1, <1>2 DEF GInv, Registered
<1>4. CASE /\ Note("passed", route.guards[check]) /\ check' = check + 1
           /\ UNCHANGED <<app, request, phase, chain, at, flight, outcome>>
  <2>1. UNCHANGED <<mws, guards, route, target, phase, chain, at>>
    BY <1>4 DEF app, request
  <2>2. ASSUME NEW i \in DOMAIN trace, trace[i].what = "passed"
        PROVE  RankGuard(trace[i].name) <= RankGuard(route.guards[check])
    <3>1. PICK k \in 1..Len(route.guards) : k < check /\ trace[i].name = route.guards[k]
      BY <1>1, <2>2 DEF Passing
    <3> QED
      BY <1>3, <3>1 DEF Levelled
  <2>3. GuardsGateHandler'
    BY <1>1, <1>4, <2>1, <2>2, GateGrows
  <2>4. Passing'
    <3> DEFINE n == Len(trace)
               g == route.guards[check]
    <3>1. [what |-> "passed", name |-> g].what = "passed" /\ [what |-> "passed", name |-> g].name = g
      OBVIOUS
    <3>2. /\ n \in Nat /\ DOMAIN trace = 1..n /\ DOMAIN trace' = 1..n + 1
          /\ trace'[n + 1].what = "passed" /\ trace'[n + 1].name = g
          /\ \A i \in 1..n : trace'[i] = trace[i]
      BY <1>1, <1>4, <3>1, Longer
    <3> HIDE DEF n
    <3>3. \A i \in 1..n + 1 : i \in 1..n \/ i = n + 1
      BY <3>2
    <3>4. \A j \in DOMAIN trace' : trace'[j].what \notin {"handler", "blocked"}
      BY <1>1, <3>2, <3>3 DEF Passing
    <3>5. ASSUME NEW j \in DOMAIN trace', trace'[j].what = "passed"
          PROVE  \E k \in 1..Len(route.guards) : k < check + 1 /\ trace'[j].name = route.guards[k]
      <4>1. CASE j = n + 1
        BY <1>1, <1>3, <3>2, <4>1
      <4>2. CASE j \in 1..n
        <5>1. PICK k \in 1..Len(route.guards) : k < check /\ trace[j].name = route.guards[k]
          BY <1>1, <3>2, <3>5, <4>2 DEF Passing
        <5> QED
          BY <1>1, <3>2, <4>2, <5>1
      <4> QED
        BY <3>2, <3>3, <4>1, <4>2
    <3>6. ASSUME NEW k \in 1..Len(route.guards), k < check + 1
          PROVE  \E j \in DOMAIN trace' : trace'[j].what = "passed" /\ trace'[j].name = route.guards[k]
      <4>1. CASE k = check
        <5>1. n + 1 \in DOMAIN trace'
          BY <3>2
        <5> QED
          BY <3>2, <4>1, <5>1
      <4>2. CASE k < check
        <5>1. PICK j \in DOMAIN trace : Happened(j, "passed", route.guards[k])
          BY <1>1, <1>2, <4>2 DEF Passing
        <5>2. j \in DOMAIN trace' /\ trace'[j] = trace[j]
          BY <3>2
        <5> QED
          BY <5>1, <5>2 DEF Happened
      <4> QED
        BY <1>1, <3>6, <4>1, <4>2
    <3>7. \A i \in 1..at - 1 : chain[i].kind = "guards" => check + 1 > Len(route.guards)
      BY <1>1, <1>3 DEF Passing
    <3> QED
      BY <1>2, <1>4, <2>1, <3>4, <3>5, <3>6, <3>7 DEF Passing, Happened
  <2> QED
    BY <1>1, <1>4, <2>1, <2>3, <2>4, InGated
<1>5. CASE Note("blocked", route.guards[check]) /\ UNCHANGED check
           /\ ((\E r : Return(r)) \/ \E v : Panic(v))
  <2>1. UNCHANGED <<mws, guards, route, check>> /\ phase' \in {"leave", "unwind"}
    BY <1>5 DEF Return, Panic, app
  <2> QED
    BY <1>1, <1>5, <2>1, TurnsGated
<1> QED
    BY <1>4, <1>5 DEF CheckGuard

\* A handler of the framework's own, among them the one that runs the checks, is no route's.
LEMMA RunCheckGated ==
    ASSUME IInv, GInv, RunCheck
    PROVE  GInv'
<1>1. /\ phase = "enter" /\ at \in Nat /\ chain[at].kind = "handler" /\ chain[at].name = "ready"
      /\ TypeOK /\ GuardsGateHandler /\ Piped(chain, target) /\ Passing /\ check \in Nat \ {0} /\ at \in 1..Len(chain)
      /\ check' = check + 1
    BY DEF IInv, GInv, RunCheck, Running, TypeOK
<1>2. target # "route"
    BY <1>1 DEF Piped
<1>3. Len(route.guards) \in Nat
    BY DEF GInv, Registered
<1>4. ASSUME NEW result \in {"healthy", "degraded"}, Note(result, Checks[check]),
             UNCHANGED <<app, request, phase, chain, at, flight, outcome>>
      PROVE  GInv'
  <2>1. UNCHANGED <<mws, guards, route, target, phase, chain, at>>
    BY <1>4 DEF app, request
  <2>2. Quiet
    BY <1>1, <1>4, Quieted
  <2>3. Passing'
    BY <1>1, <1>2, <1>3, <2>1, <2>2, PassingOn
  <2>4. GuardsGateHandler'
    BY <1>1, <1>4, <2>1, GateGrows
  <2> QED
    BY <1>1, <2>1, <2>3, <2>4, InGated
<1>5. ASSUME NEW v, Panic(v), UNCHANGED trace
      PROVE  GInv'
  <2>1. UNCHANGED <<mws, guards, route>> /\ phase' = "unwind" /\ check' \in Nat \ {0}
    BY <1>1, <1>5 DEF Panic, app
  <2>2. GuardsGateHandler'
    BY <1>1, <1>5, <2>1 DEF GuardsGateHandler, RankGuard, Happened, Before
  <2> QED
    BY <2>1, <2>2, Settled DEF GInv
<1> QED
    BY <1>4, <1>5 DEF RunCheck

\* The handler runs where every guard has let the request pass.
LEMMA HandleGated ==
    ASSUME IInv, GInv, Handle
    PROVE  GInv'
<1>1. /\ phase = "enter" /\ at \in Nat /\ chain[at].kind = "handler" /\ Note("handler", chain[at].name)
      /\ TypeOK /\ GuardsGateHandler /\ Piped(chain, target) /\ Passing /\ at \in 1..Len(chain)
      /\ UNCHANGED <<mws, guards, route, check>> /\ phase' \in {"leave", "unwind"}
    BY DEF IInv, GInv, Handle, Running, TypeOK, Return, Panic, app
<1>2. ASSUME chain[at].name = "user", NEW g \in ToSet(route.guards) \cup ToSet(ModuleGuards) \cup ToSet(RouteGuards)
      PROVE  \E i \in DOMAIN trace : Happened(i, "passed", g)
  <2>1. at = Len(chain) /\ target = "route" /\ route.registered
    BY <1>1, <1>2 DEF Piped
  <2>2. PICK k \in 1..Len(route.guards) : g = route.guards[k]
    <3>1. g \in ToSet(route.guards) /\ \E S : route.guards \in Seq(S)
      BY <2>1 DEF GInv, Registered
    <3>2. DOMAIN route.guards = 1..Len(route.guards)
      BY <3>1
    <3> QED
      BY <3>1, <3>2 DEF ToSet
  <2>3. k < check
    <3>1. Len(route.guards) \in Nat /\ route.guards # <<>> /\ check \in Nat
      BY <2>2 DEF GInv, Registered
    <3>2. Len(chain) > 1 /\ chain[Len(chain) - 1].kind = "guards"
      BY <1>1, <2>1, <3>1 DEF Piped
    <3>3. check > Len(route.guards)
      BY <1>1, <2>1, <3>2 DEF Passing
    <3> QED
      BY <3>1, <3>3
  <2> QED
    BY <1>1, <2>1, <2>2, <2>3 DEF Passing
<1>3. \A i \in DOMAIN trace : trace[i].what # "blocked"
    BY <1>1 DEF Passing
<1>4. GuardsGateHandler'
    BY <1>1, <1>2, <1>3, GateGrows
<1> QED
    BY <1>1, <1>4, OutGated

LEMMA EnterGated ==
    ASSUME IInv, GInv, Enter
    PROVE  GInv'
<1>1. TypeOK /\ phase # "setup"
    BY DEF IInv, Enter, EnterTimeout, EnterLimit, EnterMW, CheckGuard, GuardsPass, RunCheck, Handle, Running
<1>2. CASE EnterTimeout \/ EnterLimit \/ GuardsPass
    BY <1>2, GoesOnGated DEF EnterTimeout, EnterLimit, GuardsPass, Running
<1>3. CASE EnterMW
  <2>1. phase = "enter" /\ chain[at].kind = "mw" /\ Note("enter", chain[at].name) /\ UNCHANGED check
    BY <1>3 DEF EnterMW, Running
  <2>2. CASE GoOn
    BY <2>1, <2>2, GoesOnGated
  <2>3. CASE (\E r : Return(r)) \/ \E v : Panic(v)
    <3>1. UNCHANGED <<mws, guards, route>> /\ phase' \in {"leave", "unwind"}
      BY <2>3 DEF Return, Panic, app
    <3> QED
      BY <1>1, <2>1, <3>1, TurnsGated
  <2> QED
    BY <1>3, <2>2, <2>3 DEF EnterMW
<1> QED
    BY <1>2, <1>3, CheckGuardGated, RunCheckGated, HandleGated DEF Enter

LEMMA LeaveGated ==
    ASSUME IInv, GInv, Leave \/ Answer
    PROVE  GInv'
<1>1. phase \in {"leave", "unwind", "write", "log"}
    BY DEF Leave, LeaveTimeout, LeavePlain, LeaveMW, UnwindMW, InvokeRecovers, Answer, Boundary, Write, Log, Running
<1>2. phase' \notin {"setup", "enter"} /\ UNCHANGED <<mws, guards, route, check>>
    BY <1>1, Maps DEF Leave, LeaveTimeout, LeavePlain, LeaveMW, UnwindMW, InvokeRecovers, Answer, Boundary, Write, Log,
                Outward, Return, Panic, app
<1>3. UNCHANGED trace \/ \E what \in {"leave", "anew"} : \E name : Note(what, name)
    BY DEF Leave, LeaveTimeout, LeavePlain, LeaveMW, UnwindMW, InvokeRecovers, Answer, Boundary, Write, Log
<1> QED
    BY <1>1, <1>2, <1>3, TurnsGated

LEMMA NextGated == IInv /\ GInv /\ [Next]_vars => GInv'
<1> SUFFICES ASSUME IInv, GInv, [Next]_vars PROVE GInv'
    OBVIOUS
<1>1. CASE DeadlinePasses \/ Over \/ UNCHANGED vars
  <2>1. UNCHANGED <<mws, guards, route, target, phase, chain, at, check, trace>>
    BY <1>1 DEF DeadlinePasses, Over, vars, app, request
  <2>2. Registered' /\ GuardsGateHandler'
    BY <2>1, Settled DEF GInv, GuardsGateHandler, RankGuard, Happened, Before
  <2>3. phase = "enter" => Piped(chain, target)' /\ Passing'
    BY <2>1 DEF GInv, Piped, Passing, Happened
  <2> QED
    BY <2>1, <2>2, <2>3 DEF GInv
<1> QED
    BY <1>1, SetUpGated, ReceiveGated, EnterGated, LeaveGated DEF Next

\* For any guards and middleware, registered in any order: a user's handler has run only if every guard
\* of its route, its module and those known globally at its registration let the request pass, and none
\* objected; and guards ran level by level (bast.go 150-179, 220-229).
THEOREM GuardsGateHandlerAlways == Spec => []GuardsGateHandler
<1>1. GInv => GuardsGateHandler
    BY DEF GInv
<1> QED
    BY InitInv, NextInv, InitGated, NextGated, <1>1, PTL DEF Spec

-----------------------------------------------------------------------------
(* The layout of a pipeline.                                                  *)

Layer(kind) == CASE kind = "timeout" -> 1 [] kind = "limit" -> 2 [] kind = "mw" -> 3
                 [] kind = "guards" -> 4 [] kind = "handler" -> 5 [] OTHER -> 0

\* Middleware, each once, level by level.
Apart(s) == \A k, l \in 1..Len(s) : k < l => s[k] # s[l] /\ RankMW(s[k]) <= RankMW(s[l])

\* Deadline, body limit, middleware, guards, handler: at most one frame of each, but for the middleware.
Stacked(c) ==
    \A k, l \in 1..Len(c) : k < l =>
        \/ Layer(c[k].kind) < Layer(c[l].kind)
        \/ /\ c[k].kind = "mw" /\ c[l].kind = "mw"
           /\ c[k].name # c[l].name /\ RankMW(c[k].name) <= RankMW(c[l].name)

Enlisted ==
    /\ mws \in Seq(GlobalMW) /\ Apart(mws)
    /\ route.registered => (\E S : route.mw \in Seq(S)) /\ Apart(route.mw)

\* A route's pipeline has the frames its settings call for.
Laid ==
    /\ \E S : chain \in Seq(S)
    /\ Stacked(chain)
    /\ at \in 0..Len(chain)
    /\ target = "route" =>
          /\ Timed => \E i \in 1..Len(chain) : chain[i].kind = "timeout"
          /\ Limited => \E i \in 1..Len(chain) : chain[i].kind = "limit"

\* How the history tells that a middleware was left.
Left == {"leave", "anew"}

\* The frame of the middleware n.
IsAt(p, n) == p \in 1..Len(chain) /\ chain[p].kind = "mw" /\ chain[p].name = n

\* What was entered lies outside the frame that runs, what was left inside it.
Placed ==
    \A j \in DOMAIN trace :
        /\ trace[j].what = "enter" => \E p \in 1..Len(chain) :
              IsAt(p, trace[j].name) /\ (phase = "enter" => p < at)
        /\ trace[j].what \in Left => phase # "enter" /\ \E p \in 1..Len(chain) :
              IsAt(p, trace[j].name) /\ (phase \in {"leave", "unwind"} => at < p)
        /\ phase = "enter" /\ trace[j].what # "enter" => \A p \in at..Len(chain) : chain[p].kind # "mw"

\* Inwards along the frames, then outwards.
Ordered ==
    \A i, j \in DOMAIN trace : i < j =>
        /\ trace[i].what # "enter" => trace[j].what # "enter"
        /\ \A p, q \in 1..Len(chain) : IsAt(p, trace[i].name) /\ IsAt(q, trace[j].name) =>
              /\ trace[i].what = "enter" /\ trace[j].what = "enter" => p < q
              /\ trace[i].what \in Left /\ trace[j].what \in Left => q < p

NInv == Enlisted /\ Laid /\ Placed /\ Ordered

-----------------------------------------------------------------------------
LEMMA MWRanks == \A m : RankMW(m) \in {1, 2, 3}
BY DEF RankMW

LEMMA Layers == \A kind : Layer(kind) \in 0..5
BY DEF Layer

\* Where the elements of two sequences one after the other come from.
LEMMA Halves ==
    ASSUME NEW S, NEW s \in Seq(S), NEW t \in Seq(S)
    PROVE  \A k \in 1..Len(s \o t) :
              \/ k \in 1..Len(s) /\ (s \o t)[k] = s[k]
              \/ \E l \in 1..Len(t) : k = Len(s) + l /\ (s \o t)[k] = t[l]
<1> SUFFICES ASSUME NEW k \in 1..Len(s \o t), k \notin 1..Len(s)
             PROVE  \E l \in 1..Len(t) : k = Len(s) + l /\ (s \o t)[k] = t[l]
    BY Joined
<1> DEFINE l == k - Len(s)
<1>1. l \in 1..Len(t) /\ k = Len(s) + l
    BY Joined
<1> HIDE DEF l
<1> QED
    BY <1>1, Joined

\* What registerRoute concatenates: every middleware once, level by level.
LEMMA MWApart ==
    ASSUME NEW G \in Seq(GlobalMW), Apart(G)
    PROVE  G \o ModuleMW \o RouteMW \in Seq(MW) /\ Apart(G \o ModuleMW \o RouteMW)
<1> DEFINE M == ModuleMW
           R == RouteMW
           GM == G \o M
           all == GM \o R
<1>1. M \in Seq(ToSet(M)) /\ R \in Seq(ToSet(R))
    BY ServeAssumption
<1>2. G \in Seq(MW) /\ M \in Seq(MW) /\ R \in Seq(MW)
    BY <1>1 DEF MW
<1>3. /\ \A k \in 1..Len(G) : G[k] \in GlobalMW /\ RankMW(G[k]) = 1
      /\ \A k \in 1..Len(M) : M[k] \in ToSet(M) /\ RankMW(M[k]) = 2
      /\ \A k \in 1..Len(R) : R[k] \in ToSet(R) /\ RankMW(R[k]) = 3
  <2>1. \A k \in 1..Len(G) : G[k] \in GlobalMW
    OBVIOUS
  <2>2. \A k \in 1..Len(M) : M[k] \in ToSet(M)
    BY <1>1
  <2>3. \A k \in 1..Len(R) : R[k] \in ToSet(R)
    BY <1>1
  <2> QED
    BY <2>1, <2>2, <2>3, LevelsAssumption DEF RankMW
<1>4. /\ \A k, l \in 1..Len(M) : k # l => M[k] # M[l]
      /\ \A k, l \in 1..Len(R) : k # l => R[k] # R[l]
    BY <1>1, LevelsAssumption DEF IsInjective
<1> HIDE DEF M, R
<1>5. /\ all \in Seq(MW)
      /\ \A k \in 1..Len(all) :
            \/ k \in 1..Len(G) /\ all[k] = G[k]
            \/ \E l \in 1..Len(M) : k = Len(G) + l /\ all[k] = M[l]
            \/ \E l \in 1..Len(R) : k = Len(G) + Len(M) + l /\ all[k] = R[l]
  <2>1. /\ GM \in Seq(MW) /\ Len(GM) = Len(G) + Len(M) /\ Len(G) \in Nat /\ Len(M) \in Nat
        /\ \A k \in 1..Len(GM) : \/ k \in 1..Len(G) /\ GM[k] = G[k]
                                 \/ \E l \in 1..Len(M) : k = Len(G) + l /\ GM[k] = M[l]
    BY <1>2, Joined, Halves
  <2> HIDE DEF GM
  <2>2. /\ all \in Seq(MW)
        /\ \A k \in 1..Len(all) : \/ k \in 1..Len(GM) /\ all[k] = GM[k]
                                  \/ \E l \in 1..Len(R) : k = Len(GM) + l /\ all[k] = R[l]
    <3>1. GM \in Seq(MW) /\ R \in Seq(MW)
      BY <1>2, <2>1
    <3>2. all \in Seq(MW)
      BY <3>1, Joined
    <3> HIDE DEF R
    <3>3. \A k \in 1..Len(GM \o R) : \/ k \in 1..Len(GM) /\ (GM \o R)[k] = GM[k]
                                     \/ \E l \in 1..Len(R) : k = Len(GM) + l /\ (GM \o R)[k] = R[l]
      BY <3>1, Halves
    <3> QED
      BY <3>2, <3>3
  <2> HIDE DEF all
  <2>3. ASSUME NEW k \in 1..Len(all), NEW l \in 1..Len(R), k = Len(GM) + l, all[k] = R[l]
        PROVE  \E j \in 1..Len(R) : k = Len(G) + Len(M) + j /\ all[k] = R[j]
    BY <2>1, <2>3
  <2>4. ASSUME NEW k \in 1..Len(GM), all[k] = GM[k]
        PROVE  \/ k \in 1..Len(G) /\ all[k] = G[k]
               \/ \E l \in 1..Len(M) : k = Len(G) + l /\ all[k] = M[l]
    BY <2>1, <2>4
  <2> HIDE DEF M, R
  <2> QED
    BY <2>2, <2>3, <2>4
<1>6. Len(G) \in Nat /\ Len(M) \in Nat /\ Len(R) \in Nat
    BY <1>2
<1> HIDE DEF all
<1>7. ASSUME NEW k \in 1..Len(all), NEW l \in 1..Len(all), k < l
      PROVE  all[k] # all[l] /\ RankMW(all[k]) <= RankMW(all[l])
  <2>1. CASE l \in 1..Len(G) /\ all[l] = G[l]
    <3>1. k \in 1..Len(G) /\ all[k] = G[k]
      BY <1>5, <1>6, <1>7, <2>1
    <3> QED
      BY <1>7, <2>1, <3>1 DEF Apart
  <2>2. CASE \E i \in 1..Len(M) : l = Len(G) + i /\ all[l] = M[i]
    <3>1. PICK i \in 1..Len(M) : l = Len(G) + i /\ all[l] = M[i]
      BY <2>2
    <3>2. CASE k \in 1..Len(G) /\ all[k] = G[k]
      BY <1>3, <3>1, <3>2
    <3>3. CASE \E h \in 1..Len(M) : k = Len(G) + h /\ all[k] = M[h]
      <4>1. PICK h \in 1..Len(M) : k = Len(G) + h /\ all[k] = M[h]
        BY <3>3
      <4>2. h # i
        BY <1>7, <3>1, <4>1
      <4> QED
        BY <1>3, <1>4, <3>1, <4>1, <4>2
    <3> QED
      BY <1>5, <1>6, <1>7, <3>1, <3>2, <3>3
  <2>3. CASE \E i \in 1..Len(R) : l = Len(G) + Len(M) + i /\ all[l] = R[i]
    <3>1. PICK i \in 1..Len(R) : l = Len(G) + Len(M) + i /\ all[l] = R[i]
      BY <2>3
    <3>2. CASE k \in 1..Len(G) /\ all[k] = G[k]
      BY <1>3, <3>1, <3>2
    <3>3. CASE \E h \in 1..Len(M) : k = Len(G) + h /\ all[k] = M[h]
      BY <1>3, <3>1, <3>3
    <3>4. CASE \E h \in 1..Len(R) : k = Len(G) + Len(M) + h /\ all[k] = R[h]
      <4>1. PICK h \in 1..Len(R) : k = Len(G) + Len(M) + h /\ all[k] = R[h]
        BY <3>4
      <4>2. h # i
        BY <1>7, <3>1, <4>1
      <4> QED
        BY <1>3, <1>4, <3>1, <4>1, <4>2
    <3>5. \/ k \in 1..Len(G) /\ all[k] = G[k]
          \/ \E h \in 1..Len(M) : k = Len(G) + h /\ all[k] = M[h]
          \/ \E h \in 1..Len(R) : k = Len(G) + Len(M) + h /\ all[k] = R[h]
      BY <1>5
    <3> QED
      BY <3>2, <3>3, <3>4, <3>5
  <2>4. \/ l \in 1..Len(G) /\ all[l] = G[l]
        \/ \E i \in 1..Len(M) : l = Len(G) + i /\ all[l] = M[i]
        \/ \E i \in 1..Len(R) : l = Len(G) + Len(M) + i /\ all[l] = R[i]
    BY <1>5
  <2> QED
    BY <2>1, <2>2, <2>3, <2>4
<1> QED
    BY <1>5, <1>7 DEF Apart, all, GM, M, R

\* A stack on a lower one.
LEMMA Atop ==
    ASSUME NEW S, NEW w \in Seq(S), NEW c \in Seq(S), Stacked(w), Stacked(c),
           \A i \in 1..Len(w), j \in 1..Len(c) : Layer(w[i].kind) < Layer(c[j].kind)
    PROVE  Stacked(w \o c)
<1> DEFINE d == w \o c
<1>1. /\ Len(d) = Len(w) + Len(c) /\ Len(w) \in Nat /\ Len(c) \in Nat
      /\ \A i \in 1..Len(w) : d[i] = w[i]
      /\ \A i \in 1..Len(c) : d[Len(w) + i] = c[i]
    BY Joined
<1> HIDE DEF d
<1>2. \A k \in 1..Len(d) : \/ k \in 1..Len(w) /\ d[k] = w[k]
                           \/ \E i \in 1..Len(c) : k = Len(w) + i /\ d[k] = c[i]
  <2>1. \A k \in 1..Len(w \o c) : \/ k \in 1..Len(w) /\ (w \o c)[k] = w[k]
                                  \/ \E i \in 1..Len(c) : k = Len(w) + i /\ (w \o c)[k] = c[i]
    BY Halves
  <2> QED
    BY <2>1 DEF d
<1>3. ASSUME NEW k \in 1..Len(d), NEW l \in 1..Len(d), k < l
      PROVE  \/ Layer(d[k].kind) < Layer(d[l].kind)
             \/ /\ d[k].kind = "mw" /\ d[l].kind = "mw"
                /\ d[k].name # d[l].name /\ RankMW(d[k].name) <= RankMW(d[l].name)
  <2>1. CASE l \in 1..Len(w) /\ d[l] = w[l]
    <3>1. k \in 1..Len(w) /\ d[k] = w[k]
      BY <1>1, <1>3, <2>1
    <3> QED
      BY <1>3, <2>1, <3>1 DEF Stacked
  <2>2. CASE \E i \in 1..Len(c) : l = Len(w) + i /\ d[l] = c[i]
    <3>1. PICK i \in 1..Len(c) : l = Len(w) + i /\ d[l] = c[i]
      BY <2>2
    <3>2. CASE k \in 1..Len(w) /\ d[k] = w[k]
      BY <3>1, <3>2
    <3>3. CASE \E h \in 1..Len(c) : k = Len(w) + h /\ d[k] = c[h]
      <4>1. PICK h \in 1..Len(c) : k = Len(w) + h /\ d[k] = c[h]
        BY <3>3
      <4>2. h < i
        BY <1>1, <1>3, <3>1, <4>1
      <4> QED
        BY <3>1, <4>1, <4>2 DEF Stacked
    <3> QED
      BY <1>2, <3>2, <3>3
  <2> QED
    BY <1>2, <2>1, <2>2
<1> QED
    BY <1>3 DEF Stacked, d

\* Middleware, each once, around what may only be deeper.
LEMMA Around ==
    ASSUME NEW S, NEW c \in Seq(S), Stacked(c), \A i \in 1..Len(c) : Layer(c[i].kind) > 3,
           NEW T, NEW ms \in Seq(T), Apart(ms)
    PROVE  /\ Stacked(BuildPipeline(c, ms))
           /\ \E U : BuildPipeline(c, ms) \in Seq(U)
           /\ \A i \in 1..Len(BuildPipeline(c, ms)) : Layer(BuildPipeline(c, ms)[i].kind) > 2
<1> DEFINE F == {Frame("mw", m) : m \in T}
           b == [i \in DOMAIN ms |-> Frame("mw", ms[i])]
           d == b \o c
<1>1. b \in Seq(F) /\ Len(b) = Len(ms) /\ \A i \in 1..Len(b) : b[i] = Frame("mw", ms[i])
    OBVIOUS
<1>2. \A i \in 1..Len(b) : b[i].kind = "mw" /\ b[i].name = ms[i] /\ Layer(b[i].kind) = 3
    BY <1>1 DEF Frame, Layer
<1> HIDE DEF b, F
<1>3. Stacked(b)
    BY <1>1, <1>2 DEF Stacked, Apart
<1>4. b \in Seq(F \cup S) /\ c \in Seq(F \cup S)
    BY <1>1
<1>5. Stacked(d)
  <2>1. \A i \in 1..Len(b), j \in 1..Len(c) : Layer(b[i].kind) < Layer(c[j].kind)
    BY <1>2, Layers
  <2> QED
    BY <1>3, <1>4, <2>1, Atop
<1>6. /\ d \in Seq(F \cup S) /\ Len(d) = Len(b) + Len(c) /\ Len(b) \in Nat /\ Len(c) \in Nat
      /\ \A i \in 1..Len(b) : d[i] = b[i]
      /\ \A i \in 1..Len(c) : d[Len(b) + i] = c[i]
    BY <1>4, Joined
<1> HIDE DEF d
<1>7. ASSUME NEW i \in 1..Len(d) PROVE Layer(d[i].kind) > 2
  <2>1. CASE i <= Len(b)
    <3>1. i \in 1..Len(b) /\ d[i] = b[i]
      BY <1>6, <2>1
    <3>2. Layer(d[i].kind) = 3
      BY <1>2, <3>1
    <3> QED
      BY <3>2
  <2>2. CASE i > Len(b)
    <3> DEFINE k == i - Len(b)
    <3>1. k \in 1..Len(c) /\ i = Len(b) + k
      BY <1>6, <2>2
    <3> HIDE DEF k
    <3>2. d[i] = c[k] /\ Layer(c[k].kind) > 3
      BY <1>6, <3>1
    <3> QED
      BY <3>2, Layers
  <2> QED
    BY <1>6, <2>1, <2>2
<1>8. BuildPipeline(c, ms) = d
    BY DEF BuildPipeline, d, b
<1> QED
    BY <1>5, <1>6, <1>7, <1>8

\* A handler alone and a handler behind its guards.
LEMMA Inmost ==
    ASSUME NEW c, (\E h : c = <<Frame("handler", h)>>) \/ (\E r : c = Guarded(r))
    PROVE  /\ \E S : c \in Seq(S)
           /\ Stacked(c) /\ \A i \in 1..Len(c) : Layer(c[i].kind) > 3
<1>1. CASE \E h : c = <<Frame("handler", h)>>
  <2>1. PICK h : c = <<Frame("handler", h)>>
    BY <1>1
  <2>2. c \in Seq({Frame("handler", h)}) /\ Len(c) = 1 /\ c[1].kind = "handler"
    BY <2>1 DEF Frame
  <2> QED
    BY <2>2 DEF Stacked, Layer
<1>2. CASE c = <<Frame("guards", "all"), Frame("handler", "user")>>
  <2>1. c \in Seq({Frame("guards", "all"), Frame("handler", "user")}) /\ Len(c) = 2
    BY <1>2
  <2>2. c[1].kind = "guards" /\ c[2].kind = "handler"
    BY <1>2 DEF Frame
  <2>3. Layer("guards") = 4 /\ Layer("handler") = 5
    BY DEF Layer
  <2>4. 1..Len(c) = {1, 2}
    BY <2>1
  <2> QED
    BY <2>1, <2>2, <2>3, <2>4 DEF Stacked
<1> QED
    BY <1>1, <1>2 DEF Guarded

\* A frame that may be there.
LEMMA Perhaps ==
    ASSUME NEW b \in BOOLEAN, NEW f
    PROVE  LET s == IF b THEN <<f>> ELSE <<>>
           IN  s \in Seq({f}) /\ (\A i \in 1..Len(s) : i = 1 /\ s[i] = f) /\ (b => Len(s) = 1)
<1>1. <<f>> \in Seq({f}) /\ Len(<<f>>) = 1 /\ <<f>>[1] = f
    BY Few
<1>2. CASE b
    BY <1>1, <1>2
<1>3. CASE ~b
  <2> DEFINE s == <<>>
  <2>1. s \in Seq({f}) /\ Len(s) = 0
    OBVIOUS
  <2>2. \A i \in 1..Len(s) : i = 1 /\ s[i] = f
    BY <2>1
  <2> QED
    BY <1>3, <2>1, <2>2
<1> QED
    BY <1>2, <1>3

\* What registerRoute makes of a route.
LEMMA PipelineStacked ==
    ASSUME NEW r, NEW T, r.mw \in Seq(T), Apart(r.mw)
    PROVE  /\ \E S : Pipeline(r) \in Seq(S)
           /\ Stacked(Pipeline(r))
           /\ Timed => \E i \in 1..Len(Pipeline(r)) : Pipeline(r)[i].kind = "timeout"
           /\ Limited => \E i \in 1..Len(Pipeline(r)) : Pipeline(r)[i].kind = "limit"
<1> DEFINE t == Frame("timeout", "route")
           l == Frame("limit", "route")
           ts == IF Timed THEN <<t>> ELSE <<>>
           ls == IF Limited THEN <<l>> ELSE <<>>
           w == ts \o ls
           c == BuildPipeline(Guarded(r), r.mw)
           d == w \o c
<1>1. t.kind = "timeout" /\ l.kind = "limit"
    BY DEF Frame
<1>2. Layer("timeout") = 1 /\ Layer("limit") = 2
    BY DEF Layer
<1>3. Stacked(c) /\ (\E U : c \in Seq(U)) /\ \A i \in 1..Len(c) : Layer(c[i].kind) > 2
    BY Inmost, Around
<1>4. PICK U : c \in Seq(U)
    BY <1>3
<1> HIDE DEF t, l, c
<1> DEFINE S == U \cup {t, l}
<1>5. /\ ts \in Seq(S) /\ (\A i \in 1..Len(ts) : i = 1 /\ ts[i] = t) /\ (Timed => Len(ts) = 1)
      /\ ls \in Seq(S) /\ (\A i \in 1..Len(ls) : i = 1 /\ ls[i] = l) /\ (Limited => Len(ls) = 1)
      /\ c \in Seq(S)
  <2>1. /\ ts \in Seq({t}) /\ (\A i \in 1..Len(ts) : i = 1 /\ ts[i] = t) /\ (Timed => Len(ts) = 1)
        /\ ls \in Seq({l}) /\ (\A i \in 1..Len(ls) : i = 1 /\ ls[i] = l) /\ (Limited => Len(ls) = 1)
    BY Perhaps, ServeAssumption
  <2> HIDE DEF ts, ls
  <2> QED
    BY <1>4, <2>1
<1> HIDE DEF ts, ls, S
<1>6. Stacked(ts) /\ Stacked(ls)
    BY <1>5 DEF Stacked
<1>7. Stacked(w)
    BY <1>1, <1>2, <1>5, <1>6, Atop
<1>8. /\ w \in Seq(S) /\ Len(w) = Len(ts) + Len(ls) /\ Len(ts) \in Nat /\ Len(ls) \in Nat
      /\ \A i \in 1..Len(ts) : w[i] = ts[i]
      /\ \A i \in 1..Len(ls) : w[Len(ts) + i] = ls[i]
    BY <1>5, Joined
<1>9. \A i \in 1..Len(w) : w[i] \in {t, l}
  <2>1. ASSUME NEW i \in 1..Len(w), i > Len(ts) PROVE w[i] \in {t, l}
    <3> DEFINE k == i - Len(ts)
    <3>1. k \in 1..Len(ls) /\ i = Len(ts) + k
      BY <1>8, <2>1
    <3> HIDE DEF k, w
    <3> QED
      BY <1>5, <1>8, <3>1
  <2> HIDE DEF w
  <2> QED
    BY <1>5, <1>8, <2>1
<1> HIDE DEF w
<1>10. Stacked(d)
  <2>1. \A i \in 1..Len(w), j \in 1..Len(c) : Layer(w[i].kind) < Layer(c[j].kind)
    BY <1>1, <1>2, <1>3, <1>9, Layers
  <2> QED
    BY <1>3, <1>5, <1>7, <1>8, <2>1, Atop
<1>11. /\ d \in Seq(S) /\ Len(d) = Len(w) + Len(c) /\ Len(c) \in Nat
       /\ \A i \in 1..Len(w) : d[i] = w[i]
    BY <1>5, <1>8, Joined
<1> HIDE DEF d
<1>12. ASSUME Timed PROVE \E i \in 1..Len(d) : d[i].kind = "timeout"
  <2>1. 1 \in 1..Len(ts) /\ 1 \in 1..Len(w) /\ 1 \in 1..Len(d)
    <3>1. Len(ts) = 1 /\ Len(ls) \in Nat /\ Len(w) = 1 + Len(ls) /\ Len(d) = Len(w) + Len(c)
      BY <1>5, <1>8, <1>11, <1>12
    <3> QED
      BY <1>11, <3>1
  <2>2. d[1] = t
    BY <1>5, <1>8, <1>11, <2>1
  <2> QED
    BY <1>1, <2>1, <2>2
<1>13. ASSUME Limited PROVE \E i \in 1..Len(d) : d[i].kind = "limit"
  <2>1. /\ Len(ls) = 1 /\ 1 \in 1..Len(ls) /\ Len(ts) \in Nat
        /\ Len(ts) + 1 \in 1..Len(w) /\ Len(ts) + 1 \in 1..Len(d)
    <3>1. Len(ls) = 1 /\ Len(ts) \in Nat /\ Len(w) = Len(ts) + 1 /\ Len(d) = Len(w) + Len(c)
      BY <1>5, <1>8, <1>11, <1>13
    <3> QED
      BY <1>11, <3>1
  <2>2. d[Len(ts) + 1] = l
    BY <1>5, <1>8, <1>11, <2>1
  <2> QED
    BY <1>1, <2>1, <2>2
<1>14. Pipeline(r) = d
    BY DEF Pipeline, Wraps, d, w, ts, ls, t, l, c
<1> QED
    BY <1>10, <1>11, <1>12, <1>13, <1>14

-----------------------------------------------------------------------------
(* What a step may be, seen from the frames.                                  *)

Fixed == UNCHANGED <<mws, route, target, method, origin, chain>>
Enters == chain[at].kind = "mw" /\ Note("enter", chain[at].name)
Calls == \E what, name : what \notin {"enter"} \cup Left /\ Note(what, name)

\* One frame further in, or at work in the guards or the handler.
Inside ==
    /\ phase = "enter" /\ phase' = "enter" /\ Fixed /\ UNCHANGED <<resp, raised>>
    /\ \/ /\ at' = at + 1 /\ UNCHANGED trace /\ chain[at].kind # "handler"
       \/ at' = at + 1 /\ Enters /\ ~AnsweredByCors(chain[at].name)
       \/ at' = at /\ Calls /\ chain[at].kind \in {"guards", "handler"}

\* The way in ends, in a response or a panic.
Turn ==
    /\ phase = "enter" /\ phase' \in {"leave", "unwind"} /\ Fixed /\ at' = at - 1
    /\ UNCHANGED trace \/ Enters \/ Calls

\* On the way out, and after it.
Out ==
    /\ phase \notin {"setup", "enter"} /\ phase' \notin {"setup", "enter"} /\ Fixed /\ at' \in 0..at
    /\ phase' \in {"leave", "unwind"} => phase \in {"leave", "unwind"}
    /\ \/ UNCHANGED trace
       \/ /\ phase \in {"leave", "unwind"} /\ phase' \in {"leave", "unwind"} /\ at' = at - 1 /\ at > 0
          /\ chain[at].kind = "mw" /\ \E what \in Left : Note(what, chain[at].name)

Idle == UNCHANGED <<mws, guards, route, target, method, origin, phase, chain, at, check, resp, raised, writes, logged, trace>>

LEMMA EnterMoves ==
    ASSUME IInv, Enter
    PROVE  Inside \/ Turn
<1>1. at \in Nat /\ phase = "enter"
    BY DEF IInv, TypeOK, Enter, EnterTimeout, EnterLimit, EnterMW, CheckGuard, GuardsPass, RunCheck, Handle, Running
<1>2. CASE EnterTimeout \/ EnterLimit \/ GuardsPass
    BY <1>1, <1>2 DEF EnterTimeout, EnterLimit, GuardsPass, Running, GoOn, Inside, Fixed, flight, request, app
<1>3. CASE EnterMW
  <2>1. Enters
    BY <1>3 DEF EnterMW, Running, Enters
  <2>2. CASE GoOn /\ ~AnsweredByCors(chain[at].name)
    BY <1>1, <2>1, <2>2 DEF GoOn, Inside, Fixed, flight, request, app
  <2>3. CASE (\E r : Return(r)) \/ \E v : Panic(v)
    BY <1>1, <2>1, <2>3 DEF Return, Panic, Turn, Fixed, request, app
  <2> QED
    BY <1>3, <2>2, <2>3 DEF EnterMW
<1>4. CASE CheckGuard \/ RunCheck
  <2>1. chain[at].kind \in {"guards", "handler"}
    BY <1>4 DEF CheckGuard, RunCheck, Running
  <2>2. CASE Calls /\ UNCHANGED <<app, request, phase, chain, at, flight, outcome>>
    BY <1>1, <2>1, <2>2 DEF Inside, Fixed, flight, request, app
  <2>3. CASE (Calls \/ UNCHANGED trace) /\ ((\E r : Return(r)) \/ \E v : Panic(v))
    BY <1>1, <2>3 DEF Return, Panic, Turn, Fixed, request, app
  <2>4. \A what, name : Note(what, name) /\ what \in {"passed", "blocked", "healthy", "degraded"} => Calls
    BY DEF Calls, Left
  <2> QED
    BY <1>4, <2>2, <2>3, <2>4 DEF CheckGuard, RunCheck
<1>5. CASE Handle
  <2>1. Calls
    BY <1>5 DEF Handle, Calls, Left
  <2>2. (\E r : Return(r)) \/ \E v : Panic(v)
    BY <1>5 DEF Handle
  <2> QED
    BY <1>1, <2>1, <2>2 DEF Return, Panic, Turn, Fixed, request, app
<1> QED
    BY <1>2, <1>3, <1>4, <1>5 DEF Enter

LEMMA LeaveMoves ==
    ASSUME IInv, Leave \/ Answer
    PROVE  Out
<1>1. at \in Nat
    BY DEF IInv, TypeOK
<1>2. CASE LeaveTimeout \/ LeavePlain
    BY <1>1, <1>2 DEF LeaveTimeout, LeavePlain, Running, Outward, Out, Fixed, request, app
<1>3. CASE LeaveMW
  <2>1. /\ phase = "leave" /\ at > 0 /\ chain[at].kind = "mw"
        /\ \E what \in Left : Note(what, chain[at].name)
    BY <1>3 DEF LeaveMW, Running, Left
  <2>2. phase' \in {"leave", "unwind"} /\ at' = at - 1 /\ Fixed
    BY <1>3, <2>1 DEF LeaveMW, Outward, Panic, Fixed, request, app
  <2> QED
    BY <1>1, <2>1, <2>2 DEF Out
<1>4. CASE UnwindMW
  <2>1. phase = "unwind" /\ at > 0 /\ chain[at].kind = "mw"
    BY <1>4 DEF UnwindMW, Running
  <2>2. phase' \in {"leave", "unwind"} /\ at' = at - 1 /\ Fixed
    BY <1>4, <2>1 DEF UnwindMW, Outward, Return, Fixed, request, app
  <2>3. UNCHANGED trace \/ \E what \in Left : Note(what, chain[at].name)
    BY <1>4 DEF UnwindMW, Left
  <2> QED
    BY <1>1, <2>1, <2>2, <2>3 DEF Out
<1>5. CASE InvokeRecovers
    BY <1>1, <1>5, Maps DEF InvokeRecovers, Out, Fixed, request, app
<1>6. CASE Answer
    BY <1>1, <1>6, Maps DEF Answer, Boundary, Write, Log, Out, Fixed, request, app
<1> QED
    BY <1>2, <1>3, <1>4, <1>5, <1>6 DEF Leave

LEMMA Moves ==
    ASSUME IInv, [Next]_vars
    PROVE  SetUp \/ Receive \/ Inside \/ Turn \/ Out \/ Idle
<1>1. CASE DeadlinePasses \/ Over \/ UNCHANGED vars
    BY <1>1 DEF DeadlinePasses, Over, vars, Idle, flight, request, outcome, app
<1> QED
    BY <1>1, EnterMoves, LeaveMoves DEF Next

-----------------------------------------------------------------------------
(* Nesting.                                                                   *)

\* A middleware has one frame.
LEMMA OneFrame ==
    ASSUME Laid, NEW p, NEW q, NEW n, IsAt(p, n), IsAt(q, n)
    PROVE  p = q
<1>1. Len(chain) \in Nat
    BY DEF Laid
<1>2. p \in Int /\ q \in Int
    BY <1>1 DEF IsAt
<1>3. ~(p < q) /\ ~(q < p)
    BY DEF Laid, IsAt, Stacked, Layer
<1> QED
    BY <1>2, <1>3

\* What lies deeper than the guards or the handler is no middleware.
LEMMA Deeper ==
    ASSUME Laid, at \in 1..Len(chain), chain[at].kind \in {"guards", "handler"}, NEW p \in at..Len(chain)
    PROVE  chain[p].kind # "mw"
<1>1. Len(chain) \in Nat
    BY DEF Laid
<1>2. CASE p = at
    BY <1>2
<1>3. CASE at < p
    BY <1>1, <1>3 DEF Laid, Stacked, Layer
<1> QED
    BY <1>1, <1>2, <1>3

\* What a further callback must satisfy.
LEMMA OrderGrows ==
    ASSUME TypeOK, Ordered, UNCHANGED chain, NEW what, NEW name, Note(what, name),
           what = "enter" => \A i \in DOMAIN trace : trace[i].what = "enter",
           \A i \in DOMAIN trace, p, q \in 1..Len(chain) : IsAt(p, trace[i].name) /\ IsAt(q, name) =>
              /\ trace[i].what = "enter" /\ what = "enter" => p < q
              /\ trace[i].what \in Left /\ what \in Left => q < p
    PROVE  Ordered'
<1> DEFINE n == Len(trace)
<1>1. /\ n \in Nat /\ DOMAIN trace = 1..n /\ DOMAIN trace' = 1..n + 1
      /\ trace'[n + 1].what = what /\ trace'[n + 1].name = name
      /\ \A i \in 1..n : trace'[i] = trace[i]
  <2>1. [what |-> what, name |-> name].what = what /\ [what |-> what, name |-> name].name = name
    OBVIOUS
  <2> QED
    BY <2>1, Longer
<1> HIDE DEF n
<1>2. \A p, m : IsAt(p, m)' <=> IsAt(p, m)
    BY DEF IsAt
<1>3. ASSUME NEW i \in 1..n + 1, NEW j \in 1..n + 1, i < j
      PROVE  /\ trace'[i].what # "enter" => trace'[j].what # "enter"
             /\ \A p, q \in 1..Len(chain) : IsAt(p, trace'[i].name) /\ IsAt(q, trace'[j].name) =>
                   /\ trace'[i].what = "enter" /\ trace'[j].what = "enter" => p < q
                   /\ trace'[i].what \in Left /\ trace'[j].what \in Left => q < p
  <2>1. i \in 1..n /\ trace'[i] = trace[i] /\ (j \in 1..n \/ j = n + 1)
    BY <1>1, <1>3
  <2>2. CASE j \in 1..n
    <3>1. trace'[j] = trace[j] /\ i \in DOMAIN trace /\ j \in DOMAIN trace
      BY <1>1, <2>1, <2>2
    <3> QED
      BY <1>3, <2>1, <3>1 DEF Ordered
  <2>3. CASE j = n + 1
    BY <1>1, <2>1, <2>3
  <2> QED
    BY <2>1, <2>2, <2>3
<1> QED
    BY <1>1, <1>2, <1>3 DEF Ordered, IsAt

\* Neither registration nor layout changes while the request runs.
LEMMA Same ==
    ASSUME NInv, Fixed, at' \in 0..Len(chain)
    PROVE  Enlisted' /\ Laid'
BY DEF NInv, Fixed, Enlisted, Laid, Apart, Stacked, RankMW, Layer

\* A callback that is no middleware's, or none.
LEMMA OrderStays ==
    ASSUME TypeOK, Ordered, UNCHANGED chain, UNCHANGED trace \/ Calls
    PROVE  Ordered'
<1>1. CASE UNCHANGED trace
    BY <1>1 DEF Ordered, IsAt
<1>2. CASE Calls
  <2>1. PICK what, name : what \notin {"enter"} \cup Left /\ Note(what, name)
    BY <1>2 DEF Calls
  <2> QED
    BY <2>1, OrderGrows
<1> QED
    BY <1>1, <1>2

\* The middleware whose turn it is is entered after all that were.
LEMMA OrderEnters ==
    ASSUME TypeOK, Laid, Placed, Ordered, UNCHANGED chain, phase = "enter", at \in 1..Len(chain), Enters
    PROVE  Ordered'
<1>1. at \in at..Len(chain) /\ IsAt(at, chain[at].name)
  <2>1. Len(chain) \in Nat
    BY DEF Laid
  <2> QED
    BY <2>1 DEF Enters, IsAt
<1>2. \A i \in DOMAIN trace : trace[i].what = "enter"
    BY <1>1 DEF Placed, Enters
<1>3. ASSUME NEW i \in DOMAIN trace, NEW p, NEW q, IsAt(p, trace[i].name), IsAt(q, chain[at].name)
      PROVE  p < q
  <2>1. PICK k \in 1..Len(chain) : IsAt(k, trace[i].name) /\ k < at
    BY <1>2 DEF Placed
  <2>2. p = k /\ q = at
    BY <1>1, <1>3, <2>1, OneFrame
  <2> QED
    BY <2>1, <2>2
<1> QED
    BY <1>2, <1>3, OrderGrows DEF Enters, Left

LEMMA InsideNested ==
    ASSUME IInv, GInv, NInv, Inside
    PROVE  NInv'
<1>1. /\ TypeOK /\ Laid /\ Placed /\ Ordered /\ at \in 1..Len(chain) /\ Len(chain) \in Nat
      /\ phase = "enter" /\ phase' = "enter" /\ UNCHANGED chain
    BY DEF IInv, GInv, NInv, Laid, Inside, Fixed
<1>2. at' \in 1..Len(chain)
  <2>1. chain[at].kind # "handler" => at < Len(chain)
    BY <1>1 DEF GInv, Piped
  <2> QED
    BY <1>1, <2>1 DEF Inside, Enters
<1>3. Enlisted' /\ Laid'
    BY <1>1, <1>2, Same DEF Inside
<1>4. Ordered'
    BY <1>1, OrderStays, OrderEnters DEF Inside
<1>5. Placed'
  <2>1. CASE UNCHANGED trace
    BY <1>1, <1>2, <2>1 DEF Inside, Placed, IsAt
  <2>2. ASSUME NEW what, NEW name, Note(what, name), what \notin Left,
               what = "enter" => at' = at + 1 /\ IsAt(at, name),
               what # "enter" => at' = at /\ chain[at].kind \in {"guards", "handler"}
        PROVE  Placed'
    <3> DEFINE n == Len(trace)
    <3>1. /\ n \in Nat /\ DOMAIN trace = 1..n /\ DOMAIN trace' = 1..n + 1
          /\ trace'[n + 1].what = what /\ trace'[n + 1].name = name
          /\ \A i \in 1..n : trace'[i] = trace[i]
      <4>1. [what |-> what, name |-> name].what = what /\ [what |-> what, name |-> name].name = name
        OBVIOUS
      <4> QED
        BY <1>1, <2>2, <4>1, Longer
    <3> HIDE DEF n
    <3>2. ASSUME NEW j \in 1..n + 1
          PROVE  /\ trace'[j].what = "enter" => \E p \in 1..Len(chain) : IsAt(p, trace'[j].name) /\ p < at'
                 /\ trace'[j].what \notin Left
                 /\ trace'[j].what # "enter" => \A p \in at'..Len(chain) : chain[p].kind # "mw"
      <4>1. CASE j \in 1..n
        <5>1. j \in DOMAIN trace /\ trace'[j] = trace[j] /\ (at' = at \/ at' = at + 1)
          BY <2>2, <3>1, <4>1
        <5>2. \A p \in at'..Len(chain) : p \in at..Len(chain)
          BY <1>1, <5>1
        <5> QED
          BY <1>1, <5>1, <5>2 DEF Placed
      <4>2. CASE j = n + 1
        BY <1>1, <2>2, <3>1, <4>2, Deeper DEF IsAt
      <4> QED
        BY <3>1, <4>1, <4>2
    <3> QED
      BY <1>1, <3>1, <3>2 DEF Placed, IsAt
  <2>3. IsAt(at, chain[at].name) <=> chain[at].kind = "mw"
    BY <1>1 DEF IsAt
  <2> QED
    BY <2>1, <2>2, <2>3 DEF Inside, Enters, Calls, Left
<1> QED
    BY <1>3, <1>4, <1>5 DEF NInv

LEMMA TurnNested ==
    ASSUME IInv, GInv, NInv, Turn
    PROVE  NInv'
<1>1. /\ TypeOK /\ Laid /\ Placed /\ Ordered /\ at \in 1..Len(chain) /\ Len(chain) \in Nat
      /\ phase = "enter" /\ phase' # "enter" /\ at' = at - 1 /\ UNCHANGED chain
    BY DEF IInv, GInv, NInv, Laid, Turn, Fixed
<1>2. Enlisted' /\ Laid'
    BY <1>1, Same DEF Turn
<1>3. Ordered'
    BY <1>1, OrderStays, OrderEnters DEF Turn
<1>4. Placed'
  <2>1. CASE UNCHANGED trace
    BY <1>1, <2>1 DEF Placed, IsAt
  <2>2. ASSUME NEW what, NEW name, Note(what, name), what \notin Left, what = "enter" => IsAt(at, name)
        PROVE  Placed'
    <3> DEFINE n == Len(trace)
    <3>1. /\ n \in Nat /\ DOMAIN trace = 1..n /\ DOMAIN trace' = 1..n + 1
          /\ trace'[n + 1].what = what /\ trace'[n + 1].name = name
          /\ \A i \in 1..n : trace'[i] = trace[i]
      <4>1. [what |-> what, name |-> name].what = what /\ [what |-> what, name |-> name].name = name
        OBVIOUS
      <4> QED
        BY <1>1, <2>2, <4>1, Longer
    <3> HIDE DEF n
    <3>2. ASSUME NEW j \in 1..n + 1
          PROVE  /\ trace'[j].what = "enter" => \E p \in 1..Len(chain) : IsAt(p, trace'[j].name)
                 /\ trace'[j].what \notin Left
      <4>1. CASE j \in 1..n
        BY <1>1, <3>1, <4>1 DEF Placed
      <4>2. CASE j = n + 1
        BY <1>1, <2>2, <3>1, <4>2 DEF IsAt
      <4> QED
        BY <3>1, <4>1, <4>2
    <3> QED
      BY <1>1, <3>1, <3>2 DEF Placed, IsAt
  <2>3. IsAt(at, chain[at].name) <=> chain[at].kind = "mw"
    BY <1>1 DEF IsAt
  <2> QED
    BY <2>1, <2>2, <2>3 DEF Turn, Enters, Calls, Left
<1> QED
    BY <1>2, <1>3, <1>4 DEF NInv

LEMMA OutNested ==
    ASSUME IInv, NInv, Out
    PROVE  NInv'
<1>1. /\ TypeOK /\ Laid /\ Placed /\ Ordered /\ at \in 0..Len(chain) /\ Len(chain) \in Nat
      /\ phase # "enter" /\ phase' # "enter" /\ at' \in 0..at /\ UNCHANGED chain
    BY DEF IInv, NInv, Laid, Out, Fixed
<1>2. Enlisted' /\ Laid'
    BY <1>1, Same DEF Out
<1>3. CASE UNCHANGED trace
  <2>1. Ordered'
    BY <1>1, <1>3, OrderStays
  <2>2. Placed'
    BY <1>1, <1>3 DEF Out, Placed, IsAt
  <2> QED
    BY <1>2, <2>1, <2>2 DEF NInv
<1>4. ASSUME phase \in {"leave", "unwind"}, phase' \in {"leave", "unwind"}, at' = at - 1, at > 0, NEW what \in Left, NEW name,
             IsAt(at, name), Note(what, name)
      PROVE  NInv'
  <2> DEFINE n == Len(trace)
  <2>1. /\ n \in Nat /\ DOMAIN trace = 1..n /\ DOMAIN trace' = 1..n + 1
        /\ trace'[n + 1].what \in Left /\ trace'[n + 1].what # "enter" /\ trace'[n + 1].name = name
        /\ \A i \in 1..n : trace'[i] = trace[i]
    <3>1. /\ [what |-> what, name |-> name].what = what /\ [what |-> what, name |-> name].name = name
          /\ what # "enter"
      BY DEF Left
    <3> QED
      BY <1>1, <1>4, <3>1, Longer
  <2> HIDE DEF n
  <2>2. Placed'
    <3>1. ASSUME NEW j \in 1..n + 1
          PROVE  /\ trace'[j].what = "enter" => \E p \in 1..Len(chain) : IsAt(p, trace'[j].name)
                 /\ trace'[j].what \in Left => \E p \in 1..Len(chain) : IsAt(p, trace'[j].name) /\ at' < p
      <4>1. CASE j \in 1..n
        <5>1. j \in DOMAIN trace /\ trace'[j] = trace[j]
          BY <2>1, <4>1
        <5>2. /\ trace[j].what = "enter" => \E p \in 1..Len(chain) : IsAt(p, trace[j].name)
              /\ trace[j].what \in Left => \E p \in 1..Len(chain) : IsAt(p, trace[j].name) /\ at < p
          BY <1>1, <1>4, <5>1 DEF Placed
        <5> QED
          BY <1>1, <1>4, <5>1, <5>2
      <4>2. CASE j = n + 1
        BY <1>1, <1>4, <2>1, <4>2 DEF IsAt
      <4> QED
        BY <2>1, <4>1, <4>2
    <3> QED
      BY <1>1, <1>4, <2>1, <3>1 DEF Placed, IsAt
  <2>3. Ordered'
    <3>1. ASSUME NEW i \in DOMAIN trace, trace[i].what \in Left, NEW p, NEW q,
                 IsAt(p, trace[i].name), IsAt(q, name)
          PROVE  q < p
      <4>1. PICK k \in 1..Len(chain) : IsAt(k, trace[i].name) /\ at < k
        BY <1>4, <3>1 DEF Placed, NInv
      <4>2. p = k /\ q = at
        BY <1>1, <1>4, <3>1, <4>1, OneFrame
      <4> QED
        BY <4>1, <4>2
    <3> QED
      BY <1>1, <1>4, <3>1, OrderGrows DEF Left
  <2> QED
    BY <1>2, <2>2, <2>3 DEF NInv
<1>5. at > 0 /\ chain[at].kind = "mw" => IsAt(at, chain[at].name)
    BY <1>1 DEF IsAt
<1> QED
    BY <1>3, <1>4, <1>5 DEF Out

\* A request comes in.
LEMMA ReceiveNested ==
    ASSUME GInv, NInv, Receive
    PROVE  NInv'
<1>1. /\ phase = "setup" /\ trace = <<>> /\ trace' = <<>> /\ UNCHANGED <<mws, route>>
    BY DEF Receive, ServeRoute, ServeProbe, ServeOptions, ServeError, Invoke, app, GInv
<1>2. Placed' /\ Ordered'
  <2>1. DOMAIN <<>> = {}
    OBVIOUS
  <2> QED
    BY <1>1, <2>1 DEF Placed, Ordered
<1>3. Enlisted'
    BY <1>1 DEF NInv, Enlisted, Apart, RankMW
<1>4. ASSUME NEW t, NEW c, NEW ms, Invoke(t, c, ms), (\E S : c \in Seq(S)), Stacked(c), Len(c) > 0,
             t = "route" =>
                /\ Timed => \E i \in 1..Len(c) : c[i].kind = "timeout"
                /\ Limited => \E i \in 1..Len(c) : c[i].kind = "limit"
      PROVE  Laid'
  <2>1. target' = t /\ chain' = c /\ at' = 1 /\ Len(c) \in Nat
    BY <1>4 DEF Invoke
  <2>2. Stacked(chain)'
    BY <1>4, <2>1 DEF Stacked, Layer, RankMW
  <2> QED
    BY <1>4, <2>1, <2>2 DEF Laid
<1>5. CASE ServeRoute
  <2>1. route.registered /\ \E ms : Invoke("route", Pipeline(route), ms)
    BY <1>5 DEF ServeRoute
  <2>2. (\E S : route.mw \in Seq(S)) /\ Apart(route.mw) /\ Len(Pipeline(route)) > 0
    BY <2>1, PipelinePiped DEF NInv, Enlisted, GInv, Piped
  <2> QED
    BY <1>2, <1>3, <1>4, <2>1, <2>2, PipelineStacked DEF NInv
<1>6. CASE ServeProbe
  <2>1. PICK h \in {"live", "ready"} : Invoke(h, <<Frame("handler", h)>>, {"GET"})
    BY <1>6 DEF ServeProbe
  <2>2. Len(<<Frame("handler", h)>>) = 1
    OBVIOUS
  <2>3. (\E S : <<Frame("handler", h)>> \in Seq(S)) /\ Stacked(<<Frame("handler", h)>>)
    BY Inmost
  <2> DEFINE c == <<Frame("handler", h)>>
  <2>4. Invoke(h, c, {"GET"}) /\ (\E S : c \in Seq(S)) /\ Stacked(c) /\ Len(c) > 0 /\ h # "route"
    BY <2>1, <2>2, <2>3
  <2> HIDE DEF c
  <2>5. Laid'
    BY <1>4, <2>4
  <2> QED
    BY <1>2, <1>3, <2>5 DEF NInv
<1>7. CASE ServeOptions
  <2> DEFINE h == <<Frame("handler", "allow")>>
  <2>1. (\E S : h \in Seq(S)) /\ Stacked(h) /\ \A i \in 1..Len(h) : Layer(h[i].kind) > 3
    BY Inmost
  <2>2. Piped(BuildPipeline(h, mws), "options")
    BY Bare, Layered DEF GInv, Registered
  <2>3. mws \in Seq(GlobalMW) /\ Apart(mws) /\ Invoke("options", BuildPipeline(h, mws), {"OPTIONS"})
    BY <1>7 DEF NInv, Enlisted, ServeOptions
  <2> HIDE DEF h
  <2> QED
    BY <1>2, <1>3, <1>4, <2>1, <2>2, <2>3, Around DEF NInv, Piped
<1>8. CASE \E t, status : ServeError(t, status) /\ t # "route"
    BY <1>2, <1>3, <1>8 DEF ServeError, NInv, Laid, Stacked, Layer, RankMW
<1> QED
    BY <1>5, <1>6, <1>7, <1>8 DEF Receive

LEMMA SetUpNested ==
    ASSUME GInv, NInv, SetUp
    PROVE  NInv'
<1>1. /\ phase = "setup" /\ UNCHANGED <<trace, target, phase, chain, at>>
    BY DEF SetUp, Use, AddGuard, Register, request
<1>2. Laid' /\ Placed' /\ Ordered'
    BY <1>1 DEF NInv, Laid, Placed, Ordered, IsAt, Stacked, Layer, RankMW
<1>3. ASSUME NEW m \in GlobalMW, Use(m) PROVE Enlisted'
  <2>1. mws' = Append(mws, m) /\ m \notin ToSet(mws) /\ UNCHANGED route /\ mws \in Seq(GlobalMW) /\ Apart(mws)
    BY <1>3 DEF Use, NInv, Enlisted
  <2> DEFINE n == Len(mws)
  <2>2. /\ mws' \in Seq(GlobalMW) /\ n \in Nat /\ Len(mws') = n + 1 /\ mws'[n + 1] = m
        /\ \A i \in 1..n : mws'[i] = mws[i] /\ mws[i] # m
    BY <2>1 DEF ToSet
  <2> HIDE DEF n
  <2>3. \A i \in 1..n + 1 : RankMW(mws'[i]) = 1
    <3>1. \A i \in 1..n + 1 : mws'[i] \in GlobalMW
      BY <2>2
    <3>2. \A x \in GlobalMW : RankMW(x) = 1
      BY LevelsAssumption DEF RankMW
    <3> QED
      BY <3>1, <3>2
  <2>4. ASSUME NEW k \in 1..n + 1, NEW l \in 1..n + 1, k < l PROVE mws'[k] # mws'[l]
    <3>1. k \in 1..n /\ (l \in 1..n \/ l = n + 1)
      BY <2>2, <2>4
    <3> QED
      BY <2>1, <2>2, <2>4, <3>1 DEF Apart, n
  <2>5. Apart(mws)' /\ (Apart(route.mw)' <=> Apart(route.mw))
    BY <2>1, <2>2, <2>3, <2>4 DEF Apart, RankMW
  <2> QED
    BY <2>1, <2>2, <2>5 DEF NInv, Enlisted
<1>4. ASSUME NEW g, AddGuard(g) PROVE Enlisted'
    BY <1>4 DEF AddGuard, NInv, Enlisted, Apart, RankMW
<1>5. ASSUME Register PROVE Enlisted'
  <2>1. UNCHANGED mws /\ route'.mw = mws \o ModuleMW \o RouteMW /\ mws \in Seq(GlobalMW) /\ Apart(mws)
    BY <1>5 DEF Register, NInv, Enlisted
  <2>2. route'.mw \in Seq(MW) /\ Apart(route'.mw)
    BY <2>1, MWApart
  <2> QED
    BY <2>1, <2>2 DEF Enlisted, Apart, RankMW
<1> QED
    BY <1>2, <1>3, <1>4, <1>5 DEF SetUp, NInv

LEMMA InitNested == Init => NInv
<1> SUFFICES ASSUME Init PROVE NInv
    OBVIOUS
<1>1. <<>> \in Seq(GlobalMW) /\ Len(<<>>) = 0 /\ DOMAIN <<>> = {}
    OBVIOUS
<1> QED
    BY <1>1 DEF Init, NoRoute, NInv, Enlisted, Apart, Laid, Stacked, Placed, Ordered

LEMMA NextNested == IInv /\ GInv /\ NInv /\ [Next]_vars => NInv'
<1> SUFFICES ASSUME IInv, GInv, NInv, [Next]_vars PROVE NInv'
    OBVIOUS
<1>1. CASE Idle
  <2>1. Fixed /\ at' \in 0..Len(chain) /\ UNCHANGED <<chain, phase, at, trace>>
    BY <1>1 DEF Idle, Fixed, NInv, Laid
  <2>2. Placed' /\ Ordered'
    BY <2>1 DEF NInv, Placed, Ordered, IsAt
  <2> QED
    BY <2>1, <2>2, Same DEF NInv
<1> QED
    BY <1>1, Moves, SetUpNested, ReceiveNested, InsideNested, TurnNested, OutNested

\* For any middleware on any level, registered in any order, and whatever each of it does: it is entered
\* level by level, before any guard and the handler, and left innermost first (bast.go 150-179,
\* middleware.go 20-28).
THEOREM MiddlewareNestsAlways == Spec => []MiddlewareNests
<1>1. ASSUME NInv PROVE MiddlewareNests
  <2> SUFFICES ASSUME NEW i \in DOMAIN trace, NEW j \in DOMAIN trace, i < j
               PROVE  /\ trace[i].what = "enter" /\ trace[j].what = "enter" =>
                            RankMW(trace[i].name) <= RankMW(trace[j].name)
                      /\ trace[i].what # "enter" => trace[j].what # "enter"
                      /\ trace[i].what \in Left /\ trace[j].what \in Left =>
                            \A a, b \in DOMAIN trace :
                                Happened(a, "enter", trace[i].name) /\ Happened(b, "enter", trace[j].name) => b < a
    BY DEF MiddlewareNests, Left
  <2>1. Laid /\ Placed /\ Ordered
    BY <1>1 DEF NInv
  <2>2. ASSUME trace[i].what = "enter", trace[j].what = "enter"
        PROVE  RankMW(trace[i].name) <= RankMW(trace[j].name)
    <3>1. PICK p, q \in 1..Len(chain) : IsAt(p, trace[i].name) /\ IsAt(q, trace[j].name)
      BY <2>1, <2>2 DEF Placed
    <3>2. p < q
      BY <2>1, <2>2, <3>1 DEF Ordered
    <3>3. chain[p].kind = "mw" /\ chain[q].kind = "mw" /\ RankMW(chain[p].name) <= RankMW(chain[q].name)
      BY <2>1, <3>1, <3>2 DEF IsAt, Laid, Stacked, Layer
    <3> QED
      BY <3>1, <3>3 DEF IsAt
  <2>3. ASSUME trace[i].what \in Left, trace[j].what \in Left, NEW a \in DOMAIN trace, NEW b \in DOMAIN trace,
               Happened(a, "enter", trace[i].name), Happened(b, "enter", trace[j].name)
        PROVE  b < a
    <3>1. PICK p, q \in 1..Len(chain) : IsAt(p, trace[i].name) /\ IsAt(q, trace[j].name)
      BY <2>1, <2>3 DEF Placed
    <3>2. q < p
      BY <2>1, <2>3, <3>1 DEF Ordered
    <3>3. ~(a < b)
      BY <2>1, <2>3, <3>1, <3>2 DEF Ordered, Happened
    <3>4. a # b
      BY <2>1, <2>3, <3>1, <3>2, OneFrame DEF Happened
    <3> QED
      BY <3>3, <3>4
  <2> QED
    BY <2>1, <2>2, <2>3 DEF Ordered
<1> QED
    BY InitInv, NextInv, InitGated, NextGated, InitNested, NextNested, <1>1, PTL DEF Spec

-----------------------------------------------------------------------------
(* The route's settings.                                                      *)

\* What a frame sets holds while what is inside it runs.
SInv ==
    /\ settings \in [deadline : {"none", "live", "passed", "cancelled"}, limit : {"app", "route"}]
    /\ \A i \in 1..Len(chain) :
          (phase = "enter" /\ i < at) \/ (phase \in {"leave", "unwind"} /\ i <= at) =>
              /\ chain[i].kind = "timeout" => settings.deadline \in {"live", "passed"}
              /\ chain[i].kind = "limit" => settings.limit = "route"

LEMMA NextSettings == IInv /\ GInv /\ NInv /\ SInv /\ [Next]_vars => SInv'
<1> SUFFICES ASSUME IInv, GInv, NInv, SInv, [Next]_vars PROVE SInv'
    OBVIOUS
<1>1. Laid /\ at \in 0..Len(chain) /\ Len(chain) \in Nat /\ (phase = "enter" => at \in 1..Len(chain))
    BY DEF NInv, Laid, GInv
<1>2. CASE UNCHANGED settings /\ (SetUp \/ Receive)
  <2>1. phase' \notin {"leave", "unwind"} /\ (phase' = "enter" => at' = 1)
    BY <1>2 DEF SetUp, Use, AddGuard, Register, Receive, ServeRoute, ServeProbe, ServeOptions, ServeError, Invoke
  <2> QED
    BY <1>2, <2>1 DEF SInv
<1>3. CASE UNCHANGED settings /\ Turn
  <2>1. UNCHANGED chain /\ phase = "enter" /\ phase' # "enter" /\ at' = at - 1
    BY <1>3 DEF Turn, Fixed
  <2> QED
    BY <1>1, <1>3, <2>1 DEF SInv
<1>4. CASE UNCHANGED settings /\ Out
  <2>1. UNCHANGED chain /\ phase' # "enter" /\ at' \in 0..at /\ (phase' \in {"leave", "unwind"} => phase \in {"leave", "unwind"})
    BY <1>4 DEF Out, Fixed
  <2> QED
    BY <1>1, <1>4, <2>1 DEF SInv
<1>5. CASE UNCHANGED settings /\ Inside /\ (at' = at \/ chain[at].kind \notin {"timeout", "limit"})
  <2>1. UNCHANGED chain /\ phase = "enter" /\ phase' = "enter" /\ (at' = at \/ at' = at + 1)
    BY <1>5 DEF Inside, Fixed
  <2>2. \A i \in 1..Len(chain) : i < at' => i < at \/ chain[i].kind \notin {"timeout", "limit"}
    <3>1. \A i \in 1..Len(chain) : i < at' => i < at \/ (i = at /\ at' # at)
      BY <1>1, <2>1
    <3> QED
      BY <1>5, <3>1
  <2>3. settings' = settings
    BY <1>5
  <2> QED
    BY <2>1, <2>2, <2>3 DEF SInv
<1>6. CASE EnterTimeout
  <2>1. /\ UNCHANGED chain /\ phase = "enter" /\ phase' = "enter" /\ at' = at + 1 /\ chain[at].kind = "timeout"
        /\ settings' = [settings EXCEPT !.deadline = "live"]
    BY <1>6 DEF EnterTimeout, Running, GoOn
  <2>2. \A i \in 1..Len(chain) : i < at' => i < at \/ i = at
    BY <1>1, <2>1
  <2> QED
    BY <2>1, <2>2 DEF SInv
<1>7. CASE EnterLimit
  <2>1. /\ UNCHANGED chain /\ phase = "enter" /\ phase' = "enter" /\ at' = at + 1 /\ chain[at].kind = "limit"
        /\ settings' = [settings EXCEPT !.limit = "route"]
    BY <1>7 DEF EnterLimit, Running, GoOn
  <2>2. \A i \in 1..Len(chain) : i < at' => i < at \/ i = at
    BY <1>1, <2>1
  <2> QED
    BY <2>1, <2>2 DEF SInv
<1>8. CASE LeaveTimeout
  <2>1. /\ UNCHANGED <<chain, phase>> /\ phase # "enter" /\ at' = at - 1 /\ at > 0 /\ chain[at].kind = "timeout"
        /\ settings' = [settings EXCEPT !.deadline = "cancelled"]
    BY <1>8 DEF LeaveTimeout, Running, Outward
  <2>2. \A i \in 1..Len(chain) : i <= at' => i < at /\ chain[i].kind # "timeout"
    BY <1>1, <2>1 DEF Laid, Stacked, Layer
  <2> QED
    BY <1>1, <2>1, <2>2 DEF SInv
<1>9. CASE DeadlinePasses
  <2>1. UNCHANGED <<chain, phase, at>> /\ settings' = [settings EXCEPT !.deadline = "passed"]
    BY <1>9 DEF DeadlinePasses
  <2> QED
    BY <1>9, <2>1 DEF SInv, DeadlinePasses
<1>10. CASE Over \/ UNCHANGED vars
    BY <1>10 DEF Over, vars, SInv
<1>11. SetUp \/ Receive => UNCHANGED settings
    BY DEF SetUp, Use, AddGuard, Register, Receive, ServeRoute, ServeProbe, ServeOptions, ServeError, Invoke
<1>12. Enter /\ ~EnterTimeout /\ ~EnterLimit =>
          UNCHANGED settings /\ (Inside => at' = at \/ chain[at].kind \notin {"timeout", "limit"})
    BY DEF Enter, EnterMW, CheckGuard, GuardsPass, RunCheck, Handle, Running, Inside, Enters
<1>13. (Leave /\ ~LeaveTimeout) \/ Answer => UNCHANGED settings
    BY DEF Leave, LeavePlain, LeaveMW, UnwindMW, InvokeRecovers, Answer, Boundary, Write, Log
<1> QED
    BY <1>2, <1>3, <1>4, <1>5, <1>6, <1>7, <1>8, <1>9, <1>10, <1>11, <1>12, <1>13, EnterMoves, LeaveMoves DEF Next

\* For any middleware and guards and whatever they do: all of a route runs under the route's own body limit
\* and before its context is cancelled (bast.go 184-205, 220-229).
THEOREM SettingsInForceAlways == Spec => []SettingsInForce
<1>1. Init => SInv
  <2> SUFFICES ASSUME Init PROVE SInv
    OBVIOUS
  <2>1. Len(<<>>) = 0
    OBVIOUS
  <2> QED
    BY <2>1 DEF Init, SInv
<1>2. ASSUME GInv, NInv, SInv PROVE SettingsInForce
  <2> SUFFICES ASSUME target = "route", phase \in {"enter", "leave"}, at > 0,
                      chain[at].kind \in {"mw", "guards", "handler"}
               PROVE  /\ Limited => settings.limit = "route"
                      /\ Timed => settings.deadline \in {"live", "passed"}
    BY DEF SettingsInForce
  <2>1. Laid /\ at \in 1..Len(chain) /\ Len(chain) \in Nat
    BY <1>2 DEF NInv, Laid
  <2>2. ASSUME NEW i \in 1..Len(chain), chain[i].kind \in {"timeout", "limit"} PROVE i < at
    <3>1. ~(at < i) /\ i # at
      BY <2>1, <2>2 DEF Laid, Stacked, Layer
    <3> QED
      BY <2>1, <3>1
  <2>3. ASSUME Limited PROVE settings.limit = "route"
    <3>1. PICK i \in 1..Len(chain) : chain[i].kind = "limit"
      BY <2>1, <2>3 DEF Laid
    <3> QED
      BY <1>2, <2>1, <2>2, <3>1 DEF SInv
  <2>4. ASSUME Timed PROVE settings.deadline \in {"live", "passed"}
    <3>1. PICK i \in 1..Len(chain) : chain[i].kind = "timeout"
      BY <2>1, <2>4 DEF Laid
    <3> QED
      BY <1>2, <2>1, <2>2, <3>1 DEF SInv
  <2> QED
    BY <2>3, <2>4
<1> QED
    BY InitInv, NextInv, InitGated, NextGated, InitNested, NextNested, NextSettings, <1>1, <1>2, PTL DEF Spec

-----------------------------------------------------------------------------
(* What RequestID and CORS put on an answer.                                  *)

\* The history, one callback longer, seen from its end.
LEMMA Appended ==
    ASSUME TypeOK, NEW what, NEW name, Note(what, name)
    PROVE  /\ \A j \in DOMAIN trace : j \in DOMAIN trace' /\ trace'[j] = trace[j]
           /\ \A j \in DOMAIN trace' :
                 \/ j \in DOMAIN trace /\ trace'[j] = trace[j]
                 \/ trace'[j].what = what /\ trace'[j].name = name /\ \A k \in DOMAIN trace' : ~(k > j)
<1> DEFINE n == Len(trace)
<1>1. /\ n \in Nat /\ DOMAIN trace = 1..n /\ DOMAIN trace' = 1..n + 1
      /\ trace'[n + 1].what = what /\ trace'[n + 1].name = name
      /\ \A i \in 1..n : trace'[i] = trace[i]
  <2>1. [what |-> what, name |-> name].what = what /\ [what |-> what, name |-> name].name = name
    OBVIOUS
  <2> QED
    BY <2>1, Longer
<1> HIDE DEF n
<1>2. \A j \in 1..n + 1 : j \in 1..n \/ (j = n + 1 /\ \A k \in 1..n + 1 : ~(k > j))
    BY <1>1
<1> QED
    BY <1>1, <1>2

\* An answer that no middleware has touched.
Blank(r) == r.headers = {} /\ ~r.mapped

LEMMA BlankAnswers ==
    /\ Blank(NoResponse)
    /\ \A s : Blank(Raw(s))
    /\ \A may : \A r \in Fresh(may) : Blank(r)
    /\ \A e : Blank(Failed(e))
    /\ \A e : \A r \in ErrorHandler(e) : Blank(r)
    /\ Blank(Readiness)
<1>1. \A s : Raw(s).headers = {} /\ Raw(s).mapped = FALSE /\ Redirected(s).headers = {} /\ Redirected(s).mapped = FALSE
    BY DEF Raw, Redirected, NoResponse
<1>2. \A e : Failed(e).headers = {} /\ Failed(e).mapped = FALSE
    BY DEF Failed, NoResponse
<1>3. \A may : \A r \in Fresh(may) : Blank(r)
    BY <1>1, <1>2 DEF Fresh, Blank
<1>4. Blank(NoResponse)
    BY DEF Blank, NoResponse
<1> QED
    BY <1>1, <1>2, <1>3, <1>4 DEF Blank, ErrorHandler, Readiness

LEMMA HeaderAdded ==
    ASSUME NEW r, IsResponse(r), NEW h
    PROVE  WithHeader(r, h).headers = r.headers \cup {h} /\ WithHeader(r, h).mapped = r.mapped
<1>1. PICK H : r \in Response(H)
    BY DEF IsResponse
<1> QED
    BY <1>1 DEF Response, WithHeader

\* The answer of one more middleware: its header, or nothing.
LEMMA MarkedBy ==
    ASSUME NEW r, IsResponse(r), NEW h
    PROVE  /\ Marked(r, h).mapped = r.mapped
           /\ r.headers \subseteq Marked(r, h).headers
           /\ \A c \in Marked(r, h).headers : c \in r.headers \/ (c = h /\ origin = "allowed")
           /\ h \in Cors /\ origin = "allowed" => h \in Marked(r, h).headers
BY HeaderAdded DEF Marked

\* The response is in hand.
Answering == {"leave", "write", "log", "done"}

\* What a request knows of the headers of its answer so far.
HInv ==
    /\ phase \in {"setup", "enter"} => resp = NoResponse
    /\ \A c \in Cors : c \in resp.headers => origin = "allowed"
    \* what RequestID left
    /\ phase \in Answering /\ ~resp.mapped =>
          \A m \in Tags, j, k \in DOMAIN trace :
              Happened(j, "enter", m) /\ Happened(k, "leave", m) => m \in resp.headers \/ Overruled(j)
    \* what CORS entered: it has marked the answer or still will
    /\ phase \in Answering /\ ~resp.mapped /\ origin = "allowed" =>
          \A c \in Cors, j \in DOMAIN trace : Happened(j, "enter", c) =>
              c \in resp.headers \/ Overruled(j) \/ (phase = "leave" /\ \E p \in 1..at : IsAt(p, c))
    \* preflights end there
    /\ method = "OPTIONS" /\ origin \in {"allowed", "asking"} =>
          \A c \in Cors, j \in DOMAIN trace : Happened(j, "enter", c) =>
              phase \notin {"setup", "enter"} /\ \A k \in DOMAIN trace : k > j => trace[k].what \in Left

\* What the way in ends in: CORS has answered, or the answer has passed no middleware yet.
LEMMA TurnAnswers ==
    ASSUME IInv, HInv, Enter, Turn
    PROVE  \/ Blank(resp') /\ (Enters => chain[at].name \notin Cors)
           \/ Enters /\ AnsweredByCors(chain[at].name) /\ phase' = "leave" /\ resp' = Marked(Raw("ok"), chain[at].name)
<1>1. phase = "enter" /\ resp = NoResponse
    BY DEF HInv, Turn
<1>2. \A v : Panic(v) => Blank(resp')
    BY <1>1, BlankAnswers DEF Panic
<1>3. CASE EnterMW
  <2>1. Enters
    BY <1>3 DEF EnterMW, Running, Enters
  <2>2. CASE AnsweredByCors(chain[at].name) /\ Return(Marked(Raw("ok"), chain[at].name))
    BY <2>1, <2>2 DEF Return
  <2>3. CASE chain[at].name \notin Cors /\ ((\E r : Return(r) /\ Blank(r)) \/ \E v : Panic(v))
    BY <1>2, <2>3 DEF Return
  <2>4. ~GoOn
    BY <1>1 DEF GoOn, Turn
  <2> QED
    BY <1>3, <2>2, <2>3, <2>4, BlankAnswers DEF EnterMW, Other
<1>4. CASE Enter /\ ~EnterMW
  <2>1. ~Enters
    BY <1>1, <1>4 DEF Enter, EnterTimeout, EnterLimit, CheckGuard, GuardsPass, RunCheck, Handle, Running, Enters
  <2>2. (\E r : Return(r) /\ Blank(r)) \/ \E v : Panic(v)
    <3>1. phase' # phase
      BY DEF Turn
    <3> QED
      BY <1>4, <3>1, BlankAnswers DEF Enter, EnterTimeout, EnterLimit, CheckGuard, GuardsPass, RunCheck, Handle, GoOn
  <2> QED
    BY <1>2, <2>1, <2>2 DEF Return
<1> QED
    BY <1>3, <1>4

\* A middleware other than RequestID and CORS answers anew on the way out.
Renews ==
    /\ phase \in {"leave", "unwind"} /\ phase' = "leave" /\ at > 0 /\ at' = at - 1
    /\ chain[at].kind = "mw" /\ chain[at].name \notin Tags \cup Cors
    /\ Note("anew", chain[at].name)

\* What the way out does to the answer: it stays, a middleware adds its header, it is made anew, or it
\* becomes the error handler's.
LEMMA OutAnswers ==
    ASSUME IInv, Leave \/ Answer
    PROVE  /\ \A c \in Cors : c \in resp'.headers => c \in resp.headers \/ origin = "allowed"
           /\ phase' \in Answering /\ ~resp'.mapped =>
                 \/ Renews
                 \/ phase \in Answering /\ ~resp.mapped /\ resp.headers \subseteq resp'.headers
           /\ LeaveMW /\ phase' = "leave" =>
                 \/ Renews
                 \/ /\ chain[at].name \in Tags => chain[at].name \in resp'.headers
                    /\ chain[at].name \in Cors /\ origin = "allowed" => chain[at].name \in resp'.headers
<1>1. IsResponse(resp)
    BY DEF IInv, TypeOK
<1>2. CASE LeaveMW
  <2> DEFINE n == chain[at].name
  <2>1. phase = "leave" /\ at > 0 /\ chain[at].kind = "mw" /\ phase \in Answering
    BY <1>2 DEF LeaveMW, Running, Answering
  <2>2. CASE n \notin Tags /\ resp' = Marked(resp, n)
    BY <1>1, <2>1, <2>2, MarkedBy
  <2>3. CASE (n \in Tags \/ Other(n)) /\ resp' = WithHeader(resp, n)
    BY <1>1, <2>1, <2>3, HeaderAdded, ServeAssumption DEF Other
  <2>4. CASE Other(n) /\ resp' \in Fresh(UserMay) /\ Outward /\ Note("anew", n)
    <3>1. Blank(resp')
      BY <2>4, BlankAnswers
    <3>2. Renews
      BY <2>1, <2>4 DEF Renews, Other, Outward
    <3> QED
      BY <3>1, <3>2 DEF Blank
  <2>5. CASE \E v : Panic(v)
    BY <2>1, <2>5 DEF Panic, Answering
  <2> QED
    BY <1>2, <2>2, <2>3, <2>4, <2>5 DEF LeaveMW
<1>3. CASE UNCHANGED resp /\ ~LeaveMW /\ (phase' \in Answering => phase \in Answering)
    BY <1>3
<1>4. CASE resp'.headers = {} /\ resp'.mapped /\ ~LeaveMW
    BY <1>4
<1>5. CASE LeaveTimeout \/ LeavePlain
  <2>1. UNCHANGED <<resp, phase>> /\ ~LeaveMW
    BY <1>5 DEF LeaveTimeout, LeavePlain, LeaveMW, Running, Outward, flight
  <2> QED
    BY <1>3, <2>1
<1>6. CASE UnwindMW
  <2>1. phase = "unwind" /\ at > 0 /\ chain[at].kind = "mw" /\ ~LeaveMW
    BY <1>6 DEF UnwindMW, LeaveMW, Running
  <2>2. CASE chain[at].name \in Recovers
    <3>1. Blank(resp') /\ phase' = "leave" /\ at' = at - 1 /\ Note("anew", chain[at].name)
      BY <1>6, <2>2, BlankAnswers DEF UnwindMW, Return
    <3>2. Renews
      BY <2>1, <2>2, <3>1, ServeAssumption DEF Renews
    <3> QED
      BY <3>1, <3>2 DEF Blank
  <2>3. CASE chain[at].name \notin Recovers
    <3>1. UNCHANGED <<resp, phase>>
      BY <1>6, <2>3 DEF UnwindMW, Outward, flight
    <3> QED
      BY <1>3, <2>1, <3>1
  <2> QED
    BY <2>2, <2>3
<1>7. ASSUME NEW err, NEW next, Map(err, next), phase # "leave" \/ at = 0
      PROVE  \/ UNCHANGED resp /\ ~LeaveMW /\ phase' = "dead"
             \/ resp'.headers = {} /\ resp'.mapped /\ ~LeaveMW
  <2>1. ~LeaveMW
    BY <1>7 DEF LeaveMW, Running
  <2>2. ASSUME NEW r \in ErrorHandler(err)
        PROVE  [r EXCEPT !.mapped = TRUE].headers = {} /\ [r EXCEPT !.mapped = TRUE].mapped
    <3>1. PICK H : r \in Response(H)
      BY Handled DEF IsAnswer, IsResponse
    <3>2. r.headers = {}
      BY BlankAnswers DEF Blank
    <3> QED
      BY <3>1, <3>2 DEF Response
  <2> QED
    BY <1>7, <2>1, <2>2 DEF Map
<1>8. CASE InvokeRecovers
  <2>1. CASE UNCHANGED resp /\ phase' = "dead"
    BY <1>3, <1>8, <2>1 DEF InvokeRecovers, LeaveMW, Running, Answering
  <2>2. CASE Map("internal", "leave")
    BY <1>3, <1>4, <1>7, <1>8, <2>2 DEF InvokeRecovers, Answering
  <2> QED
    BY <1>8, <2>1, <2>2 DEF InvokeRecovers, flight
<1>9. CASE Boundary
  <2>1. CASE UNCHANGED resp
    BY <1>3, <1>9, <2>1 DEF Boundary, LeaveMW, Running, Answering
  <2>2. CASE Map(resp.err, "write")
    BY <1>3, <1>4, <1>7, <1>9, <2>2 DEF Boundary, Answering
  <2> QED
    BY <1>9, <2>1, <2>2 DEF Boundary, flight
<1>10. CASE Write \/ Log
    BY <1>3, <1>10 DEF Write, Log, LeaveMW, Running, Answering, flight
<1> QED
    BY <1>2, <1>5, <1>6, <1>8, <1>9, <1>10 DEF Leave, Answer

\* Who answers anew overrules all it was entered before.
LEMMA Overrules ==
    ASSUME IInv, NInv, Renews, NEW j \in DOMAIN trace, NEW m, Happened(j, "enter", m),
           NEW p \in 1..Len(chain), IsAt(p, m), at < p
    PROVE  Overruled(j)'
<1> DEFINE n == chain[at].name
<1>1. TypeOK /\ Laid /\ Ordered /\ at \in 1..Len(chain) /\ at \in 1..at /\ Len(chain) \in Nat
    BY DEF IInv, NInv, Laid, Renews
<1>2. IsAt(at, n)
    BY <1>1 DEF IsAt, Renews
<1>3. PICK a \in DOMAIN trace : Happened(a, "enter", n)
    BY <1>1 DEF IInv, Entered, Renews, WasEntered
<1>4. /\ Len(trace) \in Nat /\ DOMAIN trace = 1..Len(trace) /\ DOMAIN trace' = 1..Len(trace) + 1
      /\ trace'[Len(trace) + 1] = [what |-> "anew", name |-> n]
      /\ \A i \in 1..Len(trace) : trace'[i] = trace[i]
    BY <1>1, Longer DEF Renews
<1>5. ~(j < a)
    BY <1>1, <1>2, <1>3 DEF Ordered, Happened
<1>6. a # j
    BY <1>1, <1>2, <1>3, OneFrame DEF Happened
<1>7. a \in 1..j - 1 /\ trace'[a] = trace[a] /\ Len(trace) + 1 \in DOMAIN trace'
    BY <1>3, <1>4, <1>5, <1>6
<1>8. trace'[Len(trace) + 1].what = "anew" /\ trace'[Len(trace) + 1].name = trace'[a].name /\ trace'[a].what = "enter"
    BY <1>3, <1>4, <1>7 DEF Happened
<1> QED
    BY <1>7, <1>8 DEF Overruled, Happened

\* What is overruled stays so.
LEMMA StaysOverruled ==
    ASSUME TypeOK, UNCHANGED trace \/ \E what, name : Note(what, name),
           NEW j \in DOMAIN trace, Overruled(j)
    PROVE  Overruled(j)'
<1>1. DOMAIN trace = 1..Len(trace) /\ Len(trace) \in Nat
    BY DEF TypeOK
<1>2. ASSUME NEW i \in DOMAIN trace PROVE i \in DOMAIN trace' /\ trace'[i] = trace[i]
  <2>1. CASE UNCHANGED trace
    BY <2>1
  <2>2. ASSUME NEW what, NEW name, Note(what, name) PROVE i \in DOMAIN trace' /\ trace'[i] = trace[i]
    BY <2>2, Appended
  <2> QED
    BY <2>1, <2>2
<1>3. PICK a \in 1..j - 1, k \in DOMAIN trace : trace[a].what = "enter" /\ Happened(k, "anew", trace[a].name)
    BY DEF Overruled
<1>4. a \in DOMAIN trace
    BY <1>1
<1> QED
    BY <1>2, <1>3, <1>4 DEF Overruled, Happened

LEMMA TurnHeaders ==
    ASSUME IInv, GInv, NInv, HInv, Enter, Turn
    PROVE  HInv'
<1>1. /\ TypeOK /\ Placed /\ phase = "enter" /\ phase' \notin {"setup", "enter", "write", "log", "done"}
      /\ UNCHANGED <<chain, origin, method>> /\ at' = at - 1 /\ at \in Nat
    BY DEF IInv, TypeOK, NInv, Turn, Fixed
<1>2. /\ \A c \in Cors : c \in resp'.headers => origin = "allowed" /\ Enters /\ c = chain[at].name
      /\ Enters /\ chain[at].name \in Cors =>
            AnsweredByCors(chain[at].name) /\ (origin = "allowed" => chain[at].name \in resp'.headers)
  <2>1. CASE Blank(resp') /\ (Enters => chain[at].name \notin Cors)
    BY <2>1 DEF Blank
  <2>2. CASE Enters /\ AnsweredByCors(chain[at].name) /\ resp' = Marked(Raw("ok"), chain[at].name)
    <3>1. IsResponse(Raw("ok")) /\ Blank(Raw("ok"))
      BY Answered, BlankAnswers DEF Statuses, IsAnswer
    <3> QED
      BY <2>2, <3>1, MarkedBy DEF Blank, AnsweredByCors
  <2> QED
    BY <2>1, <2>2, TurnAnswers
<1>3. ASSUME NEW j \in DOMAIN trace'
      PROVE  \/ j \in DOMAIN trace /\ trace'[j] = trace[j] /\ trace[j].what \notin Left
             \/ /\ trace'[j].what \notin Left /\ \A k \in DOMAIN trace' : ~(k > j)
                /\ trace'[j].what = "enter" => Enters /\ trace'[j].name = chain[at].name
  <2>1. \A i \in DOMAIN trace : trace[i].what \notin Left
    BY <1>1 DEF Placed
  <2>2. CASE UNCHANGED trace
    BY <2>1, <2>2
  <2>3. CASE Enters
    BY <1>1, <1>3, <2>1, <2>3, Appended DEF Enters, Left
  <2>4. CASE Calls
    <3>1. PICK what, name : what \notin {"enter"} \cup Left /\ Note(what, name)
      BY <2>4 DEF Calls
    <3> QED
      BY <1>1, <1>3, <2>1, <3>1, Appended
  <2> QED
    BY <2>2, <2>3, <2>4 DEF Turn
<1>4. ASSUME NEW c \in Cors, NEW j \in DOMAIN trace', trace'[j].what = "enter", trace'[j].name = c
      PROVE  /\ origin = "allowed" => c \in resp'.headers \/ \E p \in 1..at' : IsAt(p, c)
             /\ method = "OPTIONS" /\ origin \in {"allowed", "asking"} => \A k \in DOMAIN trace' : ~(k > j)
  <2>1. CASE j \in DOMAIN trace /\ trace'[j] = trace[j]
    <3>1. Happened(j, "enter", c)
      BY <1>4, <2>1 DEF Happened
    <3>2. ~(method = "OPTIONS" /\ origin \in {"allowed", "asking"})
      BY <1>1, <2>1, <3>1 DEF HInv
    <3>3. PICK p \in 1..Len(chain) : IsAt(p, c) /\ p < at
      BY <1>1, <1>4, <2>1 DEF Placed
    <3>4. p \in 1..at'
      BY <1>1, <3>3
    <3> QED
      BY <3>2, <3>3, <3>4
  <2>2. CASE Enters /\ c = chain[at].name /\ \A k \in DOMAIN trace' : ~(k > j)
    BY <1>2, <2>2
  <2> QED
    BY <1>3, <1>4, <2>1, <2>2
<1>5. \A j \in DOMAIN trace' : trace'[j].what # "leave"
    BY <1>3 DEF Left
<1>6. \A p, c : IsAt(p, c)' <=> IsAt(p, c)
    BY <1>1 DEF IsAt
<1>7. phase' \in Answering => phase' = "leave"
    BY <1>1 DEF Answering
<1> QED
    BY <1>1, <1>2, <1>4, <1>5, <1>6, <1>7 DEF HInv, Happened

LEMMA InsideHeaders ==
    ASSUME IInv, HInv, Inside
    PROVE  HInv'
<1>1. /\ TypeOK /\ phase = "enter" /\ phase' = "enter" /\ UNCHANGED <<resp, origin, method>>
    BY DEF IInv, Inside, Fixed
<1>2. ASSUME method = "OPTIONS", origin \in {"allowed", "asking"}, NEW c \in Cors, NEW j \in DOMAIN trace',
             trace'[j].what = "enter", trace'[j].name = c
      PROVE  FALSE
  <2>1. ~(j \in DOMAIN trace /\ trace'[j] = trace[j])
    BY <1>1, <1>2 DEF HInv, Happened
  <2>2. CASE UNCHANGED trace
    BY <1>2, <2>1, <2>2
  <2>3. CASE Enters /\ ~AnsweredByCors(chain[at].name)
    <3>1. c = chain[at].name
      BY <1>1, <1>2, <2>1, <2>3, Appended DEF Enters
    <3> QED
      BY <1>2, <2>3, <3>1 DEF AnsweredByCors
  <2>4. CASE Calls
    <3>1. PICK what, name : what \notin {"enter"} \cup Left /\ Note(what, name)
      BY <2>4 DEF Calls
    <3> QED
      BY <1>1, <1>2, <2>1, <3>1, Appended
  <2> QED
    BY <2>2, <2>3, <2>4 DEF Inside
<1> QED
    BY <1>1, <1>2 DEF HInv, Happened, Answering

LEMMA OutHeaders ==
    ASSUME IInv, NInv, HInv, Leave \/ Answer
    PROVE  HInv'
<1>1. /\ TypeOK /\ Laid /\ Placed /\ phase \notin {"setup", "enter"} /\ phase' \notin {"setup", "enter"}
      /\ UNCHANGED <<chain, origin, method>> /\ at \in Nat /\ at' \in 0..at
    BY LeaveMoves DEF IInv, TypeOK, NInv, Out, Fixed
<1>2. \/ UNCHANGED trace
      \/ LeaveMW /\ Note("leave", chain[at].name)
      \/ Note("anew", chain[at].name)
    BY DEF Leave, LeaveTimeout, LeavePlain, LeaveMW, UnwindMW, InvokeRecovers, Answer, Boundary, Write, Log
<1>3. ASSUME NEW j \in DOMAIN trace'
      PROVE  \/ j \in DOMAIN trace /\ trace'[j] = trace[j]
             \/ LeaveMW /\ trace'[j].what = "leave" /\ trace'[j].name = chain[at].name
             \/ trace'[j].what = "anew"
    BY <1>1, <1>2, <1>3, Appended
<1>4. \A c \in Cors : c \in resp'.headers => origin = "allowed"
    BY OutAnswers DEF HInv
<1>5. \A j \in DOMAIN trace : Overruled(j) => Overruled(j)'
    BY <1>1, <1>2, StaysOverruled
<1>6. LeaveMW /\ phase' \in Answering => phase' = "leave"
    BY DEF LeaveMW, Running, Outward, Panic, Answering
<1>7. ASSUME phase' \in Answering, ~resp'.mapped, NEW m \in Tags, NEW j \in DOMAIN trace', NEW k \in DOMAIN trace',
             trace'[j].what = "enter", trace'[j].name = m, trace'[k].what = "leave", trace'[k].name = m
      PROVE  m \in resp'.headers \/ Overruled(j)'
  <2>1. Happened(j, "enter", m) /\ j \in DOMAIN trace
    BY <1>3, <1>7 DEF Happened
  <2>2. CASE Renews
    <3>1. k \in DOMAIN trace /\ trace'[k] = trace[k]
      <4>1. \/ k \in DOMAIN trace /\ trace'[k] = trace[k]
            \/ trace'[k].what = "anew"
        BY <1>1, <2>2, Appended DEF Renews
      <4> QED
        BY <1>7, <4>1
    <3>2. PICK p \in 1..Len(chain) : IsAt(p, m) /\ at < p
      BY <1>1, <1>7, <2>2, <3>1 DEF Placed, Left, Renews
    <3> QED
      BY <2>1, <2>2, <3>2, Overrules
  <2>3. CASE ~Renews
    <3>1. phase \in Answering /\ ~resp.mapped /\ resp.headers \subseteq resp'.headers
      BY <1>7, <2>3, OutAnswers
    <3>2. CASE k \in DOMAIN trace /\ trace'[k] = trace[k]
      <4>1. Happened(k, "leave", m)
        BY <1>7, <3>2 DEF Happened
      <4> QED
        BY <1>5, <2>1, <3>1, <3>2, <4>1 DEF HInv
    <3>3. CASE LeaveMW /\ trace'[k].name = chain[at].name
      BY <1>6, <1>7, <2>3, <3>3, OutAnswers
    <3> QED
      BY <1>3, <1>7, <3>2, <3>3
  <2> QED
    BY <2>2, <2>3
<1>8. ASSUME phase' \in Answering, ~resp'.mapped, origin = "allowed",
             NEW c \in Cors, NEW j \in DOMAIN trace', trace'[j].what = "enter", trace'[j].name = c
      PROVE  c \in resp'.headers \/ Overruled(j)' \/ (phase' = "leave" /\ \E p \in 1..at' : IsAt(p, c))
  <2>1. Happened(j, "enter", c) /\ j \in DOMAIN trace
    BY <1>3, <1>8 DEF Happened
  <2>2. CASE Renews
    <3>1. PICK p \in 1..Len(chain) : IsAt(p, c)
      BY <1>1, <2>1 DEF Placed, Happened
    <3>2. p # at /\ Len(chain) \in Nat
      BY <1>1, <2>2, <3>1 DEF IsAt, Renews, Laid
    <3>3. CASE p < at
      <4>1. p \in 1..at' /\ phase' = "leave"
        BY <1>1, <2>2, <3>2, <3>3 DEF Renews
      <4> QED
        BY <3>1, <4>1
    <3>4. CASE at < p
      BY <2>1, <2>2, <3>1, <3>4, Overrules
    <3> QED
      BY <1>1, <3>2, <3>3, <3>4
  <2>3. CASE ~Renews
    <3>1. phase \in Answering /\ ~resp.mapped /\ resp.headers \subseteq resp'.headers
      BY <1>8, <2>3, OutAnswers
    <3>2. c \in resp.headers \/ Overruled(j) \/ (phase = "leave" /\ \E p \in 1..at : IsAt(p, c))
      BY <1>8, <2>1, <3>1 DEF HInv
    <3>3. ASSUME phase = "leave", NEW p \in 1..at, IsAt(p, c), p \notin 1..at' \/ phase' # "leave"
          PROVE  c \in resp'.headers
      <4>1. at > 0
        BY <1>1, <3>3
      <4>2. LeaveTimeout \/ LeavePlain \/ LeaveMW
        BY <3>3, <4>1 DEF Leave, UnwindMW, InvokeRecovers, Answer, Boundary, Write, Log, Running
      <4>3. phase' = "leave" /\ at' = at - 1
        BY <1>8, <3>3, <4>2 DEF LeaveTimeout, LeavePlain, LeaveMW, Running, Outward, Panic, Answering
      <4>4. p = at
        BY <1>1, <3>3, <4>3
      <4>5. chain[at].kind = "mw" /\ chain[at].name = c
        BY <3>3, <4>4 DEF IsAt
      <4>6. LeaveMW
        BY <4>2, <4>5 DEF LeaveTimeout, LeavePlain, Running
      <4> QED
        BY <1>8, <2>3, <4>3, <4>5, <4>6, OutAnswers
    <3> QED
      BY <1>5, <2>1, <3>1, <3>2, <3>3
  <2> QED
    BY <2>2, <2>3
<1>9. ASSUME method = "OPTIONS", origin \in {"allowed", "asking"},
             NEW c \in Cors, NEW j \in DOMAIN trace', trace'[j].what = "enter", trace'[j].name = c,
             NEW k \in DOMAIN trace', k > j
      PROVE  trace'[k].what \in Left
  <2>1. Happened(j, "enter", c) /\ j \in DOMAIN trace
    BY <1>3, <1>9 DEF Happened
  <2> QED
    BY <1>3, <1>9, <2>1 DEF HInv, Left
<1>10. \A p, c : IsAt(p, c)' <=> IsAt(p, c)
    BY <1>1 DEF IsAt
<1> QED
    BY <1>1, <1>4, <1>7, <1>8, <1>9, <1>10 DEF HInv, Happened, Left

LEMMA ReceiveHeaders ==
    ASSUME GInv, HInv, SetUp \/ Receive
    PROVE  HInv'
<1>1. phase = "setup" /\ trace' = <<>> /\ resp = NoResponse
    BY DEF SetUp, Use, AddGuard, Register, Receive, ServeRoute, ServeProbe, ServeOptions, ServeError, Invoke, GInv, HInv
<1>2. \/ resp' = resp /\ phase' \in {"setup", "enter"}
      \/ phase' = "write" /\ \E s : resp' = Raw(s)
    BY <1>1 DEF SetUp, Use, AddGuard, Register, Receive, ServeRoute, ServeProbe, ServeOptions, ServeError, Invoke, flight
<1>3. Blank(resp') /\ DOMAIN <<>> = {}
    BY <1>1, <1>2, BlankAnswers
<1> QED
    BY <1>1, <1>2, <1>3 DEF HInv, Blank

LEMMA NextHeaders == IInv /\ GInv /\ NInv /\ HInv /\ [Next]_vars => HInv'
<1> SUFFICES ASSUME IInv, GInv, NInv, HInv, [Next]_vars PROVE HInv'
    OBVIOUS
<1>1. CASE Idle
    BY <1>1 DEF Idle, HInv, Happened, IsAt, Overruled
<1>2. CASE Enter
    BY <1>2, EnterMoves, InsideHeaders, TurnHeaders
<1>3. DeadlinePasses \/ Over \/ UNCHANGED vars => Idle
    BY DEF DeadlinePasses, Over, vars, Idle, flight, request, outcome, app
<1> QED
    BY <1>1, <1>2, <1>3, ReceiveHeaders, OutHeaders DEF Next

LEMMA InitHeaders == Init => HInv
<1> SUFFICES ASSUME Init PROVE HInv
    OBVIOUS
<1>1. trace = <<>> /\ DOMAIN <<>> = {} /\ resp = NoResponse /\ Blank(NoResponse) /\ phase = "setup"
    BY BlankAnswers DEF Init
<1> QED
    BY <1>1 DEF HInv, Blank

\* What is on the wire is the answer.
LEMMA OnWire ==
    ASSUME IInv, NEW i \in DOMAIN writes
    PROVE  /\ phase \in {"log", "done"} /\ writes[i].status = Sent(resp) /\ writes[i].mapped = resp.mapped
           /\ Plain(writes[i]) => ~resp.mapped /\ writes[i].headers = resp.headers
<1>1. writes = IF phase \in {"log", "done"} THEN <<Wire(resp)>> ELSE <<>>
    BY DEF IInv, Written
<1>2. DOMAIN <<>> = {} /\ DOMAIN <<Wire(resp)>> = {1} /\ <<Wire(resp)>>[1] = Wire(resp)
    OBVIOUS
<1>3. phase \in {"log", "done"} /\ writes[i] = Wire(resp)
    BY <1>1, <1>2
<1>4. PICK H : resp \in Response(H)
    BY DEF IInv, TypeOK, IsResponse
<1>5. /\ Wire(resp).status = Sent(resp) /\ Wire(resp).mapped = resp.mapped /\ Wire(resp).redirect = resp.redirect
      /\ ~resp.redirect => Wire(resp).headers = resp.headers
    BY <1>4 DEF Wire, Response
<1> QED
    BY <1>3, <1>5 DEF Plain

\* For any middleware, wherever RequestID stands among it and whatever the others do: an answer it was left
\* with carries its header, unless a middleware outside it answered anew, the error handler did, or the
\* answer is a redirect (middleware/requestid.go 10-11).
THEOREM RequestIDOnSuccessAlways == Spec => []RequestIDOnSuccess
<1>1. ASSUME IInv, HInv PROVE RequestIDOnSuccess
  <2> SUFFICES ASSUME NEW i \in DOMAIN writes, NEW m \in Tags, NEW j \in DOMAIN trace, NEW k \in DOMAIN trace,
                      Happened(j, "enter", m), Happened(k, "leave", m), ~Overruled(j), Plain(writes[i])
               PROVE  m \in writes[i].headers
    BY DEF RequestIDOnSuccess
  <2>1. phase \in Answering /\ ~resp.mapped /\ writes[i].headers = resp.headers
    BY <1>1, OnWire DEF Answering
  <2> QED
    BY <1>1, <2>1 DEF HInv
<1> QED
    BY InitInv, NextInv, InitGated, NextGated, InitNested, NextNested, InitHeaders, NextHeaders, <1>1, PTL DEF Spec

\* For any middleware, wherever CORS stands among it and whatever the others do: an OPTIONS request that it
\* answers ends there, a route for OPTIONS behind it or none, and an answer that is its own or passed it
\* carries its headers exactly for an allowed origin, with the exceptions above (middleware/cors.go 38-84).
THEOREM CorsDecidesAlways == Spec => []CorsDecides
<1>1. IInv /\ HInv => CorsDecides
  <2> SUFFICES ASSUME IInv, HInv, NEW c \in Cors, NEW j \in DOMAIN trace, Happened(j, "enter", c)
               PROVE  /\ method = "OPTIONS" /\ origin \in {"allowed", "asking"} =>
                            \A k \in DOMAIN trace : k > j => trace[k].what \in {"leave", "anew"}
                      /\ \A i \in DOMAIN writes : Plain(writes[i]) /\ ~Overruled(j) =>
                            (c \in writes[i].headers <=> origin = "allowed")
    BY DEF CorsDecides
  <2>1. ASSUME NEW i \in DOMAIN writes, Plain(writes[i]), ~Overruled(j)
        PROVE  c \in writes[i].headers <=> origin = "allowed"
    <3>1. phase \in Answering /\ phase # "leave" /\ ~resp.mapped /\ writes[i].headers = resp.headers
      BY <2>1, OnWire DEF Answering
    <3> QED
      BY <2>1, <3>1 DEF HInv
  <2> QED
    BY <2>1 DEF HInv, Left
<1> QED
    BY InitInv, NextInv, InitGated, NextGated, InitNested, NextNested, InitHeaders, NextHeaders, <1>1, PTL DEF Spec

-----------------------------------------------------------------------------
(* The readiness probe.                                                       *)

Tested(n) == \A j \in 1..n : trace[j].what \in {"healthy", "degraded"}

\* Every check has run, and the answer tells their results.
Told ==
    /\ phase # "unwind" /\ raised = "none" /\ resp = Readiness
    /\ Len(trace) = Len(Checks) + 1 /\ Tested(Len(Checks)) /\ trace[Len(Checks) + 1].what = "handler"

\* A check has panicked, or the error handler on it: what answers, if anything, is the error handler's.
Broken == raised # "none" /\ (phase \in Answering => resp.mapped)

RInv ==
    /\ phase \in {"setup", "enter"} => raised = "none"
    /\ phase = "setup" => target # "ready"
    /\ target = "ready" =>
          /\ chain = <<Frame("handler", "ready")>>
          /\ phase = "enter" => Len(trace) + 1 = check /\ Len(trace) <= Len(Checks) /\ Tested(Len(trace))
          /\ phase # "enter" => Told \/ Broken

\* The probe's pipeline is its handler.
LEMMA ProbePipeline ==
    ASSUME RInv, target = "ready"
    PROVE  \A i \in 1..1 : chain[i].kind = "handler" /\ chain[i].name = "ready"
<1>1. chain = <<[kind |-> "handler", name |-> "ready"]>>
    BY DEF RInv, Frame
<1> QED
    BY <1>1

LEMMA ChecksCounted == Len(Checks) \in Nat
<1>1. Checks \in Seq(ToSet(Checks))
    BY ServeAssumption
<1> QED
    BY <1>1

\* One more result.
LEMMA CheckReady ==
    ASSUME IInv, GInv, HInv, RInv, target = "ready", RunCheck
    PROVE  RInv'
<1> DEFINE n == Len(trace)
<1>1. phase = "enter" /\ raised = "none" /\ resp = NoResponse /\ check <= Len(Checks)
    BY DEF RunCheck, Running, RInv, HInv
<1>2. n + 1 = check /\ Tested(n) /\ chain = <<Frame("handler", "ready")>>
    BY <1>1 DEF RInv
<1>3. n \in Nat
  <2>1. PICK S : trace \in Seq(S)
    BY DEF IInv, TypeOK
  <2> QED
    BY <2>1
<1>4. CASE \E result \in {"healthy", "degraded"} : Note(result, Checks[check]) /\ UNCHANGED <<app, request, phase, chain, at, flight, outcome>>
  <2>1. PICK result \in {"healthy", "degraded"} : Note(result, Checks[check])
    BY <1>4
  <2>2. /\ DOMAIN trace' = 1..n + 1 /\ trace'[n + 1].what = result /\ \A i \in 1..n : trace'[i] = trace[i]
    <3>1. [what |-> result, name |-> Checks[check]].what = result
      OBVIOUS
    <3> QED
      BY <2>1, <3>1, Longer DEF IInv
  <2>3. Len(trace') = n + 1
    <3>1. PICK S : trace' \in Seq(S)
      BY <2>1, Grows DEF IInv, Grown
    <3>2. Len(trace') \in Nat /\ DOMAIN trace' = 1..Len(trace')
      BY <3>1
    <3> QED
      BY <1>3, <2>2, <3>2
  <2>4. \A j \in 1..n + 1 : trace'[j].what \in {"healthy", "degraded"}
    BY <1>2, <1>3, <2>1, <2>2 DEF Tested
  <2>5. check' = check + 1 /\ UNCHANGED <<phase, chain, raised, target>>
    BY <1>4 DEF RunCheck, flight, request
  <2> HIDE DEF n
  <2>6. Len(trace') + 1 = check' /\ Len(trace') <= Len(Checks)
    BY <1>1, <1>2, <1>3, <2>3, <2>5, ChecksCounted
  <2>7. Tested(Len(trace))'
    BY <2>3, <2>4 DEF Tested
  <2> QED
    BY <1>1, <1>2, <2>5, <2>6, <2>7 DEF RInv
<1>5. CASE \E v \in {"panic", "abort"} : Panic(v)
  <2>1. raised' # "none" /\ phase' = "unwind" /\ UNCHANGED <<target, chain>>
    BY <1>5 DEF Panic, request
  <2> QED
    BY <1>2, <2>1 DEF RInv, Broken, Answering
<1> QED
    BY <1>4, <1>5 DEF RunCheck

\* The answer.
LEMMA AnswerReady ==
    ASSUME IInv, GInv, HInv, RInv, target = "ready", Handle
    PROVE  RInv'
<1> DEFINE n == Len(trace)
<1>1. phase = "enter" /\ raised = "none" /\ at = 1
    BY DEF Handle, Running, RInv, GInv, Piped, Frame
<1>2. n + 1 = check /\ n <= Len(Checks) /\ Tested(n) /\ chain = <<Frame("handler", "ready")>>
    BY <1>1 DEF RInv
<1>3. chain[at].name = "ready"
    BY <1>1, ProbePipeline
<1>4. n \in Nat /\ n = Len(Checks)
  <2>1. PICK S : trace \in Seq(S)
    BY DEF IInv, TypeOK
  <2>2. check > Len(Checks)
    BY <1>3 DEF Handle
  <2> QED
    BY <1>2, <2>1, <2>2, ChecksCounted
<1>5. /\ DOMAIN trace = 1..n /\ DOMAIN trace' = 1..n + 1 /\ trace'[n + 1].what = "handler"
      /\ \A i \in 1..n : trace'[i] = trace[i]
  <2>1. [what |-> "handler", name |-> chain[at].name].what = "handler"
    OBVIOUS
  <2> QED
    BY <2>1, Longer DEF IInv, Handle
<1>6. Len(trace') = n + 1
  <2>1. PICK S : trace' \in Seq(S)
    BY Grows DEF IInv, Grown, Handle
  <2>2. Len(trace') \in Nat /\ DOMAIN trace' = 1..Len(trace')
    BY <2>1
  <2> QED
    BY <1>4, <1>5, <2>2
<1>7. resp' = Readiness /\ phase' = "leave" /\ UNCHANGED <<raised, target, chain>>
    BY <1>3 DEF Handle, Return, request
<1> HIDE DEF n
<1>8. Readiness' = Readiness
  <2>1. (\E i \in DOMAIN trace' : trace'[i].what = "degraded") <=> (\E i \in DOMAIN trace : trace[i].what = "degraded")
    BY <1>4, <1>5
  <2> QED
    BY <2>1 DEF Readiness, Raw, NoResponse
<1>9. Tested(Len(Checks))' /\ trace'[Len(Checks) + 1].what = "handler" /\ Len(trace') = Len(Checks) + 1
    BY <1>2, <1>4, <1>5, <1>6 DEF Tested
<1>10. Told'
    BY <1>1, <1>7, <1>8, <1>9 DEF Told
<1> QED
    BY <1>2, <1>7, <1>10 DEF RInv

LEMMA EnterReady ==
    ASSUME IInv, GInv, HInv, RInv, Enter
    PROVE  RInv'
<1>1. CASE target = "ready"
  <2>1. phase = "enter" /\ at \in 1..1
    <3>1. phase = "enter"
      BY DEF Enter, EnterTimeout, EnterLimit, EnterMW, CheckGuard, GuardsPass, RunCheck, Handle, Running
    <3>2. Len(chain) = 1
      BY <1>1 DEF RInv, Frame
    <3> QED
      BY <3>1, <3>2 DEF GInv
  <2>2. chain[at].kind = "handler"
    BY <1>1, <2>1, ProbePipeline
  <2>3. RunCheck \/ Handle
    BY <2>2 DEF Enter, EnterTimeout, EnterLimit, EnterMW, CheckGuard, GuardsPass, Running
  <2> QED
    BY <1>1, <2>3, CheckReady, AnswerReady
<1>2. CASE target # "ready"
  <2>1. Inside \/ Turn
    BY EnterMoves
  <2>2. phase' \in {"enter", "leave", "unwind"} /\ target' = target /\ (phase' = "enter" => phase = "enter" /\ raised' = raised)
    BY <2>1 DEF Inside, Turn, Fixed
  <2> QED
    BY <1>2, <2>2 DEF RInv
<1> QED
    BY <1>1, <1>2

LEMMA OutReady ==
    ASSUME IInv, NInv, RInv, Leave \/ Answer
    PROVE  RInv'
<1>1. phase \notin {"setup", "enter"} /\ phase' \notin {"setup", "enter"} /\ UNCHANGED <<target, chain>>
    BY LeaveMoves DEF Out, Fixed
<1>2. ASSUME target = "ready" PROVE Told' \/ Broken'
  <2>1. Told \/ Broken
    BY <1>1, <1>2 DEF RInv
  <2>2. ASSUME at > 0 PROVE chain[at].kind = "handler"
    <3>1. Len(chain) = 1 /\ at \in 0..Len(chain)
      BY <1>2 DEF RInv, Frame, NInv, Laid
    <3> QED
      BY <1>2, <2>2, <3>1, ProbePipeline
  <2>3. InvokeRecovers \/ Boundary \/ Write \/ Log
    BY <2>2 DEF Leave, LeaveTimeout, LeavePlain, LeaveMW, UnwindMW, Answer, Running
  <2>4. UNCHANGED trace
    BY <2>3 DEF InvokeRecovers, Boundary, Write, Log
  <2>5. Readiness.err = "none" /\ Readiness' = Readiness /\ Readiness.status # "invalid"
    BY <2>4 DEF Readiness, Raw, NoResponse
  <2>6. CASE InvokeRecovers
    <3>1. raised # "none"
      BY <2>1, <2>6 DEF Told, Broken, InvokeRecovers
    <3> QED
      BY <2>6, <3>1, Maps DEF InvokeRecovers, Broken, Answering, flight
  <2>7. CASE Boundary /\ UNCHANGED flight
    BY <2>1, <2>4, <2>5, <2>7 DEF Boundary, flight, Told, Broken, Tested, Answering
  <2>8. CASE Boundary /\ resp.err # "none" /\ Map(resp.err, "write")
    <3>1. Broken
      BY <2>1, <2>5, <2>8 DEF Told
    <3> QED
      BY <2>8, <3>1, Maps DEF Broken, Answering
  <2>9. CASE Write
    <3>1. phase = "write" /\ UNCHANGED resp /\ (raised' = raised \/ (resp.status = "invalid" /\ phase' = "dead" /\ raised' = "broken"))
      BY <2>9 DEF Write
    <3>2. phase' # "unwind"
      BY <2>9 DEF Write
    <3> QED
      BY <2>1, <2>4, <2>5, <3>1, <3>2 DEF Told, Broken, Tested, Answering
  <2>10. CASE Log
    BY <2>1, <2>4, <2>5, <2>10 DEF Log, flight, Told, Broken, Tested, Answering
  <2> QED
    BY <2>3, <2>6, <2>7, <2>8, <2>9, <2>10 DEF Boundary
<1> QED
    BY <1>1, <1>2 DEF RInv

LEMMA NextReady == IInv /\ GInv /\ NInv /\ HInv /\ RInv /\ [Next]_vars => RInv'
<1> SUFFICES ASSUME IInv, GInv, NInv, HInv, RInv, [Next]_vars PROVE RInv'
    OBVIOUS
<1>1. CASE Idle
    BY <1>1 DEF Idle, RInv, Told, Broken, Tested, Readiness
<1>2. CASE SetUp
  <2>1. phase = "setup" /\ phase' = "setup" /\ UNCHANGED <<target, raised>>
    BY <1>2 DEF SetUp, Use, AddGuard, Register, request, flight
  <2> QED
    BY <2>1 DEF RInv
<1>3. CASE Receive
  <2>1. /\ phase = "setup" /\ phase' \in {"enter", "write"} /\ raised' = raised /\ trace' = trace /\ check' = check
        /\ target' = "ready" => phase' = "enter" /\ chain' = <<Frame("handler", "ready")>>
    BY <1>3 DEF Receive, ServeRoute, ServeProbe, ServeOptions, ServeError, Invoke, flight
  <2>2. trace = <<>> /\ check = 1
    BY <2>1 DEF GInv
  <2>3. Len(trace') + 1 = check' /\ Len(trace') <= Len(Checks) /\ Tested(Len(trace))'
    BY <2>1, <2>2, ChecksCounted DEF Tested
  <2> QED
    BY <2>1, <2>3 DEF RInv
<1>4. DeadlinePasses \/ Over \/ UNCHANGED vars => Idle
    BY DEF DeadlinePasses, Over, vars, Idle, flight, request, outcome, app
<1> QED
    BY <1>1, <1>2, <1>3, <1>4, EnterReady, OutReady DEF Next

\* For any checks and whatever they answer: 200 when every one ran healthy, 503 when all ran and one was not;
\* when one panicked the error handler has answered (health.go 44-92).
THEOREM ReadyTellsChecksAlways == Spec => []ReadyTellsChecks
<1>1. Init => RInv
    BY DEF Init, RInv
<1>2. IInv /\ RInv => ReadyTellsChecks
  <2> DEFINE Results == {j \in DOMAIN trace : trace[j].what \in {"healthy", "degraded"}}
             Bad == {j \in Results : trace[j].what = "degraded"}
  <2> SUFFICES ASSUME IInv, RInv, target = "ready", NEW i \in DOMAIN writes
               PROVE  IF raised = "none"
                      THEN /\ Cardinality(Results) = Len(Checks) /\ ~writes[i].mapped
                           /\ writes[i].status = IF Bad = {} THEN "ok" ELSE "503"
                      ELSE writes[i].mapped
    BY DEF ReadyTellsChecks
  <2>1. phase \in {"log", "done"} /\ writes[i].status = Sent(resp) /\ writes[i].mapped = resp.mapped
    BY OnWire
  <2>2. Len(trace) \in Nat /\ DOMAIN trace = 1..Len(trace)
    <3>1. PICK S : trace \in Seq(S)
      BY DEF IInv, TypeOK
    <3> QED
      BY <3>1
  <2>3. ASSUME NEW n \in Nat, Results = 1..n PROVE Cardinality(Results) = n
    <3>1. 1 \in Int /\ n \in Int /\ (IF 1 > n THEN 0 ELSE n - 1 + 1) = n
      BY <2>3
    <3> HIDE DEF Results
    <3> QED
      BY <2>3, <3>1, FS_Interval
  <2>4. CASE Told
    <3>1. Results = 1..Len(Checks)
      BY <2>2, <2>4, ChecksCounted DEF Told, Tested
    <3>2. Cardinality(Results) = Len(Checks)
      BY <2>3, <3>1, ChecksCounted
    <3>3. ~resp.mapped /\ Sent(resp) = IF Bad = {} THEN "ok" ELSE "503"
      <4>1. (\E j \in DOMAIN trace : trace[j].what = "degraded") <=> Bad # {}
        OBVIOUS
      <4>2. Readiness.status = (IF Bad = {} THEN "ok" ELSE "503") /\ ~Readiness.mapped
        BY <4>1, Answered, BlankAnswers DEF Readiness, Statuses, Blank
      <4> QED
        BY <2>4, <4>2 DEF Told, Sent
    <3> HIDE DEF Results, Bad
    <3> QED
      BY <2>1, <2>4, <3>2, <3>3 DEF Told
  <2>5. CASE Broken
    BY <2>1, <2>5 DEF Broken, Answering
  <2> QED
    BY <2>1, <2>4, <2>5 DEF RInv
<1> QED
    BY InitInv, NextInv, InitGated, NextGated, InitNested, NextNested, InitHeaders, NextHeaders, NextReady, <1>1, <1>2, PTL DEF Spec
=============================================================================
