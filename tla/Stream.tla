------------------------------- MODULE Stream --------------------------------
(* One request of a stream route (bast.go: serveStream; streamctx.go).        *)
(*                                                                            *)
(* The guards run on the pooled *Ctx, then the handler owns the connection    *)
(* through a StreamCtx of its own: a bufio.Writer in front of net/http's      *)
(* ResponseWriter, which has a buffer too.  A byte goes from `buffered' to    *)
(* `handed' to `pushed'; what matters is when it moves and what the status    *)
(* line is by then.  The client may leave at any time, and a goroutine the    *)
(* handler started may keep the StreamCtx.                                    *)
EXTENDS Integers, Sequences

CONSTANTS NumGuards,  \* guards of the route
          Cap,        \* size of the bufio.Writer
          Sizes,      \* sizes of what one Write or Send writes
          MaxBytes,   \* bound: bytes a handler writes
          Codes       \* statuses a handler or the error handler may give; final ones

ASSUME StreamAssumption ==
    /\ NumGuards \in Nat /\ Cap \in Nat \ {0} /\ MaxBytes \in Nat
    /\ Sizes \subseteq Nat \ {0}
    /\ Codes \subseteq 200..599

VARIABLES pc,         \* where serveStream is
          flusher,    \* the ResponseWriter is an http.Flusher; fixed
          check,      \* the guard that runs next
          headerSent, \* StreamCtx.headerSent
          status,     \* StreamCtx.status, then serveStream's result
          buffered,   \* bytes in the bufio.Writer
          handed,     \* bytes given to net/http so far
          pushed,     \* bytes net/http gave to the socket so far
          accepted,   \* bytes a Write or Send reported as written
          synced,     \* accepted, as of the last Flush that returned nil, whatever became of the bytes
          failed,     \* the bufio.Writer's sticky error
          wire,       \* the status line net/http is committed to, 0 if none yet
          gone,       \* the client has disconnected
          raised,     \* the panic in flight
          spilled,    \* bytes have gone to net/http while headerSent was false
          logged,     \* the status handed to OnRequest, 0 before
          ctxStore,   \* whose values the pooled *Ctx's store holds
          store       \* the StreamCtx's store: its values, or that it is the *Ctx's map

vars == <<pc, flusher, check, headerSent, status, buffered, handed, pushed, accepted, synced, failed, wire, gone,
          raised, spilled, logged, ctxStore, store>>
header == <<headerSent, status, wire>>
bytes == <<buffered, handed, pushed, accepted, synced, failed>>
rest == <<flusher, gone, logged, ctxStore>>

Init ==
    /\ pc = "guards" /\ check = 1 /\ flusher \in BOOLEAN
    /\ headerSent = FALSE /\ status = 200 /\ wire = 0
    /\ buffered = 0 /\ handed = 0 /\ pushed = 0 /\ accepted = 0 /\ synced = 0 /\ failed = FALSE
    /\ gone = FALSE /\ raised = "none" /\ spilled = FALSE /\ logged = 0
    /\ ctxStore = "empty" /\ store = "none"

-----------------------------------------------------------------------------
(* serveStream before the handler.                                            *)

\* A guard passes, perhaps with a ctx.Set; or the error handler makes a response of its error, which is
\* written and the status of which serveStream returns; or one of the two panics, where nothing recovers.
Guard ==
    /\ pc = "guards" /\ check <= NumGuards
    /\ \/ /\ check' = check + 1
          /\ ctxStore' \in {ctxStore, "ours"}
          /\ UNCHANGED <<pc, status, wire, raised>>
       \/ /\ \E c \in Codes \cup {403} : status' = c /\ wire' = c
          /\ pc' = "finish"
          /\ UNCHANGED <<check, ctxStore, raised>>
       \/ /\ raised' = "panic" /\ pc' = "dead"
          /\ UNCHANGED <<check, status, wire, ctxStore>>
    /\ UNCHANGED <<headerSent, bytes, spilled, flusher, gone, logged, store>>

\* Mutant: the store is handed over, not copied.
NewStreamCtxAlias ==
    /\ pc = "guards" /\ check > NumGuards
    /\ store' = IF ctxStore = "empty" THEN "none" ELSE "alias"
    /\ pc' = "handler"
    /\ UNCHANGED <<check, header, bytes, raised, spilled, rest>>

\* newStreamCtx, and the copies of parameters and store.
NewStreamCtx ==
    /\ pc = "guards" /\ check > NumGuards
    /\ store' = IF ctxStore = "empty" THEN "none" ELSE ctxStore
    /\ pc' = "handler"
    /\ UNCHANGED <<check, header, bytes, raised, spilled, rest>>

-----------------------------------------------------------------------------
(* What a handler may call, in any order.                                     *)

\* StreamCtx.Set: the store is made on the first call.
Set ==
    /\ pc = "handler"
    /\ IF store = "alias" THEN ctxStore' = "ours" /\ UNCHANGED store
                          ELSE store' = "ours" /\ UNCHANGED ctxStore
    /\ UNCHANGED <<pc, check, header, bytes, raised, spilled, flusher, gone, logged>>

\* net/http's WriteHeader: the first one counts.
Committed(code) == IF wire = 0 THEN code ELSE wire

\* StreamCtx.Status
Status(code) ==
    /\ pc = "handler"
    /\ IF headerSent THEN UNCHANGED header
       ELSE status' = code /\ headerSent' = TRUE /\ wire' = Committed(code)
    /\ UNCHANGED <<pc, check, bytes, raised, spilled, rest, store>>

\* How bufio.Writer takes n more bytes than fit: it tops the buffer up and hands it on, and what is
\* left stays in the buffer unless it is larger than that.  The result is what stays.
Remainder(n) == IF buffered + n <= 2 * Cap /\ buffered > 0 THEN buffered + n - Cap ELSE 0

\* StreamCtx.Write and Send: one call of the bufio.Writer with everything.
Write(n) ==
    /\ pc = "handler" /\ accepted + n <= MaxBytes
    /\ \/ failed /\ UNCHANGED <<bytes, wire, spilled>>
       \/ /\ ~failed /\ buffered + n <= Cap
          /\ buffered' = buffered + n /\ accepted' = accepted + n
          /\ UNCHANGED <<handed, pushed, synced, failed, wire, spilled>>
       \/ /\ ~failed /\ buffered + n > Cap
          /\ buffered' = Remainder(n)
          /\ handed' = handed + (buffered + n - Remainder(n))
          /\ accepted' = accepted + n
          /\ wire' = Committed(200)
          /\ spilled' = (spilled \/ ~headerSent)
          /\ UNCHANGED <<pushed, synced, failed>>
       \/ /\ ~failed /\ buffered + n > Cap /\ gone
          /\ failed' = TRUE
          /\ wire' = Committed(200)
          /\ spilled' = (spilled \/ ~headerSent)
          /\ UNCHANGED <<buffered, handed, pushed, accepted, synced>>
    /\ UNCHANGED <<pc, check, headerSent, status, raised, rest, store>>

\* net/http sends its h bytes to the client; once the client is gone they may go nowhere, and nobody
\* is told: http.Flusher.Flush returns nothing.
Push(h) == pushed' \in {h} \cup (IF gone THEN {pushed} ELSE {})

\* Mutants: only net/http's buffer is flushed; the header is not remembered as sent.
FlushOuterOnly ==
    /\ pc = "handler" /\ ~failed
    /\ Push(handed) /\ synced' = accepted
    /\ headerSent' = TRUE
    /\ wire' = Committed(200)
    /\ UNCHANGED <<pc, check, status, buffered, handed, accepted, failed, raised, spilled, rest, store>>

FlushForgetful ==
    /\ pc = "handler" /\ ~failed
    /\ buffered' = 0 /\ handed' = handed + buffered
    /\ Push(handed') /\ synced' = accepted
    /\ wire' = Committed(200)
    /\ UNCHANGED <<pc, check, headerSent, status, accepted, failed, raised, spilled, rest, store>>

\* StreamCtx.Flush; without data and without an http.Flusher nothing reaches net/http.
Flush ==
    /\ pc = "handler"
    /\ \/ failed /\ UNCHANGED <<bytes, header, spilled>>
       \/ /\ ~failed /\ buffered > 0 /\ gone
          /\ failed' = TRUE /\ wire' = Committed(200)
          /\ spilled' = (spilled \/ ~headerSent)
          /\ UNCHANGED <<buffered, handed, pushed, accepted, synced, headerSent, status>>
       \/ /\ ~failed
          /\ buffered' = 0 /\ handed' = handed + buffered
          /\ headerSent' = TRUE
          /\ wire' = IF flusher \/ buffered > 0 THEN Committed(200) ELSE wire
          /\ IF flusher THEN Push(handed') ELSE UNCHANGED pushed
          /\ synced' = accepted
          /\ UNCHANGED <<status, accepted, failed, spilled>>
    /\ UNCHANGED <<pc, check, raised, rest, store>>

\* The handler returns; what the bufio.Writer holds stays there.
Return ==
    /\ pc = "handler"
    /\ pc' = "finish"
    /\ UNCHANGED <<check, header, bytes, raised, spilled, rest, store>>

Panic(value) ==
    /\ pc = "handler"
    /\ raised' = value /\ pc' = "panic"
    /\ UNCHANGED <<check, header, bytes, spilled, rest, store>>

-----------------------------------------------------------------------------
(* serveStream after the handler, and net/http after ServeHTTP.               *)

\* Mutant: the panic is logged, the client gets an empty 200.
RecoverSilently ==
    /\ pc = "panic"
    /\ pc' = IF raised = "abort" THEN "dead" ELSE "finish"
    /\ UNCHANGED <<check, header, bytes, raised, spilled, rest, store>>

Recover ==
    /\ pc = "panic"
    /\ pc' = IF raised = "abort" THEN "dead" ELSE "finish"
    /\ IF raised = "abort" \/ headerSent THEN UNCHANGED <<status, wire>>
       ELSE status' = 500 /\ wire' = Committed(500)
    /\ UNCHANGED <<check, headerSent, bytes, raised, spilled, rest, store>>

\* OnRequest gets serveStream's result; net/http flushes its buffer and commits to 200 if need be.
Finish ==
    /\ pc = "finish"
    /\ logged' = status
    /\ wire' = Committed(200)
    /\ Push(handed)
    /\ pc' = "done"
    /\ UNCHANGED <<check, headerSent, status, buffered, handed, accepted, synced, failed, raised, spilled,
                   flusher, gone, ctxStore, store>>

\* releaseCtx clears the *Ctx's map, the next request fills it.
Recycle ==
    /\ pc \in {"done", "dead"} /\ ctxStore # "theirs"
    /\ ctxStore' \in {"empty", "theirs"}
    /\ UNCHANGED <<pc, check, header, bytes, raised, spilled, flusher, gone, logged, store>>

Disconnect ==
    /\ pc \notin {"done", "dead"} /\ ~gone
    /\ gone' = TRUE
    /\ UNCHANGED <<pc, check, header, bytes, raised, spilled, flusher, logged, ctxStore, store>>

Over == pc \in {"done", "dead"} /\ ctxStore = "theirs" /\ UNCHANGED vars

Call == Set \/ (\E c \in Codes : Status(c)) \/ (\E n \in Sizes : Write(n)) \/ Flush
        \/ Return \/ (\E v \in {"panic", "abort"} : Panic(v))
Next == Guard \/ NewStreamCtx \/ Call \/ Recover \/ Finish \/ Recycle \/ Disconnect \/ Over
Spec == Init /\ [][Next]_vars

-----------------------------------------------------------------------------
\* "Flush flushes buffered data to the client immediately" (streamctx.go:111): what was written before a
\* Flush that returned nil has left the bufio.Writer and, where the ResponseWriter is an http.Flusher,
\* net/http's buffer too.  The latter is not so once the client has gone: what net/http
\* fails to send then is lost without an error.
FlushDelivers == handed >= synced /\ (flusher /\ ~gone => pushed >= synced)

\* A panic before anything was on the wire gives the client a 500 (docs/concepts/streaming.md:322-324).
EarlyPanicIs500 ==
    pc = "done" /\ raised = "panic" /\ ~headerSent /\ ~spilled => wire = 500

\* The StreamCtx is "safe to pass anywhere, for any duration" (streamctx.go:23): its store never shows
\* the values of a later request.
StoreIsOurs == (IF store = "alias" THEN ctxStore ELSE store) # "theirs"

\* A stream is an exchange too: one status line, logged as it was sent unless bytes overtook it; the
\* connection is dropped for an abort and, beyond what the comment on serveStream says of panics,
\* for the panic of a guard.
E == INSTANCE Exchange WITH
        Statuses <- {200, 403, 500} \cup Codes, Unsent <- {}, Default <- 200, None <- 0,
        answer <- wire,
        aborting <- raised = "abort" \/ (raised = "panic" /\ pc = "dead" /\ check <= NumGuards),
        shielded <- FALSE,
        certain <- ~spilled,
        dropped <- pc = "dead"

Exchanged == E!Spec

\* "once data is on the wire the status is fixed at 200 and Status is a no-op" (streamctx.go:57-58): so
\* the status in the log is always the one on the wire.
StatusFixedByData == logged # 0 => logged = wire
=============================================================================
