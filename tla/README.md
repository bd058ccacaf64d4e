# A verification development of bast

bast is a web framework for Go: a small layer over `net/http` with a router of its own, a pooled
request context, guards and middleware, streaming routes, lifecycle hooks, and a command line tool
with a watch mode.  These TLA+ modules model the parts of it that are hard to test: what
concurrent requests share, what happens when a handler, a guard or a hook fails half way, what
`Shutdown` may overtake, and what a tree that is frozen once promises to every later lookup.
TLC checks the models on small instances; TLAPS proves what matters most about the shared pools, the
pipeline, the router, the life cycle, streams, forms, the watch loop and the generated resource for every instance.

## 1. Inventory

| Component | Code | State | Operations | Module |
|---|---|---|---|---|
| A request from outside | `bast.go`, `docs/` | its answer, its line in the log | the promise: at most one answer, logged as sent where that is known | `Exchange` |
| Request context and pools | `ctx.go` | `ctxPool`, `bodyBufPool`, the fields of every `*Ctx`, `Request.Body` | `acquireCtx`, `releaseCtx`/`wipe`, `Context`, `Set`, `WithValue`, `limitBody`, `readBody` | `CtxPool` |
| Registration and pipeline | `bast.go`, `middleware.go`, `response*.go` | `App.middleware`, `App.guards`, the closures of every route | `Use`, `Guard`, `Register`, `ServeHTTP`, `invoke`, `guardMiddleware`, error handler, `writeResponse` | `Serve` |
| Bundled middleware | `middleware/` | none | `Recover`, `RequestID`, `CORS`, `Logger` | `Serve` (all but the last) |
| Streaming | `streamctx.go`, `bast.go` | the `StreamCtx`, its `bufio.Writer`, `headerSent`, `status` | `serveStream`, `Status`, `Write`, `Send`, `Flush`, `Set` | `Stream` |
| Lifecycle | `bast.go` | `a.srv`, the `http.Server`, the list of modules | `Listen`, `Shutdown`, the three kinds of hook | `Lifecycle` |
| Router | `internal/router/` | mutable trees, frozen arrays, `once`, `sealed` | `Add`, `insert`, `freeze`, `Find`, `search` | `RouteTable`, `Router` |
| Watch mode | `cmd/bast/run.go` | the running process, the temporary binary, the snapshot | `watchAndRun` | `Watch` |
| Modules, controllers, OpenAPI | `module.go`, `docs.go`, `bast.go` | the tree of modules, `App.guards`, `App.modules`, `specBuilder` | `Guard`, `Register`, `registerModule`, `registerRoute`, `addRoute`, `addModuleDoc`, `build` | `Registration` |
| Configuration, form binding | `config.go`, `ctx.go` | the struct being filled, the list of what is missing | `LoadConfig`, `fillStruct`, `setField`, `BindForm`, `setFormField` | `Binding` |
| Body and form accessors | `ctx.go` | `Request.Body`, `Request.Form`, `Request.MultipartForm`, `bodyBuf` | `FormValue`, `File`, `Files`, `RawBody`, `Bind`, `BindForm` | `Forms`, `Binding` |
| Health endpoints | `health.go` | none | `LivenessHandler`, `ReadinessHandler` | `Serve` |
| The generated resource | templates in `cmd/bast/new.go`, `cmd/bast/generate.go` | `repo.store`, `repo.seq`, the todos pointed to | `List`, `Get`, `Create`, `Update`, `Delete` | `Todos` |
| Client address | `ctx.go` | none | `Ctx.IP`, a pure function | not modelled |
| Logger, JSON shim, the commands `new`/`generate`/`build`, test helpers, benchmarks | | none of interest | formatting, file writing, text edits | not modelled |

How they interact.  `main` calls `Use`, `Guard` and `Register` in some order; each `Register` hands
closures built from the global lists *as they are then* to the router.  `Listen` runs the hooks and
serves; every request then runs on a goroutine of its own through `ServeHTTP`, which takes a `*Ctx`
from the pool, asks the router (the first lookup freezes it), runs the pipeline or `serveStream`,
writes the response and releases the `*Ctx`.  `Shutdown` runs on yet another goroutine and
meets `Listen` only in `a.srv` and in the `http.Server`.

What is hard about each, and what makes it correct:

* **Context.**  Objects go from one request to the next.  No object has two owners or is put back
  twice, nothing of one request shows in another, a response is not overwritten before it is sent, and the
  body limit is the one configured, whatever mix of returns, panics, failed reads and copies came before.
* **Pipeline.**  Closures nested in a fixed order, each of which may return early, replace the
  response or panic.  Guards gate the handler, middleware nest, every error of a route is mapped,
  every panic inside `invoke` is answered, the log tells what was sent, unless the status was none.
* **Streaming.**  Two buffers and an implicit status line; the client leaves at any time; the
  `*Ctx` behind the stream is recycled.
* **Lifecycle.**  Two goroutines and a server between them; a deadline; hooks that fail.
* **Router.**  A tree is turned into an array whose layout the search relies on, once, by whichever
  goroutine comes first.
* **Watch mode.**  A build reads sources while they change; a child may not react; a new process may
  not start.
* **Registration.**  A walk over a tree in which a later route silently replaces an earlier one; the same routes are
  kept twice, by pattern in the router, by OpenAPI path in the document, and the two must agree.
* **Binding.**  A recursive walk that may stop anywhere, with the struct half filled.
* **Forms.**  Five accessors read one `Request.Body`, each leaves it differently, some swallow the error.
* **Generated resource.**  A repository with a lock, a service without: what is read, changed and saved are three
  moments, and pointers travel from one to the next.

Every such point is listed with its line under `hazards` in `PROJECT.json`.

## 2. Plan

Done, in this order, the most shared state first: `CtxPool` with its proofs, `Lifecycle`, `Serve`,
`Stream`, `RouteTable`/`Router`, `Watch`, `Registration` (which takes `RouteTable` as its router), `Binding`; then
`Exchange`, which `Serve` and `Stream` implement as `Router` implements `RouteTable`, CORS and the readiness checks in
`Serve`, `Forms` under `Binding`, `Todos`; the proofs about `Lifecycle`, `Stream`,
`Watch`, `Todos` and all of `Serve`, those about `Router`: what the array of any tree finds, and that the router
implements the table; and those about `Registration`, `Forms` and `Binding`, for trees of modules and of struct types of any shape.
Every safety property of the runs that pass is proved.  Next:

1. The number of parameters of a route in `CtxPool` (`WithValue` beyond eight).
2. A multipart body that is cut off, in `Forms`.
3. `Ctx.IP` beside a reference definition ("the rightmost address that is not a trusted proxy").

## 3. The modules

**`CtxPool`** — every request `r` goes `new → routing → running → responding → leaving → done`
(`pc[r]`), with excursions to `reading` and `readingCopy` while `readBody` waits for the network.  An
action is a stretch of code without a blocking call.  `ctx[c]` is what the fields of the object `c`
hold, `copy[r]` the value `WithValue` returned, `held[r]` the local variable of `ServeHTTP`,
`reading[r]` the local `buf` of `readBody`, `body[r]` what `Request.Body` reads from and under which
bound.  Data is abstracted to the request it came from, and a pool is a *count* per object, so an
object put back twice is seen.  The garbage collector may empty a pool (`DropCtx`, `DropBuf`), and an
object nobody refers to may be allocated anew.  The handler is any sequence of `Set`, `WithValue`,
reads through either context, and one way out: a response backed by its own bytes or by the pooled
buffer (`Respond`), or `http.ErrAbortHandler` (`Abort`).

**`Lifecycle`** — `lpc` is where `Listen` is, `cpc[c]` where each call of `Shutdown` is; `bound`,
`inShutdown` and `conn` are `net/http`'s side.  Reading `a.srv` is its own step (`CheckServer`) and may
still see nil while nothing orders it after the write (`lpc = "built"`).  `log` is the history of hooks.

**`Exchange`** — what `ServeHTTP` promises of one request, without frames, guards or buffers: the first status line counts
(`Answer`), the log tells it unless the program cannot know it (`certain`), and only a panic that nothing answers ends a request
without an answer (`Drop`): an abort, unless a `middleware.Recover` was entered before (`Shield`, `Swallow`), a panic of the error
handler or of a stream's guard where no `recover` is around, and the one of `WriteHeader` for a status that is none.  `Serve` and `Stream` say in
`E == INSTANCE Exchange WITH ...` which of their states is which, and check `E!Spec` as a property.

**`Serve`** — set-up in any order (`Use`, `AddGuard`, `Register`), then one request.  The nested closures are a
sequence of frames, outermost first; `at` walks in through `Enter...` and out through `Leave...` (a
response) or `Unwind...` (a panic).  `CORS` is a frame too: whatever route the request has, it answers what it answers itself
(`AnsweredByCors`: by the `method` and the origin) and marks responses of allowed origins (`Marked`); an origin is absent, allowed, not allowed,
or not allowed and asking for a method.  A route may be one for `OPTIONS`; the automatic answer is the `target` "options".  Other middleware than
`Recover`, `RequestID` and `CORS` may answer itself, fail, panic or abort, and on the way out add a header, answer anew
or panic (`LeaveMW`; the callback is then noted as "anew").  `Fresh(may)` are the responses code may make, `Panics(may)` its panics; `UserMay`, `HandlerMay`
and `ErrorMay` say which, the last one for what an `ErrorHandler` of the application's own does beyond `DefaultErrorHandler`.  Statuses that
are not sent as they are given are kept apart (`Odd`): 0, 1xx and those `WriteHeader` panics for; `Sent` is what the client gets.  The handler of
`/ready` runs its checks one by one (`RunCheck`) and answers from their results (`Readiness`).  `trace` is the history of callbacks.

**`Stream`** — the guards on the `*Ctx`, then any sequence of calls on the `StreamCtx`.  A byte moves
from `buffered` to `handed` to `pushed`; `wire` is the status line `net/http` is committed to.  What `net/http` itself flushes to a client that
has gone may be lost without an error (`Push`), since `http.Flusher` returns none.

**`RouteTable`, `Router`** — `RouteTable` is the abstract specification: a set of routes that is
closed by the first lookup, and `Match`, which reads the answer off the set of patterns.  `Router` is the
code: `Inserted` grows the tree, `Freeze` lays it out breadth-first in an array with
`childBase`, `staticCount`, `hasParam`, `hasWild` (`Queue` is the queue it takes the nodes from), `Search` walks that array
segment by segment (`Onward`), as `Match` walks the set of routes (`Further`).  The counter is cut to
`Width` values as `uint8` is.  `once` is `sync.Once`.  `Router` implements `RouteTable` with the identity as
refinement mapping, `routes` and `adds` being kept along.

**`Watch`** — the loop, the editor, the child and the terminal.  Sources are a version number; a build takes
the version of one moment between its start and its end.

**`Registration`** — `todo` is the walk of `registerModule` as a stack: a module is replaced by its routes and then its
sub-modules.  Every route goes to `Documented` (`specBuilder.addRoute`) and then to `Add`, which is `RouteTable`'s `TableAdd` or the
panic that ends the program.  `handlers[h]` is what the router's handler number `h` was built from.  `Declared` reads the
routes of a module off the tree instead, recursively: the reference the walk is compared with.  Which global guards stand in front of it
`MountedAsDeclared` leaves open beyond those known at its registration: the code takes just these, the documentation says all (`serve_late`).  The schemes of an operation are a set
(`Schemes`): in the document's `security` they are alternatives, whose order and repetition say nothing.  `RegistrationAssumption`: no
module is part of itself, else `Register` would not return, and the table's `Patterns`, finite for TLC, has every pattern the tree can ask for.

**`Forms`** — `query` is the form in the URL, `sent` the one in the body; `input` is what `Request.Body` still gives, `bodyBuf` what `readBody` kept, `form` and `multi` what `net/http` parsed.
Each accessor is an action; `ParsedForm` and `ParsedMultipart` are `net/http`'s two parsers, modelled from how `ctx.go`
calls them, with their habit of leaving a form behind after a failure, and with values of a body before those of the URL when it is urlencoded,
after them when it is multipart.

**`Binding`** — after any accessors of `Forms`, `BindForm` parses once more and binds.  `stack` is the recursion of `fillStruct` (one frame for `BindForm`), one action per field.  `Leaves` reads
the variables off the type instead.  `BindingAssumption`: no struct type contains itself, which Go's compiler refuses (the walk does not follow
pointers), and splitting a string always gives a list; `FormsAssumption`: there is a name a form may have, which is how an empty form differs in the model
from none.  Numbers are parsed by a table; narrow integer fields keep eight bits, as `SetInt` does.  `LoadedAsDeclared` and `BoundAsSent` say
what code and comments agree on; the cases in which they do not are in section 7, and there the properties leave the outcome open: whether a report of what is missing
comes beside an invalid value, a number that does not fit, a form that another accessor failed to parse.

**`Todos`** — the handlers of the resource.  A repository method is one step, since it holds the lock from start to end; the
service's `Update` is three: `FindByID`, `Patch`, `Save`.  `store` maps ids to objects, `heap` objects to contents, `mine[r]` is the
pointer a handler holds, and what nothing points to is collected (`Collect`), so that memory may be used again.  `overtaken` are the
updates whose todo another request has saved or deleted since they read it: `PatchIsPatch` compares every other save with what is stored.  The templates of
`bast generate` are the same program with other fields, an empty store and no patch.

Each `MC` module gives the constants of its specification values a `.cfg` cannot express.  Operators
marked `Mutant` are the ways each definition could plausibly be wrong; each is what one property is there to catch.

## 4. The runs

| Run | Shows | Bounds, and why they are enough |
|---|---|---|
| `ctxpool` | no object has two owners or is put back twice; no request sees another's data or bytes; limits hold; the invariant of the proofs | 2 requests, 2 contexts, 2 buffers: a hand-over takes two requests, a mix-up two objects.  Body sizes and limits around each other, a route with its own limit, deadline and parameters and one with none |
| `lifecycle` | hooks after the drain, in reverse; requests meet an initialised application; a call that found the server shuts down everything and `Listen` returns; every call returns | 2 modules (an order), 2 connections (one in flight, one in the backlog), 2 callers |
| `serve` | guards gate the handler, middleware nest, route errors are mapped, settings in force, the request id on what RequestID was left with, CORS decides preflights where it stands, the probe tells its checks, and the whole implements `Exchange`: one answer and that one logged, panics answered, aborts dropped | three global middleware, among them CORS and RequestID, a global guard, one of each for module and route: every level has a neighbour on both sides; every registration order; GET and OPTIONS, on a route and without one; handlers with every kind of status, an error handler that fails, panics or answers 0; two readiness checks; 863,383 states |
| `stream` | a flush delivers, an early panic is a 500, the store is the stream's own, and the stream implements `Exchange` | a buffer of 2 bytes, writes of 1 to 3, six in all: a write may fit, fill, overflow and bypass the buffer; with and without an `http.Flusher`; 35,636 states |
| `router` | the array answers every path like the set of routes; nobody searches before the freeze is over; the router implements the table, `Allow` included; lookups return | up to 3 of 7 patterns in every order over two methods and an unknown one, with static, parameter, wildcard and slash siblings and an ill-formed one: three suffice for a node with all kinds of children; all 39 paths of up to three segments over three names, one empty; 2 goroutines (one freezes, one waits) |
| `walks` | what serves is what was declared, in order, with its guards; the document has an operation for every route that serves and no other, with its schemes, each of them defined; structs are filled as their tags say up to the first invalid value, nothing missing or invalid passes, nothing is bound that was not sent; `RawBody` repeats itself | `Registration` and `Binding` share nothing, so a behaviour is one of the one or of the other.  Seven modules in any order, three Registers, two Guards in between: a sub-module used twice, routes that replace a probe or each other, that differ only in `:id` and `*id` and need different schemes, that clash, that are malformed.  Every assignment of 4 strings or nothing to the variables of three levels of structs, one variable shared by two fields; every form of up to two values for each of three names, urlencoded, multipart or neither, sound, malformed or too large, with and without a query; up to three accessors before `BindForm`, so that each may come first, between and last; 1,159,315 states.  A behaviour ends with its walk, so deadlock is not checked |
| `watch` | one process at a time, replaced only by a build that succeeded, nothing left behind; once the editor rests the latest version that compiles is what runs, an interrupt ends the tool | 3 saves, one of them broken |
| `todos` | answers are snapshots of the store, an id never names two todos, a stored todo changes by saves only, in just the fields provided unless the save was overtaken | 3 requests, any mix of operations on the two seeds and the first todo created: two updates and a deletion of one todo, or a creation among them; nine objects, so that no step lacks memory |

Four runs end in a counterexample.  Each checks what a comment or a document says of the code:

* `ctxpool_cap`: a buffer above `maxPooledBodyCap` is pooled again after a failed read (`ctx.go:361`).
* `serve_late`: a global guard that `main` adds after `Register` never runs before the routes registered till then (`bast.go:161`), while
  `bast.go:113` says it "runs for every request before the handler" and `docs/concepts/guards.md:80` "runs on every request".
* `stream_status`: a status set after the buffer overflowed is logged, but the client got 200 (`streamctx.go:60`).
* `todos_lost`: of two patches of one todo made at once, the later save puts a field back that its request did not provide
  (`new.go:307`), while `new.go:418` says "only provided fields are updated".

Fairness.  `Lifecycle`: `Listen` and every call of `Shutdown` run on goroutines the Go scheduler runs,
hooks return, a deadline passes; handlers and clients owe nothing, and indeed a handler that never
ends makes `Shutdown` return an error, not hang.  `Router`: goroutines inside `Find` run.  `Watch`: the loop
gets on, since builds end and `stop` waits `stopGrace` at most (weak fairness of `Loop`), and
a select with a tick and a signal ready chooses at random, so that the signal is taken in the end (strong
fairness of `TakeSignal`); the editor, the child and the terminal owe nothing.

## 5. The proofs

Each assumes only what its module states of the constants, and holds for every value of them.

**`CtxPoolProofs`** proves `Spec => []IInv`, and from it `TypeOK`, `CtxExclusive`, `BufExclusive`,
`Isolation`, `OwnResponse` and `BodyBounded`, for every set of requests, contexts, buffers, sizes and
routes, every limit and every capacity.  It assumes that the null values
are not objects, sizes and route limits are natural numbers, the application's limit an integer and
the default one positive.
None of the properties is inductive.  That a recycled `*Ctx` shows nothing of an earlier request
needs that whatever is in the pool equals a new object (`PooledClean`); that two requests never
share a buffer needs to know at which point of `ServeHTTP` which locals are alive (`Phases`); that a
response shows its own bytes needs that every reference to a buffer, from the context, the copy, `Request.Body`
or the response, is to a buffer the request owns and that holds its bytes (`Refs`); and
that an accepted body fits needs that a network read runs under the configured bound once `limited` is set
(`Limits`).  `IInv` is the conjunction of these with the properties.  The proof has one lemma per action and one step per
conjunct; `Held`, `Updated`, `ReadingApart` and `BufferTaken` are the facts several of them need.

**`LifecycleProofs`** proves `HooksAfterDrain`, `ServedByReadyApp` and `OkMeansShutDown` for any modules, connections
and callers of `Shutdown`.  A call that sees nothing in flight has seen it at one moment only; that it stays so needs that
no goroutine serves again: `Closed` ties `inShutdown`, the listener and the connections to where `Listen` is.  `Started` says
that `a.srv` is there only when every hook has run, `TornDown` that the hooks a call has run are those above `left[c]`.

**`StreamProofs`** proves `FlushDelivers`, `EarlyPanicIs500`, `StoreIsOurs`, and that `Stream` implements `Exchange`
(`Spec => Exchanged`), for any buffer, writes, statuses and guards.  `Counted`: every accepted byte is in one of the two buffers or beyond them.
`FlushDelivers` rests on it: the counter of what was accepted is what the two buffers and the client make up, and a `Flush` leaves the first one empty.
`Known`: the status the `StreamCtx` keeps is the one on the wire unless bytes went there before the header was sent (`spilled`) — the
mapping of `certain`.  The refinement has one step per action, each a named step of `Exchange` or a stutter.

**`ServeProofs`** proves that `Serve` implements `Exchange` (`Spec => Exchanged`) and `RouteErrorsMapped`, for any middleware, guards,
checks, orders of registration and whatever each callback, the error handler included, may do.  `Written` says at each point what has been written and logged, that
there is something to write, and that a panic outside `invoke` has ended the request; `Entered` that whatever a panic can still pass on its way out has been entered, which is
why a `Recover` that swallows an abort is one `Exchange` has seen (`Shield`).  What a request can do in one step comes down to
five moves (`Returns`, `Panics`, `GoesOn`, `GoesOut`, `Stays`), proved once each.

The same module proves the other properties of `Serve`, each from an invariant of its own:

* `GuardsGateHandler`, for any lists of guards and middleware in any order of registration, assuming that a guard is
  declared at one level only (`LevelsAssumption`; with one guard at two levels "level by level" would mean nothing).  `Piped` says what a
  pipeline looks like whatever wraps it: it ends in the handler, and what stands before a user's handler is the frame of its guards.
  `Passing` says that on the way in the guards before `check`, and no others, have passed, that none has objected, and that the frame of the guards is behind
  only when `check` is through; `Concatenated` that registration puts the three lists level by level.
* `MiddlewareNests`, assuming that a middleware is known by where it is registered (no name twice in the lists; what is entered and left
  could not be told apart otherwise).  `Laid` says that the frames of a chain stand level by level and before the guards, `Placed` which of them
  have been entered and left at each point of the walk, `Ordered` that the history follows their places, forwards on the way in and
  backwards on the way out.  The property speaks of names and history only, so that the places have to be carried along.
* `SettingsInForce` (`SInv`): what a frame sets holds while anything inside it runs, and the frame that cancels is the one that set it.
* `RequestIDOnSuccess` and `CorsDecides` (`HInv`): a header once on an answer stays, unless a middleware outside answers anew (`Overruled`) or
  the error handler does (`mapped`); and an answer that CORS entered is marked or still has CORS before it on the way out.
* `ReadyTellsChecks` (`RInv`): on the way in there is one result per check that ran; on the way out the answer is what they tell (`Told`), or a check
  has panicked (`Broken`).

**`RouterProofs`** proves `SearchWaitsForFreeze`, `ArenaIsTable` and that `Router` implements `RouteTable` (`Spec => ImplementsTable`), for any
methods, patterns and paths and any number of goroutines.  The last two assume `MaxAdds < Width`: fewer routes are added than `uint8` has
values, since `staticCount` wraps beyond (section 7) and the code has no other bound.  `PatternsAssumption` says what splitting a string gives:
sequences of segments of the four kinds, and no empty path.

`OInv` is `once.Do`: who freezes, who waits, and that everybody who is past it sees complete arrays.  The rest goes from the tree to the array to the
path.  `Grown` ties a tree to its routes: its nodes are the prefixes of the routed patterns, the children of a node are those one segment longer, each
once, and handlers stand where patterns end; `InsertGrows` proves that `insert` keeps it when it does not panic, `NoClash` that it panics where the
table would refuse.  `Ahead` is the invariant of the breadth-first queue: no node is in it twice, the nodes of the processed ones' children are all there,
and until the last node is processed there is a next one; `InOrder` concludes that the queue is the array's order, `childBase` the place of a node's first child.
`Turning` reads `Static`, the parameter and the wildcard off the array and finds the children the tree has, `NodeSays` that these are the
continuations the routes have, and `StepTogether` that one step of `Search` and one step of `Match` stay at the same place with the same
parameters.  `Queue`, `Walk` and `Taken` are recursive functions; each is unfolded, and each induction over them done, by looking at the least number
where the claim fails (`Least`).

**`WalkProofs`** is about the walks over trees, `Register`'s over modules and `LoadConfig`'s over struct types, and about forms.

* `MountedAsDeclared`, for any tree of modules and any order of `Guard` and `Register`.  `MountInv`: while `New` mounts the probes, nothing but
  probes is there (`Probing`); afterwards what is mounted, followed by what the stack of tasks still comes to (`Pending`), is what the registered
  modules declare (`Walking`).  A step takes one route off the stack, or replaces a module by its parts, which come to the same (`EnteredIs`).
  `KnownGuards`: what was global at a `Register` is a prefix of what is global later; so the guards the handlers were built with are a witness for
  the property (`MountedExactly`).
* `DocumentAgrees`.  `DocInv`: the table has for each method and pattern the last handler given for it (`Tabled`), each entry of the document is
  that of a handler, in the same order (`Recorded`), and the schemes it needs are there (`Defined`).  So the last entry of an operation and the
  last handler for it are one (`LastLive`), although two patterns may have the same path in the document (`:id` and `*id`): then the schemes are
  those of the last, which serves too.
* `LoadedAsDeclared`, for struct types nested to any depth.  `LoadInv`: for some `n` the first `n` leaves have been looked up as they should
  (`LoadedUpTo`), and what the frames on the stack have ahead (`Ahead`) is just the rest of them.  Entering or leaving a struct does not change what
  is ahead (`DescendAhead`, `ReturnAhead`); a look-up takes the first off (`LookUpAhead`) and overwrites nothing, since no two leaves have one path
  (`LeavesDistinct`).
* `BoundAsSent`, for any struct and any accessors called before (`BoundInv`, `BoundUpTo`): each accessor leaves the form parsed, broken or as it was (`Accessed`),
  so that what `BindForm` finds (`Found`, `Visible`) depends on the body, the query and on whether there was one, and not on which.
  `BoundExactly` concludes: where the form is sound and could be parsed, what it finds is all that was sent.
* `RawBodyStable` after any accessors in any order.  `Kept`: what `RawBody` returned is still there, or the body gives nothing but errors, and no
  accessor mends that.

`Declared` and `Leaves` are recursive functions that flatten what the parts give.  That they satisfy their equation follows from the depth the
assumptions give each module and type; what `FlattenSeq` does to the first, the last and each item of a sequence of sequences is proved first,
by the least counterexample (`Least`, `Grown`).

**`WatchProofs`** proves `OneProcess` and `ReplacedOnlyByGood` for any number of saves and any broken versions.  `Owned` says which
binary is the current one, which the one just built, and whose the process is at each point of the loop; `Numbered` that a
build follows a change, which is why the binaries' numbers never run out.

**`TodosProofs`** proves `IdsNameOneTodo`, `AnswersAreSnapshots` and `PatchIsPatch` for any requests, patches and seeds.  `Good`: all
that is shown has an id up to `seq`, and what shares an id shares its creation; a step adds only the next id or a patch of what is there.
`Private`: no two handlers, and no handler and the store, point to one object, so that what a handler holds is what it read.
`Current`: the copy of an update that nothing has overtaken agrees with what is stored in every field its request does not provide.
Memory may run out in the model (`Room`), and then the step is not taken; the
proofs do not depend on how much there is.

Only model-checked: all liveness (fairness and `ENABLED` are out of the provers' reach), which is
`ShutdownReturns`, `ListenReturns`, `LookupsReturn`, `LatestRuns` and `InterruptEnds`; and the four runs that expect a violation.

## 6. What is not modelled

* A multipart body that is cut off or malformed; one that is too large and whose URL is malformed as well.
* In `Stream`, statuses other than final ones: what 0, 1xx and invalid ones do is in `Serve`.  101, which ends HTTP on the connection, counts as a 1xx.
* The commands `bast new`, `generate` and `build`: files written in a row, text edits in `main.go`, one `go build`.  What the
  templates do once they run is `Todos`.
* `Ctx.IP`: a pure function of a header and a list of proxies.  `middleware.Logger`, the logger and the JSON shim: formatting.
* `basttest`, benchmarks and fuzzing: used by tests only.
* A readiness check that never returns: no `HandlerTimeout` applies, and the probe waits as long as the check does.
* The number of parameters: `WithValue` panics on a `*Ctx` with more than eight (`ctx.go:190`).
* An `Add` that races with the first `Find`: the comment on `Router` makes it the caller's contract that none does.
* A retained `*Ctx`: using one after the handler has returned is against its documentation.
* Contexts of hooks; what a handler does with a deadline that has passed.
* Formatting: JSON, headers other than those a property is about, log lines, templates of the command line tool.

## 7. Observations

Met while modelling, visible in the actions named, without a run of their own:

* A negative `HookTimeout` goes into `context.WithTimeout` as it is (`bast.go:429`, `bast.go:453`): every hook
  gets a context that has expired, while `bast.go:19-20` says a negative value disables a timeout.
* The error boundary answers anew and so drops the headers middleware added (`Boundary`), and a redirect is written
  without headers and cookies (`Wire`): in both cases `X-Request-ID` is lost.
* `Shutdown` during start-up finds `a.srv` nil, returns nil, and the server goes on to serve (`CheckServer`, `bast.go:406`).
* `staticCount` is a `uint8` (`node.go:135`): with `Width = 2` and two static siblings beside a parameter, `ArenaIsTable`
  fails, as it would with 256 siblings in the code.
* `GET /x/:id` and `GET /x/*id` are two routes that both serve, but one operation of the OpenAPI document: the later one (`Operation`).  If only the
  earlier one is guarded, the document does not show it, while `docs/concepts/guards.md:158` says that all routes of a guarded module are marked.
* Two different security schemes may have the same key; the first one is the definition of both (`Documented`).
* `BindForm` into an `int8` takes 300 as 44, without an error (`Signed`); `ctx.go:442` says invalid input yields a 400.
* Middleware of all levels runs outside the guards of all levels (`Guarded`, `Pipeline`), while `docs/concepts/modules.md:188-190` gives the order
  "Global Middleware → Global Guards → Module Middleware → Module Guards → Route Middleware → Route Guards".
* Global middleware is captured as guards are: what `Use` adds after `Register` runs for later routes and automatic OPTIONS answers only, while
  `bast.go:107` says "runs for every request" (`Register`).
* A response of status 0 is logged as 0 and sent as 302 if it is a redirect, else as 200; one of 1xx is logged as that and
  sent, after it, as 200 (`Sent`, `Log`).
* For a status below 100 or above 999 `WriteHeader` panics outside `invoke`: the connection is closed and nothing is logged (`Write`).
* An `ErrorHandler` that panics while it answers a panic or a route's error does so outside every `recover` (`Map`), one that answers
  an error response or nothing is not asked again.
* The error handler of the boundary works on a context that the route's deferred `cancel` has cancelled (`LeaveTimeout` before `Boundary`).
* `StreamCtx.Flush` returns nil although the client has gone, when only `net/http`'s buffer had anything to lose (`Push`), while `streamctx.go:112`
  says it "returns an error if the underlying write fails (e.g. client disconnected)".
* `LoadConfig` stops at the first value that cannot be parsed and reports that one alone (`Assign`): what was missing before and is missing after it is
  not in the error, while `docs/features/config.md:3` and `docs/production.md:121` say that all missing variables are reported at once.
* An automatic OPTIONS answer does not pass the boundary (`Boundary`, `target = "options"`).
* `middleware.Recover` also recovers `http.ErrAbortHandler` (`UnwindMW`), unlike the built-in recovery.
* Probes run without guards and middleware (`ServeProbe`), 404 and 405 without middleware (`ServeError`).
* A guard's panic on a stream route is not recovered (`Guard` of `Stream`).
* `serveStream` does not flush after the handler (`Return` of `Stream`): what the handler did not flush is lost.
* If a later `OnInit` fails, the modules initialised before are not torn down (`InitHook`); a second
  `Shutdown` runs every `OnShutdown` again (`ShutdownHook`).
* `BindForm` takes a multipart form only if `FormValue` or `File` has parsed it before (`BindForm`, `Visible`), while
  `ctx.go:436` says it binds "a url-encoded or multipart form".
* After `FormValue` on a body that is too large, `BindForm` succeeds with an empty form (`FormValue` drops the error, `net/http` leaves
  a form without the body's values); called first it answers 400, not 413.  The same goes for a malformed body: a 400 if `BindForm` comes first, what could
  be parsed of it if `FormValue` did, while `ctx.go:440-441` says "invalid input yields a 400".
* With a query and a body that give the same name, an urlencoded body comes first, a multipart one last (`ParsedForm`, `ParsedMultipart`).
* `RawBody` after a form accessor returns an empty body without an error (`RawBody`).
* Two readiness checks with the same name share one entry of the answer; the status counts both (`Readiness`).
* CORS headers are lost when the boundary answers an error (`Boundary`), and CORS on a module sees a preflight only on a registered
  `OPTIONS` route: the automatic answer has the global middleware only (`ServeOptions`).
* The generated `Update` brings a todo back that was deleted between its read and its save (`Save`).
* `bast generate module` skips `main.go` when its text contains the import path (`generate.go:335`), so `user` after `users` is not
  registered; without an import block, or with `Register` on one line, it edits nothing, one of the two places or a later call
  (`generate.go:377-412`) and reports success all the same, while `docs/cli.md:102` promises a warning.
* `bast generate service` writes a service whose `repo` is not declared anywhere (`generate.go:59`, `tmplService`), in a package of
  its own name in a shared directory; a second `generate` of the same name overwrites what was edited.
* `docs/cli.md:56-57` lists `/health` and `/ready` for a new project, whose `main.go` configures no probes.
