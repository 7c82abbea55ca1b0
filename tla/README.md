# A TLA+ model of helixrack

helixrack is a Rack server in one process. A Rust engine (`src/engine`) serves
HTTP/1.1 on a single-threaded Tokio runtime; a native extension
(`src/ext/helix_rack`) runs the engine inside Ruby, releases the GVL while it
is idle and takes it back for each `app.call(env)`; a thin Ruby layer
(`src/lib/helix_rack.rb`) owns the signals. The modules here model the parts
with control of their own, TLC checks them on small instances, and TLAPS proves
their properties for every value of the constants.

Line references below are to the files in `PROJECT.json`'s map.

## 1. Inventory

| component | state | operations | talks to |
|---|---|---|---|
| connection task (`engine/src/connection.rs`) | buffer, `filled`, `requests_served`, the in-flight guard | parse, read, read a body, reject, call, write, shift, time out | socket, Handler, ConnectionCounter |
| response framing (`connection.rs`, `handler.rs`) | the head being written | strip `Connection`, ensure framing, announce close, write a body in chunks | connection task |
| accept loop, ConnectionCounter, drain (`engine/src/lib.rs`) | listener, `in_flight_requests`, `Notify` | accept, back off, count, drain with a grace period | connection tasks, `_serve_native` |
| preemption watchdog (`ext/…/lib.rs`, mod `watchdog`) | `State`, `generation`, `fired_generation`, Condvar, postponed job | arm, disarm, shutdown, run, fire | handler calls (arm and disarm), Ruby VM |
| `_serve_native` (`ext/…/lib.rs`) | runtime, LocalSet, the unblock flag | bind, `select!` of serve and `cancelled`, drain, teardown | all of the above |
| shutdown flag and traps (`lib/helix_rack.rb`, `ext/…/lib.rs`) | `SHUTDOWN_REQUESTED`, `@trap_generation`, process handlers | serve, install, handle, restore | `cancelled` |
| body accumulation and spooling (`ext/…/lib.rs`) | a thread-local accumulator, a temporary file | read_body, collect_chunk, spool_chunk | the app's `each` |
| GVL release (`ext/…/lib.rs`, mod `gvl`) | unblock flag, saved panic | without_gvl, with_gvl, unblock | Ruby VM |
| RackAppHandler (`ext/…/lib.rs`) | none | build_env, call, fault containment | the app |
| io_uring probe, command line, benchmarks | none that outlives a call | | |

What is hard, component by component, and the property that answers it:

- **Connection task.** One buffer holds, over its life, any mixture of
  pipelined requests, split at any byte; two parses, a grow step, a body read
  and a shift have to agree on offsets (`StreamIntact`, `ReadHasRoom`). The
  buffer is grown by bodies and never shrinks, but the header cap must stay
  (`BufferBounded`, `RejectionJustified`). About a dozen `?` and returns leave the
  loop with or without a guard alive (`InFlightExact`). Bodies written for HEAD
  or without a length desynchronise the client (`ClientFramed`,
  `CloseAnnounced`); those of a 204 or 304 do (section 5). EOF and the idle timer race complete requests
  (`NothingDropped`, `RequestSettled`).
- **Shutdown.** `drain` waits for a count that tasks move while they start
  bodies, finish requests and go on with pipelined ones (`GracefulStop`); its look
  and its wait are one poll on the single thread, so nothing comes between them, but
  a count that went down without a notify would let it sleep (`DrainNotLost`).
  It must end, also with clients that stop reading or sending
  (`ShutdownCompletes`), and, within the grace period, cut no answer
  (`CalledIsAnswered`). Errors of accept, faults of a
  handler and misbehaving clients may not end a run that nobody asked to stop
  (`RunSpec`).
- **Watchdog.** notify after unlock, spurious wakeups, a trigger sent without
  the mutex, and a shutdown that does not move the generation
  (`NoLostWakeup`, `ChargedOncePerLateRequest`, `LateIsCharged`, `JoinReturns`).
- **Traps.** Process-wide state that calls of `serve` in several threads take
  over from each other (`NewestOwnsSignals`, `ChainReachesOriginal`,
  `NoStaleRequest`, `TrapsRestored`, `SignalStops`).
- **`_serve_native`.** A call acquires a thread, a runtime, connections and a
  flag that Ruby may write to, and can end by a result, an error at four
  places, a panic in a handler, or a `Thread#kill` that runs no destructor
  (`ReleasedOnReturn`, `WatchdogJoined`, `CallsAreScoped`). Listener, watchdog,
  runtime and connections have to go in an order that keeps what a run promises
  (`RunSpec`), and a call asked to stop has to be left (`RunCompletes`).
- **Response bodies.** A non-capturing block collects chunks in a thread-local,
  which changes from memory to a file in the middle of the app's `each`, while
  `each` may raise, rescue, yield on a thread that is reading some other body,
  or have a nested server read one (`BodyExact`, `SpooledWhenLarge`,
  `NothingLeftBehind`).

`PROJECT.json` lists every hazard at its line, with the properties that answer
it.

## 2. Modules

| module | what it is |
|---|---|
| `ConnectionService` | abstract: what one keep-alive connection promises |
| `Connection`, `MCConnection`, `Connection_proofs` | `handle`, its instance, its proofs; implements `ConnectionService` |
| `ServerRun` | abstract: what a run of the server promises whoever started it |
| `Server`, `Server_proofs` | accept loop, all connections, counter, drain, `select!`, teardown, and its invariants |
| `ServerRefines_proofs` | `Server` implements `ServerRun`, and each of its connections `ConnectionService` |
| `PreemptionSignal` | abstract: what the watchdog promises |
| `Watchdog`, `Watchdog_proofs` | the two threads; implements `PreemptionSignal` |
| `SignalTraps`, `MCSignalTraps`, `SignalTraps_proofs` | `HelixRack.serve` and its traps; who owns the signals |
| `SignalTrapsChain_proofs` | what follows a signal: requests, the chain of handlers, what is put back |
| `ServeNative`, `ServeNative_proofs` | one call of `_serve_native`: what it holds, the GVL, every way out; implements `ServerRun` |
| `BodySpool`, `MCBodySpool`, `BodySpool_proofs` | `read_body` and the block it passes to `each`, on several threads |

Composition. `Connection` and `Server` are two views of a connection, tied by
`ConnectionService`: `Connection` has every byte of one connection and shows
(`ServiceSpec`) that it implements the abstract promise; `Server` has many
connections at the grain of that promise and shows (`ConnectionsServe`) that
it uses no more. `Server` and `ServeNative` are two views of a call, tied by
`ServerRun`: once it serves, a run stops only when asked to, whatever accept, a
handler or a client does; from then on it takes no connection and cuts none before it
returns; what returns leaves none behind, and only a kill may. `Server` shows it
connection by connection with the polls in between; `ServeNative` has the
arguments, the runtime, the watchdog and the GVL around it, and counts
connection tasks only. Both show `RunSpec`, and that a run asked to stop is over
some time (`ShutdownCompletes`, `RunCompletes`). `Server` takes the
shutdown flag as a signal that may come at any moment; `SignalTraps` is where
that flag is set and cleared. `ServeNative`'s `DropGuard` relies on `Watchdog`'s
`JoinReturns`.

Operators named `X…` and marked *Slip* are plausible mistakes in the operator
that follows them. No specification uses them; `PROJECT.json` pairs each with
the property that would expose it.

### Connection

A step is the code between two awaits of `handle`; `pc` names the await (or
the point between parse and read). A byte is its offset in the client's
stream, and what it says is abstracted to the request it belongs to: a record
of header length, body length and kind (plain, HEAD, a header value that is
not UTF-8, malformed). `cur` is the request at offset `start`, chosen when the
server gets there. `wire` is what the kernel holds; a read takes any part of it
that fits. The buffer's `base`, `filled` and `bufLen` are the code's own
numbers, so that the shift, the growth and the bounds of the slices are
computed and not assumed.

A handler returns any response: with or without a length of its own, right or
wrong, with a status that has a body or one that has none (204, 304), from memory or
from a file. `Expected` is the client's side of framing: what it takes to be the
length of the body after a head. `ensure_framing` adds a length where there is none
and passes on what is there, and only HEAD suppresses the body, so a response
can contradict itself (`Contradicts`): `unsound` (a history variable) is then set, and
`ClientFramed` speaks of connections on which none has.

A write_all (`Write`) is over when the client has taken what was written, which it
need not ever do: there is no timeout.

Abstracted: header text, reason phrases, chunk contents, and write splitting
below a chunk (the socket may fail at any write). A build feature that
combines head and body in one write gives a subset of these behaviours: the
same bytes with no failure between them.

### Server

One OS thread runs everything, so a step is one poll of a task, except that
`Handler::call` takes time: while `calling` names a connection nothing else is
polled, but clients, signals and timers go on. A connection has just enough
buffer to tell what a poll finds: a request is three units, part of its
headers, their end, and its body. `Go` is the InFlightGuard: the old guard is
dropped and a new one made in one poll, because the parse loop has no await
between an answer and the next pipelined request's headers. `drain` registers
its `Notified`, looks, and returns or waits; the timeout around it looks at its
timer in the same poll, so a look that would wait after the grace period ends
the drain. `Teardown` drops the LocalSet and
its tasks; after a kill, `Abandon` leaves them as they are.

### Watchdog

A step is what a thread does between taking the mutex and releasing it.
`notify_one` comes after the unlock and the trigger without the mutex, so
both are steps of their own. A wait may end without a notify. Time is one
bit: `due` says that the deadline of the armed state has passed.

### SignalTraps

A step is a Ruby statement that touches shared state: `Signal.trap` and the
assignment of its result are two, because a trap may run in between. Trap
bodies run one at a time on the main thread; each sets the flag and goes on to
the handler its block knows as `previous_handler`. Each call runs in a thread
of its own, may overlap others if `MayOverlap`, and may be killed at any point.
`signalled` is a history variable. A call killed between the installation of
its traps and `begin` leaves them installed, as in the code: no property asks that
they go, but a later call still owns its signals (`NewestOwnsSignals`) and the chain
through them stays whole (`ChainReachesOriginal`).

### ServeNative

A step is what happens between two points at which Ruby, another thread or a
failure can intervene. Rust's destructors are `DropFrame`, `DropGuard` and
`Disarm`; a non-local exit runs none of them. A kill calls the unblock function
only while Ruby knows one, that is, outside handler calls. What Ruby and magnus
do with a kill is external: it is delivered where `without_gvl` takes the GVL
back, at the latest when `without_gvl` is called, or inside the app, where
magnus turns it into an error of that request. A kill that is still pending when
a handler ends is assumed to stay so, as the comment in `_serve_native` reports.
That comment leaves a gap before `without_gvl` (`KilledAtStart`), so
`WatchdogJoined` speaks of calls that have released the GVL.

### BodySpool

A step is one call of the block, or the beginning or end of `read_body`. A chunk
is the body it belongs to, its number and its size, so that a lost, repeated,
reordered or foreign chunk shows; an empty chunk changes nothing and is left
out. The block works on the accumulator of the thread it runs on: `each` may
yield on its own thread, on one that reads nothing, or on one that is reading a
body of its own. The history variable `crossed` marks a thread's read when a
chunk of its body has gone elsewhere or a foreign one has come in, or a part of
one. A write into a file that fails may leave part of its chunk there (`Torn`),
also when the file is that of another thread's body, which is then `crossed`. The error
is raised in `each`, out of its yield; if `each` rescues it (`MayRescue`) and goes
on, its own body lacks that chunk or has it torn, and is `rescued`. `BodyExact`
speaks of the reads that are neither, whatever strays were left on their thread before
they began and whatever failed.

## 3. Runs

| run | question | instance | states |
|---|---|---|---|
| `connection` | is `handle` right on every path? | first buffer 2, header cap 4, body cap 5, `max_keepalive` 3, reads of at most 4 bytes, 8 kinds of request, responses of up to 2 chunks | 135 025 |
| `header_cap` | is the header cap exact? **no** | as above | |
| `counted_early` | is a request counted just around `Handler::call`? **no** | as above | |
| `watchdog` | are exactly the late requests charged, does join return? | 3 requests | 1 465 |
| `server` | is shutdown graceful, the count exact, the run a `ServerRun`? does shutdown end whatever clients do, are calls of clients that read answered? | 2 connections, 2 requests each, `max_keepalive` 2 | 596 992 |
| `signal_traps` | who owns the signals when calls overlap? | 3 calls, 2 signals, symmetric | 391 855 |
| `traps_alone` | are traps restored, does a signal stop the server? | 2 calls, one after the other | 22 152 |
| `traps_left` | are they restored when calls overlap? **no** | 2 calls | |
| `request_erased` | does a signal stop each server when calls overlap? **no** | 2 calls | |
| `serve_native` | does every way out release what it must, is a call a `ServerRun`, does it end? | 2 connections | 158 |
| `sockets_left` | does a killed call drop its connections? **no** | 2 connections | |
| `body_spool` | is a body exact, a file made when it must be, nothing left? | 2 threads, threshold 1, 2 chunks of size 1 or 2, 2 bodies, symmetric | 3 670 090 |

Why the bounds are enough.

- `connection` (and the two runs on its instance): the caps are distinct, and with 2 < 4 < 3 + 5 the requests
  cover each side of every comparison: fits the first buffer, grows it, grows
  it past the header cap by a body, exceeds the header cap with and without
  fitting in one read into a grown buffer, exceeds the body cap. Three
  requests per connection let a large body come first, a pipelined request
  follow it and a last one close. `RecvBuf`, the most one read returns, is the
  kernel's receive buffer; the real one is finite as well, and the bound on the
  buffer is stated in terms of it. With two chunks a length a handler sets can be
  too short, right and too long for a body that is written in one or two pieces.
- `watchdog`: three requests let the thread be late by a whole request and
  still meet a third; the generations that matter are the fired one, the
  current one and one between.
- `server`: two connections are enough for one to hold the count up or let it
  reach zero while the other is anywhere; two requests each make pipelining
  and the close after `max_keepalive` happen. The proofs cover the rest.
- `signal_traps`: three calls are a stale one, a current one and one that
  begins while the other two end.

- `serve_native`: the states are few because only the count of connections is
  data; one of them is left and one ends.
- `body_spool`: with a threshold of one, a body reaches it, passes it by its
  first or by its second chunk, or stays below; a second body shows what the first, or a
  stray chunk between the two, has left. Two threads are one that reads and one that
  is reached from elsewhere, in either role.

No run turns deadlock checking off. `Connection`, `Watchdog`, `ServeNative` and
`BodySpool` say where they end by a stuttering action (`Closed`, `Joined`,
`Ended`, `Done`); in `Server` and `SignalTraps`
signals may always come.

### Fairness

- `Connection`: weak fairness of what the task does by itself (`Compute`): the
  runtime polls a task whose await is ready, and a handler is assumed to return.
  Nothing is assumed of the client, which need not send and need not read (no
  write is fair), of timers or of failures. `RequestSettled` therefore speaks of
  requests that were sent completely, under the hypothesis that the client reads
  (`ClientReads`, weak fairness of `Write`); without it the property is false, as
  there is no timeout on a write.
- `Watchdog`: weak fairness of each thread: the OS schedules both and a timed
  wait ends. Not of `Arm`, `Shutdown`, `Expire` or the postponed job, and not of
  `Disarm`: the request that never ends is the one that has to be charged.
- `Server`: weak fairness of the handler's return (`HandlerReturns`, of
  whichever handler runs: there is one), of the grace timer and of the end of
  the call. Strong fairness of `MainPoll`: a LocalSet polls the root future at every
  tick, but never during a call, so it is enabled again and again rather than
  continuously. `cancelled` looks every 20 ms, so it does not depend on a wakeup.
  No fairness of a connection's steps: clients need not send and need not read.
  `CalledIsAnswered` has, for the connection it speaks of, the hypothesis that
  its client reads and the LocalSet polls its task (`ClientReads(c)`, strong fairness
  of `ResponseWritten(c)` because the calls of others come between); it says nothing of
  other clients, which may stop reading.
- `ServeNative`: weak fairness of what the calling thread does by itself
  (`Alone`: it runs, and gets the GVL when it asks) and of the handler's return,
  with or without a kill taken in it; strong fairness of `Cancelled` and
  `DrainEnds`, which a poll of the root future finds: it is polled again and again, but
  not during a handler, and the grace period bounds the drain.
- `SignalTraps`: strong fairness of each call's steps, because a mutex is
  contended, and weak fairness of a trap body that has started. None of
  signals, kills or new calls.

## 4. Proofs

Every theorem is proved by tlapm to the last leaf, for all values of the
constants that satisfy the module's named ASSUME.

- `Connection_proofs`: from `BufAssumption` (the first buffer is at most the
  header cap, reads return at least a byte when there is one, and the bounds
  are naturals) and `RequestsAssumption`. The safety properties are not
  inductive: that a body's slice lies in the buffer depends on the check made
  when its headers were complete. `Inv` adds `BufferAt` (which comparison still
  holds at each await), `CountsAt` (how `requests_served`, answers and the
  head sent relate) and `FramedAt` (what a client expects of a head that is still to be
  written). Each safety property of the run and the refinement
  `ServiceSpec` follow.
- `Server_proofs`: from `ServerAssumption` (finitely many connections).
  `GracefulStop` needs to know that a task which awaits header bytes has none
  buffered (`TaskAt`) and that a count of zero means there is no request
  (`InFlightIsSum`, by the library's facts on cardinality); `CallsAreDriven`
  says that a handler only runs inside `block_on`.
- `Watchdog_proofs`: from `MaxRequestsAssumption`. `StateFollowsServer` says
  who writes the state, `GenerationsMove` that only a late armed period is
  fired for and not again, `Accounts` that a fire moves one late request from
  uncharged to charged. `ImplementsSignal` is the refinement.
- `SignalTraps_proofs`: from `TrapsAssumption`. `Generations` (one holder, each
  number given out once), `LoopAt` (what each loop has done) and `Owns` (what
  the current call has trapped is still its own) give `NewestOwns`.

- `ServeNative_proofs`: from `MaxTasksAssumption`. `HeldAt` says what the call
  holds at each stage; it is also what `ImplementsRun` needs: no task without a
  runtime, and no failure before `left`.
- `BodySpool_proofs`: from `SpoolAssumption`, for any number of threads that
  yield on each other. `SpoolsAtThreshold` needs no more than what each
  accumulator says of itself. `ReadsExactly` and `LeavesNothing` rest on
  `Collecting`: while `each` runs, nothing has crossed and no failure was
  rescued, the accumulator is what it has yielded; a write that failed is the
  last of them until `each` has ended or rescued.
- `ServerRefines_proofs`: from `Server_proofs`' invariant. `PollMoves` reduces the
  steps of a task to where they take its connection; a step of `Server` is then
  a step of `ServerRun` or a stutter (`ImplementsRun`), and, for each
  connection, one of `ConnectionService` (`ConnectionsImplementService`).
- `SignalTrapsChain_proofs`: from `SignalTraps_proofs`' invariants.
  `NoRequestIsStale` is inductive with the types. `ChainIsWhole` is a
  statement about a walk, so its invariant (`Chain`) is about links: a call
  that has trapped a signal found the embedder's handler or the trap of another call
  that had trapped it (`Linked`), a call that has not trapped it has found nothing (`Fresh`),
  and from every set of calls that have trapped it some link leads out
  (`Acyclic`), so that no walk goes round. `TrapsAreRestored` supposes `MayOverlap = FALSE`; its invariant (`Alone`)
  is that at most one call is under way and that, unless a call was killed,
  it found the embedder's handlers and they are back when it is over. With overlaps it is false, which `traps_left` shows.

`Spec` is proved about without its bounds being small: `MaxRequests`,
`RecvBuf`, `MaxChunks` are any naturals (`RecvBuf` at least 1).

### Liveness

tlapm has no rules for ENABLED, but to its temporal prover `ENABLED <<A>>_vars`
is a formula like another. So each liveness theorem has the form `FairSpec /\
GuardsEnable => P`, where `GuardsEnable`, stated beside the theorem, says
`[](guard => ENABLED <<A>>_vars)` for the actions that fairness is assumed of. It
is what one sees by reading the guard of an action whose primed variables are all
assigned. TLC, given the conjuncts as an invariant, finds them true in every state
of the runs' instances (of `watchdog`, `server`, `traps_alone`,
`serve_native` and `connection`), so they are no restriction there. The rest is
proved: which predicates a behaviour goes through, that each step keeps to them,
that the fair action leaves each, and that where it stays for ever the action is
enabled often enough.

- `JoinIsReached`: while the thread is joined the state is Shutdown; wherever the
  thread is, its steps lead to the match that finds it, and `NoLostWakeup`
  excludes that it sleeps without a timeout.
- `LateRequestsAreCharged`: the same walk for a late request; if the thread
  sleeps, the notify of that request's `arm` is still to come.
- `RunIsCompleted`: the points of `_serve_native` are in an order (`Order`) that
  no step goes back in; the request to stop stays, and a handler is over
  some time, so that a poll of the root future finds it.
- `ShutdownIsCompleted`: the same for `Server`, after a signal, or after a kill whose
  unblock function has run (one delivered inside a handler sets no flag). The drain ends by its timer,
  whatever clients do. `DrainIsPrompt` adds that it does not need the timer: a
  drain with nothing in flight is over at its next poll, unless a client begins
  a request in the meantime.
- `CallsAreAnswered`, under `ClientReads(c)`: nothing but its handler moves a connection that is in a call
  (`CalledNext`). While it writes, the calls of others hold the runtime up, but
  each ends, so its own poll is enabled again and again and, by strong fairness,
  happens, whatever other clients do. That its task is not dropped before needs `GracefulStop`, and
  `LeftInTime` for a call that is over.
- `SignalsStop`: with calls that do not overlap. The flag stays up because no
  other call can begin and clear it; the mutex is free when the `ensure` comes to
  it (`MutexIsFree`). It supposes that there are two signals, as there are in the
  code: how many steps a loop over any number takes is an induction.
- For `RequestSettled` the number of steps depends on the sizes of the request,
  and the last step of a proof is an induction over it, which the prover cannot do
  with temporal formulas. What the induction needs is proved: `Rank`, a
  natural, which each step of the task lowers unless it completes an answer and
  which nothing raises (`TaskAdvances`); that the task has what it awaits while
  a complete request is unanswered (`InputIsThere`); that, with nothing assumed of the
  client, each rank is left at which the task is not in a write
  (`ServerNeverWaits`); and that, if the client reads, each rank is left for a
  lower one (`RankIsLeft`).

### What the cap on headers does hold

`HeaderCapExact` is false (section 5). `FirstRequestIsCapped` shows that it holds
of the first request of every connection, `CapIsExact` that it holds of all if no
request whose headers fit the cap is larger than the cap with its body, and
`HeadersAreBounded` what remains otherwise: the excess is less than one read.

### What is only model-checked

Every safety and action property of a passing run, each type invariant, each
refinement and each liveness property but one is stated by a theorem. Only
model-checked are `RequestSettled` (its induction), the conjuncts of
`GuardsEnable` (ENABLED; on the instances only), and the five violations.

## 5. Where code and documentation disagree

1. **The header cap is not exact** (`header_cap`). `filled` is compared with
   `MAX_BUF_CAPACITY` only after a parse that came out Partial. In a buffer
   that a body has grown, one read can both pass the cap and complete the
   headers, and such a request is served. The test
   `engine/tests/header_cap_survives_body_growth.rs` says the cap holds at
   exactly 64 KiB; the headers it sends never complete. What does hold, and is
   proved, is in section 4: an earlier body has to have grown the buffer, and the
   excess is less than one read.
2. **Overlapping serve calls leave a trap behind** (`traps_left`). If two calls
   overlap and end in the order they began, the first skips its restore because
   it is stale and the second restores the first one's trap.
3. **Overlapping serve calls erase a shutdown** (`request_erased`). `serve`
   begins by clearing the process-wide flag, also when another server has been
   told to stop and has not looked yet.
4. **A killed server leaves its connections open** (`sockets_left`). The
   `LocalSet` is a local of `_serve_native`, outside the closure given to
   `without_gvl`. The comment beside `drain` says that it returns and drops the
   tasks when drain is over; after `Thread#kill` the non-local exit skips that,
   and a client that keeps its connection open waits for a server that is gone.
5. **A request is counted earlier than documented** (`counted_early`). The doc
   comments of `in_flight_requests`, of `record_request_start` and of `handle` have
   a request counted from just before `Handler::call`. The code makes the guard when the
   headers are complete: a request is counted while its body arrives, and when it
   is answered with 413 or 400. The comment beside the guard says that it was
   moved and why. The code is right (`GracefulStop` fails with the documented
   interval, as the mutant `XCountedFromCall` shows); the doc comments were not
   moved with it, and `InFlightExact` is what the code does.

One fault of the code that no document denies, and a rule of its design, both in
the model and outside what `ClientFramed` and `ResponsesAreFramed` say:

- **A 204 or 304 with a body desynchronises the client.** The body is left out
  for HEAD only. If a handler returns a body with a status that has none,
  it is written, and the client takes it for the next response: what the
  comment on `is_head` describes for HEAD.
- A `Content-Length` or `Transfer-Encoding` that a handler has set is passed on even
  if it is wrong (the comment on `ensure_framing` says so), so such a handler
  desynchronises its clients as well.

Without `~unsound` in `ClientFramed` TLC finds both.

Two smaller remarks, which have no run. `run` drops the mutex before it calls
`fire`, so the trigger may come after the request it is for, where the comment
on `Watchdog` has `disarm` wait for it; the accounts stay right
(`ChargedOncePerLateRequest`, proved). And `collect_chunk` finds its
accumulator by the thread it runs on: a body that yields a chunk on another
Ruby thread comes back without it, with no error, and the chunk goes into
whatever that thread is reading; the comment on `read_body` supposes a single
thread. If the write of such a chunk fails, the other thread's file can keep
part of it while the error goes to the thread that yields. `BodyExact` holds for
every read that is neither `crossed` nor `rescued`, and the type of the
accumulator, the threshold and the cleanup hold for all.

## 6. Not modelled, and the plan

The plan, all of which is done: `ConnectionService` and `Connection`;
`PreemptionSignal` and `Watchdog`; `Server`; `SignalTraps`; `BodySpool`;
`ServeNative`; `ServerRun`, implemented by `Server` and `ServeNative`; and for
each the theorems of section 4.

Not modelled:

- The names and values of the Rack environment and the text of responses
  (header lines, reason phrases, dates). `build_env` and `handle` are conversions
  without state; what they can come to (a response, a refusal, a fault) is in
  `ServeNative` and `Connection`, and no property is about their wording.
- The io_uring probe: one system call whose answer is reported and used by
  nothing.
- The command line, packaging, benchmarks: they set options and start one
  `HelixRack.serve`.
- `Watchdog` inside `ServeNative`. The call sees the watchdog through arm,
  disarm, shutdown and join: `Watchdog` takes requests to be armed and disarmed in
  turn and not after the shutdown, and `CallsAreScoped` is what `ServeNative` shows of
  that.

What clients may do is modelled and not bounded by the code: one that stops
in the middle of a request, or does not read its response, holds its connection
and, if its headers were complete, the count, until it or the server ends. The idle
timer runs only between requests and a write has no timeout. `ShutdownCompletes`
and `RunCompletes` cover the server's end.
