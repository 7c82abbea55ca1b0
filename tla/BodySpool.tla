----------------------------- MODULE BodySpool -----------------------------
(***************************************************************************)
(* Reading a Rack response body: read_body, and the block (collect_chunk,  *)
(* spool_chunk) it passes to the body's `each`.  The block captures        *)
(* nothing; it works on the accumulator of the OS thread that runs it, a   *)
(* thread-local, as is the flag that keeps read_body from being entered    *)
(* twice.  Several threads may serve (overlapping calls of serve), and     *)
(* `each` is the app's code: it yields what and when it likes, raises, or  *)
(* has a nested server handle a request.                                   *)
(*                                                                         *)
(* A chunk is the body it belongs to, its number and its size; an empty    *)
(* one changes nothing and is left out.                                    *)
(***************************************************************************)
EXTENDS Naturals, Sequences

CONSTANTS Threads,      \* OS threads that run Ruby code
          Threshold,    \* SPOOL_THRESHOLD_BYTES
          MaxChunk,     \* bound: size of a chunk
          MaxYields,    \* bound: chunks a body yields
          MaxBodies,    \* bound: bodies a thread reads
          MayRescue     \* `each` may rescue what its yield raises and go on

ASSUME SpoolAssumption == /\ Threshold \in Nat /\ MaxChunk \in Nat
                          /\ MaxYields \in Nat /\ MaxBodies \in Nat
                          /\ MayRescue \in BOOLEAN

VARIABLES
  acc,       \* BODY_ACCUMULATOR of each thread
  reading,   \* READING_BODY of each thread
  phase,     \* of the body a thread reads: in `each`, its yield has raised or has
             \*   failed on a file, over
  outcome,   \* of the last read_body of a thread: none yet, an error, a body
  result,    \* that body
  bodies,    \* bodies each thread has begun to read
  yielded,   \* history: the chunks its body has yielded
  rescued,   \* history: its `each` has gone on after a failed file operation
  crossed    \* history: since its last read began, a chunk of that body has
             \*   gone to another thread, or one of another body has come to it

resultVars == <<outcome, result>>
historyVars == <<yielded, rescued, crossed>>
vars == <<acc, reading, phase, resultVars, bodies, historyVars>>

Chunks == [of : Threads \X (1..MaxBodies), nr : 1..MaxYields, size : 1..MaxChunk]

InMemory(chunks, size) == [spooled |-> FALSE, chunks |-> chunks, size |-> size]

Spooled(chunks, size) == [spooled |-> TRUE, chunks |-> chunks, size |-> size]

Empty == InMemory(<<>>, 0)

Init == /\ acc = [t \in Threads |-> Empty]
        /\ reading = [t \in Threads |-> FALSE]
        /\ phase = [t \in Threads |-> "over"]
        /\ outcome = [t \in Threads |-> "none"]
        /\ result = [t \in Threads |-> Empty]
        /\ bodies = [t \in Threads |-> 0]
        /\ yielded = [t \in Threads |-> <<>>]
        /\ rescued = [t \in Threads |-> FALSE]
        /\ crossed = [t \in Threads |-> FALSE]

-----------------------------------------------------------------------------
\* Slip: the accumulator is emptied at the end of a read only.
XClearedBefore(t) == UNCHANGED acc

ClearedBefore(t) == acc' = [acc EXCEPT ![t] = Empty]

\* The flag is taken and the accumulator emptied before `each` is called.
Enter(t) == /\ ~reading[t]
            /\ bodies[t] < MaxBodies
            /\ reading' = [reading EXCEPT ![t] = TRUE]
            /\ ClearedBefore(t)
            /\ phase' = [phase EXCEPT ![t] = "each"]
            /\ outcome' = [outcome EXCEPT ![t] = "none"]
            /\ result' = [result EXCEPT ![t] = Empty]
            /\ bodies' = [bodies EXCEPT ![t] = @ + 1]
            /\ yielded' = [yielded EXCEPT ![t] = <<>>]
            /\ rescued' = [rescued EXCEPT ![t] = FALSE]
            /\ crossed' = [crossed EXCEPT ![t] = FALSE]

\* Slip: the guard that resets is made before the flag is looked at.
XResetByRefused(t) == /\ reading' = [reading EXCEPT ![t] = FALSE]
                      /\ acc' = [acc EXCEPT ![t] = Empty]

\* A refused call leaves the thread's body alone.
Refused(t) == UNCHANGED <<acc, reading>>

\* `each` makes a request of a server nested on its thread, which is answered
\* with a 500; the nested server is not modelled further.
EnterNested(t) == /\ reading[t] /\ phase[t] = "each"
                  /\ Refused(t)
                  /\ UNCHANGED <<phase, resultVars, bodies, historyVars>>

-----------------------------------------------------------------------------
(***************************************************************************)
(* A yield.                                                                *)
(***************************************************************************)
\* The body moves to a file, what was accumulated first.
Moved(a, c) == Spooled(Append(a.chunks, c), a.size + c.size)

\* Slip: only what has accumulated already is compared.
XTooLarge(a, c) == a.size > Threshold

\* Slip: a body that just fits is moved as well.
XReached(a, c) == a.size + c.size >= Threshold

TooLarge(a, c) == a.size + c.size > Threshold

\* spool_chunk, when file operations succeed.
SpoolChunk(a, c) ==
  IF a.spooled THEN Spooled(Append(a.chunks, c), a.size + c.size)
  ELSE IF TooLarge(a, c) THEN Moved(a, c)
  ELSE InMemory(Append(a.chunks, c), a.size + c.size)

NextChunk(t, size) == [of |-> <<t, bodies[t]>>, nr |-> Len(yielded[t]) + 1, size |-> size]

\* A chunk of t's body has come to the accumulator of u.
Crossing(t, u) == [v \in Threads |-> crossed[v] \/ (u # t /\ v \in {u, t})]

\* The app may have the block run on the thread that reads or on any other.
Yield(t) ==
  /\ phase[t] = "each" /\ Len(yielded[t]) < MaxYields
  /\ \E u \in Threads, size \in 1..MaxChunk :
       LET c == NextChunk(t, size)
       IN  /\ acc' = [acc EXCEPT ![u] = SpoolChunk(@, c)]
           /\ yielded' = [yielded EXCEPT ![t] = Append(@, c)]
           /\ crossed' = Crossing(t, u)
  /\ UNCHANGED <<reading, phase, resultVars, bodies, rescued>>

\* Slip: the error of a file operation is dropped, and the yield returns.
XErrorDropped(t, how) == UNCHANGED phase

\* An error of the block is raised in `each`, out of its yield.
Raise(t, how) == phase' = [phase EXCEPT ![t] = how]

\* A body in a file whose last write has failed after n bytes of a chunk.
Torn(a, c, n) ==
  IF n = 0 THEN a ELSE Spooled(Append(a.chunks, [c EXCEPT !.size = n]), a.size + n)

\* A file cannot be made or written, and the yield raises.  A file that was to be
\* made is dropped and the body stays in memory as it was; one that is there keeps
\* what write_all had put into it, also when it is the file of another thread.
YieldFails(t) ==
  /\ phase[t] = "each" /\ Len(yielded[t]) < MaxYields
  /\ \E u \in Threads, size \in 1..MaxChunk :
       LET c == NextChunk(t, size)
       IN  /\ yielded' = [yielded EXCEPT ![t] = Append(@, c)]
           /\ \/ /\ ~acc[u].spooled /\ TooLarge(acc[u], c)
                 /\ UNCHANGED <<acc, crossed>>
              \/ /\ acc[u].spooled
                 /\ \E n \in 0..size - 1 :
                      /\ acc' = [acc EXCEPT ![u] = Torn(@, c, n)]
                      /\ crossed' = IF n = 0 THEN crossed ELSE Crossing(t, u)
  /\ Raise(t, "failed")
  /\ UNCHANGED <<reading, resultVars, bodies, rescued>>

\* A chunk that is no String, or none at all.
YieldsNoString(t) == /\ phase[t] = "each"
                     /\ Raise(t, "raised")
                     /\ UNCHANGED <<acc, reading, resultVars, bodies, historyVars>>

\* After a failed file operation an `each` that goes on has lost a chunk.
Rescue(t) == /\ phase[t] \in {"raised", "failed"}
             /\ MayRescue
             /\ phase' = [phase EXCEPT ![t] = "each"]
             /\ rescued' = [rescued EXCEPT ![t] = @ \/ phase[t] = "failed"]
             /\ UNCHANGED <<acc, reading, resultVars, bodies, yielded, crossed>>

-----------------------------------------------------------------------------
(***************************************************************************)
(* The end of read_body: ResetOnDrop runs on every path.                   *)
(***************************************************************************)
ResetOnDrop(t) == /\ reading' = [reading EXCEPT ![t] = FALSE]
                  /\ acc' = [acc EXCEPT ![t] = Empty]

Return(t, how, body) == /\ outcome' = [outcome EXCEPT ![t] = how]
                        /\ result' = [result EXCEPT ![t] = body]
                        /\ phase' = [phase EXCEPT ![t] = "over"]
                        /\ ResetOnDrop(t)
                        /\ UNCHANGED <<bodies, historyVars>>

EachReturns(t) == phase[t] = "each" /\ Return(t, "body", acc[t])

\* `each` raises of its own, is killed, or lets the error of a yield through.
EachRaises(t) == phase[t] \in {"each", "raised", "failed"} /\ Return(t, "error", Empty)

\* Every thread has read its last body.
Done == /\ \A t \in Threads : phase[t] = "over" /\ bodies[t] = MaxBodies
        /\ UNCHANGED vars

-----------------------------------------------------------------------------
Next == \/ Done
        \/ \E t \in Threads : \/ Enter(t) \/ EnterNested(t) \/ Yield(t) \/ YieldFails(t)
                              \/ YieldsNoString(t) \/ Rescue(t)
                              \/ EachReturns(t) \/ EachRaises(t)

Spec == Init /\ [][Next]_vars

-----------------------------------------------------------------------------
Accumulators == [spooled : {FALSE}, chunks : Seq(Chunks), size : 0..Threshold]
                  \union [spooled : {TRUE}, chunks : Seq(Chunks), size : Nat]

\* What each variable holds; in memory a body has at most SPOOL_THRESHOLD_BYTES.
TypeOK == /\ acc \in [Threads -> Accumulators]
          /\ reading \in [Threads -> BOOLEAN]
          /\ phase \in [Threads -> {"each", "raised", "failed", "over"}]
          /\ outcome \in [Threads -> {"none", "error", "body"}]
          /\ result \in [Threads -> Accumulators]
          /\ bodies \in [Threads -> 0..MaxBodies]
          /\ yielded \in [Threads -> Seq(Chunks)]
          /\ {rescued, crossed} \subseteq [Threads -> BOOLEAN]

(***************************************************************************)
(* A body that read_body returns is every chunk `each` yielded, in order   *)
(* and with nothing of another body, in memory or across the move to a     *)
(* file.  A file operation that fails never shortens or tears it: the      *)
(* error leaves read_body, unless `each` itself has rescued it and gone    *)
(* on.  It is so also when other bodies yield on threads that are not      *)
(* theirs: what they left on this thread before the read is not in it.     *)
(***************************************************************************)
BodyExact ==
  \A t \in Threads : outcome[t] = "body" /\ ~rescued[t] /\ ~crossed[t]
                       => result[t].chunks = yielded[t]

(***************************************************************************)
(* spool_chunk makes a file only for a body that is past the threshold,    *)
(* and at once when it is, whatever failed or was refused before.          *)
(***************************************************************************)
SpooledWhenLarge == \A t \in Threads : acc[t].spooled <=> acc[t].size > Threshold

(***************************************************************************)
(* Between bodies a thread holds no bytes and no open file, on whatever    *)
(* path the last read_body ended, unless a body of another thread yielded  *)
(* on it; and the flag is up exactly while a body is being read: a refused *)
(* nested read takes down neither.                                         *)
(***************************************************************************)
NothingLeftBehind ==
  \A t \in Threads : /\ reading[t] <=> phase[t] # "over"
                     /\ ~reading[t] /\ ~crossed[t] => acc[t] = Empty
=============================================================================
