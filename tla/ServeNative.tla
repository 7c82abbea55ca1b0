---------------------------- MODULE ServeNative ----------------------------
(***************************************************************************)
(* The life of one call of _serve_native: what it acquires, the GVL it     *)
(* gives up in without_gvl and takes back in with_gvl for each handler     *)
(* call, and every way it ends.  What serve and drain do while they run is *)
(* Server; here only their connection tasks are counted.                   *)
(*                                                                         *)
(* Rust's destructors run on a return and on a panic.  They do not run     *)
(* when Ruby delivers a Thread#kill at one of its checkpoints and leaves   *)
(* by a non-local exit, which it may do where without_gvl takes the GVL    *)
(* back, and rarely before without_gvl.  Inside a handler magnus turns the *)
(* kill into an error; what is pending when a handler ends stays pending.  *)
(***************************************************************************)
EXTENDS Naturals

CONSTANT MaxTasks  \* bound: connection tasks alive at once

ASSUME MaxTasksAssumption == MaxTasks \in Nat

VARIABLES
  pc,                 \* how far _serve_native has come
  failed,             \* bind has failed
  handler,            \* a Handler::call is running
  gvl,                \* the calling thread holds the GVL
  killPending,        \* a Thread#kill has not been delivered
  shutdownRequested,  \* SHUTDOWN_REQUESTED
  unblock,            \* Ruby knows the unblock function, and cancel_ptr
  cancelBox,          \* what cancel_ptr points to: nothing, a flag, freed
  cancel,             \* that flag
  dog,                \* the watchdog thread
  armed,              \* the watchdog is armed
  runtime,            \* the Tokio runtime and the LocalSet, in this frame
  tasks,              \* connection tasks, each with its socket
  ended               \* how the call has ended

gvlVars == <<gvl, unblock>>
cancelVars == <<cancelBox, cancel>>
askVars == <<killPending, shutdownRequested>>
heldVars == <<dog, armed, runtime, tasks>>
vars == <<pc, failed, handler, gvlVars, cancelVars, askVars, heldVars, ended>>

Init == /\ pc = "begin" /\ ended = "no"
        /\ failed = FALSE /\ handler = FALSE
        /\ gvl = TRUE /\ unblock = FALSE
        /\ killPending = FALSE /\ shutdownRequested = FALSE
        /\ cancelBox = "none" /\ cancel = FALSE
        /\ dog = "none" /\ armed = FALSE
        /\ runtime = "none" /\ tasks = 0

-----------------------------------------------------------------------------
(***************************************************************************)
(* Other threads.  A kill runs the unblock function only where Ruby knows  *)
(* one: not before without_gvl, nor while a handler has the GVL.           *)
(***************************************************************************)
Kill == /\ ~killPending /\ pc # "end"
        /\ killPending' = TRUE
        /\ cancel' = (cancel \/ unblock)
        /\ UNCHANGED <<pc, failed, handler, gvlVars, cancelBox, shutdownRequested, heldVars, ended>>

Signal == /\ ~shutdownRequested /\ pc # "end"
          /\ shutdownRequested' = TRUE
          /\ UNCHANGED <<pc, failed, handler, gvlVars, cancelVars, killPending, heldVars, ended>>

-----------------------------------------------------------------------------
(***************************************************************************)
(* Up to without_gvl, holding the GVL.                                     *)
(***************************************************************************)
End(how) == /\ pc' = "end"
            /\ ended' = how
            /\ UNCHANGED <<failed, handler, shutdownRequested>>

\* An argument is out of range, or prepare_app fails.
Refuse == /\ pc = "begin"
          /\ End("raised")
          /\ UNCHANGED <<gvlVars, cancelVars, killPending, heldVars>>

SpawnWatchdog == /\ pc = "begin"
                 /\ pc' = "spawned"
                 /\ dog' = "running"
                 /\ UNCHANGED <<failed, handler, gvlVars, cancelVars, askVars,
                                armed, runtime, tasks, ended>>

BuildRuntime == /\ pc = "spawned"
                /\ pc' = "built"
                /\ runtime' = "alive"
                /\ UNCHANGED <<failed, handler, gvlVars, cancelVars, askVars,
                               dog, armed, tasks, ended>>

Joined(d) == IF d = "running" THEN "joined" ELSE d

\* Slip: no guard, so that `?` leaves the watchdog where it is.
XDropFrameByHand == /\ runtime' = "dropped" /\ tasks' = 0
                    /\ UNCHANGED <<dog, armed>>

\* The frame is left by a return: the guard, if it is still there, joins the
\* watchdog; the LocalSet goes, with its tasks and their sockets.
DropFrame == /\ dog' = Joined(dog)
             /\ runtime' = "dropped" /\ tasks' = 0
             /\ UNCHANGED armed

BuildFails == /\ pc = "spawned"
              /\ End("raised")
              /\ DropFrame
              /\ UNCHANGED <<gvlVars, cancelVars, killPending>>

\* The gap that _serve_native's comment leaves open: no destructor runs.
KilledAtStart == /\ pc \in {"spawned", "built"} /\ killPending
                 /\ End("killed")
                 /\ killPending' = FALSE
                 /\ UNCHANGED <<gvlVars, cancelVars, heldVars>>

-----------------------------------------------------------------------------
(***************************************************************************)
(* Inside without_gvl.                                                     *)
(***************************************************************************)
\* Itself a call into Ruby: what is pending is delivered first.
ReleaseGvl == /\ pc = "built" /\ ~killPending
              /\ pc' = "binding"
              /\ gvl' = FALSE /\ unblock' = TRUE
              /\ cancelBox' = "flag"
              /\ UNCHANGED <<failed, handler, cancel, askVars, heldVars, ended>>

Bind == /\ pc = "binding"
        /\ pc' = "serving"
        /\ UNCHANGED <<failed, handler, gvlVars, cancelVars, askVars, heldVars, ended>>

BindFails == /\ pc = "binding"
             /\ pc' = "left"
             /\ failed' = TRUE
             /\ UNCHANGED <<handler, gvlVars, cancelVars, askVars, heldVars, ended>>

\* The runtime polls: it drives serve or drain, and no handler runs.
Polling == pc \in {"serving", "draining"} /\ ~handler

\* Slip: the listener outlives the select!.
XListening == Polling

\* The listener belongs to serve's future, which the select! drops.
Listening == Polling /\ pc = "serving"

Accept == /\ Listening /\ tasks < MaxTasks
          /\ tasks' = tasks + 1
          /\ UNCHANGED <<pc, failed, handler, gvlVars, cancelVars, askVars,
                         dog, armed, runtime, ended>>

TaskEnds == /\ Polling /\ tasks > 0
            /\ tasks' = tasks - 1
            /\ UNCHANGED <<pc, failed, handler, gvlVars, cancelVars, askVars,
                           dog, armed, runtime, ended>>

\* with_gvl: Ruby forgets the unblock function for as long as it lasts.
Call == /\ Polling /\ tasks > 0
        /\ handler' = TRUE
        /\ gvl' = TRUE /\ unblock' = FALSE
        /\ armed' = TRUE
        /\ UNCHANGED <<pc, failed, cancelVars, askVars, dog, runtime, tasks, ended>>

Outcomes == {"response", "error", "panic"}

\* Slip: disarmed by hand behind the call, which a panic skips.
XDisarm(outcome) == armed' = (outcome = "panic")

\* _armed is dropped on every way out of `handle`; each but the first is a 500.
Disarm(outcome) == armed' = FALSE

HandlerEnds(outcome) ==
  /\ handler
  /\ handler' = FALSE
  /\ Disarm(outcome)
  /\ gvl' = FALSE /\ unblock' = TRUE
  /\ UNCHANGED <<pc, failed, cancelVars, shutdownRequested, dog, runtime, tasks, ended>>

CallReturns == \E outcome \in Outcomes : HandlerEnds(outcome) /\ UNCHANGED killPending

\* The kill is delivered in the app: it is an error of this request, and gone.
KillTaken == /\ killPending
             /\ HandlerEnds("error")
             /\ killPending' = FALSE

\* `cancelled` looks at both flags.
Cancelled == /\ Polling /\ pc = "serving"
             /\ cancel \/ shutdownRequested
             /\ pc' = "draining"
             /\ UNCHANGED <<failed, handler, gvlVars, cancelVars, askVars, heldVars, ended>>

\* Slip: drain waits for the connections, not for their requests or the time.
XDrainEndsEmpty == /\ Polling /\ pc = "draining" /\ tasks = 0
                   /\ pc' = "left"
                   /\ UNCHANGED <<failed, handler, gvlVars, cancelVars, askVars, heldVars, ended>>

\* No request is in flight, or the grace period is over.
DrainEnds == /\ Polling /\ pc = "draining"
             /\ pc' = "left"
             /\ UNCHANGED <<failed, handler, gvlVars, cancelVars, askVars, heldVars, ended>>

\* Slip: the guard is left to the end of _serve_native.
XLeaveGuard == UNCHANGED dog

DropGuard == dog' = Joined(dog)

LeaveClosure == /\ pc = "left"
                /\ pc' = "reacquiring"
                /\ DropGuard
                /\ UNCHANGED <<failed, handler, gvlVars, cancelVars, askVars,
                               armed, runtime, tasks, ended>>

-----------------------------------------------------------------------------
(***************************************************************************)
(* The end of without_gvl: the GVL is taken back, a checkpoint.            *)
(***************************************************************************)
Reacquire == pc = "reacquiring" /\ gvl' = TRUE /\ unblock' = FALSE

Return == /\ Reacquire /\ ~killPending
          /\ cancelBox' = "freed"
          /\ DropFrame
          /\ End(IF failed THEN "raised" ELSE "returned")
          /\ UNCHANGED <<cancel, killPending>>

\* A non-local exit: no destructor runs.
LeftByKill == /\ Reacquire /\ killPending
              /\ End("killed")
              /\ killPending' = FALSE
              /\ UNCHANGED <<cancelVars, heldVars>>

Ended == pc = "end" /\ UNCHANGED vars

-----------------------------------------------------------------------------
Starting == Refuse \/ SpawnWatchdog \/ BuildRuntime \/ BuildFails \/ KilledAtStart

Released == \/ ReleaseGvl \/ Bind \/ BindFails \/ Accept \/ TaskEnds
            \/ Call \/ CallReturns \/ KillTaken
            \/ Cancelled \/ DrainEnds \/ LeaveClosure

Next == Kill \/ Signal \/ Starting \/ Released \/ Return \/ LeftByKill \/ Ended

Spec == Init /\ [][Next]_vars

\* What the calling thread does by itself outside block_on.
Alone == \/ Starting \/ ReleaseGvl \/ Bind \/ BindFails
         \/ LeaveClosure \/ Return \/ LeftByKill

(***************************************************************************)
(* The calling thread runs and gets the GVL; a handler returns; the root   *)
(* future is polled again and again, though not during a handler.          *)
(***************************************************************************)
Fairness == /\ WF_vars(Alone) /\ WF_vars(CallReturns \/ KillTaken)
            /\ SF_vars(Cancelled) /\ SF_vars(DrainEnds)

FairSpec == Spec /\ Fairness

-----------------------------------------------------------------------------
\* What each variable holds.
TypeOK == /\ pc \in {"begin", "spawned", "built", "binding", "serving", "draining",
                     "left", "reacquiring", "end"}
          /\ {failed, handler, gvl, killPending, shutdownRequested, unblock, cancel, armed}
               \subseteq BOOLEAN
          /\ cancelBox \in {"none", "flag", "freed"}
          /\ dog \in {"none", "running", "joined"}
          /\ runtime \in {"none", "alive", "dropped"}
          /\ tasks \in 0..MaxTasks
          /\ ended \in {"no", "raised", "returned", "killed"}

(***************************************************************************)
(* Any way out of _serve_native that is a return, with a result or with an *)
(* error, gives back all the call holds: its watchdog thread, the runtime, *)
(* the connections and the flag of the unblock function.                   *)
(***************************************************************************)
ReleasedOnReturn ==
  ended \in {"returned", "raised"} => /\ dog # "running" /\ runtime # "alive"
                                      /\ tasks = 0 /\ cancelBox # "flag"

(***************************************************************************)
(* Once the call has released the GVL, a kill cannot leave its watchdog    *)
(* thread behind either: it is joined inside the closure, where a pending  *)
(* kill is not delivered.                                                  *)
(***************************************************************************)
WatchdogJoined == pc = "end" /\ cancelBox # "none" => dog = "joined"

(***************************************************************************)
(* The watchdog is armed for handler calls only, also after a handler has  *)
(* panicked, and what Ruby may call to unblock the thread points to a flag *)
(* that is still there.                                                    *)
(***************************************************************************)
CallsAreScoped == (armed => handler /\ gvl) /\ (unblock => ~gvl /\ cancelBox = "flag")

(***************************************************************************)
(* The comment in _serve_native: when drain is over, the LocalSet and its  *)
(* tasks are dropped.  So no connection outlives the call.                 *)
(***************************************************************************)
ConnectionsDropped == ended # "no" => tasks = 0

-----------------------------------------------------------------------------
(***************************************************************************)
(* What makes them inductive: what the call holds at each stage.           *)
(***************************************************************************)
InClosure == {"binding", "serving", "draining", "left", "reacquiring"}

HeldAt == /\ pc = "begin" => dog = "none"
          /\ pc \in {"spawned", "built"} \cup (InClosure \ {"reacquiring"}) => dog = "running"
          /\ pc = "reacquiring" => dog = "joined"
          /\ failed => pc \in {"left", "reacquiring", "end"}
          /\ pc \in {"begin", "spawned"} => runtime = "none"
          /\ pc \in {"begin", "spawned", "built"} => cancelBox = "none" /\ tasks = 0
          /\ pc \in InClosure => cancelBox = "flag"
          /\ (handler => pc \in {"serving", "draining"}) /\ (armed <=> handler)
          /\ gvl <=> pc \notin InClosure \/ handler
          /\ unblock <=> ~gvl
          /\ ended = "no" <=> pc # "end"

Inv == TypeOK /\ HeldAt /\ ReleasedOnReturn /\ WatchdogJoined /\ CallsAreScoped

-----------------------------------------------------------------------------
\* The run as ServerRun sees it; the frame around it is part of "starting".
Stage == CASE pc = "serving" -> "serving"
           [] pc = "end" -> IF ended = "killed" THEN "killed" ELSE "returned"
           [] pc \in {"draining", "left", "reacquiring"} /\ ~failed -> "draining"
           [] OTHER -> "starting"

Run == INSTANCE ServerRun
         WITH stage <- Stage, asked <- cancel \/ shutdownRequested, open <- 1..tasks

(***************************************************************************)
(* The frame implements the same ServerRun that serve and drain implement, *)
(* so that what a caller of _serve_native sees is one run: a panic, a kill *)
(* taken by a handler or a failed bind does not end it otherwise.          *)
(***************************************************************************)
RunSpec == Run!Spec

(***************************************************************************)
(* Once the unblock function has run, or the flag is set, _serve_native is *)
(* left, though a handler may have taken the kill, or have the GVL when    *)
(* the flag is set, and though connections may stay open for ever.         *)
(***************************************************************************)
RunCompletes == Run!Completes
=============================================================================
