------------------------------ MODULE Watchdog ------------------------------
(***************************************************************************)
(* The preemption watchdog (mod watchdog of the extension): an OS thread   *)
(* that sleeps on a Condvar until the request the serving thread armed it  *)
(* for outlives its slice, and then triggers a postponed job in Ruby.      *)
(*                                                                         *)
(* A step is what a thread does between taking the mutex and releasing it  *)
(* (a wait releases it and joins the wait set in one step); the notify,    *)
(* which the code sends after unlocking, and the trigger, which it sends   *)
(* unlocked, are steps of their own.  A wait may end without a notify.     *)
(***************************************************************************)
EXTENDS Naturals

CONSTANT MaxRequests    \* bound: requests the server arms the watchdog for

ASSUME MaxRequestsAssumption == MaxRequests \in Nat

VARIABLES
  state,            \* State::{Idle, Armed, Shutdown}
  gen,              \* generation, under the mutex with state
  due,              \* now >= deadline of the Armed state
  dog,              \* the watchdog thread: the point of `run` it is at
  firedGeneration,  \* fired_generation of its last fire, 0 before the first
  server,           \* the serving thread
  requests,         \* requests armed so far
  lates,            \* of those, the ones that outlived their slice
  triggers,         \* rb_postponed_job_trigger calls so far
  pendingJob,       \* the job is triggered and has not run
  jobs              \* POSTPONED_JOB_COUNT

mutexVars == <<state, gen, due>>
jobVars == <<triggers, pendingJob, jobs>>
vars == <<mutexVars, dog, firedGeneration, server, requests, lates, jobVars>>

\* In the wait set of the Condvar: in the Idle wait, the wait_timeout, or the
\* wait for the generation to move on after a fire.
Waiting == {"wait_idle", "wait_timeout", "wait_generation"}

DogPCs == Waiting \cup {"match", "fire", "relock", "done"}

\* The serving thread has changed the state and not notified yet.
Notifying == {"notify_arm", "notify_disarm", "notify_shutdown"}

ServerPCs == Notifying \cup {"between", "call", "join", "joined"}

Init == /\ state = "idle" /\ gen = 0 /\ due = FALSE
        /\ dog = "match" /\ firedGeneration = 0
        /\ server = "between" /\ requests = 0 /\ lates = 0
        /\ triggers = 0 /\ pendingJob = FALSE /\ jobs = 0

-----------------------------------------------------------------------------
(***************************************************************************)
(* The serving thread: arm around Handler::call, shut down and join when   *)
(* the server is done (never during a call: there is one serving thread).  *)
(***************************************************************************)
SetState(s) == state' = s /\ due' = FALSE

Arm == /\ server = "between"
       /\ requests < MaxRequests
       /\ SetState("armed")
       /\ gen' = gen + 1
       /\ requests' = requests + 1
       /\ server' = "notify_arm"
       /\ UNCHANGED <<dog, firedGeneration, lates, jobVars>>

\* Slip: only arm moves the generation.
XDisarmKeepsGeneration ==
  /\ server = "call"
  /\ SetState("idle")
  /\ server' = "notify_disarm"
  /\ UNCHANGED <<gen, dog, firedGeneration, requests, lates, jobVars>>

Disarm == /\ server = "call"
          /\ SetState("idle")
          /\ gen' = gen + 1
          /\ server' = "notify_disarm"
          /\ UNCHANGED <<dog, firedGeneration, requests, lates, jobVars>>

\* The generation stays: the thread is told by the state alone.
Shutdown == /\ server = "between"
            /\ SetState("shutdown")
            /\ server' = "notify_shutdown"
            /\ UNCHANGED <<gen, dog, firedGeneration, requests, lates, jobVars>>

\* Slip: the wait after a fire is not in a loop that checks the generation.
XResumeAtMatch == "match"

\* Where a wait resumes once it has the mutex again.
Resume == IF dog = "wait_generation" THEN "relock" ELSE "match"

\* Slip: the state changes without a notify.
XWakeNone == UNCHANGED dog

\* notify_one wakes a thread that waits and is lost on one that does not.
WakeOne == dog' = IF dog \in Waiting THEN Resume ELSE dog

AfterNotify == [notify_arm |-> "call", notify_disarm |-> "between",
                notify_shutdown |-> "join"]

Notify == /\ server \in Notifying
          /\ WakeOne
          /\ server' = AfterNotify[server]
          /\ UNCHANGED <<mutexVars, firedGeneration, requests, lates, jobVars>>

Join == /\ server = "join"
        /\ dog = "done"
        /\ server' = "joined"
        /\ UNCHANGED <<mutexVars, dog, firedGeneration, requests, lates, jobVars>>

\* The slice of the armed request runs out.
Expire == /\ state = "armed" /\ ~due
          /\ due' = TRUE
          /\ lates' = lates + 1
          /\ UNCHANGED <<state, gen, dog, firedGeneration, server, requests, jobVars>>

-----------------------------------------------------------------------------
(***************************************************************************)
(* The watchdog thread.                                                    *)
(***************************************************************************)
\* The match at the top of the loop.
Match == /\ dog = "match"
         /\ \/ state = "shutdown" /\ dog' = "done" /\ UNCHANGED firedGeneration
            \/ state = "idle" /\ dog' = "wait_idle" /\ UNCHANGED firedGeneration
            \/ state = "armed" /\ ~due /\ dog' = "wait_timeout" /\ UNCHANGED firedGeneration
            \/ state = "armed" /\ due /\ dog' = "fire" /\ firedGeneration' = gen
         /\ UNCHANGED <<mutexVars, server, requests, lates, jobVars>>

WaitTimesOut == /\ dog = "wait_timeout"
                /\ state = "armed" => due
                /\ dog' = "match"
                /\ UNCHANGED <<mutexVars, firedGeneration, server, requests, lates, jobVars>>

SpuriousWakeup == /\ dog \in Waiting
                  /\ dog' = Resume
                  /\ UNCHANGED <<mutexVars, firedGeneration, server, requests, lates, jobVars>>

\* Without the mutex, without the GVL; triggering a pending job changes nothing.
Fire == /\ dog = "fire"
        /\ triggers' = triggers + 1
        /\ pendingJob' = TRUE
        /\ dog' = "relock"
        /\ UNCHANGED <<mutexVars, firedGeneration, server, requests, lates, jobs>>

\* Slip: the thread waits after a fire without looking at the generation.
XAlwaysWaits == "wait_generation"

\* After the fire, and after every wakeup from the wait that may follow it.
NextAfterFire == IF gen = firedGeneration THEN "wait_generation" ELSE "match"

Relock == /\ dog = "relock"
          /\ dog' = NextAfterFire
          /\ UNCHANGED <<mutexVars, firedGeneration, server, requests, lates, jobVars>>

-----------------------------------------------------------------------------
\* Ruby runs the callback at an interrupt checkpoint of any of its threads.
PostponedJob == /\ pendingJob
                /\ pendingJob' = FALSE
                /\ jobs' = jobs + 1
                /\ UNCHANGED <<mutexVars, dog, firedGeneration, server, requests, lates, triggers>>

\* _serve_native has joined the thread and returns.
Joined == server = "joined" /\ UNCHANGED vars

DogStep == Match \/ WaitTimesOut \/ Fire \/ Relock

ServerStep == Notify \/ Join

Next == DogStep \/ SpuriousWakeup \/ ServerStep \/ Arm \/ Disarm \/ Shutdown \/ Expire
        \/ PostponedJob \/ Joined

Spec == Init /\ [][Next]_vars

\* The OS runs both threads and a timed wait ends.  Nothing is assumed of when
\* requests come, whether they end, or when the server stops.
FairSpec == Spec /\ WF_vars(DogStep) /\ WF_vars(ServerStep)

-----------------------------------------------------------------------------
TypeOK == /\ state \in {"idle", "armed", "shutdown"}
          /\ gen \in 0..(2 * MaxRequests) /\ due \in BOOLEAN
          /\ dog \in DogPCs /\ firedGeneration \in 0..(2 * MaxRequests)
          /\ server \in ServerPCs
          /\ requests \in 0..MaxRequests /\ lates \in 0..requests
          /\ triggers \in 0..requests /\ pendingJob \in BOOLEAN /\ jobs \in 0..requests

(***************************************************************************)
(* No wakeup is lost: the thread sleeps without a deadline only while      *)
(* there is nothing for it to do, or the notify that tells it is still to  *)
(* come.  (Notifies are sent after unlocking and are lost on a thread that *)
(* does not wait; what saves it is that it looks at the state, and after a *)
(* fire at the generation, under the mutex before it waits.)               *)
(***************************************************************************)
NoLostWakeup ==
  server \notin Notifying =>
    /\ dog = "wait_idle" => state = "idle"
    /\ dog = "wait_generation" => state = "armed" /\ gen = firedGeneration

Charged == IF dog = "fire" THEN 1 ELSE 0

(***************************************************************************)
(* Only requests that outlive their slice are charged, each at most once,  *)
(* in spite of spurious wakeups and of a trigger that is sent unlocked: a  *)
(* fast request never moves _postponed_job_count, whatever runs before it. *)
(***************************************************************************)
ChargedOncePerLateRequest ==
  /\ triggers + Charged <= lates
  /\ jobs + (IF pendingJob THEN 1 ELSE 0) <= triggers

(***************************************************************************)
(* A request that is still running past its slice is charged.              *)
(***************************************************************************)
LateIsCharged ==
  \A g \in 1..(2 * MaxRequests) :
    (state = "armed" /\ due /\ gen = g) ~> (firedGeneration = g \/ gen # g)

(***************************************************************************)
(* Stopping the server never hangs: shutdown, which unlike arm and disarm  *)
(* does not move the generation, always ends the thread that is joined.    *)
(***************************************************************************)
JoinReturns == (server = "join") ~> (server = "joined")

-----------------------------------------------------------------------------
(***************************************************************************)
(* The inductive invariant.                                                *)
(***************************************************************************)
\* The state follows the serving thread, which alone writes it.
StateFollowsServer ==
  /\ state = "armed" <=> server \in {"notify_arm", "call"}
  /\ state = "idle" <=> server \in {"notify_disarm", "between"}
  /\ state # "armed" => due = FALSE

\* Only an armed period is fired for, once it is late, and then not again.
GenerationsMove ==
  /\ gen = 2 * requests - (IF state = "armed" THEN 1 ELSE 0)
  /\ firedGeneration <= gen
  /\ firedGeneration = gen => gen = 0 \/ (state = "armed" /\ due = TRUE)
  /\ dog \in {"match", "wait_idle", "wait_timeout"} /\ state = "armed" =>
       firedGeneration # gen
  /\ dog \in {"fire", "relock", "wait_generation"} => firedGeneration # 0
  /\ dog = "done" => state = "shutdown"

\* The late requests that are not charged yet are at most the current one.
Uncharged == IF state = "armed" /\ due = TRUE /\ firedGeneration # gen THEN 1 ELSE 0
InTime == IF state = "armed" /\ due = FALSE THEN 1 ELSE 0

Accounts == /\ triggers + Charged + Uncharged <= lates
            /\ lates + InTime <= requests

(***************************************************************************)
(* What makes NoLostWakeup and ChargedOncePerLateRequest inductive: who    *)
(* moves the state and the generation, and that a fire moves the account   *)
(* of one late request from Uncharged to Charged.                          *)
(***************************************************************************)
Inv == /\ TypeOK /\ NoLostWakeup /\ ChargedOncePerLateRequest
       /\ StateFollowsServer /\ GenerationsMove /\ Accounts

-----------------------------------------------------------------------------
Signal == INSTANCE PreemptionSignal
            WITH alive <- server # "joined",
                 open <- state = "armed",
                 late <- due,
                 charged <- state = "armed" /\ firedGeneration = gen,
                 trigger <- dog = "fire"

(***************************************************************************)
(* The two threads implement PreemptionSignal.                             *)
(***************************************************************************)
SignalSpec == Signal!Spec
=============================================================================
