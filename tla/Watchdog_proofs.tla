--------------------------- MODULE Watchdog_proofs ---------------------------
(***************************************************************************)
(* Proofs about Watchdog, for any number of requests: no wakeup is lost,   *)
(* each late request is charged, and once only, stopping the server joins  *)
(* the thread, and the two threads implement PreemptionSignal.             *)
(***************************************************************************)
EXTENDS Watchdog, TLAPS

LEMMA InvInit == Init => Inv
<1> SUFFICES ASSUME Init PROVE Inv
    OBVIOUS
<1> USE MaxRequestsAssumption DEF Init
<1>1. due \in BOOLEAN /\ pendingJob \in BOOLEAN
  OBVIOUS
<1>2. dog \in DogPCs /\ server \in ServerPCs
  BY DEF DogPCs, ServerPCs
<1>3. TypeOK
  BY <1>1, <1>2 DEF TypeOK
<1>4. NoLostWakeup /\ StateFollowsServer /\ GenerationsMove
  BY DEF NoLostWakeup, StateFollowsServer, GenerationsMove
<1>5. Charged = 0 /\ Uncharged = 0 /\ InTime = 0
  BY DEF Charged, Uncharged, InTime
<1>6. ChargedOncePerLateRequest /\ Accounts
  BY <1>5 DEF ChargedOncePerLateRequest, Accounts
<1> QED
  BY <1>3, <1>4, <1>6 DEF Inv

LEMMA InvNext == Inv /\ [Next]_vars => Inv'
<1> SUFFICES ASSUME Inv, [Next]_vars PROVE Inv'
    OBVIOUS
<1> USE MaxRequestsAssumption
<1> USE DEF Inv, TypeOK, NoLostWakeup, ChargedOncePerLateRequest, StateFollowsServer,
        GenerationsMove, Accounts, Charged, Uncharged, InTime, DogPCs, ServerPCs,
        Waiting, Notifying, mutexVars, jobVars
<1>1. CASE Arm
  <2>1. due' = FALSE /\ due' \in BOOLEAN
    BY <1>1 DEF Arm, SetState
  <2>2. firedGeneration < gen'
    BY <1>1 DEF Arm
  <2> QED
    BY <1>1, <2>1, <2>2 DEF Arm, SetState
<1>2. CASE Disarm
  <2>1. due' = FALSE /\ due' \in BOOLEAN
    BY <1>2 DEF Disarm, SetState
  <2> QED
    BY <1>2, <2>1 DEF Disarm, SetState
<1>3. CASE Shutdown
  <2>1. due' = FALSE /\ due' \in BOOLEAN
    BY <1>3 DEF Shutdown, SetState
  <2> QED
    BY <1>3, <2>1 DEF Shutdown, SetState
<1>4. CASE Notify
  BY <1>4 DEF Notify, WakeOne, Resume, AfterNotify
<1>5. CASE Join
  BY <1>5 DEF Join
<1>6. CASE Expire
  BY <1>6 DEF Expire
<1>7. CASE Match
  BY <1>7 DEF Match
<1>8. CASE WaitTimesOut
  BY <1>8 DEF WaitTimesOut
<1>9. CASE SpuriousWakeup
  BY <1>9 DEF SpuriousWakeup, Resume
<1>10. CASE Fire
  BY <1>10 DEF Fire
<1>11. CASE Relock
  BY <1>11 DEF Relock, NextAfterFire
<1>12. CASE PostponedJob
  <2>1. pendingJob = TRUE /\ pendingJob' = FALSE /\ pendingJob' \in BOOLEAN
    BY <1>12 DEF PostponedJob
  <2> QED
    BY <1>12, <2>1 DEF PostponedJob
<1>13. CASE Joined \/ UNCHANGED vars
  BY <1>13 DEF Joined, vars
<1> QED
  BY <1>1, <1>2, <1>3, <1>4, <1>5, <1>6, <1>7, <1>8, <1>9, <1>10, <1>11, <1>12, <1>13
  DEF Next, DogStep, ServerStep

(***************************************************************************)
(* The inductive invariant holds in every reachable state.                 *)
(***************************************************************************)
THEOREM Invariance == Spec => []Inv
BY InvInit, InvNext, PTL DEF Spec

(***************************************************************************)
(* Types, which bound the calls into Ruby by the requests.                 *)
(***************************************************************************)
THEOREM TypeCorrect == Spec => []TypeOK
<1>1. Inv => TypeOK
  BY DEF Inv
<1> QED
  BY Invariance, <1>1, PTL

(***************************************************************************)
(* The thread never sleeps through an arm, a disarm or the shutdown.       *)
(***************************************************************************)
THEOREM WakeupsAreNotLost == Spec => []NoLostWakeup
<1>1. Inv => NoLostWakeup
  BY DEF Inv
<1> QED
  BY Invariance, <1>1, PTL

(***************************************************************************)
(* Each request that outlives its slice is charged at most once, and no    *)
(* other request is.                                                       *)
(***************************************************************************)
THEOREM ChargedAtMostOnce == Spec => []ChargedOncePerLateRequest
<1>1. Inv => ChargedOncePerLateRequest
  BY DEF Inv
<1> QED
  BY Invariance, <1>1, PTL

-----------------------------------------------------------------------------
(***************************************************************************)
(* Refinement.                                                             *)
(***************************************************************************)
LEMMA SignalInit == Init => Signal!Init
BY DEF Init, Signal!Init

LEMMA SignalNext == Inv /\ [Next]_vars => [Signal!Next]_(Signal!vars)
<1> SUFFICES ASSUME Inv, [Next]_vars PROVE [Signal!Next]_(Signal!vars)
    OBVIOUS
<1> USE DEF Signal!Next, Signal!vars, Inv, TypeOK, StateFollowsServer, GenerationsMove,
        mutexVars, jobVars
<1>1. CASE Arm
  BY <1>1 DEF Arm, SetState, Signal!Begin
<1>2. CASE Disarm
  BY <1>2 DEF Disarm, SetState, Signal!End
<1>3. CASE Shutdown
  BY <1>3 DEF Shutdown, SetState
<1>4. CASE Notify
  BY <1>4 DEF Notify, WakeOne, Resume, AfterNotify, Waiting, Notifying
<1>5. CASE Join
  BY <1>5 DEF Join, Signal!Stop
<1>6. CASE Expire
  BY <1>6 DEF Expire, Signal!Expire
<1>7. CASE Match
  BY <1>7 DEF Match, Signal!Charge
<1>8. CASE WaitTimesOut \/ SpuriousWakeup \/ Relock
  BY <1>8 DEF WaitTimesOut, SpuriousWakeup, Relock, Resume, NextAfterFire, Waiting
<1>9. CASE Fire
  BY <1>9 DEF Fire, Signal!Trigger
<1>10. CASE PostponedJob \/ Joined \/ UNCHANGED vars
  BY <1>10 DEF PostponedJob, Joined, vars
<1> QED
  BY <1>1, <1>2, <1>3, <1>4, <1>5, <1>6, <1>7, <1>8, <1>9, <1>10
  DEF Next, DogStep, ServerStep

(***************************************************************************)
(* The watchdog thread and the thread it watches implement the abstract    *)
(* signal: one trigger for each late request, none for the others.         *)
(***************************************************************************)
THEOREM ImplementsSignal == Spec => SignalSpec
BY SignalInit, SignalNext, Invariance, PTL DEF Spec, SignalSpec, Signal!Spec

-----------------------------------------------------------------------------
(***************************************************************************)
(* Liveness.  The prover has no rules for ENABLED; GuardsEnable says what  *)
(* reading the guards shows, that a thread which is awake, or which waits  *)
(* no longer, can take a step.                                             *)
(***************************************************************************)
\* The watchdog thread is runnable.
DogReady == \/ dog \in {"match", "fire", "relock"}
            \/ dog = "wait_timeout" /\ (state = "armed" => due = TRUE)

\* So is the serving thread, with a notify or a join to finish.
ServerReady == server \in Notifying \/ (server = "join" /\ dog = "done")

GuardsEnable == /\ [](DogReady => ENABLED <<DogStep>>_vars)
                /\ [](ServerReady => ENABLED <<ServerStep>>_vars)

\* What the watchdog thread may do while it is joined.
LEMMA JoinStep ==
  ASSUME Inv, server = "join", [Next]_vars
  PROVE  /\ server' = "join" \/ (dog = "done" /\ server' = "joined")
         /\ dog = "done" => dog' = "done"
         /\ dog = "match" => dog' \in {"match", "done"}
         /\ dog = "wait_timeout" => dog' \in {"wait_timeout", "match"}
         /\ dog = "relock" => dog' \in {"relock", "match"}
         /\ dog = "fire" => dog' \in {"fire", "relock"}
         /\ <<DogStep>>_vars => dog' # dog
         /\ <<ServerStep>>_vars => server' = "joined"
BY DEF Inv, TypeOK, StateFollowsServer, GenerationsMove, Next, vars, mutexVars, jobVars,
       Arm, Disarm, Shutdown, Notify, Join, Expire, Match, WaitTimesOut, SpuriousWakeup, Fire,
       Relock, PostponedJob, Joined, DogStep, ServerStep, Resume, NextAfterFire, Waiting,
       Notifying

LEMMA JoinDog ==
  Inv /\ server = "join" => dog \in {"done", "match", "wait_timeout", "relock", "fire"}
BY DEF Inv, TypeOK, DogPCs, Waiting, NoLostWakeup, Notifying, StateFollowsServer

(***************************************************************************)
(* Stopping the server does not hang: shutdown wakes the watchdog if it    *)
(* waits without a timeout, the timeout it may wait with elapses, and in   *)
(* whatever state it is it comes to the match that finds Shutdown.         *)
(***************************************************************************)
THEOREM JoinIsReached == FairSpec /\ GuardsEnable => JoinReturns
<1> DEFINE Fires == server = "join" /\ dog = "fire"
           Relocks == server = "join" /\ dog = "relock"
           Waits == server = "join" /\ dog = "wait_timeout"
           Matches == server = "join" /\ dog = "match"
           Dones == server = "join" /\ dog = "done"
<1>1. Inv /\ [Next]_vars =>
        /\ Fires => Fires' \/ Relocks'
        /\ Relocks => Relocks' \/ Matches'
        /\ Waits => Waits' \/ Matches'
        /\ Matches => Matches' \/ Dones'
        /\ Dones => Dones' \/ (server = "joined")'
  BY JoinStep
<1>2. Inv /\ [Next]_vars /\ <<DogStep>>_vars =>
        /\ Fires => ~Fires'
        /\ Relocks => ~Relocks'
        /\ Waits => ~Waits'
        /\ Matches => ~Matches'
  BY JoinStep
<1>3. Inv /\ [Next]_vars /\ <<ServerStep>>_vars /\ Dones => (server = "joined")'
  BY JoinStep
<1>4. Fires \/ Relocks \/ Matches => DogReady
  BY DEF DogReady
<1>5. Inv /\ Waits => DogReady
  BY DEF DogReady, Inv, StateFollowsServer
<1>6. Dones => ServerReady
  BY DEF ServerReady
<1>7. Inv /\ server = "join" => Fires \/ Relocks \/ Waits \/ Matches \/ Dones
  BY JoinDog
<1> HIDE DEF Fires, Relocks, Waits, Matches, Dones
<1> QED
  BY <1>1, <1>2, <1>3, <1>4, <1>5, <1>6, <1>7, Invariance, PTL
  DEF FairSpec, Spec, GuardsEnable, JoinReturns

\* Every step of the watchdog thread takes it elsewhere.
LEMMA DogMoves == DogStep => dog' # dog /\ UNCHANGED <<mutexVars, server>>
BY DEF DogStep, Match, WaitTimesOut, Fire, Relock, NextAfterFire

\* While a request runs the serving thread has at most its notify to do.
LEMMA NotifyOfArm == Inv /\ state = "armed" /\ ServerStep => Notify /\ server' = "call"
BY DEF Inv, StateFollowsServer, ServerStep, Notify, Join, Notifying, AfterNotify

\* What the two threads may do while a late request g is not charged.
LEMMA LateStep ==
  ASSUME Inv, NEW g, state = "armed", due = TRUE, gen = g, firedGeneration # g, [Next]_vars
  PROVE  \/ gen' # g \/ firedGeneration' = g
         \/ /\ state' = "armed" /\ due' = TRUE /\ gen' = g /\ firedGeneration' # g
            /\ dog \in {"wait_idle", "wait_timeout"} => dog' \in {dog, "match"}
            /\ dog = "wait_generation" => dog' \in {dog, "relock"}
            /\ dog = "fire" => dog' \in {dog, "relock"}
            /\ dog = "relock" => dog' \in {dog, "match"}
            /\ dog = "match" => dog' = dog
<1>1. CASE Arm \/ Disarm \/ Shutdown
  BY <1>1, MaxRequestsAssumption
  DEF Inv, TypeOK, StateFollowsServer, Arm, Disarm, Shutdown
<1>2. CASE Expire \/ PostponedJob \/ Joined \/ UNCHANGED vars
  BY <1>2 DEF Expire, PostponedJob, Joined, vars, mutexVars
<1>3. CASE ServerStep
  BY <1>3, NotifyOfArm DEF Notify, WakeOne, Resume, Waiting, mutexVars
<1>4. CASE DogStep \/ SpuriousWakeup
  BY <1>4 DEF DogStep, SpuriousWakeup, Match, WaitTimesOut, Fire,
     Relock, NextAfterFire, Resume, Waiting, mutexVars
<1> QED
  BY <1>1, <1>2, <1>3, <1>4 DEF Next

LEMMA LateDog ==
  ASSUME Inv, state = "armed", due = TRUE, firedGeneration # gen
  PROVE  \/ dog \in {"match", "wait_timeout", "relock", "fire"} /\ DogReady
         \/ dog \in {"wait_idle", "wait_generation"} /\ ServerReady
BY DEF Inv, TypeOK, DogPCs, Waiting, NoLostWakeup, GenerationsMove, StateFollowsServer,
       DogReady, ServerReady

(***************************************************************************)
(* A request that is still running past its slice is charged: if the       *)
(* watchdog sleeps, the notify of its arm is still to come, and from every *)
(* other place the thread comes to fire, unless the request is disarmed.   *)
(***************************************************************************)
THEOREM LateRequestsAreCharged == FairSpec /\ GuardsEnable => LateIsCharged
<1> SUFFICES ASSUME NEW g \in 1..(2 * MaxRequests)
             PROVE  FairSpec /\ GuardsEnable =>
                      ((state = "armed" /\ due /\ gen = g) ~> (firedGeneration = g \/ gen # g))
    BY DEF LateIsCharged
<1> DEFINE Late == state = "armed" /\ due = TRUE /\ gen = g /\ firedGeneration # g
           Settled == firedGeneration = g \/ gen # g
           Asleep == Late /\ dog \in {"wait_idle", "wait_generation"}
           Fires == Late /\ dog = "fire"
           Relocks == Late /\ dog = "relock"
           Waits == Late /\ dog = "wait_timeout"
           Matches == Late /\ dog = "match"
<1>1. Inv /\ [Next]_vars =>
        /\ Asleep => Asleep' \/ Relocks' \/ Matches' \/ Settled'
        /\ Fires => Fires' \/ Relocks' \/ Settled'
        /\ Relocks => Relocks' \/ Matches' \/ Settled'
        /\ Waits => Waits' \/ Matches' \/ Settled'
        /\ Matches => Matches' \/ Settled'
  BY LateStep
<1>2. Inv /\ [Next]_vars /\ <<DogStep>>_vars =>
        /\ Fires => ~Fires'
        /\ Relocks => ~Relocks'
        /\ Waits => ~Waits'
        /\ Matches => ~Matches'
  BY DogMoves
<1>3. Inv /\ [Next]_vars /\ <<ServerStep>>_vars => ~Asleep \/ ~Asleep'
  BY NotifyOfArm DEF Notify, WakeOne, Resume, Waiting
<1>4. Inv /\ Asleep => ServerReady
  BY LateDog
<1>5. Inv /\ (Fires \/ Relocks \/ Waits \/ Matches) => DogReady
  BY LateDog
<1>6. Inv /\ state = "armed" /\ due /\ gen = g =>
        Asleep \/ Fires \/ Relocks \/ Waits \/ Matches \/ Settled
  <2>1. Inv => due \in BOOLEAN
    BY DEF Inv, TypeOK
  <2> QED
    BY <2>1, LateDog
<1> HIDE DEF Late, Settled, Asleep, Fires, Relocks, Waits, Matches
<1>7. FairSpec /\ GuardsEnable => ((state = "armed" /\ due /\ gen = g) ~> Settled)
  BY <1>1, <1>2, <1>3, <1>4, <1>5, <1>6, Invariance, PTL DEF FairSpec, Spec, GuardsEnable
<1> QED
  BY <1>7 DEF Settled
=============================================================================
