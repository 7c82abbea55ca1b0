------------------------- MODULE ServeNative_proofs -------------------------
(***************************************************************************)
(* Proofs about ServeNative, for any number of connections: what a return  *)
(* gives back, that the watchdog is joined, that no flag the unblock       *)
(* function may write to has been freed, and that a call that is asked to  *)
(* stop does.                                                              *)
(***************************************************************************)
EXTENDS ServeNative, TLAPS

LEMMA NoTasks == 0 \in 0..MaxTasks
  BY MaxTasksAssumption

LEMMA InvInit == Init => Inv
<1> SUFFICES ASSUME Init PROVE Inv
    OBVIOUS
<1>1. TypeOK
  BY NoTasks DEF Init, TypeOK
<1>2. HeldAt
  BY DEF Init, HeldAt, InClosure
<1>3. ReleasedOnReturn /\ WatchdogJoined /\ CallsAreScoped
  BY DEF Init, ReleasedOnReturn, WatchdogJoined, CallsAreScoped
<1> QED
  BY <1>1, <1>2, <1>3 DEF Inv

\* The invariant in one piece, for the steps below.
LEMMA InvNext == Inv /\ [Next]_vars => Inv'
<1> SUFFICES ASSUME Inv, [Next]_vars PROVE Inv'
    OBVIOUS
<1> USE MaxTasksAssumption
<1> USE DEF Inv, TypeOK, HeldAt, InClosure, ReleasedOnReturn, WatchdogJoined, CallsAreScoped,
        gvlVars, cancelVars, askVars, heldVars
\* Others.
<1>1. CASE Kill
  <2>1. cancel' \in BOOLEAN
    BY <1>1 DEF Kill
  <2> QED
    BY <1>1, <2>1 DEF Kill
<1>2. CASE Signal
  BY <1>2 DEF Signal
\* Up to without_gvl.
<1>3. CASE Starting
  <2>1. CASE Refuse
    BY <2>1 DEF Refuse, End
  <2>2. CASE SpawnWatchdog
    BY <2>2 DEF SpawnWatchdog
  <2>3. CASE BuildRuntime
    BY <2>3 DEF BuildRuntime
  <2>4. CASE BuildFails
    BY <2>4, NoTasks DEF BuildFails, DropFrame, Joined, End
  <2>5. CASE KilledAtStart
    BY <2>5 DEF KilledAtStart, End
  <2> QED
    BY <1>3, <2>1, <2>2, <2>3, <2>4, <2>5 DEF Starting
\* Inside without_gvl.
<1>4. CASE Released
  <2>1. CASE ReleaseGvl
    BY <2>1 DEF ReleaseGvl
  <2>2. CASE Bind \/ BindFails
    <3>1. failed' \in BOOLEAN /\ pc' \in {"serving", "left"} /\ pc = "binding"
      BY <2>2 DEF Bind, BindFails
    <3> QED
      BY <2>2, <3>1 DEF Bind, BindFails
  <2>3. CASE Accept \/ TaskEnds
    <3>1. tasks' \in 0..MaxTasks
      BY <2>3 DEF Accept, TaskEnds
    <3> QED
      BY <2>3, <3>1 DEF Accept, TaskEnds, Listening, Polling
  <2>4. CASE Call
    BY <2>4 DEF Call, Polling
  <2>5. CASE CallReturns
    <3>1. /\ handler /\ ~handler' /\ ~armed' /\ ~gvl' /\ unblock'
          /\ {handler', armed', gvl', unblock'} \subseteq BOOLEAN
          /\ UNCHANGED <<pc, failed, cancelVars, askVars, dog, runtime, tasks, ended>>
      BY <2>5 DEF CallReturns, HandlerEnds, Disarm
    <3> QED
      BY <3>1
  <2>6. CASE KillTaken
    BY <2>6 DEF KillTaken, HandlerEnds, Disarm
  <2>7. CASE Cancelled \/ DrainEnds
    BY <2>7 DEF Cancelled, DrainEnds, Polling
  <2>8. CASE LeaveClosure
    BY <2>8 DEF LeaveClosure, DropGuard, Joined
  <2> QED
    BY <1>4, <2>1, <2>2, <2>3, <2>4, <2>5, <2>6, <2>7, <2>8 DEF Released
\* The end.
<1>5. CASE Return
  <2>1. ended' \in {"raised", "returned"}
    BY <1>5 DEF Return, End
  <2> QED
    BY <1>5, <2>1, NoTasks DEF Return, Reacquire, DropFrame, Joined, End
<1>6. CASE LeftByKill
  BY <1>6 DEF LeftByKill, Reacquire, End
<1>7. CASE Ended \/ UNCHANGED vars
  BY <1>7 DEF Ended, vars
<1> QED
  BY <1>1, <1>2, <1>3, <1>4, <1>5, <1>6, <1>7 DEF Next

(***************************************************************************)
(* The inductive invariant: what the call holds at each stage.             *)
(***************************************************************************)
THEOREM Invariance == Spec => []Inv
BY InvInit, InvNext, PTL DEF Spec

(***************************************************************************)
(* A return of _serve_native, with a result or an error, has given back    *)
(* everything the call held.                                               *)
(***************************************************************************)
THEOREM ReturnsRelease == Spec => []ReleasedOnReturn
<1>1. Inv => ReleasedOnReturn
  BY DEF Inv
<1> QED
  BY Invariance, <1>1, PTL

(***************************************************************************)
(* From the release of the GVL on, no way out of _serve_native leaves the  *)
(* watchdog thread behind, Thread#kill included.                           *)
(***************************************************************************)
THEOREM WatchdogIsJoined == Spec => []WatchdogJoined
<1>1. Inv => WatchdogJoined
  BY DEF Inv
<1> QED
  BY Invariance, <1>1, PTL

(***************************************************************************)
(* The watchdog is armed in handler calls only, and the unblock function   *)
(* never writes to a freed flag.                                           *)
(***************************************************************************)
THEOREM CallsScoped == Spec => []CallsAreScoped
<1>1. Inv => CallsAreScoped
  BY DEF Inv
<1> QED
  BY Invariance, <1>1, PTL

-----------------------------------------------------------------------------
(***************************************************************************)
(* ServeNative implements ServerRun: every step is one of its actions or   *)
(* leaves what it sees alone.                                              *)
(***************************************************************************)
\* Where Stage stands, without the CASE.
LEMMA Stages ==
  /\ pc = "serving" => Stage = "serving"
  /\ pc = "end" => Stage = IF ended = "killed" THEN "killed" ELSE "returned"
  /\ pc \in {"draining", "left", "reacquiring"} /\ ~failed => Stage = "draining"
  /\ pc \in {"begin", "spawned", "built", "binding"} => Stage = "starting"
  /\ pc \in {"left", "reacquiring"} /\ failed => Stage = "starting"
BY DEF Stage

LEMMA StagesNext ==
  /\ pc' = "serving" => Stage' = "serving"
  /\ pc' = "end" => Stage' = IF ended' = "killed" THEN "killed" ELSE "returned"
  /\ pc' \in {"draining", "left", "reacquiring"} /\ ~failed' => Stage' = "draining"
  /\ pc' \in {"begin", "spawned", "built", "binding"} => Stage' = "starting"
  /\ pc' \in {"left", "reacquiring"} /\ failed' => Stage' = "starting"
BY DEF Stage

LEMMA RunInit == Init => Run!Init
<1> SUFFICES ASSUME Init PROVE Run!Init
    OBVIOUS
<1>1. Stage = "starting" /\ (cancel \/ shutdownRequested) = FALSE
  BY Stages DEF Init
<1>2. 1..tasks = {}
  BY DEF Init
<1> QED
  BY <1>1, <1>2 DEF Run!Init

LEMMA RunNext == Inv /\ [Next]_vars => [Run!Next]_(Run!vars)
<1> SUFFICES ASSUME Inv, [Next]_vars PROVE [Run!Next]_(Run!vars)
    OBVIOUS
<1> USE DEF gvlVars, cancelVars, askVars, heldVars
\* The steps that ServerRun does not see.
<1>1. ASSUME UNCHANGED <<Stage, cancel, shutdownRequested, tasks>>
      PROVE  UNCHANGED Run!vars
  BY <1>1 DEF Run!vars
<1>2. CASE Kill \/ Signal
  <2>1. UNCHANGED <<pc, failed, ended, tasks>>
    BY <1>2 DEF Kill, Signal
  <2>2. UNCHANGED Stage
    BY <2>1 DEF Stage
  <2>3. (cancel' \/ shutdownRequested') = TRUE \/ UNCHANGED <<cancel, shutdownRequested>>
    BY <1>2 DEF Kill, Signal, Inv, TypeOK
  <2>4. CASE (cancel' \/ shutdownRequested') = TRUE
    BY <2>1, <2>2, <2>4 DEF Run!Ask, Run!Next
  <2> QED
    BY <1>1, <2>1, <2>2, <2>3, <2>4
<1>3. CASE Refuse \/ BuildFails \/ Return
  <2>1. /\ pc' = "end" /\ ended' \in {"raised", "returned"} /\ 1..tasks' = {}
        /\ UNCHANGED <<cancel, shutdownRequested>>
        /\ pc \in {"begin", "spawned", "reacquiring"}
    BY <1>3 DEF Refuse, BuildFails, Return, Reacquire, DropFrame, End, Inv, HeldAt
  <2>2. Stage \in {"starting", "draining"} /\ Stage' = "returned"
    BY <2>1, Stages, StagesNext DEF Inv, TypeOK
  <2> QED
    BY <2>1, <2>2 DEF Run!Return, Run!Next
<1>4. CASE KilledAtStart \/ LeftByKill
  <2>1. /\ pc' = "end" /\ ended' = "killed"
        /\ UNCHANGED <<cancel, shutdownRequested, tasks>>
        /\ pc \in {"spawned", "built", "reacquiring"}
    BY <1>4 DEF KilledAtStart, LeftByKill, Reacquire, End
  <2>2. Stage \in {"starting", "draining"} /\ Stage' = "killed"
    BY <2>1, Stages, StagesNext DEF Inv, TypeOK
  <2> QED
    BY <2>1, <2>2 DEF Run!LeftByKill, Run!Next
<1>5. CASE Bind
  <2>1. Stage = "starting" /\ Stage' = "serving" /\ UNCHANGED <<cancel, shutdownRequested, tasks>>
    BY <1>5, Stages, StagesNext DEF Bind
  <2> QED
    BY <2>1 DEF Run!Begin, Run!Next
<1>6. CASE Accept
  <2>1. /\ Stage = "serving" /\ Stage' = "serving" /\ UNCHANGED <<cancel, shutdownRequested>>
        /\ tasks' = tasks + 1 /\ tasks \in Nat
    BY <1>6, Stages, StagesNext, MaxTasksAssumption
    DEF Accept, Listening, Polling, Inv, TypeOK
  <2>2. tasks' \in 1..tasks' /\ 1..tasks' = (1..tasks) \cup {tasks'}
    BY <2>1
  <2> QED
    BY <2>1, <2>2 DEF Run!Open, Run!Next
<1>7. CASE TaskEnds
  <2>1. /\ pc \in {"serving", "draining"} /\ UNCHANGED <<pc, failed, ended>>
        /\ UNCHANGED <<cancel, shutdownRequested>>
        /\ tasks' = tasks - 1 /\ tasks \in Nat /\ tasks > 0
    BY <1>7, MaxTasksAssumption DEF TaskEnds, Polling, Inv, TypeOK
  <2>2. Stage \in {"serving", "draining"} /\ UNCHANGED Stage
    BY <2>1, Stages, StagesNext DEF Inv, HeldAt, TypeOK
  <2>3. tasks \in 1..tasks /\ 1..tasks' = (1..tasks) \ {tasks}
    BY <2>1
  <2> QED
    BY <2>1, <2>2, <2>3 DEF Run!Close, Run!Next
<1>8. CASE Cancelled
  <2>1. /\ UNCHANGED <<cancel, shutdownRequested, tasks>> /\ (cancel \/ shutdownRequested)
        /\ pc = "serving" /\ pc' = "draining" /\ failed' = failed
    BY <1>8 DEF Cancelled
  <2>2. Stage = "serving" /\ Stage' = "draining"
    BY <2>1, Stages, StagesNext DEF Inv, HeldAt
  <2> QED
    BY <2>1, <2>2 DEF Run!Stop, Run!Next
<1>9. CASE \/ SpawnWatchdog \/ BuildRuntime \/ ReleaseGvl \/ BindFails \/ Call
           \/ CallReturns \/ KillTaken \/ DrainEnds \/ LeaveClosure
  <2>1. UNCHANGED <<cancel, shutdownRequested, tasks>>
    BY <1>9 DEF SpawnWatchdog, BuildRuntime, ReleaseGvl, BindFails, Call, CallReturns, KillTaken,
                HandlerEnds, DrainEnds, LeaveClosure
  <2>2. \/ UNCHANGED <<pc, failed, ended>>
        \/ {pc, pc'} \subseteq {"begin", "spawned", "built", "binding"}
        \/ pc = "binding" /\ pc' = "left" /\ failed' = TRUE
        \/ pc \in {"draining", "left"} /\ pc' \in {"left", "reacquiring"} /\ failed' = failed
    BY <1>9 DEF SpawnWatchdog, BuildRuntime, ReleaseGvl, BindFails, Call, CallReturns, KillTaken,
                HandlerEnds, DrainEnds, LeaveClosure
  <2>3. CASE UNCHANGED <<pc, failed, ended>>
    BY <1>1, <2>1, <2>3 DEF Stage
  <2>4. CASE {pc, pc'} \subseteq {"begin", "spawned", "built", "binding"}
    BY <1>1, <2>1, <2>4, Stages, StagesNext
  <2>5. CASE pc = "binding" /\ pc' = "left" /\ failed' = TRUE
    BY <1>1, <2>1, <2>5, Stages, StagesNext
  <2>6. CASE pc \in {"draining", "left"} /\ pc' \in {"left", "reacquiring"} /\ failed' = failed
    BY <1>1, <2>1, <2>6, Stages, StagesNext DEF Inv, HeldAt, TypeOK
  <2> QED
    BY <2>2, <2>3, <2>4, <2>5, <2>6
<1>10. CASE Ended \/ UNCHANGED vars
  <2>1. UNCHANGED <<pc, failed, ended, cancel, shutdownRequested, tasks>>
    BY <1>10 DEF Ended, vars
  <2>2. UNCHANGED Stage
    BY <2>1 DEF Stage
  <2> QED
    BY <1>1, <2>1, <2>2
<1> QED
  BY <1>2, <1>3, <1>4, <1>5, <1>6, <1>7, <1>8, <1>9, <1>10 DEF Next, Starting, Released

(***************************************************************************)
(* One call of _serve_native is one ServerRun, for any number of           *)
(* connections: panics, kills that a handler takes, failures of the        *)
(* runtime and of bind among its steps.                                    *)
(***************************************************************************)
THEOREM ImplementsRun == Spec => RunSpec
BY RunInit, RunNext, Invariance, PTL DEF Spec, RunSpec, Run!Spec

-----------------------------------------------------------------------------
(***************************************************************************)
(* Liveness.  The prover has no rules for ENABLED; GuardsEnable says what  *)
(* reading the guards shows: where the call itself can go on.              *)
(***************************************************************************)
\* Steps of the call that wait for nobody.
AloneReady == pc \in {"begin", "spawned", "built", "binding", "left", "reacquiring"}

Asked == cancel = TRUE \/ shutdownRequested = TRUE

GuardsEnable ==
  /\ [](AloneReady => ENABLED <<Alone>>_vars)
  /\ [](handler = TRUE => ENABLED <<CallReturns \/ KillTaken>>_vars)
  /\ [](pc = "serving" /\ handler = FALSE /\ Asked => ENABLED <<Cancelled>>_vars)
  /\ [](pc = "draining" /\ handler = FALSE => ENABLED <<DrainEnds>>_vars)

\* Where the call may go from each point: never back.
Order == [begin |-> {"spawned", "end"}, spawned |-> {"built", "end"}, built |-> {"binding", "end"},
          binding |-> {"serving", "left"}, serving |-> {"draining"}, draining |-> {"left"},
          left |-> {"reacquiring"}, reacquiring |-> {"end"}, end |-> {}]

LEMMA CallAdvances ==
  ASSUME Inv, [Next]_vars
  PROVE  /\ pc' \in {pc} \cup Order[pc]
         /\ Asked => Asked'
<1> USE DEF Inv, TypeOK, Order, Asked, gvlVars, cancelVars, askVars, heldVars, End
<1>1. CASE Kill \/ Signal
  BY <1>1 DEF Kill, Signal
<1>2. CASE Starting
  BY <1>2 DEF Starting, Refuse, SpawnWatchdog, BuildRuntime, BuildFails, KilledAtStart
<1>3. CASE ReleaseGvl \/ Bind \/ BindFails \/ Accept \/ TaskEnds \/ Call
  BY <1>3 DEF ReleaseGvl, Bind, BindFails, Accept, TaskEnds, Call
<1>4. CASE CallReturns \/ KillTaken
  BY <1>4 DEF CallReturns, KillTaken, HandlerEnds
<1>5. CASE Cancelled \/ DrainEnds \/ LeaveClosure
  BY <1>5 DEF Cancelled, DrainEnds, LeaveClosure
<1>6. CASE Return \/ LeftByKill
  BY <1>6 DEF Return, LeftByKill, Reacquire
<1>7. CASE Ended \/ UNCHANGED vars
  BY <1>7 DEF Ended, vars
<1> QED
  BY <1>1, <1>2, <1>3, <1>4, <1>5, <1>6, <1>7 DEF Next, Released

LEMMA AloneMoves == Inv /\ Alone => pc' # pc
BY DEF Inv, TypeOK, Alone, Starting, Refuse, SpawnWatchdog, BuildRuntime, BuildFails, KilledAtStart,
       ReleaseGvl, Bind, BindFails, LeaveClosure, Return, LeftByKill, Reacquire, End

(***************************************************************************)
(* _serve_native returns, or is left, after a signal or a kill, wherever   *)
(* it stands: each point is passed for good, no handler keeps the GVL for  *)
(* ever, and a request to stop is not forgotten on the way.                *)
(***************************************************************************)
THEOREM RunIsCompleted == FairSpec /\ GuardsEnable => RunCompletes
<1> DEFINE Busy == handler = TRUE
           At(p) == Asked /\ pc = p
<1>1. Inv /\ [Next]_vars =>
        /\ At("begin") => At("begin")' \/ At("spawned")' \/ At("end")'
        /\ At("spawned") => At("spawned")' \/ At("built")' \/ At("end")'
        /\ At("built") => At("built")' \/ At("binding")' \/ At("end")'
        /\ At("binding") => At("binding")' \/ At("serving")' \/ At("left")'
        /\ At("serving") => At("serving")' \/ At("draining")'
        /\ At("draining") => At("draining")' \/ At("left")'
        /\ At("left") => At("left")' \/ At("reacquiring")'
        /\ At("reacquiring") => At("reacquiring")' \/ At("end")'
  BY CallAdvances DEF Order
<1>2. Inv /\ [Next]_vars /\ <<Alone>>_vars =>
        /\ At("begin") => ~At("begin")'
        /\ At("spawned") => ~At("spawned")'
        /\ At("built") => ~At("built")'
        /\ At("binding") => ~At("binding")'
        /\ At("left") => ~At("left")'
        /\ At("reacquiring") => ~At("reacquiring")'
  BY AloneMoves
<1>3. /\ <<Cancelled>>_vars /\ At("serving") => ~At("serving")'
      /\ <<DrainEnds>>_vars /\ At("draining") => ~At("draining")'
      /\ <<CallReturns \/ KillTaken>>_vars => ~Busy'
  BY DEF Cancelled, DrainEnds, CallReturns, KillTaken, HandlerEnds
<1>4. At("begin") \/ At("spawned") \/ At("built") \/ At("binding") \/ At("left")
        \/ At("reacquiring") => AloneReady
  BY DEF AloneReady
<1>5. Inv => /\ At("serving") /\ ~Busy => pc = "serving" /\ handler = FALSE /\ Asked
             /\ At("draining") /\ ~Busy => pc = "draining" /\ handler = FALSE
  BY DEF Inv, TypeOK
<1>6. At("end") => Stage \in {"returned", "killed"}
  BY Stages
<1>7. Inv /\ (cancel \/ shutdownRequested) =>
        \/ At("begin") \/ At("spawned") \/ At("built") \/ At("binding") \/ At("serving")
        \/ At("draining") \/ At("left") \/ At("reacquiring") \/ At("end")
  <2>1. Inv /\ (cancel \/ shutdownRequested) => Asked
    BY DEF Inv, TypeOK, Asked
  <2>2. Inv => pc \in {"begin", "spawned", "built", "binding", "serving", "draining",
                       "left", "reacquiring", "end"}
    BY DEF Inv, TypeOK
  <2> QED
    BY <2>1, <2>2
<1> HIDE DEF At, Busy
<1> QED
  BY <1>1, <1>2, <1>3, <1>4, <1>5, <1>6, <1>7, Invariance, PTL
  DEF FairSpec, Fairness, Spec, GuardsEnable, RunCompletes, Run!Completes, Busy
=============================================================================
