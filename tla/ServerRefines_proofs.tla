------------------------ MODULE ServerRefines_proofs ------------------------
(***************************************************************************)
(* Server implements ServerRun, and each of its connections                *)
(* ConnectionService, for any finite set of connections and any limits;    *)
(* and, with its fairness, a shutdown ends and the requests being handled  *)
(* are answered.                                                           *)
(***************************************************************************)
EXTENDS Server_proofs

\* A connection that has a task.
HasTask(s) == s \in {"reading"} \cup Counted

OpenConns == {c \in Conns : HasTask(conn[c])}

(***************************************************************************)
(* The steps of a task, by where they take its connection.                 *)
(***************************************************************************)
LEMMA PollMoves ==
  ASSUME Inv, NEW c \in Conns,
         ReadHeaders(c) \/ ReadBody(c) \/ CallReturns(c) \/ ResponseWritten(c)
           \/ HandleReturns(c) \/ Accept(c)
  PROVE  \E s \in {"reading", "body", "calling", "writing", "closed"} :
           /\ Go(c, s)
           /\ main \in {"serving", "draining"}
           /\ UNCHANGED <<main, cancel, shutdownRequested>>
           /\ \/ HasTask(conn[c])
              \/ conn[c] = "backlog" /\ s = "reading" /\ main = "serving"
<1> USE DEF HasTask, Counted, Polling, mainVars, signalVars
<1>1. CASE ReadHeaders(c)
  BY <1>1 DEF ReadHeaders, Parsed
<1>2. CASE ReadBody(c)
  BY <1>2 DEF ReadBody
<1>3. CASE CallReturns(c)
  <2>1. conn[c] = "calling" /\ main \in {"serving", "draining"}
    BY <1>3, ServerAssumption DEF CallReturns, Inv, TaskAt, CallsAreDriven
  <2> QED
    BY <1>3, <2>1 DEF CallReturns
<1>4. CASE ResponseWritten(c)
  BY <1>4 DEF ResponseWritten, AfterAnswer, Parsed
<1>5. CASE HandleReturns(c)
  BY <1>5 DEF HandleReturns
<1>6. CASE Accept(c)
  BY <1>6 DEF Accept
<1> QED
  BY <1>1, <1>2, <1>3, <1>4, <1>5, <1>6

-----------------------------------------------------------------------------
(***************************************************************************)
(* ServerRun.                                                              *)
(***************************************************************************)
LEMMA Stages == /\ Stage = IF main = "stopped" THEN "draining"
                           ELSE IF main = "abandoned" THEN "killed" ELSE main
                /\ Stage' = IF main' = "stopped" THEN "draining"
                            ELSE IF main' = "abandoned" THEN "killed" ELSE main'
BY DEF Stage

LEMMA RunInit == Init => Run!Init
<1> SUFFICES ASSUME Init PROVE Run!Init
    OBVIOUS
<1>1. Stage = "serving" /\ (cancel \/ shutdownRequested) = FALSE
  BY Stages DEF Init
<1>2. OpenConns = {}
  BY DEF Init, OpenConns, HasTask, Counted
<1> QED
  BY <1>1, <1>2 DEF Run!Init, OpenConns, HasTask

LEMMA RunNext == Inv /\ [Next]_vars => [Run!Next]_(Run!vars)
<1> SUFFICES ASSUME Inv, [Next]_vars PROVE [Run!Next]_(Run!vars)
    OBVIOUS
<1> USE DEF signalVars, mainVars, clientVars, connVars
\* A step that ServerRun does not see.
<1>1. ASSUME UNCHANGED <<Stage, cancel, shutdownRequested, OpenConns>> PROVE UNCHANGED Run!vars
  BY <1>1 DEF Run!vars, OpenConns, HasTask
<1>2. ASSUME NEW c \in Conns,
             ReadHeaders(c) \/ ReadBody(c) \/ CallReturns(c) \/ ResponseWritten(c)
               \/ HandleReturns(c) \/ Accept(c)
      PROVE  [Run!Next]_(Run!vars)
  <2>1. PICK s \in {"reading", "body", "calling", "writing", "closed"} :
          /\ Go(c, s)
          /\ main \in {"serving", "draining"}
          /\ UNCHANGED <<main, cancel, shutdownRequested>>
          /\ \/ HasTask(conn[c])
             \/ conn[c] = "backlog" /\ s = "reading" /\ main = "serving"
    BY <1>2, PollMoves
  <2>2. conn'[c] = s /\ \A d \in Conns \ {c} : conn'[d] = conn[d]
    BY <2>1 DEF Go, Inv, TypeOK
  <2>3. Stage = main /\ Stage' = main
    BY <2>1, Stages
  <2>4. CASE HasTask(conn[c]) /\ s # "closed"
    <3>1. OpenConns' = OpenConns
      BY <2>1, <2>2, <2>4 DEF OpenConns, HasTask, Counted
    <3> QED
      BY <1>1, <2>1, <2>3, <3>1
  <2>5. CASE HasTask(conn[c]) /\ s = "closed"
    <3>1. c \in OpenConns /\ OpenConns' = OpenConns \ {c}
      BY <2>2, <2>5 DEF OpenConns, HasTask, Counted
    <3> QED
      BY <2>1, <2>3, <3>1 DEF Run!Close, Run!Next, OpenConns, HasTask
  <2>6. CASE conn[c] = "backlog" /\ s = "reading" /\ main = "serving"
    <3>1. c \in OpenConns' /\ OpenConns' = OpenConns \cup {c}
      BY <2>2, <2>6 DEF OpenConns, HasTask, Counted
    <3> QED
      BY <2>1, <2>3, <2>6, <3>1 DEF Run!Open, Run!Next, OpenConns, HasTask
  <2> QED
    BY <2>1, <2>4, <2>5, <2>6
<1>3. CASE Signal \/ Kill
  <2>1. UNCHANGED <<main, conn>>
    BY <1>3 DEF Signal, Kill
  <2>2. UNCHANGED <<Stage, OpenConns>>
    BY <2>1 DEF Stage, OpenConns
  <2>3. (cancel' \/ shutdownRequested') = TRUE \/ UNCHANGED <<cancel, shutdownRequested>>
    BY <1>3 DEF Signal, Kill, Inv, TypeOK
  <2>4. CASE (cancel' \/ shutdownRequested') = TRUE
    BY <2>2, <2>4 DEF Run!Ask, Run!Next, OpenConns, HasTask
  <2> QED
    BY <1>1, <2>2, <2>3, <2>4
<1>4. CASE Client
  <2>1. UNCHANGED <<main, cancel, shutdownRequested>>
    BY <1>4 DEF Client, Connect, Send
  <2>2. OpenConns' = OpenConns
    <3>1. ASSUME NEW c \in Conns, Connect(c) PROVE OpenConns' = OpenConns
      <4>1. /\ conn[c] = "none" /\ conn'[c] = "backlog"
            /\ \A d \in Conns \ {c} : conn'[d] = conn[d]
        BY <3>1 DEF Connect, Inv, TypeOK
      <4> QED
        BY <4>1 DEF OpenConns, HasTask, Counted
    <3>2. ASSUME NEW c \in Conns, Send(c) PROVE OpenConns' = OpenConns
      BY <3>2 DEF Send, OpenConns
    <3> QED
      BY <1>4, <3>1, <3>2 DEF Client
  <2> QED
    BY <1>1, <2>1, <2>2, Stages
<1>5. CASE GraceElapses \/ AcceptFails \/ BackoffEnds \/ DrainWakes \/ DrainTimesOut
  <2>1. UNCHANGED <<cancel, shutdownRequested, conn>>
    BY <1>5 DEF GraceElapses, AcceptFails, BackoffEnds, DrainWakes, DrainTimesOut
  <2>2. main' = main \/ (main = "draining" /\ main' \in {"draining", "stopped"})
    BY <1>5 DEF GraceElapses, AcceptFails, BackoffEnds, DrainWakes, DrainTimesOut, DrainLooks
  <2>3. UNCHANGED <<Stage, OpenConns>>
    BY <2>1, <2>2, Stages DEF OpenConns
  <2> QED
    BY <1>1, <2>1, <2>3
<1>6. CASE ShutdownNoticed
  <2>1. /\ main = "serving" /\ main' \in {"draining", "stopped"}
        /\ (cancel \/ shutdownRequested) /\ UNCHANGED <<cancel, shutdownRequested>>
        /\ conn' = [c \in Conns |-> IF conn[c] = "backlog" THEN "refused" ELSE conn[c]]
    BY <1>6 DEF ShutdownNoticed, Cancelled, DrainLooks
  <2>2. Stage = "serving" /\ Stage' = "draining"
    BY <2>1, Stages
  <2>3. OpenConns' = OpenConns
    BY <2>1 DEF OpenConns, HasTask, Counted
  <2> QED
    BY <2>1, <2>2, <2>3 DEF Run!Stop, Run!Next, OpenConns, HasTask
<1>7. CASE Teardown
  <2>1. Stage = "draining" /\ Stage' = "returned" /\ UNCHANGED <<cancel, shutdownRequested>>
    BY <1>7, Stages DEF Teardown
  <2>2. OpenConns' = {}
    BY <1>7 DEF Teardown, OpenConns, HasTask, Counted
  <2> QED
    BY <2>1, <2>2 DEF Run!Return, Run!Next, OpenConns, HasTask
<1>8. CASE Abandon
  <2>1. /\ Stage = "draining" /\ Stage' = "killed"
        /\ UNCHANGED <<cancel, shutdownRequested, conn>>
    BY <1>8, Stages DEF Abandon
  <2> QED
    BY <2>1 DEF Run!LeftByKill, Run!Next
<1>9. CASE UNCHANGED vars
  BY <1>1, <1>9 DEF vars, Stage, OpenConns
<1> QED
  BY <1>2, <1>3, <1>4, <1>5, <1>6, <1>7, <1>8, <1>9 DEF Next, ConnPoll, HandlerReturns, MainPoll

(***************************************************************************)
(* serve, the select! and drain implement ServerRun: an error of accept    *)
(* does not end the run, a shutdown cuts no connection before it returns,  *)
(* and what returns leaves none behind.                                    *)
(***************************************************************************)
THEOREM ImplementsRun == Spec => RunSpec
BY RunInit, RunNext, Invariance, PTL DEF Spec, RunSpec, Run!Spec

-----------------------------------------------------------------------------
(***************************************************************************)
(* ConnectionService.                                                      *)
(***************************************************************************)
LEMMA ServiceInit == Init => \A c \in Conns : Service(c)!Init
BY DEF Init, Service!Init, Phase, Counted, CountOf

\* A task whose place does not change in kind, and whose count stays.
LEMMA ServiceKeeps ==
  ASSUME NEW c \in Conns, Phase(conn'[c]) = Phase(conn[c]), served'[c] = served[c],
         CountOf(conn'[c]) = CountOf(conn[c])
  PROVE  UNCHANGED Service(c)!vars
BY DEF Service!vars, Phase, CountOf

LEMMA ServicePoll ==
  ASSUME Inv, NEW c \in Conns,
         ReadHeaders(c) \/ ReadBody(c) \/ CallReturns(c) \/ ResponseWritten(c)
           \/ HandleReturns(c) \/ Accept(c)
  PROVE  [Service(c)!Next]_(Service(c)!vars)
<1> USE DEF Phase, CountOf, Counted, Service!Next
<1>1. PICK s \in {"reading", "body", "calling", "writing", "closed"} : Go(c, s)
  BY PollMoves
<1>2. conn'[c] = s
  BY <1>1 DEF Go, Inv, TypeOK
<1>3. CASE ReadHeaders(c)
  <2>1. conn[c] = "reading" /\ served' = served
    BY <1>3 DEF ReadHeaders
  <2>2. conn'[c] \in {"reading", "body", "calling"}
    BY <1>3 DEF ReadHeaders, Go, Parsed, Inv, TypeOK
  <2>3. CASE conn'[c] = "reading"
    BY <2>1, <2>3, ServiceKeeps
  <2>4. CASE conn'[c] \in {"body", "calling"}
    BY <2>1, <2>4 DEF Service!Begin
  <2> QED
    BY <2>2, <2>3, <2>4
<1>4. CASE ReadBody(c) \/ CallReturns(c) \/ Accept(c)
  <2>1. /\ served' = served
        /\ \/ conn[c] = "body" /\ conn'[c] = "calling"
           \/ conn[c] = "calling" /\ conn'[c] = "writing"
           \/ conn[c] = "backlog" /\ conn'[c] = "reading"
    BY <1>4, ServerAssumption DEF ReadBody, CallReturns, Accept, Go, Inv, TypeOK, TaskAt
  <2> QED
    BY <2>1, ServiceKeeps
<1>5. CASE ResponseWritten(c)
  <2>1. /\ conn[c] = "writing" /\ served'[c] = served[c] + 1
        /\ served[c] \in Nat /\ served[c] < MaxKeepalive
    BY <1>5, ServerAssumption DEF ResponseWritten, Inv, TypeOK, TaskAt
  <2>2. conn'[c] = AfterAnswer(c, served'[c], buffered'[c])
    BY <1>5 DEF ResponseWritten, Go, Inv, TypeOK
  <2>3. CASE served'[c] >= MaxKeepalive
    <3>1. conn'[c] = "closed" /\ served[c] + 1 = MaxKeepalive
      BY <2>1, <2>2, <2>3, ServerAssumption DEF AfterAnswer
    <3> QED
      BY <2>1, <3>1 DEF Service!AnswerLast
  <2>4. CASE ~(served'[c] >= MaxKeepalive)
    <3>1. served[c] + 1 < MaxKeepalive /\ conn'[c] \in {"reading", "body", "calling"}
      BY <2>1, <2>2, <2>4, ServerAssumption DEF AfterAnswer, Parsed
    <3>2. CASE conn'[c] = "reading"
      BY <2>1, <3>1, <3>2 DEF Service!Answer
    <3>3. CASE conn'[c] \in {"body", "calling"}
      BY <2>1, <3>1, <3>3 DEF Service!AnswerAndBegin
    <3> QED
      BY <3>1, <3>2, <3>3
  <2> QED
    BY <2>3, <2>4
<1>6. CASE HandleReturns(c)
  <2>1. conn[c] \in {"reading", "body", "writing"} /\ conn'[c] = "closed" /\ served' = served
    BY <1>6 DEF HandleReturns, Go, Inv, TypeOK
  <2> QED
    BY <2>1 DEF Service!Close
<1> QED
  BY <1>3, <1>4, <1>5, <1>6

LEMMA ServiceNext ==
  Inv /\ [Next]_vars => \A c \in Conns : [Service(c)!Next]_(Service(c)!vars)
<1> SUFFICES ASSUME Inv, [Next]_vars, NEW c \in Conns
             PROVE  [Service(c)!Next]_(Service(c)!vars)
    OBVIOUS
<1> USE DEF signalVars, mainVars, clientVars, connVars
\* A poll of another connection's task, or of its own.
<1>1. ASSUME NEW d \in Conns,
             ReadHeaders(d) \/ ReadBody(d) \/ CallReturns(d) \/ ResponseWritten(d)
               \/ HandleReturns(d) \/ Accept(d)
      PROVE  [Service(c)!Next]_(Service(c)!vars)
  <2>1. CASE c = d
    BY <1>1, <2>1, ServicePoll
  <2>2. CASE c # d
    <3>1. conn'[c] = conn[c]
      BY <1>1, <2>2, PollMoves DEF Go, Inv, TypeOK
    <3>2. served'[c] = served[c]
      BY <1>1, <2>2 DEF ReadHeaders, ReadBody, CallReturns, ResponseWritten, HandleReturns,
                        Accept, Inv, TypeOK
    <3> QED
      BY <3>1, <3>2, ServiceKeeps
  <2> QED
    BY <2>1, <2>2
\* Steps that leave the connections as they are, or are all of one kind.
<1>2. CASE conn'[c] = conn[c] /\ served' = served
  BY <1>2, ServiceKeeps
<1>3. CASE /\ {conn[c], conn'[c]} \subseteq {"none", "backlog", "reading"}
           /\ served' = served
  BY <1>3, ServiceKeeps DEF Phase, CountOf, Counted
<1>4. CASE /\ conn[c] \in {"backlog", "reading"} \cup Counted
           /\ conn'[c] \in {"refused", "closed"} /\ served' = served
  BY <1>4 DEF Service!Close, Service!Next, Phase, CountOf, Counted
<1>5. CASE Client
  <2>1. /\ served' = served
        /\ conn'[c] = conn[c] \/ (conn[c] = "none" /\ conn'[c] = "backlog")
    BY <1>5 DEF Client, Connect, Send, Inv, TypeOK
  <2> QED
    BY <1>2, <1>3, <2>1
<1>6. CASE Signal \/ Kill \/ GraceElapses \/ AcceptFails \/ BackoffEnds
             \/ DrainWakes \/ DrainTimesOut \/ Abandon \/ UNCHANGED vars
  BY <1>2, <1>6 DEF Signal, Kill, GraceElapses, AcceptFails, BackoffEnds, DrainWakes,
                    DrainTimesOut, Abandon, vars
<1>7. CASE ShutdownNoticed
  <2>1. /\ served' = served
        /\ conn'[c] = conn[c] \/ (conn[c] = "backlog" /\ conn'[c] = "refused")
    BY <1>7 DEF ShutdownNoticed
  <2> QED
    BY <1>2, <1>4, <2>1
<1>8. CASE Teardown
  <2>1. conn'[c] = (IF conn[c] \in {"none", "refused"} THEN conn[c] ELSE "closed")
        /\ served' = served
    BY <1>8 DEF Teardown
  <2>2. conn[c] \in ConnPCs
    BY DEF Inv, TypeOK
  <2>3. \/ conn'[c] = conn[c]
        \/ conn[c] \in {"backlog", "reading"} \cup Counted /\ conn'[c] = "closed"
    BY <2>1, <2>2 DEF ConnPCs, Counted
  <2> QED
    BY <1>2, <1>4, <2>1, <2>3
<1> QED
  BY <1>1, <1>5, <1>6, <1>7, <1>8 DEF Next, ConnPoll, HandlerReturns, MainPoll

(***************************************************************************)
(* Every connection of the server keeps ConnectionService's promise, with  *)
(* max_keepalive as its limit, through the shutdown and its end.           *)
(***************************************************************************)
THEOREM ConnectionsImplementService == Spec => ConnectionsServe
BY ServiceInit, ServiceNext, Invariance, PTL DEF Spec, ConnectionsServe

-----------------------------------------------------------------------------
(***************************************************************************)
(* Liveness.  The prover has no rules for ENABLED; GuardsEnable says what  *)
(* reading the guards shows: when the runtime has something to poll.       *)
(***************************************************************************)
Asked == cancel = TRUE \/ shutdownRequested = TRUE

MainReady == /\ calling = Nobody
             /\ \/ main = "serving" /\ Asked
                \/ main = "draining" /\ graceOver = TRUE

\* That a task is polled for its response, for each connection.
GuardEnables(c) == [](Polling /\ conn[c] = "writing" => ENABLED <<ResponseWritten(c)>>_vars)

ConnGuards == \A c \in Conns : GuardEnables(c)

GuardsEnable ==
  /\ [](calling # Nobody => ENABLED <<HandlerReturns>>_vars)
  /\ [](MainReady => ENABLED <<MainPoll>>_vars)
  /\ [](main = "draining" /\ graceOver = FALSE => ENABLED <<GraceElapses>>_vars)
  /\ [](main = "stopped" => ENABLED <<Teardown \/ Abandon>>_vars)
  /\ ConnGuards

LEMMA RunAdvances ==
  ASSUME Inv, [Next]_vars
  PROVE  /\ Asked => Asked'
         /\ graceOver = TRUE => graceOver' = TRUE
         /\ main = "serving" => main' \in {"serving", "draining", "stopped"}
         /\ main = "draining" => main' \in {"draining", "stopped"}
         /\ main = "stopped" => main' \in {"stopped", "returned", "abandoned"}
         /\ main \in {"returned", "abandoned"} => main' = main
<1> USE DEF Inv, TypeOK, Asked, mainVars, signalVars, clientVars, connVars
<1>1. ASSUME NEW c \in Conns, Connect(c) \/ Send(c) PROVE UNCHANGED <<mainVars, signalVars>>
  BY <1>1 DEF Connect, Send
<1>2. ASSUME NEW c \in Conns,
             ReadHeaders(c) \/ ReadBody(c) \/ CallReturns(c) \/ ResponseWritten(c)
               \/ HandleReturns(c) \/ Accept(c)
      PROVE  UNCHANGED <<main, graceOver, signalVars>>
  BY <1>2 DEF ReadHeaders, ReadBody, CallReturns, ResponseWritten, HandleReturns, Accept
<1>3. CASE Signal \/ Kill
  BY <1>3 DEF Signal, Kill
<1>4. CASE GraceElapses \/ AcceptFails \/ BackoffEnds
  BY <1>4 DEF GraceElapses, AcceptFails, BackoffEnds
<1>5. CASE MainPoll
  BY <1>5 DEF MainPoll, ShutdownNoticed, DrainWakes, DrainTimesOut, DrainLooks
<1>6. CASE Teardown \/ Abandon
  BY <1>6 DEF Teardown, Abandon
<1>7. CASE UNCHANGED vars
  BY <1>7 DEF vars
<1> QED
  BY <1>1, <1>2, <1>3, <1>4, <1>5, <1>6, <1>7 DEF Next, Client, ConnPoll, HandlerReturns

LEMMA MainMoves ==
  ASSUME MainPoll
  PROVE  /\ main = "serving" => main' # "serving"
         /\ main = "draining" /\ graceOver = TRUE => main' = "stopped"
BY DEF MainPoll, ShutdownNoticed, DrainWakes, DrainTimesOut, DrainLooks

LEMMA CallsEnd == Inv /\ HandlerReturns => calling' = Nobody
BY DEF HandlerReturns, CallReturns, Go

(***************************************************************************)
(* After a signal or a kill the server stops, whatever its clients do: a   *)
(* handler that runs returns, the select! finds the flag, and if drain is  *)
(* never notified its grace period ends it.                                *)
(***************************************************************************)
THEOREM ShutdownIsCompleted == FairSpec /\ GuardsEnable => ShutdownCompletes
<1> DEFINE Serving == Asked /\ main = "serving"
           Draining == Asked /\ main = "draining"
           Overdue == Asked /\ main = "draining" /\ graceOver = TRUE
           Stopped == Asked /\ main = "stopped"
           Over == main \in {"returned", "abandoned"}
           Calling == calling # Nobody
<1>1. Inv /\ [Next]_vars =>
        /\ Serving => Serving' \/ Draining' \/ Stopped'
        /\ Draining => Draining' \/ Stopped'
        /\ Overdue => Overdue' \/ Stopped'
        /\ Stopped => Stopped' \/ Over'
  BY RunAdvances
<1>2. /\ <<MainPoll>>_vars => (Serving => ~Serving') /\ (Overdue => ~Overdue')
      /\ Inv /\ <<HandlerReturns>>_vars => ~Calling'
      /\ <<GraceElapses>>_vars => (graceOver = TRUE)'
      /\ <<Teardown \/ Abandon>>_vars => ~Stopped'
  BY MainMoves, CallsEnd DEF GraceElapses, Teardown, Abandon
<1>3. /\ Serving \/ Overdue => MainReady \/ Calling
      /\ Stopped => main = "stopped"
      /\ Overdue <=> Draining /\ graceOver = TRUE
  BY DEF MainReady
<1>4. Inv /\ Draining => Overdue \/ (main = "draining" /\ graceOver = FALSE)
  BY DEF Inv, TypeOK
<1>5. Inv /\ (cancel \/ shutdownRequested) => Serving \/ Draining \/ Stopped \/ Over
  <2>1. Inv /\ (cancel \/ shutdownRequested) => Asked
    BY DEF Inv, TypeOK, Asked
  <2> QED
    BY <2>1 DEF Inv, TypeOK
<1>6. Over => Stage \in {"returned", "killed"}
  BY Stages
<1>7. Calling <=> calling # Nobody
  OBVIOUS
<1> HIDE DEF Serving, Draining, Overdue, Stopped, Over, Calling
<1> QED
  BY <1>1, <1>2, <1>3, <1>4, <1>5, <1>6, <1>7, Invariance, PTL
  DEF FairSpec, Fairness, Spec, GuardsEnable, ShutdownCompletes, Run!Completes

(***************************************************************************)
(* A drain that finds nothing in flight is over at its next poll, whatever *)
(* its grace period: connections that are open and idle do not make a      *)
(* shutdown wait, unless a client begins a request on one in the meantime. *)
(***************************************************************************)
THEOREM DrainIsPrompt ==
  Spec /\ SF_vars(MainPoll)
       /\ [](Polling /\ main = "draining" /\ woken = TRUE => ENABLED <<MainPoll>>_vars)
  => ((main = "draining" /\ inFlight = 0) ~> (main = "stopped" \/ inFlight > 0))
<1> DEFINE Idle == main = "draining" /\ inFlight = 0
           Over == main = "stopped" \/ inFlight > 0
           Ready == Polling /\ main = "draining" /\ woken = TRUE
<1>1. Inv /\ Inv' /\ [Next]_vars => (Idle => Idle' \/ Over')
  <2>1. inFlight' \in 0..Cardinality(Conns) /\ Cardinality(Conns) \in Nat => inFlight' \in Nat
    OBVIOUS
  <2>2. Inv' => inFlight' \in 0..Cardinality(Conns)
    BY DEF Inv, TypeOK
  <2>3. inFlight' \in Nat => inFlight' = 0 \/ inFlight' > 0
    OBVIOUS
  <2> QED
    BY <2>1, <2>2, <2>3, BusyFinite, RunAdvances
<1>2. <<MainPoll>>_vars /\ Idle => Over'
  BY DEF MainPoll, ShutdownNoticed, DrainWakes, DrainTimesOut, DrainLooks
<1>3. Inv /\ Idle => Ready
  <2> SUFFICES ASSUME Inv, Idle PROVE Ready
    OBVIOUS
  <2>1. woken = TRUE
    BY DEF Inv, TypeOK, DrainNotLost
  <2>2. calling = Nobody
    BY NobodyBusy DEF Inv, TypeOK, TaskAt
  <2> QED
    BY <2>1, <2>2 DEF Polling
<1>4. /\ Ready <=> Polling /\ main = "draining" /\ woken = TRUE
      /\ Idle <=> main = "draining" /\ inFlight = 0
      /\ Over <=> main = "stopped" \/ inFlight > 0
  OBVIOUS
<1> HIDE DEF Idle, Over, Ready
<1> QED
  BY <1>1, <1>2, <1>3, <1>4, Invariance, PTL DEF Spec

\* A call that is over, in time, has left no request either.
LeftInTime == main \in {"returned", "abandoned"} /\ ~graceOver =>
                \A c \in Conns : conn[c] \notin Counted

LEMMA LeftInTimeNext == Inv /\ LeftInTime /\ [Next]_vars => LeftInTime'
<1> SUFFICES ASSUME Inv, LeftInTime, [Next]_vars, main' \in {"returned", "abandoned"},
                    ~graceOver', NEW c \in Conns
             PROVE  conn'[c] \notin Counted
    BY DEF LeftInTime
<1>1. ~graceOver
  BY RunAdvances DEF Inv, TypeOK
<1>2. CASE Teardown
  BY <1>2 DEF Teardown, Counted
<1>3. CASE Abandon
  BY <1>1, <1>3 DEF Abandon, Inv, GracefulStop, Counted, connVars
<1>4. CASE ~(Teardown \/ Abandon)
  <2> USE DEF Polling, connVars, mainVars
  <2>1. ASSUME NEW d \in Conns, CallReturns(d) PROVE FALSE
    BY <2>1, ServerAssumption DEF CallReturns, Inv, CallsAreDriven
  <2>2. ASSUME NEW d \in Conns, Connect(d) \/ Send(d) \/ ReadHeaders(d) \/ ReadBody(d)
                 \/ ResponseWritten(d) \/ HandleReturns(d) \/ Accept(d)
        PROVE  UNCHANGED <<main, conn>>
    BY <2>2 DEF Connect, Send, ReadHeaders, ReadBody, ResponseWritten, HandleReturns, Accept
  <2>3. ASSUME Signal \/ Kill \/ GraceElapses \/ AcceptFails \/ BackoffEnds \/ UNCHANGED vars
        PROVE  UNCHANGED <<main, conn>>
    BY <2>3 DEF Signal, Kill, GraceElapses, AcceptFails, BackoffEnds, vars
  <2>4. ~MainPoll
    BY DEF MainPoll, ShutdownNoticed, DrainWakes, DrainTimesOut, DrainLooks
  <2>5. UNCHANGED <<main, conn>>
    BY <1>4, <2>1, <2>2, <2>3, <2>4 DEF Next, Client, ConnPoll, HandlerReturns
  <2> QED
    BY <1>1, <2>5 DEF LeftInTime
<1> QED
  BY <1>2, <1>3, <1>4

LEMMA RequestsLeave == Spec => []LeftInTime
<1>1. Init => LeftInTime
  BY DEF Init, LeftInTime
<1> QED
  BY <1>1, LeftInTimeNext, Invariance, PTL DEF Spec

\* While its handler runs, nothing but the handler's return moves a connection.
LEMMA CalledNext ==
  ASSUME Inv, [Next]_vars, NEW c \in Conns, conn[c] = "calling"
  PROVE  /\ conn'[c] = "calling" \/ conn'[c] = "writing"
         /\ served'[c] = served[c]
<1> USE ServerAssumption DEF Inv, TypeOK, mainVars, signalVars, clientVars, connVars
<1>1. calling = c /\ calling # Nobody /\ main \in {"serving", "draining"}
  BY DEF TaskAt, CallsAreDriven
<1>2. ASSUME NEW d \in Conns, CallReturns(d)
      PROVE  conn'[c] = "writing" /\ served' = served
  BY <1>1, <1>2 DEF CallReturns, Go
<1>3. ASSUME NEW d \in Conns, Connect(d) \/ Send(d)
      PROVE  conn'[c] = conn[c] /\ served' = served
  BY <1>3 DEF Connect, Send
<1>4. CASE Signal \/ Kill \/ GraceElapses \/ UNCHANGED vars
  BY <1>4 DEF Signal, Kill, GraceElapses, vars
<1>5. ASSUME NEW d \in Conns PROVE ~(ConnPoll(d) \/ HandleReturns(d) \/ Accept(d))
  BY <1>1 DEF ConnPoll, ReadHeaders, ReadBody, ResponseWritten, HandleReturns, Accept, Polling
<1>6. ~(AcceptFails \/ BackoffEnds \/ MainPoll \/ Teardown \/ Abandon)
  BY <1>1 DEF AcceptFails, BackoffEnds, MainPoll, ShutdownNoticed, DrainWakes, DrainTimesOut,
              Polling, Teardown, Abandon
<1> QED
  BY <1>2, <1>3, <1>4, <1>5, <1>6 DEF Next, Client, HandlerReturns

\* What may become of an answer that is being written.
LEMMA WritingNext ==
  ASSUME Inv, [Next]_vars, NEW c \in Conns, conn[c] = "writing"
  PROVE  \/ conn'[c] = "writing" /\ served'[c] = served[c]
         \/ served'[c] = served[c] + 1
         \/ conn'[c] = "closed" /\ main' \in {"serving", "draining"}
         \/ graceOver'
<1> USE ServerAssumption DEF Inv, TypeOK, mainVars, signalVars, clientVars, connVars
<1>1. ASSUME NEW d \in Conns,
             ReadHeaders(d) \/ ReadBody(d) \/ CallReturns(d) \/ Accept(d)
      PROVE  conn'[c] = "writing" /\ served' = served
  <2>1. d # c
    BY <1>1 DEF ReadHeaders, ReadBody, CallReturns, Accept, TaskAt
  <2> QED
    BY <1>1, <2>1 DEF ReadHeaders, ReadBody, CallReturns, Accept, Go
<1>2. ASSUME NEW d \in Conns, ResponseWritten(d) PROVE
        \/ conn'[c] = "writing" /\ served'[c] = served[c]
        \/ served'[c] = served[c] + 1
  BY <1>2 DEF ResponseWritten, Go
<1>3. ASSUME NEW d \in Conns, HandleReturns(d) PROVE
        \/ conn'[c] = "writing" /\ served'[c] = served[c]
        \/ conn'[c] = "closed" /\ main' \in {"serving", "draining"}
  BY <1>3 DEF HandleReturns, Go, Polling
<1>4. ASSUME NEW d \in Conns, Connect(d) \/ Send(d)
      PROVE  conn'[c] = "writing" /\ served' = served
  BY <1>4 DEF Connect, Send
<1>5. CASE Signal \/ Kill \/ GraceElapses \/ AcceptFails \/ BackoffEnds \/ UNCHANGED vars
  BY <1>5 DEF Signal, Kill, GraceElapses, AcceptFails, BackoffEnds, vars
<1>6. CASE MainPoll \/ Abandon
  BY <1>6 DEF MainPoll, ShutdownNoticed, DrainWakes, DrainTimesOut, Abandon
<1>7. CASE Teardown
  BY <1>7 DEF Teardown, GracefulStop
<1> QED
  BY <1>1, <1>2, <1>3, <1>4, <1>5, <1>6, <1>7 DEF Next, Client, HandlerReturns, ConnPoll

(***************************************************************************)
(* A request the handler was called for is answered to a client that reads *)
(* its responses, unless its connection fails or the grace period runs     *)
(* out: neither the select! nor the end of drain takes its task away       *)
(* before, and no other client, reading or not, keeps the runtime from it. *)
(***************************************************************************)
THEOREM CallsAreAnswered == FairSpec /\ GuardsEnable => CalledIsAnswered
<1> SUFFICES ASSUME NEW c \in Conns, NEW k \in 0..MaxKeepalive - 1
             PROVE  FairSpec /\ GuardsEnable /\ ClientReads(c) =>
                      ((conn[c] \in {"calling", "writing"} /\ served[c] = k)
                        ~> \/ served[c] > k
                           \/ conn[c] = "closed" /\ main \in {"serving", "draining"}
                           \/ graceOver)
  BY DEF CalledIsAnswered
<1> DEFINE Called == conn[c] = "calling" /\ served[c] = k
           Writing == conn[c] = "writing" /\ served[c] = k
           Over == \/ served[c] > k
                   \/ conn[c] = "closed" /\ main \in {"serving", "draining"}
                   \/ graceOver
           Calling == calling # Nobody
           Ready == Polling /\ conn[c] = "writing"
<1>1. Inv /\ [Next]_vars => (Called => Called' \/ Writing')
  BY CalledNext
<1>2. Inv /\ [Next]_vars => (Writing => Writing' \/ Over')
  BY WritingNext DEF Inv, TypeOK
<1>3. Inv /\ <<HandlerReturns>>_vars => ~Calling' /\ (Called => ~Called')
  BY CallsEnd, ServerAssumption DEF HandlerReturns, CallReturns, Go, Inv, TaskAt, TypeOK
<1>4. Inv /\ Called => Calling
  BY ServerAssumption DEF Inv, TaskAt
<1>5. Inv /\ Writing /\ <<ResponseWritten(c)>>_vars => ~Writing'
  BY DEF ResponseWritten, Go, Parsed, AfterAnswer, Inv, TypeOK
<1>6. Inv /\ LeftInTime /\ Writing /\ ~Calling => Ready \/ Over
  BY DEF Inv, TypeOK, LeftInTime, GracefulStop, Polling, Counted
<1>7. conn[c] \in {"calling", "writing"} /\ served[c] = k <=> Called \/ Writing
  OBVIOUS
<1>8. ConnGuards => GuardEnables(c)
  BY DEF ConnGuards
<1>9. FairSpec /\ GuardsEnable => /\ Spec /\ ConnGuards
                                  /\ WF_vars(HandlerReturns)
                                  /\ [](calling # Nobody => ENABLED <<HandlerReturns>>_vars)
  BY PTL DEF FairSpec, Fairness, GuardsEnable
<1>10. /\ Calling <=> calling # Nobody
       /\ Ready <=> Polling /\ conn[c] = "writing"
       /\ Over <=> \/ served[c] > k
                   \/ conn[c] = "closed" /\ main \in {"serving", "draining"}
                   \/ graceOver
  OBVIOUS
<1> HIDE DEF Called, Writing, Over, Calling, Ready
<1> QED
  BY <1>1, <1>2, <1>3, <1>4, <1>5, <1>6, <1>7, <1>8, <1>9, <1>10, Invariance,
     RequestsLeave, PTL
  DEF Spec, ClientReads, GuardEnables
=============================================================================
