---------------------------- MODULE Server_proofs ----------------------------
(***************************************************************************)
(* Proofs about Server, for any finite set of connections, any limit of    *)
(* requests and any number of requests a client sends: the count of the    *)
(* requests in flight is exact, drain does not sleep through the last one, *)
(* and a stop before the grace period has run out cuts no request.         *)
(***************************************************************************)
EXTENDS Server, FiniteSetTheorems, TLAPS

Busy == {c \in Conns : conn[c] \in {"body", "calling", "writing"}}

LEMMA BusyFinite == /\ IsFiniteSet(Busy) /\ Cardinality(Busy) \in Nat
                    /\ Cardinality(Busy) <= Cardinality(Conns)
                    /\ Cardinality(Conns) \in Nat
                    /\ Cardinality(Busy) = 0 <=> Busy = {}
<1>1. Busy \in SUBSET Conns
  BY DEF Busy
<1> QED
  BY <1>1, ServerAssumption, FS_Subset, FS_CardinalityType, FS_EmptySet

LEMMA InvInit == Init => Inv
<1> SUFFICES ASSUME Init PROVE Inv
    OBVIOUS
<1> USE ServerAssumption DEF Init
<1>1. Busy = {}
  BY DEF Busy
<1>2. InFlightIsSum /\ inFlight \in 0..Cardinality(Conns)
  BY <1>1, BusyFinite DEF InFlightIsSum, Busy
<1>3. served \in [Conns -> 0..MaxKeepalive]
  OBVIOUS
<1>4. sent \in [Conns -> 0..(RequestUnits * MaxRequests)]
  BY DEF RequestUnits
<1>5. TypeOK
  BY <1>2, <1>3, <1>4 DEF TypeOK, ConnPCs, Counted
<1>6. DrainNotLost /\ GracefulStop /\ CallsAreDriven
  BY DEF DrainNotLost, GracefulStop, CallsAreDriven
<1>7. \A c \in Conns : TaskAt(c)
  BY DEF TaskAt, HeaderUnits, RequestUnits
<1> QED
  BY <1>2, <1>5, <1>6, <1>7 DEF Inv

(***************************************************************************)
(* A step of one task keeps the count exact.                               *)
(***************************************************************************)
LEMMA GoCounts ==
  ASSUME TypeOK, InFlightIsSum, NEW c \in Conns, NEW s \in ConnPCs, Go(c, s)
  PROVE  /\ InFlightIsSum' /\ inFlight' \in 0..Cardinality(Conns)
         /\ conn' \in [Conns -> ConnPCs]
         /\ conn'[c] = s /\ \A d \in Conns \ {c} : conn'[d] = conn[d]
         /\ inFlight' = inFlight - CountOf(conn[c]) + CountOf(s)
<1>1. /\ conn' \in [Conns -> ConnPCs] /\ conn'[c] = s
      /\ \A d \in Conns \ {c} : conn'[d] = conn[d]
  BY DEF Go, TypeOK
<1>2. Busy' = IF s \in Counted THEN Busy \cup {c} ELSE Busy \ {c}
  BY <1>1 DEF Busy, Counted
<1>3. c \in Busy <=> conn[c] \in Counted
  BY DEF Busy, Counted
<1>4. Cardinality(Busy') = Cardinality(Busy) - CountOf(conn[c]) + CountOf(s)
  <2>1. /\ Cardinality(Busy \cup {c}) =
              IF c \in Busy THEN Cardinality(Busy) ELSE Cardinality(Busy) + 1
        /\ Cardinality(Busy \ {c}) =
              IF c \in Busy THEN Cardinality(Busy) - 1 ELSE Cardinality(Busy)
    BY BusyFinite, FS_AddElement, FS_RemoveElement
  <2>2. CountOf(conn[c]) = IF c \in Busy THEN 1 ELSE 0
    BY <1>3 DEF CountOf
  <2>3. CASE s \in Counted
    <3>1. CountOf(s) = 1 /\ Busy' = Busy \cup {c}
      BY <2>3, <1>2 DEF CountOf
    <3> QED
      BY <3>1, <2>1, <2>2, BusyFinite
  <2>4. CASE s \notin Counted
    <3>1. CountOf(s) = 0 /\ Busy' = Busy \ {c}
      BY <2>4, <1>2 DEF CountOf
    <3> QED
      BY <3>1, <2>1, <2>2, BusyFinite
  <2> QED
    BY <2>3, <2>4
<1>5. inFlight' = Cardinality(Busy')
  BY <1>4 DEF Go, InFlightIsSum, Busy
<1>6. Busy' \in SUBSET Conns
  BY DEF Busy
<1>7. inFlight' \in 0..Cardinality(Conns)
  BY <1>5, <1>6, ServerAssumption, FS_Subset, FS_CardinalityType
<1> QED
  BY <1>1, <1>5, <1>7 DEF Go, InFlightIsSum, Busy

LEMMA NobodyBusy == InFlightIsSum /\ inFlight = 0 =>
                      \A c \in Conns : conn[c] \notin {"body", "calling", "writing"}
BY BusyFinite DEF InFlightIsSum, Busy

(***************************************************************************)
(* A step of a task of which only Go changes what drain looks at.          *)
(***************************************************************************)
LEMMA GoKeeps ==
  ASSUME Inv, NEW c \in Conns, NEW s \in ConnPCs, Polling, Go(c, s),
         UNCHANGED <<main, graceOver>>,
         woken' = woken \/ NotifyWaiters,
         CountOf(conn[c]) <= CountOf(s) \/ NotifyWaiters
  PROVE  InFlightIsSum' /\ DrainNotLost' /\ GracefulStop' /\ CallsAreDriven'
<1> USE DEF Inv
<1>1. InFlightIsSum' /\ inFlight' = inFlight - CountOf(conn[c]) + CountOf(s)
  BY GoCounts
<1>2. inFlight \in Nat /\ CountOf(conn[c]) \in Nat /\ CountOf(s) \in Nat
  BY BusyFinite DEF TypeOK, CountOf
<1>3. DrainNotLost'
  <2>1. CASE NotifyWaiters
    BY <2>1 DEF NotifyWaiters, DrainNotLost
  <2>2. CASE woken' = woken /\ CountOf(conn[c]) <= CountOf(s)
    BY <1>1, <1>2, <2>2 DEF DrainNotLost
  <2> QED
    BY <2>1, <2>2
<1>4. main' \in {"serving", "draining"}
  BY DEF Polling
<1> QED
  BY <1>1, <1>3, <1>4 DEF GracefulStop, CallsAreDriven

(***************************************************************************)
(* Steps that leave every task where it is, and those that move tasks      *)
(* between points at which they are not counted.                           *)
(***************************************************************************)
LEMMA CountKeeps ==
  ASSUME Inv, conn' \in [Conns -> ConnPCs], UNCHANGED inFlight,
         \A c \in Conns : conn'[c] = conn[c] \/ (conn[c] \notin Counted /\ conn'[c] \notin Counted)
  PROVE  InFlightIsSum' /\ inFlight' \in 0..Cardinality(Conns)
<1>1. Busy' = Busy
  BY DEF Busy, Counted
<1> QED
  BY <1>1 DEF Inv, TypeOK, InFlightIsSum, Busy

\* What a poll of a task changes besides Go.
LEMMA PollNext ==
  ASSUME Inv, NEW c \in Conns,
         ReadHeaders(c) \/ ReadBody(c) \/ ResponseWritten(c) \/ HandleReturns(c) \/ Accept(c)
  PROVE  Inv'
<1> USE ServerAssumption DEF Inv
<1>1. /\ Polling /\ UNCHANGED <<main, backoff, graceOver, killed, cancel, shutdownRequested, sent>>
      /\ woken' = woken \/ NotifyWaiters
  BY DEF ReadHeaders, ReadBody, ResponseWritten, HandleReturns, Accept, mainVars, signalVars,
         clientVars
<1>2. woken' \in BOOLEAN
  BY <1>1 DEF NotifyWaiters, TypeOK
<1>3. calling = Nobody /\ \A d \in Conns : conn[d] # "calling"
  BY <1>1 DEF Polling, TaskAt
<1> DEFINE Others == \A d \in Conns \ {c} : buffered'[d] = buffered[d] /\ served'[d] = served[d]
<1> DEFINE Types == /\ arrived' \in [Conns -> Nat] /\ buffered' \in [Conns -> Nat]
                    /\ served' \in [Conns -> 0..MaxKeepalive]
<1>4. ASSUME NEW s \in ConnPCs, Go(c, s), Types, Others,
             CountOf(conn[c]) <= CountOf(s) \/ NotifyWaiters,
             s = "reading" => buffered'[c] < HeaderUnits,
             s = "body" => HeaderUnits <= buffered'[c],
             s \in {"calling", "writing"} => RequestUnits <= buffered'[c],
             s \notin {"none", "backlog", "refused"},
             s # "closed" => served'[c] < MaxKeepalive
      PROVE  Inv'
  <2>1. /\ InFlightIsSum' /\ inFlight' \in 0..Cardinality(Conns)
        /\ conn' \in [Conns -> ConnPCs]
        /\ conn'[c] = s /\ \A d \in Conns \ {c} : conn'[d] = conn[d]
    BY <1>4, GoCounts
  <2>2. DrainNotLost' /\ GracefulStop' /\ CallsAreDriven'
    BY <1>1, <1>4, GoKeeps
  <2>3. calling' = IF s = "calling" THEN c ELSE Nobody
    BY <1>4 DEF Go
  <2>4. TypeOK'
    <3>1. calling' \in Conns \cup {Nobody}
      BY <2>3
    <3> QED
      BY <1>1, <1>2, <1>4, <2>1, <3>1 DEF TypeOK
  <2>5. TaskAt(c)'
    BY <1>4, <2>1, <2>3 DEF TaskAt
  <2>6. ASSUME NEW d \in Conns \ {c} PROVE TaskAt(d)'
    BY <1>3, <1>4, <2>1, <2>3 DEF TaskAt
  <2> QED
    BY <2>1, <2>2, <2>4, <2>5, <2>6
<1>5. CASE ReadHeaders(c)
  <2>1. PICK n \in 1..arrived[c] : Take(c, n) /\ Go(c, Parsed(buffered[c] + n))
    BY <1>5 DEF ReadHeaders
  <2>2. served' = served /\ conn[c] = "reading"
    BY <1>5 DEF ReadHeaders
  <2>3. n \in Nat /\ n <= arrived[c] /\ arrived[c] \in Nat /\ buffered[c] \in Nat
    BY <2>1 DEF TypeOK
  <2>4. Types /\ Others /\ buffered'[c] = buffered[c] + n
    BY <2>1, <2>2, <2>3 DEF Take, TypeOK
  <2>5. /\ Parsed(buffered'[c]) \in ConnPCs /\ CountOf(conn[c]) <= CountOf(Parsed(buffered'[c]))
        /\ Parsed(buffered'[c]) \in {"reading", "body", "calling"}
    BY <2>2 DEF Parsed, ConnPCs, Counted, CountOf
  <2>6. served'[c] < MaxKeepalive
    BY <2>2 DEF TaskAt
  <2> QED
    BY <1>4, <2>1, <2>3, <2>4, <2>5, <2>6 DEF Parsed, HeaderUnits, RequestUnits
<1>6. CASE ReadBody(c)
  <2>1. /\ Take(c, 1) /\ Go(c, "calling") /\ served' = served
        /\ conn[c] = "body" /\ arrived[c] > 0
    BY <1>6 DEF ReadBody
  <2>2. arrived[c] \in Nat /\ buffered[c] \in Nat /\ HeaderUnits <= buffered[c]
    BY <2>1 DEF TypeOK, TaskAt
  <2>3. Types /\ Others /\ buffered'[c] = buffered[c] + 1
    BY <2>1, <2>2 DEF Take, TypeOK
  <2>4. CountOf(conn[c]) <= CountOf("calling") /\ "calling" \in ConnPCs
    BY <2>1 DEF CountOf, Counted, ConnPCs
  <2>5. served'[c] < MaxKeepalive /\ RequestUnits <= buffered'[c]
    BY <2>1, <2>2, <2>3 DEF TaskAt, HeaderUnits, RequestUnits
  <2> QED
    BY <1>4, <2>1, <2>3, <2>4, <2>5
<1>7. CASE ResponseWritten(c)
  <2> DEFINE s == AfterAnswer(c, served'[c], buffered'[c])
  <2>1. /\ conn[c] = "writing" /\ Go(c, s) /\ NotifyWaiters /\ arrived' = arrived
        /\ served' = [served EXCEPT ![c] = @ + 1]
        /\ buffered' = [buffered EXCEPT ![c] = @ - RequestUnits]
    BY <1>7 DEF ResponseWritten, clientVars
  <2>2. buffered[c] \in Nat /\ RequestUnits <= buffered[c] /\ served[c] < MaxKeepalive
    BY <2>1 DEF TypeOK, TaskAt
  <2>3. Types /\ Others
    BY <2>1, <2>2 DEF TypeOK, RequestUnits
  <2>4. s \in ConnPCs /\ s \in {"closed", "reading", "body", "calling"}
    BY DEF AfterAnswer, Parsed, ConnPCs, Counted
  <2>5. /\ served'[c] \in Nat /\ buffered'[c] \in Nat
        /\ s # "closed" => served'[c] < MaxKeepalive /\ s = Parsed(buffered'[c])
    BY <2>3 DEF AfterAnswer, TypeOK
  <2>6. /\ s = "reading" => buffered'[c] < HeaderUnits
        /\ s = "body" => HeaderUnits <= buffered'[c]
        /\ s \in {"calling", "writing"} => RequestUnits <= buffered'[c]
    BY <2>4, <2>5 DEF Parsed, HeaderUnits, RequestUnits
  <2> HIDE DEF s
  <2> QED
    BY <1>4, <2>1, <2>3, <2>4, <2>5, <2>6
<1>8. CASE HandleReturns(c)
  <2>1. /\ conn[c] \in {"reading", "body", "writing"} /\ Go(c, "closed")
        /\ UNCHANGED <<arrived, buffered, served>>
        /\ conn[c] \in Counted => NotifyWaiters
    BY <1>8 DEF HandleReturns, clientVars
  <2>2. CountOf(conn[c]) <= CountOf("closed") \/ NotifyWaiters
    BY <2>1 DEF CountOf
  <2>3. Types /\ Others /\ "closed" \in ConnPCs
    BY <2>1 DEF TypeOK, ConnPCs
  <2> QED
    BY <1>4, <2>1, <2>2, <2>3
<1>9. CASE Accept(c)
  <2>1. /\ conn[c] = "backlog" /\ Go(c, "reading")
        /\ UNCHANGED <<arrived, buffered, served>>
    BY <1>9 DEF Accept, clientVars
  <2>2. CountOf(conn[c]) <= CountOf("reading") /\ "reading" \in ConnPCs
    BY <2>1 DEF CountOf, Counted, ConnPCs
  <2>3. buffered'[c] < HeaderUnits /\ served'[c] < MaxKeepalive
    BY <2>1 DEF TaskAt, HeaderUnits
  <2>4. Types /\ Others
    BY <2>1 DEF TypeOK
  <2> QED
    BY <1>4, <2>1, <2>2, <2>3, <2>4
<1> QED
  BY <1>5, <1>6, <1>7, <1>8, <1>9

LEMMA CallReturnsNext == ASSUME Inv, NEW c \in Conns, CallReturns(c) PROVE Inv'
<1> USE ServerAssumption DEF Inv
<1>1. /\ calling = c /\ conn[c] = "calling" /\ calling' = Nobody /\ Go(c, "writing")
      /\ UNCHANGED <<mainVars, signalVars, clientVars, buffered, served>>
  BY DEF CallReturns, Go, TaskAt
<1>2. "writing" \in ConnPCs /\ CountOf("writing") = 1 /\ CountOf(conn[c]) = 1
  BY <1>1 DEF ConnPCs, Counted, CountOf
<1>3. /\ InFlightIsSum' /\ inFlight' \in 0..Cardinality(Conns) /\ inFlight' = inFlight
      /\ conn' \in [Conns -> ConnPCs]
      /\ conn'[c] = "writing" /\ \A d \in Conns \ {c} : conn'[d] = conn[d]
  BY <1>1, <1>2, GoCounts DEF TypeOK
<1>4. TypeOK'
  BY <1>1, <1>3 DEF TypeOK, mainVars, signalVars, clientVars
<1>5. main' \in {"serving", "draining"} /\ main' = main /\ woken' = woken
  BY <1>1 DEF CallsAreDriven, mainVars
<1>6. DrainNotLost' /\ GracefulStop' /\ CallsAreDriven'
  BY <1>3, <1>5 DEF DrainNotLost, GracefulStop, CallsAreDriven
<1>7. \A d \in Conns : TaskAt(d)'
  BY <1>1, <1>3 DEF TaskAt
<1> QED
  BY <1>3, <1>4, <1>6, <1>7

\* Clients, signals and timers, which run also during a call.
LEMMA OutsideNext ==
  ASSUME Inv, Client \/ Signal \/ Kill \/ GraceElapses \/ AcceptFails \/ BackoffEnds
  PROVE  Inv'
<1> USE ServerAssumption DEF Inv, signalVars, mainVars, clientVars, connVars
<1>1. ASSUME NEW c \in Conns, Connect(c) PROVE Inv'
  <2>1. /\ conn[c] = "none" /\ main = "serving" /\ conn' = [conn EXCEPT ![c] = "backlog"]
        /\ UNCHANGED <<mainVars, signalVars, clientVars, calling, buffered, served, inFlight>>
    BY <1>1 DEF Connect
  <2>2. /\ conn' \in [Conns -> ConnPCs] /\ conn'[c] = "backlog"
        /\ \A d \in Conns \ {c} : conn'[d] = conn[d]
    BY <2>1 DEF TypeOK, ConnPCs
  <2>3. InFlightIsSum' /\ inFlight' \in 0..Cardinality(Conns)
    BY <2>1, <2>2, CountKeeps DEF Counted
  <2>4. TypeOK'
    BY <2>1, <2>2, <2>3 DEF TypeOK
  <2>5. DrainNotLost' /\ GracefulStop' /\ CallsAreDriven'
    BY <2>1 DEF DrainNotLost, GracefulStop, CallsAreDriven
  <2>6. \A d \in Conns : TaskAt(d)'
    BY <2>1, <2>2 DEF TaskAt
  <2> QED
    BY <2>3, <2>4, <2>5, <2>6
<1>2. CASE conn' = conn /\ UNCHANGED <<calling, buffered, served, inFlight>>
  <2>1. InFlightIsSum' /\ inFlight' \in 0..Cardinality(Conns)
    BY <1>2, CountKeeps DEF TypeOK
  <2>2. \A d \in Conns : TaskAt(d)'
    BY <1>2 DEF TaskAt
  <2>3. ASSUME NEW c \in Conns, Send(c) PROVE Inv'
    <3>1. TypeOK'
      BY <2>3, <2>1 DEF Send, TypeOK, RequestUnits
    <3> QED
      BY <2>1, <2>2, <2>3, <3>1 DEF Send, DrainNotLost, GracefulStop, CallsAreDriven
  <2>4. CASE Signal \/ Kill
    <3>1. killed' \in BOOLEAN /\ cancel' \in BOOLEAN /\ shutdownRequested' \in BOOLEAN
      BY <2>4 DEF Signal, Kill, TypeOK
    <3>2. TypeOK'
      BY <2>4, <2>1, <3>1 DEF Signal, Kill, TypeOK
    <3> QED
      BY <2>1, <2>2, <2>4, <3>2 DEF Signal, Kill, DrainNotLost, GracefulStop, CallsAreDriven
  <2>5. CASE GraceElapses
    <3>1. TypeOK'
      BY <2>5, <2>1 DEF GraceElapses, TypeOK
    <3> QED
      BY <2>1, <2>2, <2>5, <3>1 DEF GraceElapses, DrainNotLost, GracefulStop, CallsAreDriven
  <2>6. CASE AcceptFails \/ BackoffEnds
    <3>1. TypeOK'
      BY <2>6, <2>1 DEF AcceptFails, BackoffEnds, TypeOK
    <3> QED
      BY <2>1, <2>2, <2>6, <3>1
      DEF AcceptFails, BackoffEnds, DrainNotLost, GracefulStop, CallsAreDriven
  <2>7. ASSUME NEW c \in Conns, Connect(c) PROVE Inv'
    BY <2>7, <1>1
  <2> QED
    BY <2>3, <2>4, <2>5, <2>6, <2>7 DEF Client
<1>3. \/ \E c \in Conns : Connect(c)
      \/ conn' = conn /\ UNCHANGED <<calling, buffered, served, inFlight>>
  BY DEF Client, Send, Signal, Kill, GraceElapses, AcceptFails, BackoffEnds
<1> QED
  BY <1>1, <1>2, <1>3

\* The future block_on drives.
LEMMA MainNext == ASSUME Inv, MainPoll \/ Teardown \/ Abandon PROVE Inv'
<1> USE ServerAssumption DEF Inv, signalVars, mainVars, clientVars, connVars
<1>1. ASSUME Polling, DrainLooks,
             UNCHANGED <<backoff, graceOver, signalVars, clientVars, calling, buffered,
                         served, inFlight>>,
             conn' \in [Conns -> ConnPCs],
             \A c \in Conns : conn'[c] = conn[c] \/
                              (conn[c] = "backlog" /\ conn'[c] = "refused")
      PROVE  Inv'
  <2>1. InFlightIsSum' /\ inFlight' \in 0..Cardinality(Conns)
    BY <1>1, CountKeeps DEF Counted
  <2>2. main' \in {"stopped", "draining"} /\ woken' = FALSE /\ woken' \in BOOLEAN
    BY <1>1 DEF DrainLooks
  <2>3. TypeOK'
    BY <1>1, <2>1, <2>2 DEF TypeOK
  <2>4. DrainNotLost'
    BY <1>1, <2>1, BusyFinite DEF DrainLooks, DrainNotLost, TypeOK
  <2>5. \A c \in Conns : TaskAt(c)'
    BY <1>1 DEF TaskAt
  <2>6. GracefulStop'
    <3>1. SUFFICES ASSUME main' = "stopped", ~graceOver', NEW c \in Conns
                   PROVE  /\ conn'[c] \notin {"body", "calling", "writing"}
                          /\ conn'[c] = "reading" => buffered'[c] < HeaderUnits
      BY DEF GracefulStop
    <3>2. inFlight = 0
      BY <1>1, <3>1 DEF DrainLooks
    <3>3. conn[c] \notin {"body", "calling", "writing"}
      BY <3>2, NobodyBusy
    <3> QED
      BY <1>1, <3>3, <2>5 DEF TaskAt
  <2>7. CallsAreDriven'
    BY <1>1 DEF Polling, CallsAreDriven
  <2> QED
    BY <2>1, <2>3, <2>4, <2>5, <2>6, <2>7
<1>2. CASE ShutdownNoticed
  <2>1. conn' = [c \in Conns |-> IF conn[c] = "backlog" THEN "refused" ELSE conn[c]]
    BY <1>2 DEF ShutdownNoticed
  <2>2. conn' \in [Conns -> ConnPCs]
    BY <2>1 DEF TypeOK, ConnPCs
  <2> QED
    BY <1>1, <1>2, <2>1, <2>2 DEF ShutdownNoticed
<1>3. CASE DrainWakes
  BY <1>1, <1>3 DEF DrainWakes, TypeOK
<1>4. CASE DrainTimesOut
  <2>1. InFlightIsSum' /\ inFlight' \in 0..Cardinality(Conns)
    BY <1>4, CountKeeps DEF DrainTimesOut, TypeOK
  <2>2. TypeOK'
    BY <1>4, <2>1 DEF DrainTimesOut, TypeOK
  <2>3. \A c \in Conns : TaskAt(c)'
    BY <1>4 DEF DrainTimesOut, TaskAt
  <2> QED
    BY <1>4, <2>1, <2>2, <2>3
    DEF DrainTimesOut, DrainNotLost, GracefulStop, CallsAreDriven, Polling
<1>5. CASE Teardown
  <2>1. /\ main = "stopped" /\ main' = "returned" /\ inFlight' = 0 /\ calling = Nobody
        /\ UNCHANGED <<backoff, graceOver, woken, signalVars, clientVars, calling, buffered, served>>
        /\ conn' = [c \in Conns |-> IF conn[c] \in {"none", "refused"} THEN conn[c] ELSE "closed"]
    BY <1>5 DEF Teardown, CallsAreDriven
  <2>2. conn' \in [Conns -> ConnPCs] /\ Busy' = {}
    BY <2>1 DEF TypeOK, ConnPCs, Busy
  <2>3. InFlightIsSum' /\ inFlight' \in 0..Cardinality(Conns)
    BY <2>1, <2>2, BusyFinite, FS_EmptySet DEF InFlightIsSum, Busy
  <2>4. TypeOK'
    BY <2>1, <2>2, <2>3 DEF TypeOK
  <2>5. \A c \in Conns : TaskAt(c)'
    BY <2>1 DEF TaskAt
  <2> QED
    BY <2>1, <2>3, <2>4, <2>5 DEF DrainNotLost, GracefulStop, CallsAreDriven
<1>6. CASE Abandon
  <2>1. InFlightIsSum' /\ inFlight' \in 0..Cardinality(Conns)
    BY <1>6, CountKeeps DEF Abandon, TypeOK
  <2>2. TypeOK'
    BY <1>6, <2>1 DEF Abandon, TypeOK
  <2>3. \A c \in Conns : TaskAt(c)'
    BY <1>6 DEF Abandon, TaskAt
  <2> QED
    BY <1>6, <2>1, <2>2, <2>3 DEF Abandon, DrainNotLost, GracefulStop, CallsAreDriven
<1> QED
  BY <1>2, <1>3, <1>4, <1>5, <1>6 DEF MainPoll

LEMMA InvNext == Inv /\ [Next]_vars => Inv'
<1> SUFFICES ASSUME Inv, [Next]_vars PROVE Inv'
    OBVIOUS
<1>1. CASE UNCHANGED vars
  <2>1. InFlightIsSum' /\ DrainNotLost' /\ GracefulStop' /\ CallsAreDriven'
    BY <1>1 DEF Inv, vars, InFlightIsSum, DrainNotLost, GracefulStop, CallsAreDriven, connVars,
                mainVars
  <2>2. TypeOK'
    BY <1>1 DEF Inv, vars, TypeOK, connVars, mainVars, clientVars, signalVars
  <2>3. \A c \in Conns : TaskAt(c)'
    BY <1>1 DEF Inv, vars, TaskAt, connVars
  <2> QED
    BY <2>1, <2>2, <2>3 DEF Inv
<1> QED
  BY <1>1, PollNext, CallReturnsNext, OutsideNext, MainNext
  DEF Next, ConnPoll, HandlerReturns

(***************************************************************************)
(* The inductive invariant of the server.                                  *)
(***************************************************************************)
THEOREM Invariance == Spec => []Inv
BY InvInit, InvNext, PTL DEF Spec

(***************************************************************************)
(* Types, among them that in_flight_requests never goes below zero or      *)
(* above the number of connections.                                        *)
(***************************************************************************)
THEOREM TypeCorrect == Spec => []TypeOK
<1>1. Inv => TypeOK
  BY DEF Inv
<1> QED
  BY Invariance, <1>1, PTL

(***************************************************************************)
(* in_flight_requests is the number of requests being handled, over every  *)
(* connection and every way a request can end.                             *)
(***************************************************************************)
THEOREM CountIsExact == Spec => []InFlightIsSum
<1>1. Inv => InFlightIsSum
  BY DEF Inv
<1> QED
  BY Invariance, <1>1, PTL

(***************************************************************************)
(* drain, which looks and waits in one poll and is notified after each     *)
(* decrement, never sleeps while nothing is in flight.                     *)
(***************************************************************************)
THEOREM DrainIsNotLost == Spec => []DrainNotLost
<1>1. Inv => DrainNotLost
  BY DEF Inv
<1> QED
  BY Invariance, <1>1, PTL

(***************************************************************************)
(* A shutdown that ends before its grace period has cut no request whose   *)
(* headers had been read, pipelined ones included.                         *)
(***************************************************************************)
THEOREM StopIsGraceful == Spec => []GracefulStop
<1>1. Inv => GracefulStop
  BY DEF Inv
<1> QED
  BY Invariance, <1>1, PTL
=============================================================================
