------------------------------- MODULE Server -------------------------------
(***************************************************************************)
(* The running server and its graceful shutdown: the accept loop of        *)
(* engine `serve`, a task per connection, ConnectionCounter and its drain, *)
(* and the select! in _serve_native that races `serve` against `cancelled` *)
(* and then drains.                                                        *)
(*                                                                         *)
(* Everything runs on one OS thread: a step is one poll of a task, from an *)
(* await to the next, except that Handler::call takes time.  While it runs *)
(* (`calling` = the connection it is for) nothing else is polled, but      *)
(* signals, timers and clients go on.                                      *)
(*                                                                         *)
(* A connection is what ConnectionService promises of it, with just enough *)
(* of its buffer to tell what a poll finds: a request is three units, the  *)
(* first bytes of its headers, their end, and its body.                    *)
(***************************************************************************)
EXTENDS Integers, FiniteSets

CONSTANTS Conns,         \* connections
          Nobody,        \* no connection: no handler is running
          MaxKeepalive,  \* max_keepalive
          MaxRequests    \* bound: requests a client sends on a connection

ASSUME ServerAssumption == /\ IsFiniteSet(Conns) /\ Nobody \notin Conns
                           /\ MaxKeepalive \in Nat \ {0}
                           /\ MaxRequests \in Nat

VARIABLES
  main,               \* the future block_on drives
  backoff,            \* `serve` sleeps after a failed accept
  killed,             \* a Thread#kill has been sent
  cancel,             \* the flag the unblock function sets
  shutdownRequested,  \* SHUTDOWN_REQUESTED
  graceOver,          \* grace_period has elapsed since the drain began
  woken,              \* the Notified that drain awaits has been notified
  calling,            \* the connection whose Handler::call is running, if any
  conn,               \* where each connection's task stands
  arrived,            \* units the kernel holds for each connection
  buffered,           \* units in its buffer
  sent,               \* units its client has sent
  served,             \* requests_served, answered completely
  inFlight            \* in_flight_requests

signalVars == <<killed, cancel, shutdownRequested>>
mainVars == <<main, backoff, graceOver, woken>>
clientVars == <<arrived, sent>>
connVars == <<calling, conn, buffered, served, inFlight>>
vars == <<mainVars, signalVars, clientVars, connVars>>

HeaderUnits == 2
RequestUnits == 3

\* Slip: the guard is made just before Handler::call, behind the body.
XCountedFromCall == {"calling", "writing"}

\* Where the InFlightGuard of a connection is alive.
Counted == {"body", "calling", "writing"}

ConnPCs == {"none", "backlog", "refused", "reading", "closed"} \cup Counted

Init == /\ main = "serving" /\ backoff = FALSE
        /\ killed = FALSE /\ cancel = FALSE /\ shutdownRequested = FALSE
        /\ graceOver = FALSE /\ woken = FALSE
        /\ calling = Nobody
        /\ conn = [c \in Conns |-> "none"]
        /\ arrived = [c \in Conns |-> 0]
        /\ buffered = [c \in Conns |-> 0]
        /\ sent = [c \in Conns |-> 0]
        /\ served = [c \in Conns |-> 0]
        /\ inFlight = 0

-----------------------------------------------------------------------------
(***************************************************************************)
(* Clients, signals and timers.                                            *)
(***************************************************************************)
Connect(c) == /\ main = "serving" /\ conn[c] = "none"
              /\ conn' = [conn EXCEPT ![c] = "backlog"]
              /\ UNCHANGED <<mainVars, signalVars, clientVars, calling, buffered, served, inFlight>>

Send(c) == /\ conn[c] \in {"backlog", "reading"} \cup Counted
           /\ sent[c] < RequestUnits * MaxRequests
           /\ sent' = [sent EXCEPT ![c] = @ + 1]
           /\ arrived' = [arrived EXCEPT ![c] = @ + 1]
           /\ UNCHANGED <<mainVars, signalVars, connVars>>

\* The trap body stores the flag; whether the signal also reaches the unblock
\* function is up to Ruby (it may not, during blocking I/O in a handler).
Signal == /\ shutdownRequested' = TRUE
          /\ cancel' \in {cancel, TRUE}
          /\ UNCHANGED <<killed, mainVars, clientVars, connVars>>

\* Thread#kill runs the unblock function, unless a handler has the GVL.
Kill == /\ killed' = TRUE
        /\ cancel' = (cancel \/ calling = Nobody)
        /\ UNCHANGED <<shutdownRequested, mainVars, clientVars, connVars>>

GraceElapses == /\ main = "draining" /\ ~graceOver
                /\ graceOver' = TRUE
                /\ UNCHANGED <<main, backoff, woken, signalVars, clientVars, connVars>>

-----------------------------------------------------------------------------
(***************************************************************************)
(* Polls of a connection's task.                                           *)
(***************************************************************************)
\* The runtime can poll something: no handler runs, and block_on is driving.
Polling == calling = Nobody /\ main \in {"serving", "draining"}

\* What the parse loop comes to with b units buffered.
Parsed(b) == IF b < HeaderUnits THEN "reading"
             ELSE IF b < RequestUnits THEN "body" ELSE "calling"

CountOf(s) == IF s \in Counted THEN 1 ELSE 0

\* Slip: the count goes down without a notify.
XNotifyNobody == UNCHANGED woken

NotifyWaiters == woken' = (woken \/ main = "draining")

\* Slips: the count goes down by hand, after an answer only, or not at all.
XGoByHand(c, s) ==
  /\ conn' = [conn EXCEPT ![c] = s]
  /\ inFlight' = inFlight - (IF conn[c] = "writing" THEN 1 ELSE 0) + CountOf(s)
  /\ calling' = IF s = "calling" THEN c ELSE Nobody

XGoUp(c, s) ==
  /\ conn' = [conn EXCEPT ![c] = s]
  /\ inFlight' = inFlight + CountOf(s)
  /\ calling' = IF s = "calling" THEN c ELSE Nobody

\* The task of c goes on to s: the guard it held is dropped, with a notify,
\* and a new one made, with no await and so no other task in between.
Go(c, s) == /\ conn' = [conn EXCEPT ![c] = s]
            /\ inFlight' = inFlight - CountOf(conn[c]) + CountOf(s)
            /\ calling' = IF s = "calling" THEN c ELSE Nobody

Take(c, n) == /\ arrived' = [arrived EXCEPT ![c] = @ - n]
              /\ buffered' = [buffered EXCEPT ![c] = @ + n]

\* Bytes arrive while headers are read: as many as there are.
ReadHeaders(c) == /\ Polling /\ conn[c] = "reading"
                  /\ \E n \in 1..arrived[c] : Take(c, n) /\ Go(c, Parsed(buffered[c] + n))
                  /\ UNCHANGED <<mainVars, signalVars, sent, served>>

\* A body is read up to its end only, and then the handler is called.
ReadBody(c) == /\ Polling /\ conn[c] = "body" /\ arrived[c] > 0
               /\ Take(c, 1)
               /\ Go(c, "calling")
               /\ UNCHANGED <<mainVars, signalVars, sent, served>>

CallReturns(c) == /\ calling = c
                  /\ Go(c, "writing")
                  /\ UNCHANGED <<mainVars, signalVars, clientVars, buffered, served>>

\* Slip: the connection is kept open for one request too many.
XAfterAnswerLate(c, n, b) == IF n > MaxKeepalive THEN "closed" ELSE Parsed(b)

\* After max_keepalive answers the connection is closed, else the parse loop
\* goes on with what is buffered.
AfterAnswer(c, n, b) == IF n >= MaxKeepalive THEN "closed" ELSE Parsed(b)

ResponseWritten(c) ==
  /\ Polling /\ conn[c] = "writing"
  /\ served' = [served EXCEPT ![c] = @ + 1]
  /\ buffered' = [buffered EXCEPT ![c] = @ - RequestUnits]
  /\ Go(c, AfterAnswer(c, served'[c], buffered'[c]))
  /\ NotifyWaiters
  /\ UNCHANGED <<main, backoff, graceOver, signalVars, clientVars>>

\* EOF, a socket error, the idle timeout, a rejection: `handle` returns.
HandleReturns(c) == /\ Polling /\ conn[c] \in {"reading", "body", "writing"}
                    /\ Go(c, "closed")
                    /\ IF conn[c] \in Counted THEN NotifyWaiters ELSE UNCHANGED woken
                    /\ UNCHANGED <<main, backoff, graceOver, signalVars, clientVars,
                                   buffered, served>>

-----------------------------------------------------------------------------
(***************************************************************************)
(* Polls of the future block_on drives.                                    *)
(***************************************************************************)
Accept(c) == /\ Polling /\ main = "serving" /\ ~backoff
             /\ conn[c] = "backlog"
             /\ Go(c, "reading")
             /\ UNCHANGED <<mainVars, signalVars, clientVars, buffered, served>>

\* Slip: `?` on accept ends serve, and with it the select!.
XAcceptEndsServe == /\ Polling /\ main = "serving" /\ ~backoff
                    /\ main' = "draining"
                    /\ UNCHANGED <<backoff, graceOver, woken, signalVars, clientVars, connVars>>

\* An error of accept (no file descriptor left, say) is logged and waited out.
AcceptFails == /\ Polling /\ main = "serving" /\ ~backoff
               /\ backoff' = TRUE
               /\ UNCHANGED <<main, graceOver, woken, signalVars, clientVars, connVars>>

BackoffEnds == /\ Polling /\ main = "serving" /\ backoff
               /\ backoff' = FALSE
               /\ UNCHANGED <<main, graceOver, woken, signalVars, clientVars, connVars>>

\* Slip: only the flag of the unblock function is looked at.
XCancelledByFlag == cancel

\* cancelled's condition, looked at every 20 ms.
Cancelled == cancel \/ shutdownRequested

\* Slip: no drain.
XNoDrain == main' = "stopped" /\ woken' = FALSE

\* drain's loop: register, look, return or wait; when it has to wait, the
\* timeout around it looks at its timer in the same poll.
DrainLooks == /\ main' = IF inFlight = 0 \/ graceOver THEN "stopped" ELSE "draining"
              /\ woken' = FALSE

\* cancelled wins the select!: `serve` and its listener are dropped, which
\* resets what nobody accepted, and drain begins.
ShutdownNoticed ==
  /\ Polling /\ main = "serving"
  /\ Cancelled
  /\ conn' = [c \in Conns |-> IF conn[c] = "backlog" THEN "refused" ELSE conn[c]]
  /\ DrainLooks
  /\ UNCHANGED <<backoff, graceOver, signalVars, clientVars, calling, buffered, served, inFlight>>

DrainWakes == /\ Polling /\ main = "draining" /\ woken
              /\ DrainLooks
              /\ UNCHANGED <<backoff, graceOver, signalVars, clientVars, connVars>>

DrainTimesOut == /\ Polling /\ main = "draining" /\ graceOver
                 /\ main' = "stopped"
                 /\ UNCHANGED <<backoff, graceOver, woken, signalVars, clientVars, connVars>>

\* _serve_native returns: the LocalSet is dropped and its tasks with it.
Teardown == /\ main = "stopped"
            /\ main' = "returned"
            /\ conn' = [c \in Conns |-> IF conn[c] \in {"none", "refused"}
                                        THEN conn[c] ELSE "closed"]
            /\ inFlight' = 0
            /\ UNCHANGED <<backoff, graceOver, woken, signalVars, clientVars,
                           calling, buffered, served>>

\* A kill that is pending when the GVL is taken back ends _serve_native by a
\* non-local exit, and the LocalSet is never dropped.  (A handler may have taken
\* the kill, see ServeNative: then it is Teardown.)
Abandon == /\ main = "stopped" /\ killed
           /\ main' = "abandoned"
           /\ UNCHANGED <<backoff, graceOver, woken, signalVars, clientVars, connVars>>

-----------------------------------------------------------------------------
Client == \E c \in Conns : Connect(c) \/ Send(c)

ConnPoll(c) == ReadHeaders(c) \/ ReadBody(c) \/ ResponseWritten(c)

HandlerReturns == \E c \in Conns : CallReturns(c)

MainPoll == ShutdownNoticed \/ DrainWakes \/ DrainTimesOut

Next == \/ Client \/ Signal \/ Kill \/ GraceElapses
        \/ \E c \in Conns : ConnPoll(c) \/ HandleReturns(c) \/ Accept(c)
        \/ HandlerReturns
        \/ AcceptFails \/ BackoffEnds \/ MainPoll \/ Teardown \/ Abandon

Spec == Init /\ [][Next]_vars

(***************************************************************************)
(* A handler returns; timers elapse; the LocalSet polls the root future    *)
(* again and again, whatever its tasks do (it is polled every tick, but    *)
(* never during a call, hence strong fairness).  Of the connections        *)
(* nothing is assumed: clients need not send and need not read.            *)
(***************************************************************************)
Fairness == /\ WF_vars(HandlerReturns)
            /\ SF_vars(MainPoll) /\ WF_vars(GraceElapses) /\ WF_vars(Teardown \/ Abandon)

FairSpec == Spec /\ Fairness

\* The hypothesis that the client of c reads its responses and the LocalSet polls
\* the task, between calls, until it has.  write_all has no timeout: without it a
\* response may never be written.
ClientReads(c) == SF_vars(ResponseWritten(c))

-----------------------------------------------------------------------------
TypeOK == /\ main \in {"serving", "draining", "stopped", "returned", "abandoned"}
          /\ {backoff, killed, cancel, shutdownRequested, graceOver, woken} \subseteq BOOLEAN
          /\ calling \in Conns \cup {Nobody}
          /\ conn \in [Conns -> ConnPCs]
          /\ arrived \in [Conns -> Nat] /\ buffered \in [Conns -> Nat]
          /\ sent \in [Conns -> 0..(RequestUnits * MaxRequests)]
          /\ served \in [Conns -> 0..MaxKeepalive]
          /\ inFlight \in 0..Cardinality(Conns)

(***************************************************************************)
(* Unless its grace period ran out, a shutdown cuts no request whose       *)
(* headers the server had read: not one whose body is still arriving, and  *)
(* not one that was pipelined behind another and only waits in a buffer.   *)
(***************************************************************************)
GracefulStop ==
  main = "stopped" /\ ~graceOver =>
    \A c \in Conns : /\ conn[c] \notin {"body", "calling", "writing"}
                     /\ conn[c] = "reading" => buffered[c] < HeaderUnits

(***************************************************************************)
(* drain never sleeps through the end of the last request: while it waits, *)
(* a request is in flight or it has been notified.  Idle connections thus  *)
(* do not make a shutdown wait for its grace period.                       *)
(***************************************************************************)
DrainNotLost == main = "draining" => inFlight > 0 \/ woken

(***************************************************************************)
(* The count drain goes by is the number of requests being handled, over   *)
(* all connections and every way a request can end.  A request is handled  *)
(* from the end of its headers on; the doc comments of ConnectionCounter   *)
(* start at Handler::call (Connection's CountedAroundCall).                *)
(***************************************************************************)
InFlightIsSum ==
  inFlight = Cardinality({c \in Conns : conn[c] \in {"body", "calling", "writing"}})

(***************************************************************************)
(* A request the handler has been called for is answered to a client that  *)
(* reads its responses, shutdown or not and whatever other clients do (one *)
(* that does not read, too), unless its connection fails or the grace      *)
(* period runs out.                                                        *)
(***************************************************************************)
CalledIsAnswered ==
  \A c \in Conns, k \in 0..MaxKeepalive - 1 :
    ClientReads(c) =>
      ((conn[c] \in {"calling", "writing"} /\ served[c] = k)
         ~> \/ served[c] > k
            \/ conn[c] = "closed" /\ main \in {"serving", "draining"}
            \/ graceOver)

-----------------------------------------------------------------------------
(***************************************************************************)
(* The inductive invariant.                                                *)
(***************************************************************************)
\* What a task has buffered and answered where it stands.
TaskAt(c) == /\ conn[c] \in {"none", "backlog", "refused"} => buffered[c] = 0
             /\ conn[c] = "reading" => buffered[c] < HeaderUnits
             /\ conn[c] = "body" => HeaderUnits <= buffered[c]
             /\ conn[c] \in {"calling", "writing"} => RequestUnits <= buffered[c]
             /\ conn[c] # "closed" => served[c] < MaxKeepalive
             /\ calling = c <=> conn[c] = "calling"

\* A handler runs only inside block_on.
CallsAreDriven == calling # Nobody => main \in {"serving", "draining"}

(***************************************************************************)
(* What makes GracefulStop inductive: a task never awaits bytes with the   *)
(* headers of a request buffered, so that a count of zero means that there *)
(* is no request, and the count is exact.                                  *)
(***************************************************************************)
Inv == /\ TypeOK /\ InFlightIsSum /\ DrainNotLost /\ GracefulStop
       /\ CallsAreDriven /\ \A c \in Conns : TaskAt(c)

-----------------------------------------------------------------------------
Phase(s) == IF s \in {"closed", "refused"} THEN "closed"
            ELSE IF s \in Counted THEN "busy" ELSE "idle"

Service(c) == INSTANCE ConnectionService
                WITH Limit <- MaxKeepalive, phase <- Phase(conn[c]),
                     answered <- served[c], inFlight <- CountOf(conn[c])

(***************************************************************************)
(* Each connection of the server behaves as ConnectionService says, the    *)
(* promise that Connection implements.                                     *)
(***************************************************************************)
ConnectionsServe ==
  /\ \A c \in Conns : Service(c)!Init
  /\ [][\A c \in Conns : [Service(c)!Next]_(Service(c)!vars)]_vars

-----------------------------------------------------------------------------
\* The run as ServerRun sees it: drain is not over before block_on returns.
Stage == CASE main = "stopped" -> "draining"
           [] main = "abandoned" -> "killed"
           [] OTHER -> main

Run == INSTANCE ServerRun
         WITH stage <- Stage, asked <- cancel \/ shutdownRequested,
              open <- {c \in Conns : conn[c] \in {"reading"} \cup Counted}

(***************************************************************************)
(* serve, the select! and drain implement ServerRun: neither an error of   *)
(* accept nor a connection ends the run, the select! drops the listener    *)
(* and no task, and the end of _serve_native drops every task there is.    *)
(***************************************************************************)
RunSpec == Run!Spec

(***************************************************************************)
(* After a signal, or a kill whose unblock function has run, the server    *)
(* stops, provided handlers return, whatever its clients do: one that      *)
(* stops in the middle of a body or does not read its response keeps the   *)
(* count up for ever, and only the grace period ends the drain.            *)
(***************************************************************************)
ShutdownCompletes == Run!Completes
=============================================================================
