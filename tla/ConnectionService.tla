------------------------- MODULE ConnectionService -------------------------
(***************************************************************************)
(* What one keep-alive connection promises to the rest of the server, and  *)
(* all that graceful shutdown may rely on: requests are served one at a    *)
(* time, each is counted in flight from its first to its last step on      *)
(* every path, at most Limit of them are answered, and a connection that   *)
(* has closed never answers again.  Connection.tla implements it.          *)
(***************************************************************************)
EXTENDS Naturals

CONSTANT Limit      \* answers it may give, at least one

VARIABLES phase,      \* what the connection is doing
          answered,   \* responses written completely
          inFlight    \* its contribution to ConnectionCounter

vars == <<phase, answered, inFlight>>

Init == phase = "idle" /\ answered = 0 /\ inFlight = 0

\* The headers of a request are complete.
Begin == /\ phase = "idle"
         /\ phase' = "busy"
         /\ inFlight' = 1
         /\ UNCHANGED answered

\* The request is answered and the connection is kept open for another.
Answer == /\ phase = "busy"
          /\ answered + 1 < Limit
          /\ phase' = "idle"
          /\ answered' = answered + 1
          /\ inFlight' = 0

\* The same with the headers of the next, pipelined request already there.
AnswerAndBegin == /\ phase = "busy"
                  /\ answered + 1 < Limit
                  /\ answered' = answered + 1
                  /\ UNCHANGED <<phase, inFlight>>

\* The last answer the connection may give closes it.
AnswerLast == /\ phase = "busy"
              /\ answered + 1 = Limit
              /\ phase' = "closed"
              /\ answered' = answered + 1
              /\ inFlight' = 0

\* The connection ends without a (complete) answer.
Close == /\ phase \in {"idle", "busy"}
         /\ phase' = "closed"
         /\ inFlight' = 0
         /\ UNCHANGED answered

Next == Begin \/ Answer \/ AnswerAndBegin \/ AnswerLast \/ Close

Spec == Init /\ [][Next]_vars
=============================================================================
