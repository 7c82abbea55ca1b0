----------------------------- MODULE ServerRun -----------------------------
(***************************************************************************)
(* What a run of the server promises whoever started it, abstractly.  Once *)
(* it serves it stops only when asked to, whatever accept, a handler or a  *)
(* client does; from then on it takes no connection and cuts none before   *)
(* it returns; and what returns leaves no connection behind.  A run may    *)
(* fail before it serves.  Only a kill may leave connections as they are.  *)
(***************************************************************************)
VARIABLES
  stage,  \* how far the run has come
  asked,  \* it has been asked to stop
  open    \* the connections that have a task

vars == <<stage, asked, open>>

Init == stage \in {"starting", "serving"} /\ asked = FALSE /\ open = {}

Ask == asked' = TRUE /\ UNCHANGED <<stage, open>>

Begin == /\ stage = "starting" /\ stage' = "serving"
         /\ UNCHANGED <<asked, open>>

Open == /\ stage = "serving"
        /\ \E c \in open' : open' = open \cup {c}
        /\ UNCHANGED <<stage, asked>>

\* A connection ends by itself.
Close == /\ stage \in {"serving", "draining"}
         /\ \E c \in open : open' = open \ {c}
         /\ UNCHANGED <<stage, asked>>

Stop == /\ stage = "serving" /\ asked
        /\ stage' = "draining"
        /\ UNCHANGED <<asked, open>>

Return == /\ stage \in {"starting", "draining"}
          /\ stage' = "returned" /\ open' = {}
          /\ UNCHANGED asked

LeftByKill == /\ stage \in {"starting", "draining"}
              /\ stage' = "killed"
              /\ UNCHANGED <<asked, open>>

Next == Ask \/ Begin \/ Open \/ Close \/ Stop \/ Return \/ LeftByKill

Spec == Init /\ [][Next]_vars

\* A run that has been asked to stop is over some time.
Completes == asked ~> (stage \in {"returned", "killed"})
=============================================================================
