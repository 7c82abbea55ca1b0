-------------------------- MODULE PreemptionSignal --------------------------
(***************************************************************************)
(* What the watchdog promises: a request that outlives its time slice is   *)
(* charged at most once, a request that does not never is, every charge    *)
(* triggers Ruby's postponed job once, possibly after the request is over, *)
(* and nothing is triggered any more once the watchdog has stopped.        *)
(***************************************************************************)
EXTENDS Naturals

VARIABLES alive,     \* the watchdog has not stopped
          open,      \* a request is running under a deadline
          late,      \* and has outlived it
          charged,   \* and that was noticed
          trigger    \* a trigger is owed to Ruby

vars == <<alive, open, late, charged, trigger>>

Init == /\ alive = TRUE /\ open = FALSE /\ late = FALSE
        /\ charged = FALSE /\ trigger = FALSE

Begin == /\ alive /\ ~open
         /\ open' = TRUE /\ late' = FALSE /\ charged' = FALSE
         /\ UNCHANGED <<alive, trigger>>

Expire == /\ open /\ ~late
          /\ late' = TRUE
          /\ UNCHANGED <<alive, open, charged, trigger>>

Charge == /\ open /\ late /\ ~charged /\ ~trigger
          /\ charged' = TRUE /\ trigger' = TRUE
          /\ UNCHANGED <<alive, open, late>>

Trigger == /\ trigger
           /\ trigger' = FALSE
           /\ UNCHANGED <<alive, open, late, charged>>

End == /\ open
       /\ open' = FALSE /\ late' = FALSE /\ charged' = FALSE
       /\ UNCHANGED <<alive, trigger>>

Stop == /\ alive /\ ~open /\ ~trigger
        /\ alive' = FALSE
        /\ UNCHANGED <<open, late, charged, trigger>>

Next == Begin \/ Expire \/ Charge \/ Trigger \/ End \/ Stop

Spec == Init /\ [][Next]_vars
=============================================================================
