---- MODULE MCSignalTraps ----
(***************************************************************************)
(* SignalTraps with interchangeable calls and signals.                     *)
(***************************************************************************)
EXTENDS SignalTraps, TLC

Symmetry == Permutations(Calls) \cup Permutations(Signals)
====
