---------------------------- MODULE MCBodySpool ----------------------------
(***************************************************************************)
(* Two threads that read bodies and yield on each other.                   *)
(***************************************************************************)
EXTENDS BodySpool, TLC

\* Nothing tells one thread from another.
ThreadSymmetry == Permutations(Threads)
=============================================================================
