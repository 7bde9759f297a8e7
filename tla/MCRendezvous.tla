---------------------------- MODULE MCRendezvous ----------------------------
(* Model checking of Rendezvous. *)
EXTENDS Rendezvous, TLC

ThreadSymmetry == Permutations(Threads)
=============================================================================
