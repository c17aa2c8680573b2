------------------------------- MODULE MCPool -------------------------------
(* Pool on a small instance: see MCPool.cfg for the constants. *)
EXTENDS Pool, TLC

Symmetry == Permutations(Procs) \cup Permutations(Sessions)
=============================================================================
