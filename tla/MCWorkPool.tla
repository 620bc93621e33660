----------------------------- MODULE MCWorkPool -----------------------------
(* WorkPool with symmetric works and threads. *)
EXTENDS WorkPool, TLC

Symmetry == Permutations(Works) \cup Permutations(Threads)
=============================================================================
