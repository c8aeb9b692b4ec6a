------------------------------ MODULE MCVideo ------------------------------
(* One video with two jobs, each of which may lose its last callback. *)
EXTENDS Video, TLC

Symmetry == Permutations(Attempts) \cup Permutations(Jobs)
=============================================================================
