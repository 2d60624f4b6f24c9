------------------------------ MODULE MCLogin ------------------------------
(* Constants of the runs of Login. *)
EXTENDS Login

Symmetry == Permutations(Thread) \cup Permutations(Name)
=============================================================================
