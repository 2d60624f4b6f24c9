--------------------------- MODULE MCRegistration ---------------------------
(* Constants of the runs of Registration. *)
EXTENDS Registration, TLC

Symmetry == Permutations(Thread)
=============================================================================
