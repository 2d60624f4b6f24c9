---------------------------- MODULE MCLoginQueue ----------------------------
(* Constants of the runs of LoginQueue. *)
EXTENDS LoginQueue, TLC

Symmetry == Permutations(Thread)
=============================================================================
