----------------------------- MODULE MCUserList -----------------------------
(* Constants of the runs of UserList. *)
EXTENDS UserList

Symmetry == Permutations(Thread) \cup Permutations(User)
=============================================================================
