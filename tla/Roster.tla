------------------------------- MODULE Roster -------------------------------
(***************************************************************************)
(* What the list of users promises: users in the order they came, a new    *)
(* one at the end, and a user that leaves makes no other one move.         *)
(***************************************************************************)
EXTENDS SequencesExt

CONSTANT User

VARIABLE users

Init == users = <<>>

Join(u) == users' = Append(users, u)

Leave(u) ==
  /\ u \in ToSet(users)
  /\ users' = RemoveFirst(users, u)

Next == \E u \in User : Join(u) \/ Leave(u)

Spec == Init /\ [][Next]_users
=============================================================================
