------------------------------ MODULE Sessions ------------------------------
(***************************************************************************)
(* What the login service promises its clients: a name belongs to one      *)
(* session at a time, only names with an account get one, a client that    *)
(* was told so has it or is about to, and it ends when that client asks.   *)
(***************************************************************************)
CONSTANTS Name,     \* user names
          Conn,     \* connections
          NoName    \* the absence of a name

VARIABLES accounts,  \* the names that have an account
          told,      \* the name under which each connected client was greeted
          online     \* the sessions listed: pairs of a name and a connection

vars == <<accounts, told, online>>

Init ==
  /\ accounts \in SUBSET Name
  /\ told = [c \in Conn |-> NoName]
  /\ online = {}

NameOnline(n) == \E s \in online : s[1] = n
ConnOnline(c) == \E s \in online : s[2] = c

\* A new account.
Create(n) ==
  /\ n \notin accounts
  /\ accounts' = accounts \cup {n}
  /\ UNCHANGED <<told, online>>

\* The client of connection c is told that it is logged in as n. Nobody else is.
Greet(c, n) ==
  /\ n \in accounts
  /\ ~NameOnline(n) /\ ~ConnOnline(c)
  /\ \A d \in Conn : told[d] # n
  /\ told' = [told EXCEPT ![c] = n]
  /\ UNCHANGED <<accounts, online>>

\* The session is listed.
Enter(c, n) ==
  /\ n \in accounts
  /\ ~NameOnline(n) /\ ~ConnOnline(c)
  /\ online' = online \cup {<<n, c>>}
  /\ UNCHANGED <<accounts, told>>

\* The session of a client that asked for it ends: that one, no other.
Leave(c) ==
  /\ <<told[c], c>> \in online
  /\ online' = online \ {<<told[c], c>>}
  /\ told' = [told EXCEPT ![c] = NoName]
  /\ UNCHANGED accounts

\* The client is gone without a word; its session stays listed.
Vanish(c) ==
  /\ told[c] # NoName
  /\ told' = [told EXCEPT ![c] = NoName]
  /\ UNCHANGED <<accounts, online>>

Next ==
  \/ \E n \in Name : Create(n)
  \/ \E c \in Conn :
       \/ Leave(c) \/ Vanish(c)
       \/ \E n \in Name : Greet(c, n) \/ Enter(c, n)

Spec == Init /\ [][Next]_vars
=============================================================================
