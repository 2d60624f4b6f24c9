------------------------------ MODULE NameSet ------------------------------
(***************************************************************************)
(* The names reserved by the logins in progress: an array of names and a   *)
(* count (NameSet in Server.h, pushNameSet and pullNameSet in Server.c),   *)
(* here a sequence. Each function holds the write lock throughout, so it   *)
(* is one step of its caller.                                              *)
(***************************************************************************)
EXTENDS Integers, SequencesExt

\* Mutant: the name is stored although it is there already.
PushNameSetAlways(names, name) == Append(names, name)

\* pushNameSet stores a name that is not there yet ...
PushNameSet(names, name) ==
  IF name \in ToSet(names) THEN names ELSE Append(names, name)

\* Mutant: it says so for a name that another login has reserved, too.
PushAlwaysSucceeds(names, name) == TRUE

\* ... and says whether it did.
PushSucceeds(names, name) == name \notin ToSet(names)

\* pullNameSet removes a name where it is; the flag that should say whether
\* it was found is set for any name, so a name that is not there removes the
\* last one.
PullPosition(names, name) ==
  IF name \in ToSet(names) THEN CHOOSE i \in DOMAIN names : names[i] = name
                           ELSE Len(names)

PullNameSet(names, name) ==
  IF names = <<>> THEN <<>> ELSE RemoveAt(names, PullPosition(names, name))

-----------------------------------------------------------------------------
(* The loops of pullNameSet: every match moves the names behind it one     *)
(* place forward, the last name stays where it is, and the count goes down *)
(* once after the loop.                                                    *)

\* Mutant: the inner loop starts behind the match.
MoveForwardLate(names, i) ==
  [j \in DOMAIN names |->
     IF i < j /\ j < Len(names) THEN names[j + 1] ELSE names[j]]

MoveForward(names, i) ==
  [j \in DOMAIN names |->
     IF i <= j /\ j < Len(names) THEN names[j + 1] ELSE names[j]]

PullNameSetLoop(names, name) ==
  LET visited[i \in 0 .. Len(names)] ==   \* the array after i passes of the outer loop
        IF i = 0 THEN names
        ELSE IF visited[i - 1][i] = name THEN MoveForward(visited[i - 1], i)
        ELSE visited[i - 1]
  IN  IF names = <<>> THEN <<>> ELSE Front(visited[Len(names)])
=============================================================================
