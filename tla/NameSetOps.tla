----------------------------- MODULE NameSetOps -----------------------------
(***************************************************************************)
(* Every set of reserved names that pushes and pulls can produce.          *)
(***************************************************************************)
EXTENDS NameSet

CONSTANTS Name,
          MaxNames   \* bound: how many names are reserved together

ASSUME MaxNamesAssumption == MaxNames \in Nat

VARIABLE nameSet

Init == nameSet = <<>>   \* initializeNameSet

Push(name) ==
  /\ Len(nameSet) < MaxNames
  /\ nameSet' = PushNameSet(nameSet, name)

Pull(name) == nameSet' = PullNameSet(nameSet, name)

Next == \E name \in Name : Push(name) \/ Pull(name)

Spec == Init /\ [][Next]_nameSet

-----------------------------------------------------------------------------
(* The loops of pullNameSet compute what PullNameSet says.                 *)
LoopIsPull ==
  \A name \in Name : PullNameSetLoop(nameSet, name) = PullNameSet(nameSet, name)
=============================================================================
