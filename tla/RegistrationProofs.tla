-------------------------- MODULE RegistrationProofs --------------------------
(***************************************************************************)
(* For any number of login threads, whose tests and stores interleave: a   *)
(* communication thread exists, or is about to, once a client is counted,  *)
(* and there are never more of them than login threads; and as long as no  *)
(* two of them overlap, every registered client is heard.                  *)
(***************************************************************************)
EXTENDS Registration, FiniteSetTheorems, TLAPS

\* The threads whose client is here and not yet counted.
Uncounted == {t \in Thread : pc[t] \in {"test", "firstInc", "inc"}}

\* Every client is counted exactly once, none before a thread tested 0.
Counted ==
  /\ numCommunication + Cardinality(Uncounted) <= logins
  /\ numCommunication = 0 => created = 0
  /\ \A t \in Thread :
       pc[t] \in {"firstMax", "zero", "firstLoad", "firstStore", "create", "inc"}
         => numCommunication > 0

\* A thread past "login" has the descriptor of its client.
ClientKnown == \A t \in Thread : pc[t] # "login" => connfd[t] \in Fd

\* The inductive invariant of the counts.
IInv == TypeOK /\ ClientKnown /\ Counted /\ ThreadForCounted /\ OneThreadEach

(* Any part of the threads can be counted. *)
LEMMA PartCardinality ==
  ASSUME NEW T \in SUBSET Thread
  PROVE  /\ IsFiniteSet(T)
         /\ Cardinality(T) \in Nat /\ Cardinality(Thread) \in Nat
         /\ Cardinality(T) <= Cardinality(Thread)
BY ThreadAssumption, FS_Subset, FS_CardinalityType

(* At the start nobody is counted. *)
LEMMA InitInv == Init => IInv
<1> SUFFICES ASSUME Init PROVE IInv
  OBVIOUS
<1>1. Firsts = {} /\ Uncounted = {}
  BY DEF Init, Firsts, Uncounted
<1>2. Cardinality({}) = 0 /\ Cardinality(Thread) \in Nat
  BY FS_EmptySet, PartCardinality
<1>3. TypeOK
  <2>1. /\ numCommunication \in 0 .. MaxLogin /\ logins \in 0 .. MaxLogin
        /\ since \in 0 .. MaxMixed
    BY BoundAssumption DEF Init
  <2>2. created \in 0 .. Cardinality(Thread)
    BY <1>2 DEF Init
  <2>3. pc \in [Thread -> {"login"}] /\ commPc \in [CommThread -> {"none"}]
    BY DEF Init
  <2>4. connfd \in [Thread -> {NoFd}] /\ value \in [Thread -> SUBSET Fd]
    BY DEF Init
  <2>5. ready \in [CommThread -> SUBSET Fd] /\ word \in [CommThread -> SUBSET Fd]
    BY DEF Init
  <2>6. request \in [Fd -> {"none"}]
    BY DEF Init
  <2> QED
    BY <2>1, <2>2, <2>3, <2>4, <2>5, <2>6 DEF Init, TypeOK
<1>4. ClientKnown
  BY DEF Init, ClientKnown
<1>5. Counted
  BY <1>1, <1>2 DEF Init, Counted
<1>6. ThreadForCounted
  BY DEF Init, ThreadForCounted
<1>7. OneThreadEach
  BY <1>1, <1>2 DEF Init, OneThreadEach
<1> QED
  BY <1>3, <1>4, <1>5, <1>6, <1>7 DEF IInv
-----------------------------------------------------------------------------
(* A thread that leaves a set of threads, and one that joins it. *)
LEMMA LeaveCardinality ==
  ASSUME NEW S \in SUBSET Thread, NEW t \in S
  PROVE  /\ Cardinality(S \ {t}) = Cardinality(S) - 1
         /\ Cardinality(S) \in Nat /\ Cardinality(S) > 0
<1>1. IsFiniteSet(S) /\ Cardinality(S) \in Nat
  BY PartCardinality
<1>2. Cardinality(S \ {t}) = Cardinality(S) - 1 /\ Cardinality(S \ {t}) \in Nat
  BY <1>1, FS_RemoveElement, PartCardinality
<1> QED
  BY <1>1, <1>2

LEMMA JoinCardinality ==
  ASSUME NEW S \in SUBSET Thread, NEW t \in Thread \ S
  PROVE  /\ Cardinality(S \cup {t}) = Cardinality(S) + 1
         /\ Cardinality(S) \in Nat
BY PartCardinality, FS_AddElement

LoginPc == {"login", "test", "firstInc", "firstMax", "zero", "firstLoad", "firstStore",
            "create", "inc", "maxLoad", "maxStore", "load", "store", "end"}

(* What a step of a login thread does to the two sets of threads. *)
LEMMA GotoProperties ==
  ASSUME TypeOK, NEW t \in Thread, NEW from \in LoginPc, NEW to \in LoginPc,
         Goto(t, from, to)
  PROVE  /\ pc[t] = from
         /\ pc' \in [Thread -> LoginPc]
         /\ pc'[t] = to
         /\ \A s \in Thread \ {t} : pc'[s] = pc[s]
BY DEF TypeOK, Goto, LoginPc

-----------------------------------------------------------------------------
(* A step of a login thread that only moves on after its client is counted, *)
(* or of anybody else, leaves what is counted alone.                        *)
CountsKept ==
  /\ Uncounted' = Uncounted /\ Firsts' = Firsts
  /\ UNCHANGED <<numCommunication, created, logins>>
  /\ \A t \in Thread :
       pc'[t] \in {"firstMax", "zero", "firstLoad", "firstStore", "create", "inc"}
         => pc[t] \in {"firstMax", "zero", "firstLoad", "firstStore", "create", "inc"}

LEMMA CountsKeptSuffices ==
  ASSUME IInv, CountsKept
  PROVE  Counted' /\ ThreadForCounted' /\ OneThreadEach'
<1>1. Counted'
  BY DEF IInv, Counted, CountsKept
<1>2. ThreadForCounted'
  BY DEF IInv, ThreadForCounted, CountsKept
<1>3. OneThreadEach'
  BY DEF IInv, OneThreadEach, CountsKept
<1> QED
  BY <1>1, <1>2, <1>3

\* Next lets no step take place too long after two threads were in Recv at once.
Timely == since' \in 0 .. MaxMixed

LEMMA LoginInv ==
  ASSUME IInv, Timely, NEW t \in Thread, Login(t)
  PROVE  IInv'
<1> USE DEF IInv, fate, Timely
<1>1. /\ pc[t] = "login" /\ pc' \in [Thread -> LoginPc] /\ pc'[t] = "test"
      /\ \A s \in Thread \ {t} : pc'[s] = pc[s]
  BY GotoProperties DEF Login, LoginPc
<1>2. PICK fd \in Fd \ opened : /\ connfd' = [connfd EXCEPT ![t] = fd]
                                /\ opened' = opened \cup {fd}
  BY DEF Login
<1>3. /\ logins < MaxLogin /\ logins' = logins + 1
      /\ UNCHANGED <<shared, value, created, comm, request, fate>>
  BY DEF Login
<1>4. Uncounted' = Uncounted \cup {t} /\ t \notin Uncounted /\ Firsts' = Firsts
  BY <1>1 DEF Uncounted, Firsts
<1>5. Cardinality(Uncounted') = Cardinality(Uncounted) + 1 /\ Cardinality(Uncounted) \in Nat
  BY <1>4, JoinCardinality DEF Uncounted
<1>6. TypeOK'
  <2>1. logins' \in 0 .. MaxLogin
    BY <1>3, BoundAssumption DEF TypeOK
  <2>2. connfd' \in [Thread -> Fd \cup {NoFd}] /\ opened' \in SUBSET Fd
    BY <1>2 DEF TypeOK
  <2> QED
    BY <1>1, <1>3, <2>1, <2>2 DEF TypeOK, LoginPc, shared, comm
<1>7. ClientKnown'
  BY <1>1, <1>2 DEF TypeOK, ClientKnown
<1>8. Counted'
  <2>1. numCommunication' + Cardinality(Uncounted') <= logins'
    BY <1>3, <1>5 DEF TypeOK, Counted, shared
  <2> QED
    BY <1>1, <1>3, <2>1 DEF Counted, shared
<1>9. ThreadForCounted' /\ OneThreadEach'
  BY <1>3, <1>4 DEF ThreadForCounted, OneThreadEach, shared
<1> QED
  BY <1>6, <1>7, <1>8, <1>9

LEMMA TestInv ==
  ASSUME IInv, Timely, NEW t \in Thread, Test(t)
  PROVE  IInv'
<1> USE DEF IInv, fate, Timely
<1> DEFINE to == IF numCommunication = 0 THEN "firstInc" ELSE "inc"
<1>1. /\ pc[t] = "test" /\ pc' \in [Thread -> LoginPc] /\ pc'[t] = to
      /\ \A s \in Thread \ {t} : pc'[s] = pc[s]
  BY GotoProperties DEF Test, LoginPc
<1>2. UNCHANGED <<shared, connfd, value, created, comm, clients, fate, logins>>
  BY DEF Test
<1>3. Uncounted' = Uncounted
  BY <1>1 DEF Uncounted
<1>4. TypeOK'
  BY <1>1, <1>2 DEF TypeOK, LoginPc, shared, comm, clients
<1>5. ClientKnown'
  BY <1>1, <1>2 DEF ClientKnown
<1>6. numCommunication \in Nat
  BY BoundAssumption DEF TypeOK
<1>7. Counted'
  BY <1>1, <1>2, <1>3, <1>6 DEF Counted, shared
<1>8. CASE numCommunication = 0
  <2>1. created' = 0 /\ numCommunication' = 0
    BY <1>2, <1>8 DEF Counted, shared
  <2>2. Cardinality(Firsts') \in Nat /\ Cardinality(Firsts') <= Cardinality(Thread)
    <3>1. Firsts' \in SUBSET Thread
      BY DEF Firsts
    <3> QED
      BY <3>1, PartCardinality
  <2>3. OneThreadEach'
    BY <2>1, <2>2 DEF OneThreadEach
  <2>4. ThreadForCounted'
    BY <2>1 DEF ThreadForCounted
  <2> QED
    BY <1>4, <1>5, <1>7, <2>3, <2>4
<1>9. CASE numCommunication # 0
  <2>1. Firsts' = Firsts
    BY <1>1, <1>9 DEF Firsts
  <2>2. ThreadForCounted' /\ OneThreadEach'
    BY <1>2, <2>1 DEF ThreadForCounted, OneThreadEach, shared
  <2> QED
    BY <1>4, <1>5, <1>7, <2>2
<1> QED
  BY <1>8, <1>9

LEMMA IncrementInv ==
  ASSUME IInv, Timely, NEW t \in Thread,
         NEW from \in {"firstInc", "inc"}, NEW to \in {"firstMax", "maxLoad"},
         from = "firstInc" <=> to = "firstMax",
         Increment(t, from, to)
  PROVE  IInv'
<1> USE DEF IInv, fate, Timely
<1>1. /\ pc[t] = from /\ pc' \in [Thread -> LoginPc] /\ pc'[t] = to
      /\ \A s \in Thread \ {t} : pc'[s] = pc[s]
  BY GotoProperties DEF Increment, LoginPc
<1>2. /\ numCommunication' = numCommunication + 1
      /\ UNCHANGED <<maxConnfd, communicationSet, connfd, value, created, comm, clients,
                     fate, logins>>
  BY DEF Increment
<1>3. Uncounted' = Uncounted \ {t} /\ t \in Uncounted /\ Firsts' = Firsts
  BY <1>1 DEF Uncounted, Firsts
<1>4. /\ Cardinality(Uncounted') = Cardinality(Uncounted) - 1
      /\ Cardinality(Uncounted) \in Nat /\ Cardinality(Uncounted) > 0
  BY <1>3, LeaveCardinality DEF Uncounted
<1>5. /\ numCommunication \in Nat /\ logins \in 0 .. MaxLogin
      /\ numCommunication + Cardinality(Uncounted) <= logins
  BY BoundAssumption DEF TypeOK, Counted
<1>6. numCommunication' \in 0 .. MaxLogin
  BY <1>2, <1>4, <1>5, BoundAssumption
<1>7. TypeOK'
  BY <1>1, <1>2, <1>6 DEF TypeOK, LoginPc, comm, clients
<1>8. ClientKnown'
  BY <1>1, <1>2 DEF ClientKnown
<1>9. Counted'
  <2>1. numCommunication' + Cardinality(Uncounted') <= logins'
    BY <1>2, <1>4, <1>5
  <2>2. numCommunication' > 0
    BY <1>2, <1>5
  <2> QED
    BY <2>1, <2>2 DEF Counted
<1>10. ThreadForCounted'
  <2>1. CASE from = "firstInc"
    <3>1. t \in Firsts'
      BY <1>1, <2>1 DEF Firsts
    <3> QED
      BY <3>1 DEF ThreadForCounted
  <2>2. CASE from = "inc"
    <3>1. numCommunication > 0
      BY <1>1, <2>2 DEF Counted
    <3> QED
      BY <1>2, <1>3, <3>1 DEF ThreadForCounted
  <2> QED
    BY <2>1, <2>2
<1>11. OneThreadEach'
  BY <1>2, <1>3 DEF OneThreadEach
<1> QED
  BY <1>7, <1>8, <1>9, <1>10, <1>11

LEMMA CreateInv ==
  ASSUME IInv, Timely, NEW t \in Thread, Create(t)
  PROVE  IInv'
<1> USE DEF IInv, fate, Timely
<1>1. /\ pc[t] = "create" /\ pc' \in [Thread -> LoginPc] /\ pc'[t] = "login"
      /\ \A s \in Thread \ {t} : pc'[s] = pc[s]
  BY GotoProperties DEF Create, LoginPc
<1>2. /\ created' = created + 1
      /\ commPc' = [commPc EXCEPT ![created + 1] = "copy"]
      /\ connfd' = [connfd EXCEPT ![t] = NoFd]
      /\ UNCHANGED <<shared, value, ready, word, clients, fate, logins>>
  BY DEF Create
<1>3. Firsts' = Firsts \ {t} /\ t \in Firsts /\ Uncounted' = Uncounted
  BY <1>1 DEF Uncounted, Firsts
<1>4. /\ Cardinality(Firsts') = Cardinality(Firsts) - 1
      /\ Cardinality(Firsts) \in Nat /\ Cardinality(Firsts) > 0
  BY <1>3, LeaveCardinality DEF Firsts
<1>5. Cardinality(Thread) \in Nat /\ created \in Nat
  BY PartCardinality DEF TypeOK
<1>6. OneThreadEach'
  BY <1>2, <1>4, <1>5 DEF OneThreadEach
<1>7. created' \in 0 .. Cardinality(Thread)
  BY <1>2, <1>4, <1>5 DEF OneThreadEach
<1>8. TypeOK'
  <2>1. commPc' \in [CommThread ->
                       {"none", "copy", "select", "scan", "recv", "close", "clear", "clearStore"}]
    BY <1>2 DEF TypeOK
  <2>2. connfd' \in [Thread -> Fd \cup {NoFd}]
    BY <1>2 DEF TypeOK
  <2> QED
    BY <1>1, <1>2, <1>7, <2>1, <2>2 DEF TypeOK, LoginPc, shared, clients
<1>9. ClientKnown'
  BY <1>1, <1>2 DEF TypeOK, ClientKnown
<1>10. Counted'
  <2>1. numCommunication > 0
    BY <1>1 DEF Counted
  <2>2. numCommunication + Cardinality(Uncounted') <= logins
    BY <1>3 DEF Counted
  <2> QED
    BY <1>1, <1>2, <2>1, <2>2 DEF Counted, shared
<1>11. ThreadForCounted'
  BY <1>2, <1>5 DEF ThreadForCounted
<1> QED
  BY <1>6, <1>8, <1>9, <1>10, <1>11

-----------------------------------------------------------------------------
(* The other steps of a login thread. *)

\* Where a thread is before and after its client is in the set.
EarlyPc == {"firstMax", "zero", "firstLoad", "firstStore", "create"}
LatePc == {"maxLoad", "maxStore", "load", "store", "end"}

LEMMA MoveKeepsCounts ==
  ASSUME IInv, NEW t \in Thread, NEW from, NEW to, Goto(t, from, to),
         \/ from \in EarlyPc /\ to \in EarlyPc
         \/ from \in LatePc /\ to \in LatePc \cup {"login"},
         UNCHANGED <<numCommunication, created, logins>>
  PROVE  /\ pc[t] = from
         /\ pc' \in [Thread -> LoginPc]
         /\ Counted' /\ ThreadForCounted' /\ OneThreadEach'
<1>1. from \in LoginPc /\ to \in LoginPc
  BY DEF EarlyPc, LatePc, LoginPc
<1>2. /\ pc[t] = from /\ pc' \in [Thread -> LoginPc] /\ pc'[t] = to
      /\ \A s \in Thread \ {t} : pc'[s] = pc[s]
  BY <1>1, GotoProperties DEF IInv
<1>3. Uncounted' = Uncounted /\ Firsts' = Firsts
  BY <1>2 DEF Uncounted, Firsts, EarlyPc, LatePc
<1>4. \A s \in Thread :
        pc'[s] \in {"firstMax", "zero", "firstLoad", "firstStore", "create", "inc"}
          => pc[s] \in {"firstMax", "zero", "firstLoad", "firstStore", "create", "inc"}
  BY <1>2 DEF EarlyPc, LatePc
<1>5. CountsKept
  BY <1>3, <1>4 DEF CountsKept
<1> QED
  BY <1>2, <1>5, CountsKeptSuffices

LEMMA FirstMaxInv ==
  ASSUME IInv, Timely, NEW t \in Thread, FirstMax(t)
  PROVE  IInv'
<1> USE DEF IInv, fate, Timely
<1>1. /\ Goto(t, "firstMax", "zero") /\ maxConnfd' = connfd[t]
      /\ UNCHANGED <<numCommunication, communicationSet, connfd, value, created, comm,
                     clients, fate, logins>>
  BY DEF FirstMax
<1>2. /\ pc[t] = "firstMax" /\ pc' \in [Thread -> LoginPc]
      /\ Counted' /\ ThreadForCounted' /\ OneThreadEach'
  BY <1>1, MoveKeepsCounts DEF EarlyPc
<1>3. TypeOK'
  BY <1>1, <1>2 DEF TypeOK, ClientKnown, LoginPc, comm, clients
<1>4. ClientKnown'
  BY <1>1, <1>2 DEF ClientKnown, Goto
<1> QED
  BY <1>2, <1>3, <1>4

LEMMA ZeroInv ==
  ASSUME IInv, Timely, NEW t \in Thread, Zero(t)
  PROVE  IInv'
<1> USE DEF IInv, fate, Timely
<1>1. /\ Goto(t, "zero", "firstLoad") /\ communicationSet' = {}
      /\ UNCHANGED <<numCommunication, maxConnfd, connfd, value, created, comm, clients,
                     fate, logins>>
  BY DEF Zero
<1>2. /\ pc[t] = "zero" /\ pc' \in [Thread -> LoginPc]
      /\ Counted' /\ ThreadForCounted' /\ OneThreadEach'
  BY <1>1, MoveKeepsCounts DEF EarlyPc
<1>3. TypeOK'
  BY <1>1, <1>2 DEF TypeOK, LoginPc, comm, clients
<1>4. ClientKnown'
  BY <1>1, <1>2 DEF ClientKnown, Goto
<1> QED
  BY <1>2, <1>3, <1>4

LEMMA LoadSetInv ==
  ASSUME IInv, Timely, NEW t \in Thread,
         \/ LoadSet(t, "firstLoad", "firstStore")
         \/ LoadSet(t, "load", "store")
  PROVE  IInv'
<1> USE DEF IInv, fate, Timely
<1>1. PICK from \in {"firstLoad", "load"}, to \in {"firstStore", "store"} :
        /\ from = "load" <=> to = "store"
        /\ Goto(t, from, to)
        /\ value' = [value EXCEPT ![t] = communicationSet]
        /\ UNCHANGED <<shared, connfd, created, comm, clients, fate, logins>>
  BY DEF LoadSet
<1>2. /\ pc[t] = from /\ pc' \in [Thread -> LoginPc]
      /\ Counted' /\ ThreadForCounted' /\ OneThreadEach'
  BY <1>1, MoveKeepsCounts DEF EarlyPc, LatePc, shared
<1>3. TypeOK'
  BY <1>1, <1>2 DEF TypeOK, LoginPc, shared, comm, clients
<1>4. ClientKnown'
  BY <1>1, <1>2 DEF ClientKnown, Goto
<1> QED
  BY <1>2, <1>3, <1>4

LEMMA StoreSetInv ==
  ASSUME IInv, Timely, NEW t \in Thread,
         \/ StoreSet(t, "firstStore", "create")
         \/ StoreSet(t, "store", "end")
  PROVE  IInv'
<1> USE DEF IInv, fate, Timely
<1>1. PICK from \in {"firstStore", "store"}, to \in {"create", "end"} :
        /\ from = "store" <=> to = "end"
        /\ Goto(t, from, to)
        /\ communicationSet' = value[t] \cup {connfd[t]}
        /\ value' = [value EXCEPT ![t] = {}]
        /\ UNCHANGED <<numCommunication, maxConnfd, connfd, created, comm, clients,
                       fate, logins>>
  BY DEF StoreSet
<1>2. /\ pc[t] = from /\ pc' \in [Thread -> LoginPc]
      /\ Counted' /\ ThreadForCounted' /\ OneThreadEach'
  BY <1>1, MoveKeepsCounts DEF EarlyPc, LatePc
<1>3. connfd[t] \in Fd
  BY <1>2 DEF ClientKnown
<1>4. communicationSet' \in SUBSET Fd /\ value' \in [Thread -> SUBSET Fd]
  BY <1>1, <1>3 DEF TypeOK
<1>5. TypeOK'
  BY <1>1, <1>2, <1>4 DEF TypeOK, LoginPc, comm, clients
<1>6. ClientKnown'
  BY <1>1, <1>2 DEF ClientKnown, Goto
<1> QED
  BY <1>2, <1>5, <1>6

LEMMA MaxLoadInv ==
  ASSUME IInv, Timely, NEW t \in Thread, MaxLoad(t)
  PROVE  IInv'
<1> USE DEF IInv, fate, Timely
<1> DEFINE larger == IF connfd[t] > maxConnfd THEN {connfd[t]} ELSE {maxConnfd}
<1>1. /\ Goto(t, "maxLoad", "maxStore") /\ value' = [value EXCEPT ![t] = larger]
      /\ UNCHANGED <<shared, connfd, created, comm, clients, fate, logins>>
  BY DEF MaxLoad
<1>2. /\ pc[t] = "maxLoad" /\ pc' \in [Thread -> LoginPc]
      /\ Counted' /\ ThreadForCounted' /\ OneThreadEach'
  BY <1>1, MoveKeepsCounts DEF LatePc, shared
<1>3. larger \in SUBSET Fd
  <2>1. connfd[t] \in Fd /\ maxConnfd \in Fd \cup {-1}
    BY <1>2 DEF ClientKnown, TypeOK
  <2> QED
    BY <2>1, BoundAssumption DEF Fd
<1> HIDE DEF larger
<1>4. value' \in [Thread -> SUBSET Fd]
  BY <1>1, <1>3 DEF TypeOK
<1>5. TypeOK'
  BY <1>1, <1>2, <1>4 DEF TypeOK, LoginPc, shared, comm, clients
<1>6. ClientKnown'
  BY <1>1, <1>2 DEF ClientKnown, Goto
<1> QED
  BY <1>2, <1>5, <1>6

LEMMA MaxStoreInv ==
  ASSUME IInv, Timely, NEW t \in Thread, MaxStore(t)
  PROVE  IInv'
<1> USE DEF IInv, fate, Timely
<1>1. /\ Goto(t, "maxStore", "load") /\ maxConnfd' \in value[t]
      /\ value' = [value EXCEPT ![t] = {}]
      /\ UNCHANGED <<numCommunication, communicationSet, connfd, created, comm, clients,
                     fate, logins>>
  BY DEF MaxStore
<1>2. /\ pc[t] = "maxStore" /\ pc' \in [Thread -> LoginPc]
      /\ Counted' /\ ThreadForCounted' /\ OneThreadEach'
  BY <1>1, MoveKeepsCounts DEF LatePc
<1>3. maxConnfd' \in Fd /\ value' \in [Thread -> SUBSET Fd]
  BY <1>1 DEF TypeOK
<1>4. TypeOK'
  BY <1>1, <1>2, <1>3 DEF TypeOK, LoginPc, comm, clients
<1>5. ClientKnown'
  BY <1>1, <1>2 DEF ClientKnown, Goto
<1> QED
  BY <1>2, <1>4, <1>5

LEMMA EndInv ==
  ASSUME IInv, Timely, NEW t \in Thread, End(t)
  PROVE  IInv'
<1> USE DEF IInv, fate, Timely
<1>1. /\ Goto(t, "end", "login") /\ connfd' = [connfd EXCEPT ![t] = NoFd]
      /\ UNCHANGED <<shared, value, created, comm, clients, fate, logins>>
  BY DEF End
<1>2. /\ pc[t] = "end" /\ pc' \in [Thread -> LoginPc]
      /\ Counted' /\ ThreadForCounted' /\ OneThreadEach'
  BY <1>1, MoveKeepsCounts DEF LatePc, shared
<1>3. connfd' \in [Thread -> Fd \cup {NoFd}]
  BY <1>1 DEF TypeOK
<1>4. TypeOK'
  BY <1>1, <1>2, <1>3 DEF TypeOK, LoginPc, shared, comm, clients
<1>5. ClientKnown'
  BY <1>1, <1>2 DEF ClientKnown, Goto, TypeOK
<1> QED
  BY <1>2, <1>4, <1>5

LEMMA RegisterInv ==
  ASSUME IInv, Timely, NEW t \in Thread, Register(t)
  PROVE  IInv'
<1>1. CASE Test(t)
  BY <1>1, TestInv
<1>2. CASE FirstInc(t)
  BY <1>2, IncrementInv DEF FirstInc
<1>3. CASE FirstMax(t)
  BY <1>3, FirstMaxInv
<1>4. CASE Zero(t)
  BY <1>4, ZeroInv
<1>5. CASE FirstSet(t) \/ LaterSet(t)
  BY <1>5, LoadSetInv, StoreSetInv DEF FirstSet, LaterSet
<1>6. CASE Create(t)
  BY <1>6, CreateInv
<1>7. CASE Inc(t)
  BY <1>7, IncrementInv DEF Inc
<1>8. CASE MaxLoad(t)
  BY <1>8, MaxLoadInv
<1>9. CASE MaxStore(t)
  BY <1>9, MaxStoreInv
<1>10. CASE End(t)
  BY <1>10, EndInv
<1> QED
  BY <1>1, <1>2, <1>3, <1>4, <1>5, <1>6, <1>7, <1>8, <1>9, <1>10 DEF Register

-----------------------------------------------------------------------------
(* The communication threads and the clients move no login thread.          *)
LEMMA OthersKeepCounts ==
  ASSUME IInv, UNCHANGED <<numCommunication, login, created, logins>>
  PROVE  ClientKnown' /\ Counted' /\ ThreadForCounted' /\ OneThreadEach'
<1>1. UNCHANGED <<pc, connfd, value>>
  BY DEF login
<1>2. CountsKept
  BY <1>1 DEF CountsKept, Uncounted, Firsts
<1>3. ClientKnown'
  BY <1>1 DEF IInv, ClientKnown
<1> QED
  BY <1>2, <1>3, CountsKeptSuffices

LEMMA CommStepInv ==
  ASSUME IInv, Timely, NEW c \in CommThread, CommStep(c)
  PROVE  IInv'
<1> USE DEF IInv, shared, clients, fate, Timely
<1>1. UNCHANGED <<numCommunication, login, created, logins>>
  BY DEF CommStep, CopySet, Select, Receive, ReceiveOther, Answer, ReturnPiece,
         ReceiveBye, Close, RecvEnd, RecvClosed, ClearLoad, ClearStore, ScanEnd
<1>2. TypeOK'
  <2> USE DEF TypeOK, login
  <2>1. CASE CopySet(c)
    BY <2>1 DEF CopySet, CommGoto
  <2>2. CASE Select(c)
    <3> DEFINE watched == ready[c] \cap 1 .. maxConnfd
               found == IF watched \subseteq opened
                        THEN {fd \in watched : request[fd] \notin {"none", "asked"}}
                        ELSE ready[c]
    <3>1. found \in SUBSET Fd
      OBVIOUS
    <3>2. ready' = [ready EXCEPT ![c] = found]
      BY <2>2 DEF Select
    <3> HIDE DEF found
    <3>3. ready' \in [CommThread -> SUBSET Fd]
      BY <3>1, <3>2
    <3> QED
      BY <2>2, <3>3 DEF Select, CommGoto
  <2>3. CASE \E fd \in Fd : Answer(c, fd) \/ ReturnPiece(c, fd)
    BY <2>3 DEF Answer, ReturnPiece, CommGoto
  <2>4. CASE \E fd \in Fd : Close(c, fd)
    BY <2>4 DEF Close, CommGoto
  <2>5. CASE \E fd \in Fd : RecvEnd(c, fd) \/ RecvClosed(c, fd)
    BY <2>5 DEF RecvEnd, RecvClosed
  <2>6. CASE ClearLoad(c)
    BY <2>6 DEF ClearLoad, CommGoto
  <2>7. CASE ClearStore(c)
    BY <2>7 DEF ClearStore, CommGoto
  <2>8. CASE ScanEnd(c)
    BY <2>8 DEF ScanEnd, CommGoto
  <2>9. CASE \E fd \in Fd : Receive(c, fd) \/ ReceiveOther(c, fd) \/ ReceiveBye(c, fd)
    <3>1. (mixed \/ \E d \in CommThread : commPc[d] = "recv") \in BOOLEAN
      OBVIOUS
    <3> QED
      BY <2>9, <3>1 DEF Receive, ReceiveOther, ReceiveBye, CommGoto
  <2> QED
    BY <2>1, <2>2, <2>3, <2>4, <2>5, <2>6, <2>7, <2>8, <2>9 DEF CommStep
<1> QED
  BY <1>1, <1>2, OthersKeepCounts

(* A client that sends something. *)
LEMMA SendInv ==
  ASSUME IInv, Timely, NEW fd \in Fd, NEW message \in {"ask", "bye"}, Send(fd, message)
  PROVE  IInv'
<1> USE DEF IInv, fate, Timely
<1>1. UNCHANGED <<numCommunication, login, created, logins>>
  BY DEF Send, shared
<1>2. TypeOK'
  BY DEF TypeOK, Send, shared, login, comm
<1> QED
  BY <1>1, <1>2, OthersKeepCounts

(* Every step keeps IInv. *)
LEMMA NextInv == IInv /\ [Next]_vars => IInv'
<1> SUFFICES ASSUME IInv, [Next]_vars PROVE IInv'
  OBVIOUS
<1>1. CASE Next
  <2>1. Timely
    BY <1>1, BoundAssumption DEF IInv, TypeOK, Next, Remember, Timely
  <2>2. CASE \E t \in Thread : LoginRecv(t)
    <3>1. UNCHANGED <<numCommunication, login, created, logins>>
      BY <2>2 DEF LoginRecv, shared
    <3>2. TypeOK'
      BY <2>1, <2>2 DEF IInv, TypeOK, LoginRecv, shared, login, comm, clients, Timely
    <3> QED
      BY <3>1, <3>2, OthersKeepCounts DEF IInv
  <2>3. CASE \E t \in Thread : Login(t)
    BY <2>1, <2>3, LoginInv
  <2>4. CASE \E t \in Thread : Register(t)
    BY <2>1, <2>4, RegisterInv
  <2>5. CASE \E c \in CommThread : CommStep(c)
    BY <2>1, <2>5, CommStepInv
  <2>6. CASE \E fd \in Fd : Ask(fd) \/ Bye(fd)
    BY <2>1, <2>6, SendInv DEF Ask, Bye
  <2> QED
    BY <1>1, <2>2, <2>3, <2>4, <2>5, <2>6 DEF Next
<1>2. CASE UNCHANGED vars
  <2>1. UNCHANGED <<numCommunication, login, created, logins>>
    BY <1>2 DEF vars, shared
  <2>2. TypeOK'
    BY <1>2 DEF IInv, TypeOK, vars, shared, login, comm, clients, fate
  <2> QED
    BY <2>1, <2>2, OthersKeepCounts DEF IInv
<1> QED
  BY <1>1, <1>2

(* IInv holds in every state. *)
LEMMA InvAlways == Spec => []IInv
BY InitInv, NextInv, PTL DEF Spec

-----------------------------------------------------------------------------
(* The counter, the set and its limit, and the threads, keep their types.   *)
THEOREM TypeCorrect == Spec => []TypeOK
<1>1. IInv => TypeOK
  BY DEF IInv
<1> QED
  BY <1>1, InvAlways, PTL

(* A client that is counted has a communication thread, or one that is      *)
(* about to be created, although the test and the increment are two steps.  *)
THEOREM ThreadAlwaysForCounted == Spec => []ThreadForCounted
<1>1. IInv => ThreadForCounted
  BY DEF IInv
<1> QED
  BY <1>1, InvAlways, PTL

(* There are never more communication threads than login threads.           *)
THEOREM AlwaysOneThreadEach == Spec => []OneThreadEach
<1>1. IInv => OneThreadEach
  BY DEF IInv
<1> QED
  BY <1>1, InvAlways, PTL

-----------------------------------------------------------------------------
(* Logging out. *)

\* The thread has received a request of the client of fd and is not done with it.
Serving(c, fd) == commPc[c] \in {"recv", "close"} /\ Lowest(c, fd)

\* Until two threads are in Recv at once, a client is served by one thread, which
\* has its request, and closes the descriptor only after BYE.
ByeKnown ==
  ~mixed =>
    \A fd \in Fd, c \in CommThread :
      Serving(c, fd) =>
        /\ request[fd] \in {"asked", "left"}
        /\ commPc[c] = "close" => request[fd] = "left"
        /\ \A d \in CommThread : Serving(d, fd) => d = c

(* Only the steps that serve a client disturb it: nobody else moves a thread *)
(* there, changes what such a thread is looking at, or takes a request away. *)
LEMMA ByeKept ==
  ASSUME TypeOK, ByeKnown, mixed' = mixed,
         \A c \in CommThread :
           commPc'[c] \in {"recv", "close"} => commPc'[c] = commPc[c] /\ ready'[c] = ready[c],
         \A fd \in Fd : request[fd] \in {"asked", "left"} => request'[fd] = request[fd]
  PROVE  ByeKnown'
<1>1. \A c \in CommThread, fd \in Fd : Serving(c, fd)' => Serving(c, fd)
  BY DEF Serving, Lowest
<1>2. SUFFICES ASSUME ~mixed, NEW fd \in Fd, NEW c \in CommThread, Serving(c, fd)'
               PROVE  /\ request'[fd] \in {"asked", "left"}
                      /\ commPc'[c] = "close" => request'[fd] = "left"
                      /\ \A d \in CommThread : Serving(d, fd)' => d = c
  BY DEF ByeKnown
<1>3. /\ request[fd] \in {"asked", "left"}
      /\ commPc[c] = "close" => request[fd] = "left"
      /\ \A d \in CommThread : Serving(d, fd) => d = c
  BY <1>1, <1>2 DEF ByeKnown
<1>4. request'[fd] = request[fd] /\ commPc'[c] = commPc[c]
  BY <1>2, <1>3 DEF Serving
<1> QED
  BY <1>1, <1>3, <1>4

\* A step of thread c for the client of fd.
ServiceStep(c, fd) ==
  /\ \A d \in CommThread \ {c} : commPc'[d] = commPc[d] /\ ready'[d] = ready[d]
  /\ \A other \in Fd \ {fd} : request'[other] = request[other]

(* A thread takes up a client that nobody serves. *)
LEMMA ServiceTakenUp ==
  ASSUME TypeOK, ByeKnown, ~mixed, NEW c \in CommThread, NEW fd \in Fd,
         ServiceStep(c, fd), Lowest(c, fd), ready'[c] = ready[c], commPc'[c] = "recv",
         request[fd] \notin {"asked", "left"}, request'[fd] \in {"asked", "left"}
  PROVE  ByeKnown'
<1>1. \A other \in Fd : Lowest(c, other)' => other = fd
  <2>1. ready[c] \in SUBSET Int /\ Fd \in SUBSET Int
    BY BoundAssumption DEF TypeOK, Fd
  <2> QED
    BY <2>1 DEF Lowest
<1>2. \A d \in CommThread \ {c}, other \in Fd : Serving(d, other)' => Serving(d, other)
  BY DEF Serving, Lowest, ServiceStep
<1>3. \A d \in CommThread : ~Serving(d, fd)
  BY DEF ByeKnown
<1>4. SUFFICES ASSUME NEW other \in Fd, NEW d \in CommThread, Serving(d, other)'
               PROVE  /\ request'[other] \in {"asked", "left"}
                      /\ commPc'[d] = "close" => request'[other] = "left"
                      /\ \A e \in CommThread : Serving(e, other)' => e = d
  BY DEF ByeKnown
<1>5. CASE d = c
  BY <1>1, <1>2, <1>3, <1>4, <1>5 DEF Serving
<1>6. CASE d # c
  <2>1. Serving(d, other) /\ other # fd
    BY <1>2, <1>3, <1>4, <1>6
  <2>2. ~Serving(c, other)'
    BY <1>1, <2>1 DEF Serving
  <2> QED
    BY <1>2, <1>6, <2>1, <2>2 DEF ByeKnown, ServiceStep
<1> QED
  BY <1>5, <1>6

(* A thread goes on with its client, whose BYE it has received, or is done    *)
(* with it.                                                                   *)
LEMMA ServiceGoesOn ==
  ASSUME TypeOK, ByeKnown, ~mixed, NEW c \in CommThread, NEW fd \in Fd,
         ServiceStep(c, fd), Serving(c, fd),
         \/ /\ commPc'[c] = "close" /\ ready'[c] = ready[c]
            /\ request[fd] = "left" /\ request'[fd] = "left"
         \/ commPc'[c] \notin {"recv", "close"}
  PROVE  ByeKnown'
<1>1. \A d \in CommThread, other \in Fd : Serving(d, other)' => Serving(d, other)
  BY DEF Serving, Lowest, ServiceStep
<1>2. \A d \in CommThread \ {c} : ~Serving(d, fd)
  BY DEF ByeKnown
<1>3. ready[c] \in SUBSET Int /\ Fd \in SUBSET Int
  BY BoundAssumption DEF TypeOK, Fd
<1>4. \A other \in Fd : Serving(c, other) => other = fd
  BY <1>3 DEF Serving, Lowest
<1>5. SUFFICES ASSUME NEW other \in Fd, NEW d \in CommThread, Serving(d, other)'
               PROVE  /\ request'[other] \in {"asked", "left"}
                      /\ commPc'[d] = "close" => request'[other] = "left"
                      /\ \A e \in CommThread : Serving(e, other)' => e = d
  BY DEF ByeKnown
<1>6. Serving(d, other) /\ \A e \in CommThread : Serving(e, other) => e = d
  BY <1>1, <1>5 DEF ByeKnown
<1>7. CASE d = c
  <2>1. other = fd
    BY <1>4, <1>6, <1>7
  <2>2. commPc'[c] = "close" /\ request'[fd] = "left"
    BY <1>5, <1>7 DEF Serving
  <2> QED
    BY <1>1, <1>6, <1>7, <2>1, <2>2
<1>8. CASE d # c
  <2>1. other # fd
    BY <1>2, <1>6, <1>8
  <2>2. request'[other] = request[other] /\ commPc'[d] = commPc[d]
    BY <1>8, <2>1 DEF ServiceStep
  <2> QED
    BY <1>1, <1>6, <2>2 DEF ByeKnown
<1> QED
  BY <1>7, <1>8

(* A step of serving a client. *)
LEMMA ByeServiceInv ==
  ASSUME TypeOK, ByeKnown, NEW c \in CommThread, NEW fd \in Fd,
         \/ Receive(c, fd) \/ ReceiveOther(c, fd)
         \/ Answer(c, fd) \/ ReturnPiece(c, fd) \/ ReceiveBye(c, fd) \/ Close(c, fd)
  PROVE  ByeKnown'
<1>1. CASE mixed'
  BY <1>1 DEF ByeKnown
<1>2. CASE ~mixed'
  <2>1. ~mixed /\ ~ReceiveOther(c, fd) /\ ~ReturnPiece(c, fd)
    BY <1>2 DEF Receive, ReceiveOther, Answer, ReturnPiece, ReceiveBye, Close, Returns,
                fate, TypeOK
  <2>2. CASE Receive(c, fd)
    <3>1. /\ Lowest(c, fd) /\ request[fd] \in {"ask", "bye"}
          /\ commPc' = [commPc EXCEPT ![c] = "recv"] /\ UNCHANGED ready
          /\ request' = [request EXCEPT ![fd] = IF @ = "ask" THEN "asked" ELSE "left"]
      BY <2>2 DEF Receive, Current, CommGoto
    <3>2. /\ ServiceStep(c, fd) /\ commPc'[c] = "recv"
          /\ request'[fd] \in {"asked", "left"}
      BY <3>1 DEF ServiceStep, TypeOK
    <3> QED
      BY <2>1, <3>1, <3>2, ServiceTakenUp
  <2>3. CASE Answer(c, fd)
    <3>1. /\ Serving(c, fd) /\ commPc' = [commPc EXCEPT ![c] = "scan"]
          /\ request' = [request EXCEPT ![fd] = IF @ = "asked" THEN "none" ELSE @]
          /\ ready' = [ready EXCEPT ![c] = @ \ {fd}]
      BY <2>3 DEF Answer, Returns, CommGoto, Serving
    <3>2. ServiceStep(c, fd) /\ commPc'[c] \notin {"recv", "close"}
      BY <3>1 DEF ServiceStep, TypeOK
    <3> QED
      BY <2>1, <3>1, <3>2, ServiceGoesOn
  <2>4. CASE ReceiveBye(c, fd)
    <3>1. /\ Serving(c, fd) /\ commPc' = [commPc EXCEPT ![c] = "close"]
          /\ request[fd] = "left" /\ UNCHANGED <<ready, request>>
      BY <2>1, <2>4 DEF ReceiveBye, Returns, CommGoto, Serving, clients
    <3>2. ServiceStep(c, fd) /\ commPc'[c] = "close"
      BY <3>1 DEF ServiceStep, TypeOK
    <3> QED
      BY <2>1, <3>1, <3>2, ServiceGoesOn
  <2>5. CASE Close(c, fd)
    <3>1. /\ Serving(c, fd) /\ commPc' = [commPc EXCEPT ![c] = "clear"]
          /\ request' = [request EXCEPT ![fd] = "none"] /\ UNCHANGED ready
      BY <2>5 DEF Close, CommGoto, Serving
    <3>2. ServiceStep(c, fd) /\ commPc'[c] \notin {"recv", "close"}
      BY <3>1 DEF ServiceStep, TypeOK
    <3> QED
      BY <2>1, <3>1, <3>2, ServiceGoesOn
  <2> QED
    BY <2>1, <2>2, <2>3, <2>4, <2>5
<1> QED
  BY <1>1, <1>2

(* Every step keeps ByeKnown. *)
LEMMA ByeInv == TypeOK /\ ByeKnown /\ [Next]_vars => ByeKnown'
<1> SUFFICES ASSUME TypeOK, ByeKnown, [Next]_vars PROVE ByeKnown'
  OBVIOUS
<1>1. CASE \E t \in Thread : Login(t) \/ LoginRecv(t)
  <2>1. CASE mixed'
    BY <2>1 DEF ByeKnown
  <2>2. CASE ~mixed'
    <3>1. UNCHANGED <<commPc, ready, request, mixed>>
      BY <1>1, <2>2 DEF Login, LoginRecv, comm, fate
    <3> QED
      BY <3>1, ByeKept
  <2> QED
    BY <2>1, <2>2
<1>2. CASE \E t \in Thread : Register(t)
  <2>1. PICK t \in Thread : Register(t)
    BY <1>2
  <2>2. CASE Create(t)
    <3>1. /\ commPc' = [commPc EXCEPT ![created + 1] = "copy"]
          /\ UNCHANGED <<ready, request, mixed>>
      BY <2>2 DEF Create, clients, fate
    <3> QED
      BY <3>1, ByeKept DEF TypeOK
  <2>3. CASE ~Create(t)
    <3>1. UNCHANGED <<commPc, ready, request, mixed>>
      BY <2>1, <2>3 DEF Register, Test, FirstInc, FirstMax, Zero, FirstSet, Inc, MaxLoad,
                        MaxStore, LaterSet, End, Increment, LoadSet, StoreSet, comm, clients,
                        fate
    <3> QED
      BY <3>1, ByeKept
  <2> QED
    BY <2>2, <2>3
<1>3. CASE \E c \in CommThread, fd \in Fd :
             \/ Receive(c, fd) \/ ReceiveOther(c, fd)
             \/ Answer(c, fd) \/ ReturnPiece(c, fd) \/ ReceiveBye(c, fd) \/ Close(c, fd)
  BY <1>3, ByeServiceInv
<1>4. CASE \E c \in CommThread :
             \/ CopySet(c) \/ Select(c) \/ ClearLoad(c) \/ ClearStore(c) \/ ScanEnd(c)
             \/ \E fd \in Fd : RecvEnd(c, fd) \/ RecvClosed(c, fd)
  <2>1. PICK c \in CommThread :
             \/ CopySet(c) \/ Select(c) \/ ClearLoad(c) \/ ClearStore(c) \/ ScanEnd(c)
             \/ \E fd \in Fd : RecvEnd(c, fd) \/ RecvClosed(c, fd)
    BY <1>4
  <2>2. /\ \E to : to \notin {"recv", "close"} /\ commPc' = [commPc EXCEPT ![c] = to]
        /\ \A d \in CommThread \ {c} : ready'[d] = ready[d]
    <3>1. CASE \/ CopySet(c) \/ Select(c) \/ ClearLoad(c) \/ ClearStore(c) \/ ScanEnd(c)
      BY <3>1 DEF CopySet, Select, ClearLoad, ClearStore, ScanEnd, CommGoto, TypeOK
    <3>2. CASE \E fd \in Fd : RecvEnd(c, fd) \/ RecvClosed(c, fd)
      <4>1. commPc[c] = "scan" /\ commPc' = [commPc EXCEPT ![c] = "scan"]
        BY <3>2 DEF RecvEnd, RecvClosed, Current, TypeOK
      <4>2. \A d \in CommThread \ {c} : ready'[d] = ready[d]
        BY <3>2 DEF RecvEnd, RecvClosed, TypeOK
      <4> QED
        BY <4>1, <4>2
    <3> QED
      BY <2>1, <3>1, <3>2
  <2>3. UNCHANGED <<request, mixed>>
    BY <2>1 DEF CopySet, Select, ClearLoad, ClearStore, ScanEnd, RecvEnd, RecvClosed,
                clients, fate
  <2> QED
    BY <2>2, <2>3, ByeKept DEF TypeOK
<1>5. CASE \E fd \in Fd : Ask(fd) \/ Bye(fd)
  <2>1. PICK fd \in Fd, what \in {"ask", "bye"} : Send(fd, what)
    BY <1>5 DEF Ask, Bye
  <2>2. /\ UNCHANGED <<commPc, ready, mixed>> /\ request[fd] = "none"
        /\ request' = [request EXCEPT ![fd] = what]
    BY <2>1 DEF Send, comm, fate
  <2> QED
    BY <2>2, ByeKept DEF TypeOK
<1>6. CASE UNCHANGED vars
  BY <1>6, ByeKept DEF vars, comm, clients, fate
<1> QED
  BY <1>1, <1>2, <1>3, <1>4, <1>5, <1>6 DEF Next, CommStep

(* A communication thread closes the descriptor whose BYE it has read while *)
(* it is still that client's, for any number of communication threads, as   *)
(* long as no two threads have been in Recv at once.                        *)
THEOREM AlwaysClosedAfterBye == Spec => ClosedAfterBye
<1>1. Init => ByeKnown
  BY DEF Init, ByeKnown, Serving
<1>2. ByeKnown /\ [Next]_vars
        => [\A fd \in opened \ opened' : request[fd] = "left" \/ mixed]_vars
  <2> SUFFICES ASSUME ByeKnown, Next, ~mixed, NEW fd \in opened \ opened'
               PROVE  request[fd] = "left"
    OBVIOUS
  <2>1. PICK c \in CommThread, closed \in Fd : Close(c, closed)
    BY DEF Next, Login, LoginRecv, Register, Test, FirstInc, FirstMax, Zero, FirstSet, Create,
           Inc, MaxLoad, MaxStore, LaterSet, End, Increment, LoadSet, StoreSet, CommStep,
           CopySet, Select, Receive, ReceiveOther, Answer, ReturnPiece, ReceiveBye, RecvEnd,
           RecvClosed, ClearLoad, ClearStore, ScanEnd, Ask, Bye, Send, clients
  <2>2. fd = closed /\ Serving(c, closed) /\ commPc[c] = "close"
    BY <2>1 DEF Close, CommGoto, Serving
  <2> QED
    BY <2>2 DEF ByeKnown
<1> QED
  BY <1>1, <1>2, ByeInv, TypeCorrect, PTL DEF Spec, ClosedAfterBye
-----------------------------------------------------------------------------
(* As long as no two writes overlap, the registering thread is alone with    *)
(* the set, the limit and what it has loaded of them.                        *)
\* The thread is the first to register, or a later one.
First(t) == pc[t] \in {"firstInc", "firstMax", "zero", "firstLoad", "firstStore", "create"}
Later(t) == pc[t] \in {"inc", "maxLoad", "maxStore", "load", "store", "end"}

\* What the registering thread has done so far.
RegistrationKnown ==
  \A t \in Thread :
    /\ pc[t] = "login" => connfd[t] = NoFd
    /\ First(t) => created = 0
    /\ Later(t) => created = 1
    /\ pc[t] = "maxStore" =>
         value[t] = {IF connfd[t] > maxConnfd THEN connfd[t] ELSE maxConnfd}
    /\ pc[t] \in {"zero", "firstLoad", "firstStore", "create", "load", "store", "end"} =>
         connfd[t] <= maxConnfd
    /\ pc[t] \in {"firstStore", "store"} => value[t] = communicationSet
    /\ pc[t] \in {"create", "end"} => connfd[t] \in communicationSet

\* There is one communication thread, and the descriptor it is clearing is
\* nobody's.
ClearingKnown ==
  /\ created \in {0, 1}
  /\ \A c \in CommThread :
       /\ commPc[c] # "none" => created = 1 /\ c = 1
       /\ commPc[c] \in {"clear", "clearStore"} =>
            \E fd \in Fd : Lowest(c, fd) /\ fd \notin opened
       /\ commPc[c] = "clearStore" => word[c] = communicationSet

\* The inductive invariant of Heard.
HInv == ~overlapped => ~Overlap /\ RegistrationKnown /\ ClearingKnown /\ Heard

(* Nothing has overlapped before the first client. *)
LEMMA InitHInv == Init => HInv
BY DEF Init, HInv, Overlap, RegistrationKnown, ClearingKnown, Heard, Later

(* A thread that registers is the only one, and nobody clears a descriptor. *)
LEMMA RegistersAlone ==
  ASSUME TypeOK, NEW t \in Thread, pc[t] # "login", ~Overlap
  PROVE  /\ \A s \in Thread \ {t} : pc[s] = "login"
         /\ \A c \in CommThread : commPc[c] \notin {"clear", "clearStore"}
BY DEF Overlap

(* A step of a login thread that registers alone. *)
LEMMA RegisterHInv ==
  ASSUME IInv, ~overlapped, ~Overlap, RegistrationKnown, ClearingKnown, Heard,
         NEW t \in Thread, Register(t)
  PROVE  RegistrationKnown' /\ ClearingKnown' /\ Heard'
<1> USE DEF IInv
<1>1. pc[t] # "login"
  BY DEF Register, Test, FirstInc, FirstMax, Zero, FirstSet, Create, Inc, MaxLoad,
     MaxStore, LaterSet, End, Increment, LoadSet, StoreSet, Goto
<1>2. /\ \A s \in Thread \ {t} : pc[s] = "login" /\ connfd[s] = NoFd
      /\ \A c \in CommThread : commPc[c] \notin {"clear", "clearStore"}
  BY <1>1, RegistersAlone DEF RegistrationKnown
<1>3. connfd[t] \in Fd /\ NoFd \notin Fd
  BY <1>1 DEF ClientKnown, Fd, NoFd
<1>4. \A fd \in opened :
        \/ fd = connfd[t]
        \/ fd \in communicationSet /\ fd <= maxConnfd /\ created > 0
  BY <1>2, <1>3 DEF Heard, Registering, TypeOK
<1>5. ASSUME opened' = opened, connfd' = connfd,
             \A fd \in opened \ {connfd[t]} :
               fd \in communicationSet' /\ fd <= maxConnfd' /\ created' > 0
      PROVE  Heard'
  BY <1>5 DEF Heard, Registering
<1>6. CASE Test(t)
  <2>1. /\ pc[t] = "test" /\ pc'[t] = (IF numCommunication = 0 THEN "firstInc" ELSE "inc")
        /\ \A s \in Thread \ {t} : pc'[s] = pc[s]
        /\ UNCHANGED <<shared, connfd, value, created, comm, clients>>
    BY <1>6, GotoProperties DEF Test, LoginPc
  <2>2. RegistrationKnown'
    BY <1>2, <2>1 DEF RegistrationKnown, First, Later, TypeOK, Counted,
       ThreadForCounted, Firsts, ClearingKnown
  <2>3. ClearingKnown'
    BY <1>2, <2>1 DEF ClearingKnown, comm
  <2>4. Heard'
    BY <1>4, <1>5, <2>1 DEF shared, clients
  <2> QED
    BY <2>2, <2>3, <2>4
<1>7. CASE FirstInc(t)
  <2>1. /\ pc[t] = "firstInc" /\ pc'[t] = "firstMax"
        /\ \A s \in Thread \ {t} : pc'[s] = pc[s]
        /\ UNCHANGED <<maxConnfd, communicationSet, connfd, value, created, comm, clients>>
    BY <1>7, GotoProperties DEF FirstInc, Increment, LoginPc
  <2>2. RegistrationKnown'
    BY <2>1 DEF RegistrationKnown, First, Later
  <2>3. ClearingKnown'
    BY <1>2, <2>1 DEF ClearingKnown, comm
  <2>4. Heard'
    BY <1>4, <1>5, <2>1 DEF clients
  <2> QED
    BY <2>2, <2>3, <2>4
<1>8. CASE Inc(t)
  <2>1. /\ pc[t] = "inc" /\ pc'[t] = "maxLoad"
        /\ \A s \in Thread \ {t} : pc'[s] = pc[s]
        /\ UNCHANGED <<maxConnfd, communicationSet, connfd, value, created, comm, clients>>
    BY <1>8, GotoProperties DEF Inc, Increment, LoginPc
  <2>2. RegistrationKnown'
    BY <2>1 DEF RegistrationKnown, First, Later
  <2>3. ClearingKnown'
    BY <1>2, <2>1 DEF ClearingKnown, comm
  <2>4. Heard'
    BY <1>4, <1>5, <2>1 DEF clients
  <2> QED
    BY <2>2, <2>3, <2>4
<1>9. CASE FirstMax(t)
  <2>1. /\ pc[t] = "firstMax" /\ pc'[t] = "zero"
        /\ \A s \in Thread \ {t} : pc'[s] = pc[s]
        /\ maxConnfd' = connfd[t]
        /\ UNCHANGED <<communicationSet, connfd, value, created, comm, clients>>
    BY <1>9, GotoProperties DEF FirstMax, LoginPc
  <2>2. RegistrationKnown'
    BY <1>2, <1>3, <2>1 DEF RegistrationKnown, First, Later, Fd
  <2>3. ClearingKnown'
    BY <1>2, <2>1 DEF ClearingKnown, comm
  <2>4. Heard'
    BY <1>4, <1>5, <2>1 DEF RegistrationKnown, First, clients
  <2> QED
    BY <2>2, <2>3, <2>4
<1>10. CASE Zero(t)
  <2>1. /\ pc[t] = "zero" /\ pc'[t] = "firstLoad"
        /\ \A s \in Thread \ {t} : pc'[s] = pc[s]
        /\ communicationSet' = {}
        /\ UNCHANGED <<maxConnfd, connfd, value, created, comm, clients>>
    BY <1>10, GotoProperties DEF Zero, LoginPc
  <2>2. RegistrationKnown'
    BY <1>2, <2>1 DEF RegistrationKnown, First, Later
  <2>3. ClearingKnown'
    BY <1>2, <2>1 DEF ClearingKnown, comm
  <2>4. Heard'
    BY <1>4, <1>5, <2>1 DEF RegistrationKnown, First, clients
  <2> QED
    BY <2>2, <2>3, <2>4
<1>11. CASE LoadSet(t, "firstLoad", "firstStore")
  <2>1. /\ pc[t] = "firstLoad" /\ pc'[t] = "firstStore"
        /\ \A s \in Thread \ {t} : pc'[s] = pc[s]
        /\ value' = [value EXCEPT ![t] = communicationSet]
        /\ UNCHANGED <<maxConnfd, communicationSet, connfd, created, comm, clients>>
    BY <1>11, GotoProperties DEF LoadSet, shared, LoginPc
  <2>2. RegistrationKnown'
    BY <2>1 DEF RegistrationKnown, First, Later, TypeOK
  <2>3. ClearingKnown'
    BY <1>2, <2>1 DEF ClearingKnown, comm
  <2>4. Heard'
    BY <1>4, <1>5, <2>1 DEF clients
  <2> QED
    BY <2>2, <2>3, <2>4
<1>12. CASE LoadSet(t, "load", "store")
  <2>1. /\ pc[t] = "load" /\ pc'[t] = "store"
        /\ \A s \in Thread \ {t} : pc'[s] = pc[s]
        /\ value' = [value EXCEPT ![t] = communicationSet]
        /\ UNCHANGED <<maxConnfd, communicationSet, connfd, created, comm, clients>>
    BY <1>12, GotoProperties DEF LoadSet, shared, LoginPc
  <2>2. RegistrationKnown'
    BY <2>1 DEF RegistrationKnown, First, Later, TypeOK
  <2>3. ClearingKnown'
    BY <1>2, <2>1 DEF ClearingKnown, comm
  <2>4. Heard'
    BY <1>4, <1>5, <2>1 DEF clients
  <2> QED
    BY <2>2, <2>3, <2>4
<1>13. CASE StoreSet(t, "firstStore", "create")
  <2>1. /\ pc[t] = "firstStore" /\ pc'[t] = "create"
        /\ \A s \in Thread \ {t} : pc'[s] = pc[s]
        /\ communicationSet' = value[t] \cup {connfd[t]}
        /\ value' = [value EXCEPT ![t] = {}]
        /\ UNCHANGED <<maxConnfd, connfd, created, comm, clients>>
    BY <1>13, GotoProperties DEF StoreSet, LoginPc
  <2>2. RegistrationKnown'
    BY <1>2, <2>1 DEF RegistrationKnown, First, Later
  <2>3. ClearingKnown'
    BY <1>2, <2>1 DEF ClearingKnown, comm
  <2>4. Heard'
    BY <1>4, <1>5, <2>1 DEF RegistrationKnown, clients
  <2> QED
    BY <2>2, <2>3, <2>4
<1>14. CASE StoreSet(t, "store", "end")
  <2>1. /\ pc[t] = "store" /\ pc'[t] = "end"
        /\ \A s \in Thread \ {t} : pc'[s] = pc[s]
        /\ communicationSet' = value[t] \cup {connfd[t]}
        /\ value' = [value EXCEPT ![t] = {}]
        /\ UNCHANGED <<maxConnfd, connfd, created, comm, clients>>
    BY <1>14, GotoProperties DEF StoreSet, LoginPc
  <2>2. RegistrationKnown'
    BY <1>2, <2>1 DEF RegistrationKnown, First, Later
  <2>3. ClearingKnown'
    BY <1>2, <2>1 DEF ClearingKnown, comm
  <2>4. Heard'
    BY <1>4, <1>5, <2>1 DEF RegistrationKnown, clients
  <2> QED
    BY <2>2, <2>3, <2>4
<1>15. CASE Create(t)
  <2>1. /\ pc[t] = "create" /\ pc'[t] = "login"
        /\ \A s \in Thread \ {t} : pc'[s] = pc[s]
        /\ created' = created + 1 /\ commPc' = [commPc EXCEPT ![created + 1] = "copy"]
        /\ connfd' = [connfd EXCEPT ![t] = NoFd]
        /\ UNCHANGED <<maxConnfd, communicationSet, value, ready, word, opened>>
    BY <1>15, GotoProperties DEF Create, shared, clients, LoginPc
  <2>2. RegistrationKnown'
    BY <1>2, <2>1 DEF RegistrationKnown, First, TypeOK
  <2>3. ClearingKnown'
    BY <2>1 DEF RegistrationKnown, First, ClearingKnown
  <2>4. Heard'
    BY <1>4, <2>1 DEF RegistrationKnown, First, Heard
  <2> QED
    BY <2>2, <2>3, <2>4
<1>16. CASE MaxLoad(t)
  <2>1. /\ pc[t] = "maxLoad" /\ pc'[t] = "maxStore"
        /\ \A s \in Thread \ {t} : pc'[s] = pc[s]
        /\ value' = [value EXCEPT ![t] = IF connfd[t] > maxConnfd THEN {connfd[t]} ELSE {maxConnfd}]
        /\ UNCHANGED <<maxConnfd, communicationSet, connfd, created, comm, clients>>
    BY <1>16, GotoProperties DEF MaxLoad, shared, LoginPc
  <2>2. RegistrationKnown'
    BY <2>1 DEF RegistrationKnown, First, Later, TypeOK
  <2>3. ClearingKnown'
    BY <1>2, <2>1 DEF ClearingKnown, comm
  <2>4. Heard'
    BY <1>4, <1>5, <2>1 DEF clients
  <2> QED
    BY <2>2, <2>3, <2>4
<1>17. CASE MaxStore(t)
  <2>1. /\ pc[t] = "maxStore" /\ pc'[t] = "load"
        /\ \A s \in Thread \ {t} : pc'[s] = pc[s]
        /\ maxConnfd' = (IF connfd[t] > maxConnfd THEN connfd[t] ELSE maxConnfd)
        /\ value' = [value EXCEPT ![t] = {}]
        /\ UNCHANGED <<communicationSet, connfd, created, comm, clients>>
    BY <1>17, GotoProperties DEF MaxStore, RegistrationKnown, LoginPc
  <2>2. RegistrationKnown'
    BY <1>2, <1>3, <2>1 DEF RegistrationKnown, First, Later, TypeOK, Fd
  <2>3. ClearingKnown'
    BY <1>2, <2>1 DEF ClearingKnown, comm
  <2>4. Heard'
    BY <1>4, <1>5, <2>1 DEF Fd, TypeOK, clients
  <2> QED
    BY <2>2, <2>3, <2>4
<1>18. CASE End(t)
  <2>1. /\ pc[t] = "end" /\ pc'[t] = "login"
        /\ \A s \in Thread \ {t} : pc'[s] = pc[s]
        /\ connfd' = [connfd EXCEPT ![t] = NoFd]
        /\ UNCHANGED <<maxConnfd, communicationSet, value, created, comm, clients>>
    BY <1>18, GotoProperties DEF End, shared, LoginPc
  <2>2. RegistrationKnown'
    BY <2>1 DEF RegistrationKnown, First, Later, TypeOK
  <2>3. ClearingKnown'
    BY <1>2, <2>1 DEF ClearingKnown, comm
  <2>4. Heard'
    BY <1>4, <2>1 DEF RegistrationKnown, Later, clients, Heard
  <2> QED
    BY <2>2, <2>3, <2>4
<1> QED
  BY <1>6, <1>7, <1>8, <1>9, <1>10, <1>11, <1>12, <1>13, <1>14, <1>15, <1>16, <1>17,
     <1>18 DEF Register, FirstSet, LaterSet

(* A step of a login thread that begins to register alone. *)
LEMMA LoginHInv ==
  ASSUME IInv, ~overlapped, RegistrationKnown, ClearingKnown, Heard,
         NEW t \in Thread, Login(t), ~Overlap'
  PROVE  RegistrationKnown' /\ ClearingKnown' /\ Heard'
<1> USE DEF IInv
<1>1. /\ pc[t] = "login" /\ pc' = [pc EXCEPT ![t] = "test"]
      /\ UNCHANGED <<shared, value, created, comm>>
  BY DEF Login, Goto
<1>2. PICK fd \in Fd : /\ connfd' = [connfd EXCEPT ![t] = fd]
                       /\ opened' = opened \cup {fd}
  BY DEF Login
<1>3. \A c \in CommThread : commPc[c] \notin {"clear", "clearStore"}
  BY <1>1 DEF Overlap, TypeOK, comm
<1>4. RegistrationKnown'
  BY <1>1, <1>2 DEF RegistrationKnown, TypeOK, shared, First, Later
<1>5. ClearingKnown'
  BY <1>1, <1>3 DEF ClearingKnown, comm
<1>6. Heard'
  BY <1>1, <1>2 DEF Heard, Registering, TypeOK, shared, RegistrationKnown, Fd, NoFd
<1> QED
  BY <1>4, <1>5, <1>6

(* A step of a communication thread. *)
LEMMA CommHInv ==
  ASSUME IInv, ~overlapped, HInv, NEW c \in CommThread, CommStep(c), ~Overlap'
  PROVE  RegistrationKnown' /\ ClearingKnown' /\ Heard'
<1>1. CASE CopySet(c) \/ Select(c)
  BY <1>1 DEF CopySet, Select, clients, HInv, IInv, CommGoto, RegistrationKnown,
     ClearingKnown, Heard, Registering, TypeOK, shared, login, First
<1>2. CASE ScanEnd(c)
  BY <1>2 DEF ScanEnd, clients, HInv, CommGoto, RegistrationKnown, ClearingKnown,
     Heard, Registering, shared, login, First
<1>3. CASE \E fd \in Fd : RecvEnd(c, fd) \/ RecvClosed(c, fd)
  BY <1>3 DEF RecvEnd, RecvClosed, Current, clients, HInv,
     RegistrationKnown, ClearingKnown, Heard, Registering, shared, login, First
<1>4. CASE \E fd \in Fd :
             \/ Receive(c, fd) \/ ReceiveOther(c, fd) \/ Answer(c, fd)
             \/ ReturnPiece(c, fd) \/ ReceiveBye(c, fd)
  <2>1. /\ \E to \in {"scan", "recv", "close"} : commPc' = [commPc EXCEPT ![c] = to]
        /\ commPc[c] \in {"scan", "recv"}
        /\ UNCHANGED <<shared, login, created, word, opened>>
        /\ \A d \in CommThread \ {c} : ready'[d] = ready[d]
    BY <1>4 DEF Receive, ReceiveOther, Answer, ReturnPiece, ReceiveBye, Returns, Current,
                CommGoto, clients, IInv, TypeOK
  <2> QED
    BY <2>1 DEF HInv, IInv, RegistrationKnown, ClearingKnown, Heard, Registering, TypeOK,
                Lowest, shared, login, First
<1>5. CASE \E fd \in Fd : Close(c, fd)
  BY <1>5 DEF Close, HInv, CommGoto, RegistrationKnown, ClearingKnown, Heard,
     Registering, shared, login, Lowest, First
<1>6. CASE ClearLoad(c)
  BY <1>6 DEF ClearLoad, clients, HInv, IInv, CommGoto, RegistrationKnown,
     ClearingKnown, Heard, Registering, TypeOK, shared, login, Lowest, First
<1>7. CASE ClearStore(c)
  <2>1. PICK fd \in Fd : Lowest(c, fd) /\ fd \notin opened
    BY <1>7 DEF ClearStore, HInv, CommGoto, ClearingKnown
  <2>2. Min(ready[c]) = fd
    BY <2>1 DEF Min, Lowest
  <2> QED
  BY <1>7, <2>1, <2>2 DEF ClearStore, clients, HInv, IInv, CommGoto,
     RegistrationKnown, ClearingKnown, Heard, Registering, TypeOK, Overlap, login,
     First
<1> QED
  BY <1>1, <1>2, <1>3, <1>4, <1>5, <1>6, <1>7 DEF CommStep

(* Every step keeps the invariant: once two writes overlap nothing is left to keep. *)
LEMMA NextHInv == IInv /\ HInv /\ [Next]_vars => HInv'
<1> SUFFICES ASSUME IInv, HInv, [Next]_vars, ~overlapped'
             PROVE  (~Overlap /\ RegistrationKnown /\ ClearingKnown /\ Heard)'
  BY DEF HInv
<1>1. CASE Next
  <2>1. ~overlapped /\ ~Overlap'
    BY <1>1 DEF Next, Remember
  <2>2. CASE \E t \in Thread : Login(t) \/ Register(t)
    BY <2>1, <2>2, LoginHInv, RegisterHInv DEF HInv
  <2>3. CASE \E c \in CommThread : CommStep(c)
    BY <2>1, <2>3, CommHInv
  <2>4. CASE \E fd \in Fd : Ask(fd) \/ Bye(fd)
    BY <2>1, <2>4 DEF Ask, Bye, Send, HInv, RegistrationKnown, ClearingKnown, Heard,
       Registering, shared, login, comm, First, Later, Lowest
  <2>5. CASE \E t \in Thread : LoginRecv(t)
    BY <2>1, <2>5 DEF LoginRecv, HInv, RegistrationKnown, ClearingKnown, Heard,
       Registering, shared, login, comm, clients, First, Later, Lowest
  <2> QED
    BY <1>1, <2>2, <2>3, <2>4, <2>5 DEF Next
<1>2. CASE UNCHANGED vars
  BY <1>2 DEF vars, HInv, Overlap, RegistrationKnown, ClearingKnown, Heard,
     Registering, shared, login, comm, clients, First, Later, Lowest
<1> QED
  BY <1>1, <1>2

(* A client whose registration is over can be heard, for any number of       *)
(* threads and clients, as long as no write of the set overlaps another.     *)
THEOREM AlwaysHeard == Spec => []Heard
<1>1. Init => HInv
  BY InitHInv
<1>2. HInv => Heard
  BY DEF HInv, Heard
<1> QED
  BY <1>1, <1>2, NextHInv, InvAlways, PTL DEF Spec
=============================================================================
