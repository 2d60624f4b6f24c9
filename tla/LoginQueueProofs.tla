-------------------------- MODULE LoginQueueProofs --------------------------
(***************************************************************************)
(* For any number of login threads and of connections: the accounting of   *)
(* the semaphores is an inductive invariant, and the ring implements the   *)
(* FIFO handoff of LoginHandoff.                                           *)
(***************************************************************************)
EXTENDS LoginQueue, FiniteSetTheorems, SequenceTheorems, TLAPS

IInv == TypeOK /\ MutexInv /\ SlotsInv /\ ItemsInv /\ HeldInv

Count(P) == IF P THEN 1 ELSE 0

(* The number of threads is a positive natural. *)
LEMMA NumThreadType == numThread \in Nat \ {0}
<1>1. IsFiniteSet(Thread) /\ Thread # {}
  BY ThreadAssumption
<1>2. Cardinality(Thread) \in Nat
  BY <1>1, FS_CardinalityType
<1>3. Cardinality(Thread) # 0
  BY <1>1, FS_EmptySet
<1> QED
  BY <1>2, <1>3 DEF numThread

(* Two counters less than numThread apart address different slots. *)
LEMMA IndexInjective ==
  ASSUME NEW j \in Nat, NEW k \in Nat, j < k, k - j < numThread
  PROVE  Index(j) # Index(k)
<1> DEFINE q == j \div numThread
           r == k \div numThread
<1>1. numThread \in Nat \ {0}
  BY NumThreadType
<1>2. /\ j = numThread * q + (j % numThread) /\ q \in Nat
      /\ k = numThread * r + (k % numThread) /\ r \in Nat
  BY <1>1
<1> HIDE DEF q, r
<1>3. SUFFICES ASSUME j % numThread = k % numThread
               PROVE  FALSE
  BY DEF Index
<1>4. k - j = numThread * (r - q)
  BY <1>1, <1>2, <1>3
<1>5. CASE r <= q
  BY <1>1, <1>2, <1>4, <1>5
<1>6. CASE r > q
  BY <1>1, <1>2, <1>4, <1>6
<1> QED
  BY <1>2, <1>5, <1>6

(* Every counter addresses a slot of the ring. *)
LEMMA IndexRange ==
  ASSUME NEW k \in Nat
  PROVE  Index(k) \in 0 .. numThread - 1
<1>1. numThread \in Nat \ {0}
  BY NumThreadType
<1> QED
  BY <1>1 DEF Index

(* The counts of the semaphore invariants are natural numbers, also in the  *)
(* next state.                                                             *)
LEMMA CountsAreNat ==
  /\ Readers \in Nat /\ Readers' \in Nat
  /\ Claiming \in Nat /\ Claiming' \in Nat
  /\ Returning \in Nat /\ Returning' \in Nat
<1>1. ASSUME NEW L
      PROVE  ThreadsIn(L) \in Nat /\ ThreadsIn(L)' \in Nat
  <2>1. IsFiniteSet(ThreadsAt(L)) /\ IsFiniteSet(ThreadsAt(L)')
    BY ThreadAssumption, FS_Subset DEF ThreadsAt
  <2> QED
    BY <2>1, FS_CardinalityType DEF ThreadsIn, ThreadsAt
<1> QED
  BY <1>1 DEF Readers, Claiming, Returning

(* A step that leaves the threads where they are. *)
LEMMA CountsSame ==
  ASSUME UNCHANGED pc
  PROVE  /\ Readers \in Nat /\ Readers' = Readers
         /\ Claiming \in Nat /\ Claiming' = Claiming
         /\ Returning \in Nat /\ Returning' = Returning
<1>1. ASSUME NEW labels
      PROVE  ThreadsIn(labels) \in Nat /\ ThreadsIn(labels)' = ThreadsIn(labels)
  <2>1. IsFiniteSet(ThreadsAt(labels))
    BY ThreadAssumption, FS_Subset DEF ThreadsAt
  <2> QED
    BY <2>1, FS_CardinalityType DEF ThreadsIn, ThreadsAt
<1> QED
  BY <1>1 DEF Readers, Claiming, Returning

(* The counts of the semaphore invariants after a step of one thread. *)
LEMMA CountsStep ==
  ASSUME NEW t \in Thread, NEW from, NEW to, DOMAIN pc = Thread, Goto(t, from, to)
  PROVE  /\ Readers \in Nat
         /\ Readers' = Readers + Count(to \in {"read", "postMutex"})
                               - Count(from \in {"read", "postMutex"})
         /\ Claiming \in Nat
         /\ Claiming' = Claiming + Count(to \in {"waitMutex", "read"})
                                 - Count(from \in {"waitMutex", "read"})
         /\ Returning \in Nat
         /\ Returning' = Returning + Count(to \in {"postMutex", "postSlots"})
                                   - Count(from \in {"postMutex", "postSlots"})
<1>1. pc[t] = from /\ pc' = [pc EXCEPT ![t] = to]
  BY DEF Goto
<1>2. ASSUME NEW labels
      PROVE  /\ ThreadsIn(labels) \in Nat
             /\ ThreadsIn(labels)'
                  = ThreadsIn(labels) + Count(to \in labels) - Count(from \in labels)
  <2> DEFINE A == {u \in Thread : pc[u] \in labels}
             B == {u \in Thread : pc'[u] \in labels}
  <2>0. ThreadsIn(labels) = Cardinality(A) /\ ThreadsIn(labels)' = Cardinality(B)
    BY DEF ThreadsIn, ThreadsAt
  <2>1. IsFiniteSet(A) /\ IsFiniteSet(B)
    BY ThreadAssumption, FS_Subset
  <2>2. Cardinality(A) \in Nat /\ Cardinality(B) \in Nat
    BY <2>1, FS_CardinalityType
  <2>3. pc'[t] = to /\ \A u \in Thread : u # t => pc'[u] = pc[u]
    BY <1>1
  <2>4. SUFFICES Cardinality(B) = Cardinality(A) + Count(to \in labels)
                                                 - Count(from \in labels)
    BY <2>0, <2>2
  <2>5. CASE from \in labels /\ to \in labels
    <3>1. A = B
      BY <1>1, <2>3, <2>5
    <3> QED
      BY <3>1, <2>2, <2>5 DEF Count
  <2>8. CASE from \notin labels /\ to \notin labels
    <3>1. A = B
      BY <1>1, <2>3, <2>8
    <3>2. Count(to \in labels) = 0 /\ Count(from \in labels) = 0
      BY <2>8 DEF Count
    <3> QED
      BY <3>1, <3>2, <2>2
  <2>6. CASE from \notin labels /\ to \in labels
    <3>1. B = A \cup {t} /\ t \notin A
      BY <1>1, <2>3, <2>6
    <3>2. Cardinality(B) = Cardinality(A) + 1
      BY <3>1, <2>1, FS_AddElement
    <3> QED
      BY <3>2, <2>2, <2>6 DEF Count
  <2>7. CASE from \in labels /\ to \notin labels
    <3>1. B = A \ {t} /\ t \in A
      BY <1>1, <2>3, <2>7
    <3>2. Cardinality(B) = Cardinality(A) - 1
      BY <3>1, <2>1, FS_RemoveElement
    <3> QED
      BY <3>2, <2>2, <2>7 DEF Count
  <2> QED
    BY <2>5, <2>6, <2>7, <2>8
<1> QED
  BY <1>2 DEF Readers, Claiming, Returning

-----------------------------------------------------------------------------
(* The initial states satisfy the invariant. *)
LEMMA InitIInv == Init => IInv
<1> SUFFICES ASSUME Init
             PROVE  IInv
  OBVIOUS
<1>1. numThread \in Nat \ {0}
  BY NumThreadType
<1>2. TypeOK
  <2>1. /\ connfds \in [0 .. numThread - 1 -> Conn \cup {NoConn}]
        /\ mainFd \in Conn \cup {NoConn}
        /\ connfd \in [Thread -> Conn \cup {NoConn}]
    BY DEF Init
  <2>2. pc \in [Thread -> {"waitItems", "waitMutex", "read", "postMutex",
                          "postSlots", "serve"}]
    BY DEF Init
  <2>3. slots \in Nat /\ accepted \in 0 .. MaxConn
    BY <1>1, MaxConnAssumption DEF Init
  <2> QED
    BY <2>1, <2>2, <2>3 DEF Init, TypeOK
<1>3. ASSUME NEW labels, "waitItems" \notin labels
      PROVE  ThreadsIn(labels) = 0
  <2>1. ThreadsAt(labels) = {}
    BY <1>3 DEF Init, ThreadsAt
  <2> QED
    BY <2>1, FS_EmptySet DEF ThreadsIn
<1>4. Readers = 0 /\ Claiming = 0 /\ Returning = 0
  BY <1>3 DEF Readers, Claiming, Returning
<1>5. MutexInv /\ SlotsInv /\ ItemsInv
  BY <1>1, <1>4 DEF Init, MutexInv, SlotsInv, ItemsInv, MainIn
<1>6. HeldInv
  BY DEF Init, HeldInv
<1> QED
  BY <1>2, <1>5, <1>6 DEF IInv

(* Every step preserves the invariant. *)
LEMMA NextIInv == IInv /\ [Next]_vars => IInv'
<1> SUFFICES ASSUME IInv, [Next]_vars
             PROVE  IInv'
  OBVIOUS
<1> USE DEF IInv
<1>0. numThread \in Nat \ {0} /\ NoConn \notin Conn /\ DOMAIN pc = Thread
  BY NumThreadType DEF NoConn, Conn, TypeOK
<1>1. ASSUME UNCHANGED pc
      PROVE  /\ Readers \in Nat /\ Readers' = Readers
             /\ Claiming \in Nat /\ Claiming' = Claiming
             /\ Returning \in Nat /\ Returning' = Returning
  BY <1>1, CountsSame
<1>3. CASE TypeShutdown
  <2>1. TypeOK'
    BY <1>3 DEF TypeShutdown, TypeOK, ring, sems, main, threads
  <2>2. MutexInv' /\ SlotsInv' /\ ItemsInv' /\ HeldInv'
    BY <1>3, <1>1 DEF TypeShutdown, MutexInv, SlotsInv, ItemsInv, HeldInv,
                      MainIn, Index, ring, sems, main, threads
  <2> QED
    BY <2>1, <2>2
<1>4. CASE ExecuteShutdown
  <2>1. TypeOK'
    BY <1>4 DEF ExecuteShutdown, MainGoto, TypeOK, ring, sems, threads
  <2>2. MutexInv' /\ SlotsInv' /\ ItemsInv' /\ HeldInv'
    BY <1>4, <1>1 DEF ExecuteShutdown, MainGoto, MutexInv, SlotsInv, ItemsInv,
                      HeldInv, MainIn, Index, ring, sems, threads
  <2> QED
    BY <2>1, <2>2
<1>5. CASE AcceptConn
  <2>1. accepted + 1 \in Conn
    BY <1>5, MaxConnAssumption DEF AcceptConn, TypeOK, Conn
  <2>2. TypeOK'
    BY <1>5, <2>1, MaxConnAssumption
       DEF AcceptConn, MainGoto, TypeOK, Conn, ring, sems, threads
  <2>3. MutexInv' /\ SlotsInv' /\ ItemsInv'
    BY <1>5, <1>1 DEF AcceptConn, MainGoto, MutexInv, SlotsInv, ItemsInv,
                      MainIn, ring, sems, threads
  <2>4. HeldInv'
    BY <1>5, <1>0, <2>1
       DEF AcceptConn, MainGoto, HeldInv, Index, ring, threads
  <2> QED
    BY <2>2, <2>3, <2>4
<1>6. CASE EnqWaitSlots
  <2>1. TypeOK'
    BY <1>6 DEF EnqWaitSlots, MainGoto, TypeOK, ring, threads
  <2>2. MutexInv' /\ SlotsInv' /\ ItemsInv'
    BY <1>6, <1>1, <1>0 DEF EnqWaitSlots, MainGoto, MutexInv, SlotsInv, ItemsInv,
                      MainIn, TypeOK, ring, threads
  <2>3. HeldInv'
    BY <1>6 DEF EnqWaitSlots, MainGoto, HeldInv, Index, ring, threads
  <2> QED
    BY <2>1, <2>2, <2>3
<1>7. CASE EnqWaitMutex
  <2>1. TypeOK'
    BY <1>7 DEF EnqWaitMutex, MainGoto, TypeOK, ring, threads
  <2>2. MutexInv' /\ SlotsInv' /\ ItemsInv'
    BY <1>7, <1>1, <1>0 DEF EnqWaitMutex, MainGoto, MutexInv, SlotsInv, ItemsInv,
                      MainIn, TypeOK, ring, threads
  <2>3. HeldInv'
    BY <1>7 DEF EnqWaitMutex, MainGoto, HeldInv, Index, ring, threads
  <2> QED
    BY <2>1, <2>2, <2>3
<1>8. CASE EnqWrite
  <2>1. Index(rearConnfd + 1) \in 0 .. numThread - 1
    BY IndexRange DEF TypeOK
  <2>2. TypeOK'
    BY <1>8, <2>1 DEF EnqWrite, MainGoto, TypeOK, sems, threads
  <2>a. UNCHANGED pc /\ mainPc = "write" /\ mainPc' = "postMutex"
    BY <1>8 DEF EnqWrite, MainGoto, threads
  <2>b. /\ rearConnfd \in Nat /\ frontConnfd \in Nat /\ slots \in Nat /\ items \in Nat
        /\ rearConnfd' = rearConnfd + 1 /\ UNCHANGED <<frontConnfd, mutex, slots, items>>
    BY <1>8 DEF EnqWrite, TypeOK, sems
  <2>3. MutexInv' /\ SlotsInv' /\ ItemsInv'
    BY <2>a, <2>b, <1>1, <1>0 DEF MutexInv, SlotsInv, ItemsInv, MainIn
  <2>4. ASSUME NEW k \in frontConnfd' + 1 .. rearConnfd'
        PROVE  connfds'[Index(k)] # NoConn
    <3>1. Index(k) \in 0 .. numThread - 1
      BY <1>8, IndexRange DEF EnqWrite, TypeOK
    <3>2. CASE k = rearConnfd + 1
      BY <1>8, <3>2, <3>1 DEF EnqWrite, MainGoto, HeldInv, TypeOK
    <3>3. CASE k # rearConnfd + 1
      <4>1. k \in frontConnfd + 1 .. rearConnfd /\ k \in Nat
        BY <1>8, <3>3 DEF EnqWrite, TypeOK
      <4>2. rearConnfd + 1 - k < numThread
        BY <1>8, <1>1, <1>0, <4>1
           DEF EnqWrite, MainGoto, SlotsInv, MainIn, TypeOK, threads
      <4>3. Index(k) # Index(rearConnfd + 1)
        BY <4>1, <4>2, IndexInjective DEF TypeOK
      <4> QED
        BY <1>8, <4>1, <4>3, <3>1 DEF EnqWrite, HeldInv, TypeOK
    <3> QED
      BY <3>2, <3>3
  <2>5. HeldInv'
    BY <1>8, <2>4 DEF EnqWrite, MainGoto, HeldInv, Index, threads
  <2> QED
    BY <2>2, <2>3, <2>5
<1>9. CASE EnqPostMutex
  <2>1. MutexInv' /\ SlotsInv' /\ ItemsInv'
    BY <1>9, <1>1, <1>0 DEF EnqPostMutex, MainGoto, MutexInv, SlotsInv, ItemsInv,
                      MainIn, TypeOK, ring, threads
  <2>2. mutex = 0
    BY <1>9, <1>1, <1>0 DEF EnqPostMutex, MainGoto, MutexInv, MainIn, TypeOK,
                      threads
  <2>3. TypeOK'
    BY <1>9, <2>2 DEF EnqPostMutex, MainGoto, TypeOK, ring, threads
  <2>4. HeldInv'
    BY <1>9 DEF EnqPostMutex, MainGoto, HeldInv, Index, ring, threads
  <2> QED
    BY <2>1, <2>3, <2>4
<1>10. CASE EnqPostItems
  <2>1. TypeOK'
    BY <1>10 DEF EnqPostItems, MainGoto, TypeOK, ring, threads
  <2>2. MutexInv' /\ SlotsInv' /\ ItemsInv'
    BY <1>10, <1>1, <1>0 DEF EnqPostItems, MainGoto, MutexInv, SlotsInv, ItemsInv,
                      MainIn, TypeOK, ring, threads
  <2>3. HeldInv'
    BY <1>10 DEF EnqPostItems, MainGoto, HeldInv, Index, ring, threads
  <2> QED
    BY <2>1, <2>2, <2>3
<1>11. ASSUME NEW t \in Thread, DeqWaitItems(t)
       PROVE  IInv'
  <2>1. Goto(t, "waitItems", "waitMutex")
    BY <1>11 DEF DeqWaitItems
  <2>0. /\ Readers \in Nat /\ Readers' = Readers
        /\ Claiming \in Nat /\ Claiming' = Claiming + 1
        /\ Returning \in Nat /\ Returning' = Returning
    BY <2>1, <1>0, CountsStep DEF Count
  <2>2. MutexInv' /\ SlotsInv' /\ ItemsInv'
    BY <1>11, <2>0, <1>0 DEF DeqWaitItems, MutexInv, SlotsInv, ItemsInv,
                      MainIn, TypeOK, ring, main
  <2>6. TypeOK'
    BY <1>11, <2>1 DEF DeqWaitItems, Goto, TypeOK, ring, main
  <2>7. HeldInv'
    BY <1>11, <2>1 DEF DeqWaitItems, Goto, HeldInv, TypeOK, Index, ring, main
  <2> QED
    BY <2>2, <2>6, <2>7
<1>12. ASSUME NEW t \in Thread, DeqWaitMutex(t)
       PROVE  IInv'
  <2>1. Goto(t, "waitMutex", "read")
    BY <1>12 DEF DeqWaitMutex
  <2>0. /\ Readers \in Nat /\ Readers' = Readers + 1
        /\ Claiming \in Nat /\ Claiming' = Claiming
        /\ Returning \in Nat /\ Returning' = Returning
    BY <2>1, <1>0, CountsStep DEF Count
  <2>2. MutexInv' /\ SlotsInv' /\ ItemsInv'
    BY <1>12, <2>0, <1>0 DEF DeqWaitMutex, MutexInv, SlotsInv, ItemsInv,
                      MainIn, TypeOK, ring, main
  <2>6. TypeOK'
    BY <1>12, <2>1 DEF DeqWaitMutex, Goto, TypeOK, ring, main
  <2>7. HeldInv'
    BY <1>12, <2>1 DEF DeqWaitMutex, Goto, HeldInv, TypeOK, Index, ring, main
  <2> QED
    BY <2>2, <2>6, <2>7
<1>13. ASSUME NEW t \in Thread, DeqRead(t)
       PROVE  IInv'
  <2>1. Goto(t, "read", "postMutex")
    BY <1>13 DEF DeqRead
  <2>0. /\ Readers \in Nat /\ Readers' = Readers
        /\ Claiming \in Nat /\ Claiming' = Claiming - 1
        /\ Returning \in Nat /\ Returning' = Returning + 1
    BY <2>1, <1>0, CountsStep DEF Count
  <2>a. /\ rearConnfd \in Nat /\ frontConnfd \in Nat /\ slots \in Nat /\ items \in Nat
        /\ frontConnfd' = frontConnfd + 1
        /\ UNCHANGED <<rearConnfd, mutex, slots, items, mainPc>>
    BY <1>13 DEF DeqRead, TypeOK, sems, main
  <2>2. MutexInv' /\ SlotsInv' /\ ItemsInv'
    BY <2>a, <2>0, <1>0 DEF MutexInv, SlotsInv, ItemsInv, MainIn
  <2>3. Index(frontConnfd + 1) \in 0 .. numThread - 1
    BY IndexRange DEF TypeOK
  <2>4. frontConnfd + 1 \in frontConnfd + 1 .. rearConnfd
    <3>1. Claiming >= 1
      BY <2>0, CountsAreNat
    <3>2. rearConnfd - frontConnfd >= 1
      BY <3>1, <2>0 DEF ItemsInv, MainIn, TypeOK
    <3> QED
      BY <3>2 DEF TypeOK
  <2>5. connfds[Index(frontConnfd + 1)] # NoConn
    BY <2>4 DEF HeldInv
  <2>6. TypeOK'
    BY <1>13, <2>1, <2>3 DEF DeqRead, Goto, TypeOK, sems, main
  <2>7. HeldInv'
    BY <1>13, <2>1, <2>5, <2>4 DEF DeqRead, Goto, HeldInv, TypeOK, Index, sems, main
  <2> QED
    BY <2>2, <2>6, <2>7
<1>14. ASSUME NEW t \in Thread, DeqPostMutex(t)
       PROVE  IInv'
  <2>1. Goto(t, "postMutex", "postSlots")
    BY <1>14 DEF DeqPostMutex
  <2>0. /\ Readers \in Nat /\ Readers' = Readers - 1
        /\ Claiming \in Nat /\ Claiming' = Claiming
        /\ Returning \in Nat /\ Returning' = Returning
    BY <2>1, <1>0, CountsStep DEF Count
  <2>2. MutexInv' /\ SlotsInv' /\ ItemsInv'
    BY <1>14, <2>0, <1>0 DEF DeqPostMutex, MutexInv, SlotsInv, ItemsInv,
                      MainIn, TypeOK, ring, main
  <2>a. Readers >= 1
    BY <2>0, CountsAreNat
  <2>3. mutex = 0
    BY <2>0, <2>a DEF MutexInv, MainIn, TypeOK
  <2>6. TypeOK'
    BY <1>14, <2>1, <2>3 DEF DeqPostMutex, Goto, TypeOK, ring, main
  <2>7. HeldInv'
    BY <1>14, <2>1 DEF DeqPostMutex, Goto, HeldInv, TypeOK, Index, ring, main
  <2> QED
    BY <2>2, <2>6, <2>7
<1>15. ASSUME NEW t \in Thread, DeqPostSlots(t)
       PROVE  IInv'
  <2>1. Goto(t, "postSlots", "serve")
    BY <1>15 DEF DeqPostSlots
  <2>0. /\ Readers \in Nat /\ Readers' = Readers
        /\ Claiming \in Nat /\ Claiming' = Claiming
        /\ Returning \in Nat /\ Returning' = Returning - 1
    BY <2>1, <1>0, CountsStep DEF Count
  <2>2. MutexInv' /\ SlotsInv' /\ ItemsInv'
    BY <1>15, <2>0, <1>0 DEF DeqPostSlots, MutexInv, SlotsInv, ItemsInv,
                      MainIn, TypeOK, ring, main
  <2>6. TypeOK'
    BY <1>15, <2>1 DEF DeqPostSlots, Goto, TypeOK, ring, main
  <2>7. HeldInv'
    BY <1>15, <2>1 DEF DeqPostSlots, Goto, HeldInv, TypeOK, Index, ring, main
  <2> QED
    BY <2>2, <2>6, <2>7
<1>16. ASSUME NEW t \in Thread, Serve(t)
       PROVE  IInv'
  <2>1. Goto(t, "serve", "waitItems")
    BY <1>16 DEF Serve
  <2>0. /\ Readers \in Nat /\ Readers' = Readers
        /\ Claiming \in Nat /\ Claiming' = Claiming
        /\ Returning \in Nat /\ Returning' = Returning
    BY <2>1, <1>0, CountsStep DEF Count
  <2>2. MutexInv' /\ SlotsInv' /\ ItemsInv'
    BY <1>16, <2>0, <1>0 DEF Serve, MutexInv, SlotsInv, ItemsInv,
                      MainIn, TypeOK, ring, sems, main
  <2>6. TypeOK'
    BY <1>16, <2>1 DEF Serve, Goto, TypeOK, ring, sems, main
  <2>7. HeldInv'
    BY <1>16, <2>1 DEF Serve, Goto, HeldInv, TypeOK, Index, ring, sems, main
  <2> QED
    BY <2>2, <2>6, <2>7
<1>17. CASE UNCHANGED vars
  <2>1. UNCHANGED <<ring, sems, main, threads, stdin>>
    BY <1>17 DEF vars
  <2>2. TypeOK'
    BY <2>1 DEF TypeOK, ring, sems, main, threads
  <2>3. MutexInv' /\ SlotsInv' /\ ItemsInv' /\ HeldInv'
    BY <2>1, <1>1 DEF MutexInv, SlotsInv, ItemsInv, HeldInv, MainIn, Index,
                      ring, sems, main, threads
  <2> QED
    BY <2>2, <2>3
<1> QED
  BY <1>3, <1>4, <1>5, <1>6, <1>7, <1>8, <1>9, <1>10, <1>11, <1>12, <1>13,
     <1>14, <1>15, <1>16, <1>17 DEF Next, MainStep, LoginDequeue

(* The program counters, the ring and its semaphores keep their types. *)
THEOREM TypeCorrect == Spec => []TypeOK
<1>1. IInv => TypeOK
  BY DEF IInv
<1> QED
  BY InitIInv, NextIInv, <1>1, PTL DEF Spec

(* Two threads never use the ring at a time, its indices included; the     *)
(* slots account for every place of it, the items for every connection in  *)
(* it, and whoever holds a connection knows which.                         *)
THEOREM RingAccounted == Spec => []RingInv
<1>1. IInv => RingInv
  BY DEF IInv, RingInv
<1> QED
  BY InitIInv, NextIInv, <1>1, PTL DEF Spec

-----------------------------------------------------------------------------
(* What the ring holds, as a sequence. *)
WaitingSeq ==
  /\ rearConnfd - frontConnfd \in Nat
  /\ waiting \in Seq(Conn \cup {NoConn})
  /\ Len(waiting) = rearConnfd - frontConnfd
  /\ \A i \in 1 .. rearConnfd - frontConnfd :
       waiting[i] = connfds[Index(frontConnfd + i)]

(* The invariant makes it a sequence of connections. *)
LEMMA WaitingIsSeq == IInv => WaitingSeq
<1> SUFFICES ASSUME IInv
             PROVE  WaitingSeq
  OBVIOUS
<1> DEFINE n == rearConnfd - frontConnfd
<1>1. n \in Nat
  BY CountsAreNat DEF IInv, TypeOK, ItemsInv, MainIn
<1>2. \A i \in 1 .. n : connfds[Index(frontConnfd + i)] \in Conn \cup {NoConn}
  <2> TAKE i \in 1 .. n
  <2>1. frontConnfd + i \in Nat
    BY <1>1 DEF IInv, TypeOK
  <2> QED
    BY <2>1, IndexRange DEF IInv, TypeOK
<1> HIDE DEF n
<1>3. waiting = [i \in 1 .. n |-> connfds[Index(frontConnfd + i)]]
  BY DEF waiting, n
<1>4. waiting \in [1 .. n -> Conn \cup {NoConn}]
  BY <1>2, <1>3
<1>5. waiting \in Seq(Conn \cup {NoConn})
  BY <1>1, <1>4, SeqDef
<1>6. Len(waiting) = n
  BY <1>1, <1>4, <1>5, LenProperties
<1> QED
  BY <1>1, <1>3, <1>5, <1>6 DEF n, WaitingSeq

(* A step that leaves the ring alone leaves the queue alone. *)
LEMMA RingSame == UNCHANGED ring => UNCHANGED waiting
BY DEF ring, waiting, Index

(* EnqWrite puts the connection the main thread holds behind the others. *)
LEMMA EnqWritePuts ==
  ASSUME IInv, IInv', EnqWrite
  PROVE  Handoff!Put
<1>0. WaitingSeq /\ WaitingSeq'
  BY WaitingIsSeq, PTL
<1>1. /\ rearConnfd' = rearConnfd + 1 /\ frontConnfd' = frontConnfd
      /\ connfds' = [connfds EXCEPT ![Index(rearConnfd + 1)] = mainFd]
      /\ rearConnfd \in Nat /\ frontConnfd \in Nat
      /\ mainFd \in Conn /\ mainFd # NoConn /\ mainFd' = NoConn
      /\ UNCHANGED connfd
  BY DEF EnqWrite, MainGoto, IInv, TypeOK, HeldInv, threads
<1>2. numThread \in Nat \ {0}
  BY NumThreadType
<1>3. rearConnfd - frontConnfd < numThread
  <2>1. slots \in Nat /\ Returning \in Nat
    BY CountsAreNat DEF IInv, TypeOK
  <2>2. slots + 1 + (rearConnfd - frontConnfd) + Returning = numThread
    BY <2>1, <1>1, <1>2 DEF EnqWrite, MainGoto, MainIn, IInv, SlotsInv
  <2> QED
    BY <2>1, <2>2, <1>1, <1>2
<1>4. Append(waiting, mainFd) \in Seq(Conn \cup {NoConn})
      /\ Len(Append(waiting, mainFd)) = Len(waiting) + 1
      /\ (\A i \in 1 .. Len(waiting) : Append(waiting, mainFd)[i] = waiting[i])
      /\ Append(waiting, mainFd)[Len(waiting) + 1] = mainFd
  BY <1>0, <1>1, AppendProperties DEF WaitingSeq
<1>5. Len(waiting') = Len(waiting) + 1 /\ Len(waiting) = rearConnfd - frontConnfd
  BY <1>0, <1>1 DEF WaitingSeq
<1>6. ASSUME NEW i \in 1 .. Len(waiting')
      PROVE  waiting'[i] = Append(waiting, mainFd)[i]
  <2>1. waiting'[i] = connfds'[Index(frontConnfd + i)] /\ frontConnfd + i \in Nat
    BY <1>0, <1>1, <1>5 DEF WaitingSeq
  <2>2. Index(frontConnfd + i) \in 0 .. numThread - 1
    BY <2>1, IndexRange
  <2>3. CASE i = Len(waiting) + 1
    <3>1. frontConnfd + i = rearConnfd + 1
      BY <2>3, <1>1, <1>5
    <3> QED
      BY <3>1, <2>1, <2>2, <2>3, <1>1, <1>4 DEF IInv, TypeOK
  <2>4. CASE i # Len(waiting) + 1
    <3>1. i \in 1 .. Len(waiting)
      BY <2>4, <1>5, <1>0 DEF WaitingSeq
    <3>2. frontConnfd + i < rearConnfd + 1 /\ rearConnfd + 1 - (frontConnfd + i) < numThread
      BY <3>1, <1>1, <1>2, <1>3, <1>5
    <3>3. Index(frontConnfd + i) # Index(rearConnfd + 1)
      BY <3>2, <2>1, <1>1, IndexInjective
    <3>4. connfds'[Index(frontConnfd + i)] = connfds[Index(frontConnfd + i)]
      BY <3>3, <2>2, <1>1 DEF IInv, TypeOK
    <3>5. waiting[i] = connfds[Index(frontConnfd + i)]
      BY <3>1, <1>0, <1>5 DEF WaitingSeq
    <3> QED
      BY <3>1, <3>4, <3>5, <2>1, <1>4
  <2> QED
    BY <2>3, <2>4
<1>7. waiting' = Append(waiting, mainFd)
  BY <1>0, <1>4, <1>5, <1>6, SeqEqual DEF WaitingSeq
<1> QED
  BY <1>1, <1>2, <1>3, <1>5, <1>7 DEF Handoff!Put

(* DeqRead takes the oldest connection of the ring. *)
LEMMA DeqReadTakes ==
  ASSUME IInv, IInv', NEW t \in Thread, DeqRead(t)
  PROVE  Handoff!Take(t)
<1>0. WaitingSeq /\ WaitingSeq'
  BY WaitingIsSeq, PTL
<1>1. /\ frontConnfd' = frontConnfd + 1 /\ rearConnfd' = rearConnfd
      /\ connfds' = connfds /\ mainFd' = mainFd
      /\ connfd' = [connfd EXCEPT ![t] = connfds[Index(frontConnfd + 1)]]
      /\ rearConnfd \in Nat /\ frontConnfd \in Nat
      /\ connfd[t] = NoConn
  BY DEF DeqRead, Goto, IInv, TypeOK, HeldInv, main
<1>2. Len(waiting) = rearConnfd - frontConnfd /\ Len(waiting') = Len(waiting) - 1
      /\ Len(waiting') \in Nat
  BY <1>0, <1>1 DEF WaitingSeq
<1>3. waiting # <<>>
  BY <1>2, EmptySeq
<1>4. /\ Tail(waiting) \in Seq(Conn \cup {NoConn})
      /\ Len(Tail(waiting)) = Len(waiting) - 1
      /\ \A i \in 1 .. Len(Tail(waiting)) : Tail(waiting)[i] = waiting[i + 1]
  BY <1>0, <1>3, HeadTailProperties DEF WaitingSeq
<1>5. Head(waiting) = connfds[Index(frontConnfd + 1)]
  BY <1>0, <1>1, <1>2, <1>3 DEF WaitingSeq
<1>6. ASSUME NEW i \in 1 .. Len(waiting')
      PROVE  waiting'[i] = Tail(waiting)[i]
  <2>1. waiting'[i] = connfds[Index(frontConnfd + 1 + i)]
    BY <1>0, <1>1, <1>2 DEF WaitingSeq, Index
  <2>2. waiting[i + 1] = connfds[Index(frontConnfd + (i + 1))]
    BY <1>0, <1>1, <1>2 DEF WaitingSeq
  <2>3. frontConnfd + 1 + i = frontConnfd + (i + 1)
    BY <1>1, <1>2
  <2> QED
    BY <2>1, <2>2, <2>3, <1>2, <1>4
<1>7. waiting' = Tail(waiting)
  BY <1>0, <1>2, <1>4, <1>6, SeqEqual DEF WaitingSeq
<1> QED
  BY <1>1, <1>3, <1>5, <1>7 DEF Handoff!Take

(* Every step of the implementation is a step of the handoff, or none. *)
LEMMA StepRefines ==
  ASSUME IInv, IInv', [Next]_vars
  PROVE  [Handoff!Next]_(Handoff!vars)
<1> USE DEF Handoff!vars
<1>1. CASE TypeShutdown
  BY <1>1, RingSame DEF TypeShutdown, ring, main, threads
<1>2. CASE AcceptConn
  <2>1. accepted + 1 \in Conn /\ mainFd = NoConn
    BY <1>2, MaxConnAssumption
       DEF AcceptConn, MainGoto, Conn, IInv, TypeOK, HeldInv
  <2>2. Handoff!Accept(accepted + 1)
    BY <1>2, <2>1, RingSame DEF AcceptConn, Handoff!Accept, threads
  <2> QED
    BY <2>1, <2>2 DEF Handoff!Next
<1>3. CASE MainStep
  <2>1. CASE EnqWrite
    BY <2>1, EnqWritePuts DEF Handoff!Next
  <2>2. CASE ExecuteShutdown \/ EnqWaitSlots \/ EnqWaitMutex \/ EnqPostMutex
               \/ EnqPostItems
    BY <2>2, RingSame DEF ExecuteShutdown, EnqWaitSlots, EnqWaitMutex,
                          EnqPostMutex, EnqPostItems, threads
  <2> QED
    BY <1>3, <2>1, <2>2 DEF MainStep
<1>4. ASSUME NEW t \in Thread, LoginDequeue(t)
      PROVE  [Handoff!Next]_(Handoff!vars)
  <2>1. CASE DeqRead(t)
    BY <2>1, DeqReadTakes DEF Handoff!Next
  <2>2. CASE DeqWaitItems(t) \/ DeqWaitMutex(t) \/ DeqPostMutex(t) \/ DeqPostSlots(t)
    BY <2>2, RingSame DEF DeqWaitItems, DeqWaitMutex, DeqPostMutex,
                          DeqPostSlots, main
  <2> QED
    BY <1>4, <2>1, <2>2 DEF LoginDequeue
<1>5. ASSUME NEW t \in Thread, Serve(t)
      PROVE  [Handoff!Next]_(Handoff!vars)
  <2>1. connfd[t] # NoConn
    BY <1>5 DEF Serve, Goto, IInv, HeldInv
  <2>2. Handoff!Finish(t)
    BY <1>5, <2>1, RingSame DEF Serve, Handoff!Finish, main
  <2> QED
    BY <2>2 DEF Handoff!Next
<1>6. CASE UNCHANGED vars
  BY <1>6, RingSame DEF vars, ring, main, threads
<1> QED
  BY <1>1, <1>2, <1>3, <1>4, <1>5, <1>6 DEF Next

(* The ring and its semaphores implement the FIFO handoff of connections,  *)
(* for any number of threads and of connections.                           *)
THEOREM ImplementsHandoff == Spec => HandoffSpec
<1>1. Init => Handoff!Init
  <2>1. ASSUME Init
        PROVE  waiting = <<>>
    <3>1. WaitingSeq
      BY <2>1, InitIInv, WaitingIsSeq
    <3>2. Len(waiting) = 0
      BY <3>1, <2>1 DEF WaitingSeq, Init
    <3> QED
      BY <3>1, <3>2, EmptySeq DEF WaitingSeq
  <2> QED
    BY <2>1 DEF Init, Handoff!Init
<1>2. IInv /\ IInv' /\ [Next]_vars => [Handoff!Next]_(Handoff!vars)
  BY StepRefines
<1> QED
  BY InitIInv, NextIInv, <1>1, <1>2, PTL DEF Spec, HandoffSpec, Handoff!Spec
=============================================================================
