----------------------------- MODULE LoginQueue -----------------------------
(***************************************************************************)
(* The main loop of the server and the bounded queue through which it      *)
(* hands accepted connections to the login threads (Server.c): a ring of   *)
(* as many slots as there are threads, a binary semaphore for its indices, *)
(* and the counting semaphores "slots" and "items".                        *)
(*                                                                         *)
(* Connections are numbered in the order accept() returns them. What a     *)
(* login thread does with one is the single step Serve here; module Login  *)
(* models it.                                                              *)
(***************************************************************************)
EXTENDS Integers, FiniteSets, Sequences

CONSTANTS Thread,    \* the login threads; -t gives their number
          MaxConn    \* bound: how many connections arrive

ASSUME ThreadAssumption == IsFiniteSet(Thread) /\ Thread # {}
ASSUME MaxConnAssumption == MaxConn \in Nat

numThread == Cardinality(Thread)

Conn == 1 .. MaxConn
NoConn == 0

VARIABLES connfds,          \* the ring
          frontConnfd,      \* counts dequeues
          rearConnfd,       \* counts enqueues
          mutex, slots, items,
          mainPc, mainFd,   \* the main thread and the connection it holds
          pc, connfd,       \* the login threads and the connection of each
          accepted,         \* connections accepted so far
          stdin             \* TRUE once the operator has typed /shutdown

sems == <<mutex, slots, items>>
ring == <<connfds, frontConnfd, rearConnfd>>
main == <<mainPc, mainFd, accepted>>
threads == <<pc, connfd>>
vars == <<ring, sems, main, threads, stdin>>

Index(k) == k % numThread

\* Mutant: the binary semaphore starts with as many units as there are slots.
InitMutexSlots ==
  /\ connfds = [i \in 0 .. numThread - 1 |-> NoConn]
  /\ frontConnfd = 0 /\ rearConnfd = 0
  /\ mutex = numThread /\ slots = numThread /\ items = 0
  /\ mainPc = "select" /\ mainFd = NoConn
  /\ pc = [t \in Thread |-> "waitItems"]
  /\ connfd = [t \in Thread |-> NoConn]
  /\ accepted = 0
  /\ stdin = FALSE

Init ==
  /\ connfds = [i \in 0 .. numThread - 1 |-> NoConn]
  /\ frontConnfd = 0 /\ rearConnfd = 0
  /\ mutex = 1 /\ slots = numThread /\ items = 0
  /\ mainPc = "select" /\ mainFd = NoConn
  /\ pc = [t \in Thread |-> "waitItems"]
  /\ connfd = [t \in Thread |-> NoConn]
  /\ accepted = 0
  /\ stdin = FALSE

-----------------------------------------------------------------------------
(* The main thread. *)

MainGoto(from, to) == mainPc = from /\ mainPc' = to

\* The operator types /shutdown. The other commands change nothing here.
TypeShutdown ==
  /\ ~stdin /\ mainPc # "exit"
  /\ stdin' = TRUE
  /\ UNCHANGED <<ring, sems, main, threads>>

\* select() reports the terminal: executeCommand clears runFlag, the loop
\* ends and the process with it. The loop looks at the terminal first.
ExecuteShutdown ==
  /\ MainGoto("select", "exit")
  /\ stdin
  /\ UNCHANGED <<ring, sems, threads, mainFd, accepted, stdin>>

\* select() reports the listening socket, accept() returns a connection, and
\* the main thread enters loginEnqueue.
AcceptConn ==
  /\ MainGoto("select", "waitSlots")
  /\ ~stdin
  /\ accepted < MaxConn
  /\ accepted' = accepted + 1
  /\ mainFd' = accepted + 1
  /\ UNCHANGED <<ring, sems, threads, stdin>>

\* Mutant: the main thread does not wait for a free slot.
EnqWaitSlotsSkipped ==
  /\ MainGoto("waitSlots", "waitMutex")
  /\ UNCHANGED <<ring, sems, threads, mainFd, accepted, stdin>>

EnqWaitSlots ==
  /\ MainGoto("waitSlots", "waitMutex")
  /\ slots > 0
  /\ slots' = slots - 1
  /\ UNCHANGED <<ring, threads, mainFd, accepted, mutex, items, stdin>>

EnqWaitMutex ==
  /\ MainGoto("waitMutex", "write")
  /\ mutex > 0
  /\ mutex' = mutex - 1
  /\ UNCHANGED <<ring, threads, mainFd, accepted, slots, items, stdin>>

EnqWrite ==
  /\ MainGoto("write", "postMutex")
  /\ rearConnfd' = rearConnfd + 1
  /\ connfds' = [connfds EXCEPT ![Index(rearConnfd + 1)] = mainFd]
  /\ mainFd' = NoConn
  /\ UNCHANGED <<frontConnfd, sems, threads, accepted, stdin>>

EnqPostMutex ==
  /\ MainGoto("postMutex", "postItems")
  /\ mutex' = mutex + 1
  /\ UNCHANGED <<ring, threads, mainFd, accepted, slots, items, stdin>>

\* Mutant: the consumers are not told.
EnqPostItemsLost ==
  /\ MainGoto("postItems", "select")
  /\ UNCHANGED <<ring, sems, threads, mainFd, accepted, stdin>>

EnqPostItems ==
  /\ MainGoto("postItems", "select")
  /\ items' = items + 1
  /\ UNCHANGED <<ring, threads, mainFd, accepted, mutex, slots, stdin>>

MainStep ==
  \/ ExecuteShutdown
  \/ EnqWaitSlots \/ EnqWaitMutex \/ EnqWrite \/ EnqPostMutex \/ EnqPostItems

-----------------------------------------------------------------------------
(* Login thread t. The threads run until the process exits. *)

Goto(t, from, to) ==
  /\ mainPc # "exit"
  /\ pc[t] = from
  /\ pc' = [pc EXCEPT ![t] = to]

DeqWaitItems(t) ==
  /\ Goto(t, "waitItems", "waitMutex")
  /\ items > 0
  /\ items' = items - 1
  /\ UNCHANGED <<ring, main, connfd, mutex, slots, stdin>>

\* Mutant: the indices are used without the binary semaphore.
DeqWaitMutexSkipped(t) ==
  /\ Goto(t, "waitMutex", "read")
  /\ UNCHANGED <<ring, main, connfd, sems, stdin>>

DeqWaitMutex(t) ==
  /\ Goto(t, "waitMutex", "read")
  /\ mutex > 0
  /\ mutex' = mutex - 1
  /\ UNCHANGED <<ring, main, connfd, slots, items, stdin>>

DeqRead(t) ==
  /\ Goto(t, "read", "postMutex")
  /\ frontConnfd' = frontConnfd + 1
  /\ connfd' = [connfd EXCEPT ![t] = connfds[Index(frontConnfd + 1)]]
  /\ UNCHANGED <<connfds, rearConnfd, sems, main, stdin>>

DeqPostMutex(t) ==
  /\ Goto(t, "postMutex", "postSlots")
  /\ mutex' = mutex + 1
  /\ UNCHANGED <<ring, main, connfd, slots, items, stdin>>

\* Mutant: the slot is not given back.
DeqPostSlotsLost(t) ==
  /\ Goto(t, "postSlots", "serve")
  /\ UNCHANGED <<ring, main, connfd, sems, stdin>>

DeqPostSlots(t) ==
  /\ Goto(t, "postSlots", "serve")
  /\ slots' = slots + 1
  /\ UNCHANGED <<ring, main, connfd, mutex, items, stdin>>

\* The whole login exchange with the client; Recv has no timeout, so it
\* takes as long as the client pleases.
Serve(t) ==
  /\ Goto(t, "serve", "waitItems")
  /\ connfd' = [connfd EXCEPT ![t] = NoConn]
  /\ UNCHANGED <<ring, main, sems, stdin>>

LoginDequeue(t) ==
  \/ DeqWaitItems(t) \/ DeqWaitMutex(t) \/ DeqRead(t)
  \/ DeqPostMutex(t) \/ DeqPostSlots(t)

Next ==
  \/ TypeShutdown
  \/ AcceptConn
  \/ MainStep
  \/ \E t \in Thread : LoginDequeue(t) \/ Serve(t)

Spec == Init /\ [][Next]_vars

(* The scheduler runs every thread that can run; nothing is said of the    *)
(* clients, so neither AcceptConn nor Serve is fair.                       *)
FairSpec ==
  /\ Spec
  /\ WF_vars(MainStep)
  /\ \A t \in Thread : WF_vars(LoginDequeue(t))

(* The same, with clients that complete or abandon the login exchange.     *)
ResponsiveSpec ==
  /\ FairSpec
  /\ \A t \in Thread : WF_vars(Serve(t))

-----------------------------------------------------------------------------
(* Type invariant: the ring, the semaphores and the program counters. *)
TypeOK ==
  /\ connfds \in [0 .. numThread - 1 -> Conn \cup {NoConn}]
  /\ frontConnfd \in Nat /\ rearConnfd \in Nat
  /\ mutex \in {0, 1} /\ slots \in Nat /\ items \in Nat
  /\ mainPc \in {"select", "waitSlots", "waitMutex", "write", "postMutex",
                 "postItems", "exit"}
  /\ mainFd \in Conn \cup {NoConn}
  /\ pc \in [Thread -> {"waitItems", "waitMutex", "read", "postMutex",
                        "postSlots", "serve"}]
  /\ connfd \in [Thread -> Conn \cup {NoConn}]
  /\ accepted \in 0 .. MaxConn
  /\ stdin \in BOOLEAN

MainIn(labels) == IF mainPc \in labels THEN 1 ELSE 0
ThreadsAt(labels) == {t \in Thread : pc[t] \in labels}
ThreadsIn(labels) == Cardinality(ThreadsAt(labels))

Readers   == ThreadsIn({"read", "postMutex"})       \* use the ring
Claiming  == ThreadsIn({"waitMutex", "read"})       \* own an item not yet read
Returning == ThreadsIn({"postMutex", "postSlots"})  \* own a slot already read

(* The binary semaphore is taken exactly while one thread uses the ring:   *)
(* two threads never increment an index of the ring together.              *)
MutexInv ==
  mutex + MainIn({"write", "postMutex"}) + Readers = 1

(* Every slot is free, reserved by the main thread, occupied, or being     *)
(* given back by a reader: no connection is ever overwritten in the ring.  *)
SlotsInv ==
  slots + MainIn({"waitMutex", "write"}) + (rearConnfd - frontConnfd)
        + Returning = numThread

(* Every occupied slot is announced by the main thread, counted in items,  *)
(* or claimed by one reader: no reader ever finds the ring empty.          *)
ItemsInv ==
  items + MainIn({"postMutex", "postItems"}) + Claiming
    = rearConnfd - frontConnfd

(* The main thread holds a connection exactly between accept and the write *)
(* of it to the ring, a login thread exactly from its read to the end of   *)
(* the exchange.                                                           *)
HeldInv ==
  /\ mainFd # NoConn <=> mainPc \in {"waitSlots", "waitMutex", "write"}
  /\ \A t \in Thread : connfd[t] # NoConn
                         <=> pc[t] \in {"postMutex", "postSlots", "serve"}
  /\ \A k \in frontConnfd + 1 .. rearConnfd : connfds[Index(k)] # NoConn

(* The semaphores account for every slot, every item and every thread at   *)
(* the ring: no connection is overwritten before it is taken, none is      *)
(* taken before it is written, and each is held by one thread at a time    *)
(* (loginEnqueue, loginDequeue).                                           *)
RingInv == MutexInv /\ SlotsInv /\ ItemsInv /\ HeldInv

(* The connections in the ring, oldest first. *)
waiting == [i \in 1 .. rearConnfd - frontConnfd |-> connfds[Index(frontConnfd + i)]]

Handoff == INSTANCE LoginHandoff
             WITH Capacity <- numThread, held <- mainFd, queue <- waiting,
                  serving <- connfd

(* The ring and its semaphores implement the FIFO handoff: connections     *)
(* leave in the order they were accepted, each to one thread, none lost.   *)
HandoffSpec == Handoff!Spec

(* Every accepted connection reaches a login thread, when the clients that  *)
(* are being served respond and the operator does not stop the server.     *)
EveryConnServed ==
  \A c \in Conn :
    mainFd = c ~> \/ \E t \in Thread : pc[t] = "serve" /\ connfd[t] = c
                  \/ mainPc = "exit"

(* The usage text of the server says of /shutdown "Terminate server".      *)
ShutdownTerminates == stdin ~> mainPc = "exit"
=============================================================================
