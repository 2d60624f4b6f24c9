---------------------------- MODULE LoginHandoff ----------------------------
(***************************************************************************)
(* What the login queue of the server promises, without semaphores or a    *)
(* ring: the main thread holds at most one accepted connection, the queue  *)
(* keeps at most Capacity of them in the order they were accepted, and a   *)
(* login thread that serves nobody takes the oldest.                       *)
(***************************************************************************)
EXTENDS Naturals, Sequences

CONSTANTS Thread,    \* the login threads
          Conn,      \* accepted connections
          NoConn,    \* the absence of a connection
          Capacity   \* how many connections may wait

VARIABLES held,      \* the connection the main thread is about to enqueue
          queue,     \* the connections that wait, oldest first
          serving    \* the connection each login thread is serving

vars == <<held, queue, serving>>

Init ==
  /\ held = NoConn
  /\ queue = <<>>
  /\ serving = [t \in Thread |-> NoConn]

\* accept() returns c to the main thread.
Accept(c) ==
  /\ held = NoConn
  /\ held' = c
  /\ UNCHANGED <<queue, serving>>

\* The connection the main thread holds joins the queue.
Put ==
  /\ held # NoConn
  /\ Len(queue) < Capacity
  /\ queue' = Append(queue, held)
  /\ held' = NoConn
  /\ UNCHANGED serving

\* The oldest connection goes to thread t.
Take(t) ==
  /\ serving[t] = NoConn
  /\ queue # <<>>
  /\ serving' = [serving EXCEPT ![t] = Head(queue)]
  /\ queue' = Tail(queue)
  /\ UNCHANGED held

\* Thread t is done with its connection.
Finish(t) ==
  /\ serving[t] # NoConn
  /\ serving' = [serving EXCEPT ![t] = NoConn]
  /\ UNCHANGED <<held, queue>>

Next ==
  \/ \E c \in Conn : Accept(c)
  \/ Put
  \/ \E t \in Thread : Take(t) \/ Finish(t)

Spec == Init /\ [][Next]_vars
=============================================================================
