---------------------------- MODULE Registration ----------------------------
(***************************************************************************)
(* How login threads hand their clients to the communication threads       *)
(* (Server.c 329-342 and 471-511): communicationSet, maxConnfd and         *)
(* numCommunication, which no lock protects. FD_SET, FD_CLR and the update *)
(* of maxConnfd are a load and a store each.                               *)
(*                                                                         *)
(* A client is here from the time it is greeted. It sends one request at a *)
(* time: "ask" stands for TIME, LISTU and MSG. What the answers say and    *)
(* what BYE does to the list of users is in modules Login and UserList.    *)
(***************************************************************************)
EXTENDS Integers, FiniteSets, FiniteSetsExt

CONSTANTS Thread,    \* the login threads
          MaxFd,     \* bound: the largest descriptor of a client
          MaxLogin,  \* bound: how many clients are greeted
          MaxMixed   \* bound: how many steps there are from the one on that
                     \* lets two threads be in Recv at once

ASSUME ThreadAssumption == IsFiniteSet(Thread) /\ Thread # {}
ASSUME BoundAssumption == MaxFd \in Nat /\ MaxLogin \in Nat /\ MaxMixed \in Nat

Fd == 1 .. MaxFd
NoFd == 0
CommThread == 1 .. Cardinality(Thread)

VARIABLES numCommunication, maxConnfd, communicationSet,
          pc, connfd,   \* the login threads and the client of each
          value,        \* what each has loaded: a set or a descriptor
          created,      \* how many communication threads were created
          commPc,       \* the communication threads
          ready,        \* communicationReadySet of each
          word,         \* the set each has loaded in FD_CLR
          opened,       \* descriptors open in the server
          request,      \* what is in the socket of each client
          crashed,      \* Recv has followed a null pointer
          mixed,        \* history: two threads were in Recv at once
          logins,       \* logins so far
          since,        \* how many steps ago they were
          overlapped    \* history: somebody else wrote the set during a
                        \* registration

shared == <<numCommunication, maxConnfd, communicationSet>>
login == <<pc, connfd, value>>
comm == <<commPc, ready, word>>
clients == <<opened, request>>
fate == <<crashed, mixed>>
vars == <<shared, login, created, comm, clients, fate, logins, since, overlapped>>

Init ==
  /\ numCommunication = 0 /\ maxConnfd = -1 /\ communicationSet = {}
  /\ pc = [t \in Thread |-> "login"]
  /\ connfd = [t \in Thread |-> NoFd]
  /\ value = [t \in Thread |-> {}]
  /\ created = 0
  /\ commPc = [c \in CommThread |-> "none"]
  /\ ready = [c \in CommThread |-> {}]
  /\ word = [c \in CommThread |-> {}]
  /\ opened = {}
  /\ request = [fd \in Fd |-> "none"]
  /\ crashed = FALSE /\ mixed = FALSE /\ since = 0
  /\ logins = 0
  /\ overlapped = FALSE

-----------------------------------------------------------------------------
(* Login thread t, from the greeting of its client on. *)

Goto(t, from, to) ==
  /\ pc[t] = from
  /\ pc' = [pc EXCEPT ![t] = to]

\* The client has its descriptor, the lowest that was free.
Login(t) ==
  /\ Goto(t, "login", "test")
  /\ logins < MaxLogin
  /\ \E fd \in Fd \ opened :
       /\ \A other \in Fd \ opened : fd <= other
       /\ connfd' = [connfd EXCEPT ![t] = fd]
       /\ opened' = opened \cup {fd}
  /\ logins' = logins + 1
  /\ UNCHANGED <<shared, value, created, comm, request, fate>>

\* Before that the client has sent its name and password: the login thread is
\* in Recv, maybe at the same time as a communication thread.
LoginRecv(t) ==
  /\ pc[t] = "login" /\ logins < MaxLogin
  /\ \E c \in CommThread : commPc[c] = "recv"
  /\ mixed' = TRUE
  /\ UNCHANGED <<shared, login, created, comm, clients, crashed, logins>>

\* Mutant: the comparison is turned round.
TestInverted(t) ==
  /\ Goto(t, "test", IF numCommunication # 0 THEN "firstInc" ELSE "inc")
  /\ UNCHANGED <<shared, connfd, value, created, comm, clients, fate, logins>>

Test(t) ==
  /\ Goto(t, "test", IF numCommunication = 0 THEN "firstInc" ELSE "inc")
  /\ UNCHANGED <<shared, connfd, value, created, comm, clients, fate, logins>>

\* Mutant: the client is counted twice.
IncrementTwice(t, from, to) ==
  /\ Goto(t, from, to)
  /\ numCommunication' = numCommunication + 2
  /\ UNCHANGED <<maxConnfd, communicationSet, connfd, value, created, comm, clients,
                 fate, logins>>

\* Two increments may count as one; only 0 is told apart.
Increment(t, from, to) ==
  /\ Goto(t, from, to)
  /\ numCommunication' = numCommunication + 1
  /\ UNCHANGED <<maxConnfd, communicationSet, connfd, value, created, comm, clients,
                 fate, logins>>

FirstInc(t) == Increment(t, "firstInc", "firstMax")

\* The first client: the set is emptied, and a communication thread created
\* once the client is in it.
FirstMax(t) ==
  /\ Goto(t, "firstMax", "zero")
  /\ maxConnfd' = connfd[t]
  /\ UNCHANGED <<numCommunication, communicationSet, connfd, value, created, comm,
                 clients, fate, logins>>

Zero(t) ==
  /\ Goto(t, "zero", "firstLoad")
  /\ communicationSet' = {}
  /\ UNCHANGED <<numCommunication, maxConnfd, connfd, value, created, comm, clients,
                 fate, logins>>

\* FD_SET.
LoadSet(t, from, to) ==
  /\ Goto(t, from, to)
  /\ value' = [value EXCEPT ![t] = communicationSet]
  /\ UNCHANGED <<shared, connfd, created, comm, clients, fate, logins>>

\* Mutant: the set is written as if the client were the only one.
StoreOnly(t, from, to) ==
  /\ Goto(t, from, to)
  /\ communicationSet' = {connfd[t]}
  /\ value' = [value EXCEPT ![t] = {}]
  /\ UNCHANGED <<numCommunication, maxConnfd, connfd, created, comm, clients, fate,
                 logins>>

StoreSet(t, from, to) ==
  /\ Goto(t, from, to)
  /\ communicationSet' = value[t] \cup {connfd[t]}
  /\ value' = [value EXCEPT ![t] = {}]
  /\ UNCHANGED <<numCommunication, maxConnfd, connfd, created, comm, clients, fate,
                 logins>>

FirstSet(t) ==
  LoadSet(t, "firstLoad", "firstStore") \/ StoreSet(t, "firstStore", "create")

\* Mutant: the thread is not counted in, and the next client is the first again.
CreateForgetful(t) ==
  /\ Goto(t, "create", "login")
  /\ created' = created + 1
  /\ numCommunication' = 0
  /\ commPc' = [commPc EXCEPT ![created + 1] = "copy"]
  /\ connfd' = [connfd EXCEPT ![t] = NoFd]
  /\ UNCHANGED <<maxConnfd, communicationSet, value, ready, word, clients, fate,
                 logins>>

Create(t) ==
  /\ Goto(t, "create", "login")
  /\ created' = created + 1
  /\ commPc' = [commPc EXCEPT ![created + 1] = "copy"]
  /\ connfd' = [connfd EXCEPT ![t] = NoFd]
  /\ UNCHANGED <<shared, value, ready, word, clients, fate, logins>>

\* A later client: it joins the set and moves its limit.
Inc(t) == Increment(t, "inc", "maxLoad")

MaxLoad(t) ==
  /\ Goto(t, "maxLoad", "maxStore")
  /\ value' = [value EXCEPT ![t] = IF connfd[t] > maxConnfd THEN {connfd[t]}
                                                            ELSE {maxConnfd}]
  /\ UNCHANGED <<shared, connfd, created, comm, clients, fate, logins>>

\* Mutant: the limit stays where the first client has put it.
MaxKept(t) ==
  /\ Goto(t, "maxStore", "load")
  /\ value' = [value EXCEPT ![t] = {}]
  /\ UNCHANGED <<shared, connfd, created, comm, clients, fate, logins>>

MaxStore(t) ==
  /\ Goto(t, "maxStore", "load")
  /\ maxConnfd' \in value[t]
  /\ value' = [value EXCEPT ![t] = {}]
  /\ UNCHANGED <<numCommunication, communicationSet, connfd, created, comm, clients,
                 fate, logins>>

LaterSet(t) == LoadSet(t, "load", "store") \/ StoreSet(t, "store", "end")

End(t) ==
  /\ Goto(t, "end", "login")
  /\ connfd' = [connfd EXCEPT ![t] = NoFd]
  /\ UNCHANGED <<shared, value, created, comm, clients, fate, logins>>

Register(t) ==
  \/ Test(t)
  \/ FirstInc(t) \/ FirstMax(t) \/ Zero(t) \/ FirstSet(t) \/ Create(t)
  \/ Inc(t) \/ MaxLoad(t) \/ MaxStore(t) \/ LaterSet(t) \/ End(t)

-----------------------------------------------------------------------------
(* Communication thread c. *)

CommGoto(c, from, to) ==
  /\ commPc[c] = from
  /\ commPc' = [commPc EXCEPT ![c] = to]

CopySet(c) ==
  /\ CommGoto(c, "copy", "select")
  /\ ready' = [ready EXCEPT ![c] = communicationSet]
  /\ UNCHANGED <<shared, login, created, word, clients, fate, logins>>

\* select() looks at the descriptors up to maxConnfd and clears the others
\* (those of the same word of the set). It fails when one of them is closed and
\* then leaves the set as it is. The timeout is used up the first time it runs
\* out, and select never waits from then on.
Select(c) ==
  /\ CommGoto(c, "select", "scan")
  /\ LET watched == ready[c] \cap 1 .. maxConnfd
     IN  ready' = [ready EXCEPT ![c] =
                     IF watched \subseteq opened
                     THEN {fd \in watched : request[fd] \notin {"none", "asked"}}
                     ELSE @]
  /\ UNCHANGED <<shared, login, created, word, clients, fate, logins>>

\* The descriptor the loop comes to next.
Lowest(c, fd) == fd \in ready[c] /\ \A other \in ready[c] : fd <= other

Current(c, fd) ==
  /\ commPc[c] = "scan"
  /\ Lowest(c, fd) /\ fd <= maxConnfd

\* Recv waits for a request, and takes it to localBuffer, which all threads
\* share. When another thread is in Recv, too, it may get its message.
Receive(c, fd) ==
  /\ Current(c, fd)
  /\ request[fd] \in {"ask", "bye"}
  /\ CommGoto(c, "scan", "recv")
  /\ request' = [request EXCEPT ![fd] = IF @ = "ask" THEN "asked" ELSE "left"]
  /\ mixed' = (mixed \/ \E d \in CommThread : commPc[d] = "recv")
  /\ UNCHANGED <<shared, login, created, ready, word, opened, crashed, logins>>

\* Recv does not come to its socket, for another thread has, or two threads
\* have left, a message in localBuffer.
ReceiveOther(c, fd) ==
  /\ Current(c, fd)
  /\ mixed \/ \E d \in CommThread : commPc[d] = "recv"
  /\ CommGoto(c, "scan", "recv")
  /\ mixed' = TRUE
  /\ UNCHANGED <<shared, login, created, ready, word, clients, crashed, logins>>

\* What Recv returns: what the client has sent, or once two threads have been
\* in it any message, or a piece of one, which is none of the cases; or it finds
\* no end of a message and follows a null pointer.
Returns(c, fd, what) ==
  /\ commPc[c] = "recv" /\ Lowest(c, fd)
  /\ mixed \/ request[fd] = what

\* TIME, LISTU, MSG: the client of the descriptor is answered.
Answer(c, fd) ==
  /\ Returns(c, fd, "asked")
  /\ CommGoto(c, "recv", "scan")
  /\ request' = [request EXCEPT ![fd] = IF @ = "asked" THEN "none" ELSE @]
  /\ ready' = [ready EXCEPT ![c] = @ \ {fd}]
  /\ UNCHANGED <<shared, login, created, word, opened, fate, logins>>

ReturnPiece(c, fd) ==
  /\ Returns(c, fd, "piece")
  /\ CommGoto(c, "recv", "scan")
  /\ ready' = [ready EXCEPT ![c] = @ \ {fd}]
  /\ crashed' \in BOOLEAN
  /\ UNCHANGED <<shared, login, created, word, clients, mixed, logins>>

\* BYE: the user is matched and deleted, with the descriptor still open.
ReceiveBye(c, fd) ==
  /\ Returns(c, fd, "left")
  /\ CommGoto(c, "recv", "close")
  /\ UNCHANGED <<shared, login, created, ready, word, clients, fate, logins>>

\* The descriptor is closed before it is cleared.
Close(c, fd) ==
  /\ CommGoto(c, "close", "clear")
  /\ Lowest(c, fd)
  /\ opened' = opened \ {fd}
  /\ request' = [request EXCEPT ![fd] = "none"]
  /\ UNCHANGED <<shared, login, created, ready, word, fate, logins>>

\* Mutant: the end of a connection is taken for BYE.
RecvEndCloses(c, fd) ==
  /\ Current(c, fd)
  /\ request[fd] = "left"
  /\ CommGoto(c, "scan", "close")
  /\ UNCHANGED <<shared, login, created, ready, word, clients, fate, logins>>

\* Another thread has read BYE: recv() sees the end of the connection.
RecvEnd(c, fd) ==
  /\ Current(c, fd)
  /\ request[fd] = "left"
  /\ ready' = [ready EXCEPT ![c] = @ \ {fd}]
  /\ UNCHANGED <<shared, login, created, commPc, word, clients, fate, logins>>

\* Another thread has closed the descriptor: recv() fails and Recv follows a
\* null pointer, unless this thread was already waiting and sees the end of
\* the connection.
RecvClosed(c, fd) ==
  /\ Current(c, fd)
  /\ fd \notin opened
  /\ crashed' \in BOOLEAN
  /\ ready' = [ready EXCEPT ![c] = @ \ {fd}]
  /\ UNCHANGED <<shared, login, created, commPc, word, clients, mixed, logins>>

\* FD_CLR.
ClearLoad(c) ==
  /\ CommGoto(c, "clear", "clearStore")
  /\ word' = [word EXCEPT ![c] = communicationSet]
  /\ UNCHANGED <<shared, login, created, ready, clients, fate, logins>>

ClearStore(c) ==
  /\ CommGoto(c, "clearStore", "scan")
  /\ LET fd == Min(ready[c])
     IN  /\ communicationSet' = word[c] \ {fd}
         /\ ready' = [ready EXCEPT ![c] = @ \ {fd}]
  /\ word' = [word EXCEPT ![c] = {}]
  /\ UNCHANGED <<numCommunication, maxConnfd, login, created, clients, fate,
                 logins>>

ScanEnd(c) ==
  /\ CommGoto(c, "scan", "copy")
  /\ \A fd \in ready[c] : fd > maxConnfd
  /\ ready' = [ready EXCEPT ![c] = {}]
  /\ UNCHANGED <<shared, login, created, word, clients, fate, logins>>

CommStep(c) ==
  \/ CopySet(c) \/ Select(c)
  \/ \E fd \in Fd : \/ Receive(c, fd) \/ ReceiveOther(c, fd)
                     \/ RecvEnd(c, fd) \/ RecvClosed(c, fd)
  \/ \E fd \in Fd : Answer(c, fd) \/ ReturnPiece(c, fd) \/ ReceiveBye(c, fd) \/ Close(c, fd)
  \/ ClearLoad(c) \/ ClearStore(c) \/ ScanEnd(c)

-----------------------------------------------------------------------------
(* The clients. *)

Send(fd, what) ==
  /\ fd \in opened
  /\ request[fd] = "none"
  /\ request' = [request EXCEPT ![fd] = what]
  /\ UNCHANGED <<shared, login, created, comm, opened, fate, logins>>

Ask(fd) == Send(fd, "ask")

Bye(fd) == Send(fd, "bye")

\* Two threads register, or one does while a descriptor is being cleared.
Overlap ==
  \E t \in Thread :
    /\ pc[t] # "login"
    /\ \/ \E s \in Thread \ {t} : pc[s] # "login"
       \/ \E c \in CommThread : commPc[c] \in {"clear", "clearStore"}

Remember ==
  /\ overlapped' = (overlapped \/ Overlap')
  /\ since' = IF mixed' THEN since + 1 ELSE 0

Next ==
  /\ ~crashed /\ since < MaxMixed
  /\ \/ \E t \in Thread : LoginRecv(t) \/ Login(t) \/ Register(t)
     \/ \E c \in CommThread : CommStep(c)
     \/ \E fd \in Fd : Ask(fd) \/ Bye(fd)
  /\ Remember

Spec == Init /\ [][Next]_vars

(* In a living server a login thread and a communication thread that can    *)
(* run do: no more is needed while there is one of each at work.           *)
FairSpec ==
  /\ Spec
  /\ WF_vars(~crashed /\ since < MaxMixed /\ (\E t \in Thread : Register(t)) /\ Remember)
  /\ WF_vars(~crashed /\ since < MaxMixed /\ (\E c \in CommThread : CommStep(c)) /\ Remember)

-----------------------------------------------------------------------------
(* Type invariant. *)
TypeOK ==
  /\ numCommunication \in 0 .. MaxLogin
  /\ maxConnfd \in Fd \cup {-1}
  /\ communicationSet \in SUBSET Fd
  /\ pc \in [Thread -> {"login", "test", "firstInc", "firstMax", "zero", "firstLoad",
                        "firstStore", "create", "inc", "maxLoad", "maxStore", "load",
                        "store", "end"}]
  /\ connfd \in [Thread -> Fd \cup {NoFd}]
  /\ value \in [Thread -> SUBSET Fd]
  /\ created \in 0 .. Cardinality(Thread)
  /\ commPc \in [CommThread ->
                   {"none", "copy", "select", "scan", "recv", "close", "clear",
                    "clearStore"}]
  /\ ready \in [CommThread -> SUBSET Fd] /\ word \in [CommThread -> SUBSET Fd]
  /\ opened \in SUBSET Fd
  /\ request \in [Fd -> {"none", "ask", "asked", "bye", "left"}]
  /\ crashed \in BOOLEAN /\ mixed \in BOOLEAN /\ since \in 0 .. MaxMixed
  /\ logins \in 0 .. MaxLogin

\* The threads that found no client before their own.
Firsts ==
  {t \in Thread :
     pc[t] \in {"firstInc", "firstMax", "zero", "firstLoad", "firstStore", "create"}}

(* There is a communication thread, or one is about to be created, as soon  *)
(* as somebody is counted: the second client never waits for a thread that  *)
(* nobody creates.                                                          *)
ThreadForCounted ==
  numCommunication > 0 => created > 0 \/ Firsts # {}

(* A login thread creates a communication thread once at most, however the  *)
(* tests of the counter interleave: there are never more of them.           *)
OneThreadEach ==
  created + Cardinality(Firsts) <= Cardinality(Thread)

Registering(fd) == \E t \in Thread : connfd[t] = fd

(* A client whose registration is over can be heard: it is in the set and   *)
(* below its limit, and somebody looks at the set. Only an overlapping      *)
(* registration, or the clearing of a descriptor, can take that away.       *)
Heard ==
  ~overlapped =>
    \A fd \in opened :
      Registering(fd) \/ (fd \in communicationSet /\ fd <= maxConnfd /\ created > 0)

(* "/time Display the time client has been connected to the server": who    *)
(* asks is answered, unless two writes of the set overlap, which can take a *)
(* client out of the set for good (Server.c 332-341, 507), or two threads   *)
(* are in Recv at once, which can give its message to another client.       *)
AnsweredAlone ==
  \A fd \in Fd : request[fd] = "ask" ~> request[fd] \notin {"ask", "asked"} \/ overlapped \/ mixed

(* A communication thread closes the descriptor whose BYE it has read, while *)
(* it is still that client's, and never one that another thread has closed   *)
(* and accept() given to somebody else in between; until two threads are in  *)
(* Recv at once, and one of them reads a BYE that is not its client's.       *)
ClosedAfterBye == [][\A fd \in opened \ opened' : request[fd] = "left" \/ mixed]_vars
=============================================================================
