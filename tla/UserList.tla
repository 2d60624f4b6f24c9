------------------------------ MODULE UserList ------------------------------
(***************************************************************************)
(* The list of users (User.c) node by node. Login threads insert, the      *)
(* communication thread deletes and walks the list without the lock, the   *)
(* main thread prints it.                                                  *)
(*                                                                         *)
(* The functions that read the list take it by value: the head and the     *)
(* count are copied before the lock is taken. A loop under the lock is one *)
(* step, for the list does not change during it; a loop without the lock   *)
(* is one step for each node. A writer takes two steps, for it can be seen *)
(* between the change of the links and that of the count.                  *)
(***************************************************************************)
EXTENDS Integers, FiniteSets, SequencesExt

CONSTANTS Thread,      \* the login threads
          Comm, Main,  \* the communication thread and the main thread
          NoThread,
          User,        \* the names of users
          NoUser,      \* the content of a node that was freed
          MaxNode,     \* bound: how many nodes the heap has
          MaxLogin     \* bound: how many logins there are

ASSUME ThreadAssumption ==
  /\ IsFiniteSet(Thread)
  /\ Comm \notin Thread /\ Main \notin Thread /\ Comm # Main
  /\ NoThread \notin Thread \cup {Comm, Main}
ASSUME UserAssumption == NoUser \notin User
ASSUME BoundAssumption == MaxNode \in Nat /\ MaxLogin \in Nat

Node == 1 .. MaxNode
Null == 0
Reader == Thread \cup {Main}

VARIABLES head, tail, count,  \* userList
          node,               \* the content of every node
          free,               \* the nodes that are not allocated, last freed first
          lock,               \* who holds RW_lock for writing
          pc,                 \* where each thread is
          want,               \* the user each login thread inserts
          copy,               \* the head and the count each reader has copied
          cur,                \* the node the communication thread is at
          leaving,            \* the user that said BYE
          segv,               \* the thread that read through a null pointer
          logins,             \* logins so far
          disturbed,  \* history: a user left since the reader copied the list
          doubled,    \* history: another thread linked the name of a login
                      \* thread since that copied the list
          due, told   \* history: the users listed when the walk of the
                      \* communication thread began, and those it came to

list == <<head, tail, count, node, free, lock>>
reading == <<want, copy, disturbed, doubled, logins>>
walking == <<cur, leaving, due, told>>
vars == <<list, pc, reading, walking, segv>>

NoCopy == [head |-> Null, count |-> 0]

Init ==
  /\ head = Null /\ tail = Null /\ count = 0
  /\ node = [n \in Node |-> [user |-> NoUser, prev |-> Null, next |-> Null]]
  /\ free = [n \in Node |-> n]
  /\ lock = NoThread
  /\ pc = [r \in Reader \cup {Comm} |-> "idle"]
  /\ want = [t \in Thread |-> NoUser]
  /\ copy = [r \in Reader |-> NoCopy]
  /\ cur = Null /\ leaving = NoUser
  /\ segv = NoThread
  /\ logins = 0
  /\ disturbed = [r \in Reader |-> FALSE]
  /\ doubled = [t \in Thread |-> FALSE]
  /\ due = {} /\ told = {}

-----------------------------------------------------------------------------
(* Walking along the next pointers. *)

Succ(n) == IF n = Null THEN Null ELSE node[n].next

\* The nodes a walk from n comes to, Null from where the list ends.
Walk(n) ==
  LET at[i \in 1 .. MaxNode + 1] == IF i = 1 THEN n ELSE Succ(at[i - 1])
  IN  at

\* The nodes that are in the list, in its order.
Chain == RestrictValues(Walk(head), LAMBDA n : n # Null)

Listed == LET chain == Chain IN [i \in DOMAIN chain |-> node[chain[i]].user]

\* for(i = 0; i < k; i++) reads cur->next even if cur is null.
RunsOff(n, k) == LET at == Walk(n) IN \E i \in 1 .. k : at[i] = Null

\* Mutant: the loop starts at the second user.
FindsLate(n, k, u) ==
  LET at == Walk(n) IN \E i \in 2 .. k : node[at[i]].user = u

Finds(n, k, u) ==
  LET at == Walk(n) IN \E i \in 1 .. k : node[at[i]].user = u

Goto(r, from, to) ==
  /\ pc[r] = from
  /\ pc' = [pc EXCEPT ![r] = to]

Unlocked == lock = NoThread   \* nobody holds the lock

-----------------------------------------------------------------------------
(* Readers. Both copies are taken before the lock. *)

CopyHead(r) ==
  /\ Goto(r, "copyHead", "copyCount")
  /\ copy' = [copy EXCEPT ![r].head = head]
  /\ disturbed' = [disturbed EXCEPT ![r] = (lock = Comm)]
  /\ doubled' = [t \in Thread |->
                   IF t = r THEN lock \in Thread /\ want[lock] = want[t] ELSE doubled[t]]
  /\ UNCHANGED <<list, want, logins, walking, segv>>

CopyCount(r) ==
  /\ Goto(r, "copyCount", "walk")
  /\ copy' = [copy EXCEPT ![r].count = count]
  /\ UNCHANGED <<list, want, logins, disturbed, doubled, walking, segv>>

\* The loop of any reader follows a null pointer: the server dies.
WalkOff(r) ==
  /\ pc[r] = "walk" /\ Unlocked
  /\ RunsOff(copy[r].head, copy[r].count)
  /\ segv' = r
  /\ UNCHANGED <<list, pc, reading, walking>>

-----------------------------------------------------------------------------
(* Login thread t: insertUser, of any name: that of a user in the list, or   *)
(* one that another thread is inserting, for a refused login may have taken *)
(* the reservation away (Login).                                           *)

StartInsert(t, u) ==
  /\ logins < MaxLogin
  /\ Goto(t, "idle", "copyHead")
  /\ want' = [want EXCEPT ![t] = u]
  /\ logins' = logins + 1
  /\ UNCHANGED <<list, copy, disturbed, doubled, walking, segv>>

\* insertUser returns, and its variables are gone.
Return(t, from) ==
  /\ Goto(t, from, "idle")
  /\ want' = [want EXCEPT ![t] = NoUser]
  /\ copy' = [copy EXCEPT ![t] = NoCopy]
  /\ disturbed' = [disturbed EXCEPT ![t] = FALSE]
  /\ doubled' = [doubled EXCEPT ![t] = FALSE]

\* isUserExist in insertUser: the name is there, nothing is inserted ...
ExistYes(t) ==
  /\ Unlocked
  /\ ~RunsOff(copy[t].head, copy[t].count)
  /\ Finds(copy[t].head, copy[t].count, want[t])
  /\ Return(t, "walk")
  /\ UNCHANGED <<list, logins, walking, segv>>

\* ... or it is not.
ExistNo(t) ==
  /\ Unlocked
  /\ ~RunsOff(copy[t].head, copy[t].count)
  /\ ~Finds(copy[t].head, copy[t].count, want[t])
  /\ Goto(t, "walk", "link")
  /\ UNCHANGED <<list, reading, walking, segv>>

NewNode(t) == [user |-> want[t], next |-> Null,
               prev |-> IF count = 0 THEN Null ELSE tail]

\* The new node comes behind the last one, or alone in an empty list. malloc
\* returns the node that was freed last.
Link(t) ==
  /\ Unlocked /\ lock' = t
  /\ Goto(t, "link", "count")
  /\ free # <<>> /\ free' = Tail(free)
  /\ LET n == Head(free)
     IN  /\ node' = IF count = 0 THEN [node EXCEPT ![n] = NewNode(t)]
                     ELSE [node EXCEPT ![n] = NewNode(t), ![tail].next = n]
         /\ head' = IF count = 0 THEN n ELSE head
         /\ tail' = n
  /\ doubled' = [s \in Thread |->
                   doubled[s] \/ (s # t /\ pc[s] # "idle" /\ want[s] = want[t])]
  /\ UNCHANGED <<count, want, copy, disturbed, logins, walking, segv>>

CountUp(t) ==
  /\ Return(t, "count")
  /\ count' = count + 1
  /\ lock' = NoThread
  /\ UNCHANGED <<head, tail, node, free, logins, walking, segv>>

LoginStep(t) ==
  \/ CopyHead(t) \/ CopyCount(t) \/ WalkOff(t)
  \/ ExistYes(t) \/ ExistNo(t) \/ Link(t) \/ CountUp(t)

-----------------------------------------------------------------------------
(* The main thread: printAllUserInfo. *)

TypeUsers ==
  /\ Goto(Main, "idle", "copyHead")
  /\ UNCHANGED <<list, reading, walking, segv>>

PrintWalk ==
  /\ Unlocked
  /\ ~RunsOff(copy[Main].head, copy[Main].count)
  /\ Goto(Main, "walk", "idle")
  /\ copy' = [copy EXCEPT ![Main] = NoCopy]
  /\ disturbed' = [disturbed EXCEPT ![Main] = FALSE]
  /\ UNCHANGED <<list, want, doubled, logins, walking, segv>>

MainStep == CopyHead(Main) \/ CopyCount(Main) \/ WalkOff(Main) \/ PrintWalk

-----------------------------------------------------------------------------
(* The communication thread. *)

\* BYE of a user in the list; one whom a thread has just linked is not yet in
\* the set of the communication thread. What matchUser does is not a step: only
\* this thread deletes, so the list it copies has the user in it.
ReceiveBye(u) ==
  /\ \E n \in ToSet(Chain) : node[n].user = u /\ (lock \in Thread => n # tail)
  /\ Goto(Comm, "idle", "deleteHead")
  /\ leaving' = u
  /\ UNCHANGED <<list, reading, cur, due, told, segv>>

\* deleteUser reads the head before it takes the lock.
DeleteHead ==
  /\ Goto(Comm, "deleteHead", "unlink")
  /\ cur' = head
  /\ UNCHANGED <<list, reading, leaving, due, told, segv>>

\* The first node of the walk with the user that leaves.
Match(n) ==
  LET at == Walk(n)
  IN  at[CHOOSE j \in 1 .. count :
           /\ node[at[j]].user = leaving
           /\ \A k \in 1 .. j - 1 : node[at[k]].user # leaving]

UnlinkedNodes(n) ==
  [m \in Node |->
     [node[m] EXCEPT !.next = IF m = node[n].prev THEN node[n].next ELSE @,
                     !.prev = IF m = node[n].next THEN node[n].prev ELSE @]]

\* Mutant: the node before does not get to know that it has a new successor.
UnlinkPrevKept ==
  /\ Unlocked /\ lock' = Comm
  /\ Goto(Comm, "unlink", "uncount")
  /\ LET n == Match(cur)
     IN  /\ cur' = n
         /\ head' = IF n = head THEN node[n].next ELSE head
         /\ tail' = IF n = tail THEN node[n].prev ELSE tail
  /\ disturbed' = [r \in Reader |-> pc[r] # "idle"]
  /\ UNCHANGED <<node, count, free, want, copy, doubled, logins, leaving, due, told, segv>>

\* Mutant: the tail is not moved.
UnlinkTailKept ==
  /\ Unlocked /\ lock' = Comm
  /\ Goto(Comm, "unlink", "uncount")
  /\ LET n == Match(cur)
     IN  /\ cur' = n
         /\ node' = UnlinkedNodes(n)
         /\ head' = IF n = head THEN node[n].next ELSE head
  /\ disturbed' = [r \in Reader |-> pc[r] # "idle"]
  /\ UNCHANGED <<tail, count, free, want, copy, doubled, logins, leaving, due, told, segv>>

Unlink ==
  /\ Unlocked /\ lock' = Comm
  /\ Goto(Comm, "unlink", "uncount")
  /\ LET n == Match(cur)
     IN  /\ cur' = n
         /\ node' = UnlinkedNodes(n)
         /\ head' = IF n = head THEN node[n].next ELSE head
         /\ tail' = IF n = tail THEN node[n].prev ELSE tail
  /\ disturbed' = [r \in Reader |-> pc[r] # "idle"]
  /\ UNCHANGED <<count, free, want, copy, doubled, logins, leaving, due, told, segv>>

\* Mutants: the count goes down twice, or not at all.
UncountTwice ==
  /\ Goto(Comm, "uncount", "tellHead")
  /\ count' = count - 2
  /\ free' = <<cur>> \o free
  /\ node' = [node EXCEPT ![cur] = [user |-> NoUser, prev |-> Null, next |-> @.next]]
  /\ lock' = NoThread
  /\ UNCHANGED <<head, tail, reading, walking, segv>>

UncountForgotten ==
  /\ Goto(Comm, "uncount", "tellHead")
  /\ free' = <<cur>> \o free
  /\ node' = [node EXCEPT ![cur] = [user |-> NoUser, prev |-> Null, next |-> @.next]]
  /\ lock' = NoThread
  /\ UNCHANGED <<head, tail, count, reading, walking, segv>>

\* free() writes over the name, and the next pointer stays until malloc returns
\* the node again. Nobody reads the prev pointer of such a node.
Uncount ==
  /\ Goto(Comm, "uncount", "tellHead")
  /\ count' = count - 1
  /\ free' = <<cur>> \o free
  /\ node' = [node EXCEPT ![cur] = [user |-> NoUser, prev |-> Null, next |-> @.next]]
  /\ lock' = NoThread
  /\ UNCHANGED <<head, tail, reading, walking, segv>>

\* The loops over all users of receiveByeMessage and receiveListuMessage.
WalkHead(from) ==
  /\ Goto(Comm, from, "tell")
  /\ cur' = head
  /\ due' = ToSet(Listed)
  /\ told' = {}
  /\ UNCHANGED <<list, reading, leaving, segv>>

TellHead == WalkHead("tellHead")

ReceiveListu == WalkHead("idle")

\* Mutant: the loop stops at the last node instead of behind it.
TellButLast ==
  /\ pc[Comm] = "tell" /\ cur # Null
  /\ told' = IF node[cur].next = Null THEN told ELSE told \cup {node[cur].user}
  /\ cur' = node[cur].next
  /\ UNCHANGED <<list, pc, reading, leaving, due, segv>>

Tell ==
  /\ pc[Comm] = "tell" /\ cur # Null
  /\ told' = told \cup {node[cur].user}
  /\ cur' = node[cur].next
  /\ UNCHANGED <<list, pc, reading, leaving, due, segv>>

TellEnd ==
  /\ cur = Null
  /\ Goto(Comm, "tell", "idle")
  /\ due' = {} /\ told' = {} /\ leaving' = NoUser
  /\ UNCHANGED <<list, reading, cur, segv>>

CommStep == DeleteHead \/ Unlink \/ Uncount \/ TellHead \/ Tell \/ TellEnd

-----------------------------------------------------------------------------
Alive == segv = NoThread

Next ==
  /\ Alive
  /\ \/ \E t \in Thread : LoginStep(t) \/ \E u \in User : StartInsert(t, u)
     \/ TypeUsers \/ MainStep
     \/ CommStep \/ ReceiveListu \/ \E u \in User : ReceiveBye(u)

Spec == Init /\ [][Next]_vars

(* Every thread of a living server that can run does.                      *)
FairSpec ==
  /\ Spec
  /\ WF_vars(Alive /\ MainStep)
  /\ WF_vars(Alive /\ CommStep)
  /\ \A t \in Thread : WF_vars(Alive /\ LoginStep(t))

-----------------------------------------------------------------------------
Pointer == Node \cup {Null}

(* Type invariant: the list, the heap and the threads. *)
TypeOK ==
  /\ head \in Pointer /\ tail \in Pointer /\ count \in 0 .. MaxNode
  /\ node \in [Node -> [user : User \cup {NoUser}, prev : Pointer, next : Pointer]]
  /\ free \in Seq(Node)
  /\ lock \in Thread \cup {Comm, NoThread}
  /\ pc \in [Reader \cup {Comm} ->
               {"idle", "copyHead", "copyCount", "walk", "link", "count",
                "deleteHead", "unlink", "uncount", "tellHead", "tell"}]
  /\ want \in [Thread -> User \cup {NoUser}]
  /\ copy \in [Reader -> [head : Pointer, count : 0 .. MaxNode]]
  /\ cur \in Pointer /\ leaving \in User \cup {NoUser}
  /\ segv \in Reader \cup {NoThread}
  /\ logins \in 0 .. MaxLogin
  /\ disturbed \in [Reader -> BOOLEAN]
  /\ doubled \in [Thread -> BOOLEAN]
  /\ due \in SUBSET User /\ told \in SUBSET User

(* The list is sound in every state: along the next pointers there are      *)
(* allocated nodes only, each once, and when nobody is changing it, as many *)
(* as are counted, the last one is the tail, and the prev pointers lead     *)
(* back.                                                                    *)
ListShape ==
  LET chain == Chain
  IN  /\ IsInjective(chain)
      /\ ToSet(chain) \cap ToSet(free) = {}
      /\ Unlocked =>
           /\ Len(chain) = count
           /\ tail = IF chain = <<>> THEN Null ELSE Last(chain)
           /\ \A i \in DOMAIN chain :
                node[chain[i]].prev = IF i = 1 THEN Null ELSE chain[i - 1]

(* A reader leaves the list only because a user left after it had copied    *)
(* the list, or because the list it copied was empty.                       *)
WalkOffCause == ~Alive => disturbed[segv] \/ copy[segv].head = Null

(* insertUser adds a name that is in the list only if a user left during its *)
(* check or another thread inserted that name meanwhile: the logins of other *)
(* users, which append to the list while its copy is walked, do not make it. *)
InsertedIsNew ==
  \A t \in Thread :
    pc[t] = "link" /\ ~disturbed[t] /\ ~doubled[t] => want[t] \notin ToSet(Listed)

(* "/listu Display a list of active user in current server": the walk       *)
(* without the lock comes to every user that was listed when it began, and  *)
(* to no user that is not listed when it ends, while others log in.         *)
WalkComplete ==
  pc[Comm] = "tell" /\ cur = Null => due \subseteq told /\ told \subseteq ToSet(Listed)

TheRoster == INSTANCE Roster WITH users <- Listed

(* The linked list is the sequence of the users in the order they came.     *)
RosterSpec == TheRoster!Spec

(* "/users Display a list of currently logged in users": the command ends. *)
UsersDisplayed == pc[Main] = "copyHead" ~> pc[Main] = "idle"
=============================================================================
