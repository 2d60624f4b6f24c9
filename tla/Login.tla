------------------------------- MODULE Login -------------------------------
(***************************************************************************)
(* Logging in and out (Server.c): the main thread accepts connections, the *)
(* login threads take each through the exchange WOLFIE - IAM or IAMNEW -   *)
(* PASS or NEWPASS and enter its user in the list, and a communication     *)
(* thread removes the user when the client says BYE.                       *)
(*                                                                         *)
(* A step ends where the code takes or drops a lock or waits for a         *)
(* message: every function that holds RW_lock is one step, and what a      *)
(* thread found out in one step may be wrong in the next. A walk over a    *)
(* copy of the list is two steps, for a logout in between spoils the copy; *)
(* when the walk then follows a null pointer the server dies (UserList     *)
(* has those states), and the behaviours here are those before. Recv gives *)
(* each client's message to its thread (Framing). The queue is the         *)
(* abstract one of LoginHandoff, which module LoginQueue implements. The   *)
(* step Register stands for all of the registration with the communication *)
(* thread, of which there is one here.                                     *)
(***************************************************************************)
EXTENDS NameSet, FiniteSets

CONSTANTS Thread,     \* the login threads
          Name,       \* user names
          NoName,     \* the content of a name buffer never written
          MaxFd,      \* bound: how many descriptors the process may have open
          MaxConn,    \* bound: how many connections arrive
          MaxFailed   \* bound: how many names lose their INSERT

ASSUME ThreadAssumption == IsFiniteSet(Thread) /\ Thread # {}
ASSUME NameAssumption == NoName \notin Name
ASSUME BoundAssumption == MaxFd \in Nat /\ MaxConn \in Nat /\ MaxFailed \in Nat

Fd == 1 .. MaxFd      \* descriptors of connections, lowest first
NoFd == 0

VARIABLES mainFd,       \* the connection the main thread is about to enqueue
          queue,        \* the connections in the login queue
          connfd,       \* the connection of each login thread
          pc,           \* where each login thread is
          userName,     \* its buffer for the name; keeps its last content
          nameSet,      \* the names reserved by logins in progress
          accounts,     \* the names in the table USERS
          unstored,     \* history: the names whose INSERT has failed
          userList,     \* the users logged in, oldest first
          copy,         \* what a thread's copy of the list says of its name
          misled,       \* history: a logout made some isUserExist answer wrongly
          opened,       \* the descriptors open in the server
          registered,   \* communicationSet
          commPc, commFd, commName,   \* the communication thread
          greeted,      \* the name each client was told HI with
          byes,         \* the descriptors on which a client has said BYE
          accepted      \* connections accepted so far

handoff == <<mainFd, queue, connfd>>
locals == <<pc, userName>>
database == <<accounts, unstored>>
checks == <<copy, misled>>
comm == <<commPc, commFd, commName>>
clients == <<greeted, byes>>
fds == <<opened, accepted>>
vars == <<handoff, locals, nameSet, database, userList, checks, registered,
          comm, clients, fds>>

Handoff == INSTANCE LoginHandoff
             WITH Conn <- Fd, NoConn <- NoFd, Capacity <- Cardinality(Thread),
                  held <- mainFd, serving <- connfd

Init ==
  /\ Handoff!Init
  /\ pc = [t \in Thread |-> "dequeue"]
  /\ userName = [t \in Thread |-> NoName]
  /\ nameSet = <<>>
  /\ accounts \in SUBSET Name /\ unstored = {}
  /\ userList = <<>>
  /\ copy = [t \in Thread |-> "none"] /\ misled = FALSE
  /\ opened = {} /\ registered = {}
  /\ commPc = "select" /\ commFd = NoFd /\ commName = NoName
  /\ greeted = [f \in Fd |-> NoName]
  /\ byes = {}
  /\ accepted = 0

-----------------------------------------------------------------------------
(* The list of users (User.c). *)

\* Mutant: every comparison overwrites the result of the one before.
IsUserExistLast(name) == userList # <<>> /\ Last(userList).userName = name

IsUserExist(name) == \E i \in DOMAIN userList : userList[i].userName = name

\* Mutant: the descriptor is the one the main thread accepted last.
InsertUserMain(name, fd) ==
  Append(userList, [userName |-> name, connfd |-> mainFd])

InsertUser(name, fd) == Append(userList, [userName |-> name, connfd |-> fd])

\* Mutant: the tail is removed instead of the match.
DeleteUserTail(name) ==
  IF IsUserExist(name) THEN Front(userList) ELSE userList

DeleteUser(name) ==
  RemoveFirstMatch(userList, LAMBDA user : user.userName = name)

\* Mutant: the descriptors are not compared.
MatchUserFirst(fd, buffer) ==
  IF userList = <<>> THEN buffer ELSE userList[1].userName

\* matchUser copies the name of the last user of that descriptor, and leaves
\* the buffer as it is when there is none.
MatchUser(fd, buffer) ==
  LET found == {i \in DOMAIN userList : userList[i].connfd = fd}
  IN  IF found = {} THEN buffer ELSE userList[Max(found)].userName

-----------------------------------------------------------------------------
(* The table USERS (Database.c). Every statement is executed under the lock. *)

IsAccountExist(name) == name \in accounts

\* Mutant: the hash of a row that is not there matches.
VerifyAnyPassword(name) == TRUE

\* Whether a password can verify: the hash of no password is empty.
VerifyPassword(name) == name \in accounts

\* The INSERT may fail: the names are unique, so that a second row for one is
\* refused, and SQLite has errors of its own. insertAccount prints that and
\* returns like the one that succeeded.
InsertAccountRow(name) ==
  \/ accounts' = accounts \cup {name} /\ UNCHANGED unstored
  \/ /\ Cardinality(unstored) < MaxFailed
     /\ unstored' = unstored \cup ({name} \ accounts) /\ UNCHANGED accounts

-----------------------------------------------------------------------------
(* The main thread. *)

\* accept() returns the lowest free descriptor.
AcceptConn ==
  /\ accepted < MaxConn
  /\ \E fd \in Fd \ opened :
       /\ \A other \in Fd \ opened : fd <= other
       /\ Handoff!Accept(fd)
       /\ opened' = opened \cup {fd}
  /\ accepted' = accepted + 1
  /\ UNCHANGED <<locals, nameSet, database, userList, checks, registered, comm, clients>>

Enqueue ==
  /\ Handoff!Put
  /\ UNCHANGED <<locals, nameSet, database, userList, checks, registered, comm, clients, fds>>

-----------------------------------------------------------------------------
(* Login thread t. *)

Goto(t, from, to) ==
  /\ pc[t] = from
  /\ pc' = [pc EXCEPT ![t] = to]

Dequeue(t) ==
  /\ Goto(t, "dequeue", "hello")
  /\ Handoff!Take(t)
  /\ UNCHANGED <<userName, nameSet, database, userList, checks, registered, comm, clients, fds>>

\* The thread is done with the connection, which stays open.
EndLogin(t, from) ==
  /\ Goto(t, from, "dequeue")
  /\ Handoff!Finish(t)

\* The client sends WOLFIE and gets EIFLOW.
HelloOk(t) ==
  /\ Goto(t, "hello", "identify")
  /\ UNCHANGED <<handoff, userName, nameSet, database, userList, checks, registered, comm,
                 clients, fds>>

\* The client sends something else, or closes.
HelloBad(t) ==
  /\ EndLogin(t, "hello")
  /\ UNCHANGED <<userName, nameSet, database, userList, checks, registered, comm, clients, fds>>

\* IAMNEW: the account must not exist.
IdentifyNew(t, name) ==
  /\ Goto(t, "identify", IF IsAccountExist(name) THEN "refuse" ELSE "push")
  /\ userName' = [userName EXCEPT ![t] = name]
  /\ UNCHANGED <<handoff, nameSet, database, userList, checks, registered, comm, clients, fds>>

\* IAM: the account must exist.
Identify(t, name) ==
  /\ Goto(t, "identify", IF IsAccountExist(name) THEN "check" ELSE "refuse")
  /\ userName' = [userName EXCEPT ![t] = name]
  /\ UNCHANGED <<handoff, nameSet, database, userList, checks, registered, comm, clients, fds>>

\* Anything else: the buffer keeps the name of an earlier client.
IdentifyBad(t) ==
  /\ Goto(t, "identify", "refuse")
  /\ UNCHANGED <<handoff, userName, nameSet, database, userList, checks, registered, comm,
                 clients, fds>>

\* isUserExist is called with a copy of the list's head and count, made before
\* it takes the lock.
CopyUserList(t) ==
  /\ pc[t] \in {"check", "refuse", "insertCheck"}
  /\ copy[t] = "none"
  /\ copy' = [copy EXCEPT ![t] = IF IsUserExist(userName[t]) THEN "listed" ELSE "absent"]
  /\ UNCHANGED <<handoff, locals, nameSet, database, userList, misled, registered, comm,
                 clients, fds>>

\* It walks the copy: users who came since are not in it, but one who left takes
\* a node out of it, and then what it finds depends on what the memory holds.
Answer(t, exists) ==
  /\ copy[t] # "none"
  /\ copy[t] = "listed" => exists
  /\ copy[t] = "absent" => ~exists
  /\ copy' = [copy EXCEPT ![t] = "none"]
  /\ misled' = (misled \/ (copy[t] = "stale" /\ exists # IsUserExist(userName[t])))

\* isUserExist in authenticateUser.
CheckOnline(t) ==
  /\ \E exists \in BOOLEAN :
       Answer(t, exists) /\ Goto(t, "check", IF exists THEN "refuse" ELSE "push")
  /\ UNCHANGED <<handoff, userName, nameSet, database, userList, registered, comm,
                 clients, fds>>

Reserve(t) ==
  /\ Goto(t, "push",
          IF PushSucceeds(nameSet, userName[t]) THEN "password" ELSE "refuse")
  /\ nameSet' = PushNameSet(nameSet, userName[t])
  /\ UNCHANGED <<handoff, userName, database, userList, checks, registered, comm, clients, fds>>

\* authenticateUser failed: loginThread asks whether the user is logged in ...
RefuseKeep(t) ==
  /\ Answer(t, FALSE)
  /\ EndLogin(t, "refuse")
  /\ UNCHANGED <<userName, nameSet, database, userList, registered, comm, clients, fds>>

RefuseListed(t) ==
  /\ Answer(t, TRUE)
  /\ Goto(t, "refuse", "refusePull")
  /\ UNCHANGED <<handoff, userName, nameSet, database, userList, registered, comm,
                 clients, fds>>

\* ... and pulls the name if so.
RefusePull(t) ==
  /\ EndLogin(t, "refusePull")
  /\ nameSet' = PullNameSet(nameSet, userName[t])
  /\ UNCHANGED <<userName, database, userList, checks, registered, comm, clients, fds>>

\* NEWPASS with a password that meets the criteria, whatever came before.
PasswordNew(t) ==
  /\ Goto(t, "password", "account")
  /\ UNCHANGED <<handoff, userName, nameSet, database, userList, checks, registered, comm,
                 clients, fds>>

\* PASS with the password of the account.
Password(t) ==
  /\ VerifyPassword(userName[t])
  /\ Goto(t, "password", "greet")
  /\ UNCHANGED <<handoff, userName, nameSet, database, userList, checks, registered, comm,
                 clients, fds>>

\* Another password, or another message.
PasswordBad(t) ==
  /\ Goto(t, "password", "passwordPull")
  /\ UNCHANGED <<handoff, userName, nameSet, database, userList, checks, registered, comm,
                 clients, fds>>

\* Mutant: the name stays reserved.
PasswordPullForgotten(t) ==
  /\ EndLogin(t, "passwordPull")
  /\ UNCHANGED <<userName, nameSet, database, userList, checks, registered, comm, clients, fds>>

PasswordPull(t) ==
  /\ EndLogin(t, "passwordPull")
  /\ nameSet' = PullNameSet(nameSet, userName[t])
  /\ UNCHANGED <<userName, database, userList, checks, registered, comm, clients, fds>>

\* insertAccount; promptPassword returns TRUE whatever came of it.
InsertAccount(t) ==
  /\ Goto(t, "account", "greet")
  /\ InsertAccountRow(userName[t])
  /\ UNCHANGED <<handoff, userName, nameSet, userList, checks, registered, comm, clients,
                 fds>>

\* HI.
Greet(t) ==
  /\ Goto(t, "greet", "insertCheck")
  /\ greeted' = [greeted EXCEPT ![connfd[t]] = userName[t]]
  /\ UNCHANGED <<handoff, userName, nameSet, database, userList, checks, registered, comm,
                 byes, fds>>

\* insertUser gives up without a word when the name is in the list ...
InsertCheck(t) ==
  /\ \E exists \in BOOLEAN :
       Answer(t, exists) /\ Goto(t, "insertCheck", IF exists THEN "pull" ELSE "insert")
  /\ UNCHANGED <<handoff, userName, nameSet, database, userList, registered, comm,
                 clients, fds>>

\* ... and takes the lock again to insert it.
Insert(t) ==
  /\ Goto(t, "insert", "pull")
  /\ userList' = InsertUser(userName[t], connfd[t])
  /\ UNCHANGED <<handoff, userName, nameSet, database, checks, registered, comm, clients, fds>>

Release(t) ==
  /\ Goto(t, "pull", "register")
  /\ nameSet' = PullNameSet(nameSet, userName[t])
  /\ UNCHANGED <<handoff, userName, database, userList, checks, registered, comm, clients, fds>>

\* MOTD, and the descriptor joins the set of the communication thread.
Register(t) ==
  /\ EndLogin(t, "register")
  /\ registered' = registered \cup {connfd[t]}
  /\ UNCHANGED <<userName, nameSet, database, userList, comm, clients, fds, checks>>

LoginStep(t) ==
  \/ Dequeue(t)
  \/ HelloOk(t) \/ HelloBad(t)
  \/ \E name \in Name : IdentifyNew(t, name) \/ Identify(t, name)
  \/ IdentifyBad(t)
  \/ CopyUserList(t) \/ CheckOnline(t) \/ Reserve(t)
  \/ RefuseKeep(t) \/ RefuseListed(t) \/ RefusePull(t)
  \/ PasswordNew(t) \/ Password(t) \/ PasswordBad(t) \/ PasswordPull(t)
  \/ InsertAccount(t) \/ Greet(t) \/ InsertCheck(t) \/ Insert(t)
  \/ Release(t) \/ Register(t)

-----------------------------------------------------------------------------
(* The communication thread. Only BYE changes anything; at the end of a     *)
(* connection Recv returns an empty message, which is none of its cases.    *)

\* matchUser walks a copy, too, but nobody else deletes: it finds what the list
\* had at the time of the copy, which is this step.
ReceiveBye(fd) ==
  /\ commPc = "select" /\ commPc' = "delete"
  /\ fd \in registered \cap byes
  /\ commFd' = fd
  /\ commName' = MatchUser(fd, commName)
  /\ UNCHANGED <<handoff, locals, nameSet, database, userList, checks, registered, clients,
                 fds>>

\* A user that leaves takes a node out of every copy that is being walked, and
\* the first node of the list may be the copy's head.
DisturbedCopies ==
  [t \in Thread |->
     IF copy[t] # "none" /\ IsUserExist(commName) THEN "stale" ELSE copy[t]]

\* receiveByeMessage: BYE to the client, deleteUser, UOFF to the others.
DeleteMatched ==
  /\ commPc = "delete" /\ commPc' = "close"
  /\ userList' = DeleteUser(commName)
  /\ copy' = DisturbedCopies
  /\ greeted' = [greeted EXCEPT ![commFd] = NoName]
  /\ UNCHANGED <<handoff, locals, nameSet, database, misled, registered, commFd, commName,
                 byes, fds>>

CloseConn ==
  /\ commPc = "close" /\ commPc' = "clear"
  /\ opened' = opened \ {commFd}
  /\ byes' = byes \ {commFd}
  /\ UNCHANGED <<handoff, locals, nameSet, database, userList, checks, registered, commFd,
                 commName, greeted, accepted>>

\* FD_CLR, by when the descriptor may belong to another connection.
ClearConn ==
  /\ commPc = "clear" /\ commPc' = "select"
  /\ registered' = registered \ {commFd}
  /\ UNCHANGED <<handoff, locals, nameSet, database, userList, checks, commFd, commName,
                 clients, fds>>

CommStep ==
  \/ \E fd \in Fd : ReceiveBye(fd)
  \/ DeleteMatched \/ CloseConn \/ ClearConn

-----------------------------------------------------------------------------
(* The clients that were greeted. *)

SayBye(fd) ==
  /\ greeted[fd] # NoName
  /\ fd \notin byes
  /\ byes' = byes \cup {fd}
  /\ UNCHANGED <<handoff, locals, nameSet, database, userList, checks, registered, comm,
                 greeted, fds>>

\* The client is killed, or its host is.
Vanish(fd) ==
  /\ greeted[fd] # NoName
  /\ fd \notin byes
  /\ greeted' = [greeted EXCEPT ![fd] = NoName]
  /\ UNCHANGED <<handoff, locals, nameSet, database, userList, checks, registered, comm,
                 byes, fds>>

Next ==
  \/ AcceptConn \/ Enqueue
  \/ \E t \in Thread : LoginStep(t)
  \/ CommStep
  \/ \E fd \in Fd : SayBye(fd) \/ Vanish(fd)

Spec == Init /\ [][Next]_vars

\* The states of a login thread in which it has pushed its name and not yet
\* pulled it.
Holding(t) ==
  pc[t] \in {"password", "passwordPull", "account", "greet", "insertCheck",
             "insert", "pull"}

(* Every login thread that can run does, and a client in the middle of its *)
(* login answers or closes.                                                *)
FairSpec ==
  /\ Spec
  /\ \A t \in Thread : WF_vars(Holding(t) /\ LoginStep(t))

-----------------------------------------------------------------------------
(* Type invariant: the handoff, the program counters and the shared tables. *)
TypeOK ==
  /\ mainFd \in Fd \cup {NoFd}
  /\ queue \in Seq(Fd)
  /\ connfd \in [Thread -> Fd \cup {NoFd}]
  /\ pc \in [Thread -> {"dequeue", "hello", "identify", "check", "push", "refuse",
                        "refusePull", "password", "passwordPull", "account",
                        "greet", "insertCheck", "insert", "pull", "register"}]
  /\ userName \in [Thread -> Name \cup {NoName}]
  /\ nameSet \in Seq(Name)
  /\ accounts \in SUBSET Name /\ unstored \in SUBSET Name
  /\ copy \in [Thread -> {"none", "listed", "absent", "stale"}]
  /\ misled \in BOOLEAN
  /\ userList \in Seq([userName : Name, connfd : Fd])
  /\ opened \in SUBSET Fd /\ registered \in SUBSET Fd
  /\ commPc \in {"select", "delete", "close", "clear"}
  /\ commFd \in Fd \cup {NoFd} /\ commName \in Name \cup {NoName}
  /\ greeted \in [Fd -> Name \cup {NoName}]
  /\ byes \in SUBSET Fd
  /\ accepted \in 0 .. MaxConn

(* Every reserved name is reserved once and belongs to a login in progress: *)
(* no login, however it ends, leaves a name behind that nobody will release *)
(* and under which nobody could ever log in again.                          *)
ReservationsHeld ==
  /\ IsInjective(nameSet)
  /\ \A i \in DOMAIN nameSet : \E t \in Thread : Holding(t) /\ userName[t] = nameSet[i]

(* A user in the list has an account, unless its INSERT failed, also while  *)
(* several threads check, create accounts and insert users: IAMNEW relies on *)
(* it, for it looks for the name among the accounts only.                  *)
UsersHaveAccounts ==
  \A i \in DOMAIN userList : userList[i].userName \in accounts \cup unstored

\* No check was misled by a logout, and no INSERT has failed.
Undisturbed == ~misled /\ unstored = {}

\* A login thread is between HI and the end of insertUser.
Inserting(fd) ==
  \E t \in Thread : connfd[t] = fd /\ pc[t] \in {"insertCheck", "insert"}

\* Who was told HI is in the list, by that name and descriptor.
GreetedInList ==
  \A fd \in Fd : greeted[fd] # NoName =>
    \/ Inserting(fd)
    \/ \E i \in DOMAIN userList : userList[i] = [userName |-> greeted[fd], connfd |-> fd]

(* "/users Display a list of currently logged in users": a client that was  *)
(* told HI is in the list until it says BYE, as long as no logout has       *)
(* misled a check and no INSERT has failed.                                *)
GreetedListed == Undisturbed => GreetedInList

\* No name is in the list twice.
NamesApart ==
  \A i, j \in DOMAIN userList :
    userList[i].userName = userList[j].userName => i = j

(* No name is in the list twice, until a logout misleads a check: what     *)
(* isUserExist found out before the insertion is still so.                 *)
UniqueNames == ~misled => NamesApart

\* The login of thread t has its name reserved, and no other login has that name.
SoleHolder(t) ==
  /\ Holding(t)
  /\ userName[t] \in ToSet(nameSet)
  /\ \A u \in Thread \ {t} : Holding(u) => userName[u] # userName[t]

\* Thread t pulls the name in its buffer.
Pulls(t) == RefusePull(t) \/ PasswordPull(t) \/ Release(t)

(* A login loses its reservation only to the pull of a thread that has none *)
(* of its own: a refused login, or one that was robbed like this before.    *)
LostToRobber ==
  [][\A t \in Thread :
       SoleHolder(t) /\ Holding(t)' /\ ~SoleHolder(t)' =>
         \E u \in Thread : Pulls(u) /\ ~SoleHolder(u)]_vars

(* No name stays reserved for ever, when the clients answer or close and the *)
(* server lives.                                                           *)
ReservationsReleased ==
  \A name \in Name : name \in ToSet(nameSet) ~> name \notin ToSet(nameSet)

Promise == INSTANCE Sessions
             WITH Conn <- Fd, told <- greeted,
                  online <- {<<userList[i].userName, userList[i].connfd>> :
                               i \in DOMAIN userList}

(* With one login thread the service keeps the promise of Sessions, until a *)
(* logout misleads a check or an INSERT fails.                             *)
SessionsSpec ==
  /\ Promise!Init
  /\ [][Undisturbed' => Promise!Next]_(Promise!vars)
=============================================================================
