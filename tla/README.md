# WolfieChat: verification project

TLA+ models of the chat server and client in `src/`, the TLC runs that check
them and the theorems TLAPS proves about them. `PROJECT.json` lists components,
runs, mutants, the lines each definition models, hazards, findings and theorems.

## 1. Inventory of the system

| Component | State | Operations | Talks to |
|---|---|---|---|
| Main loop (`Server.c` main, executeCommand, shutdownCommand) | `runFlag`, the listening socket | select, accept, `/users` `/accts` `/help` `/shutdown` | login queue, user list |
| Login queue (`Server.c` 133-164) | ring `connfds`, two indices, semaphores `mutex`, `slots`, `items` | loginEnqueue (main thread), loginDequeue (login threads) | - |
| Reserved names (`Server.c` 87-131) | `nameSet`: array and count | pushNameSet, pullNameSet, under the write lock | login threads |
| Login protocol (`Server.c` 301-469) | per thread: `connfd`, the buffer `userName` | WOLFIE/EIFLOW, IAM or IAMNEW, PASS or NEWPASS, HI, MOTD | database, reserved names, user list, communication set |
| Communication thread(s) (`Server.c` 471-590) | `communicationSet`, `maxConnfd`, `numCommunication` | TIME, LISTU, MSG, BYE | user list, every client |
| User list (`User.c`) | doubly linked list, head, tail, count | insertUser, deleteUser, isUserExist, findUser, matchUser, matchBegin, printAllUserInfo | every server thread; the client has one of its own |
| Accounts (`Database.c`) | SQLite table USERS (name UNIQUE, hash, salt) | isAccountExist, verifyPassword, insertAccount, printAllAccountsInfo | login threads, main thread |
| Framing (`Wrapper.c` 3-71) | `localBuffer`, one per process | Send, Recv, RecvChat | everything |
| Client (`Client.c`) | `clientfd`, its list of chat windows | login, `/time` `/listu` `/chat` `/audit` `/logout`, incoming messages | server, chat windows |
| Chat window (`Chat.c`) | one end of a socket pair | forwards lines, `/close`, signals | a thread of the client |
| Audit log (`Wrapper.c` 73-148) and log viewer (`Log.c`) | a text file | append under flock; print, sort, filter | - |
| sfwrite, options, sockets | `Q_lock` | locked output, set-up | - |

One read-write lock `RW_lock` is shared by the name set, the user list and the
database. It makes each function atomic, not the decisions taken from what the
functions return.

What makes this hard:

* The login threads interleave with each other, with the main thread and with
  the communication thread; almost every rule of the protocol is a check in one
  critical section and an action in a later one.
* Clients may be silent for ever (no timeout anywhere), die at any moment, or
  send messages in pieces or glued together.
* Descriptors are reused by the operating system as soon as they are closed.
* Some state is shared without a lock: `numCommunication`, `maxConnfd`,
  `communicationSet`, `localBuffer`, the fields of `userList`.

What makes each component correct:

* Login queue: no connection lost, duplicated or overtaken; bounded; every one
  is served when clients respond; the operator can stop the server.
* Reserved names: distinct; a release releases that name and no other; none is
  orphaned; the array does not overflow.
* Login protocol: a name belongs to one session at a time; only accounts get
  sessions; a client told HI is in the list until it leaves.
* Communication: BYE ends the session of its sender and no other, and is served.
* User list: the linked list is the sequence of users in the order of login, and
  readers see one that existed.
* Framing: each client's messages are delivered whole, in order, to the handler
  of that client.
* Client: each command gets its own answer, and the prompt comes back; both
  parties of a chat see the same conversation.
* Chat windows: one for each partner; a message is lost only to a window that is
  closing; a closed window is forgotten.
* Log: the viewer's filter shows the lines of an interval of time, although
  several processes write the file.

`PROJECT.json` lists the hazards at their lines with the properties that would
catch them.

## 2. Modules

| Module | Models | Notes |
|---|---|---|
| `LoginHandoff` | the promise of the login queue | abstract bounded FIFO |
| `LoginQueue` | main loop, loginEnqueue, loginDequeue | one action per semaphore operation or access to the ring |
| `NameSet` | pushNameSet, pullNameSet | operators on sequences; also the loops of pullNameSet |
| `NameSetOps` | any sequence of pushes and pulls | |
| `Sessions` | the promise of the login service | accounts, who was told HI, who is online |
| `Login` | login threads, user list, accounts, BYE, descriptors | uses `NameSet`; its queue is `LoginHandoff` |
| `Registration` | how a greeted client gets to a communication thread: `numCommunication`, `maxConnfd`, `communicationSet`, select, FD_SET, FD_CLR | loads and stores, any number of threads of both kinds |
| `Roster` | the promise of the list of users | a sequence with Join and Leave |
| `UserList` | insertUser, deleteUser, the readers of the list, the walks without the lock | nodes, pointers and free() |
| `Framing` | Recv and its one `localBuffer`, in the communication thread and in login threads | streams of bytes in cells; string functions read in one step and write in another |
| `Messaging` | TIME, LISTU, MSG, BYE, their answers and UOFF; the main loop of the client | queues of messages each way |
| `ChatWindows` | processChatMessage, communicationThread of the client, the processes of Chat.c | one thread and one process per window |
| `LogViewer` | time stamps, appending by several processes, the viewer's list, its print and its filter | |
| `Sequential` | `NameSetOps` and `LogViewer` in one run | the algorithms on data; they share no state |
| `MCLoginQueue`, `MCLogin`, `MCRegistration`, `MCUserList`, `MCSequential` | symmetry sets for TLC; the instants of `Sequential` | only `UserList_list` uses symmetry: the runs with liveness and the shortest violations do not |
| `LoginQueueProofs`, `LoginProofs`, `RegistrationProofs`, `UserListProofs`, `FramingProofs`, `MessagingProofs`, `ChatWindowsProofs`, `SequentialProofs` | theorems | those about the operators of `NameSet` are in `LoginProofs`, about its loops in `SequentialProofs` |

How they compose. `LoginQueue` implements `LoginHandoff`, which is the queue of
`Login`. `Login` is the service as a whole, with the name set as operators on
sequences and the list of users as a sequence; `UserList` shows where the linked
list is such a sequence (`Roster`) and where its readers do not see it as one.
`Registration` takes apart the step `Register` of `Login`, and its BYE.
`Messaging` is what follows the registration; that its server comes back to every
client is what `Framing` shows, and what becomes of several messages received at
once, where `Messaging` ends, is there, too. `ChatWindows` is inside one client: a message it gets
is one that `receiveMessage` of `Messaging` has shown, a line it reads is a
`SendChat` there.

### LoginQueue

The ring is a function over `0 .. numThread-1`, the indices count without bound
and are reduced by `Index` where the code takes `%`. The indices' overflow after
2^31 connections is left out. Main thread: `select`, then the five
steps of loginEnqueue. Login thread: the five steps of loginDequeue, then
`Serve`, which stands for the whole exchange and may never happen. `/shutdown`
is typed at any time and executed only when the loop is back at select, before
the listening socket is looked at, as in the code. The other commands change
no state.

`HandoffSpec` is `LoginHandoff!Spec` under `held <- mainFd`, `queue <- waiting`
(the slots between the indices), `serving <- connfd`.

### NameSet

The array and its count are a sequence. `PullPosition` keeps the code's flaw:
`nameFound` is set for any entry, so pulling an absent name drops the last one.
`PullNameSetLoop` is the pair of loops as written: `visited[i]` is the array after i passes
of the outer one.

### Login

A step ends where the code takes or drops `RW_lock` or waits for a message.
isUserExist is two steps: `CopyUserList` takes the head and the count by value,
before the lock, and `Answer` walks the copy under it. The answer is right if no
user left in between; a logout (`DisturbedCopies`) takes a node out of every copy
that is being walked, or frees its head, and then the walk may say anything, or
follow a null pointer, where the behaviours of this module end. `misled` remembers
that such an answer was wrong. `InsertAccountRow` may fail, for a name that has a
row or for a reason of SQLite's own, and the login goes on as if it had not;
`unstored` remembers the names. GreetedListed and SessionsSpec are stated until one of the two
happens (`Undisturbed`), UniqueNames until the first. `refuse` is the failure branch of loginThread, with its second look at the list
and its pull of a name that may be stale: `userName` keeps the content of an
earlier login, `NoName` before the first. The clients are free: any client may
send anything (`HelloBad`, `IdentifyBad`, `PasswordNew` after IAM), and `Password`
is possible exactly if the name has an account. `Greet`, `InsertCheck`,
`Insert`, `Release`, `Register` follow the order of lines 324-342. Descriptors are small numbers and
accept() returns the lowest free one; a failed login leaves its descriptor open,
as the code does. The communication thread handles BYE in four steps (matchUser,
deleteUser, close, FD_CLR). `greeted` records what each client was told and is
not program state; it ends when the client says goodbye or is killed (`Vanish`).

`SessionsSpec` is `Sessions!Spec` with `told <- greeted` and `online` the pairs
of the list.

Simplifications: `Register` is one step and there is one communication thread
(`Registration` has what that leaves out); the list is a sequence, inserting and
deleting are one step each, and matchUser is one with its copy, because only the
communication thread deletes (`UserList` has the nodes); TIME, LISTU and MSG are not
there, because they change nothing.

### Registration

From the greeting on: lines 332-342 for each login thread, with FD_SET, FD_CLR
and the update of `maxConnfd` as a load and a store, for the code has no lock
and the compiler may do so; the increment of `numCommunication` stays one step,
because only 0 is told apart. A communication thread copies the set, asks
select, and reads the reported descriptors in order up to the `maxConnfd` of
that moment. select fails when the set names a closed descriptor and leaves
everything set. recv() takes the request off the socket (`Receive`), Recv returns
it (`Returns`), and the handler runs: two steps, because all threads share
localBuffer, and others may be in Recv in between, communication threads
(`Receive`, `ReceiveOther`) or a login thread (`LoginRecv`). From then on, `mixed`,
any thread's Recv may return any message, a second copy of one, a piece, or
follow a null pointer, without looking at its socket. After BYE the descriptor is
closed, then cleared; from the receipt on its client is "left". `RecvClosed` is what happens when another thread has closed a
descriptor in between (recv() fails and Recv follows a null pointer, or recv()
was already waiting and sees the end of the connection). "ask" is any request
that is answered and changes nothing. `overlapped` is history: it remembers that
two registrations, or one and an FD_CLR, were under way together. `Heard` and
`AnsweredAlone` hold until then. After it they need not: two stores of the set
lose a client, who is then never answered (Server.c:332-341). ClosedAfterBye
and AnsweredAlone hold until `mixed`: two threads may return one BYE, and the second
close() is of somebody else's descriptor.

### UserList

The heap is a function from nodes to records; `free` is the order in which
malloc returns nodes (last freed first, as the C library does for one size), and
a freed node loses its name and keeps its next pointer until it is used again.
The readers get the list by value: `CopyHead` and `CopyCount` read the fields one
after the other, before the lock. Under the lock a whole loop is one step,
because no writer runs; outside it (receiveByeMessage, receiveListuMessage) each
node is one step. A writer takes two steps, links first and count second, so
that the copies can fall between them. `WalkOff` is the read through a null
pointer; the server stops there. One communication thread deletes. Two login
threads may insert one name together, for a robbed reservation allows it
(`Login`). `disturbed`, `doubled`, `due` and `told` are history: a user left, or another thread
linked the same name, during a login's check.

`RosterSpec` is `Roster!Spec` with the users along the next pointers as its
sequence: every step of the list appends one user, removes one or changes none.
`Roster` does not forbid one name twice: a check walk that a logout disturbs may
miss a user, and insertUser then inserts the name again; so does the second of two
logins of one name. With one thread that deletes, the head that deleteUser reads before the lock
is still the head under it (User.c:54); `ChatWindows` has several.

### Framing

A connection is a sequence of cells: the two halves of a message's text, of which
the second has the terminator, and zero bytes behind the messages that are sent
with length MAX_LEN (PASS, NEWPASS and MSG; their buffers are taken to be zero
there). `Receive` takes any beginning of the stream, up to MAX_LEN, so that
messages come alone, glued together or torn. strstr, strcat and strcpy are steps
that read the buffer and steps that write it; mixtures of bytes of two functions
are left out. `LookFound` is the message that an earlier recv() left behind,
which Recv returns to whoever calls next; `FindNull` is `&ch[4]` of a null
pointer; the end of a connection is an empty message, which nobody handles, and
select reports the descriptor again for ever. `arrived` and `given` are history, kept as long
as a property speaks of them; `alone`, `whole` and `overlapped` say which
assumption about the network and the threads still holds. `sends` counts what all clients
have sent, for the bound. `Ended` names the messages of a string that consists of whole
messages, and is asked for no other.

### Messaging

A handler of the communication thread is one step, since only that thread sends
to listed clients; the requests and answers are records, and a user's name stands
for its descriptor. `down` is what the client has not received, `localBuffer` what
its Recv keeps; `ERR0` is ERR 01 as the sender gets it, with one byte too many
(Server.c:557, 560), behind which a string ends. A closed connection is reset by
what is sent to it or by unread bytes, and a reset connection kills the server at
the next recv(), or at the next send() if SIGPIPE comes first. recv() of the server takes
one message, or several of those that wait in `up`, or a part of one
(`ReceiveUneven`), and the server may die of the zero bytes behind a chat message
or of a torn one; the model ends there (`uneven`), because what localBuffer hands
out then is the subject of `Framing`. The client's loop is
its commands with the answer they wait for, `readable` (the answer of select that
is used after the command), receiveMessage, and SIGINT outside of a logout.
`clean` remembers that nothing else could come to the command being answered.

### ChatWindows

The steps of processChatMessage are isUserExist, socketpair, insertUser, fork,
findUser, the read of the window's descriptor, Send and pthread_create. The three functions
get the list by value (`copy`) before the lock; if a thread deletes a window in between, or
the one that findUser returned before its descriptor is read, the walk meets freed
memory (`Stray`). deleteUser reads the head (`ReadHead`) before the lock; if another window's
thread deletes the first window in between, it may miss its own or crash
(`DeleteStray`). Either sets `disturbed`, and the client is not followed further. A window's process keeps copies of the client's
descriptors, which matter to nobody here. Its lines wait in `line`; the thread gets one
or several of them by one recv(), and only "/close" alone ends it (`ReadClose`);
then it deletes its partner by name, in two steps, closes and is gone. A window ends by
"/close", by a signal (which sends "/close"), or is killed, or was never executed
(`Kill`): then the thread reads empty messages for ever. The list is a function
from partners to windows, which `OneWindowEach` justifies; UserList has the nodes.

### LogViewer

A line is its stamp and its writer. `GetTimeStamp` gives the fields of
"%D-%I:%M%p" in the order of the text, which is the order strncmp compares; what
the user types is a date or a whole stamp. `TakeStamp` and `WriteLine` are apart,
since the stamp is taken before the lock of the file. The viewer reads the file
once (`ParseFile`), its list has head, tail, count and next pointers. The file's other fields,
clocks that go back, and sort and grep, which the viewer runs on the file as
external programs, are left out.

## 3. Runs

Every run sets CHECK_DEADLOCK FALSE: the bounds on connections, messages and lines
make the systems stop (and `LoginQueue` really stops at `exit`).

| Run | Actors | Bounds | Shows |
|---|---|---|---|
| `LoginQueue_ring` | 3 threads | MaxConn 7 | `RingInv`: mutual exclusion, semaphores account for every slot, item and held connection; refinement of the FIFO; with responsive clients every connection is served and /shutdown works |
| `LoginQueue_shutdown` | 2 threads | MaxConn 5 | *violated*: silent clients keep /shutdown from being read |
| `Login_one` | 1 thread | 2 names, 3 descriptors, 5 connections, 1 failed INSERT | refines Sessions; who is greeted is listed, names are unique, both until a check is misled or an INSERT fails; who is listed has an account or lost its INSERT |
| `Login_two` | 2 threads | 2 names, 3 descriptors, 3 connections | reservations held and released, who loses one and to whom |
| `Login_listed` | 2 threads | 2 names, 4 descriptors, 4 connections, 1 failed INSERT | *violated*: two clients greeted as one user, with no misled check and no failed INSERT |
| `UserList_list` | 2 threads (symmetric) | 3 users (symmetric), 3 nodes, 3 logins | the list is sound and is a Roster; a walk without the lock is complete; a reader runs off only after a logout or from an empty list; who inserts a listed name |
| `UserList_users` | 1 thread | 2 users, 2 nodes, 2 logins | *violated*: /users can follow a null pointer |
| `Registration_heard` | 2 + 2 threads | 2 descriptors, 3 logins, 3 steps from two threads in Recv on | heard and answered unless registrations overlap; a thread for whoever is counted; at most one each; no thread closes a descriptor that is another client's by then, unless two were in Recv |
| `Framing` | communication thread, 1 login thread | 2 clients, 1 guest, 3 messages | each handler gets its client's messages while they come alone; glued they stay whole, in order and complete; no client is starved |
| `Messaging` | 2 clients, the server | 3 requests | both see one conversation; a command gets its answer; the prompt comes back; what kills the server |
| `ChatWindows` | main thread, 3 windows | 2 partners, 4 messages, 3 lines | one window for each partner; what is lost; closed windows leave the list |
| `Sequential` | 2 writers, the viewer | 5 names, 4 reserved; 3 lines, 6 instants | pullNameSet's loops = closed form; the filter = an interval of time |

Bounds. Seven connections over three slots wrap the ring twice and let every slot
be reused; two threads suffice for every check-then-act race, which needs one
other actor; two names let one client take or miss the name of another; five
connections over three descriptors force reuse. Three logins and three nodes are
a first, a middle and a last user, and a freed node that is used again while a
reader holds a copy with it; three logins over two descriptors give a descriptor
to a second client after BYE, and there is one more login than threads.
Three messages on three connections are one for each, or two or three glued on
one while another waits; in `Framing` one client hangs up, nothing more is sent
after a message was torn or two threads overlapped, because the properties
promise nothing from there on, and no message is torn after an overlap. Three
requests let two clients write to each other while one of them waits for an
answer or leaves. Three windows for two partners give one partner a second
window while the thread of its first still ends, and two of them can be closed
together; three lines are a line and a
/close glued in one window and one more in another. The six instants lie around
new year, midnight, noon and a change of day, where the text of a stamp and its
instant are ordered differently.

Where a model stops. One failed INSERT (`MaxFailed`) is enough to greet a user without an
account, and a second one adds no other state of one name; `Login_two`, whose properties do not
speak of accounts, has none but those of names that exist. `Registration` follows the threads for `MaxMixed`
steps from the one that lets two be in Recv at once: three are that one, a BYE
returned to the wrong thread, and its close(); what is
stated without a condition on `mixed` (Heard, ThreadForCounted, OneThreadEach) is about
variables that Recv does not touch. `Messaging` and `ChatWindows` do not go on after
an uneven receipt or a stray walk, because memory or localBuffer then decides.
Properties with such a condition say how far the code keeps them, not that it
does beyond.

Fairness. Weak fairness of every server thread: the scheduler runs a thread
that can run. It is enough for the semaphores because the number of connections
is bounded, so no thread can be overtaken for ever. `AcceptConn`, `TypeShutdown`, `SayBye` and
`Vanish` are never fair. `Serve` is fair only in `ResponsiveSpec`, and in
`Login!FairSpec` the client of a login that holds a reservation answers or
closes, and the server lives; both assumptions are about clients and are named where they are made.
`LoginQueue_shutdown` shows what happens without. In `Registration` and
`UserList` no client and no operator is fair, only the threads, as long as the
server lives (`~crashed`, `Alive`); weak fairness is enough for the lock in
`UserList`, since logins are bounded and the walks of the communication thread
without the lock do not hold it. In the later modules it is the same: the
threads, and in `Messaging` the client processes, are fair as long as the program
lives (`Alive`); typing, writing, hanging up, signals and deaths are not. `Handle`
is fair for each client of `Messaging` because `Framing` shows that the loop comes to every
reported descriptor (`Handled`).

## 4. Theorems

`LoginQueueProofs`, for every finite non-empty set of threads and every number of
connections: TypeOK, RingInv (MutexInv, SlotsInv, ItemsInv, HeldInv) and the
refinement of LoginHandoff. The four parts are inductive together, because each
sum bounds the others: a slot is known to be free from SlotsInv only while
ItemsInv excludes a reader of an empty ring. The counts are cardinalities of sets of
threads at a label, and the lemmas CountsSame and CountsStep say how a step of one
thread changes them. Distinct counters less than numThread apart have distinct
slots (IndexInjective), so a write overwrites nothing that waits.

`LoginProofs` begins with what push and pull do to the set of names, from the
library's definitions of RemoveAt and ToSet: which name comes or goes, that every
other stays, and that they keep names distinct. Then, for every set
of threads and names: TypeOK, ReservationsHeld,
UsersHaveAccounts, NameSetFits; and UniqueNames for one thread. The inductive
invariant adds `BuffersKnown` (past "identify" a buffer holds a real name, except in the
failure branch), `Verified` (past the password the name has an account) and, for one thread,
`CheckedAbsent` (until a check is misled, the name found absent from the list is
still absent) with `ChecksExact` (what a copy says that no logout has touched is so).
NameSetFits follows from ReservationsHeld: choosing a holder for each reservation is an
injection into the threads.

The second half of `LoginProofs`, for one login thread (`-t 1`; the server starts two unless
told otherwise) and every set of names, number of descriptors and of connections:
GreetedListed, and `Login` implements `Sessions`, as long as no logout misleads a check and
no INSERT fails (the invariant is conditional on `Undisturbed`). With two threads a client that
was told HI may be refused at insertUser, so neither holds (the run
`Login_listed` shows it of GreetedListed). Names are the easy half: a name
found absent stays absent (`StillAbsent`), because nobody else inserts. Descriptors are the
hard one, for they are reused: a descriptor is closed before FD_CLR takes it
out of the set, and accept() may return it in between. The invariant `SInv` says
how far a reused descriptor can be mistaken: a connection is in one place of the handoff
(`OnePlace`), what anything still refers to is open (`OpenWhileUsed`), the set names a
closed or new descriptor only between close() and FD_CLR (`StaleUntilClear`), a new
connection is neither listed nor greeted (`NewConn`), BYE comes from greeted
clients (`ByeFromGreeted`) and deletes the user it matched (`ByeMatched`). `InsertedUser`,
`DeletedUser` and `MatchedUser` are the facts about the list. Each step of `Login` is
then a step of `Sessions` or a stutter (`SessionsStep`).

The last part of `LoginProofs`, for any number of threads again, is what a reservation is
worth. A login is a `SoleHolder` while its name is reserved and no other login in progress has
that name. LostToRobber: it stops being one only when it pulls its name, or by the
pull of a thread that is none (a refused login, Server.c:347, or one that lost its
own before), because pulling a name that is not reserved removes the last one
(Server.c:118). TwiceOnlyIfRobbed: while it is one, what isUserExist said before the
insertion stays true unless a logout misled it, so a second entry of a name is the work of a login that
has lost its reservation, or of a misled check. (Two threads need a fourth connection to list a name twice: one
client is listed, one refused with that name, one robbed, and one takes the robbed name.
`Login_two` has three, so this property is stated in `LoginProofs` and proved, not run; so
is NameSetFits, which follows from ReservationsHeld.) Only a push and the pulls touch reservations
(`ReservationSteps`), a sole holder was one before the step (`SoleBefore`) and is one after
it if every pull was a sole holder's (`SoleAfter`); `AbsentIfSole` is the invariant that
takes the place of `CheckedAbsent`. From the same lemmas, NamesUniqueIfNobodyRobs: no name is
ever listed twice as long as no refused login pulls while a name is reserved
(`SparingNext`) and no check is misled, with `AllSole` as the invariant.

`RegistrationProofs`, for every number of login threads, descriptors and logins:
TypeOK, ThreadForCounted, OneThreadEach and ClosedAfterBye. The invariant adds
`Counted`: the clients counted and those not yet counted are no more than the
logins, nobody has created a communication thread while the counter is 0, and a
thread past the test that is not about to count the first client knows that the counter is
positive. While the counter is 0 OneThreadEach holds because the first-comers
are a part of the threads; from then on nobody joins them, and Create takes one
away for the one it adds. ClosedAfterBye rests on `ByeKnown`: until `mixed`, a thread about to
close a descriptor has read its BYE, one thread is in Recv at a time, and only one
is about to close it, because a client says BYE once. `ClientKnown` gives the descriptor of every thread.
`overlapped` is left out of TypeOK, which no step of the code depends on.
AlwaysHeard has an invariant of its own, `HInv`: until two writes of the set overlap,
the registering thread is the only one, so what it has loaded of the set and of the limit
is still what they are (`RegistrationKnown`), there is one communication thread, and the
descriptor that it is clearing is nobody's (`ClearingKnown`).

`UserListProofs`, for every set of users and of threads and every number of nodes and
logins: TypeOK, ListShape, InsertedIsNew, WalkComplete, WalkOffCause, and the list
implements `Roster`. The heap is reached by walks along the next pointers, which are
recursive functions. What such a walk comes to is proved once, by the least index at which it
could go wrong (`Least`, `WalkAlong`): if nodes are linked as a list (`IsList`), the
walk from the first of them is that sequence, and no other (`ChainOf`). So each step
only has to show which sequence is linked after it: Link appends a node, Unlink takes one
out, at the head, the tail, between them, or the only one. The invariant `UInv` has the
shape of the list and of the free nodes (`Shape`, `Freed`), who holds the lock and what
the count is meanwhile (`Locked`, `Counted`), that the one who leaves is listed until
the node is taken out (`Leaves`), that a thread knows of another that links its name
(`Wanted`, `doubled`), and what the readers know: a copy of the head and the count is of a beginning
of the list while nobody leaves (`Copied`), what a login thread does not look at in its
check was inserted by others (`Unseen`), and the walk without the lock has told the first k
users (`Telling`). In the refinement Link is Join, Unlink is Leave, all else a stutter.

`FramingProofs`, for every set of clients and of login threads and every number of
messages: TypeOK, OwnMessages and InOrder. That cells are whole messages is said of each
place where one begins (`Blocks`: there is room for its cells, they are that message's,
and another begins behind them), and that a string is whole messages of each pair of cells
(`Texts`), so that no function on sequences has to be computed: Blocks survive being joined
(`BlocksJoined`) and cut where a message begins (`BlocksDivided`), what strcat takes of them
are Texts (`StringOfBlocks`), and strstr finds the end of the first (`TextsDivided`). The
invariant is in two layers. `WholeInv`: while two threads have not overlapped, at most one is
using localBuffer (`Exclusive`); while messages also come whole, streams, what recv() gave
and localBuffer are whole messages, the thread using localBuffer has a true copy of
it (`StringWhole`), and what was returned with what is left is what has arrived
(`Accounted`), from which InOrder follows. `OneInv`, while they come one by one: the
messages on a stream bear consecutive numbers up to the last that was sent, and the first is
the next for the handler, or the one after it if a thread has that one in hand
(`StreamsNumbered`); a thread has one message, its own client's, and localBuffer is
empty unless a thread has put its message there (`OneHeld`). So nothing is ever left
over for another thread's call (`NothingFound`), and the numbers that OwnMessages
compares with a count go up by one (`CountMore`).

`MessagingProofs`, for every set of users and number of requests: TypeOK, DiesOfAbrupt
and OwnAnswer. The four handlers have one description, `Handled` (who is sent
what, and what becomes of the connections), of which the invariant is proved once.
An uneven receipt ends the behaviours and is a step of its own
(`ReceiveUnevenStep`). `MInv` has where a client's connection can be (`Ends`), that the answer to BYE is read
only after the server has closed (`ByeRead`), that without an abrupt end no
connection is closed before the server's end and nobody reads a last message before it
(`Orderly`), and that while nothing else can come to a command its request or its answer
is on the way, never both (`CleanCommand`).

The second half of `MessagingProofs`: SameConversation. What a client has shown, what is in its
`localBuffer` and what is on its way are one sequence, its `Stream`. Receiving only takes
from it what the client misses or what is no chat message (`Narrowed`); the handler of MSG puts a
message behind the streams of both parties, in one step (`Spread`). The invariant `SInv`
is about streams: the messages of one sender are in its order (`BySender`), those that
two clients have are in one order (`OneOrder`), a client whose connection is open has all of
its conversations (`Hearing`), so that what one has and the other has not is at the
end (`Trailing`). `Said` and `OwnRequests` say that a request on its way is later
than all that its sender has sent. SameConversation is then about the part of the
streams that was shown (`FirstComparable`).

`ChatWindowsProofs`, for every set of partners and every number of windows, messages and
lines, if no partner is `NoPartner`: TypeOK, OneWindowEach and LostToClosing. The
invariant adds `TargetKnown` (the window the main thread is at is the partner's,
without a process before fork and without a thread before pthread_create),
`ListOwned` (a listed window is the partner's own), `Unopened`, `FoundOrEnding` (between
isUserExist and findUser nobody can list another window for the partner, for
only the main thread inserts) and `ClosedByProcess` ("/close" is in `line` only
if the process sent it and is about to end, and a thread stops reading only after
it). The step that disturbs a walk is the last one; what has to hold after it is what does not
depend on the list being whole (OneWindowEach is about the undisturbed). OneWindowEach and ListOwned carry each other: a thread deletes by name,
and hits its own window because a window stays listed until its thread deletes it.
LostToClosing follows from ClosedByProcess. `PutLine` and `TookLine` are the facts about
sequences.

`SequentialProofs`, for every set of names, of writers and of instants with two-digit
years (`InstantAssumption`), and for logs of any length: LoopIsPull and FilterIsInterval.
The loops are recursive functions in the model (`visited` of pullNameSet, the elements and
the lines shown of the viewer). For each the proof writes down its value after i steps as
an explicit function that takes the same steps; two functions that take the same steps
are equal, for there is no least step at which they differ (`PassesDetermined`,
`ParsesDetermined`). In a set without duplicates at most one pass moves anything
(`FoundOnce`), so the loops remove one position (`LoopsPull`); `Parsed` and `Printed` are
the viewer's list after n lines of the file, `FilterKeeps` says that the filter shows the
lines whose text lies between its bounds, and `TextIsTime` that texts which can be compared are
ordered as their instants are: the years agree and, if the day is the bound's and the bound
has a time, so do the halves of the day and whether it is the hour of twelve. The
invariant `AInv` says that reserved names differ, that every line was stamped by getTimeStamp and that the viewer's list is a
beginning of the file.

Only model-checked: liveness (EveryConnServed, ShutdownTerminates, ReservationsReleased,
AnsweredAlone, Handled, BackToPrompt, ClosedUnlisted), which needs fairness and ENABLED.
Every other property of the passing runs is stated by a theorem. Recursive functions are within reach
because one can say what the result is and look at the least place where it could differ;
folds and RECURSIVE operators are opaque to the provers, so the models that are proved
about have neither.

## 5. Findings

1. `LoginQueue_shutdown`: Server.c:149 blocks the loop that reads the terminal.
2. `Login_listed`: IAMNEW races with the login of the same new name
   (Server.c:367, User.c:26); the loser is greeted and never listed.
3. `UserList_users`: the list is copied before the lock is taken (User.c:97-98,
   and so in every reader that takes the list by value); the loop reads through
   a null pointer when a user left, or the first user came, in between.

Met while modelling; the models contain these steps and the properties are
stated around them, without a run of their own:

* The descriptor is closed before FD_CLR (Server.c:506-507); select may fail in
  between, or the number be a new client's. Two registrations at once lose a
  client from the set (Server.c:332-341). (`Registration`)
* The end of a connection is ignored (Wrapper.c:36): a dead client stays listed,
  and select reports it for ever; a reset makes Recv follow a null pointer
  (Wrapper.c:36-41), and SIGPIPE is not ignored (Wrapper.c:7). (`Framing`, `Messaging`)
* A second message in one recv() is given to whichever client's handler calls Recv
  next, a torn one crashes the receiver (Wrapper.c:26-41). (`Framing`)
* The client takes a chat message, or UOFF, for the answer to TIME or LISTU
  (Client.c:368) and leaves on any message but UOFF after /logout; its unread
  bytes reset the connection. The zero byte behind ERR 01 (Server.c:557, 560)
  hides what follows it, and the client may wait for ever. (`Messaging`)
* The window found by isUserExist may be deleted before findUser (Client.c:350).
  "/close" read together with another line goes to the partner as text; a window that
  is killed leaves its thread spinning (Client.c:506-507). (`ChatWindows`)
* A name can be inserted twice after a disturbed check, also with one login thread.
  (`UserList`, `Login`)
* An INSERT that fails is only printed (Database.c:105-108); the client is greeted and
  listed without an account (Server.c:421-422). (`Login`)
* Two communication threads share localBuffer without a lock (Wrapper.c:28-45): both may
  return one BYE, and the second close() is of a new client's descriptor. (`Registration`)
* recv() takes several waiting messages together, and the zero bytes or the torn
  message that is left kill the server, with no client at fault (Wrapper.c:36-42). (`Messaging`)
* deleteUser reads the head before the lock (User.c:54): of two windows closed together
  one may stay listed after its thread is gone. (`ChatWindows`)
* With two login threads a name can be listed twice: a refused login pulls a name that it
  has not reserved and takes away the reservation of another (Server.c:118, 347),
  between that one's look at the list and its insertion. UniqueNames is therefore
  checked with one thread, and LostToRobber and TwiceOnlyIfRobbed for several. (`Login`)

Not in any model: accept() may fail and its -1 is enqueued (Server.c:72).
`Messaging` has, without a property about it: a message glued behind one that
receiveMessage has taken is looked at only when the next one comes (Client.c:257).

## 6. Plan

Done: the login queue, the reserved names, the login protocol, the registration,
the list of users, framing, messaging, chat windows, the log and its viewer, and the
proof of every safety property and refinement that the passing runs check. To come:
teardown (the walk of shutdownCommand and free() against the login and communication
threads that still run), the handler of SIGINT, and the pointer that findUser returns.

The twelve runs are one for each question.

Not modelled: hashing and salts (OpenSSL), SQLite's internals, option
parsing and socket set-up, sfwrite (a mutex around one call), wording and layout of
output, verbose mode, the fields of a log line other than stamp and writer, the viewer's
menus and the programs it runs. Signals that interrupt a thread between any two
instructions (the handler of SIGINT may wait for Q_lock that its own thread
holds, Server.c:592) need another kind of step than these modules have.
