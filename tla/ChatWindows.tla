---------------------------- MODULE ChatWindows -----------------------------
(***************************************************************************)
(* The windows of one client: processChatMessage in its main thread, one   *)
(* communicationThread for each window, and the processes of Chat.c, each  *)
(* at the other end of a socket pair. The list of users is here the list   *)
(* of windows: its names are distinct, its order is that of the windows,   *)
(* and it is a function from partners to windows. A search of it reads the *)
(* head, and for those that get the list by value the length, before it    *)
(* takes the lock. A window stands for its descriptor: only the main       *)
(* thread opens descriptors, so none is used again while it holds the old  *)
(* number.                                                                 *)
(***************************************************************************)
EXTENDS Integers, SequencesExt

CONSTANTS Partner,     \* the users this client chats with
          MaxWindow,   \* bound: how many windows are opened
          MaxMessage,  \* bound: how many chat messages come
          MaxLine      \* bound: how many lines are typed, with /close

ASSUME BoundAssumption == MaxWindow \in Nat /\ MaxMessage \in Nat /\ MaxLine \in Nat

Window == 1 .. MaxWindow
NoWindow == 0
NoPartner == <<>>

ASSUME PartnerAssumption == NoPartner \notin Partner

VARIABLES list,      \* the window of each partner in the list of users
          opened,    \* how many windows there are so far
          owner,     \* the partner each window is for
          process,   \* the process of each window
          thread,    \* the thread of each window
          line,      \* what was typed in each window and not read by its thread
          pc,        \* where the main thread is in processChatMessage,
          partner,   \* its userName
          target,    \* the window it has found, or has opened
          copy,      \* and the windows in the list it got by value
          head,      \* the head of the list that each deleting thread has read
          messages, lines,   \* how many so far
          crashed,   \* the client is dead
          disturbed, \* history: a window was deleted in the middle of another
                     \* search of the list
          lost,      \* history: windows a message was lost to, or died for
          glued      \* history: windows whose /close was read together with
                     \* another line, or that ended without it

main == <<pc, partner, target, copy>>
windows == <<list, opened, owner>>
threads == <<thread, head>>
fate == <<crashed, disturbed>>
vars == <<windows, process, threads, line, main, messages, lines, fate, lost, glued>>

Init ==
  /\ list = [p \in Partner |-> NoWindow]
  /\ opened = 0
  /\ owner = [w \in Window |-> NoPartner]
  /\ process = [w \in Window |-> "none"]
  /\ thread = [w \in Window |-> "none"]
  /\ line = [w \in Window |-> <<>>]
  /\ pc = "idle" /\ partner = NoPartner /\ target = NoWindow /\ copy = {}
  /\ head = [w \in Window |-> NoWindow]
  /\ messages = 0 /\ lines = 0
  /\ crashed = FALSE /\ disturbed = FALSE /\ lost = {} /\ glued = {}

-----------------------------------------------------------------------------
(* The main thread: processChatMessage. *)

Listed == {w \in Window : \E p \in Partner : list[p] = w}

\* A message from p or the echo of one to p, and the call of isUserExist.
ReceiveChatMessage(p) ==
  /\ pc = "idle" /\ pc' = "check"
  /\ messages < MaxMessage /\ opened < MaxWindow   \* bound
  /\ messages' = messages + 1
  /\ partner' = p
  /\ copy' = Listed
  /\ UNCHANGED <<windows, process, threads, line, target, lines, fate, lost, glued>>

\* No window was deleted since the main thread got the list.
Intact == copy = Listed

\* isUserExist.
Check ==
  /\ pc = "check" /\ Intact
  /\ pc' = IF list[partner] = NoWindow THEN "create" ELSE "find"
  /\ target' = list[partner]
  /\ copy' = {}
  /\ UNCHANGED <<windows, process, threads, line, partner, messages, lines, fate,
                 lost, glued>>

\* Mutant: the thread is not told the partner's name.
CreateNameless ==
  /\ pc = "create" /\ pc' = "insert"
  /\ opened' = opened + 1
  /\ target' = opened + 1
  /\ copy' = Listed
  /\ UNCHANGED <<list, owner, process, threads, line, partner, messages, lines, fate,
                 lost, glued>>

\* socketpair, and the call of insertUser, which calls isUserExist again.
Create ==
  /\ pc = "create" /\ pc' = "insert"
  /\ opened' = opened + 1
  /\ target' = opened + 1
  /\ owner' = [owner EXCEPT ![opened + 1] = partner]
  /\ copy' = Listed
  /\ UNCHANGED <<list, process, threads, line, partner, messages, lines, fate,
                 lost, glued>>

\* Mutant: insertUser is forgotten.
InsertNot ==
  /\ pc = "insert" /\ Intact /\ pc' = "fork"
  /\ copy' = {}
  /\ UNCHANGED <<windows, process, threads, line, partner, target, messages, lines, fate,
                 lost, glued>>

\* Nobody else lists windows: the name is still not there.
InsertUser ==
  /\ pc = "insert" /\ Intact /\ pc' = "fork"
  /\ list' = [list EXCEPT ![partner] = target]
  /\ copy' = {}
  /\ UNCHANGED <<opened, owner, process, threads, line, partner, target, messages, lines,
                 fate, lost, glued>>

\* fork, and close of the other end.
Fork ==
  /\ pc = "fork" /\ pc' = "send"
  /\ process' = [process EXCEPT ![target] = "open"]
  /\ UNCHANGED <<windows, threads, line, partner, target, copy, messages, lines, fate,
                 lost, glued>>

\* The call of findUser.
Find ==
  /\ pc = "find" /\ pc' = "walk"
  /\ copy' = Listed
  /\ UNCHANGED <<windows, process, threads, line, partner, target, messages, lines, fate,
                 lost, glued>>

\* The window is deleted since the check: user->connfd of a null pointer.
FindNull ==
  /\ pc = "walk" /\ Intact
  /\ list[partner] = NoWindow
  /\ crashed' = TRUE
  /\ lost' = lost \cup {target}
  /\ UNCHANGED <<windows, process, threads, line, main, messages, lines, disturbed, glued>>

FindUser ==
  /\ pc = "walk" /\ Intact
  /\ list[partner] # NoWindow
  /\ pc' = "read"
  /\ target' = list[partner]
  /\ copy' = {}
  /\ UNCHANGED <<windows, process, threads, line, partner, messages, lines, fate,
                 lost, glued>>

\* user->connfd, without the lock.
ReadWindow ==
  /\ pc = "read" /\ target \in Listed
  /\ pc' = "send"
  /\ UNCHANGED <<windows, process, threads, line, partner, target, copy, messages, lines,
                 fate, lost, glued>>

\* A window was deleted since the list was copied or the window found: the walk
\* meets memory that was freed, or a null pointer.
Stray ==
  /\ \/ pc \in {"check", "insert", "walk"} /\ ~Intact
     \/ pc = "read" /\ target \notin Listed
  /\ disturbed' = TRUE
  /\ crashed' \in BOOLEAN
  /\ UNCHANGED <<windows, process, threads, line, main, messages, lines, lost, glued>>

\* Send fails if the thread has closed the descriptor. If it has not and the
\* process has ended, SIGPIPE kills the client.
Send ==
  /\ pc = "send"
  /\ pc' = IF thread[target] = "none" THEN "spawn" ELSE "idle"
  /\ crashed' = (process[target] = "ended" /\ thread[target] # "gone")
  /\ lost' = IF process[target] = "ended" \/ thread[target] = "gone" THEN lost \cup {target}
                                                                   ELSE lost
  /\ UNCHANGED <<windows, process, threads, line, partner, target, copy, messages, lines,
                 disturbed, glued>>

\* Mutant: the thread is not created.
SpawnNot ==
  /\ pc = "spawn" /\ pc' = "idle"
  /\ UNCHANGED <<windows, process, threads, line, partner, target, copy, messages, lines, fate,
                 lost, glued>>

Spawn ==
  /\ pc = "spawn" /\ pc' = "idle"
  /\ thread' = [thread EXCEPT ![target] = "recv"]
  /\ UNCHANGED <<windows, process, head, line, partner, target, copy, messages, lines, fate,
                 lost, glued>>

MainStep ==
  \/ Check \/ Create \/ InsertUser \/ Fork
  \/ Find \/ FindNull \/ FindUser \/ ReadWindow
  \/ Send \/ Spawn \/ Stray

-----------------------------------------------------------------------------
(* communicationThread of window w. *)

Took(w, n) ==
  /\ thread[w] = "recv" /\ n \in DOMAIN line[w]
  /\ line' = [line EXCEPT ![w] = SubSeq(@, n + 1, Len(@))]
  /\ UNCHANGED <<windows, process, head, main, messages, lines, fate, lost>>

\* Mutant: the thread ends after a line.
RelayOnce(w) ==
  /\ \E n \in DOMAIN line[w] :
       /\ n = 1 => line[w][1] = "text"
       /\ Took(w, n)
       /\ glued' = IF n > 1 /\ Contains(SubSeq(line[w], 1, n), "/close") THEN glued \cup {w}
                                                                       ELSE glued
  /\ thread' = [thread EXCEPT ![w] = "head"]

\* recv() returns one line or several, and they go to the server as one message.
Relay(w) ==
  /\ \E n \in DOMAIN line[w] :
       /\ n = 1 => line[w][1] = "text"
       /\ Took(w, n)
       /\ glued' = IF n > 1 /\ Contains(SubSeq(line[w], 1, n), "/close") THEN glued \cup {w}
                                                                       ELSE glued
  /\ UNCHANGED thread

\* What recv() returns is "/close" and nothing else.
ReadClose(w) ==
  /\ Took(w, 1) /\ line[w][1] = "/close"
  /\ thread' = [thread EXCEPT ![w] = "head"]
  /\ UNCHANGED glued

\* deleteUser reads the head of the list.
ReadHead(w) ==
  /\ thread[w] = "head"
  /\ thread' = [thread EXCEPT ![w] = "delete"]
  /\ \E first \in Listed : /\ \A other \in Listed : first <= other
                           /\ head' = [head EXCEPT ![w] = first]
  /\ UNCHANGED <<windows, process, line, main, messages, lines, fate, lost, glued>>

\* With the lock, it looks for the name from there.
DeleteUser(w) ==
  /\ thread[w] = "delete" /\ head[w] \in Listed
  /\ thread' = [thread EXCEPT ![w] = "close"]
  /\ head' = [head EXCEPT ![w] = NoWindow]
  /\ list' = [list EXCEPT ![owner[w]] = NoWindow]
  /\ UNCHANGED <<opened, owner, process, line, main, messages, lines, fate, lost, glued>>

\* Another thread has deleted the first window: the walk meets memory that was
\* freed, and may miss the name.
DeleteStray(w) ==
  /\ thread[w] = "delete" /\ head[w] \notin Listed
  /\ thread' = [thread EXCEPT ![w] = "close"]
  /\ head' = [head EXCEPT ![w] = NoWindow]
  /\ list' \in {list, [list EXCEPT ![owner[w]] = NoWindow]}
  /\ disturbed' = TRUE
  /\ crashed' \in BOOLEAN
  /\ UNCHANGED <<opened, owner, process, line, main, messages, lines, lost, glued>>

Close(w) ==
  /\ thread[w] = "close"
  /\ thread' = [thread EXCEPT ![w] = "gone"]
  /\ UNCHANGED <<windows, process, head, line, main, messages, lines, fate, lost, glued>>

ThreadStep(w) ==
  \/ Relay(w) \/ ReadClose(w)
  \/ ReadHead(w) \/ DeleteUser(w) \/ DeleteStray(w) \/ Close(w)

-----------------------------------------------------------------------------
(* The process of window w (Chat.c). *)

Put(w, text) ==
  /\ lines < MaxLine
  /\ lines' = lines + 1
  /\ line' = [line EXCEPT ![w] = Append(@, text)]
  /\ UNCHANGED <<windows, threads, main, messages, fate, lost, glued>>

TypeLine(w) ==
  /\ process[w] = "open"
  /\ Put(w, "text")
  /\ UNCHANGED process

TypeClose(w) ==
  /\ process[w] = "open"
  /\ Put(w, "/close")
  /\ process' = [process EXCEPT ![w] = "closing"]

\* SIGINT or SIGHUP, also after "/close" was typed.
Signal(w) ==
  /\ process[w] \in {"open", "closing"}
  /\ Put(w, "/close")
  /\ process' = [process EXCEPT ![w] = "ended"]

Exit(w) ==
  /\ process[w] = "closing"
  /\ process' = [process EXCEPT ![w] = "ended"]
  /\ UNCHANGED <<windows, threads, line, main, messages, lines, fate, lost, glued>>

\* Killed, or never executed: the thread will read empty messages for ever.
Kill(w) ==
  /\ process[w] = "open"
  /\ process' = [process EXCEPT ![w] = "ended"]
  /\ glued' = glued \cup {w}
  /\ UNCHANGED <<windows, threads, line, main, messages, lines, fate, lost>>

\* Bound: a client whose list is damaged is not followed.
Alive == ~crashed /\ ~disturbed

Next ==
  /\ Alive
  /\ \/ \E p \in Partner : ReceiveChatMessage(p)
     \/ MainStep
     \/ \E w \in Window :
          \/ ThreadStep(w)
          \/ TypeLine(w) \/ TypeClose(w) \/ Signal(w) \/ Exit(w) \/ Kill(w)

\* The threads of the client run. Nobody has to type or to write.
Fairness ==
  /\ WF_vars(Alive /\ MainStep)
  /\ \A w \in Window : WF_vars(Alive /\ ThreadStep(w))

Spec == Init /\ [][Next]_vars
FairSpec == Spec /\ Fairness

-----------------------------------------------------------------------------
(* Type invariant: every window that was opened has its partner, also when *)
(* its thread has still to be told (processChatMessage).                   *)
TypeOK ==
  /\ list \in [Partner -> {NoWindow} \cup Window]
  /\ opened \in 0 .. MaxWindow
  /\ owner \in [Window -> Partner \cup {NoPartner}]
  /\ \A w \in Window : owner[w] = NoPartner <=> w > opened
  /\ process \in [Window -> {"none", "open", "closing", "ended"}]
  /\ thread \in [Window -> {"none", "recv", "head", "delete", "close", "gone"}]
  /\ head \in [Window -> {NoWindow} \cup Window]
  /\ line \in [Window -> Seq({"text", "/close"})]
  /\ pc \in {"idle", "check", "create", "insert", "fork", "send", "spawn", "find", "walk",
             "read"}
  /\ partner \in Partner \cup {NoPartner}
  /\ target \in {NoWindow} \cup 1 .. opened /\ copy \subseteq Window
  /\ messages \in 0 .. MaxMessage /\ lines \in 0 .. MaxLine
  /\ crashed \in BOOLEAN /\ disturbed \in BOOLEAN
  /\ lost \subseteq Window /\ glued \subseteq Window

\* The main thread is about to create the thread of w.
Starting(w) == pc \in {"fork", "send", "spawn"} /\ w = target /\ thread[w] = "none"

(* A partner is listed exactly as long as a thread reads that partner's    *)
(* window, the one at hand while it is being opened included: a thread that *)
(* deletes its partner by name never deletes a newer window of that name.  *)
(* Only a deletion in the middle of another search of the list can leave a *)
(* window there whose thread is gone.                                      *)
OneWindowEach ==
  ~disturbed =>
    \A w \in 1 .. opened :
      list[owner[w]] = w <=> thread[w] \in {"recv", "head", "delete"} \/ Starting(w)

(* A message is lost, or kills the client, only if the window it was for   *)
(* is about to close or has ended; otherwise the client dies only of a     *)
(* deletion in the middle of another search of the list.                   *)
LostToClosing ==
  /\ \A w \in lost : process[w] \in {"closing", "ended"}
  /\ crashed => lost # {} \/ disturbed

(* A window that is closed leaves the list, and its thread ends, unless    *)
(* "/close" was read together with another line or was never sent, or a    *)
(* window was deleted in the middle of another search of the list.         *)
ClosedUnlisted ==
  \A w \in Window :
    (process[w] \in {"closing", "ended"}) ~>
      \/ thread[w] = "gone" /\ \A p \in Partner : list[p] # w
      \/ w \in glued \/ crashed \/ disturbed
=============================================================================
