----------------------------- MODULE Messaging ------------------------------
(***************************************************************************)
(* Clients and the communication thread, once the clients are logged in:   *)
(* TIME, LISTU, MSG and BYE, their answers, and what the server sends      *)
(* unasked (chat messages, UOFF, ERR 01). A connection is a queue of       *)
(* messages each way. A client's recv() may return several of them, and    *)
(* its Recv keeps the later ones in localBuffer. The server's may, too:    *)
(* the model ends there, for what its Recv, one buffer for all clients,    *)
(* makes of that is in module Framing. A user's name stands for its        *)
(* connection.                                                             *)
(***************************************************************************)
EXTENDS Integers, SequencesExt

CONSTANTS User,
          MaxSend   \* bound: how many requests clients send together

ASSUME MaxSendAssumption == MaxSend \in Nat

NoChat == <<>>

VARIABLES listed,       \* the users in the server's list
          conn,         \* each connection, as the server's end sees it
          up, down,     \* the messages to the server and to the client
          crashed,      \* the server is dead
          uneven,       \* history: the server's recv() returned several messages,
                        \* or a part of one
          localBuffer,  \* what each client has received and not looked at
          pc,           \* where the main loop of each client is
          readable,     \* clientfd is in readySet
          sends,        \* requests so far
          shown,        \* history: the chat messages each client has shown
          missed,       \* history: clients that did not show one they were sent
          cut,          \* history: clients that lost bytes after a zero byte
          abrupt,       \* history: clients that were killed, or took another message
                        \* for the answer to a command
          clean,        \* history: nothing but the answer can come to the command
          answer        \* history: a clean command and what it got

fate == <<crashed, uneven>>
server == <<listed, conn, fate>>
client == <<localBuffer, pc, readable>>
history == <<shown, missed, cut, abrupt, clean, answer>>
vars == <<server, up, down, client, sends, history>>

Message(kind) == [kind |-> kind, chat |-> NoChat]
ChatMessage(chat) == [kind |-> "MSG", chat |-> chat]

Init ==
  /\ listed = {} /\ conn = [c \in User |-> "none"]
  /\ up = [c \in User |-> <<>>] /\ down = [c \in User |-> <<>>]
  /\ crashed = FALSE /\ uneven = FALSE
  /\ localBuffer = [c \in User |-> <<>>]
  /\ pc = [c \in User |-> "login"]
  /\ readable = [c \in User |-> FALSE]
  /\ sends = 0
  /\ shown = [c \in User |-> <<>>]
  /\ missed = {} /\ cut = {} /\ abrupt = {}
  /\ clean = [c \in User |-> FALSE]
  /\ answer = [c \in User |-> NoChat]

\* c has been greeted, listed and registered, and has read MOTD.
Login(c) ==
  /\ pc[c] = "login"
  /\ pc' = [pc EXCEPT ![c] = "select"]
  /\ conn' = [conn EXCEPT ![c] = "open"]
  /\ listed' = listed \cup {c}
  /\ UNCHANGED <<fate, up, down, localBuffer, readable, sends, history>>

-----------------------------------------------------------------------------
(* The communication thread. A handler is one step: only this thread sends  *)
(* to listed clients.                                                       *)

\* send() to a client that has closed its end brings back a reset; send() on
\* a connection that was reset fails, and may kill the server with SIGPIPE.
SendAll(to, message(_)) ==
  /\ down' = [c \in User |-> IF c \in to /\ conn[c] = "open" THEN down[c] \o <<message(c)>>
                                                            ELSE down[c]]
  /\ \E dead \in BOOLEAN :
       /\ dead => \E c \in to : conn[c] = "reset"
       /\ crashed' = dead
  /\ clean' = [c \in User |->
                 clean[c] /\ (c \in to => message(c).kind \in {"EMIT", "UTSIL", "BYE"})]

\* The connections after this, some of those that were closed being reset.
AfterSend(to, connection) ==
  \E hit \in SUBSET {c \in to : conn[c] = "closed"} :
    conn' = [c \in User |-> IF c \in hit /\ connection[c] = "closed" THEN "reset"
                                                                    ELSE connection[c]]

\* Recv returns the next message of c, just what recv() has taken.
Receive(c, kind) ==
  /\ conn[c] \in {"open", "closed", "reset"}
  /\ up[c] # <<>> /\ Head(up[c]).kind = kind
  /\ UNCHANGED <<uneven, client, sends, shown, missed, cut, abrupt, answer>>

\* Mutant: the request is sent back.
AnswerEcho(c, kind, reply) ==
  /\ Receive(c, kind)
  /\ up' = [up EXCEPT ![c] = Tail(@)]
  /\ SendAll({c}, LAMBDA d : Message(kind))
  /\ AfterSend({c}, conn)
  /\ UNCHANGED listed

\* Mutant: everybody gets the answer.
AnswerAll(c, kind, reply) ==
  /\ Receive(c, kind)
  /\ up' = [up EXCEPT ![c] = Tail(@)]
  /\ SendAll(listed, LAMBDA d : Message(reply))
  /\ AfterSend(listed, conn)
  /\ UNCHANGED listed

Answer(c, kind, reply) ==
  /\ Receive(c, kind)
  /\ up' = [up EXCEPT ![c] = Tail(@)]
  /\ SendAll({c}, LAMBDA d : Message(reply))
  /\ AfterSend({c}, conn)
  /\ UNCHANGED listed

ReceiveTimeMessage(c) == Answer(c, "TIME", "EMIT")

ReceiveListuMessage(c) == Answer(c, "LISTU", "UTSIL")

\* Mutant: the sender is forgotten.
ReceiveChatMessageTo(c) ==
  LET chat == Head(up[c]).chat
      to == {chat.to} \cap listed
  IN  /\ Receive(c, "MSG")
      /\ up' = [up EXCEPT ![c] = Tail(@)]
      /\ SendAll(to, LAMBDA d : ChatMessage(chat))
      /\ AfterSend(to, conn)
      /\ UNCHANGED listed

\* To both users, or ERR 01, which has a zero byte behind it for the sender.
ReceiveChatMessage(c) ==
  LET chat == Head(up[c]).chat
      to == {chat.to, chat.from} \cap listed
      reply(d) == IF chat.to # chat.from /\ to = {chat.to, chat.from} THEN ChatMessage(chat)
                  ELSE Message(IF d = chat.from THEN "ERR0" ELSE "ERR")
  IN  /\ Receive(c, "MSG")
      /\ up' = [up EXCEPT ![c] = Tail(@)]
      /\ SendAll(to, reply)
      /\ AfterSend(to, conn)
      /\ UNCHANGED listed

\* BYE to the sender, UOFF to those that are still listed, and close.
ReceiveByeMessage(c) ==
  /\ Receive(c, "BYE")
  /\ up' = [up EXCEPT ![c] = <<>>]
  /\ listed' = listed \ {c}
  /\ SendAll(listed \cup {c}, LAMBDA d : Message(IF d = c THEN "BYE" ELSE "UOFF"))
  /\ AfterSend(listed, [conn EXCEPT ![c] = "done"])

\* recv() returns -1, and Recv follows a null pointer. (It returns 0 for a
\* closed connection, which is ignored.)
ReceiveReset(c) ==
  /\ conn[c] = "reset" /\ up[c] = <<>>
  /\ crashed' = TRUE
  /\ UNCHANGED <<listed, conn, up, down, uneven, client, sends, history>>

\* recv() takes up to MAX_LEN bytes: several messages of c, or a part of one. A
\* chat message is sent with zero bytes up to MAX_LEN; those that recv() leaves
\* behind are an empty string to the next Recv, which follows a null pointer.
ReceiveUneven(c) ==
  /\ conn[c] \in {"open", "closed", "reset"}
  /\ up[c] # <<>>
  /\ uneven' = TRUE
  /\ crashed' \in BOOLEAN
  /\ UNCHANGED <<listed, conn, up, down, client, sends, history>>

Handle(c) ==
  \/ ReceiveTimeMessage(c) \/ ReceiveListuMessage(c)
  \/ ReceiveChatMessage(c) \/ ReceiveByeMessage(c)
  \/ ReceiveReset(c) \/ ReceiveUneven(c)

-----------------------------------------------------------------------------
(* Client c. Its user types, its windows send at any time. *)

Online == {c \in User : pc[c] \notin {"login", "gone"}}

Request(c, message) ==
  /\ sends < MaxSend
  /\ sends' = sends + 1
  /\ up' = [up EXCEPT ![c] = Append(@, message)]

Goto(c, to) == pc' = [pc EXCEPT ![c] = to]

\* Nothing is on its way to c.
Quiet(c) == up[c] = <<>> /\ down[c] = <<>> /\ localBuffer[c] = <<>>

\* Mutant: clientfd is looked up in the set that was given to select.
TypeAlwaysReadable(c, command) ==
  /\ pc[c] = "select"
  /\ Request(c, Message(command))
  /\ Goto(c, command)
  /\ readable' = [readable EXCEPT ![c] = TRUE]
  /\ clean' = [clean EXCEPT ![c] = Quiet(c)]
  /\ UNCHANGED <<server, down, localBuffer, shown, missed, cut, abrupt, answer>>

\* select returns with a command, and maybe with messages to be read after it.
Type(c, command) ==
  /\ pc[c] = "select"
  /\ Request(c, Message(command))
  /\ Goto(c, command)
  /\ readable' = [readable EXCEPT ![c] = (down[c] # <<>>)]
  /\ clean' = [clean EXCEPT ![c] = Quiet(c)]
  /\ UNCHANGED <<server, down, localBuffer, shown, missed, cut, abrupt, answer>>

\* SIGINT, outside of a logout: as /logout, but the handler exits.
Interrupt(c) ==
  /\ pc[c] \in {"select", "receive", "TIME", "LISTU"}
  /\ Request(c, Message("BYE"))
  /\ Goto(c, "interrupted")
  /\ clean' = [clean EXCEPT ![c] = FALSE]
  /\ UNCHANGED <<server, down, localBuffer, readable, shown, missed, cut, abrupt, answer>>

\* A line typed in a window, or /chat. (/chat is typed when select returns, but
\* nothing is different if messages are read by the next select.)
SendChat(c, to) ==
  /\ c \in Online /\ conn[c] = "open"
  /\ Request(c, ChatMessage([from |-> c, to |-> to, no |-> sends + 1]))
  /\ UNCHANGED <<server, down, client, history>>

Wake(c) ==
  /\ pc[c] = "select" /\ down[c] # <<>>
  /\ Goto(c, "receive")
  /\ UNCHANGED <<server, up, down, localBuffer, readable, sends, history>>

\* What Recv may find: what is in localBuffer, or else some of the messages
\* that have come, up to the first zero byte.
Received(c) ==
  LET zeros == {i \in DOMAIN down[c] : down[c][i].kind = "ERR0"}
      kept(n) == Min({n} \cup zeros)
  IN  IF localBuffer[c] # <<>>
      THEN {[got |-> localBuffer[c], left |-> down[c], lost |-> <<>>]}
      ELSE {[got |-> SubSeq(down[c], 1, kept(n)),
             left |-> SubSeq(down[c], n + 1, Len(down[c])),
             lost |-> SubSeq(down[c], kept(n) + 1, n)] : n \in DOMAIN down[c]}

HasChat(messages) == \E i \in DOMAIN messages : messages[i].kind = "MSG"

\* Recv returns the first message of r.got to a command or to receiveMessage.
Recv(c, r, toCommand) ==
  /\ localBuffer' = [localBuffer EXCEPT ![c] = Tail(r.got)]
  /\ down' = [down EXCEPT ![c] = r.left]
  /\ cut' = IF r.lost # <<>> THEN cut \cup {c} ELSE cut
  /\ missed' = IF HasChat(r.lost) \/ (toCommand /\ HasChat(SubSeq(r.got, 1, 1)))
               THEN missed \cup {c} ELSE missed
  /\ UNCHANGED <<listed, fate, up, readable, sends>>

\* The process ends, with unread bytes in its socket or without.
Leave(c, unread) ==
  /\ Goto(c, "gone")
  /\ conn' = [conn EXCEPT ![c] = IF @ = "done" THEN @
                                 ELSE IF unread THEN "reset" ELSE "closed"]

\* A command of c took a message of this kind for its answer.
Took(c, kind, right) ==
  /\ abrupt' = IF kind \in right THEN abrupt ELSE abrupt \cup {c}
  /\ answer' = [answer EXCEPT ![c] = IF clean[c] THEN <<pc[c], kind>> ELSE @]

\* timeCommand and listuCommand take whatever comes for the answer.
CommandAnswer(c) ==
  /\ pc[c] \in {"TIME", "LISTU"}
  /\ \E r \in Received(c) :
       /\ Recv(c, r, TRUE)
       /\ Took(c, Head(r.got).kind, IF pc[c] = "TIME" THEN {"EMIT"} ELSE {"UTSIL"})
  /\ Goto(c, IF readable[c] THEN "receive" ELSE "select")
  /\ UNCHANGED <<conn, shown, clean>>

\* After /logout the loop still reads a message if select had reported one;
\* the handler of SIGINT exits.
LogoutEnd(c, r) ==
  IF pc[c] = "BYE" /\ readable[c] THEN Goto(c, "last") /\ UNCHANGED conn
                                   ELSE Leave(c, r.left # <<>>)

\* Mutant: logoutCommand takes the next message, UOFF or not.
LogoutAnswerOnce(c) ==
  /\ pc[c] \in {"BYE", "interrupted"}
  /\ \E r \in Received(c) :
       /\ Recv(c, r, TRUE)
       /\ Took(c, Head(r.got).kind, {"UOFF", "BYE"})
       /\ LogoutEnd(c, r)
  /\ UNCHANGED <<shown, clean>>

\* logoutCommand takes anything but UOFF for the answer.
LogoutAnswer(c) ==
  /\ pc[c] \in {"BYE", "interrupted"}
  /\ \E r \in Received(c) :
       /\ Recv(c, r, TRUE)
       /\ \/ /\ Head(r.got).kind = "UOFF"
             /\ UNCHANGED <<pc, conn, abrupt, answer>>
          \/ /\ Head(r.got).kind # "UOFF"
             /\ Took(c, Head(r.got).kind, {"BYE"})
             /\ LogoutEnd(c, r)
  /\ UNCHANGED <<shown, clean>>

ReceiveMessage(c) ==
  /\ pc[c] \in {"receive", "last"}
  /\ \E r \in Received(c) :
       /\ Recv(c, r, FALSE)
       /\ shown' = IF Head(r.got).kind # "MSG" THEN shown
                   ELSE [shown EXCEPT ![c] = Append(@, Head(r.got).chat)]
       /\ IF pc[c] = "receive" THEN Goto(c, "select") /\ UNCHANGED conn
          ELSE Leave(c, r.left # <<>>)
  /\ UNCHANGED <<abrupt, clean, answer>>

\* The server has closed the connection: Recv returns an empty message.
ReceiveEnd(c) ==
  /\ pc[c] \in {"BYE", "interrupted", "last"}
  /\ conn[c] = "done" /\ down[c] = <<>> /\ localBuffer[c] = <<>>
  /\ Leave(c, FALSE)
  /\ UNCHANGED <<listed, fate, up, down, localBuffer, readable, sends, shown, missed,
                 cut, abrupt, clean, answer>>

\* The client is killed.
Vanish(c) ==
  /\ c \in Online
  /\ Leave(c, down[c] # <<>>)
  /\ abrupt' = abrupt \cup {c}
  /\ UNCHANGED <<listed, fate, up, down, localBuffer, readable, sends, shown, missed,
                 cut, clean, answer>>

ClientStep(c) ==
  \/ Wake(c) \/ CommandAnswer(c) \/ LogoutAnswer(c) \/ ReceiveMessage(c) \/ ReceiveEnd(c)

\* Bound: the server is not followed past an uneven receipt.
Alive == ~crashed /\ ~uneven

Next ==
  /\ Alive
  /\ \E c \in User :
       \/ Login(c) \/ Interrupt(c) \/ Vanish(c)
       \/ \E command \in {"TIME", "LISTU", "BYE"} : Type(c, command)
       \/ \E to \in User : SendChat(c, to)
       \/ ClientStep(c) \/ Handle(c)

\* Every client process runs, and the communication thread comes to every
\* connection again (Handled in Framing). No user is fair.
Fairness ==
  \A c \in User : WF_vars(Alive /\ ClientStep(c)) /\ WF_vars(Alive /\ Handle(c))

Spec == Init /\ [][Next]_vars
FairSpec == Spec /\ Fairness

-----------------------------------------------------------------------------
(* Type invariant: the server is sent requests only, and a client answers, *)
(* chat messages, UOFF and ERR 01 only.                                    *)
TypeOK ==
  LET chats == [from : User, to : User, no : 1 .. MaxSend]
      plain(kinds) == [kind : kinds, chat : {NoChat}]
      message(kinds) == plain(kinds) \cup [kind : {"MSG"}, chat : chats]
      request == message({"TIME", "LISTU", "BYE"})
      reply == message({"EMIT", "UTSIL", "BYE", "UOFF", "ERR", "ERR0"})
  IN  /\ listed \subseteq User
      /\ conn \in [User -> {"none", "open", "closed", "reset", "done"}]
      /\ up \in [User -> Seq(request)]
      /\ down \in [User -> Seq(reply)] /\ localBuffer \in [User -> Seq(reply)]
      /\ pc \in [User -> {"login", "select", "receive", "last", "interrupted", "gone",
                          "TIME", "LISTU", "BYE"}]
      /\ readable \in [User -> BOOLEAN]
      /\ crashed \in BOOLEAN /\ uneven \in BOOLEAN
      /\ sends \in 0 .. MaxSend
      /\ shown \in [User -> Seq(chats)]
      /\ missed \cup cut \cup abrupt \subseteq User
      /\ clean \in [User -> BOOLEAN]

\* Where c has shown the messages of its conversation with d.
Between(c, d) == {i \in DOMAIN shown[c] : {shown[c][i].from, shown[c][i].to} = {c, d}}

\* What c has shown of it, d has shown, with everything that d showed before.
Beginning(c, d) ==
  \A i \in Between(c, d) :
    \E k \in Between(d, c) :
      /\ shown[d][k] = shown[c][i]
      /\ \A l \in Between(d, c) :
           l < k => \E j \in Between(c, d) : j < i /\ shown[c][j] = shown[d][l]

(* Two clients never show two messages of their conversation in different  *)
(* orders, nor those of one sender out of order; and if neither missed one, *)
(* what one has shown is the beginning of what the other has shown or will. *)
SameConversation ==
  \A c, d \in User :
    c # d =>
      /\ \A i, j \in Between(c, d) :
           i < j /\ shown[c][i].from = shown[c][j].from => shown[c][i].no < shown[c][j].no
      /\ \A i, j \in Between(c, d), k, l \in Between(d, c) :
           i < j /\ shown[c][i] = shown[d][k] /\ shown[c][j] = shown[d][l] => k < l
      /\ {c, d} \cap missed = {} => Beginning(c, d) \/ Beginning(d, c)

(* A command gets its own answer if nothing was on its way to the client   *)
(* when it was typed and the server sent it nothing else meanwhile.        *)
OwnAnswer ==
  \A c \in User :
    answer[c] \in {NoChat, <<"TIME", "EMIT">>, <<"LISTU", "UTSIL">>, <<"BYE", "BYE">>}

(* The server does not die of clients that come and go: as long as none is *)
(* killed, no command takes another message for its answer, and the server *)
(* receives one message at a time, every client that logs out has read all *)
(* it was sent, and its connection is not reset.                           *)
DiesOfAbrupt == crashed => abrupt # {} \/ uneven

(* A client always gets back to its prompt or ends, whatever it has taken  *)
(* for an answer, unless the zero byte behind an ERR 01 hid messages, or   *)
(* the server has received several messages at once.                       *)
BackToPrompt ==
  \A c \in User :
    (c \in Online) ~> (pc[c] \in {"select", "gone"} \/ c \in cut \/ crashed \/ uneven)
=============================================================================
