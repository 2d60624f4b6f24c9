--------------------------- MODULE MessagingProofs ---------------------------
(***************************************************************************)
(* Proofs about the requests of the clients and their answers (Messaging): *)
(* what kills the server, and that a command gets its own answer unless    *)
(* something else could come to the client meanwhile; then, that two       *)
(* clients show the same conversation.                                     *)
(*                                                                         *)
(* The handlers of the communication thread have one description, Handled: *)
(* whom a handler sends what. The invariant is proved of that once, and    *)
(* of each step of the client.                                             *)
(***************************************************************************)
EXTENDS Messaging, SequenceTheorems, FiniteSetTheorems, TLAPS

(* A set of natural numbers has a least element. *)
LEMMA Least ==
  ASSUME NEW T \in SUBSET Nat, T # {}
  PROVE  \E m \in T : \A k \in T : m <= k
<1>1. IsWellFoundedOn(OpToRel(<, Nat), Nat)
  BY NatLessThanWellFounded, Zenon
<1>2. PICK m \in T : \A k \in T : ~(<<k, m>> \in OpToRel(<, Nat))
  BY <1>1, WFMin, Zenon
<1>3. \A k \in T : k < m => <<k, m>> \in OpToRel(<, Nat)
  BY Zenon DEF OpToRel
<1>4. \A k \in T : ~(k < m)
  BY <1>2, <1>3, Zenon
<1> QED
  BY <1>4

\* The chat messages: who wrote to whom, and the number of the message.
Chats == [from : User, to : User, no : 1 .. MaxSend]

\* The messages of some kinds, and the chat messages.
Messages(kinds) == [kind : kinds, chat : {NoChat}] \cup [kind : {"MSG"}, chat : Chats]

\* What a client sends to the server.
Requests == Messages({"TIME", "LISTU", "BYE"})

\* What the server sends to a client.
Replies == Messages({"EMIT", "UTSIL", "BYE", "UOFF", "ERR", "ERR0"})

\* TypeOK, with names for its sets of records.
Types ==
  /\ listed \subseteq User
  /\ conn \in [User -> {"none", "open", "closed", "reset", "done"}]
  /\ up \in [User -> Seq(Requests)]
  /\ down \in [User -> Seq(Replies)] /\ localBuffer \in [User -> Seq(Replies)]
  /\ pc \in [User -> {"login", "select", "receive", "last", "interrupted", "gone",
                      "TIME", "LISTU", "BYE"}]
  /\ readable \in [User -> BOOLEAN]
  /\ crashed \in BOOLEAN /\ uneven \in BOOLEAN
  /\ sends \in 0 .. MaxSend
  /\ shown \in [User -> Seq(Chats)]
  /\ missed \cup cut \cup abrupt \subseteq User
  /\ clean \in [User -> BOOLEAN]

(* Types is TypeOK. *)
LEMMA TypesAreOK == Types <=> TypeOK
BY DEF Types, TypeOK, Requests, Replies, Messages, Chats

(* Of which kinds the requests and the replies are. *)
LEMMA MessageFacts ==
  /\ \A kind \in {"TIME", "LISTU", "BYE"} : Message(kind) \in Requests /\ Message(kind).kind = kind
  /\ \A kind \in {"EMIT", "UTSIL", "BYE", "UOFF", "ERR", "ERR0"} :
       Message(kind) \in Replies /\ Message(kind).kind = kind
  /\ \A chat \in Chats : /\ ChatMessage(chat) \in Requests /\ ChatMessage(chat) \in Replies
                         /\ ChatMessage(chat).kind = "MSG"
  /\ \A m \in Requests : /\ m.kind \in {"TIME", "LISTU", "BYE", "MSG"}
                         /\ m.kind = "MSG" => m.chat \in Chats
  /\ \A m \in Replies : /\ m.kind \in {"EMIT", "UTSIL", "BYE", "UOFF", "ERR", "ERR0", "MSG"}
                        /\ m.kind = "MSG" => m.chat \in Chats
BY DEF Message, ChatMessage, Requests, Replies, Messages

(* A part of a sequence. *)
LEMMA PartOf ==
  ASSUME NEW S, NEW s \in Seq(S), NEW m \in Nat, NEW n \in Nat, m <= n, n <= Len(s)
  PROVE  /\ SubSeq(s, m + 1, n) \in Seq(S) /\ Len(SubSeq(s, m + 1, n)) = n - m
         /\ \A i \in 1 .. n - m : SubSeq(s, m + 1, n)[i] = s[m + i] /\ m + i \in 1 .. Len(s)
<1> QED
  OBVIOUS

(* Recv finds a message, and all it finds or leaves was in localBuffer or had come. *)
LEMMA ReceivedFrom ==
  ASSUME Types, NEW c \in User, NEW r \in Received(c)
  PROVE  /\ r.got \in Seq(Replies) /\ r.got # <<>> /\ r.left \in Seq(Replies)
         /\ \A i \in 1 .. Len(r.got) : \/ \E j \in 1 .. Len(localBuffer[c]) : r.got[i] = localBuffer[c][j]
                                       \/ \E j \in 1 .. Len(down[c]) : r.got[i] = down[c][j]
         /\ \A i \in 1 .. Len(r.left) : \E j \in 1 .. Len(down[c]) : r.left[i] = down[c][j]
         /\ localBuffer[c] = <<>> => down[c] # <<>> /\ r.got[1] = down[c][1]
         /\ localBuffer[c] = <<>> /\ Len(down[c]) = 1 => r.left = <<>>
<1>1. /\ localBuffer[c] \in Seq(Replies) /\ down[c] \in Seq(Replies)
      /\ Len(down[c]) \in Nat /\ DOMAIN down[c] = 1 .. Len(down[c])
      /\ \A i \in 1 .. Len(down[c]) : down[c][i] \in Replies
  BY DEF Types
<1>2. CASE localBuffer[c] # <<>>
  <2>1. r = [got |-> localBuffer[c], left |-> down[c], lost |-> <<>>]
    BY <1>2 DEF Received
  <2>2. r.got = localBuffer[c] /\ r.left = down[c]
    BY <2>1
  <2> QED
    BY <1>1, <1>2, <2>2
<1>3. CASE localBuffer[c] = <<>>
  <2> DEFINE zeros == {i \in DOMAIN down[c] : down[c][i].kind = "ERR0"}
             kept(n) == Min({n} \cup zeros)
  <2>1. PICK n \in DOMAIN down[c] :
          r = [got |-> SubSeq(down[c], 1, kept(n)),
               left |-> SubSeq(down[c], n + 1, Len(down[c])),
               lost |-> SubSeq(down[c], kept(n) + 1, n)]
    BY <1>3 DEF Received
  <2>2. kept(n) \in 1 .. n /\ n \in 1 .. Len(down[c])
    <3> DEFINE T == {n} \cup zeros
    <3>1. T \in SUBSET Nat /\ T # {} /\ n \in T /\ \A i \in T : i >= 1
      BY <1>1
    <3>2. \E m \in T : \A k \in T : m <= k
      BY <3>1, Least
    <3> HIDE DEF T
    <3>3. Min(T) \in T /\ \A k \in T : Min(T) <= k
      BY <3>2, Zenon DEF Min
    <3> QED
      BY <1>1, <3>3 DEF T
  <2> HIDE DEF kept
  <2>3. r.got = SubSeq(down[c], 1, kept(n)) /\ r.left = SubSeq(down[c], n + 1, Len(down[c]))
    BY <2>1
  <2>4. /\ r.got \in Seq(Replies) /\ Len(r.got) = kept(n)
        /\ \A i \in 1 .. kept(n) : r.got[i] = down[c][i] /\ i \in 1 .. Len(down[c])
    <3>1. 0 \in Nat /\ kept(n) \in Nat /\ 0 <= kept(n) /\ kept(n) <= Len(down[c]) /\ 0 + 1 = 1
      BY <2>2
    <3>2. /\ SubSeq(down[c], 0 + 1, kept(n)) \in Seq(Replies)
          /\ Len(SubSeq(down[c], 0 + 1, kept(n))) = kept(n) - 0
          /\ \A i \in 1 .. kept(n) - 0 :
               SubSeq(down[c], 0 + 1, kept(n))[i] = down[c][0 + i] /\ 0 + i \in 1 .. Len(down[c])
      BY <1>1, <3>1
    <3> QED
      BY <2>3, <3>2
  <2>5. /\ r.left \in Seq(Replies) /\ Len(r.left) = Len(down[c]) - n
        /\ \A i \in 1 .. Len(r.left) : r.left[i] = down[c][n + i] /\ n + i \in 1 .. Len(down[c])
    <3>1. n \in Nat /\ n <= Len(down[c])
      BY <1>1
    <3>2. /\ SubSeq(down[c], n + 1, Len(down[c])) \in Seq(Replies)
          /\ Len(SubSeq(down[c], n + 1, Len(down[c]))) = Len(down[c]) - n
          /\ \A i \in 1 .. Len(down[c]) - n :
               /\ SubSeq(down[c], n + 1, Len(down[c]))[i] = down[c][n + i]
               /\ n + i \in 1 .. Len(down[c])
      BY <1>1, <3>1
    <3> QED
      BY <2>3, <3>2
  <2>6. r.got # <<>> /\ down[c] # <<>> /\ r.got[1] = down[c][1]
    BY <2>2, <2>4
  <2>7. Len(down[c]) = 1 => r.left = <<>>
    BY <2>5
  <2> QED
    BY <1>3, <2>4, <2>5, <2>6, <2>7
<1> QED
  BY <1>2, <1>3

-----------------------------------------------------------------------------
\* The commands that wait for an answer.
Command == {"TIME", "LISTU", "BYE"}

\* The answer to a command.
Reply(kind) == CASE kind = "TIME" -> "EMIT" [] kind = "LISTU" -> "UTSIL" [] OTHER -> "BYE"

\* One of the messages is of one of the kinds.
HasKind(messages, kinds) == \E i \in 1 .. Len(messages) : messages[i].kind \in kinds

\* How far a client's connection is when the client is at a label.
Ends ==
  \A c \in User :
    /\ pc[c] = "login" => conn[c] = "none"
    /\ pc[c] \notin {"login", "gone"} => conn[c] \in {"open", "done"}
    /\ pc[c] = "interrupted" => ~clean[c]

\* A client has got BYE only after the server has closed its connection.
ByeRead ==
  \A c \in User :
    HasKind(down[c], {"BYE"}) \/ HasKind(localBuffer[c], {"BYE"}) => conn[c] = "done"

\* While every client leaves with BYE, no connection ends but by BYE.
Orderly ==
  abrupt = {} =>
    /\ ~crashed \/ uneven
    /\ \A c \in User : /\ conn[c] \notin {"closed", "reset"}
                       /\ pc[c] = "last" => conn[c] = "done"

\* There are chat messages only.
Chatting(messages) == \A i \in 1 .. Len(messages) : messages[i].kind = "MSG"

\* While nothing else can come to a command, its request or its answer, and
\* never both, is on the way.
CleanCommand ==
  \A c \in User : clean[c] /\ pc[c] \in Command =>
    /\ localBuffer[c] = <<>>
    /\ \/ /\ down[c] = <<>> /\ up[c] # <<>>
          /\ Head(up[c]).kind = pc[c] /\ Chatting(Tail(up[c]))
       \/ /\ Len(down[c]) = 1 /\ down[c][1].kind = Reply(pc[c])
          /\ Chatting(up[c])

\* The inductive invariant.
MInv == Types /\ Ends /\ ByeRead /\ Orderly /\ CleanCommand /\ OwnAnswer

-----------------------------------------------------------------------------
\* The answers to commands.
Answering == {"EMIT", "UTSIL", "BYE"}

\* Nothing but a chat message is passed on: the request, to both of its parties, who
\* are listed. Nobody is listed anew.
Delivered(c, to, f) ==
  /\ listed' \subseteq listed
  /\ \/ \A d \in to : f[d].chat = NoChat
     \/ /\ Head(up[c]).kind = "MSG"
        /\ to = {Head(up[c]).chat.from, Head(up[c]).chat.to} /\ to \subseteq listed
        /\ \A d \in to : f[d].chat = Head(up[c]).chat

\* The handler of c's next message sends f[d] to each d in to.
Handled(c, to, f) ==
  /\ to \subseteq User /\ f \in [User -> Replies]
  /\ conn[c] \in {"open", "closed", "reset"} /\ up[c] # <<>>
  /\ UNCHANGED <<uneven, client, sends, shown, missed, cut, abrupt, answer>>
  /\ Delivered(c, to, f)
  /\ up' = [up EXCEPT ![c] = IF Head(up[c]).kind = "BYE" THEN <<>> ELSE Tail(up[c])]
  /\ down' = [d \in User |-> IF d \in to /\ conn[d] = "open" THEN down[d] \o <<f[d]>> ELSE down[d]]
  /\ clean' = [d \in User |-> clean[d] /\ (d \in to => f[d].kind \in Answering)]
  /\ crashed' \in BOOLEAN /\ (crashed' => \E d \in to : conn[d] = "reset")
  /\ conn' \in [User -> {"none", "open", "closed", "reset", "done"}]
  /\ \A d \in User : \/ conn'[d] = conn[d]
                     \/ conn[d] = "closed" /\ conn'[d] = "reset"
                     \/ d = c /\ Head(up[c]).kind = "BYE" /\ conn'[d] = "done"
  /\ \A d \in to : f[d].kind \in Answering =>
       d = c /\ Head(up[c]).kind \in Command /\ f[d].kind = Reply(Head(up[c]).kind)
  /\ Head(up[c]).kind \in Command => c \in to /\ f[c].kind = Reply(Head(up[c]).kind)
  /\ Head(up[c]).kind = "BYE" => conn'[c] = "done"

(* TIME and LISTU are handled so. *)
LEMMA AnswerHandled ==
  ASSUME MInv, NEW c \in User, ReceiveTimeMessage(c) \/ ReceiveListuMessage(c)
  PROVE  \E to, f : Handled(c, to, f)
<1>1. PICK kind \in {"TIME", "LISTU"} : Answer(c, kind, Reply(kind))
  BY DEF ReceiveTimeMessage, ReceiveListuMessage, Reply
<1> DEFINE to == {c}
           f == [d \in User |-> Message(Reply(kind))]
<1>2. Reply(kind) \in {"EMIT", "UTSIL"}
  BY DEF Reply
<1>3. f \in [User -> Replies] /\ \A d \in User : f[d].kind = Reply(kind)
  BY <1>2, MessageFacts
<1>4. /\ conn[c] \in {"open", "closed", "reset"} /\ up[c] # <<>> /\ Head(up[c]).kind = kind
      /\ UNCHANGED <<uneven, client, sends, shown, missed, cut, abrupt, answer, listed>>
      /\ up' = [up EXCEPT ![c] = Tail(up[c])]
  BY <1>1 DEF Answer, Receive
<1>5. /\ down' = [d \in User |-> IF d \in to /\ conn[d] = "open" THEN down[d] \o <<f[d]>> ELSE down[d]]
      /\ clean' = [d \in User |-> clean[d] /\ (d \in to => f[d].kind \in Answering)]
      /\ crashed' \in BOOLEAN /\ (crashed' => \E d \in to : conn[d] = "reset")
  BY <1>1 DEF Answer, SendAll, Answering
<1>6. PICK hit \in SUBSET {d \in to : conn[d] = "closed"} :
        conn' = [d \in User |-> IF d \in hit /\ conn[d] = "closed" THEN "reset" ELSE conn[d]]
  BY <1>1 DEF Answer, AfterSend
<1>7. /\ conn' \in [User -> {"none", "open", "closed", "reset", "done"}]
      /\ \A d \in User : conn'[d] = conn[d] \/ (conn[d] = "closed" /\ conn'[d] = "reset")
  BY <1>6 DEF MInv, Types
<1>8. Delivered(c, to, f)
  BY <1>4 DEF Delivered, Message
<1> HIDE DEF f
<1>9. Handled(c, to, f)
  BY <1>2, <1>3, <1>4, <1>5, <1>7, <1>8 DEF Handled, Command, Answering
<1> QED
  BY <1>9

(* MSG is handled so. *)
LEMMA ChatHandled ==
  ASSUME MInv, NEW c \in User, ReceiveChatMessage(c)
  PROVE  \E to, f : Handled(c, to, f)
<1> DEFINE chat == Head(up[c]).chat
           to == {chat.to, chat.from} \cap listed
           f == [d \in User |->
                   IF chat.to # chat.from /\ to = {chat.to, chat.from} THEN ChatMessage(chat)
                   ELSE Message(IF d = chat.from THEN "ERR0" ELSE "ERR")]
<1>1. /\ conn[c] \in {"open", "closed", "reset"} /\ up[c] # <<>> /\ Head(up[c]).kind = "MSG"
      /\ UNCHANGED <<uneven, client, sends, shown, missed, cut, abrupt, answer, listed>>
      /\ up' = [up EXCEPT ![c] = Tail(up[c])]
  BY DEF ReceiveChatMessage, Receive
<1>2. chat \in Chats
  <2>1. up[c] \in Seq(Requests)
    BY DEF MInv, Types
  <2>2. Head(up[c]) \in Requests
    BY <1>1, <2>1
  <2> QED
    BY <1>1, <2>2, MessageFacts
<1>3. f \in [User -> Replies] /\ \A d \in User : f[d].kind \in {"MSG", "ERR0", "ERR"}
  BY <1>2, MessageFacts
<1>4. /\ down' = [d \in User |-> IF d \in to /\ conn[d] = "open" THEN down[d] \o <<f[d]>> ELSE down[d]]
      /\ clean' = [d \in User |-> clean[d] /\ (d \in to => f[d].kind \in Answering)]
      /\ crashed' \in BOOLEAN /\ (crashed' => \E d \in to : conn[d] = "reset")
  <2> DEFINE reply(d) == IF chat.to # chat.from /\ to = {chat.to, chat.from} THEN ChatMessage(chat)
                         ELSE Message(IF d = chat.from THEN "ERR0" ELSE "ERR")
  <2>1. /\ down' = [d \in User |-> IF d \in to /\ conn[d] = "open" THEN down[d] \o <<reply(d)>> ELSE down[d]]
        /\ clean' = [d \in User |-> clean[d] /\ (d \in to => reply(d).kind \in Answering)]
        /\ crashed' \in BOOLEAN /\ (crashed' => \E d \in to : conn[d] = "reset")
    <3>1. SendAll(to, reply)
      BY DEF ReceiveChatMessage
    <3> HIDE DEF reply, to
    <3>2. down' = [d \in User |-> IF d \in to /\ conn[d] = "open" THEN down[d] \o <<reply(d)>> ELSE down[d]]
      BY <3>1 DEF SendAll
    <3>3. clean' = [d \in User |-> clean[d] /\ (d \in to => reply(d).kind \in Answering)]
      BY <3>1 DEF SendAll, Answering
    <3>4. crashed' \in BOOLEAN /\ (crashed' => \E d \in to : conn[d] = "reset")
      BY <3>1 DEF SendAll
    <3> QED
      BY <3>2, <3>3, <3>4
  <2>2. \A d \in User : f[d] = reply(d)
    OBVIOUS
  <2> HIDE DEF reply, f, to
  <2> QED
    BY <2>1, <2>2
<1>5. PICK hit \in SUBSET {d \in to : conn[d] = "closed"} :
        conn' = [d \in User |-> IF d \in hit /\ conn[d] = "closed" THEN "reset" ELSE conn[d]]
  BY DEF ReceiveChatMessage, AfterSend
<1>6. /\ conn' \in [User -> {"none", "open", "closed", "reset", "done"}]
      /\ \A d \in User : conn'[d] = conn[d] \/ (conn[d] = "closed" /\ conn'[d] = "reset")
  BY <1>5 DEF MInv, Types
<1>7. to \subseteq User /\ Delivered(c, to, f)
  <2>1. to \subseteq User /\ to \subseteq listed /\ listed' = listed
    BY <1>1 DEF MInv, Types
  <2>2. CASE chat.to # chat.from /\ to = {chat.to, chat.from}
    <3>1. \A d \in User : f[d].chat = chat
      BY <2>2 DEF ChatMessage
    <3>2. to = {chat.from, chat.to}
      BY <2>2
    <3> HIDE DEF f, to
    <3> QED
      BY <1>1, <2>1, <3>1, <3>2 DEF Delivered
  <2>3. CASE ~(chat.to # chat.from /\ to = {chat.to, chat.from})
    <3>1. \A d \in User : f[d].chat = NoChat
      BY <2>3 DEF Message
    <3> HIDE DEF f, to
    <3> QED
      BY <2>1, <3>1 DEF Delivered
  <2> QED
    BY <2>2, <2>3
<1> HIDE DEF f, to
<1>8. Handled(c, to, f)
  BY <1>1, <1>3, <1>4, <1>6, <1>7 DEF Handled, Command, Answering
<1> QED
  BY <1>8

(* BYE is handled so. *)
LEMMA ByeHandled ==
  ASSUME MInv, NEW c \in User, ReceiveByeMessage(c)
  PROVE  \E to, f : Handled(c, to, f)
<1> DEFINE to == listed \cup {c}
           f == [d \in User |-> Message(IF d = c THEN "BYE" ELSE "UOFF")]
<1>1. /\ conn[c] \in {"open", "closed", "reset"} /\ up[c] # <<>> /\ Head(up[c]).kind = "BYE"
      /\ UNCHANGED <<uneven, client, sends, shown, missed, cut, abrupt, answer>>
      /\ up' = [up EXCEPT ![c] = <<>>] /\ listed' = listed \ {c}
  BY DEF ReceiveByeMessage, Receive
<1>2. f \in [User -> Replies] /\ \A d \in User : f[d].kind = IF d = c THEN "BYE" ELSE "UOFF"
  BY MessageFacts
<1>3. /\ down' = [d \in User |-> IF d \in to /\ conn[d] = "open" THEN down[d] \o <<f[d]>> ELSE down[d]]
      /\ clean' = [d \in User |-> clean[d] /\ (d \in to => f[d].kind \in Answering)]
      /\ crashed' \in BOOLEAN /\ (crashed' => \E d \in to : conn[d] = "reset")
  BY DEF ReceiveByeMessage, SendAll, Answering
<1> DEFINE left == [conn EXCEPT ![c] = "done"]
<1>4. PICK hit \in SUBSET {d \in listed : conn[d] = "closed"} :
        conn' = [d \in User |-> IF d \in hit /\ left[d] = "closed" THEN "reset" ELSE left[d]]
  BY DEF ReceiveByeMessage, AfterSend
<1>5. /\ conn' \in [User -> {"none", "open", "closed", "reset", "done"}]
      /\ \A d \in User : \/ conn'[d] = conn[d]
                         \/ conn[d] = "closed" /\ conn'[d] = "reset"
                         \/ d = c /\ conn'[d] = "done"
      /\ conn'[c] = "done"
  BY <1>4 DEF MInv, Types
<1>6. to \subseteq User /\ Delivered(c, to, f)
  BY <1>1 DEF MInv, Types, Delivered, Message
<1> HIDE DEF f
<1>7. Handled(c, to, f)
  BY <1>1, <1>2, <1>3, <1>5, <1>6 DEF Handled, Command, Answering, Reply
<1> QED
  BY <1>7

(* MInv is kept by whatever is handled so. *)
LEMMA HandledStep ==
  ASSUME MInv, NEW c \in User, NEW to, NEW f, Handled(c, to, f)
  PROVE  MInv'
<1>1. /\ up[c] \in Seq(Requests) /\ up[c] # <<>> /\ Tail(up[c]) \in Seq(Requests)
      /\ Len(Tail(up[c])) \in Nat /\ Len(up[c]) = Len(Tail(up[c])) + 1
      /\ \A i \in 1 .. Len(Tail(up[c])) : Tail(up[c])[i] = up[c][i + 1]
      /\ Head(up[c]) = up[c][1]
  <2>1. up[c] \in Seq(Requests) /\ up[c] # <<>>
    BY DEF MInv, Types, Handled
  <2> QED
    BY <2>1
<1>2. /\ up'[c] = IF Head(up[c]).kind = "BYE" THEN <<>> ELSE Tail(up[c])
      /\ \A d \in User : d # c => up'[d] = up[d]
      /\ up' \in [User -> Seq(Requests)]
  <2>1. (IF Head(up[c]).kind = "BYE" THEN <<>> ELSE Tail(up[c])) \in Seq(Requests)
    BY <1>1
  <2>2. up' = [up EXCEPT ![c] = IF Head(up[c]).kind = "BYE" THEN <<>> ELSE Tail(up[c])]
    BY DEF Handled
  <2> HIDE DEF Handled
  <2> QED
    BY <2>1, <2>2 DEF MInv, Types
<1>3. \A d \in User :
        /\ d \in to /\ conn[d] = "open" =>
             /\ down'[d] \in Seq(Replies) /\ Len(down'[d]) = Len(down[d]) + 1
             /\ \A i \in 1 .. Len(down[d]) : down'[d][i] = down[d][i]
             /\ down'[d][Len(down[d]) + 1] = f[d]
        /\ ~(d \in to /\ conn[d] = "open") => down'[d] = down[d]
        /\ down[d] \in Seq(Replies) /\ Len(down[d]) \in Nat
  <2>1. ASSUME NEW d \in User
        PROVE  /\ down[d] \in Seq(Replies) /\ Len(down[d]) \in Nat /\ f[d] \in Replies
               /\ down'[d] = IF d \in to /\ conn[d] = "open" THEN down[d] \o <<f[d]>> ELSE down[d]
    BY DEF MInv, Types, Handled
  <2>2. ASSUME NEW d \in User
        PROVE  /\ down[d] \o <<f[d]>> \in Seq(Replies) /\ Len(down[d] \o <<f[d]>>) = Len(down[d]) + 1
               /\ \A i \in 1 .. Len(down[d]) : (down[d] \o <<f[d]>>)[i] = down[d][i]
               /\ (down[d] \o <<f[d]>>)[Len(down[d]) + 1] = f[d]
    <3> QED
      BY <2>1
  <2> QED
    BY <2>1, <2>2
<1>4. Types'
  <2> QED
    BY DEF MInv, Types, Handled, Delivered, client
<1>5. Ends'
  BY DEF MInv, Ends, Handled, client
<1>6. ByeRead'
  <2>1. ASSUME NEW d \in User, HasKind(down'[d], {"BYE"}), ~HasKind(down[d], {"BYE"})
        PROVE  conn'[d] = "done"
    <3>1. d \in to /\ f[d].kind = "BYE"
      BY <1>3, <2>1 DEF HasKind
    <3>2. d = c /\ Head(up[c]).kind = "BYE"
      BY <3>1 DEF Handled, Answering, Command, Reply
    <3> QED
      BY <3>2 DEF Handled
  <2> QED
    BY <2>1 DEF MInv, ByeRead, Handled, client
<1>7. Orderly'
  BY DEF MInv, Orderly, Handled, client
<1>8. CleanCommand'
  <2> SUFFICES ASSUME NEW d \in User, clean'[d], pc'[d] \in Command
               PROVE  /\ localBuffer'[d] = <<>>
                      /\ \/ /\ down'[d] = <<>> /\ up'[d] # <<>>
                            /\ Head(up'[d]).kind = pc'[d] /\ Chatting(Tail(up'[d]))
                         \/ /\ Len(down'[d]) = 1 /\ down'[d][1].kind = Reply(pc'[d])
                            /\ Chatting(up'[d])
    BY DEF CleanCommand
  <2>1. clean[d] /\ pc[d] \in Command /\ pc'[d] = pc[d] /\ localBuffer'[d] = localBuffer[d]
    BY DEF Handled, client
  <2>2. d \in to => f[d].kind \in Answering
    BY DEF Handled
  <2>3. CASE d # c
    <3>1. d \notin to
      BY <2>2, <2>3 DEF Handled
    <3> QED
      BY <1>2, <1>3, <2>1, <2>3, <3>1 DEF MInv, CleanCommand
  <2>4. CASE d = c /\ Head(up[c]).kind \in Command
    <3>1. /\ c \in to /\ f[c].kind = Reply(Head(up[c]).kind) /\ conn[c] = "open"
      BY <2>1, <2>4 DEF Handled, MInv, Ends, Command
    <3>2. up[c][1].kind # "MSG" /\ 1 \in 1 .. Len(up[c])
      BY <1>1, <2>4 DEF Command
    <3>3. /\ localBuffer[c] = <<>> /\ down[c] = <<>>
          /\ Head(up[c]).kind = pc[c] /\ Chatting(Tail(up[c]))
      BY <2>1, <2>4, <3>2 DEF MInv, CleanCommand, Chatting
    <3>4. Len(down'[c]) = 1 /\ down'[c][1] = f[c]
      <4>1. Len(down[c]) = 0
        BY <3>3
      <4>2. Len(down'[c]) = Len(down[c]) + 1 /\ down'[c][Len(down[c]) + 1] = f[c]
        BY <1>3, <3>1
      <4> QED
        BY <4>1, <4>2
    <3>5. Chatting(up'[c])
      BY <1>2, <3>3 DEF Chatting
    <3> QED
      BY <2>1, <2>4, <3>1, <3>3, <3>4, <3>5
  <2>5. CASE d = c /\ Head(up[c]).kind \notin Command
    <3>1. c \notin to
      BY <2>2, <2>5 DEF Handled
    <3>2. down'[c] = down[c] /\ up'[c] = Tail(up[c])
      BY <1>2, <1>3, <2>5, <3>1 DEF Command
    <3>3. localBuffer[c] = <<>> /\ Len(down[c]) = 1 /\ down[c][1].kind = Reply(pc[c]) /\ Chatting(up[c])
      BY <2>1, <2>5 DEF MInv, CleanCommand
    <3>4. Chatting(Tail(up[c]))
      BY <3>3 DEF Chatting
    <3> QED
      BY <2>1, <2>5, <3>2, <3>3, <3>4
  <2> QED
    BY <2>3, <2>4, <2>5
<1>9. OwnAnswer'
  BY DEF MInv, OwnAnswer, Handled
<1> QED
  BY <1>4, <1>5, <1>6, <1>7, <1>8, <1>9 DEF MInv

(* MInv is kept by the server's death at a reset connection. *)
LEMMA ReceiveResetStep ==
  ASSUME MInv, NEW c \in User, ReceiveReset(c)
  PROVE  MInv'
<1>1. /\ conn[c] = "reset" /\ crashed' = TRUE
      /\ UNCHANGED <<listed, conn, up, down, uneven, client, sends, history>>
  BY DEF ReceiveReset
<1>2. Types' /\ Ends' /\ ByeRead'
  BY <1>1 DEF MInv, Types, Ends, ByeRead, client, history
<1>3. Orderly'
  BY <1>1 DEF MInv, Orderly, history
<1>4. CleanCommand' /\ OwnAnswer'
  BY <1>1 DEF MInv, CleanCommand, OwnAnswer, client, history
<1> QED
  BY <1>2, <1>3, <1>4 DEF MInv

(* MInv is kept by the receipt of several messages. *)
LEMMA ReceiveUnevenStep ==
  ASSUME MInv, NEW c \in User, ReceiveUneven(c)
  PROVE  MInv'
<1>1. /\ uneven' = TRUE /\ crashed' \in BOOLEAN
      /\ UNCHANGED <<listed, conn, up, down, client, sends, history>>
  BY DEF ReceiveUneven
<1>2. Types' /\ Ends' /\ ByeRead'
  BY <1>1 DEF MInv, Types, Ends, ByeRead, client, history
<1>3. Orderly'
  BY <1>1 DEF MInv, Orderly, client, history
<1>4. CleanCommand' /\ OwnAnswer'
  BY <1>1 DEF MInv, CleanCommand, OwnAnswer, client, history
<1> QED
  BY <1>2, <1>3, <1>4 DEF MInv

-----------------------------------------------------------------------------
(* What Recv of the client changes and returns. *)
LEMMA RecvStep ==
  ASSUME MInv, NEW c \in User, NEW r \in Received(c), NEW toCommand \in BOOLEAN,
         Recv(c, r, toCommand)
  PROVE  /\ localBuffer' \in [User -> Seq(Replies)] /\ down' \in [User -> Seq(Replies)]
         /\ missed' \cup cut' \subseteq User
         /\ UNCHANGED <<listed, fate, up, readable, sends>>
         /\ \A d \in User : d # c => localBuffer'[d] = localBuffer[d] /\ down'[d] = down[d]
         /\ HasKind(localBuffer'[c], {"BYE"}) \/ HasKind(down'[c], {"BYE"}) =>
              HasKind(localBuffer[c], {"BYE"}) \/ HasKind(down[c], {"BYE"})
         /\ Head(r.got) \in Replies
         /\ Head(r.got).kind = "BYE" =>
              HasKind(localBuffer[c], {"BYE"}) \/ HasKind(down[c], {"BYE"})
         /\ localBuffer[c] = <<>> => down[c] # <<>> /\ Head(r.got) = down[c][1]
<1>1. /\ r.got \in Seq(Replies) /\ r.got # <<>> /\ r.left \in Seq(Replies)
      /\ \A i \in 1 .. Len(r.got) : \/ \E j \in 1 .. Len(localBuffer[c]) : r.got[i] = localBuffer[c][j]
                                    \/ \E j \in 1 .. Len(down[c]) : r.got[i] = down[c][j]
      /\ \A i \in 1 .. Len(r.left) : \E j \in 1 .. Len(down[c]) : r.left[i] = down[c][j]
      /\ localBuffer[c] = <<>> => down[c] # <<>> /\ r.got[1] = down[c][1]
  BY ReceivedFrom DEF MInv
<1>2. /\ Tail(r.got) \in Seq(Replies) /\ Len(Tail(r.got)) \in Nat
      /\ Len(r.got) = Len(Tail(r.got)) + 1
      /\ \A i \in 1 .. Len(Tail(r.got)) : Tail(r.got)[i] = r.got[i + 1] /\ i + 1 \in 1 .. Len(r.got)
      /\ Head(r.got) = r.got[1] /\ 1 \in 1 .. Len(r.got) /\ Head(r.got) \in Replies
  <2>2. /\ Tail(r.got) \in Seq(Replies) /\ Len(Tail(r.got)) = Len(r.got) - 1 /\ Head(r.got) \in Replies
        /\ \A i \in 1 .. Len(Tail(r.got)) : Tail(r.got)[i] = r.got[i + 1]
    BY <1>1
  <2> QED
    BY <2>2
<1>3. /\ localBuffer' = [localBuffer EXCEPT ![c] = Tail(r.got)] /\ down' = [down EXCEPT ![c] = r.left]
      /\ missed' \in {missed, missed \cup {c}} /\ cut' \in {cut, cut \cup {c}}
      /\ UNCHANGED <<listed, fate, up, readable, sends>>
  BY DEF Recv
<1>4. /\ localBuffer' \in [User -> Seq(Replies)] /\ down' \in [User -> Seq(Replies)]
      /\ missed' \cup cut' \subseteq User
      /\ localBuffer'[c] = Tail(r.got) /\ down'[c] = r.left
      /\ \A d \in User : d # c => localBuffer'[d] = localBuffer[d] /\ down'[d] = down[d]
  BY <1>1, <1>3 DEF MInv, Types
<1>5. \A i \in 1 .. Len(r.got) : r.got[i].kind = "BYE" =>
        HasKind(localBuffer[c], {"BYE"}) \/ HasKind(down[c], {"BYE"})
  BY <1>1 DEF HasKind
<1>6. HasKind(r.left, {"BYE"}) => HasKind(down[c], {"BYE"})
  BY <1>1 DEF HasKind
<1>7. HasKind(Tail(r.got), {"BYE"}) => \E i \in 1 .. Len(r.got) : r.got[i].kind = "BYE"
  BY DEF HasKind
<1> QED
  BY <1>1, <1>2, <1>3, <1>4, <1>5, <1>6, <1>7

(* MInv is kept by a login. *)
LEMMA LoginStep ==
  ASSUME MInv, NEW c \in User, Login(c)
  PROVE  MInv'
<1>1. Types'
  BY DEF MInv, Types, Login, history, fate
<1>2. Ends'
  BY DEF MInv, Ends, Types, Login, history
<1>3. ByeRead'
  BY DEF MInv, ByeRead, Ends, Login
<1>4. Orderly'
  BY DEF MInv, Orderly, Login, history, fate
<1>5. CleanCommand'
  BY DEF MInv, CleanCommand, Login, history, Command
<1>6. OwnAnswer'
  BY DEF MInv, OwnAnswer, Login, history
<1> QED
  BY <1>1, <1>2, <1>3, <1>4, <1>5, <1>6 DEF MInv

(* A request is put behind the others. *)
LEMMA RequestStep ==
  ASSUME Types, NEW c \in User, NEW m \in Requests, Request(c, m)
  PROVE  /\ up' \in [User -> Seq(Requests)] /\ sends' \in 0 .. MaxSend
         /\ \A d \in User : d # c => up'[d] = up[d]
         /\ up[c] = <<>> => up'[c] = <<m>> /\ Head(up'[c]) = m /\ Tail(up'[c]) = <<>>
         /\ up[c] # <<>> => /\ Head(up'[c]) = Head(up[c])
                            /\ m.kind = "MSG" /\ Chatting(Tail(up[c])) => Chatting(Tail(up'[c]))
         /\ m.kind = "MSG" /\ Chatting(up[c]) => Chatting(up'[c])
         /\ up'[c] # <<>>
<1>2. up' = [up EXCEPT ![c] = Append(up[c], m)] /\ sends < MaxSend /\ sends' = sends + 1
  BY DEF Request
<1>4. up'[c] = Append(up[c], m) /\ \A d \in User : d # c => up'[d] = up[d]
  BY <1>2 DEF Types
<1>5. up' \in [User -> Seq(Requests)] /\ sends' \in 0 .. MaxSend
  BY <1>2, MaxSendAssumption DEF Types
<1>6. up[c] = <<>> => up'[c] = <<m>> /\ Head(up'[c]) = m /\ Tail(up'[c]) = <<>>
  BY <1>4
<1>7. ASSUME up[c] # <<>>
      PROVE  /\ Head(up'[c]) = Head(up[c])
             /\ Tail(up'[c]) = Append(Tail(up[c]), m)
  BY <1>4, <1>7
<1>8. m.kind = "MSG" /\ Chatting(up[c]) => Chatting(up'[c])
  BY <1>4 DEF Chatting
<1>9. ASSUME up[c] # <<>>, m.kind = "MSG", Chatting(Tail(up[c]))
      PROVE  Chatting(Tail(up'[c]))
  <2> QED
    <3>1. Chatting(Append(Tail(up[c]), m))
      <4> QED
        BY <1>9 DEF Chatting
    <3> QED
      BY <1>7, <1>9, <3>1
<1> QED
  BY <1>4, <1>5, <1>6, <1>8, <1>9

(* MInv is kept by typing a command. *)
LEMMA TypeStep ==
  ASSUME MInv, NEW c \in User, NEW command \in {"TIME", "LISTU", "BYE"}, Type(c, command)
  PROVE  MInv'
<1>1. /\ up' \in [User -> Seq(Requests)] /\ sends' \in 0 .. MaxSend
      /\ \A d \in User : d # c => up'[d] = up[d]
      /\ up[c] = <<>> => /\ up'[c] = <<Message(command)>> /\ Head(up'[c]) = Message(command)
                         /\ Tail(up'[c]) = <<>>
      /\ Message(command).kind = command /\ up'[c] # <<>>
  BY RequestStep, MessageFacts DEF MInv, Type
<1>2. /\ pc[c] = "select" /\ pc' = [pc EXCEPT ![c] = command]
      /\ readable' = [readable EXCEPT ![c] = (down[c] # <<>>)]
      /\ clean' = [clean EXCEPT ![c] = Quiet(c)]
      /\ UNCHANGED <<listed, conn, fate, down, localBuffer, shown, missed, cut, abrupt, answer>>
  BY DEF Type, Goto, server
<1>3. Types'
  <2>1. Quiet(c) \in BOOLEAN
    BY DEF Quiet
  <2>2. clean' \in [User -> BOOLEAN] /\ readable' \in [User -> BOOLEAN]
    BY <1>2, <2>1 DEF MInv, Types
  <2> QED
    BY <1>1, <1>2, <2>2 DEF MInv, Types, fate
<1>4. Ends' /\ Orderly'
  BY <1>2 DEF MInv, Ends, Orderly, fate
<1>5. ByeRead' /\ OwnAnswer'
  BY <1>2 DEF MInv, ByeRead, OwnAnswer
<1>6. CleanCommand'
  <2>2. clean'[c] = Quiet(c) /\ pc'[c] = command
    BY <1>2 DEF MInv, Types
  <2>3. Chatting(<<>>)
    BY DEF Chatting
  <2> QED
    <3>1. ASSUME clean'[c]
          PROVE  /\ localBuffer'[c] = <<>> /\ down'[c] = <<>> /\ up'[c] # <<>>
                 /\ Head(up'[c]).kind = pc'[c] /\ Chatting(Tail(up'[c]))
      <4>1. up[c] = <<>> /\ localBuffer[c] = <<>> /\ down[c] = <<>>
        BY <2>2, <3>1 DEF Quiet
      <4> QED
        BY <1>1, <1>2, <2>2, <2>3, <4>1
    <3> QED
      BY <1>1, <1>2, <3>1 DEF MInv, CleanCommand
<1> QED
  BY <1>3, <1>4, <1>5, <1>6 DEF MInv

(* MInv is kept by SIGINT at the client. *)
LEMMA InterruptStep ==
  ASSUME MInv, NEW c \in User, Interrupt(c)
  PROVE  MInv'
<1>1. /\ up' \in [User -> Seq(Requests)] /\ sends' \in 0 .. MaxSend
      /\ \A d \in User : d # c => up'[d] = up[d]
  BY RequestStep, MessageFacts DEF MInv, Interrupt
<1>2. /\ pc[c] \in {"select", "receive", "TIME", "LISTU"} /\ pc' = [pc EXCEPT ![c] = "interrupted"]
      /\ clean' = [clean EXCEPT ![c] = FALSE]
      /\ UNCHANGED <<listed, conn, fate, down, localBuffer, readable, shown, missed, cut, abrupt, answer>>
  BY DEF Interrupt, Goto, server
<1>3. Types'
  BY <1>1, <1>2 DEF MInv, Types, fate
<1>4. Ends' /\ Orderly'
  BY <1>2 DEF MInv, Ends, Orderly, Types, fate
<1>5. ByeRead' /\ OwnAnswer'
  BY <1>2 DEF MInv, ByeRead, OwnAnswer
<1>6. CleanCommand'
  <2>2. ~clean'[c]
    BY <1>2 DEF MInv, Types
  <2> QED
    BY <1>1, <1>2, <2>2 DEF MInv, CleanCommand
<1> QED
  BY <1>3, <1>4, <1>5, <1>6 DEF MInv

(* MInv is kept by writing a chat message. *)
LEMMA SendChatStep ==
  ASSUME MInv, NEW c \in User, NEW to \in User, SendChat(c, to)
  PROVE  MInv'
<1> DEFINE m == ChatMessage([from |-> c, to |-> to, no |-> sends + 1])
<1>1. m \in Requests /\ m.kind = "MSG"
  <2>1. [from |-> c, to |-> to, no |-> sends + 1] \in Chats
    BY MaxSendAssumption DEF MInv, Types, Chats, SendChat, Request
  <2> QED
    BY <2>1, MessageFacts
<1>2. Request(c, m) /\ UNCHANGED <<server, down, client, history>>
  BY DEF SendChat
<1> HIDE DEF m
<1>3. /\ up' \in [User -> Seq(Requests)] /\ sends' \in 0 .. MaxSend
      /\ \A d \in User : d # c => up'[d] = up[d]
      /\ up[c] # <<>> => /\ Head(up'[c]) = Head(up[c])
                         /\ Chatting(Tail(up[c])) => Chatting(Tail(up'[c]))
      /\ Chatting(up[c]) => Chatting(up'[c])
      /\ up'[c] # <<>>
  BY <1>1, <1>2, RequestStep DEF MInv
<1>4. Types'
  BY <1>2, <1>3 DEF MInv, Types, server, fate, client, history
<1>5. Ends' /\ Orderly'
  BY <1>2 DEF MInv, Ends, Orderly, server, fate, client, history
<1>6. ByeRead' /\ OwnAnswer'
  BY <1>2 DEF MInv, ByeRead, OwnAnswer, server, fate, client, history
<1>7. CleanCommand'
  BY <1>2, <1>3 DEF MInv, CleanCommand, client, history
<1> QED
  BY <1>4, <1>5, <1>6, <1>7 DEF MInv

(* MInv is kept by the end of the client's select. *)
LEMMA WakeStep ==
  ASSUME MInv, NEW c \in User, Wake(c)
  PROVE  MInv'
<1>1. /\ pc[c] = "select" /\ pc' = [pc EXCEPT ![c] = "receive"]
      /\ UNCHANGED <<server, up, down, localBuffer, readable, sends, history>>
  BY DEF Wake, Goto
<1>2. Types'
  BY <1>1 DEF MInv, Types, server, fate, history
<1>3. Ends' /\ Orderly'
  BY <1>1 DEF MInv, Ends, Orderly, server, fate, history
<1>4. ByeRead' /\ OwnAnswer'
  BY <1>1 DEF MInv, ByeRead, OwnAnswer, server, fate, history
<1>5. CleanCommand'
  BY <1>1 DEF MInv, CleanCommand, Command, history
<1> QED
  BY <1>2, <1>3, <1>4, <1>5 DEF MInv

(* A command that got a clean answer got its own. *)
LEMMA TookStep ==
  ASSUME MInv, NEW c \in User, NEW r \in Received(c), NEW right,
         Recv(c, r, TRUE), Took(c, Head(r.got).kind, right), pc[c] \in Command \cup {"interrupted"},
         pc[c] = "interrupted" => ~clean[c]
  PROVE  /\ OwnAnswer'
         /\ abrupt' = IF Head(r.got).kind \in right THEN abrupt ELSE abrupt \cup {c}
<1>1. ASSUME clean[c] PROVE Head(r.got).kind = Reply(pc[c]) /\ pc[c] \in Command
  <2>1. pc[c] \in Command
    BY <1>1
  <2>2. localBuffer[c] = <<>> /\ down[c] # <<>> /\ Head(r.got) = down[c][1]
    BY <1>1, <2>1, RecvStep DEF MInv, CleanCommand
  <2> QED
    BY <1>1, <2>2 DEF MInv, CleanCommand
<1>2. /\ answer' = [answer EXCEPT ![c] = IF clean[c] THEN <<pc[c], Head(r.got).kind>> ELSE answer[c]]
      /\ abrupt' = IF Head(r.got).kind \in right THEN abrupt ELSE abrupt \cup {c}
  BY DEF Took
<1> QED
  BY <1>1, <1>2 DEF MInv, OwnAnswer, Command, Reply

-----------------------------------------------------------------------------
(* MInv is kept by taking the answer to TIME or LISTU. *)
LEMMA CommandAnswerStep ==
  ASSUME MInv, NEW c \in User, CommandAnswer(c)
  PROVE  MInv'
<1> DEFINE right == IF pc[c] = "TIME" THEN {"EMIT"} ELSE {"UTSIL"}
           to == IF readable[c] THEN "receive" ELSE "select"
<1>1. pc[c] \in {"TIME", "LISTU"}
  BY DEF CommandAnswer
<1>2. PICK r \in Received(c) : Recv(c, r, TRUE) /\ Took(c, Head(r.got).kind, right)
  BY DEF CommandAnswer
<1>3. pc' = [pc EXCEPT ![c] = to] /\ UNCHANGED <<conn, shown, clean>>
  BY DEF CommandAnswer, Goto
<1>4. to \in {"receive", "select"}
  OBVIOUS
<1> HIDE DEF right, to
<1>5. /\ OwnAnswer' /\ abrupt' = IF Head(r.got).kind \in right THEN abrupt ELSE abrupt \cup {c}
  BY <1>1, <1>2, TookStep DEF Command
<1>6. /\ localBuffer' \in [User -> Seq(Replies)] /\ down' \in [User -> Seq(Replies)]
      /\ missed' \cup cut' \subseteq User
      /\ UNCHANGED <<listed, fate, up, readable, sends>>
      /\ \A d \in User : d # c => localBuffer'[d] = localBuffer[d] /\ down'[d] = down[d]
      /\ HasKind(localBuffer'[c], {"BYE"}) \/ HasKind(down'[c], {"BYE"}) =>
           HasKind(localBuffer[c], {"BYE"}) \/ HasKind(down[c], {"BYE"})
  BY <1>2, RecvStep
<1>7. pc'[c] \in {"receive", "select"} /\ \A d \in User : d # c => pc'[d] = pc[d]
  BY <1>3, <1>4 DEF MInv, Types
<1>8. Types'
  BY <1>3, <1>4, <1>5, <1>6 DEF MInv, Types, fate
<1>9. Ends'
  BY <1>1, <1>3, <1>7 DEF MInv, Ends
<1>10. ByeRead'
  BY <1>3, <1>6 DEF MInv, ByeRead
<1>11. Orderly'
  BY <1>3, <1>5, <1>6, <1>7 DEF MInv, Orderly, fate
<1>12. CleanCommand'
  BY <1>3, <1>6, <1>7 DEF MInv, CleanCommand, Command
<1> QED
  BY <1>5, <1>8, <1>9, <1>10, <1>11, <1>12 DEF MInv

(* The client is gone. *)
LEMMA LeaveStep ==
  ASSUME Types, NEW c \in User, NEW unread, Leave(c, unread)
  PROVE  /\ pc' = [pc EXCEPT ![c] = "gone"] /\ pc'[c] = "gone"
         /\ conn' \in [User -> {"none", "open", "closed", "reset", "done"}]
         /\ pc' \in [User -> {"login", "select", "receive", "last", "interrupted", "gone",
                             "TIME", "LISTU", "BYE"}]
         /\ \A d \in User : d # c => conn'[d] = conn[d] /\ pc'[d] = pc[d]
         /\ conn'[c] \in {"closed", "reset", "done"}
         /\ conn[c] = "done" <=> conn'[c] = "done"
BY DEF Types, Leave, Goto

(* MInv is kept by taking the answer to BYE. *)
LEMMA LogoutAnswerStep ==
  ASSUME MInv, NEW c \in User, LogoutAnswer(c)
  PROVE  MInv'
<1>1. pc[c] \in {"BYE", "interrupted"} /\ UNCHANGED <<shown, clean>>
  BY DEF LogoutAnswer
<1>2. PICK r \in Received(c) :
        /\ Recv(c, r, TRUE)
        /\ \/ /\ Head(r.got).kind = "UOFF"
              /\ UNCHANGED <<pc, conn, abrupt, answer>>
           \/ /\ Head(r.got).kind # "UOFF"
              /\ Took(c, Head(r.got).kind, {"BYE"})
              /\ LogoutEnd(c, r)
  BY DEF LogoutAnswer
<1>3. /\ localBuffer' \in [User -> Seq(Replies)] /\ down' \in [User -> Seq(Replies)]
      /\ missed' \cup cut' \subseteq User
      /\ UNCHANGED <<listed, fate, up, readable, sends>>
      /\ \A d \in User : d # c => localBuffer'[d] = localBuffer[d] /\ down'[d] = down[d]
      /\ HasKind(localBuffer'[c], {"BYE"}) \/ HasKind(down'[c], {"BYE"}) =>
           HasKind(localBuffer[c], {"BYE"}) \/ HasKind(down[c], {"BYE"})
      /\ Head(r.got).kind = "BYE" =>
           HasKind(localBuffer[c], {"BYE"}) \/ HasKind(down[c], {"BYE"})
      /\ localBuffer[c] = <<>> => down[c] # <<>> /\ Head(r.got) = down[c][1]
  BY <1>2, RecvStep
<1>4. CASE Head(r.got).kind = "UOFF"
  <2>1. UNCHANGED <<pc, conn, abrupt, answer>>
    BY <1>2, <1>4
  <2>2. Types' /\ Ends' /\ Orderly' /\ OwnAnswer'
    BY <1>1, <1>3, <2>1 DEF MInv, Types, Ends, Orderly, OwnAnswer, fate
  <2>3. ByeRead'
    BY <1>3, <2>1 DEF MInv, ByeRead
  <2>4. ASSUME clean[c], pc[c] \in Command PROVE FALSE
    BY <1>3, <1>4, <2>4 DEF MInv, CleanCommand, Reply
  <2>5. CleanCommand'
    BY <1>1, <1>3, <2>1, <2>4 DEF MInv, CleanCommand
  <2> QED
    BY <2>2, <2>3, <2>5 DEF MInv
<1>5. CASE Head(r.got).kind # "UOFF"
  <2>1. Took(c, Head(r.got).kind, {"BYE"}) /\ LogoutEnd(c, r)
    BY <1>2, <1>5
  <2>2. OwnAnswer' /\ abrupt' = IF Head(r.got).kind = "BYE" THEN abrupt ELSE abrupt \cup {c}
    BY <1>1, <1>2, <2>1, TookStep DEF Command, MInv, Ends
  <2>3. /\ pc' \in [User -> {"login", "select", "receive", "last", "interrupted", "gone",
                             "TIME", "LISTU", "BYE"}]
        /\ conn' \in [User -> {"none", "open", "closed", "reset", "done"}]
        /\ \A d \in User : d # c => pc'[d] = pc[d] /\ conn'[d] = conn[d]
        /\ \/ pc'[c] = "last" /\ conn'[c] = conn[c]
           \/ pc'[c] = "gone" /\ conn'[c] \in {"closed", "reset", "done"}
        /\ conn[c] = "done" => conn'[c] = "done"
    <3>1. CASE pc[c] = "BYE" /\ readable[c]
      BY <2>1, <3>1 DEF LogoutEnd, Goto, MInv, Types
    <3>2. CASE ~(pc[c] = "BYE" /\ readable[c])
      <4>1. Leave(c, r.left # <<>>)
        BY <2>1, <3>2 DEF LogoutEnd
      <4> QED
        BY <4>1, LeaveStep DEF MInv
    <3> QED
      BY <3>1, <3>2
  <2>4. Types'
    BY <1>1, <1>3, <2>2, <2>3 DEF MInv, Types, fate
  <2>5. Ends'
    BY <1>1, <2>3 DEF MInv, Ends
  <2>6. ByeRead'
    BY <1>3, <2>3 DEF MInv, ByeRead
  <2>7. Orderly'
    <3>1. abrupt' = {} => abrupt = {} /\ Head(r.got).kind = "BYE"
      BY <2>2
    <3>2. Head(r.got).kind = "BYE" => conn[c] = "done"
      BY <1>3 DEF MInv, ByeRead
    <3> QED
      BY <1>3, <2>3, <3>1, <3>2 DEF MInv, Orderly, fate
  <2>8. CleanCommand'
    BY <1>1, <1>3, <2>3 DEF MInv, CleanCommand, Command
  <2> QED
    BY <2>2, <2>4, <2>5, <2>6, <2>7, <2>8 DEF MInv
<1> QED
  BY <1>4, <1>5

(* MInv is kept by receiveMessage. *)
LEMMA ReceiveMessageStep ==
  ASSUME MInv, NEW c \in User, ReceiveMessage(c)
  PROVE  MInv'
<1>1. pc[c] \in {"receive", "last"} /\ UNCHANGED <<abrupt, clean, answer>>
  BY DEF ReceiveMessage
<1>2. PICK r \in Received(c) :
        /\ Recv(c, r, FALSE)
        /\ shown' = IF Head(r.got).kind # "MSG" THEN shown
                    ELSE [shown EXCEPT ![c] = Append(@, Head(r.got).chat)]
        /\ IF pc[c] = "receive" THEN Goto(c, "select") /\ UNCHANGED conn
           ELSE Leave(c, r.left # <<>>)
  BY DEF ReceiveMessage
<1>3. /\ localBuffer' \in [User -> Seq(Replies)] /\ down' \in [User -> Seq(Replies)]
      /\ missed' \cup cut' \subseteq User
      /\ UNCHANGED <<listed, fate, up, readable, sends>>
      /\ \A d \in User : d # c => localBuffer'[d] = localBuffer[d] /\ down'[d] = down[d]
      /\ HasKind(localBuffer'[c], {"BYE"}) \/ HasKind(down'[c], {"BYE"}) =>
           HasKind(localBuffer[c], {"BYE"}) \/ HasKind(down[c], {"BYE"})
      /\ Head(r.got) \in Replies
  BY <1>2, RecvStep
<1>4. shown' \in [User -> Seq(Chats)]
  <2>1. CASE Head(r.got).kind # "MSG"
    BY <1>2, <2>1 DEF MInv, Types
  <2>2. CASE Head(r.got).kind = "MSG"
    <3>1. Append(shown[c], Head(r.got).chat) \in Seq(Chats)
      BY <1>3, <2>2, MessageFacts DEF MInv, Types
    <3> QED
      BY <1>2, <3>1 DEF MInv, Types
  <2> QED
    BY <2>1, <2>2
<1>5. /\ pc' \in [User -> {"login", "select", "receive", "last", "interrupted", "gone",
                           "TIME", "LISTU", "BYE"}]
      /\ conn' \in [User -> {"none", "open", "closed", "reset", "done"}]
      /\ \A d \in User : d # c => pc'[d] = pc[d] /\ conn'[d] = conn[d]
      /\ \/ pc'[c] = "select" /\ conn'[c] = conn[c] /\ pc[c] = "receive"
         \/ pc'[c] = "gone" /\ conn'[c] \in {"closed", "reset", "done"} /\ pc[c] = "last"
      /\ conn[c] = "done" => conn'[c] = "done"
  <2>1. CASE pc[c] = "receive"
    BY <1>2, <2>1 DEF Goto, MInv, Types
  <2>2. CASE pc[c] # "receive"
    <3>1. Leave(c, r.left # <<>>)
      BY <1>2, <2>2
    <3> QED
      BY <1>1, <2>2, <3>1, LeaveStep DEF MInv
  <2> QED
    BY <2>1, <2>2
<1>6. Types'
  BY <1>1, <1>3, <1>4, <1>5 DEF MInv, Types, fate
<1>7. Ends'
  BY <1>1, <1>5 DEF MInv, Ends
<1>8. ByeRead'
  BY <1>3, <1>5 DEF MInv, ByeRead
<1>9. Orderly'
  BY <1>1, <1>3, <1>5 DEF MInv, Orderly, fate
<1>10. CleanCommand' /\ OwnAnswer'
  BY <1>1, <1>3, <1>5 DEF MInv, CleanCommand, Command, OwnAnswer
<1> QED
  BY <1>6, <1>7, <1>8, <1>9, <1>10 DEF MInv

(* MInv is kept by the end of receiveMessage. *)
LEMMA ReceiveEndStep ==
  ASSUME MInv, NEW c \in User, ReceiveEnd(c)
  PROVE  MInv'
<1>1. /\ Leave(c, FALSE) /\ conn[c] = "done"
      /\ UNCHANGED <<listed, fate, up, down, localBuffer, readable, sends, shown, missed,
                     cut, abrupt, clean, answer>>
  BY DEF ReceiveEnd
<1>2. /\ pc' = [pc EXCEPT ![c] = "gone"] /\ pc'[c] = "gone"
      /\ conn' \in [User -> {"none", "open", "closed", "reset", "done"}]
      /\ \A d \in User : d # c => conn'[d] = conn[d] /\ pc'[d] = pc[d]
      /\ conn'[c] = "done"
  BY <1>1, LeaveStep DEF MInv
<1>3. Types'
  BY <1>1, <1>2 DEF MInv, Types, fate
<1>4. Ends' /\ Orderly'
  BY <1>1, <1>2 DEF MInv, Ends, Orderly, fate
<1>5. ByeRead' /\ OwnAnswer'
  BY <1>1, <1>2 DEF MInv, ByeRead, OwnAnswer
<1>6. CleanCommand'
  BY <1>1, <1>2 DEF MInv, CleanCommand, Command
<1> QED
  BY <1>3, <1>4, <1>5, <1>6 DEF MInv

(* MInv is kept by the death of a client. *)
LEMMA VanishStep ==
  ASSUME MInv, NEW c \in User, Vanish(c)
  PROVE  MInv'
<1>1. /\ Leave(c, down[c] # <<>>) /\ abrupt' = abrupt \cup {c}
      /\ UNCHANGED <<listed, fate, up, down, localBuffer, readable, sends, shown, missed,
                     cut, clean, answer>>
  BY DEF Vanish
<1>2. /\ pc' = [pc EXCEPT ![c] = "gone"] /\ pc'[c] = "gone"
      /\ conn' \in [User -> {"none", "open", "closed", "reset", "done"}]
      /\ \A d \in User : d # c => conn'[d] = conn[d] /\ pc'[d] = pc[d]
      /\ conn[c] = "done" => conn'[c] = "done"
  BY <1>1, LeaveStep DEF MInv
<1>3. Types'
  BY <1>1, <1>2 DEF MInv, Types, fate
<1>4. Ends' /\ Orderly'
  BY <1>1, <1>2 DEF MInv, Ends, Orderly
<1>5. ByeRead' /\ OwnAnswer'
  BY <1>1, <1>2 DEF MInv, ByeRead, OwnAnswer
<1>6. CleanCommand'
  BY <1>1, <1>2 DEF MInv, CleanCommand, Command
<1> QED
  BY <1>3, <1>4, <1>5, <1>6 DEF MInv

(* At first nobody is logged in. *)
LEMMA InitMInv == Init => MInv
<1> SUFFICES ASSUME Init PROVE MInv
  OBVIOUS
<1>1. Types
  <2>2. /\ up \in [User -> Seq(Requests)] /\ down \in [User -> Seq(Replies)]
        /\ localBuffer \in [User -> Seq(Replies)] /\ shown \in [User -> Seq(Chats)]
    BY DEF Init
  <2>3. /\ listed \subseteq User /\ conn \in [User -> {"none", "open", "closed", "reset", "done"}]
        /\ pc \in [User -> {"login", "select", "receive", "last", "interrupted", "gone",
                            "TIME", "LISTU", "BYE"}]
        /\ readable \in [User -> BOOLEAN] /\ crashed \in BOOLEAN /\ uneven \in BOOLEAN /\ clean \in [User -> BOOLEAN]
        /\ missed \cup cut \cup abrupt \subseteq User
    BY DEF Init
  <2>4. sends \in 0 .. MaxSend
    BY MaxSendAssumption DEF Init
  <2> QED
    BY <2>2, <2>3, <2>4 DEF Types
<1>2. Ends /\ ByeRead /\ Orderly
  BY DEF Init, Ends, ByeRead, Orderly, HasKind
<1>3. CleanCommand /\ OwnAnswer
  BY DEF Init, CleanCommand, OwnAnswer
<1> QED
  BY <1>1, <1>2, <1>3 DEF MInv

(* Every step keeps the invariant. *)
LEMMA NextMInv == MInv /\ [Next]_vars => MInv'
<1>1. ASSUME MInv, UNCHANGED vars PROVE MInv'
  <2>1. Types' /\ Ends' /\ Orderly'
    BY <1>1 DEF MInv, vars, server, fate, client, history, Types, Ends, Orderly
  <2>2. ByeRead' /\ CleanCommand' /\ OwnAnswer'
    BY <1>1 DEF MInv, vars, server, fate, client, history, ByeRead, CleanCommand,
       OwnAnswer
  <2> QED
    BY <2>1, <2>2 DEF MInv
<1>2. ASSUME MInv, NEW c \in User, Handle(c) PROVE MInv'
  BY <1>2, AnswerHandled, ChatHandled, ByeHandled, HandledStep, ReceiveResetStep,
     ReceiveUnevenStep DEF Handle
<1>3. ASSUME MInv, NEW c \in User, ClientStep(c) PROVE MInv'
  BY <1>3, WakeStep, CommandAnswerStep, LogoutAnswerStep, ReceiveMessageStep,
     ReceiveEndStep DEF ClientStep
<1> QED
  BY <1>1, <1>2, <1>3, LoginStep, InterruptStep, VanishStep, TypeStep, SendChatStep
     DEF Next

(* MInv holds in every state. *)
THEOREM Invariant == Spec => []MInv
BY InitMInv, NextMInv, PTL DEF Spec

(* Connections, queues and clients are of their types. *)
THEOREM TypeCorrect == Spec => []TypeOK
<1>1. MInv => TypeOK
  BY TypesAreOK DEF MInv
<1> QED
  BY <1>1, Invariant, PTL

(* The server dies of a client that was killed or left with another message
   than BYE for its answer, or of several messages received at once, and of
   nothing else (DiesOfAbrupt). *)
THEOREM DeathIsAbrupt == Spec => []DiesOfAbrupt
<1>1. MInv => DiesOfAbrupt
  BY DEF MInv, Orderly, DiesOfAbrupt
<1> QED
  BY <1>1, Invariant, PTL

(* The answer that a command of the client takes is its own, unless a chat
   message or UOFF could come to it (OwnAnswer). *)
THEOREM AnswersAreOwn == Spec => []OwnAnswer
<1>1. MInv => OwnAnswer
  BY DEF MInv
<1> QED
  BY <1>1, Invariant, PTL

-----------------------------------------------------------------------------
(* Two clients show the same conversation, for any number of clients and of *)
(* messages (SameConversation of Messaging).                                *)
(*                                                                          *)
(* The chats that a client has shown, those in its localBuffer and those on *)
(* their way to it are one stream: receiving only takes from it what the    *)
(* client misses (Narrowed), and the server puts each chat message behind   *)
(* the streams of both of its parties in one step (Spread). So the streams  *)
(* of two clients have what both have in one order, and one of them lacks   *)
(* what the other has only at its end, once its connection is closed.       *)

\* Where the chat messages are in s.
Lines(s) == {i \in DOMAIN s : s[i] \in Chats}

\* The two clients of a chat message.
Parties(chat) == {chat.from, chat.to}

\* The messages of one sender are in the order in which it sent them.
BySender(S) ==
  \A c \in User : \A i, j \in Lines(S[c]) :
    i < j /\ S[c][i].from = S[c][j].from => S[c][i].no < S[c][j].no

\* Two clients have the messages that both have in one order.
OneOrder(S) ==
  \A c, d \in User : c # d =>
    \A i, j \in Lines(S[c]), k, l \in Lines(S[d]) :
      i < j /\ S[c][i] = S[d][k] /\ S[c][j] = S[d][l] => k < l

\* Everything of their conversation that c has and that d lacks is behind all that d has.
Behind(S, c, d) ==
  \A i \in Lines(S[c]) :
    Parties(S[c][i]) = {c, d} /\ (\A k \in Lines(S[d]) : S[d][k] # S[c][i]) =>
      \A l \in Lines(S[d]) : Parties(S[d][l]) = {c, d} =>
        \E j \in Lines(S[c]) : j < i /\ S[c][j] = S[d][l]

\* d has everything of their conversation that c has.
Hears(S, c, d) ==
  \A i \in Lines(S[c]) :
    Parties(S[c][i]) = {c, d} => \E k \in Lines(S[d]) : S[d][k] = S[c][i]

\* The chats that a client has shown, and those it keeps and is being sent.
StreamOf(seen, kept, sent) ==
  LET s == Len(seen)
      b == s + Len(kept)
  IN  [i \in 1 .. b + Len(sent) |->
         IF i <= s THEN seen[i] ELSE IF i <= b THEN kept[i - s].chat ELSE sent[i - b].chat]

\* The chats of each client, in the order in which it shows them.
Stream == [c \in User |-> StreamOf(shown[c], localBuffer[c], down[c])]

\* The requests of a client are its own, in the order in which it sent them.
OwnRequests ==
  \A c \in User : \A i \in 1 .. Len(up[c]) : up[c][i].kind = "MSG" =>
    /\ up[c][i].chat.from = c /\ up[c][i].chat.no <= sends
    /\ \A j \in 1 .. Len(up[c]) :
         i < j /\ up[c][j].kind = "MSG" => up[c][i].chat.no < up[c][j].chat.no

\* What is in a stream was sent before the requests that are still on their way,
\* between clients that had logged in.
Said ==
  \A c \in User : \A i \in Lines(Stream[c]) :
    LET x == Stream[c][i]
    IN  /\ conn[x.from] # "none" /\ conn[x.to] # "none"
        /\ x.no <= sends
        /\ \A j \in 1 .. Len(up[x.from]) :
             up[x.from][j].kind = "MSG" => x.no < up[x.from][j].chat.no

\* A client whose connection is open has all of its conversations.
Hearing ==
  \A c, d \in User : c # d /\ d \notin missed /\ conn[d] = "open" => Hears(Stream, c, d)

\* Of two clients that missed nothing one has the beginning of what the other has.
Trailing == \A c, d \in User : c # d /\ {c, d} \cap missed = {} => Behind(Stream, c, d)

\* Who is listed has logged in.
Joined == \A c \in listed : conn[c] # "none"

\* The inductive invariant: what is behind the conversations being the same.
SInv ==
  /\ OwnRequests /\ Said /\ BySender(Stream) /\ OneOrder(Stream)
  /\ Hearing /\ Trailing /\ Joined

-----------------------------------------------------------------------------
(* A chat is not NoChat. *)
LEMMA ChatIsChat == NoChat \notin Chats
<1>1. ASSUME NEW x \in Chats PROVE x # NoChat
  <2>1. DOMAIN x = {"from", "to", "no"}
    BY DEF Chats
  <2>2. DOMAIN NoChat = {}
    BY DEF NoChat
  <2> QED
    BY <2>1, <2>2
<1> QED
  BY <1>1

\* t is s without some places, and has all chat messages of s if whole; g says
\* where a place of t was in s.
Narrowed(s, t, g, whole) ==
  /\ DOMAIN s \subseteq Nat /\ DOMAIN t \subseteq Nat
  /\ \A i \in Lines(t) : g[i] \in Lines(s) /\ t[i] = s[g[i]]
  /\ \A i, j \in Lines(t) : i < j => g[i] < g[j]
  /\ whole => \A i \in Lines(s) : \E k \in Lines(t) : g[k] = i

(* Nothing is left out of s itself. *)
LEMMA NarrowedSelf ==
  ASSUME NEW s, DOMAIN s \subseteq Nat, NEW whole
  PROVE  \E g : Narrowed(s, s, g, whole)
<1> DEFINE g == [i \in DOMAIN s |-> i]
<1>1. \A i \in Lines(s) : i \in DOMAIN s /\ g[i] = i
  BY DEF Lines
<1> HIDE DEF g
<1>2. Narrowed(s, s, g, whole)
  BY <1>1 DEF Narrowed
<1> QED
  BY <1>2

(* A stream without some of its messages. *)
LEMMA NarrowedOrders ==
  ASSUME NEW S, NEW T, BySender(S), OneOrder(S),
         \A c \in User : \E g, whole : Narrowed(S[c], T[c], g, whole)
  PROVE  BySender(T) /\ OneOrder(T)
<1>1. BySender(T)
  <2> SUFFICES ASSUME NEW c \in User, NEW i \in Lines(T[c]), NEW j \in Lines(T[c]),
                      i < j, T[c][i].from = T[c][j].from
               PROVE  T[c][i].no < T[c][j].no
    BY DEF BySender
  <2>1. PICK g, whole : Narrowed(S[c], T[c], g, whole)
    OBVIOUS
  <2>2. /\ g[i] \in Lines(S[c]) /\ g[j] \in Lines(S[c]) /\ g[i] < g[j]
        /\ T[c][i] = S[c][g[i]] /\ T[c][j] = S[c][g[j]]
    BY <2>1 DEF Narrowed
  <2> QED
    BY <2>2 DEF BySender
<1>2. OneOrder(T)
  <2> SUFFICES ASSUME NEW c \in User, NEW d \in User, c # d,
                      NEW i \in Lines(T[c]), NEW j \in Lines(T[c]),
                      NEW k \in Lines(T[d]), NEW l \in Lines(T[d]),
                      i < j, T[c][i] = T[d][k], T[c][j] = T[d][l]
               PROVE  k < l
    BY DEF OneOrder
  <2>1. PICK g, whole : Narrowed(S[c], T[c], g, whole)
    OBVIOUS
  <2>2. PICK h, all : Narrowed(S[d], T[d], h, all)
    OBVIOUS
  <2>3. /\ g[i] \in Lines(S[c]) /\ g[j] \in Lines(S[c]) /\ g[i] < g[j]
        /\ T[c][i] = S[c][g[i]] /\ T[c][j] = S[c][g[j]]
    BY <2>1 DEF Narrowed
  <2>4. /\ h[k] \in Lines(S[d]) /\ h[l] \in Lines(S[d])
        /\ T[d][k] = S[d][h[k]] /\ T[d][l] = S[d][h[l]]
        /\ k \in Nat /\ l \in Nat /\ h[k] \in Nat /\ h[l] \in Nat
        /\ l < k => h[l] < h[k]
    BY <2>2 DEF Narrowed, Lines
  <2>5. S[c][g[i]] = S[d][h[k]] /\ S[c][g[j]] = S[d][h[l]]
    BY <2>3, <2>4
  <2>6. \A p, q \in Lines(S[c]), m, n \in Lines(S[d]) :
          p < q /\ S[c][p] = S[d][m] /\ S[c][q] = S[d][n] => m < n
    BY DEF OneOrder
  <2>7. h[k] < h[l]
    BY <2>3, <2>4, <2>5, <2>6
  <2> QED
    BY <2>4, <2>7
<1> QED
  BY <1>1, <1>2

(* If d has all that c has of their conversation, it does after messages were taken *)
(* from both streams, none of them of d's chat messages.                          *)
LEMMA NarrowedHears ==
  ASSUME NEW S, NEW T, NEW c \in User, NEW d \in User, Hears(S, c, d),
         NEW g, NEW whole, Narrowed(S[c], T[c], g, whole),
         NEW h, Narrowed(S[d], T[d], h, TRUE)
  PROVE  Hears(T, c, d)
<1> SUFFICES ASSUME NEW i \in Lines(T[c]), Parties(T[c][i]) = {c, d}
             PROVE  \E k \in Lines(T[d]) : T[d][k] = T[c][i]
  BY DEF Hears
<1>1. g[i] \in Lines(S[c]) /\ T[c][i] = S[c][g[i]]
  BY DEF Narrowed
<1>2. PICK m \in Lines(S[d]) : S[d][m] = S[c][g[i]]
  BY <1>1 DEF Hears
<1>3. PICK k \in Lines(T[d]) : h[k] = m
  BY DEF Narrowed
<1>4. T[d][k] = S[d][m]
  BY <1>3 DEF Narrowed
<1> QED
  BY <1>1, <1>2, <1>4

(* If c is ahead of d only at its end, it is after messages were taken from both   *)
(* streams that are no chat messages.                                               *)
LEMMA NarrowedBehind ==
  ASSUME NEW S, NEW T, NEW c \in User, NEW d \in User, Behind(S, c, d),
         NEW g, Narrowed(S[c], T[c], g, TRUE),
         NEW h, Narrowed(S[d], T[d], h, TRUE)
  PROVE  Behind(T, c, d)
<1> SUFFICES ASSUME NEW i \in Lines(T[c]), Parties(T[c][i]) = {c, d},
                    \A k \in Lines(T[d]) : T[d][k] # T[c][i],
                    NEW l \in Lines(T[d]), Parties(T[d][l]) = {c, d}
             PROVE  \E j \in Lines(T[c]) : j < i /\ T[c][j] = T[d][l]
  BY DEF Behind
<1>1. g[i] \in Lines(S[c]) /\ T[c][i] = S[c][g[i]]
  BY DEF Narrowed
<1>2. h[l] \in Lines(S[d]) /\ T[d][l] = S[d][h[l]]
  BY DEF Narrowed
<1>3. ASSUME NEW m \in Lines(S[d]) PROVE S[d][m] # S[c][g[i]]
  <2>1. PICK k \in Lines(T[d]) : h[k] = m
    BY DEF Narrowed
  <2>2. T[d][k] = S[d][m]
    BY <2>1 DEF Narrowed
  <2> QED
    BY <1>1, <2>2
<1>4. PICK m \in Lines(S[c]) : m < g[i] /\ S[c][m] = S[d][h[l]]
  BY <1>1, <1>2, <1>3 DEF Behind
<1>5. PICK j \in Lines(T[c]) : g[j] = m
  BY DEF Narrowed
<1>6. T[c][j] = S[c][m]
  BY <1>5 DEF Narrowed
<1>7. /\ i \in Nat /\ j \in Nat /\ g[i] \in Nat /\ g[j] \in Nat
      /\ i < j => g[i] < g[j]
  BY DEF Narrowed, Lines
<1>8. j < i
  BY <1>4, <1>5, <1>7
<1> QED
  BY <1>2, <1>4, <1>6, <1>8

\* t is s with the chat message x behind it, at end.
Appended(s, t, x, end) ==
  /\ end \in Nat /\ DOMAIN s \subseteq Nat
  /\ Lines(t) = Lines(s) \cup {end} /\ t[end] = x
  /\ \A i \in Lines(s) : i < end /\ t[i] = s[i]

\* T is S with x behind the streams of those in at.
Spread(S, T, x, at, end) ==
  \A d \in User : IF d \in at THEN Appended(S[d], T[d], x, end[d]) ELSE T[d] = S[d]

\* x is later than all that its sender sent.
Latest(S, x) ==
  \A d \in User : \A i \in Lines(S[d]) : S[d][i].from = x.from => S[d][i].no < x.no

(* A message that is later than all of its sender's keeps the orders. *)
LEMMA SpreadOrders ==
  ASSUME NEW S, NEW T, NEW x \in Chats, NEW at, NEW end, Spread(S, T, x, at, end),
         Latest(S, x), BySender(S), OneOrder(S)
  PROVE  BySender(T) /\ OneOrder(T)
<1>1. ASSUME NEW d \in User, NEW i \in Lines(T[d])
      PROVE  \/ i \in Lines(S[d]) /\ T[d][i] = S[d][i]
             \/ d \in at /\ i = end[d] /\ T[d][i] = x
  BY DEF Spread, Appended
<1>2. ASSUME NEW d \in User, NEW i \in Lines(S[d])
      PROVE  S[d][i] # x
  <2>1. x.no \in Int
    BY DEF Chats
  <2> QED
    BY <2>1 DEF Latest
<1>3. ASSUME NEW d \in User, d \in at, NEW i \in Lines(S[d])
      PROVE  i < end[d] /\ i \in Nat /\ end[d] \in Nat
  BY <1>3 DEF Spread, Appended, Lines
<1>4. BySender(T)
  <2> SUFFICES ASSUME NEW c \in User, NEW i \in Lines(T[c]), NEW j \in Lines(T[c]),
                      i < j, T[c][i].from = T[c][j].from
               PROVE  T[c][i].no < T[c][j].no
    BY DEF BySender
  <2>1. CASE i \in Lines(S[c]) /\ T[c][i] = S[c][i]
    <3>1. CASE j \in Lines(S[c]) /\ T[c][j] = S[c][j]
      BY <2>1, <3>1 DEF BySender
    <3>2. CASE T[c][j] = x
      BY <2>1, <3>2 DEF Latest
    <3> QED
      BY <1>1, <3>1, <3>2
  <2>2. CASE c \in at /\ i = end[c]
    <3>1. j = end[c] \/ j \in Lines(S[c])
      BY <1>1
    <3>2. end[c] \in Nat
      BY <2>2 DEF Spread, Appended
    <3>3. j \in Nat /\ ~(i < j)
      BY <1>3, <2>2, <3>1, <3>2
    <3> QED
      BY <3>3
  <2> QED
    BY <1>1, <2>1, <2>2
<1>5. OneOrder(T)
  <2> SUFFICES ASSUME NEW c \in User, NEW d \in User, c # d,
                      NEW i \in Lines(T[c]), NEW j \in Lines(T[c]),
                      NEW k \in Lines(T[d]), NEW l \in Lines(T[d]),
                      i < j, T[c][i] = T[d][k], T[c][j] = T[d][l]
               PROVE  k < l
    BY DEF OneOrder
  <2>1. i \in Lines(S[c]) /\ T[c][i] = S[c][i]
    <3>1. CASE c \in at /\ i = end[c]
      <4>1. j = end[c] \/ j \in Lines(S[c])
        BY <1>1
      <4>2. end[c] \in Nat
        BY <3>1 DEF Spread, Appended
      <4>3. j \in Nat /\ ~(i < j)
        BY <1>3, <3>1, <4>1, <4>2
      <4> QED
        BY <4>3
    <3> QED
      BY <1>1, <3>1
  <2>2. k \in Lines(S[d]) /\ T[d][k] = S[d][k]
    <3>1. T[d][k] # x
      BY <1>2, <2>1
    <3> QED
      BY <1>1, <3>1
  <2>3. CASE l \in Lines(S[d]) /\ T[d][l] = S[d][l]
    <3>1. j \in Lines(S[c]) /\ T[c][j] = S[c][j]
      BY <1>1, <1>2, <2>3
    <3>2. S[c][i] = S[d][k] /\ S[c][j] = S[d][l]
      BY <2>1, <2>2, <2>3, <3>1
    <3> QED
      BY <2>1, <2>2, <2>3, <3>1, <3>2 DEF OneOrder
  <2>4. CASE d \in at /\ l = end[d]
    BY <1>3, <2>2, <2>4
  <2> QED
    BY <1>1, <2>3, <2>4
<1> QED
  BY <1>4, <1>5

(* d still has all that c has if c gets the message only with d. *)
LEMMA SpreadHears ==
  ASSUME NEW S, NEW T, NEW x \in Chats, NEW at, NEW end, Spread(S, T, x, at, end),
         NEW c \in User, NEW d \in User, Hears(S, c, d),
         Parties(x) = {c, d} /\ c \in at => d \in at
  PROVE  Hears(T, c, d)
<1> SUFFICES ASSUME NEW i \in Lines(T[c]), Parties(T[c][i]) = {c, d}
             PROVE  \E k \in Lines(T[d]) : T[d][k] = T[c][i]
  BY DEF Hears
<1>1. CASE i \in Lines(S[c]) /\ T[c][i] = S[c][i]
  <2>1. PICK k \in Lines(S[d]) : S[d][k] = S[c][i]
    BY <1>1 DEF Hears
  <2>2. k \in Lines(T[d]) /\ T[d][k] = S[d][k]
    BY DEF Spread, Appended
  <2> QED
    BY <1>1, <2>1, <2>2
<1> QED
  BY <1>1 DEF Spread, Appended

(* c is still ahead of d only at its end if d gets no message before it has all that *)
(* c has, and the same the other way round.                                          *)
LEMMA SpreadBehind ==
  ASSUME NEW S, NEW T, NEW x \in Chats, NEW at, NEW end, Spread(S, T, x, at, end),
         NEW c \in User, NEW d \in User, Behind(S, c, d),
         Parties(x) = {c, d} => /\ d \in at => Hears(S, c, d)
                                /\ c \in at => Hears(S, d, c)
  PROVE  Behind(T, c, d)
<1> SUFFICES ASSUME NEW i \in Lines(T[c]), Parties(T[c][i]) = {c, d},
                    \A k \in Lines(T[d]) : T[d][k] # T[c][i],
                    NEW l \in Lines(T[d]), Parties(T[d][l]) = {c, d}
             PROVE  \E j \in Lines(T[c]) : j < i /\ T[c][j] = T[d][l]
  BY DEF Behind
<1>1. ASSUME NEW e \in User, NEW k \in Lines(S[e])
      PROVE  k \in Lines(T[e]) /\ T[e][k] = S[e][k]
  BY DEF Spread, Appended
<1>2. ASSUME NEW e \in User, NEW k \in Lines(T[e])
      PROVE  \/ k \in Lines(S[e]) /\ T[e][k] = S[e][k]
             \/ e \in at /\ k = end[e] /\ T[e][k] = x
  BY DEF Spread, Appended
<1>3. CASE Parties(x) = {c, d} /\ d \in at
  <2>1. T[c][i] # x
    BY <1>3 DEF Spread, Appended
  <2>2. i \in Lines(S[c]) /\ T[c][i] = S[c][i]
    BY <1>2, <2>1
  <2>3. \E k \in Lines(S[d]) : S[d][k] = S[c][i]
    BY <1>3, <2>2 DEF Hears
  <2> QED
    BY <1>1, <2>2, <2>3
<1>4. CASE ~(Parties(x) = {c, d} /\ d \in at)
  <2>1. l \in Lines(S[d]) /\ T[d][l] = S[d][l]
    BY <1>2, <1>4
  <2>2. CASE i \in Lines(S[c]) /\ T[c][i] = S[c][i]
    <3>1. \A k \in Lines(S[d]) : S[d][k] # S[c][i]
      BY <1>1, <2>2
    <3>2. PICK j \in Lines(S[c]) : j < i /\ S[c][j] = S[d][l]
      BY <2>1, <2>2, <3>1 DEF Behind
    <3> QED
      BY <1>1, <2>1, <3>2
  <2>3. CASE c \in at /\ i = end[c] /\ T[c][i] = x
    <3>1. Hears(S, d, c) /\ Parties(S[d][l]) = {d, c}
      BY <2>1, <2>3
    <3>2. PICK j \in Lines(S[c]) : S[c][j] = S[d][l]
      BY <2>1, <3>1 DEF Hears
    <3>3. j < i
      BY <2>3 DEF Spread, Appended
    <3> QED
      BY <1>1, <2>1, <3>2, <3>3
  <2> QED
    BY <1>2, <2>2, <2>3
<1> QED
  BY <1>3, <1>4

\* t has seen, with s chats, then those of kept, with l messages, then those of sent, with m.
InPlaces(t, seen, kept, sent, s, l, m) ==
  /\ DOMAIN t = 1 .. s + l + m
  /\ \A i \in 1 .. s : t[i] = seen[i] /\ t[i] \in Chats
  /\ \A i \in 1 .. l : t[s + i] = kept[i].chat
  /\ \A i \in 1 .. m : t[s + l + i] = sent[i].chat

(* The places of a stream. *)
LEMMA StreamPlaces ==
  ASSUME NEW seen \in Seq(Chats), NEW kept \in Seq(Replies), NEW sent \in Seq(Replies),
         NEW t, t = StreamOf(seen, kept, sent),
         NEW s \in Nat, NEW l \in Nat, NEW m \in Nat,
         s = Len(seen), l = Len(kept), m = Len(sent)
  PROVE  InPlaces(t, seen, kept, sent, s, l, m)
<1>2. t = [i \in 1 .. (s + l) + m |->
             IF i <= s THEN seen[i]
             ELSE IF i <= s + l THEN kept[i - s].chat ELSE sent[i - (s + l)].chat]
  BY DEF StreamOf
<1>3. \A i \in 1 .. s : t[i] = seen[i]
  BY <1>2
<1>4. ASSUME NEW i \in 1 .. l
      PROVE  t[s + i] = kept[i].chat
  BY <1>2
<1>5. ASSUME NEW i \in 1 .. m
      PROVE  t[(s + l) + i] = sent[i].chat
  <2> DEFINE p == (s + l) + i
  <2>1. p \in 1 .. (s + l) + m /\ ~(p <= s) /\ ~(p <= s + l) /\ p - (s + l) = i
    OBVIOUS
  <2> HIDE DEF p
  <2>2. t[p] = sent[i].chat
    BY <1>2, <2>1
  <2> QED
    BY <2>2 DEF p
<1>6. DOMAIN t = 1 .. (s + l) + m
  BY <1>2
<1>7. /\ \A i \in 1 .. s : t[i] = seen[i] /\ t[i] \in Chats
      /\ \A i \in 1 .. l : t[s + i] = kept[i].chat
      /\ \A i \in 1 .. m : t[(s + l) + i] = sent[i].chat
  BY <1>3, <1>4, <1>5
<1> QED
  BY <1>6, <1>7 DEF InPlaces

(* The same, of the stream of a client. *)
LEMMA StreamFacts ==
  ASSUME Types, NEW c \in User
  PROVE  /\ Len(shown[c]) \in Nat /\ Len(localBuffer[c]) \in Nat /\ Len(down[c]) \in Nat
         /\ DOMAIN Stream[c] = 1 .. Len(shown[c]) + Len(localBuffer[c]) + Len(down[c])
         /\ \A i \in 1 .. Len(shown[c]) : Stream[c][i] = shown[c][i] /\ Stream[c][i] \in Chats
         /\ \A i \in 1 .. Len(localBuffer[c]) :
              Stream[c][Len(shown[c]) + i] = localBuffer[c][i].chat
         /\ \A i \in 1 .. Len(down[c]) :
              Stream[c][Len(shown[c]) + Len(localBuffer[c]) + i] = down[c][i].chat
<1> DEFINE s == Len(shown[c])
           l == Len(localBuffer[c])
           m == Len(down[c])
<1>1. /\ shown[c] \in Seq(Chats) /\ localBuffer[c] \in Seq(Replies) /\ down[c] \in Seq(Replies)
      /\ Stream[c] = StreamOf(shown[c], localBuffer[c], down[c])
  BY DEF Types, Stream
<1>2. /\ s = Len(shown[c]) /\ l = Len(localBuffer[c]) /\ m = Len(down[c])
      /\ s \in Nat /\ l \in Nat /\ m \in Nat
  OBVIOUS
<1> HIDE DEF s, l, m
<1>3. InPlaces(Stream[c], shown[c], localBuffer[c], down[c], s, l, m)
  BY <1>1, <1>2, StreamPlaces
<1>4. /\ DOMAIN Stream[c] = 1 .. s + l + m
      /\ \A i \in 1 .. s : Stream[c][i] = shown[c][i] /\ Stream[c][i] \in Chats
      /\ \A i \in 1 .. l : Stream[c][s + i] = localBuffer[c][i].chat
      /\ \A i \in 1 .. m : Stream[c][s + l + i] = down[c][i].chat
  BY <1>3 DEF InPlaces
<1> QED
  BY <1>2, <1>4 DEF s, l, m

\* The first p[c] places of c's conversation with d.
First(S, p, c, d) == {i \in Lines(S[c]) : i <= p[c] /\ Parties(S[c][i]) = {c, d}}

\* What c has in its first places of the conversation is the beginning of what d has.
Begins(S, p, c, d) ==
  \A i \in First(S, p, c, d) :
    \E k \in First(S, p, d, c) :
      /\ S[d][k] = S[c][i]
      /\ \A l \in First(S, p, d, c) :
           l < k => \E j \in First(S, p, c, d) : j < i /\ S[c][j] = S[d][l]

(* Of the first places of two streams one is the beginning of the other. *)
LEMMA FirstComparable ==
  ASSUME NEW S, NEW p \in [User -> Nat], \A c \in User : DOMAIN S[c] \subseteq Nat,
         BySender(S), OneOrder(S), NEW a \in User, NEW b \in User, a # b,
         Behind(S, a, b), Behind(S, b, a)
  PROVE  Begins(S, p, a, b) \/ Begins(S, p, b, a)
<1>1. ASSUME NEW c \in User, NEW i \in Lines(S[c]), NEW j \in Lines(S[c]), S[c][i] = S[c][j]
      PROVE  i = j
  <2>1. i \in Nat /\ j \in Nat /\ S[c][i].no \in Int
    BY DEF Lines, Chats
  <2>2. ~(i < j) /\ ~(j < i)
    BY <1>1, <2>1 DEF BySender
  <2> QED
    BY <2>1, <2>2
<1>2. ASSUME NEW c \in User, NEW d \in User, c # d, Behind(S, d, c),
             NEW i \in First(S, p, c, d), NEW k \in First(S, p, d, c), S[d][k] = S[c][i],
             NEW l \in First(S, p, d, c), l < k
      PROVE  \E j \in First(S, p, c, d) : j < i /\ S[c][j] = S[d][l]
  <2>1. /\ i \in Lines(S[c]) /\ k \in Lines(S[d]) /\ l \in Lines(S[d])
        /\ i \in Nat /\ k \in Nat /\ l \in Nat /\ i <= p[c] /\ p[c] \in Nat
        /\ Parties(S[c][i]) = {c, d} /\ Parties(S[d][l]) = {c, d} /\ {c, d} = {d, c}
    BY DEF First, Lines
  <2>2. PICK j \in Lines(S[c]) : S[c][j] = S[d][l]
    <3>1. ASSUME \A j \in Lines(S[c]) : S[c][j] # S[d][l]
          PROVE  FALSE
      <4>1. PICK m \in Lines(S[d]) : m < l /\ S[d][m] = S[c][i]
        BY <1>2, <2>1, <3>1 DEF Behind
      <4>2. m = k
        BY <1>1, <1>2, <2>1, <4>1
      <4> QED
        BY <1>2, <2>1, <4>1, <4>2
    <3> QED
      BY <3>1
  <2>3. \A q, r \in Lines(S[d]), m, n \in Lines(S[c]) :
          q < r /\ S[d][q] = S[c][m] /\ S[d][r] = S[c][n] => m < n
    BY <1>2 DEF OneOrder
  <2>4. j < i
    BY <1>2, <2>1, <2>2, <2>3
  <2>5. j \in Nat /\ j <= p[c]
    BY <2>1, <2>4 DEF Lines
  <2>6. j \in First(S, p, c, d)
    BY <2>2, <2>5 DEF First
  <2> QED
    BY <2>2, <2>4, <2>6
<1>3. ASSUME NEW x \in First(S, p, a, b), \A k \in First(S, p, b, a) : S[b][k] # S[a][x],
             NEW y \in First(S, p, b, a), \A k \in First(S, p, a, b) : S[a][k] # S[b][y]
      PROVE  FALSE
  <2>1. /\ x \in Lines(S[a]) /\ y \in Lines(S[b]) /\ x \in Nat /\ y \in Nat
        /\ x <= p[a] /\ y <= p[b] /\ p[a] \in Nat /\ p[b] \in Nat
        /\ Parties(S[a][x]) = {a, b} /\ Parties(S[b][y]) = {a, b} /\ {a, b} = {b, a}
    BY DEF First, Lines
  <2>2. PICK k \in Lines(S[b]) : S[b][k] = S[a][x]
    <3>1. ASSUME \A k \in Lines(S[b]) : S[b][k] # S[a][x]
          PROVE  FALSE
      <4>1. PICK j \in Lines(S[a]) : j < x /\ S[a][j] = S[b][y]
        BY <2>1, <3>1 DEF Behind
      <4>2. j \in First(S, p, a, b)
        BY <2>1, <4>1 DEF First, Lines
      <4> QED
        BY <1>3, <4>1, <4>2
    <3> QED
      BY <3>1
  <2>3. PICK l \in Lines(S[a]) : S[a][l] = S[b][y]
    <3>1. ASSUME \A l \in Lines(S[a]) : S[a][l] # S[b][y]
          PROVE  FALSE
      <4>1. PICK j \in Lines(S[b]) : j < y /\ S[b][j] = S[a][x]
        BY <2>1, <3>1 DEF Behind
      <4>2. j \in First(S, p, b, a)
        BY <2>1, <4>1 DEF First, Lines
      <4> QED
        BY <1>3, <4>1, <4>2
    <3> QED
      BY <3>1
  <2>4. k \in Nat /\ l \in Nat /\ ~(k <= p[b]) /\ ~(l <= p[a])
    <3>1. k \in Nat /\ l \in Nat
      BY DEF Lines
    <3>2. ~(k <= p[b])
      BY <1>3, <2>2 DEF First
    <3>3. ~(l <= p[a])
      BY <1>3, <2>3 DEF First
    <3> QED
      BY <3>1, <3>2, <3>3
  <2>5. \A q, r \in Lines(S[a]), m, n \in Lines(S[b]) :
          q < r /\ S[a][q] = S[b][m] /\ S[a][r] = S[b][n] => m < n
    BY DEF OneOrder
  <2>6. x < l
    BY <2>1, <2>4
  <2>7. k < y
    BY <2>1, <2>2, <2>3, <2>5, <2>6
  <2> QED
    BY <2>1, <2>4, <2>7
<1>4. CASE \A i \in First(S, p, a, b) : \E k \in First(S, p, b, a) : S[b][k] = S[a][i]
  BY <1>2, <1>4 DEF Begins
<1>5. CASE \A i \in First(S, p, b, a) : \E k \in First(S, p, a, b) : S[a][k] = S[b][i]
  BY <1>2, <1>5 DEF Begins
<1> QED
  BY <1>3, <1>4, <1>5

(* If the streams are sound, two clients have shown the same conversation. *)
LEMMA SameFromStreams ==
  ASSUME Types, SInv
  PROVE  SameConversation
<1> DEFINE p == [c \in User |-> Len(shown[c])]
<1>1. ASSUME NEW c \in User
      PROVE  /\ DOMAIN shown[c] = 1 .. p[c] /\ p[c] \in Nat
             /\ DOMAIN Stream[c] \subseteq Nat \ {0}
             /\ \A i \in DOMAIN shown[c] : i \in Lines(Stream[c]) /\ Stream[c][i] = shown[c][i]
  <2>1. DOMAIN shown[c] = 1 .. Len(shown[c]) /\ p[c] = Len(shown[c])
    OBVIOUS
  <2>2. /\ Len(shown[c]) \in Nat /\ Len(localBuffer[c]) \in Nat /\ Len(down[c]) \in Nat
        /\ DOMAIN Stream[c] = 1 .. Len(shown[c]) + Len(localBuffer[c]) + Len(down[c])
        /\ \A i \in 1 .. Len(shown[c]) : Stream[c][i] = shown[c][i] /\ Stream[c][i] \in Chats
    BY <1>1, StreamFacts
  <2> DEFINE s == Len(shown[c])
             m == Len(localBuffer[c])
             n == Len(down[c])
  <2> HIDE DEF p
  <2>3. /\ s \in Nat /\ m \in Nat /\ n \in Nat /\ DOMAIN Stream[c] = 1 .. s + m + n
        /\ DOMAIN shown[c] = 1 .. s /\ p[c] = s
        /\ \A i \in 1 .. s : Stream[c][i] = shown[c][i] /\ Stream[c][i] \in Chats
    BY <2>1, <2>2
  <2> HIDE DEF s, m, n
  <2> QED
    BY <2>3 DEF Lines
<1>2. p \in [User -> Nat]
  OBVIOUS
<1> HIDE DEF p
<1>3. ASSUME NEW c \in User, NEW d \in User
      PROVE  First(Stream, p, c, d) = Between(c, d)
  <2>1. \A i \in Lines(Stream[c]) : i <= p[c] <=> i \in DOMAIN shown[c]
    BY <1>1 DEF Lines
  <2>2. \A i : i \in First(Stream, p, c, d) <=> i \in Between(c, d)
    BY <1>1, <1>3, <2>1 DEF First, Between, Parties
  <2> QED
    BY <2>2
<1>4. ASSUME NEW c \in User, NEW d \in User, NEW i \in Between(c, d)
      PROVE  i \in Lines(Stream[c]) /\ Stream[c][i] = shown[c][i]
  BY <1>1 DEF Between
<1> SUFFICES ASSUME NEW c \in User, NEW d \in User, c # d
             PROVE  /\ \A i, j \in Between(c, d) :
                         i < j /\ shown[c][i].from = shown[c][j].from => shown[c][i].no < shown[c][j].no
                    /\ \A i, j \in Between(c, d), k, l \in Between(d, c) :
                         i < j /\ shown[c][i] = shown[d][k] /\ shown[c][j] = shown[d][l] => k < l
                    /\ {c, d} \cap missed = {} => Beginning(c, d) \/ Beginning(d, c)
  BY DEF SameConversation
<1>5. \A i, j \in Between(c, d) :
        i < j /\ shown[c][i].from = shown[c][j].from => shown[c][i].no < shown[c][j].no
  BY <1>4 DEF SInv, BySender
<1>6. \A i, j \in Between(c, d), k, l \in Between(d, c) :
        i < j /\ shown[c][i] = shown[d][k] /\ shown[c][j] = shown[d][l] => k < l
  <2>1. \A i, j \in Lines(Stream[c]), k, l \in Lines(Stream[d]) :
          i < j /\ Stream[c][i] = Stream[d][k] /\ Stream[c][j] = Stream[d][l] => k < l
    BY DEF SInv, OneOrder
  <2> QED
    BY <1>4, <2>1
<1>7. ASSUME {c, d} \cap missed = {}
      PROVE  Beginning(c, d) \/ Beginning(d, c)
  <2>1. Behind(Stream, c, d) /\ Behind(Stream, d, c)
    BY <1>7 DEF SInv, Trailing
  <2>2. \A e \in User : DOMAIN Stream[e] \subseteq Nat
    BY <1>1
  <2>3. BySender(Stream) /\ OneOrder(Stream)
    BY DEF SInv
  <2>4. Begins(Stream, p, c, d) \/ Begins(Stream, p, d, c)
    BY <1>2, <2>1, <2>2, <2>3, FirstComparable
  <2>5. ASSUME NEW a \in User, NEW b \in User, Begins(Stream, p, a, b)
        PROVE  Beginning(a, b)
    BY <1>3, <1>4, <2>5 DEF Beginning, Begins
  <2> QED
    BY <2>4, <2>5
<1> QED
  BY <1>5, <1>6, <1>7

\* No chat message is added to a stream, and those of a client that has missed
\* none are all kept.
Narrowing ==
  \A c \in User : \E g : Narrowed(Stream[c], Stream'[c], g, c \notin missed')

\* The clients' connections go on.
Connected ==
  /\ missed \subseteq missed'
  /\ \A c \in User : /\ conn'[c] = "open" => conn[c] \in {"open", "none"}
                     /\ conn[c] # "none" => conn'[c] # "none"

\* Every chat message that is on its way to the server was, or is new.
Requested ==
  /\ sends \in Nat /\ sends' \in Nat /\ sends <= sends'
  /\ \A c \in User : \A j \in 1 .. Len(up'[c]) : up'[c][j].kind = "MSG" =>
       \/ up'[c][j].chat.no = sends + 1
       \/ \E k \in 1 .. Len(up[c]) : up[c][k] = up'[c][j]

(* The streams stay sound if nothing is added to them. *)
LEMMA NarrowingStep ==
  ASSUME Types, SInv, Narrowing, Connected, Requested, OwnRequests', Joined'
  PROVE  SInv'
<1>1. BySender(Stream') /\ OneOrder(Stream')
  <2>1. \A c \in User : \E g, whole : Narrowed(Stream[c], Stream'[c], g, whole)
    BY DEF Narrowing
  <2>2. BySender(Stream) /\ OneOrder(Stream)
    BY DEF SInv
  <2> QED
    BY <2>1, <2>2, NarrowedOrders
<1>2. Said'
  <2> SUFFICES ASSUME NEW c \in User, NEW i \in Lines(Stream'[c])
               PROVE  LET x == Stream'[c][i]
                      IN  /\ conn'[x.from] # "none" /\ conn'[x.to] # "none"
                          /\ x.no <= sends'
                          /\ \A j \in 1 .. Len(up'[x.from]) :
                               up'[x.from][j].kind = "MSG" => x.no < up'[x.from][j].chat.no
    BY DEF Said
  <2>1. PICK k \in Lines(Stream[c]) : Stream'[c][i] = Stream[c][k]
    BY DEF Narrowing, Narrowed
  <2> DEFINE x == Stream[c][k]
  <2>2. /\ conn[x.from] # "none" /\ conn[x.to] # "none" /\ x.no <= sends
        /\ \A j \in 1 .. Len(up[x.from]) :
             up[x.from][j].kind = "MSG" => x.no < up[x.from][j].chat.no
    BY DEF SInv, Said
  <2>3. x.from \in User /\ x.to \in User /\ x.no \in Int
    BY DEF Lines, Chats
  <2> HIDE DEF x
  <2>4. conn'[x.from] # "none" /\ conn'[x.to] # "none"
    BY <2>2, <2>3 DEF Connected
  <2>5. x.no <= sends' /\ x.no < sends + 1
    BY <2>2, <2>3 DEF Requested
  <2>6. \A j \in 1 .. Len(up'[x.from]) :
          up'[x.from][j].kind = "MSG" => x.no < up'[x.from][j].chat.no
    BY SMTT(30), <2>2, <2>3, <2>5 DEF Requested
  <2>7. x = Stream'[c][i]
    BY <2>1 DEF x
  <2> QED
    BY <2>4, <2>5, <2>6, <2>7
<1>3. Hearing'
  <2> SUFFICES ASSUME NEW c \in User, NEW d \in User, c # d, d \notin missed', conn'[d] = "open"
               PROVE  Hears(Stream', c, d)
    BY DEF Hearing
  <2>1. PICK g : Narrowed(Stream[c], Stream'[c], g, c \notin missed')
    BY DEF Narrowing
  <2>2. PICK h : Narrowed(Stream[d], Stream'[d], h, TRUE)
    BY DEF Narrowing
  <2>3. d \notin missed /\ conn[d] \in {"open", "none"}
    BY DEF Connected
  <2>4. CASE conn[d] = "open"
    <3>1. Hears(Stream, c, d)
      BY <2>3, <2>4 DEF SInv, Hearing
    <3> QED
      BY <2>1, <2>2, <3>1, NarrowedHears
  <2>5. CASE conn[d] = "none"
    <3>1. ASSUME NEW i \in Lines(Stream'[c]), Parties(Stream'[c][i]) = {c, d}
          PROVE  FALSE
      <4>1. g[i] \in Lines(Stream[c]) /\ Stream'[c][i] = Stream[c][g[i]]
        BY <2>1 DEF Narrowed
      <4>2. conn[Stream[c][g[i]].from] # "none" /\ conn[Stream[c][g[i]].to] # "none"
        BY <4>1 DEF SInv, Said
      <4>3. d \in Parties(Stream[c][g[i]])
        BY <3>1, <4>1
      <4> QED
        BY <2>5, <4>2, <4>3 DEF Parties
    <3> QED
      BY <3>1 DEF Hears
  <2> QED
    BY <2>3, <2>4, <2>5
<1>4. Trailing'
  <2> SUFFICES ASSUME NEW c \in User, NEW d \in User, c # d, {c, d} \cap missed' = {}
               PROVE  Behind(Stream', c, d)
    BY DEF Trailing
  <2>1. Behind(Stream, c, d)
    BY DEF SInv, Trailing, Connected
  <2>2. PICK g : Narrowed(Stream[c], Stream'[c], g, TRUE)
    BY DEF Narrowing
  <2>3. PICK h : Narrowed(Stream[d], Stream'[d], h, TRUE)
    BY DEF Narrowing
  <2> QED
    BY <2>1, <2>2, <2>3, NarrowedBehind
<1> QED
  BY <1>1, <1>2, <1>3, <1>4 DEF SInv

(* They stay sound if a chat message is added to the open streams of its parties. *)
LEMMA SpreadStep ==
  ASSUME Types, SInv, NEW x \in Chats, NEW end,
         Spread(Stream, Stream', x, {d \in Parties(x) : conn[d] = "open"}, end),
         Latest(Stream, x), conn[x.from] # "none", conn[x.to] # "none", x.no <= sends,
         \A j \in 1 .. Len(up'[x.from]) :
           up'[x.from][j].kind = "MSG" => x.no < up'[x.from][j].chat.no,
         Connected, missed' = missed, Requested, OwnRequests', Joined',
         \A d \in User : conn'[d] = "open" => conn[d] = "open"
  PROVE  SInv'
<1> DEFINE at == {d \in Parties(x) : conn[d] = "open"}
<1>1. BySender(Stream') /\ OneOrder(Stream')
  BY SMTT(30), SpreadOrders DEF SInv
<1>2. Said'
  <2> SUFFICES ASSUME NEW c \in User, NEW i \in Lines(Stream'[c])
               PROVE  LET y == Stream'[c][i]
                      IN  /\ conn'[y.from] # "none" /\ conn'[y.to] # "none"
                          /\ y.no <= sends'
                          /\ \A j \in 1 .. Len(up'[y.from]) :
                               up'[y.from][j].kind = "MSG" => y.no < up'[y.from][j].chat.no
    BY DEF Said
  <2> DEFINE y == Stream'[c][i]
  <2>1. y = x \/ \E k \in Lines(Stream[c]) : y = Stream[c][k]
    BY DEF Spread, Appended
  <2>2. CASE y = x
    <3>1. x.from \in User /\ x.to \in User /\ x.no \in Int
      BY DEF Chats
    <3>2. conn'[x.from] # "none" /\ conn'[x.to] # "none" /\ x.no <= sends'
      BY <3>1 DEF Connected, Requested
    <3> QED
      BY <2>2, <3>2
  <2>3. CASE \E k \in Lines(Stream[c]) : y = Stream[c][k]
    <3>1. PICK k \in Lines(Stream[c]) : y = Stream[c][k]
      BY <2>3
    <3>2. /\ conn[y.from] # "none" /\ conn[y.to] # "none" /\ y.no <= sends
          /\ \A j \in 1 .. Len(up[y.from]) :
               up[y.from][j].kind = "MSG" => y.no < up[y.from][j].chat.no
      BY <3>1 DEF SInv, Said
    <3>3. y.from \in User /\ y.to \in User /\ y.no \in Int
      BY DEF Lines, Chats
    <3> HIDE DEF y
    <3>4. conn'[y.from] # "none" /\ conn'[y.to] # "none"
      BY <3>2, <3>3 DEF Connected
    <3>5. y.no <= sends' /\ y.no < sends + 1
      BY <3>2, <3>3 DEF Requested
    <3>6. \A j \in 1 .. Len(up'[y.from]) :
            up'[y.from][j].kind = "MSG" => y.no < up'[y.from][j].chat.no
      BY SMTT(30), <3>2, <3>3, <3>5 DEF Requested
    <3> QED
      BY <3>4, <3>5, <3>6 DEF y
  <2> QED
    BY <2>1, <2>2, <2>3
<1>3. ASSUME NEW c \in User, NEW d \in User, c # d, d \notin missed, conn[d] = "open"
      PROVE  Hears(Stream, c, d)
  BY <1>3 DEF SInv, Hearing
<1>4. Hearing'
  <2> SUFFICES ASSUME NEW c \in User, NEW d \in User, c # d, d \notin missed', conn'[d] = "open"
               PROVE  Hears(Stream', c, d)
    BY DEF Hearing
  <2>1. conn[d] = "open" /\ Hears(Stream, c, d)
    BY <1>3
  <2> HIDE DEF at
  <2> QED
    BY <2>1, SpreadHears
<1>5. Trailing'
  <2> SUFFICES ASSUME NEW c \in User, NEW d \in User, c # d, {c, d} \cap missed' = {}
               PROVE  Behind(Stream', c, d)
    BY DEF Trailing
  <2>1. Behind(Stream, c, d) /\ c \notin missed /\ d \notin missed
    BY DEF SInv, Trailing
  <2>2. (d \in at => Hears(Stream, c, d)) /\ (c \in at => Hears(Stream, d, c))
    BY <1>3
  <2> QED
    BY <2>1, <2>2, SpreadBehind
<1> QED
  BY <1>1, <1>2, <1>4, <1>5 DEF SInv

(* A stream of which a place after the first m is left out, if e is 1, and the *)
(* places after the first m + a up to the first m + z.                         *)
LEMMA CutNarrows ==
  ASSUME NEW s, NEW t, NEW m \in Nat, NEW n \in Nat, NEW a \in Nat, NEW z \in Nat,
         NEW e \in {0, 1}, NEW whole,
         1 <= a, a <= z, z <= n,
         DOMAIN s = 1 .. m + n, DOMAIN t = 1 .. m - e + a + (n - z),
         \A i \in 1 .. m + 1 - e : t[i] = s[i],
         \A i \in 1 .. a - 1 : t[m + 1 - e + i] = s[m + 1 + i],
         \A i \in 1 .. n - z : t[m - e + a + i] = s[m + z + i],
         whole => /\ e = 1 => s[m + 1] \notin Chats
                  /\ \A i \in 1 .. z - a : s[m + a + i] \notin Chats
  PROVE  \E g : Narrowed(s, t, g, whole)
<1> DEFINE at(i) == IF i <= m + 1 - e THEN i
                    ELSE IF i <= m - e + a THEN i + e ELSE i + e + (z - a)
           g == [i \in DOMAIN t |-> at(i)]
<1>1. ASSUME NEW i \in DOMAIN t
      PROVE  at(i) \in DOMAIN s /\ t[i] = s[at(i)]
  <2>1. i \in Int /\ 1 <= i /\ i <= m - e + a + (n - z)
    OBVIOUS
  <2>3. CASE ~(i <= m + 1 - e) /\ i <= m - e + a
    <3> DEFINE k == i - (m + 1 - e)
    <3>1. k \in 1 .. a - 1 /\ m + 1 - e + k = i /\ m + 1 + k = i + e
      BY SMTT(30), <2>1, <2>3
    <3>2. t[m + 1 - e + k] = s[m + 1 + k]
      BY <3>1
    <3>3. t[i] = s[i + e]
      BY <3>1, <3>2
    <3> QED
      BY <2>3, <3>3
  <2>4. CASE ~(i <= m + 1 - e) /\ ~(i <= m - e + a)
    <3> DEFINE k == i - (m - e + a)
    <3>1. k \in 1 .. n - z
      BY <2>4
    <3>2. t[m - e + a + k] = s[m + z + k]
      BY <3>1
    <3>3. t[i] = s[i + e + (z - a)]
      BY <3>2
    <3> QED
      BY <2>4, <3>3
  <2> QED
    BY <2>3, <2>4
<1>2. \A i, j \in DOMAIN t : i < j => at(i) < at(j)
  OBVIOUS
<1>3. ASSUME whole, NEW i \in Lines(s)
      PROVE  \E k \in DOMAIN t : at(k) = i
  <2>1. i \in 1 .. m + n /\ s[i] \in Chats
    BY DEF Lines
  <2>2. CASE i <= m
    <3>1. i \in DOMAIN t /\ at(i) = i
      BY <2>1, <2>2
    <3> QED
      BY <3>1
  <2>3. CASE i = m + 1
    <3>1. e = 0
      BY <1>3, <2>1, <2>3
    <3>2. i \in DOMAIN t /\ at(i) = i
      BY <2>3, <3>1
    <3> QED
      BY <3>2
  <2>4. CASE m + 1 < i /\ i <= m + a
    <3>1. i - e \in DOMAIN t /\ at(i - e) = i
      BY SMTT(30), <2>1, <2>4
    <3> QED
      BY <3>1
  <2>5. CASE m + a < i /\ i <= m + z
    <3> DEFINE k == i - (m + a)
    <3>1. k \in 1 .. z - a /\ m + a + k = i
      BY <2>1, <2>5
    <3>2. s[m + a + k] \notin Chats
      BY <1>3, <3>1
    <3> QED
      BY <2>1, <3>2
  <2>6. CASE m + z < i
    <3>1. i - e - (z - a) \in DOMAIN t /\ at(i - e - (z - a)) = i
      BY SMTT(30), <2>1, <2>6
    <3> QED
      BY <3>1
  <2> QED
    BY <2>1, <2>2, <2>3, <2>4, <2>5, <2>6
<1>4. \A i \in DOMAIN t : g[i] = at(i)
  OBVIOUS
<1> HIDE DEF g, at
<1>5. \A i \in Lines(t) : i \in DOMAIN t /\ g[i] \in Lines(s) /\ t[i] = s[g[i]]
  BY <1>1, <1>4 DEF Lines
<1>6. \A i, j \in Lines(t) : i < j => g[i] < g[j]
  BY <1>2, <1>4 DEF Lines
<1>7. whole => \A i \in Lines(s) : \E k \in Lines(t) : g[k] = i
  <2> SUFFICES ASSUME whole, NEW i \in Lines(s) PROVE \E k \in Lines(t) : g[k] = i
    OBVIOUS
  <2>1. PICK k \in DOMAIN t : at(k) = i
    BY <1>3
  <2>2. k \in Lines(t)
    BY <1>1, <2>1 DEF Lines
  <2> QED
    BY <1>4, <2>1, <2>2
<1>9. Narrowed(s, t, g, whole)
  BY <1>5, <1>6, <1>7 DEF Narrowed
<1> QED
  BY <1>9

\* How many messages c has received and not looked at, or is sent.
Waits(c) == Len(localBuffer[c]) + Len(down[c])

\* These messages.
Waiting(c) ==
  LET b == Len(localBuffer[c])
  IN  [i \in 1 .. b + Len(down[c]) |->
         IF i <= b THEN localBuffer[c][i] ELSE down[c][i - b]]

(* The stream of c is what it has shown and what waits for it. *)
LEMMA StreamWaiting ==
  ASSUME Types, NEW c \in User
  PROVE  /\ Waits(c) \in Nat
         /\ DOMAIN Stream[c] = 1 .. Len(shown[c]) + Waits(c)
         /\ \A i \in 1 .. Waits(c) : /\ Stream[c][Len(shown[c]) + i] = Waiting(c)[i].chat
                                     /\ Waiting(c)[i] \in Replies
<1> DEFINE s == Len(shown[c])
           l == Len(localBuffer[c])
           m == Len(down[c])
<1>1. /\ s \in Nat /\ l \in Nat /\ m \in Nat
      /\ DOMAIN Stream[c] = 1 .. s + l + m
      /\ \A i \in 1 .. l : Stream[c][s + i] = localBuffer[c][i].chat
      /\ \A i \in 1 .. m : Stream[c][s + l + i] = down[c][i].chat
  BY StreamFacts
<1>2. /\ \A i \in 1 .. l : localBuffer[c][i] \in Replies
      /\ \A i \in 1 .. m : down[c][i] \in Replies
  BY DEF Types
<1>3. Waiting(c) = [i \in 1 .. l + m |-> IF i <= l THEN localBuffer[c][i] ELSE down[c][i - l]]
  BY DEF Waiting
<1> HIDE DEF s, l, m
<1>4. ASSUME NEW i \in 1 .. l + m
      PROVE  Stream[c][s + i] = Waiting(c)[i].chat /\ Waiting(c)[i] \in Replies
  <2>1. CASE i <= l
    BY <1>1, <1>2, <1>3
  <2>2. CASE ~(i <= l)
    <3> DEFINE k == i - l
    <3>1. k \in 1 .. m /\ s + l + k = s + i
      BY <1>1, <2>2
    <3>2. Stream[c][s + l + k] = down[c][k].chat /\ down[c][k] \in Replies
      BY <1>1, <1>2, <3>1
    <3>3. Waiting(c)[i] = down[c][k]
      BY <1>3, <2>2
    <3> QED
      BY <3>1, <3>2, <3>3
  <2> QED
    BY <2>1, <2>2
<1>5. l + m \in Nat /\ s + l + m = s + (l + m)
  BY <1>1
<1>6. DOMAIN Stream[c] = 1 .. s + (l + m)
  BY <1>1
<1> QED
  BY <1>4, <1>5, <1>6 DEF s, l, m, Waits

(* What Recv finds is the beginning of what waits, what it leaves is the end, and what *)
(* is lost is between them.                                                            *)
LEMMA ReceivedParts ==
  ASSUME Types, NEW c \in User, NEW r \in Received(c)
  PROVE  \E a, z \in Nat :
           /\ 1 <= a /\ a <= z /\ z <= Waits(c)
           /\ r.got \in Seq(Replies) /\ r.left \in Seq(Replies)
           /\ Len(r.got) = a /\ \A i \in 1 .. a : r.got[i] = Waiting(c)[i]
           /\ Len(r.left) = Waits(c) - z
           /\ \A i \in 1 .. Len(r.left) : r.left[i] = Waiting(c)[z + i]
           /\ \A i \in 1 .. z - a : i \in DOMAIN r.lost /\ r.lost[i] = Waiting(c)[a + i]
<1> DEFINE l == Len(localBuffer[c])
           m == Len(down[c])
<1>1. /\ localBuffer[c] \in Seq(Replies) /\ down[c] \in Seq(Replies)
      /\ l \in Nat /\ m \in Nat /\ DOMAIN down[c] = 1 .. m
  BY DEF Types
<1>2. Waiting(c) = [i \in 1 .. l + m |-> IF i <= l THEN localBuffer[c][i] ELSE down[c][i - l]]
  BY DEF Waiting
<1>5. Waits(c) = l + m
  BY DEF Waits
<1>3. CASE localBuffer[c] # <<>>
  <2>1. r = [got |-> localBuffer[c], left |-> down[c], lost |-> <<>>]
    BY <1>3 DEF Received
  <2>2. r.got = localBuffer[c] /\ r.left = down[c]
    BY <2>1
  <2>3. 1 <= l
    BY <1>3
  <2> HIDE DEF l, m
  <2>4. \A i \in 1 .. l : localBuffer[c][i] = Waiting(c)[i]
    BY <1>1, <1>2
  <2>5. ASSUME NEW i \in 1 .. m PROVE down[c][i] = Waiting(c)[l + i]
    <3>1. l + i \in 1 .. l + m /\ ~(l + i <= l) /\ (l + i) - l = i
      BY <1>1
    <3> QED
      BY <1>2, <3>1
  <2>6. Waits(c) - l = m /\ l <= l /\ l <= Waits(c) /\ 1 .. l - l = {}
    BY <1>1, <1>5
  <2>7. Len(r.got) = l /\ Len(r.left) = m
    BY <2>2 DEF l, m
  <2> QED
    BY <1>1, <2>2, <2>3, <2>4, <2>5, <2>6, <2>7
<1>4. CASE localBuffer[c] = <<>>
  <2> DEFINE zeros == {i \in DOMAIN down[c] : down[c][i].kind = "ERR0"}
             kept(k) == Min({k} \cup zeros)
  <2>1. PICK k \in DOMAIN down[c] :
          r = [got |-> SubSeq(down[c], 1, kept(k)),
               left |-> SubSeq(down[c], k + 1, Len(down[c])),
               lost |-> SubSeq(down[c], kept(k) + 1, k)]
    BY <1>4 DEF Received
  <2>2. kept(k) \in 1 .. k /\ k \in 1 .. m
    <3> DEFINE T == {k} \cup zeros
    <3>1. T \in SUBSET Nat /\ T # {} /\ k \in T /\ \A i \in T : i >= 1
      BY <1>1
    <3>2. \E j \in T : \A i \in T : j <= i
      BY <3>1, Least
    <3> HIDE DEF T
    <3>3. Min(T) \in T /\ \A i \in T : Min(T) <= i
      BY <3>2, Zenon DEF Min
    <3> QED
      BY <1>1, <3>3 DEF T
  <2> HIDE DEF kept
  <2> DEFINE a == kept(k)
  <2>3. /\ r.got = SubSeq(down[c], 1, a) /\ r.left = SubSeq(down[c], k + 1, m)
        /\ r.lost = SubSeq(down[c], a + 1, k)
    BY <2>1
  <2>4. l = 0
    BY <1>4
  <2> HIDE DEF a, l, m
  <2>5. a \in Nat /\ k \in Nat /\ 1 <= a /\ a <= k /\ k <= m
    BY <2>2 DEF a
  <2>7. /\ r.got \in Seq(Replies) /\ Len(r.got) = a
        /\ \A i \in 1 .. a : r.got[i] = down[c][i]
    <3>1. /\ SubSeq(down[c], 0 + 1, a) \in Seq(Replies) /\ Len(SubSeq(down[c], 0 + 1, a)) = a - 0
          /\ \A i \in 1 .. a - 0 : SubSeq(down[c], 0 + 1, a)[i] = down[c][0 + i]
      BY <1>1, <2>5
    <3> QED
      BY <2>3, <3>1
  <2>8. /\ r.left \in Seq(Replies) /\ Len(r.left) = m - k
        /\ \A i \in 1 .. m - k : r.left[i] = down[c][k + i]
    BY <1>1, <2>3, PartOf
  <2>9. /\ Len(r.lost) = k - a /\ r.lost \in Seq(Replies)
        /\ \A i \in 1 .. k - a : r.lost[i] = down[c][a + i]
    BY <1>1, <2>3, <2>5
  <2>10. DOMAIN r.lost = 1 .. k - a
    BY <2>9
  <2>11. \A i \in 1 .. m : Waiting(c)[i] = down[c][i]
    BY <1>1, <1>2, <2>4
  <2>12. Waits(c) = m /\ Waits(c) - k = m - k
    BY <1>1, <1>5, <2>4
  <2>13. /\ \A i \in 1 .. a : i \in 1 .. m
         /\ \A i \in 1 .. m - k : k + i \in 1 .. m
         /\ \A i \in 1 .. k - a : a + i \in 1 .. m
    BY <1>1, <2>5
  <2>14. /\ \A i \in 1 .. a : r.got[i] = Waiting(c)[i]
         /\ \A i \in 1 .. Len(r.left) : r.left[i] = Waiting(c)[k + i]
         /\ \A i \in 1 .. k - a : i \in DOMAIN r.lost /\ r.lost[i] = Waiting(c)[a + i]
    BY <2>7, <2>8, <2>9, <2>10, <2>11, <2>13
  <2>15. /\ a \in Nat /\ k \in Nat /\ 1 <= a /\ a <= k /\ k <= Waits(c)
         /\ r.got \in Seq(Replies) /\ r.left \in Seq(Replies)
         /\ Len(r.got) = a /\ \A i \in 1 .. a : r.got[i] = Waiting(c)[i]
         /\ Len(r.left) = Waits(c) - k
         /\ \A i \in 1 .. Len(r.left) : r.left[i] = Waiting(c)[k + i]
         /\ \A i \in 1 .. k - a : i \in DOMAIN r.lost /\ r.lost[i] = Waiting(c)[a + i]
    BY <2>5, <2>7, <2>8, <2>12, <2>14
  <2> QED
    BY <2>15
<1> QED
  BY <1>3, <1>4

(* A stream depends on what the client has shown, keeps and is sent. *)
LEMMA SameStream ==
  ASSUME NEW c \in User, shown'[c] = shown[c], localBuffer'[c] = localBuffer[c], down'[c] = down[c]
  PROVE  Stream'[c] = Stream[c]
BY DEF Stream

(* A stream that stays has nothing taken from it. *)
LEMMA SameNarrows ==
  ASSUME Types, NEW c \in User, Stream'[c] = Stream[c], NEW whole
  PROVE  \E g : Narrowed(Stream[c], Stream'[c], g, whole)
<1> DEFINE s == Len(shown[c])
           l == Len(localBuffer[c])
           m == Len(down[c])
<1>1. s \in Nat /\ l \in Nat /\ m \in Nat /\ DOMAIN Stream[c] = 1 .. s + l + m
  BY StreamFacts
<1> HIDE DEF s, l, m
<1>2. DOMAIN Stream[c] \subseteq Nat
  BY <1>1
<1> QED
  BY <1>2, NarrowedSelf

\* shown after r was received: the first message of r.got is shown, or it is no chat
\* message, or c misses it.
ShownFrom(c, r) ==
  \/ /\ Head(r.got).kind = "MSG"
     /\ shown' = [shown EXCEPT ![c] = Append(@, Head(r.got).chat)]
  \/ /\ Head(r.got).kind = "MSG" => c \in missed'
     /\ shown' = shown

(* Receiving takes messages from a stream, or shows the next one. *)
LEMMA RecvNarrows ==
  ASSUME MInv, Types', NEW c \in User, NEW r \in Received(c), NEW toCommand,
         Recv(c, r, toCommand), ShownFrom(c, r)
  PROVE  Narrowing
<1> DEFINE s == Len(shown[c])
           n == Waits(c)
<1>1. Types
  BY DEF MInv
<1>2. /\ s \in Nat /\ n \in Nat /\ DOMAIN Stream[c] = 1 .. s + n
      /\ \A i \in 1 .. s : Stream[c][i] = shown[c][i]
      /\ \A i \in 1 .. n : Stream[c][s + i] = Waiting(c)[i].chat /\ Waiting(c)[i] \in Replies
  BY <1>1, StreamFacts, StreamWaiting
<1>18. s = Len(shown[c])
  OBVIOUS
<1>19. \E a, z \in Nat :
        /\ 1 <= a /\ a <= z /\ z <= n
        /\ r.got \in Seq(Replies) /\ r.left \in Seq(Replies)
        /\ Len(r.got) = a /\ \A i \in 1 .. a : r.got[i] = Waiting(c)[i]
        /\ Len(r.left) = n - z
        /\ \A i \in 1 .. Len(r.left) : r.left[i] = Waiting(c)[z + i]
        /\ \A i \in 1 .. z - a : i \in DOMAIN r.lost /\ r.lost[i] = Waiting(c)[a + i]
  BY <1>1, ReceivedParts
<1> HIDE DEF s, n
<1>3. PICK a, z \in Nat :
        /\ 1 <= a /\ a <= z /\ z <= n
        /\ r.got \in Seq(Replies) /\ r.left \in Seq(Replies)
        /\ Len(r.got) = a /\ \A i \in 1 .. a : r.got[i] = Waiting(c)[i]
        /\ Len(r.left) = n - z
        /\ \A i \in 1 .. Len(r.left) : r.left[i] = Waiting(c)[z + i]
        /\ \A i \in 1 .. z - a : i \in DOMAIN r.lost /\ r.lost[i] = Waiting(c)[a + i]
  BY <1>19
<1>4. Head(r.got) = r.got[1] /\ r.got[1] = Waiting(c)[1] /\ 1 \in 1 .. n
  <2>2. 1 \in 1 .. a /\ 1 \in 1 .. n
    BY <1>2, <1>3
  <2> QED
    BY <1>3, <2>2
<1>5. /\ Tail(r.got) \in Seq(Replies) /\ Len(Tail(r.got)) = a - 1
      /\ \A i \in 1 .. a - 1 : Tail(r.got)[i] = Waiting(c)[i + 1]
  BY <1>3
<1>6. /\ localBuffer' = [localBuffer EXCEPT ![c] = Tail(r.got)]
      /\ down' = [down EXCEPT ![c] = r.left]
      /\ HasChat(r.lost) => c \in missed'
  BY DEF Recv
<1>7. /\ localBuffer'[c] = Tail(r.got) /\ down'[c] = r.left
      /\ \A d \in User : d # c => /\ localBuffer'[d] = localBuffer[d] /\ down'[d] = down[d]
                                  /\ shown'[d] = shown[d]
  BY <1>6 DEF Types, ShownFrom
<1>14. /\ shown'[c] \in Seq(Chats) /\ localBuffer'[c] \in Seq(Replies) /\ down'[c] \in Seq(Replies)
       /\ Stream'[c] = StreamOf(shown'[c], localBuffer'[c], down'[c])
  BY DEF Types, Stream
<1>8. PICK e \in {0, 1} :
        /\ e = 0 => /\ Len(shown'[c]) = s + 1 /\ shown'[c][s + 1] = Head(r.got).chat
                    /\ \A i \in 1 .. s : shown'[c][i] = shown[c][i]
        /\ e = 1 => /\ shown'[c] = shown[c]
                    /\ Head(r.got).kind = "MSG" => c \in missed'
  <2>1. CASE /\ Head(r.got).kind = "MSG"
             /\ shown' = [shown EXCEPT ![c] = Append(@, Head(r.got).chat)]
    <3>1. shown'[c] = Append(shown[c], Head(r.got).chat) /\ shown[c] \in Seq(Chats)
      BY <2>1 DEF Types
    <3>3. /\ Len(shown'[c]) = s + 1 /\ shown'[c][s + 1] = Head(r.got).chat
          /\ \A i \in 1 .. s : shown'[c][i] = shown[c][i]
      BY <3>1 DEF s
    <3> QED
      BY <3>3
  <2> QED
    BY <2>1 DEF ShownFrom
<1> DEFINE s1 == Len(shown'[c])
           l1 == Len(localBuffer'[c])
           m1 == Len(down'[c])
<1>9. /\ s1 = s + 1 - e /\ l1 = a - 1 /\ m1 = n - z
  <2>1. l1 = a - 1 /\ m1 = n - z
    BY <1>3, <1>7
  <2>2. s1 = s + 1 - e
    <3>1. e = 0 => s1 = s + 1 /\ s + 1 = s + 1 - e
      BY <1>8
    <3>2. e = 1 => s1 = s /\ s = s + 1 - e
      BY <1>8, <1>18
    <3> QED
      BY <3>1, <3>2
  <2> QED
    BY <2>1, <2>2
<1>17. s1 \in Nat /\ l1 \in Nat /\ m1 \in Nat
  BY <1>14, LenProperties
<1>20. s1 = Len(shown'[c]) /\ l1 = Len(localBuffer'[c]) /\ m1 = Len(down'[c])
  OBVIOUS
<1> HIDE DEF s1, l1, m1
<1>15. /\ DOMAIN Stream'[c] = 1 .. s1 + l1 + m1
       /\ \A i \in 1 .. s1 : Stream'[c][i] = shown'[c][i]
       /\ \A i \in 1 .. l1 : Stream'[c][s1 + i] = localBuffer'[c][i].chat
       /\ \A i \in 1 .. m1 : Stream'[c][s1 + l1 + i] = down'[c][i].chat
  <2>1. InPlaces(Stream'[c], shown'[c], localBuffer'[c], down'[c], s1, l1, m1)
    BY <1>14, <1>20, StreamPlaces
  <2> QED
    BY <2>1 DEF InPlaces
<1>16. \A i \in 1 .. s + 1 - e : Stream'[c][i] = Stream[c][i]
  <2>1. CASE e = 0
    <3>1. Stream[c][s + 1] = Head(r.got).chat
      BY <1>2, <1>4
    <3>3. s + 1 - e = s + 1 /\ s1 = s + 1
      BY <1>9, <2>1
    <3>4. shown'[c][s + 1] = Stream[c][s + 1] /\ \A i \in 1 .. s : shown'[c][i] = Stream[c][i]
      BY <1>2, <1>8, <2>1, <3>1
    <3>5. \A i \in 1 .. s + 1 : Stream'[c][i] = shown'[c][i]
      BY <1>15, <3>3
    <3>6. \A i \in 1 .. s + 1 : i \in 1 .. s \/ i = s + 1
      BY <1>2
    <3> QED
      BY <3>3, <3>4, <3>5, <3>6
  <2>2. CASE e = 1
    <3>1. s1 = s /\ s + 1 - e = s
      BY <1>2, <1>9, <2>2
    <3> QED
      BY <1>2, <1>8, <1>15, <3>1
  <2> QED
    BY <2>1, <2>2
<1>10. /\ DOMAIN Stream'[c] = 1 .. s - e + a + (n - z)
       /\ \A i \in 1 .. a - 1 : Stream'[c][s + 1 - e + i] = Stream[c][s + 1 + i]
       /\ \A i \in 1 .. n - z : Stream'[c][s - e + a + i] = Stream[c][s + z + i]
  <2>1. /\ s1 + l1 + m1 = s - e + a + (n - z)
        /\ \A i \in Int : s1 + l1 + i = s - e + a + i
    <3>1. s \in Int /\ e \in Int /\ a \in Int /\ n \in Int /\ z \in Int
      BY <1>2, <1>3
    <3> QED
      BY <1>9, <1>17, <3>1
  <2>2. ASSUME NEW i \in 1 .. a - 1
        PROVE  Stream'[c][s + 1 - e + i] = Stream[c][s + 1 + i]
    <3>1. i + 1 \in 1 .. n /\ s + (i + 1) = s + 1 + i
      BY <1>2, <1>3
    <3>2. Stream'[c][s1 + i] = Tail(r.got)[i].chat
      BY <1>7, <1>9, <1>15
    <3> QED
      BY <1>2, <1>5, <1>9, <3>1, <3>2
  <2>3. ASSUME NEW i \in 1 .. n - z
        PROVE  Stream'[c][s - e + a + i] = Stream[c][s + z + i]
    <3>1. z + i \in 1 .. n /\ s + (z + i) = s + z + i /\ i \in Int
      BY <1>2
    <3>2. r.left[i].chat = Stream[c][s + (z + i)]
      BY <1>2, <1>3, <3>1
    <3>3. Stream'[c][s1 + l1 + i] = r.left[i].chat
      BY <1>7, <1>9, <1>15
    <3> QED
      BY <2>1, <3>1, <3>2, <3>3
  <2> QED
    BY <1>15, <2>1, <2>2, <2>3
<1>11. ASSUME c \notin missed'
       PROVE  /\ e = 1 => Stream[c][s + 1] \notin Chats
              /\ \A i \in 1 .. z - a : Stream[c][s + a + i] \notin Chats
  <2>1. ASSUME NEW i \in 1 .. n, Waiting(c)[i].kind # "MSG"
        PROVE  Stream[c][s + i] \notin Chats
    <3>1. Waiting(c)[i].chat = NoChat
      BY <1>2, <2>1 DEF Replies, Messages
    <3> QED
      BY <1>2, <3>1, ChatIsChat
  <2>2. ASSUME e = 1 PROVE Stream[c][s + 1] \notin Chats
    BY <1>4, <1>8, <1>11, <2>1, <2>2
  <2>3. ASSUME NEW i \in 1 .. z - a PROVE Stream[c][s + a + i] \notin Chats
    <3>1. a + i \in 1 .. n /\ s + (a + i) = s + a + i
      <4>1. i \in Int /\ 1 <= i /\ i <= z - a /\ a \in Nat /\ z \in Nat /\ z <= n
        BY <1>3
      <4> QED
        BY <1>2, <4>1
    <3>2. Waiting(c)[a + i].kind # "MSG"
      BY <1>3, <1>6, <1>11 DEF HasChat
    <3> QED
      BY <2>1, <3>1, <3>2
  <2> QED
    BY <2>2, <2>3
<1>12. \E g : Narrowed(Stream[c], Stream'[c], g, c \notin missed')
  <2> DEFINE S == Stream[c]
             T == Stream'[c]
             whole == c \notin missed'
  <2>1. /\ 1 <= a /\ a <= z /\ z <= n /\ s \in Nat /\ n \in Nat
        /\ DOMAIN S = 1 .. s + n /\ DOMAIN T = 1 .. s - e + a + (n - z)
        /\ \A i \in 1 .. s + 1 - e : T[i] = S[i]
        /\ \A i \in 1 .. a - 1 : T[s + 1 - e + i] = S[s + 1 + i]
        /\ \A i \in 1 .. n - z : T[s - e + a + i] = S[s + z + i]
        /\ whole => /\ e = 1 => S[s + 1] \notin Chats
                    /\ \A i \in 1 .. z - a : S[s + a + i] \notin Chats
    BY <1>2, <1>3, <1>10, <1>11, <1>16
  <2> HIDE DEF S, T, whole
  <2>2. \E g : Narrowed(S, T, g, whole)
    BY ZenonT(40), <2>1, CutNarrows
  <2> QED
    BY <2>2 DEF S, T, whole
<1>13. ASSUME NEW d \in User, d # c
       PROVE  \E g : Narrowed(Stream[d], Stream'[d], g, d \notin missed')
  BY <1>1, <1>7, <1>13, SameStream, SameNarrows
<1> QED
  BY <1>12, <1>13 DEF Narrowing

(* SInv is kept by receiving. *)
LEMMA RecvSInv ==
  ASSUME MInv, SInv, Types', NEW c \in User, NEW r \in Received(c), NEW toCommand,
         Recv(c, r, toCommand), ShownFrom(c, r),
         \A d \in User : /\ conn'[d] = "open" => conn[d] = "open"
                         /\ conn[d] # "none" => conn'[d] # "none"
  PROVE  SInv'
<1>1. Narrowing
  BY RecvNarrows
<1>2. Types
  BY DEF MInv
<1>3. missed \subseteq missed' /\ up' = up /\ sends' = sends /\ listed' = listed
  BY DEF Recv
<1>4. Connected
  BY <1>3 DEF Connected
<1>5. Requested
  <2>1. sends \in Nat
    BY <1>2 DEF Types
  <2> QED
    BY <1>3, <2>1 DEF Requested
<1>6. OwnRequests'
  BY <1>3 DEF SInv, OwnRequests
<1>7. Joined'
  BY <1>3 DEF SInv, Joined, Types
<1> QED
  BY <1>1, <1>2, <1>4, <1>5, <1>6, <1>7, NarrowingStep

(* SInv is kept when no stream changes. *)
LEMMA QuietSInv ==
  ASSUME Types, SInv, UNCHANGED <<shown, localBuffer, down, missed>>,
         Connected, Requested, OwnRequests', Joined'
  PROVE  SInv'
<1>1. Narrowing
  BY SameStream, SameNarrows DEF Narrowing
<1> QED
  BY <1>1, NarrowingStep

(* The connections of clients that do not log in. *)
LEMMA StillConnected ==
  ASSUME SInv, missed' = missed, listed' = listed, NEW c \in User, Types',
         \/ conn' = conn
         \/ \E unread \in BOOLEAN : Leave(c, unread)
  PROVE  Connected /\ Joined'
<1>1. \A d \in User : /\ conn'[d] = "open" => conn[d] = "open"
                      /\ conn[d] # "none" => conn'[d] # "none"
  BY DEF Leave, Types
<1>2. \A d \in listed : d \in User
  BY DEF Types
<1> QED
  BY <1>1, <1>2 DEF Connected, SInv, Joined

(* The requests, if there is no new one. *)
LEMMA NothingRequested ==
  ASSUME Types, SInv, UNCHANGED <<up, sends>>
  PROVE  Requested /\ OwnRequests'
<1>1. sends \in Nat
  BY DEF Types
<1> QED
  BY <1>1 DEF Requested, SInv, OwnRequests

(* A new request is later than the others. *)
LEMMA RequestMade ==
  ASSUME Types, SInv, NEW c \in User, NEW message \in Requests, Request(c, message),
         message.kind = "MSG" => message.chat.from = c /\ message.chat.no = sends + 1
  PROVE  Requested /\ OwnRequests'
<1>1. /\ sends \in Nat /\ sends' = sends + 1
      /\ up[c] \in Seq(Requests)
      /\ up'[c] = Append(up[c], message) /\ \A d \in User : d # c => up'[d] = up[d]
  BY DEF Types, Request
<1> DEFINE n == Len(up[c])
<1>2. /\ n \in Nat /\ Len(up'[c]) = n + 1 /\ up'[c][n + 1] = message
      /\ \A i \in 1 .. n : up'[c][i] = up[c][i]
  BY <1>1
<1>3. \A d \in User : \A i \in 1 .. Len(up[d]) : up[d][i].kind = "MSG" =>
        /\ up[d][i].chat.from = d /\ up[d][i].chat.no <= sends
        /\ \A j \in 1 .. Len(up[d]) :
             i < j /\ up[d][j].kind = "MSG" => up[d][i].chat.no < up[d][j].chat.no
  BY DEF SInv, OwnRequests
<1>4. \A d \in User : \A i \in 1 .. Len(up[d]) : up[d][i].kind = "MSG" => up[d][i].chat.no \in Int
  <2>1. \A m \in Requests : m.kind = "MSG" => m.chat \in Chats
    BY MessageFacts
  <2>2. \A d \in User : \A i \in 1 .. Len(up[d]) : up[d][i] \in Requests
    BY DEF Types
  <2> QED
    BY <2>1, <2>2 DEF Chats
<1> HIDE DEF n
<1>5. \A i \in 1 .. n + 1 : i \in 1 .. n \/ i = n + 1
  BY <1>2
<1>6. Requested
  <2>1. sends \in Nat /\ sends' \in Nat /\ sends <= sends'
    BY <1>1
  <2>2. ASSUME NEW d \in User, NEW j \in 1 .. Len(up'[d]), up'[d][j].kind = "MSG"
        PROVE  \/ up'[d][j].chat.no = sends + 1
               \/ \E k \in 1 .. Len(up[d]) : up[d][k] = up'[d][j]
    <3>1. CASE d = c
      <4>1. j \in 1 .. n \/ j = n + 1
        BY <1>2, <3>1
      <4>2. CASE j \in 1 .. n
        BY <1>2, <3>1, <4>2 DEF n
      <4>3. CASE j = n + 1
        BY <1>2, <2>2, <3>1, <4>3
      <4> QED
        BY <4>1, <4>2, <4>3
    <3>2. CASE d # c
      BY <1>1, <2>2
    <3> QED
      BY <3>1, <3>2
  <2> QED
    BY <2>1, <2>2 DEF Requested
<1>7. OwnRequests'
  <2> SUFFICES ASSUME NEW d \in User, NEW i \in 1 .. Len(up'[d]), up'[d][i].kind = "MSG"
               PROVE  /\ up'[d][i].chat.from = d /\ up'[d][i].chat.no <= sends'
                      /\ \A j \in 1 .. Len(up'[d]) :
                           i < j /\ up'[d][j].kind = "MSG" => up'[d][i].chat.no < up'[d][j].chat.no
    BY DEF OwnRequests
  <2>1. CASE d # c
    <3>1. up'[d] = up[d]
      BY <1>1, <2>1
    <3>2. \A x \in Int : x <= sends => x <= sends'
      BY <1>1
    <3> QED
      BY <1>3, <1>4, <3>1, <3>2
  <2>2. CASE d = c /\ i = n + 1
    <3>1. up'[d][i].chat.from = d /\ up'[d][i].chat.no <= sends'
      BY <1>1, <1>2, <2>2
    <3>2. \A j \in 1 .. Len(up'[d]) : ~(i < j)
      BY <1>2, <2>2
    <3> QED
      BY <3>1, <3>2
  <2>3. CASE d = c /\ i \in 1 .. n
    <3>1. i \in 1 .. Len(up[c]) /\ up'[c][i] = up[c][i] /\ up[c][i].kind = "MSG"
      BY <1>2, <2>3 DEF n
    <3>2. /\ up[c][i].chat.from = c /\ up[c][i].chat.no <= sends /\ up[c][i].chat.no \in Int
          /\ \A j \in 1 .. n :
               i < j /\ up[c][j].kind = "MSG" => up[c][i].chat.no < up[c][j].chat.no
      BY <1>3, <1>4, <3>1 DEF n
    <3>3. up[c][i].chat.no <= sends' /\ up[c][i].chat.no < sends + 1
      BY <1>1, <3>2
    <3>4. ASSUME NEW j \in 1 .. n + 1, i < j, up'[c][j].kind = "MSG"
          PROVE  up[c][i].chat.no < up'[c][j].chat.no
      <4>1. CASE j \in 1 .. n
        BY <1>2, <3>2, <3>4, <4>1
      <4>2. CASE j = n + 1
        BY <1>2, <3>3, <3>4, <4>2
      <4> QED
        BY <1>5, <4>1, <4>2
    <3> QED
      BY <1>2, <2>3, <3>2, <3>3, <3>4
  <2> QED
    BY <1>2, <2>1, <2>2, <2>3
<1> QED
  BY <1>6, <1>7

(* SInv is kept by the steps of a client that receive nothing. *)
LEMMA ClientSInv ==
  ASSUME MInv, MInv', SInv, NEW c \in User,
         \/ Login(c) \/ Interrupt(c) \/ Vanish(c) \/ Wake(c) \/ ReceiveEnd(c)
         \/ ReceiveReset(c) \/ ReceiveUneven(c)
         \/ \E command \in {"TIME", "LISTU", "BYE"} : Type(c, command)
         \/ \E to \in User : SendChat(c, to)
  PROVE  SInv'
<1>1. Types /\ Types'
  BY DEF MInv
<1>2. CASE Login(c)
  <2>1. conn[c] = "none"
    BY <1>2 DEF MInv, Ends, Login
  <2>2. conn'[c] = "open" /\ \A d \in User : d # c => conn'[d] = conn[d]
    BY <1>1, <1>2 DEF Types, Login
  <2>3. /\ UNCHANGED <<shown, localBuffer, down, missed, up, sends>>
        /\ listed' = listed \cup {c}
    BY <1>2 DEF Login, history
  <2>4. Connected
    BY <2>1, <2>2, <2>3 DEF Connected
  <2>5. Joined'
    <3>1. \A d \in listed : conn[d] # "none" /\ d \in User
      BY <1>1 DEF SInv, Joined, Types
    <3> QED
      BY <2>2, <2>3, <3>1 DEF Joined
  <2> QED
    BY <1>1, <2>3, <2>4, <2>5, NothingRequested, QuietSInv
<1>3. CASE \/ Vanish(c) \/ Wake(c) \/ ReceiveEnd(c)
           \/ ReceiveReset(c) \/ ReceiveUneven(c)
  <2>1. UNCHANGED <<shown, localBuffer, down, missed, up, sends, listed>>
    BY <1>3 DEF Vanish, Wake, ReceiveEnd, ReceiveReset, ReceiveUneven, history, client, server
  <2>2. conn' = conn \/ \E unread \in BOOLEAN : Leave(c, unread)
    BY <1>3 DEF Vanish, Wake, ReceiveEnd, ReceiveReset, ReceiveUneven, server
  <2>3. Connected /\ Joined'
    BY <1>1, <2>1, <2>2, StillConnected
  <2> QED
    BY <1>1, <2>1, <2>3, NothingRequested, QuietSInv
<1>4. CASE \/ Interrupt(c)
           \/ \E command \in {"TIME", "LISTU", "BYE"} : Type(c, command)
           \/ \E to \in User : SendChat(c, to)
  <2>1. UNCHANGED <<shown, localBuffer, down, missed, listed, conn>>
    BY <1>4 DEF Interrupt, Type, SendChat, history, client, server
  <2>2. \E message \in Requests :
          /\ Request(c, message)
          /\ message.kind = "MSG" => message.chat.from = c /\ message.chat.no = sends + 1
    <3>1. CASE Interrupt(c) \/ \E command \in {"TIME", "LISTU", "BYE"} : Type(c, command)
      <4>1. PICK command \in {"TIME", "LISTU", "BYE"} : Request(c, Message(command))
        BY <3>1 DEF Interrupt, Type
      <4>2. Message(command) \in Requests /\ Message(command).kind = command
        BY MessageFacts
      <4> QED
        BY <4>1, <4>2
    <3>2. CASE \E to \in User : SendChat(c, to)
      <4>1. PICK to \in User : SendChat(c, to)
        BY <3>2
      <4> DEFINE x == [from |-> c, to |-> to, no |-> sends + 1]
      <4>2. Request(c, ChatMessage(x)) /\ sends < MaxSend
        BY <4>1 DEF SendChat, Request
      <4>3. x \in Chats
        BY <1>1, <4>2, MaxSendAssumption DEF Types, Chats
      <4>4. ChatMessage(x) \in Requests /\ ChatMessage(x).chat = x
        BY <4>3, MessageFacts DEF ChatMessage
      <4> QED
        BY <4>2, <4>4
    <3> QED
      BY <1>4, <3>1, <3>2
  <2>3. Connected /\ Joined'
    BY <1>1, <2>1, StillConnected
  <2> QED
    BY <1>1, <2>1, <2>2, <2>3, RequestMade, QuietSInv
<1> QED
  BY <1>2, <1>3, <1>4

(* SInv is kept by the steps of a client that receive. *)
LEMMA ReceivingSInv ==
  ASSUME MInv, MInv', SInv, NEW c \in User,
         CommandAnswer(c) \/ LogoutAnswer(c) \/ ReceiveMessage(c)
  PROVE  SInv'
<1>1. Types /\ Types'
  BY DEF MInv
<1>2. PICK r \in Received(c), toCommand \in BOOLEAN :
        /\ Recv(c, r, toCommand)
        /\ ~toCommand \/ shown' = shown
        /\ toCommand \/ shown' = IF Head(r.got).kind # "MSG" THEN shown
                                 ELSE [shown EXCEPT ![c] = Append(@, Head(r.got).chat)]
        /\ conn' = conn \/ \E unread \in BOOLEAN : Leave(c, unread)
  BY DEF CommandAnswer, LogoutAnswer, LogoutEnd, ReceiveMessage
<1>3. \A d \in User : /\ conn'[d] = "open" => conn[d] = "open"
                      /\ conn[d] # "none" => conn'[d] # "none"
  BY <1>1, <1>2 DEF Leave, Types
<1>4. CASE toCommand
  <2>1. Head(r.got).kind = "MSG" => HasChat(SubSeq(r.got, 1, 1))
    BY DEF HasChat
  <2>2. Head(r.got).kind = "MSG" => c \in missed'
    BY <1>2, <1>4, <2>1 DEF Recv
  <2> QED
    BY <1>1, <1>2, <1>3, <1>4, <2>2, RecvSInv DEF ShownFrom
<1>5. CASE ~toCommand
  BY <1>1, <1>2, <1>3, <1>5, RecvSInv DEF ShownFrom
<1> QED
  BY <1>4, <1>5

(* What is sent to a client comes behind its stream. *)
LEMMA Extended ==
  ASSUME Types, Types', NEW d \in User, NEW x \in Replies,
         shown'[d] = shown[d], localBuffer'[d] = localBuffer[d], down'[d] = down[d] \o <<x>>
  PROVE  \E end \in Nat :
           /\ DOMAIN Stream[d] \subseteq Nat /\ DOMAIN Stream'[d] = DOMAIN Stream[d] \cup {end}
           /\ Stream'[d][end] = x.chat
           /\ \A i \in DOMAIN Stream[d] : i < end /\ Stream'[d][i] = Stream[d][i]
<1> DEFINE s == Len(shown[d])
           l == Len(localBuffer[d])
           m == Len(down[d])
           n == m + 1
<1>1. /\ shown[d] \in Seq(Chats) /\ localBuffer[d] \in Seq(Replies) /\ down[d] \in Seq(Replies)
      /\ down'[d] \in Seq(Replies)
  BY DEF Types
<1>3. /\ Len(down'[d]) = n /\ down'[d][n] = x
      /\ \A i \in 1 .. m : down'[d][i] = down[d][i]
  OBVIOUS
<1>4. s \in Nat /\ l \in Nat /\ m \in Nat
  OBVIOUS
<1>5. n \in Nat
  OBVIOUS
<1>6. /\ s = Len(shown[d]) /\ l = Len(localBuffer[d]) /\ m = Len(down[d]) /\ n = Len(down'[d])
  OBVIOUS
<1>7. n = m + 1
  OBVIOUS
<1> HIDE DEF s, l, m, n
<1>8. /\ Stream[d] = StreamOf(shown[d], localBuffer[d], down[d])
      /\ Stream'[d] = StreamOf(shown[d], localBuffer[d], down'[d])
  BY DEF Stream
<1>9. InPlaces(Stream[d], shown[d], localBuffer[d], down[d], s, l, m)
  BY <1>1, <1>6, <1>8, StreamPlaces
<1>10. InPlaces(Stream'[d], shown[d], localBuffer[d], down'[d], s, l, n)
  BY <1>1, <1>4, <1>5, <1>6, <1>8, StreamPlaces
<1> DEFINE end == s + l + n
<1>11. DOMAIN Stream[d] = 1 .. s + l + m /\ DOMAIN Stream'[d] = 1 .. s + l + n
  BY <1>9, <1>10 DEF InPlaces
<1>12. n \in 1 .. n /\ end \in Nat
  BY <1>4, <1>7
<1>13. Stream'[d][end] = x.chat
  <2>1. Stream'[d][s + l + n] = down'[d][n].chat
    BY <1>10, <1>12 DEF InPlaces
  <2> QED
    BY <1>3, <2>1
<1>14. ASSUME NEW i \in 1 .. s + l + m
       PROVE  Stream'[d][i] = Stream[d][i]
  <2>1. \/ i \in 1 .. s
        \/ \E j \in 1 .. l : i = s + j
        \/ \E j \in 1 .. m : i = s + l + j
    <3>1. CASE i <= s
      BY <1>4, <3>1
    <3>2. CASE s < i /\ i <= s + l
      <4>1. i - s \in 1 .. l /\ i = s + (i - s)
        BY <1>4, <3>2
      <4> QED
        BY <4>1
    <3>3. CASE s + l < i
      <4>1. i - (s + l) \in 1 .. m /\ i = s + l + (i - (s + l))
        BY <1>4, <3>3
      <4> QED
        BY <4>1
    <3> QED
      BY <1>4, <3>1, <3>2, <3>3
  <2>2. CASE i \in 1 .. s
    BY <1>9, <1>10, <2>2 DEF InPlaces
  <2>3. CASE \E j \in 1 .. l : i = s + j
    BY <1>9, <1>10, <2>3 DEF InPlaces
  <2>4. CASE \E j \in 1 .. m : i = s + l + j
    <3>1. PICK j \in 1 .. m : i = s + l + j
      BY <2>4
    <3>2. j \in 1 .. n
      BY <1>4, <1>7
    <3>3. Stream[d][i] = down[d][j].chat /\ Stream'[d][i] = down'[d][j].chat
      BY <1>9, <1>10, <3>1, <3>2 DEF InPlaces
    <3> QED
      BY <1>3, <3>3
  <2> QED
    BY <2>1, <2>2, <2>3, <2>4
<1>15. /\ 1 .. s + l + m \subseteq Nat
       /\ 1 .. s + l + n = (1 .. s + l + m) \cup {end}
       /\ \A i \in 1 .. s + l + m : i < end
  BY <1>4, <1>7
<1> HIDE DEF end
<1> QED
  BY <1>11, <1>13, <1>14, <1>15

(* Something that is no chat message, behind a stream, is no matter. *)
LEMMA ExtendedNarrows ==
  ASSUME NEW s, NEW t, NEW end \in Nat, NEW whole, DOMAIN s \subseteq Nat,
         DOMAIN t = DOMAIN s \cup {end}, t[end] \notin Chats,
         \A i \in DOMAIN s : t[i] = s[i]
  PROVE  \E g : Narrowed(s, t, g, whole)
<1> DEFINE g == [i \in DOMAIN s |-> i]
<1>1. \A i \in DOMAIN s : g[i] = i
  OBVIOUS
<1>2. Lines(t) \subseteq Lines(s) /\ Lines(s) \subseteq Lines(t) /\ Lines(s) \subseteq DOMAIN s
  BY DEF Lines
<1> HIDE DEF g
<1>4. Narrowed(s, t, g, whole)
  BY <1>1, <1>2 DEF Narrowed
<1> QED
  BY <1>4

(* The requests of the others stay, and those of c move up. *)
LEMMA HandledRequests ==
  ASSUME Types, SInv, NEW c \in User, NEW to, NEW f, Handled(c, to, f)
  PROVE  /\ up[c] \in Seq(Requests) /\ 1 \in 1 .. Len(up[c]) /\ Head(up[c]) = up[c][1]
         /\ \A d \in User : d # c => up'[d] = up[d]
         /\ \A j \in 1 .. Len(up'[c]) :
              j + 1 \in 1 .. Len(up[c]) /\ 1 < j + 1 /\ up'[c][j] = up[c][j + 1]
         /\ Requested /\ OwnRequests'
<1>1. /\ up[c] \in Seq(Requests) /\ up[c] # <<>> /\ Tail(up[c]) \in Seq(Requests)
      /\ Len(Tail(up[c])) \in Nat /\ Len(up[c]) = Len(Tail(up[c])) + 1
      /\ \A i \in 1 .. Len(Tail(up[c])) : Tail(up[c])[i] = up[c][i + 1]
      /\ Head(up[c]) = up[c][1]
  <2>1. up[c] \in Seq(Requests) /\ up[c] # <<>>
    BY DEF Types, Handled
  <2> QED
    BY <2>1
<1>2. /\ up'[c] = IF Head(up[c]).kind = "BYE" THEN <<>> ELSE Tail(up[c])
      /\ \A d \in User : d # c => up'[d] = up[d]
  BY DEF Types, Handled
<1>3. ASSUME NEW j \in 1 .. Len(up'[c])
      PROVE  j + 1 \in 1 .. Len(up[c]) /\ 1 < j + 1 /\ up'[c][j] = up[c][j + 1]
  BY <1>2
<1>5. sends' = sends /\ sends \in Nat
  BY DEF Handled, Types
<1>6. ASSUME NEW d \in User, NEW j \in 1 .. Len(up'[d])
      PROVE  \E k \in 1 .. Len(up[d]) : up[d][k] = up'[d][j]
  BY <1>2, <1>3
<1>7. Requested
  BY <1>5, <1>6 DEF Requested
<1>8. OwnRequests'
  <2> SUFFICES ASSUME NEW d \in User, NEW i \in 1 .. Len(up'[d]), up'[d][i].kind = "MSG"
               PROVE  /\ up'[d][i].chat.from = d /\ up'[d][i].chat.no <= sends
                      /\ \A j \in 1 .. Len(up'[d]) :
                           i < j /\ up'[d][j].kind = "MSG" => up'[d][i].chat.no < up'[d][j].chat.no
    BY <1>5 DEF OwnRequests
  <2>1. \A k \in 1 .. Len(up[d]) : up[d][k].kind = "MSG" =>
          /\ up[d][k].chat.from = d /\ up[d][k].chat.no <= sends
          /\ \A j \in 1 .. Len(up[d]) :
               k < j /\ up[d][j].kind = "MSG" => up[d][k].chat.no < up[d][j].chat.no
    BY DEF SInv, OwnRequests
  <2>2. CASE d # c
    BY <1>2, <2>1, <2>2
  <2>3. CASE d = c
    <3>1. i + 1 \in 1 .. Len(up[c]) /\ up'[c][i] = up[c][i + 1] /\ up[c][i + 1].kind = "MSG"
      BY <1>3, <2>3
    <3>2. /\ up[c][i + 1].chat.from = c /\ up[c][i + 1].chat.no <= sends
          /\ \A j \in 1 .. Len(up[c]) :
               i + 1 < j /\ up[c][j].kind = "MSG" => up[c][i + 1].chat.no < up[c][j].chat.no
      BY <2>1, <2>3, <3>1
    <3>3. ASSUME NEW j \in 1 .. Len(up'[c]), i < j, up'[c][j].kind = "MSG"
          PROVE  up'[c][i].chat.no < up'[c][j].chat.no
      <4>1. j + 1 \in 1 .. Len(up[c]) /\ up'[c][j] = up[c][j + 1] /\ i + 1 < j + 1
        BY <1>3, <3>3
      <4> QED
        BY <3>1, <3>2, <3>3, <4>1
    <3> QED
      BY <2>3, <3>1, <3>2, <3>3
  <2> QED
    BY <2>2, <2>3
<1> QED
  BY <1>1, <1>2, <1>7, <1>8

(* SInv is kept by the handlers. *)
LEMMA HandledSInv ==
  ASSUME MInv, MInv', SInv, NEW c \in User, NEW to, NEW f, Handled(c, to, f)
  PROVE  SInv'
<1>1. Types /\ Types'
  BY DEF MInv
<1>2. Requested /\ OwnRequests'
  BY <1>1, HandledRequests
<1>3. /\ \A d \in User : /\ conn'[d] = "open" => conn[d] = "open"
                         /\ conn[d] # "none" => conn'[d] # "none"
      /\ missed' = missed /\ sends' = sends /\ listed' \subseteq listed /\ to \subseteq User
  BY DEF Handled, Delivered
<1>4. Connected
  BY <1>3 DEF Connected
<1>5. Joined'
  <2>1. \A d \in listed : conn[d] # "none" /\ d \in User
    BY <1>1 DEF SInv, Joined, Types
  <2> QED
    BY <1>3, <2>1 DEF Joined
<1>6. ASSUME NEW d \in User, ~(d \in to /\ conn[d] = "open")
      PROVE  Stream'[d] = Stream[d]
  BY <1>6, SameStream DEF Handled, client
<1>7. ASSUME NEW d \in User, d \in to, conn[d] = "open"
      PROVE  \E end \in Nat :
               /\ DOMAIN Stream[d] \subseteq Nat /\ DOMAIN Stream'[d] = DOMAIN Stream[d] \cup {end}
               /\ Stream'[d][end] = f[d].chat
               /\ \A i \in DOMAIN Stream[d] : i < end /\ Stream'[d][i] = Stream[d][i]
  <2>1. /\ shown'[d] = shown[d] /\ localBuffer'[d] = localBuffer[d]
        /\ down'[d] = down[d] \o <<f[d]>> /\ f[d] \in Replies
    BY <1>7 DEF Handled, client
  <2> QED
    BY <1>1, <2>1, Extended
<1>8. CASE \A d \in to : f[d].chat = NoChat
  <2>1. ASSUME NEW d \in User
        PROVE  \E g : Narrowed(Stream[d], Stream'[d], g, d \notin missed)
    <3>1. CASE d \in to /\ conn[d] = "open"
      <4>1. PICK end \in Nat :
               /\ DOMAIN Stream[d] \subseteq Nat /\ DOMAIN Stream'[d] = DOMAIN Stream[d] \cup {end}
               /\ Stream'[d][end] = NoChat
               /\ \A i \in DOMAIN Stream[d] : i < end /\ Stream'[d][i] = Stream[d][i]
        BY <1>7, <1>8, <3>1
      <4> QED
        BY <4>1, ChatIsChat, ExtendedNarrows
    <3>2. CASE ~(d \in to /\ conn[d] = "open")
      BY <1>1, <1>6, <3>2, SameNarrows
    <3> QED
      BY <3>1, <3>2
  <2>2. Narrowing
    BY <1>3, <2>1 DEF Narrowing
  <2> QED
    BY <1>1, <1>2, <1>4, <1>5, <2>2, NarrowingStep
<1>9. CASE /\ Head(up[c]).kind = "MSG"
           /\ to = {Head(up[c]).chat.from, Head(up[c]).chat.to} /\ to \subseteq listed
           /\ \A d \in to : f[d].chat = Head(up[c]).chat
  <2> DEFINE x == Head(up[c]).chat
  <2>1. /\ up[c] \in Seq(Requests) /\ 1 \in 1 .. Len(up[c]) /\ Head(up[c]) = up[c][1]
        /\ \A j \in 1 .. Len(up'[c]) :
              j + 1 \in 1 .. Len(up[c]) /\ 1 < j + 1 /\ up'[c][j] = up[c][j + 1]
    BY <1>1, HandledRequests
  <2>2. x \in Chats
    BY SMTT(30), <1>9, <2>1, MessageFacts
  <2>3. /\ x.from = c /\ x.no <= sends
        /\ \A j \in 1 .. Len(up[c]) : 1 < j /\ up[c][j].kind = "MSG" => x.no < up[c][j].chat.no
    BY <1>9, <2>1 DEF SInv, OwnRequests
  <2>4. up[c][1].kind = "MSG" /\ up[c][1].chat = x
    BY SMTT(30), <1>9
  <2>5. to = Parties(x) /\ \A d \in to : f[d].chat = x
    BY <1>9 DEF Parties
  <2>6. conn[x.from] # "none" /\ conn[x.to] # "none"
    BY <1>9 DEF SInv, Joined
  <2> HIDE DEF x
  <2>7. \A j \in 1 .. Len(up'[x.from]) :
           up'[x.from][j].kind = "MSG" => x.no < up'[x.from][j].chat.no
    BY <2>1, <2>3
  <2>8. Latest(Stream, x)
    <3>1. \A d \in User : \A i \in Lines(Stream[d]) :
            Stream[d][i].from = c => Stream[d][i].no < up[c][1].chat.no
      BY <2>1, <2>4 DEF SInv, Said
    <3> QED
      BY <2>3, <2>4, <3>1 DEF Latest
  <2> DEFINE at == {d \in Parties(x) : conn[d] = "open"}
             end == [d \in User |-> CHOOSE e : Appended(Stream[d], Stream'[d], x, e)]
  <2>9. ASSUME NEW d \in User, d \in at
        PROVE  Appended(Stream[d], Stream'[d], x, end[d])
    <3>1. d \in to /\ conn[d] = "open" /\ f[d].chat = x
      BY <2>5, <2>9
    <3>2. PICK e \in Nat :
            /\ DOMAIN Stream[d] \subseteq Nat /\ DOMAIN Stream'[d] = DOMAIN Stream[d] \cup {e}
            /\ Stream'[d][e] = x
            /\ \A i \in DOMAIN Stream[d] : i < e /\ Stream'[d][i] = Stream[d][i]
      BY <1>7, <3>1
    <3>3. Appended(Stream[d], Stream'[d], x, e)
      BY <2>2, <3>2 DEF Appended, Lines
    <3> QED
      BY <3>3
  <2>10. \A d \in User : d \notin at => Stream'[d] = Stream[d]
    BY <1>6, <2>5
  <2>11. Spread(Stream, Stream', x, at, end)
    <3> HIDE DEF at, end
    <3> QED
      BY <2>9, <2>10 DEF Spread
  <2> HIDE DEF end
  <2> QED
    BY <1>1, <1>2, <1>3, <1>4, <1>5, <2>2, <2>3, <2>6, <2>7, <2>8, <2>11, SpreadStep
<1> QED
  BY <1>8, <1>9 DEF Handled, Delivered

(* At the start all streams are empty. *)
LEMMA InitSInv == Init => SInv
<1> SUFFICES ASSUME Init PROVE SInv
  OBVIOUS
<1>1. \A c \in User : shown[c] = <<>> /\ localBuffer[c] = <<>> /\ down[c] = <<>> /\ up[c] = <<>>
  BY DEF Init
<1>2. Types
  BY InitMInv DEF MInv
<1>3. \A c \in User : DOMAIN Stream[c] = {}
  <2>1. \A c \in User : DOMAIN Stream[c] = 1 .. 0 + 0 + 0
    BY <1>1, <1>2, StreamFacts
  <2> QED
    BY <2>1
<1>4. \A c \in User : Lines(Stream[c]) = {}
  BY <1>3 DEF Lines
<1>5. Said /\ BySender(Stream) /\ OneOrder(Stream) /\ Hearing /\ Trailing
  BY <1>4 DEF Said, BySender, OneOrder, Hearing, Hears, Trailing, Behind
<1>6. OwnRequests /\ Joined
  BY DEF OwnRequests, Joined, Init
<1> QED
  BY <1>5, <1>6 DEF SInv

(* Every step keeps SInv. *)
LEMMA NextSInv == MInv /\ MInv' /\ SInv /\ [Next]_vars => SInv'
<1>1. ASSUME MInv, MInv', SInv, UNCHANGED vars PROVE SInv'
  <2>1. /\ UNCHANGED <<shown, localBuffer, down, missed, up, sends, listed, conn>>
    BY <1>1 DEF vars, server, fate, client, history
  <2>2. Requested /\ OwnRequests'
    BY <1>1, <2>1, NothingRequested DEF MInv
  <2>3. Connected /\ Joined'
    BY <1>1, <2>1 DEF Connected, Joined, SInv
  <2> QED
    BY <1>1, <2>1, <2>2, <2>3, QuietSInv DEF MInv
<1>2. ASSUME MInv, MInv', SInv, NEW c \in User, Handle(c) PROVE SInv'
  <2>1. CASE ReceiveReset(c) \/ ReceiveUneven(c)
    BY <1>2, <2>1, ClientSInv
  <2>2. CASE ~(ReceiveReset(c) \/ ReceiveUneven(c))
    <3>1. PICK to, f : Handled(c, to, f)
      BY <1>2, <2>2, AnswerHandled, ChatHandled, ByeHandled DEF Handle
    <3> QED
      BY <1>2, <3>1, HandledSInv
  <2> QED
    BY <2>1, <2>2
<1>3. ASSUME MInv, MInv', SInv, NEW c \in User, ClientStep(c) PROVE SInv'
  BY <1>3, ClientSInv, ReceivingSInv DEF ClientStep
<1>4. ASSUME MInv, MInv', SInv, NEW c \in User,
             \/ Login(c) \/ Interrupt(c) \/ Vanish(c)
             \/ \E command \in {"TIME", "LISTU", "BYE"} : Type(c, command)
             \/ \E to \in User : SendChat(c, to)
      PROVE  SInv'
  BY <1>4, ClientSInv
<1> QED
  BY <1>1, <1>2, <1>3, <1>4 DEF Next

-----------------------------------------------------------------------------
(* Both invariants hold in every reachable state. *)
THEOREM StreamsInvariant == Spec => [](MInv /\ SInv)
<1>1. Init => MInv /\ SInv
  BY InitMInv, InitSInv
<1>2. (MInv /\ SInv) /\ [Next]_vars => (MInv /\ SInv)'
  BY NextMInv, NextSInv
<1> QED
  BY <1>1, <1>2, PTL DEF Spec

(* Two clients never show two messages of their conversation in different orders,   *)
(* nor those of one sender out of order, and if neither missed one, what one has    *)
(* shown is the beginning of what the other has: however recv() cuts the bytes into *)
(* calls, and however the clients come and go (sendMessageToUsers in Server.c, Recv *)
(* and its localBuffer in Wrapper.c, receiveMessage in Client.c).                   *)
THEOREM OneConversation == Spec => []SameConversation
<1>1. MInv /\ SInv => SameConversation
  BY SameFromStreams DEF MInv
<1> QED
  BY <1>1, StreamsInvariant, PTL
==============================================================================
