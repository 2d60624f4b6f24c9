------------------------------ MODULE Framing -------------------------------
(***************************************************************************)
(* Recv of Wrapper.c in the server. A connection is a stream of bytes;     *)
(* what follows a message is kept in localBuffer, one buffer for all       *)
(* threads and descriptors of the process. A login thread waits in recv()  *)
(* for its own client, the communication thread reads the descriptors that *)
(* select reports.                                                         *)
(*                                                                         *)
(* A message is a few cells: its text in two halves, of which the second   *)
(* ends with CR LF CR LF, and for the messages that clients send with      *)
(* length MAX_LEN (PASS, NEWPASS, MSG) zero bytes up to that length. A     *)
(* string function is one step that reads and one that writes.             *)
(***************************************************************************)
EXTENDS Integers, SequencesExt

CONSTANTS Client,   \* descriptors that the communication thread reads
          Guest,    \* descriptors of clients logging in, one thread for each
          Comm,     \* the communication thread
          MaxSend   \* bound: how many messages clients send together

ASSUME ConnAssumption == Client \subseteq Nat /\ Guest \subseteq Nat \ Client
ASSUME CommAssumption == Comm \notin Guest
ASSUME MaxSendAssumption == MaxSend \in Nat

Conn == Client \cup Guest
Thread == Guest \cup {Comm}
MaxLen == 4   \* cells that one recv takes, and that a padded message has
Message == [from : Conn, no : 1 .. MaxSend, padded : BOOLEAN]
\* A piece of a message on a connection, and one of a string.
Cell == [msg : Message, part : {"front", "end", "zero"}]
TextCell == [msg : Message, part : {"front", "end"}]

VARIABLES stream,       \* the cells sent on each connection and not received
          sent,         \* how many messages each client has sent
          sends,        \* and all of them together
          ended,        \* the clients that have closed their connection
          localBuffer,  \* a string: cells without zero bytes
          pc,           \* where each thread is in Recv
          buffer,       \* what recv() gave each thread
          value,        \* the string each thread has read
          ready,        \* the descriptors select reported
          crashed,      \* Recv has followed a null pointer
          alone,        \* history: every recv() got one message, all of it
          whole,        \* history: every recv() got messages, all of them
          overlapped,   \* history: two threads were using localBuffer
          arrived,      \* history: messages in the order they were buffered,
          given         \* and what Recv returned, and for which descriptor;
                        \* kept as long as whole and not overlapped

network == <<stream, sent, sends, ended>>
flags == <<alone, whole, overlapped>>
history == <<flags, arrived, given>>
vars == <<network, localBuffer, pc, buffer, value, ready, crashed, history>>

Text(m) == <<[msg |-> m, part |-> "front"], [msg |-> m, part |-> "end"]>>
Padding(m) == [i \in 1 .. MaxLen - 2 |-> [msg |-> m, part |-> "zero"]]
Cells(m) == Text(m) \o (IF m.padded THEN Padding(m) ELSE <<>>)

\* A string ends at its first zero byte.
AsString(cells) ==
  LET zeros == {i \in DOMAIN cells : cells[i].part = "zero"}
  IN  SubSeq(cells, 1, IF zeros = {} THEN Len(cells) ELSE Min(zeros) - 1)

\* strstr(string, "\r\n\r\n"): the cell with the first terminator, 0 for NULL.
Terminator(string) ==
  LET found == {i \in DOMAIN string : string[i].part = "end"}
  IN  IF found = {} THEN 0 ELSE Min(found)

Init ==
  /\ stream = [i \in Conn |-> <<>>]
  /\ sent = [i \in Conn |-> 0] /\ sends = 0
  /\ ended = {}
  /\ localBuffer = <<>>
  /\ pc = [t \in Thread |-> "idle"]
  /\ buffer = [t \in Thread |-> <<>>]
  /\ value = [t \in Thread |-> <<>>]
  /\ ready = {}
  /\ crashed = FALSE
  /\ arrived = <<>> /\ given = <<>>
  /\ alone = TRUE /\ whole = TRUE /\ overlapped = FALSE

-----------------------------------------------------------------------------
(* The clients and the network. *)

Send(i, padded) ==
  LET m == [from |-> i, no |-> sent[i] + 1, padded |-> padded]
  IN  /\ i \notin ended
      /\ whole /\ ~overlapped   \* bound
      /\ i \in Guest => stream[i] = <<>> /\ pc[i] \in {"idle", "recv"}
      /\ sends < MaxSend
      /\ sends' = sends + 1
      /\ sent' = [sent EXCEPT ![i] = @ + 1]
      /\ stream' = [stream EXCEPT ![i] = @ \o Cells(m)]
      /\ UNCHANGED <<ended, localBuffer, pc, buffer, value, ready, crashed, history>>

\* The client is gone; what it has sent can still be read.
HangUp(i) ==
  /\ whole /\ ~overlapped /\ ended = {}   \* bound: one client hangs up
  /\ ended' = {i}
  /\ UNCHANGED <<stream, sent, sends, localBuffer, pc, buffer, value, ready, crashed, history>>

-----------------------------------------------------------------------------
(* Recv, called by thread t. *)

\* The communication thread reads what select reports from the lowest up.
Descriptor(t) == IF t = Comm THEN Min(ready) ELSE t

Readable(i) == stream[i] # <<>> \/ i \in ended

\* Mutant: every client is reported, and recv() may wait.
SelectAll ==
  /\ pc[Comm] = "idle" /\ ready = {}
  /\ \E i \in Client : Readable(i)
  /\ ready' = Client
  /\ UNCHANGED <<network, localBuffer, pc, buffer, value, crashed, history>>

Select ==
  /\ pc[Comm] = "idle" /\ ready = {}
  /\ ready' = {i \in Client : Readable(i)}
  /\ UNCHANGED <<network, localBuffer, pc, buffer, value, crashed, history>>

Goto(t, from, to) ==
  /\ pc[t] = from
  /\ pc' = [pc EXCEPT ![t] = to]

\* What happened is remembered as long as the properties speak of it.
Keep ==
  /\ arrived' = IF whole' /\ ~overlapped' THEN arrived ELSE <<>>
  /\ given' = IF whole' /\ ~overlapped' THEN given ELSE <<>>

\* t uses localBuffer, from here to its last step.
Overlap(t) ==
  /\ overlapped' = (overlapped \/ \E u \in Thread \ {t} :
                                   pc[u] \in {"append", "find", "store"})
  /\ Keep

Extend(log, entries) == IF whole /\ ~overlapped THEN log \o entries ELSE <<>>

\* The string t reads is the one it goes on with.
TakeCopy(t) == value' = [value EXCEPT ![t] = localBuffer]

\* A message is left over from an earlier recv().
LookFound(t) ==
  /\ t = Comm => ready # {}
  /\ Terminator(localBuffer) # 0
  /\ Goto(t, "idle", "store")
  /\ TakeCopy(t)
  /\ UNCHANGED <<network, localBuffer, buffer, ready, crashed, alone, whole>>
  /\ Overlap(t)

LookNone(t) ==
  /\ t = Comm => ready # {}
  /\ Terminator(localBuffer) = 0
  /\ Goto(t, "idle", "recv")
  /\ UNCHANGED <<network, localBuffer, buffer, value, ready, crashed, history>>

Look(t) == LookFound(t) \/ LookNone(t)

AtMessage(cells) == cells # <<>> => cells[1].part = "front"

\* recv() returns some of the bytes, at most MaxLen.
Receive(t) ==
  LET cells == stream[Descriptor(t)]
  IN  /\ Goto(t, "recv", "load")
      /\ \E n \in 1 .. Min({MaxLen, Len(cells)}) :
           LET got == SubSeq(cells, 1, n)
               rest == SubSeq(cells, n + 1, Len(cells))
           IN  \* bound: a message is not torn after an overlap
               /\ overlapped => AtMessage(got) /\ AtMessage(rest)
               /\ buffer' = [buffer EXCEPT ![t] = got]
               /\ stream' = [stream EXCEPT ![Descriptor(t)] = rest]
               /\ alone' = (alone /\ got = Cells(got[1].msg))
               /\ whole' = (whole /\ AtMessage(got) /\ AtMessage(rest))
      /\ UNCHANGED <<sent, sends, ended, localBuffer, value, ready, crashed, overlapped>>
      /\ Keep

\* t leaves Recv, and the communication thread goes on to the next descriptor.
Return(t) == ready' = IF t = Comm THEN ready \ {Descriptor(t)} ELSE ready

\* recv() returns 0, and Recv an empty message.
ReceiveEnd(t) ==
  /\ Goto(t, "recv", "idle")
  /\ stream[Descriptor(t)] = <<>> /\ Descriptor(t) \in ended
  /\ Return(t)
  /\ UNCHANGED <<network, localBuffer, buffer, value, crashed, history>>

\* strcat looks for the end of localBuffer, and writes there.
Load(t) ==
  /\ Goto(t, "load", "append")
  /\ TakeCopy(t)
  /\ UNCHANGED <<network, localBuffer, buffer, ready, crashed, alone, whole>>
  /\ Overlap(t)

\* The messages of a string of whole messages.
Ended(string) == [k \in 1 .. Len(string) \div 2 |-> string[2 * k].msg]

\* Mutant: the padding of a message is kept with it.
StrcatPadded(t) ==
  /\ Goto(t, "append", "find")
  /\ localBuffer' = value[t] \o buffer[t]
  /\ arrived' = Extend(arrived, Ended(AsString(buffer[t])))
  /\ buffer' = [buffer EXCEPT ![t] = <<>>]
  /\ value' = [value EXCEPT ![t] = <<>>]
  /\ UNCHANGED <<network, ready, crashed, flags, given>>

Strcat(t) ==
  /\ Goto(t, "append", "find")
  /\ localBuffer' = value[t] \o AsString(buffer[t])
  /\ arrived' = Extend(arrived, Ended(AsString(buffer[t])))
  /\ buffer' = [buffer EXCEPT ![t] = <<>>]
  /\ value' = [value EXCEPT ![t] = <<>>]
  /\ UNCHANGED <<network, ready, crashed, flags, given>>

Find(t) ==
  /\ Terminator(localBuffer) # 0
  /\ Goto(t, "find", "store")
  /\ TakeCopy(t)
  /\ UNCHANGED <<network, localBuffer, buffer, ready, crashed, history>>

\* There is no terminator: &ch[4] of a null pointer is read.
FindNull(t) ==
  /\ pc[t] = "find" /\ Terminator(localBuffer) = 0
  /\ crashed' = TRUE
  /\ UNCHANGED <<network, localBuffer, pc, buffer, value, ready, history>>

\* Mutant: the message stays in localBuffer.
StoreAll(t) ==
  LET size == Terminator(value[t])
  IN  /\ Goto(t, "store", "idle")
      /\ localBuffer' = value[t]
      /\ given' = Extend(given, <<[to |-> Descriptor(t),
                                   text |-> SubSeq(value[t], 1, size)]>>)
      /\ value' = [value EXCEPT ![t] = <<>>]
      /\ Return(t)
      /\ UNCHANGED <<network, buffer, crashed, flags, arrived>>

\* Mutant: what follows the message is not kept.
StoreNothing(t) ==
  LET size == Terminator(value[t])
  IN  /\ Goto(t, "store", "idle")
      /\ localBuffer' = <<>>
      /\ given' = Extend(given, <<[to |-> Descriptor(t),
                                   text |-> SubSeq(value[t], 1, size)]>>)
      /\ value' = [value EXCEPT ![t] = <<>>]
      /\ Return(t)
      /\ UNCHANGED <<network, buffer, crashed, flags, arrived>>

\* Recv returns the first message; the rest is kept for whoever calls next.
Store(t) ==
  LET size == Terminator(value[t])
  IN  /\ Goto(t, "store", "idle")
      /\ localBuffer' = SubSeq(value[t], size + 1, Len(value[t]))
      /\ given' = Extend(given, <<[to |-> Descriptor(t),
                                   text |-> SubSeq(value[t], 1, size)]>>)
      /\ value' = [value EXCEPT ![t] = <<>>]
      /\ Return(t)
      /\ UNCHANGED <<network, buffer, crashed, flags, arrived>>

RecvStep(t) ==
  \/ Look(t) \/ Receive(t) \/ ReceiveEnd(t)
  \/ Load(t) \/ Strcat(t) \/ Find(t) \/ FindNull(t) \/ Store(t)

ThreadStep(t) == (t = Comm /\ Select) \/ RecvStep(t)

Alive == ~crashed

Next ==
  /\ Alive
  /\ \/ \E i \in Client : HangUp(i)
     \/ \E i \in Conn, padded \in BOOLEAN : Send(i, padded)
     \/ \E t \in Thread : ThreadStep(t)

\* The scheduler runs every thread that can run. Clients are not fair.
Fairness == \A t \in Thread : WF_vars(Alive /\ ThreadStep(t))

Spec == Init /\ [][Next]_vars
FairSpec == Spec /\ Fairness

-----------------------------------------------------------------------------
(* Type invariant: cells on their way, the threads in Recv, and localBuffer, *)
(* which never holds the zero bytes that pad a message (strcat).           *)
TypeOK ==
  /\ stream \in [Conn -> Seq(Cell)] /\ sent \in [Conn -> 0 .. MaxSend]
  /\ sends \in 0 .. MaxSend
  /\ ended \subseteq Conn
  /\ localBuffer \in Seq(TextCell)
  /\ pc \in [Thread -> {"idle", "recv", "load", "append", "find", "store"}]
  /\ buffer \in [Thread -> Seq(Cell)] /\ value \in [Thread -> Seq(TextCell)]
  /\ ready \subseteq Client
  /\ pc[Comm] # "idle" => ready # {}
  /\ crashed \in BOOLEAN
  /\ arrived \in Seq(Message)
  /\ given \in Seq([to : Conn, text : Seq(TextCell)])
  /\ alone \in BOOLEAN /\ whole \in BOOLEAN /\ overlapped \in BOOLEAN

\* The messages Recv has returned, by what ends them.
Returned == [k \in DOMAIN given |-> Last(given[k].text).msg]

(* As long as every recv() got one message, all of it, and no two threads  *)
(* were using localBuffer, Recv returned to the handler of each client that *)
(* client's messages, one by one and in its order.                         *)
OwnMessages ==
  alone /\ ~overlapped =>
    \A k \in DOMAIN given :
      LET to == given[k].to
          before == {j \in 1 .. k : given[j].to = to}
      IN  /\ given[k].text = Text(Returned[k])
          /\ Returned[k].from = to /\ Returned[k].no = Cardinality(before)

(* Messages may even come glued together: they are returned to the wrong   *)
(* handler, but each of them whole and once, in the order of their arrival, *)
(* and none is lost while another is kept. The server does not crash.      *)
InOrder ==
  whole /\ ~overlapped =>
    /\ ~crashed
    /\ \A k \in DOMAIN given : given[k].text = Text(Returned[k])
    /\ IsPrefix(Returned, arrived)
    /\ (\A t \in Thread : pc[t] \in {"idle", "recv", "load"}) =>
         Returned \o Ended(localBuffer) = arrived

(* As long as messages come one by one and threads do not overlap, every   *)
(* message a client has sent is returned to its handler: no client is      *)
(* starved by others that send, or that have hung up.                      *)
Handled ==
  []<>(alone /\ ~overlapped =>
         \A i \in Conn : Len(SelectSeq(given, LAMBDA g : g.to = i)) = sent[i])
=============================================================================
