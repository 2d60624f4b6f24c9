-------------------------- MODULE ChatWindowsProofs --------------------------
(***************************************************************************)
(* For any number of partners, windows, messages and lines: until a window *)
(* is deleted in the middle of another search of the list, a partner is    *)
(* listed exactly as long as a thread reads its window; and a message is   *)
(* lost only to a window that is about to close or has ended.              *)
(***************************************************************************)
EXTENDS ChatWindows, SequenceTheorems, TLAPS

Ending(w) == process[w] \in {"closing", "ended"}

\* Windows that are not open yet have no thread and no process.
Unopened ==
  \A w \in Window : w > opened => thread[w] = "none" /\ process[w] = "none"

\* The window of the main thread, step by step.
TargetKnown ==
  /\ pc # "idle" => partner \in Partner
  /\ pc \in {"check", "create"} => opened < MaxWindow
  /\ pc \in {"create", "insert"} => list[partner] = NoWindow
  /\ pc \in {"insert", "fork", "send", "spawn", "find", "walk", "read"} =>
       target \in 1 .. opened /\ owner[target] = partner
  /\ pc \in {"insert", "fork"} => process[target] = "none"
  /\ pc \in {"insert", "fork", "spawn"} => thread[target] = "none"
  /\ pc \in {"find", "walk", "read"} => thread[target] # "none"

\* The list holds windows of the partners it lists them for.
ListOwned ==
  \A p \in Partner : list[p] # NoWindow => list[p] \in 1 .. opened /\ owner[list[p]] = p

\* While a window is looked for again it stays listed, or it ends.
FoundOrEnding == pc \in {"find", "walk", "read"} => list[partner] \in {NoWindow, target}

\* "/close" is sent by a process that is about to end, and a thread stops
\* reading only after it.
ClosedByProcess ==
  \A w \in Window :
    /\ \A i \in DOMAIN line[w] : line[w][i] = "/close" => Ending(w)
    /\ thread[w] \in {"head", "delete", "close", "gone"} => Ending(w)

IInv ==
  /\ TypeOK /\ Unopened /\ TargetKnown /\ ListOwned /\ FoundOrEnding
  /\ OneWindowEach /\ ClosedByProcess /\ LostToClosing


(* What is typed in a window is put behind what was typed before.          *)
LEMMA PutLine ==
  ASSUME TypeOK, NEW w \in Window, NEW text \in {"text", "/close"}, Put(w, text)
  PROVE  /\ line' \in [Window -> Seq({"text", "/close"})]
         /\ lines' \in 0 .. MaxLine
         /\ \A v \in Window : \A i \in DOMAIN line'[v] :
              line'[v][i] = "/close" =>
                \/ v = w /\ text = "/close"
                \/ \E k \in DOMAIN line[v] : line[v][k] = "/close"
<1> DEFINE S == {"text", "/close"}
<1>1. /\ line \in [Window -> Seq(S)] /\ lines \in 0 .. MaxLine
      /\ lines' = lines + 1 /\ lines < MaxLine
      /\ line' = [line EXCEPT ![w] = Append(line[w], text)]
  BY DEF TypeOK, Put
<1>2. /\ Append(line[w], text) \in Seq(S)
      /\ Len(Append(line[w], text)) = Len(line[w]) + 1
      /\ \A i \in 1 .. Len(line[w]) : Append(line[w], text)[i] = line[w][i]
      /\ Append(line[w], text)[Len(line[w]) + 1] = text
  BY <1>1, AppendProperties
<1>3. lines' \in 0 .. MaxLine
  BY <1>1, BoundAssumption
<1>4. line' \in [Window -> Seq(S)]
  BY <1>1, <1>2
<1>5. ASSUME NEW v \in Window, NEW i \in DOMAIN line'[v], line'[v][i] = "/close"
      PROVE  \/ v = w /\ text = "/close"
             \/ \E k \in DOMAIN line[v] : line[v][k] = "/close"
  <2>1. CASE v # w
    BY <1>1, <1>5, <2>1
  <2>2. CASE v = w
    <3>1. line'[v] = Append(line[w], text) /\ Len(line[w]) \in Nat
      BY <1>1, <2>2
    <3>2. i \in 1 .. Len(line[w]) + 1
      BY <1>2, <3>1
    <3>3. i = Len(line[w]) + 1 \/ i \in 1 .. Len(line[w])
      BY <3>1, <3>2
    <3>4. DOMAIN line[w] = 1 .. Len(line[w])
      BY <1>1
    <3> QED
      BY <1>2, <1>5, <2>2, <3>1, <3>3, <3>4
  <2> QED
    BY <2>1, <2>2
<1> QED
  BY <1>3, <1>4, <1>5

(* A thread takes lines from the front, and leaves the rest as it is.       *)
LEMMA TookLine ==
  ASSUME TypeOK, NEW w \in Window, NEW n \in DOMAIN line[w], Took(w, n)
  PROVE  /\ line' \in [Window -> Seq({"text", "/close"})]
         /\ \A v \in Window : \A i \in DOMAIN line'[v] :
              line'[v][i] = "/close" => \E k \in DOMAIN line[v] : line[v][k] = "/close"
<1> DEFINE S == {"text", "/close"}
           rest == SubSeq(line[w], n + 1, Len(line[w]))
<1>1. line \in [Window -> Seq(S)] /\ line' = [line EXCEPT ![w] = rest]
  BY DEF TypeOK, Took
<1>2. n \in 1 .. Len(line[w]) /\ Len(line[w]) \in Nat /\ DOMAIN line[w] = 1 .. Len(line[w])
  BY <1>1
<1>3. \A i \in n + 1 .. Len(line[w]) : line[w][i] \in S
  BY <1>1, <1>2
<1>4. /\ rest \in Seq(S)
      /\ Len(rest) = IF n + 1 <= Len(line[w]) THEN Len(line[w]) - (n + 1) + 1 ELSE 0
      /\ \A i \in 1 .. Len(line[w]) - (n + 1) + 1 : rest[i] = line[w][(n + 1) + i - 1]
  BY <1>2, <1>3, SubSeqProperties
<1>5. ASSUME NEW v \in Window, NEW i \in DOMAIN line'[v], line'[v][i] = "/close"
      PROVE  \E k \in DOMAIN line[v] : line[v][k] = "/close"
  <2>1. CASE v # w
    BY <1>1, <1>5, <2>1
  <2>2. CASE v = w
    <3>1. line'[v] = rest /\ i \in 1 .. Len(rest)
      BY <1>1, <1>4, <2>2
    <3>2. (n + 1) + i - 1 \in 1 .. Len(line[w]) /\ i \in 1 .. Len(line[w]) - (n + 1) + 1
      BY <1>2, <1>4, <3>1
    <3>3. line[w][(n + 1) + i - 1] = "/close"
      BY <1>4, <1>5, <3>1, <3>2
    <3> QED
      BY <1>2, <2>2, <3>2, <3>3
  <2> QED
    BY <2>1, <2>2
<1> QED
  BY <1>1, <1>4, <1>5

LEMMA InitIInv == Init => IInv
<1> SUFFICES ASSUME Init PROVE IInv
  OBVIOUS
<1>1. TypeOK
  <2>1. line \in [Window -> Seq({"text", "/close"})]
    BY DEF Init
  <2>2. /\ owner \in [Window -> Partner \cup {NoPartner}]
        /\ \A w \in Window : owner[w] = NoPartner <=> w > opened
    BY DEF Init, Window
  <2>3. /\ list \in [Partner -> {NoWindow} \cup Window]
        /\ process \in [Window -> {"none", "open", "closing", "ended"}]
        /\ thread \in [Window -> {"none", "recv", "delete", "close", "gone"}]
    BY DEF Init
  <2>4. opened \in 0 .. MaxWindow /\ messages \in 0 .. MaxMessage /\ lines \in 0 .. MaxLine
    BY BoundAssumption DEF Init
  <2> QED
    BY <2>1, <2>2, <2>3, <2>4 DEF Init, TypeOK
<1>2. Unopened /\ TargetKnown /\ FoundOrEnding
  BY DEF Init, Unopened, TargetKnown, FoundOrEnding
<1>3. ListOwned /\ OneWindowEach
  BY DEF Init, ListOwned, OneWindowEach, Starting
<1>4. ClosedByProcess /\ LostToClosing
  BY DEF Init, ClosedByProcess, LostToClosing
<1> QED
  BY <1>1, <1>2, <1>3, <1>4 DEF IInv

(* Every step keeps the invariant.                                         *)
LEMMA StepIInv ==
  ASSUME IInv, ~disturbed, Next
  PROVE  IInv'
<1> USE DEF main, windows, threads, fate
<1>1. ASSUME NEW p \in Partner, ReceiveChatMessage(p)
      PROVE  IInv'
  <2>1. TypeOK'
    BY <1>1, BoundAssumption DEF IInv, ReceiveChatMessage, TypeOK, Listed
  <2>2. Unopened'
    BY <1>1 DEF IInv, ReceiveChatMessage, Unopened
  <2>3. TargetKnown'
    BY <1>1 DEF IInv, ReceiveChatMessage, TargetKnown
  <2>4. ListOwned'
    BY <1>1 DEF IInv, ReceiveChatMessage, ListOwned
  <2>5. FoundOrEnding'
    BY <1>1 DEF IInv, ReceiveChatMessage, FoundOrEnding
  <2>6. OneWindowEach'
    BY <1>1 DEF IInv, ReceiveChatMessage, OneWindowEach, Starting
  <2>7. ClosedByProcess'
    BY <1>1 DEF IInv, ReceiveChatMessage, ClosedByProcess, Ending
  <2>8. LostToClosing'
    BY <1>1 DEF IInv, ReceiveChatMessage, LostToClosing
  <2> QED
    BY <2>1, <2>2, <2>3, <2>4, <2>5, <2>6, <2>7, <2>8 DEF IInv
<1>19. ASSUME Check
      PROVE  IInv'
  <2>1. TypeOK'
    <3>1. TypeOK /\ ListOwned /\ partner \in Partner
      BY <1>19 DEF IInv, Check, TargetKnown
    <3>2. list[partner] \in {NoWindow} \cup 1 .. opened
      BY <3>1 DEF ListOwned
    <3>3. pc' \in {"create", "find"} /\ target' = list[partner] /\ copy' = {}
          /\ UNCHANGED <<list, opened, owner, process, thread, head, line, partner,
                         messages, lines, crashed, disturbed, lost, glued>>
      BY <1>19 DEF Check
    <3> QED
      BY <3>1, <3>2, <3>3 DEF TypeOK
  <2>2. Unopened'
    BY <1>19 DEF IInv, Check, Unopened
  <2>3. TargetKnown'
    BY <1>19 DEF IInv, Check, TargetKnown, ListOwned, OneWindowEach, Starting
  <2>4. ListOwned'
    BY <1>19 DEF IInv, Check, ListOwned
  <2>5. FoundOrEnding'
    BY <1>19 DEF IInv, Check, FoundOrEnding
  <2>6. OneWindowEach'
    BY <1>19 DEF IInv, Check, OneWindowEach, Starting
  <2>7. ClosedByProcess'
    BY <1>19 DEF IInv, Check, ClosedByProcess, Ending
  <2>8. LostToClosing'
    BY <1>19 DEF IInv, Check, LostToClosing
  <2> QED
    BY <2>1, <2>2, <2>3, <2>4, <2>5, <2>6, <2>7, <2>8 DEF IInv
<1>2. ASSUME Create
      PROVE  IInv'
  <2>1. TypeOK'
    BY <1>2, BoundAssumption, PartnerAssumption DEF IInv, Create, TypeOK, TargetKnown, Window,
           Listed
  <2>2. Unopened'
    BY <1>2 DEF IInv, Create, Unopened, TypeOK, Window
  <2>3. TargetKnown'
    BY <1>2, BoundAssumption DEF IInv, Create, TargetKnown, TypeOK, Unopened, Window
  <2>4. ListOwned'
    BY <1>2, BoundAssumption DEF IInv, Create, ListOwned, TypeOK, TargetKnown, Window
  <2>5. FoundOrEnding'
    BY <1>2 DEF IInv, Create, FoundOrEnding
  <2>6. OneWindowEach'
    BY <1>2, BoundAssumption DEF IInv, Create, OneWindowEach, TypeOK, Unopened, TargetKnown,
           ListOwned, Starting, Window, NoWindow
  <2>7. ClosedByProcess'
    BY <1>2 DEF IInv, Create, ClosedByProcess, Ending
  <2>8. LostToClosing'
    BY <1>2 DEF IInv, Create, LostToClosing
  <2> QED
    BY <2>1, <2>2, <2>3, <2>4, <2>5, <2>6, <2>7, <2>8 DEF IInv
<1>20. ASSUME InsertUser
      PROVE  IInv'
  <2>1. TypeOK'
    BY <1>20, BoundAssumption DEF IInv, InsertUser, TypeOK, TargetKnown, Window
  <2>2. Unopened'
    BY <1>20 DEF IInv, InsertUser, Unopened
  <2>3. TargetKnown'
    BY <1>20 DEF IInv, InsertUser, TargetKnown, TypeOK
  <2>4. ListOwned'
    BY <1>20 DEF IInv, InsertUser, ListOwned, TypeOK, TargetKnown
  <2>5. FoundOrEnding'
    BY <1>20 DEF IInv, InsertUser, FoundOrEnding
  <2>6. OneWindowEach'
    BY <1>20, BoundAssumption DEF IInv, InsertUser, OneWindowEach, TypeOK, TargetKnown,
           ListOwned, Starting, Window, NoWindow
  <2>7. ClosedByProcess'
    BY <1>20 DEF IInv, InsertUser, ClosedByProcess, Ending
  <2>8. LostToClosing'
    BY <1>20 DEF IInv, InsertUser, LostToClosing
  <2> QED
    BY <2>1, <2>2, <2>3, <2>4, <2>5, <2>6, <2>7, <2>8 DEF IInv
<1>21. ASSUME Find
      PROVE  IInv'
  <2>1. TypeOK'
    BY <1>21 DEF IInv, Find, TypeOK, Listed
  <2>2. Unopened'
    BY <1>21 DEF IInv, Find, Unopened
  <2>3. TargetKnown'
    BY <1>21 DEF IInv, Find, TargetKnown
  <2>4. ListOwned'
    BY <1>21 DEF IInv, Find, ListOwned
  <2>5. FoundOrEnding'
    BY <1>21 DEF IInv, Find, FoundOrEnding
  <2>6. OneWindowEach'
    BY <1>21 DEF IInv, Find, OneWindowEach, Starting
  <2>7. ClosedByProcess'
    BY <1>21 DEF IInv, Find, ClosedByProcess, Ending
  <2>8. LostToClosing'
    BY <1>21 DEF IInv, Find, LostToClosing
  <2> QED
    BY <2>1, <2>2, <2>3, <2>4, <2>5, <2>6, <2>7, <2>8 DEF IInv
<1>22. ASSUME ReadWindow
      PROVE  IInv'
  <2>1. TypeOK'
    BY <1>22 DEF IInv, ReadWindow, TypeOK
  <2>2. Unopened'
    BY <1>22 DEF IInv, ReadWindow, Unopened
  <2>3. TargetKnown'
    BY <1>22 DEF IInv, ReadWindow, TargetKnown
  <2>4. ListOwned'
    BY <1>22 DEF IInv, ReadWindow, ListOwned
  <2>5. FoundOrEnding'
    BY <1>22 DEF IInv, ReadWindow, FoundOrEnding
  <2>6. OneWindowEach'
    BY <1>22 DEF IInv, ReadWindow, OneWindowEach, Starting, TargetKnown
  <2>7. ClosedByProcess'
    BY <1>22 DEF IInv, ReadWindow, ClosedByProcess, Ending
  <2>8. LostToClosing'
    BY <1>22 DEF IInv, ReadWindow, LostToClosing
  <2> QED
    BY <2>1, <2>2, <2>3, <2>4, <2>5, <2>6, <2>7, <2>8 DEF IInv
<1>23. ASSUME Stray
      PROVE  IInv'
  <2>1. TypeOK'
    BY <1>23 DEF IInv, Stray, TypeOK
  <2>2. Unopened'
    BY <1>23 DEF IInv, Stray, Unopened
  <2>3. TargetKnown'
    BY <1>23 DEF IInv, Stray, TargetKnown
  <2>4. ListOwned'
    BY <1>23 DEF IInv, Stray, ListOwned
  <2>5. FoundOrEnding'
    BY <1>23 DEF IInv, Stray, FoundOrEnding
  <2>6. OneWindowEach'
    BY <1>23 DEF IInv, Stray, OneWindowEach, Starting
  <2>7. ClosedByProcess'
    BY <1>23 DEF IInv, Stray, ClosedByProcess, Ending
  <2>8. LostToClosing'
    BY <1>23 DEF IInv, Stray, LostToClosing
  <2> QED
    BY <2>1, <2>2, <2>3, <2>4, <2>5, <2>6, <2>7, <2>8 DEF IInv
<1>3. ASSUME Fork
      PROVE  IInv'
  <2>1. TypeOK'
    BY <1>3 DEF IInv, Fork, TypeOK, windows
  <2>2. Unopened'
    BY <1>3 DEF IInv, Fork, TypeOK, Unopened, NoWindow, windows
  <2>3. TargetKnown'
    BY <1>3 DEF IInv, Fork, TargetKnown, windows
  <2>4. ListOwned'
    BY <1>3 DEF IInv, Fork, ListOwned, windows
  <2>5. FoundOrEnding'
    BY <1>3 DEF IInv, Fork, FoundOrEnding
  <2>6. OneWindowEach'
    BY <1>3 DEF IInv, Fork, OneWindowEach, Starting, windows
  <2>7. ClosedByProcess'
    BY <1>3 DEF IInv, Fork, TargetKnown, ClosedByProcess, Ending
  <2>8. LostToClosing'
    BY <1>3 DEF IInv, Fork, TargetKnown, LostToClosing
  <2> QED
    BY <2>1, <2>2, <2>3, <2>4, <2>5, <2>6, <2>7, <2>8 DEF IInv
<1>4. ASSUME FindNull
      PROVE  IInv'
  <2>1. TypeOK'
    BY <1>4, BoundAssumption DEF IInv, FindNull, TypeOK, TargetKnown, Window,
       NoWindow, main, windows
  <2>2. Unopened'
    BY <1>4 DEF IInv, FindNull, Unopened, windows
  <2>3. TargetKnown'
    BY <1>4 DEF IInv, FindNull, TargetKnown, main, windows
  <2>4. ListOwned'
    BY <1>4 DEF IInv, FindNull, ListOwned, windows
  <2>5. FoundOrEnding'
    BY <1>4 DEF IInv, FindNull, FoundOrEnding, main, windows
  <2>6. OneWindowEach'
    BY <1>4 DEF IInv, FindNull, OneWindowEach, Starting, main, windows
  <2>7. ClosedByProcess'
    BY <1>4 DEF IInv, FindNull, ClosedByProcess, Ending
  <2>8. LostToClosing'
    BY <1>4, BoundAssumption DEF IInv, FindNull, TypeOK, TargetKnown,
       OneWindowEach, ClosedByProcess, LostToClosing, Ending, Window, NoWindow
  <2> QED
    BY <2>1, <2>2, <2>3, <2>4, <2>5, <2>6, <2>7, <2>8 DEF IInv
<1>5. ASSUME FindUser
      PROVE  IInv'
  <2>1. TypeOK'
    BY <1>5 DEF IInv, FindUser, TypeOK, FoundOrEnding, windows
  <2>2. Unopened'
    BY <1>5 DEF IInv, FindUser, Unopened, windows
  <2>3. TargetKnown'
    BY <1>5 DEF IInv, FindUser, TargetKnown, FoundOrEnding, windows
  <2>4. ListOwned'
    BY <1>5 DEF IInv, FindUser, ListOwned, windows
  <2>5. FoundOrEnding'
    BY <1>5 DEF IInv, FindUser, FoundOrEnding
  <2>6. OneWindowEach'
    BY <1>5 DEF IInv, FindUser, TargetKnown, FoundOrEnding, OneWindowEach,
       Starting, windows
  <2>7. ClosedByProcess'
    BY <1>5 DEF IInv, FindUser, ClosedByProcess, Ending
  <2>8. LostToClosing'
    BY <1>5 DEF IInv, FindUser, LostToClosing
  <2> QED
    BY <2>1, <2>2, <2>3, <2>4, <2>5, <2>6, <2>7, <2>8 DEF IInv
<1>6. ASSUME Send
      PROVE  IInv'
  <2>1. TypeOK'
    BY <1>6, BoundAssumption DEF IInv, Send, TypeOK, TargetKnown, Window,
       NoWindow, windows
  <2>2. Unopened'
    BY <1>6 DEF IInv, Send, Unopened, windows
  <2>3. TargetKnown'
    BY <1>6 DEF IInv, Send, TargetKnown, windows
  <2>4. ListOwned'
    BY <1>6 DEF IInv, Send, ListOwned, windows
  <2>5. FoundOrEnding'
    BY <1>6 DEF IInv, Send, FoundOrEnding
  <2>6. OneWindowEach'
    BY <1>6 DEF IInv, Send, OneWindowEach, Starting, windows
  <2>7. ClosedByProcess'
    BY <1>6 DEF IInv, Send, ClosedByProcess, Ending
  <2>8. LostToClosing'
    <3>1. target \in 1 .. opened /\ opened \in 0 .. MaxWindow
      BY <1>6 DEF IInv, TypeOK, TargetKnown, Send
    <3>2. target \in Window /\ target \in Nat
      BY <3>1, BoundAssumption DEF Window
    <3>3. process[target] = "ended" \/ thread[target] = "gone" => Ending(target)
      BY <3>2 DEF IInv, ClosedByProcess, Ending
    <3>4. \A w \in lost' : process'[w] \in {"closing", "ended"}
      BY <1>6, <3>3 DEF IInv, LostToClosing, Send, Ending
    <3>5. crashed' => lost' # {}
      <4>1. CASE process[target] = "ended" /\ thread[target] # "gone"
        BY <1>6, <4>1 DEF Send
      <4>2. CASE ~(process[target] = "ended" /\ thread[target] # "gone")
        BY <1>6, <4>2 DEF Send
      <4> QED
        BY <4>1, <4>2
    <3> QED
      BY <3>4, <3>5 DEF LostToClosing
  <2> QED
    BY <2>1, <2>2, <2>3, <2>4, <2>5, <2>6, <2>7, <2>8 DEF IInv
<1>7. ASSUME Spawn
      PROVE  IInv'
  <2>1. TypeOK'
    BY <1>7 DEF IInv, Spawn, TypeOK, windows
  <2>2. Unopened'
    BY <1>7 DEF IInv, Spawn, TypeOK, Unopened, NoWindow, windows
  <2>3. TargetKnown'
    BY <1>7 DEF IInv, Spawn, TargetKnown
  <2>4. ListOwned'
    BY <1>7 DEF IInv, Spawn, ListOwned, windows
  <2>5. FoundOrEnding'
    BY <1>7 DEF IInv, Spawn, FoundOrEnding
  <2>6. OneWindowEach'
    BY <1>7 DEF IInv, Spawn, TypeOK, TargetKnown, OneWindowEach, Starting,
       NoWindow, windows
  <2>7. ClosedByProcess'
    BY <1>7 DEF IInv, Spawn, ClosedByProcess, Ending
  <2>8. LostToClosing'
    BY <1>7 DEF IInv, Spawn, LostToClosing
  <2> QED
    BY <2>1, <2>2, <2>3, <2>4, <2>5, <2>6, <2>7, <2>8 DEF IInv
<1>8. ASSUME NEW w \in Window, NEW n \in DOMAIN line[w], Took(w, n),
             thread' = thread, glued' \subseteq Window
      PROVE  IInv'
  <2>1. TypeOK'
    BY <1>8, TookLine DEF IInv, Took, TypeOK, main, windows
  <2>2. Unopened'
    BY <1>8, TookLine DEF IInv, Took, Unopened, windows
  <2>3. TargetKnown'
    BY <1>8, TookLine DEF IInv, Took, TargetKnown, main, windows
  <2>4. ListOwned'
    BY <1>8, TookLine DEF IInv, Took, ListOwned, windows
  <2>5. FoundOrEnding'
    BY <1>8, TookLine DEF IInv, Took, FoundOrEnding, main, windows
  <2>6. OneWindowEach'
    BY <1>8, TookLine DEF IInv, Took, OneWindowEach, Starting, main, windows
  <2>7. ClosedByProcess'
    BY <1>8, TookLine DEF IInv, Took, ClosedByProcess, Ending
  <2>8. LostToClosing'
    BY <1>8, TookLine DEF IInv, Took, LostToClosing
  <2> QED
    BY <2>1, <2>2, <2>3, <2>4, <2>5, <2>6, <2>7, <2>8 DEF IInv
<1>9. ASSUME NEW w \in Window, ReadClose(w)
      PROVE  IInv'
  <2>0. /\ line' \in [Window -> Seq({"text", "/close"})]
        /\ \A v \in Window : \A i \in DOMAIN line'[v] :
             line'[v][i] = "/close" => \E k \in DOMAIN line[v] : line[v][k] = "/close"
    BY <1>9, TookLine DEF IInv, ReadClose, Took
  <2>1. TypeOK'
    BY <1>9, BoundAssumption, PartnerAssumption DEF IInv, ReadClose, Took,
       TypeOK, ClosedByProcess, main, windows
  <2>2. Unopened'
    BY <1>9 DEF IInv, Unopened, ReadClose, Took, windows
  <2>3. TargetKnown'
    BY <1>9 DEF IInv, ReadClose, Took, TargetKnown, main, windows
  <2>4. ListOwned'
    BY <1>9 DEF IInv, ReadClose, Took, ListOwned, windows
  <2>5. FoundOrEnding'
    BY <1>9 DEF IInv, ReadClose, Took, FoundOrEnding, main, windows
  <2>6. OneWindowEach'
    BY <1>9 DEF IInv, ReadClose, Took, OneWindowEach, Starting, main, windows
  <2>7. ClosedByProcess'
    BY <1>9 DEF IInv, ReadClose, Took, ClosedByProcess, Ending
  <2>8. LostToClosing'
    BY <1>9 DEF IInv, ReadClose, Took, LostToClosing
  <2> QED
    BY <2>1, <2>2, <2>3, <2>4, <2>5, <2>6, <2>7, <2>8 DEF IInv
<1>10. ASSUME NEW w \in Window, DeleteUser(w)
      PROVE  IInv'
  <2>1. TypeOK'
    BY <1>10 DEF IInv, DeleteUser, TypeOK
  <2>2. Unopened'
    BY <1>10 DEF IInv, DeleteUser, Unopened
  <2>3. TargetKnown'
    BY <1>10 DEF IInv, DeleteUser, TargetKnown
  <2>4. ListOwned'
    BY <1>10 DEF IInv, DeleteUser, ListOwned
  <2>5. FoundOrEnding'
    BY <1>10 DEF IInv, DeleteUser, FoundOrEnding
  <2>6. OneWindowEach'
    BY <1>10 DEF IInv, DeleteUser, OneWindowEach, TypeOK, Starting, Window, NoWindow
  <2>7. ClosedByProcess'
    BY <1>10 DEF IInv, DeleteUser, ClosedByProcess, Ending
  <2>8. LostToClosing'
    BY <1>10 DEF IInv, DeleteUser, LostToClosing
  <2> QED
    BY <2>1, <2>2, <2>3, <2>4, <2>5, <2>6, <2>7, <2>8 DEF IInv
<1>24. ASSUME NEW w \in Window, ReadHead(w)
      PROVE  IInv'
  <2>1. TypeOK'
    BY <1>24 DEF IInv, ReadHead, TypeOK, Listed
  <2>2. Unopened'
    BY <1>24 DEF IInv, ReadHead, Unopened
  <2>3. TargetKnown'
    BY <1>24 DEF IInv, ReadHead, TargetKnown
  <2>4. ListOwned'
    BY <1>24 DEF IInv, ReadHead, ListOwned
  <2>5. FoundOrEnding'
    BY <1>24 DEF IInv, ReadHead, FoundOrEnding
  <2>6. OneWindowEach'
    BY <1>24 DEF IInv, ReadHead, OneWindowEach, Starting
  <2>7. ClosedByProcess'
    BY <1>24 DEF IInv, ReadHead, ClosedByProcess, Ending
  <2>8. LostToClosing'
    BY <1>24 DEF IInv, ReadHead, LostToClosing
  <2> QED
    BY <2>1, <2>2, <2>3, <2>4, <2>5, <2>6, <2>7, <2>8 DEF IInv
<1>25. ASSUME NEW w \in Window, DeleteStray(w)
      PROVE  IInv'
  <2>0. TypeOK /\ w \in Window
    BY <1>25 DEF IInv
  <2>9. \A p \in Partner : list'[p] \in {list[p], NoWindow}
    <3>1. list' = list \/ list' = [list EXCEPT ![owner[w]] = NoWindow]
      BY <1>25 DEF DeleteStray
    <3> QED
      BY <3>1, <2>0 DEF TypeOK
  <2>1. TypeOK'
    BY <1>25 DEF IInv, DeleteStray, TypeOK
  <2>2. Unopened'
    BY <1>25 DEF IInv, DeleteStray, Unopened
  <2>3. TargetKnown'
    <3>1. TypeOK /\ TargetKnown
      BY <1>25 DEF IInv
    <3>2. UNCHANGED <<opened, owner, process, pc, partner, target>>
      BY <1>25 DEF DeleteStray
    <3>3. thread[w] = "delete" /\ thread' = [thread EXCEPT ![w] = "close"]
      BY <1>25 DEF DeleteStray
    <3>4. NoWindow = 0 /\ list \in [Partner -> {NoWindow} \cup Window]
      BY <3>1 DEF TypeOK, NoWindow
    <3> QED
      BY <2>9, <3>1, <3>2, <3>3, <3>4 DEF TypeOK, TargetKnown
  <2>4. ListOwned'
    <3>1. TypeOK /\ ListOwned
      BY <1>25 DEF IInv
    <3>2. UNCHANGED <<opened, owner, process, pc, partner, target>>
      BY <1>25 DEF DeleteStray
    <3> QED
      BY <2>9, <3>1, <3>2 DEF ListOwned
  <2>5. FoundOrEnding'
    <3>1. pc # "idle" => partner \in Partner
      BY <1>25 DEF IInv, TargetKnown
    <3>2. UNCHANGED <<pc, partner, target>>
      BY <1>25 DEF DeleteStray
    <3> QED
      BY <2>9, <3>1, <3>2, <1>25 DEF IInv, FoundOrEnding
  <2>6. OneWindowEach'
    BY <1>25 DEF IInv, DeleteStray, OneWindowEach, Starting
  <2>7. ClosedByProcess'
    BY <1>25 DEF IInv, DeleteStray, ClosedByProcess, Ending
  <2>8. LostToClosing'
    BY <1>25 DEF IInv, DeleteStray, LostToClosing
  <2> QED
    BY <2>1, <2>2, <2>3, <2>4, <2>5, <2>6, <2>7, <2>8 DEF IInv
<1>11. ASSUME NEW w \in Window, Close(w)
      PROVE  IInv'
  <2>1. TypeOK'
    BY <1>11 DEF IInv, Close, TypeOK, main, windows
  <2>2. Unopened'
    BY <1>11 DEF IInv, Close, Unopened, windows
  <2>3. TargetKnown'
    BY <1>11 DEF IInv, Close, TargetKnown, main, windows
  <2>4. ListOwned'
    BY <1>11 DEF IInv, Close, ListOwned, windows
  <2>5. FoundOrEnding'
    BY <1>11 DEF IInv, Close, FoundOrEnding, main, windows
  <2>6. OneWindowEach'
    BY <1>11 DEF IInv, Close, OneWindowEach, Starting, main, windows
  <2>7. ClosedByProcess'
    BY <1>11 DEF IInv, Close, ClosedByProcess, Ending
  <2>8. LostToClosing'
    BY <1>11 DEF IInv, Close, LostToClosing
  <2> QED
    BY <2>1, <2>2, <2>3, <2>4, <2>5, <2>6, <2>7, <2>8 DEF IInv
<1>12. ASSUME NEW w \in Window, TypeLine(w)
      PROVE  IInv'
  <2>0. /\ line' \in [Window -> Seq({"text", "/close"})] /\ lines' \in 0 .. MaxLine
        /\ \A v \in Window : \A i \in DOMAIN line'[v] :
             line'[v][i] = "/close" =>
               \/ v = w /\ "text" = "/close"
               \/ \E k \in DOMAIN line[v] : line[v][k] = "/close"
    BY <1>12, PutLine DEF IInv, TypeLine
  <2>1. TypeOK'
    BY <1>12, <2>0 DEF IInv, TypeLine, Put, TypeOK, main, windows
  <2>2. Unopened'
    BY <1>12 DEF IInv, TypeLine, Put, Unopened, windows
  <2>3. TargetKnown'
    BY <1>12 DEF IInv, TypeLine, Put, TargetKnown, main, windows
  <2>4. ListOwned'
    BY <1>12 DEF IInv, TypeLine, Put, ListOwned, windows
  <2>5. FoundOrEnding'
    BY <1>12 DEF IInv, TypeLine, Put, FoundOrEnding, main, windows
  <2>6. OneWindowEach'
    BY <1>12 DEF IInv, TypeLine, Put, OneWindowEach, Starting, main, windows
  <2>7. ClosedByProcess'
    BY <1>12 DEF IInv, TypeLine, Put, ClosedByProcess, Ending
  <2>8. LostToClosing'
    BY <1>12 DEF IInv, TypeLine, Put, LostToClosing
  <2> QED
    BY <2>1, <2>2, <2>3, <2>4, <2>5, <2>6, <2>7, <2>8 DEF IInv
<1>13. ASSUME NEW w \in Window, TypeClose(w)
      PROVE  IInv'
  <2>0. /\ line' \in [Window -> Seq({"text", "/close"})] /\ lines' \in 0 .. MaxLine
        /\ \A v \in Window : \A i \in DOMAIN line'[v] :
             line'[v][i] = "/close" =>
               \/ v = w /\ "/close" = "/close"
               \/ \E k \in DOMAIN line[v] : line[v][k] = "/close"
    BY <1>13, PutLine DEF IInv, TypeClose
  <2>1. TypeOK'
    BY <1>13, BoundAssumption DEF IInv, TypeClose, Put, TypeOK, TargetKnown,
       main, windows
  <2>2. Unopened'
    BY <1>13 DEF IInv, TypeClose, Put, Unopened, windows
  <2>3. TargetKnown'
    BY <1>13 DEF IInv, TypeClose, Put, TargetKnown, main, windows
  <2>4. ListOwned'
    BY <1>13 DEF IInv, TypeClose, Put, ListOwned, windows
  <2>5. FoundOrEnding'
    BY <1>13 DEF IInv, TypeClose, Put, FoundOrEnding, main, windows
  <2>6. OneWindowEach'
    BY <1>13 DEF IInv, TypeClose, Put, OneWindowEach, Starting, main, windows
  <2>7. ClosedByProcess'
    BY <1>13 DEF IInv, TypeClose, Put, TypeOK, ClosedByProcess, Ending
  <2>8. LostToClosing'
    BY <1>13 DEF IInv, TypeClose, Put, LostToClosing
  <2> QED
    BY <2>1, <2>2, <2>3, <2>4, <2>5, <2>6, <2>7, <2>8 DEF IInv
<1>14. ASSUME NEW w \in Window, Signal(w)
      PROVE  IInv'
  <2>0. /\ line' \in [Window -> Seq({"text", "/close"})] /\ lines' \in 0 .. MaxLine
        /\ \A v \in Window : \A i \in DOMAIN line'[v] :
             line'[v][i] = "/close" =>
               \/ v = w /\ "/close" = "/close"
               \/ \E k \in DOMAIN line[v] : line[v][k] = "/close"
    BY <1>14, PutLine DEF IInv, Signal
  <2>1. TypeOK'
    BY <1>14, BoundAssumption DEF IInv, Signal, Put, TypeOK, main, windows
  <2>2. Unopened'
    BY <1>14 DEF IInv, Signal, Put, Unopened, windows
  <2>3. TargetKnown'
    BY <1>14 DEF IInv, Signal, Put, TargetKnown, main, windows
  <2>4. ListOwned'
    BY <1>14 DEF IInv, Signal, Put, ListOwned, windows
  <2>5. FoundOrEnding'
    BY <1>14 DEF IInv, Signal, Put, FoundOrEnding, main, windows
  <2>6. OneWindowEach'
    BY <1>14 DEF IInv, Signal, Put, OneWindowEach, Starting, main, windows
  <2>7. ClosedByProcess'
    BY <1>14 DEF IInv, Signal, Put, TypeOK, ClosedByProcess, Ending
  <2>8. LostToClosing'
    BY <1>14 DEF IInv, Signal, Put, LostToClosing
  <2> QED
    BY <2>1, <2>2, <2>3, <2>4, <2>5, <2>6, <2>7, <2>8 DEF IInv
<1>15. ASSUME NEW w \in Window, Exit(w)
      PROVE  IInv'
  <2>1. TypeOK'
    BY <1>15 DEF IInv, Exit, TypeOK, main, windows
  <2>2. Unopened'
    BY <1>15 DEF IInv, Exit, Unopened, windows
  <2>3. TargetKnown'
    BY <1>15 DEF IInv, Exit, TargetKnown, main, windows
  <2>4. ListOwned'
    BY <1>15 DEF IInv, Exit, ListOwned, windows
  <2>5. FoundOrEnding'
    BY <1>15 DEF IInv, Exit, FoundOrEnding, main, windows
  <2>6. OneWindowEach'
    BY <1>15 DEF IInv, Exit, OneWindowEach, Starting, main, windows
  <2>7. ClosedByProcess'
    BY <1>15 DEF IInv, Exit, ClosedByProcess, Ending
  <2>8. LostToClosing'
    BY <1>15 DEF IInv, Exit, LostToClosing
  <2> QED
    BY <2>1, <2>2, <2>3, <2>4, <2>5, <2>6, <2>7, <2>8 DEF IInv
<1>16. ASSUME NEW w \in Window, Kill(w)
      PROVE  IInv'
  <2>1. TypeOK'
    BY <1>16 DEF IInv, Kill, TypeOK, main, windows
  <2>2. Unopened'
    BY <1>16 DEF IInv, Kill, Unopened, windows
  <2>3. TargetKnown'
    BY <1>16 DEF IInv, Kill, TargetKnown, main, windows
  <2>4. ListOwned'
    BY <1>16 DEF IInv, Kill, ListOwned, windows
  <2>5. FoundOrEnding'
    BY <1>16 DEF IInv, Kill, FoundOrEnding, main, windows
  <2>6. OneWindowEach'
    BY <1>16 DEF IInv, Kill, OneWindowEach, Starting, main, windows
  <2>7. ClosedByProcess'
    BY <1>16 DEF IInv, Kill, ClosedByProcess, Ending
  <2>8. LostToClosing'
    BY <1>16 DEF IInv, Kill, LostToClosing
  <2> QED
    BY <2>1, <2>2, <2>3, <2>4, <2>5, <2>6, <2>7, <2>8 DEF IInv
<1>18. ASSUME NEW w \in Window, Relay(w)
       PROVE  IInv'
  BY <1>18, <1>8 DEF Relay, IInv, TypeOK
<1> QED
  BY <1>1, <1>2, <1>3, <1>4, <1>5, <1>6, <1>7, <1>8, <1>9,
     <1>10, <1>11, <1>12, <1>13, <1>14, <1>15, <1>16, <1>18, <1>19, <1>20,
     <1>21, <1>22, <1>23, <1>24, <1>25 DEF Next, MainStep, ThreadStep

LEMMA StutterIInv == IInv /\ UNCHANGED vars => IInv'
BY DEF IInv, vars, main, windows, threads, fate, TypeOK, Unopened, TargetKnown, ListOwned,
   FoundOrEnding, OneWindowEach, ClosedByProcess, LostToClosing, Starting, Ending

LEMMA Invariance == Spec => []IInv
<1>1. Init => IInv
  BY InitIInv
<1>2. IInv /\ [Next]_vars => IInv'
  BY StepIInv, StutterIInv DEF Next, Alive
<1> QED
  BY <1>1, <1>2, PTL DEF Spec

-----------------------------------------------------------------------------
(* The list, the threads, the processes and what was typed keep their      *)
(* types, and every window that was opened has its partner.                *)
THEOREM TypeCorrect == Spec => []TypeOK
<1>1. IInv => TypeOK
  BY DEF IInv
<1> QED
  BY <1>1, Invariance, PTL

(* A partner is listed exactly as long as a thread reads that partner's    *)
(* window, as long as no window was deleted in the middle of another       *)
(* search: insertUser in the main thread and deleteUser in the thread of a *)
(* window, by name, never act on each other's window.                      *)
THEOREM OneWindowAlways == Spec => []OneWindowEach
<1>1. IInv => OneWindowEach
  BY DEF IInv
<1> QED
  BY <1>1, Invariance, PTL

(* processChatMessage loses a message only on a window that is about to    *)
(* close or has ended; without such a loss nothing kills the client but a  *)
(* deletion in the middle of another search of the list.                   *)
THEOREM LossOnlyToClosing == Spec => []LostToClosing
<1>1. IInv => LostToClosing
  BY DEF IInv
<1> QED
  BY <1>1, Invariance, PTL
=============================================================================
