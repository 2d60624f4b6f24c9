---------------------------- MODULE FramingProofs ----------------------------
(***************************************************************************)
(* Proofs about Recv and its one buffer (Framing): as long as recv() gives *)
(* whole messages and no two threads are in Recv's string functions at     *)
(* once, what Recv returns is what arrived; and if recv() gives one message *)
(* at a time, each handler gets the messages of its own client, in order.  *)
(***************************************************************************)
EXTENDS Framing, SequenceTheorems, FiniteSetTheorems, TLAPS

(* A set of natural numbers has a least element. *)
LEMMA Least ==
  ASSUME NEW T \in SUBSET Nat, T # {}
  PROVE  \E m \in T : \A k \in T : m <= k
<1>1. IsWellFoundedOn(OpToRel(<, Nat), Nat)
  BY NatLessThanWellFounded, Zenon
<1>2. PICK m \in T : \A k \in T : ~(<<k, m>> \in OpToRel(<, Nat))
  BY <1>1, WFMin, Zenon
<1>3. \A k \in T : k < m => <<k, m>> \in OpToRel(<, Nat)
  BY Zenon DEF OpToRel
<1>4. \A k \in T : ~(k < m)
  BY <1>2, <1>3, Zenon
<1> QED
  BY <1>4

(* The first of some places of a sequence of n. *)
LEMMA FirstPlace ==
  ASSUME NEW n \in Nat, NEW T \in SUBSET (1 .. n), T # {}
  PROVE  Min(T) \in T /\ Min(T) \in 1 .. n /\ \A k \in 1 .. Min(T) - 1 : k \notin T
<1>1. T \in SUBSET Nat
  OBVIOUS
<1>2. PICK m \in T : \A k \in T : m <= k
  BY <1>1, Least
<1>3. Min(T) \in T /\ \A k \in T : Min(T) <= k
  BY <1>2 DEF Min
<1>4. Min(T) \in 1 .. n
  BY <1>3
<1>5. ASSUME NEW k \in 1 .. Min(T) - 1, k \in T
      PROVE  FALSE
  BY <1>3, <1>4, <1>5
<1> QED
  BY <1>3, <1>4, <1>5

(* A part of a sequence. *)
LEMMA Part ==
  ASSUME NEW S, NEW s \in Seq(S), NEW m \in Nat, NEW n \in Nat, m <= n, n <= Len(s)
  PROVE  LET r == SubSeq(s, m + 1, n)
         IN  /\ r \in Seq(S) /\ Len(r) = n - m
             /\ \A i \in 1 .. n - m : r[i] = s[m + i] /\ m + i \in 1 .. Len(s)
OBVIOUS

(* A sequence after another. *)
LEMMA Joined ==
  ASSUME NEW S, NEW a \in Seq(S), NEW b \in Seq(S)
  PROVE  /\ a \o b \in Seq(S) /\ Len(a \o b) = Len(a) + Len(b)
         /\ \A i \in 1 .. Len(a) : (a \o b)[i] = a[i]
         /\ \A i \in 1 .. Len(b) : (a \o b)[Len(a) + i] = b[i]
OBVIOUS

(* The cells of a message. *)
LEMMA CellsFacts ==
  ASSUME NEW m \in Message
  PROVE  /\ Text(m) \in Seq(TextCell) /\ Len(Text(m)) = 2
         /\ Text(m)[1] = [msg |-> m, part |-> "front"]
         /\ Text(m)[2] = [msg |-> m, part |-> "end"]
         /\ Cells(m) \in Seq(Cell) /\ Len(Cells(m)) = IF m.padded THEN 4 ELSE 2
         /\ Cells(m)[1] = [msg |-> m, part |-> "front"]
         /\ Cells(m)[2] = [msg |-> m, part |-> "end"]
         /\ \A j \in 1 .. Len(Cells(m)) :
              Cells(m)[j].msg = m /\ (Cells(m)[j].part = "front" <=> j = 1)
         /\ \A j \in 3 .. Len(Cells(m)) : Cells(m)[j].part = "zero"
<1>1. /\ Text(m) \in Seq(TextCell) /\ Text(m) \in Seq(Cell) /\ Len(Text(m)) = 2
      /\ Text(m)[1] = [msg |-> m, part |-> "front"]
      /\ Text(m)[2] = [msg |-> m, part |-> "end"]
  BY DEF Text, TextCell, Cell
<1>2. CASE m.padded
  <2>1. /\ Padding(m) \in Seq(Cell) /\ Len(Padding(m)) = 2
        /\ Padding(m)[1] = [msg |-> m, part |-> "zero"]
        /\ Padding(m)[2] = [msg |-> m, part |-> "zero"]
    BY DEF Padding, MaxLen, Cell
  <2>2. Cells(m) = Text(m) \o Padding(m)
    BY <1>2 DEF Cells
  <2>3. /\ Cells(m) \in Seq(Cell) /\ Len(Cells(m)) = 2 + 2
        /\ \A i \in 1 .. 2 : Cells(m)[i] = Text(m)[i]
        /\ \A i \in 1 .. 2 : Cells(m)[2 + i] = Padding(m)[i]
    <3> DEFINE t == Text(m)
               p == Padding(m)
    <3>1. t \in Seq(Cell) /\ p \in Seq(Cell) /\ Len(t) = 2 /\ Len(p) = 2
      BY <1>1, <2>1
    <3> HIDE DEF t, p
    <3>2. /\ t \o p \in Seq(Cell) /\ Len(t \o p) = Len(t) + Len(p)
          /\ \A i \in 1 .. Len(t) : (t \o p)[i] = t[i]
          /\ \A i \in 1 .. Len(p) : (t \o p)[Len(t) + i] = p[i]
      <4>1. /\ t \o p \in Seq(Cell) /\ Len(t \o p) = Len(t) + Len(p)
            /\ \A i \in 1 .. Len(t) + Len(p) :
                 (t \o p)[i] = IF i <= Len(t) THEN t[i] ELSE p[i - Len(t)]
        BY <3>1, ConcatProperties
      <4> QED
        BY <3>1, <4>1
    <3>3. Cells(m) = t \o p
      BY <2>2 DEF t, p
    <3> QED
      BY <3>1, <3>2, <3>3 DEF t, p
  <2>4. Cells(m)[1] = Text(m)[1] /\ Cells(m)[2] = Text(m)[2]
    BY <2>3
  <2>5. Cells(m)[3] = Padding(m)[1] /\ Cells(m)[4] = Padding(m)[2]
    BY <2>3
  <2>6. \A j \in 1 .. 4 : j \in {1, 2, 3, 4}
    OBVIOUS
  <2> QED
    BY <1>1, <1>2, <2>1, <2>3, <2>4, <2>5, <2>6
<1>3. CASE ~m.padded
  <2>1. Cells(m) = Text(m) \o <<>>
    BY <1>3 DEF Cells
  <2>2. Cells(m) = Text(m)
    BY <1>1, <2>1
  <2>3. (\A j \in 1 .. 2 : j \in {1, 2}) /\ ~ \E j \in 3 .. 2 : TRUE
    OBVIOUS
  <2>4. \A j \in 1 .. 2 : Cells(m)[j].msg = m /\ (Cells(m)[j].part = "front" <=> j = 1)
    BY <1>1, <2>2, <2>3
  <2> QED
    BY <1>1, <1>3, <2>2, <2>3, <2>4
<1> QED
  BY <1>2, <1>3

(* A string is what precedes the first zero byte. *)
LEMMA AsStringFacts ==
  ASSUME NEW c \in Seq(Cell)
  PROVE  /\ AsString(c) \in Seq(TextCell)
         /\ \E n \in 0 .. Len(c) :
              /\ AsString(c) = SubSeq(c, 1, n)
              /\ \A i \in 1 .. n : c[i].part # "zero"
              /\ n < Len(c) => c[n + 1].part = "zero"
<1> DEFINE zeros == {i \in DOMAIN c : c[i].part = "zero"}
           first == Min(zeros)
<1>1. PICK l \in Nat : l = Len(c)
  OBVIOUS
<1>2. AsString(c) = SubSeq(c, 1, IF zeros = {} THEN l ELSE first - 1)
  BY <1>1 DEF AsString
<1>3. zeros \in SUBSET (1 .. l) /\ \A i \in 1 .. l : i \notin zeros => c[i].part # "zero"
  BY <1>1
<1>4. zeros # {} => first \in zeros /\ first \in 1 .. l /\ \A k \in 1 .. first - 1 : k \notin zeros
  BY <1>3, FirstPlace
<1>5. ASSUME zeros # {}
      PROVE  c[first].part = "zero"
  BY <1>4, <1>5
<1> HIDE DEF zeros, first
<1>6. PICK n \in 0 .. l :
        /\ AsString(c) = SubSeq(c, 1, n)
        /\ \A i \in 1 .. n : c[i].part # "zero"
        /\ n < l => c[n + 1].part = "zero"
  <2>1. CASE zeros = {}
    BY SMTT(30), <1>2, <1>3, <2>1
  <2>2. CASE zeros # {}
    <3>1. first - 1 \in 0 .. l /\ (first - 1) + 1 = first
      BY <1>4, <2>2
    <3>2. \A i \in 1 .. first - 1 : c[i].part # "zero"
      BY <1>3, <1>4, <2>2
    <3> QED
      BY <1>2, <1>5, <2>2, <3>1, <3>2
  <2> QED
    BY <2>1, <2>2
<1>7. ASSUME NEW i \in 1 .. n
      PROVE  c[i] \in TextCell
  <2>1. c[i] \in Cell
    BY <1>1
  <2> QED
    BY <1>6, <2>1 DEF Cell, TextCell
<1>8. SubSeq(c, 1, n) \in Seq(TextCell)
  BY <1>1, <1>7
<1> QED
  BY <1>1, <1>6, <1>8

(* Where strstr finds the first terminator. *)
LEMMA TerminatorFacts ==
  ASSUME NEW b \in Seq(TextCell)
  PROVE  /\ Terminator(b) \in 0 .. Len(b)
         /\ Terminator(b) = 0 => \A i \in 1 .. Len(b) : b[i].part # "end"
         /\ Terminator(b) # 0 => /\ b[Terminator(b)].part = "end"
                                 /\ \A i \in 1 .. Terminator(b) - 1 : b[i].part # "end"
<1> DEFINE found == {i \in DOMAIN b : b[i].part = "end"}
<1>1. PICK l \in Nat : l = Len(b)
  OBVIOUS
<1>2. Terminator(b) = IF found = {} THEN 0 ELSE Min(found)
  BY DEF Terminator
<1>3. /\ found \in SUBSET (1 .. l)
      /\ \A i \in 1 .. l : i \in found <=> b[i].part = "end"
  BY <1>1
<1> HIDE DEF found
<1>4. found # {} => /\ Min(found) \in found /\ Min(found) \in 1 .. l
                    /\ \A k \in 1 .. Min(found) - 1 : k \notin found
  BY <1>3, FirstPlace
<1>5. CASE found = {}
  BY <1>1, <1>2, <1>3, <1>5
<1>6. CASE found # {}
  <2>1. Terminator(b) \in 1 .. l /\ Terminator(b) \in found
    BY <1>2, <1>4, <1>6
  <2>2. \A k \in 1 .. Terminator(b) - 1 : k \in 1 .. l /\ k \notin found
    BY <1>2, <1>4, <1>6
  <2> QED
    BY <1>1, <1>3, <2>1, <2>2
<1> QED
  BY <1>5, <1>6

\* The block of cells c has at i when a message begins there.
Block(c, i) ==
  LET m == c[i].msg
      n == Len(Cells(m))
  IN  /\ i + n - 1 <= Len(c)
      /\ \A j \in 1 .. n : c[i + j - 1] = Cells(m)[j]
      /\ i + n <= Len(c) => c[i + n].part = "front"

\* Where messages begin.
Fronts(c) == {i \in DOMAIN c : c[i].part = "front"}

\* Cells that are messages, all of each.
Blocks(c) == AtMessage(c) /\ \A i \in Fronts(c) : Block(c, i)

\* A string of n messages.
Texts(b) ==
  \E n \in 0 .. Len(b) :
    /\ Len(b) = 2 * n
    /\ \A k \in 1 .. n : /\ b[2 * k - 1] = [msg |-> b[2 * k].msg, part |-> "front"]
                         /\ b[2 * k].part = "end"

(* What is known of the places where a message begins. *)
LEMMA FrontFacts ==
  ASSUME NEW c \in Seq(Cell), NEW i \in Fronts(c)
  PROVE  /\ i \in 1 .. Len(c) /\ c[i] \in Cell /\ c[i].part = "front"
         /\ Len(Cells(c[i].msg)) \in {2, 4}
         /\ \A j \in 1 .. Len(Cells(c[i].msg)) : Cells(c[i].msg)[j].part = "front" <=> j = 1
<1>1. i \in 1 .. Len(c) /\ c[i].part = "front"
  BY DEF Fronts
<1>2. c[i] \in Cell
  BY <1>1
<1>3. c[i].msg \in Message
  BY <1>2 DEF Cell
<1>4. /\ Len(Cells(c[i].msg)) = IF c[i].msg.padded THEN 4 ELSE 2
      /\ \A j \in 1 .. Len(Cells(c[i].msg)) :
           Cells(c[i].msg)[j].msg = c[i].msg /\ (Cells(c[i].msg)[j].part = "front" <=> j = 1)
  BY <1>3, CellsFacts
<1> QED
  BY <1>1, <1>2, <1>4

(* Messages after messages. *)
LEMMA BlocksJoined ==
  ASSUME NEW a \in Seq(Cell), NEW b \in Seq(Cell), Blocks(a), Blocks(b)
  PROVE  Blocks(a \o b)
<1> DEFINE c == a \o b
<1>1. PICK la \in Nat, lb \in Nat :
        /\ la = Len(a) /\ lb = Len(b) /\ Len(c) = la + lb /\ c \in Seq(Cell)
        /\ \A i \in 1 .. la : c[i] = a[i]
        /\ \A i \in 1 .. lb : c[la + i] = b[i]
  BY Joined
<1>2. /\ a # <<>> <=> la # 0
      /\ b # <<>> <=> lb # 0
      /\ c # <<>> <=> la + lb # 0
  BY <1>1
<1> HIDE DEF c
<1>3. AtMessage(c)
  <2>1. CASE la # 0
    <3>1. c[1] = a[1] /\ a[1].part = "front"
      BY <1>1, <1>2, <2>1 DEF Blocks, AtMessage
    <3> QED
      BY <3>1 DEF AtMessage
  <2>2. CASE la = 0 /\ lb # 0
    <3>1. c[la + 1] = b[1] /\ la + 1 = 1 /\ b[1].part = "front"
      BY <1>1, <1>2, <2>2 DEF Blocks, AtMessage
    <3> QED
      BY <3>1 DEF AtMessage
  <2> QED
    BY <1>2, <2>1, <2>2 DEF AtMessage
<1>4. ASSUME NEW i \in Fronts(c)
      PROVE  Block(c, i)
  <2> DEFINE n == Len(Cells(c[i].msg))
             m == Cells(c[i].msg)
  <2>0. i \in 1 .. Len(c) /\ c[i].part = "front" /\ n \in {2, 4}
    BY <1>1, FrontFacts
  <2> HIDE DEF n, m
  <2>1. i \in 1 .. la + lb /\ c[i].part = "front" /\ n \in Nat /\ n # 0
    BY <1>1, <2>0
  <2>2. CASE i \in 1 .. la
    <3>1. c[i] = a[i] /\ i \in Fronts(a)
      BY <1>1, <2>1, <2>2 DEF Fronts
    <3>2. /\ i + n - 1 <= la
          /\ \A j \in 1 .. n : a[i + j - 1] = m[j]
          /\ i + n <= la => a[i + n].part = "front"
      BY <1>1, <3>1 DEF Blocks, Block, n, m
    <3>3. \A j \in 1 .. n : i + j - 1 \in 1 .. la
      BY <2>1, <2>2, <3>2
    <3>4. \A j \in 1 .. n : c[i + j - 1] = m[j]
      BY <1>1, <3>2, <3>3
    <3>5. i + n <= la + lb => c[i + n].part = "front"
      <4>1. CASE i + n <= la
        BY <1>1, <2>1, <2>2, <3>2, <4>1
      <4>2. CASE i + n = la + 1 /\ lb # 0
        <5>1. c[la + 1] = b[1] /\ b[1].part = "front"
          BY <1>1, <1>2, <4>2 DEF Blocks, AtMessage
        <5> QED
          BY <4>2, <5>1
      <4> QED
        BY <2>1, <3>2, <4>1, <4>2
    <3> QED
      BY <1>1, <2>1, <3>2, <3>4, <3>5 DEF Block, n, m
  <2>3. CASE i \notin 1 .. la
    <3> DEFINE k == i - la
    <3>1. k \in 1 .. lb /\ i = la + k
      BY <1>1, <2>1, <2>3
    <3> HIDE DEF k
    <3>2. c[i] = b[k] /\ k \in Fronts(b)
      BY <1>1, <2>1, <3>1 DEF Fronts
    <3>3. /\ k + n - 1 <= lb
          /\ \A j \in 1 .. n : b[k + j - 1] = m[j]
          /\ k + n <= lb => b[k + n].part = "front"
      BY <1>1, <3>2 DEF Blocks, Block, n, m
    <3>4. \A j \in 1 .. n : k + j - 1 \in 1 .. lb /\ i + j - 1 = la + (k + j - 1)
      BY <2>1, <3>1, <3>3
    <3>5. \A j \in 1 .. n : c[i + j - 1] = m[j]
      BY <1>1, <3>3, <3>4
    <3>6. i + n - 1 <= la + lb
      BY <2>1, <3>1, <3>3
    <3>7. ASSUME i + n <= la + lb
          PROVE  c[i + n].part = "front"
      <4>1. k + n \in 1 .. lb /\ i + n = la + (k + n) /\ k + n <= lb
        BY <2>1, <3>1, <3>7
      <4>2. c[la + (k + n)] = b[k + n] /\ b[k + n].part = "front"
        BY <1>1, <3>3, <4>1
      <4> QED
        BY <4>1, <4>2
    <3> QED
      BY <1>1, <3>5, <3>6, <3>7 DEF Block, n, m
  <2> QED
    BY <2>2, <2>3
<1> QED
  BY <1>3, <1>4 DEF Blocks, c

(* Messages that are divided between two of them. *)
LEMMA BlocksDivided ==
  ASSUME NEW c \in Seq(Cell), Blocks(c), NEW n \in 0 .. Len(c),
         NEW a, a = SubSeq(c, 1, n), AtMessage(a),
         NEW b, b = SubSeq(c, n + 1, Len(c)), AtMessage(b)
  PROVE  Blocks(a) /\ Blocks(b)
<1>1. PICK lb \in Nat :
        /\ n \in Nat /\ Len(c) = n + lb /\ Len(a) = n /\ Len(b) = lb
        /\ \A i \in 1 .. n : a[i] = c[i]
        /\ \A i \in 1 .. lb : b[i] = c[n + i]
  BY SMTT(30)
<1>2. b # <<>> <=> lb # 0
  BY <1>1
<1>3. ASSUME NEW i \in Fronts(b)
      PROVE  Block(b, i)
  <2>1. i \in 1 .. lb /\ b[i] = c[n + i] /\ n + i \in Fronts(c)
    <3>1. DOMAIN b = 1 .. lb /\ DOMAIN c = 1 .. n + lb
      BY <1>1
    <3>2. i \in 1 .. lb /\ b[i].part = "front"
      BY <3>1 DEF Fronts
    <3>3. n + i \in 1 .. n + lb /\ b[i] = c[n + i]
      BY <1>1, <3>2
    <3> QED
      BY <3>1, <3>2, <3>3 DEF Fronts
  <2> DEFINE k == Len(Cells(b[i].msg))
             m == Cells(b[i].msg)
  <2>2. /\ k \in Nat /\ k # 0
        /\ n + i + k - 1 <= n + lb
        /\ \A j \in 1 .. k : c[n + i + j - 1] = m[j]
        /\ n + i + k <= n + lb => c[n + i + k].part = "front"
    <3>1. k \in {2, 4}
      BY <2>1, FrontFacts
    <3>2. Block(c, n + i)
      BY <2>1 DEF Blocks
    <3>3. /\ n + i + k - 1 <= Len(c)
          /\ \A j \in 1 .. k : c[n + i + j - 1] = m[j]
          /\ n + i + k <= Len(c) => c[n + i + k].part = "front"
      BY <2>1, <3>2 DEF Block
    <3> HIDE DEF k, m
    <3>4. Len(c) = n + lb
      BY <1>1
    <3> QED
      BY <3>1, <3>3, <3>4
  <2> HIDE DEF k, m
  <2>3. ASSUME NEW j \in 1 .. k
        PROVE  i + j - 1 \in 1 .. lb /\ n + (i + j - 1) = n + i + j - 1
    <3>1. i \in Nat /\ j \in Nat /\ 1 <= j /\ j <= k /\ 1 <= i
      BY <2>1, <2>2
    <3> QED
      BY <1>1, <2>2, <3>1
  <2>4. \A j \in 1 .. k : b[i + j - 1] = m[j]
    BY <1>1, <2>2, <2>3
  <2>5. i + k - 1 <= lb
    BY <1>1, <2>1, <2>2
  <2>6. ASSUME i + k <= lb
        PROVE  b[i + k].part = "front"
    <3>1. i + k \in 1 .. lb /\ n + (i + k) = n + i + k /\ n + i + k <= n + lb
      BY <1>1, <2>1, <2>2, <2>6
    <3> QED
      BY <1>1, <2>2, <3>1
  <2> QED
    BY <1>1, <2>4, <2>5, <2>6 DEF Block, k, m
<1>4. ASSUME NEW i \in Fronts(a)
      PROVE  Block(a, i)
  <2>1. i \in 1 .. n /\ a[i] = c[i] /\ i \in Fronts(c)
    BY <1>1 DEF Fronts
  <2> DEFINE k == Len(Cells(a[i].msg))
             m == Cells(a[i].msg)
  <2>2. /\ k \in Nat /\ k # 0
        /\ \A j \in 1 .. k : m[j].part = "front" <=> j = 1
        /\ i + k - 1 <= n + lb
        /\ \A j \in 1 .. k : c[i + j - 1] = m[j]
        /\ i + k <= n + lb => c[i + k].part = "front"
    <3>1. k \in {2, 4} /\ \A j \in 1 .. k : m[j].part = "front" <=> j = 1
      BY <2>1, FrontFacts
    <3>2. Block(c, i)
      BY <2>1 DEF Blocks
    <3>3. /\ i + k - 1 <= Len(c)
          /\ \A j \in 1 .. k : c[i + j - 1] = m[j]
          /\ i + k <= Len(c) => c[i + k].part = "front"
      BY <2>1, <3>2 DEF Block
    <3> HIDE DEF k, m
    <3> QED
      BY <1>1, <3>1, <3>3
  <2> HIDE DEF k, m
  <2>3. i + k - 1 <= n
    <3> SUFFICES ASSUME ~(i + k - 1 <= n)
                 PROVE  FALSE
      OBVIOUS
    <3>1. lb # 0 /\ n + 2 - i \in 1 .. k /\ n + 2 - i # 1 /\ i + (n + 2 - i) - 1 = n + 1
      <4>1. /\ i \in Nat /\ 1 <= i /\ i <= n /\ n < i + k - 1 /\ n \in Nat
            /\ k \in Nat /\ i + k - 1 <= n + lb
        BY <1>1, <2>1, <2>2
      <4> QED
        BY <4>1
    <3>2. c[n + 1] = m[n + 2 - i] /\ m[n + 2 - i].part # "front"
      BY <2>2, <3>1
    <3>3. b[1] = c[n + 1] /\ b[1].part = "front"
      BY <1>1, <1>2, <3>1 DEF AtMessage
    <3> QED
      BY <3>2, <3>3
  <2>4. \A j \in 1 .. k : i + j - 1 \in 1 .. n
    BY <1>1, <2>1, <2>2, <2>3
  <2>5. \A j \in 1 .. k : a[i + j - 1] = m[j]
    BY <1>1, <2>2, <2>4
  <2>6. ASSUME i + k <= n
        PROVE  a[i + k].part = "front"
    BY <1>1, <2>1, <2>2, <2>6
  <2> QED
    BY <1>1, <2>3, <2>5, <2>6 DEF Block, k, m
<1> QED
  BY <1>3, <1>4 DEF Blocks

(* What the string of some cells is. *)
LEMMA StringEnds ==
  ASSUME NEW c \in Seq(Cell), NEW n \in 0 .. Len(c),
         \A i \in 1 .. n : c[i].part # "zero",
         n < Len(c) => c[n + 1].part = "zero"
  PROVE  AsString(c) = SubSeq(c, 1, n)
<1>1. PICK k \in 0 .. Len(c) : /\ AsString(c) = SubSeq(c, 1, k)
                               /\ \A i \in 1 .. k : c[i].part # "zero"
                               /\ k < Len(c) => c[k + 1].part = "zero"
  BY AsStringFacts
<1>2. n \in Nat /\ k \in Nat /\ n <= Len(c) /\ k <= Len(c) /\ Len(c) \in Nat
  OBVIOUS
<1>3. CASE n < k
  <2>1. n + 1 \in 1 .. k /\ n < Len(c)
    BY <1>2, <1>3
  <2> QED
    BY <1>1, <2>1
<1>4. CASE k < n
  <2>1. k + 1 \in 1 .. n /\ k < Len(c)
    BY <1>2, <1>4
  <2> QED
    BY <1>1, <2>1
<1>5. CASE k = n
  BY <1>1, <1>5
<1> QED
  BY <1>2, <1>3, <1>4, <1>5

(* The string of the cells of one message is its text. *)
LEMMA StringOfOne ==
  ASSUME NEW m \in Message
  PROVE  AsString(Cells(m)) = Text(m)
<1> DEFINE c == Cells(m)
<1>1. /\ c \in Seq(Cell) /\ Len(c) \in {2, 4} /\ c[1] = Text(m)[1] /\ c[2] = Text(m)[2]
      /\ c[1].part # "zero" /\ c[2].part # "zero"
      /\ Len(c) = 4 => c[3].part = "zero"
      /\ Text(m) \in Seq(TextCell) /\ Len(Text(m)) = 2
  <2>1. \A j \in 3 .. Len(c) : c[j].part = "zero"
    BY CellsFacts
  <2>2. Len(c) = 4 => 3 \in 3 .. Len(c)
    OBVIOUS
  <2>3. Len(c) = 4 => c[3].part = "zero"
    BY <2>1, <2>2
  <2>4. /\ Text(m)[1] = [msg |-> m, part |-> "front"]
        /\ Text(m)[2] = [msg |-> m, part |-> "end"]
        /\ c[1] = [msg |-> m, part |-> "front"]
        /\ c[2] = [msg |-> m, part |-> "end"]
    BY CellsFacts
  <2>5. /\ c \in Seq(Cell) /\ Len(c) \in {2, 4}
        /\ Text(m) \in Seq(TextCell) /\ Len(Text(m)) = 2
    BY CellsFacts
  <2> HIDE DEF c
  <2> QED
    BY <2>3, <2>4, <2>5
<1> HIDE DEF c
<1>2. AsString(c) = SubSeq(c, 1, 2)
  <2>1. \A i \in 1 .. 2 : c[i].part # "zero"
    <3>1. \A i \in 1 .. 2 : i \in {1, 2}
      OBVIOUS
    <3> QED
      BY <1>1, <3>1
  <2>2. 2 \in 0 .. Len(c) /\ (2 < Len(c) => c[2 + 1].part = "zero")
    BY <1>1
  <2> QED
    BY <1>1, <2>1, <2>2, StringEnds
<1>3. /\ Len(SubSeq(c, 1, 2)) = 2 /\ SubSeq(c, 1, 2)[1] = c[1] /\ SubSeq(c, 1, 2)[2] = c[2]
      /\ SubSeq(c, 1, 2) \in Seq(Cell)
  BY <1>1
<1> QED
  BY <1>1, <1>2, <1>3 DEF c

(* The string of what recv() gives, when that is messages, all of each. *)
LEMMA StringOfBlocks ==
  ASSUME NEW c \in Seq(Cell), Blocks(c), Len(c) \in 1 .. MaxLen
  PROVE  Texts(AsString(c)) /\ AsString(c) # <<>>
<1> DEFINE m == c[1].msg
           s == AsString(c)
<1>1. 1 \in Fronts(c) /\ c[1] \in Cell /\ m \in Message
  <2>1. c[1] \in Cell /\ 1 \in DOMAIN c /\ c # <<>>
    OBVIOUS
  <2>2. c[1].part = "front"
    BY <2>1 DEF Blocks, AtMessage
  <2> QED
    BY <2>1, <2>2 DEF Fronts, Cell
<1>2. /\ \A j \in 1 .. Len(Cells(m)) : c[1 + j - 1] = Cells(m)[j]
      /\ 1 + Len(Cells(m)) - 1 <= Len(c)
      /\ 1 + Len(Cells(m)) <= Len(c) => c[1 + Len(Cells(m))].part = "front"
  BY <1>1 DEF Blocks, Block
<1>3. /\ Len(Cells(m)) = IF m.padded THEN 4 ELSE 2
      /\ Cells(m)[1] = [msg |-> m, part |-> "front"]
      /\ Cells(m)[2] = [msg |-> m, part |-> "end"]
      /\ \A j \in 3 .. Len(Cells(m)) : Cells(m)[j].part = "zero"
  BY <1>1, CellsFacts
<1>4. /\ c[1] = [msg |-> m, part |-> "front"]
      /\ c[2] = [msg |-> m, part |-> "end"]
      /\ Len(c) \in Nat /\ 2 <= Len(c) /\ Len(c) <= 4
  <2>1. 1 \in 1 .. Len(Cells(m)) /\ 2 \in 1 .. Len(Cells(m)) /\ 1 + 1 - 1 = 1 /\ 1 + 2 - 1 = 2
    BY <1>3
  <2> QED
    <3>1. c[1] = Cells(m)[1] /\ c[2] = Cells(m)[2]
      BY <1>2, <2>1
    <3>2. Len(c) \in Nat /\ Len(c) <= 4
      <4>1. PICK l \in 1 .. 4 : l = Len(c)
        BY DEF MaxLen
      <4> QED
        BY <4>1
    <3>3. Len(Cells(m)) \in {2, 4}
      BY <1>3
    <3> QED
      BY <1>2, <1>3, <3>1, <3>2, <3>3
<1> HIDE DEF m
<1>5. ASSUME Len(c) = 2 \/ c[3].part = "zero"
      PROVE  Texts(s) /\ s # <<>>
  <2>1. s = SubSeq(c, 1, 2)
    <3>1. \A i \in 1 .. 2 : i \in {1, 2}
      OBVIOUS
    <3>2. \A i \in 1 .. 2 : c[i].part # "zero"
      BY <1>4, <3>1
    <3>3. 2 \in 0 .. Len(c) /\ (2 < Len(c) => c[2 + 1].part = "zero")
      BY <1>4, <1>5
    <3> QED
      BY <3>2, <3>3, StringEnds
  <2>2. Len(s) = 2 /\ s[1] = c[1] /\ s[2] = c[2]
    BY <1>4, <2>1
  <2> HIDE DEF s
  <2>3. 1 \in 0 .. Len(s) /\ Len(s) = 2 * 1
    BY <2>2
  <2>4. \A k \in 1 .. 1 : 2 * k = 2 /\ 2 * k - 1 = 1
    OBVIOUS
  <2>5. \A k \in 1 .. 1 : /\ s[2 * k - 1] = [msg |-> s[2 * k].msg, part |-> "front"]
                          /\ s[2 * k].part = "end"
    BY <1>4, <2>2, <2>4
  <2>6. Texts(s)
    BY <2>3, <2>5 DEF Texts
  <2>7. s # <<>>
    BY SMTT(30), <2>2
  <2> QED
    BY <2>6, <2>7 DEF s
<1>6. CASE m.padded
  <2>1. Len(Cells(m)) = 4 /\ 3 \in 1 .. 4 /\ 3 \in 3 .. 4 /\ 1 + 3 - 1 = 3
    BY <1>3, <1>6
  <2>2. c[3].part = "zero"
    BY <1>2, <1>3, <2>1
  <2> QED
    BY <1>5, <2>2
<1>7. CASE ~m.padded /\ Len(c) # 2
  <2>1. 3 \in Fronts(c) /\ c[3] \in Cell
    <3>1. Len(Cells(m)) = 2 /\ 1 + 2 = 3
      BY <1>3, <1>7
    <3>2. 3 <= Len(c)
      <4>1. PICK l \in Nat : l = Len(c) /\ 2 <= l /\ l # 2
        BY <1>4, <1>7
      <4> QED
        BY <4>1
    <3>3. c[3].part = "front"
      BY <1>2, <3>1, <3>2
    <3>4. 3 \in DOMAIN c /\ c[3] \in Cell
      BY <1>4, <3>2
    <3> QED
      BY <3>3, <3>4 DEF Fronts
  <2> DEFINE q == c[3].msg
  <2>2. q \in Message
    BY <2>1 DEF Cell
  <2>3. /\ \A j \in 1 .. Len(Cells(q)) : c[3 + j - 1] = Cells(q)[j]
        /\ 3 + Len(Cells(q)) - 1 <= Len(c)
    BY <2>1 DEF Blocks, Block
  <2>4. /\ Len(Cells(q)) = IF q.padded THEN 4 ELSE 2
        /\ Cells(q)[1] = [msg |-> q, part |-> "front"]
        /\ Cells(q)[2] = [msg |-> q, part |-> "end"]
    BY <2>2, CellsFacts
  <2> HIDE DEF q
  <2>5. Len(Cells(q)) = 2 /\ Len(c) = 4
    <3>1. PICK n \in {2, 4} : n = Len(Cells(q))
      BY <2>4
    <3>2. PICK l \in Nat : l = Len(c) /\ 3 + n - 1 <= l /\ l <= 4
      BY <1>4, <2>3, <3>1
    <3>3. n = 2 /\ l = 4
      BY <3>2
    <3> QED
      BY <3>1, <3>2, <3>3
  <2>6. c[3] = [msg |-> q, part |-> "front"] /\ c[4] = [msg |-> q, part |-> "end"]
    <3>1. 1 \in 1 .. 2 /\ 2 \in 1 .. 2 /\ 3 + 1 - 1 = 3 /\ 3 + 2 - 1 = 4
      OBVIOUS
    <3> QED
      BY <2>3, <2>4, <2>5, <3>1
  <2>7. s = SubSeq(c, 1, 4)
    <3>1. \A i \in 1 .. 4 : i \in {1, 2, 3, 4}
      OBVIOUS
    <3>2. \A i \in 1 .. 4 : c[i].part # "zero"
      BY <1>4, <2>6, <3>1
    <3>3. 4 \in 0 .. Len(c) /\ ~(4 < Len(c))
      BY <2>5
    <3> QED
      BY <3>2, <3>3, StringEnds
  <2>8. Len(s) = 4 /\ s[1] = c[1] /\ s[2] = c[2] /\ s[3] = c[3] /\ s[4] = c[4]
    BY <2>5, <2>7
  <2> HIDE DEF s
  <2>9. 2 \in 0 .. Len(s) /\ Len(s) = 2 * 2
    BY <2>8
  <2>10. \A k \in 1 .. 2 : \/ 2 * k = 2 /\ 2 * k - 1 = 1
                           \/ 2 * k = 4 /\ 2 * k - 1 = 3
    OBVIOUS
  <2>11. \A k \in 1 .. 2 : /\ s[2 * k - 1] = [msg |-> s[2 * k].msg, part |-> "front"]
                           /\ s[2 * k].part = "end"
    BY <1>4, <2>6, <2>8, <2>10
  <2>12. Texts(s)
    BY <2>9, <2>11 DEF Texts
  <2>13. s # <<>>
    <3>1. Len(s) # 0 /\ Len(<<>>) = 0
      BY <2>8
    <3> QED
      BY <3>1
  <2> QED
    BY <2>12, <2>13 DEF s
<1> QED
  BY <1>5, <1>6, <1>7

(* The messages of a string. *)
LEMMA EndedFacts ==
  ASSUME NEW b \in Seq(TextCell)
  PROVE  /\ Ended(b) \in Seq(Message)
         /\ \A n \in Nat : Len(b) = 2 * n =>
              Len(Ended(b)) = n /\ \A k \in 1 .. n : Ended(b)[k] = b[2 * k].msg
<1>1. PICK n \in Nat : /\ Len(b) \div 2 = n /\ 2 * n <= Len(b) /\ Len(b) < 2 * n + 2
  OBVIOUS
<1>2. Ended(b) = [k \in 1 .. n |-> b[2 * k].msg]
  BY <1>1 DEF Ended
<1>3. ASSUME NEW k \in 1 .. n
      PROVE  b[2 * k].msg \in Message
  <2>1. 2 * k \in 1 .. Len(b)
    BY <1>1
  <2>2. b[2 * k] \in TextCell
    BY <2>1
  <2> QED
    BY <2>2 DEF TextCell
<1>4. Ended(b) \in Seq(Message) /\ Len(Ended(b)) = n
  BY <1>2, <1>3
<1>5. ASSUME NEW k \in Nat, Len(b) = 2 * k
      PROVE  k = n
  BY <1>1, <1>5
<1> QED
  BY <1>2, <1>4, <1>5

(* Messages after messages, in a string. *)
LEMMA TextsJoined ==
  ASSUME NEW a \in Seq(TextCell), NEW b \in Seq(TextCell), Texts(a), Texts(b)
  PROVE  Texts(a \o b) /\ Ended(a \o b) = Ended(a) \o Ended(b)
<1> DEFINE c == a \o b
<1>1. PICK la \in 0 .. Len(a) :
                        /\ Len(a) = 2 * la
                        /\ \A k \in 1 .. la :
                             /\ a[2 * k - 1] = [msg |-> a[2 * k].msg, part |-> "front"]
                             /\ a[2 * k].part = "end"
  BY DEF Texts
<1>2. PICK lb \in 0 .. Len(b) :
                        /\ Len(b) = 2 * lb
                        /\ \A k \in 1 .. lb :
                             /\ b[2 * k - 1] = [msg |-> b[2 * k].msg, part |-> "front"]
                             /\ b[2 * k].part = "end"
  BY DEF Texts
<1>0. la \in Nat /\ lb \in Nat
  OBVIOUS
<1>3. /\ c \in Seq(TextCell) /\ Len(c) = 2 * (la + lb)
      /\ \A i \in 1 .. 2 * la : c[i] = a[i]
      /\ \A i \in 1 .. 2 * lb : c[2 * la + i] = b[i]
  <2>1. /\ c \in Seq(TextCell) /\ Len(c) = Len(a) + Len(b)
        /\ \A i \in 1 .. Len(a) : c[i] = a[i]
        /\ \A i \in 1 .. Len(b) : c[Len(a) + i] = b[i]
    BY Joined
  <2>2. Len(a) = 2 * la /\ Len(b) = 2 * lb
    BY <1>1, <1>2
  <2> HIDE DEF c
  <2> QED
    BY <1>0, <2>1, <2>2
<1> HIDE DEF c
<1>4. \A k \in 1 .. la : c[2 * k - 1] = a[2 * k - 1] /\ c[2 * k] = a[2 * k]
  <2>1. \A k \in 1 .. la : 2 * k - 1 \in 1 .. 2 * la /\ 2 * k \in 1 .. 2 * la
    BY <1>0
  <2> QED
    BY <1>3, <2>1
<1>5. ASSUME NEW k \in 1 .. la + lb, k \notin 1 .. la
      PROVE  /\ k - la \in 1 .. lb
             /\ c[2 * k - 1] = b[2 * (k - la) - 1] /\ c[2 * k] = b[2 * (k - la)]
  <2>1. /\ k - la \in 1 .. lb
        /\ 2 * (k - la) - 1 \in 1 .. 2 * lb /\ 2 * (k - la) \in 1 .. 2 * lb
        /\ 2 * k - 1 = 2 * la + (2 * (k - la) - 1) /\ 2 * k = 2 * la + 2 * (k - la)
    BY <1>0, <1>5
  <2> QED
    BY <1>3, <2>1
<1>6. \A k \in 1 .. la + lb : /\ c[2 * k - 1] = [msg |-> c[2 * k].msg, part |-> "front"]
                              /\ c[2 * k].part = "end"
  BY <1>0, <1>1, <1>2, <1>4, <1>5
<1>7. Texts(c)
  <2>1. la + lb \in 0 .. Len(c)
    BY <1>3
  <2> QED
    BY <1>3, <1>6, <2>1 DEF Texts
<1>8. Ended(c) = Ended(a) \o Ended(b)
  <2>1. /\ Ended(c) \in Seq(Message) /\ Len(Ended(c)) = la + lb
        /\ \A k \in 1 .. la + lb : Ended(c)[k] = c[2 * k].msg
    <3>1. la + lb \in Nat
      BY <1>0
    <3> QED
      BY <1>3, <3>1, EndedFacts
  <2>2. /\ Ended(a) \in Seq(Message) /\ Len(Ended(a)) = la
        /\ \A k \in 1 .. la : Ended(a)[k] = a[2 * k].msg
    BY <1>0, <1>1, EndedFacts
  <2>3. /\ Ended(b) \in Seq(Message) /\ Len(Ended(b)) = lb
        /\ \A k \in 1 .. lb : Ended(b)[k] = b[2 * k].msg
    BY <1>0, <1>2, EndedFacts
  <2> DEFINE e == Ended(a) \o Ended(b)
  <2>4. /\ e \in Seq(Message) /\ Len(e) = Len(Ended(a)) + Len(Ended(b))
        /\ \A k \in 1 .. Len(Ended(a)) : e[k] = Ended(a)[k]
        /\ \A k \in 1 .. Len(Ended(b)) : e[Len(Ended(a)) + k] = Ended(b)[k]
    <3>1. Ended(a) \in Seq(Message) /\ Ended(b) \in Seq(Message)
      BY <2>2, <2>3
    <3> QED
      BY <3>1, Joined
  <2> HIDE DEF e
  <2>5. ASSUME NEW k \in 1 .. la + lb
        PROVE  e[k] = Ended(c)[k]
    <3>1. CASE k \in 1 .. la
      BY <1>4, <2>1, <2>2, <2>4, <3>1
    <3>2. CASE k \notin 1 .. la
      <4>1. k - la \in 1 .. lb /\ k = la + (k - la) /\ c[2 * k] = b[2 * (k - la)]
        BY <1>5, <3>2
      <4>2. e[la + (k - la)] = b[2 * (k - la)].msg
        BY <2>2, <2>3, <2>4, <4>1
      <4> QED
        BY <2>1, <4>1, <4>2
    <3> QED
      BY <3>1, <3>2
  <2>6. Len(e) = la + lb
    BY <2>2, <2>3, <2>4
  <2>7. e = Ended(c)
    BY <2>1, <2>4, <2>5, <2>6
  <2> QED
    BY <2>7 DEF e
<1> QED
  BY <1>7, <1>8 DEF c

(* The first message of a string of messages, and those after it. *)
LEMMA TextsDivided ==
  ASSUME NEW v \in Seq(TextCell), Texts(v), v # <<>>,
         NEW rest, rest = SubSeq(v, 3, Len(v)), NEW m, m = v[2].msg
  PROVE  /\ Terminator(v) = 2 /\ m \in Message /\ SubSeq(v, 1, 2) = Text(m)
         /\ rest \in Seq(TextCell) /\ Texts(rest)
         /\ Ended(v) = <<m>> \o Ended(rest)
<1>1. PICK n \in 0 .. Len(v) :
        /\ Len(v) = 2 * n
        /\ \A k \in 1 .. n : /\ v[2 * k - 1] = [msg |-> v[2 * k].msg, part |-> "front"]
                             /\ v[2 * k].part = "end"
  BY DEF Texts
<1>2. PICK l \in Nat : l = Len(v) /\ l # 0
  OBVIOUS
<1>3. n \in Nat /\ n # 0 /\ l = 2 * n /\ 2 \in 1 .. l /\ 1 \in 1 .. n /\ 2 * 1 = 2 /\ 2 - 1 = 1
  BY <1>1, <1>2
<1>4. v[1] = [msg |-> m, part |-> "front"] /\ v[2].part = "end"
  BY <1>1, <1>3
<1>5. v[2] \in TextCell
  <2>1. 2 \in 1 .. Len(v)
    BY <1>2, <1>3
  <2> QED
    BY <2>1
<1>6. m \in Message /\ v[2] = [msg |-> m, part |-> "end"]
  BY <1>4, <1>5 DEF TextCell
<1>7. Terminator(v) = 2
  <2>1. PICK d \in 0 .. l :
          /\ d = Terminator(v)
          /\ d = 0 => \A i \in 1 .. l : v[i].part # "end"
          /\ d # 0 => v[d].part = "end" /\ \A i \in 1 .. d - 1 : v[i].part # "end"
    BY <1>2, TerminatorFacts
  <2>2. d # 0 /\ d # 1
    BY <1>3, <1>4, <2>1
  <2>3. ~(2 < d)
    <3>1. 2 < d => 2 \in 1 .. d - 1
      BY <2>1
    <3> QED
      BY <1>4, <2>1, <2>2, <3>1
  <2> QED
    BY <2>1, <2>2, <2>3
<1>8. SubSeq(v, 1, 2) = Text(m)
  <2> DEFINE s == SubSeq(v, 1, 2)
  <2>1. s \in Seq(TextCell) /\ Len(s) = 2 /\ s[1] = v[1] /\ s[2] = v[2]
    <3>1. 0 \in Nat /\ 2 \in Nat /\ 0 <= 2 /\ 2 <= Len(v) /\ 0 + 1 = 1 /\ 2 - 0 = 2
      BY <1>2, <1>3
    <3>2. /\ s \in Seq(TextCell) /\ Len(s) = 2
          /\ \A i \in 1 .. 2 : s[i] = v[0 + i]
      BY <3>1, Part
    <3>3. 1 \in 1 .. 2 /\ 2 \in 1 .. 2 /\ 0 + 1 = 1 /\ 0 + 2 = 2
      OBVIOUS
    <3> QED
      BY <3>2, <3>3
  <2>2. /\ Text(m) \in Seq(TextCell) /\ Len(Text(m)) = 2
        /\ Text(m)[1] = v[1] /\ Text(m)[2] = v[2]
    BY <1>4, <1>6, CellsFacts
  <2> HIDE DEF s
  <2>3. s = Text(m)
    <3>1. \A i \in 1 .. 2 : i \in {1, 2}
      OBVIOUS
    <3> QED
      BY <2>1, <2>2, <3>1
  <2> QED
    BY <2>3 DEF s
<1>9. /\ rest \in Seq(TextCell) /\ Len(rest) = 2 * (n - 1)
      /\ \A i \in 1 .. 2 * (n - 1) : rest[i] = v[2 + i]
  <2>1. 2 \in Nat /\ 2 <= l /\ 2 + 1 = 3 /\ l - 2 = 2 * (n - 1)
    BY <1>3
  <2> QED
    BY <1>2, <2>1, Part
<1>10. ASSUME NEW k \in 1 .. n - 1
       PROVE  /\ k + 1 \in 1 .. n
              /\ rest[2 * k - 1] = v[2 * (k + 1) - 1] /\ rest[2 * k] = v[2 * (k + 1)]
  <2>1. /\ k + 1 \in 1 .. n /\ 2 * k - 1 \in 1 .. 2 * (n - 1) /\ 2 * k \in 1 .. 2 * (n - 1)
        /\ 2 + (2 * k - 1) = 2 * (k + 1) - 1 /\ 2 + 2 * k = 2 * (k + 1)
    BY <1>3
  <2> QED
    BY <1>9, <2>1
<1>11. Texts(rest)
  <2>1. n - 1 \in 0 .. Len(rest)
    BY <1>3, <1>9
  <2>2. \A k \in 1 .. n - 1 : /\ rest[2 * k - 1] = [msg |-> rest[2 * k].msg, part |-> "front"]
                              /\ rest[2 * k].part = "end"
    BY <1>1, <1>10
  <2> QED
    BY <1>9, <2>1, <2>2 DEF Texts
<1>12. Ended(v) = <<m>> \o Ended(rest)
  <2>1. /\ Ended(v) \in Seq(Message) /\ Len(Ended(v)) = n
        /\ \A k \in 1 .. n : Ended(v)[k] = v[2 * k].msg
    BY <1>1, <1>3, EndedFacts
  <2>2. /\ Ended(rest) \in Seq(Message) /\ Len(Ended(rest)) = n - 1
        /\ \A k \in 1 .. n - 1 : Ended(rest)[k] = rest[2 * k].msg
    <3>1. n - 1 \in Nat
      BY <1>3
    <3> QED
      BY <1>9, <3>1, EndedFacts
  <2> DEFINE one == <<m>>
             e == one \o Ended(rest)
  <2>3. one \in Seq(Message) /\ Len(one) = 1 /\ one[1] = m
    BY <1>6
  <2> HIDE DEF one
  <2>4. /\ e \in Seq(Message) /\ Len(e) = Len(one) + Len(Ended(rest))
        /\ \A k \in 1 .. Len(one) : e[k] = one[k]
        /\ \A k \in 1 .. Len(Ended(rest)) : e[Len(one) + k] = Ended(rest)[k]
    <3>1. one \in Seq(Message) /\ Ended(rest) \in Seq(Message)
      BY <2>2, <2>3
    <3> QED
      BY <3>1, Joined
  <2> HIDE DEF e
  <2>5. Len(e) = n /\ e[1] = m /\ \A k \in 1 .. n - 1 : e[1 + k] = Ended(rest)[k]
    BY SMTT(30), <1>3, <2>2, <2>3, <2>4
  <2>6. ASSUME NEW k \in 1 .. n
        PROVE  e[k] = Ended(v)[k]
    <3>1. CASE k = 1
      BY <1>3, <2>1, <2>5, <3>1
    <3>2. CASE k # 1
      <4>1. k - 1 \in 1 .. n - 1 /\ 1 + (k - 1) = k /\ (k - 1) + 1 = k
        BY <1>3, <3>2
      <4>2. e[k] = rest[2 * (k - 1)].msg
        BY <2>2, <2>5, <4>1
      <4>3. rest[2 * (k - 1)] = v[2 * k]
        BY <1>10, <4>1
      <4> QED
        BY <2>1, <4>2, <4>3
    <3> QED
      BY <3>1, <3>2
  <2>7. e = Ended(v)
    BY <2>1, <2>4, <2>5, <2>6
  <2> QED
    BY <2>7 DEF e, one
<1> QED
  BY <1>6, <1>7, <1>8, <1>9, <1>11, <1>12

(* A string of messages has a terminator unless it is empty. *)
LEMMA TextsEnd ==
  ASSUME NEW v \in Seq(TextCell), Texts(v)
  PROVE  Terminator(v) # 0 <=> v # <<>>
<1>1. CASE v = <<>>
  <2>1. Terminator(v) \in 0 .. Len(v) /\ Len(v) = 0
    BY <1>1, TerminatorFacts
  <2> QED
    BY <1>1, <2>1
<1>2. CASE v # <<>>
  <2>1. Terminator(v) = 2
    BY <1>2, TextsDivided
  <2> QED
    BY <1>2, <2>1
<1> QED
  BY <1>1, <1>2

\* No client has sent more than all of them together.
Counted == \A i \in Conn : sent[i] <= sends

(* What Descriptor is, for a thread that has one. *)
LEMMA Descriptors ==
  ASSUME TypeOK, NEW t \in Thread, t = Comm => ready # {}
  PROVE  /\ Descriptor(t) \in Conn
         /\ t = Comm => Descriptor(t) \in ready /\ Descriptor(t) \in Client
         /\ t # Comm => Descriptor(t) = t /\ t \in Guest
<1>1. CASE t = Comm
  <2>1. ready \in SUBSET Nat /\ ready # {} /\ ready \subseteq Client
    BY <1>1, ConnAssumption DEF TypeOK
  <2>2. Min(ready) \in ready
    <3>1. PICK m \in ready : \A k \in ready : m <= k
      BY <2>1, Least
    <3> QED
      BY <3>1 DEF Min
  <2> QED
    BY <1>1, <2>1, <2>2 DEF Descriptor, Conn
<1>2. CASE t # Comm
  BY <1>2 DEF Descriptor, Conn, Thread
<1> QED
  BY <1>1, <1>2

(* Two threads do not read the same descriptor. *)
LEMMA DescriptorsDiffer ==
  ASSUME TypeOK, NEW t \in Thread, NEW u \in Thread, Comm \in {t, u} => ready # {},
         Descriptor(t) = Descriptor(u)
  PROVE  t = u
<1>1. /\ t = Comm => Descriptor(t) \in Client
      /\ t # Comm => Descriptor(t) = t /\ t \in Guest
  BY Descriptors
<1>2. /\ u = Comm => Descriptor(u) \in Client
      /\ u # Comm => Descriptor(u) = u /\ u \in Guest
  BY Descriptors
<1>3. \A i \in Client : i \notin Guest
  BY ConnAssumption
<1> QED
  BY <1>1, <1>2, <1>3, Zenon

(* The types hold at first. *)
LEMMA TypeInit == Init => TypeOK /\ Counted
<1> SUFFICES ASSUME Init
             PROVE  TypeOK /\ Counted
  OBVIOUS
<1>1. /\ stream \in [Conn -> Seq(Cell)] /\ sent \in [Conn -> 0 .. MaxSend]
      /\ sends \in 0 .. MaxSend /\ Counted
  BY MaxSendAssumption DEF Init, Counted
<1>2. /\ pc \in [Thread -> {"idle", "recv", "load", "append", "find", "store"}]
      /\ buffer \in [Thread -> Seq(Cell)] /\ value \in [Thread -> Seq(TextCell)]
      /\ pc[Comm] = "idle"
  BY DEF Init, Thread
<1>3. localBuffer \in Seq(TextCell) /\ arrived \in Seq(Message)
  BY DEF Init
<1>4. given \in Seq([to : Conn, text : Seq(TextCell)])
  BY DEF Init
<1>5. /\ ended \subseteq Conn /\ ready \subseteq Client /\ crashed \in BOOLEAN
      /\ alone \in BOOLEAN /\ whole \in BOOLEAN /\ overlapped \in BOOLEAN
  BY DEF Init
<1> QED
  BY <1>1, <1>2, <1>3, <1>4, <1>5 DEF TypeOK

(* They hold after a client sends a message. *)
LEMMA SendTypes ==
  ASSUME TypeOK, Counted, NEW i \in Conn, NEW padded \in BOOLEAN, Send(i, padded)
  PROVE  TypeOK' /\ Counted'
<1> DEFINE m == [from |-> i, no |-> sent[i] + 1, padded |-> padded]
<1>1. /\ sends < MaxSend /\ sends' = sends + 1
      /\ sent' = [sent EXCEPT ![i] = @ + 1]
      /\ stream' = [stream EXCEPT ![i] = @ \o Cells(m)]
      /\ UNCHANGED <<ended, localBuffer, pc, buffer, value, ready, crashed, history>>
  BY DEF Send
<1>2. sends \in 0 .. MaxSend /\ MaxSend \in Nat /\ sent \in [Conn -> 0 .. MaxSend]
  BY MaxSendAssumption DEF TypeOK
<1>3. \A j \in Conn : sent[j] \in Nat /\ sent[j] <= sends
  BY <1>2 DEF Counted
<1>4. /\ sends' \in 0 .. MaxSend
      /\ \A j \in Conn : sent'[j] \in 0 .. MaxSend /\ sent'[j] <= sends'
  BY <1>1, <1>2, <1>3
<1>5. sent' \in [Conn -> 0 .. MaxSend]
  BY <1>1, <1>2, <1>4
<1>6. m \in Message
  <2>1. sent[i] + 1 \in 1 .. MaxSend
    BY <1>1, <1>2, <1>3
  <2> QED
    BY <2>1 DEF Message
<1> HIDE DEF m
<1>7. stream[i] \in Seq(Cell) /\ Cells(m) \in Seq(Cell)
  <2>1. Cells(m) \in Seq(Cell)
    BY <1>6, CellsFacts
  <2>2. stream[i] \in Seq(Cell)
    BY DEF TypeOK
  <2> QED
    BY <2>1, <2>2
<1>8. stream[i] \o Cells(m) \in Seq(Cell)
  BY <1>7, Joined
<1>9. stream' \in [Conn -> Seq(Cell)]
  BY <1>1, <1>8 DEF TypeOK
<1> QED
  BY <1>1, <1>4, <1>5, <1>9 DEF TypeOK, Counted, history, flags

(* How many cells recv() returns. *)
LEMMA ReceiveBound ==
  ASSUME NEW l \in Nat, NEW n \in 1 .. Min({MaxLen, l})
  PROVE  n \in 1 .. l /\ n \in 1 .. MaxLen
<1>1. {MaxLen, l} \in SUBSET Nat /\ {MaxLen, l} # {}
  BY DEF MaxLen
<1>2. PICK m \in {MaxLen, l} : \A k \in {MaxLen, l} : m <= k
  BY <1>1, Least
<1>3. PICK b : /\ b = Min({MaxLen, l}) /\ b \in {MaxLen, l}
               /\ \A k \in {MaxLen, l} : b <= k
  BY <1>2 DEF Min
<1>4. b \in Nat /\ b <= l /\ b <= MaxLen /\ MaxLen \in Nat /\ n \in 1 .. b
  BY <1>1, <1>3
<1> QED
  BY <1>4

(* They hold after recv() returns cells. *)
LEMMA ReceiveTypes ==
  ASSUME TypeOK, NEW t \in Thread, Receive(t)
  PROVE  TypeOK'
<1> DEFINE d == Descriptor(t)
           cells == stream[d]
<1>1. pc[t] = "recv" /\ pc' = [pc EXCEPT ![t] = "load"]
  BY DEF Receive, Goto
<1>2. d \in Conn /\ cells \in Seq(Cell)
  BY <1>1, Descriptors DEF TypeOK
<1>3. PICK n \in 1 .. Min({MaxLen, Len(cells)}) :
        /\ buffer' = [buffer EXCEPT ![t] = SubSeq(cells, 1, n)]
        /\ stream' = [stream EXCEPT ![d] = SubSeq(cells, n + 1, Len(cells))]
        /\ alone' = (alone /\ SubSeq(cells, 1, n) = Cells(SubSeq(cells, 1, n)[1].msg))
        /\ whole' = (whole /\ AtMessage(SubSeq(cells, 1, n))
                           /\ AtMessage(SubSeq(cells, n + 1, Len(cells))))
  BY DEF Receive
<1>4. /\ UNCHANGED <<sent, sends, ended, localBuffer, value, ready, crashed, overlapped>>
  BY DEF Receive
<1>5. SubSeq(cells, 1, n) \in Seq(Cell) /\ SubSeq(cells, n + 1, Len(cells)) \in Seq(Cell)
  <2>1. PICK l \in Nat : l = Len(cells)
    BY <1>2
  <2>2. n \in 1 .. l
    BY <2>1, ReceiveBound
  <2> HIDE DEF cells
  <2> QED
    BY <1>2, <2>1, <2>2
<1> HIDE DEF cells, d
<1>6. buffer' \in [Thread -> Seq(Cell)]
  BY <1>3, <1>5 DEF TypeOK
<1>7. stream' \in [Conn -> Seq(Cell)]
  BY <1>3, <1>5 DEF TypeOK
<1>8. alone' \in BOOLEAN /\ whole' \in BOOLEAN
  BY <1>3 DEF TypeOK
<1>9. /\ pc' \in [Thread -> {"idle", "recv", "load", "append", "find", "store"}]
      /\ pc'[Comm] # "idle" => ready' # {}
  BY <1>1, <1>4 DEF TypeOK
<1>10. arrived' \in Seq(Message) /\ given' \in Seq([to : Conn, text : Seq(TextCell)])
  BY DEF Receive, Keep, TypeOK
<1> QED
  BY <1>4, <1>6, <1>7, <1>8, <1>9, <1>10 DEF TypeOK


\* Where each thread is in Recv.
Steps == {"idle", "recv", "load", "append", "find", "store"}

(* They hold after the other steps of Recv. *)
LEMMA ThreadTypes ==
  ASSUME TypeOK, NEW t \in Thread,
         \/ Select \/ Look(t) \/ ReceiveEnd(t) \/ Load(t)
         \/ Strcat(t) \/ Find(t) \/ FindNull(t) \/ Store(t)
  PROVE  TypeOK'
<1>1. TypeOK /\ pc \in [Thread -> Steps]
  BY DEF TypeOK, Steps
<1>2. CASE Select
  BY <1>2 DEF TypeOK, Select, network, history, flags
<1>3. ASSUME NEW from, NEW to \in Steps, Goto(t, from, to),
             from # "idle" \/ (t = Comm => ready # {}), ready' = ready
      PROVE  /\ pc' \in [Thread -> Steps]
             /\ pc'[Comm] # "idle" => ready' # {}
  BY <1>1, <1>3 DEF Goto, TypeOK
<1>4. ASSUME overlapped' \in BOOLEAN, Keep
      PROVE  arrived' \in Seq(Message) /\ given' \in Seq([to : Conn, text : Seq(TextCell)])
  BY <1>4 DEF Keep, TypeOK
<1>5. ASSUME TakeCopy(t)
      PROVE  value' \in [Thread -> Seq(TextCell)]
  BY <1>5 DEF TakeCopy, TypeOK
<1>6. ASSUME Overlap(t), alone' = alone, whole' = whole
      PROVE  /\ alone' \in BOOLEAN /\ whole' \in BOOLEAN /\ overlapped' \in BOOLEAN
             /\ arrived' \in Seq(Message) /\ given' \in Seq([to : Conn, text : Seq(TextCell)])
  BY <1>4, <1>6 DEF Overlap, TypeOK
<1>7. CASE LookFound(t)
  <2>1. /\ Goto(t, "idle", "store") /\ TakeCopy(t) /\ Overlap(t) /\ (t = Comm => ready # {})
        /\ UNCHANGED <<network, localBuffer, buffer, ready, crashed, alone, whole>>
    BY <1>7 DEF LookFound
  <2>2. pc' \in [Thread -> Steps] /\ (pc'[Comm] # "idle" => ready' # {})
    BY <1>3, <2>1 DEF Steps
  <2> QED
    BY <1>5, <1>6, <2>1, <2>2 DEF TypeOK, Steps, network
<1>8. CASE LookNone(t)
  <2>1. /\ Goto(t, "idle", "recv") /\ (t = Comm => ready # {})
        /\ UNCHANGED <<network, localBuffer, buffer, value, ready, crashed, history>>
    BY <1>8 DEF LookNone
  <2>2. pc' \in [Thread -> Steps] /\ (pc'[Comm] # "idle" => ready' # {})
    BY <1>3, <2>1 DEF Steps
  <2> QED
    BY <2>1, <2>2 DEF TypeOK, Steps, network, history, flags
<1>9. ASSUME NEW from, Goto(t, from, "idle"), Return(t), from # "idle"
      PROVE  /\ pc' \in [Thread -> Steps] /\ ready' \subseteq Client
             /\ pc'[Comm] # "idle" => ready' # {}
  <2>1. pc' \in [Thread -> Steps] /\ ready' \subseteq Client
    BY <1>1, <1>9 DEF Goto, Return, TypeOK, Steps
  <2>2. CASE t = Comm
    BY <1>1, <1>9, <2>1, <2>2 DEF Goto
  <2>3. CASE t # Comm
    BY <1>1, <1>9, <2>1, <2>3 DEF Goto, Return, TypeOK
  <2> QED
    BY <2>1, <2>2, <2>3
<1>10. CASE ReceiveEnd(t)
  <2>1. /\ Goto(t, "recv", "idle") /\ Return(t)
        /\ UNCHANGED <<network, localBuffer, buffer, value, crashed, history>>
    BY <1>10 DEF ReceiveEnd
  <2>2. /\ pc' \in [Thread -> Steps] /\ ready' \subseteq Client
        /\ pc'[Comm] # "idle" => ready' # {}
    BY <1>9, <2>1
  <2> QED
    BY <2>1, <2>2 DEF TypeOK, Steps, network, history, flags
<1>11. CASE Load(t)
  <2>1. /\ Goto(t, "load", "append") /\ TakeCopy(t) /\ Overlap(t)
        /\ UNCHANGED <<network, localBuffer, buffer, ready, crashed, alone, whole>>
    BY <1>11 DEF Load
  <2>2. pc' \in [Thread -> Steps] /\ (pc'[Comm] # "idle" => ready' # {})
    BY <1>3, <2>1 DEF Steps
  <2> QED
    BY <1>5, <1>6, <2>1, <2>2 DEF TypeOK, Steps, network
<1>12. CASE Strcat(t)
  <2>1. /\ Goto(t, "append", "find")
        /\ localBuffer' = value[t] \o AsString(buffer[t])
        /\ arrived' = Extend(arrived, Ended(AsString(buffer[t])))
        /\ buffer' = [buffer EXCEPT ![t] = <<>>] /\ value' = [value EXCEPT ![t] = <<>>]
        /\ UNCHANGED <<network, ready, crashed, flags, given>>
    BY <1>12 DEF Strcat
  <2>2. pc' \in [Thread -> Steps] /\ (pc'[Comm] # "idle" => ready' # {})
    BY <1>3, <2>1 DEF Steps
  <2> DEFINE s == AsString(buffer[t])
             v == value[t]
             e == Ended(s)
  <2>3. s \in Seq(TextCell) /\ v \in Seq(TextCell) /\ e \in Seq(Message)
    BY <1>1, AsStringFacts, EndedFacts DEF TypeOK
  <2> HIDE DEF s, v, e
  <2>4. v \o s \in Seq(TextCell)
    BY <2>3, Joined
  <2>5. arrived \o e \in Seq(Message)
    BY <1>1, <2>3, Joined DEF TypeOK
  <2>6. localBuffer' \in Seq(TextCell) /\ arrived' \in Seq(Message)
    BY <2>1, <2>4, <2>5 DEF Extend, s, v, e
  <2>7. buffer' \in [Thread -> Seq(Cell)] /\ value' \in [Thread -> Seq(TextCell)]
    BY <1>1, <2>1 DEF TypeOK
  <2> QED
    BY <1>1, <2>1, <2>2, <2>6, <2>7 DEF TypeOK, Steps, network, flags
<1>13. CASE Find(t)
  <2>1. /\ Goto(t, "find", "store") /\ TakeCopy(t)
        /\ UNCHANGED <<network, localBuffer, buffer, ready, crashed, history>>
    BY <1>13 DEF Find
  <2>2. pc' \in [Thread -> Steps] /\ (pc'[Comm] # "idle" => ready' # {})
    BY <1>3, <2>1 DEF Steps
  <2> QED
    BY <1>5, <2>1, <2>2 DEF TypeOK, Steps, network, history, flags
<1>14. CASE FindNull(t)
  BY <1>14 DEF TypeOK, FindNull, network, history, flags
<1>15. CASE Store(t)
  <2> DEFINE size == Terminator(value[t])
             entry == [to |-> Descriptor(t), text |-> SubSeq(value[t], 1, size)]
             Entry == [to : Conn, text : Seq(TextCell)]
  <2>1. /\ Goto(t, "store", "idle") /\ Return(t)
        /\ localBuffer' = SubSeq(value[t], size + 1, Len(value[t]))
        /\ given' = Extend(given, <<entry>>)
        /\ value' = [value EXCEPT ![t] = <<>>]
        /\ UNCHANGED <<network, buffer, crashed, flags, arrived>>
    BY <1>15 DEF Store
  <2>2. /\ pc' \in [Thread -> Steps] /\ ready' \subseteq Client
        /\ pc'[Comm] # "idle" => ready' # {}
    BY <1>9, <2>1
  <2>3. value[t] \in Seq(TextCell) /\ size \in 0 .. Len(value[t])
    BY <1>1, TerminatorFacts DEF TypeOK
  <2> HIDE DEF size
  <2>4. /\ SubSeq(value[t], 1, size) \in Seq(TextCell)
        /\ SubSeq(value[t], size + 1, Len(value[t])) \in Seq(TextCell)
    BY <2>3
  <2>5. Descriptor(t) \in Conn
    BY <1>1, <2>1, Descriptors DEF Goto, TypeOK
  <2>6. entry \in Entry
    BY <2>4, <2>5
  <2> HIDE DEF entry, Entry
  <2>7. <<entry>> \in Seq(Entry)
    BY <2>6
  <2>8. given \in Seq(Entry)
    BY <1>1 DEF TypeOK, Entry
  <2>9. given \o <<entry>> \in Seq(Entry)
    BY <2>7, <2>8, Joined
  <2>10. given' \in Seq(Entry)
    BY <2>1, <2>9 DEF Extend
  <2>11. value' \in [Thread -> Seq(TextCell)] /\ localBuffer' \in Seq(TextCell)
    BY <1>1, <2>1, <2>4 DEF TypeOK
  <2> QED
    BY <1>1, <2>1, <2>2, <2>10, <2>11 DEF TypeOK, Steps, network, flags, Entry
<1> QED
  BY <1>2, <1>7, <1>8, <1>10, <1>11, <1>12, <1>13, <1>14, <1>15 DEF Look


(* A step keeps the types. *)
LEMMA TypeStep ==
  ASSUME TypeOK, Counted, [Next]_vars
  PROVE  TypeOK' /\ Counted'
<1>1. CASE Next
  <2>1. ASSUME NEW i \in Client, HangUp(i)
        PROVE  TypeOK' /\ Counted'
    BY <2>1 DEF HangUp, TypeOK, Counted, Conn, history, flags
  <2>2. ASSUME NEW i \in Conn, NEW padded \in BOOLEAN, Send(i, padded)
        PROVE  TypeOK' /\ Counted'
    BY <2>2, SendTypes
  <2>3. ASSUME NEW t \in Thread, ThreadStep(t)
        PROVE  TypeOK' /\ Counted'
    <3>1. TypeOK'
      BY <2>3, ReceiveTypes, ThreadTypes DEF ThreadStep, RecvStep
    <3>2. UNCHANGED <<sent, sends>>
      BY <2>3 DEF ThreadStep, RecvStep, Select, Look, LookFound, LookNone, Receive, ReceiveEnd,
                  Load, Strcat, Find, FindNull, Store, network
    <3> QED
      BY <3>1, <3>2 DEF Counted
  <2> QED
    BY <1>1, <2>1, <2>2, <2>3 DEF Next
<1>2. CASE UNCHANGED vars
  BY <1>2 DEF vars, network, history, flags, TypeOK, Counted
<1> QED
  BY <1>1, <1>2

\* The threads that are using localBuffer, those that have cells, and both.
Busy == {t \in Thread : pc[t] \in {"append", "find", "store"}}
Loaded == {t \in Thread : pc[t] \in {"load", "append"}}
Holding == Busy \cup Loaded

\* While no two threads overlapped, one at most is using localBuffer.
Exclusive == ~overlapped => \A t, u \in Busy : t = u

\* Streams, and what recv() gave, are messages, all of each.
StreamsWhole == \A i \in Conn : Blocks(stream[i])
BuffersWhole == \A t \in Loaded : Blocks(buffer[t]) /\ Len(buffer[t]) \in 1 .. MaxLen

\* localBuffer is the string the thread that is using it goes on with.
StringWhole ==
  /\ Texts(localBuffer)
  /\ \A t \in Thread : /\ pc[t] \in {"append", "store"} => value[t] = localBuffer
                       /\ pc[t] \in {"find", "store"} => localBuffer # <<>>

\* What was returned, and what is left, is what has arrived.
Accounted ==
  /\ ~crashed
  /\ \A k \in DOMAIN given : given[k].text = Text(Returned[k])
  /\ arrived = Returned \o Ended(localBuffer)

\* While messages are whole and threads do not overlap, all is well.
WholeInv ==
  /\ TypeOK /\ Counted /\ Exclusive
  /\ whole /\ ~overlapped => StreamsWhole /\ BuffersWhole /\ StringWhole /\ Accounted

(* Once two threads overlapped, or a message was torn, that is so.         *)
LEMMA FlagsStay ==
  ASSUME TypeOK, [Next]_vars
  PROVE  (overlapped => overlapped') /\ (whole' => whole) /\ (alone' => alone)
<1> USE DEF TypeOK
<1>1. CASE Next
  <2>1. ASSUME NEW t \in Thread, ThreadStep(t)
        PROVE  (overlapped => overlapped') /\ (whole' => whole) /\ (alone' => alone)
    BY <2>1 DEF ThreadStep, RecvStep, Select, Look, LookFound, LookNone, Receive, ReceiveEnd,
                Load, Strcat, Find, FindNull, Store, Overlap, history, flags
  <2>2. (\E i \in Client : HangUp(i)) \/ (\E i \in Conn, padded \in BOOLEAN : Send(i, padded))
          => UNCHANGED flags
    BY DEF HangUp, Send, history
  <2> QED
    BY <1>1, <2>1, <2>2 DEF Next, flags
<1>2. CASE UNCHANGED vars
  BY <1>2 DEF vars, history, flags
<1> QED
  BY <1>1, <1>2

(* Only a thread that begins to use localBuffer can overlap with another. *)
LEMMA ExclusiveStep ==
  ASSUME TypeOK, Exclusive, [Next]_vars
  PROVE  Exclusive'
<1> SUFFICES ASSUME ~overlapped'
             PROVE  \A t, u \in Busy' : t = u
  BY DEF Exclusive
<1>0. ~overlapped /\ \A t, u \in Busy : t = u
  BY FlagsStay DEF Exclusive
<1>1. ASSUME NEW t \in Thread, NEW from, NEW to, Goto(t, from, to), Overlap(t)
      PROVE  \A v, u \in Busy' : v = u
  <2>1. \A u \in Thread : u # t => u \notin Busy
    BY <1>1 DEF Overlap, Busy
  <2>2. \A u \in Thread : u # t => pc'[u] = pc[u]
    BY <1>1 DEF Goto, TypeOK
  <2>3. \A u \in Busy' : u = t
    BY <2>1, <2>2 DEF Busy
  <2> QED
    BY <2>3
<1>2. ASSUME Busy' \subseteq Busy
      PROVE  \A v, u \in Busy' : v = u
  BY <1>0, <1>2
<1>3. ASSUME NEW t \in Thread, NEW from, NEW to, Goto(t, from, to),
             to \in {"append", "find", "store"} => from \in {"append", "find", "store"}
      PROVE  Busy' \subseteq Busy
  BY <1>3 DEF Goto, TypeOK, Busy
<1>4. ASSUME pc' = pc
      PROVE  Busy' \subseteq Busy
  BY <1>4 DEF Busy
<1>5. CASE Next
  <2>1. (\E i \in Client : HangUp(i)) \/ (\E i \in Conn, padded \in BOOLEAN : Send(i, padded))
          => pc' = pc
    BY DEF HangUp, Send
  <2>2. ASSUME NEW t \in Thread, ThreadStep(t)
        PROVE  \A v, u \in Busy' : v = u
    <3>1. CASE Select \/ FindNull(t)
      BY <1>2, <1>4, <3>1 DEF Select, FindNull
    <3>2. CASE LookFound(t) \/ Load(t)
      BY <1>1, <3>2 DEF LookFound, Load
    <3>3. CASE LookNone(t) \/ Receive(t) \/ ReceiveEnd(t) \/ Strcat(t) \/ Find(t) \/ Store(t)
      <4>1. Busy' \subseteq Busy
        BY <1>3, <3>3 DEF LookNone, Receive, ReceiveEnd, Strcat, Find, Store
      <4> QED
        BY <1>2, <4>1
    <3> QED
      BY <2>2, <3>1, <3>2, <3>3 DEF ThreadStep, RecvStep, Look
  <2> QED
    BY <1>2, <1>4, <1>5, <2>1, <2>2 DEF Next
<1>6. CASE UNCHANGED vars
  BY <1>2, <1>4, <1>6 DEF vars
<1> QED
  BY <1>5, <1>6

(* The cells a client sends are a message. *)
LEMMA CellsAreBlocks ==
  ASSUME NEW m \in Message
  PROVE  Blocks(Cells(m))
<1> DEFINE c == Cells(m)
<1>1. /\ c \in Seq(Cell) /\ Len(c) \in {2, 4} /\ c[1] = [msg |-> m, part |-> "front"]
      /\ \A j \in 1 .. Len(c) : c[j].part = "front" <=> j = 1
  BY CellsFacts
<1>2. c[1].msg = m
  BY <1>1
<1>3. ASSUME NEW i \in Fronts(c)
      PROVE  Block(c, i)
  <2>1. i = 1
    BY <1>1 DEF Fronts
  <2>2. /\ 1 + Len(c) - 1 <= Len(c) /\ ~(1 + Len(c) <= Len(c))
        /\ \A j \in 1 .. Len(c) : 1 + j - 1 = j
    BY <1>1
  <2> QED
    BY <1>2, <2>1, <2>2 DEF Block
<1>4. AtMessage(c)
  BY <1>1 DEF AtMessage
<1> QED
  BY <1>3, <1>4 DEF Blocks

(* What the whole-message invariant says is true at first. *)
LEMMA WholeInit == Init => WholeInv
<1> SUFFICES ASSUME Init
             PROVE  WholeInv
  OBVIOUS
<1>1. TypeOK /\ Counted
  BY TypeInit
<1>2. Busy = {} /\ Loaded = {}
  BY DEF Init, Busy, Loaded
<1>3. Blocks(<<>>) /\ Texts(<<>>)
  BY DEF Blocks, AtMessage, Fronts, Texts
<1>4. StreamsWhole /\ BuffersWhole
  BY <1>2, <1>3 DEF Init, StreamsWhole, BuffersWhole
<1>5. StringWhole
  BY <1>3 DEF Init, StringWhole
<1>6. Accounted
  <2>1. Ended(<<>>) = <<>>
    BY DEF Ended
  <2>2. Returned = <<>>
    BY DEF Init, Returned
  <2> QED
    BY <2>1, <2>2 DEF Init, Accounted
<1> QED
  BY <1>1, <1>2, <1>4, <1>5, <1>6 DEF WholeInv, Exclusive

\* What is returned to a handler: to whom, and the text of a message.
Entry == [to : Conn, text : Seq(TextCell)]

(* The messages that were returned, when each text is that of a message. *)
LEMMA ReturnedType ==
  ASSUME TypeOK, \A k \in DOMAIN given : given[k].text = Text(Returned[k])
  PROVE  Returned \in Seq(Message) /\ Len(Returned) = Len(given)
<1>1. given \in Seq(Entry)
  BY DEF TypeOK, Entry
<1>2. PICK l \in Nat : l = Len(given)
  BY <1>1
<1>3. Returned = [k \in 1 .. l |-> Last(given[k].text).msg]
  BY <1>1, <1>2 DEF Returned
<1>4. ASSUME NEW k \in 1 .. l
      PROVE  Returned[k] \in Message
  <2> DEFINE x == given[k].text
  <2>1. given[k] \in Entry /\ x = Text(Returned[k])
    BY <1>1, <1>2
  <2>2. x \in Seq(TextCell)
    BY <2>1 DEF Entry
  <2>3. Len(Text(Returned[k])) = 2
    BY DEF Text
  <2>4. x[2] \in TextCell /\ Len(x) = 2
    BY <2>1, <2>2, <2>3
  <2> HIDE DEF x
  <2>5. x[Len(x)].msg \in Message
    BY <2>4 DEF TextCell
  <2> QED
    BY <1>3, <2>5 DEF Last, x
<1> QED
  BY <1>2, <1>3, <1>4

(* One message more is returned. *)
LEMMA ReturnedMore ==
  ASSUME TypeOK, NEW m \in Message, NEW d \in Conn,
         \A k \in DOMAIN given : given[k].text = Text(Returned[k]),
         given' = given \o <<[to |-> d, text |-> Text(m)]>>
  PROVE  /\ Returned' = Returned \o <<m>>
         /\ Len(given') = Len(given) + 1 /\ given' \in Seq(Entry)
         /\ \A k \in 1 .. Len(given) : given'[k] = given[k] /\ Returned'[k] = Returned[k]
         /\ given'[Len(given) + 1] = [to |-> d, text |-> Text(m)]
         /\ Returned'[Len(given) + 1] = m
         /\ \A k \in DOMAIN given' : given'[k].text = Text(Returned'[k])
<1> DEFINE e == [to |-> d, text |-> Text(m)]
           one == <<e>>
<1>1. given \in Seq(Entry) /\ e \in Entry /\ e.text = Text(m)
  BY CellsFacts DEF TypeOK, Entry
<1> HIDE DEF e
<1>2. one \in Seq(Entry) /\ Len(one) = 1 /\ one[1] = e
  BY <1>1
<1> HIDE DEF one
<1>3. PICK l \in Nat : l = Len(given)
  BY <1>1
<1>4. /\ given' \in Seq(Entry) /\ Len(given') = l + 1
      /\ \A k \in 1 .. l : given'[k] = given[k]
      /\ given'[l + 1] = e
  <2>1. /\ given \o one \in Seq(Entry) /\ Len(given \o one) = Len(given) + Len(one)
        /\ \A k \in 1 .. Len(given) : (given \o one)[k] = given[k]
        /\ \A k \in 1 .. Len(one) : (given \o one)[Len(given) + k] = one[k]
    <3>1. given \in Seq(Entry) /\ one \in Seq(Entry)
      BY <1>1, <1>2
    <3> QED
      BY <3>1, Joined
  <2>2. given' = given \o one
    BY DEF one, e
  <2> QED
    BY <1>2, <1>3, <2>1, <2>2
<1>5. Returned' = [k \in 1 .. l + 1 |-> Last(given'[k].text).msg]
  BY <1>3, <1>4 DEF Returned
<1>6. Returned = [k \in 1 .. l |-> Last(given[k].text).msg]
  BY <1>1, <1>3 DEF Returned
<1>7. \A k \in 1 .. l : Returned'[k] = Returned[k]
  BY <1>3, <1>4, <1>5, <1>6
<1>8. Returned'[l + 1] = m
  <2>1. Len(Text(m)) = 2 /\ Text(m)[2].msg = m
    <3>1. Len(Text(m)) = 2 /\ Text(m)[2] = [msg |-> m, part |-> "end"]
      BY CellsFacts
    <3> QED
      BY <3>1
  <2>2. Last(Text(m)).msg = m
    BY <2>1 DEF Last
  <2> QED
    BY <1>1, <1>3, <1>4, <1>5, <2>2
<1>9. Returned \in Seq(Message) /\ Len(Returned) = l
  BY <1>3, ReturnedType
<1>10. Returned' = Returned \o <<m>>
  <2> DEFINE last == <<m>>
             r == Returned \o last
  <2>1. last \in Seq(Message) /\ Len(last) = 1 /\ last[1] = m
    OBVIOUS
  <2> HIDE DEF last
  <2>2. /\ r \in Seq(Message) /\ Len(r) = Len(Returned) + Len(last)
        /\ \A k \in 1 .. Len(Returned) : r[k] = Returned[k]
        /\ \A k \in 1 .. Len(last) : r[Len(Returned) + k] = last[k]
    <3>1. Returned \in Seq(Message) /\ last \in Seq(Message)
      BY <1>9, <2>1
    <3> QED
      BY <3>1, Joined
  <2> HIDE DEF r
  <2>3. ASSUME NEW k \in 1 .. l + 1
        PROVE  r[k] = Returned'[k]
    <3>1. CASE k \in 1 .. l
      BY <1>7, <1>9, <2>2, <3>1
    <3>2. CASE k = l + 1
      <4>1. r[l + 1] = last[1]
        BY <1>9, <2>1, <2>2
      <4> QED
        BY <1>8, <2>1, <3>2, <4>1
    <3> QED
      BY <3>1, <3>2
  <2>4. r \in Seq(Message) /\ Len(r) = l + 1
    BY <1>9, <2>1, <2>2
  <2>5. r = Returned'
    BY <1>3, <1>5, <2>3, <2>4
  <2> QED
    BY <2>5 DEF r, last
<1>11. ASSUME NEW k \in DOMAIN given'
       PROVE  given'[k].text = Text(Returned'[k])
  <2>1. k \in 1 .. l \/ k = l + 1
    BY <1>3, <1>4
  <2>2. CASE k \in 1 .. l
    BY <1>3, <1>4, <1>7, <2>2
  <2>3. CASE k = l + 1
    BY <1>1, <1>4, <1>8, <2>3
  <2> QED
    BY <2>1, <2>2, <2>3
<1> QED
  BY <1>3, <1>4, <1>7, <1>8, <1>10, <1>11 DEF e

\* What the whole-message invariant says, as long as it says something.
Sound == StreamsWhole /\ BuffersWhole /\ StringWhole /\ Accounted

(* A client's message comes after whole messages. *)
LEMMA SendWhole ==
  ASSUME TypeOK, Counted, Sound, NEW i \in Conn, NEW padded \in BOOLEAN, Send(i, padded)
  PROVE  Sound'
<1> DEFINE m == [from |-> i, no |-> sent[i] + 1, padded |-> padded]
<1>1. /\ sends < MaxSend
      /\ stream' = [stream EXCEPT ![i] = @ \o Cells(m)]
      /\ UNCHANGED <<localBuffer, pc, buffer, value, crashed, history>>
  BY DEF Send
<1>2. m \in Message
  <2>1. /\ sends \in 0 .. MaxSend /\ MaxSend \in Nat /\ sent[i] \in 0 .. MaxSend
        /\ sent[i] <= sends
    BY MaxSendAssumption DEF TypeOK, Counted
  <2> QED
    BY <1>1, <2>1 DEF Message
<1> HIDE DEF m
<1>3. Blocks(stream[i] \o Cells(m))
  <2>1. stream[i] \in Seq(Cell)
    BY DEF TypeOK
  <2>3. Cells(m) \in Seq(Cell)
    BY <1>2, CellsFacts
  <2>2. Blocks(stream[i]) /\ Blocks(Cells(m))
    BY <1>2, CellsAreBlocks DEF Sound, StreamsWhole
  <2> QED
    BY <2>1, <2>2, <2>3, BlocksJoined
<1>4. StreamsWhole'
  BY <1>1, <1>3 DEF Sound, StreamsWhole, TypeOK
<1> QED
  BY <1>1, <1>4 DEF Sound, BuffersWhole, Loaded, StringWhole, Accounted, Returned, history

(* recv() takes whole messages from the stream, or that is noted. *)
LEMMA ReceiveWhole ==
  ASSUME TypeOK, Sound, NEW t \in Thread, Receive(t), whole', ~overlapped'
  PROVE  Sound'
<1> DEFINE d == Descriptor(t)
           c == stream[d]
<1>1. pc[t] = "recv" /\ pc' = [pc EXCEPT ![t] = "load"]
  BY DEF Receive, Goto
<1>2. d \in Conn /\ c \in Seq(Cell) /\ Blocks(c)
  BY <1>1, Descriptors DEF TypeOK, Sound, StreamsWhole
<1>3. PICK n \in 1 .. Min({MaxLen, Len(c)}) :
        /\ buffer' = [buffer EXCEPT ![t] = SubSeq(c, 1, n)]
        /\ stream' = [stream EXCEPT ![d] = SubSeq(c, n + 1, Len(c))]
        /\ whole' = (whole /\ AtMessage(SubSeq(c, 1, n)) /\ AtMessage(SubSeq(c, n + 1, Len(c))))
  BY DEF Receive
<1>4. UNCHANGED <<localBuffer, value, crashed, arrived, given>>
  BY DEF Receive, Keep
<1> HIDE DEF d, c
<1>5. PICK l \in Nat : l = Len(c)
  BY <1>2
<1>6. n \in 1 .. l /\ n \in 1 .. MaxLen
  BY <1>5, ReceiveBound
<1>7. AtMessage(SubSeq(c, 1, n)) /\ AtMessage(SubSeq(c, n + 1, Len(c)))
  BY <1>3
<1>8. Blocks(SubSeq(c, 1, n)) /\ Blocks(SubSeq(c, n + 1, Len(c)))
  <2>1. n \in 0 .. Len(c)
    BY <1>5, <1>6
  <2> QED
    BY <1>2, <1>7, <2>1, BlocksDivided
<1>9. Len(SubSeq(c, 1, n)) = n
  BY <1>2, <1>5, <1>6
<1>10. StreamsWhole'
  BY <1>3, <1>8 DEF Sound, StreamsWhole, TypeOK
<1>11. BuffersWhole'
  <2>1. \A u \in Thread : u # t => (u \in Loaded' <=> u \in Loaded) /\ buffer'[u] = buffer[u]
    BY <1>1, <1>3 DEF Loaded, TypeOK
  <2>2. buffer'[t] = SubSeq(c, 1, n)
    BY <1>3 DEF TypeOK
  <2>3. \A u \in Loaded' : u \in Thread
    BY DEF Loaded
  <2> QED
    BY <1>6, <1>8, <1>9, <2>1, <2>2, <2>3 DEF Sound, BuffersWhole
<1>12. StringWhole' /\ Accounted'
  BY <1>1, <1>4 DEF Sound, StringWhole, Accounted, Returned, TypeOK
<1> QED
  BY <1>10, <1>11, <1>12 DEF Sound

(* The steps that only read localBuffer. *)
LEMMA ReadWhole ==
  ASSUME TypeOK, Sound, NEW t \in Thread, ~overlapped', whole',
         LookFound(t) \/ LookNone(t) \/ ReceiveEnd(t) \/ Load(t) \/ Find(t) \/ Select
  PROVE  Sound'
<1>1. /\ UNCHANGED <<stream, localBuffer, buffer, crashed, arrived, given>>
      /\ Select => pc' = pc /\ value' = value
  BY DEF LookFound, LookNone, ReceiveEnd, Load, Find, Select, Overlap, Keep, network, history
<1>2. StreamsWhole' /\ Accounted'
  BY <1>1 DEF Sound, StreamsWhole, Accounted, Returned
<1>3. Loaded' \subseteq Loaded
  BY DEF LookFound, LookNone, ReceiveEnd, Load, Find, Select, Goto, TypeOK, Loaded
<1>4. BuffersWhole'
  BY <1>1, <1>3 DEF Sound, BuffersWhole
<1>5. Texts(localBuffer) /\ localBuffer \in Seq(TextCell)
  BY DEF Sound, StringWhole, TypeOK
<1>6. Terminator(localBuffer) # 0 => localBuffer # <<>>
  BY <1>5, TextsEnd
<1>7. ASSUME NEW u \in Thread
      PROVE  /\ pc'[u] \in {"append", "store"} => value'[u] = localBuffer
             /\ pc'[u] \in {"find", "store"} => localBuffer # <<>>
  <2>1. CASE u # t \/ Select
    <3>1. pc'[u] = pc[u] /\ value'[u] = value[u]
      BY <1>1, <2>1 DEF LookFound, LookNone, ReceiveEnd, Load, Find, Goto, TakeCopy, TypeOK
    <3> QED
      BY <3>1 DEF Sound, StringWhole
  <2>2. CASE u = t /\ ~Select
    BY <1>6, <2>2 DEF LookFound, LookNone, ReceiveEnd, Load, Find, Goto, TakeCopy, TypeOK
  <2> QED
    BY <2>1, <2>2
<1>8. StringWhole'
  BY <1>1, <1>5, <1>7 DEF StringWhole
<1> QED
  BY <1>2, <1>4, <1>8 DEF Sound

(* strcat adds whole messages to the string. *)
LEMMA StrcatWhole ==
  ASSUME TypeOK, Sound, whole, ~overlapped, Exclusive, NEW t \in Thread, Strcat(t)
  PROVE  Sound'
<1> DEFINE s == AsString(buffer[t])
<1>1. /\ pc[t] = "append" /\ pc' = [pc EXCEPT ![t] = "find"]
      /\ localBuffer' = value[t] \o s
      /\ arrived' = arrived \o Ended(s)
      /\ buffer' = [buffer EXCEPT ![t] = <<>>] /\ value' = [value EXCEPT ![t] = <<>>]
      /\ UNCHANGED <<stream, crashed, given>>
  BY DEF Strcat, Goto, Extend, network
<1>2. t \in Loaded /\ t \in Busy
  BY <1>1 DEF Loaded, Busy
<1>3. s \in Seq(TextCell) /\ Texts(s) /\ s # <<>>
  <2>1. buffer[t] \in Seq(Cell) /\ Blocks(buffer[t]) /\ Len(buffer[t]) \in 1 .. MaxLen
    BY <1>2 DEF TypeOK, Sound, BuffersWhole
  <2> QED
    BY <2>1, AsStringFacts, StringOfBlocks
<1> HIDE DEF s
<1>4. value[t] = localBuffer /\ Texts(localBuffer) /\ localBuffer \in Seq(TextCell)
  BY <1>1 DEF Sound, StringWhole, TypeOK
<1>5. /\ Texts(localBuffer') /\ localBuffer' # <<>>
      /\ Ended(localBuffer') = Ended(localBuffer) \o Ended(s)
  <2>1. /\ Texts(localBuffer \o s)
        /\ Ended(localBuffer \o s) = Ended(localBuffer) \o Ended(s)
    BY <1>3, <1>4, TextsJoined
  <2>2. localBuffer \o s # <<>>
    BY <1>3, <1>4, ConcatEqualIffEmpty
  <2> QED
    BY <1>1, <1>4, <2>1, <2>2
<1>6. StringWhole'
  <2>1. ASSUME NEW u \in Thread
        PROVE  /\ pc'[u] \in {"append", "store"} => value'[u] = localBuffer'
               /\ pc'[u] \in {"find", "store"} => localBuffer' # <<>>
    <3>1. u # t => u \notin Busy
      BY <1>2 DEF Exclusive
    <3> QED
      BY <1>1, <1>5, <3>1 DEF Busy, TypeOK
  <2> QED
    BY <1>5, <2>1 DEF StringWhole
<1>7. Accounted'
  <2>1. Returned' = Returned
    BY <1>1 DEF Returned
  <2>2. /\ Ended(localBuffer) \in Seq(Message) /\ Ended(s) \in Seq(Message)
        /\ Returned \in Seq(Message)
    <3>1. Ended(localBuffer) \in Seq(Message) /\ Ended(s) \in Seq(Message)
      BY <1>3, <1>4, EndedFacts
    <3>2. Returned \in Seq(Message)
      BY ReturnedType DEF Sound, Accounted
    <3> QED
      BY <3>1, <3>2
  <2>3. arrived' = Returned \o (Ended(localBuffer) \o Ended(s))
    <3>1. arrived' = (Returned \o Ended(localBuffer)) \o Ended(s)
      BY <1>1 DEF Sound, Accounted
    <3> QED
      BY <2>2, <3>1, ConcatAssociative
  <2> QED
    BY <1>1, <1>5, <2>1, <2>3 DEF Sound, Accounted
<1>8. StreamsWhole'
  BY <1>1 DEF Sound, StreamsWhole
<1>9. BuffersWhole'
  BY <1>1 DEF Sound, BuffersWhole, Loaded, TypeOK
<1> QED
  BY <1>6, <1>7, <1>8, <1>9 DEF Sound

(* Recv returns the first message of the string, and keeps the others. *)
LEMMA StoreWhole ==
  ASSUME TypeOK, Sound, whole, ~overlapped, Exclusive, NEW t \in Thread, Store(t)
  PROVE  Sound'
<1> DEFINE v == value[t]
           m == v[2].msg
           rest == SubSeq(v, 3, Len(v))
<1>1. /\ pc[t] = "store" /\ pc' = [pc EXCEPT ![t] = "idle"]
      /\ localBuffer' = SubSeq(v, Terminator(v) + 1, Len(v))
      /\ given' = given \o <<[to |-> Descriptor(t), text |-> SubSeq(v, 1, Terminator(v))]>>
      /\ value' = [value EXCEPT ![t] = <<>>]
      /\ UNCHANGED <<stream, buffer, crashed, arrived>>
  BY DEF Store, Goto, Extend, network
<1>2. v = localBuffer /\ v \in Seq(TextCell) /\ Texts(v) /\ v # <<>>
  BY <1>1 DEF Sound, StringWhole, TypeOK
<1>3. /\ Terminator(v) = 2 /\ m \in Message /\ SubSeq(v, 1, 2) = Text(m)
      /\ rest \in Seq(TextCell) /\ Texts(rest) /\ Ended(v) = <<m>> \o Ended(rest)
  BY <1>2, TextsDivided
<1> HIDE DEF v, m
<1>10. PICK d \in Conn : d = Descriptor(t)
  BY <1>1, Descriptors DEF TypeOK
<1>4. localBuffer' = rest /\ given' = given \o <<[to |-> d, text |-> Text(m)]>>
  <2>1. Terminator(v) = 2 /\ Terminator(v) + 1 = 3
    BY <1>3
  <2>2. SubSeq(v, 1, Terminator(v)) = Text(m)
    BY <1>3, <2>1
  <2> QED
    BY <1>1, <1>10, <2>1, <2>2
<1> HIDE DEF rest
<1>5. StringWhole'
  <2>1. t \in Busy
    BY <1>1 DEF Busy
  <2>2. ASSUME NEW u \in Thread
        PROVE  pc'[u] \notin {"append", "find", "store"}
    BY <1>1, <2>1 DEF Exclusive, Busy, TypeOK
  <2> QED
    BY <1>3, <1>4, <2>2 DEF StringWhole
<1>6. Returned \in Seq(Message) /\ Returned' = Returned \o <<m>>
  <2>1. Returned \in Seq(Message)
    BY ReturnedType DEF Sound, Accounted
  <2> QED
    BY <1>3, <1>4, <1>10, <2>1, ReturnedMore DEF Sound, Accounted
<1>7. Accounted'
  <2>1. arrived' = Returned' \o Ended(localBuffer')
    <3>1. arrived' = Returned \o (<<m>> \o Ended(rest))
      BY <1>1, <1>2, <1>3 DEF Sound, Accounted
    <3>2. <<m>> \in Seq(Message) /\ Ended(rest) \in Seq(Message)
      BY <1>3, EndedFacts
    <3>3. arrived' = (Returned \o <<m>>) \o Ended(rest)
      BY <1>6, <3>1, <3>2, ConcatAssociative
    <3> QED
      BY <1>4, <1>6, <3>3
  <2>2. \A k \in DOMAIN given' : given'[k].text = Text(Returned'[k])
    BY <1>3, <1>4, <1>10, ReturnedMore DEF Sound, Accounted
  <2> QED
    BY <1>1, <2>1, <2>2 DEF Sound, Accounted
<1>8. StreamsWhole'
  BY <1>1 DEF Sound, StreamsWhole
<1>9. BuffersWhole'
  BY <1>1 DEF Sound, BuffersWhole, Loaded, TypeOK
<1> QED
  BY <1>5, <1>7, <1>8, <1>9 DEF Sound

(* A step keeps the whole-message invariant. *)
LEMMA WholeStep ==
  ASSUME WholeInv, [Next]_vars
  PROVE  WholeInv'
<1>1. TypeOK' /\ Counted' /\ Exclusive'
  BY TypeStep, ExclusiveStep DEF WholeInv
<1>2. ASSUME whole', ~overlapped'
      PROVE  Sound'
  <2>1. whole /\ ~overlapped /\ Sound /\ TypeOK /\ Counted /\ Exclusive
    BY <1>2, FlagsStay DEF WholeInv, Sound
  <2>2. CASE Next
    <3>1. ASSUME NEW i \in Client, HangUp(i)
          PROVE  Sound'
      BY <2>1, <3>1 DEF HangUp, history, Sound, StreamsWhole, BuffersWhole, Loaded, StringWhole,
                        Accounted, Returned
    <3>2. ASSUME NEW i \in Conn, NEW padded \in BOOLEAN, Send(i, padded)
          PROVE  Sound'
      BY <2>1, <3>2, SendWhole
    <3>3. ASSUME NEW t \in Thread, ThreadStep(t)
          PROVE  Sound'
      <4>1. CASE Receive(t)
        BY <1>2, <2>1, <4>1, ReceiveWhole
      <4>2. CASE LookFound(t) \/ LookNone(t) \/ ReceiveEnd(t) \/ Load(t) \/ Find(t) \/ Select
        BY <1>2, <2>1, <4>2, ReadWhole
      <4>3. CASE Strcat(t)
        BY <2>1, <4>3, StrcatWhole
      <4>4. CASE Store(t)
        BY <2>1, <4>4, StoreWhole
      <4>5. CASE FindNull(t)
        <5>1. Terminator(localBuffer) = 0 /\ localBuffer # <<>>
          BY <2>1, <4>5 DEF FindNull, Sound, StringWhole
        <5>2. localBuffer \in Seq(TextCell) /\ Texts(localBuffer)
          BY <2>1 DEF TypeOK, Sound, StringWhole
        <5> QED
          BY <5>1, <5>2, TextsEnd
      <4> QED
        BY <3>3, <4>1, <4>2, <4>3, <4>4, <4>5 DEF ThreadStep, RecvStep, Look
    <3> QED
      BY <2>2, <3>1, <3>2, <3>3 DEF Next
  <2>3. CASE UNCHANGED vars
    BY <2>1, <2>3 DEF vars, network, history, flags, Sound, StreamsWhole, BuffersWhole, Loaded,
                      StringWhole, Accounted, Returned
  <2> QED
    BY <2>2, <2>3
<1> QED
  BY <1>1, <1>2 DEF WholeInv, Sound

(* What Recv returned is the beginning of what arrived. *)
LEMMA WholeInOrder == WholeInv => InOrder
<1> SUFFICES ASSUME WholeInv, whole, ~overlapped
             PROVE  InOrder
  BY DEF InOrder
<1>1. TypeOK /\ Sound
  BY DEF WholeInv, Sound
<1>2. Returned \in Seq(Message)
  BY <1>1, ReturnedType DEF Sound, Accounted
<1>3. Ended(localBuffer) \in Seq(Message)
  BY <1>1, EndedFacts DEF TypeOK
<1>4. arrived = Returned \o Ended(localBuffer)
  BY <1>1 DEF Sound, Accounted
<1>5. IsPrefix(Returned, arrived)
  <2> DEFINE e == Ended(localBuffer)
             a == Returned \o e
  <2>1. PICK r, n \in Nat : r = Len(Returned) /\ n = Len(e)
    BY <1>2, <1>3
  <2>2. /\ a \in Seq(Message) /\ Len(a) = Len(Returned) + Len(e)
        /\ \A i \in 1 .. Len(Returned) : a[i] = Returned[i]
    BY <1>2, <1>3, Joined
  <2> HIDE DEF e, a
  <2>3. r <= Len(a) /\ \A i \in 1 .. r : a[i] = Returned[i]
    BY <2>1, <2>2
  <2>4. /\ SubSeq(a, 1, r) \in Seq(Message) /\ Len(SubSeq(a, 1, r)) = r
        /\ \A i \in 1 .. r : SubSeq(a, 1, r)[i] = a[i]
    BY <2>1, <2>2, <2>3
  <2>5. /\ SubSeq(Returned, 1, r) \in Seq(Message) /\ Len(SubSeq(Returned, 1, r)) = r
        /\ \A i \in 1 .. r : SubSeq(Returned, 1, r)[i] = Returned[i]
    BY <1>2, <2>1
  <2>6. SubSeq(a, 1, r) = SubSeq(Returned, 1, r)
    BY <2>3, <2>4, <2>5
  <2> QED
    BY <1>4, <2>1, <2>3, <2>6 DEF IsPrefix, a, e
<1> QED
  BY <1>1, <1>4, <1>5 DEF InOrder, Sound, Accounted

\* Cells are messages of client i, from its message first up to its message last.
Numbered(c, i, first, last) ==
  /\ \A p \in DOMAIN c : c[p].msg.from = i
  /\ IF c = <<>> THEN first = last + 1 ELSE c[1].msg.no = first
  /\ \A p \in Fronts(c) :
       LET next == p + Len(Cells(c[p].msg))
       IN  IF next <= Len(c) THEN c[next].msg.no = c[p].msg.no + 1
                             ELSE c[p].msg.no = last

\* How many messages Recv returned to the handler of a client.
Count(i) == Cardinality({k \in DOMAIN given : given[k].to = i})

\* The number of the next message on its stream: a thread may have one more.
Due(i) == Count(i) + IF \E t \in Holding : Descriptor(t) = i THEN 2 ELSE 1

StreamsNumbered == \A i \in Conn : Numbered(stream[i], i, Due(i), sent[i])

\* The message thread t has.
Held(t) == IF t \in Loaded THEN buffer[t][1].msg ELSE localBuffer[1].msg

\* Message m is of the client of thread t, and the next for its handler.
Own(t, m) == m \in Message /\ m.from = Descriptor(t) /\ m.no = Count(Descriptor(t)) + 1

\* A thread has one message, and localBuffer holds that of the thread using it.
OneHeld ==
  /\ Busy \subseteq Loaded => localBuffer = <<>>
  /\ \A t \in Holding : Own(t, Held(t))
  /\ \A t \in Loaded : buffer[t] = Cells(Held(t))
  /\ \A t \in Busy \ Loaded : localBuffer = Text(Held(t))

\* While messages come one by one, every handler gets its own.
OneInv ==
  /\ WholeInv
  /\ alone /\ ~overlapped => whole /\ StreamsNumbered /\ OneHeld /\ OwnMessages

(* A client sends its next message. *)
LEMMA NumberedMore ==
  ASSUME NEW c \in Seq(Cell), Blocks(c), NEW i, NEW f \in Int, NEW l \in Int, Numbered(c, i, f, l),
         NEW m \in Message, m.from = i, m.no = l + 1
  PROVE  Numbered(c \o Cells(m), i, f, l + 1)
<1> DEFINE d == Cells(m)
           e == c \o d
<1>1. /\ d \in Seq(Cell) /\ Len(d) \in {2, 4} /\ d[1] = [msg |-> m, part |-> "front"]
      /\ \A j \in 1 .. Len(d) : d[j].msg = m /\ (d[j].part = "front" <=> j = 1)
  BY CellsFacts
<1>2. PICK n \in Nat : n = Len(c)
  OBVIOUS
<1>3. PICK k \in {2, 4} : k = Len(d)
  BY <1>1
<1>4. /\ e \in Seq(Cell) /\ Len(e) = n + k
      /\ \A p \in 1 .. n : e[p] = c[p]
      /\ \A p \in 1 .. k : e[n + p] = d[p]
  <2>1. /\ c \o d \in Seq(Cell) /\ Len(c \o d) = Len(c) + Len(d)
        /\ \A p \in 1 .. Len(c) : (c \o d)[p] = c[p]
        /\ \A p \in 1 .. Len(d) : (c \o d)[Len(c) + p] = d[p]
    BY <1>1, Joined
  <2> QED
    BY <1>2, <1>3, <2>1
<1>5. Len(Cells(m)) = k
  BY <1>3
<1> HIDE DEF d, e
<1>6. \A p \in 1 .. n + k : p \in 1 .. n \/ (p - n \in 1 .. k /\ p = n + (p - n))
  OBVIOUS
<1>7. \A p \in 1 .. n + k : p \notin 1 .. n => e[p] = d[p - n]
  BY <1>4, <1>6
<1>8. ASSUME NEW p \in DOMAIN e
      PROVE  e[p].msg.from = i
  <2>1. p \in 1 .. n + k
    BY <1>4
  <2>2. CASE p \in 1 .. n
    BY <1>2, <1>4, <2>2 DEF Numbered
  <2>3. CASE p \notin 1 .. n
    BY <1>1, <1>3, <1>6, <1>7, <2>1, <2>3
  <2> QED
    BY <2>2, <2>3
<1>9. e # <<>> /\ e[1].msg.no = f
  <2>1. e # <<>> /\ 1 \in 1 .. n + k
    BY <1>4
  <2>2. CASE c # <<>>
    BY <1>2, <1>4, <2>2 DEF Numbered
  <2>3. CASE c = <<>>
    <3>1. n = 0 /\ f = l + 1
      BY <1>2, <2>3 DEF Numbered
    <3>2. e[1] = d[1]
      BY <1>4, <3>1
    <3> QED
      BY <1>1, <2>1, <3>1, <3>2
  <2> QED
    BY <2>1, <2>2, <2>3
<1>10. ASSUME NEW p \in Fronts(e)
       PROVE  LET next == p + Len(Cells(e[p].msg))
              IN  IF next <= Len(e) THEN e[next].msg.no = e[p].msg.no + 1
                                    ELSE e[p].msg.no = l + 1
  <2>1. p \in 1 .. n + k /\ e[p].part = "front"
    BY <1>4 DEF Fronts
  <2>2. CASE p \in 1 .. n
    <3> DEFINE s == Len(Cells(c[p].msg))
    <3>1. p \in Fronts(c) /\ e[p] = c[p]
      BY <1>2, <1>4, <2>1, <2>2 DEF Fronts
    <3>2. s \in {2, 4} /\ p + s - 1 <= n
      BY <1>2, <3>1, FrontFacts DEF Blocks, Block
    <3>3. IF p + s <= n THEN c[p + s].msg.no = c[p].msg.no + 1 ELSE c[p].msg.no = l
      BY <1>2, <3>1 DEF Numbered
    <3>4. Len(Cells(e[p].msg)) = s
      BY <3>1
    <3> HIDE DEF s
    <3>5. p + s <= n + k /\ (p + s <= n \/ p + s = n + 1)
      BY <2>2, <3>2
    <3>6. CASE p + s <= n
      <4>1. p + s \in 1 .. n
        BY <2>2, <3>2, <3>6
      <4>2. e[p + s] = c[p + s]
        BY <1>4, <4>1
      <4> QED
        BY <1>4, <3>1, <3>3, <3>4, <3>5, <3>6, <4>2
    <3>7. CASE p + s = n + 1
      <4>1. e[n + 1] = d[1] /\ ~(p + s <= n)
        BY <1>4, <3>7
      <4>2. e[p + s].msg.no = l + 1 /\ e[p].msg.no = l
        BY <1>1, <3>1, <3>3, <3>7, <4>1
      <4> QED
        BY <1>4, <3>4, <3>5, <4>2
    <3> QED
      BY <3>5, <3>6, <3>7
  <2>3. CASE p \notin 1 .. n
    <3>1. p - n \in 1 .. k /\ p = n + (p - n) /\ e[p] = d[p - n]
      BY <1>6, <1>7, <2>1, <2>3
    <3>2. p - n = 1 /\ e[p] = d[1]
      BY <1>1, <1>3, <2>1, <3>1
    <3>3. p = n + 1
      BY <2>1, <3>2
    <3>4. e[p].msg = m
      BY <1>1, <3>2
    <3>5. Len(Cells(e[p].msg)) = k
      BY <1>5, <3>4
    <3>6. ~(p + k <= Len(e))
      BY <1>4, <3>3
    <3> QED
      BY <3>4, <3>5, <3>6
  <2> QED
    BY <2>2, <2>3
<1> QED
  BY <1>8, <1>9, <1>10 DEF Numbered, e, d

(* recv() takes a message, all of it. *)
LEMMA NumberedRest ==
  ASSUME NEW c \in Seq(Cell), Blocks(c), NEW i, NEW f \in Int, NEW l \in Int, Numbered(c, i, f, l),
         NEW n \in 1 .. Len(c), SubSeq(c, 1, n) = Cells(c[1].msg)
  PROVE  /\ Numbered(SubSeq(c, n + 1, Len(c)), i, f + 1, l)
         /\ AtMessage(SubSeq(c, 1, n)) /\ AtMessage(SubSeq(c, n + 1, Len(c)))
         /\ c[1].msg \in Message /\ c[1].msg.from = i /\ c[1].msg.no = f
<1> DEFINE m == c[1].msg
           rest == SubSeq(c, n + 1, Len(c))
<1>1. PICK k \in Nat : Len(c) = k
  OBVIOUS
<1>2. n \in 1 .. k /\ n \in Nat /\ 1 \in 1 .. k /\ c # <<>>
  BY <1>1
<1>3. c[1].part = "front" /\ c[1] \in Cell
  BY <1>1, <1>2 DEF Blocks, AtMessage
<1>4. 1 \in Fronts(c) /\ m \in Message
  BY <1>1, <1>2, <1>3 DEF Fronts, Cell
<1>5. m.from = i /\ m.no = f
  BY <1>1, <1>2 DEF Numbered
<1>6. Len(Cells(m)) = n /\ SubSeq(c, 1, n)[1] = c[1]
  BY <1>1, <1>2
<1>7. /\ rest \in Seq(Cell) /\ Len(rest) = k - n
      /\ \A p \in 1 .. k - n : rest[p] = c[n + p] /\ n + p \in 1 .. k
  <2>1. n \in Nat /\ k \in Nat /\ n <= k
    BY <1>1, <1>2
  <2> QED
    BY <1>1, <2>1, Part
<1>8. IF 1 + n <= k THEN c[1 + n].msg.no = f + 1 ELSE f = l
  BY <1>1, <1>4, <1>5, <1>6 DEF Numbered
<1>9. 1 + n <= k => c[1 + n].part = "front"
  BY <1>1, <1>4, <1>6 DEF Blocks, Block
<1>10. rest # <<>> => rest[1] = c[1 + n] /\ 1 + n <= k
  <2>1. rest # <<>> => k - n # 0
    BY <1>7
  <2>2. rest # <<>> => 1 \in 1 .. k - n /\ n + 1 = 1 + n
    BY <1>2, <2>1
  <2> QED
    BY <1>2, <1>7, <2>2
<1>11. rest = <<>> => ~(1 + n <= k)
  <2>1. rest = <<>> => k - n = 0
    BY <1>7
  <2> QED
    BY <1>2, <2>1
<1>12. AtMessage(SubSeq(c, 1, n)) /\ AtMessage(rest)
  BY <1>3, <1>6, <1>9, <1>10 DEF AtMessage
<1>13. ASSUME NEW p \in Fronts(rest)
       PROVE  LET next == p + Len(Cells(rest[p].msg))
              IN  IF next <= Len(rest) THEN rest[next].msg.no = rest[p].msg.no + 1
                                       ELSE rest[p].msg.no = l
  <2> DEFINE s == Len(Cells(rest[p].msg))
  <2>1. p \in 1 .. k - n /\ rest[p] = c[n + p] /\ n + p \in Fronts(c)
    BY <1>1, <1>7 DEF Fronts
  <2>2. s \in {2, 4}
    BY <2>1, FrontFacts
  <2>3. IF n + p + s <= k THEN c[n + p + s].msg.no = rest[p].msg.no + 1
                          ELSE rest[p].msg.no = l
    BY <1>1, <2>1 DEF Numbered
  <2> HIDE DEF s
  <2>4. n + p + s <= k <=> p + s <= k - n
    BY <1>2, <2>1, <2>2
  <2>5. p + s <= k - n => rest[p + s] = c[n + p + s]
    <3>1. p + s <= k - n => p + s \in 1 .. k - n /\ n + (p + s) = n + p + s
      BY <1>2, <2>1, <2>2
    <3> QED
      BY <1>7, <3>1
  <2>6. IF p + s <= Len(rest) THEN rest[p + s].msg.no = rest[p].msg.no + 1
                              ELSE rest[p].msg.no = l
    BY <1>7, <2>3, <2>4, <2>5
  <2> QED
    BY <2>6 DEF s
<1>14. \A p \in DOMAIN rest : rest[p].msg.from = i
  BY <1>1, <1>7 DEF Numbered
<1>15. IF rest = <<>> THEN f + 1 = l + 1 ELSE rest[1].msg.no = f + 1
  BY <1>8, <1>10, <1>11
<1> QED
  BY <1>4, <1>5, <1>12, <1>13, <1>14, <1>15 DEF Numbered, m, rest

(* How many messages were returned to a handler, when one more is.         *)
LEMMA CountMore ==
  ASSUME TypeOK, NEW d \in Conn,
         given' \in Seq(Entry), Len(given') = Len(given) + 1,
         \A k \in 1 .. Len(given) : given'[k] = given[k],
         given'[Len(given) + 1].to = d
  PROVE  /\ \A i \in Conn : Count(i) \in Nat
         /\ \A i \in Conn : Count(i)' = IF i = d THEN Count(i) + 1 ELSE Count(i)
         /\ Cardinality({j \in 1 .. Len(given) + 1 : given'[j].to = d}) = Count(d) + 1
<1>1. PICK l \in Nat : l = Len(given) /\ DOMAIN given = 1 .. l /\ DOMAIN given' = 1 .. l + 1
  BY DEF TypeOK
<1> DEFINE At(i) == {k \in 1 .. l : given[k].to = i}
           After(i) == {k \in 1 .. l + 1 : given'[k].to = i}
<1>2. \A i : Count(i) = Cardinality(At(i)) /\ Count(i)' = Cardinality(After(i))
  BY <1>1 DEF Count
<1>3. ASSUME NEW i \in Conn
      PROVE  IsFiniteSet(At(i)) /\ Cardinality(At(i)) \in Nat
  <2>1. IsFiniteSet(1 .. l)
    BY FS_Interval
  <2>2. At(i) \subseteq 1 .. l
    OBVIOUS
  <2> QED
    BY <2>1, <2>2, FS_Subset, FS_CardinalityType
<1>4. ASSUME NEW i \in Conn
      PROVE  After(i) = IF i = d THEN At(i) \cup {l + 1} ELSE At(i)
  <2>1. \A k \in 1 .. l + 1 : k \in 1 .. l \/ k = l + 1
    OBVIOUS
  <2>2. \A k \in 1 .. l : k \in 1 .. l + 1 /\ given'[k] = given[k]
    BY <1>1
  <2>3. l + 1 \in 1 .. l + 1 /\ given'[l + 1].to = d
    BY <1>1
  <2>4. CASE i = d
    BY <2>1, <2>2, <2>3, <2>4
  <2>5. CASE i # d
    BY <2>1, <2>2, <2>3, <2>5
  <2> QED
    BY <2>4, <2>5
<1>5. \A i \in Conn : l + 1 \notin At(i)
  OBVIOUS
<1> HIDE DEF At, After
<1>6. ASSUME NEW i \in Conn
      PROVE  Count(i)' = IF i = d THEN Count(i) + 1 ELSE Count(i)
  <2>1. Cardinality(At(i) \cup {l + 1}) = Cardinality(At(i)) + 1
    BY <1>3, <1>5, FS_AddElement
  <2> QED
    BY <1>2, <1>4, <2>1
<1>7. Cardinality({j \in 1 .. Len(given) + 1 : given'[j].to = d}) = Count(d) + 1
  BY <1>1, <1>2, <1>6 DEF After
<1> QED
  BY <1>2, <1>3, <1>6, <1>7

(* Counts are numbers. *)
LEMMA CountType ==
  ASSUME TypeOK
  PROVE  \A i \in Conn : Count(i) \in Nat /\ Due(i) \in Nat
<1>1. PICK l \in Nat : DOMAIN given = 1 .. l
  BY DEF TypeOK
<1>2. ASSUME NEW i \in Conn
      PROVE  Count(i) \in Nat
  <2>1. IsFiniteSet(1 .. l)
    BY FS_Interval
  <2>2. {k \in DOMAIN given : given[k].to = i} \subseteq 1 .. l
    BY <1>1
  <2> QED
    BY <2>1, <2>2, FS_Subset, FS_CardinalityType DEF Count
<1> QED
  BY <1>2 DEF Due

(* The descriptor of a thread changes only when it leaves Recv. *)
LEMMA DescriptorStays ==
  ASSUME NEW u, u = Comm => ready' = ready
  PROVE  Descriptor(u)' = Descriptor(u)
BY DEF Descriptor

(* What was returned remains the clients' own while nothing more is. *)
LEMMA OwnStays ==
  ASSUME OwnMessages, alone, ~overlapped, given' = given
  PROVE  OwnMessages'
<1>1. Returned' = Returned
  BY DEF Returned
<1> QED
  BY <1>1 DEF OwnMessages

(* The steps that change neither what threads hold nor what streams have. *)
LEMMA SameOne ==
  ASSUME OneHeld, StreamsNumbered,
         UNCHANGED <<stream, sent, buffer, localBuffer, given>>,
         Loaded' = Loaded, Busy' \ Loaded = Busy \ Loaded, Busy' \cup Loaded = Busy \cup Loaded,
         \A u \in Holding : Descriptor(u)' = Descriptor(u)
  PROVE  OneHeld' /\ StreamsNumbered'
<1>1. Holding' = Holding
  BY DEF Holding
<1>2. \A i : Count(i)' = Count(i)
  BY DEF Count
<1>3. \A i : Due(i)' = Due(i)
  BY <1>1, <1>2 DEF Due, Holding
<1>4. \A u \in Holding : Held(u)' = Held(u)
  BY DEF Held
<1>5. ASSUME NEW u \in Holding
      PROVE  Own(u, Held(u))'
  <2>1. Own(u, Held(u))
    BY DEF OneHeld
  <2> QED
    BY <1>2, <1>4, <1>5, <2>1 DEF Own
<1>6. OneHeld'
  <2>1. Busy' \subseteq Loaded' <=> Busy \subseteq Loaded
    OBVIOUS
  <2>2. Loaded' \subseteq Holding /\ Busy' \ Loaded' = Busy \ Loaded /\ Busy \subseteq Holding
    BY DEF Holding
  <2> QED
    BY <1>1, <1>4, <1>5, <2>1, <2>2 DEF OneHeld
<1>7. StreamsNumbered'
  BY <1>3 DEF StreamsNumbered
<1> QED
  BY <1>6, <1>7

(* A client sends its next message. *)
LEMMA SendOne ==
  ASSUME TypeOK, Counted, StreamsWhole, StreamsNumbered, OneHeld,
         NEW i \in Conn, NEW padded \in BOOLEAN, Send(i, padded)
  PROVE  OneHeld' /\ StreamsNumbered'
<1> DEFINE m == [from |-> i, no |-> sent[i] + 1, padded |-> padded]
<1>1. /\ sends < MaxSend
      /\ stream' = [stream EXCEPT ![i] = @ \o Cells(m)]
      /\ sent' = [sent EXCEPT ![i] = @ + 1]
      /\ UNCHANGED <<localBuffer, pc, buffer, ready, given>>
  BY DEF Send, history
<1>2. m \in Message /\ m.from = i /\ m.no = sent[i] + 1 /\ sent[i] \in Int
  <2>1. /\ sends \in 0 .. MaxSend /\ MaxSend \in Nat /\ sent[i] \in 0 .. MaxSend
        /\ sent[i] <= sends
    BY MaxSendAssumption DEF TypeOK, Counted
  <2> QED
    BY <1>1, <2>1 DEF Message
<1> HIDE DEF m
<1>3. Loaded' = Loaded /\ Busy' = Busy /\ Holding' = Holding
  BY <1>1 DEF Loaded, Busy, Holding
<1>4. \A u : Descriptor(u)' = Descriptor(u) /\ Held(u)' = Held(u) /\ Count(u)' = Count(u)
  BY <1>1, <1>3 DEF Descriptor, Held, Count
<1>5. \A u : Due(u)' = Due(u)
  BY <1>3, <1>4 DEF Due
<1>6. OneHeld'
  BY <1>1, <1>3, <1>4 DEF OneHeld, Own
<1>7. ASSUME NEW j \in Conn
      PROVE  Numbered(stream'[j], j, Due(j), sent'[j])
  <2>1. CASE j = i
    <3>1. stream[i] \in Seq(Cell) /\ Blocks(stream[i]) /\ Due(i) \in Int
      BY CountType DEF TypeOK, StreamsWhole
    <3>2. Numbered(stream[i], i, Due(i), sent[i])
      BY DEF StreamsNumbered
    <3>3. Numbered(stream[i] \o Cells(m), i, Due(i), sent[i] + 1)
      BY <1>2, <3>1, <3>2, NumberedMore
    <3> QED
      BY <1>1, <2>1, <3>3 DEF TypeOK
  <2>2. CASE j # i
    BY <1>1, <2>2 DEF StreamsNumbered, TypeOK
  <2> QED
    BY <2>1, <2>2
<1> QED
  BY <1>5, <1>6, <1>7 DEF StreamsNumbered

(* No two threads that hold a message, or wait for one, have a descriptor. *)
LEMMA HoldersDiffer ==
  ASSUME TypeOK, NEW t \in Thread, pc[t] # "idle", NEW u \in Holding, u # t
  PROVE  Descriptor(u) # Descriptor(t) /\ Descriptor(u) \in Conn
<1>1. u \in Thread /\ pc[u] # "idle"
  BY DEF Holding, Busy, Loaded
<1>2. Comm \in {t, u} => ready # {}
  BY <1>1 DEF TypeOK
<1> QED
  BY <1>1, <1>2, Descriptors, DescriptorsDiffer

(* recv() gives a thread the next message of its client. *)
LEMMA ReceiveOne ==
  ASSUME TypeOK, StreamsWhole, StreamsNumbered, OneHeld, whole, ~overlapped,
         NEW t \in Thread, Receive(t), alone'
  PROVE  OneHeld' /\ StreamsNumbered' /\ whole' /\ given' = given
<1>1. pc[t] = "recv" /\ pc' = [pc EXCEPT ![t] = "load"]
  BY DEF Receive, Goto
<1>0. PICK d \in Conn : d = Descriptor(t)
  BY <1>1, Descriptors DEF TypeOK
<1> DEFINE c == stream[d]
           m == c[1].msg
<1>2. d \in Conn /\ c \in Seq(Cell) /\ Blocks(c)
  BY DEF TypeOK, StreamsWhole
<1>3. PICK n \in 1 .. Min({MaxLen, Len(c)}) :
        /\ buffer' = [buffer EXCEPT ![t] = SubSeq(c, 1, n)]
        /\ stream' = [stream EXCEPT ![d] = SubSeq(c, n + 1, Len(c))]
        /\ alone' = (alone /\ SubSeq(c, 1, n) = Cells(SubSeq(c, 1, n)[1].msg))
        /\ whole' = (whole /\ AtMessage(SubSeq(c, 1, n)) /\ AtMessage(SubSeq(c, n + 1, Len(c))))
  BY <1>0 DEF Receive
<1>4. UNCHANGED <<sent, localBuffer, ready, overlapped>> /\ Keep
  BY DEF Receive
<1>5. n \in 1 .. Len(c)
  BY <1>2, ReceiveBound
<1> DEFINE got == SubSeq(c, 1, n)
           rest == SubSeq(c, n + 1, Len(c))
<1>6. got[1] = c[1] /\ got = Cells(m)
  <2>1. PICK l \in Nat : l = Len(c) /\ n \in 1 .. l
    BY <1>2, <1>5
  <2>2. got[1] = c[1]
    BY <1>2, <2>1
  <2> QED
    BY <1>3, <2>2
<1> HIDE DEF c, m
<1>7. \A u \in Holding : u \in Thread /\ u # t /\ Descriptor(u) # d
  BY <1>0, <1>1, HoldersDiffer DEF Holding, Busy, Loaded
<1>8. Due(d) = Count(d) + 1 /\ Count(d) \in Nat /\ sent[d] \in Int
  BY <1>2, <1>7, CountType DEF Due, TypeOK
<1>9. /\ Numbered(rest, d, Due(d) + 1, sent[d])
      /\ AtMessage(got) /\ AtMessage(rest)
      /\ m \in Message /\ m.from = d /\ m.no = Due(d)
  <2>1. Numbered(c, d, Due(d), sent[d])
    BY <1>2 DEF StreamsNumbered, c
  <2>2. Due(d) \in Int /\ sent[d] \in Int
    BY <1>8
  <2>3. SubSeq(c, 1, n) = Cells(c[1].msg)
    BY <1>6 DEF m
  <2> QED
    BY <1>2, <1>5, <2>1, <2>2, <2>3, NumberedRest DEF m
<1> HIDE DEF got, rest
<1>10. whole' /\ given' = given
  BY <1>3, <1>4, <1>9 DEF Keep, got, rest
<1>11. /\ Loaded' = Loaded \cup {t} /\ Busy' = Busy /\ Holding' = Holding \cup {t}
       /\ t \notin Busy /\ t \notin Loaded
  BY <1>1 DEF Loaded, Busy, Holding, TypeOK
<1>12. \A u : Descriptor(u)' = Descriptor(u) /\ Count(u)' = Count(u)
  BY <1>4, <1>10 DEF Descriptor, Count
<1>13. buffer'[t] = got /\ \A u \in Thread : u # t => buffer'[u] = buffer[u]
  BY <1>3 DEF TypeOK, got
<1>14. Held(t)' = m
  BY <1>6, <1>11, <1>13 DEF Held, m
<1>15. \A u \in Holding : Held(u)' = Held(u)
  BY <1>4, <1>7, <1>11, <1>13 DEF Held
<1>16. ASSUME NEW u \in Holding'
       PROVE  Own(u, Held(u))'
  <2>1. CASE u = t
    BY <1>0, <1>8, <1>9, <1>12, <1>14, <2>1 DEF Own
  <2>2. CASE u \in Holding
    <3>1. Own(u, Held(u))
      BY <2>2 DEF OneHeld
    <3> QED
      BY <1>12, <1>15, <2>2, <3>1 DEF Own
  <2> QED
    BY <1>11, <2>1, <2>2
<1>17. \A u \in Loaded' : buffer'[u] = Cells(Held(u)')
  <2>1. \A u \in Loaded : buffer[u] = Cells(Held(u)) /\ u \in Holding
    BY DEF OneHeld, Holding
  <2> QED
    BY <1>6, <1>7, <1>11, <1>13, <1>14, <1>15, <2>1
<1>18. \A u \in Busy' \ Loaded' : localBuffer' = Text(Held(u)')
  BY <1>4, <1>11, <1>15 DEF OneHeld, Holding
<1>19. Busy' \subseteq Loaded' => localBuffer' = <<>>
  BY <1>4, <1>11 DEF OneHeld
<1>20. OneHeld'
  BY <1>16, <1>17, <1>18, <1>19 DEF OneHeld
<1>21. ASSUME NEW j \in Conn
       PROVE  Numbered(stream'[j], j, Due(j)', sent'[j])
  <2>1. CASE j = d
    <3>1. Due(d)' = Count(d) + 2
      BY <1>0, <1>11, <1>12 DEF Due
    <3>2. Due(d)' = Due(d) + 1
      BY <1>8, <3>1
    <3>3. stream'[d] = rest
      BY <1>2, <1>3 DEF TypeOK, rest
    <3> QED
      BY <1>4, <1>9, <2>1, <3>2, <3>3
  <2>2. CASE j # d
    <3>1. Due(j)' = Due(j)
      BY <1>0, <1>11, <1>12, <2>2 DEF Due
    <3>2. stream'[j] = stream[j]
      BY <1>3, <2>2 DEF TypeOK
    <3> QED
      BY <1>4, <3>1, <3>2 DEF StreamsNumbered
  <2> QED
    BY <2>1, <2>2
<1>22. StreamsNumbered'
  BY <1>21 DEF StreamsNumbered
<1> QED
  BY <1>10, <1>20, <1>22

(* strcat puts the text of the message into the empty localBuffer. *)
LEMMA StrcatOne ==
  ASSUME TypeOK, Sound, Exclusive, ~overlapped, StreamsNumbered, OneHeld,
         NEW t \in Thread, Strcat(t)
  PROVE  OneHeld' /\ StreamsNumbered'
<1> DEFINE m == Held(t)
<1>1. /\ pc[t] = "append" /\ pc' = [pc EXCEPT ![t] = "find"]
      /\ localBuffer' = value[t] \o AsString(buffer[t])
      /\ buffer' = [buffer EXCEPT ![t] = <<>>]
      /\ UNCHANGED <<stream, sent, ready, given>>
  BY DEF Strcat, Goto, network
<1>2. t \in Loaded /\ t \in Busy /\ t \in Holding
  BY <1>1 DEF Loaded, Busy, Holding
<1>3. \A u \in Busy : u = t
  BY <1>2 DEF Exclusive
<1>4. value[t] = <<>>
  BY <1>1, <1>2, <1>3 DEF OneHeld, Sound, StringWhole
<1>5. m \in Message /\ buffer[t] = Cells(m) /\ Own(t, m)
  BY <1>2 DEF OneHeld, Own
<1> HIDE DEF m
<1>6. localBuffer' = Text(m)
  <2>1. AsString(buffer[t]) = Text(m)
    BY <1>5, StringOfOne
  <2>2. Text(m) \in Seq(TextCell)
    BY <1>5, CellsFacts
  <2>3. <<>> \o Text(m) = Text(m)
    BY <2>2, ConcatEmptySeq
  <2> QED
    BY <1>1, <1>4, <2>1, <2>3
<1>7. Loaded' = Loaded \ {t} /\ Busy' = Busy /\ Holding' = Holding
  BY <1>1, <1>2 DEF Loaded, Busy, Holding, TypeOK
<1>8. \A u : Descriptor(u)' = Descriptor(u) /\ Count(u)' = Count(u)
  BY <1>1 DEF Descriptor, Count
<1>9. \A u : Due(u)' = Due(u)
  BY <1>7, <1>8 DEF Due
<1>10. Held(t)' = m
  <2>1. Text(m)[1].msg = m
    <3>1. Text(m)[1] = [msg |-> m, part |-> "front"]
      BY <1>5, CellsFacts
    <3> QED
      BY <3>1
  <2> QED
    BY <1>6, <1>7, <2>1 DEF Held
<1>11. \A u \in Holding : u # t => u \in Loaded /\ u \in Thread /\ buffer'[u] = buffer[u]
  BY <1>1, <1>3 DEF Holding, Loaded, TypeOK
<1>12. \A u \in Holding : Held(u)' = Held(u)
  BY <1>7, <1>10, <1>11 DEF Held, m
<1>13. ASSUME NEW u \in Holding'
       PROVE  Own(u, Held(u))'
  <2>1. Own(u, Held(u))
    BY <1>7 DEF OneHeld
  <2> QED
    BY <1>7, <1>8, <1>12, <2>1 DEF Own
<1>14. \A u \in Loaded' : buffer'[u] = Cells(Held(u)')
  BY <1>7, <1>11, <1>12 DEF OneHeld, Holding
<1>15. \A u \in Busy' \ Loaded' : localBuffer' = Text(Held(u)')
  BY <1>3, <1>6, <1>7, <1>10
<1>16. OneHeld'
  BY <1>2, <1>7, <1>13, <1>14, <1>15 DEF OneHeld
<1>17. StreamsNumbered'
  BY <1>1, <1>9 DEF StreamsNumbered
<1> QED
  BY <1>16, <1>17

(* Recv returns the message to the handler of its client. *)
LEMMA StoreOne ==
  ASSUME TypeOK, Sound, Exclusive, StreamsNumbered, OneHeld, OwnMessages,
         alone, whole, ~overlapped, NEW t \in Thread, Store(t)
  PROVE  OneHeld' /\ StreamsNumbered' /\ OwnMessages'
<1> DEFINE m == Held(t)
           v == value[t]
<1>0. PICK d \in Conn : d = Descriptor(t)
  BY Descriptors DEF Store, Goto, TypeOK
<1>1. /\ pc[t] = "store" /\ pc' = [pc EXCEPT ![t] = "idle"]
      /\ localBuffer' = SubSeq(v, Terminator(v) + 1, Len(v))
      /\ given' = given \o <<[to |-> d, text |-> SubSeq(v, 1, Terminator(v))]>>
      /\ UNCHANGED <<stream, sent, buffer>> /\ Return(t)
  BY <1>0 DEF Store, Goto, Extend, network
<1>2. t \in Busy /\ t \notin Loaded /\ t \in Holding
  BY <1>1 DEF Loaded, Busy, Holding
<1>3. \A u \in Busy : u = t
  BY <1>2 DEF Exclusive
<1>4. v = Text(m) /\ v \in Seq(TextCell) /\ Texts(v) /\ v # <<>>
  BY <1>1, <1>2 DEF OneHeld, Sound, StringWhole, TypeOK
<1>5. m \in Message /\ m.from = d /\ m.no = Count(d) + 1
  BY <1>0, <1>2 DEF OneHeld, Own
<1> HIDE DEF m, v
<1>7. Len(v) = 2 /\ v[2].msg = m
  <2>1. Len(Text(m)) = 2 /\ Text(m)[2] = [msg |-> m, part |-> "end"]
    BY <1>5, CellsFacts
  <2> QED
    BY <1>4, <2>1
<1>8. Terminator(v) = 2 /\ SubSeq(v, 1, 2) = Text(m)
  BY <1>4, <1>7, TextsDivided
<1>9. localBuffer' = <<>> /\ given' = given \o <<[to |-> d, text |-> Text(m)]>>
  <2>1. localBuffer' = SubSeq(v, 3, 2)
    BY <1>1, <1>7, <1>8
  <2>2. SubSeq(v, 3, 2) = <<>>
    BY <1>4
  <2>3. SubSeq(v, 1, Terminator(v)) = Text(m)
    BY <1>8
  <2> QED
    BY <1>1, <2>1, <2>2, <2>3
<1>10. PICK l \in Nat : l = Len(given) /\ DOMAIN given = 1 .. l
  BY DEF TypeOK
<1>11. /\ Len(given') = l + 1 /\ given' \in Seq(Entry)
       /\ \A k \in 1 .. l : given'[k] = given[k] /\ Returned'[k] = Returned[k]
       /\ given'[l + 1] = [to |-> d, text |-> Text(m)]
       /\ Returned'[l + 1] = m
       /\ \A k \in DOMAIN given' : given'[k].text = Text(Returned'[k])
  BY <1>5, <1>9, <1>10, ReturnedMore DEF Sound, Accounted
<1>12. /\ \A i \in Conn : Count(i) \in Nat
       /\ \A i \in Conn : Count(i)' = IF i = d THEN Count(i) + 1 ELSE Count(i)
       /\ Cardinality({j \in 1 .. l + 1 : given'[j].to = d}) = Count(d) + 1
  <2>1. given'[l + 1].to = d
    BY <1>11
  <2> QED
    BY <1>10, <1>11, <2>1, CountMore
<1>13. ASSUME NEW k \in DOMAIN given'
       PROVE  LET to == given'[k].to
                  before == {j \in 1 .. k : given'[j].to = to}
              IN  /\ given'[k].text = Text(Returned'[k])
                  /\ Returned'[k].from = to /\ Returned'[k].no = Cardinality(before)
  <2>1. k \in 1 .. l \/ k = l + 1
    BY <1>11
  <2>2. CASE k = l + 1
    <3>1. given'[k].to = d /\ Returned'[k] = m
      BY <1>11, <2>2
    <3> QED
      BY <1>5, <1>11, <1>12, <2>2, <3>1
  <2>3. CASE k \in 1 .. l
    <3>1. \A j \in 1 .. k : j \in 1 .. l
      BY <2>3
    <3>2. given'[k] = given[k] /\ Returned'[k] = Returned[k]
      BY <1>11, <2>3
    <3>3. {j \in 1 .. k : given'[j].to = given'[k].to} = {j \in 1 .. k : given[j].to = given[k].to}
      BY <1>11, <3>1, <3>2
    <3>4. /\ Returned[k].from = given[k].to
          /\ Returned[k].no = Cardinality({j \in 1 .. k : given[j].to = given[k].to})
      BY <1>10, <2>3 DEF OwnMessages
    <3> QED
      BY <1>11, <3>2, <3>3, <3>4
  <2> QED
    BY <2>1, <2>2, <2>3
<1>14. OwnMessages'
  BY <1>13 DEF OwnMessages
<1>15. Loaded' = Loaded /\ Busy' = {} /\ Holding' = Holding \ {t} /\ Holding' = Loaded
  BY <1>1, <1>2, <1>3 DEF Loaded, Busy, Holding, TypeOK
<1>16. ASSUME NEW u \in Holding'
       PROVE  /\ u \in Holding /\ Descriptor(u)' = Descriptor(u) /\ Held(u)' = Held(u)
              /\ Descriptor(u) # d /\ Descriptor(u) \in Conn
  <2>1. u \in Holding /\ u # t
    BY <1>15
  <2>2. u = Comm => ready' = ready
    BY <1>1, <2>1 DEF Return
  <2>3. Held(u)' = Held(u)
    BY <1>1, <1>15 DEF Held
  <2> QED
    BY <1>1, <2>1, <2>2, <2>3, <1>0, DescriptorStays, HoldersDiffer
<1>17. ASSUME NEW u \in Holding'
       PROVE  Own(u, Held(u))'
  <2>1. Own(u, Held(u))
    BY <1>16 DEF OneHeld
  <2> QED
    BY <1>12, <1>16, <2>1 DEF Own
<1>18. OneHeld'
  BY <1>1, <1>9, <1>15, <1>16, <1>17 DEF OneHeld
<1>19. ASSUME NEW j \in Conn
       PROVE  Due(j)' = Due(j)
  <2>1. CASE j = d
    <3>1. Due(d) = Count(d) + 2
      BY <1>0, <1>2 DEF Due
    <3>2. Due(d)' = Count(d)' + 1
      BY <1>16 DEF Due
    <3> QED
      BY <1>12, <2>1, <3>1, <3>2
  <2>2. CASE j # d
    <3>1. \A u \in Holding : Descriptor(u) = j => u \in Holding'
      BY <1>0, <1>15, <2>2
    <3>2. (\E u \in Holding : Descriptor(u) = j) <=> (\E u \in Holding' : Descriptor(u)' = j)
      BY <1>16, <3>1
    <3> QED
      BY <1>12, <2>2, <3>2 DEF Due
  <2> QED
    BY <2>1, <2>2
<1>20. StreamsNumbered'
  BY <1>1, <1>19 DEF StreamsNumbered
<1> QED
  BY <1>14, <1>18, <1>20


(* At first nothing has been sent. *)
LEMMA OneInit == Init => OneInv
<1> SUFFICES ASSUME Init
             PROVE  OneInv
  OBVIOUS
<1>1. WholeInv
  BY WholeInit
<1>2. Busy = {} /\ Loaded = {} /\ Holding = {} /\ whole
  BY DEF Init, Busy, Loaded, Holding
<1>3. DOMAIN given = {}
  BY DEF Init
<1>4. ASSUME NEW i \in Conn
      PROVE  Numbered(stream[i], i, Due(i), sent[i])
  <2>1. stream[i] = <<>> /\ sent[i] = 0
    BY DEF Init
  <2>2. Count(i) = 0
    BY <1>3, FS_EmptySet DEF Count
  <2>3. Due(i) = sent[i] + 1
    BY <1>2, <2>1, <2>2 DEF Due
  <2>4. DOMAIN stream[i] = {} /\ Fronts(stream[i]) = {}
    BY <2>1 DEF Fronts
  <2> QED
    BY <2>1, <2>3, <2>4 DEF Numbered
<1>5. OneHeld
  BY <1>2 DEF Init, OneHeld
<1>6. OwnMessages
  BY <1>3 DEF OwnMessages
<1> QED
  BY <1>1, <1>2, <1>4, <1>5, <1>6 DEF OneInv, StreamsNumbered

(* No message is left over for a thread that calls Recv. *)
LEMMA NothingFound ==
  ASSUME TypeOK, Sound, OneHeld, NEW t \in Thread, LookFound(t)
  PROVE  overlapped'
<1>1. Texts(localBuffer) /\ localBuffer \in Seq(TextCell) /\ Terminator(localBuffer) # 0
  BY DEF LookFound, Sound, StringWhole, TypeOK
<1>2. localBuffer # <<>>
  BY <1>1, TextsEnd
<1>3. PICK u \in Busy : u \notin Loaded
  BY <1>2 DEF OneHeld
<1>4. u \in Thread \ {t} /\ pc[u] \in {"append", "find", "store"}
  BY <1>3 DEF Busy, LookFound, Goto
<1> QED
  BY <1>4 DEF LookFound, Overlap

(* A step keeps every handler's messages its own. *)
LEMMA OneStep ==
  ASSUME OneInv, [Next]_vars
  PROVE  OneInv'
<1>1. WholeInv'
  BY WholeStep DEF OneInv
<1> SUFFICES ASSUME alone', ~overlapped'
             PROVE  whole' /\ StreamsNumbered' /\ OneHeld' /\ OwnMessages'
  BY <1>1 DEF OneInv
<1>2. TypeOK /\ Counted /\ Exclusive /\ alone /\ ~overlapped
  BY FlagsStay DEF OneInv, WholeInv
<1>3. whole /\ StreamsNumbered /\ OneHeld /\ OwnMessages /\ Sound /\ StreamsWhole
  BY <1>2 DEF OneInv, WholeInv, Sound
<1>4. ASSUME UNCHANGED <<stream, sent, pc, localBuffer, buffer, ready, given, whole>>
      PROVE  whole' /\ StreamsNumbered' /\ OneHeld' /\ OwnMessages'
  <2>1. Loaded' = Loaded /\ Busy' = Busy
    BY <1>4 DEF Loaded, Busy
  <2>2. \A u \in Holding : Descriptor(u)' = Descriptor(u)
    BY <1>4, DescriptorStays
  <2> QED
    BY <1>2, <1>3, <1>4, <2>1, <2>2, SameOne, OwnStays
<1>5. ASSUME NEW i \in Client, HangUp(i)
      PROVE  whole' /\ StreamsNumbered' /\ OneHeld' /\ OwnMessages'
  BY <1>4, <1>5 DEF HangUp, history, flags
<1>6. ASSUME NEW i \in Conn, NEW padded \in BOOLEAN, Send(i, padded)
      PROVE  whole' /\ StreamsNumbered' /\ OneHeld' /\ OwnMessages'
  <2>1. whole' = whole /\ given' = given
    BY <1>6 DEF Send, history, flags
  <2> QED
    BY <1>2, <1>3, <1>6, <2>1, SendOne, OwnStays
<1>7. ASSUME NEW t \in Thread, ThreadStep(t)
      PROVE  whole' /\ StreamsNumbered' /\ OneHeld' /\ OwnMessages'
  <2>1. CASE FindNull(t)
    BY <1>4, <2>1 DEF FindNull, network, history, flags
  <2>2. CASE LookFound(t)
    BY <1>2, <1>3, <2>2, NothingFound
  <2>3. CASE Receive(t)
    BY <1>2, <1>3, <2>3, ReceiveOne, OwnStays
  <2>4. CASE Strcat(t)
    <3>1. whole' = whole /\ given' = given
      BY <2>4 DEF Strcat, flags
    <3> QED
      BY <1>2, <1>3, <2>4, <3>1, StrcatOne, OwnStays
  <2>5. CASE Store(t)
    <3>1. whole' = whole
      BY <2>5 DEF Store, flags
    <3> QED
      BY <1>2, <1>3, <2>5, <3>1, StoreOne
  <2>6. CASE Select
    <3>1. /\ UNCHANGED <<stream, sent, pc, localBuffer, buffer, given, whole>>
          /\ pc[Comm] = "idle"
      BY <2>6 DEF Select, network, history, flags
    <3>2. Loaded' = Loaded /\ Busy' = Busy /\ Comm \notin Holding
      BY <3>1 DEF Loaded, Busy, Holding
    <3>3. \A u \in Holding : Descriptor(u)' = Descriptor(u)
      BY <3>2, DescriptorStays
    <3> QED
      BY <1>2, <1>3, <3>1, <3>2, <3>3, SameOne, OwnStays
  <2>7. CASE LookNone(t) \/ ReceiveEnd(t)
    <3>1. /\ UNCHANGED <<stream, sent, localBuffer, buffer, given, whole>>
          /\ pc[t] \in {"idle", "recv"} /\ \E to \in {"idle", "recv"} : pc' = [pc EXCEPT ![t] = to]
          /\ t = Comm \/ ready' = ready
      BY <2>7 DEF LookNone, ReceiveEnd, Goto, Return, network, history, flags
    <3>2. Loaded' = Loaded /\ Busy' = Busy /\ t \notin Holding
      BY <1>2, <3>1 DEF Loaded, Busy, Holding, TypeOK
    <3>3. \A u \in Holding : Descriptor(u)' = Descriptor(u)
      BY <3>1, <3>2, DescriptorStays
    <3> QED
      BY <1>2, <1>3, <3>1, <3>2, <3>3, SameOne, OwnStays
  <2>8. CASE Load(t) \/ Find(t)
    <3>1. UNCHANGED <<stream, sent, localBuffer, buffer, ready, whole>>
      BY <2>8 DEF Load, Find, network, history, flags
    <3>2. given' = given
      BY <1>3, <2>8, <3>1 DEF Load, Find, Overlap, Keep, history
    <3>3. /\ Loaded' = Loaded /\ Busy' \ Loaded = Busy \ Loaded
          /\ Busy' \cup Loaded = Busy \cup Loaded
      BY <1>2, <2>8 DEF Load, Find, Goto, Loaded, Busy, TypeOK
    <3>4. \A u \in Holding : Descriptor(u)' = Descriptor(u)
      BY <3>1, DescriptorStays
    <3> QED
      BY <1>2, <1>3, <3>1, <3>2, <3>3, <3>4, SameOne, OwnStays
  <2> QED
    BY <1>7, <2>1, <2>2, <2>3, <2>4, <2>5, <2>6, <2>7, <2>8 DEF ThreadStep, RecvStep, Look
<1>8. CASE UNCHANGED vars
  BY <1>4, <1>8 DEF vars, network, history, flags
<1> QED
  BY <1>5, <1>6, <1>7, <1>8 DEF Next

(* The invariant holds of every behaviour of the clients and the threads in *)
(* Recv.                                                                   *)
THEOREM Invariant == Spec => []OneInv
<1>1. Init => OneInv
  BY OneInit
<1>2. OneInv /\ [Next]_vars => OneInv'
  BY OneStep
<1> QED
  BY <1>1, <1>2, PTL DEF Spec

(* Cells, threads and localBuffer have their types; the padding of a message *)
(* never reaches localBuffer.                                              *)
THEOREM TypeCorrect == Spec => []TypeOK
<1>1. OneInv => TypeOK
  BY DEF OneInv, WholeInv
<1> QED
  BY <1>1, Invariant, PTL

(* While messages come one by one and threads do not overlap, Recv returns *)
(* to the handler of each client that client's messages, in its order.     *)
THEOREM HandlersOwn == Spec => []OwnMessages
<1>1. OneInv => OwnMessages
  BY DEF OneInv, OwnMessages
<1> QED
  BY <1>1, Invariant, PTL

(* While messages are received whole, glued together or not, and threads do *)
(* not overlap, each is returned once and in the order of arrival, nothing *)
(* is lost, and the server does not crash.                                 *)
THEOREM ReturnedInOrder == Spec => []InOrder
<1>1. OneInv => InOrder
  BY WholeInOrder DEF OneInv
<1> QED
  BY <1>1, Invariant, PTL
=============================================================================
