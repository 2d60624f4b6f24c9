-------------------------- MODULE SequentialProofs --------------------------
(***************************************************************************)
(* Proofs about the algorithms on data: the loops of pullNameSet compute   *)
(* PullNameSet, and the filter of the viewer shows an interval of time.    *)
(*                                                                         *)
(* A loop is a recursive function. What it computes is written down as a   *)
(* function that takes the same steps, and two functions that take the     *)
(* same steps are equal: there is no least step at which they differ.      *)
(***************************************************************************)
EXTENDS Sequential, SequenceTheorems, WellFoundedInduction, TLAPS

(* A set of natural numbers has a least element. *)
LEMMA Least ==
  ASSUME NEW T \in SUBSET Nat, T # {}
  PROVE  \E m \in T : \A k \in T : m <= k
<1>1. IsWellFoundedOn(OpToRel(<, Nat), Nat)
  BY NatLessThanWellFounded, Zenon
<1>2. PICK m \in T : \A k \in T : ~(<<k, m>> \in OpToRel(<, Nat))
  BY <1>1, WFMin, Zenon
<1>3. \A k \in T : k < m => <<k, m>> \in OpToRel(<, Nat)
  BY Zenon DEF OpToRel
<1>4. \A k \in T : ~(k < m)
  BY <1>2, <1>3, Zenon
<1> QED
  BY <1>4

(* Append puts the element behind the others. *)
LEMMA AppendIs ==
  ASSUME NEW S, NEW s \in Seq(S), NEW n \in Nat, n > 0, Len(s) = n - 1, NEW x
  PROVE  Append(s, x) = [j \in 1 .. n |-> IF j = n THEN x ELSE s[j]]
<1> DEFINE U == S \cup {x}
<1>1. Len(s) + 1 = n
  OBVIOUS
<1>2. s \in Seq(U)
  BY SeqDef
<1>3. /\ Append(s, x) \in Seq(U) /\ Len(Append(s, x)) = n
      /\ \A i \in 1 .. Len(s) : Append(s, x)[i] = s[i]
      /\ Append(s, x)[n] = x
  <2> HIDE DEF U
  <2>1. x \in U
    BY DEF U
  <2> QED
    BY <1>1, <1>2, <2>1, AppendProperties
<1>4. Append(s, x) = [j \in 1 .. n |-> Append(s, x)[j]]
  BY <1>3, SeqDef, LenProperties
<1>5. \A j \in 1 .. n : j = n \/ j \in 1 .. Len(s)
  BY <1>1
<1> QED
  BY <1>3, <1>4, <1>5

(* RemoveAt closes the gap and changes nothing else. *)
LEMMA RemoveAtProperties ==
  ASSUME NEW S, NEW s \in Seq(S), NEW k \in 1 .. Len(s)
  PROVE  /\ RemoveAt(s, k) \in Seq(S)
         /\ Len(RemoveAt(s, k)) = Len(s) - 1
         /\ \A i \in 1 .. Len(s) - 1 :
              RemoveAt(s, k)[i] = IF i < k THEN s[i] ELSE s[i + 1]
<1> DEFINE a == SubSeq(s, 1, k - 1)
           b == SubSeq(s, k + 1, Len(s))
<1>1. Len(s) \in Nat /\ \A i \in 1 .. Len(s) : s[i] \in S
  BY LenProperties, ElementOfSeq
<1>2. /\ a \in Seq(S) /\ Len(a) = k - 1
      /\ \A i \in 1 .. k - 1 : a[i] = s[i]
  BY <1>1, SubSeqProperties
<1>3. /\ b \in Seq(S) /\ Len(b) = Len(s) - k
      /\ \A i \in 1 .. Len(s) - k : b[i] = s[i + k]
  <2>1. \A i \in k + 1 .. Len(s) : s[i] \in S
    BY <1>1
  <2>2. /\ b \in Seq(S)
        /\ Len(b) = IF k + 1 <= Len(s) THEN Len(s) - (k + 1) + 1 ELSE 0
        /\ \A i \in 1 .. Len(s) - (k + 1) + 1 : b[i] = s[k + 1 + i - 1]
    BY <1>1, <2>1, SubSeqProperties
  <2>3. Len(b) = Len(s) - k
    BY <1>1, <2>2
  <2>4. ASSUME NEW i \in 1 .. Len(s) - k
        PROVE  b[i] = s[i + k]
    <3>1. k + 1 + i - 1 = i + k /\ i \in 1 .. Len(s) - (k + 1) + 1
      BY <1>1
    <3>2. b[i] = s[k + 1 + i - 1]
      BY <2>2, <3>1
    <3> QED
      BY <3>1, <3>2
  <2> QED
    BY <2>2, <2>3, <2>4
<1> HIDE DEF a, b
<1>4. RemoveAt(s, k) = a \o b
  BY DEF RemoveAt, a, b
<1>5. /\ a \o b \in Seq(S)
      /\ Len(a \o b) = Len(a) + Len(b)
      /\ \A i \in 1 .. Len(a) + Len(b) :
           (a \o b)[i] = IF i <= Len(a) THEN a[i] ELSE b[i - Len(a)]
  BY <1>2, <1>3, ConcatProperties
<1>6. Len(a) + Len(b) = Len(s) - 1
  BY <1>1, <1>2, <1>3
<1>7. ASSUME NEW i \in 1 .. Len(s) - 1
      PROVE  (a \o b)[i] = IF i < k THEN s[i] ELSE s[i + 1]
  <2>1. CASE i < k
    BY <1>1, <1>2, <1>5, <1>6, <2>1
  <2>2. CASE ~(i < k)
    <3>1. i - Len(a) \in 1 .. Len(s) - k /\ (i - Len(a)) + k = i + 1
      BY <1>1, <1>2, <2>2
    <3>2. (a \o b)[i] = b[i - Len(a)]
      BY <1>1, <1>2, <1>5, <1>6, <2>2
    <3> QED
      BY <1>3, <2>2, <3>1, <3>2
  <2> QED
    BY <2>1, <2>2
<1> QED
  BY <1>4, <1>5, <1>6, <1>7
-----------------------------------------------------------------------------
(* The loops of pullNameSet.                                               *)

\* The outer loop: the array after each pass.
Passes(at, names, name) ==
  at = [i \in 0 .. Len(names) |->
          IF i = 0 THEN names
          ELSE IF at[i - 1][i] = name THEN MoveForward(at[i - 1], i)
          ELSE at[i - 1]]

\* The array when only the pass of place p finds the name.
OnceAt(p, names) ==
  [i \in 0 .. Len(names) |-> IF i < p THEN names ELSE MoveForward(names, p)]

(* The passes leave nothing open. *)
LEMMA PassesDetermined ==
  ASSUME NEW names, Len(names) \in Nat, NEW name, NEW f, NEW g,
         Passes(f, names, name), Passes(g, names, name)
  PROVE  f = g
<1> DEFINE T == {i \in 0 .. Len(names) : f[i] # g[i]}
<1>1. ASSUME T # {} PROVE FALSE
  <2>1. PICK m \in T : \A k \in T : m <= k
    <3>1. T \in SUBSET Nat
      OBVIOUS
    <3> QED
      BY <1>1, <3>1, Least
  <2>2. m \in 0 .. Len(names) /\ f[m] # g[m]
    BY <2>1
  <2>3. CASE m = 0
    <3>1. f[m] = names /\ g[m] = names
      BY <2>2, <2>3 DEF Passes
    <3> QED
      BY <2>2, <3>1
  <2>4. CASE m # 0
    <3>1. m - 1 \in 0 .. Len(names) /\ ~(m <= m - 1)
      BY <2>2, <2>4
    <3>2. f[m - 1] = g[m - 1]
      BY <2>1, <3>1
    <3>3. /\ f[m] = IF f[m - 1][m] = name THEN MoveForward(f[m - 1], m) ELSE f[m - 1]
          /\ g[m] = IF g[m - 1][m] = name THEN MoveForward(g[m - 1], m) ELSE g[m - 1]
      BY <2>2, <2>4 DEF Passes
    <3> QED
      BY <2>2, <3>2, <3>3
  <2> QED
    BY <2>3, <2>4
<1>2. \A i \in 0 .. Len(names) : f[i] = g[i]
  BY <1>1
<1>3. f = [i \in 0 .. Len(names) |-> f[i]] /\ g = [i \in 0 .. Len(names) |-> g[i]]
  BY DEF Passes
<1> QED
  BY <1>2, <1>3

(* The name is found once, where it is, or never: what is moved forward     *)
(* differs from it, and the last place keeps a name that differs from it    *)
(* or is the place itself.                                                  *)
LEMMA FoundOnce ==
  ASSUME NEW S, NEW names \in Seq(S), IsInjective(names), NEW name,
         NEW p \in 1 .. Len(names) + 1,
         p <= Len(names) => names[p] = name,
         p > Len(names) => \A i \in 1 .. Len(names) : names[i] # name
  PROVE  Passes(OnceAt(p, names), names, name)
<1> DEFINE n == Len(names)
           at == OnceAt(p, names)
<1>1. n \in Nat /\ DOMAIN names = 1 .. n /\ \A i \in 1 .. n : names[i] \in S
  BY LenProperties, ElementOfSeq
<1>2. \A i \in 1 .. n : names[i] = name => i = p
  BY <1>1 DEF IsInjective
<1>3. ASSUME NEW i \in 1 .. n
      PROVE  at[i] = IF at[i - 1][i] = name THEN MoveForward(at[i - 1], i) ELSE at[i - 1]
  <2>1. i - 1 \in 0 .. n /\ i \in 0 .. n
    BY <1>1
  <2>2. CASE i < p
    <3>1. at[i] = names /\ at[i - 1] = names /\ names[i] # name
      BY <1>1, <1>2, <2>1, <2>2 DEF OnceAt
    <3> QED
      BY <3>1
  <2>3. CASE i = p
    <3>1. at[i] = MoveForward(names, p) /\ at[i - 1] = names /\ names[i] = name
      BY <1>1, <2>1, <2>3 DEF OnceAt
    <3> QED
      BY <2>3, <3>1
  <2>4. CASE i > p
    <3>1. at[i] = MoveForward(names, p) /\ at[i - 1] = MoveForward(names, p)
      BY <1>1, <2>1, <2>4 DEF OnceAt
    <3>2. MoveForward(names, p)[i] = IF i < n THEN names[i + 1] ELSE names[i]
      BY <1>1, <2>4 DEF MoveForward
    <3>3. MoveForward(names, p)[i] # name
      BY <1>1, <1>2, <2>4, <3>2
    <3> QED
      BY <3>1, <3>3
  <2> QED
    BY <1>1, <2>2, <2>3, <2>4
<1>4. at[0] = names
  BY <1>1 DEF OnceAt
<1>5. at = [i \in 0 .. n |->
              IF i = 0 THEN names
              ELSE IF at[i - 1][i] = name THEN MoveForward(at[i - 1], i)
              ELSE at[i - 1]]
  <2>1. at = [i \in 0 .. n |-> at[i]]
    BY DEF OnceAt
  <2>2. \A i \in 0 .. n : i = 0 \/ i \in 1 .. n
    BY <1>1
  <2> HIDE DEF at
  <2> QED
    BY <1>3, <1>4, <2>1, <2>2
<1> QED
  BY <1>5 DEF Passes

(* pullNameSet takes a name out of any array that holds no name twice. *)
LEMMA LoopsPull ==
  ASSUME NEW S, NEW names \in Seq(S), IsInjective(names), NEW name
  PROVE  PullNameSetLoop(names, name) = PullNameSet(names, name)
<1> DEFINE n == Len(names)
           Found(at) == Passes(at, names, name)
<1>0. n \in Nat /\ DOMAIN names = 1 .. n /\ \A i \in 1 .. n : names[i] \in S
  BY LenProperties, ElementOfSeq
<1>1. CASE names = <<>>
  BY <1>1 DEF PullNameSetLoop, PullNameSet
<1>2. CASE names # <<>>
  <2>1. n > 0 /\ n \in 0 .. n
    BY <1>0, <1>2, EmptySeq
  <2>2. PICK p \in 1 .. n + 1 :
          /\ p <= n => names[p] = name
          /\ p > n => \A i \in 1 .. n : names[i] # name
    <3>1. CASE \E i \in 1 .. n : names[i] = name
      BY <1>0, <3>1
    <3>2. CASE \A i \in 1 .. n : names[i] # name
      <4>1. n + 1 \in 1 .. n + 1 /\ ~(n + 1 <= n)
        BY <1>0
      <4> QED
        BY <3>2, <4>1
    <3> QED
      BY <3>1, <3>2
  <2>3. Found(OnceAt(p, names))
    BY <2>2, FoundOnce
  <2>4. PullNameSetLoop(names, name) = Front((CHOOSE at : Found(at))[n])
    BY <1>2 DEF PullNameSetLoop, Passes
  <2>5. Found(CHOOSE at : Found(at))
    <3> HIDE DEF Found
    <3> QED
      BY <2>3, Zenon
  <2>6. (CHOOSE at : Found(at)) = OnceAt(p, names)
    BY <1>0, <2>3, <2>5, PassesDetermined
  <2>7. OnceAt(p, names)[n] = IF n < p THEN names ELSE MoveForward(names, p)
    BY <2>1 DEF OnceAt
  <2> DEFINE q == PullPosition(names, name)
             last == OnceAt(p, names)[n]
  <2>8. q \in 1 .. n /\ (p <= n => q = p) /\ (p > n => q = n)
    <3>1. CASE p <= n
      <4>1. name \in ToSet(names)
        BY <1>0, <2>2, <3>1 DEF ToSet
      <4>2. \A i \in DOMAIN names : names[i] = name => i = p
        BY <1>0, <2>2, <3>1 DEF IsInjective
      <4>3. p \in DOMAIN names /\ names[p] = name
        BY <1>0, <2>2, <3>1
      <4>4. (CHOOSE i \in DOMAIN names : names[i] = name) = p
        BY <4>2, <4>3
      <4>5. q = p
        BY <4>1, <4>4, Zenon DEF PullPosition
      <4>6. p \in 1 .. n /\ ~(p > n)
        BY <1>0, <3>1
      <4> HIDE DEF q, n
      <4> QED
        BY <4>5, <4>6
    <3>2. CASE p > n
      <4>1. name \notin ToSet(names)
        BY <1>0, <2>2, <3>2 DEF ToSet
      <4>2. q = n
        BY <4>1, Zenon DEF PullPosition
      <4>3. n \in 1 .. n /\ ~(p <= n)
        BY <1>0, <2>1, <3>2
      <4> HIDE DEF q, n
      <4> QED
        BY <4>2, <4>3
    <3> HIDE DEF q
    <3> QED
      BY <1>0, <3>1, <3>2
  <2>9. PullNameSet(names, name) = RemoveAt(names, q)
    BY <1>2 DEF PullNameSet
  <2>10. last = [j \in 1 .. n |-> IF q <= j /\ j < n THEN names[j + 1] ELSE names[j]]
    <3>0. names = [j \in 1 .. n |-> names[j]]
      BY <1>0, SeqDef
    <3>1. CASE n < p
      <4>1. q = n
        BY <1>0, <2>8, <3>1
      <4>2. \A j \in 1 .. n : ~(q <= j /\ j < n)
        BY <1>0, <4>1
      <4> HIDE DEF q, last
      <4>3. last = names
        BY <2>7, <3>1 DEF last
      <4> QED
        BY <3>0, <4>2, <4>3
    <3>2. CASE ~(n < p)
      <4>1. q = p
        BY <1>0, <2>8, <3>2
      <4>2. last = MoveForward(names, q)
        BY <2>7, <3>2, <4>1
      <4> QED
        BY <1>0, <4>2 DEF MoveForward
    <3> QED
      BY <3>1, <3>2
  <2> HIDE DEF q, last
  <2>15. q \in 1 .. n
    BY <2>8
  <2>11. /\ RemoveAt(names, q) \in Seq(S)
         /\ Len(RemoveAt(names, q)) = n - 1
         /\ \A i \in 1 .. n - 1 : RemoveAt(names, q)[i] = IF i < q THEN names[i] ELSE names[i + 1]
    BY <2>15, RemoveAtProperties
  <2>12. /\ Front(last) \in Seq(S)
         /\ Len(Front(last)) = n - 1
         /\ \A i \in 1 .. n - 1 : Front(last)[i] = last[i]
    <3>1. last \in Seq(S) /\ Len(last) = n
      <4>1. \A j \in 1 .. n : (IF q <= j /\ j < n THEN names[j + 1] ELSE names[j]) \in S
        BY <1>0
      <4> QED
        BY <1>0, <2>10, <4>1, IsASeq, LenProperties
    <3>2. /\ SubSeq(last, 1, n - 1) \in Seq(S)
          /\ Len(SubSeq(last, 1, n - 1)) = n - 1
          /\ \A i \in 1 .. n - 1 : SubSeq(last, 1, n - 1)[i] = last[i]
      <4>1. \A i \in 1 .. n - 1 : last[i] \in S
        BY <3>1, <1>0, LenProperties, ElementOfSeq
      <4> QED
        BY <1>0, <2>1, <3>1, <4>1, SubSeqProperties
    <3> QED
      BY <3>1, <3>2 DEF Front
  <2>13. \A i \in 1 .. n - 1 : Front(last)[i] = RemoveAt(names, q)[i]
    <3>1. \A i \in 1 .. n - 1 : last[i] = IF i < q THEN names[i] ELSE names[i + 1]
      BY <1>0, <2>10, <2>15
    <3> QED
      BY <2>11, <2>12, <3>1
  <2>14. Front(last) = RemoveAt(names, q)
    BY <2>11, <2>12, <2>13, SeqEqual
  <2> QED
    BY <2>4, <2>6, <2>9, <2>14 DEF last
<1> QED
  BY <1>1, <1>2
-----------------------------------------------------------------------------
(* The list that parseFile builds, and the loops over it.                  *)

\* The list of the first n lines: each node points to the next one.
ListOf(lines, n) ==
  [head  |-> IF n = 0 THEN 0 ELSE 1,
   tail  |-> n,
   count |-> n,
   next  |-> [j \in 1 .. n |-> IF j = n THEN 0 ELSE j + 1],
   line  |-> [j \in 1 .. n |-> lines[j]]]

\* The loop of parseFile: the list after each line.
Parses(at, lines) ==
  at = [i \in 0 .. Len(lines) |->
          IF i = 0 THEN Logs!EmptyList ELSE Logs!InsertLogInfo(at[i - 1], lines[i])]

(* The parse leaves nothing open. *)
LEMMA ParsesDetermined ==
  ASSUME NEW lines, Len(lines) \in Nat, NEW f, NEW g, Parses(f, lines), Parses(g, lines)
  PROVE  f = g
<1> DEFINE T == {i \in 0 .. Len(lines) : f[i] # g[i]}
<1>1. ASSUME T # {} PROVE FALSE
  <2>1. PICK m \in T : \A k \in T : m <= k
    <3>1. T \in SUBSET Nat
      OBVIOUS
    <3> QED
      BY <1>1, <3>1, Least
  <2>2. m \in 0 .. Len(lines) /\ f[m] # g[m]
    BY <2>1
  <2>3. CASE m = 0
    <3>1. f[m] = Logs!EmptyList /\ g[m] = Logs!EmptyList
      BY <2>2, <2>3 DEF Parses
    <3> QED
      BY <2>2, <3>1
  <2>4. CASE m # 0
    <3>1. m - 1 \in 0 .. Len(lines) /\ ~(m <= m - 1)
      BY <2>2, <2>4
    <3>2. f[m - 1] = g[m - 1]
      BY <2>1, <3>1
    <3>3. /\ f[m] = Logs!InsertLogInfo(f[m - 1], lines[m])
          /\ g[m] = Logs!InsertLogInfo(g[m - 1], lines[m])
      BY <2>2, <2>4 DEF Parses
    <3> QED
      BY <2>2, <3>2, <3>3
  <2> QED
    BY <2>3, <2>4
<1>2. \A i \in 0 .. Len(lines) : f[i] = g[i]
  BY <1>1
<1>3. f = [i \in 0 .. Len(lines) |-> f[i]] /\ g = [i \in 0 .. Len(lines) |-> g[i]]
  BY DEF Parses
<1> QED
  BY <1>2, <1>3

(* insertLogInfo adds the next line to the list of those before it. *)
LEMMA InsertNext ==
  ASSUME NEW lines, NEW n \in Nat, n > 0
  PROVE  Logs!InsertLogInfo(ListOf(lines, n - 1), lines[n]) = ListOf(lines, n)
<1> DEFINE next == [j \in 1 .. n - 1 |-> IF j = n - 1 THEN 0 ELSE j + 1]
           line == [j \in 1 .. n - 1 |-> lines[j]]
           list == ListOf(lines, n - 1)
<1>1. /\ next \in Seq(Nat) /\ Len(next) = n - 1
      /\ line \in Seq({lines[j] : j \in 1 .. n - 1}) /\ Len(line) = n - 1
  <2>1. \A j \in 1 .. n - 1 : (IF j = n - 1 THEN 0 ELSE j + 1) \in Nat
    OBVIOUS
  <2>2. n - 1 \in Nat /\ DOMAIN next = 1 .. n - 1 /\ DOMAIN line = 1 .. n - 1
    OBVIOUS
  <2>3. next \in Seq(Nat)
    BY <2>1, <2>2, IsASeq
  <2>4. line \in Seq({lines[j] : j \in 1 .. n - 1})
    BY <2>2, IsASeq
  <2> HIDE DEF next, line
  <2> QED
    BY <2>2, <2>3, <2>4, LenProperties
<1>2. Append(next, 0) = [j \in 1 .. n |-> IF j >= n - 1 THEN 0 ELSE j + 1]
  <2>1. Append(next, 0) = [j \in 1 .. n |-> IF j = n THEN 0 ELSE next[j]]
    <3> HIDE DEF next
    <3> QED
      BY <1>1, AppendIs
  <2> QED
    BY <2>1
<1>3. Append(line, lines[n]) = [j \in 1 .. n |-> lines[j]]
  <2>1. Append(line, lines[n]) = [j \in 1 .. n |-> IF j = n THEN lines[n] ELSE line[j]]
    <3> HIDE DEF line
    <3> QED
      BY <1>1, AppendIs
  <2> QED
    BY <2>1
<1>4. /\ list.next = next /\ list.line = line /\ list.count = n - 1 /\ list.tail = n - 1
      /\ list.head = IF n - 1 = 0 THEN 0 ELSE 1
  BY DEF ListOf
<1> HIDE DEF next, line, list
<1>5. Logs!InsertLogInfo(list, lines[n]) =
        [head  |-> IF n - 1 = 0 THEN n ELSE IF n - 1 = 0 THEN 0 ELSE 1,
         tail  |-> n,
         count |-> n,
         next  |-> IF n - 1 = 0 THEN Append(next, 0)
                                ELSE [Append(next, 0) EXCEPT ![n - 1] = n],
         line  |-> Append(line, lines[n])]
  <2>1. Len(list.next) + 1 = n
    BY <1>1, <1>4
  <2>2. Logs!InsertLogInfo(list, lines[n]) =
          [head  |-> IF list.count = 0 THEN n ELSE list.head,
           tail  |-> n,
           count |-> list.count + 1,
           next  |-> IF list.count = 0 THEN Append(list.next, 0)
                                       ELSE [Append(list.next, 0) EXCEPT ![list.tail] = n],
           line  |-> Append(list.line, lines[n])]
    BY <2>1, Zenon DEF Logs!InsertLogInfo
  <2>3. (n - 1) + 1 = n
    OBVIOUS
  <2> QED
    BY <1>4, <2>2, <2>3, Zenon
<1>6. (IF n - 1 = 0 THEN Append(next, 0) ELSE [Append(next, 0) EXCEPT ![n - 1] = n])
        = [j \in 1 .. n |-> IF j = n THEN 0 ELSE j + 1]
  <2> DEFINE before == [j \in 1 .. n |-> IF j >= n - 1 THEN 0 ELSE j + 1]
  <2>1. CASE n = 1
    <3>1. before = [j \in 1 .. n |-> IF j = n THEN 0 ELSE j + 1]
      BY <2>1
    <3> QED
      BY <1>2, <2>1, <3>1
  <2>2. CASE n # 1
    <3>1. [before EXCEPT ![n - 1] = n] = [j \in 1 .. n |-> IF j = n THEN 0 ELSE j + 1]
      <4>1. \A j \in 1 .. n :
              [before EXCEPT ![n - 1] = n][j] = IF j = n THEN 0 ELSE j + 1
        <5> SUFFICES ASSUME NEW j \in 1 .. n
                     PROVE  [before EXCEPT ![n - 1] = n][j] = IF j = n THEN 0 ELSE j + 1
          OBVIOUS
        <5>1. j = n - 1 \/ j = n \/ ~(j >= n - 1)
          OBVIOUS
        <5> QED
          BY <5>1
      <4>2. [before EXCEPT ![n - 1] = n] =
              [j \in 1 .. n |-> [before EXCEPT ![n - 1] = n][j]]
        OBVIOUS
      <4> HIDE DEF before
      <4> QED
        BY <4>1, <4>2
    <3> QED
      BY <1>2, <2>2, <3>1
  <2> QED
    BY <2>1, <2>2
<1>7. (IF n - 1 = 0 THEN n ELSE IF n - 1 = 0 THEN 0 ELSE 1) = (IF n = 0 THEN 0 ELSE 1)
  OBVIOUS
<1> QED
  BY <1>3, <1>5, <1>6, <1>7 DEF ListOf, list

(* The list that is parsed has the lines of the file in their order. *)
LEMMA Parsed ==
  ASSUME NEW lines, Len(lines) \in Nat
  PROVE  Logs!ParseFile(lines) = ListOf(lines, Len(lines))
<1> DEFINE n == Len(lines)
           all == [i \in 0 .. n |-> ListOf(lines, i)]
           Found(at) == Parses(at, lines)
<1>1. ListOf(lines, 0) = Logs!EmptyList
  <2>1. [j \in 1 .. 0 |-> IF j = 0 THEN 0 ELSE j + 1] = <<>> /\ [j \in 1 .. 0 |-> lines[j]] = <<>>
    OBVIOUS
  <2> QED
    BY <2>1 DEF ListOf, Logs!EmptyList
<1>2. ASSUME NEW i \in 1 .. n
      PROVE  all[i] = Logs!InsertLogInfo(all[i - 1], lines[i])
  <2>1. all[i] = ListOf(lines, i) /\ all[i - 1] = ListOf(lines, i - 1)
    OBVIOUS
  <2>2. i \in Nat /\ i > 0
    OBVIOUS
  <2> HIDE DEF all
  <2> QED
    BY <2>1, <2>2, InsertNext
<1>3. Found(all)
  <2>1. all[0] = Logs!EmptyList
    BY <1>1
  <2>2. all = [i \in 0 .. n |-> all[i]]
    OBVIOUS
  <2>3. \A i \in 0 .. n : i = 0 \/ i \in 1 .. n
    OBVIOUS
  <2> HIDE DEF all
  <2> QED
    BY <1>2, <2>1, <2>2, <2>3 DEF Parses
<1>4. Logs!ParseFile(lines) = (CHOOSE at : Found(at))[n]
  BY DEF Logs!ParseFile, Parses
<1>5. Found(CHOOSE at : Found(at))
  <2> HIDE DEF Found, all
  <2> QED
    BY <1>3, Zenon
<1>6. (CHOOSE at : Found(at)) = all
  <2> HIDE DEF all
  <2> QED
    BY <1>3, <1>5, ParsesDetermined
<1>7. all[n] = ListOf(lines, n)
  OBVIOUS
<1> QED
  BY <1>4, <1>6, <1>7
-----------------------------------------------------------------------------
(* printEntireLogInfo prints the lines in their order. *)
LEMMA Printed ==
  ASSUME NEW lines, NEW n \in Nat
  PROVE  Logs!PrintEntireLogInfo(ListOf(lines, n)) = [i \in 1 .. n |-> lines[i]]
<1> DEFINE list == ListOf(lines, n)
           Goes(at) == at = [i \in 1 .. n |-> IF i = 1 THEN list.head ELSE list.next[at[i - 1]]]
           order == [i \in 1 .. n |-> i]
<1>1. /\ list.count = n
      /\ list.head = IF n = 0 THEN 0 ELSE 1
      /\ list.next = [j \in 1 .. n |-> IF j = n THEN 0 ELSE j + 1]
      /\ list.line = [j \in 1 .. n |-> lines[j]]
  BY DEF ListOf
<1> HIDE DEF list
<1>2. Goes(order)
  <2>1. ASSUME NEW i \in 1 .. n
        PROVE  i = IF i = 1 THEN list.head ELSE list.next[order[i - 1]]
    <3>1. CASE i = 1
      BY <1>1, <3>1
    <3>2. CASE i # 1
      <4>1. i - 1 \in 1 .. n /\ i - 1 # n /\ (i - 1) + 1 = i
        BY <3>2
      <4>2. order[i - 1] = i - 1
        BY <4>1
      <4>3. list.next[i - 1] = i
        BY <1>1, <4>1
      <4> QED
        BY <3>2, <4>2, <4>3
    <3> QED
      BY <3>1, <3>2
  <2> QED
    BY <2>1
<1>3. ASSUME NEW at, Goes(at)
      PROVE  at = order
  <2> DEFINE T == {i \in 1 .. n : at[i] # i}
  <2>1. ASSUME T # {} PROVE FALSE
    <3>1. PICK m \in T : \A k \in T : m <= k
      <4>1. T \in SUBSET Nat
        OBVIOUS
      <4> QED
        BY <2>1, <4>1, Least
    <3>2. m \in 1 .. n /\ at[m] # m
      BY <3>1
    <3>3. at[m] = IF m = 1 THEN list.head ELSE list.next[at[m - 1]]
      BY <1>3, <3>2
    <3>4. CASE m = 1
      BY <1>1, <3>2, <3>3, <3>4
    <3>5. CASE m # 1
      <4>1. m - 1 \in 1 .. n /\ ~(m <= m - 1) /\ m - 1 # n /\ (m - 1) + 1 = m
        BY <3>2, <3>5
      <4>2. at[m - 1] = m - 1
        BY <3>1, <4>1
      <4>3. list.next[m - 1] = m
        BY <1>1, <4>1
      <4> QED
        BY <3>2, <3>3, <3>5, <4>2, <4>3
    <3> QED
      BY <3>4, <3>5
  <2>2. \A i \in 1 .. n : at[i] = i
    BY <2>1
  <2>3. at = [i \in 1 .. n |-> at[i]]
    BY <1>3
  <2> QED
    BY <2>2, <2>3
<1>4. Logs!PrintEntireLogInfo(list) =
        [i \in 1 .. n |-> list.line[(CHOOSE at : Goes(at))[i]]]
  BY <1>1 DEF Logs!PrintEntireLogInfo
<1>5. Goes(CHOOSE at : Goes(at))
  <2> HIDE DEF Goes, order
  <2> QED
    BY <1>2, Zenon
<1>6. (CHOOSE at : Goes(at)) = order
  <2> HIDE DEF Goes, order
  <2> QED
    BY <1>3, <1>5
<1> HIDE DEF Goes, order
<1>7. Logs!PrintEntireLogInfo(list) = [i \in 1 .. n |-> list.line[order[i]]]
  BY <1>4, <1>6
<1> QED
  BY <1>1, <1>7 DEF list, order

-----------------------------------------------------------------------------
(* What the filter shows.                                                  *)

\* The loop of filterLogByTime: what is shown after each step.
Shows(at, lines, start, end, n) ==
  at = [i \in 0 .. n |->
          IF i = 0 THEN <<>>
          ELSE IF Logs!Within(start, end, lines[i]) THEN Append(at[i - 1], lines[i])
          ELSE at[i - 1]]

(* The loop can be taken to any line. *)
LEMMA ShowsExist ==
  ASSUME NEW lines, NEW start, NEW end, NEW n \in Nat
  PROVE  \E at : Shows(at, lines, start, end, n)
<1> DEFINE Good(m) == \E at : Shows(at, lines, start, end, m)
           T == {m \in Nat : ~Good(m)}
<1>1. ASSUME T # {} PROVE FALSE
  <2>1. PICK m \in T : \A k \in T : m <= k
    <3>1. T \in SUBSET Nat
      OBVIOUS
    <3> HIDE DEF T
    <3> QED
      BY <1>1, <3>1, Least
  <2>2. m \in Nat /\ ~Good(m)
    BY <2>1
  <2>3. CASE m = 0
    <3> DEFINE at == [i \in 0 .. 0 |-> <<>>]
    <3>1. Shows(at, lines, start, end, 0)
      BY DEF Shows
    <3> QED
      BY <2>2, <2>3, <3>1
  <2>4. CASE m # 0
    <3>1. m - 1 \in Nat /\ ~(m <= m - 1)
      BY <2>2, <2>4
    <3>2. Good(m - 1)
      <4> HIDE DEF Good
      <4> QED
        BY <2>1, <3>1
    <3>3. PICK f : Shows(f, lines, start, end, m - 1)
      BY <3>2
    <3> DEFINE last == IF Logs!Within(start, end, lines[m]) THEN Append(f[m - 1], lines[m])
                                                            ELSE f[m - 1]
               g == [i \in 0 .. m |-> IF i = m THEN last ELSE f[i]]
    <3>4. ASSUME NEW i \in 0 .. m
          PROVE  g[i] = IF i = 0 THEN <<>>
                        ELSE IF Logs!Within(start, end, lines[i])
                             THEN Append(g[i - 1], lines[i]) ELSE g[i - 1]
      <4>1. CASE i = m
        <5>1. g[i] = last /\ g[i - 1] = f[m - 1] /\ i # 0
          BY <2>2, <2>4, <3>1, <4>1
        <5> HIDE DEF g
        <5> QED
          BY <4>1, <5>1
      <4>2. CASE i # m
        <5>1. i \in 0 .. m - 1 /\ (i # 0 => i - 1 \in 0 .. m - 1 /\ i - 1 \in 0 .. m /\ i - 1 # m)
          BY <2>2, <4>2
        <5>2. g[i] = f[i] /\ (i # 0 => g[i - 1] = f[i - 1])
          BY <4>2, <5>1
        <5>3. f[i] = IF i = 0 THEN <<>>
                     ELSE IF Logs!Within(start, end, lines[i])
                          THEN Append(f[i - 1], lines[i]) ELSE f[i - 1]
          BY <3>3, <5>1 DEF Shows
        <5> HIDE DEF g
        <5> QED
          BY <5>2, <5>3
      <4> QED
        BY <4>1, <4>2
    <3>5. g = [i \in 0 .. m |-> g[i]]
      OBVIOUS
    <3>6. Shows(g, lines, start, end, m)
      <4> HIDE DEF g
      <4> QED
        BY <3>4, <3>5 DEF Shows
    <3> QED
      BY <2>2, <3>6
  <2> QED
    BY <2>3, <2>4
<1> QED
  BY <1>1

\* The lines among the first n that are within the bounds.
Kept(lines, start, end, n) ==
  {lines[j] : j \in {k \in 1 .. n : Logs!Within(start, end, lines[k])}}

\* The elements of a sequence.
Elements(s) == {s[i] : i \in 1 .. Len(s)}

(* An append adds one element. *)
LEMMA ElementsAppend ==
  ASSUME NEW S, NEW s \in Seq(S), NEW x \in S
  PROVE  Append(s, x) \in Seq(S) /\ Elements(Append(s, x)) = Elements(s) \cup {x}
<1>1. /\ Append(s, x) \in Seq(S) /\ Len(Append(s, x)) = Len(s) + 1
      /\ \A i \in 1 .. Len(s) : Append(s, x)[i] = s[i]
      /\ Append(s, x)[Len(s) + 1] = x
  BY AppendProperties
<1>2. Len(s) \in Nat
  BY LenProperties
<1>3. ASSUME NEW y \in Elements(Append(s, x)) PROVE y \in Elements(s) \cup {x}
  <2>1. PICK i \in 1 .. Len(s) + 1 : y = Append(s, x)[i]
    BY <1>1 DEF Elements
  <2>2. i \in 1 .. Len(s) \/ i = Len(s) + 1
    BY <1>2
  <2> QED
    BY <1>1, <2>1, <2>2 DEF Elements
<1>4. ASSUME NEW y \in Elements(s) \cup {x} PROVE y \in Elements(Append(s, x))
  <2>1. CASE y \in Elements(s)
    <3>1. PICK i \in 1 .. Len(s) : y = s[i]
      BY <2>1 DEF Elements
    <3>2. i \in 1 .. Len(s) + 1
      BY <1>2
    <3> QED
      BY <1>1, <3>1, <3>2 DEF Elements
  <2>2. CASE y = x
    <3>1. Len(s) + 1 \in 1 .. Len(s) + 1
      BY <1>2
    <3> QED
      BY <1>1, <2>2, <3>1 DEF Elements
  <2> QED
    BY <2>1, <2>2
<1> QED
  BY <1>1, <1>3, <1>4

(* What the loop has shown are the lines within the bounds. *)
LEMMA ShownAreKept ==
  ASSUME NEW S, NEW n \in Nat, NEW lines, \A i \in 1 .. n : lines[i] \in S,
         NEW start, NEW end, NEW at, Shows(at, lines, start, end, n)
  PROVE  at[n] \in Seq(S) /\ Elements(at[n]) = Kept(lines, start, end, n)
<1> DEFINE Good(i) == at[i] \in Seq(S) /\ Elements(at[i]) = Kept(lines, start, end, i)
           T == {i \in 0 .. n : ~Good(i)}
<1>1. ASSUME T # {} PROVE FALSE
  <2>1. PICK m \in T : \A k \in T : m <= k
    <3>1. T \in SUBSET Nat
      OBVIOUS
    <3> HIDE DEF T
    <3> QED
      BY <1>1, <3>1, Least
  <2>2. m \in 0 .. n /\ ~Good(m)
    BY <2>1
  <2>3. CASE m = 0
    <3>1. at[0] = <<>>
      BY <2>2, <2>3 DEF Shows
    <3>2. <<>> \in Seq(S) /\ Len(<<>>) = 0
      BY EmptySeq
    <3>3. Elements(<<>>) = {}
      BY <3>2 DEF Elements
    <3>4. Kept(lines, start, end, 0) = {}
      BY DEF Kept
    <3> QED
      BY <2>2, <2>3, <3>1, <3>2, <3>3, <3>4
  <2>4. CASE m # 0
    <3>1. m - 1 \in 0 .. n /\ ~(m <= m - 1) /\ m \in 1 .. n
      BY <2>2, <2>4
    <3>2. Good(m - 1)
      <4> HIDE DEF Good
      <4> QED
        BY <2>1, <3>1
    <3>3. at[m] = IF Logs!Within(start, end, lines[m]) THEN Append(at[m - 1], lines[m])
                                                       ELSE at[m - 1]
      BY <2>2, <2>4 DEF Shows
    <3>4. \A k : k \in 1 .. m <=> k \in 1 .. m - 1 \/ k = m
      BY <3>1
    <3>5. Kept(lines, start, end, m) =
            IF Logs!Within(start, end, lines[m])
            THEN Kept(lines, start, end, m - 1) \cup {lines[m]}
            ELSE Kept(lines, start, end, m - 1)
      BY <3>4 DEF Kept
    <3>6. /\ Append(at[m - 1], lines[m]) \in Seq(S)
          /\ Elements(Append(at[m - 1], lines[m])) = Elements(at[m - 1]) \cup {lines[m]}
      BY <3>1, <3>2, ElementsAppend
    <3> QED
      BY <2>2, <3>2, <3>3, <3>5, <3>6
  <2> QED
    BY <2>3, <2>4
<1>2. n \in 0 .. n
  OBVIOUS
<1> HIDE DEF Good
<1>3. Good(n)
  BY <1>1, <1>2
<1> QED
  BY <1>3 DEF Good

(* Of a list of n lines the filter shows those within the bounds. *)
LEMMA FilterKeeps ==
  ASSUME NEW S, NEW n \in Nat, NEW lines, \A i \in 1 .. n : lines[i] \in S,
         NEW start, NEW end
  PROVE  Logs!ToSet(Logs!FilterLogByTime(ListOf(lines, n), start, end)) =
           Kept(lines, start, end, n)
<1> DEFINE printed == [i \in 1 .. n |-> lines[i]]
           Found(at) == Shows(at, printed, start, end, n)
           shown == CHOOSE at : Found(at)
<1>1. printed \in Seq(S) /\ Len(printed) = n /\ \A i \in 1 .. n : printed[i] \in S
  <2>1. \A i \in 1 .. n : printed[i] \in S
    OBVIOUS
  <2>2. DOMAIN printed = 1 .. n /\ printed = [i \in 1 .. n |-> printed[i]]
    OBVIOUS
  <2> HIDE DEF printed
  <2>3. printed \in Seq(S)
    BY <2>1, <2>2, IsASeq
  <2> QED
    BY <2>1, <2>2, <2>3, LenProperties
<1>2. Logs!PrintEntireLogInfo(ListOf(lines, n)) = printed
  BY Printed
<1> HIDE DEF printed
<1>3. Logs!FilterLogByTime(ListOf(lines, n), start, end) = shown[n]
  BY <1>1, <1>2 DEF Logs!FilterLogByTime, Shows
<1>4. Found(shown)
  <2>1. \E at : Found(at)
    BY ShowsExist
  <2> HIDE DEF Found
  <2> QED
    BY <2>1, Zenon
<1> HIDE DEF shown
<1>5. shown[n] \in Seq(S) /\ Elements(shown[n]) = Kept(printed, start, end, n)
  BY <1>1, <1>4, ShownAreKept
<1>6. Kept(printed, start, end, n) = Kept(lines, start, end, n)
  BY DEF Kept, printed
<1>7. Logs!ToSet(shown[n]) = Elements(shown[n])
  BY <1>5, LenProperties DEF Logs!ToSet, Elements
<1> QED
  BY <1>3, <1>5, <1>6, <1>7
-----------------------------------------------------------------------------
(* Time stamps.                                                            *)

\* <<month, day, year, hour of twelve, minute, half of the day>>
Stamps == (1 .. 12) \X (1 .. 31) \X (0 .. 99) \X (1 .. 12) \X (0 .. 59) \X (0 .. 1)
Dates == (1 .. 12) \X (1 .. 31) \X (0 .. 99)

(* getTimeStamp makes a stamp. *)
LEMMA StampOfInstant ==
  ASSUME NEW t \in Instant
  PROVE  Logs!GetTimeStamp(t) \in Stamps
<1>1. t \in (0 .. 99) \X (1 .. 12) \X (1 .. 31) \X (0 .. 23) \X (0 .. 59)
  BY InstantAssumption
<1>2. PICK year \in 0 .. 99, month \in 1 .. 12, day \in 1 .. 31, hour \in 0 .. 23,
           minute \in 0 .. 59 : t = <<year, month, day, hour, minute>>
  <2>1. /\ t = <<t[1], t[2], t[3], t[4], t[5]>>
        /\ t[1] \in 0 .. 99 /\ t[2] \in 1 .. 12 /\ t[3] \in 1 .. 31
        /\ t[4] \in 0 .. 23 /\ t[5] \in 0 .. 59
    BY <1>1
  <2> QED
    BY <2>1, Zenon
<1>3. Logs!GetTimeStamp(t) = <<month, day, year, IF hour % 12 = 0 THEN 12 ELSE hour % 12,
                              minute, hour \div 12>>
  BY <1>2 DEF Logs!GetTimeStamp
<1>4. (IF hour % 12 = 0 THEN 12 ELSE hour % 12) \in 1 .. 12 /\ hour \div 12 \in 0 .. 1
  OBVIOUS
<1> QED
  BY <1>3, <1>4 DEF Stamps

(* A stamp is its six fields, a date its three. *)
LEMMA Fields ==
  /\ \A s \in Stamps :
       /\ s = <<s[1], s[2], s[3], s[4], s[5], s[6]>> /\ Len(s) = 6
       /\ s[1] \in 1 .. 12 /\ s[2] \in 1 .. 31 /\ s[3] \in 0 .. 99
       /\ s[4] \in 1 .. 12 /\ s[5] \in 0 .. 59 /\ s[6] \in 0 .. 1
  /\ \A s \in Dates :
       /\ s = <<s[1], s[2], s[3]>> /\ Len(s) = 3
       /\ s[1] \in 1 .. 12 /\ s[2] \in 1 .. 31 /\ s[3] \in 0 .. 99
<1>1. ASSUME NEW s \in Stamps
      PROVE  /\ s = <<s[1], s[2], s[3], s[4], s[5], s[6]>> /\ Len(s) = 6
             /\ s[1] \in 1 .. 12 /\ s[2] \in 1 .. 31 /\ s[3] \in 0 .. 99
             /\ s[4] \in 1 .. 12 /\ s[5] \in 0 .. 59 /\ s[6] \in 0 .. 1
  BY DEF Stamps
<1>2. ASSUME NEW s \in Dates
      PROVE  /\ s = <<s[1], s[2], s[3]>> /\ Len(s) = 3
             /\ s[1] \in 1 .. 12 /\ s[2] \in 1 .. 31 /\ s[3] \in 0 .. 99
  BY DEF Dates
<1> QED
  BY <1>1, <1>2

(* The date of a stamp is its first three fields. *)
LEMMA DateOf ==
  ASSUME NEW s \in Stamps
  PROVE  Logs!Date(s) = <<s[1], s[2], s[3]>>
<1>1. s[1] \in Int /\ s[2] \in Int /\ s[3] \in Int
  BY Fields
<1>2. \A i \in 1 .. 3 : s[i] \in Int
  <2>1. \A i \in 1 .. 3 : i = 1 \/ i = 2 \/ i = 3
    OBVIOUS
  <2> QED
    BY <1>1, <2>1
<1>3. /\ SubSeq(s, 1, 3) \in Seq(Int) /\ Len(SubSeq(s, 1, 3)) = 3
      /\ \A i \in 1 .. 3 : SubSeq(s, 1, 3)[i] = s[i]
  BY <1>2, SubSeqProperties
<1> DEFINE x == <<s[1], s[2], s[3]>>
<1>4. x \in Seq(Int) /\ Len(x) = 3 /\ x[1] = s[1] /\ x[2] = s[2] /\ x[3] = s[3]
  BY <1>1
<1>5. \A i \in 1 .. 3 : i = 1 \/ i = 2 \/ i = 3
  OBVIOUS
<1> HIDE DEF x
<1>6. \A i \in 1 .. 3 : SubSeq(s, 1, 3)[i] = x[i]
  BY <1>3, <1>4, <1>5
<1>7. SubSeq(s, 1, 3) = x
  BY <1>3, <1>4, <1>6, SeqEqual
<1> QED
  BY <1>7 DEF Logs!Date, x

(* What the user types is a date or a stamp. *)
LEMMA BoundsAre == Logs!Bounds \subseteq Stamps \cup Dates
<1>1. ASSUME NEW s \in Stamps PROVE Logs!Date(s) \in Dates
  <2>1. s[1] \in 1 .. 12 /\ s[2] \in 1 .. 31 /\ s[3] \in 0 .. 99
    BY Fields
  <2> QED
    BY <2>1, DateOf DEF Dates
<1> QED
  BY <1>1, StampOfInstant DEF Logs!Bounds

(* The order of two tuples that share three fields. *)
LEMMA BeforeByThree ==
  ASSUME NEW s, NEW t, DOMAIN s \cap DOMAIN t = 1 .. 3
  PROVE  Logs!Before(s, t) <=>
           \/ s[1] < t[1]
           \/ s[1] = t[1] /\ s[2] < t[2]
           \/ s[1] = t[1] /\ s[2] = t[2] /\ s[3] < t[3]
<1>1. Logs!Before(s, t) <=> \E i \in 1 .. 3 : s[i] < t[i] /\ \A j \in 1 .. i - 1 : s[j] = t[j]
  BY DEF Logs!Before
<1> QED
  BY <1>1

(* The order of two tuples that share five fields. *)
LEMMA BeforeByFive ==
  ASSUME NEW s, NEW t, DOMAIN s \cap DOMAIN t = 1 .. 5
  PROVE  Logs!Before(s, t) <=>
           \/ s[1] < t[1]
           \/ s[1] = t[1] /\ s[2] < t[2]
           \/ s[1] = t[1] /\ s[2] = t[2] /\ s[3] < t[3]
           \/ s[1] = t[1] /\ s[2] = t[2] /\ s[3] = t[3] /\ s[4] < t[4]
           \/ s[1] = t[1] /\ s[2] = t[2] /\ s[3] = t[3] /\ s[4] = t[4] /\ s[5] < t[5]
<1>1. Logs!Before(s, t) <=> \E i \in 1 .. 5 : s[i] < t[i] /\ \A j \in 1 .. i - 1 : s[j] = t[j]
  BY DEF Logs!Before
<1> QED
  BY <1>1

(* The order of two tuples that share six fields. *)
LEMMA BeforeBySix ==
  ASSUME NEW s, NEW t, DOMAIN s \cap DOMAIN t = 1 .. 6
  PROVE  Logs!Before(s, t) <=>
           \/ s[1] < t[1]
           \/ s[1] = t[1] /\ s[2] < t[2]
           \/ s[1] = t[1] /\ s[2] = t[2] /\ s[3] < t[3]
           \/ s[1] = t[1] /\ s[2] = t[2] /\ s[3] = t[3] /\ s[4] < t[4]
           \/ s[1] = t[1] /\ s[2] = t[2] /\ s[3] = t[3] /\ s[4] = t[4] /\ s[5] < t[5]
           \/ /\ s[1] = t[1] /\ s[2] = t[2] /\ s[3] = t[3] /\ s[4] = t[4] /\ s[5] = t[5]
              /\ s[6] < t[6]
<1>1. Logs!Before(s, t) <=> \E i \in 1 .. 6 : s[i] < t[i] /\ \A j \in 1 .. i - 1 : s[j] = t[j]
  BY DEF Logs!Before
<1> QED
  BY <1>1

(* The instant of a whole stamp. *)
LEMMA InstantOfStamp ==
  ASSUME NEW s \in Stamps
  PROVE  Logs!InstantOf(s) = <<s[3], s[1], s[2], (s[4] % 12) + 12 * s[6], s[5]>>
<1>0. /\ s[1] \in Int /\ s[2] \in Int /\ s[3] \in Int /\ s[4] \in Int /\ s[5] \in Int
      /\ s[6] \in Int
  BY Fields
<1>1. <<s[3], s[1], s[2]>> \o <<(s[4] % 12) + 12 * s[6], s[5]>>
        = <<s[3], s[1], s[2], (s[4] % 12) + 12 * s[6], s[5]>>
  <2> DEFINE x == <<s[3], s[1], s[2]>>
             y == <<(s[4] % 12) + 12 * s[6], s[5]>>
             z == <<s[3], s[1], s[2], (s[4] % 12) + 12 * s[6], s[5]>>
  <2>1. (s[4] % 12) + 12 * s[6] \in Int
    BY <1>0
  <2>2. /\ x \in Seq(Int) /\ Len(x) = 3 /\ y \in Seq(Int) /\ Len(y) = 2
        /\ z \in Seq(Int) /\ Len(z) = 5
    BY <1>0, <2>1
  <2>3. /\ z[1] = x[1] /\ z[2] = x[2] /\ z[3] = x[3] /\ z[4] = y[1] /\ z[5] = y[2]
    OBVIOUS
  <2> HIDE DEF x, y, z
  <2>4. /\ x \o y \in Seq(Int) /\ Len(x \o y) = Len(x) + Len(y)
        /\ \A i \in 1 .. Len(x) + Len(y) :
             (x \o y)[i] = IF i <= Len(x) THEN x[i] ELSE y[i - Len(x)]
    BY <2>2, ConcatProperties
  <2>5. \A i \in 1 .. 5 : (x \o y)[i] = z[i]
    <3>1. ASSUME NEW i \in 1 .. 5 PROVE (x \o y)[i] = z[i]
      <4>1. i \in 1 .. Len(x) + Len(y)
        BY <2>2
      <4>2. (x \o y)[i] = IF i <= 3 THEN x[i] ELSE y[i - 3]
        BY <2>2, <2>4, <4>1
      <4>3. i = 1 \/ i = 2 \/ i = 3 \/ i = 4 \/ i = 5
        OBVIOUS
      <4> QED
        BY <2>3, <4>2, <4>3
    <3> QED
      BY <3>1
  <2>6. x \o y = z
    <3>1. Len(x \o y) = 5
      BY <2>2, <2>4
    <3> QED
      BY <2>2, <2>4, <2>5, <3>1, SeqEqual
  <2> QED
    BY <2>6 DEF x, y, z
<1>2. Len(s) # 3
  BY Fields
<1> QED
  BY <1>1, <1>2 DEF Logs!InstantOf

(* A stamp and a bound that can be compared are in the order of their       *)
(* instants.                                                               *)
LEMMA TextIsTime ==
  ASSUME NEW s \in Stamps, NEW b \in Stamps \cup Dates, Logs!Comparable(b, s)
  PROVE  /\ Logs!Before(s, b) <=> Logs!Before(Logs!InstantOf(s), Logs!InstantOf(b))
         /\ Logs!Before(b, s) <=> Logs!Before(Logs!InstantOf(b), Logs!InstantOf(s))
<1>1. PICK month \in 1 .. 12, day \in 1 .. 31, year \in 0 .. 99, hour \in 1 .. 12,
           minute \in 0 .. 59, half \in 0 .. 1 :
        s = <<month, day, year, hour, minute, half>>
  <2>1. /\ s = <<s[1], s[2], s[3], s[4], s[5], s[6]>>
        /\ s[1] \in 1 .. 12 /\ s[2] \in 1 .. 31 /\ s[3] \in 0 .. 99
        /\ s[4] \in 1 .. 12 /\ s[5] \in 0 .. 59 /\ s[6] \in 0 .. 1
    BY Fields
  <2> QED
    BY <2>1, Zenon
<1>3. CASE b \in Stamps
  <2>1. PICK m \in 1 .. 12, d \in 1 .. 31, y \in 0 .. 99, h \in 1 .. 12,
             mn \in 0 .. 59, hf \in 0 .. 1 : b = <<m, d, y, h, mn, hf>>
    <3>1. /\ b = <<b[1], b[2], b[3], b[4], b[5], b[6]>>
          /\ b[1] \in 1 .. 12 /\ b[2] \in 1 .. 31 /\ b[3] \in 0 .. 99
          /\ b[4] \in 1 .. 12 /\ b[5] \in 0 .. 59 /\ b[6] \in 0 .. 1
      BY <1>3, Fields
    <3> QED
      BY <3>1, Zenon
  <2>2. /\ y = year
        /\ m = month /\ d = day => hf = half /\ (h = 12 <=> hour = 12)
    <3>1. Len(b) > 3 /\ b[3] = y /\ b[6] = hf /\ b[4] = h
          /\ s[3] = year /\ s[6] = half /\ s[4] = hour
      BY <1>1, <2>1
    <3>2. Logs!Date(b) = <<m, d, y>> /\ Logs!Date(s) = <<month, day, year>>
      <4>1. /\ b[1] = m /\ b[2] = d /\ b[3] = y
            /\ s[1] = month /\ s[2] = day /\ s[3] = year
        BY <1>1, <2>1
      <4> QED
        BY <1>3, <4>1, DateOf
    <3> QED
      BY <3>1, <3>2 DEF Logs!Comparable
  <2>3. /\ Logs!InstantOf(s) = <<year, month, day, (hour % 12) + 12 * half, minute>>
        /\ Logs!InstantOf(b) = <<y, m, d, (h % 12) + 12 * hf, mn>>
    <3>1. /\ b[1] = m /\ b[2] = d /\ b[3] = y /\ b[4] = h /\ b[5] = mn /\ b[6] = hf
          /\ s[1] = month /\ s[2] = day /\ s[3] = year /\ s[4] = hour /\ s[5] = minute
          /\ s[6] = half
      BY <1>1, <2>1
    <3> QED
      BY <1>3, <3>1, InstantOfStamp
  <2> DEFINE this == (hour % 12) + 12 * half
             that == (h % 12) + 12 * hf
  <2>4. /\ this \in Int /\ that \in Int
        /\ m = month /\ d = day => (hour < h <=> this < that) /\ (hour > h <=> this > that)
                                   /\ (hour = h <=> this = that)
    BY <2>2
  <2> HIDE DEF this, that
  <2>5. /\ Logs!Before(s, b) <=>
             \/ month < m
             \/ month = m /\ day < d
             \/ month = m /\ day = d /\ year < y
             \/ month = m /\ day = d /\ year = y /\ hour < h
             \/ month = m /\ day = d /\ year = y /\ hour = h /\ minute < mn
             \/ month = m /\ day = d /\ year = y /\ hour = h /\ minute = mn /\ half < hf
        /\ Logs!Before(b, s) <=>
             \/ m < month
             \/ m = month /\ d < day
             \/ m = month /\ d = day /\ y < year
             \/ m = month /\ d = day /\ y = year /\ h < hour
             \/ m = month /\ d = day /\ y = year /\ h = hour /\ mn < minute
             \/ m = month /\ d = day /\ y = year /\ h = hour /\ mn = minute /\ hf < half
    <3>1. DOMAIN s \cap DOMAIN b = 1 .. 6 /\ DOMAIN b \cap DOMAIN s = 1 .. 6
      BY <1>1, <2>1
    <3> QED
      BY <1>1, <2>1, <3>1, BeforeBySix
  <2>6. /\ Logs!Before(Logs!InstantOf(s), Logs!InstantOf(b)) <=>
             \/ year < y
             \/ year = y /\ month < m
             \/ year = y /\ month = m /\ day < d
             \/ year = y /\ month = m /\ day = d /\ this < that
             \/ year = y /\ month = m /\ day = d /\ this = that /\ minute < mn
        /\ Logs!Before(Logs!InstantOf(b), Logs!InstantOf(s)) <=>
             \/ y < year
             \/ y = year /\ m < month
             \/ y = year /\ m = month /\ d < day
             \/ y = year /\ m = month /\ d = day /\ that < this
             \/ y = year /\ m = month /\ d = day /\ that = this /\ mn < minute
    <3> DEFINE p == <<year, month, day, this, minute>>
               q == <<y, m, d, that, mn>>
    <3>1. DOMAIN p \cap DOMAIN q = 1 .. 5 /\ DOMAIN q \cap DOMAIN p = 1 .. 5
      OBVIOUS
    <3>2. Logs!InstantOf(s) = p /\ Logs!InstantOf(b) = q
      BY <2>3 DEF this, that
    <3>3. /\ p[1] = year /\ p[2] = month /\ p[3] = day /\ p[4] = this /\ p[5] = minute
          /\ q[1] = y /\ q[2] = m /\ q[3] = d /\ q[4] = that /\ q[5] = mn
      OBVIOUS
    <3> HIDE DEF p, q
    <3> QED
      BY <3>1, <3>2, <3>3, BeforeByFive
  <2> QED
    BY <2>2, <2>4, <2>5, <2>6
<1>4. CASE b \in Dates
  <2>1. PICK m \in 1 .. 12, d \in 1 .. 31, y \in 0 .. 99 : b = <<m, d, y>>
    <3>1. /\ b = <<b[1], b[2], b[3]>>
          /\ b[1] \in 1 .. 12 /\ b[2] \in 1 .. 31 /\ b[3] \in 0 .. 99
      BY <1>4, Fields
    <3> QED
      BY <3>1, Zenon
  <2>2. y = year
    <3>1. b[3] = y /\ s[3] = year
      BY <1>1, <2>1
    <3> QED
      BY <3>1 DEF Logs!Comparable
  <2>3. /\ Logs!InstantOf(s) = <<year, month, day, (hour % 12) + 12 * half, minute>>
        /\ Logs!InstantOf(b) = <<y, m, d>>
    <3>1. Logs!InstantOf(s) = <<year, month, day, (hour % 12) + 12 * half, minute>>
      <4>1. /\ s[1] = month /\ s[2] = day /\ s[3] = year /\ s[4] = hour /\ s[5] = minute
            /\ s[6] = half
        BY <1>1
      <4> QED
        BY <4>1, InstantOfStamp
    <3>2. Len(b) = 3 /\ <<b[3], b[1], b[2]>> = <<y, m, d>>
      BY <2>1
    <3> QED
      BY <3>1, <3>2 DEF Logs!InstantOf
  <2>4. /\ Logs!Before(s, b) <=>
             \/ month < m
             \/ month = m /\ day < d
             \/ month = m /\ day = d /\ year < y
        /\ Logs!Before(b, s) <=>
             \/ m < month
             \/ m = month /\ d < day
             \/ m = month /\ d = day /\ y < year
    <3>1. DOMAIN s \cap DOMAIN b = 1 .. 3 /\ DOMAIN b \cap DOMAIN s = 1 .. 3
      BY <1>1, <2>1
    <3> QED
      BY <1>1, <2>1, <3>1, BeforeByThree
  <2>5. /\ Logs!Before(Logs!InstantOf(s), Logs!InstantOf(b)) <=>
             \/ year < y
             \/ year = y /\ month < m
             \/ year = y /\ month = m /\ day < d
        /\ Logs!Before(Logs!InstantOf(b), Logs!InstantOf(s)) <=>
             \/ y < year
             \/ y = year /\ m < month
             \/ y = year /\ m = month /\ d < day
    <3> DEFINE p == <<year, month, day, (hour % 12) + 12 * half, minute>>
               q == <<y, m, d>>
    <3>1. DOMAIN p \cap DOMAIN q = 1 .. 3 /\ DOMAIN q \cap DOMAIN p = 1 .. 3
      OBVIOUS
    <3>2. Logs!InstantOf(s) = p /\ Logs!InstantOf(b) = q
      BY <2>3
    <3>3. /\ p[1] = year /\ p[2] = month /\ p[3] = day
          /\ q[1] = y /\ q[2] = m /\ q[3] = d
      OBVIOUS
    <3> HIDE DEF p, q
    <3> QED
      BY <3>1, <3>2, <3>3, BeforeByThree
  <2> QED
    BY <2>2, <2>4, <2>5
<1> QED
  BY <1>3, <1>4
-----------------------------------------------------------------------------
(* The invariant.                                                          *)

\* The lines that a writer can write.
LogLines == [stamp : Stamps, writer : Writer]

\* No name is reserved twice.
Reserved == nameSet \in Seq(Name) /\ IsInjective(nameSet)

\* Every line was stamped by getTimeStamp.
Stamped ==
  /\ clock \in Instant
  /\ stamp \in [Writer -> Stamps \cup {NoStamp}]
  /\ file \in Seq(LogLines)

\* The viewer has the lines that the file had when it was read.
ReadUpTo == logList # NoList => \E n \in 0 .. Len(file) : logList = ListOf(file, n)

AInv == Reserved /\ Stamped /\ ReadUpTo

(* pushNameSet and pullNameSet keep the names different. *)
LEMMA ReservedStep == Reserved /\ [Next]_nameSet => Reserved'
<1> SUFFICES ASSUME Reserved, [Next]_nameSet PROVE Reserved'
  OBVIOUS
<1>0. /\ Len(nameSet) \in Nat /\ DOMAIN nameSet = 1 .. Len(nameSet)
      /\ \A i \in 1 .. Len(nameSet) : nameSet[i] \in Name
  BY LenProperties, ElementOfSeq DEF Reserved
<1>1. ASSUME NEW name \in Name, Push(name) PROVE Reserved'
  <2>1. CASE name \in ToSet(nameSet)
    BY <1>1, <2>1 DEF Push, PushNameSet, Reserved
  <2>2. CASE name \notin ToSet(nameSet)
    <3>1. nameSet' = Append(nameSet, name)
      BY <1>1, <2>2 DEF Push, PushNameSet
    <3>2. /\ nameSet' \in Seq(Name) /\ Len(nameSet') = Len(nameSet) + 1
          /\ \A i \in 1 .. Len(nameSet) : nameSet'[i] = nameSet[i]
          /\ nameSet'[Len(nameSet) + 1] = name
      BY <3>1, AppendProperties DEF Reserved
    <3>3. DOMAIN nameSet' = 1 .. Len(nameSet) + 1
      BY <3>2, LenProperties
    <3>4. \A i \in 1 .. Len(nameSet) + 1 : i \in 1 .. Len(nameSet) \/ i = Len(nameSet) + 1
      BY <1>0
    <3>5. \A i \in 1 .. Len(nameSet) : nameSet[i] # name
      BY <1>0, <2>2 DEF ToSet
    <3> QED
      BY <1>0, <3>2, <3>3, <3>4, <3>5 DEF Reserved, IsInjective
  <2> QED
    BY <2>1, <2>2
<1>2. ASSUME NEW name \in Name, Pull(name) PROVE Reserved'
  <2>1. CASE nameSet = <<>>
    BY <1>2, <2>1 DEF Pull, PullNameSet, Reserved
  <2>2. CASE nameSet # <<>>
    <3> DEFINE k == PullPosition(nameSet, name)
               n == Len(nameSet)
    <3>1. nameSet' = RemoveAt(nameSet, k)
      BY <1>2, <2>2 DEF Pull, PullNameSet
    <3>2. k \in 1 .. n
      <4>1. n > 0
        BY <1>0, <2>2, EmptySeq DEF Reserved
      <4>2. CASE name \in ToSet(nameSet)
        <5>1. \E i \in DOMAIN nameSet : nameSet[i] = name
          BY <4>2 DEF ToSet
        <5>2. (CHOOSE i \in DOMAIN nameSet : nameSet[i] = name) \in DOMAIN nameSet
          BY <5>1
        <5> QED
          BY <1>0, <4>2, <5>2, Zenon DEF PullPosition
      <4>3. CASE name \notin ToSet(nameSet)
        <5>1. n \in 1 .. n
          BY <1>0, <4>1
        <5> QED
          BY <4>3, <5>1, Zenon DEF PullPosition
      <4> QED
        BY <4>2, <4>3
    <3> HIDE DEF k
    <3>3. /\ nameSet' \in Seq(Name) /\ Len(nameSet') = n - 1
          /\ \A i \in 1 .. n - 1 : nameSet'[i] = IF i < k THEN nameSet[i] ELSE nameSet[i + 1]
      BY <3>1, <3>2, RemoveAtProperties DEF Reserved
    <3>4. DOMAIN nameSet' = 1 .. n - 1
      BY <3>3, LenProperties
    <3>5. ASSUME NEW i \in 1 .. n - 1, NEW j \in 1 .. n - 1, nameSet'[i] = nameSet'[j]
          PROVE  i = j
      <4> DEFINE at(m) == IF m < k THEN m ELSE m + 1
      <4>1. at(i) \in 1 .. n /\ at(j) \in 1 .. n
        BY <1>0, <3>2
      <4>2. nameSet[at(i)] = nameSet[at(j)]
        BY <3>3, <3>5
      <4>3. at(i) = at(j)
        <5> HIDE DEF at
        <5> QED
          BY <1>0, <4>1, <4>2 DEF Reserved, IsInjective
      <4> QED
        BY <1>0, <3>2, <4>3
    <3> QED
      BY <3>3, <3>4, <3>5 DEF Reserved, IsInjective
  <2> QED
    BY <2>1, <2>2
<1>3. CASE UNCHANGED nameSet
  BY <1>3 DEF Reserved
<1> QED
  BY <1>1, <1>2, <1>3 DEF Next

(* A line that is appended moves no other. *)
LEMMA FileGrows ==
  ASSUME NEW line \in LogLines, file \in Seq(LogLines), file' = Append(file, line), ReadUpTo,
         UNCHANGED logList
  PROVE  file' \in Seq(LogLines) /\ ReadUpTo'
<1>1. /\ file' \in Seq(LogLines) /\ Len(file') = Len(file) + 1
      /\ \A i \in 1 .. Len(file) : file'[i] = file[i]
      /\ Len(file) \in Nat
  BY AppendProperties, LenProperties
<1>2. ASSUME NEW n \in 0 .. Len(file)
      PROVE  n \in 0 .. Len(file') /\ ListOf(file', n) = ListOf(file, n)
  <2>1. [j \in 1 .. n |-> file'[j]] = [j \in 1 .. n |-> file[j]]
    BY <1>1
  <2>2. ListOf(file', n) = ListOf(file, n)
    BY <2>1, Zenon DEF ListOf
  <2> QED
    BY <1>1, <2>2
<1> QED
  BY <1>1, <1>2 DEF ReadUpTo

(* Each step of the writers and of the viewer. *)
LEMMA LogStep == Stamped /\ ReadUpTo /\ [Logs!Next]_logs => Stamped' /\ ReadUpTo'
<1> SUFFICES ASSUME Stamped, ReadUpTo, [Logs!Next]_logs PROVE Stamped' /\ ReadUpTo'
  OBVIOUS
<1>1. CASE Logs!Tick
  BY <1>1 DEF Logs!Tick, Stamped, ReadUpTo
<1>2. CASE Logs!StartViewer
  <2>1. Len(file) \in Nat
    BY LenProperties DEF Stamped
  <2>2. logList' = ListOf(file, Len(file)) /\ UNCHANGED <<clock, stamp, file>>
    BY <1>2, <2>1, Parsed DEF Logs!StartViewer
  <2>3. Len(file) \in 0 .. Len(file)
    BY <2>1
  <2> QED
    BY <2>2, <2>3 DEF Stamped, ReadUpTo
<1>3. CASE Logs!ExitViewer
  BY <1>3 DEF Logs!ExitViewer, Stamped, ReadUpTo
<1>4. ASSUME NEW w \in Writer, Logs!Open(w) PROVE Stamped' /\ ReadUpTo'
  BY <1>4 DEF Logs!Open, Stamped, ReadUpTo
<1>5. ASSUME NEW w \in Writer, Logs!TakeStamp(w) PROVE Stamped' /\ ReadUpTo'
  <2>1. Logs!GetTimeStamp(clock) \in Stamps
    BY StampOfInstant DEF Stamped
  <2> QED
    BY <1>5, <2>1 DEF Logs!TakeStamp, Stamped, ReadUpTo
<1>6. ASSUME NEW w \in Writer, Logs!WriteLine(w) PROVE Stamped' /\ ReadUpTo'
  <2> DEFINE line == [stamp |-> stamp[w], writer |-> w]
  <2>1. line \in LogLines /\ file' = Append(file, line) /\ UNCHANGED <<clock, logList>>
        /\ stamp' \in [Writer -> Stamps \cup {NoStamp}]
    BY <1>6 DEF Logs!WriteLine, Stamped, LogLines
  <2> HIDE DEF line
  <2>2. file' \in Seq(LogLines) /\ ReadUpTo'
    BY <2>1, FileGrows DEF Stamped
  <2> QED
    BY <2>1, <2>2 DEF Stamped
<1>7. ASSUME NEW w \in Writer, Logs!Close(w) PROVE Stamped' /\ ReadUpTo'
  BY <1>7 DEF Logs!Close, Stamped, ReadUpTo
<1>8. CASE UNCHANGED logs
  BY <1>8 DEF logs, Stamped, ReadUpTo
<1> QED
  BY <1>1, <1>2, <1>3, <1>4, <1>5, <1>6, <1>7, <1>8 DEF Logs!Next

(* Before the first step no name is reserved, and the file is empty. *)
LEMMA InitAInv == SequentialInit => AInv
<1> SUFFICES ASSUME SequentialInit PROVE AInv
  OBVIOUS
<1>1. Reserved
  BY EmptySeq DEF SequentialInit, Init, Reserved, IsInjective
<1>2. Stamped
  BY EmptySeq DEF SequentialInit, Logs!Init, Stamped
<1>3. ReadUpTo
  BY DEF SequentialInit, Logs!Init, ReadUpTo
<1> QED
  BY <1>1, <1>2, <1>3 DEF AInv

(* AInv holds in every state. *)
LEMMA Invariant == SequentialSpec => []AInv
<1>1. AInv /\ [SequentialNext]_<<nameSet, logs>> => AInv'
  <2> SUFFICES ASSUME AInv, [SequentialNext]_<<nameSet, logs>> PROVE AInv'
    OBVIOUS
  <2>1. [Next]_nameSet /\ [Logs!Next]_logs
    BY DEF SequentialNext
  <2> QED
    BY <2>1, ReservedStep, LogStep DEF AInv
<1> QED
  BY <1>1, InitAInv, PTL DEF SequentialSpec

-----------------------------------------------------------------------------
(* In every set of reserved names that the server can come to, the loops of *)
(* pullNameSet take out the name they are called with, or the last one when *)
(* it is not there (LoopIsPull).                                            *)
THEOREM LoopIsAlwaysPull == SequentialSpec => []LoopIsPull
<1>1. AInv => LoopIsPull
  BY LoopsPull DEF AInv, Reserved, LoopIsPull
<1> QED
  BY <1>1, Invariant, PTL

(* Whatever the clock, the writers and the bounds: of the lines that can be *)
(* compared with both bounds the filter shows exactly those that were       *)
(* stamped between them (FilterIsInterval).                                 *)
THEOREM FilterIsAlwaysInterval == SequentialSpec => []FilterIsInterval
<1>1. ASSUME AInv, logList # NoList, NEW start \in Logs!Bounds, NEW end \in Logs!Bounds,
             NEW line \in Logs!ToSet(SubSeq(file, 1, logList.count)),
             Logs!Comparable(start, line.stamp), Logs!Comparable(end, line.stamp)
      PROVE  line \in Logs!ToSet(Logs!FilterLogByTime(logList, start, end)) <=>
               /\ ~Logs!Before(Logs!InstantOf(line.stamp), Logs!InstantOf(start))
               /\ ~Logs!Before(Logs!InstantOf(end), Logs!InstantOf(line.stamp))
  <2>1. /\ file \in Seq(LogLines) /\ Len(file) \in Nat
        /\ \A i \in 1 .. Len(file) : file[i] \in LogLines
    BY <1>1, LenProperties, ElementOfSeq DEF AInv, Stamped
  <2>2. PICK n \in 0 .. Len(file) : logList = ListOf(file, n)
    BY <1>1 DEF AInv, ReadUpTo
  <2>3. n \in Nat /\ logList.count = n /\ \A i \in 1 .. n : file[i] \in LogLines
    BY <2>1, <2>2 DEF ListOf
  <2>4. PICK k \in 1 .. n : line = file[k]
    <3>1. /\ SubSeq(file, 1, n) \in Seq(LogLines)
          /\ Len(SubSeq(file, 1, n)) = IF 1 <= n THEN n - 1 + 1 ELSE 0
          /\ \A i \in 1 .. n - 1 + 1 : SubSeq(file, 1, n)[i] = file[1 + i - 1]
      BY <2>3, SubSeqProperties
    <3>2. DOMAIN SubSeq(file, 1, n) = 1 .. n
      BY <2>3, <3>1, LenProperties
    <3>3. \A i \in 1 .. n : SubSeq(file, 1, n)[i] = file[i]
      BY <2>3, <3>1
    <3> QED
      BY <1>1, <2>3, <3>2, <3>3 DEF Logs!ToSet
  <2>5. line.stamp \in Stamps
    BY <2>3, <2>4 DEF LogLines
  <2>6. line \in Logs!ToSet(Logs!FilterLogByTime(logList, start, end)) <=>
          Logs!Within(start, end, line)
    <3>1. Logs!ToSet(Logs!FilterLogByTime(logList, start, end)) = Kept(file, start, end, n)
      BY <2>2, <2>3, FilterKeeps
    <3> QED
      BY <2>4, <3>1 DEF Kept
  <2>7. start \in Stamps \cup Dates /\ end \in Stamps \cup Dates
    BY BoundsAre
  <2>8. /\ Logs!Before(line.stamp, start) <=>
             Logs!Before(Logs!InstantOf(line.stamp), Logs!InstantOf(start))
        /\ Logs!Before(end, line.stamp) <=>
             Logs!Before(Logs!InstantOf(end), Logs!InstantOf(line.stamp))
    BY <1>1, <2>5, <2>7, TextIsTime
  <2> QED
    BY <2>6, <2>8 DEF Logs!Within
<1>2. AInv => FilterIsInterval
  BY <1>1, Zenon DEF FilterIsInterval, Logs!FilterIsInterval
<1> QED
  BY <1>2, Invariant, PTL
=============================================================================
