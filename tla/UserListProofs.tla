---------------------------- MODULE UserListProofs ----------------------------
(***************************************************************************)
(* Proofs about the list of users (UserList): its shape, what its readers  *)
(* see without the lock, and that it implements Roster.                    *)
(*                                                                         *)
(* A walk along the next pointers is a recursive function, so what it      *)
(* comes to is proved by the least index at which it could go wrong        *)
(* (Least, WalkAlong). Everything after that is said of the sequence of    *)
(* nodes, Chain: IsList relates it to the heap, and ChainOf gives it back. *)
(***************************************************************************)
EXTENDS UserList, SequenceTheorems, FiniteSetTheorems, TLAPS

\* The node behind n in the heap nd.
Step(nd, n) == IF n = Null THEN Null ELSE nd[n].next

\* The nodes ch are the list that begins at h in the heap nd.
IsList(ch, nd, h) ==
  /\ ch \in Seq(Node)
  /\ \A i, j \in 1 .. Len(ch) : ch[i] = ch[j] => i = j
  /\ h = IF ch = <<>> THEN Null ELSE ch[1]
  /\ \A i \in 1 .. Len(ch) : nd[ch[i]].next = IF i = Len(ch) THEN Null ELSE ch[i + 1]

(* A set of natural numbers has a least element. *)
LEMMA Least ==
  ASSUME NEW T \in SUBSET Nat, T # {}
  PROVE  \E m \in T : \A k \in T : m <= k
<1>1. IsWellFoundedOn(OpToRel(<, Nat), Nat)
  BY NatLessThanWellFounded, Zenon
<1>2. PICK m \in T : \A k \in T : ~(<<k, m>> \in OpToRel(<, Nat))
  BY <1>1, WFMin, Zenon
<1>3. \A k \in T : k < m => <<k, m>> \in OpToRel(<, Nat)
  BY Zenon DEF OpToRel
<1>4. \A k \in T : ~(k < m)
  BY <1>2, <1>3, Zenon
<1> QED
  BY <1>4

(* A list has no more nodes than the heap. *)
LEMMA ListFits ==
  ASSUME NEW ch, NEW nd, NEW h, IsList(ch, nd, h)
  PROVE  Len(ch) \in 0 .. MaxNode
<1>1. ch \in [1 .. Len(ch) -> Node] /\ Len(ch) \in Nat
  BY SMTT(30) DEF IsList
<1>2. ch \in Injection(1 .. Len(ch), Node)
  BY <1>1 DEF IsList, Injection, IsInjective
<1>3. IsFiniteSet(Node) /\ Cardinality(Node) = MaxNode
  BY FS_Interval, BoundAssumption DEF Node
<1>4. Cardinality(1 .. Len(ch)) = Len(ch)
  <2>1. 1 \in Int /\ Len(ch) \in Int
    OBVIOUS
  <2>2. Cardinality(1 .. Len(ch)) = IF 1 > Len(ch) THEN 0 ELSE Len(ch) - 1 + 1
    BY <2>1, FS_Interval, Zenon
  <2> QED
    BY <2>2
<1>5. Cardinality(1 .. Len(ch)) <= Cardinality(Node)
  BY <1>2, <1>3, FS_Injection
<1> QED
  BY <1>3, <1>4, <1>5

\* A walk along ch, which is Null from the end of ch on.
Along(ch) == [i \in 1 .. MaxNode + 1 |-> IF i <= Len(ch) THEN ch[i] ELSE Null]

\* at is a walk from n in the heap nd.
Walks(at, nd, n) ==
  at = [i \in 1 .. MaxNode + 1 |-> IF i = 1 THEN n ELSE Step(nd, at[i - 1])]

(* The walk from the head of a list comes to its nodes one after the other. *)
LEMMA WalkAlong ==
  ASSUME NEW ch, NEW nd, NEW h, IsList(ch, nd, h),
         NEW at, Walks(at, nd, h)
  PROVE  at = Along(ch)
<1>0. at = [i \in 1 .. MaxNode + 1 |-> IF i = 1 THEN h ELSE Step(nd, at[i - 1])]
  BY DEF Walks
<1> DEFINE Wrong == {i \in 1 .. MaxNode + 1 : at[i] # Along(ch)[i]}
<1>1. SUFFICES ASSUME Wrong # {} PROVE FALSE
  <2>2. ASSUME Wrong = {} PROVE at = Along(ch)
    BY <1>0 DEF Along
  <2> QED
    BY <2>2
<1>2. Wrong \in SUBSET Nat
  OBVIOUS
<1>3. PICK m \in Wrong : \A k \in Wrong : m <= k
  BY <1>1, <1>2, Least
<1>4. /\ m \in 1 .. MaxNode + 1 /\ at[m] # Along(ch)[m]
      /\ m # 1 => m - 1 \in 1 .. MaxNode + 1 /\ at[m - 1] = Along(ch)[m - 1]
  BY <1>3, BoundAssumption
<1>5. /\ Len(ch) \in 0 .. MaxNode /\ \A i \in 1 .. Len(ch) : ch[i] \in Node
      /\ (ch = <<>>) <=> (Len(ch) = 0)
  BY ListFits DEF IsList
<1>6. CASE m = 1
  <2>1. at[m] = h
    BY <1>0, <1>6
  <2>2. Along(ch)[m] = h
    BY <1>6 DEF Along, IsList
  <2> QED
    BY <2>1, <2>2
<1>7. CASE m # 1
  <2>1. at[m] = Step(nd, Along(ch)[m - 1])
    BY <1>0, <1>4, <1>7
  <2>2. CASE m - 1 <= Len(ch)
    <3>1. Along(ch)[m - 1] = ch[m - 1] /\ ch[m - 1] \in Node /\ m - 1 \in 1 .. Len(ch)
      BY <1>4, <1>5, <1>7, <2>2 DEF Along
    <3>3. nd[ch[m - 1]].next = IF m - 1 = Len(ch) THEN Null ELSE ch[m]
      BY <3>1 DEF IsList
    <3>4. Step(nd, ch[m - 1]) = IF m - 1 = Len(ch) THEN Null ELSE ch[m]
      BY <3>1, <3>3 DEF Step, Node, Null
    <3> QED
      BY <2>1, <3>1, <3>4 DEF Along
  <2>3. CASE ~(m - 1 <= Len(ch))
    BY <1>4, <2>1, <2>3 DEF Along, Step
  <2> QED
    BY <2>2, <2>3
<1> QED
  BY <1>6, <1>7

(* Walking along a list is such a walk. *)
LEMMA AlongWalks ==
  ASSUME NEW ch, NEW nd, NEW h, IsList(ch, nd, h)
  PROVE  Walks(Along(ch), nd, h)
<1>1. /\ Len(ch) \in 0 .. MaxNode /\ \A i \in 1 .. Len(ch) : ch[i] \in Node
      /\ (ch = <<>>) <=> (Len(ch) = 0)
  BY ListFits DEF IsList
<1>2. ASSUME NEW i \in 1 .. MaxNode + 1
      PROVE  Along(ch)[i] = IF i = 1 THEN h ELSE Step(nd, Along(ch)[i - 1])
  <2>1. CASE i = 1
    BY <2>1 DEF Along, IsList
  <2>2. CASE i # 1 /\ i - 1 <= Len(ch)
    <3>1. i - 1 \in 1 .. Len(ch) /\ i - 1 \in 1 .. MaxNode + 1 /\ (i - 1) + 1 = i
      BY <2>2, BoundAssumption
    <3>5. ch[i - 1] \in Node
      BY <3>1, <1>1
    <3>2. nd[ch[i - 1]].next = IF i - 1 = Len(ch) THEN Null ELSE ch[i]
      BY <3>1 DEF IsList
    <3>3. Step(nd, ch[i - 1]) = IF i - 1 = Len(ch) THEN Null ELSE ch[i]
      BY <3>5, <3>2 DEF Step, Node, Null
    <3> QED
      BY <3>1, <3>3 DEF Along
  <2>3. CASE i # 1 /\ ~(i - 1 <= Len(ch))
    BY <2>3, BoundAssumption DEF Along, Step
  <2> QED
    BY <2>1, <2>2, <2>3
<1> QED
  BY <1>2 DEF Along, Walks

\* Walk, with the heap as a parameter.
WalkOf(nd, n) ==
  LET at[i \in 1 .. MaxNode + 1] == IF i = 1 THEN n ELSE Step(nd, at[i - 1])
  IN  at

(* So Walk is that walk: a list has no other. *)
LEMMA WalkOfList ==
  ASSUME NEW ch, NEW nd, NEW h, IsList(ch, nd, h)
  PROVE  WalkOf(nd, h) = Along(ch)
<1>1. WalkOf(nd, h) = CHOOSE at : Walks(at, nd, h)
  BY DEF WalkOf, Walks
<1>2. Walks(Along(ch), nd, h)
  BY AlongWalks
<1>3. Walks(CHOOSE at : Walks(at, nd, h), nd, h)
  BY <1>2, Zenon
<1> QED
  BY <1>1, <1>3, WalkAlong, Zenon

(* Walk is such a walk in the heap of this state, and of the next one. *)
LEMMA WalkIsOf ==
  (\A n : Walk(n) = WalkOf(node, n)) /\ Walk(head)' = WalkOf(node', head')
BY DEF Walk, WalkOf, Succ, Step

-----------------------------------------------------------------------------
\* The part of a walk before it comes to Null.
Span(at) == [i \in {k \in DOMAIN at : at[k] # Null} |-> at[i]]

(* Chain is what the walk from the head comes to, now and after a step. *)
LEMMA ChainIsSpan == Chain = Span(Walk(head)) /\ Chain' = Span(Walk(head)')
BY DEF Chain, Span, RestrictValues, Restrict

(* What a walk along a list comes to is the list. *)
LEMMA SpanOfList ==
  ASSUME NEW ch, NEW nd, NEW h, IsList(ch, nd, h)
  PROVE  Span(Along(ch)) = ch
<1>1. /\ Len(ch) \in 0 .. MaxNode /\ \A i \in 1 .. Len(ch) : ch[i] \in Node
      /\ DOMAIN ch = 1 .. Len(ch)
  BY ListFits DEF IsList
<1>2. {i \in DOMAIN Along(ch) : Along(ch)[i] # Null} = 1 .. Len(ch)
  BY <1>1, BoundAssumption DEF Along, Node, Null
<1>3. \A i \in 1 .. Len(ch) : Along(ch)[i] = ch[i]
  BY <1>1, BoundAssumption DEF Along
<1>4. ch = [i \in 1 .. Len(ch) |-> ch[i]]
  BY DEF IsList
<1> QED
  BY <1>2, <1>3, <1>4 DEF Span

(* The nodes that are linked as a list from the head on are the Chain. *)
LEMMA ChainOf ==
  /\ \A ch : IsList(ch, node, head) => Chain = ch
  /\ \A ch : IsList(ch, node', head') => Chain' = ch
<1>1. ASSUME NEW ch, IsList(ch, node, head) PROVE Chain = ch
  <2>1. Walk(head) = Along(ch)
    BY <1>1, WalkOfList, WalkIsOf
  <2> QED
    BY <1>1, <2>1, SpanOfList, ChainIsSpan, Zenon
<1>2. ASSUME NEW ch, IsList(ch, node', head') PROVE Chain' = ch
  <2>1. Walk(head)' = Along(ch)
    BY <1>2, WalkOfList, WalkIsOf
  <2> QED
    BY <1>2, <2>1, SpanOfList, ChainIsSpan, Zenon
<1> QED
  BY <1>1, <1>2

-----------------------------------------------------------------------------
\* Where each thread can be.
Places ==
  /\ pc[Main] \in {"idle", "copyHead", "copyCount", "walk"}
  /\ pc[Comm] \in {"idle", "deleteHead", "unlink", "uncount", "tellHead", "tell"}
  /\ \A t \in Thread : pc[t] \in {"idle", "copyHead", "copyCount", "walk", "link", "count"}

\* The heap holds the list, with its prev pointers and its tail.
Shape ==
  /\ IsList(Chain, node, head)
  /\ tail = IF Chain = <<>> THEN Null ELSE Chain[Len(Chain)]
  /\ \A i \in 1 .. Len(Chain) :
       /\ node[Chain[i]].prev = IF i = 1 THEN Null ELSE Chain[i - 1]
       /\ node[Chain[i]].user \in User

\* Free nodes are free once, and none is in the list; nor is the node that was
\* taken out and is not freed yet.
Freed ==
  /\ \A i, j \in 1 .. Len(free) : free[i] = free[j] => i = j
  /\ \A i \in 1 .. Len(free), j \in 1 .. Len(Chain) : free[i] # Chain[j]
  /\ pc[Comm] = "uncount" =>
       /\ cur \in Node
       /\ \A i \in 1 .. Len(free) : free[i] # cur
       /\ \A j \in 1 .. Len(Chain) : Chain[j] # cur

\* Who holds the lock is between the change of the links and that of the count.
Locked ==
  /\ \A t \in Thread : lock = t <=> pc[t] = "count"
  /\ lock = Comm <=> pc[Comm] = "uncount"

\* The count is that of the list, but for the change that is being made.
Counted ==
  /\ lock = NoThread => count = Len(Chain)
  /\ lock = Comm => count = Len(Chain) + 1
  /\ lock \in Thread => count + 1 = Len(Chain) /\ node[tail].user = want[lock]

\* The user that leaves is in the list until it is taken out.
Leaves ==
  /\ pc[Comm] \in {"deleteHead", "unlink"} =>
       \E i \in 1 .. Len(Chain) : node[Chain[i]].user = leaving
  /\ pc[Comm] = "unlink" => cur = head

\* A login thread that counts its user, while another walks its copy, inserts
\* another name than that, unless that knows better.
Wanted ==
  /\ \A t \in Thread : pc[t] # "idle" => want[t] \in User
  /\ \A s, t \in Thread :
       s # t /\ lock = s /\ pc[t] \in {"copyCount", "walk", "link"} /\ ~doubled[t] =>
         want[s] # want[t]

\* While nobody leaves, a reader's copy is of a part of the list.
Copied ==
  \A r \in Reader : pc[r] \in {"copyCount", "walk"} /\ ~disturbed[r] =>
    /\ lock # Comm
    /\ copy[r].head \in {Null, head}
    /\ pc[r] = "walk" => copy[r].count <= Len(Chain)

\* What a login thread does not look at was inserted by the others, of other
\* names, and what it looked at did not have its user.
Unseen ==
  \A t \in Thread, i \in 1 .. Len(Chain) : ~disturbed[t] /\ ~doubled[t] =>
    /\ pc[t] = "walk" /\ copy[t].count < i => node[Chain[i]].user # want[t]
    /\ pc[t] = "link" => node[Chain[i]].user # want[t]

\* The walk of the communication thread has told the first k users, and is at the
\* next one; all that are due are listed.
Telling ==
  pc[Comm] = "tell" => \E k \in 0 .. Len(Chain) :
    /\ \A u : u \in told <=> \E i \in 1 .. k : node[Chain[i]].user = u
    /\ \A u \in due : \E i \in 1 .. Len(Chain) : node[Chain[i]].user = u
    /\ cur = Null => due \subseteq told
    /\ cur # Null => k < Len(Chain) /\ cur = Chain[k + 1]

\* The inductive invariant.
UInv ==
  /\ TypeOK /\ Places /\ Shape /\ Freed /\ Locked /\ Counted
  /\ Leaves /\ Wanted /\ Copied /\ Unseen /\ Telling

-----------------------------------------------------------------------------
(* A step that writes neither the head nor a node leaves the list alone. *)
LEMMA SameChain == UNCHANGED <<head, node>> => Chain' = Chain
BY WalkIsOf, ChainIsSpan

(* A user is listed when a node of the list holds it. *)
LEMMA ListedUsers ==
  ASSUME Shape
  PROVE  \A u : u \in ToSet(Listed) <=> \E i \in 1 .. Len(Chain) : node[Chain[i]].user = u
<1> QED
  BY DEF ToSet, Listed

(* A step beside the walk of the communication thread leaves what it knows. *)
LEMMA TellingKept ==
  ASSUME Telling, UNCHANGED <<Chain, node, cur, due, told>>,
         pc'[Comm] = "tell" => pc[Comm] = "tell"
  PROVE  Telling'
BY DEF Telling

(* What a reader's copy is before it copies is of the type of a copy. *)
LEMMA NoCopyOK == NoCopy \in [head : Pointer, count : 0 .. MaxNode]
BY BoundAssumption DEF NoCopy, Pointer

(* A walk from the head comes to the whole list, which fits into the heap. *)
LEMMA WalkOfHead == Shape => Walk(head) = Along(Chain) /\ Len(Chain) \in 0 .. MaxNode
BY WalkOfList, WalkIsOf, ListFits, Zenon DEF Shape

(* A walk from a null pointer comes to nothing. *)
LEMMA WalkOfNull == \A i \in 1 .. MaxNode + 1 : Walk(Null)[i] = Null
<1>1. IsList(<<>>, node, Null)
  BY DEF IsList
<1>2. Walk(Null) = Along(<<>>)
  BY <1>1, WalkOfList, WalkIsOf
<1> QED
  BY <1>2 DEF Along

(* Whoever copied the list, without a deletion since, walks on the list. *)
LEMMA ReaderOnList ==
  ASSUME UInv, NEW r \in Reader, pc[r] = "walk", ~disturbed[r], copy[r].head # Null
  PROVE  /\ ~RunsOff(copy[r].head, copy[r].count)
         /\ \A u : Finds(copy[r].head, copy[r].count, u) <=>
                     \E i \in 1 .. copy[r].count : node[Chain[i]].user = u
<1>1. /\ copy[r].head = head /\ copy[r].count \in Nat /\ copy[r].count <= Len(Chain)
      /\ Len(Chain) \in 0 .. MaxNode /\ Walk(head) = Along(Chain)
      /\ \A i \in 1 .. Len(Chain) : Chain[i] \in Node
  BY WalkOfHead DEF UInv, Copied, TypeOK, Shape, IsList
<1>2. \A i \in 1 .. copy[r].count : Along(Chain)[i] = Chain[i] /\ Chain[i] \in Node
  BY <1>1, BoundAssumption DEF Along
<1>3. ~RunsOff(copy[r].head, copy[r].count)
  BY <1>1, <1>2 DEF RunsOff, Node, Null
<1>4. \A u : Finds(copy[r].head, copy[r].count, u) <=>
                     \E i \in 1 .. copy[r].count : node[Chain[i]].user = u
  BY <1>1, <1>2 DEF Finds
<1> QED
  BY <1>3, <1>4

(* UInv is kept by copying the head. *)
LEMMA CopyHeadStep ==
  ASSUME UInv, NEW r \in Reader, CopyHead(r)
  PROVE UInv'
<1>0. Chain' = Chain
  BY SameChain DEF CopyHead, list
<1>1. TypeOK'
  BY <1>0, ThreadAssumption, NoCopyOK, BoundAssumption DEF UInv, TypeOK, Places,
     Reader, CopyHead, list, reading, walking, Goto
<1>2. Places'
  BY DEF UInv, Places, CopyHead, Goto
<1>3. Shape'
  BY <1>0 DEF UInv, Shape, CopyHead, list
<1>4. Freed'
  BY <1>0 DEF UInv, Freed, CopyHead, list, walking, Goto
<1>5. Locked'
  BY DEF UInv, Locked, CopyHead, list, Goto
<1>6. Counted'
  BY <1>0 DEF UInv, Counted, CopyHead, list
<1>7. Leaves'
  BY <1>0 DEF UInv, Leaves, CopyHead, list, walking, Goto
<1>8. Wanted'
  <2>1. ASSUME NEW q \in Thread, q # r
        PROVE  pc'[q] = pc[q] /\ doubled'[q] = doubled[q] /\ want'[q] = want[q]
    BY <2>1 DEF CopyHead, Goto
  <2>2. r \in Thread => doubled'[r] = (lock \in Thread /\ want[lock] = want[r])
    BY DEF CopyHead
  <2>3. pc[r] = "copyHead" /\ UNCHANGED <<lock, want>>
    BY DEF CopyHead, Goto, list
  <2> QED
    BY <2>1, <2>2, <2>3 DEF UInv, Wanted
<1>9. Copied'
  <2>1. ASSUME NEW q \in Reader, q # r
        PROVE  /\ pc'[q] = pc[q] /\ disturbed'[q] = disturbed[q] /\ copy'[q] = copy[q]
    BY <2>1 DEF CopyHead, Goto
  <2>2. /\ pc'[r] = "copyCount" /\ disturbed'[r] = (lock = Comm) /\ copy'[r].head = head
        /\ lock' = lock /\ head' = head
    BY DEF UInv, TypeOK, CopyHead, Goto, list
  <2> QED
    BY <1>0, <2>1, <2>2 DEF UInv, Copied
<1>10. Unseen'
  <2>1. ASSUME NEW q \in Thread, q # r
        PROVE  /\ pc'[q] = pc[q] /\ disturbed'[q] = disturbed[q] /\ copy'[q] = copy[q]
               /\ doubled'[q] = doubled[q]
    BY <2>1 DEF CopyHead, Goto
  <2>2. pc'[r] = "copyCount" /\ UNCHANGED <<node, want>>
    BY DEF UInv, TypeOK, CopyHead, Goto, list
  <2> QED
    BY <1>0, <2>1, <2>2 DEF UInv, Unseen
<1>11. Telling'
  BY <1>0, TellingKept DEF UInv, CopyHead, list, walking, Goto
<1> QED
  BY <1>1, <1>2, <1>3, <1>4, <1>5, <1>6, <1>7, <1>8, <1>9, <1>10, <1>11 DEF UInv

(* UInv is kept by copying the count. *)
LEMMA CopyCountStep ==
  ASSUME UInv, NEW r \in Reader, CopyCount(r)
  PROVE UInv'
<1>0. Chain' = Chain
  BY SameChain DEF CopyCount, list
<1>1. TypeOK'
  BY <1>0, ThreadAssumption, NoCopyOK, BoundAssumption DEF UInv, TypeOK, Places,
     Reader, CopyCount, list, reading, walking, Goto
<1>2. Places'
  BY DEF UInv, Places, CopyCount, Goto
<1>3. Shape'
  BY <1>0 DEF UInv, Shape, CopyCount, list
<1>4. Freed'
  BY <1>0 DEF UInv, Freed, CopyCount, list, walking, Goto
<1>5. Locked'
  BY DEF UInv, Locked, CopyCount, list, Goto
<1>6. Counted'
  BY <1>0 DEF UInv, Counted, CopyCount, list
<1>7. Leaves'
  BY <1>0 DEF UInv, Leaves, CopyCount, list, walking, Goto
<1>8. Wanted'
  BY DEF UInv, Wanted, CopyCount, list, Goto
<1>9. Copied'
  <2>1. ASSUME NEW q \in Reader, q # r
        PROVE  /\ pc'[q] = pc[q] /\ copy'[q] = copy[q]
    BY <2>1 DEF CopyCount, Goto
  <2>2. /\ pc[r] = "copyCount" /\ pc'[r] = "walk" /\ copy'[r].head = copy[r].head
        /\ copy'[r].count = count /\ UNCHANGED <<lock, head, disturbed>>
    BY DEF UInv, TypeOK, CopyCount, Goto, list
  <2>3. lock # Comm => count <= Len(Chain)
    BY DEF UInv, TypeOK, Counted
  <2> QED
    BY <1>0, <2>1, <2>2, <2>3 DEF UInv, Copied
<1>10. Unseen'
  <2>1. ASSUME NEW q \in Thread, q # r
        PROVE  /\ pc'[q] = pc[q] /\ copy'[q] = copy[q]
    BY <2>1 DEF CopyCount, Goto
  <2>2. /\ pc[r] = "copyCount" /\ pc'[r] = "walk" /\ copy'[r].count = count
        /\ UNCHANGED <<lock, node, want, disturbed, doubled>>
    BY DEF UInv, TypeOK, CopyCount, Goto, list
  <2>3. ASSUME r \in Thread, ~disturbed[r], ~doubled[r], NEW i \in 1 .. Len(Chain), count < i
        PROVE  node[Chain[i]].user # want[r]
    <3>1. lock \in Thread /\ i = Len(Chain) /\ node[tail].user = want[lock]
      BY <2>3 DEF UInv, TypeOK, Counted
    <3>2. node[Chain[i]].user = want[lock]
      BY <3>1 DEF UInv, Shape
    <3>3. pc[lock] = "count"
      BY <3>1 DEF UInv, Locked
    <3> QED
      BY <2>2, <2>3, <3>1, <3>2, <3>3 DEF UInv, Wanted
  <2> QED
    BY <1>0, <2>1, <2>2, <2>3 DEF UInv, Unseen
<1>11. Telling'
  BY <1>0, TellingKept DEF UInv, CopyCount, list, walking, Goto
<1> QED
  BY <1>1, <1>2, <1>3, <1>4, <1>5, <1>6, <1>7, <1>8, <1>9, <1>10, <1>11 DEF UInv

(* UInv is kept by leaving the list. *)
LEMMA WalkOffStep ==
  ASSUME UInv, NEW r \in Reader, WalkOff(r)
  PROVE UInv'
<1>0. Chain' = Chain
  BY SameChain DEF WalkOff, list
<1>1. TypeOK'
  BY DEF UInv, TypeOK, WalkOff, list, reading, walking
<1>2. Places'
  BY DEF UInv, Places, WalkOff
<1>3. Shape'
  BY <1>0 DEF UInv, Shape, WalkOff, list
<1>4. Freed'
  BY <1>0 DEF UInv, Freed, WalkOff, list, walking
<1>5. Locked'
  BY DEF UInv, Locked, WalkOff, list
<1>6. Counted'
  BY <1>0 DEF UInv, Counted, WalkOff, list, reading
<1>7. Leaves'
  BY <1>0 DEF UInv, Leaves, WalkOff, list, walking
<1>8. Wanted'
  BY DEF UInv, Wanted, WalkOff, list, reading
<1>9. Copied'
  BY <1>0 DEF UInv, Copied, WalkOff, list, reading
<1>10. Unseen'
  BY <1>0 DEF UInv, Unseen, WalkOff, list, reading
<1>11. Telling'
  BY <1>0, TellingKept DEF UInv, WalkOff, list, walking
<1> QED
  BY <1>1, <1>2, <1>3, <1>4, <1>5, <1>6, <1>7, <1>8, <1>9, <1>10, <1>11 DEF UInv

(* UInv is kept by the start of insertUser. *)
LEMMA StartInsertStep ==
  ASSUME UInv, NEW t \in Thread, NEW u \in User, StartInsert(t, u)
  PROVE UInv'
<1>0. Chain' = Chain
  BY SameChain DEF StartInsert, list
<1>1. TypeOK'
  BY BoundAssumption DEF UInv, TypeOK, Reader, StartInsert, list, walking, Goto
<1>2. Places'
  BY ThreadAssumption DEF UInv, Places, StartInsert, Goto
<1>3. Shape'
  BY <1>0 DEF UInv, Shape, StartInsert, list
<1>4. Freed'
  BY <1>0 DEF UInv, Freed, StartInsert, list, walking, Goto
<1>5. Locked'
  BY DEF UInv, Locked, StartInsert, list, Goto
<1>6. Counted'
  BY <1>0 DEF UInv, Counted, Locked, StartInsert, list, Goto
<1>7. Leaves'
  BY <1>0 DEF UInv, Leaves, StartInsert, list, walking, Goto
<1>8. Wanted'
  BY DEF UInv, Wanted, Locked, TypeOK, StartInsert, list, Goto
<1>9. Copied'
  BY <1>0 DEF UInv, Copied, StartInsert, list, Goto
<1>10. Unseen'
  BY <1>0 DEF UInv, Unseen, StartInsert, list, Goto
<1>11. Telling'
  BY <1>0, TellingKept DEF UInv, StartInsert, list, walking, Goto
<1> QED
  BY <1>1, <1>2, <1>3, <1>4, <1>5, <1>6, <1>7, <1>8, <1>9, <1>10, <1>11 DEF UInv

(* UInv is kept by finding the name. *)
LEMMA ExistYesStep ==
  ASSUME UInv, NEW t \in Thread, ExistYes(t)
  PROVE UInv'
<1>0. Chain' = Chain
  BY SameChain DEF ExistYes, list
<1>1. TypeOK'
  BY NoCopyOK DEF UInv, TypeOK, Reader, ExistYes, Return, list, walking, Goto
<1>2. Places'
  BY DEF UInv, Places, ExistYes, Return, Goto
<1>3. Shape'
  BY <1>0 DEF UInv, Shape, ExistYes, list
<1>4. Freed'
  BY <1>0 DEF UInv, Freed, ExistYes, Return, list, walking, Goto
<1>5. Locked'
  BY DEF UInv, Locked, ExistYes, Return, list, Goto
<1>6. Counted'
  BY <1>0 DEF UInv, Counted, Locked, ExistYes, Return, list, Goto
<1>7. Leaves'
  BY <1>0 DEF UInv, Leaves, ExistYes, Return, list, walking, Goto
<1>8. Wanted'
  BY DEF UInv, Wanted, Locked, TypeOK, Reader, ExistYes, Return, list, Goto
<1>9. Copied'
  BY <1>0 DEF UInv, Copied, TypeOK, ExistYes, Return, list, Goto
<1>10. Unseen'
  BY <1>0 DEF UInv, Unseen, TypeOK, Reader, ExistYes, Return, list, Goto
<1>11. Telling'
  BY <1>0, TellingKept DEF UInv, ExistYes, Return, list, walking, Goto
<1> QED
  BY <1>1, <1>2, <1>3, <1>4, <1>5, <1>6, <1>7, <1>8, <1>9, <1>10, <1>11 DEF UInv

(* UInv is kept by not finding it. *)
LEMMA ExistNoStep ==
  ASSUME UInv, NEW t \in Thread, ExistNo(t)
  PROVE UInv'
<1>0. Chain' = Chain
  BY SameChain DEF ExistNo, list
<1>1. TypeOK'
  BY DEF UInv, TypeOK, Reader, ExistNo, list, reading, walking, Goto
<1>2. Places'
  BY ThreadAssumption DEF UInv, Places, ExistNo, Goto
<1>3. Shape'
  BY <1>0 DEF UInv, Shape, ExistNo, list
<1>4. Freed'
  BY <1>0 DEF UInv, Freed, ExistNo, list, walking, Goto
<1>5. Locked'
  BY DEF UInv, Locked, ExistNo, list, Goto
<1>6. Counted'
  BY <1>0 DEF UInv, Counted, ExistNo, list, reading
<1>7. Leaves'
  BY <1>0 DEF UInv, Leaves, ExistNo, list, walking, Goto
<1>8. Wanted'
  BY DEF UInv, Wanted, ExistNo, list, reading, Goto
<1>9. Copied'
  BY <1>0 DEF UInv, Copied, ExistNo, list, reading, Goto
<1>10. Unseen'
  <2>1. ASSUME NEW q \in Thread, q # t
        PROVE  pc'[q] = pc[q]
    BY <2>1 DEF ExistNo, Goto
  <2>2. pc[t] = "walk" /\ pc'[t] = "link" /\ UNCHANGED <<node, want, disturbed, doubled, copy>>
    BY DEF UInv, TypeOK, ExistNo, Goto, Reader, list, reading
  <2>3. ASSUME ~disturbed[t], ~doubled[t], NEW i \in 1 .. Len(Chain), ~(copy[t].count < i)
        PROVE  node[Chain[i]].user # want[t]
    <3>1. copy[t].count \in 0 .. MaxNode
      BY DEF UInv, TypeOK, Reader
    <3>2. CASE copy[t].head = Null
      BY <2>3, <3>1, <3>2, WalkOfNull, BoundAssumption DEF ExistNo, RunsOff
    <3>3. CASE copy[t].head # Null
      BY <2>2, <2>3, <3>1, <3>3, ReaderOnList DEF ExistNo, Reader
    <3> QED
      BY <3>2, <3>3
  <2> QED
    BY <1>0, <2>1, <2>2, <2>3 DEF UInv, Unseen
<1>11. Telling'
  BY <1>0, TellingKept DEF UInv, ExistNo, list, walking, Goto
<1> QED
  BY <1>1, <1>2, <1>3, <1>4, <1>5, <1>6, <1>7, <1>8, <1>9, <1>10, <1>11 DEF UInv

(* UInv is kept by typing /users. *)
LEMMA TypeUsersStep ==
  ASSUME UInv, TypeUsers
  PROVE UInv'
<1>0. Chain' = Chain
  BY SameChain DEF TypeUsers, list
<1>1. TypeOK'
  BY DEF UInv, TypeOK, Reader, TypeUsers, list, reading, walking, Goto
<1>2. Places'
  BY ThreadAssumption DEF UInv, Places, TypeUsers, Goto
<1>3. Shape'
  BY <1>0 DEF UInv, Shape, TypeUsers, list
<1>4. Freed'
  BY <1>0 DEF UInv, Freed, TypeUsers, list, walking, Goto
<1>5. Locked'
  BY DEF UInv, Locked, TypeUsers, list, Goto
<1>6. Counted'
  BY <1>0 DEF UInv, Counted, TypeUsers, list, reading
<1>7. Leaves'
  BY <1>0 DEF UInv, Leaves, TypeUsers, list, walking, Goto
<1>8. Wanted'
  BY ThreadAssumption DEF UInv, Wanted, TypeUsers, list, reading, Goto
<1>9. Copied'
  BY <1>0 DEF UInv, Copied, TypeUsers, list, reading, Goto
<1>10. Unseen'
  BY <1>0 DEF UInv, Unseen, TypeUsers, list, reading, Goto
<1>11. Telling'
  BY <1>0, TellingKept DEF UInv, TypeUsers, list, walking, Goto
<1> QED
  BY <1>1, <1>2, <1>3, <1>4, <1>5, <1>6, <1>7, <1>8, <1>9, <1>10, <1>11 DEF UInv

(* UInv is kept by printing the list. *)
LEMMA PrintWalkStep ==
  ASSUME UInv, PrintWalk
  PROVE UInv'
<1>0. Chain' = Chain
  BY SameChain DEF PrintWalk, list
<1>1. TypeOK'
  BY NoCopyOK DEF UInv, TypeOK, Reader, PrintWalk, list, walking, Goto
<1>2. Places'
  BY DEF UInv, Places, PrintWalk, Goto
<1>3. Shape'
  BY <1>0 DEF UInv, Shape, PrintWalk, list
<1>4. Freed'
  BY <1>0 DEF UInv, Freed, PrintWalk, list, walking, Goto
<1>5. Locked'
  BY DEF UInv, Locked, PrintWalk, list, Goto
<1>6. Counted'
  BY <1>0 DEF UInv, Counted, PrintWalk, list
<1>7. Leaves'
  BY <1>0 DEF UInv, Leaves, PrintWalk, list, walking, Goto
<1>8. Wanted'
  BY DEF UInv, Wanted, PrintWalk, list, Goto
<1>9. Copied'
  BY <1>0 DEF UInv, Copied, TypeOK, PrintWalk, list, Goto
<1>10. Unseen'
  BY <1>0, ThreadAssumption DEF UInv, Unseen, PrintWalk, list, Goto
<1>11. Telling'
  BY <1>0, TellingKept DEF UInv, PrintWalk, list, walking, Goto
<1> QED
  BY <1>1, <1>2, <1>3, <1>4, <1>5, <1>6, <1>7, <1>8, <1>9, <1>10, <1>11 DEF UInv

(* UInv is kept by receiving BYE. *)
LEMMA ReceiveByeStep ==
  ASSUME UInv, NEW u \in User, ReceiveBye(u)
  PROVE UInv'
<1>0. Chain' = Chain
  BY SameChain DEF ReceiveBye, list
<1>1. TypeOK'
  BY DEF UInv, TypeOK, ReceiveBye, list, reading, Goto
<1>2. Places'
  BY ThreadAssumption DEF UInv, Places, ReceiveBye, Goto
<1>3. Shape'
  BY <1>0 DEF UInv, Shape, ReceiveBye, list
<1>4. Freed'
  BY <1>0 DEF UInv, Freed, ReceiveBye, list, Goto
<1>5. Locked'
  BY DEF UInv, Locked, ReceiveBye, list, Goto
<1>6. Counted'
  BY <1>0 DEF UInv, Counted, ReceiveBye, list, reading
<1>7. Leaves'
  <2>1. \E i \in 1 .. Len(Chain) : node[Chain[i]].user = u
    BY DEF ReceiveBye, ToSet, UInv, Shape, IsList
  <2>2. leaving' = u /\ pc'[Comm] = "deleteHead" /\ node' = node
    BY DEF UInv, TypeOK, ReceiveBye, list, Goto
  <2> QED
    BY <1>0, <2>1, <2>2 DEF Leaves
<1>8. Wanted'
  BY ThreadAssumption DEF UInv, Wanted, ReceiveBye, list, reading, Goto
<1>9. Copied'
  BY <1>0 DEF UInv, Copied, ReceiveBye, list, reading, Goto
<1>10. Unseen'
  BY <1>0 DEF UInv, Unseen, ReceiveBye, list, reading, Goto
<1>11. Telling'
  BY <1>0, TellingKept DEF UInv, ReceiveBye, list, Goto
<1> QED
  BY <1>1, <1>2, <1>3, <1>4, <1>5, <1>6, <1>7, <1>8, <1>9, <1>10, <1>11 DEF UInv

(* UInv is kept by reading the head. *)
LEMMA DeleteHeadStep ==
  ASSUME UInv, DeleteHead
  PROVE UInv'
<1>0. Chain' = Chain
  BY SameChain DEF DeleteHead, list
<1>1. TypeOK'
  BY DEF UInv, TypeOK, DeleteHead, list, reading, Goto
<1>2. Places'
  BY DEF UInv, Places, DeleteHead, Goto
<1>3. Shape'
  BY <1>0 DEF UInv, Shape, DeleteHead, list
<1>4. Freed'
  BY <1>0 DEF UInv, Freed, DeleteHead, list, Goto
<1>5. Locked'
  BY DEF UInv, Locked, DeleteHead, list, Goto
<1>6. Counted'
  BY <1>0 DEF UInv, Counted, DeleteHead, list, reading
<1>7. Leaves'
  BY <1>0 DEF UInv, Leaves, DeleteHead, list, Goto
<1>8. Wanted'
  BY DEF UInv, Wanted, DeleteHead, list, reading, Goto
<1>9. Copied'
  BY <1>0 DEF UInv, Copied, DeleteHead, list, reading, Goto
<1>10. Unseen'
  BY <1>0 DEF UInv, Unseen, DeleteHead, list, reading, Goto
<1>11. Telling'
  BY DEF Telling, Goto, DeleteHead
<1> QED
  BY <1>1, <1>2, <1>3, <1>4, <1>5, <1>6, <1>7, <1>8, <1>9, <1>10, <1>11 DEF UInv

(* UInv is kept by beginning to walk. *)
LEMMA WalkHeadStep ==
  ASSUME UInv, NEW from \in {"idle", "tellHead"}, WalkHead(from)
  PROVE UInv'
<1>0. Chain' = Chain
  BY SameChain DEF WalkHead, list
<1>1. TypeOK'
  <2>1. due' \in SUBSET User
    BY ListedUsers DEF UInv, WalkHead, Shape
  <2> QED
    BY <2>1 DEF UInv, TypeOK, WalkHead, list, reading, Goto
<1>2. Places'
  BY ThreadAssumption DEF UInv, Places, WalkHead, Goto
<1>3. Shape'
  BY <1>0 DEF UInv, Shape, WalkHead, list
<1>4. Freed'
  BY <1>0 DEF UInv, Freed, WalkHead, list, Goto
<1>5. Locked'
  BY DEF UInv, Locked, WalkHead, list, Goto
<1>6. Counted'
  BY <1>0 DEF UInv, Counted, WalkHead, list, reading
<1>7. Leaves'
  BY DEF Leaves, WalkHead, Goto
<1>8. Wanted'
  BY ThreadAssumption DEF UInv, Wanted, WalkHead, list, reading, Goto
<1>9. Copied'
  BY <1>0 DEF UInv, Copied, WalkHead, list, reading, Goto
<1>10. Unseen'
  BY <1>0 DEF UInv, Unseen, WalkHead, list, reading, Goto
<1>11. Telling'
  <2>1. /\ \A u \in due' : \E i \in 1 .. Len(Chain) : node[Chain[i]].user = u
        /\ told' = {} /\ UNCHANGED node
    BY ListedUsers DEF UInv, WalkHead, list
  <2>2. CASE Chain = <<>>
    <3>1. cur' = Null /\ due' \subseteq told'
      BY <2>1, <2>2 DEF UInv, Shape, IsList, WalkHead
    <3> QED
      BY <1>0, <2>1, <3>1 DEF Telling
  <2>3. CASE Chain # <<>>
    <3>1. cur' # Null /\ Len(Chain) > 0 /\ cur' = Chain[0 + 1]
      <4>1. Len(Chain) \in Nat \ {0}
        BY <2>3
      <4>2. cur' = Chain[1] /\ Chain[1] \in Node
        BY <2>3 DEF UInv, Shape, IsList, WalkHead
      <4> QED
        BY <4>1, <4>2 DEF Node, Null
    <3> QED
      BY <1>0, <2>1, <3>1 DEF Telling
  <2> QED
    BY <2>2, <2>3
<1> QED
  BY <1>1, <1>2, <1>3, <1>4, <1>5, <1>6, <1>7, <1>8, <1>9, <1>10, <1>11 DEF UInv

(* UInv is kept by telling one user. *)
LEMMA TellStep ==
  ASSUME UInv, Tell
  PROVE UInv'
<1>0. Chain' = Chain
  BY SameChain DEF Tell, list
<1>1. TypeOK'
  <2>1. node[cur].user \in User /\ node[cur].next \in Pointer
    <3>1. PICK k \in 0 .. Len(Chain) : k < Len(Chain) /\ cur = Chain[k + 1]
      BY DEF UInv, Tell, Telling
    <3> QED
      BY <3>1 DEF UInv, Shape, IsList, TypeOK
  <2> QED
    BY <2>1 DEF UInv, TypeOK, Tell, list, reading
<1>2. Places'
  BY DEF UInv, Places, Tell
<1>3. Shape'
  BY <1>0 DEF UInv, Shape, Tell, list
<1>4. Freed'
  BY <1>0 DEF UInv, Freed, Tell, list
<1>5. Locked'
  BY DEF UInv, Locked, Tell, list
<1>6. Counted'
  BY <1>0 DEF UInv, Counted, Tell, list, reading
<1>7. Leaves'
  BY DEF Leaves, Tell
<1>8. Wanted'
  BY DEF UInv, Wanted, Tell, list, reading
<1>9. Copied'
  BY <1>0 DEF UInv, Copied, Tell, list, reading
<1>10. Unseen'
  BY <1>0 DEF UInv, Unseen, Tell, list, reading
<1>11. Telling'
  <2>1. PICK k \in 0 .. Len(Chain) :
          /\ k < Len(Chain) /\ cur = Chain[k + 1]
          /\ \A u : u \in told <=> \E i \in 1 .. k : node[Chain[i]].user = u
          /\ \A u \in due : \E i \in 1 .. Len(Chain) : node[Chain[i]].user = u
    BY DEF UInv, Tell, Telling
  <2>2. k + 1 \in 1 .. Len(Chain) /\ Len(Chain) \in Nat
    BY <2>1
  <2>3. UNCHANGED <<node, due>> /\ told' = told \cup {node[cur].user}
    BY DEF Tell, list
  <2>4. \A u : u \in told' <=> \E i \in 1 .. k + 1 : node[Chain[i]].user = u
    BY <2>1, <2>3
  <2>5. cur' = IF k + 1 = Len(Chain) THEN Null ELSE Chain[(k + 1) + 1]
    BY <2>1 DEF UInv, Shape, IsList, Tell
  <2>6. cur' = Null => due' \subseteq told'
    <3>1. ASSUME k + 1 # Len(Chain) PROVE cur' # Null
      <4>1. (k + 1) + 1 \in 1 .. Len(Chain)
        BY <2>2, <3>1
      <4>2. Chain[(k + 1) + 1] \in Node
        BY <4>1 DEF UInv, Shape, IsList
      <4> QED
        BY <2>5, <3>1, <4>2 DEF Node, Null
    <3> QED
      BY <2>1, <2>3, <3>1
  <2>7. cur' # Null => k + 1 < Len(Chain) /\ cur' = Chain[(k + 1) + 1]
    BY <2>2, <2>5
  <2> QED
    BY <1>0, <2>1, <2>2, <2>3, <2>4, <2>6, <2>7 DEF Telling
<1> QED
  BY <1>1, <1>2, <1>3, <1>4, <1>5, <1>6, <1>7, <1>8, <1>9, <1>10, <1>11 DEF UInv

(* UInv is kept by the end of the walk. *)
LEMMA TellEndStep ==
  ASSUME UInv, TellEnd
  PROVE UInv'
<1>0. Chain' = Chain
  BY SameChain DEF TellEnd, list
<1>1. TypeOK'
  BY DEF UInv, TypeOK, TellEnd, list, reading, Goto
<1>2. Places'
  BY DEF UInv, Places, TellEnd, Goto
<1>3. Shape'
  BY <1>0 DEF UInv, Shape, TellEnd, list
<1>4. Freed'
  BY <1>0 DEF UInv, Freed, TellEnd, list, Goto
<1>5. Locked'
  BY DEF UInv, Locked, TellEnd, list, Goto
<1>6. Counted'
  BY <1>0 DEF UInv, Counted, TellEnd, list, reading
<1>7. Leaves'
  BY DEF Leaves, TellEnd, Goto
<1>8. Wanted'
  BY DEF UInv, Wanted, TellEnd, list, reading, Goto
<1>9. Copied'
  BY <1>0 DEF UInv, Copied, TellEnd, list, reading, Goto
<1>10. Unseen'
  BY <1>0 DEF UInv, Unseen, TellEnd, list, reading, Goto
<1>11. Telling'
  BY ThreadAssumption DEF UInv, Telling, TypeOK, Reader, Goto, TellEnd
<1> QED
  BY <1>1, <1>2, <1>3, <1>4, <1>5, <1>6, <1>7, <1>8, <1>9, <1>10, <1>11 DEF UInv

-----------------------------------------------------------------------------
(* What is left of a sequence without its j-th element. *)
LEMMA RemoveAtProperties ==
  ASSUME NEW S, NEW s \in Seq(S), NEW j \in 1 .. Len(s)
  PROVE  /\ RemoveAt(s, j) \in Seq(S)
         /\ Len(RemoveAt(s, j)) = Len(s) - 1
         /\ \A i \in 1 .. Len(s) - 1 : RemoveAt(s, j)[i] = s[IF i < j THEN i ELSE i + 1]
<1>4. /\ RemoveAt(s, j) \in Seq(S) /\ Len(RemoveAt(s, j)) = (j - 1) + (Len(s) - j)
      /\ \A i \in 1 .. (j - 1) + (Len(s) - j) : RemoveAt(s, j)[i] =
           IF i <= j - 1 THEN SubSeq(s, 1, j - 1)[i] ELSE SubSeq(s, j + 1, Len(s))[i - (j - 1)]
  <2> DEFINE a == SubSeq(s, 1, j - 1)
             b == SubSeq(s, j + 1, Len(s))
  <2>1. RemoveAt(s, j) = a \o b
    BY DEF RemoveAt
  <2>2. a \in Seq(S) /\ b \in Seq(S) /\ Len(a) = j - 1 /\ Len(b) = Len(s) - j
    OBVIOUS
  <2> HIDE DEF a, b
  <2>3. /\ a \o b \in Seq(S) /\ Len(a \o b) = Len(a) + Len(b)
        /\ \A i \in 1 .. Len(a) + Len(b) :
             (a \o b)[i] = IF i <= Len(a) THEN a[i] ELSE b[i - Len(a)]
    BY <2>2, ConcatProperties
  <2>4. /\ RemoveAt(s, j) \in Seq(S) /\ Len(RemoveAt(s, j)) = (j - 1) + (Len(s) - j)
        /\ \A i \in 1 .. (j - 1) + (Len(s) - j) :
             RemoveAt(s, j)[i] = IF i <= j - 1 THEN a[i] ELSE b[i - (j - 1)]
    BY <2>1, <2>2, <2>3
  <2> QED
    BY <2>4 DEF a, b
<1>5. ASSUME NEW i \in 1 .. Len(s) - 1
      PROVE  RemoveAt(s, j)[i] = s[IF i < j THEN i ELSE i + 1]
  <2>2. CASE i < j
    BY <1>4, <2>2
  <2>3. CASE ~(i < j)
    <3>1. ~(i <= j - 1) /\ i - (j - 1) \in 1 .. Len(s) - j /\ j + (i - (j - 1)) = i + 1
      BY <2>3
    <3> QED
      BY <1>4, <3>1
  <2> QED
    BY <2>2, <2>3
<1> QED
  BY <1>4, <1>5

(* A node linked behind the last one is appended to the list. *)
LEMMA ListAppend ==
  ASSUME NEW ch, NEW nd, NEW h, IsList(ch, nd, h),
         NEW n \in Node, \A i \in 1 .. Len(ch) : ch[i] # n,
         NEW nd2, nd2[n].next = Null,
         \A i \in 1 .. Len(ch) : nd2[ch[i]].next = IF i = Len(ch) THEN n ELSE nd[ch[i]].next
  PROVE  IsList(Append(ch, n), nd2, IF ch = <<>> THEN n ELSE h)
<1>1. /\ Append(ch, n) \in Seq(Node) /\ Len(Append(ch, n)) = Len(ch) + 1
      /\ \A i \in 1 .. Len(ch) : Append(ch, n)[i] = ch[i]
      /\ Append(ch, n)[Len(ch) + 1] = n
  BY DEF IsList
<1>2. Len(ch) \in Nat /\ (ch = <<>> <=> Len(ch) = 0)
  OBVIOUS
<1>4. (IF ch = <<>> THEN n ELSE h) = Append(ch, n)[1] /\ Append(ch, n) # <<>>
  <2>1. Append(ch, n) # <<>>
    BY SMTT(30), <1>1, <1>2, EmptySeq
  <2>2. CASE ch = <<>>
    BY <2>2
  <2>3. CASE ch # <<>>
    BY <2>1 DEF IsList
  <2> QED
    BY <2>2, <2>3
<1> QED
  BY <1>1, <1>4 DEF IsList

(* A list whose node j was unlinked is the list without it. *)
LEMMA ListRemove ==
  ASSUME NEW ch, NEW nd, NEW h, IsList(ch, nd, h), NEW j \in 1 .. Len(ch),
         NEW nd2,
         \A i \in 1 .. Len(ch) :
           nd2[ch[i]].next = IF i = j - 1 THEN nd[ch[j]].next ELSE nd[ch[i]].next
  PROVE  IsList(RemoveAt(ch, j), nd2, IF j = 1 THEN nd[ch[1]].next ELSE h)
<1> DEFINE rest == RemoveAt(ch, j)
<1>1. /\ rest \in Seq(Node) /\ Len(rest) = Len(ch) - 1 /\ Len(ch) \in Nat
      /\ \A i \in 1 .. Len(ch) - 1 : rest[i] = ch[IF i < j THEN i ELSE i + 1]
  BY RemoveAtProperties, LenProperties DEF IsList
<1> HIDE DEF rest
<1>3. \A i, k \in 1 .. Len(rest) : rest[i] = rest[k] => i = k
  <2>1. ASSUME NEW i \in 1 .. Len(rest), NEW k \in 1 .. Len(rest), rest[i] = rest[k]
        PROVE  i = k
    <3>1. (IF i < j THEN i ELSE i + 1) = (IF k < j THEN k ELSE k + 1)
      <4>1. /\ (IF i < j THEN i ELSE i + 1) \in 1 .. Len(ch)
            /\ (IF k < j THEN k ELSE k + 1) \in 1 .. Len(ch)
        BY <1>1
      <4> QED
        BY SMTT(30), <1>1, <2>1, <4>1 DEF IsList
    <3> QED
      BY <3>1
  <2> QED
    BY <2>1
<1>5. ASSUME NEW i \in 1 .. Len(rest)
      PROVE  nd2[rest[i]].next = IF i = Len(rest) THEN Null ELSE rest[i + 1]
  <2>1. CASE i < j - 1
    <3>1. /\ i \in 1 .. Len(ch) /\ i # j - 1 /\ i # Len(ch) /\ i + 1 < j /\ i < j
          /\ i \in 1 .. Len(ch) - 1 /\ i + 1 \in 1 .. Len(ch) - 1 /\ i # Len(ch) - 1
      BY <2>1
    <3>2. rest[i] = ch[i] /\ rest[i + 1] = ch[i + 1] /\ nd[ch[i]].next = ch[i + 1]
      BY <1>1, <3>1 DEF IsList
    <3> QED
      BY <1>1, <3>1, <3>2
  <2>2. CASE i = j - 1
    <3>1. /\ i \in 1 .. Len(ch) - 1 /\ i \in 1 .. Len(ch) /\ i < j /\ i + 1 = j
      BY <2>2
    <3>2. rest[i] = ch[i] /\ nd2[ch[i]].next = nd[ch[j]].next
      BY <1>1, <2>2
    <3>3. CASE j = Len(ch)
      BY <1>1, <2>2 DEF IsList
    <3>4. CASE j # Len(ch)
      <4>1. j \in 1 .. Len(ch) - 1 /\ ~(j < j) /\ i # Len(ch) - 1
        BY <3>4, <2>2
      <4>2. rest[i + 1] = ch[j + 1] /\ nd[ch[j]].next = ch[j + 1]
        BY <1>1, <3>1, <3>4 DEF IsList
      <4> QED
        BY <1>1, <3>2, <4>1, <4>2
    <3> QED
      BY <3>3, <3>4
  <2>3. CASE i > j - 1
    <3>1. /\ i \in 1 .. Len(ch) - 1 /\ i + 1 \in 1 .. Len(ch) /\ ~(i < j) /\ i + 1 # j - 1
      BY <1>1, <2>3
    <3>2. rest[i] = ch[i + 1] /\ nd2[ch[i + 1]].next = nd[ch[i + 1]].next
      BY <1>1, <3>1
    <3>3. CASE i = Len(rest)
      BY <1>1, <3>3 DEF IsList
    <3>4. CASE i # Len(rest)
      <4>1. i + 1 \in 1 .. Len(ch) - 1 /\ ~(i + 1 < j) /\ i + 1 # Len(ch)
        BY <1>1, <3>1, <3>4
      <4>2. rest[i + 1] = ch[(i + 1) + 1] /\ nd[ch[i + 1]].next = ch[(i + 1) + 1]
        BY <1>1, <3>1, <4>1 DEF IsList
      <4> QED
        BY <3>2, <3>4, <4>2
    <3> QED
      BY <3>3, <3>4
  <2> QED
    BY <2>1, <2>2, <2>3
<1> QED
  BY <1>1, <1>3, <1>5 DEF IsList, rest

-----------------------------------------------------------------------------
(* What Link makes of the list. *)
Grown(t) ==
  LET n == Head(free)
  IN  /\ IsList(Append(Chain, n), node', head') /\ Chain' = Append(Chain, n)
      /\ Chain' \in Seq(Node) /\ Len(Chain') = Len(Chain) + 1
      /\ \A i \in 1 .. Len(Chain) :
           /\ Chain'[i] = Chain[i] /\ Chain[i] # n
           /\ node'[Chain[i]].user = node[Chain[i]].user
           /\ node'[Chain[i]].prev = node[Chain[i]].prev
      /\ Chain'[Len(Chain) + 1] = n /\ n \in Node
      /\ node'[n].user = want[t] /\ want[t] \in User
      /\ node'[n].prev = IF Chain = <<>> THEN Null ELSE Chain[Len(Chain)]
      /\ head' = (IF Chain = <<>> THEN n ELSE head) /\ tail' = n
      /\ Len(Chain) \in Nat /\ (Chain = <<>> <=> Len(Chain) = 0) /\ count = Len(Chain)
      /\ Tail(free) \in Seq(Node) /\ free \in Seq(Node) /\ Len(free) = Len(Tail(free)) + 1
      /\ \A i \in 1 .. Len(Tail(free)) : Tail(free)[i] = free[i + 1] 
      /\ n = free[1]

(* Link appends the node that was freed last. *)
LEMMA LinkGrows ==
  ASSUME UInv, NEW t \in Thread, Link(t)
  PROVE  Grown(t)
<1> DEFINE n == Head(free)
<1>1. /\ n \in Node /\ n = free[1] /\ Len(free) \in Nat \ {0} /\ free \in Seq(Node)
      /\ Tail(free) \in Seq(Node) /\ Len(free) = Len(Tail(free)) + 1
      /\ \A i \in 1 .. Len(Tail(free)) : Tail(free)[i] = free[i + 1] 
  <2>1. free \in Seq(Node) /\ free # <<>>
    BY DEF UInv, TypeOK, Link
  <2> QED
    BY <2>1
<1>2. \A i \in 1 .. Len(Chain) : Chain[i] # n /\ Chain[i] \in Node
  BY <1>1 DEF UInv, Freed, Shape, IsList
<1>3. count = Len(Chain) /\ Len(Chain) \in Nat /\ (Chain = <<>> <=> Len(Chain) = 0)
  BY DEF UInv, Counted, Link, Unlocked
<1>4. tail = IF count = 0 THEN Null ELSE Chain[Len(Chain)]
  BY <1>3 DEF UInv, Shape
<1>5. count # 0 => tail \in Node /\ tail # n
  BY <1>2, <1>3, <1>4
<1>6. NewNode(t) = [user |-> want[t], next |-> Null, prev |-> IF count = 0 THEN Null ELSE tail]
  BY DEF NewNode
<1>7. /\ DOMAIN node = Node
      /\ \A m \in Node :
           node[m] \in [user : User \cup {NoUser}, prev : Pointer, next : Pointer]
  BY DEF UInv, TypeOK
<1>8. /\ node'[n] = NewNode(t)
      /\ \A m \in Node : m # n /\ m # tail => node'[m] = node[m]
      /\ count = 0 => \A m \in Node : m # n => node'[m] = node[m]
      /\ count # 0 => node'[tail] = [node[tail] EXCEPT !.next = n]
  <2>1. node' = IF count = 0 THEN [node EXCEPT ![n] = NewNode(t)]
                ELSE [node EXCEPT ![n] = NewNode(t), ![tail].next = n]
    BY DEF Link
  <2> HIDE DEF n
  <2> QED
    BY <1>1, <1>5, <1>7, <2>1
<1> HIDE DEF n
<1>9. \A i \in 1 .. Len(Chain) :
         /\ node'[Chain[i]].user = node[Chain[i]].user
         /\ node'[Chain[i]].prev = node[Chain[i]].prev
         /\ node'[Chain[i]].next = IF i = Len(Chain) THEN n ELSE node[Chain[i]].next
  <2>1. ASSUME NEW i \in 1 .. Len(Chain), i # Len(Chain)
        PROVE  Chain[i] # tail /\ Chain[i] \in Node /\ Chain[i] # n
    BY <1>2, <2>1 DEF UInv, Shape, IsList
  <2>2. ASSUME NEW i \in 1 .. Len(Chain), i = Len(Chain)
        PROVE  Chain[i] = tail /\ tail \in Node /\ count # 0
    BY <1>3, <1>4, <1>5, <2>2
  <2> QED
    BY <1>7, <1>8, <2>1, <2>2
<1>10. /\ node'[n].user = want[t] /\ node'[n].next = Null
       /\ node'[n].prev = IF Chain = <<>> THEN Null ELSE Chain[Len(Chain)]
  BY <1>3, <1>4, <1>6, <1>8
<1>11. head' = (IF Chain = <<>> THEN n ELSE head) /\ tail' = n
  BY <1>3 DEF Link, n
<1>12. IsList(Append(Chain, n), node', head')
  <2>1. IsList(Chain, node, head)
    BY DEF UInv, Shape
  <2> QED
    BY <1>1, <1>2, <1>9, <1>10, <1>11, <2>1, ListAppend
<1>13. Chain' = Append(Chain, n)
  BY <1>12, ChainOf
<1>14. /\ Append(Chain, n) \in Seq(Node) /\ Len(Append(Chain, n)) = Len(Chain) + 1
       /\ \A i \in 1 .. Len(Chain) : Append(Chain, n)[i] = Chain[i]
       /\ Append(Chain, n)[Len(Chain) + 1] = n
  BY <1>1 DEF UInv, Shape, IsList
<1>15. want[t] \in User
  BY DEF UInv, Wanted, Link, Goto
<1> QED
  BY <1>1, <1>2, <1>3, <1>9, <1>10, <1>11, <1>12, <1>13, <1>14, <1>15 DEF Grown

(* UInv is kept by linking a node. *)
LEMMA LinkStep ==
  ASSUME UInv, NEW t \in Thread, Link(t)
  PROVE  UInv'
<1>1. Grown(t)
  BY LinkGrows
<1> DEFINE n == Head(free)
           k == Len(Chain)
<1>2. /\ k \in Nat /\ Len(Chain') = k + 1
      /\ \A i \in 1 .. k : Chain'[i] = Chain[i] /\ node'[Chain[i]].user = node[Chain[i]].user
      /\ Chain'[k + 1] = n /\ node'[n].user = want[t] /\ want[t] \in User
  BY <1>1 DEF Grown
<1> HIDE DEF n, k
<1>3. /\ pc[t] = "link" /\ pc'[t] = "count" /\ pc[Comm] = pc'[Comm] /\ lock = NoThread /\ lock' = t
      /\ \A r \in Reader : r # t => pc'[r] = pc[r]
      /\ t # Comm /\ t # NoThread /\ t # Main
      /\ doubled' = [s \in Thread |->
                       doubled[s] \/ (s # t /\ pc[s] # "idle" /\ want[s] = want[t])]
      /\ UNCHANGED <<count, want, copy, disturbed, logins, cur, leaving, due, told, segv>>
  BY ThreadAssumption DEF UInv, TypeOK, Link, Goto, Unlocked, Reader, reading,
     walking
<1>4. TypeOK'
  <2>1. node' \in [Node -> [user : User \cup {NoUser}, prev : Pointer, next : Pointer]]
    <3>1. NewNode(t) \in [user : User \cup {NoUser}, prev : Pointer, next : Pointer]
      BY DEF UInv, TypeOK, NewNode, Pointer
    <3>2. n \in Node /\ n \in Pointer
      BY <1>1 DEF Grown, n, Pointer
    <3>3. node' = IF count = 0 THEN [node EXCEPT ![n] = NewNode(t)]
                  ELSE [node EXCEPT ![n] = NewNode(t), ![tail].next = n]
      BY DEF Link, n
    <3> QED
      BY <3>1, <3>2, <3>3 DEF UInv, TypeOK
  <2>2. head' \in Pointer /\ tail' \in Pointer /\ free' \in Seq(Node)
    BY DEF UInv, TypeOK, Link, Pointer
  <2>3. pc' \in [Reader \cup {Comm} ->
               {"idle", "copyHead", "copyCount", "walk", "link", "count",
                "deleteHead", "unlink", "uncount", "tellHead", "tell"}]
    BY DEF UInv, TypeOK, Link, Goto
  <2> QED
    BY <1>3, <2>1, <2>2, <2>3 DEF UInv, TypeOK
<1>5. Places'
  BY <1>3 DEF UInv, Places, Reader
<1>6. Shape'
  <2>1. IsList(Chain', node', head')
    BY <1>1 DEF Grown
  <2>2. Chain' # <<>> /\ tail' = Chain'[Len(Chain')]
    BY <1>1 DEF Grown
  <2>3. ASSUME NEW i \in 1 .. Len(Chain')
        PROVE  /\ node'[Chain'[i]].prev = IF i = 1 THEN Null ELSE Chain'[i - 1]
               /\ node'[Chain'[i]].user \in User
    <3>1. CASE i = Len(Chain) + 1
      BY <1>1, <3>1 DEF Grown
    <3>2. CASE i # Len(Chain) + 1
      BY SMTT(30), <1>1 DEF Grown, UInv, Shape
    <3> QED
      BY <3>1, <3>2
  <2> QED
    BY <2>1, <2>2, <2>3 DEF Shape
<1>7. Freed'
  <2>1. free' = Tail(free) /\ free[1] = n
    BY DEF Link, n
  <2>2. \A i \in 1 .. Len(free') : /\ free'[i] = free[i + 1] /\ i + 1 \in 1 .. Len(free)
                                   /\ i + 1 # 1 /\ 1 \in 1 .. Len(free)
    BY <2>1
  <2>3. \A i, j \in 1 .. Len(free') : free'[i] = free'[j] => i = j
    BY <2>2 DEF UInv, Freed
  <2>4. \A i \in 1 .. Len(free') : free'[i] # n
    BY <2>1 DEF UInv, Freed
  <2>5. \A i \in 1 .. Len(free'), j \in 1 .. Len(Chain') : free'[i] # Chain'[j]
    <3>1. ASSUME NEW i \in 1 .. Len(free'), NEW j \in 1 .. k + 1, j # k + 1
          PROVE  free'[i] # Chain'[j]
      <4>1. j \in 1 .. k
        BY <1>2, <3>1
      <4>2. Chain'[j] = Chain[j] /\ free'[i] = free[i + 1] /\ i + 1 \in 1 .. Len(free)
        BY <1>2, <2>2, <4>1
      <4> QED
        BY <4>1, <4>2 DEF UInv, Freed, k
    <3> QED
      BY <1>2, <2>4, <3>1
  <2>6. pc[Comm] # "uncount"
    BY <1>3, ThreadAssumption DEF UInv, Locked
  <2> QED
    BY <1>3, <2>3, <2>5, <2>6 DEF Freed
<1>8. Locked'
  BY <1>3, ThreadAssumption DEF UInv, Locked, Reader
<1>9. Counted'
  BY <1>1, <1>3 DEF Grown, Counted
<1>10. Leaves'
  <2>1. pc[Comm] \in {"deleteHead", "unlink"} => head' = head
    BY <1>1 DEF Grown, UInv, Leaves
  <2> QED
    BY <1>2, <1>3, <2>1 DEF UInv, Leaves, k
<1>11. Wanted'
  BY <1>3 DEF UInv, Wanted, Reader
<1>12. Copied'
  <2>1. head \in {Null, head'}
    BY <1>1 DEF Grown, UInv, Shape, IsList
  <2>2. copy \in [Reader -> [head : Pointer, count : 0 .. MaxNode]]
    BY DEF UInv, TypeOK
  <2> QED
    BY <1>2, <1>3, <2>1, <2>2 DEF UInv, Copied, k
<1>13. Unseen'
  <2>1. \A s \in Thread : ~doubled'[s] =>
          /\ ~doubled[s]
          /\ s # t /\ pc[s] # "idle" => want[s] # want[t]
    BY <1>3
  <2> QED
    BY <1>2, <1>3, <2>1 DEF UInv, Unseen, k, Reader
<1>14. Telling'
  <2>1. ASSUME pc[Comm] = "tell" PROVE Telling'
    <3>1. PICK m \in 0 .. k :
            /\ \A u : u \in told <=> \E i \in 1 .. m : node[Chain[i]].user = u
            /\ \A u \in due : \E i \in 1 .. k : node[Chain[i]].user = u
            /\ cur = Null => due \subseteq told
            /\ cur # Null => m < k /\ cur = Chain[m + 1]
      BY <2>1 DEF UInv, Telling, k
    <3>2. \A u : u \in told' <=> \E i \in 1 .. m : node'[Chain'[i]].user = u
      BY <1>2, <1>3, <3>1
    <3>3. \A u \in due' : \E i \in 1 .. Len(Chain') : node'[Chain'[i]].user = u
      BY <1>2, <1>3, <3>1
    <3>4. cur # Null => m < Len(Chain') /\ cur = Chain'[m + 1]
      BY <1>2, <3>1
    <3>5. m \in 0 .. Len(Chain')
      BY <1>2
    <3> QED
      BY <1>3, <3>1, <3>2, <3>3, <3>4, <3>5 DEF Telling
  <2> QED
    BY <1>3, <2>1 DEF Telling
<1> QED
  BY <1>4, <1>5, <1>6, <1>7, <1>8, <1>9, <1>10, <1>11, <1>12, <1>13, <1>14 DEF UInv

-----------------------------------------------------------------------------
(* UInv is kept by counting it. *)
LEMMA CountUpStep ==
  ASSUME UInv, NEW t \in Thread, CountUp(t)
  PROVE  UInv'
<1>1. /\ pc[t] = "count" /\ pc'[t] = "idle" /\ pc'[Comm] = pc[Comm] /\ lock = t /\ lock' = NoThread
      /\ \A r \in Reader : r # t => /\ pc'[r] = pc[r] /\ copy'[r] = copy[r]
                                    /\ disturbed'[r] = disturbed[r]
      /\ \A s \in Thread : s # t => want'[s] = want[s] /\ doubled'[s] = doubled[s]
      /\ t # Comm /\ t # NoThread /\ t # Main /\ count' = count + 1
      /\ UNCHANGED <<head, tail, node, free, logins, cur, leaving, due, told, segv>>
  BY ThreadAssumption DEF UInv, TypeOK, CountUp, Goto, Return, Reader, walking,
     Locked
<1>2. UNCHANGED Chain
  BY <1>1, SameChain
<1>3. count + 1 = Len(Chain) /\ Len(Chain) \in 0 .. MaxNode
  BY <1>1, WalkOfHead DEF UInv, Counted
<1>4. TypeOK'
  <2>1. /\ pc' \in [Reader \cup {Comm} ->
               {"idle", "copyHead", "copyCount", "walk", "link", "count",
                "deleteHead", "unlink", "uncount", "tellHead", "tell"}]
        /\ want' \in [Thread -> User \cup {NoUser}]
        /\ copy' \in [Reader -> [head : Pointer, count : 0 .. MaxNode]]
        /\ disturbed' \in [Reader -> BOOLEAN]
        /\ doubled' \in [Thread -> BOOLEAN]
    BY NoCopyOK DEF UInv, TypeOK, CountUp, Goto, Return
  <2>2. count' \in 0 .. MaxNode
    BY <1>1, <1>3
  <2> QED
    BY <1>1, <2>1, <2>2 DEF UInv, TypeOK
<1>5. Places'
  BY <1>1 DEF UInv, Places, Reader
<1>6. Shape'
  BY <1>1, <1>2 DEF UInv, Shape
<1>7. Freed'
  BY <1>1, <1>2 DEF UInv, Freed
<1>8. Locked'
  BY <1>1, ThreadAssumption DEF UInv, Locked, Reader
<1>9. Counted'
  BY <1>1, <1>2, <1>3, ThreadAssumption DEF Counted
<1>10. Leaves'
  BY <1>1, <1>2 DEF UInv, Leaves
<1>11. Wanted'
  BY <1>1, ThreadAssumption DEF UInv, Wanted, Reader
<1>12. Copied'
  BY <1>1, <1>2, ThreadAssumption DEF UInv, Copied
<1>13. Unseen'
  BY <1>1, <1>2 DEF UInv, Unseen, Reader
<1>14. Telling'
  BY <1>1, <1>2, TellingKept DEF UInv
<1> QED
  BY <1>4, <1>5, <1>6, <1>7, <1>8, <1>9, <1>10, <1>11, <1>12, <1>13, <1>14 DEF UInv

(* free() writes over a node that is out of the list already. *)
LEMMA UncountKeeps ==
  ASSUME UInv, Uncount
  PROVE  /\ UNCHANGED Chain
         /\ \A j \in 1 .. Len(Chain) : node'[Chain[j]] = node[Chain[j]]
         /\ IsList(Chain, node', head')
         /\ cur \in Node /\ free \in Seq(Node)
         /\ \A i \in 1 .. Len(free) : free[i] # cur
         /\ \A j \in 1 .. Len(Chain) : Chain[j] # cur
         /\ node' \in [Node -> [user : User \cup {NoUser}, prev : Pointer, next : Pointer]]
<1>1. pc[Comm] = "uncount" /\ head' = head
  BY DEF Uncount, Goto
<1>2. /\ cur \in Node /\ free \in Seq(Node)
      /\ \A i \in 1 .. Len(free) : free[i] # cur
      /\ \A j \in 1 .. Len(Chain) : Chain[j] # cur /\ Chain[j] \in Node
  BY <1>1 DEF UInv, TypeOK, Freed, Shape, IsList
<1>3. /\ \A m \in Node : m # cur => node'[m] = node[m]
      /\ node' \in [Node -> [user : User \cup {NoUser}, prev : Pointer, next : Pointer]]
  <2>1. node[cur] \in [user : User \cup {NoUser}, prev : Pointer, next : Pointer]
    BY <1>2 DEF UInv, TypeOK
  <2>2. [user |-> NoUser, prev |-> Null, next |-> node[cur].next]
          \in [user : User \cup {NoUser}, prev : Pointer, next : Pointer]
    BY <2>1 DEF Pointer
  <2>3. node' = [node EXCEPT ![cur] = [user |-> NoUser, prev |-> Null, next |-> node[cur].next]]
    BY DEF Uncount
  <2> QED
    BY <1>2, <2>2, <2>3 DEF UInv, TypeOK
<1>4. \A j \in 1 .. Len(Chain) : node'[Chain[j]] = node[Chain[j]]
  BY <1>2, <1>3
<1>5. IsList(Chain, node', head') /\ Chain' = Chain
  <2>1. IsList(Chain, node', head')
    BY <1>1, <1>4 DEF UInv, Shape, IsList
  <2> QED
    BY <2>1, ChainOf
<1> QED
  BY <1>2, <1>3, <1>5

(* UInv is kept by freeing the node. *)
LEMMA UncountStep ==
  ASSUME UInv, Uncount
  PROVE  UInv'
<1>1. /\ pc[Comm] = "uncount" /\ pc'[Comm] = "tellHead" /\ lock = Comm /\ lock' = NoThread
      /\ \A r \in Reader : pc'[r] = pc[r]
      /\ count' = count - 1 /\ free' = <<cur>> \o free
      /\ UNCHANGED <<head, tail, want, copy, disturbed, doubled, logins>>
      /\ UNCHANGED <<cur, leaving, due, told, segv>>
  BY ThreadAssumption DEF UInv, TypeOK, Uncount, Goto, Reader, walking, reading,
     Locked
<1>2. /\ cur \in Node /\ free \in Seq(Node)
      /\ \A i \in 1 .. Len(free) : free[i] # cur
      /\ \A j \in 1 .. Len(Chain) : Chain[j] # cur
  BY UncountKeeps
<1>3. node' \in [Node -> [user : User \cup {NoUser}, prev : Pointer, next : Pointer]]
  BY UncountKeeps
<1>4. \A j \in 1 .. Len(Chain) : node'[Chain[j]] = node[Chain[j]]
  BY UncountKeeps
<1>5. IsList(Chain, node', head') /\ Chain' = Chain
  BY UncountKeeps
<1>6. count = Len(Chain) + 1 /\ Len(Chain) \in 0 .. MaxNode
  BY <1>1, WalkOfHead DEF UInv, Counted
<1>7. /\ free' \in Seq(Node) /\ Len(free') = Len(free) + 1 /\ Len(free) \in Nat
      /\ \A i \in 1 .. Len(free') : free'[i] = IF i = 1 THEN cur ELSE free[i - 1]
  <2>2. /\ <<cur>> \o free \in Seq(Node) /\ Len(<<cur>> \o free) = 1 + Len(free)
        /\ \A i \in 1 .. 1 + Len(free) :
             (<<cur>> \o free)[i] = IF i <= 1 THEN <<cur>>[i] ELSE free[i - 1]
    BY <1>2
  <2> QED
    BY <1>1, <2>2
<1>8. TypeOK'
  <2>1. pc' \in [Reader \cup {Comm} ->
               {"idle", "copyHead", "copyCount", "walk", "link", "count",
                "deleteHead", "unlink", "uncount", "tellHead", "tell"}]
    BY DEF UInv, TypeOK, Uncount, Goto
  <2>2. count' \in 0 .. MaxNode
    BY <1>1, <1>6
  <2> QED
    BY <1>1, <1>3, <1>7, <2>1, <2>2 DEF UInv, TypeOK
<1>9. Places'
  BY <1>1 DEF UInv, Places, Reader
<1>10. Shape'
  BY <1>1, <1>4, <1>5 DEF UInv, Shape
<1>11. Freed'
  <2>1. \A i \in 1 .. Len(free') :
          i # 1 => i - 1 \in 1 .. Len(free) /\ free'[i] = free[i - 1] /\ i \in Nat
    BY <1>7
  <2>2. 1 \in 1 .. Len(free') /\ free'[1] = cur
    BY <1>7
  <2>3. ASSUME NEW i \in 1 .. Len(free'), NEW j \in 1 .. Len(free'), free'[i] = free'[j]
        PROVE  i = j
    <3>1. CASE i = 1 \/ j = 1
      BY <1>2, <2>1, <2>2, <2>3, <3>1
    <3>2. CASE i # 1 /\ j # 1
      <4>1. i - 1 = j - 1
        BY <2>1, <2>3, <3>2 DEF UInv, Freed
      <4> QED
        BY <4>1
    <3> QED
      BY <3>1, <3>2
  <2>4. ASSUME NEW i \in 1 .. Len(free'), NEW j \in 1 .. Len(Chain)
        PROVE  free'[i] # Chain[j]
    <3>1. CASE i = 1
      BY <1>2, <2>2, <3>1
    <3>2. CASE i # 1
      BY <2>1, <3>2 DEF UInv, Freed
    <3> QED
      BY <3>1, <3>2
  <2> QED
    BY <1>1, <1>5, <2>3, <2>4 DEF Freed
<1>12. Locked'
  BY <1>1, ThreadAssumption DEF UInv, Locked, Reader
<1>13. Counted'
  BY <1>1, <1>5, <1>6, ThreadAssumption DEF Counted
<1>14. Leaves'
  BY <1>1 DEF Leaves
<1>15. Wanted'
  BY <1>1, ThreadAssumption DEF UInv, Wanted, Reader
<1>16. Copied'
  BY <1>1 DEF UInv, Copied
<1>17. Unseen'
  BY <1>1, <1>4, <1>5 DEF UInv, Unseen, Reader
<1>18. Telling'
  BY <1>1 DEF Telling
<1> QED
  BY <1>8, <1>9, <1>10, <1>11, <1>12, <1>13, <1>14, <1>15, <1>16, <1>17, <1>18 DEF
     UInv

(* What Unlink makes of the list, whose j-th node it takes out. *)
Shrunk(j) ==
  /\ j \in 1 .. Len(Chain)
  /\ node[Chain[j]].user = leaving
  /\ \A i \in 1 .. j - 1 : node[Chain[i]].user # leaving
  /\ IsList(RemoveAt(Chain, j), node', head') /\ Chain' = RemoveAt(Chain, j)
  /\ cur' = Chain[j]
  /\ Chain' \in Seq(Node) /\ Len(Chain') = Len(Chain) - 1
  /\ \A i \in 1 .. Len(Chain) - 1 : Chain'[i] = Chain[IF i < j THEN i ELSE i + 1]
  /\ \A m \in Node : node'[m].user = node[m].user
  /\ node' = UnlinkedNodes(Chain[j])
  /\ tail' = IF Chain[j] = tail THEN node[Chain[j]].prev ELSE tail
  /\ Len(Chain) \in Nat /\ count = Len(Chain)

(* Unlink takes the first node of the user that leaves out of the list. *)
LEMMA UnlinkShrinks ==
  ASSUME UInv, Unlink
  PROVE  \E j \in 1 .. Len(Chain) : Shrunk(j)
<1>1. /\ pc[Comm] = "unlink" /\ lock = NoThread /\ cur = head /\ count = Len(Chain)
      /\ Len(Chain) \in 0 .. MaxNode /\ Walk(cur) = Along(Chain)
      /\ \A i \in 1 .. Len(Chain) : Chain[i] \in Node
      /\ IsList(Chain, node, head)
  <2>1. pc[Comm] = "unlink" /\ lock = NoThread
    BY DEF Unlink, Unlocked, Goto
  <2>2. cur = head
    BY <2>1 DEF UInv, Leaves
  <2>3. count = Len(Chain)
    BY <2>1, ThreadAssumption DEF UInv, Counted
  <2>4. Len(Chain) \in 0 .. MaxNode /\ Walk(cur) = Along(Chain)
    BY <2>2, WalkOfHead DEF UInv
  <2>5. IsList(Chain, node, head)
    BY DEF UInv, Shape
  <2>6. \A i \in 1 .. Len(Chain) : Chain[i] \in Node
    BY <2>5 DEF IsList
  <2> QED
    BY <2>1, <2>2, <2>3, <2>4, <2>5, <2>6
<1>2. \A i \in 1 .. Len(Chain) : Along(Chain)[i] = Chain[i]
  BY <1>1, BoundAssumption DEF Along
<1> DEFINE Fits(j) == /\ node[Chain[j]].user = leaving
                      /\ \A i \in 1 .. j - 1 : node[Chain[i]].user # leaving
<1>3. \E j \in 1 .. Len(Chain) : Fits(j)
  <2> DEFINE T == {i \in 1 .. Len(Chain) : node[Chain[i]].user = leaving}
  <2>1. T # {} /\ T \in SUBSET Nat
    BY <1>1 DEF UInv, Leaves
  <2>2. PICK j \in T : \A i \in T : j <= i
    BY <2>1, Least
  <2> QED
    BY <2>2
<1>4. PICK j \in 1 .. Len(Chain) : Fits(j) /\ Match(cur) = Chain[j]
  <2> DEFINE P(j) == /\ node[Along(Chain)[j]].user = leaving
                     /\ \A i \in 1 .. j - 1 : node[Along(Chain)[i]].user # leaving
             q == CHOOSE j \in 1 .. count : P(j)
  <2>1. Match(cur) = Along(Chain)[q]
    BY <1>1 DEF Match
  <2>2. \A j \in 1 .. Len(Chain) : P(j) <=> Fits(j)
    BY <1>2
  <2> HIDE DEF P, Fits
  <2>3. \E j \in 1 .. count : P(j)
    BY <1>1, <1>3, <2>2
  <2>4. q \in 1 .. count /\ P(q)
    BY <2>3, Zenon
  <2> HIDE DEF q
  <2> QED
    BY <1>1, <1>2, <2>1, <2>2, <2>4
<1> DEFINE n == Chain[j]
<1>5. /\ n \in Node /\ cur' = n /\ node' = UnlinkedNodes(n)
      /\ head' = IF n = head THEN node[n].next ELSE head
      /\ tail' = IF n = tail THEN node[n].prev ELSE tail
  BY <1>1, <1>4 DEF Unlink
<1>6. /\ \A m \in Node :
           node'[m] = [node[m] EXCEPT !.next = IF m = node[n].prev THEN node[n].next ELSE @,
                                      !.prev = IF m = node[n].next THEN node[n].prev ELSE @]
      /\ \A m \in Node : node[m] \in [user : User \cup {NoUser}, prev : Pointer, next : Pointer]
  BY <1>5 DEF UnlinkedNodes, UInv, TypeOK
<1>7. \A m \in Node : /\ node'[m].user = node[m].user
                      /\ node'[m].next = IF m = node[n].prev THEN node[n].next ELSE node[m].next
  <2>1. ASSUME NEW m \in Node
        PROVE  /\ node'[m].user = node[m].user
               /\ node'[m].next = IF m = node[n].prev THEN node[n].next ELSE node[m].next
    <3> HIDE DEF n
    <3>1. /\ node[m] \in [user : User \cup {NoUser}, prev : Pointer, next : Pointer]
          /\ node'[m] = [node[m] EXCEPT !.next = IF m = node[n].prev THEN node[n].next ELSE @,
                                        !.prev = IF m = node[n].next THEN node[n].prev ELSE @]
      BY <1>6
    <3> QED
      BY <3>1
  <2> QED
    BY <2>1
<1>8. \A i \in 1 .. Len(Chain) : Chain[i] = node[n].prev <=> i = j - 1
  <2>1. node[n].prev = IF j = 1 THEN Null ELSE Chain[j - 1]
    BY DEF UInv, Shape
  <2> QED
    BY SMTT(30), <1>1, <2>1 DEF IsList, Node, Null
<1>9. head' = IF j = 1 THEN node[Chain[1]].next ELSE head
  BY <1>1, <1>5 DEF IsList
<1>10. IsList(RemoveAt(Chain, j), node', head')
  <2>1. \A i \in 1 .. Len(Chain) :
          node'[Chain[i]].next = IF i = j - 1 THEN node[Chain[j]].next ELSE node[Chain[i]].next
    BY <1>1, <1>7, <1>8
  <2> QED
    BY <1>1, <1>9, <2>1, ListRemove
<1>11. Chain' = RemoveAt(Chain, j)
  BY <1>10, ChainOf
<1>12. /\ RemoveAt(Chain, j) \in Seq(Node) /\ Len(RemoveAt(Chain, j)) = Len(Chain) - 1
       /\ \A i \in 1 .. Len(Chain) - 1 : RemoveAt(Chain, j)[i] = Chain[IF i < j THEN i ELSE i + 1]
  BY <1>1, RemoveAtProperties DEF IsList
<1> QED
  BY <1>1, <1>4, <1>5, <1>7, <1>10, <1>11, <1>12 DEF Shrunk

(* UInv is kept by unlinking a node. *)
LEMMA UnlinkStep ==
  ASSUME UInv, Unlink
  PROVE  UInv'
<1>1. PICK j \in 1 .. Len(Chain) : Shrunk(j)
  BY UnlinkShrinks
<1>2. /\ pc[Comm] = "unlink" /\ pc'[Comm] = "uncount" /\ lock = NoThread /\ lock' = Comm
      /\ \A r \in Reader : pc'[r] = pc[r]
      /\ \A r \in Reader : disturbed'[r] = (pc[r] # "idle")
      /\ UNCHANGED <<count, free, want, copy, doubled, logins, leaving, due, told, segv>>
  BY ThreadAssumption DEF UInv, TypeOK, Unlink, Unlocked, Goto, Reader
<1> DEFINE n == Chain[j]
           k == Len(Chain)
           old(i) == IF i < j THEN i ELSE i + 1
<1>3. /\ k \in Nat /\ Chain' \in Seq(Node) /\ Len(Chain') = k - 1
      /\ \A i \in 1 .. k - 1 : Chain'[i] = Chain[old(i)] /\ old(i) \in 1 .. k /\ old(i) # j
      /\ n \in Node /\ \A i \in 1 .. k : Chain[i] \in Node
  BY <1>1 DEF Shrunk, UInv, Shape, IsList
<1>4. /\ node[n].next = IF j = k THEN Null ELSE Chain[j + 1]
      /\ node[n].prev = IF j = 1 THEN Null ELSE Chain[j - 1]
      /\ \A m \in Node : node[m] \in [user : User \cup {NoUser}, prev : Pointer, next : Pointer]
  BY DEF UInv, TypeOK, Shape, IsList
<1>5. \A m \in Node :
         /\ node'[m] = [node[m] EXCEPT !.next = IF m = node[n].prev THEN node[n].next ELSE @,
                                       !.prev = IF m = node[n].next THEN node[n].prev ELSE @]
         /\ node'[m].user = node[m].user
         /\ node'[m].prev = IF m = node[n].next THEN node[n].prev ELSE node[m].prev
  BY ZenonT(40), <1>1, <1>4 DEF Shrunk, UnlinkedNodes
<1>6. TypeOK'
  <2>1. node' \in [Node -> [user : User \cup {NoUser}, prev : Pointer, next : Pointer]]
    <3>1. node' = [m \in Node |->
                     [node[m] EXCEPT !.next = IF m = node[n].prev THEN node[n].next ELSE @,
                                     !.prev = IF m = node[n].next THEN node[n].prev ELSE @]]
      BY <1>1 DEF Shrunk, UnlinkedNodes
    <3>2. node[n].prev \in Pointer /\ node[n].next \in Pointer
      BY <1>3, <1>4
    <3> QED
      BY ZenonT(40), <1>4, <3>1, <3>2
  <2>2. head' \in Pointer /\ tail' \in Pointer /\ cur' \in Pointer
    BY <1>3, <1>1 DEF Shrunk, UInv, TypeOK, Pointer, Unlink
  <2>3. pc' \in [Reader \cup {Comm} ->
               {"idle", "copyHead", "copyCount", "walk", "link", "count",
                "deleteHead", "unlink", "uncount", "tellHead", "tell"}]
        /\ disturbed' \in [Reader -> BOOLEAN]
    BY DEF UInv, TypeOK, Unlink, Goto
  <2> QED
    BY <1>2, <2>1, <2>2, <2>3 DEF UInv, TypeOK
<1>7. Places'
  BY <1>2 DEF UInv, Places, Reader
<1>8. Shape'
  <2>1. IsList(Chain', node', head')
    BY <1>1 DEF Shrunk
  <2>2. ASSUME NEW i \in 1 .. k - 1
        PROVE  /\ node'[Chain'[i]].prev = IF i = 1 THEN Null ELSE Chain'[i - 1]
               /\ node'[Chain'[i]].user \in User
    <3>1. /\ Chain'[i] = Chain[old(i)] /\ old(i) \in 1 .. k /\ Chain[old(i)] \in Node
          /\ node[Chain[old(i)]].user \in User
          /\ node[Chain[old(i)]].prev = IF old(i) = 1 THEN Null ELSE Chain[old(i) - 1]
      BY <1>3 DEF UInv, Shape
    <3>2. Chain[old(i)] = node[n].next <=> i = j
      <4>2. j # k => (Chain[old(i)] = Chain[j + 1] <=> old(i) = j + 1)
        BY DEF UInv, Shape, IsList
      <4> QED
        BY <1>4, <3>1, <4>2 DEF Node, Null
    <3>3. CASE i = j
      <4>1. i # 1 => Chain'[i - 1] = Chain[j - 1]
        BY SMTT(30), <1>3, <3>3
      <4>2. node'[Chain'[i]].prev = node[n].prev
        BY ZenonT(40), <1>5, <3>1, <3>2, <3>3
      <4>3. node'[Chain'[i]].user \in User
        BY ZenonT(40), <1>5, <3>1
      <4> QED
        BY <1>4, <3>3, <4>1, <4>2, <4>3
    <3>4. CASE i # j
      <4>1. i # 1 => Chain'[i - 1] = Chain[old(i) - 1]
        <5>1. i # 1 => i - 1 \in 1 .. k - 1 /\ old(i - 1) = old(i) - 1
          BY <3>4
        <5> QED
          BY <1>3, <5>1
      <4>2. old(i) = 1 <=> i = 1
        BY <3>4
      <4>3. node'[Chain'[i]].prev = node[Chain[old(i)]].prev
        BY ZenonT(40), <1>5, <3>1, <3>2, <3>4
      <4>4. node'[Chain'[i]].user \in User
        BY ZenonT(40), <1>5, <3>1
      <4> QED
        BY <3>1, <4>1, <4>2, <4>3, <4>4
    <3> QED
      BY <3>3, <3>4
  <2>3. tail' = IF Chain' = <<>> THEN Null ELSE Chain'[Len(Chain')]
    <3>1. tail = Chain[k] /\ k \in 1 .. k /\ (Chain[j] = tail <=> j = k)
      BY DEF UInv, Shape, IsList
    <3>3. tail' = IF Chain[j] = tail THEN node[Chain[j]].prev ELSE tail
      BY <1>1 DEF Shrunk
    <3>4. CASE k = 1
      BY <1>3, <1>4, <3>1, <3>3
    <3>5. CASE k # 1 /\ j = k
      BY <1>3, <1>4, <3>1, <3>3
    <3>6. CASE k # 1 /\ j # k
      BY <1>3, <1>4, <3>1, <3>3
    <3> QED
      BY <3>4, <3>5, <3>6
  <2> QED
    BY <1>3, <2>1, <2>2, <2>3 DEF Shape
<1>9. Freed'
  <2>1. cur' = n /\ \A i \in 1 .. k - 1 : Chain'[i] # n
    <3>1. cur' = n
      BY <1>1 DEF Shrunk
    <3>2. ASSUME NEW i \in 1 .. k - 1 PROVE Chain'[i] # n
      <4>1. Chain'[i] = Chain[old(i)] /\ old(i) \in 1 .. k /\ old(i) # j
        BY <1>3
      <4> QED
        BY <4>1 DEF UInv, Shape, IsList
    <3> QED
      BY <3>1, <3>2
  <2>2. ASSUME NEW i \in 1 .. Len(free), NEW j2 \in 1 .. k - 1 PROVE free[i] # Chain'[j2]
    <3>1. Chain'[j2] = Chain[old(j2)] /\ old(j2) \in 1 .. k
      BY <1>3
    <3> QED
      BY <3>1 DEF UInv, Freed
  <2> QED
    BY <1>2, <1>3, <2>1, <2>2 DEF UInv, Freed
<1>10. Locked'
  BY <1>2, ThreadAssumption DEF UInv, Locked, Reader
<1>11. Counted'
  BY <1>1, <1>2, ThreadAssumption DEF Shrunk, Counted
<1>12. Leaves'
  BY <1>2 DEF Leaves
<1>13. Wanted'
  BY <1>2 DEF UInv, Wanted, Reader
<1>14. Copied'
  BY <1>2 DEF Copied
<1>15. Unseen'
  BY <1>2 DEF Unseen, Reader
<1>16. Telling'
  BY <1>2 DEF Telling
<1> QED
  BY <1>6, <1>7, <1>8, <1>9, <1>10, <1>11, <1>12, <1>13, <1>14, <1>15, <1>16 DEF
     UInv

-----------------------------------------------------------------------------
(* The server starts with an empty list. *)
LEMMA InitUInv == Init => UInv
<1> SUFFICES ASSUME Init PROVE UInv
  OBVIOUS
<1>1. IsList(<<>>, node, head)
  BY DEF Init, IsList
<1>2. Chain = <<>> /\ Len(Chain) = 0
  BY <1>1, ChainOf
<1>4. TypeOK
  <2>2. copy \in [Reader -> [head : Pointer, count : 0 .. MaxNode]]
    BY NoCopyOK DEF Init
  <2> QED
    BY <2>2, BoundAssumption DEF Init, TypeOK, Pointer
<1>5. Places /\ Locked /\ Leaves /\ Wanted /\ Copied /\ Unseen /\ Telling
  BY ThreadAssumption DEF Init, Places, Locked, Leaves, Wanted, Copied, Unseen,
     Telling, Reader
<1>6. Shape
  BY <1>1, <1>2 DEF Shape, Init
<1>7. Freed
  BY <1>2 DEF Freed, Init
<1>8. Counted
  BY <1>2, ThreadAssumption DEF Counted, Init
<1> QED
  BY <1>4, <1>5, <1>6, <1>7, <1>8 DEF UInv

(* A step that changes nothing keeps the invariant. *)
LEMMA StutterUInv == UInv /\ UNCHANGED vars => UInv'
<1> SUFFICES ASSUME UInv, UNCHANGED vars PROVE UInv'
  OBVIOUS
<1>1. UNCHANGED Chain
  BY SameChain DEF vars, list
<1> QED
  <2>1. TypeOK' /\ Places' /\ Locked' /\ Wanted'
    BY DEF UInv, vars, list, reading, walking, TypeOK, Places, Locked, Wanted
  <2>2. Shape' /\ Freed' /\ Counted' /\ Leaves'
    BY <1>1 DEF UInv, vars, list, reading, walking, Shape, Freed, Counted, Leaves
  <2>3. Copied' /\ Unseen'
    BY <1>1 DEF UInv, vars, list, reading, Copied, Unseen
  <2>4. Telling'
    BY <1>1, TellingKept DEF UInv, vars, list, walking
  <2> QED
    BY <2>1, <2>2, <2>3, <2>4 DEF UInv

(* Every step keeps the invariant. *)
LEMMA NextUInv == UInv /\ [Next]_vars => UInv'
<1> SUFFICES ASSUME UInv, Next PROVE UInv'
  BY StutterUInv
<1>1. ASSUME NEW t \in Thread, LoginStep(t) PROVE UInv'
  <2>1. t \in Reader
    BY DEF Reader
  <2> QED
    BY <1>1, <2>1, CopyHeadStep, CopyCountStep, WalkOffStep, ExistYesStep,
       ExistNoStep, LinkStep, CountUpStep DEF LoginStep
<1>2. ASSUME NEW t \in Thread, NEW u \in User, StartInsert(t, u) PROVE UInv'
  BY <1>2, StartInsertStep
<1>3. ASSUME TypeUsers \/ MainStep PROVE UInv'
  <2>1. Main \in Reader
    BY DEF Reader
  <2> QED
    BY <1>3, <2>1, TypeUsersStep, CopyHeadStep, CopyCountStep, WalkOffStep,
       PrintWalkStep DEF MainStep
<1>4. ASSUME CommStep \/ ReceiveListu PROVE UInv'
  BY <1>4, DeleteHeadStep, UnlinkStep, UncountStep, WalkHeadStep, TellStep,
     TellEndStep DEF CommStep, TellHead, ReceiveListu
<1>5. ASSUME NEW u \in User, ReceiveBye(u) PROVE UInv'
  BY <1>5, ReceiveByeStep
<1> QED
  BY <1>1, <1>2, <1>3, <1>4, <1>5 DEF Next

(* UInv holds in every state. *)
THEOREM Invariant == Spec => []UInv
BY InitUInv, NextUInv, PTL DEF Spec

(* The list, the heap and the threads are of their types. *)
THEOREM TypeCorrect == Spec => []TypeOK
<1>1. UInv => TypeOK
  BY DEF UInv
<1> QED
  BY <1>1, Invariant, PTL

(* The list is sound in every state (ListShape): a login links a node and the
   communication thread unlinks one without either undoing the other. *)
THEOREM ListSound == Spec => []ListShape
<1>1. UInv => ListShape
  <2> SUFFICES ASSUME UInv PROVE ListShape
    OBVIOUS
  <2>1. /\ DOMAIN Chain = 1 .. Len(Chain) /\ Len(Chain) \in Nat
        /\ DOMAIN free = 1 .. Len(free)
    BY SMTT(30)
  <2>2. IsInjective(Chain)
    BY <2>1 DEF UInv, Shape, IsList, IsInjective
  <2>3. ToSet(Chain) \cap ToSet(free) = {}
    BY DEF UInv, Freed, ToSet
  <2>4. Unlocked => Len(Chain) = count
    BY DEF UInv, Counted, Unlocked
  <2>5. tail = IF Chain = <<>> THEN Null ELSE Last(Chain)
    BY DEF UInv, Shape, Last
  <2>6. \A i \in DOMAIN Chain : node[Chain[i]].prev = IF i = 1 THEN Null ELSE Chain[i - 1]
    BY DEF UInv, Shape
  <2> QED
    BY <2>2, <2>3, <2>4, <2>5, <2>6 DEF ListShape
<1> QED
  BY <1>1, Invariant, PTL

(* insertUser inserts a user that is not listed, unless one left during its
   check or another thread inserted that name meanwhile (InsertedIsNew). *)
THEOREM InsertsNew == Spec => []InsertedIsNew
<1>1. UInv => InsertedIsNew
  BY ListedUsers DEF UInv, Unseen, InsertedIsNew
<1> QED
  BY <1>1, Invariant, PTL

(* The walk of the communication thread without the lock comes to every user
   it is due to come to (WalkComplete). *)
THEOREM WalksComplete == Spec => []WalkComplete
<1>1. UInv => WalkComplete
  <2> SUFFICES ASSUME UInv, pc[Comm] = "tell", cur = Null
               PROVE  due \subseteq told /\ told \subseteq ToSet(Listed)
    BY DEF WalkComplete
  <2>1. PICK k \in 0 .. Len(Chain) :
          /\ \A u : u \in told <=> \E i \in 1 .. k : node[Chain[i]].user = u
          /\ due \subseteq told
    BY DEF UInv, Telling
  <2> QED
    BY <2>1, ListedUsers DEF UInv
<1> QED
  BY <1>1, Invariant, PTL

(* A reader leaves the list only because a user left, or because the list it
   copied was empty (WalkOffCause). *)
THEOREM WalkOffCaused == Spec => []WalkOffCause
<1>1. Init => WalkOffCause
  BY DEF Init, WalkOffCause, Alive
<1>2. UInv /\ WalkOffCause /\ [Next]_vars => WalkOffCause'
  <2> SUFFICES ASSUME UInv, WalkOffCause, Next PROVE WalkOffCause'
    BY DEF WalkOffCause, Alive, vars, reading
  <2>1. segv = NoThread
    BY DEF Next, Alive
  <2>2. ASSUME NEW r \in Reader, WalkOff(r) PROVE WalkOffCause'
    <3>1. /\ RunsOff(copy[r].head, copy[r].count) /\ pc[r] = "walk" /\ segv' = r
          /\ UNCHANGED <<copy, disturbed>>
      BY <2>2 DEF WalkOff, reading
    <3>2. disturbed[r] \/ copy[r].head = Null
      BY <3>1, ReaderOnList
    <3> QED
      BY <3>1, <3>2 DEF WalkOffCause
  <2>3. CASE segv' = segv
    BY <2>1, <2>3 DEF WalkOffCause, Alive
  <2>4. (\E r \in Reader : WalkOff(r)) \/ segv' = segv
    BY DEF Next, LoginStep, MainStep, CommStep, CopyHead, CopyCount, ExistYes,
       ExistNo, Link, CountUp, StartInsert, TypeUsers, PrintWalk, DeleteHead,
       Unlink, Uncount, TellHead, WalkHead, Tell, TellEnd, ReceiveListu, ReceiveBye,
       Reader
  <2> QED
    BY <2>2, <2>3, <2>4
<1> QED
  BY <1>1, <1>2, Invariant, PTL DEF Spec

(* The users of a list, in its order, are a sequence of users. *)
LEMMA ListedSeq ==
  ASSUME NEW ch \in Seq(Node), NEW nd, \A i \in 1 .. Len(ch) : nd[ch[i]].user \in User,
         NEW li, li = [i \in DOMAIN ch |-> nd[ch[i]].user]
  PROVE  /\ li \in Seq(User) /\ Len(li) = Len(ch)
         /\ \A i \in 1 .. Len(ch) : li[i] = nd[ch[i]].user
<1> QED
  OBVIOUS

(* RemoveFirst removes the first occurrence. *)
LEMMA RemoveFirstAt ==
  ASSUME NEW S, NEW s \in Seq(S), NEW e, NEW j \in 1 .. Len(s), s[j] = e,
         \A i \in 1 .. j - 1 : s[i] # e
  PROVE  RemoveFirst(s, e) = RemoveAt(s, j)
<1> DEFINE I == {i \in 1 .. Len(s) : s[i] = e}
<1>5. SelectInSeq(s, LAMBDA v : v = e) = j
  BY DEF SelectInSeq, Min
<1> QED
  BY <1>5 DEF RemoveFirst

(* Link is Join, Unlink is Leave, and no other step is seen in the roster. *)
LEMMA RosterStep == UInv /\ UInv' /\ [Next]_vars => [TheRoster!Next]_Listed
<1> SUFFICES ASSUME UInv, UInv', [Next]_vars PROVE [TheRoster!Next]_Listed
  OBVIOUS
<1>1. /\ Listed \in Seq(User) /\ Len(Listed) = Len(Chain)
      /\ \A i \in 1 .. Len(Chain) : Listed[i] = node[Chain[i]].user
  <2>1. Chain \in Seq(Node) /\ \A i \in 1 .. Len(Chain) : node[Chain[i]].user \in User
    BY DEF UInv, Shape, IsList
  <2>2. Listed = [i \in DOMAIN Chain |-> node[Chain[i]].user]
    BY DEF Listed
  <2> QED
    BY SMTT(30), <2>1, <2>2, ListedSeq
<1>2. /\ Listed' \in Seq(User) /\ Len(Listed') = Len(Chain')
      /\ \A i \in 1 .. Len(Chain') : Listed'[i] = node'[Chain'[i]].user
  <2>1. Chain' \in Seq(Node) /\ \A i \in 1 .. Len(Chain') : node'[Chain'[i]].user \in User
    BY DEF UInv, Shape, IsList
  <2>2. Listed' = [i \in DOMAIN Chain' |-> node'[Chain'[i]].user]
    BY DEF Listed
  <2> QED
    BY <2>1, <2>2
<1>3. ASSUME NEW t \in Thread, Link(t) PROVE TheRoster!Next
  <2>1. /\ want[t] \in User /\ Len(Chain') = Len(Chain) + 1 /\ Len(Chain) \in Nat
        /\ \A i \in 1 .. Len(Chain) :
             Chain'[i] = Chain[i] /\ node'[Chain[i]].user = node[Chain[i]].user
        /\ node'[Chain'[Len(Chain) + 1]].user = want[t]
    BY <1>3, LinkGrows DEF Grown
  <2>2. /\ Append(Listed, want[t]) \in Seq(User) /\ Len(Append(Listed, want[t])) = Len(Chain) + 1
        /\ \A i \in 1 .. Len(Chain) : Append(Listed, want[t])[i] = Listed[i]
        /\ Append(Listed, want[t])[Len(Chain) + 1] = want[t]
    BY <1>1, <2>1
  <2>3. ASSUME NEW i \in 1 .. Len(Chain) + 1 PROVE Listed'[i] = Append(Listed, want[t])[i]
    BY <1>1, <1>2, <2>1
  <2>4. Listed' = Append(Listed, want[t])
    BY <1>2, <2>1, <2>2, <2>3
  <2> QED
    BY <2>1, <2>4 DEF TheRoster!Next, TheRoster!Join
<1>4. ASSUME Unlink PROVE TheRoster!Next
  <2>1. PICK j \in 1 .. Len(Chain) : Shrunk(j)
    BY <1>4, UnlinkShrinks
  <2>2. Len(Chain) \in Nat /\ Len(Chain') = Len(Chain) - 1
    BY <2>1 DEF Shrunk
  <2>3. RemoveFirst(Listed, leaving) = RemoveAt(Listed, j)
    <3>1. Listed[j] = leaving /\ \A i \in 1 .. j - 1 : Listed[i] # leaving
      BY <1>1, <2>1 DEF Shrunk
    <3> QED
      BY <1>1, <3>1, RemoveFirstAt
  <2>4. /\ RemoveAt(Listed, j) \in Seq(User) /\ Len(RemoveAt(Listed, j)) = Len(Chain) - 1
        /\ \A i \in 1 .. Len(Chain) - 1 :
             RemoveAt(Listed, j)[i] = Listed[IF i < j THEN i ELSE i + 1]
    BY ZenonT(40), <1>1, RemoveAtProperties
  <2>5. ASSUME NEW i \in 1 .. Len(Chain) - 1 PROVE Listed'[i] = RemoveAt(Listed, j)[i]
    <3>1. (IF i < j THEN i ELSE i + 1) \in 1 .. Len(Chain)
      OBVIOUS
    <3>2. Chain'[i] = Chain[IF i < j THEN i ELSE i + 1] /\ Chain'[i] \in Node
      BY <2>1 DEF Shrunk
    <3>3. node'[Chain'[i]].user = node[Chain'[i]].user
      BY <2>1 DEF Shrunk
    <3> QED
      BY <1>1, <1>2, <2>2, <2>4, <3>1, <3>2, <3>3
  <2>6. Listed' = RemoveFirst(Listed, leaving)
    BY <1>2, <2>2, <2>3, <2>4, <2>5, SeqEqual
  <2>7. leaving \in ToSet(Listed) /\ leaving \in User
    BY <1>1, <2>1, ListedUsers DEF Shrunk, UInv
  <2>8. TheRoster!Leave(leaving)
    <3>1. TheRoster!ToSet(Listed) = ToSet(Listed)
      BY DEF ToSet, TheRoster!ToSet
    <3>2. TheRoster!RemoveFirst(Listed, leaving) = RemoveFirst(Listed, leaving)
      BY DEF RemoveFirst, TheRoster!RemoveFirst, RemoveAt, TheRoster!RemoveAt,
         SelectInSeq, TheRoster!SelectInSeq, Min, TheRoster!Min
    <3> QED
      BY <2>6, <2>7, <3>1, <3>2 DEF TheRoster!Leave
  <2> QED
    BY <2>7, <2>8 DEF TheRoster!Next
<1>5. ASSUME UNCHANGED <<node, head>> PROVE UNCHANGED Listed
  BY <1>5, SameChain DEF Listed
<1>6. ASSUME Uncount PROVE UNCHANGED Listed
  <2>1. UNCHANGED Chain /\ \A j \in 1 .. Len(Chain) : node'[Chain[j]] = node[Chain[j]]
    BY <1>6, UncountKeeps
  <2> QED
    BY <2>1 DEF Listed
<1>7. UNCHANGED <<node, head>> \/ Uncount \/ Unlink \/ \E t \in Thread : Link(t)
  BY DEF vars, list, Next, LoginStep, MainStep, CommStep, CopyHead, CopyCount,
     WalkOff, ExistYes, ExistNo, CountUp, StartInsert, TypeUsers, PrintWalk,
     DeleteHead, TellHead, WalkHead, Tell, TellEnd, ReceiveListu, ReceiveBye
<1> QED
  BY <1>3, <1>4, <1>5, <1>6, <1>7

(* The linked list implements the roster. *)
THEOREM IsRoster == Spec => RosterSpec
<1>1. Init => TheRoster!Init
  <2> SUFFICES ASSUME Init PROVE Listed = <<>>
    BY DEF TheRoster!Init
  <2>1. IsList(<<>>, node, head)
    BY DEF Init, IsList
  <2>2. Chain = <<>>
    BY <2>1, ChainOf
  <2> QED
    BY <2>2 DEF Listed
<1> QED
  BY <1>1, Invariant, RosterStep, PTL DEF Spec, RosterSpec, TheRoster!Spec
=============================================================================
