------------------------------ MODULE LoginProofs ------------------------------
(***************************************************************************)
(* For any number of login threads, names and connections: no reservation  *)
(* outlives its login, there are never more of them than threads, and      *)
(* every user in the list has an account. Before it, the set of names;     *)
(* after it, the sessions that one login thread gives, and what several    *)
(* login threads can take from each other.                                 *)
(***************************************************************************)
EXTENDS Login, FiniteSetTheorems, SequenceTheorems, WellFoundedInduction, NaturalsInduction,
        TLAPS

--------------------------------------------------------------------------------
(* What pushNameSet and pullNameSet do to a set of reserved names of any    *)
(* size, and what removing an element does to a sequence.                  *)

(* RemoveAt closes the gap and changes nothing else. *)
LEMMA RemoveAtProperties ==
  ASSUME NEW S, NEW s \in Seq(S), NEW k \in 1 .. Len(s)
  PROVE  /\ RemoveAt(s, k) \in Seq(S)
         /\ Len(RemoveAt(s, k)) = Len(s) - 1
         /\ \A i \in 1 .. Len(s) - 1 :
              RemoveAt(s, k)[i] = IF i < k THEN s[i] ELSE s[i + 1]
<1> DEFINE a == SubSeq(s, 1, k - 1)
           b == SubSeq(s, k + 1, Len(s))
<1>1. Len(s) \in Nat /\ \A i \in 1 .. Len(s) : s[i] \in S
  BY LenProperties, ElementOfSeq
<1>2. /\ a \in Seq(S) /\ Len(a) = k - 1
      /\ \A i \in 1 .. k - 1 : a[i] = s[i]
  BY <1>1, SubSeqProperties
<1>3. /\ b \in Seq(S) /\ Len(b) = Len(s) - k
      /\ \A i \in 1 .. Len(s) - k : b[i] = s[i + k]
  <2>1. \A i \in k + 1 .. Len(s) : s[i] \in S
    BY <1>1
  <2>2. /\ b \in Seq(S)
        /\ Len(b) = IF k + 1 <= Len(s) THEN Len(s) - (k + 1) + 1 ELSE 0
        /\ \A i \in 1 .. Len(s) - (k + 1) + 1 : b[i] = s[k + 1 + i - 1]
    BY <1>1, <2>1, SubSeqProperties
  <2>3. Len(b) = Len(s) - k
    BY <1>1, <2>2
  <2>4. ASSUME NEW i \in 1 .. Len(s) - k
        PROVE  b[i] = s[i + k]
    <3>1. k + 1 + i - 1 = i + k /\ i \in 1 .. Len(s) - (k + 1) + 1
      BY <1>1
    <3>2. b[i] = s[k + 1 + i - 1]
      BY <2>2, <3>1
    <3> QED
      BY <3>1, <3>2
  <2> QED
    BY <2>2, <2>3, <2>4
<1> HIDE DEF a, b
<1>4. RemoveAt(s, k) = a \o b
  BY DEF RemoveAt, a, b
<1>5. /\ a \o b \in Seq(S)
      /\ Len(a \o b) = Len(a) + Len(b)
      /\ \A i \in 1 .. Len(a) + Len(b) :
           (a \o b)[i] = IF i <= Len(a) THEN a[i] ELSE b[i - Len(a)]
  BY <1>2, <1>3, ConcatProperties
<1>6. Len(a) + Len(b) = Len(s) - 1
  BY <1>1, <1>2, <1>3
<1>7. ASSUME NEW i \in 1 .. Len(s) - 1
      PROVE  (a \o b)[i] = IF i < k THEN s[i] ELSE s[i + 1]
  <2>1. CASE i < k
    BY <1>1, <1>2, <1>5, <1>6, <2>1
  <2>2. CASE ~(i < k)
    <3>1. i - Len(a) \in 1 .. Len(s) - k /\ (i - Len(a)) + k = i + 1
      BY <1>1, <1>2, <2>2
    <3>2. (a \o b)[i] = b[i - Len(a)]
      BY <1>1, <1>2, <1>5, <1>6, <2>2
    <3> QED
      BY <1>3, <2>2, <3>1, <3>2
  <2> QED
    BY <2>1, <2>2
<1> QED
  BY <1>4, <1>5, <1>6, <1>7

(* A set of natural numbers has a least element. *)
LEMMA LeastElement ==
  ASSUME NEW T \in SUBSET Nat, T # {}
  PROVE  Min(T) \in T /\ \A y \in T : Min(T) <= y
<1> DEFINE R == {ss \in Nat \X Nat : ss[1] < ss[2]}
<1>0. IsWellFoundedOn(R, Nat)
  BY NatLessThanWellFounded, Zenon DEF OpToRel
<1>1. PICK x \in T : \A y \in T : ~(<<y, x>> \in R)
  <2> HIDE DEF R
  <2> QED
    BY <1>0, WFMin
<1>2. ASSUME NEW y \in T
      PROVE  x <= y
  <2>1. x \in Nat /\ y \in Nat
    OBVIOUS
  <2>2. y < x => <<y, x>> \in R
    BY <2>1
  <2> QED
    BY <1>1, <2>1, <2>2
<1> QED
  BY <1>2 DEF Min

(* A bounded set of natural numbers has a greatest element. *)
LEMMA GreatestElement ==
  ASSUME NEW n \in Nat, NEW T \in SUBSET (1 .. n), T # {}
  PROVE  Max(T) \in T
<1> DEFINE D == {n - x : x \in T}
<1>0. \A x \in T : n - x \in Nat
  OBVIOUS
<1>1. D \in SUBSET Nat /\ D # {}
  BY <1>0
<1>2. Min(D) \in D /\ \A y \in D : Min(D) <= y
  BY <1>1, LeastElement
<1>3. PICK x \in T : \A y \in T : n - x <= n - y
  BY <1>2
<1>4. \A y \in T : x >= y
  BY <1>3
<1> QED
  BY <1>4 DEF Max

(* A push leaves every name where it is and adds the one pushed behind     *)
(* them, exactly when it was not there; the names stay different.          *)
LEMMA PushProperties ==
  ASSUME NEW S, NEW names \in Seq(S), IsInjective(names), NEW name \in S
  PROVE  /\ PushNameSet(names, name) \in Seq(S)
         /\ IsInjective(PushNameSet(names, name))
         /\ name \in ToSet(names) => PushNameSet(names, name) = names
         /\ name \notin ToSet(names) =>
              /\ Len(PushNameSet(names, name)) = Len(names) + 1
              /\ PushNameSet(names, name)[Len(names) + 1] = name
         /\ \A i \in DOMAIN names : PushNameSet(names, name)[i] = names[i]
         /\ ToSet(PushNameSet(names, name)) = ToSet(names) \cup {name}
<1>1. CASE name \in ToSet(names)
  BY <1>1 DEF PushNameSet
<1>2. CASE name \notin ToSet(names)
  <2> DEFINE new == Append(names, name)
  <2>1. /\ new \in Seq(S) /\ Len(new) = Len(names) + 1
        /\ \A i \in 1 .. Len(names) : new[i] = names[i]
        /\ new[Len(names) + 1] = name
    BY AppendProperties
  <2>2. DOMAIN names = 1 .. Len(names) /\ DOMAIN new = 1 .. Len(names) + 1
        /\ Len(names) \in Nat
    BY <2>1, LenProperties
  <2>3. PushNameSet(names, name) = new
    BY <1>2 DEF PushNameSet
  <2> HIDE DEF new
  <2>4. \A i \in 1 .. Len(names) : names[i] # name
    BY <1>2, <2>2 DEF ToSet
  <2>5. IsInjective(new)
    BY <2>1, <2>2, <2>4 DEF IsInjective
  <2>6. ToSet(new) = ToSet(names) \cup {name}
    <3>1. \A i \in DOMAIN new : i \in DOMAIN names \/ i = Len(names) + 1
      BY <2>2
    <3>2. /\ \A i \in DOMAIN names : i \in DOMAIN new /\ new[i] = names[i]
          /\ Len(names) + 1 \in DOMAIN new
      BY <2>1, <2>2
    <3> QED
      BY <2>1, <3>1, <3>2 DEF ToSet
  <2> QED
    BY <1>2, <2>1, <2>2, <2>3, <2>5, <2>6
<1> QED
  BY <1>1, <1>2

(* A pull takes out one name, the one pulled or, when that is not there,   *)
(* the last one, and closes the gap; the others stay, in their order.      *)
LEMMA PullProperties ==
  ASSUME NEW S, NEW names \in Seq(S), IsInjective(names), NEW name
  PROVE  /\ PullNameSet(names, name) \in Seq(S)
         /\ IsInjective(PullNameSet(names, name))
         /\ names # <<>> => Len(PullNameSet(names, name)) = Len(names) - 1
         /\ \A i \in DOMAIN PullNameSet(names, name) :
              /\ PullNameSet(names, name)[i] # name
              /\ i \in DOMAIN names /\ i + 1 \in DOMAIN names
              /\ PullNameSet(names, name)[i] \in {names[i], names[i + 1]}
         /\ name \in ToSet(names) =>
              ToSet(PullNameSet(names, name)) = ToSet(names) \ {name}
         /\ name \notin ToSet(names) /\ names # <<>> =>
              ToSet(PullNameSet(names, name)) = ToSet(names) \ {names[Len(names)]}
<1>1. CASE names = <<>>
  BY <1>1 DEF PullNameSet, ToSet
<1>2. CASE names # <<>>
  <2> DEFINE k == PullPosition(names, name)
             new == RemoveAt(names, k)
  <2>1. DOMAIN names = 1 .. Len(names) /\ Len(names) \in Nat \ {0}
    BY <1>2, LenProperties, EmptySeq
  <2>0. k \in 1 .. Len(names)
    BY <2>1 DEF PullPosition, ToSet
  <2>2. /\ name \in ToSet(names) => names[k] = name
        /\ name \notin ToSet(names) => k = Len(names)
    BY <2>1 DEF PullPosition, ToSet
  <2>3. PullNameSet(names, name) = new
    BY <1>2 DEF PullNameSet
  <2> HIDE DEF k
  <2>4. /\ new \in Seq(S) /\ Len(new) = Len(names) - 1
        /\ \A i \in 1 .. Len(names) - 1 :
             new[i] = IF i < k THEN names[i] ELSE names[i + 1]
    BY <2>0, RemoveAtProperties
  <2> HIDE DEF new
  <2>5. DOMAIN new = 1 .. Len(names) - 1
    BY <2>4, LenProperties
  <2> DEFINE Old(i) == IF i < k THEN i ELSE i + 1
             New(j) == IF j < k THEN j ELSE j - 1
  <2>6. \A i \in DOMAIN new : Old(i) \in DOMAIN names /\ Old(i) # k
                              /\ new[i] = names[Old(i)]
    BY <2>0, <2>1, <2>4, <2>5
  <2>7. \A i, j \in DOMAIN new : Old(i) = Old(j) => i = j
    BY <2>0, <2>1, <2>5
  <2>8. \A j \in DOMAIN names : j # k => New(j) \in DOMAIN new /\ Old(New(j)) = j
    BY <2>0, <2>1, <2>5
  <2>9. \A i \in DOMAIN new : i \in DOMAIN names /\ i + 1 \in DOMAIN names
                              /\ new[i] \in {names[i], names[i + 1]}
    BY <2>0, <2>1, <2>4, <2>5
  <2> HIDE DEF Old, New
  <2>10. IsInjective(new)
    BY <2>6, <2>7 DEF IsInjective
  <2>11. \A i \in DOMAIN new : new[i] # name
    <3> SUFFICES ASSUME NEW i \in DOMAIN new, new[i] = name
                 PROVE  FALSE
      OBVIOUS
    <3>1. names[Old(i)] = name /\ Old(i) \in DOMAIN names /\ Old(i) # k
      BY <2>6
    <3>2. name \in ToSet(names)
      BY <3>1 DEF ToSet
    <3> QED
      BY <2>0, <2>1, <2>2, <3>1, <3>2 DEF IsInjective
  <2>12. ToSet(new) = ToSet(names) \ {names[k]}
    <3>1. ASSUME NEW i \in DOMAIN new
          PROVE  new[i] \in ToSet(names) /\ new[i] # names[k]
      BY <2>0, <2>1, <2>6 DEF ToSet, IsInjective
    <3>2. ASSUME NEW j \in DOMAIN names, names[j] # names[k]
          PROVE  names[j] \in ToSet(new)
      <4>1. New(j) \in DOMAIN new /\ Old(New(j)) = j
        BY <2>8, <3>2
      <4> QED
        BY <2>6, <4>1 DEF ToSet
    <3> QED
      BY <3>1, <3>2 DEF ToSet
  <2> QED
    BY <1>2, <2>0, <2>1, <2>2, <2>3, <2>4, <2>9, <2>10, <2>11, <2>12
<1> QED
  BY <1>1, <1>2

--------------------------------------------------------------------------------
(* The threads. *)

\* What the threads know of their own buffers.
BuffersKnown ==
  \A t \in Thread :
    /\ pc[t] # "dequeue" => connfd[t] \in Fd
    /\ pc[t] \notin {"dequeue", "hello", "identify", "refuse", "refusePull"}
         => userName[t] \in Name
    /\ copy[t] # "none" => pc[t] \in {"check", "refuse", "insertCheck"}

\* A name is greeted and inserted only once it has an account, or lost its INSERT.
Verified ==
  \A t \in Thread :
    pc[t] \in {"greet", "insertCheck", "insert"} => userName[t] \in accounts \cup unstored

IInv == TypeOK /\ BuffersKnown /\ ReservationsHeld /\ Verified /\ UsersHaveAccounts

(* DeleteUser leaves a part of the list. *)
LEMMA DeleteUserProperties ==
  ASSUME NEW S, userList \in Seq(S), NEW name
  PROVE  /\ DeleteUser(name) \in Seq(S)
         /\ \A i \in DOMAIN DeleteUser(name) :
              \E j \in DOMAIN userList : DeleteUser(name)[i] = userList[j]
         /\ NamesApart =>
              \A i, j \in DOMAIN DeleteUser(name) :
                DeleteUser(name)[i].userName = DeleteUser(name)[j].userName => i = j
         /\ ~IsUserExist(name) => DeleteUser(name) = userList
<1> USE DEF NamesApart
<1> DEFINE I == {i \in 1 .. Len(userList) : userList[i].userName = name}
<1>1. CASE I = {}
  BY <1>1, LenProperties DEF DeleteUser, RemoveFirstMatch
<1>2. CASE I # {}
  <2> DEFINE k == Min(I)
             new == RemoveAt(userList, k)
  <2>0. I \in SUBSET Nat
    BY LenProperties
  <2>1. k \in 1 .. Len(userList)
    <3>1. k \in I
      BY <1>2, <2>0, LeastElement
    <3> QED
      BY <3>1
  <2>2. DeleteUser(name) = new
    BY <1>2 DEF DeleteUser, RemoveFirstMatch, SelectInSeq
  <2> HIDE DEF k
  <2>3. /\ new \in Seq(S) /\ Len(new) = Len(userList) - 1
        /\ \A i \in 1 .. Len(userList) - 1 :
             new[i] = IF i < k THEN userList[i] ELSE userList[i + 1]
    BY <2>1, RemoveAtProperties
  <2>4. /\ DOMAIN new = 1 .. Len(userList) - 1
        /\ DOMAIN userList = 1 .. Len(userList) /\ Len(userList) \in Nat
    BY <2>3, LenProperties
  <2> HIDE DEF new
  <2> DEFINE Old(i) == IF i < k THEN i ELSE i + 1
  <2>5. \A i \in DOMAIN new : Old(i) \in DOMAIN userList /\ new[i] = userList[Old(i)]
    BY <2>1, <2>3, <2>4
  <2>6. \A i, j \in DOMAIN new : Old(i) = Old(j) => i = j
    BY <2>1, <2>4
  <2> HIDE DEF Old
  <2>7. NamesApart => \A i, j \in DOMAIN new : new[i].userName = new[j].userName => i = j
    BY <2>5, <2>6
  <2>8. IsUserExist(name)
    BY <1>2, <2>4 DEF IsUserExist
  <2> QED
    BY <2>2, <2>3, <2>5, <2>7, <2>8
<1> QED
  BY <1>1, <1>2

(* matchUser leaves a name in the buffer, or what was there. *)
LEMMA MatchUserProperties ==
  ASSUME userList \in Seq([userName : Name, connfd : Fd]), NEW fd,
         NEW buffer \in Name \cup {NoName}
  PROVE  MatchUser(fd, buffer) \in Name \cup {NoName}
<1> DEFINE found == {i \in DOMAIN userList : userList[i].connfd = fd}
<1>1. DOMAIN userList = 1 .. Len(userList) /\ Len(userList) \in Nat
  BY LenProperties
<1>2. CASE found = {}
  BY <1>2 DEF MatchUser
<1>3. CASE found # {}
  <2>1. Max(found) \in found
    BY <1>1, <1>3, GreatestElement
  <2>2. userList[Max(found)] \in [userName : Name, connfd : Fd]
    BY <1>1, <2>1, ElementOfSeq
  <2> QED
    BY <1>3, <2>2 DEF MatchUser
<1> QED
  BY <1>2, <1>3

(* Every step keeps the types. *)
LEMMA TypeStep == IInv /\ [Next]_vars => TypeOK' /\ BuffersKnown'
<1> SUFFICES ASSUME IInv, [Next]_vars
             PROVE  TypeOK' /\ BuffersKnown'
  OBVIOUS
<1> USE DEF IInv, database, checks
<1>1. ASSUME AcceptConn
      PROVE  TypeOK' /\ BuffersKnown'
  <2>1. accepted' \in 0 .. MaxConn
    BY <1>1, BoundAssumption DEF AcceptConn, TypeOK
  <2>2. PICK new \in Fd : Handoff!Accept(new) /\ opened' = opened \cup {new}
    BY <1>1 DEF AcceptConn
  <2> QED
    BY <1>1, <2>1, <2>2
       DEF AcceptConn, Handoff!Accept, locals, comm, clients, TypeOK,
           BuffersKnown
<1>2. ASSUME Enqueue
      PROVE  TypeOK' /\ BuffersKnown'
  BY <1>2
     DEF Enqueue, Handoff!Put, locals, comm, clients, fds, TypeOK,
         BuffersKnown
<1>3. ASSUME NEW t \in Thread, Dequeue(t)
      PROVE  TypeOK' /\ BuffersKnown'
  BY <1>3
     DEF Dequeue, Goto, Handoff!Take, comm, clients, fds, TypeOK, BuffersKnown
<1>4. ASSUME NEW t \in Thread, HelloOk(t)
      PROVE  TypeOK' /\ BuffersKnown'
  BY <1>4 DEF HelloOk, Goto, handoff, comm, clients, fds, TypeOK, BuffersKnown
<1>5. ASSUME NEW t \in Thread, HelloBad(t)
      PROVE  TypeOK' /\ BuffersKnown'
  BY <1>5
     DEF HelloBad, EndLogin, Goto, Handoff!Finish, comm, clients, fds, TypeOK,
         BuffersKnown
<1>6. ASSUME NEW t \in Thread, NEW name \in Name, IdentifyNew(t, name)
      PROVE  TypeOK' /\ BuffersKnown'
  BY <1>6
     DEF IdentifyNew, Goto, handoff, comm, clients, fds, TypeOK, BuffersKnown
<1>7. ASSUME NEW t \in Thread, NEW name \in Name, Identify(t, name)
      PROVE  TypeOK' /\ BuffersKnown'
  BY <1>7
     DEF Identify, Goto, handoff, comm, clients, fds, TypeOK, BuffersKnown
<1>8. ASSUME NEW t \in Thread, IdentifyBad(t)
      PROVE  TypeOK' /\ BuffersKnown'
  BY <1>8
     DEF IdentifyBad, Goto, handoff, comm, clients, fds, TypeOK, BuffersKnown
<1>31. ASSUME NEW t \in Thread, CopyUserList(t)
      PROVE  TypeOK' /\ BuffersKnown'
  BY <1>31
     DEF CopyUserList, handoff, locals, comm, clients, fds, TypeOK, BuffersKnown
<1>9. ASSUME NEW t \in Thread, CheckOnline(t)
      PROVE  TypeOK' /\ BuffersKnown'
  BY <1>9
     DEF CheckOnline, Answer, Goto, handoff, comm, clients, fds, TypeOK, BuffersKnown
<1>10. ASSUME NEW t \in Thread, Reserve(t)
      PROVE  TypeOK' /\ BuffersKnown'
  <2>1. PushNameSet(nameSet, userName[t]) \in Seq(Name)
    BY <1>10, PushProperties
       DEF Reserve, Goto, TypeOK, BuffersKnown, ReservationsHeld
  <2> QED
    BY <1>10, <2>1
       DEF Reserve, Goto, handoff, comm, clients, fds, TypeOK, BuffersKnown
<1>11. ASSUME NEW t \in Thread, RefuseKeep(t)
      PROVE  TypeOK' /\ BuffersKnown'
  BY <1>11
     DEF RefuseKeep, Answer, EndLogin, Goto, Handoff!Finish, comm, clients, fds,
         TypeOK, BuffersKnown
<1>12. ASSUME NEW t \in Thread, RefuseListed(t)
      PROVE  TypeOK' /\ BuffersKnown'
  BY <1>12
     DEF RefuseListed, Answer, Goto, handoff, comm, clients, fds, TypeOK, BuffersKnown
<1>13. ASSUME NEW t \in Thread, RefusePull(t)
      PROVE  TypeOK' /\ BuffersKnown'
  <2>1. PullNameSet(nameSet, userName[t]) \in Seq(Name)
    BY PullProperties DEF TypeOK, ReservationsHeld
  <2> QED
    BY <1>13, <2>1
       DEF RefusePull, EndLogin, Goto, Handoff!Finish, comm, clients, fds,
           TypeOK, BuffersKnown
<1>14. ASSUME NEW t \in Thread, PasswordNew(t)
      PROVE  TypeOK' /\ BuffersKnown'
  BY <1>14
     DEF PasswordNew, Goto, handoff, comm, clients, fds, TypeOK, BuffersKnown
<1>15. ASSUME NEW t \in Thread, Password(t)
      PROVE  TypeOK' /\ BuffersKnown'
  BY <1>15
     DEF Password, Goto, handoff, comm, clients, fds, TypeOK, BuffersKnown
<1>16. ASSUME NEW t \in Thread, PasswordBad(t)
      PROVE  TypeOK' /\ BuffersKnown'
  BY <1>16
     DEF PasswordBad, Goto, handoff, comm, clients, fds, TypeOK, BuffersKnown
<1>17. ASSUME NEW t \in Thread, PasswordPull(t)
      PROVE  TypeOK' /\ BuffersKnown'
  <2>1. PullNameSet(nameSet, userName[t]) \in Seq(Name)
    BY PullProperties DEF TypeOK, ReservationsHeld
  <2> QED
    BY <1>17, <2>1
       DEF PasswordPull, EndLogin, Goto, Handoff!Finish, comm, clients, fds,
           TypeOK, BuffersKnown
<1>18. ASSUME NEW t \in Thread, InsertAccount(t)
      PROVE  TypeOK' /\ BuffersKnown'
  BY <1>18
     DEF InsertAccount, InsertAccountRow, Goto, handoff, comm, clients, fds,
         TypeOK,
         BuffersKnown
<1>19. ASSUME NEW t \in Thread, Greet(t)
      PROVE  TypeOK' /\ BuffersKnown'
  BY <1>19 DEF Greet, Goto, handoff, comm, fds, TypeOK, BuffersKnown
<1>20. ASSUME NEW t \in Thread, InsertCheck(t)
      PROVE  TypeOK' /\ BuffersKnown'
  BY <1>20
     DEF InsertCheck, Answer, Goto, handoff, comm, clients, fds, TypeOK, BuffersKnown
<1>21. ASSUME NEW t \in Thread, Insert(t)
      PROVE  TypeOK' /\ BuffersKnown'
  <2>1. InsertUser(userName[t], connfd[t]) \in Seq([userName : Name, connfd : Fd])
    BY <1>21, AppendProperties
       DEF Insert, Goto, InsertUser, TypeOK, BuffersKnown
  <2> QED
    BY <1>21, <2>1
       DEF Insert, Goto, handoff, comm, clients, fds, TypeOK, BuffersKnown
<1>22. ASSUME NEW t \in Thread, Release(t)
      PROVE  TypeOK' /\ BuffersKnown'
  <2>1. PullNameSet(nameSet, userName[t]) \in Seq(Name)
    BY PullProperties DEF TypeOK, ReservationsHeld
  <2> QED
    BY <1>22, <2>1
       DEF Release, Goto, handoff, comm, clients, fds, TypeOK, BuffersKnown
<1>23. ASSUME NEW t \in Thread, Register(t)
      PROVE  TypeOK' /\ BuffersKnown'
  BY <1>23
     DEF Register, EndLogin, Goto, Handoff!Finish, comm, clients, fds, TypeOK,
         BuffersKnown
<1>24. ASSUME NEW fd \in Fd, ReceiveBye(fd)
      PROVE  TypeOK' /\ BuffersKnown'
  <2>1. MatchUser(fd, commName) \in Name \cup {NoName}
    BY MatchUserProperties DEF TypeOK
  <2> QED
    BY <1>24, <2>1
       DEF ReceiveBye, handoff, locals, clients, fds, TypeOK, BuffersKnown
<1>25. ASSUME DeleteMatched
      PROVE  TypeOK' /\ BuffersKnown'
  <2>1. DeleteUser(commName) \in Seq([userName : Name, connfd : Fd])
    BY DeleteUserProperties DEF TypeOK
  <2> QED
    BY <1>25, <2>1
       DEF DeleteMatched, DisturbedCopies, handoff, locals, fds, TypeOK, BuffersKnown
<1>26. ASSUME CloseConn
      PROVE  TypeOK' /\ BuffersKnown'
  BY <1>26 DEF CloseConn, handoff, locals, TypeOK, BuffersKnown
<1>27. ASSUME ClearConn
      PROVE  TypeOK' /\ BuffersKnown'
  BY <1>27 DEF ClearConn, handoff, locals, clients, fds, TypeOK, BuffersKnown
<1>28. ASSUME NEW fd \in Fd, SayBye(fd)
      PROVE  TypeOK' /\ BuffersKnown'
  BY <1>28 DEF SayBye, handoff, locals, comm, fds, TypeOK, BuffersKnown
<1>29. ASSUME NEW fd \in Fd, Vanish(fd)
      PROVE  TypeOK' /\ BuffersKnown'
  BY <1>29 DEF Vanish, handoff, locals, comm, fds, TypeOK, BuffersKnown
<1>30. CASE UNCHANGED vars
  BY <1>30 DEF vars, handoff, locals, comm, clients, fds, TypeOK, BuffersKnown
<1> QED
  BY <1>1, <1>2, <1>3, <1>4, <1>5, <1>6, <1>7, <1>8, <1>9, <1>10, <1>11,
     <1>12, <1>13, <1>14, <1>15, <1>16, <1>17, <1>18, <1>19, <1>20, <1>21,
     <1>22, <1>23, <1>24, <1>25, <1>26, <1>27, <1>28, <1>29, <1>30, <1>31
     DEF Next, LoginStep, CommStep

(* Every step keeps the reservations with the logins in progress. *)
LEMMA HeldStep == IInv /\ [Next]_vars => ReservationsHeld'
<1> SUFFICES ASSUME IInv, [Next]_vars
             PROVE  ReservationsHeld'
  OBVIOUS
<1> USE DEF IInv, database, checks
<1>1. ASSUME AcceptConn
      PROVE  ReservationsHeld'
  BY <1>1
     DEF AcceptConn, locals, comm, clients, ReservationsHeld, Holding, TypeOK
<1>2. ASSUME Enqueue
      PROVE  ReservationsHeld'
  BY <1>2
     DEF Enqueue, locals, comm, clients, fds, ReservationsHeld, Holding,
         TypeOK
<1>3. ASSUME NEW t \in Thread, Dequeue(t)
      PROVE  ReservationsHeld'
  BY <1>3
     DEF Dequeue, Goto, comm, clients, fds, ReservationsHeld, Holding, TypeOK
<1>4. ASSUME NEW t \in Thread, HelloOk(t)
      PROVE  ReservationsHeld'
  BY <1>4
     DEF HelloOk, Goto, handoff, comm, clients, fds, ReservationsHeld,
         Holding, TypeOK
<1>5. ASSUME NEW t \in Thread, HelloBad(t)
      PROVE  ReservationsHeld'
  BY <1>5
     DEF HelloBad, EndLogin, Goto, comm, clients, fds, ReservationsHeld,
         Holding, TypeOK
<1>6. ASSUME NEW t \in Thread, NEW name \in Name, IdentifyNew(t, name)
      PROVE  ReservationsHeld'
  BY <1>6
     DEF IdentifyNew, Goto, handoff, comm, clients, fds, ReservationsHeld,
         Holding, TypeOK
<1>7. ASSUME NEW t \in Thread, NEW name \in Name, Identify(t, name)
      PROVE  ReservationsHeld'
  BY <1>7
     DEF Identify, Goto, handoff, comm, clients, fds, ReservationsHeld,
         Holding, TypeOK
<1>8. ASSUME NEW t \in Thread, IdentifyBad(t)
      PROVE  ReservationsHeld'
  BY <1>8
     DEF IdentifyBad, Goto, handoff, comm, clients, fds, ReservationsHeld,
         Holding, TypeOK
<1>31. ASSUME NEW t \in Thread, CopyUserList(t)
      PROVE  ReservationsHeld'
  BY <1>31
     DEF CopyUserList, handoff, locals, comm, clients, fds, ReservationsHeld, Holding,
         TypeOK
<1>9. ASSUME NEW t \in Thread, CheckOnline(t)
      PROVE  ReservationsHeld'
  BY <1>9
     DEF CheckOnline, Answer, Goto, handoff, comm, clients, fds, ReservationsHeld,
         Holding, TypeOK
<1>10. ASSUME NEW t \in Thread, Reserve(t)
      PROVE  ReservationsHeld'
  <2> DEFINE new == PushNameSet(nameSet, userName[t])
  <2>0. userName[t] \in Name /\ nameSet \in Seq(Name) /\ IsInjective(nameSet)
    BY <1>10 DEF Reserve, Goto, BuffersKnown, TypeOK, ReservationsHeld
  <2>1. /\ IsInjective(new)
        /\ userName[t] \in ToSet(nameSet) => new = nameSet
        /\ \A i \in DOMAIN new :
             \/ new[i] = userName[t]
             \/ \E j \in DOMAIN nameSet : new[i] = nameSet[j]
    <3>1. /\ IsInjective(new) /\ ToSet(new) = ToSet(nameSet) \cup {userName[t]}
          /\ userName[t] \in ToSet(nameSet) => new = nameSet
      BY <2>0, PushProperties
    <3> HIDE DEF new
    <3> QED
      BY <3>1 DEF ToSet
  <2> HIDE DEF new
  <2>2. /\ nameSet' = new /\ userName' = userName /\ pc[t] = "push"
        /\ pc' = [pc EXCEPT ![t] = IF PushSucceeds(nameSet, userName[t])
                                   THEN "password" ELSE "refuse"]
    BY <1>10 DEF Reserve, Goto, new
  <2>3. \A u \in Thread : Holding(u) => u # t
    BY <2>2 DEF Holding
  <2>4. \A u \in Thread : Holding(u) => Holding(u)'
    BY <2>2, <2>3 DEF Holding, TypeOK
  <2>5. CASE userName[t] \in ToSet(nameSet)
    BY <2>1, <2>2, <2>4, <2>5 DEF ReservationsHeld
  <2>6. CASE userName[t] \notin ToSet(nameSet)
    <3>1. Holding(t)'
      BY <2>2, <2>6 DEF Holding, TypeOK, PushSucceeds
    <3> QED
      BY <2>1, <2>2, <2>4, <3>1 DEF ReservationsHeld
  <2> QED
    BY <2>5, <2>6
<1>11. ASSUME NEW t \in Thread, RefuseKeep(t)
      PROVE  ReservationsHeld'
  BY <1>11
     DEF RefuseKeep, Answer, EndLogin, Goto, comm, clients, fds, ReservationsHeld,
         Holding, TypeOK
<1>12. ASSUME NEW t \in Thread, RefuseListed(t)
      PROVE  ReservationsHeld'
  BY <1>12
     DEF RefuseListed, Answer, Goto, handoff, comm, clients, fds, ReservationsHeld,
         Holding, TypeOK
<1>13. ASSUME NEW t \in Thread, RefusePull(t)
      PROVE  ReservationsHeld'
  <2>1. /\ IsInjective(PullNameSet(nameSet, userName[t]))
        /\ \A i \in DOMAIN PullNameSet(nameSet, userName[t]) :
             /\ PullNameSet(nameSet, userName[t])[i] # userName[t]
             /\ \E j \in DOMAIN nameSet : PullNameSet(nameSet, userName[t])[i] = nameSet[j]
    BY PullProperties DEF TypeOK, ReservationsHeld
  <2> QED
    BY <1>13, <2>1
       DEF RefusePull, EndLogin, Goto, comm, clients, fds, ReservationsHeld,
           Holding, TypeOK
<1>14. ASSUME NEW t \in Thread, PasswordNew(t)
      PROVE  ReservationsHeld'
  BY <1>14
     DEF PasswordNew, Goto, handoff, comm, clients, fds, ReservationsHeld,
         Holding, TypeOK
<1>15. ASSUME NEW t \in Thread, Password(t)
      PROVE  ReservationsHeld'
  BY <1>15
     DEF Password, Goto, handoff, comm, clients, fds, ReservationsHeld,
         Holding, TypeOK
<1>16. ASSUME NEW t \in Thread, PasswordBad(t)
      PROVE  ReservationsHeld'
  BY <1>16
     DEF PasswordBad, Goto, handoff, comm, clients, fds, ReservationsHeld,
         Holding, TypeOK
<1>17. ASSUME NEW t \in Thread, PasswordPull(t)
      PROVE  ReservationsHeld'
  <2>1. /\ IsInjective(PullNameSet(nameSet, userName[t]))
        /\ \A i \in DOMAIN PullNameSet(nameSet, userName[t]) :
             /\ PullNameSet(nameSet, userName[t])[i] # userName[t]
             /\ \E j \in DOMAIN nameSet : PullNameSet(nameSet, userName[t])[i] = nameSet[j]
    BY PullProperties DEF TypeOK, ReservationsHeld
  <2> QED
    BY <1>17, <2>1
       DEF PasswordPull, EndLogin, Goto, comm, clients, fds, ReservationsHeld,
           Holding, TypeOK
<1>18. ASSUME NEW t \in Thread, InsertAccount(t)
      PROVE  ReservationsHeld'
  BY <1>18
     DEF InsertAccount, Goto, handoff, comm, clients, fds, ReservationsHeld,
         Holding, TypeOK
<1>19. ASSUME NEW t \in Thread, Greet(t)
      PROVE  ReservationsHeld'
  BY <1>19
     DEF Greet, Goto, handoff, comm, fds, ReservationsHeld, Holding, TypeOK
<1>20. ASSUME NEW t \in Thread, InsertCheck(t)
      PROVE  ReservationsHeld'
  BY <1>20
     DEF InsertCheck, Answer, Goto, handoff, comm, clients, fds, ReservationsHeld,
         Holding, TypeOK
<1>21. ASSUME NEW t \in Thread, Insert(t)
      PROVE  ReservationsHeld'
  BY <1>21
     DEF Insert, Goto, handoff, comm, clients, fds, ReservationsHeld, Holding,
         TypeOK
<1>22. ASSUME NEW t \in Thread, Release(t)
      PROVE  ReservationsHeld'
  <2>1. /\ IsInjective(PullNameSet(nameSet, userName[t]))
        /\ \A i \in DOMAIN PullNameSet(nameSet, userName[t]) :
             /\ PullNameSet(nameSet, userName[t])[i] # userName[t]
             /\ \E j \in DOMAIN nameSet : PullNameSet(nameSet, userName[t])[i] = nameSet[j]
    BY PullProperties DEF TypeOK, ReservationsHeld
  <2> QED
    BY <1>22, <2>1
       DEF Release, Goto, handoff, comm, clients, fds, ReservationsHeld,
           Holding, TypeOK
<1>23. ASSUME NEW t \in Thread, Register(t)
      PROVE  ReservationsHeld'
  BY <1>23
     DEF Register, EndLogin, Goto, comm, clients, fds, ReservationsHeld,
         Holding, TypeOK
<1>24. ASSUME NEW fd \in Fd, ReceiveBye(fd)
      PROVE  ReservationsHeld'
  BY <1>24
     DEF ReceiveBye, handoff, locals, clients, fds, ReservationsHeld, Holding,
         TypeOK
<1>25. ASSUME DeleteMatched
      PROVE  ReservationsHeld'
  BY <1>25
     DEF DeleteMatched, DisturbedCopies, handoff, locals, fds, ReservationsHeld, Holding,
         TypeOK
<1>26. ASSUME CloseConn
      PROVE  ReservationsHeld'
  BY <1>26 DEF CloseConn, handoff, locals, ReservationsHeld, Holding, TypeOK
<1>27. ASSUME ClearConn
      PROVE  ReservationsHeld'
  BY <1>27
     DEF ClearConn, handoff, locals, clients, fds, ReservationsHeld, Holding,
         TypeOK
<1>28. ASSUME NEW fd \in Fd, SayBye(fd)
      PROVE  ReservationsHeld'
  BY <1>28
     DEF SayBye, handoff, locals, comm, fds, ReservationsHeld, Holding, TypeOK
<1>29. ASSUME NEW fd \in Fd, Vanish(fd)
      PROVE  ReservationsHeld'
  BY <1>29
     DEF Vanish, handoff, locals, comm, fds, ReservationsHeld, Holding, TypeOK
<1>30. CASE UNCHANGED vars
  BY <1>30
     DEF vars, handoff, locals, comm, clients, fds, ReservationsHeld, Holding,
         TypeOK
<1> QED
  BY <1>1, <1>2, <1>3, <1>4, <1>5, <1>6, <1>7, <1>8, <1>9, <1>10, <1>11,
     <1>12, <1>13, <1>14, <1>15, <1>16, <1>17, <1>18, <1>19, <1>20, <1>21,
     <1>22, <1>23, <1>24, <1>25, <1>26, <1>27, <1>28, <1>29, <1>30, <1>31
     DEF Next, LoginStep, CommStep

(* Every step keeps the users of the list among the accounts. *)
LEMMA AccountsStep == IInv /\ [Next]_vars => Verified' /\ UsersHaveAccounts'
<1> SUFFICES ASSUME IInv, [Next]_vars
             PROVE  Verified' /\ UsersHaveAccounts'
  OBVIOUS
<1> USE DEF IInv, database, checks
<1>1. ASSUME AcceptConn
      PROVE  Verified' /\ UsersHaveAccounts'
  BY <1>1
     DEF AcceptConn, locals, comm, clients, Verified, UsersHaveAccounts,
         TypeOK
<1>2. ASSUME Enqueue
      PROVE  Verified' /\ UsersHaveAccounts'
  BY <1>2
     DEF Enqueue, locals, comm, clients, fds, Verified, UsersHaveAccounts,
         TypeOK
<1>3. ASSUME NEW t \in Thread, Dequeue(t)
      PROVE  Verified' /\ UsersHaveAccounts'
  BY <1>3
     DEF Dequeue, Goto, comm, clients, fds, Verified, UsersHaveAccounts,
         TypeOK
<1>4. ASSUME NEW t \in Thread, HelloOk(t)
      PROVE  Verified' /\ UsersHaveAccounts'
  BY <1>4
     DEF HelloOk, Goto, handoff, comm, clients, fds, Verified,
         UsersHaveAccounts, TypeOK
<1>5. ASSUME NEW t \in Thread, HelloBad(t)
      PROVE  Verified' /\ UsersHaveAccounts'
  BY <1>5
     DEF HelloBad, EndLogin, Goto, comm, clients, fds, Verified,
         UsersHaveAccounts, TypeOK
<1>6. ASSUME NEW t \in Thread, NEW name \in Name, IdentifyNew(t, name)
      PROVE  Verified' /\ UsersHaveAccounts'
  BY <1>6
     DEF IdentifyNew, IsAccountExist, Goto, handoff, comm, clients, fds,
         Verified,
         UsersHaveAccounts, TypeOK
<1>7. ASSUME NEW t \in Thread, NEW name \in Name, Identify(t, name)
      PROVE  Verified' /\ UsersHaveAccounts'
  BY <1>7
     DEF Identify, IsAccountExist, Goto, handoff, comm, clients, fds, Verified,
         UsersHaveAccounts, TypeOK
<1>8. ASSUME NEW t \in Thread, IdentifyBad(t)
      PROVE  Verified' /\ UsersHaveAccounts'
  BY <1>8
     DEF IdentifyBad, Goto, handoff, comm, clients, fds, Verified,
         UsersHaveAccounts, TypeOK
<1>31. ASSUME NEW t \in Thread, CopyUserList(t)
      PROVE  Verified' /\ UsersHaveAccounts'
  BY <1>31
     DEF CopyUserList, handoff, locals, comm, clients, fds, Verified,
         UsersHaveAccounts, TypeOK
<1>9. ASSUME NEW t \in Thread, CheckOnline(t)
      PROVE  Verified' /\ UsersHaveAccounts'
  BY <1>9
     DEF CheckOnline, Answer, Goto, handoff, comm, clients, fds, Verified,
         UsersHaveAccounts, TypeOK
<1>10. ASSUME NEW t \in Thread, Reserve(t)
      PROVE  Verified' /\ UsersHaveAccounts'
  BY <1>10
     DEF Reserve, Goto, handoff, comm, clients, fds, Verified,
         UsersHaveAccounts, TypeOK
<1>11. ASSUME NEW t \in Thread, RefuseKeep(t)
      PROVE  Verified' /\ UsersHaveAccounts'
  BY <1>11
     DEF RefuseKeep, Answer, EndLogin, Goto, comm, clients, fds, Verified,
         UsersHaveAccounts, TypeOK
<1>12. ASSUME NEW t \in Thread, RefuseListed(t)
      PROVE  Verified' /\ UsersHaveAccounts'
  BY <1>12
     DEF RefuseListed, Answer, Goto, handoff, comm, clients, fds, Verified,
         UsersHaveAccounts, TypeOK
<1>13. ASSUME NEW t \in Thread, RefusePull(t)
      PROVE  Verified' /\ UsersHaveAccounts'
  BY <1>13
     DEF RefusePull, EndLogin, Goto, comm, clients, fds, Verified,
         UsersHaveAccounts, TypeOK
<1>14. ASSUME NEW t \in Thread, PasswordNew(t)
      PROVE  Verified' /\ UsersHaveAccounts'
  BY <1>14
     DEF PasswordNew, Goto, handoff, comm, clients, fds, Verified,
         UsersHaveAccounts, TypeOK
<1>15. ASSUME NEW t \in Thread, Password(t)
      PROVE  Verified' /\ UsersHaveAccounts'
  BY <1>15
     DEF Password, VerifyPassword, Goto, handoff, comm, clients, fds, Verified,
         UsersHaveAccounts, TypeOK
<1>16. ASSUME NEW t \in Thread, PasswordBad(t)
      PROVE  Verified' /\ UsersHaveAccounts'
  BY <1>16
     DEF PasswordBad, Goto, handoff, comm, clients, fds, Verified,
         UsersHaveAccounts, TypeOK
<1>17. ASSUME NEW t \in Thread, PasswordPull(t)
      PROVE  Verified' /\ UsersHaveAccounts'
  BY <1>17
     DEF PasswordPull, EndLogin, Goto, comm, clients, fds, Verified,
         UsersHaveAccounts, TypeOK
<1>18. ASSUME NEW t \in Thread, InsertAccount(t)
      PROVE  Verified' /\ UsersHaveAccounts'
  BY <1>18
     DEF InsertAccount, InsertAccountRow, Goto, handoff, comm, clients, fds,
         Verified,
         UsersHaveAccounts, TypeOK
<1>19. ASSUME NEW t \in Thread, Greet(t)
      PROVE  Verified' /\ UsersHaveAccounts'
  BY <1>19
     DEF Greet, Goto, handoff, comm, fds, Verified, UsersHaveAccounts, TypeOK
<1>20. ASSUME NEW t \in Thread, InsertCheck(t)
      PROVE  Verified' /\ UsersHaveAccounts'
  BY <1>20
     DEF InsertCheck, Answer, Goto, handoff, comm, clients, fds, Verified,
         UsersHaveAccounts, TypeOK
<1>21. ASSUME NEW t \in Thread, Insert(t)
      PROVE  Verified' /\ UsersHaveAccounts'
  <2>1. \A i \in DOMAIN InsertUser(userName[t], connfd[t]) :
          \/ i \in DOMAIN userList
               /\ InsertUser(userName[t], connfd[t])[i] = userList[i]
          \/ InsertUser(userName[t], connfd[t])[i].userName = userName[t]
    BY <1>21, AppendProperties, LenProperties
       DEF Insert, Goto, InsertUser, TypeOK, BuffersKnown
  <2> QED
    BY <1>21, <2>1
       DEF Insert, Goto, handoff, comm, clients, fds, Verified,
           UsersHaveAccounts, TypeOK
<1>22. ASSUME NEW t \in Thread, Release(t)
      PROVE  Verified' /\ UsersHaveAccounts'
  BY <1>22
     DEF Release, Goto, handoff, comm, clients, fds, Verified,
         UsersHaveAccounts, TypeOK
<1>23. ASSUME NEW t \in Thread, Register(t)
      PROVE  Verified' /\ UsersHaveAccounts'
  BY <1>23
     DEF Register, EndLogin, Goto, comm, clients, fds, Verified,
         UsersHaveAccounts, TypeOK
<1>24. ASSUME NEW fd \in Fd, ReceiveBye(fd)
      PROVE  Verified' /\ UsersHaveAccounts'
  BY <1>24
     DEF ReceiveBye, handoff, locals, clients, fds, Verified,
         UsersHaveAccounts, TypeOK
<1>25. ASSUME DeleteMatched
      PROVE  Verified' /\ UsersHaveAccounts'
  <2>1. \A i \in DOMAIN DeleteUser(commName) :
          \E j \in DOMAIN userList : DeleteUser(commName)[i] = userList[j]
    BY DeleteUserProperties DEF TypeOK
  <2> QED
    BY <1>25, <2>1
       DEF DeleteMatched, DisturbedCopies, handoff, locals, fds, Verified, UsersHaveAccounts,
           TypeOK
<1>26. ASSUME CloseConn
      PROVE  Verified' /\ UsersHaveAccounts'
  BY <1>26 DEF CloseConn, handoff, locals, Verified, UsersHaveAccounts, TypeOK
<1>27. ASSUME ClearConn
      PROVE  Verified' /\ UsersHaveAccounts'
  BY <1>27
     DEF ClearConn, handoff, locals, clients, fds, Verified,
         UsersHaveAccounts, TypeOK
<1>28. ASSUME NEW fd \in Fd, SayBye(fd)
      PROVE  Verified' /\ UsersHaveAccounts'
  BY <1>28
     DEF SayBye, handoff, locals, comm, fds, Verified, UsersHaveAccounts,
         TypeOK
<1>29. ASSUME NEW fd \in Fd, Vanish(fd)
      PROVE  Verified' /\ UsersHaveAccounts'
  BY <1>29
     DEF Vanish, handoff, locals, comm, fds, Verified, UsersHaveAccounts,
         TypeOK
<1>30. CASE UNCHANGED vars
  BY <1>30
     DEF vars, handoff, locals, comm, clients, fds, Verified,
         UsersHaveAccounts, TypeOK
<1> QED
  BY <1>1, <1>2, <1>3, <1>4, <1>5, <1>6, <1>7, <1>8, <1>9, <1>10, <1>11,
     <1>12, <1>13, <1>14, <1>15, <1>16, <1>17, <1>18, <1>19, <1>20, <1>21,
     <1>22, <1>23, <1>24, <1>25, <1>26, <1>27, <1>28, <1>29, <1>30, <1>31
     DEF Next, LoginStep, CommStep

(* The initial states satisfy the invariant. *)
LEMMA InitIInv == Init => IInv
<1> SUFFICES ASSUME Init
             PROVE  IInv
  OBVIOUS
<1>1. TypeOK
  <2>1. accepted \in 0 .. MaxConn
    BY BoundAssumption DEF Init
  <2>2. copy \in [Thread -> {"none", "listed", "absent", "stale"}]
    BY DEF Init
  <2>3. misled \in BOOLEAN
    BY DEF Init
  <2> QED
    BY <2>1, <2>2, <2>3 DEF Init, Handoff!Init, TypeOK
<1>2. BuffersKnown /\ Verified /\ UsersHaveAccounts
  BY DEF Init, BuffersKnown, Verified, UsersHaveAccounts
<1>3. ReservationsHeld
  BY DEF Init, ReservationsHeld, IsInjective
<1> QED
  BY <1>1, <1>2, <1>3 DEF IInv

(* The invariant is inductive. *)
LEMMA NextIInv == IInv /\ [Next]_vars => IInv'
BY TypeStep, HeldStep, AccountsStep DEF IInv

(* The shared tables and the buffers of the threads keep their types. *)
THEOREM TypeCorrect == Spec => []TypeOK
<1>1. IInv => TypeOK
  BY DEF IInv
<1> QED
  BY InitIInv, NextIInv, <1>1, PTL DEF Spec

(* No login, however it ends and whatever the other threads do meanwhile,  *)
(* leaves its name reserved.                                               *)
THEOREM ReservationsAlwaysHeld == Spec => []ReservationsHeld
<1>1. IInv => ReservationsHeld
  BY DEF IInv
<1> QED
  BY InitIInv, NextIInv, <1>1, PTL DEF Spec

(* Every user in the list has an account. *)
THEOREM UsersAlwaysHaveAccounts == Spec => []UsersHaveAccounts
<1>1. IInv => UsersHaveAccounts
  BY DEF IInv
<1> QED
  BY InitIInv, NextIInv, <1>1, PTL DEF Spec

(* There are never more reservations than login threads, so the array of    *)
(* MAX_DUMMY_LEN names suffices for as many threads.                        *)
NameSetFits == Len(nameSet) <= Cardinality(Thread)

(* The reservations never outnumber the threads: each belongs to a thread  *)
(* of its own.                                                             *)
THEOREM NameSetAlwaysFits == Spec => []NameSetFits
<1>1. ASSUME IInv
      PROVE  NameSetFits
  <2> DEFINE holder == [i \in 1 .. Len(nameSet) |->
                          CHOOSE t \in Thread : Holding(t) /\ userName[t] = nameSet[i]]
  <2>1. Len(nameSet) \in Nat /\ DOMAIN nameSet = 1 .. Len(nameSet)
    BY <1>1, LenProperties DEF IInv, TypeOK
  <2>2. \A i \in 1 .. Len(nameSet) :
          holder[i] \in Thread /\ userName[holder[i]] = nameSet[i]
    BY <1>1, <2>1 DEF IInv, ReservationsHeld
  <2>3. holder \in [1 .. Len(nameSet) -> Thread]
    BY <2>2
  <2> HIDE DEF holder
  <2>4. \A i, j \in 1 .. Len(nameSet) : holder[i] = holder[j] => i = j
    BY <1>1, <2>1, <2>2 DEF IInv, ReservationsHeld, IsInjective
  <2>5. holder \in Injection(1 .. Len(nameSet), Thread)
    BY <2>3, <2>4 DEF Injection, IsInjective
  <2>6. Cardinality(1 .. Len(nameSet)) <= Cardinality(Thread)
    BY <2>5, ThreadAssumption, FS_Injection
  <2>7. Cardinality(1 .. Len(nameSet)) = Len(nameSet)
    <3> DEFINE n == Len(nameSet)
    <3>1. n \in Int /\ 1 \in Int
      BY <2>1
    <3> HIDE DEF n
    <3>2. Cardinality(1 .. n) = IF 1 > n THEN 0 ELSE n - 1 + 1
      BY <3>1, FS_Interval
    <3> QED
      BY <2>1, <3>1, <3>2 DEF n
  <2> QED
    BY <2>6, <2>7 DEF NameSetFits
<1> QED
  BY InitIInv, NextIInv, <1>1, PTL DEF Spec

-----------------------------------------------------------------------------
SingleThread == \A t, u \in Thread : t = u

\* What the checks found out is so: the copy that is being walked, and what
\* insertUser relies on when it takes the lock a second time.
ChecksExact ==
  \A t \in Thread :
    /\ copy[t] = "listed" => IsUserExist(userName[t])
    /\ copy[t] = "absent" => ~IsUserExist(userName[t])
    /\ pc[t] = "insert" => ~IsUserExist(userName[t])

(* A check that was misled and an INSERT that failed are not forgotten. *)
LEMMA FaultsStay ==
  ASSUME IInv, [Next]_vars
  PROVE  (misled => misled') /\ unstored \subseteq unstored'
<1> USE DEF database, checks, IInv
<1>1. ASSUME NEW t \in Thread,
             CheckOnline(t) \/ RefuseKeep(t) \/ RefuseListed(t) \/ InsertCheck(t)
      PROVE  (misled => misled') /\ unstored' = unstored
  <2>1. misled => misled'
    BY <1>1 DEF CheckOnline, RefuseKeep, RefuseListed, InsertCheck, Answer
  <2>2. unstored' = unstored
    BY <1>1 DEF CheckOnline, RefuseKeep, RefuseListed, InsertCheck
  <2> QED
    BY <2>1, <2>2
<1>2. ASSUME NEW t \in Thread, InsertAccount(t)
      PROVE  misled' = misled /\ unstored \subseteq unstored'
  BY <1>2 DEF InsertAccount, InsertAccountRow
<1>3. ASSUME \/ AcceptConn \/ Enqueue \/ CommStep \/ UNCHANGED vars
             \/ \E fd \in Fd : SayBye(fd) \/ Vanish(fd)
      PROVE  misled' = misled /\ unstored' = unstored
  BY <1>3 DEF AcceptConn, Enqueue, CommStep, ReceiveBye, DeleteMatched, CloseConn,
     ClearConn, SayBye, Vanish, vars
<1>4. ASSUME NEW t \in Thread,
             \/ Dequeue(t) \/ HelloOk(t) \/ HelloBad(t) \/ IdentifyBad(t)
             \/ (\E name \in Name : IdentifyNew(t, name) \/ Identify(t, name))
             \/ CopyUserList(t) \/ Reserve(t) \/ RefusePull(t)
             \/ PasswordNew(t) \/ Password(t) \/ PasswordBad(t) \/ PasswordPull(t)
             \/ Greet(t) \/ Insert(t) \/ Release(t) \/ Register(t)
      PROVE  misled' = misled /\ unstored' = unstored
  BY <1>4 DEF Dequeue, HelloOk, HelloBad, IdentifyBad, IdentifyNew, Identify,
     CopyUserList, Reserve, RefusePull, PasswordNew, Password, PasswordBad,
     PasswordPull, Greet, Insert, Release, Register
<1> QED
  BY <1>1, <1>2, <1>3, <1>4 DEF Next, LoginStep

(* What a check that was not misled says is so, when its copy was exact. *)
LEMMA AnswerTrue ==
  ASSUME IInv, ~misled', NEW t \in Thread, NEW exists \in BOOLEAN, Answer(t, exists),
         copy[t] = "listed" => IsUserExist(userName[t]),
         copy[t] = "absent" => ~IsUserExist(userName[t])
  PROVE  exists <=> IsUserExist(userName[t])
<1>1. copy[t] \in {"listed", "absent", "stale"}
  BY DEF Answer, IInv, TypeOK
<1>2. CASE copy[t] = "listed"
  BY <1>2 DEF Answer
<1>3. CASE copy[t] = "absent"
  BY <1>3 DEF Answer
<1>4. CASE copy[t] = "stale"
  <2>1. ~(exists # IsUserExist(userName[t]))
    BY <1>4 DEF Answer
  <2>2. IsUserExist(userName[t]) \in BOOLEAN
    BY DEF IsUserExist
  <2> QED
    BY <2>1, <2>2
<1> QED
  BY <1>1, <1>2, <1>3, <1>4

(* Every step of the server with one login thread keeps the names apart. *)
LEMMA SingleStep ==
  ASSUME SingleThread
  PROVE  IInv /\ NamesApart /\ ChecksExact /\ [Next]_vars /\ ~misled'
           => NamesApart' /\ ChecksExact'
<1> SUFFICES ASSUME IInv, NamesApart, ChecksExact, [Next]_vars, ~misled'
             PROVE  NamesApart' /\ ChecksExact'
  OBVIOUS
<1> USE SingleThread DEF IInv, database, checks
<1>1. ASSUME AcceptConn
      PROVE  NamesApart' /\ ChecksExact'
  BY <1>1
     DEF AcceptConn, locals, comm, clients, NamesApart, ChecksExact,
         IsUserExist, TypeOK
<1>2. ASSUME Enqueue
      PROVE  NamesApart' /\ ChecksExact'
  BY <1>2
     DEF Enqueue, locals, comm, clients, fds, NamesApart, ChecksExact,
         IsUserExist, TypeOK
<1>3. ASSUME NEW t \in Thread, Dequeue(t)
      PROVE  NamesApart' /\ ChecksExact'
  BY <1>3
     DEF Dequeue, Goto, comm, clients, fds, NamesApart, ChecksExact,
         IsUserExist, TypeOK
<1>4. ASSUME NEW t \in Thread, HelloOk(t)
      PROVE  NamesApart' /\ ChecksExact'
  BY <1>4
     DEF HelloOk, Goto, handoff, comm, clients, fds, NamesApart,
         ChecksExact, IsUserExist, TypeOK
<1>5. ASSUME NEW t \in Thread, HelloBad(t)
      PROVE  NamesApart' /\ ChecksExact'
  BY <1>5
     DEF HelloBad, EndLogin, Goto, comm, clients, fds, NamesApart,
         ChecksExact, IsUserExist, TypeOK
<1>6. ASSUME NEW t \in Thread, NEW name \in Name, IdentifyNew(t, name)
      PROVE  NamesApart' /\ ChecksExact'
  BY <1>6
     DEF IdentifyNew, Goto, BuffersKnown, handoff, comm, clients, fds, NamesApart,
         ChecksExact, IsUserExist, TypeOK
<1>7. ASSUME NEW t \in Thread, NEW name \in Name, Identify(t, name)
      PROVE  NamesApart' /\ ChecksExact'
  BY <1>7
     DEF Identify, Goto, BuffersKnown, handoff, comm, clients, fds, NamesApart,
         ChecksExact, IsUserExist, TypeOK
<1>8. ASSUME NEW t \in Thread, IdentifyBad(t)
      PROVE  NamesApart' /\ ChecksExact'
  BY <1>8
     DEF IdentifyBad, Goto, handoff, comm, clients, fds, NamesApart,
         ChecksExact, IsUserExist, TypeOK
<1>31. ASSUME NEW t \in Thread, CopyUserList(t)
      PROVE  NamesApart' /\ ChecksExact'
  BY <1>31
     DEF CopyUserList, handoff, locals, comm, clients, fds, NamesApart, ChecksExact,
         IsUserExist, TypeOK
<1>9. ASSUME NEW t \in Thread, CheckOnline(t)
      PROVE  NamesApart' /\ ChecksExact'
  BY <1>9
     DEF CheckOnline, Answer, Goto, handoff, comm, clients, fds, NamesApart,
         ChecksExact, IsUserExist, TypeOK
<1>10. ASSUME NEW t \in Thread, Reserve(t)
      PROVE  NamesApart' /\ ChecksExact'
  BY <1>10
     DEF Reserve, Goto, handoff, comm, clients, fds, NamesApart,
         ChecksExact, IsUserExist, TypeOK
<1>11. ASSUME NEW t \in Thread, RefuseKeep(t)
      PROVE  NamesApart' /\ ChecksExact'
  BY <1>11
     DEF RefuseKeep, Answer, EndLogin, Goto, comm, clients, fds, NamesApart,
         ChecksExact, IsUserExist, TypeOK
<1>12. ASSUME NEW t \in Thread, RefuseListed(t)
      PROVE  NamesApart' /\ ChecksExact'
  BY <1>12
     DEF RefuseListed, Answer, Goto, handoff, comm, clients, fds, NamesApart,
         ChecksExact, IsUserExist, TypeOK
<1>13. ASSUME NEW t \in Thread, RefusePull(t)
      PROVE  NamesApart' /\ ChecksExact'
  BY <1>13
     DEF RefusePull, EndLogin, Goto, comm, clients, fds, NamesApart,
         ChecksExact, IsUserExist, TypeOK
<1>14. ASSUME NEW t \in Thread, PasswordNew(t)
      PROVE  NamesApart' /\ ChecksExact'
  BY <1>14
     DEF PasswordNew, Goto, handoff, comm, clients, fds, NamesApart,
         ChecksExact, IsUserExist, TypeOK
<1>15. ASSUME NEW t \in Thread, Password(t)
      PROVE  NamesApart' /\ ChecksExact'
  BY <1>15
     DEF Password, Goto, handoff, comm, clients, fds, NamesApart,
         ChecksExact, IsUserExist, TypeOK
<1>16. ASSUME NEW t \in Thread, PasswordBad(t)
      PROVE  NamesApart' /\ ChecksExact'
  BY <1>16
     DEF PasswordBad, Goto, handoff, comm, clients, fds, NamesApart,
         ChecksExact, IsUserExist, TypeOK
<1>17. ASSUME NEW t \in Thread, PasswordPull(t)
      PROVE  NamesApart' /\ ChecksExact'
  BY <1>17
     DEF PasswordPull, EndLogin, Goto, comm, clients, fds, NamesApart,
         ChecksExact, IsUserExist, TypeOK
<1>18. ASSUME NEW t \in Thread, InsertAccount(t)
      PROVE  NamesApart' /\ ChecksExact'
  BY <1>18
     DEF InsertAccount, Goto, handoff, comm, clients, fds, NamesApart,
         ChecksExact, IsUserExist, TypeOK
<1>19. ASSUME NEW t \in Thread, Greet(t)
      PROVE  NamesApart' /\ ChecksExact'
  BY <1>19
     DEF Greet, Goto, handoff, comm, fds, NamesApart, ChecksExact,
         IsUserExist, TypeOK
<1>20. ASSUME NEW t \in Thread, InsertCheck(t)
      PROVE  NamesApart' /\ ChecksExact'
  <2>1. PICK exists \in BOOLEAN :
          Answer(t, exists) /\ Goto(t, "insertCheck", IF exists THEN "pull" ELSE "insert")
    BY <1>20 DEF InsertCheck
  <2>2. exists <=> IsUserExist(userName[t])
    BY <2>1, AnswerTrue DEF ChecksExact
  <2>3. userList' = userList /\ userName' = userName
    BY <1>20 DEF InsertCheck
  <2>4. \A u \in Thread : u = t
    BY SingleThread DEF SingleThread
  <2>5. copy'[t] = "none" /\ pc'[t] = IF exists THEN "pull" ELSE "insert"
    BY <2>1 DEF Answer, Goto, TypeOK
  <2>6. IsUserExist(userName[t])' <=> IsUserExist(userName[t])
    BY <2>3 DEF IsUserExist
  <2>7. ChecksExact'
    BY <2>2, <2>4, <2>5, <2>6 DEF ChecksExact
  <2> QED
    BY <2>3, <2>7 DEF NamesApart
<1>21. ASSUME NEW t \in Thread, Insert(t)
      PROVE  NamesApart' /\ ChecksExact'
  <2> DEFINE new == InsertUser(userName[t], connfd[t])
  <2>1. DOMAIN userList = 1 .. Len(userList) /\ Len(userList) \in Nat
    BY LenProperties DEF TypeOK
  <2>2. /\ DOMAIN new = 1 .. Len(userList) + 1
        /\ new[Len(userList) + 1].userName = userName[t]
        /\ \A i \in 1 .. Len(userList) : new[i] = userList[i]
    BY <1>21, <2>1, AppendProperties, LenProperties
       DEF Insert, Goto, InsertUser, TypeOK, BuffersKnown
  <2> HIDE DEF new
  <2>3. \A i \in 1 .. Len(userList) : userList[i].userName # userName[t]
    BY <1>21, <2>1 DEF Insert, Goto, ChecksExact, IsUserExist
  <2>4. userList' = new
    BY <1>21 DEF Insert, new
  <2>5. NamesApart'
    BY <2>1, <2>2, <2>3, <2>4 DEF NamesApart
  <2>6. \A u \in Thread : pc'[u] = "pull" /\ copy'[u] = "none"
    <3>1. pc[t] = "insert" /\ pc'[t] = "pull" /\ copy' = copy
      BY <1>21 DEF Insert, Goto, TypeOK
    <3>2. copy[t] = "none"
      BY <3>1 DEF BuffersKnown
    <3> QED
      BY <3>1, <3>2 DEF SingleThread
  <2> QED
    BY <2>5, <2>6 DEF ChecksExact
<1>22. ASSUME NEW t \in Thread, Release(t)
      PROVE  NamesApart' /\ ChecksExact'
  BY <1>22
     DEF Release, Goto, handoff, comm, clients, fds, NamesApart,
         ChecksExact, IsUserExist, TypeOK
<1>23. ASSUME NEW t \in Thread, Register(t)
      PROVE  NamesApart' /\ ChecksExact'
  BY <1>23
     DEF Register, EndLogin, Goto, comm, clients, fds, NamesApart,
         ChecksExact, IsUserExist, TypeOK
<1>24. ASSUME NEW fd \in Fd, ReceiveBye(fd)
      PROVE  NamesApart' /\ ChecksExact'
  BY <1>24
     DEF ReceiveBye, handoff, locals, clients, fds, NamesApart,
         ChecksExact, IsUserExist, TypeOK
<1>25. ASSUME DeleteMatched
      PROVE  NamesApart' /\ ChecksExact'
  <2>1. /\ userList' = DeleteUser(commName) /\ copy' = DisturbedCopies
        /\ pc' = pc /\ userName' = userName
    BY <1>25 DEF DeleteMatched, locals
  <2>2. /\ \A i \in DOMAIN DeleteUser(commName) :
             \E j \in DOMAIN userList : DeleteUser(commName)[i] = userList[j]
        /\ \A i, j \in DOMAIN DeleteUser(commName) :
             DeleteUser(commName)[i].userName = DeleteUser(commName)[j].userName => i = j
        /\ ~IsUserExist(commName) => DeleteUser(commName) = userList
    BY DeleteUserProperties DEF TypeOK
  <2>3. \A t \in Thread : IsUserExist(userName[t])' => IsUserExist(userName[t])
    BY <2>1, <2>2 DEF IsUserExist
  <2>4. CASE IsUserExist(commName)
    <3>1. \A t \in Thread : copy'[t] \in {"none", "stale"}
      BY <2>1, <2>4 DEF DisturbedCopies
    <3> QED
      BY <2>1, <2>2, <2>3, <3>1 DEF ChecksExact, NamesApart
  <2>5. CASE ~IsUserExist(commName)
    <3>1. userList' = userList /\ \A t \in Thread : copy'[t] = copy[t]
      BY <2>1, <2>2, <2>5 DEF DisturbedCopies
    <3> QED
      BY <2>1, <3>1 DEF ChecksExact, NamesApart, IsUserExist
  <2> QED
    BY <2>4, <2>5
<1>26. ASSUME CloseConn
      PROVE  NamesApart' /\ ChecksExact'
  BY <1>26
     DEF CloseConn, handoff, locals, NamesApart, ChecksExact, IsUserExist,
         TypeOK
<1>27. ASSUME ClearConn
      PROVE  NamesApart' /\ ChecksExact'
  BY <1>27
     DEF ClearConn, handoff, locals, clients, fds, NamesApart, ChecksExact,
         IsUserExist, TypeOK
<1>28. ASSUME NEW fd \in Fd, SayBye(fd)
      PROVE  NamesApart' /\ ChecksExact'
  BY <1>28
     DEF SayBye, handoff, locals, comm, fds, NamesApart, ChecksExact,
         IsUserExist, TypeOK
<1>29. ASSUME NEW fd \in Fd, Vanish(fd)
      PROVE  NamesApart' /\ ChecksExact'
  BY <1>29
     DEF Vanish, handoff, locals, comm, fds, NamesApart, ChecksExact,
         IsUserExist, TypeOK
<1>30. CASE UNCHANGED vars
  BY <1>30
     DEF vars, handoff, locals, comm, clients, fds, NamesApart,
         ChecksExact, IsUserExist, TypeOK
<1> QED
  BY <1>1, <1>2, <1>3, <1>4, <1>5, <1>6, <1>7, <1>8, <1>9, <1>10, <1>11,
     <1>12, <1>13, <1>14, <1>15, <1>16, <1>17, <1>18, <1>19, <1>20, <1>21,
     <1>22, <1>23, <1>24, <1>25, <1>26, <1>27, <1>28, <1>29, <1>30, <1>31
     DEF Next, LoginStep, CommStep

(* With one login thread no name is twice in the list of users, until a    *)
(* logout misleads a check.                                                *)
THEOREM NamesUniqueWithOneThread ==
  ASSUME SingleThread
  PROVE  Spec => []UniqueNames
<1> DEFINE J == ~misled => NamesApart /\ ChecksExact
<1>1. Init => J
  BY DEF Init, NamesApart, ChecksExact
<1>2. IInv /\ J /\ [Next]_vars => J'
  BY SingleStep, FaultsStay, SingleThread
<1>3. J => UniqueNames
  BY DEF UniqueNames
<1> QED
  BY InitIInv, NextIInv, <1>1, <1>2, <1>3, PTL DEF Spec

--------------------------------------------------------------------------------
(***************************************************************************)
(* With one login thread, for any number of names, descriptors and         *)
(* connections: the service implements Sessions, and who was greeted is in *)
(* the list. The descriptors are the difficulty: a descriptor is closed    *)
(* before it leaves the set of the communication thread, and accept() may  *)
(* give it to the next client in between.                                  *)
(***************************************************************************)
\* fd waits to be served, fd is in the hands of the server's login side,
\* a user with fd is in the list.
Queued(fd) == fd = mainFd \/ \E i \in DOMAIN queue : queue[i] = fd
InLogin(fd) == Queued(fd) \/ \E t \in Thread : connfd[t] = fd
Listed(fd) == \E i \in DOMAIN userList : userList[i].connfd = fd

\* Thread t has greeted its client, and insertUser is done.
Greeting(t) == pc[t] \in {"insertCheck", "insert", "pull", "register"}
Inserted(t) == pc[t] \in {"pull", "register"}

\* A connection is in one place of the handoff.
OnePlace ==
  /\ \A t \in Thread : pc[t] = "dequeue" => connfd[t] = NoFd
  /\ \A i, j \in DOMAIN queue : queue[i] = queue[j] => i = j
  /\ \A i \in DOMAIN queue : queue[i] # mainFd
  /\ \A t \in Thread : connfd[t] # NoFd => ~Queued(connfd[t])

\* A descriptor with anything left to it is open.
OpenWhileUsed ==
  \A fd \in Fd :
    InLogin(fd) \/ Listed(fd) \/ fd \in byes \/ greeted[fd] # NoName => fd \in opened

\* The set of the communication thread names a descriptor that is closed, or is
\* another client's, only until FD_CLR.
StaleUntilClear ==
  \A fd \in registered :
    InLogin(fd) \/ fd \notin opened => commPc = "clear" /\ commFd = fd

\* Nothing is known of a client before its greeting.
NewConn ==
  /\ \A fd \in Fd : Queued(fd) => ~Listed(fd) /\ fd \notin byes /\ greeted[fd] = NoName
  /\ \A t \in Thread : connfd[t] \in Fd =>
       /\ ~Greeting(t) => connfd[t] \notin byes /\ greeted[connfd[t]] = NoName
       /\ ~Inserted(t) => ~Listed(connfd[t])

\* A client is inserted by the name it was greeted with.
GreetedByName ==
  \A t \in Thread :
    pc[t] \in {"insertCheck", "insert"} => greeted[connfd[t]] \in {userName[t], NoName}

\* BYE comes from clients that were greeted.
ByeFromGreeted ==
  \A fd \in byes : greeted[fd] # NoName \/ (commPc = "close" /\ commFd = fd)

\* A name found absent stays so until it is inserted.
StillAbsent ==
  \A t \in Thread :
    pc[t] \in {"push", "password", "account", "greet", "insertCheck", "insert"} =>
      ~IsUserExist(userName[t])

\* The communication thread handles the BYE of the user it has matched.
ByeMatched ==
  /\ commPc = "delete" =>
       /\ commFd \in byes /\ ~InLogin(commFd)
       /\ greeted[commFd] = commName /\ commName # NoName
       /\ \E i \in DOMAIN userList : userList[i] = [userName |-> commName, connfd |-> commFd]
  /\ commPc = "close" =>
       /\ commFd \in opened /\ ~InLogin(commFd) /\ ~Listed(commFd)
       /\ greeted[commFd] = NoName

\* No descriptor is in the list twice.
UniqueConns ==
  \A i, j \in DOMAIN userList : userList[i].connfd = userList[j].connfd => i = j

SInv ==
  /\ OnePlace /\ OpenWhileUsed /\ StaleUntilClear /\ NewConn /\ GreetedByName
  /\ ByeFromGreeted /\ StillAbsent /\ ByeMatched /\ NamesApart /\ UniqueConns
  /\ GreetedInList

(* Put moves the connection of the main thread to the end of the queue. *)
LEMMA PutQueued ==
  ASSUME TypeOK, OnePlace, Handoff!Put
  PROVE  /\ mainFd' = NoFd /\ connfd' = connfd
         /\ \A fd \in Fd : Queued(fd)' <=> Queued(fd)
         /\ \A i, j \in DOMAIN queue' : queue'[i] = queue'[j] => i = j
         /\ \A i \in DOMAIN queue' : queue'[i] # mainFd'
<1>1. /\ mainFd \in Fd /\ queue \in Seq(Fd)
      /\ mainFd' = NoFd /\ connfd' = connfd /\ queue' = Append(queue, mainFd)
  BY DEF TypeOK, Handoff!Put
<1>2. /\ DOMAIN queue = 1 .. Len(queue) /\ Len(queue) \in Nat
      /\ DOMAIN queue' = 1 .. Len(queue) + 1
      /\ \A i \in 1 .. Len(queue) : queue'[i] = queue[i] /\ queue[i] \in Fd
      /\ queue'[Len(queue) + 1] = mainFd
  BY <1>1, AppendProperties, LenProperties
<1>3. \A fd \in Fd : fd # NoFd
  BY BoundAssumption DEF Fd, NoFd
<1>4. \A i \in 1 .. Len(queue) + 1 : i \in 1 .. Len(queue) \/ i = Len(queue) + 1
  BY <1>2
<1>5. \A i \in 1 .. Len(queue) : i \in 1 .. Len(queue) + 1 /\ i # Len(queue) + 1
  BY <1>2
<1>6. Len(queue) + 1 \in 1 .. Len(queue) + 1
  BY <1>2
<1> QED
  BY <1>1, <1>2, <1>3, <1>4, <1>5, <1>6 DEF Queued, OnePlace

(* Take moves the head of the queue to the thread. *)
LEMMA TakeQueued ==
  ASSUME TypeOK, OnePlace, NEW t \in Thread, Handoff!Take(t)
  PROVE  /\ mainFd' = mainFd /\ connfd' = [connfd EXCEPT ![t] = Head(queue)]
         /\ Head(queue) \in Fd /\ Queued(Head(queue))
         /\ \A fd \in Fd : Queued(fd)' <=> Queued(fd) /\ fd # Head(queue)
         /\ \A i, j \in DOMAIN queue' : queue'[i] = queue'[j] => i = j
         /\ \A i \in DOMAIN queue' : queue'[i] # mainFd'
<1> DEFINE h == Head(queue)
<1>1. /\ queue \in Seq(Fd) /\ queue # <<>>
      /\ mainFd' = mainFd /\ connfd' = [connfd EXCEPT ![t] = h] /\ queue' = Tail(queue)
  BY DEF TypeOK, Handoff!Take
<1>2. /\ DOMAIN queue = 1 .. Len(queue) /\ Len(queue) \in Nat /\ Len(queue) > 0
      /\ DOMAIN queue' = 1 .. Len(queue) - 1
      /\ \A i \in 1 .. Len(queue) - 1 : queue'[i] = queue[i + 1]
      /\ h \in Fd
  BY <1>1, HeadTailProperties, LenProperties, EmptySeq
<1>3. h = queue[1]
  BY <1>1
<1> HIDE DEF h
<1>4. /\ 1 \in DOMAIN queue
      /\ \A i \in 1 .. Len(queue) - 1 : i + 1 \in DOMAIN queue /\ i + 1 # 1
      /\ \A i \in DOMAIN queue : i # 1 => i - 1 \in 1 .. Len(queue) - 1 /\ (i - 1) + 1 = i
  BY <1>2
<1>5. Queued(h) /\ h # mainFd
  BY <1>3, <1>4 DEF Queued, OnePlace
<1>6. ASSUME NEW fd \in Fd
      PROVE  Queued(fd)' <=> Queued(fd) /\ fd # h
  <2>1. Queued(fd)' => Queued(fd) /\ fd # h
    BY <1>1, <1>2, <1>3, <1>4, <1>5 DEF Queued, OnePlace
  <2>2. ASSUME NEW i \in DOMAIN queue, queue[i] = fd, fd # h
        PROVE  \E j \in DOMAIN queue' : queue'[j] = fd
    <3>1. i - 1 \in DOMAIN queue' /\ queue'[i - 1] = queue[i]
      BY <1>2, <1>3, <1>4, <2>2
    <3> QED
      BY <2>2, <3>1
  <2> QED
    BY <1>1, <2>1, <2>2 DEF Queued
<1>7. \A i, j \in DOMAIN queue' : queue'[i] = queue'[j] => i = j
  <2>1. \A i, j \in DOMAIN queue : queue[i] = queue[j] => i = j
    BY DEF OnePlace
  <2> SUFFICES ASSUME NEW i \in DOMAIN queue', NEW j \in DOMAIN queue', queue'[i] = queue'[j]
               PROVE  i = j
    OBVIOUS
  <2>2. i + 1 = j + 1
    BY <1>2, <1>4, <2>1
  <2>3. i \in Int /\ j \in Int
    BY <1>2
  <2> QED
    BY <2>2, <2>3
<1>8. \A i \in DOMAIN queue' : queue'[i] # mainFd'
  BY <1>1, <1>2, <1>4 DEF OnePlace
<1> QED
  BY <1>1, <1>2, <1>5, <1>6, <1>7, <1>8 DEF h

(* insertUser adds one user and keeps the others. *)
LEMMA InsertedUser ==
  ASSUME TypeOK, NEW name \in Name, NEW fd \in Fd, userList' = InsertUser(name, fd)
  PROVE  /\ \A i \in DOMAIN userList' :
              \/ userList'[i] = [userName |-> name, connfd |-> fd]
              \/ \E j \in DOMAIN userList : userList'[i] = userList[j]
         /\ \A j \in DOMAIN userList : \E i \in DOMAIN userList' : userList'[i] = userList[j]
         /\ \E i \in DOMAIN userList' : userList'[i] = [userName |-> name, connfd |-> fd]
         /\ NamesApart /\ ~IsUserExist(name) => NamesApart'
         /\ UniqueConns /\ ~Listed(fd) => UniqueConns'
<1> DEFINE user == [userName |-> name, connfd |-> fd]
<1>1. /\ DOMAIN userList = 1 .. Len(userList) /\ Len(userList) \in Nat
      /\ DOMAIN userList' = 1 .. Len(userList) + 1
      /\ \A i \in 1 .. Len(userList) : userList'[i] = userList[i]
      /\ userList'[Len(userList) + 1] = user
  <2>1. userList \in Seq([userName : Name, connfd : Fd])
        /\ user \in [userName : Name, connfd : Fd]
    BY DEF TypeOK
  <2> QED
    BY <2>1, AppendProperties, LenProperties DEF InsertUser
<1>2. user.userName = name /\ user.connfd = fd
  OBVIOUS
<1> HIDE DEF user
<1>3. /\ \A i \in 1 .. Len(userList) + 1 : i \in 1 .. Len(userList) \/ i = Len(userList) + 1
      /\ \A i \in 1 .. Len(userList) : i \in 1 .. Len(userList) + 1
      /\ Len(userList) + 1 \in 1 .. Len(userList) + 1
  BY <1>1
<1>4. \A i \in DOMAIN userList' : userList'[i] = user \/ \E j \in DOMAIN userList : userList'[i] = userList[j]
  BY <1>1, <1>3
<1>5. \A j \in DOMAIN userList : \E i \in DOMAIN userList' : userList'[i] = userList[j]
  BY <1>1, <1>3
<1>6. \E i \in DOMAIN userList' : userList'[i] = user
  BY <1>1, <1>3
<1>7. NamesApart /\ ~IsUserExist(name) => NamesApart'
  BY <1>1, <1>2, <1>3 DEF NamesApart, IsUserExist
<1>8. UniqueConns /\ ~Listed(fd) => UniqueConns'
  BY <1>1, <1>2, <1>3 DEF UniqueConns, Listed
<1> QED
  BY <1>4, <1>5, <1>6, <1>7, <1>8 DEF user

(* deleteUser removes the user of that name and keeps the others. *)
LEMMA DeletedUser ==
  ASSUME TypeOK, NamesApart, NEW name, IsUserExist(name), userList' = DeleteUser(name)
  PROVE  /\ \A i \in DOMAIN userList' :
              \E j \in DOMAIN userList : userList'[i] = userList[j] /\ userList[j].userName # name
         /\ \A j \in DOMAIN userList :
              userList[j].userName # name => \E i \in DOMAIN userList' : userList'[i] = userList[j]
         /\ NamesApart'
         /\ UniqueConns => UniqueConns'
<1> DEFINE I == {i \in 1 .. Len(userList) : userList[i].userName = name}
           k == Min(I)
<1>1. /\ userList \in Seq([userName : Name, connfd : Fd])
      /\ DOMAIN userList = 1 .. Len(userList) /\ Len(userList) \in Nat
  BY LenProperties DEF TypeOK
<1>2. I # {} /\ I \in SUBSET Nat
  BY <1>1 DEF IsUserExist
<1>3. k \in 1 .. Len(userList) /\ userList[k].userName = name
  <2>1. k \in I
    BY <1>2, LeastElement
  <2> QED
    BY <2>1
<1>4. userList' = RemoveAt(userList, k)
  BY <1>2 DEF DeleteUser, RemoveFirstMatch, SelectInSeq
<1> HIDE DEF k
<1>5. /\ DOMAIN userList' = 1 .. Len(userList) - 1
      /\ \A i \in 1 .. Len(userList) - 1 :
           userList'[i] = IF i < k THEN userList[i] ELSE userList[i + 1]
  <2> DEFINE new == RemoveAt(userList, k)
             S == [userName : Name, connfd : Fd]
  <2>1. userList \in Seq(S) /\ k \in 1 .. Len(userList)
    BY <1>1, <1>3
  <2> HIDE DEF S
  <2>2. /\ new \in Seq(S) /\ Len(new) = Len(userList) - 1
        /\ \A i \in 1 .. Len(userList) - 1 :
             new[i] = IF i < k THEN userList[i] ELSE userList[i + 1]
    BY <2>1, RemoveAtProperties
  <2> HIDE DEF new
  <2>3. DOMAIN new = 1 .. Len(userList) - 1
    BY <2>2, LenProperties
  <2> QED
    BY <1>4, <2>2, <2>3 DEF new
<1> DEFINE Old(i) == IF i < k THEN i ELSE i + 1
           New(j) == IF j < k THEN j ELSE j - 1
<1>6. \A i \in DOMAIN userList' :
        Old(i) \in DOMAIN userList /\ Old(i) # k /\ userList'[i] = userList[Old(i)]
  BY <1>1, <1>3, <1>5
<1>7. \A i, j \in DOMAIN userList' : Old(i) = Old(j) => i = j
  BY <1>1, <1>3, <1>5
<1>8. \A j \in DOMAIN userList : j # k => New(j) \in DOMAIN userList' /\ Old(New(j)) = j
  BY <1>1, <1>3, <1>5
<1> HIDE DEF Old, New
<1>9. \A j \in DOMAIN userList : j # k => userList[j].userName # name
  BY <1>1, <1>3 DEF NamesApart
<1>10. NamesApart'
  BY <1>6, <1>7 DEF NamesApart
<1>11. UniqueConns => UniqueConns'
  BY <1>6, <1>7 DEF UniqueConns
<1> QED
  BY <1>3, <1>6, <1>8, <1>9, <1>10, <1>11

(* matchUser finds the user of a descriptor that is in the list once. *)
LEMMA MatchedUser ==
  ASSUME TypeOK, UniqueConns, NEW k \in DOMAIN userList, NEW buffer
  PROVE  MatchUser(userList[k].connfd, buffer) = userList[k].userName
<1> DEFINE found == {i \in DOMAIN userList : userList[i].connfd = userList[k].connfd}
<1>1. DOMAIN userList = 1 .. Len(userList) /\ Len(userList) \in Nat
  BY LenProperties DEF TypeOK
<1>2. k \in found
  OBVIOUS
<1>3. Max(found) \in found
  BY <1>1, <1>2, GreatestElement
<1>4. Max(found) = k
  BY <1>3 DEF UniqueConns
<1> QED
  BY <1>2, <1>4 DEF MatchUser

(* NoFd, an empty connfd, is not a descriptor.                             *)
LEMMA NoFdNotFd == NoFd \notin Fd
BY BoundAssumption DEF NoFd, Fd

(* A step of the exchange before HI: only the thread's place changes, its  *)
(* buffer, the reservations and the accounts.                              *)
LEMMA EarlyStep ==
  ASSUME SingleThread, IInv, SInv, NEW t \in Thread, NEW q,
         pc[t] \notin {"dequeue", "insertCheck", "insert", "pull", "register"},
         q \notin {"dequeue", "insertCheck", "insert", "pull", "register"},
         pc' = [pc EXCEPT ![t] = q],
         q \in {"push", "password", "account", "greet"} => ~IsUserExist(userName'[t]),
         UNCHANGED <<handoff, userList, registered, comm, clients, fds>>
  PROVE  SInv'
<1>1. OnePlace'
  BY DEF SInv, handoff, OnePlace, Queued
<1>2. OpenWhileUsed'
  BY DEF SInv, handoff, clients, fds, OpenWhileUsed, InLogin, Queued, Listed
<1>3. StaleUntilClear'
  BY DEF SInv, handoff, comm, fds, StaleUntilClear, InLogin, Queued
<1>4. NewConn'
  BY DEF SInv, handoff, clients, NewConn, Queued, Listed, Greeting, Inserted
<1>5. GreetedByName'
  BY DEF GreetedByName, SingleThread
<1>6. ByeFromGreeted'
  BY DEF SInv, comm, clients, ByeFromGreeted
<1>7. StillAbsent'
  BY DEF IInv, StillAbsent, IsUserExist, TypeOK, SingleThread
<1>8. ByeMatched'
  BY DEF SInv, handoff, comm, clients, fds, ByeMatched, InLogin, Queued, Listed
<1>9. NamesApart'
  BY DEF SInv, NamesApart
<1>10. UniqueConns'
  BY DEF SInv, UniqueConns
<1>11. GreetedInList'
  BY DEF SInv, handoff, clients, GreetedInList, Inserting
<1> QED
  BY <1>1, <1>2, <1>3, <1>4, <1>5, <1>6, <1>7, <1>8, <1>9, <1>10, <1>11 DEF SInv

(* A login that fails before HI: the thread lets its connection go.        *)
LEMMA FailedStep ==
  ASSUME SingleThread, IInv, SInv, NEW t \in Thread,
         pc[t] \notin {"dequeue", "insertCheck", "insert", "pull", "register"},
         pc' = [pc EXCEPT ![t] = "dequeue"], Handoff!Finish(t),
         UNCHANGED <<userList, registered, comm, clients, fds>>
  PROVE  SInv'
<1>1. OnePlace'
  BY DEF SInv, IInv, Handoff!Finish, OnePlace, SingleThread, TypeOK
<1>2. OpenWhileUsed'
  BY NoFdNotFd DEF SInv, Handoff!Finish, clients, fds, OpenWhileUsed, InLogin,
     Queued, Listed
<1>3. StaleUntilClear'
  BY NoFdNotFd DEF SInv, IInv, Handoff!Finish, comm, fds, StaleUntilClear,
     Queued, InLogin, TypeOK
<1>4. NewConn'
  BY NoFdNotFd DEF SInv, Handoff!Finish, clients, NewConn, Queued, Listed,
     Greeting, Inserted
<1>5. GreetedByName'
  BY DEF GreetedByName, SingleThread
<1>6. ByeFromGreeted'
  BY DEF SInv, comm, clients, ByeFromGreeted
<1>7. StillAbsent'
  BY DEF IInv, StillAbsent, TypeOK, SingleThread
<1>8. ByeMatched'
  BY NoFdNotFd DEF SInv, IInv, Handoff!Finish, comm, clients, fds, ByeMatched,
     Queued, InLogin, Listed, TypeOK
<1>9. NamesApart'
  BY DEF SInv, NamesApart
<1>10. UniqueConns'
  BY DEF SInv, UniqueConns
<1>11. GreetedInList'
  BY DEF SInv, Handoff!Finish, clients, GreetedInList, Inserting
<1> QED
  BY <1>1, <1>2, <1>3, <1>4, <1>5, <1>6, <1>7, <1>8, <1>9, <1>10, <1>11 DEF SInv

(* Every step keeps the invariant.                                         *)
LEMMA NextSInv ==
  ASSUME SingleThread
  PROVE  IInv /\ SInv /\ ChecksExact /\ [Next]_vars /\ Undisturbed' => SInv'
<1> SUFFICES ASSUME IInv, SInv, ChecksExact, [Next]_vars, Undisturbed'
             PROVE  SInv'
  OBVIOUS
<1>0. ~misled' /\ unstored = {}
  BY FaultsStay DEF Undisturbed
<1> USE DEF SInv, IInv, database, checks
<1>1. ASSUME AcceptConn
      PROVE  SInv'
  <2>0. PICK new \in Fd :
          /\ new \notin opened /\ opened' = opened \cup {new}
          /\ mainFd = NoFd /\ mainFd' = new /\ queue' = queue /\ connfd' = connfd
    BY <1>1 DEF AcceptConn, Handoff!Accept
  <2>1. OnePlace'
    BY <1>1, <2>0 DEF AcceptConn, locals, OnePlace, OpenWhileUsed, Queued,
       InLogin
  <2>2. OpenWhileUsed'
    BY <1>1, <2>0 DEF AcceptConn, clients, OpenWhileUsed, InLogin, Queued,
       Listed
  <2>3. StaleUntilClear'
    BY <1>1, <2>0 DEF AcceptConn, comm, StaleUntilClear, InLogin, Queued
  <2>4. NewConn'
    BY <1>1, <2>0 DEF AcceptConn, locals, clients, OpenWhileUsed, NewConn,
       Queued, Listed, Greeting, Inserted
  <2>5. GreetedByName'
    BY <1>1, <2>0 DEF AcceptConn, locals, clients, GreetedByName
  <2>6. ByeFromGreeted'
    BY <1>1 DEF AcceptConn, comm, clients, ByeFromGreeted
  <2>7. StillAbsent'
    BY <1>1 DEF AcceptConn, locals, StillAbsent, IsUserExist
  <2>8. ByeMatched'
    BY <1>1, <2>0 DEF AcceptConn, comm, clients, OpenWhileUsed, ByeMatched,
       Queued, InLogin, Listed
  <2>9. NamesApart'
    BY <1>1 DEF AcceptConn, NamesApart
  <2>10. UniqueConns'
    BY <1>1 DEF AcceptConn, UniqueConns
  <2>11. GreetedInList'
    BY <1>1, <2>0 DEF AcceptConn, locals, clients, GreetedInList, Inserting
  <2> QED
    BY <2>1, <2>2, <2>3, <2>4, <2>5, <2>6, <2>7, <2>8, <2>9, <2>10, <2>11
<1>2. ASSUME Enqueue
      PROVE  SInv'
  <2>0. /\ mainFd' = NoFd /\ connfd' = connfd
        /\ \A fd \in Fd : Queued(fd)' <=> Queued(fd)
        /\ \A i, j \in DOMAIN queue' : queue'[i] = queue'[j] => i = j
        /\ \A i \in DOMAIN queue' : queue'[i] # mainFd'
    BY <1>2, PutQueued DEF Enqueue
  <2>1. OnePlace'
    BY <1>2, <2>0 DEF Enqueue, locals, OnePlace, BuffersKnown
  <2>2. OpenWhileUsed'
    BY <1>2, <2>0 DEF Enqueue, clients, fds, OpenWhileUsed, InLogin, Listed
  <2>3. StaleUntilClear'
    BY <1>2, <2>0 DEF Enqueue, comm, fds, StaleUntilClear, InLogin, TypeOK
  <2>4. NewConn'
    BY <1>2, <2>0 DEF Enqueue, locals, clients, NewConn, Listed, Greeting,
       Inserted
  <2>5. GreetedByName'
    BY <1>2, <2>0 DEF Enqueue, locals, clients, GreetedByName
  <2>6. ByeFromGreeted'
    BY <1>2 DEF Enqueue, comm, clients, ByeFromGreeted
  <2>7. StillAbsent'
    BY <1>2 DEF Enqueue, locals, StillAbsent, IsUserExist
  <2>8. ByeMatched'
    BY <1>2, <2>0 DEF Enqueue, comm, clients, fds, ByeMatched, InLogin, Listed,
       TypeOK
  <2>9. NamesApart'
    BY <1>2 DEF Enqueue, NamesApart
  <2>10. UniqueConns'
    BY <1>2 DEF Enqueue, UniqueConns
  <2>11. GreetedInList'
    BY <1>2, <2>0 DEF Enqueue, locals, clients, GreetedInList, Inserting
  <2> QED
    BY <2>1, <2>2, <2>3, <2>4, <2>5, <2>6, <2>7, <2>8, <2>9, <2>10, <2>11
<1>3. ASSUME NEW t \in Thread, Dequeue(t)
      PROVE  SInv'
  <2>0. /\ mainFd' = mainFd /\ connfd' = [connfd EXCEPT ![t] = Head(queue)]
        /\ Head(queue) \in Fd /\ Queued(Head(queue))
        /\ \A fd \in Fd : Queued(fd)' <=> Queued(fd) /\ fd # Head(queue)
        /\ \A i, j \in DOMAIN queue' : queue'[i] = queue'[j] => i = j
        /\ \A i \in DOMAIN queue' : queue'[i] # mainFd'
    BY <1>3, TakeQueued DEF Dequeue
  <2>1. OnePlace'
    BY <1>3, <2>0 DEF Dequeue, Goto, OnePlace, TypeOK
  <2>2. OpenWhileUsed'
    BY <1>3, <2>0 DEF Dequeue, clients, fds, OpenWhileUsed, InLogin, Listed
  <2>3. StaleUntilClear'
    BY <1>3, <2>0 DEF Dequeue, comm, fds, StaleUntilClear, InLogin, TypeOK
  <2>4. NewConn'
    BY <1>3, <2>0 DEF Dequeue, Goto, clients, NewConn, Listed, Greeting,
       Inserted
  <2>5. GreetedByName'
    BY <1>3, <2>0 DEF Dequeue, Goto, clients, GreetedByName
  <2>6. ByeFromGreeted'
    BY <1>3 DEF Dequeue, comm, clients, ByeFromGreeted
  <2>7. StillAbsent'
    BY <1>3 DEF Dequeue, Goto, StillAbsent, IsUserExist
  <2>8. ByeMatched'
    BY <1>3, <2>0 DEF Dequeue, comm, clients, fds, ByeMatched, InLogin, Listed,
       TypeOK
  <2>9. NamesApart'
    BY <1>3 DEF Dequeue, NamesApart
  <2>10. UniqueConns'
    BY <1>3 DEF Dequeue, UniqueConns
  <2>11. GreetedInList'
    BY <1>3, <2>0 DEF Dequeue, Goto, clients, GreetedInList, Inserting
  <2> QED
    BY <2>1, <2>2, <2>3, <2>4, <2>5, <2>6, <2>7, <2>8, <2>9, <2>10, <2>11
<1>4. ASSUME NEW t \in Thread, HelloOk(t)
      PROVE  SInv'
  BY <1>4, SingleThread, EarlyStep DEF HelloOk, Goto
<1>5. ASSUME NEW t \in Thread, HelloBad(t)
      PROVE  SInv'
  BY <1>5, SingleThread, FailedStep DEF HelloBad, EndLogin, Goto
<1>6. ASSUME NEW t \in Thread, NEW name \in Name, IdentifyNew(t, name)
      PROVE  SInv'
  <2> DEFINE q == IF IsAccountExist(name) THEN "refuse" ELSE "push"
  <2>1. /\ pc[t] \notin {"dequeue", "insertCheck", "insert", "pull", "register"}
        /\ q \notin {"dequeue", "insertCheck", "insert", "pull", "register"}
        /\ pc' = [pc EXCEPT ![t] = q]
        /\ UNCHANGED <<handoff, userList, registered, comm, clients, fds>>
    BY <1>6 DEF IdentifyNew, Goto
  <2>2. q \in {"push", "password", "account", "greet"} => ~IsUserExist(userName'[t])
    BY <1>0, <1>6 DEF IdentifyNew, Goto, StillAbsent, IsUserExist, IsAccountExist,
       UsersHaveAccounts, TypeOK
  <2> HIDE DEF q
  <2> QED
    BY <2>1, <2>2, SingleThread, EarlyStep
<1>7. ASSUME NEW t \in Thread, NEW name \in Name, Identify(t, name)
      PROVE  SInv'
  <2> DEFINE q == IF IsAccountExist(name) THEN "check" ELSE "refuse"
  <2>1. /\ pc[t] \notin {"dequeue", "insertCheck", "insert", "pull", "register"}
        /\ q \notin {"dequeue", "insertCheck", "insert", "pull", "register"}
        /\ pc' = [pc EXCEPT ![t] = q]
        /\ UNCHANGED <<handoff, userList, registered, comm, clients, fds>>
    BY <1>7 DEF Identify, Goto
  <2>2. q \in {"push", "password", "account", "greet"} => ~IsUserExist(userName'[t])
    BY <1>7 DEF Identify, Goto, StillAbsent, IsUserExist, IsAccountExist,
       UsersHaveAccounts, TypeOK
  <2> HIDE DEF q
  <2> QED
    BY <2>1, <2>2, SingleThread, EarlyStep
<1>8. ASSUME NEW t \in Thread, IdentifyBad(t)
      PROVE  SInv'
  BY <1>8, SingleThread, EarlyStep DEF IdentifyBad, Goto
<1>31. ASSUME NEW t \in Thread, CopyUserList(t)
      PROVE  SInv'
  BY <1>31 DEF CopyUserList, handoff, locals, comm, clients, fds, OnePlace,
     OpenWhileUsed, StaleUntilClear, NewConn, GreetedByName, ByeFromGreeted,
     StillAbsent, ByeMatched, NamesApart, UniqueConns, GreetedInList, Queued,
     InLogin, Listed, Greeting, Inserted, IsUserExist, Inserting, TypeOK,
     BuffersKnown
<1>9. ASSUME NEW t \in Thread, CheckOnline(t)
      PROVE  SInv'
  <2>1. PICK exists \in BOOLEAN :
          Answer(t, exists) /\ Goto(t, "check", IF exists THEN "refuse" ELSE "push")
    BY <1>9 DEF CheckOnline
  <2> DEFINE q == IF exists THEN "refuse" ELSE "push"
  <2>2. /\ pc[t] \notin {"dequeue", "insertCheck", "insert", "pull", "register"}
        /\ q \notin {"dequeue", "insertCheck", "insert", "pull", "register"}
        /\ pc' = [pc EXCEPT ![t] = q] /\ userName' = userName
        /\ UNCHANGED <<handoff, userList, registered, comm, clients, fds>>
    BY <1>9, <2>1 DEF CheckOnline, Goto
  <2>3. exists <=> IsUserExist(userName[t])
    BY <1>0, <2>1, AnswerTrue DEF ChecksExact
  <2>4. q \in {"push", "password", "account", "greet"} => ~IsUserExist(userName'[t])
    BY <2>2, <2>3
  <2> HIDE DEF q
  <2> QED
    BY <2>2, <2>4, SingleThread, EarlyStep
<1>10. ASSUME NEW t \in Thread, Reserve(t)
      PROVE  SInv'
  <2> DEFINE q == IF PushSucceeds(nameSet, userName[t]) THEN "password" ELSE "refuse"
  <2>1. /\ pc[t] \notin {"dequeue", "insertCheck", "insert", "pull", "register"}
        /\ q \notin {"dequeue", "insertCheck", "insert", "pull", "register"}
        /\ pc' = [pc EXCEPT ![t] = q]
        /\ UNCHANGED <<handoff, userList, registered, comm, clients, fds>>
    BY <1>10 DEF Reserve, Goto
  <2>2. q \in {"push", "password", "account", "greet"} => ~IsUserExist(userName'[t])
    BY <1>10 DEF Reserve, Goto, StillAbsent, IsUserExist, IsAccountExist,
       UsersHaveAccounts, TypeOK
  <2> HIDE DEF q
  <2> QED
    BY <2>1, <2>2, SingleThread, EarlyStep
<1>11. ASSUME NEW t \in Thread, RefuseKeep(t)
      PROVE  SInv'
  BY <1>11, SingleThread, FailedStep DEF RefuseKeep, Answer, EndLogin, Goto
<1>12. ASSUME NEW t \in Thread, RefuseListed(t)
      PROVE  SInv'
  BY <1>12, SingleThread, EarlyStep DEF RefuseListed, Answer, Goto
<1>13. ASSUME NEW t \in Thread, RefusePull(t)
      PROVE  SInv'
  BY <1>13, SingleThread, FailedStep DEF RefusePull, EndLogin, Goto
<1>14. ASSUME NEW t \in Thread, PasswordNew(t)
      PROVE  SInv'
  <2> DEFINE q == "account"
  <2>1. /\ pc[t] \notin {"dequeue", "insertCheck", "insert", "pull", "register"}
        /\ q \notin {"dequeue", "insertCheck", "insert", "pull", "register"}
        /\ pc' = [pc EXCEPT ![t] = q]
        /\ UNCHANGED <<handoff, userList, registered, comm, clients, fds>>
    BY <1>14 DEF PasswordNew, Goto
  <2>2. q \in {"push", "password", "account", "greet"} => ~IsUserExist(userName'[t])
    BY <1>14 DEF PasswordNew, Goto, StillAbsent, IsUserExist, IsAccountExist,
       UsersHaveAccounts, TypeOK
  <2> HIDE DEF q
  <2> QED
    BY <2>1, <2>2, SingleThread, EarlyStep
<1>15. ASSUME NEW t \in Thread, Password(t)
      PROVE  SInv'
  <2> DEFINE q == "greet"
  <2>1. /\ pc[t] \notin {"dequeue", "insertCheck", "insert", "pull", "register"}
        /\ q \notin {"dequeue", "insertCheck", "insert", "pull", "register"}
        /\ pc' = [pc EXCEPT ![t] = q]
        /\ UNCHANGED <<handoff, userList, registered, comm, clients, fds>>
    BY <1>15 DEF Password, Goto
  <2>2. q \in {"push", "password", "account", "greet"} => ~IsUserExist(userName'[t])
    BY <1>15 DEF Password, Goto, StillAbsent, IsUserExist, IsAccountExist,
       UsersHaveAccounts, TypeOK
  <2> HIDE DEF q
  <2> QED
    BY <2>1, <2>2, SingleThread, EarlyStep
<1>16. ASSUME NEW t \in Thread, PasswordBad(t)
      PROVE  SInv'
  BY <1>16, SingleThread, EarlyStep DEF PasswordBad, Goto
<1>17. ASSUME NEW t \in Thread, PasswordPull(t)
      PROVE  SInv'
  BY <1>17, SingleThread, FailedStep DEF PasswordPull, EndLogin, Goto
<1>18. ASSUME NEW t \in Thread, InsertAccount(t)
      PROVE  SInv'
  <2> DEFINE q == "greet"
  <2>1. /\ pc[t] \notin {"dequeue", "insertCheck", "insert", "pull", "register"}
        /\ q \notin {"dequeue", "insertCheck", "insert", "pull", "register"}
        /\ pc' = [pc EXCEPT ![t] = q]
        /\ UNCHANGED <<handoff, userList, registered, comm, clients, fds>>
    BY <1>18 DEF InsertAccount, Goto
  <2>2. q \in {"push", "password", "account", "greet"} => ~IsUserExist(userName'[t])
    BY <1>18 DEF InsertAccount, Goto, StillAbsent, IsUserExist, IsAccountExist,
       UsersHaveAccounts, TypeOK
  <2> HIDE DEF q
  <2> QED
    BY <2>1, <2>2, SingleThread, EarlyStep
<1>19. ASSUME NEW t \in Thread, Greet(t)
      PROVE  SInv'
  <2>1. OnePlace'
    BY <1>19 DEF Greet, Goto, handoff, OnePlace, Queued
  <2>2. OpenWhileUsed'
    BY <1>19 DEF Greet, handoff, fds, OpenWhileUsed, InLogin, Queued, Listed
  <2>3. StaleUntilClear'
    BY <1>19 DEF Greet, handoff, comm, fds, StaleUntilClear, InLogin, Queued
  <2>4. NewConn'
    BY <1>19, NoFdNotFd DEF Greet, Goto, handoff, NewConn, Queued, Listed,
       Greeting, Inserted, TypeOK, SingleThread, OnePlace
  <2>5. GreetedByName'
    BY <1>19 DEF Greet, Goto, handoff, GreetedByName, SingleThread, TypeOK,
       BuffersKnown
  <2>6. ByeFromGreeted'
    BY <1>19 DEF Greet, Goto, handoff, comm, NewConn, ByeFromGreeted, Greeting,
       BuffersKnown
  <2>7. StillAbsent'
    BY <1>19 DEF Greet, Goto, StillAbsent, IsUserExist
  <2>8. ByeMatched'
    BY <1>19 DEF Greet, handoff, comm, fds, ByeMatched, InLogin, Queued, Listed
  <2>9. NamesApart'
    BY <1>19 DEF Greet, NamesApart
  <2>10. UniqueConns'
    BY <1>19 DEF Greet, UniqueConns
  <2>11. GreetedInList'
    BY <1>19 DEF Greet, Goto, handoff, GreetedInList, Inserting, TypeOK
  <2> QED
    BY <2>1, <2>2, <2>3, <2>4, <2>5, <2>6, <2>7, <2>8, <2>9, <2>10, <2>11
<1>20. ASSUME NEW t \in Thread, InsertCheck(t)
      PROVE  SInv'
  <2>1. OnePlace'
    BY <1>20 DEF InsertCheck, Answer, Goto, handoff, OnePlace, Queued
  <2>2. OpenWhileUsed'
    BY <1>20 DEF InsertCheck, handoff, clients, fds, OpenWhileUsed, InLogin,
       Queued, Listed
  <2>3. StaleUntilClear'
    BY <1>20 DEF InsertCheck, handoff, comm, fds, StaleUntilClear, InLogin,
       Queued
  <2>4. NewConn'
    BY <1>20 DEF InsertCheck, Answer, Goto, handoff, clients, NewConn, Queued, Listed,
       Greeting, Inserted
  <2>5. GreetedByName'
    BY <1>20 DEF InsertCheck, Answer, Goto, handoff, clients, GreetedByName
  <2>6. ByeFromGreeted'
    BY <1>20 DEF InsertCheck, comm, clients, ByeFromGreeted
  <2>7. StillAbsent'
    BY <1>20 DEF InsertCheck, Answer, Goto, StillAbsent, IsUserExist
  <2>8. ByeMatched'
    BY <1>20 DEF InsertCheck, handoff, comm, clients, fds, ByeMatched, InLogin,
       Queued, Listed
  <2>9. NamesApart'
    BY <1>20 DEF InsertCheck, NamesApart
  <2>10. UniqueConns'
    BY <1>20 DEF InsertCheck, UniqueConns
  <2>11. GreetedInList'
    <3>1. PICK exists \in BOOLEAN :
            Answer(t, exists) /\ Goto(t, "insertCheck", IF exists THEN "pull" ELSE "insert")
      BY <1>20 DEF InsertCheck
    <3>2. exists <=> IsUserExist(userName[t])
      BY <1>0, <3>1, AnswerTrue DEF ChecksExact
    <3>3. pc[t] = "insertCheck" /\ pc' = [pc EXCEPT ![t] = "insert"]
      BY <3>1, <3>2 DEF Goto, StillAbsent
    <3>4. UNCHANGED <<connfd, greeted, userList>>
      BY <1>20 DEF InsertCheck, handoff, clients
    <3> QED
      BY <3>3, <3>4 DEF GreetedInList, Inserting, TypeOK
  <2> QED
    BY <2>1, <2>2, <2>3, <2>4, <2>5, <2>6, <2>7, <2>8, <2>9, <2>10, <2>11
<1>21. ASSUME NEW t \in Thread, Insert(t)
      PROVE  SInv'
  <2>0. /\ userName[t] \in Name /\ connfd[t] \in Fd
        /\ ~IsUserExist(userName[t]) /\ ~Listed(connfd[t])
    BY <1>21 DEF Insert, Goto, StillAbsent, NewConn, BuffersKnown, Inserted
  <2>u1. /\ \A i \in DOMAIN userList' :
              \/ userList'[i] = [userName |-> userName[t], connfd |-> connfd[t]]
              \/ \E j \in DOMAIN userList : userList'[i] = userList[j]
         /\ \A j \in DOMAIN userList : \E i \in DOMAIN userList' : userList'[i] = userList[j]
         /\ \E i \in DOMAIN userList' :
              userList'[i] = [userName |-> userName[t], connfd |-> connfd[t]]
         /\ NamesApart' /\ UniqueConns'
    BY <1>21, <2>0, InsertedUser DEF Insert
  <2>u2. \A fd : Listed(fd)' => Listed(fd) \/ fd = connfd[t]
    BY <2>u1 DEF Listed
  <2>1. OnePlace'
    BY <1>21 DEF Insert, Goto, handoff, OnePlace, Queued
  <2>2. OpenWhileUsed'
    BY <1>21, <2>u1 DEF Insert, handoff, clients, fds, OpenWhileUsed, InLogin,
       Queued, Listed
  <2>3. StaleUntilClear'
    BY <1>21 DEF Insert, handoff, comm, fds, StaleUntilClear, InLogin, Queued
  <2>4. NewConn'
    BY <1>21, <2>u2, NoFdNotFd DEF Insert, Goto, handoff, clients, NewConn,
       Queued, Greeting, Inserted, TypeOK, SingleThread, OnePlace
  <2>5. GreetedByName'
    BY <1>21 DEF Insert, Goto, handoff, clients, GreetedByName
  <2>6. ByeFromGreeted'
    BY <1>21 DEF Insert, comm, clients, ByeFromGreeted
  <2>7. StillAbsent'
    BY <1>21 DEF Insert, Goto, StillAbsent, TypeOK, SingleThread
  <2>8. ByeMatched'
    BY <1>21, <2>u1 DEF Insert, handoff, comm, clients, fds, ByeMatched,
       InLogin, Queued, Listed
  <2>9. NamesApart'
    BY <1>21, <2>u1
  <2>10. UniqueConns'
    BY <1>21, <2>u1
  <2>11. GreetedInList'
    BY <1>21, <2>u1 DEF Insert, comm, clients, GreetedByName, GreetedInList,
       Inserting, SingleThread
  <2> QED
    BY <2>1, <2>2, <2>3, <2>4, <2>5, <2>6, <2>7, <2>8, <2>9, <2>10, <2>11
<1>22. ASSUME NEW t \in Thread, Release(t)
      PROVE  SInv'
  <2>1. OnePlace'
    BY <1>22 DEF Release, Goto, handoff, OnePlace, Queued
  <2>2. OpenWhileUsed'
    BY <1>22 DEF Release, handoff, clients, fds, OpenWhileUsed, InLogin, Queued,
       Listed
  <2>3. StaleUntilClear'
    BY <1>22 DEF Release, handoff, comm, fds, StaleUntilClear, InLogin, Queued
  <2>4. NewConn'
    BY <1>22 DEF Release, Goto, handoff, clients, NewConn, Queued, Listed,
       Greeting, Inserted
  <2>5. GreetedByName'
    BY <1>22 DEF Release, Goto, handoff, clients, GreetedByName
  <2>6. ByeFromGreeted'
    BY <1>22 DEF Release, comm, clients, ByeFromGreeted
  <2>7. StillAbsent'
    BY <1>22 DEF Release, Goto, StillAbsent, IsUserExist
  <2>8. ByeMatched'
    BY <1>22 DEF Release, handoff, comm, clients, fds, ByeMatched, InLogin,
       Queued, Listed
  <2>9. NamesApart'
    BY <1>22 DEF Release, NamesApart
  <2>10. UniqueConns'
    BY <1>22 DEF Release, UniqueConns
  <2>11. GreetedInList'
    BY <1>22 DEF Release, Goto, handoff, clients, GreetedInList, Inserting
  <2> QED
    BY <2>1, <2>2, <2>3, <2>4, <2>5, <2>6, <2>7, <2>8, <2>9, <2>10, <2>11
<1>23. ASSUME NEW t \in Thread, Register(t)
      PROVE  SInv'
  <2>1. OnePlace'
    BY <1>23 DEF Register, EndLogin, Handoff!Finish, OnePlace, SingleThread,
       TypeOK
  <2>2. OpenWhileUsed'
    BY <1>23, NoFdNotFd DEF Register, EndLogin, Handoff!Finish, clients, fds,
       OpenWhileUsed, InLogin, Queued, Listed
  <2>3. StaleUntilClear'
    BY <1>23, NoFdNotFd DEF Register, EndLogin, Handoff!Finish, comm, fds,
       OnePlace, OpenWhileUsed, StaleUntilClear, Queued, InLogin, SingleThread,
       TypeOK
  <2>4. NewConn'
    BY <1>23, NoFdNotFd DEF Register, EndLogin, Handoff!Finish, clients,
       NewConn, Queued, Listed, TypeOK, SingleThread
  <2>5. GreetedByName'
    BY <1>23 DEF Register, EndLogin, Goto, Handoff!Finish, clients,
       GreetedByName
  <2>6. ByeFromGreeted'
    BY <1>23 DEF Register, comm, clients, ByeFromGreeted
  <2>7. StillAbsent'
    BY <1>23 DEF Register, EndLogin, Goto, StillAbsent, IsUserExist
  <2>8. ByeMatched'
    BY <1>23, NoFdNotFd DEF Register, EndLogin, Handoff!Finish, comm, clients,
       fds, ByeMatched, Queued, InLogin, Listed, TypeOK
  <2>9. NamesApart'
    BY <1>23 DEF Register, NamesApart
  <2>10. UniqueConns'
    BY <1>23 DEF Register, UniqueConns
  <2>11. GreetedInList'
    BY <1>23 DEF Register, EndLogin, Goto, Handoff!Finish, clients,
       GreetedInList, Inserting
  <2> QED
    BY <2>1, <2>2, <2>3, <2>4, <2>5, <2>6, <2>7, <2>8, <2>9, <2>10, <2>11
<1>24. ASSUME NEW fd \in Fd, ReceiveBye(fd)
      PROVE  SInv'
  <2>0. ~InLogin(fd) /\ greeted[fd] # NoName
    BY <1>24 DEF ReceiveBye, StaleUntilClear, ByeFromGreeted
  <2>u1. PICK k \in DOMAIN userList :
           userList[k] = [userName |-> greeted[fd], connfd |-> fd]
    BY <2>0 DEF GreetedInList, Inserting, InLogin
  <2>u2. commName' = greeted[fd]
    BY <1>24, <2>u1, MatchedUser DEF ReceiveBye
  <2>1. OnePlace'
    BY <1>24 DEF ReceiveBye, handoff, locals, OnePlace, Queued
  <2>2. OpenWhileUsed'
    BY <1>24 DEF ReceiveBye, handoff, clients, fds, OpenWhileUsed, InLogin,
       Queued, Listed
  <2>3. StaleUntilClear'
    BY <1>24 DEF ReceiveBye, handoff, fds, StaleUntilClear, InLogin, Queued
  <2>4. NewConn'
    BY <1>24 DEF ReceiveBye, handoff, locals, clients, NewConn, Queued, Listed,
       Greeting, Inserted
  <2>5. GreetedByName'
    BY <1>24 DEF ReceiveBye, handoff, locals, clients, GreetedByName
  <2>6. ByeFromGreeted'
    BY <1>24 DEF ReceiveBye, clients, ByeFromGreeted
  <2>7. StillAbsent'
    BY <1>24 DEF ReceiveBye, locals, StillAbsent, IsUserExist
  <2>8. ByeMatched'
    BY <1>24, <2>0, <2>u1, <2>u2 DEF ReceiveBye, handoff, clients, ByeMatched,
       InLogin, Queued
  <2>9. NamesApart'
    BY <1>24 DEF ReceiveBye, NamesApart
  <2>10. UniqueConns'
    BY <1>24 DEF ReceiveBye, UniqueConns
  <2>11. GreetedInList'
    BY <1>24 DEF ReceiveBye, handoff, locals, clients, GreetedInList, Inserting
  <2> QED
    BY <2>1, <2>2, <2>3, <2>4, <2>5, <2>6, <2>7, <2>8, <2>9, <2>10, <2>11
<1>25. ASSUME DeleteMatched
      PROVE  SInv'
  <2>0. IsUserExist(commName)
    BY <1>25 DEF DeleteMatched, DisturbedCopies, ByeMatched, IsUserExist
  <2>u1. /\ \A i \in DOMAIN userList' : \E j \in DOMAIN userList :
              userList'[i] = userList[j] /\ userList[j].userName # commName
         /\ \A j \in DOMAIN userList :
              userList[j].userName # commName =>
                \E i \in DOMAIN userList' : userList'[i] = userList[j]
         /\ NamesApart' /\ UniqueConns'
    BY <1>25, <2>0, DeletedUser DEF DeleteMatched
  <2>u2. \A fd : Listed(fd)' => Listed(fd)
    BY <2>u1 DEF Listed
  <2>1. OnePlace'
    BY <1>25 DEF DeleteMatched, DisturbedCopies, handoff, locals, OnePlace, Queued
  <2>2. OpenWhileUsed'
    BY <1>25, <2>u1 DEF DeleteMatched, DisturbedCopies, handoff, fds, OpenWhileUsed, InLogin,
       Queued, Listed
  <2>3. StaleUntilClear'
    BY <1>25 DEF DeleteMatched, DisturbedCopies, handoff, fds, StaleUntilClear, InLogin, Queued
  <2>4. NewConn'
    BY <1>25, <2>u2 DEF DeleteMatched, DisturbedCopies, handoff, locals, NewConn, Queued,
       Greeting, Inserted
  <2>5. GreetedByName'
    BY <1>25 DEF DeleteMatched, DisturbedCopies, handoff, locals, GreetedByName
  <2>6. ByeFromGreeted'
    BY <1>25 DEF DeleteMatched, DisturbedCopies, ByeFromGreeted
  <2>7. StillAbsent'
    BY <1>25, <2>u1 DEF DeleteMatched, DisturbedCopies, locals, StillAbsent, IsUserExist
  <2>8. ByeMatched'
    BY <1>25, <2>u1 DEF DeleteMatched, DisturbedCopies, handoff, fds, OpenWhileUsed, ByeMatched,
       UniqueConns, Queued, InLogin, Listed, TypeOK
  <2>9. NamesApart'
    BY <1>25, <2>u1
  <2>10. UniqueConns'
    BY <1>25, <2>u1
  <2>11. GreetedInList'
    <3>1. PICK k \in DOMAIN userList :
            userList[k] = [userName |-> commName, connfd |-> commFd]
      BY <1>25 DEF DeleteMatched, DisturbedCopies, ByeMatched
    <3>2. ASSUME NEW fd \in Fd, greeted'[fd] # NoName
          PROVE  greeted[fd] = greeted'[fd] /\ fd # commFd
      BY <1>25, <3>2 DEF DeleteMatched, DisturbedCopies, TypeOK
    <3>3. ASSUME NEW fd \in Fd, fd # commFd, NEW i \in DOMAIN userList,
                 userList[i] = [userName |-> greeted[fd], connfd |-> fd]
          PROVE  userList[i].userName # commName
      BY <3>1, <3>3 DEF NamesApart
    <3>4. \A fd \in Fd : Inserting(fd) => Inserting(fd)'
      BY <1>25 DEF DeleteMatched, DisturbedCopies, handoff, locals, Inserting
    <3> QED
      BY <2>u1, <3>2, <3>3, <3>4 DEF GreetedInList
  <2> QED
    BY <2>1, <2>2, <2>3, <2>4, <2>5, <2>6, <2>7, <2>8, <2>9, <2>10, <2>11
<1>26. ASSUME CloseConn
      PROVE  SInv'
  <2>1. OnePlace'
    BY <1>26 DEF CloseConn, handoff, locals, OnePlace, Queued
  <2>2. OpenWhileUsed'
    BY <1>26 DEF CloseConn, handoff, OpenWhileUsed, ByeMatched, Queued, InLogin,
       Listed
  <2>3. StaleUntilClear'
    BY <1>26 DEF CloseConn, handoff, StaleUntilClear, InLogin, Queued
  <2>4. NewConn'
    BY <1>26 DEF CloseConn, handoff, locals, NewConn, Queued, Listed, Greeting,
       Inserted
  <2>5. GreetedByName'
    BY <1>26 DEF CloseConn, handoff, locals, GreetedByName
  <2>6. ByeFromGreeted'
    BY <1>26 DEF CloseConn, ByeFromGreeted
  <2>7. StillAbsent'
    BY <1>26 DEF CloseConn, locals, StillAbsent, IsUserExist
  <2>8. ByeMatched'
    BY <1>26 DEF CloseConn, ByeMatched
  <2>9. NamesApart'
    BY <1>26 DEF CloseConn, NamesApart
  <2>10. UniqueConns'
    BY <1>26 DEF CloseConn, UniqueConns
  <2>11. GreetedInList'
    BY <1>26 DEF CloseConn, handoff, locals, GreetedInList, Inserting
  <2> QED
    BY <2>1, <2>2, <2>3, <2>4, <2>5, <2>6, <2>7, <2>8, <2>9, <2>10, <2>11
<1>27. ASSUME ClearConn
      PROVE  SInv'
  <2>1. OnePlace'
    BY <1>27 DEF ClearConn, handoff, locals, OnePlace, Queued
  <2>2. OpenWhileUsed'
    BY <1>27 DEF ClearConn, handoff, clients, fds, OpenWhileUsed, InLogin,
       Queued, Listed
  <2>3. StaleUntilClear'
    BY <1>27 DEF ClearConn, handoff, fds, StaleUntilClear, InLogin, Queued
  <2>4. NewConn'
    BY <1>27 DEF ClearConn, handoff, locals, clients, NewConn, Queued, Listed,
       Greeting, Inserted
  <2>5. GreetedByName'
    BY <1>27 DEF ClearConn, handoff, locals, clients, GreetedByName
  <2>6. ByeFromGreeted'
    BY <1>27 DEF ClearConn, clients, ByeFromGreeted
  <2>7. StillAbsent'
    BY <1>27 DEF ClearConn, locals, StillAbsent, IsUserExist
  <2>8. ByeMatched'
    BY <1>27 DEF ClearConn, ByeMatched
  <2>9. NamesApart'
    BY <1>27 DEF ClearConn, NamesApart
  <2>10. UniqueConns'
    BY <1>27 DEF ClearConn, UniqueConns
  <2>11. GreetedInList'
    BY <1>27 DEF ClearConn, handoff, locals, clients, GreetedInList, Inserting
  <2> QED
    BY <2>1, <2>2, <2>3, <2>4, <2>5, <2>6, <2>7, <2>8, <2>9, <2>10, <2>11
<1>28. ASSUME NEW fd \in Fd, SayBye(fd)
      PROVE  SInv'
  <2>1. OnePlace'
    BY <1>28 DEF SayBye, handoff, locals, OnePlace, Queued
  <2>2. OpenWhileUsed'
    BY <1>28 DEF SayBye, handoff, fds, OpenWhileUsed, InLogin, Queued, Listed
  <2>3. StaleUntilClear'
    BY <1>28 DEF SayBye, handoff, comm, fds, StaleUntilClear, InLogin, Queued
  <2>4. NewConn'
    BY <1>28 DEF SayBye, handoff, locals, NewConn, Queued, Listed, Greeting,
       Inserted
  <2>5. GreetedByName'
    BY <1>28 DEF SayBye, handoff, locals, GreetedByName
  <2>6. ByeFromGreeted'
    BY <1>28 DEF SayBye, comm, ByeFromGreeted
  <2>7. StillAbsent'
    BY <1>28 DEF SayBye, locals, StillAbsent, IsUserExist
  <2>8. ByeMatched'
    BY <1>28 DEF SayBye, handoff, comm, fds, ByeMatched, InLogin, Queued, Listed
  <2>9. NamesApart'
    BY <1>28 DEF SayBye, NamesApart
  <2>10. UniqueConns'
    BY <1>28 DEF SayBye, UniqueConns
  <2>11. GreetedInList'
    BY <1>28 DEF SayBye, handoff, locals, GreetedInList, Inserting
  <2> QED
    BY <2>1, <2>2, <2>3, <2>4, <2>5, <2>6, <2>7, <2>8, <2>9, <2>10, <2>11
<1>29. ASSUME NEW fd \in Fd, Vanish(fd)
      PROVE  SInv'
  <2>1. OnePlace'
    BY <1>29 DEF Vanish, handoff, locals, OnePlace, Queued
  <2>2. OpenWhileUsed'
    BY <1>29 DEF Vanish, handoff, fds, OpenWhileUsed, InLogin, Queued, Listed
  <2>3. StaleUntilClear'
    BY <1>29 DEF Vanish, handoff, comm, fds, StaleUntilClear, InLogin, Queued
  <2>4. NewConn'
    BY <1>29 DEF Vanish, handoff, locals, NewConn, Queued, Listed, Greeting,
       Inserted
  <2>5. GreetedByName'
    BY <1>29 DEF Vanish, handoff, locals, GreetedByName
  <2>6. ByeFromGreeted'
    BY <1>29 DEF Vanish, comm, ByeFromGreeted
  <2>7. StillAbsent'
    BY <1>29 DEF Vanish, locals, StillAbsent, IsUserExist
  <2>8. ByeMatched'
    BY <1>29 DEF Vanish, handoff, comm, fds, ByeMatched, InLogin, Queued, Listed
  <2>9. NamesApart'
    BY <1>29 DEF Vanish, NamesApart
  <2>10. UniqueConns'
    BY <1>29 DEF Vanish, UniqueConns
  <2>11. GreetedInList'
    BY <1>29 DEF Vanish, handoff, locals, GreetedInList, Inserting
  <2> QED
    BY <2>1, <2>2, <2>3, <2>4, <2>5, <2>6, <2>7, <2>8, <2>9, <2>10, <2>11
<1>30. CASE UNCHANGED vars
  BY <1>30 DEF vars, handoff, locals, comm, clients, fds, OnePlace,
     OpenWhileUsed, StaleUntilClear, NewConn, GreetedByName, ByeFromGreeted,
     StillAbsent, ByeMatched, NamesApart, UniqueConns, GreetedInList, Queued,
     InLogin, Listed, Greeting, Inserted, IsUserExist, Inserting, TypeOK,
     BuffersKnown
<1> QED
  BY <1>1, <1>2, <1>3, <1>4, <1>5, <1>6, <1>7, <1>8, <1>9, <1>10, <1>11, <1>12,
     <1>13, <1>14, <1>15, <1>16, <1>17, <1>18, <1>19, <1>20, <1>21, <1>22,
     <1>23, <1>24, <1>25, <1>26, <1>27, <1>28, <1>29, <1>30, <1>31 DEF Next, LoginStep,
     CommStep

(* The invariant holds before the first connection.                        *)
LEMMA InitSInv == Init => SInv
<1> SUFFICES ASSUME Init
             PROVE  SInv
  OBVIOUS
<1>1. /\ mainFd = NoFd /\ queue = <<>> /\ connfd = [t \in Thread |-> NoFd]
      /\ userList = <<>> /\ byes = {} /\ registered = {} /\ commPc = "select"
      /\ pc = [t \in Thread |-> "dequeue"] /\ greeted = [fd \in Fd |-> NoName]
  BY DEF Init, Handoff!Init
<1>2. \A fd \in Fd : ~InLogin(fd) /\ ~Listed(fd)
  BY <1>1, NoFdNotFd DEF InLogin, Queued, Listed
<1>3. OnePlace /\ OpenWhileUsed /\ StaleUntilClear /\ ByeFromGreeted
  BY <1>1, <1>2 DEF OnePlace, OpenWhileUsed, StaleUntilClear, ByeFromGreeted
<1>4. NewConn /\ GreetedByName /\ StillAbsent /\ ByeMatched
  BY <1>1, <1>2 DEF InLogin, NewConn, GreetedByName, StillAbsent, ByeMatched
<1>5. NamesApart /\ UniqueConns /\ GreetedInList
  BY <1>1 DEF NamesApart, UniqueConns, GreetedInList
<1> QED
  BY <1>3, <1>4, <1>5 DEF SInv

(* With one thread the invariant holds as long as no check is misled and no *)
(* INSERT fails.                                                           *)
SingleInv == IInv /\ (Undisturbed => SInv /\ ChecksExact)

LEMMA SingleInvariance ==
  ASSUME SingleThread
  PROVE  Spec => []SingleInv
<1>1. Init => SingleInv
  BY InitIInv, InitSInv DEF Init, SingleInv, ChecksExact
<1>2. SingleInv /\ [Next]_vars => SingleInv'
  <2> SUFFICES ASSUME SingleInv, [Next]_vars
               PROVE  SingleInv'
    OBVIOUS
  <2>1. IInv /\ IInv'
    BY NextIInv DEF SingleInv
  <2>2. ASSUME Undisturbed'
        PROVE  SInv' /\ ChecksExact'
    <3>1. Undisturbed /\ ~misled'
      BY <2>1, <2>2, FaultsStay DEF Undisturbed
    <3>2. SInv /\ ChecksExact /\ NamesApart
      BY <3>1 DEF SingleInv, SInv
    <3>3. SInv'
      BY <2>1, <2>2, <3>2, NextSInv, SingleThread
    <3> QED
      BY <2>1, <3>1, <3>2, <3>3, SingleStep, SingleThread
  <2> QED
    BY <2>1, <2>2 DEF SingleInv
<1> QED
  BY <1>1, <1>2, PTL DEF Spec

-----------------------------------------------------------------------------
(* The sessions of the list.                                               *)
Online == {<<userList[i].userName, userList[i].connfd>> : i \in DOMAIN userList}

(* A step that changes neither the list, nor the accounts, nor what clients *)
(* were told is a stutter of Sessions.                                     *)
LEMMA Stutter ==
  ASSUME UNCHANGED <<accounts, greeted, userList>>
  PROVE  UNCHANGED Promise!vars
BY DEF Promise!vars

(* Every step of the server is a step of Sessions, or a stutter.           *)
LEMMA SessionsStep ==
  ASSUME SingleThread, SingleInv, [Next]_vars
  PROVE  [Undisturbed' => Promise!Next]_(Promise!vars)
<1> SUFFICES ASSUME Undisturbed'
             PROVE  [Promise!Next]_(Promise!vars)
  OBVIOUS
<1>0. IInv /\ SInv /\ unstored = {}
  BY FaultsStay DEF SingleInv, Undisturbed
<1> USE <1>0
<1> DEFINE Step == [Promise!Next]_(Promise!vars)
<1>1. ASSUME NEW t \in Thread, InsertAccount(t)
      PROVE  Step
  <2>1. userName[t] \in Name /\ accounts' \in {accounts, accounts \cup {userName[t]}}
    BY <1>1 DEF InsertAccount, InsertAccountRow, Goto, IInv, BuffersKnown
  <2>2. UNCHANGED <<greeted, userList>>
    BY <1>1 DEF InsertAccount, clients
  <2>3. CASE accounts' = accounts
    BY <2>2, <2>3, Stutter
  <2>4. CASE userName[t] \notin accounts /\ accounts' = accounts \cup {userName[t]}
    BY <2>1, <2>2, <2>4 DEF Promise!Next, Promise!Create
  <2> QED
    BY <2>1, <2>3, <2>4
<1>2. ASSUME NEW t \in Thread, Greet(t)
      PROVE  Step
  <2>0. PICK name \in Name, fd \in Fd : name = userName[t] /\ fd = connfd[t]
    BY <1>2 DEF Greet, Goto, IInv, BuffersKnown
  <2>1. /\ name \in accounts
        /\ ~IsUserExist(name) /\ ~Listed(fd)
    BY <1>2, <2>0 DEF Greet, Goto, IInv, Verified, SInv, StillAbsent, NewConn, Inserted
  <2>2. greeted' = [greeted EXCEPT ![fd] = name] /\ UNCHANGED <<accounts, userList>>
    BY <1>2, <2>0 DEF Greet, database
  <2>3. ASSUME NEW d \in Fd, greeted[d] = name
        PROVE  FALSE
    <3>1. ~Inserting(d)
      BY <1>2, SingleThread DEF Greet, Goto, Inserting, SingleThread
    <3>2. name # NoName
      BY NameAssumption
    <3> QED
      BY <2>1, <2>3, <3>1, <3>2 DEF SInv, GreetedInList, IsUserExist
  <2>4. ~Promise!NameOnline(name) /\ ~Promise!ConnOnline(fd)
    BY <2>1 DEF Promise!NameOnline, Promise!ConnOnline, IsUserExist, Listed
  <2>5. Promise!Greet(fd, name)
    BY <2>1, <2>2, <2>3, <2>4 DEF Promise!Greet
  <2> QED
    BY <2>5 DEF Promise!Next
<1>3. ASSUME NEW t \in Thread, Insert(t)
      PROVE  Step
  <2>0. PICK name \in Name, fd \in Fd : name = userName[t] /\ fd = connfd[t]
    BY <1>3 DEF Insert, Goto, IInv, BuffersKnown
  <2>1. /\ name \in accounts
        /\ ~IsUserExist(name) /\ ~Listed(fd)
    BY <1>3, <2>0 DEF Insert, Goto, IInv, Verified, SInv, StillAbsent, NewConn, Inserted
  <2>2. UNCHANGED <<accounts, greeted>>
    BY <1>3 DEF Insert, clients, database
  <2>3. ~Promise!NameOnline(name) /\ ~Promise!ConnOnline(fd)
    BY <2>1 DEF Promise!NameOnline, Promise!ConnOnline, IsUserExist, Listed
  <2>4. Online' = Online \cup {<<name, fd>>}
    <3>1. /\ \A i \in DOMAIN userList' :
               \/ userList'[i] = [userName |-> name, connfd |-> fd]
               \/ \E j \in DOMAIN userList : userList'[i] = userList[j]
          /\ \A j \in DOMAIN userList :
               \E i \in DOMAIN userList' : userList'[i] = userList[j]
          /\ \E i \in DOMAIN userList' :
               userList'[i] = [userName |-> name, connfd |-> fd]
      BY <1>3, <2>0, <2>1, InsertedUser DEF Insert, IInv
    <3> QED
      BY <3>1 DEF Online
  <2>5. Promise!Enter(fd, name)
    BY <2>1, <2>2, <2>3, <2>4 DEF Promise!Enter, Online
  <2> QED
    BY <2>5 DEF Promise!Next
<1>4. ASSUME DeleteMatched
      PROVE  Step
  <2>1. /\ commPc = "delete" /\ userList' = DeleteUser(commName)
        /\ greeted' = [greeted EXCEPT ![commFd] = NoName] /\ accounts' = accounts
    BY <1>4 DEF DeleteMatched, database
  <2>2. /\ commFd \in byes /\ greeted[commFd] = commName
        /\ \E k \in DOMAIN userList : userList[k] = [userName |-> commName, connfd |-> commFd]
    BY <2>1 DEF SInv, ByeMatched
  <2>3. PICK c \in Fd : c = commFd
    BY <2>2 DEF IInv, TypeOK
  <2>4. PICK k \in DOMAIN userList : userList[k] = [userName |-> commName, connfd |-> c]
    BY <2>2, <2>3
  <2>5. /\ \A i \in DOMAIN userList' : \E j \in DOMAIN userList :
             userList'[i] = userList[j] /\ userList[j].userName # commName
        /\ \A j \in DOMAIN userList :
             userList[j].userName # commName =>
               \E i \in DOMAIN userList' : userList'[i] = userList[j]
    BY <2>1, <2>4, DeletedUser DEF SInv, IInv, IsUserExist
  <2>6. \A j \in DOMAIN userList : userList[j].userName = commName => j = k
    BY <2>4 DEF SInv, NamesApart
  <2>7. Online' = Online \ {<<commName, c>>}
    BY <2>4, <2>5, <2>6 DEF Online
  <2>8. <<commName, c>> \in Online
    BY <2>4 DEF Online
  <2>9. Promise!Leave(c)
    BY <2>1, <2>2, <2>3, <2>7, <2>8 DEF Promise!Leave, Online
  <2> QED
    BY <2>9 DEF Promise!Next
<1>5. ASSUME NEW fd \in Fd, Vanish(fd)
      PROVE  Step
  <2>1. Promise!Vanish(fd)
    BY <1>5 DEF Vanish, Promise!Vanish, database
  <2> QED
    BY <2>1 DEF Promise!Next
<1>6. ASSUME \/ AcceptConn \/ Enqueue \/ CloseConn \/ ClearConn
             \/ \E fd \in Fd : ReceiveBye(fd) \/ SayBye(fd)
      PROVE  Step
  <2>1. UNCHANGED <<accounts, greeted, userList>>
    BY <1>6 DEF AcceptConn, Enqueue, CloseConn, ClearConn, ReceiveBye, SayBye, clients, database
  <2> QED
    BY <2>1, Stutter
<1>7. ASSUME NEW t \in Thread,
             \/ Dequeue(t) \/ HelloOk(t) \/ HelloBad(t) \/ IdentifyBad(t)
             \/ \E name \in Name : IdentifyNew(t, name) \/ Identify(t, name)
             \/ CopyUserList(t) \/ CheckOnline(t) \/ Reserve(t)
             \/ RefuseKeep(t) \/ RefuseListed(t) \/ RefusePull(t)
             \/ PasswordNew(t) \/ Password(t) \/ PasswordBad(t) \/ PasswordPull(t)
             \/ InsertCheck(t) \/ Release(t) \/ Register(t)
      PROVE  Step
  <2>1. UNCHANGED <<accounts, greeted, userList>>
    BY <1>7 DEF Dequeue, HelloOk, HelloBad, IdentifyNew, Identify, IdentifyBad,
       CopyUserList, CheckOnline, Reserve, RefuseKeep, RefuseListed, RefusePull, PasswordNew,
       Password, PasswordBad, PasswordPull, InsertCheck, Release, Register, clients,
       database
  <2> QED
    BY <2>1, Stutter
<1>8. CASE UNCHANGED vars
  <2>1. UNCHANGED <<accounts, greeted, userList>>
    BY <1>8 DEF vars, clients, database
  <2> QED
    BY <2>1, Stutter
<1> QED
  BY <1>1, <1>2, <1>3, <1>4, <1>5, <1>6, <1>7, <1>8 DEF Next, LoginStep, CommStep

-----------------------------------------------------------------------------
(* With one login thread a client that was told HI is in the list of users *)
(* until it says BYE, whatever became of its descriptor before, as long as  *)
(* no logout misleads a check and no INSERT fails.                         *)
THEOREM GreetedListedWithOneThread ==
  ASSUME SingleThread
  PROVE  Spec => []GreetedListed
<1>1. SingleInv => GreetedListed
  BY DEF SingleInv, SInv, GreetedListed
<1> QED
  BY <1>1, SingleInvariance, SingleThread, PTL

(* With one login thread the service implements Sessions until a logout     *)
(* misleads a check or an INSERT fails: a name belongs to one session at a *)
(* time, and BYE ends the session of its sender.                           *)
THEOREM OneThreadImplementsSessions ==
  ASSUME SingleThread
  PROVE  Spec => SessionsSpec
<1>1. Init => Promise!Init
  BY DEF Init, Promise!Init
<1>2. SingleInv /\ [Next]_vars => [Undisturbed' => Promise!Next]_(Promise!vars)
  BY SessionsStep, SingleThread
<1>3. Spec => []SingleInv
  BY SingleInvariance, SingleThread
<1> QED
  BY <1>1, <1>2, <1>3, PTL DEF Spec, SessionsSpec

--------------------------------------------------------------------------------
(***************************************************************************)
(* With any number of login threads: who loses a reservation, and how a    *)
(* name gets into the list twice. A refused login pulls a name it has not  *)
(* reserved, and then another login may lose its own; as long as a login   *)
(* has its reservation, nobody else inserts its name.                      *)
(***************************************************************************)

(* A name gets into the list a second time only by a login that was robbed, *)
(* or after a logout has misled a check: as long as its reservation holds,  *)
(* what isUserExist found out stays so.                                     *)
TwiceOnlyIfRobbed ==
  [][NamesApart /\ ~NamesApart' =>
       misled \/ \E t \in Thread : Insert(t) /\ ~SoleHolder(t)]_vars

\* A step that touches no reservation: who holds a name, and which.
HoldersKept ==
  \A u \in Thread :
    /\ Holding(u)' <=> Holding(u)
    /\ Holding(u) => userName'[u] = userName[u]

\* insertUser has found its name absent, or has a copy that says so.
FoundAbsent(t) == pc[t] = "insert" \/ (pc[t] = "insertCheck" /\ copy[t] = "absent")

\* What insertUser found out is so as long as the login has its reservation.
AbsentIfSole ==
  ~misled => \A t \in Thread : FoundAbsent(t) /\ SoleHolder(t) => ~IsUserExist(userName[t])

(* Only a push and the pulls touch the reservations. *)
LEMMA ReservationSteps ==
  IInv /\ [Next]_vars =>
    \/ nameSet' = nameSet /\ HoldersKept
    \/ \E t \in Thread : Reserve(t) \/ Pulls(t)
<1> DEFINE Quiet == nameSet' = nameSet /\ HoldersKept
<1> SUFFICES ASSUME IInv, [Next]_vars
             PROVE  Quiet \/ \E t \in Thread : Reserve(t) \/ Pulls(t)
  OBVIOUS
<1> USE DEF IInv
<1>1. ASSUME AcceptConn \/ Enqueue \/ CommStep
             \/ (\E fd \in Fd : SayBye(fd) \/ Vanish(fd)) \/ UNCHANGED vars
      PROVE  Quiet
  <2>1. nameSet' = nameSet /\ pc' = pc /\ userName' = userName
    BY <1>1
       DEF AcceptConn, Enqueue, CommStep, ReceiveBye, DeleteMatched, CloseConn, ClearConn,
           SayBye, Vanish, vars, locals
  <2> QED
    BY <2>1 DEF HoldersKept, Holding
<1>2. ASSUME NEW t \in Thread,
             \/ Dequeue(t) \/ HelloOk(t) \/ HelloBad(t) \/ IdentifyBad(t)
             \/ CopyUserList(t) \/ CheckOnline(t) \/ RefuseKeep(t) \/ RefuseListed(t)
             \/ Register(t)
             \/ PasswordNew(t) \/ Password(t) \/ PasswordBad(t)
             \/ InsertAccount(t) \/ Greet(t) \/ InsertCheck(t) \/ Insert(t)
      PROVE  Quiet
  <2>1. nameSet' = nameSet /\ userName' = userName
    BY <1>2
       DEF Dequeue, HelloOk, HelloBad, IdentifyBad, CopyUserList, CheckOnline, RefuseKeep,
           RefuseListed, Register, PasswordNew, Password, PasswordBad, InsertAccount,
           Greet, InsertCheck, Insert, locals
  <2>2. /\ Holding(t)' <=> Holding(t)
        /\ \A u \in Thread \ {t} : pc'[u] = pc[u]
    BY <1>2
       DEF Dequeue, HelloOk, HelloBad, IdentifyBad, CopyUserList, CheckOnline, RefuseKeep,
           RefuseListed, Register, PasswordNew, Password, PasswordBad, InsertAccount,
           Greet, InsertCheck, Insert, EndLogin, Goto, Holding, TypeOK, locals
  <2>3. \A u \in Thread \ {t} : Holding(u)' <=> Holding(u)
    BY <2>2 DEF Holding
  <2> QED
    BY <2>1, <2>2, <2>3 DEF HoldersKept
<1>3. ASSUME NEW t \in Thread, NEW name \in Name, IdentifyNew(t, name) \/ Identify(t, name)
      PROVE  Quiet
  <2>1. /\ nameSet' = nameSet /\ pc[t] = "identify" /\ pc'[t] \in {"refuse", "push", "check"}
        /\ \A u \in Thread \ {t} : pc'[u] = pc[u] /\ userName'[u] = userName[u]
    BY <1>3 DEF IdentifyNew, Identify, Goto, TypeOK
  <2>2. ~Holding(t) /\ ~Holding(t)'
    BY <2>1 DEF Holding
  <2>3. \A u \in Thread \ {t} : Holding(u)' <=> Holding(u)
    BY <2>1 DEF Holding
  <2> QED
    BY <2>1, <2>2, <2>3 DEF HoldersKept
<1> HIDE DEF Quiet
<1> QED
  BY <1>1, <1>2, <1>3 DEF Next, LoginStep, Pulls

(* A pull ends the login of its thread, or leaves it refused, and touches   *)
(* no other login.                                                         *)
LEMMA PullStep ==
  ASSUME IInv, NEW u \in Thread, Pulls(u)
  PROVE  /\ nameSet' = PullNameSet(nameSet, userName[u])
         /\ userName' = userName
         /\ ~Holding(u)'
         /\ \A v \in Thread \ {u} : Holding(v)' <=> Holding(v)
<1>1. /\ nameSet' = PullNameSet(nameSet, userName[u]) /\ userName' = userName
      /\ pc'[u] \in {"dequeue", "register"}
      /\ \A v \in Thread \ {u} : pc'[v] = pc[v]
  BY DEF Pulls, RefusePull, PasswordPull, Release, EndLogin, Goto, IInv, TypeOK
<1> QED
  BY <1>1 DEF Holding

(* A push reserves the name of its thread, when nobody has it. *)
LEMMA ReserveStep ==
  ASSUME IInv, NEW u \in Thread, Reserve(u)
  PROVE  /\ nameSet' = PushNameSet(nameSet, userName[u])
         /\ userName' = userName
         /\ ~Holding(u)
         /\ Holding(u)' => userName[u] \notin ToSet(nameSet)
         /\ userName[u] \in ToSet(nameSet) => nameSet' = nameSet
         /\ \A v \in Thread \ {u} : Holding(v)' <=> Holding(v)
<1>1. /\ nameSet' = PushNameSet(nameSet, userName[u]) /\ userName' = userName
      /\ pc[u] = "push"
      /\ pc'[u] = IF PushSucceeds(nameSet, userName[u]) THEN "password" ELSE "refuse"
      /\ \A v \in Thread \ {u} : pc'[v] = pc[v]
  BY DEF Reserve, Goto, IInv, TypeOK
<1>2. ~Holding(u) /\ \A v \in Thread \ {u} : Holding(v)' <=> Holding(v)
  BY <1>1 DEF Holding
<1>3. Holding(u)' => userName[u] \notin ToSet(nameSet)
  BY <1>1 DEF Holding, PushSucceeds
<1>4. userName[u] \in ToSet(nameSet) => nameSet' = nameSet
  BY <1>1 DEF PushNameSet
<1> QED
  BY <1>1, <1>2, <1>3, <1>4

(* After a pull the name is not reserved, and no name is that was not.     *)
LEMMA PulledAway ==
  ASSUME NEW S, NEW names \in Seq(S), IsInjective(names), NEW name
  PROVE  /\ name \notin ToSet(PullNameSet(names, name))
         /\ ToSet(PullNameSet(names, name)) \subseteq ToSet(names)
<1>1. CASE names = <<>>
  BY <1>1 DEF PullNameSet, ToSet
<1>2. CASE names # <<>>
  BY <1>2, PullProperties
<1> QED
  BY <1>1, <1>2

(* A login that has its reservation after a step had it before, unless it   *)
(* made it in that step.                                                   *)
LEMMA SoleBefore ==
  ASSUME IInv, [Next]_vars, NEW t \in Thread, Holding(t), SoleHolder(t)'
  PROVE  SoleHolder(t)
<1> DEFINE name == userName[t]
<1>1. CASE nameSet' = nameSet /\ HoldersKept
  BY <1>1 DEF HoldersKept, SoleHolder
<1>2. ASSUME NEW u \in Thread, Reserve(u)
      PROVE  SoleHolder(t)
  <2>1. /\ nameSet' = PushNameSet(nameSet, userName[u]) /\ userName' = userName
        /\ t # u /\ ~Holding(u)
        /\ userName[u] \in ToSet(nameSet) => nameSet' = nameSet
        /\ \A v \in Thread \ {u} : Holding(v)' <=> Holding(v)
    BY <1>2, ReserveStep
  <2>2. name \in ToSet(nameSet')
    BY <2>1 DEF SoleHolder
  <2>3. \A v \in Thread \ {t} : Holding(v) => userName[v] # name
    BY <2>1 DEF SoleHolder
  <2>4. CASE userName[u] \in ToSet(nameSet)
    BY <2>1, <2>2, <2>3, <2>4 DEF SoleHolder
  <2>5. CASE userName[u] \notin ToSet(nameSet)
    <3>1. Holding(u)' /\ userName[u] \in Name /\ nameSet \in Seq(Name)
      BY <1>2, <2>5
         DEF Reserve, Goto, Holding, PushSucceeds, IInv, TypeOK, BuffersKnown
    <3>2. userName[u] # name
      BY <2>1, <3>1 DEF SoleHolder
    <3>3. ToSet(nameSet') = ToSet(nameSet) \cup {userName[u]}
      BY <2>1, <3>1, PushProperties DEF IInv, ReservationsHeld
    <3> QED
      BY <2>2, <2>3, <3>2, <3>3 DEF SoleHolder
  <2> QED
    BY <2>4, <2>5
<1>3. ASSUME NEW u \in Thread, Pulls(u)
      PROVE  SoleHolder(t)
  <2>1. /\ nameSet' = PullNameSet(nameSet, userName[u]) /\ userName' = userName
        /\ ~Holding(u)' /\ \A v \in Thread \ {u} : Holding(v)' <=> Holding(v)
    BY <1>3, PullStep
  <2>2. nameSet \in Seq(Name) /\ IsInjective(nameSet)
    BY DEF IInv, TypeOK, ReservationsHeld
  <2>3. name \in ToSet(nameSet') /\ t # u
    BY <2>1 DEF SoleHolder
  <2>4. userName[u] \notin ToSet(nameSet') /\ ToSet(nameSet') \subseteq ToSet(nameSet)
    BY <2>1, <2>2, PulledAway
  <2>5. \A v \in Thread \ {t} : Holding(v) => userName[v] # name
    BY <2>1, <2>3, <2>4 DEF SoleHolder
  <2> QED
    BY <2>3, <2>4, <2>5 DEF SoleHolder
<1> QED
  BY <1>1, <1>2, <1>3, ReservationSteps

(* A login that has its reservation loses it only to a pull without one. *)
LEMMA SoleAfter ==
  ASSUME IInv, [Next]_vars, NEW t \in Thread, SoleHolder(t), Holding(t)',
         \A u \in Thread : Pulls(u) => SoleHolder(u)
  PROVE  SoleHolder(t)'
<1> DEFINE name == userName[t]
<1>1. CASE nameSet' = nameSet /\ HoldersKept
  BY <1>1 DEF HoldersKept, SoleHolder
<1>2. ASSUME NEW u \in Thread, Reserve(u)
      PROVE  SoleHolder(t)'
  <2>1. /\ nameSet' = PushNameSet(nameSet, userName[u]) /\ userName' = userName
        /\ t # u
        /\ Holding(u)' => userName[u] \notin ToSet(nameSet)
        /\ userName[u] \in ToSet(nameSet) => nameSet' = nameSet
        /\ \A v \in Thread \ {u} : Holding(v)' <=> Holding(v)
    BY <1>2, ReserveStep DEF SoleHolder
  <2>2. userName[u] \in Name /\ nameSet \in Seq(Name)
    BY <1>2 DEF Reserve, Goto, IInv, TypeOK, BuffersKnown
  <2>3. ToSet(nameSet') = ToSet(nameSet) \cup {userName[u]}
    BY <2>1, <2>2, PushProperties DEF IInv, ReservationsHeld
  <2>4. \A v \in Thread \ {t} : Holding(v)' => userName'[v] # name
    BY <2>1 DEF SoleHolder
  <2> QED
    BY <2>1, <2>3, <2>4 DEF SoleHolder
<1>3. ASSUME NEW u \in Thread, Pulls(u)
      PROVE  SoleHolder(t)'
  <2>1. /\ nameSet' = PullNameSet(nameSet, userName[u]) /\ userName' = userName
        /\ ~Holding(u)' /\ \A v \in Thread \ {u} : Holding(v)' <=> Holding(v)
    BY <1>3, PullStep
  <2>2. nameSet \in Seq(Name) /\ IsInjective(nameSet)
    BY DEF IInv, TypeOK, ReservationsHeld
  <2>3. t # u /\ userName[u] # name /\ userName[u] \in ToSet(nameSet)
    BY <1>3, <2>1 DEF SoleHolder
  <2>4. ToSet(nameSet) \ {userName[u]} \subseteq ToSet(nameSet')
    BY <2>1, <2>2, <2>3, PullProperties
  <2>5. \A v \in Thread \ {t} : Holding(v)' => userName'[v] # name
    BY <2>1 DEF SoleHolder
  <2> QED
    BY <2>1, <2>3, <2>4, <2>5 DEF SoleHolder
<1> QED
  BY <1>1, <1>2, <1>3, ReservationSteps

(* Only the communication thread and insertUser touch the list. *)
LEMMA ListSteps ==
  IInv /\ [Next]_vars =>
    userList' = userList \/ DeleteMatched \/ \E t \in Thread : Insert(t)
<1> SUFFICES ASSUME IInv, [Next]_vars
             PROVE  userList' = userList \/ DeleteMatched \/ \E t \in Thread : Insert(t)
  OBVIOUS
<1>1. ASSUME AcceptConn \/ Enqueue \/ CloseConn \/ ClearConn
             \/ (\E fd \in Fd : ReceiveBye(fd) \/ SayBye(fd) \/ Vanish(fd))
             \/ UNCHANGED vars
      PROVE  userList' = userList
  BY <1>1
     DEF AcceptConn, Enqueue, ReceiveBye, CloseConn, ClearConn, SayBye, Vanish, vars
<1>2. ASSUME NEW t \in Thread,
             \/ Dequeue(t) \/ HelloOk(t) \/ HelloBad(t)
             \/ (\E name \in Name : IdentifyNew(t, name) \/ Identify(t, name))
             \/ IdentifyBad(t) \/ CopyUserList(t) \/ CheckOnline(t) \/ Reserve(t)
             \/ RefuseKeep(t) \/ RefuseListed(t) \/ RefusePull(t)
             \/ PasswordNew(t) \/ Password(t) \/ PasswordBad(t) \/ PasswordPull(t)
             \/ InsertAccount(t) \/ Greet(t) \/ InsertCheck(t) \/ Release(t) \/ Register(t)
      PROVE  userList' = userList
  BY <1>2
     DEF Dequeue, HelloOk, HelloBad, IdentifyNew, Identify, IdentifyBad, CopyUserList,
         CheckOnline, Reserve, RefuseKeep, RefuseListed, RefusePull, PasswordNew, Password,
         PasswordBad, PasswordPull, InsertAccount, Greet, InsertCheck, Release, Register
<1> QED
  BY <1>1, <1>2 DEF Next, LoginStep, CommStep

(* A login finds its name absent by its copy of the list, or by the walk    *)
(* over it, and keeps this until it inserts the name.                      *)
LEMMA InsertSteps ==
  ASSUME IInv, [Next]_vars, NEW t \in Thread, FoundAbsent(t)'
  PROVE  \/ FoundAbsent(t) /\ ~Insert(t)
         \/ CopyUserList(t)
         \/ InsertCheck(t)
<1> USE DEF IInv
<1>1. ASSUME AcceptConn \/ Enqueue \/ CommStep
             \/ (\E fd \in Fd : SayBye(fd) \/ Vanish(fd)) \/ UNCHANGED vars
      PROVE  pc' = pc /\ (copy'[t] = "absent" => copy[t] = "absent")
  <2>1. CASE DeleteMatched
    BY <2>1 DEF DeleteMatched, DisturbedCopies, locals
  <2>2. CASE ~DeleteMatched
    BY <1>1, <2>2
       DEF AcceptConn, Enqueue, CommStep, ReceiveBye, CloseConn, ClearConn,
           SayBye, Vanish, vars, locals, checks
  <2> QED
    BY <2>1, <2>2
<1>2. ~Insert(t) \/ ~FoundAbsent(t)'
  BY DEF Insert, Goto, TypeOK, FoundAbsent
<1>3. ASSUME NEW u \in Thread, LoginStep(u), u # t
      PROVE  pc'[t] = pc[t] /\ copy'[t] = copy[t]
  BY <1>3
     DEF LoginStep, Dequeue, HelloOk, HelloBad, IdentifyNew, Identify, IdentifyBad,
         CopyUserList, CheckOnline, Reserve, RefuseKeep, RefuseListed, RefusePull,
         PasswordNew, Password, PasswordBad, PasswordPull, InsertAccount, Greet,
         InsertCheck, Insert, Release, Register, EndLogin, Goto, Answer, TypeOK,
         checks, locals
<1>4. ASSUME LoginStep(t), ~CopyUserList(t)
      PROVE  InsertCheck(t)
  <2>1. pc'[t] \in {"insert", "insertCheck"}
    BY DEF FoundAbsent
  <2>2. CASE Greet(t)
    <3>1. copy'[t] = copy[t] /\ pc'[t] = "insertCheck" /\ copy[t] = "none"
      BY <2>2 DEF Greet, Goto, checks, BuffersKnown, TypeOK
    <3> QED
      BY <3>1 DEF FoundAbsent
  <2> QED
    BY <1>2, <1>4, <2>1, <2>2
       DEF LoginStep, Dequeue, HelloOk, HelloBad, IdentifyNew, Identify, IdentifyBad,
           CheckOnline, Reserve, RefuseKeep, RefuseListed, RefusePull, PasswordNew,
           Password, PasswordBad, PasswordPull, InsertAccount,
           Release, Register, EndLogin, Goto, TypeOK
<1> QED
  BY <1>1, <1>2, <1>3, <1>4 DEF Next, FoundAbsent

(* A user that leaves the list does not bring in another. *)
LEMMA DeletedNames ==
  ASSUME IInv, DeleteMatched
  PROVE  /\ \A name : IsUserExist(name)' => IsUserExist(name)
         /\ NamesApart => NamesApart'
<1>1. userList' = DeleteUser(commName)
  BY DEF DeleteMatched
<1>2. /\ \A i \in DOMAIN DeleteUser(commName) :
           \E j \in DOMAIN userList : DeleteUser(commName)[i] = userList[j]
      /\ NamesApart =>
           \A i, j \in DOMAIN DeleteUser(commName) :
             DeleteUser(commName)[i].userName = DeleteUser(commName)[j].userName => i = j
  BY DeleteUserProperties DEF IInv, TypeOK
<1> QED
  BY <1>1, <1>2 DEF IsUserExist, NamesApart

(* What insertUser found out stays so, as long as the reservation holds. *)
LEMMA AbsentStep == IInv /\ AbsentIfSole /\ [Next]_vars => AbsentIfSole'
<1> SUFFICES ASSUME IInv, AbsentIfSole, [Next]_vars, ~misled',
                    NEW t \in Thread, FoundAbsent(t)', SoleHolder(t)'
             PROVE  (~IsUserExist(userName[t]))'
  BY DEF AbsentIfSole
<1>0. ~misled
  BY FaultsStay
<1>1. CASE CopyUserList(t)
  <2>1. ~IsUserExist(userName[t])
    BY <1>1 DEF CopyUserList, FoundAbsent, locals, IInv, TypeOK, BuffersKnown
  <2> QED
    BY <1>1, <2>1 DEF CopyUserList, IsUserExist, locals
<1>2. CASE InsertCheck(t)
  <2>1. PICK exists \in BOOLEAN :
          Answer(t, exists) /\ Goto(t, "insertCheck", IF exists THEN "pull" ELSE "insert")
    BY <1>2 DEF InsertCheck
  <2>2. pc[t] = "insertCheck" /\ copy'[t] = "none" /\ ~exists
    BY <2>1 DEF Answer, Goto, FoundAbsent, IInv, TypeOK
  <2>3. SoleHolder(t)
    BY <2>2, SoleBefore DEF Holding
  <2>4. copy[t] # "listed" /\ (copy[t] = "absent" => ~IsUserExist(userName[t]))
    BY <1>0, <2>1, <2>2, <2>3 DEF Answer, AbsentIfSole, FoundAbsent
  <2>5. ~IsUserExist(userName[t])
    BY <2>1, <2>2, <2>4, AnswerTrue
  <2>6. userList' = userList /\ userName' = userName
    BY <1>2 DEF InsertCheck
  <2> QED
    BY <2>5, <2>6 DEF IsUserExist
<1>3. CASE FoundAbsent(t) /\ ~Insert(t)
  <2>1. Holding(t) /\ SoleHolder(t)
    BY <1>3, SoleBefore DEF Holding, FoundAbsent
  <2>2. ~IsUserExist(userName[t])
    BY <1>0, <1>3, <2>1 DEF AbsentIfSole
  <2>3. userName'[t] = userName[t]
    BY <2>1, ReservationSteps, ReserveStep, PullStep DEF HoldersKept
  <2>4. CASE userList' = userList
    BY <2>2, <2>3, <2>4 DEF IsUserExist
  <2>5. CASE DeleteMatched
    BY <2>2, <2>3, <2>5, DeletedNames DEF IsUserExist
  <2>6. ASSUME NEW u \in Thread, Insert(u)
        PROVE  (~IsUserExist(userName[t]))'
    <3>1. u # t /\ Holding(u) /\ userName[u] \in Name /\ connfd[u] \in Fd
          /\ userList' = InsertUser(userName[u], connfd[u])
      BY <1>3, <2>6 DEF Insert, Goto, Holding, IInv, BuffersKnown
    <3>2. userName[u] # userName[t]
      BY <2>1, <3>1 DEF SoleHolder
    <3>3. \A i \in DOMAIN userList' :
            \/ userList'[i] = [userName |-> userName[u], connfd |-> connfd[u]]
            \/ \E j \in DOMAIN userList : userList'[i] = userList[j]
      BY <3>1, InsertedUser DEF IInv
    <3> QED
      BY <2>2, <2>3, <3>2, <3>3 DEF IsUserExist
  <2> QED
    BY <2>4, <2>5, <2>6, ListSteps
<1> QED
  BY <1>1, <1>2, <1>3, InsertSteps

(* A login that has its reservation puts no name into the list twice. *)
LEMMA UniqueStep ==
  ASSUME IInv, AbsentIfSole, ~misled, [Next]_vars, NamesApart,
         \A t \in Thread : Insert(t) => SoleHolder(t)
  PROVE  NamesApart'
<1>1. CASE userList' = userList
  BY <1>1 DEF NamesApart
<1>2. CASE DeleteMatched
  BY <1>2, DeletedNames
<1>3. ASSUME NEW t \in Thread, Insert(t)
      PROVE  NamesApart'
  <2>1. pc[t] = "insert" /\ userName[t] \in Name /\ connfd[t] \in Fd
        /\ userList' = InsertUser(userName[t], connfd[t])
    BY <1>3 DEF Insert, Goto, IInv, BuffersKnown
  <2>2. ~IsUserExist(userName[t])
    BY <1>3, <2>1 DEF AbsentIfSole, FoundAbsent
  <2> QED
    BY <2>1, <2>2, InsertedUser DEF IInv
<1> QED
  BY <1>1, <1>2, <1>3, ListSteps

\* The server when no refused login pulls a name while one is reserved.
SparingNext == Next /\ \A t \in Thread : RefusePull(t) => nameSet = <<>>

\* Every login in progress has its reservation.
AllSole == \A t \in Thread : Holding(t) => SoleHolder(t)

(* Without the pulls of the refused logins every login keeps its reservation. *)
LEMMA AllSoleStep == IInv /\ AllSole /\ [SparingNext]_vars => AllSole'
<1> SUFFICES ASSUME IInv, AllSole, [SparingNext]_vars, NEW t \in Thread, Holding(t)'
             PROVE  SoleHolder(t)'
  BY DEF AllSole
<1>1. [Next]_vars
  BY DEF SparingNext
<1>2. CASE nameSet' = nameSet /\ HoldersKept
  BY <1>2 DEF HoldersKept, AllSole, SoleHolder
<1>3. ASSUME NEW u \in Thread, Reserve(u)
      PROVE  SoleHolder(t)'
  <2>1. /\ nameSet' = PushNameSet(nameSet, userName[u]) /\ userName' = userName
        /\ ~Holding(u)
        /\ Holding(u)' => userName[u] \notin ToSet(nameSet)
        /\ \A v \in Thread \ {u} : Holding(v)' <=> Holding(v)
    BY <1>3, ReserveStep
  <2>2. userName[u] \in Name /\ nameSet \in Seq(Name)
    BY <1>3 DEF Reserve, Goto, IInv, TypeOK, BuffersKnown
  <2>3. ToSet(nameSet') = ToSet(nameSet) \cup {userName[u]}
    BY <2>1, <2>2, PushProperties DEF IInv, ReservationsHeld
  <2>4. \A v \in Thread \ {u} : Holding(v)' => SoleHolder(v)
    BY <2>1 DEF AllSole
  <2>5. \A v \in Thread \ {t} : Holding(v)' => userName'[v] # userName'[t]
    BY <2>1, <2>4 DEF SoleHolder
  <2>6. userName'[t] \in ToSet(nameSet')
    BY <2>1, <2>3, <2>4 DEF SoleHolder
  <2> QED
    BY <2>5, <2>6 DEF SoleHolder
<1>4. ASSUME NEW u \in Thread, Pulls(u)
      PROVE  SoleHolder(t)'
  <2>1. SoleHolder(t)
    BY <1>4, PullStep DEF AllSole
  <2>2. nameSet # <<>>
    BY <2>1 DEF SoleHolder, ToSet
  <2>3. vars' # vars => \A v \in Thread : ~RefusePull(v)
    BY <2>2 DEF SparingNext
  <2>4. CASE vars' = vars
    BY <2>1, <2>4 DEF vars, locals, SoleHolder, Holding
  <2>5. CASE vars' # vars
    <3>1. \A v \in Thread : Pulls(v) => SoleHolder(v)
      BY <2>3, <2>5 DEF Pulls, PasswordPull, Release, EndLogin, Goto, Holding, AllSole
    <3> QED
      BY <1>1, <2>1, <3>1, SoleAfter
  <2> QED
    BY <2>4, <2>5
<1> QED
  BY <1>1, <1>2, <1>3, <1>4, ReservationSteps

(* A login loses its reservation only to the pull of a thread that has none *)
(* of its own: a refused login, or one that was robbed before.             *)
THEOREM ReservationsLostToRobbers == Spec => LostToRobber
<1> DEFINE Lost == \A t \in Thread :
                     SoleHolder(t) /\ Holding(t)' /\ ~SoleHolder(t)' =>
                       \E u \in Thread : Pulls(u) /\ ~SoleHolder(u)
<1>1. IInv /\ [Next]_vars => [Lost]_vars
  BY SoleAfter
<1> QED
  BY InitIInv, NextIInv, <1>1, PTL DEF Spec, LostToRobber

(* A name gets into the list twice only by a login that lost its           *)
(* reservation after isUserExist had not found the name, or after a logout  *)
(* has misled a check.                                                     *)
THEOREM NamesTwiceOnlyIfRobbed == Spec => TwiceOnlyIfRobbed
<1> DEFINE Robbed == NamesApart /\ ~NamesApart' =>
                       misled \/ \E t \in Thread : Insert(t) /\ ~SoleHolder(t)
<1>1. Init => AbsentIfSole
  BY DEF Init, AbsentIfSole, FoundAbsent
<1>2. IInv /\ AbsentIfSole /\ [Next]_vars => [Robbed]_vars
  BY UniqueStep
<1> QED
  BY InitIInv, NextIInv, AbsentStep, <1>1, <1>2, PTL DEF Spec, TwiceOnlyIfRobbed

(* With any number of login threads no name is twice in the list, as long  *)
(* as no refused login pulls a name while one is reserved, until a logout  *)
(* misleads a check.                                                       *)
THEOREM NamesUniqueIfNobodyRobs == Init /\ [][SparingNext]_vars => []UniqueNames
<1>1. Init => AbsentIfSole /\ AllSole /\ UniqueNames
  BY DEF Init, AbsentIfSole, FoundAbsent, AllSole, UniqueNames, NamesApart, Holding
<1>2. [SparingNext]_vars => [Next]_vars
  BY DEF SparingNext
<1>3. IInv /\ AbsentIfSole /\ AllSole /\ UniqueNames /\ [Next]_vars => UniqueNames'
  <2>1. \A t \in Thread : Insert(t) => Holding(t)
    BY DEF Insert, Goto, Holding
  <2> QED
    BY <2>1, UniqueStep, FaultsStay DEF AllSole, UniqueNames
<1> QED
  BY InitIInv, NextIInv, AbsentStep, AllSoleStep, <1>1, <1>2, <1>3, PTL
=============================================================================
