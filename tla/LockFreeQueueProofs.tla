------------------------- MODULE LockFreeQueueProofs -------------------------
(***************************************************************************)
(* Theorems about LockFreeQueue, for any number of threads and items.      *)
(*                                                                         *)
(* The pointers are reasoned about as the lists they link: Linked says     *)
(* which list that is, and Walk, the function the refinement mapping is    *)
(* read with, returns it (ReadsWhole, ReadsUpTo).  The invariant IInv says *)
(* that the shared stack and the one or two lists of each thread are such  *)
(* lists, and that no item is in two places.                               *)
(***************************************************************************)
EXTENDS LockFreeQueue, SequenceTheorems, FiniteSetTheorems,
        WellFoundedInduction, TLAPS

-----------------------------------------------------------------------------
(* The types at the start.                                                 *)
LEMMA InitTypeOK == Init => TypeOK
  BY DEF Init, TypeOK, Pointer, Labels

(* Every step keeps the types; one case per action.                        *)
LEMMA NextTypeOK == TypeOK /\ [Next]_vars => TypeOK'
<1> SUFFICES ASSUME TypeOK, [Next]_vars PROVE TypeOK'
  OBVIOUS
<1> USE QueueAssumption DEF TypeOK, Pointer, Labels, Goto
<1>1. CASE UNCHANGED vars
  BY <1>1 DEF vars
<1>2. ASSUME NEW t \in Threads, NEW i \in Items, PushCall(t, i) PROVE TypeOK'
  BY <1>2 DEF PushCall
<1>3. ASSUME NEW t \in Threads, SpillCall(t) PROVE TypeOK'
  BY <1>3 DEF SpillCall
<1>4. ASSUME NEW t \in Threads, ReverseStep(t) PROVE TypeOK'
  BY <1>4 DEF ReverseStep
<1>5. ASSUME NEW t \in Threads, Link(t) PROVE TypeOK'
  BY <1>5 DEF Link
<1>6. ASSUME NEW t \in Threads, CasOk(t) PROVE TypeOK'
  BY <1>6 DEF CasOk
<1>7. ASSUME NEW t \in Threads, CasFail(t) PROVE TypeOK'
  BY <1>7 DEF CasFail
<1>8. ASSUME NEW t \in Threads, Clear(t) PROVE TypeOK'
  BY <1>8 DEF Clear
<1>9. ASSUME NEW t \in Threads, TakeLoad(t) PROVE TypeOK'
  BY <1>9 DEF TakeLoad
<1>10. ASSUME NEW t \in Threads, TakeCasOk(t) PROVE TypeOK'
  BY <1>10 DEF TakeCasOk
<1>11. ASSUME NEW t \in Threads, TakeCasFail(t) PROVE TypeOK'
  BY <1>11 DEF TakeCasFail
<1>12. ASSUME NEW t \in Threads, Pop(t) PROVE TypeOK'
  BY <1>12 DEF Pop
<1> QED
  BY <1>1, <1>2, <1>3, <1>4, <1>5, <1>6, <1>7, <1>8, <1>9, <1>10, <1>11, <1>12
     DEF Next

(* Whatever the interleaving, the fields keep their types and no operation *)
(* of queue.c follows a NULL pointer: not qitem_chain_reverse, not the link*)
(* of either retry loop, not the pop.                                      *)
THEOREM TypeCorrect == Spec => []TypeOK
  BY InitTypeOK, NextTypeOK, PTL DEF Spec

-----------------------------------------------------------------------------
(* Induction over a set of numbers.                                        *)
LEMMA SetInduction ==
  ASSUME NEW P, 0 \in P, \A n \in Nat : n \in P => n + 1 \in P
  PROVE  Nat \subseteq P
<1> DEFINE Rest == Nat \ P
<1>1. SUFFICES ASSUME Rest # {} PROVE FALSE
  OBVIOUS
<1>2. Rest \subseteq Nat
  OBVIOUS
<1>3. PICK m \in Rest : \A n \in Rest : <<n, m>> \notin OpToRel(<, Nat)
  <2> HIDE DEF Rest
  <2> QED BY <1>1, <1>2, NatLessThanWellFounded, WFMin, Zenon
<1>4. m \in Nat /\ m # 0 /\ m - 1 \in Nat /\ m - 1 < m /\ (m - 1) + 1 = m
  BY SMT
<1>5. <<m - 1, m>> \in OpToRel(<, Nat)
  BY <1>4 DEF OpToRel
<1>6. m - 1 \in P
  BY <1>3, <1>4, <1>5
<1> QED
  BY <1>4, <1>6

(* A function of the naturals defined by iterating a step exists.          *)
LEMMA IterationExists ==
  ASSUME NEW S, NEW base \in S, NEW step \in [S -> S]
  PROVE  \E f \in [Nat -> S] :
           f[0] = base /\ \A n \in Nat : f[n + 1] = step[f[n]]
<1> DEFINE Starts(g, n) ==
      g[0] = base /\ \A k \in 0..n : k # n => g[k + 1] = step[g[k]]
<1> DEFINE Reached == {n \in Nat : \E g \in [0..n -> S] : Starts(g, n)}
<1>1. 0 \in Reached
  <2>1. [k \in 0..0 |-> base] \in [0..0 -> S] /\ Starts([k \in 0..0 |-> base], 0)
    BY SMT
  <2> QED
    BY <2>1
<1>2. ASSUME NEW n \in Nat, n \in Reached PROVE n + 1 \in Reached
  <2>1. PICK g \in [0..n -> S] : Starts(g, n)
    BY <1>2
  <2> DEFINE h == [k \in 0..n + 1 |-> IF k = n + 1 THEN step[g[n]] ELSE g[k]]
  <2>2. h \in [0..n + 1 -> S]
    BY SMT
  <2>3. h[0] = base
    BY <2>1, SMT
  <2>4. ASSUME NEW k \in 0..n + 1, k # n + 1 PROVE h[k + 1] = step[h[k]]
    <3>1. k \in 0..n /\ k + 1 \in 0..n + 1 /\ k # n + 1 /\ (k # n => k + 1 # n + 1)
      BY <2>4, SMT
    <3>2. h[k] = g[k] /\ h[k + 1] = IF k = n THEN step[g[n]] ELSE g[k + 1]
      BY <3>1, SMT
    <3> QED
      BY <3>1, <3>2, <2>1
  <2> HIDE DEF h
  <2> QED
    BY <2>2, <2>3, <2>4, SMT
<1> HIDE DEF Reached
<1>3. Nat \subseteq Reached
  BY <1>1, <1>2, SetInduction
<1> DEFINE upto == [n \in Nat |-> CHOOSE g \in [0..n -> S] : Starts(g, n)]
<1>4. ASSUME NEW n \in Nat PROVE upto[n] \in [0..n -> S] /\ Starts(upto[n], n)
  BY <1>3 DEF Reached
<1>5. ASSUME NEW n \in Nat, NEW m \in Nat, n <= m
      PROVE  \A k \in 0..n : upto[m][k] = upto[n][k]
  <2> DEFINE Same == {k \in Nat : k <= n => upto[m][k] = upto[n][k]}
  <2> HIDE DEF upto
  <2>1. 0 \in Same
    BY <1>4
  <2>2. ASSUME NEW k \in Nat, k \in Same PROVE k + 1 \in Same
    <3> SUFFICES ASSUME k + 1 <= n PROVE upto[m][k + 1] = upto[n][k + 1]
      OBVIOUS
    <3>1. k <= n /\ k \in 0..n /\ k # n /\ k \in 0..m /\ k # m
      BY <1>5, SMT
    <3>2. upto[m][k] = upto[n][k]
      BY <2>2, <3>1
    <3> QED
      BY <1>4, <3>1, <3>2
  <2> HIDE DEF Same
  <2>3. Nat \subseteq Same
    BY <2>1, <2>2, SetInduction
  <2> QED
    BY <2>3, SMT DEF Same
<1> DEFINE f == [n \in Nat |-> upto[n][n]]
<1> HIDE DEF upto, Reached
<1>6. f \in [Nat -> S]
  BY <1>4
<1>7. f[0] = base
  BY <1>4
<1>8. ASSUME NEW n \in Nat PROVE f[n + 1] = step[f[n]]
  <2>1. n + 1 \in Nat /\ n <= n + 1 /\ n \in 0..n /\ n \in 0..n + 1 /\ n # n + 1
    BY SMT
  <2>2. upto[n + 1][n] = upto[n][n]
    BY <2>1, <1>5
  <2>3. upto[n + 1][n + 1] = step[upto[n + 1][n]]
    BY <2>1, <1>4
  <2> QED
    BY <2>1, <2>2, <2>3
<1> HIDE DEF f
<1> QED
  BY <1>6, <1>7, <1>8

-----------------------------------------------------------------------------
(* s is the list of distinct items linked from x to y by nx. *)
Linked(nx, s, x, y) ==
  /\ s \in Seq(Items)
  /\ \A j, k \in 1..Len(s) : s[j] = s[k] => j = k
  /\ IF s = <<>> THEN x = y
     ELSE /\ s[1] = x
          /\ \A k \in 1..Len(s) - 1 : nx[s[k]] = s[k + 1]
          /\ nx[s[Len(s)]] = y

(* A list stays as it is while nobody changes a link of its items.         *)
LEMMA LinkedFrame ==
  ASSUME NEW nx, NEW mx, NEW s, NEW x, NEW y, Linked(nx, s, x, y),
         \A i \in ToSet(s) : mx[i] = nx[i]
  PROVE  Linked(mx, s, x, y)
<1>1. s \in Seq(Items) /\ \A k \in 1..Len(s) : s[k] \in ToSet(s)
  BY DEF Linked, ToSet
<1> QED
  BY <1>1, SMT DEF Linked

(* The list of no items.                                                   *)
LEMMA LinkedEmpty == \A nx, x : Linked(nx, <<>>, x, x)
  BY DEF Linked

(* Nothing is linked from NULL.                                            *)
LEMMA LinkedNull ==
  ASSUME NEW nx, NEW s, NEW y, Linked(nx, s, NULL, y)
  PROVE  s = <<>> /\ y = NULL
  BY QueueAssumption DEF Linked

(* The items of two lists put one after the other.                         *)
LEMMA ConcatItems ==
  ASSUME NEW r \in Seq(Items), NEW s \in Seq(Items)
  PROVE  ToSet(r \o s) = ToSet(r) \cup ToSet(s)
<1>1. \A q : ToSet(q) = Range(q)
  BY DEF ToSet, Range
<1> QED BY <1>1, RangeConcatenation

(* The items of a list with one put in front.                              *)
LEMMA ConsItems ==
  ASSUME NEW i \in Items, NEW s \in Seq(Items)
  PROVE  ToSet(<<i>> \o s) = ToSet(s) \cup {i}
<1> DEFINE e == <<i>>
<1>1. e \in Seq(Items) /\ ToSet(e) = {i}
  BY DEF ToSet
<1> HIDE DEF e
<1>2. ToSet(e \o s) = ToSet(e) \cup ToSet(s)
  BY <1>1, ConcatItems
<1> QED BY <1>1, <1>2 DEF e

(* An item made to point at the front of a list is the list's new front.   *)
LEMMA LinkedCons ==
  ASSUME NEW nx, NEW mx, NEW s, NEW x, NEW y, NEW i \in Items,
         Linked(nx, s, x, y), i \notin ToSet(s),
         mx[i] = x, \A j \in ToSet(s) : mx[j] = nx[j]
  PROVE  Linked(mx, <<i>> \o s, i, y)
<1>1. s \in Seq(Items) /\ DOMAIN s = 1..Len(s) /\ <<i>> \in Seq(Items)
  BY DEF Linked
<1> DEFINE r == <<i>> \o s
<1>2. /\ r \in Seq(Items) /\ Len(r) = Len(s) + 1 /\ r[1] = i
      /\ DOMAIN r = 1..Len(r) /\ Len(s) \in Nat
      /\ \A k \in 2..Len(r) : r[k] = s[k - 1]
      /\ r # <<>>
  BY <1>1, SMT
<1> HIDE DEF r
<1>3. \A k \in 1..Len(s) : s[k] \in ToSet(s) /\ s[k] # i /\ s[k] = r[k + 1]
  BY <1>1, <1>2, SMT DEF ToSet
<1>4. \A j, k \in 1..Len(r) : r[j] = r[k] => j = k
  <2>1. \A j, k \in 1..Len(s) : s[j] = s[k] => j = k
    BY DEF Linked
  <2>2. \A k \in 2..Len(r) : k - 1 \in 1..Len(s) /\ r[k] = s[k - 1] /\ r[k] # i
    BY <1>2, <1>3, SMT
  <2> QED
    BY <1>2, <2>1, <2>2, SMT
<1>5. \A k \in 1..Len(r) - 1 : mx[r[k]] = r[k + 1]
  <2>1. s # <<>> => s[1] = x /\ 1 \in 1..Len(s) /\ s[1] = r[2]
    BY <1>1, <1>2, <1>3, SMT DEF Linked
  <2>2. \A k \in 1..Len(s) - 1 : mx[s[k]] = s[k + 1]
    BY <1>3, SMT DEF Linked
  <2> SUFFICES ASSUME NEW k \in 1..Len(r) - 1 PROVE mx[r[k]] = r[k + 1]
    OBVIOUS
  <2>3. CASE k = 1
    <3>1. s # <<>>
      BY <1>2, <2>3, SMT
    <3> QED BY <2>3, <3>1, <2>1, <1>2
  <2>4. CASE k # 1
    <3>1. k - 1 \in 1..Len(s) - 1 /\ (k - 1) + 1 = k /\ k \in 2..Len(r) /\ k \in 1..Len(s)
      BY <1>2, <2>4, SMT
    <3> QED BY <3>1, <2>2, <1>2, <1>3
  <2> QED BY <2>3, <2>4
<1>6. mx[r[Len(r)]] = y
  <2>1. CASE s = <<>>
    <3>1. Len(r) = 1 /\ x = y
      BY <2>1, <1>2 DEF Linked
    <3> QED BY <3>1, <1>2
  <2>2. CASE s # <<>>
    <3>1. Len(s) \in 1..Len(s) /\ r[Len(r)] = s[Len(s)]
      BY <1>1, <1>2, <2>2, SMT
    <3> QED BY <3>1, <1>3, <2>2 DEF Linked
  <2> QED BY <2>1, <2>2
<1>7. Linked(mx, r, i, y)
  BY <1>2, <1>4, <1>5, <1>6 DEF Linked
<1> QED
  BY <1>7 DEF r

(* The front of a list, and the list without it.                           *)
LEMMA LinkedTail ==
  ASSUME NEW nx, NEW s, NEW x, Linked(nx, s, x, NULL), x # NULL
  PROVE  /\ s # <<>> /\ x \in Items
         /\ s = <<x>> \o Tail(s)
         /\ Linked(nx, Tail(s), nx[x], NULL)
         /\ x \notin ToSet(Tail(s))
         /\ ToSet(s) = ToSet(Tail(s)) \cup {x}
<1>1. s \in Seq(Items) /\ s # <<>> /\ s[1] = x
  BY DEF Linked
<1> DEFINE r == Tail(s)
<1>2. /\ r \in Seq(Items) /\ Len(r) = Len(s) - 1 /\ DOMAIN r = 1..Len(r)
      /\ Len(s) \in Nat /\ Len(r) \in Nat /\ DOMAIN s = 1..Len(s)
      /\ \A k \in 1..Len(r) : r[k] = s[k + 1]
  BY <1>1, SMT
<1>3. x \in Items
  BY <1>1, <1>2, SMT
<1>4. s = <<x>> \o r
  <2> HIDE DEF r
  <2>1. /\ <<x>> \o r \in Seq(Items) /\ Len(<<x>> \o r) = Len(s)
        /\ \A k \in 1..Len(s) : (<<x>> \o r)[k] = s[k]
    BY <1>1, <1>2, <1>3, SMT
  <2> QED BY <1>1, <2>1, SeqEqual
<1> HIDE DEF r
<1>5. \A j, k \in 1..Len(s) : s[j] = s[k] => j = k
  BY DEF Linked
<1>6. \A k \in 1..Len(r) : k + 1 \in 1..Len(s) /\ k + 1 # 1 /\ 1 \in 1..Len(s)
  BY <1>2, SMT
<1>7. x \notin ToSet(r)
  BY <1>1, <1>2, <1>5, <1>6 DEF ToSet
<1>8. \A j, k \in 1..Len(r) : r[j] = r[k] => j = k
  BY <1>2, <1>5, <1>6, SMT
<1>9. IF r = <<>> THEN nx[x] = NULL
      ELSE /\ r[1] = nx[x]
           /\ \A k \in 1..Len(r) - 1 : nx[r[k]] = r[k + 1]
           /\ nx[r[Len(r)]] = NULL
  <2>1. /\ \A k \in 1..Len(s) - 1 : nx[s[k]] = s[k + 1]
        /\ nx[s[Len(s)]] = NULL
    BY <1>1 DEF Linked
  <2>2. CASE r = <<>>
    <3>1. Len(s) = 1
      BY <1>2, <2>2, SMT
    <3> QED BY <2>1, <2>2, <3>1, <1>1
  <2>3. CASE r # <<>>
    <3>1. /\ 1 \in 1..Len(r) /\ Len(r) \in 1..Len(r) /\ Len(r) + 1 = Len(s)
          /\ 1 \in 1..Len(s) - 1
      BY <1>2, <2>3, SMT
    <3>2. r[1] = nx[x]
      BY <3>1, <2>1, <1>1, <1>2
    <3>3. nx[r[Len(r)]] = NULL
      BY <3>1, <2>1, <1>2
    <3>4. ASSUME NEW k \in 1..Len(r) - 1 PROVE nx[r[k]] = r[k + 1]
      <4>1. k \in 1..Len(r) /\ k + 1 \in 1..Len(r) /\ k + 1 \in 1..Len(s) - 1
        BY <1>2, SMT
      <4> QED BY <4>1, <1>2, <2>1
    <3> QED BY <3>2, <3>3, <3>4, <2>3
  <2> QED BY <2>2, <2>3
<1>10. Linked(nx, r, nx[x], NULL)
  BY <1>2, <1>8, <1>9 DEF Linked
<1>11. ToSet(s) = ToSet(r) \cup {x}
  <2>1. ASSUME NEW v \in ToSet(s) PROVE v \in ToSet(r) \cup {x}
    <3>1. PICK k \in 1..Len(s) : v = s[k]
      BY <1>2 DEF ToSet
    <3>2. CASE k = 1
      BY <3>1, <3>2, <1>1
    <3>3. CASE k # 1
      <4>1. k - 1 \in 1..Len(r) /\ (k - 1) + 1 = k
        BY <1>2, <3>3, SMT
      <4> QED BY <3>1, <4>1, <1>2 DEF ToSet
    <3> QED BY <3>2, <3>3
  <2>2. ASSUME NEW v \in ToSet(r) PROVE v \in ToSet(s)
    BY <1>2, <1>6 DEF ToSet
  <2>3. x \in ToSet(s)
    <3>1. 1 \in DOMAIN s
      BY <1>1, <1>2, SMT
    <3> QED BY <3>1, <1>1 DEF ToSet
  <2> QED BY <2>1, <2>2, <2>3
<1> QED
  BY <1>1, <1>3, <1>4, <1>7, <1>10, <1>11 DEF r

(* A list that ends where another begins: the two are one.                 *)
LEMMA LinkedConcat ==
  ASSUME NEW nx, NEW r, NEW s, NEW x, NEW y, NEW z,
         Linked(nx, r, x, y), Linked(nx, s, y, z),
         ToSet(r) \cap ToSet(s) = {}
  PROVE  Linked(nx, r \o s, x, z)
<1> DEFINE c == r \o s
<1>1. r \in Seq(Items) /\ s \in Seq(Items) /\ DOMAIN r = 1..Len(r) /\ DOMAIN s = 1..Len(s)
  BY DEF Linked
<1>2. /\ c \in Seq(Items) /\ Len(c) = Len(r) + Len(s) /\ DOMAIN c = 1..Len(c)
      /\ Len(r) \in Nat /\ Len(s) \in Nat
      /\ \A k \in 1..Len(c) : c[k] = IF k <= Len(r) THEN r[k] ELSE s[k - Len(r)]
  BY <1>1, SMT
<1>3. CASE r = <<>>
  <2>1. c = s /\ x = y /\ ToSet(r) = {}
    BY <1>1, <1>3, ConcatEmptySeq DEF Linked, ToSet
  <2> QED BY <2>1
<1>4. CASE s = <<>>
  <2>1. c = r /\ y = z /\ ToSet(s) = {}
    BY <1>1, <1>4, ConcatEmptySeq DEF Linked, ToSet
  <2> QED BY <2>1
<1>5. CASE r # <<>> /\ s # <<>>
  <2> HIDE DEF c
  <2>1. /\ Len(r) # 0 /\ Len(s) # 0 /\ c # <<>>
        /\ r[1] = x /\ s[1] = y /\ nx[r[Len(r)]] = y /\ nx[s[Len(s)]] = z
        /\ \A k \in 1..Len(r) - 1 : nx[r[k]] = r[k + 1]
        /\ \A k \in 1..Len(s) - 1 : nx[s[k]] = s[k + 1]
        /\ \A j, k \in 1..Len(r) : r[j] = r[k] => j = k
        /\ \A j, k \in 1..Len(s) : s[j] = s[k] => j = k
    BY <1>1, <1>2, <1>5, SMT DEF Linked
  <2>2. \A k \in 1..Len(r) : k \in 1..Len(c) /\ c[k] = r[k] /\ r[k] \in ToSet(r)
    BY <1>1, <1>2, SMT DEF ToSet
  <2>3. \A k \in 1..Len(c) : k > Len(r) =>
          k - Len(r) \in 1..Len(s) /\ c[k] = s[k - Len(r)] /\ s[k - Len(r)] \in ToSet(s)
    BY <1>1, <1>2, SMT DEF ToSet
  <2>4. c[1] = x
    BY <2>1, <2>2, <1>2, SMT
  <2>5. nx[c[Len(c)]] = z
    BY <2>1, <2>3, <1>2, SMT
  <2>6. ASSUME NEW k \in 1..Len(c) - 1 PROVE nx[c[k]] = c[k + 1]
    <3>1. CASE k < Len(r)
      <4>1. k \in 1..Len(r) - 1 /\ k \in 1..Len(r) /\ k + 1 \in 1..Len(r)
        BY <1>2, <3>1, SMT
      <4> QED BY <4>1, <2>1, <2>2
    <3>2. CASE k = Len(r)
      <4>1. k \in 1..Len(r) /\ k + 1 \in 1..Len(c) /\ k + 1 > Len(r) /\ (k + 1) - Len(r) = 1
        BY <1>2, <2>1, <3>2, SMT
      <4> QED BY <4>1, <3>2, <2>1, <2>2, <2>3
    <3>3. CASE k > Len(r)
      <4>1. /\ k \in 1..Len(c) /\ k + 1 \in 1..Len(c) /\ k + 1 > Len(r)
            /\ k - Len(r) \in 1..Len(s) - 1 /\ (k + 1) - Len(r) = (k - Len(r)) + 1
        BY <1>2, <3>3, SMT
      <4> QED BY <4>1, <3>3, <2>1, <2>3
    <3> QED BY <3>1, <3>2, <3>3, <1>2, SMT
  <2>7. ASSUME NEW j \in 1..Len(c), NEW k \in 1..Len(c), c[j] = c[k] PROVE j = k
    <3>1. CASE j <= Len(r) /\ k <= Len(r)
      <4>1. j \in 1..Len(r) /\ k \in 1..Len(r)
        BY <1>2, <3>1, SMT
      <4> QED BY <4>1, <2>1, <2>2, <2>7
    <3>2. CASE j > Len(r) /\ k > Len(r)
      <4> DEFINE a == j - Len(r)
                 b == k - Len(r)
      <4>2. a \in 1..Len(s) /\ b \in 1..Len(s) /\ c[j] = s[a] /\ c[k] = s[b]
        BY <3>2, <2>3
      <4> HIDE DEF a, b
      <4>3. a = b
        BY <4>2, <2>1, <2>7
      <4>1. j - Len(r) = k - Len(r)
        BY <4>3 DEF a, b
      <4> QED BY <4>1, <1>2, SMT
    <3>3. CASE j <= Len(r) /\ k > Len(r)
      <4>1. j \in 1..Len(r)
        BY <1>2, <3>3, SMT
      <4> QED BY <4>1, <3>3, <2>2, <2>3, <2>7
    <3>4. CASE j > Len(r) /\ k <= Len(r)
      <4>1. k \in 1..Len(r)
        BY <1>2, <3>4, SMT
      <4> QED BY <4>1, <3>4, <2>2, <2>3, <2>7
    <3> QED BY <3>1, <3>2, <3>3, <3>4, <1>2, SMT
  <2>8. Linked(nx, c, x, z)
    BY <1>2, <2>1, <2>4, <2>5, <2>6, <2>7 DEF Linked
  <2> QED BY <2>8 DEF c
<1> QED BY <1>3, <1>4, <1>5

(* Linking the last item elsewhere moves the end of the list only: what    *)
(* both retry loops do before each exchange.                               *)
LEMMA LinkedRelink ==
  ASSUME NEW nx, NEW mx, NEW s, NEW x, NEW y, NEW z,
         Linked(nx, s, x, y), s # <<>>,
         mx[s[Len(s)]] = z, \A i \in ToSet(s) : i # s[Len(s)] => mx[i] = nx[i]
  PROVE  Linked(mx, s, x, z)
<1>1. s \in Seq(Items) /\ Len(s) \in Nat /\ Len(s) # 0 /\ \A k \in 1..Len(s) : s[k] \in ToSet(s)
  BY SMT DEF Linked, ToSet
<1>2. ASSUME NEW k \in 1..Len(s) - 1 PROVE mx[s[k]] = s[k + 1]
  <2>1. k \in 1..Len(s) /\ k # Len(s) /\ Len(s) \in 1..Len(s)
    BY <1>1, SMT
  <2> QED BY <1>1, <2>1 DEF Linked
<1> QED BY <1>2 DEF Linked

(* A list of distinct items is no longer than there are items.             *)
LEMMA LinkedIsShort ==
  ASSUME NEW nx, NEW s, NEW x, NEW y, Linked(nx, s, x, y)
  PROVE  /\ Cardinality(Items) \in Nat
         /\ Len(s) <= Cardinality(Items)
<1>1. s \in Seq(Items) /\ Len(s) \in Nat /\ s \in [1..Len(s) -> Items]
  BY DEF Linked
<1>2. s \in Injection(1..Len(s), Items)
  BY <1>1 DEF Linked, Injection, IsInjective
<1>3. Cardinality(1..Len(s)) <= Cardinality(Items)
  BY <1>2, QueueAssumption, FS_Injection
<1>4. Cardinality(1..Len(s)) = Len(s)
  BY <1>1, FS_Interval, SMT
<1> QED BY <1>3, <1>4, QueueAssumption, FS_CardinalityType

(* The recursive function Walk satisfies the equation that defines it.     *)
LEMMA WalkUnfolds ==
  ASSUME NEW nx \in [Items -> Pointer], NEW stop
  PROVE  \A y \in Pointer :
           /\ Walk(nx, stop)[0][y] = <<>>
           /\ \A n \in Nat : Walk(nx, stop)[n + 1][y] =
                IF y = NULL THEN <<>>
                ELSE IF y = stop THEN <<y>>
                ELSE <<y>> \o Walk(nx, stop)[n][nx[y]]
<1> DEFINE S == [Pointer -> Seq(Items)]
           base == [y \in Pointer |-> <<>>]
           Turn(w) == [y \in Pointer |->
                         IF y = NULL THEN <<>>
                         ELSE IF y = stop THEN <<y>>
                         ELSE <<y>> \o w[nx[y]]]
           step == [w \in S |-> Turn(w)]
           Body(w, n) == [y \in Pointer |->
                            IF n = 0 \/ y = NULL THEN <<>>
                            ELSE IF y = stop THEN <<y>>
                            ELSE <<y>> \o w[n - 1][nx[y]]]
<1>1. base \in S
  OBVIOUS
<1>2. step \in [S -> S]
  <2> SUFFICES ASSUME NEW w \in S, NEW y \in Pointer
               PROVE Turn(w)[y] \in Seq(Items)
    OBVIOUS
  <2>1. CASE y = NULL
    BY <2>1
  <2>2. CASE y # NULL
    <3>1. y \in Items /\ nx[y] \in Pointer /\ w[nx[y]] \in Seq(Items)
      BY <2>2 DEF Pointer
    <3>2. <<y>> \in Seq(Items)
      BY <3>1
    <3>3. <<y>> \o w[nx[y]] \in Seq(Items)
      BY <3>1, <3>2, ConcatProperties
    <3> QED BY <3>2, <3>3
  <2> QED BY <2>1, <2>2
<1> HIDE DEF S, base, step
<1>3. PICK f \in [Nat -> S] : f[0] = base /\ \A n \in Nat : f[n + 1] = step[f[n]]
  BY <1>1, <1>2, IterationExists, SMTT(60)
<1>4. f = [n \in Nat |-> Body(f, n)]
  <2>1. ASSUME NEW n \in Nat PROVE f[n] = Body(f, n)
    <3>1. CASE n = 0
      BY <3>1, <1>3 DEF base
    <3>2. CASE n # 0
      <4>1. n - 1 \in Nat /\ (n - 1) + 1 = n
        BY <3>2, SMT
      <4>2. f[n] = step[f[n - 1]] /\ f[n - 1] \in S
        BY <4>1, <1>3
      <4>3. f[n] = Turn(f[n - 1])
        BY <4>2 DEF step
      <4> QED BY <4>3, <3>2
    <3> QED BY <3>1, <3>2
  <2> HIDE DEF Body
  <2>2. f = [n \in Nat |-> f[n]]
    BY <1>3
  <2> QED BY <2>1, <2>2
<1>5. Walk(nx, stop) = [n \in Nat |-> Body(Walk(nx, stop), n)]
  BY <1>4 DEF Walk
<1>6. \A n \in Nat : Walk(nx, stop)[n] = Body(Walk(nx, stop), n)
  <2> HIDE DEF Body
  <2> QED BY <1>5
<1>7. Walk(nx, stop)[0] = [y \in Pointer |-> <<>>]
  BY <1>6
<1>8. ASSUME NEW n \in Nat
      PROVE  Walk(nx, stop)[n + 1] = Turn(Walk(nx, stop)[n])
  <2>1. n + 1 \in Nat /\ n + 1 # 0 /\ (n + 1) - 1 = n
    OBVIOUS
  <2> QED BY <2>1, <1>6
<1> QED BY <1>7, <1>8

(* A list that ends at stop, and only there, or runs into NULL without     *)
(* meeting it, is what Walk reads.                                         *)
LEMMA WalkReads ==
  ASSUME NEW nx \in [Items -> Pointer], NEW stop \in Pointer,
         NEW s, NEW x, NEW y, Linked(nx, s, x, y),
         s = <<>> => y = NULL,
         s # <<>> => y = NULL \/ s[Len(s)] = stop,
         \A k \in 1..Len(s) : s[k] = stop => k = Len(s)
  PROVE  Walk(nx, stop)[Cardinality(Items)][x] = s
<1> DEFINE len == Len(s)
           From(k) == SubSeq(s, k, len)
           Reads == {n \in Nat : \A k \in 1..len :
                       len - k < n => Walk(nx, stop)[n][s[k]] = From(k)}
<1>1. /\ s \in Seq(Items) /\ DOMAIN s = 1..len
      /\ \A k \in 1..len : s[k] \in Items
      /\ \A k \in 1..len - 1 : nx[s[k]] = s[k + 1]
      /\ s # <<>> => s[1] = x /\ nx[s[len]] = y
      /\ s = <<>> => x = NULL
      /\ \A k \in 1..len : s[k] = stop => k = len
  BY DEF Linked
<1>2. len \in Nat /\ (s # <<>> <=> len # 0)
  BY <1>1, EmptySeq, LenProperties
<1>3. ASSUME NEW k \in 1..len PROVE From(k) = <<s[k]>> \o From(k + 1)
  <2>1. len \in k..len
    BY <1>2
  <2> QED BY <1>1, <2>1, SubSeqRecursiveFirst
<1>4. From(len + 1) = <<>>
  BY <1>2, SubSeqEmpty
<1>5. From(1) = s
  BY <1>1, SubSeqFull
<1> HIDE DEF From, len
<1>6. 0 \in Reads
  <2>1. \A k \in 1..len : ~(len - k < 0)
    BY <1>2
  <2> QED BY <2>1
<1>7. ASSUME NEW n \in Nat
      PROVE  /\ NULL \in Pointer
             /\ \A v \in Pointer :
                  Walk(nx, stop)[n + 1][v] =
                    IF v = NULL THEN <<>>
                    ELSE IF v = stop THEN <<v>>
                    ELSE <<v>> \o Walk(nx, stop)[n][nx[v]]
  <2>1. NULL \in Pointer
    BY DEF Pointer
  <2>2. \A v \in Pointer :
           /\ Walk(nx, stop)[0][v] = <<>>
           /\ \A m \in Nat : Walk(nx, stop)[m + 1][v] =
                IF v = NULL THEN <<>>
                ELSE IF v = stop THEN <<v>>
                ELSE <<v>> \o Walk(nx, stop)[m][nx[v]]
    BY WalkUnfolds, Zenon
  <2> QED BY <2>1, <2>2
<1>8. ASSUME NEW n \in Nat PROVE Walk(nx, stop)[n][NULL] = <<>>
  <2>1. Walk(nx, stop)[0][NULL] = <<>>
    BY WalkUnfolds DEF Pointer
  <2>2. CASE n = 0
    BY <2>1, <2>2
  <2>3. CASE n # 0
    <3>1. PICK m \in Nat : n = m + 1
      <4>1. n - 1 \in Nat /\ n = (n - 1) + 1
        BY <2>3
      <4> QED BY <4>1
    <3> QED BY <3>1, <1>7
  <2> QED BY <2>2, <2>3
<1>9. ASSUME NEW n \in Nat, n \in Reads PROVE n + 1 \in Reads
  <2> SUFFICES ASSUME NEW k \in 1..len, len - k < n + 1
               PROVE  Walk(nx, stop)[n + 1][s[k]] = From(k)
    OBVIOUS
  <2>1. s[k] \in Items /\ s[k] # NULL /\ s[k] \in Pointer
    BY <1>1, QueueAssumption DEF Pointer
  <2>2. Walk(nx, stop)[n + 1][s[k]] =
          IF s[k] = stop THEN <<s[k]>> ELSE <<s[k]>> \o Walk(nx, stop)[n][nx[s[k]]]
    BY <2>1, <1>7
  <2>3. <<s[k]>> \o <<>> = <<s[k]>>
    BY <2>1
  <2>4. CASE s[k] = stop
    BY <1>1, <1>3, <1>4, <2>2, <2>3, <2>4
  <2>5. CASE s[k] # stop /\ k = len
    <3>1. len # 0
      BY <1>2, <2>5
    <3>2. nx[s[k]] = NULL
      BY <3>1, <2>5, <1>1, <1>2 DEF len
    <3> QED BY <3>2, <1>3, <1>4, <1>8, <2>2, <2>3, <2>5
  <2>6. CASE s[k] # stop /\ k # len
    <3>1. k \in 1..len - 1 /\ k + 1 \in 1..len /\ len - (k + 1) < n
      BY <1>2, <2>6
    <3>2. nx[s[k]] = s[k + 1]
      BY <1>1, <3>1
    <3>3. Walk(nx, stop)[n][s[k + 1]] = From(k + 1)
      BY <1>9, <3>1
    <3> QED BY <1>3, <2>2, <2>6, <3>2, <3>3
  <2> QED BY <2>4, <2>5, <2>6
<1> HIDE DEF Reads
<1>10. Nat \subseteq Reads
  BY <1>6, <1>9, SetInduction
<1>11. Cardinality(Items) \in Nat /\ len <= Cardinality(Items)
  BY LinkedIsShort DEF len
<1>12. CASE s = <<>>
  BY <1>1, <1>8, <1>11, <1>12
<1>13. CASE s # <<>>
  <2>1. 1 \in 1..len /\ len - 1 < Cardinality(Items)
    BY <1>2, <1>11, <1>13
  <2>2. Walk(nx, stop)[Cardinality(Items)][s[1]] = From(1)
    BY <2>1, <1>10, <1>11 DEF Reads
  <2> QED BY <2>2, <1>1, <1>5, <1>13
<1> QED BY <1>12, <1>13

(* A whole list and the inside of a list, read back.                       *)
LEMMA ReadsWhole ==
  ASSUME NEW nx \in [Items -> Pointer], NEW s, NEW x, Linked(nx, s, x, NULL)
  PROVE  Walk(nx, NULL)[Cardinality(Items)][x] = s
<1>1. \A k \in 1..Len(s) : s[k] \in Items
  BY DEF Linked
<1>2. NULL \in Pointer
  BY DEF Pointer
<1> QED BY <1>1, <1>2, WalkReads, QueueAssumption

(* Walk to the last item of a list returns the list, wherever it is        *)
(* linked.                                                                 *)
LEMMA ReadsUpTo ==
  ASSUME NEW nx \in [Items -> Pointer], NEW s, NEW x, NEW y,
         Linked(nx, s, x, y), s # <<>>
  PROVE  Walk(nx, s[Len(s)])[Cardinality(Items)][x] = s
<1>1. s \in Seq(Items) /\ Len(s) \in 1..Len(s)
  BY SMT DEF Linked
<1>2. s[Len(s)] \in Pointer
  BY <1>1 DEF Pointer
<1>3. \A k \in 1..Len(s) : s[k] = s[Len(s)] => k = Len(s)
  BY <1>1 DEF Linked
<1> QED BY <1>2, <1>3, WalkReads

-----------------------------------------------------------------------------
(* The reversed list, item by item.                                        *)
LEMMA ReverseType ==
  ASSUME NEW s \in Seq(Items)
  PROVE  /\ Reverse(s) \in Seq(Items) /\ Len(Reverse(s)) = Len(s)
         /\ \A k \in 1..Len(s) : Reverse(s)[k] = s[(Len(s) - k) + 1]
<1>1. Len(s) \in Nat /\ \A k \in 1..Len(s) : (Len(s) - k) + 1 \in 1..Len(s)
  BY SMT
<1>2. Reverse(s) \in [1..Len(s) -> Items]
  BY <1>1, ElementOfSeq DEF Reverse
<1>3. Reverse(s) \in Seq(Items)
  BY <1>1, <1>2, SeqDef
<1> QED BY <1>1, <1>2, <1>3 DEF Reverse

(* Reversing nothing.                                                      *)
LEMMA ReverseEmpty == Reverse(<<>>) = <<>>
<1>1. <<>> \in Seq(Items)
  OBVIOUS
<1> QED BY <1>1, ReverseType, EmptySeq

(* Reversing two lists put one after the other.                            *)
LEMMA ReverseConcat ==
  ASSUME NEW r \in Seq(Items), NEW s \in Seq(Items)
  PROVE  Reverse(r \o s) = Reverse(s) \o Reverse(r)
<1> DEFINE c == r \o s
           a == Reverse(c)
           rr == Reverse(r)
           rs == Reverse(s)
           b == rs \o rr
           p == Len(r)
           q == Len(s)
<1>1. /\ c \in Seq(Items) /\ Len(c) = p + q /\ p \in Nat /\ q \in Nat
      /\ \A k \in 1..p + q : c[k] = IF k <= p THEN r[k] ELSE s[k - p]
  BY ConcatProperties
<1> HIDE DEF c
<1>2. /\ a \in Seq(Items) /\ Len(a) = Len(c)
      /\ \A k \in 1..Len(c) : a[k] = c[(Len(c) - k) + 1]
  BY <1>1, ReverseType
<1>3. /\ rr \in Seq(Items) /\ Len(rr) = p
      /\ \A k \in 1..p : rr[k] = r[(p - k) + 1]
      /\ rs \in Seq(Items) /\ Len(rs) = q
      /\ \A k \in 1..q : rs[k] = s[(q - k) + 1]
  BY ReverseType
<1> HIDE DEF rr, rs, a, p, q
<1>4. /\ b \in Seq(Items) /\ Len(b) = Len(rs) + Len(rr)
      /\ \A k \in 1..Len(rs) + Len(rr) :
           b[k] = IF k <= Len(rs) THEN rs[k] ELSE rr[k - Len(rs)]
  BY <1>3, ConcatProperties
<1> HIDE DEF b
<1>5. ASSUME NEW k \in 1..p + q PROVE a[k] = b[k]
  <2> DEFINE j == ((p + q) - k) + 1
  <2>1. a[k] = c[j] /\ j \in 1..p + q
    BY <1>1, <1>2
  <2>2. k \in 1..Len(rs) + Len(rr)
    BY <1>1, <1>3
  <2>3. CASE k <= q
    <3>1. ~(j <= p) /\ j - p = (q - k) + 1 /\ k \in 1..q
      BY <1>1, <2>3
    <3>2. c[j] = s[(q - k) + 1]
      BY <3>1, <2>1, <1>1
    <3>3. b[k] = s[(q - k) + 1]
      BY <3>1, <2>2, <2>3, <1>3, <1>4
    <3> QED BY <3>2, <3>3, <2>1
  <2>4. CASE ~(k <= q)
    <3>1. j <= p /\ k - q \in 1..p /\ j = (p - (k - q)) + 1
      BY <1>1, <2>4
    <3>2. c[j] = r[j]
      BY <3>1, <2>1, <1>1
    <3>3. b[k] = rr[k - q]
      BY <2>2, <2>4, <1>3, <1>4
    <3>4. rr[k - q] = r[(p - (k - q)) + 1]
      BY <3>1, <1>3
    <3> QED BY <3>1, <3>2, <3>3, <3>4, <2>1
  <2> QED BY <2>3, <2>4
<1>6. Len(a) = p + q /\ Len(b) = p + q
  BY <1>1, <1>2, <1>3, <1>4
<1>7. a = b
  BY <1>2, <1>4, <1>5, <1>6, SeqEqual
<1> QED BY <1>7 DEF a, b, c, rr, rs

(* Reversing one item.                                                     *)
LEMMA ReverseOne ==
  ASSUME NEW i \in Items
  PROVE  <<i>> \in Seq(Items) /\ Reverse(<<i>>) = <<i>>
<1> DEFINE e == <<i>>
           re == Reverse(e)
<1>1. e \in Seq(Items) /\ Len(e) = 1 /\ e[1] = i
  OBVIOUS
<1> HIDE DEF e
<1>2. re \in Seq(Items) /\ Len(re) = 1 /\ re[1] = e[1]
  BY <1>1, ReverseType
<1> HIDE DEF re
<1>3. \A k \in 1..Len(re) : re[k] = e[k]
  BY <1>2
<1>4. re = e
  BY <1>1, <1>2, <1>3, SeqEqual
<1> QED BY <1>1, <1>4 DEF e, re

(* An item put in front of a stack is the newest of the queue it is.       *)
LEMMA ReverseCons ==
  ASSUME NEW i \in Items, NEW s \in Seq(Items)
  PROVE  Reverse(<<i>> \o s) = Append(Reverse(s), i)
<1> DEFINE e == <<i>>
           rs == Reverse(s)
<1>1. e \in Seq(Items) /\ Reverse(e) = e
  BY ReverseOne
<1> HIDE DEF e
<1>2. Reverse(e \o s) = rs \o e
  BY <1>1, ReverseConcat
<1>3. rs \in Seq(Items)
  BY ReverseType
<1> HIDE DEF rs
<1>4. Append(rs, i) = rs \o <<i>>
  BY <1>3, AppendIsConcat
<1> QED BY <1>2, <1>4 DEF e, rs

(* Moving an item from the front of one list to the front of the other,    *)
(* the turn of qitem_chain_reverse, keeps the order of the queue they are. *)
LEMMA TurnKeepsOrder ==
  ASSUME NEW i \in Items, NEW r \in Seq(Items), NEW s \in Seq(Items)
  PROVE  Reverse(<<i>> \o r) \o s = Reverse(r) \o (<<i>> \o s)
<1> DEFINE e == <<i>>
           rr == Reverse(r)
<1>1. e \in Seq(Items)
  OBVIOUS
<1>2. Reverse(e) = e
  BY ReverseOne
<1> HIDE DEF e
<1>3. Reverse(e \o r) = Reverse(r) \o e
  BY <1>1, <1>2, ReverseConcat
<1>4. rr \in Seq(Items)
  BY ReverseType
<1> HIDE DEF rr
<1>5. (rr \o e) \o s = rr \o (e \o s)
  BY <1>1, <1>4, ConcatAssociative
<1> QED BY <1>3, <1>5 DEF e, rr

-----------------------------------------------------------------------------
(* Thread t retries the exchange of a spill.                               *)
Spilling(t) == pc[t] \in {"link", "cas"} /\ ~Pushing(t)

(* Thread t is inside qitem_chain_reverse.                                 *)
Reversing(t) == pc[t] \in {"revspill", "revtake"}

(* The shared stack, newest item first.                                    *)
Shared == Chain(tail)

(* The items thread t has reversed, last met first: built up by the        *)
(* reversal and kept until the exchange of a spill has put them on the     *)
(* stack.                                                                  *)
Done(t) ==
  IF Reversing(t) THEN Chain(prev[t])
  ELSE IF Spilling(t) THEN ChainTo(first[t], last[t])
  ELSE <<>>

(* The items still in the order the reversal started from; outside an      *)
(* operation on the whole queue, the private queue.                        *)
Todo(t) ==
  IF Reversing(t) THEN Chain(qi[t])
  ELSE IF Spilling(t) \/ pc[t] = "clear" THEN <<>>
  ELSE Chain(head[t])

(* The items thread t has, in a list or in its hands.                      *)
Mine(t) == ToSet(Done(t)) \cup ToSet(Todo(t)) \cup hand[t]

(* Where the lists of thread t begin and end, by where the thread is.      *)
Lists(t) ==
  /\ Reversing(t) =>
       /\ Linked(next, Done(t), prev[t], NULL)
       /\ Linked(next, Todo(t), qi[t], NULL)
  /\ Spilling(t) =>
       /\ Linked(next, Done(t), first[t], next[last[t]])
       /\ Done(t) # <<>>
       /\ Done(t)[Len(Done(t))] = last[t]
  /\ ~Spilling(t) /\ ~Reversing(t) /\ pc[t] # "clear" =>
       Linked(next, Todo(t), head[t], NULL)

(* What the locals of thread t hold.  At the exchange, `seen` is what the  *)
(* last item was linked to: success means that the stack continues there.  *)
Locals(t) ==
  /\ pc[t] = "revspill" =>
       last[t] = IF Done(t) = <<>> THEN qi[t] ELSE Done(t)[Len(Done(t))]
  /\ pc[t] \in {"takeload", "takecas", "revtake"} => head[t] = NULL
  /\ pc[t] \in {"link", "cas"} /\ Pushing(t) => last[t] = first[t]
  /\ pc[t] = "cas" => next[last[t]] = seen[t]
  /\ pc[t] \notin {"link", "cas"} => first[t] = NULL
  /\ ~Reversing(t) => prev[t] = NULL

(* No item of thread t is in two of its places, or on the stack.           *)
Apart(t) ==
  /\ ToSet(Done(t)) \cap ToSet(Todo(t)) = {}
  /\ (ToSet(Done(t)) \cup ToSet(Todo(t))) \cap hand[t] = {}
  /\ Mine(t) \cap ToSet(Shared) = {}

(* The inductive invariant.                                                *)
IInv ==
  /\ TypeOK
  /\ Linked(next, Shared, tail, NULL)
  /\ \A t \in Threads : Lists(t) /\ Locals(t) /\ Apart(t)
  /\ \A t, u \in Threads : t # u => Mine(t) \cap Mine(u) = {}
  /\ HeldItemsUnlinked

-----------------------------------------------------------------------------
(* What a queue's list reads as before and after a step.                   *)
LEMMA ChainReads ==
  ASSUME next \in [Items -> Pointer], NEW s, NEW x, Linked(next, s, x, NULL)
  PROVE  Chain(x) = s
  BY ReadsWhole DEF Chain, ChainTo

(* What the shared stack reads as after a step.                            *)
LEMMA SharedReadsNext ==
  ASSUME next' \in [Items -> Pointer], NEW s, Linked(next', s, tail', NULL)
  PROVE  Shared' = s
  BY ReadsWhole DEF Shared, Chain, ChainTo

(* The two lists of a thread are lists of items.                           *)
LEMMA DoneType ==
  ASSUME NEW t \in Threads, Lists(t)
  PROVE  /\ Done(t) \in Seq(Items) /\ Todo(t) \in Seq(Items)
         /\ ToSet(Done(t)) \subseteq Items /\ ToSet(Todo(t)) \subseteq Items
<1>1. Done(t) \in Seq(Items)
  <2>1. <<>> \in Seq(Items)
    OBVIOUS
  <2> QED BY <2>1 DEF Lists, Linked, Done
<1>2. Todo(t) \in Seq(Items) \/ pc[t] = "clear" \/ Spilling(t)
  BY DEF Lists, Linked
<1>3. Todo(t) \in Seq(Items)
  <2>1. <<>> \in Seq(Items)
    OBVIOUS
  <2>2. pc[t] = "clear" \/ Spilling(t) => ~Reversing(t)
    BY DEF Spilling, Reversing
  <2> QED BY <1>2, <2>1, <2>2 DEF Todo
<1> QED BY <1>1, <1>3 DEF ToSet

(* A step that changes neither the tail nor a link of the stack's items    *)
(* leaves the stack as it is.                                              *)
LEMMA SharedFrame ==
  ASSUME next' \in [Items -> Pointer], Linked(next, Shared, tail, NULL),
         tail' = tail, \A i \in ToSet(Shared) : next'[i] = next[i]
  PROVE  Shared' = Shared /\ Linked(next', Shared', tail', NULL)
<1>1. Linked(next', Shared, tail, NULL)
  BY LinkedFrame
<1> QED BY <1>1, SharedReadsNext

(* A step of another thread that leaves the items a thread has in its      *)
(* hands and lists alone leaves the lists alone.                           *)
LEMMA ThreadFrame ==
  ASSUME next' \in [Items -> Pointer], NEW u \in Threads, Lists(u), Locals(u),
         pc'[u] = pc[u], head'[u] = head[u], qi'[u] = qi[u],
         prev'[u] = prev[u], first'[u] = first[u], last'[u] = last[u],
         seen'[u] = seen[u], hand'[u] = hand[u],
         \A i \in Mine(u) : next'[i] = next[i]
  PROVE  /\ Done(u)' = Done(u) /\ Todo(u)' = Todo(u) /\ Mine(u)' = Mine(u)
         /\ Lists(u)' /\ Locals(u)'
<1>1. /\ Spilling(u)' = Spilling(u) /\ Reversing(u)' = Reversing(u)
      /\ Pushing(u)' = Pushing(u)
  BY DEF Spilling, Reversing, Pushing
<1>2. /\ \A i \in ToSet(Done(u)) : next'[i] = next[i]
      /\ \A i \in ToSet(Todo(u)) : next'[i] = next[i]
  BY DEF Mine
<1>3. CASE Reversing(u)
  <2>1. Linked(next', Done(u), prev[u], NULL) /\ Linked(next', Todo(u), qi[u], NULL)
    BY <1>2, <1>3, LinkedFrame DEF Lists
  <2>2. Done(u)' = Done(u) /\ Todo(u)' = Todo(u)
    BY <2>1, <1>1, <1>3, ReadsWhole DEF Done, Todo, Chain, ChainTo
  <2>3. Lists(u)'
    BY <2>1, <2>2, <1>1, <1>3 DEF Lists, Spilling, Reversing
  <2>4. Locals(u)'
    BY <2>2, <1>1, <1>3 DEF Locals, Reversing
  <2> QED BY <2>2, <2>3, <2>4 DEF Mine
<1>4. CASE Spilling(u)
  <2>1. Linked(next, Done(u), first[u], next[last[u]]) /\ Done(u) # <<>>
        /\ Done(u)[Len(Done(u))] = last[u]
    BY <1>4 DEF Lists
  <2>2. last[u] \in ToSet(Done(u))
    BY <2>1, SMT DEF Linked, ToSet
  <2>3. next'[last[u]] = next[last[u]]
    BY <2>2, <1>2
  <2>4. Linked(next', Done(u), first[u], next'[last[u]])
    BY <2>1, <2>3, <1>2, LinkedFrame
  <2>5. Walk(next', last[u])[Cardinality(Items)][first[u]] = Done(u)
    BY <2>1, <2>4, ReadsUpTo
  <2>6. ~Reversing(u)
    BY <1>4 DEF Spilling, Reversing
  <2>7. Done(u)' = Done(u) /\ Todo(u)' = Todo(u)
    BY <2>5, <2>6, <1>1, <1>4 DEF Done, Todo, ChainTo
  <2>8. Lists(u)'
    BY <2>1, <2>4, <2>6, <2>7, <1>1, <1>4 DEF Lists
  <2>9. Locals(u)'
    BY <2>3, <2>6, <2>7, <1>1, <1>4 DEF Locals, Spilling
  <2> QED BY <2>7, <2>8, <2>9 DEF Mine
<1>5. CASE ~Reversing(u) /\ ~Spilling(u)
  <2>1. Done(u)' = Done(u)
    BY <1>1, <1>5 DEF Done
  <2>2. pc[u] # "clear" => Linked(next', Todo(u), head[u], NULL)
    BY <1>2, <1>5, LinkedFrame DEF Lists
  <2>3. Todo(u)' = Todo(u)
    BY <2>2, <1>1, <1>5, ReadsWhole DEF Todo, Chain, ChainTo
  <2>4. Lists(u)'
    BY <2>2, <2>3, <1>1, <1>5 DEF Lists
  <2>5. pc[u] = "cas" => last[u] \in hand[u] /\ last[u] \in Mine(u)
    BY <1>5 DEF Locals, Spilling, Pushing, Mine
  <2>6. Locals(u)'
    BY <2>1, <2>5, <1>1, <1>5 DEF Locals, Reversing
  <2> QED BY <2>1, <2>3, <2>4, <2>6 DEF Mine
<1> QED BY <1>3, <1>4, <1>5

(* The step of one thread, from what it does to its own lists and to the   *)
(* shared one.                                                             *)
Others(t) ==
  \A u \in Threads \ {t} :
    /\ pc'[u] = pc[u] /\ head'[u] = head[u] /\ qi'[u] = qi[u]
    /\ prev'[u] = prev[u] /\ first'[u] = first[u] /\ last'[u] = last[u]
    /\ seen'[u] = seen[u] /\ hand'[u] = hand[u]

(* The private queue a thread's two lists stand for.                       *)
FifoOf(t) ==
  IF pc[t] = "revspill" THEN Reverse(Done(t)) \o Todo(t)
  ELSE IF Spilling(t) THEN Reverse(Done(t))
  ELSE IF pc[t] = "revtake" THEN Reverse(Todo(t)) \o Done(t)
  ELSE Todo(t)

OthersKept(t) == \A u \in Threads \ {t} : FifoOf(u)' = FifoOf(u)

(* A thread changes no link but those of items it has.                     *)
OwnLinksOnly(t) == \A i \in Items \ Mine(t) : next'[i] = next[i]

(* The invariant after a step of thread t, from what the step does to t    *)
(* and to the shared stack: the lists of all other threads are where they  *)
(* were.                                                                   *)
LEMMA Assemble ==
  ASSUME IInv, TypeOK', NEW t \in Threads, Others(t),
         OwnLinksOnly(t),
         Linked(next', Shared', tail', NULL),
         Lists(t)', Locals(t)', Apart(t)',
         Mine(t)' \cup ToSet(Shared') \subseteq Mine(t) \cup ToSet(Shared),
         \A i \in hand'[t] : next'[i] = i \/ (pc'[t] \in {"link", "cas"} /\ first'[t] = i)
  PROVE  IInv' /\ OthersKept(t)
<1>1. next' \in [Items -> Pointer]
  BY DEF TypeOK
<1>2. ASSUME NEW u \in Threads \ {t}
      PROVE  /\ Done(u)' = Done(u) /\ Todo(u)' = Todo(u) /\ Mine(u)' = Mine(u)
             /\ Lists(u)' /\ Locals(u)'
  <2>1. Mine(u) \cap Mine(t) = {} /\ Lists(u) /\ Locals(u)
    BY DEF IInv
  <2>2. Mine(u) \subseteq Items
    BY <2>1, DoneType DEF Mine, IInv, TypeOK
  <2>3. \A i \in Mine(u) : next'[i] = next[i]
    BY <2>1, <2>2 DEF OwnLinksOnly
  <2> QED BY <2>1, <2>3, <1>1, ThreadFrame DEF Others
<1>3. ASSUME NEW u \in Threads \ {t} PROVE Apart(u)' /\ Mine(u)' \cap Mine(t)' = {}
  <2>1. Apart(u) /\ Mine(u) \cap Mine(t) = {}
    BY DEF IInv
  <2>2. Mine(u) \cap ToSet(Shared) = {}
    BY <2>1 DEF Apart
  <2>3. Mine(u)' \cap ToSet(Shared') = {} /\ Mine(u)' \cap Mine(t)' = {}
    BY <2>1, <2>2, <1>2
  <2>4. hand'[u] = hand[u]
    BY DEF Others
  <2> QED BY <2>1, <2>3, <2>4, <1>2 DEF Apart
<1>4. ASSUME NEW u \in Threads, NEW v \in Threads, u # v
      PROVE  Mine(u)' \cap Mine(v)' = {}
  <2>1. CASE u = t
    BY <2>1, <1>3, <1>4
  <2>2. CASE v = t
    BY <2>2, <1>3, <1>4
  <2>3. CASE u # t /\ v # t
    BY <2>3, <1>2, <1>4 DEF IInv
  <2> QED BY <2>1, <2>2, <2>3
<1>5. HeldItemsUnlinked'
  <2> SUFFICES ASSUME NEW u \in Threads, u # t, NEW i \in hand'[u]
               PROVE  next'[i] = i \/ (pc'[u] \in {"link", "cas"} /\ first'[u] = i)
    BY DEF HeldItemsUnlinked
  <2>1. i \in hand[u] /\ pc'[u] = pc[u] /\ first'[u] = first[u]
    BY DEF Others
  <2>2. i \in Items /\ i \in Mine(u) /\ Mine(u) \cap Mine(t) = {}
    BY <2>1 DEF Mine, IInv, TypeOK
  <2> QED BY <2>1, <2>2 DEF HeldItemsUnlinked, IInv, OwnLinksOnly
<1>6. \A u \in Threads : Lists(u)' /\ Locals(u)' /\ Apart(u)'
  BY <1>2, <1>3
<1>7. OthersKept(t)
  <2> SUFFICES ASSUME NEW u \in Threads \ {t} PROVE FifoOf(u)' = FifoOf(u)
    BY DEF OthersKept
  <2>1. pc'[u] = pc[u] /\ Spilling(u)' = Spilling(u)
    BY DEF Others, Spilling, Pushing
  <2>2. Done(u)' = Done(u) /\ Todo(u)' = Todo(u)
    BY <1>2
  <2> QED BY <2>1, <2>2, Zenon DEF FifoOf
<1> QED BY <1>4, <1>5, <1>6, <1>7, Linked(next', Shared', tail', NULL), TypeOK' DEF IInv

(* The last item of a list with one put in front.                          *)
LEMMA LastOfCons ==
  ASSUME NEW i \in Items, NEW s \in Seq(Items)
  PROVE  LET r == <<i>> \o s
         IN  r # <<>> /\ r[Len(r)] = IF s = <<>> THEN i ELSE s[Len(s)]
  BY SMT

(* The links after a step.                                                 *)
LEMMA NextType == TypeOK' => next' \in [Items -> Pointer]
  BY DEF TypeOK

(* The steps that touch no link and neither the tail.                      *)
LEMMA PushCallKeeps ==
  ASSUME IInv, TypeOK', NEW t \in Threads, NEW i \in Items, PushCall(t, i)
  PROVE  /\ IInv' /\ Shared' = Shared /\ FifoOf(t)' = FifoOf(t) /\ OthersKept(t)
         /\ OwnLinksOnly(t)
<1> USE DEF PushCall, Goto
<1>1. /\ pc[t] = "idle" /\ i \in hand[t] /\ next' = next /\ tail' = tail
      /\ head' = head /\ hand' = hand /\ qi' = qi /\ prev' = prev
      /\ pc'[t] = "link" /\ first'[t] = i /\ last'[t] = i
      /\ Others(t)
  BY DEF IInv, TypeOK, Others
<1> HIDE DEF PushCall, Goto
<1>2. /\ Lists(t) /\ Locals(t) /\ Apart(t) /\ Linked(next, Shared, tail, NULL)
      /\ next' \in [Items -> Pointer]
  BY NextType DEF IInv
<1>3. /\ ~Spilling(t) /\ ~Reversing(t) /\ ~Spilling(t)' /\ ~Reversing(t)' /\ Pushing(t)'
  BY <1>1 DEF Spilling, Reversing, Pushing
<1>4. Done(t) = <<>> /\ Done(t)' = <<>>
  BY <1>1, <1>3 DEF Done
<1>5. Linked(next', Todo(t), head'[t], NULL)
  BY <1>1, <1>2, <1>3 DEF Lists
<1>6. Todo(t)' = Todo(t)
  BY <1>1, <1>2, <1>3, <1>5, ReadsWhole DEF Todo, Chain, ChainTo
<1>7. Shared' = Shared /\ Linked(next', Shared', tail', NULL)
  BY <1>1, <1>2, SharedFrame
<1>8. Mine(t)' = Mine(t)
  BY <1>1, <1>4, <1>6 DEF Mine
<1>9. Lists(t)'
  BY <1>3, <1>5, <1>6 DEF Lists
<1>10. Locals(t)'
  BY <1>1, <1>2, <1>3 DEF Locals, Reversing
<1>11. Apart(t)'
  BY <1>1, <1>2, <1>4, <1>6, <1>7, <1>8 DEF Apart
<1>12. \A j \in hand'[t] : next'[j] = j \/ (pc'[t] \in {"link", "cas"} /\ first'[t] = j)
  BY <1>1, <1>2 DEF IInv, HeldItemsUnlinked
<1>13. IInv' /\ OthersKept(t) /\ OwnLinksOnly(t)
  <2>1. OwnLinksOnly(t)
    BY <1>1 DEF OwnLinksOnly
  <2> QED BY <2>1, <1>1, <1>7, <1>8, <1>9, <1>10, <1>11, <1>12, Assemble
<1>14. FifoOf(t)' = FifoOf(t)
  BY <1>1, <1>3, <1>6 DEF FifoOf
<1> QED BY <1>7, <1>13, <1>14

(* Entering the spill changes no queue.                                    *)
LEMMA SpillCallKeeps ==
  ASSUME IInv, TypeOK', NEW t \in Threads, SpillCall(t)
  PROVE  /\ IInv' /\ Shared' = Shared /\ FifoOf(t)' = FifoOf(t) /\ OthersKept(t)
         /\ OwnLinksOnly(t)
<1> USE DEF SpillCall, Goto
<1>1. /\ pc[t] = "idle" /\ head[t] # NULL /\ next' = next /\ tail' = tail
      /\ head' = head /\ hand' = hand /\ prev' = prev /\ first' = first
      /\ pc'[t] = "revspill" /\ qi'[t] = head[t] /\ last'[t] = head[t]
      /\ Others(t)
  BY DEF IInv, TypeOK, Others
<1> HIDE DEF SpillCall, Goto
<1>2. /\ Lists(t) /\ Locals(t) /\ Apart(t) /\ Linked(next, Shared, tail, NULL)
      /\ next' \in [Items -> Pointer] /\ Todo(t) \in Seq(Items)
  BY NextType, DoneType DEF IInv
<1>3. /\ ~Spilling(t) /\ ~Reversing(t) /\ ~Spilling(t)' /\ Reversing(t)'
      /\ first[t] = NULL /\ prev[t] = NULL
  BY <1>1, <1>2 DEF Spilling, Reversing, Pushing, Locals
<1>4. Done(t) = <<>>
  BY <1>1, <1>3 DEF Done
<1>5. Linked(next', <<>>, prev'[t], NULL) /\ Linked(next', Todo(t), qi'[t], NULL)
  BY <1>1, <1>2, <1>3, LinkedEmpty DEF Lists
<1>6. Todo(t)' = Todo(t) /\ Done(t)' = <<>>
  BY <1>2, <1>3, <1>5, ReadsWhole DEF Todo, Done, Chain, ChainTo
<1>7. Shared' = Shared /\ Linked(next', Shared', tail', NULL)
  BY <1>1, <1>2, SharedFrame
<1>8. Mine(t)' = Mine(t)
  BY <1>1, <1>4, <1>6 DEF Mine
<1>9. Lists(t)'
  BY <1>3, <1>5, <1>6 DEF Lists
<1>10. Locals(t)'
  BY <1>1, <1>3, <1>6 DEF Locals, Reversing
<1>11. Apart(t)'
  BY <1>1, <1>2, <1>4, <1>6, <1>7, <1>8 DEF Apart
<1>12. \A j \in hand'[t] : next'[j] = j \/ (pc'[t] \in {"link", "cas"} /\ first'[t] = j)
  BY <1>1 DEF IInv, HeldItemsUnlinked
<1>13. IInv' /\ OthersKept(t) /\ OwnLinksOnly(t)
  <2>1. OwnLinksOnly(t)
    BY <1>1 DEF OwnLinksOnly
  <2> QED BY <2>1, <1>1, <1>7, <1>8, <1>9, <1>10, <1>11, <1>12, Assemble
<1>14. FifoOf(t)' = FifoOf(t)
  <2>1. FifoOf(t) = Todo(t)
    BY <1>1, <1>3 DEF FifoOf
  <2>2. FifoOf(t)' = Reverse(<<>>) \o Todo(t)
    BY <1>1, <1>6 DEF FifoOf
  <2> QED BY <2>1, <2>2, <1>2, ReverseEmpty, ConcatEmptySeq
<1> QED BY <1>7, <1>13, <1>14

(* A failed exchange, and the load of a take, change no queue.             *)
LEMMA CasFailKeeps ==
  ASSUME IInv, TypeOK', NEW t \in Threads, CasFail(t) \/ TakeLoad(t) \/ TakeCasFail(t)
  PROVE  /\ IInv' /\ Shared' = Shared /\ FifoOf(t)' = FifoOf(t) /\ OthersKept(t)
         /\ OwnLinksOnly(t)
<1> USE DEF CasFail, TakeLoad, TakeCasFail, Goto
<1>1. /\ next' = next /\ tail' = tail
      /\ head' = head /\ hand' = hand /\ prev' = prev /\ first' = first
      /\ last' = last /\ qi' = qi
      /\ Others(t)
      /\ \/ pc[t] = "cas" /\ pc'[t] = "link"
         \/ pc[t] \in {"idle", "takeload", "takecas"} /\ pc'[t] \in {"takeload", "takecas"}
            /\ (head[t] = NULL \/ pc[t] = "takecas")
  BY DEF IInv, TypeOK, Others
<1> HIDE DEF CasFail, TakeLoad, TakeCasFail, Goto
<1>2. /\ Lists(t) /\ Locals(t) /\ Apart(t) /\ Linked(next, Shared, tail, NULL)
      /\ next' \in [Items -> Pointer]
  BY NextType DEF IInv
<1>3. /\ Spilling(t)' = Spilling(t) /\ ~Reversing(t) /\ ~Reversing(t)'
      /\ Pushing(t)' = Pushing(t) /\ pc[t] # "clear" /\ pc'[t] # "clear"
  BY <1>1 DEF Spilling, Reversing, Pushing
<1>4. Done(t)' = Done(t) /\ Todo(t)' = Todo(t)
  BY <1>1, <1>3 DEF Done, Todo, Chain, ChainTo
<1>7. Shared' = Shared /\ Linked(next', Shared', tail', NULL)
  BY <1>1, <1>2, SharedFrame
<1>8. Mine(t)' = Mine(t)
  BY <1>1, <1>4 DEF Mine
<1>9. Lists(t)'
  BY <1>1, <1>2, <1>3, <1>4 DEF Lists
<1>10. Locals(t)'
  BY <1>1, <1>2, <1>3 DEF Locals, Reversing
<1>11. Apart(t)'
  BY <1>1, <1>2, <1>4, <1>7, <1>8 DEF Apart
<1>12. \A j \in hand'[t] : next'[j] = j \/ (pc'[t] \in {"link", "cas"} /\ first'[t] = j)
  BY <1>1 DEF IInv, HeldItemsUnlinked
<1>13. IInv' /\ OthersKept(t) /\ OwnLinksOnly(t)
  <2>1. OwnLinksOnly(t)
    BY <1>1 DEF OwnLinksOnly
  <2> QED BY <2>1, <1>1, <1>7, <1>8, <1>9, <1>10, <1>11, <1>12, Assemble
<1>14. FifoOf(t)' = FifoOf(t)
  BY <1>1, <1>3, <1>4, Zenon DEF FifoOf, Reversing
<1> QED BY <1>7, <1>13, <1>14

(* Forgetting the stale head changes no queue: it was empty already.       *)
LEMMA ClearKeeps ==
  ASSUME IInv, TypeOK', NEW t \in Threads, Clear(t)
  PROVE  /\ IInv' /\ Shared' = Shared /\ FifoOf(t)' = FifoOf(t) /\ OthersKept(t)
         /\ OwnLinksOnly(t)
<1> USE DEF Clear, Goto
<1>1. /\ next' = next /\ tail' = tail
      /\ hand' = hand /\ prev' = prev /\ first' = first
      /\ last' = last /\ qi' = qi /\ head'[t] = NULL
      /\ Others(t) /\ pc[t] = "clear" /\ pc'[t] = "idle"
  BY DEF IInv, TypeOK, Others
<1> HIDE DEF Clear, Goto
<1>2. /\ Lists(t) /\ Locals(t) /\ Apart(t) /\ Linked(next, Shared, tail, NULL)
      /\ next' \in [Items -> Pointer]
  BY NextType DEF IInv
<1>3. /\ ~Spilling(t) /\ ~Spilling(t)' /\ ~Reversing(t) /\ ~Reversing(t)'
      /\ first[t] = NULL /\ prev[t] = NULL
  BY <1>1, <1>2 DEF Spilling, Reversing, Pushing, Locals
<1>4. Done(t)' = <<>> /\ Done(t) = <<>> /\ Todo(t) = <<>>
  BY <1>1, <1>3 DEF Done, Todo
<1>5. Linked(next', <<>>, head'[t], NULL)
  BY <1>1, LinkedEmpty
<1>6. Todo(t)' = <<>>
  BY <1>1, <1>2, <1>3, <1>5, ReadsWhole DEF Todo, Chain, ChainTo
<1>7. Shared' = Shared /\ Linked(next', Shared', tail', NULL)
  BY <1>1, <1>2, SharedFrame
<1>8. Mine(t)' = Mine(t)
  BY <1>1, <1>4, <1>6 DEF Mine
<1>9. Lists(t)'
  BY <1>1, <1>3, <1>5, <1>6 DEF Lists
<1>10. Locals(t)'
  BY <1>1, <1>3 DEF Locals, Reversing
<1>11. Apart(t)'
  BY <1>1, <1>2, <1>4, <1>6, <1>7, <1>8 DEF Apart
<1>12. \A j \in hand'[t] : next'[j] = j \/ (pc'[t] \in {"link", "cas"} /\ first'[t] = j)
  BY <1>1 DEF IInv, HeldItemsUnlinked
<1>13. IInv' /\ OthersKept(t) /\ OwnLinksOnly(t)
  <2>1. OwnLinksOnly(t)
    BY <1>1 DEF OwnLinksOnly
  <2> QED BY <2>1, <1>1, <1>7, <1>8, <1>9, <1>10, <1>11, <1>12, Assemble
<1>14. FifoOf(t)' = FifoOf(t)
  BY <1>1, <1>3, <1>4, <1>6 DEF FifoOf
<1> QED BY <1>7, <1>13, <1>14

(* Linking to the tail just read changes no queue: the items linked are    *)
(* still the thread's own.                                                 *)
LEMMA LinkKeeps ==
  ASSUME IInv, TypeOK', NEW t \in Threads, Link(t)
  PROVE  /\ IInv' /\ Shared' = Shared /\ FifoOf(t)' = FifoOf(t) /\ OthersKept(t)
         /\ OwnLinksOnly(t)
<1> USE DEF Link, Goto
<1>1. /\ tail' = tail /\ head' = head /\ hand' = hand /\ prev' = prev
      /\ first' = first /\ last' = last /\ qi' = qi /\ seen'[t] = tail
      /\ Others(t) /\ pc[t] = "link" /\ pc'[t] = "cas"
      /\ last[t] \in Items /\ next'[last[t]] = tail
      /\ \A i \in Items : i # last[t] => next'[i] = next[i]
  BY DEF IInv, TypeOK, Others, Pointer
<1> HIDE DEF Link, Goto
<1>2. /\ Lists(t) /\ Locals(t) /\ Apart(t) /\ Linked(next, Shared, tail, NULL)
      /\ next' \in [Items -> Pointer]
      /\ ToSet(Done(t)) \subseteq Items /\ ToSet(Todo(t)) \subseteq Items
  BY NextType, DoneType DEF IInv
<1>3. /\ Spilling(t)' = Spilling(t) /\ Spilling(t) = ~Pushing(t)
      /\ ~Reversing(t) /\ ~Reversing(t)' /\ Pushing(t)' = Pushing(t) /\ prev[t] = NULL
  BY <1>1, <1>2 DEF Spilling, Reversing, Pushing, Locals
<1>4. last[t] \in Mine(t)
  <2>1. CASE Spilling(t)
    <3>1. last[t] = Done(t)[Len(Done(t))] /\ Done(t) # <<>> /\ Done(t) \in Seq(Items)
      BY <2>1, <1>2 DEF Lists, Linked
    <3>2. last[t] \in ToSet(Done(t))
      BY <3>1, SMT DEF ToSet
    <3> QED BY <3>2 DEF Mine
  <2>2. CASE Pushing(t)
    BY <2>2, <1>1, <1>2 DEF Mine, Locals, Pushing
  <2> QED BY <2>1, <2>2, <1>3
<1>5. last[t] \notin ToSet(Shared)
  BY <1>2, <1>4 DEF Apart
<1>6. \A i \in ToSet(Shared) : i \in Items
  BY <1>2 DEF Linked, ToSet
<1>7. Shared' = Shared /\ Linked(next', Shared', tail', NULL)
  BY <1>1, <1>2, <1>5, <1>6, SharedFrame
<1>8. /\ Done(t)' = Done(t) /\ Todo(t)' = Todo(t) /\ Lists(t)'
      /\ \A i \in hand'[t] : next'[i] = i \/ (pc'[t] \in {"link", "cas"} /\ first'[t] = i)
  <2>1. CASE Spilling(t)
    <3>1. /\ Linked(next, Done(t), first[t], next[last[t]]) /\ Done(t) # <<>>
          /\ Done(t)[Len(Done(t))] = last[t]
      BY <2>1, <1>2 DEF Lists
    <3>2. Linked(next', Done(t), first[t], next'[last[t]])
      BY <3>1, <1>1, <1>2, LinkedRelink
    <3>3. Walk(next', last[t])[Cardinality(Items)][first[t]] = Done(t)
      BY <3>1, <3>2, <1>2, ReadsUpTo
    <3>4. Done(t)' = Done(t) /\ Todo(t)' = Todo(t)
      BY <2>1, <3>3, <1>1, <1>3 DEF Done, Todo, ChainTo
    <3>5. Lists(t)'
      BY <2>1, <3>1, <3>2, <3>4, <1>1, <1>3 DEF Lists
    <3>6. last[t] \notin hand[t]
      <4>1. last[t] \in ToSet(Done(t))
        BY <3>1, SMT DEF Linked, ToSet
      <4> QED BY <4>1, <1>2 DEF Apart
    <3>7. \A i \in hand[t] : i \in Items /\ (next[i] = i \/ first[t] = i)
      BY DEF IInv, HeldItemsUnlinked, TypeOK
    <3> QED BY <3>4, <3>5, <3>6, <3>7, <1>1
  <2>2. CASE Pushing(t)
    <3>1. last[t] \in hand[t] /\ last[t] = first[t]
      BY <2>2, <1>1, <1>2 DEF Locals, Pushing
    <3>2. last[t] \notin ToSet(Todo(t))
      BY <3>1, <1>2 DEF Apart
    <3>3. Linked(next, Todo(t), head[t], NULL)
      BY <2>2, <1>1, <1>2, <1>3 DEF Lists
    <3>4. Linked(next', Todo(t), head[t], NULL)
      BY <3>2, <3>3, <1>1, <1>2, LinkedFrame
    <3>5. Done(t)' = Done(t) /\ Todo(t)' = Todo(t)
      BY <2>2, <3>4, <1>1, <1>2, <1>3, ReadsWhole DEF Done, Todo, Chain, ChainTo
    <3>6. Lists(t)'
      BY <2>2, <3>4, <3>5, <1>1, <1>3 DEF Lists
    <3>7. \A i \in hand[t] : i \in Items /\ (next[i] = i \/ first[t] = i)
      BY DEF IInv, HeldItemsUnlinked, TypeOK
    <3> QED BY <3>1, <3>5, <3>6, <3>7, <1>1
  <2> QED BY <2>1, <2>2, <1>3
<1>9. Mine(t)' = Mine(t)
  BY <1>1, <1>8 DEF Mine
<1>10. Locals(t)'
  BY <1>1, <1>2, <1>3 DEF Locals, Reversing, Pushing
<1>11. Apart(t)'
  BY <1>1, <1>2, <1>7, <1>8, <1>9 DEF Apart
<1>12. OwnLinksOnly(t)
  BY <1>1, <1>4 DEF OwnLinksOnly
<1>13. IInv' /\ OthersKept(t)
  BY <1>1, <1>7, <1>8, <1>9, <1>10, <1>11, <1>12, Assemble
<1>14. FifoOf(t)' = FifoOf(t)
  BY <1>1, <1>3, <1>8, Zenon DEF FifoOf
<1> QED BY <1>7, <1>12, <1>13, <1>14

(* A turn of the reversal changes no queue, nor does leaving the loop.     *)
LEMMA ReverseStepKeeps ==
  ASSUME IInv, TypeOK', NEW t \in Threads, ReverseStep(t)
  PROVE  /\ IInv' /\ Shared' = Shared /\ FifoOf(t)' = FifoOf(t) /\ OthersKept(t)
         /\ OwnLinksOnly(t)
<1> DEFINE i == qi[t]
           d == Done(t)
           r == Todo(t)
           d2 == <<i>> \o d
           r2 == Tail(r)
<1>1. /\ tail' = tail /\ hand' = hand /\ last' = last /\ Others(t)
      /\ pc[t] \in {"revspill", "revtake"}
      /\ i \in Items /\ next'[i] = prev[t]
      /\ \A j \in Items : j # i => next'[j] = next[j]
      /\ \/ /\ next[i] # NULL /\ prev'[t] = i /\ qi'[t] = next[i]
            /\ pc'[t] = pc[t] /\ first' = first /\ head' = head
         \/ /\ next[i] = NULL /\ pc[t] = "revspill" /\ pc'[t] = "link"
            /\ first'[t] = i /\ prev'[t] = NULL /\ head' = head
         \/ /\ next[i] = NULL /\ pc[t] = "revtake" /\ pc'[t] = "idle"
            /\ head'[t] = i /\ prev'[t] = NULL /\ first' = first
  BY DEF IInv, TypeOK, Others, Pointer, ReverseStep, Goto
<1>2. /\ Lists(t) /\ Locals(t) /\ Apart(t) /\ Linked(next, Shared, tail, NULL)
      /\ next' \in [Items -> Pointer]
      /\ d \in Seq(Items) /\ r \in Seq(Items)
      /\ ToSet(d) \subseteq Items /\ ToSet(r) \subseteq Items
  BY NextType, DoneType DEF IInv
<1>3. Reversing(t) /\ ~Spilling(t) /\ first[t] = NULL /\ i # NULL
  BY <1>1, <1>2, QueueAssumption DEF Reversing, Spilling, Locals
<1>4. Linked(next, d, prev[t], NULL) /\ Linked(next, r, i, NULL)
  BY <1>2, <1>3 DEF Lists
<1> HIDE DEF d, r, i
<1>5. /\ r # <<>> /\ r = <<i>> \o r2 /\ Linked(next, r2, next[i], NULL)
      /\ i \notin ToSet(r2) /\ ToSet(r) = ToSet(r2) \cup {i}
  BY <1>3, <1>4, LinkedTail
<1>6. i \notin ToSet(d) /\ i \notin hand[t] /\ i \notin ToSet(Shared) /\ i \in Mine(t)
  BY <1>2, <1>5 DEF Apart, Mine, d, r
<1>7. Linked(next', d2, i, NULL) /\ ToSet(d2) = ToSet(d) \cup {i}
  <2>1. next'[i] = prev[t] /\ \A j \in ToSet(d) : next'[j] = next[j]
    BY <1>1, <1>2, <1>6
  <2>2. i \in Items
    BY <1>1
  <2>3. Linked(next', d2, i, NULL)
    BY <2>1, <2>2, <1>4, <1>6, LinkedCons
  <2> QED BY <2>2, <2>3, <1>2, ConsItems
<1> HIDE DEF r2
<1>8. Linked(next', r2, next[i], NULL)
  BY <1>1, <1>2, <1>5, LinkedFrame
<1>9. d2 # <<>> /\ d2[Len(d2)] = IF d = <<>> THEN i ELSE d[Len(d)]
  BY <1>1, <1>2, LastOfCons
<1> HIDE DEF d2
<1>10. \A j \in ToSet(Shared) : j \in Items
  BY <1>2 DEF Linked, ToSet
<1>11. Shared' = Shared /\ Linked(next', Shared', tail', NULL)
  BY <1>1, <1>2, <1>6, <1>10, SharedFrame
<1>12. r2 \in Seq(Items) /\ d2 \in Seq(Items)
  BY <1>7, <1>8 DEF Linked
<1>13. /\ ToSet(d2) \cap ToSet(r2) = {} /\ (ToSet(d2) \cup ToSet(r2)) \cap hand[t] = {}
       /\ ToSet(d2) \cup ToSet(r2) = ToSet(d) \cup ToSet(r)
  BY <1>2, <1>5, <1>6, <1>7 DEF Apart, d, r
<1>14. \A j \in hand'[t] : next'[j] = j \/ (pc'[t] \in {"link", "cas"} /\ first'[t] = j)
  <2>1. \A j \in hand[t] : j \in Items /\ next[j] = j
    BY <1>1 DEF IInv, HeldItemsUnlinked, TypeOK
  <2> QED BY <2>1, <1>1, <1>6
<1>15. OwnLinksOnly(t)
  BY <1>1, <1>6 DEF OwnLinksOnly
<1>16. ASSUME ToSet(Done(t)') \cup ToSet(Todo(t)') = ToSet(d2) \cup ToSet(r2),
              ToSet(Done(t)') \cap ToSet(Todo(t)') = {}, Lists(t)', Locals(t)'
       PROVE  IInv' /\ OthersKept(t)
  <2>1. Mine(t)' = Mine(t)
    BY <1>1, <1>13, <1>16 DEF Mine, d, r
  <2>2. Apart(t)'
    BY <1>1, <1>2, <1>11, <1>13, <1>16, <2>1 DEF Apart
  <2> QED BY <1>1, <1>11, <1>14, <1>15, <1>16, <2>1, <2>2, Assemble
<1>17. /\ Reverse(d2) \o r2 = Reverse(d) \o r
       /\ Reverse(r2) \o d2 = Reverse(r) \o d
  BY <1>1, <1>2, <1>5, <1>12, TurnKeepsOrder DEF d2
<1>18. ToSet(<<>>) = {}
  BY DEF ToSet
<1>19. CASE next[i] # NULL
  <2>1. /\ prev'[t] = i /\ qi'[t] = next[i] /\ pc'[t] = pc[t] /\ first' = first
        /\ head' = head /\ Reversing(t)' /\ ~Spilling(t)'
    BY <1>1, <1>19 DEF Reversing, Spilling, i
  <2>2. Done(t)' = d2 /\ Todo(t)' = r2
    BY <2>1, <1>2, <1>7, <1>8, ReadsWhole DEF Done, Todo, Chain, ChainTo
  <2>3. Lists(t)'
    BY <2>1, <2>2, <1>7, <1>8 DEF Lists
  <2>4. Locals(t)'
    <3>1. pc[t] = "revspill" => last[t] = d2[Len(d2)]
      BY <1>2, <1>9 DEF Locals, d, i
    <3> QED BY <3>1, <2>1, <2>2, <1>1, <1>2, <1>9 DEF Locals
  <2>5. FifoOf(t)' = FifoOf(t)
    BY <2>1, <2>2, <1>1, <1>3, <1>17 DEF FifoOf, d, r
  <2> QED BY <2>2, <2>3, <2>4, <2>5, <1>11, <1>13, <1>15, <1>16
<1>20. CASE next[i] = NULL /\ pc[t] = "revspill"
  <2>1. /\ pc'[t] = "link" /\ first'[t] = i /\ prev'[t] = NULL /\ head' = head
        /\ ~Reversing(t)' /\ Spilling(t)'
    BY <1>1, <1>6, <1>20 DEF Reversing, Spilling, Pushing, i
  <2>2. r2 = <<>>
    BY <1>5, <1>20, LinkedNull
  <2>3. last[t] = d2[Len(d2)]
    BY <1>2, <1>9, <1>20 DEF Locals, d, i
  <2>4. Walk(next', last[t])[Cardinality(Items)][i] = d2
    BY <2>3, <1>2, <1>7, <1>9, ReadsUpTo
  <2>5. Done(t)' = d2 /\ Todo(t)' = <<>>
    BY <2>1, <2>4, <1>1 DEF Done, Todo, ChainTo
  <2>6. next'[last[t]] = NULL
    BY <2>3, <1>7, <1>9 DEF Linked
  <2>7. Lists(t)'
    BY <2>1, <2>3, <2>5, <2>6, <1>1, <1>7, <1>9 DEF Lists
  <2>8. Locals(t)'
    BY <2>1 DEF Locals, Spilling
  <2>9. FifoOf(t)' = FifoOf(t)
    <3>1. FifoOf(t) = Reverse(d2) \o r2
      BY <1>17, <1>20 DEF FifoOf, d, r
    <3>2. FifoOf(t)' = Reverse(d2)
      BY <2>1, <2>5 DEF FifoOf
    <3>3. Reverse(d2) \in Seq(Items)
      BY <1>12, ReverseType
    <3> QED BY <3>1, <3>2, <3>3, <2>2, ConcatEmptySeq
  <2> QED BY <2>2, <2>5, <2>7, <2>8, <2>9, <1>11, <1>15, <1>16, <1>18
<1>21. CASE next[i] = NULL /\ pc[t] = "revtake"
  <2>1. /\ pc'[t] = "idle" /\ head'[t] = i /\ prev'[t] = NULL /\ first'[t] = NULL
        /\ ~Reversing(t)' /\ ~Spilling(t)'
    BY <1>1, <1>3, <1>21 DEF Reversing, Spilling, Pushing, i
  <2>2. r2 = <<>>
    BY <1>5, <1>21, LinkedNull
  <2>3. Done(t)' = <<>> /\ Todo(t)' = d2
    BY <2>1, <1>2, <1>7, ReadsWhole DEF Done, Todo, Chain, ChainTo
  <2>4. Lists(t)'
    BY <2>1, <2>3, <1>7 DEF Lists
  <2>5. Locals(t)'
    BY <2>1 DEF Locals
  <2>6. FifoOf(t)' = FifoOf(t)
    <3>1. FifoOf(t) = Reverse(r2) \o d2
      BY <1>3, <1>17, <1>21 DEF FifoOf, d, r
    <3>2. FifoOf(t)' = d2
      BY <2>1, <2>3 DEF FifoOf
    <3> QED BY <3>1, <3>2, <2>2, <1>12, ReverseEmpty, ConcatEmptySeq
  <2> QED BY <2>2, <2>3, <2>4, <2>5, <2>6, <1>11, <1>15, <1>16, <1>18
<1> QED BY <1>1, <1>15, <1>19, <1>20, <1>21

(* The exchange of a push: the tail still is the item linked to, so the    *)
(* pushed item goes in front of the whole stack, whatever happened in      *)
(* between.                                                                *)
LEMMA CasOkPushes ==
  ASSUME IInv, TypeOK', NEW t \in Threads, CasOk(t), Pushing(t)
  PROVE  /\ IInv' /\ FifoOf(t)' = FifoOf(t) /\ OthersKept(t)
         /\ OwnLinksOnly(t)
         /\ Shared \in Seq(Items) /\ first[t] \in hand[t]
         /\ Shared' = <<first[t]>> \o Shared
         /\ hand' = [hand EXCEPT ![t] = @ \ {first[t]}]
<1> DEFINE i == first[t]
           c == <<i>> \o Shared
<1>1. /\ pc[t] = "cas" /\ pc'[t] = "idle" /\ tail = seen[t] /\ tail' = i
      /\ hand' = [hand EXCEPT ![t] = @ \ {i}] /\ hand'[t] = hand[t] \ {i}
      /\ first'[t] = NULL /\ next' = next /\ head' = head /\ prev' = prev
      /\ Others(t) /\ i \in hand[t] /\ i \in Items
  BY DEF IInv, TypeOK, Others, Pointer, CasOk, Goto, Pushing
<1>2. /\ Lists(t) /\ Locals(t) /\ Apart(t) /\ Linked(next, Shared, tail, NULL)
      /\ next' \in [Items -> Pointer]
  BY NextType DEF IInv
<1>3. /\ ~Spilling(t) /\ ~Reversing(t) /\ ~Spilling(t)' /\ ~Reversing(t)'
      /\ prev[t] = NULL /\ next[i] = tail
  BY <1>1, <1>2 DEF Spilling, Reversing, Locals
<1>4. Done(t) = <<>> /\ Done(t)' = <<>> /\ ToSet(<<>>) = {}
  BY <1>3 DEF Done, ToSet
<1>5. Linked(next', Todo(t), head'[t], NULL)
  BY <1>1, <1>2, <1>3 DEF Lists
<1>6. Todo(t)' = Todo(t)
  BY <1>1, <1>2, <1>3, <1>5, ReadsWhole DEF Todo, Chain, ChainTo
<1>7. i \notin ToSet(Shared) /\ i \in Mine(t) /\ i \notin ToSet(Todo(t))
  BY <1>1, <1>2 DEF Apart, Mine
<1> HIDE DEF i
<1>8. Linked(next', c, i, NULL) /\ ToSet(c) = ToSet(Shared) \cup {i}
  <2>1. next'[i] = tail /\ \A j \in ToSet(Shared) : next'[j] = next[j]
    BY <1>1, <1>3
  <2>2. i \in Items
    BY <1>1
  <2>3. Linked(next', c, i, NULL)
    BY <2>1, <2>2, <1>2, <1>7, LinkedCons
  <2>4. ToSet(c) = ToSet(Shared) \cup {i}
    BY <2>2, <1>2, ConsItems DEF Linked
  <2> QED BY <2>3, <2>4
<1> HIDE DEF c
<1>9. Shared' = c /\ Linked(next', Shared', tail', NULL)
  BY <1>1, <1>2, <1>8, SharedReadsNext
<1>10. Mine(t)' = Mine(t) \ {i}
  BY <1>1, <1>4, <1>6, <1>7 DEF Mine
<1>11. Lists(t)'
  BY <1>3, <1>5, <1>6 DEF Lists
<1>12. Locals(t)'
  BY <1>1, <1>3 DEF Locals
<1>13. Apart(t)'
  BY <1>1, <1>2, <1>4, <1>6, <1>7, <1>8, <1>9, <1>10 DEF Apart
<1>14. \A j \in hand'[t] : next'[j] = j \/ (pc'[t] \in {"link", "cas"} /\ first'[t] = j)
  BY <1>1 DEF IInv, HeldItemsUnlinked, i
<1>15. Mine(t)' \cup ToSet(Shared') \subseteq Mine(t) \cup ToSet(Shared)
  BY <1>7, <1>8, <1>9, <1>10
<1>16. IInv' /\ OthersKept(t) /\ OwnLinksOnly(t)
  <2>1. OwnLinksOnly(t)
    BY <1>1 DEF OwnLinksOnly
  <2> QED BY <2>1, <1>1, <1>9, <1>11, <1>12, <1>13, <1>14, <1>15, Assemble
<1>17. FifoOf(t)' = FifoOf(t)
  BY <1>1, <1>3, <1>6 DEF FifoOf
<1> QED BY <1>1, <1>2, <1>9, <1>16, <1>17 DEF Linked, i, c

(* The exchange of a spill puts the whole reversed queue in front.         *)
LEMMA CasOkSpills ==
  ASSUME IInv, TypeOK', NEW t \in Threads, CasOk(t), ~Pushing(t)
  PROVE  /\ IInv' /\ OthersKept(t) /\ hand' = hand /\ OwnLinksOnly(t)
         /\ Shared \in Seq(Items) /\ Done(t) \in Seq(Items) /\ Done(t) # <<>>
         /\ FifoOf(t) = Reverse(Done(t)) /\ FifoOf(t)' = <<>>
         /\ Shared' = Done(t) \o Shared
<1> DEFINE d == Done(t)
           c == d \o Shared
<1>1. /\ pc[t] = "cas" /\ pc'[t] = "clear" /\ tail = seen[t] /\ tail' = first[t]
      /\ hand' = hand
      /\ first'[t] = NULL /\ next' = next /\ head' = head /\ prev' = prev
      /\ Others(t)
  <2>1. hand[t] \ {first[t]} = hand[t]
    BY DEF Pushing
  <2>2. hand' = hand
    BY <2>1 DEF CasOk, IInv, TypeOK
  <2> QED BY <2>2 DEF IInv, TypeOK, Others, CasOk, Goto
<1>2. /\ Lists(t) /\ Locals(t) /\ Apart(t) /\ Linked(next, Shared, tail, NULL)
      /\ next' \in [Items -> Pointer]
      /\ Shared \in Seq(Items) /\ Done(t) \in Seq(Items)
  BY NextType, DoneType DEF IInv, Linked
<1>3. /\ Spilling(t) /\ ~Reversing(t) /\ ~Spilling(t)' /\ ~Reversing(t)'
      /\ prev[t] = NULL /\ next[last[t]] = tail
  BY <1>1, <1>2 DEF Spilling, Reversing, Locals
<1>4. Done(t)' = <<>> /\ Todo(t) = <<>> /\ Todo(t)' = <<>> /\ ToSet(<<>>) = {}
  BY <1>1, <1>3 DEF Done, Todo, ToSet
<1>5. Linked(next', Done(t), first[t], tail) /\ Done(t) # <<>>
  BY <1>1, <1>2, <1>3 DEF Lists
<1>6. ToSet(d) \cap ToSet(Shared) = {} /\ ToSet(d) \subseteq Mine(t)
  BY <1>2 DEF Apart, Mine
<1> HIDE DEF d
<1>7. Linked(next', c, first[t], NULL) /\ ToSet(c) = ToSet(d) \cup ToSet(Shared)
  <2>1. next' = next /\ Linked(next', Shared, tail, NULL) /\ Linked(next', d, first[t], tail)
    BY <1>1, <1>2, <1>5 DEF d
  <2>2. ToSet(d) \cap ToSet(Shared) = {}
    BY <1>6
  <2>3. Linked(next', c, first[t], NULL)
    BY <2>1, <2>2, LinkedConcat
  <2>4. ToSet(c) = ToSet(d) \cup ToSet(Shared)
    BY <1>2, ConcatItems DEF d
  <2> QED BY <2>3, <2>4
<1> HIDE DEF c
<1>8. Shared' = c /\ Linked(next', Shared', tail', NULL)
  BY <1>1, <1>2, <1>7, SharedReadsNext
<1>9. Mine(t)' = hand[t] /\ hand[t] \subseteq Mine(t) /\ hand[t] \cap ToSet(d) = {}
      /\ hand[t] \cap ToSet(Shared) = {}
  BY <1>1, <1>2, <1>4 DEF Mine, Apart, d
<1>10. Lists(t)'
  BY <1>1, <1>3 DEF Lists
<1>11. Locals(t)'
  BY <1>1, <1>3 DEF Locals
<1>12. Apart(t)'
  BY <1>4, <1>7, <1>8, <1>9 DEF Apart
<1>13. \A j \in hand'[t] : next'[j] = j \/ (pc'[t] \in {"link", "cas"} /\ first'[t] = j)
  BY <1>1 DEF IInv, HeldItemsUnlinked, Pushing
<1>14. Mine(t)' \cup ToSet(Shared') \subseteq Mine(t) \cup ToSet(Shared)
  BY <1>6, <1>7, <1>8, <1>9
<1>15. IInv' /\ OthersKept(t) /\ OwnLinksOnly(t)
  <2>1. OwnLinksOnly(t)
    BY <1>1 DEF OwnLinksOnly
  <2> QED BY <2>1, <1>1, <1>8, <1>10, <1>11, <1>12, <1>13, <1>14, Assemble
<1>16. FifoOf(t) = Reverse(Done(t)) /\ FifoOf(t)' = <<>>
  BY <1>1, <1>3, <1>4 DEF FifoOf
<1> QED BY <1>1, <1>2, <1>5, <1>8, <1>15, <1>16 DEF d, c

(* The exchange of a take empties the stack into the private queue.        *)
LEMMA TakeCasOkTakes ==
  ASSUME IInv, TypeOK', NEW t \in Threads, TakeCasOk(t)
  PROVE  /\ IInv' /\ OthersKept(t) /\ hand' = hand /\ OwnLinksOnly(t)
         /\ Shared \in Seq(Items) /\ Shared' = <<>>
         /\ FifoOf(t) = <<>> /\ FifoOf(t)' = Reverse(Shared)
<1>1. /\ pc[t] = "takecas" /\ tail = seen[t] /\ tail' = NULL /\ hand' = hand
      /\ pc'[t] = IF tail = NULL THEN "idle" ELSE "revtake"
      /\ first' = first /\ next' = next /\ head' = head /\ prev' = prev
      /\ qi'[t] = tail /\ Others(t)
  BY DEF IInv, TypeOK, Others, TakeCasOk, Goto
<1>2. /\ Lists(t) /\ Locals(t) /\ Apart(t) /\ Linked(next, Shared, tail, NULL)
      /\ next' \in [Items -> Pointer] /\ Shared \in Seq(Items)
  BY NextType DEF IInv, Linked
<1>3. /\ ~Spilling(t) /\ ~Reversing(t) /\ ~Spilling(t)' /\ prev[t] = NULL
      /\ first[t] = NULL /\ head[t] = NULL
  BY <1>1, <1>2 DEF Spilling, Reversing, Locals
<1>4. Linked(next, Todo(t), NULL, NULL)
  BY <1>1, <1>2, <1>3 DEF Lists
<1>5. Done(t) = <<>> /\ Todo(t) = <<>> /\ ToSet(<<>>) = {}
  BY <1>3, <1>4, LinkedNull DEF Done, ToSet
<1>6. Linked(next', <<>>, NULL, NULL)
  BY LinkedEmpty
<1>7. Shared' = <<>> /\ Linked(next', Shared', tail', NULL)
  BY <1>1, <1>2, <1>6, SharedReadsNext
<1>8. /\ Done(t)' = <<>> /\ Todo(t)' = Shared /\ Lists(t)' /\ Locals(t)'
      /\ FifoOf(t)' = Reverse(Shared)
  <2>1. CASE tail = NULL
    <3>1. Shared = <<>>
      BY <2>1, <1>2, LinkedNull
    <3>2. ~Reversing(t)' /\ pc'[t] = "idle"
      BY <2>1, <1>1 DEF Reversing
    <3>3. Todo(t)' = <<>> /\ Done(t)' = <<>>
      BY <3>2, <1>1, <1>2, <1>3, <1>6, ReadsWhole DEF Todo, Done, Chain, ChainTo
    <3>4. Lists(t)' /\ Locals(t)'
      BY <3>2, <3>3, <1>1, <1>3, <1>6 DEF Lists, Locals
    <3> QED BY <3>1, <3>2, <3>3, <3>4, <1>3, ReverseEmpty DEF FifoOf
  <2>2. CASE tail # NULL
    <3>1. Reversing(t)' /\ pc'[t] = "revtake"
      BY <2>2, <1>1 DEF Reversing
    <3>2. Linked(next', Shared, tail, NULL)
      BY <1>1, <1>2
    <3>3. Todo(t)' = Shared /\ Done(t)' = <<>>
      BY <3>1, <3>2, <1>1, <1>2, <1>3, <1>6, ReadsWhole DEF Todo, Done, Chain, ChainTo
    <3>4. Lists(t)' /\ Locals(t)'
      BY <3>1, <3>2, <3>3, <1>1, <1>3, <1>6 DEF Lists, Locals
    <3>5. FifoOf(t)' = Reverse(Shared) \o <<>>
      BY <3>1, <3>3, <1>3 DEF FifoOf
    <3>6. Reverse(Shared) \in Seq(Items)
      BY <1>2, ReverseType
    <3> QED BY <3>3, <3>4, <3>5, <3>6, ConcatEmptySeq
  <2> QED BY <2>1, <2>2
<1>9. Mine(t)' = Mine(t) \cup ToSet(Shared)
  BY <1>1, <1>5, <1>8 DEF Mine
<1>10. Apart(t)'
  BY <1>1, <1>2, <1>5, <1>7, <1>8 DEF Apart, Mine
<1>11. \A j \in hand'[t] : next'[j] = j \/ (pc'[t] \in {"link", "cas"} /\ first'[t] = j)
  BY <1>1 DEF IInv, HeldItemsUnlinked
<1>12. Mine(t)' \cup ToSet(Shared') \subseteq Mine(t) \cup ToSet(Shared)
  BY <1>5, <1>7, <1>9
<1>13. IInv' /\ OthersKept(t) /\ OwnLinksOnly(t)
  <2>1. OwnLinksOnly(t)
    BY <1>1 DEF OwnLinksOnly
  <2> QED BY <2>1, <1>1, <1>7, <1>8, <1>10, <1>11, <1>12, Assemble
<1>14. FifoOf(t) = <<>>
  BY <1>1, <1>3, <1>5 DEF FifoOf
<1> QED BY <1>1, <1>2, <1>7, <1>8, <1>13, <1>14

(* A pop takes the oldest item of the private queue and no other.          *)
LEMMA PopPops ==
  ASSUME IInv, TypeOK', NEW t \in Threads, Pop(t)
  PROVE  /\ IInv' /\ OthersKept(t) /\ Shared' = Shared /\ OwnLinksOnly(t)
         /\ FifoOf(t) # <<>> /\ FifoOf(t) \in Seq(Items)
         /\ FifoOf(t) = <<head[t]>> \o FifoOf(t)'
         /\ FifoOf(t)' = Tail(FifoOf(t))
         /\ hand' = [hand EXCEPT ![t] = @ \cup {head[t]}]
<1> DEFINE i == head[t]
           r == Todo(t)
           r2 == Tail(r)
<1>1. /\ pc[t] = "idle" /\ pc' = pc /\ tail' = tail
      /\ i \in Items /\ i # NULL
      /\ hand' = [hand EXCEPT ![t] = @ \cup {i}] /\ hand'[t] = hand[t] \cup {i}
      /\ first' = first /\ prev' = prev /\ Others(t)
      /\ head'[t] = next[i] /\ next'[i] = i
      /\ \A j \in Items : j # i => next'[j] = next[j]
  BY DEF IInv, TypeOK, Others, Pointer, Pop
<1>2. /\ Lists(t) /\ Locals(t) /\ Apart(t) /\ Linked(next, Shared, tail, NULL)
      /\ next' \in [Items -> Pointer] /\ ToSet(r) \subseteq Items /\ r \in Seq(Items)
  BY NextType, DoneType DEF IInv
<1>3. /\ ~Spilling(t) /\ ~Reversing(t) /\ ~Spilling(t)' /\ ~Reversing(t)'
      /\ prev[t] = NULL /\ first[t] = NULL
  BY <1>1, <1>2 DEF Spilling, Reversing, Locals
<1>4. Done(t) = <<>> /\ Done(t)' = <<>> /\ ToSet(<<>>) = {}
  BY <1>3 DEF Done, ToSet
<1>5. Linked(next, r, i, NULL)
  BY <1>1, <1>2, <1>3 DEF Lists
<1> HIDE DEF i, r
<1>6. /\ r # <<>> /\ r = <<i>> \o r2 /\ Linked(next, r2, next[i], NULL)
      /\ i \notin ToSet(r2) /\ ToSet(r) = ToSet(r2) \cup {i}
  BY <1>1, <1>5, LinkedTail
<1> HIDE DEF r2
<1>7. Linked(next', r2, next[i], NULL)
  BY <1>1, <1>2, <1>6, LinkedFrame
<1>8. Todo(t)' = r2
  BY <1>1, <1>2, <1>3, <1>7, ReadsWhole DEF Todo, Chain, ChainTo
<1>9. i \in Mine(t) /\ i \notin ToSet(Shared) /\ i \notin hand[t]
      /\ ToSet(r) \cap hand[t] = {} /\ Mine(t) \cap ToSet(Shared) = {}
  BY <1>2, <1>6 DEF Mine, Apart, r
<1>10. \A j \in ToSet(Shared) : j \in Items
  BY <1>2 DEF Linked, ToSet
<1>11. Shared' = Shared /\ Linked(next', Shared', tail', NULL)
  BY <1>1, <1>2, <1>9, <1>10, SharedFrame
<1>12. Mine(t)' = Mine(t)
  BY <1>1, <1>4, <1>6, <1>8 DEF Mine, r
<1>13. Lists(t)'
  BY <1>1, <1>3, <1>7, <1>8 DEF Lists
<1>14. Locals(t)'
  BY <1>1, <1>3 DEF Locals
<1>15. Apart(t)'
  BY <1>1, <1>4, <1>6, <1>8, <1>9, <1>11, <1>12 DEF Apart
<1>16. \A j \in hand'[t] : next'[j] = j \/ (pc'[t] \in {"link", "cas"} /\ first'[t] = j)
  <2>1. \A j \in hand[t] : j \in Items /\ next[j] = j
    BY <1>1 DEF IInv, HeldItemsUnlinked, TypeOK
  <2> QED BY <2>1, <1>1
<1>17. OwnLinksOnly(t)
  BY <1>1, <1>9 DEF OwnLinksOnly
<1>18. IInv' /\ OthersKept(t)
  BY <1>1, <1>11, <1>12, <1>13, <1>14, <1>15, <1>16, <1>17, Assemble
<1>19. FifoOf(t) = r /\ FifoOf(t)' = r2
  BY <1>1, <1>3, <1>8 DEF FifoOf, r
<1> QED BY <1>1, <1>2, <1>6, <1>11, <1>17, <1>18, <1>19 DEF i, r2

-----------------------------------------------------------------------------
(* The invariant at the start: every list is empty.                        *)
LEMMA InitIInv == Init => IInv
<1> SUFFICES ASSUME Init PROVE IInv
  OBVIOUS
<1>1. TypeOK
  BY InitTypeOK
<1>2. /\ tail = NULL /\ next = [i \in Items |-> i]
      /\ \A t \in Threads :
           /\ head[t] = NULL /\ pc[t] = "idle" /\ prev[t] = NULL /\ first[t] = NULL
      /\ \A t, u \in Threads : t # u => hand[t] \cap hand[u] = {}
  BY DEF Init
<1>3. Linked(next, <<>>, NULL, NULL)
  BY LinkedEmpty
<1>4. Chain(NULL) = <<>> /\ ToSet(<<>>) = {}
  BY <1>1, <1>3, ChainReads DEF TypeOK, ToSet
<1>5. Shared = <<>>
  BY <1>2, <1>4 DEF Shared
<1>6. ASSUME NEW t \in Threads
      PROVE  /\ ~Spilling(t) /\ ~Reversing(t) /\ pc[t] = "idle"
             /\ Done(t) = <<>> /\ Todo(t) = <<>> /\ Mine(t) = hand[t]
  BY <1>2, <1>4 DEF Spilling, Reversing, Done, Todo, Mine
<1>7. ASSUME NEW t \in Threads PROVE Lists(t) /\ Locals(t) /\ Apart(t)
  BY <1>2, <1>3, <1>4, <1>5, <1>6 DEF Lists, Locals, Apart
<1>8. HeldItemsUnlinked
  BY <1>1, <1>2 DEF HeldItemsUnlinked, TypeOK
<1> QED BY <1>1, <1>2, <1>3, <1>5, <1>6, <1>7, <1>8 DEF IInv

(* A step that changes no queue.                                           *)
QueuesKept ==
  Shared' = Shared /\ hand' = hand /\ \A t \in Threads : FifoOf(t)' = FifoOf(t)

(* What a step does to the queues the pointers stand for: nothing, or one  *)
(* operation of the abstract queues.                                       *)
Effect(t) ==
  \/ QueuesKept
  \/ /\ OthersKept(t) /\ FifoOf(t)' = FifoOf(t) /\ first[t] \in hand[t]
     /\ Shared \in Seq(Items) /\ Shared' = <<first[t]>> \o Shared
     /\ hand' = [hand EXCEPT ![t] = @ \ {first[t]}]
  \/ /\ OthersKept(t) /\ hand' = hand
     /\ Shared \in Seq(Items) /\ Done(t) \in Seq(Items) /\ Done(t) # <<>>
     /\ FifoOf(t) = Reverse(Done(t)) /\ FifoOf(t)' = <<>>
     /\ Shared' = Done(t) \o Shared
  \/ /\ OthersKept(t) /\ hand' = hand
     /\ Shared \in Seq(Items) /\ Shared' = <<>>
     /\ FifoOf(t) = <<>> /\ FifoOf(t)' = Reverse(Shared)
  \/ /\ OthersKept(t) /\ Shared' = Shared
     /\ FifoOf(t) # <<>> /\ FifoOf(t) \in Seq(Items)
     /\ FifoOf(t) = <<head[t]>> \o FifoOf(t)'
     /\ FifoOf(t)' = Tail(FifoOf(t))
     /\ hand' = [hand EXCEPT ![t] = @ \cup {head[t]}]

(* Every step keeps the invariant, and what each does to the queues.       *)
LEMMA StepKeeps ==
  ASSUME IInv, Next
  PROVE  IInv' /\ \E t \in Threads : Effect(t) /\ OwnLinksOnly(t)
<1>1. TypeOK'
  BY NextTypeOK DEF IInv
<1>2. PICK t \in Threads :
        \/ \E i \in Items : PushCall(t, i)
        \/ SpillCall(t) \/ ReverseStep(t) \/ Link(t) \/ CasOk(t) \/ CasFail(t)
        \/ Clear(t) \/ TakeLoad(t) \/ TakeCasOk(t) \/ TakeCasFail(t) \/ Pop(t)
  BY DEF Next
<1>3. ASSUME Shared' = Shared, hand' = hand, FifoOf(t)' = FifoOf(t), OthersKept(t)
      PROVE  Effect(t)
  BY <1>3 DEF Effect, QueuesKept, OthersKept
<1>4. CASE \E i \in Items : PushCall(t, i)
  BY <1>1, <1>3, <1>4, PushCallKeeps DEF PushCall
<1>5. CASE SpillCall(t)
  BY <1>1, <1>3, <1>5, SpillCallKeeps DEF SpillCall
<1>6. CASE ReverseStep(t)
  BY <1>1, <1>3, <1>6, ReverseStepKeeps DEF ReverseStep
<1>7. CASE Link(t)
  BY <1>1, <1>3, <1>7, LinkKeeps DEF Link
<1>8. CASE CasOk(t) /\ Pushing(t)
  BY <1>1, <1>8, CasOkPushes DEF Effect
<1>9. CASE CasOk(t) /\ ~Pushing(t)
  BY <1>1, <1>9, CasOkSpills DEF Effect
<1>10. CASE CasFail(t) \/ TakeLoad(t) \/ TakeCasFail(t)
  BY <1>1, <1>3, <1>10, CasFailKeeps DEF CasFail, TakeLoad, TakeCasFail
<1>11. CASE Clear(t)
  BY <1>1, <1>3, <1>11, ClearKeeps DEF Clear
<1>12. CASE TakeCasOk(t)
  BY <1>1, <1>12, TakeCasOkTakes DEF Effect
<1>13. CASE Pop(t)
  BY <1>1, <1>13, PopPops DEF Effect
<1> QED
  BY <1>2, <1>4, <1>5, <1>6, <1>7, <1>8, <1>9, <1>10, <1>11, <1>12, <1>13

(* The invariant is inductive.                                             *)
LEMMA NextIInv == IInv /\ [Next]_vars => IInv'
<1> SUFFICES ASSUME IInv, UNCHANGED vars PROVE IInv'
  BY StepKeeps
<1> USE DEF vars
<1>1. TypeOK' /\ HeldItemsUnlinked'
  BY DEF IInv, TypeOK, HeldItemsUnlinked
<1>2. Shared' = Shared
  BY DEF Shared, Chain, ChainTo
<1>3. ASSUME NEW t \in Threads
      PROVE  /\ Done(t)' = Done(t) /\ Todo(t)' = Todo(t) /\ Mine(t)' = Mine(t)
             /\ Spilling(t)' = Spilling(t) /\ Reversing(t)' = Reversing(t)
             /\ Pushing(t)' = Pushing(t)
  BY DEF Done, Todo, Mine, Chain, ChainTo, Spilling, Reversing, Pushing
<1>4. ASSUME NEW t \in Threads PROVE Lists(t)' /\ Locals(t)' /\ Apart(t)'
  BY <1>2, <1>3 DEF IInv, Lists, Locals, Apart
<1> QED BY <1>1, <1>2, <1>3, <1>4 DEF IInv

(* Every item a thread holds is out of every list, unless the thread is    *)
(* pushing it.                                                             *)
THEOREM HeldItemsAreUnlinked == Spec => []HeldItemsUnlinked
<1>1. IInv => HeldItemsUnlinked
  BY DEF IInv
<1> QED BY <1>1, InitIInv, NextIInv, PTL DEF Spec

-----------------------------------------------------------------------------
(* The refinement mapping in terms of the lists of the invariant.          *)
LEMMA Fifos ==
  /\ sharedFifo = Reverse(Shared) /\ sharedFifo' = Reverse(Shared')
  /\ privFifo = [t \in Threads |-> FifoOf(t)]
  /\ privFifo' = [t \in Threads |-> FifoOf(t)']
<1>1. sharedFifo = Reverse(Shared) /\ sharedFifo' = Reverse(Shared')
  BY DEF sharedFifo, Shared
<1>2. ASSUME NEW t \in Threads
      PROVE  (CASE pc[t] = "revspill" -> Reverse(Chain(prev[t])) \o Chain(qi[t])
                [] pc[t] \in {"link", "cas"} /\ ~Pushing(t) ->
                     Reverse(ChainTo(first[t], last[t]))
                [] pc[t] = "clear" -> <<>>
                [] pc[t] = "revtake" -> Reverse(Chain(qi[t])) \o Chain(prev[t])
                [] OTHER -> Chain(head[t])) = FifoOf(t)
  BY DEF FifoOf, Spilling, Reversing, Done, Todo
<1>3. ASSUME NEW t \in Threads
      PROVE  (CASE pc[t] = "revspill" -> Reverse(Chain(prev[t])) \o Chain(qi[t])
                [] pc[t] \in {"link", "cas"} /\ ~Pushing(t) ->
                     Reverse(ChainTo(first[t], last[t]))
                [] pc[t] = "clear" -> <<>>
                [] pc[t] = "revtake" -> Reverse(Chain(qi[t])) \o Chain(prev[t])
                [] OTHER -> Chain(head[t]))' = FifoOf(t)'
  BY DEF FifoOf, Spilling, Reversing, Done, Todo
<1>4. privFifo = [t \in Threads |-> FifoOf(t)]
  BY <1>2, Zenon DEF privFifo
<1>5. privFifo' = [t \in Threads |-> FifoOf(t)']
  BY <1>3, Zenon DEF privFifo
<1> QED BY <1>1, <1>4, <1>5

(* An item that can be reached from the shared tail keeps its link until   *)
(* the whole stack is taken, whatever the other threads do.                *)
THEOREM SharedItemsStayFrozen == Spec => SharedItemsFrozen
<1> DEFINE Frozen == \A k \in 1..Len(sharedFifo) : next'[sharedFifo[k]] = next[sharedFifo[k]]
<1>1. IInv /\ [Next]_vars => [Frozen]_vars
  <2> SUFFICES ASSUME IInv, Next, NEW k \in 1..Len(sharedFifo)
               PROVE  next'[sharedFifo[k]] = next[sharedFifo[k]]
    OBVIOUS
  <2>1. Shared \in Seq(Items)
    BY DEF IInv, Linked
  <2>2. sharedFifo[k] \in ToSet(Shared)
    <3>1. /\ Len(sharedFifo) = Len(Shared) /\ sharedFifo[k] = Shared[(Len(Shared) - k) + 1]
          /\ Len(Shared) \in Nat
      BY <2>1, Fifos, ReverseType
    <3>2. (Len(Shared) - k) + 1 \in DOMAIN Shared
      BY <2>1, <3>1, SMT
    <3> QED BY <3>1, <3>2 DEF ToSet
  <2>3. PICK t \in Threads : OwnLinksOnly(t)
    BY StepKeeps
  <2>4. Mine(t) \cap ToSet(Shared) = {} /\ ToSet(Shared) \subseteq Items
    BY <2>1 DEF IInv, Apart, ToSet
  <2> QED BY <2>2, <2>3, <2>4 DEF OwnLinksOnly
<1> QED BY <1>1, InitIInv, NextIInv, PTL DEF Spec, SharedItemsFrozen

-----------------------------------------------------------------------------
(* Each step of the pointers is one atomic queue operation or none.        *)
LEMMA StepRefines ==
  ASSUME IInv, Next
  PROVE  Atomic!Next \/ UNCHANGED Atomic!vars
<1>1. PICK t \in Threads : Effect(t)
  BY StepKeeps
<1>2. ASSUME OthersKept(t), NEW f, FifoOf(t)' = f
      PROVE  privFifo' = [privFifo EXCEPT ![t] = f]
  <2>1. \A u \in Threads : FifoOf(u)' = IF u = t THEN f ELSE FifoOf(u)
    BY <1>2 DEF OthersKept
  <2>2. privFifo' = [u \in Threads |-> IF u = t THEN f ELSE FifoOf(u)]
    BY <2>1, Fifos, Zenon
  <2>3. privFifo = [u \in Threads |-> FifoOf(u)]
    BY Fifos
  <2> HIDE DEF privFifo, FifoOf
  <2> QED BY <2>2, <2>3
<1>3. privFifo[t] = FifoOf(t)
  BY Fifos, Zenon
<1>4. CASE QueuesKept
  <2>1. sharedFifo' = sharedFifo
    BY <1>4, Fifos DEF QueuesKept
  <2>2. privFifo' = privFifo
    BY <1>4, Fifos, Zenon DEF QueuesKept
  <2> QED BY <2>1, <2>2, <1>4 DEF QueuesKept, Atomic!vars
<1>5. CASE /\ OthersKept(t) /\ FifoOf(t)' = FifoOf(t) /\ first[t] \in hand[t]
           /\ Shared \in Seq(Items) /\ Shared' = <<first[t]>> \o Shared
           /\ hand' = [hand EXCEPT ![t] = @ \ {first[t]}]
  <2>1. first[t] \in Items
    BY <1>5 DEF IInv, TypeOK
  <2>2. sharedFifo' = Append(sharedFifo, first[t])
    BY <1>5, <2>1, Fifos, ReverseCons
  <2>3. privFifo' = privFifo
    <3>1. \A u \in Threads : FifoOf(u)' = FifoOf(u)
      BY <1>5 DEF OthersKept
    <3> QED BY <3>1, Fifos, Zenon
  <2>4. Atomic!Push(t, first[t])
    BY <1>5, <2>2, <2>3 DEF Atomic!Push
  <2> QED BY <2>1, <2>4 DEF Atomic!Next
<1>6. CASE /\ OthersKept(t) /\ hand' = hand
           /\ Shared \in Seq(Items) /\ Done(t) \in Seq(Items) /\ Done(t) # <<>>
           /\ FifoOf(t) = Reverse(Done(t)) /\ FifoOf(t)' = <<>>
           /\ Shared' = Done(t) \o Shared
  <2>1. sharedFifo' = sharedFifo \o privFifo[t]
    BY <1>3, <1>6, Fifos, ReverseConcat
  <2>2. privFifo[t] # <<>>
    <3>1. Len(Reverse(Done(t))) = Len(Done(t)) /\ Len(Done(t)) # 0
      BY <1>6, ReverseType, EmptySeq
    <3> QED BY <3>1, <1>3, <1>6, EmptySeq
  <2>3. privFifo' = [privFifo EXCEPT ![t] = <<>>]
    BY <1>2, <1>6
  <2>4. Atomic!MoveToShared(t)
    BY <1>6, <2>1, <2>2, <2>3 DEF Atomic!MoveToShared
  <2> QED BY <2>4 DEF Atomic!Next
<1>7. CASE /\ OthersKept(t) /\ hand' = hand
           /\ Shared \in Seq(Items) /\ Shared' = <<>>
           /\ FifoOf(t) = <<>> /\ FifoOf(t)' = Reverse(Shared)
  <2>1. sharedFifo' = <<>> /\ sharedFifo = Reverse(Shared)
    BY <1>7, Fifos, ReverseEmpty
  <2>2. privFifo' = [privFifo EXCEPT ![t] = sharedFifo]
    BY <1>2, <1>7, <2>1
  <2>3. Atomic!MoveFromShared(t)
    BY <1>3, <1>7, <2>1, <2>2 DEF Atomic!MoveFromShared
  <2> QED BY <2>3 DEF Atomic!Next
<1>8. CASE /\ OthersKept(t) /\ Shared' = Shared
           /\ FifoOf(t) # <<>> /\ FifoOf(t) \in Seq(Items)
           /\ FifoOf(t) = <<head[t]>> \o FifoOf(t)'
           /\ FifoOf(t)' = Tail(FifoOf(t))
           /\ hand' = [hand EXCEPT ![t] = @ \cup {head[t]}]
  <2>1. sharedFifo' = sharedFifo
    BY <1>8, Fifos
  <2>2. Head(FifoOf(t)) = head[t]
    <3> DEFINE q == FifoOf(t)
               p == Tail(q)
    <3>1. q # <<>> /\ q \in Seq(Items) /\ q = <<head[t]>> \o p
      BY <1>8
    <3> HIDE DEF q
    <3>2. p \in Seq(Items)
      BY <3>1, HeadTailProperties
    <3> HIDE DEF p
    <3>3. Head(<<head[t]>> \o p) = head[t]
      BY <3>2
    <3> QED BY <3>1, <3>3 DEF q
  <2>3. privFifo' = [privFifo EXCEPT ![t] = Tail(privFifo[t])]
    BY <1>2, <1>3, <1>8
  <2>4. Atomic!Pop(t)
    BY <1>3, <1>8, <2>1, <2>2, <2>3 DEF Atomic!Pop
  <2> QED BY <2>4 DEF Atomic!Next
<1> QED BY <1>1, <1>4, <1>5, <1>6, <1>7, <1>8 DEF Effect

(* The queues are empty at the start.                                      *)
LEMMA InitRefines == Init => Atomic!Init
<1> SUFFICES ASSUME Init PROVE Atomic!Init
  OBVIOUS
<1>1. IInv /\ hand \in [Threads -> SUBSET Items]
      /\ \A t, u \in Threads : t # u => hand[t] \cap hand[u] = {}
  BY InitIInv DEF Init
<1>2. Linked(next, <<>>, NULL, NULL) /\ next \in [Items -> Pointer]
  BY <1>1, LinkedEmpty DEF IInv, TypeOK
<1>3. Chain(NULL) = <<>>
  BY <1>2, ChainReads
<1>4. Shared = <<>> /\ \A t \in Threads : FifoOf(t) = <<>>
  BY <1>3 DEF Init, Shared, FifoOf, Spilling, Todo, Reversing
<1>5. sharedFifo = <<>>
  BY <1>4, Fifos, ReverseEmpty
<1>6. privFifo = [t \in Threads |-> <<>>]
  BY <1>4, Fifos, Zenon
<1> QED BY <1>1, <1>5, <1>6 DEF Atomic!Init

(* The compare-and-exchange loops of queue.c are atomic queues: for any    *)
(* number of threads and items, and though a tail may be taken, popped and *)
(* pushed again between a load and the exchange, no item is lost,          *)
(* duplicated or reordered.                                                *)
THEOREM ImplementsAtomic == Spec => ImplementsAtomicQueue
<1>1. IInv /\ [Next]_vars => [Atomic!Next]_(Atomic!vars)
  <2> SUFFICES ASSUME IInv, UNCHANGED vars PROVE UNCHANGED Atomic!vars
    BY StepRefines
  <2>1. Shared' = Shared /\ \A t \in Threads : FifoOf(t)' = FifoOf(t)
    BY DEF vars, Shared, FifoOf, Chain, ChainTo, Done, Todo, Spilling, Pushing, Reversing
  <2>2. sharedFifo' = sharedFifo
    BY <2>1, Fifos
  <2>3. privFifo' = privFifo
    BY <2>1, Fifos, Zenon
  <2> QED BY <2>2, <2>3 DEF vars, Atomic!vars
<1> QED BY <1>1, InitIInv, NextIInv, InitRefines, PTL
        DEF Spec, ImplementsAtomicQueue, Atomic!Spec
=============================================================================
