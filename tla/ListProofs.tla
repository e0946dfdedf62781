----------------------------- MODULE ListProofs -----------------------------
(* The assertions of src/list.c hold for any number of lists and nodes.    *)
(* The invariant is local: it relates a node to its two neighbours and to  *)
(* its list, and some rank of the nodes grows along `next`, which is what  *)
(* keeps a chain from closing into a ring.                                 *)
(*                                                                         *)
(* The lists then implement ListSequences.  Reading the links from a head  *)
(* is a recursive function of the number of links read, so what it yields  *)
(* is first shown to be the one sequence the links spell; what is left to  *)
(* say of a step is which sequence its links spell afterwards.             *)
EXTENDS List, SequenceTheorems, FiniteSetTheorems, WellFoundedInduction, TLAPS

(* A node in a list is linked both ways with nodes of the same list, or    *)
(* ends it.                                                                *)
LinkedIn(l, n) ==
  /\ prev[n] \in Nodes \cup {NULL}
  /\ next[n] \in Nodes \cup {NULL}
  /\ prev[n] # NULL => where[prev[n]] = l /\ next[prev[n]] = n
  /\ next[n] # NULL => where[next[n]] = l /\ prev[next[n]] = n
  /\ prev[n] = NULL => head[l] = n
  /\ next[n] = NULL => tail[l] = n

(* Every list ends where its head and tail say, and its nodes are linked.  *)
Linked ==
  \A l \in Lists :
    /\ EmptyAsserts(l)
    /\ head[l] # NULL => where[head[l]] = l /\ prev[head[l]] = NULL
    /\ tail[l] # NULL => where[tail[l]] = l /\ next[tail[l]] = NULL
    /\ \A n \in Nodes : where[n] = l => LinkedIn(l, n)

(* A node in no list has been detached from its old neighbours.            *)
Alone == \A n \in Nodes : where[n] = "out" => prev[n] = n /\ next[n] = n

(* A rank that grows along the links.                                      *)
Rising(rank) ==
  \A n \in Nodes : where[n] \in Lists /\ next[n] # NULL => rank[n] < rank[next[n]]

(* There is one: no chain of links closes into a ring.                     *)
Ranked == \E rank \in [Nodes -> Nat] : Rising(rank)

(* A walk is at the end or at a node of its own list.                      *)
WalkInList ==
  \A l \in Lists :
    /\ pos[l] # NULL => where[pos[l]] = l
    /\ met[l] # NULL => where[met[l]] = l /\ next[met[l]] = pos[l]

(* The local invariant.                                                    *)
Inv == TypeOK /\ Linked /\ Alone /\ Ranked /\ WalkInList

-----------------------------------------------------------------------------
(* No node of a list is its own successor.                                 *)
LEMMA NoLoop ==
  ASSUME TypeOK, Ranked, NEW n \in Nodes, where[n] \in Lists
  PROVE  next[n] # n
<1>1. PICK rank \in [Nodes -> Nat] : Rising(rank)
  BY DEF Ranked
<1>2. next[n] # NULL => rank[n] < rank[next[n]]
  BY <1>1 DEF Rising
<1> QED
  BY <1>2, ListAssumption DEF TypeOK

(* A list without a head holds nothing: of the nodes it held, one of       *)
(* least rank would have no predecessor and so be the head.                *)
LEMMA HeadlessIsEmpty ==
  ASSUME TypeOK, Linked, Ranked, NEW l \in Lists, head[l] = NULL,
         NEW n \in Nodes
  PROVE  where[n] # l
<1> SUFFICES ASSUME where[n] = l PROVE FALSE
  OBVIOUS
<1>1. PICK rank \in [Nodes -> Nat] : Rising(rank)
  BY DEF Ranked
<1> DEFINE Ranks == {rank[m] : m \in {k \in Nodes : where[k] = l}}
<1>2. Ranks \subseteq Nat /\ Ranks # {}
  OBVIOUS
<1>3. PICK r \in Ranks : \A s \in Ranks : <<s, r>> \notin OpToRel(<, Nat)
  BY <1>2, NatLessThanWellFounded, WFMin, Zenon
<1>4. PICK m \in Nodes : where[m] = l /\ rank[m] = r
  BY <1>3
<1>5. LinkedIn(l, m)
  BY <1>4 DEF Linked
<1>6. prev[m] \in Nodes /\ where[prev[m]] = l /\ next[prev[m]] = m
  BY <1>5, <1>4, ListAssumption DEF LinkedIn
<1>7. rank[prev[m]] < r
  BY <1>1, <1>4, <1>6, ListAssumption DEF Rising
<1>8. rank[prev[m]] \in Ranks /\ rank[prev[m]] \in Nat /\ r \in Nat
  BY <1>6, <1>4
<1>9. <<rank[prev[m]], r>> \in OpToRel(<, Nat)
  BY <1>7, <1>8 DEF OpToRel
<1> QED
  BY <1>3, <1>8, <1>9

-----------------------------------------------------------------------------
(* The two ways the links change                                           *)

(* list_insert_back keeps the local invariant.                             *)
LEMMA LinkPreserves ==
  ASSUME Inv, NEW l \in Lists, NEW n \in Nodes, AppendNode(l, n)
  PROVE  Linked' /\ Alone' /\ Ranked'
<1> USE DEF Inv, TypeOK
<1> USE ListAssumption
<1>1. /\ where[n] = "out" /\ prev[n] = n /\ next[n] = n
      /\ prev' = [prev EXCEPT ![n] = tail[l]]
      /\ next' = IF tail[l] # NULL THEN [next EXCEPT ![n] = NULL, ![tail[l]] = n]
                                  ELSE [next EXCEPT ![n] = NULL]
      /\ head' = IF tail[l] # NULL THEN head ELSE [head EXCEPT ![l] = n]
      /\ tail' = [tail EXCEPT ![l] = n]
      /\ where' = [where EXCEPT ![n] = l]
  BY DEF AppendNode, Link, Alone
<1>2. tail[l] # NULL => where[tail[l]] = l /\ next[tail[l]] = NULL /\ tail[l] # n
  BY <1>1 DEF Linked
<1>3. Linked'
  <2>1. ASSUME NEW k \in Lists
        PROVE  /\ EmptyAsserts(k)'
               /\ (head[k] # NULL => where[head[k]] = k /\ prev[head[k]] = NULL)'
               /\ (tail[k] # NULL => where[tail[k]] = k /\ next[tail[k]] = NULL)'
    BY <2>1, <1>1, <1>2 DEF Linked, EmptyAsserts
  <2>2. ASSUME NEW k \in Lists, NEW m \in Nodes, (where[m] = k)'
        PROVE  LinkedIn(k, m)'
    <3>1. CASE m = n
      BY <3>1, <2>2, <1>1, <1>2 DEF Linked, LinkedIn, EmptyAsserts
    <3>2. CASE m # n
      <4>1. where[m] = k /\ LinkedIn(k, m)
        BY <3>2, <2>2, <1>1 DEF Linked
      <4>2. prev[m] # n /\ next[m] # n
        BY <4>1, <1>1 DEF LinkedIn
      <4>3. /\ m = tail[l] => next'[m] = n
            /\ m # tail[l] => next'[m] = next[m]
            /\ prev'[m] = prev[m]
        BY <3>2, <1>1, <1>2
      <4>4. prev[m] # NULL => where'[prev[m]] = k /\ next'[prev[m]] = m
        <5>1. ASSUME prev[m] # NULL PROVE next[prev[m]] = m /\ prev[m] # tail[l]
          BY <5>1, <4>1, <1>2 DEF LinkedIn
        <5> QED
          BY <5>1, <4>1, <4>2, <1>1 DEF LinkedIn
      <4>5. m # tail[l] /\ next[m] # NULL => where'[next[m]] = k /\ prev'[next[m]] = m
        BY <4>1, <4>2, <1>1 DEF LinkedIn
      <4>6. m = tail[l] => k = l /\ where'[n] = k /\ prev'[n] = m
        BY <1>1, <1>2, <4>1
      <4>7. prev[m] = NULL => head'[k] = m
        BY <4>1, <1>1, <1>2 DEF LinkedIn, Linked, EmptyAsserts
      <4>8. m # tail[l] /\ next[m] = NULL => tail'[k] = m
        BY <4>1, <1>1 DEF LinkedIn
      <4> QED
        BY <4>1, <4>2, <4>3, <4>4, <4>5, <4>6, <4>7, <4>8 DEF LinkedIn
    <3> QED
      BY <3>1, <3>2
  <2> QED
    BY <2>1, <2>2 DEF Linked
<1>4. Alone'
  BY <1>1, <1>2 DEF Alone
<1>5. Ranked'
  <2>1. PICK rank \in [Nodes -> Nat] : Rising(rank)
    BY DEF Ranked
  <2> DEFINE new == [rank EXCEPT ![n] = IF tail[l] # NULL THEN rank[tail[l]] + 1 ELSE 0]
  <2>2. new \in [Nodes -> Nat]
    OBVIOUS
  <2>3. ASSUME NEW m \in Nodes, where'[m] \in Lists, next'[m] # NULL
        PROVE  new[m] < new[next'[m]]
    <3>1. m # n
      BY <2>3, <1>1, <1>2
    <3>2. CASE m = tail[l]
      BY <3>1, <3>2, <1>1, <1>2
    <3>3. CASE m # tail[l]
      <4>1. where[m] \in Lists /\ next'[m] = next[m]
        BY <2>3, <3>1, <3>3, <1>1
      <4>2. next[m] \in Nodes /\ next[m] # n
        BY <2>3, <4>1, <1>1 DEF Linked, LinkedIn
      <4>3. rank[m] < rank[next[m]]
        BY <2>1, <2>3, <4>1 DEF Rising
      <4> QED
        BY <3>1, <4>1, <4>2, <4>3
    <3> QED
      BY <3>2, <3>3
  <2> QED
    BY <2>2, <2>3 DEF Ranked, Rising
<1> QED
  BY <1>3, <1>4, <1>5

(* list_remove keeps the local invariant.                                  *)
LEMMA UnlinkPreserves ==
  ASSUME Inv, NEW l \in Lists, NEW n \in Nodes, where[n] = l, Unlink(l, n)
  PROVE  Linked' /\ Alone' /\ Ranked'
<1> USE DEF Inv, TypeOK
<1> USE ListAssumption
<1>1. LinkedIn(l, n)
  BY DEF Linked
<1>2. next[n] # n /\ prev[n] # n
  BY <1>1, NoLoop DEF LinkedIn
<1>3. /\ next' = IF prev[n] # NULL THEN [next EXCEPT ![prev[n]] = next[n], ![n] = n]
                                  ELSE [next EXCEPT ![n] = n]
      /\ head' = IF prev[n] # NULL THEN head ELSE [head EXCEPT ![l] = next[n]]
      /\ prev' = IF next[n] # NULL THEN [prev EXCEPT ![next[n]] = prev[n], ![n] = n]
                                  ELSE [prev EXCEPT ![n] = n]
      /\ tail' = IF next[n] # NULL THEN tail ELSE [tail EXCEPT ![l] = prev[n]]
      /\ where' = [where EXCEPT ![n] = "out"]
  BY DEF Unlink
<1>4. prev[n] # next[n] \/ (prev[n] = NULL /\ next[n] = NULL)
  <2>1. PICK rank \in [Nodes -> Nat] : Rising(rank)
    BY DEF Ranked
  <2>2. prev[n] # NULL => rank[prev[n]] < rank[n]
    BY <2>1, <1>1 DEF Rising, LinkedIn
  <2>3. next[n] # NULL => rank[n] < rank[next[n]]
    BY <2>1 DEF Rising
  <2> QED
    BY <2>2, <2>3, <1>1 DEF LinkedIn
<1>5. Linked'
  <2>1. ASSUME NEW k \in Lists
        PROVE  /\ EmptyAsserts(k)'
               /\ (head[k] # NULL => where[head[k]] = k /\ prev[head[k]] = NULL)'
               /\ (tail[k] # NULL => where[tail[k]] = k /\ next[tail[k]] = NULL)'
    <3>1. CASE k # l
      <4>1. /\ head'[k] = head[k] /\ tail'[k] = tail[k]
            /\ head[k] # NULL => where[head[k]] = k /\ prev[head[k]] = NULL
            /\ tail[k] # NULL => where[tail[k]] = k /\ next[tail[k]] = NULL
        BY <3>1, <1>3 DEF Linked
      <4>2. ASSUME head[k] # NULL PROVE head[k] # n /\ head[k] # next[n]
        BY <4>1, <4>2, <3>1, <1>1 DEF LinkedIn
      <4>3. ASSUME tail[k] # NULL PROVE tail[k] # n /\ tail[k] # prev[n]
        BY <4>1, <4>3, <3>1, <1>1 DEF LinkedIn
      <4>4. EmptyAsserts(k)'
        BY <4>1 DEF Linked, EmptyAsserts
      <4> QED
        BY <4>1, <4>2, <4>3, <4>4, <1>3
    <3>2. CASE k = l
      <4>1. EmptyAsserts(l)'
        BY <1>1, <1>3 DEF Linked, EmptyAsserts, LinkedIn
      <4>2. ASSUME head'[l] # NULL
            PROVE  where'[head'[l]] = l /\ prev'[head'[l]] = NULL
        <5>1. CASE prev[n] = NULL
          BY <5>1, <4>2, <1>1, <1>2, <1>3 DEF LinkedIn
        <5>2. CASE prev[n] # NULL
          <6>1. head'[l] = head[l] /\ where[head[l]] = l /\ prev[head[l]] = NULL
            BY <5>2, <4>2, <1>3 DEF Linked
          <6>2. head[l] # n /\ head[l] # next[n] /\ head[l] \in Nodes
            BY <6>1, <5>2, <4>2, <1>1 DEF LinkedIn
          <6>3. where'[head[l]] = where[head[l]] /\ prev'[head[l]] = prev[head[l]]
            BY <6>2, <1>3
          <6> QED
            BY <6>1, <6>3
        <5> QED
          BY <5>1, <5>2
      <4>3. ASSUME tail'[l] # NULL
            PROVE  where'[tail'[l]] = l /\ next'[tail'[l]] = NULL
        <5>1. CASE next[n] = NULL
          BY <5>1, <4>3, <1>1, <1>2, <1>3 DEF LinkedIn
        <5>2. CASE next[n] # NULL
          <6>1. tail'[l] = tail[l] /\ where[tail[l]] = l /\ next[tail[l]] = NULL
            BY <5>2, <4>3, <1>3 DEF Linked
          <6>2. tail[l] # n /\ tail[l] # prev[n] /\ tail[l] \in Nodes
            BY <6>1, <5>2, <4>3, <1>1 DEF LinkedIn
          <6>3. where'[tail[l]] = where[tail[l]] /\ next'[tail[l]] = next[tail[l]]
            BY <6>2, <1>3
          <6> QED
            BY <6>1, <6>3
        <5> QED
          BY <5>1, <5>2
      <4> QED
        BY <3>2, <4>1, <4>2, <4>3
    <3> QED
      BY <3>1, <3>2
  <2>2. ASSUME NEW k \in Lists, NEW m \in Nodes, where'[m] = k
        PROVE  LinkedIn(k, m)'
    <3>1. m # n /\ where[m] = k /\ LinkedIn(k, m)
      BY <2>2, <1>3 DEF Linked
    <3>2. m # prev[n] => next[m] # n /\ next'[m] = next[m]
      BY <3>1, <1>1, <1>3 DEF LinkedIn
    <3>3. m # next[n] => prev[m] # n /\ prev'[m] = prev[m]
      BY <3>1, <1>1, <1>3 DEF LinkedIn
    <3>4. m = prev[n] => k = l /\ next'[m] = next[n]
      BY <3>1, <1>1, <1>3 DEF LinkedIn
    <3>5. m = next[n] => k = l /\ prev'[m] = prev[n]
      BY <3>1, <1>1, <1>3 DEF LinkedIn
    <3>6. /\ next'[m] \in Nodes \cup {NULL}
          /\ next'[m] # NULL => where'[next'[m]] = k /\ prev'[next'[m]] = m
          /\ next'[m] = NULL => tail'[k] = m
      <4>1. CASE m = prev[n]
        BY <4>1, <3>4, <1>1, <1>2, <1>3, <3>1 DEF LinkedIn
      <4>2. CASE m # prev[n]
        <5>1. next[m] # NULL => next[m] # next[n]
          BY <4>2, <3>1, <1>1 DEF LinkedIn
        <5> QED
          BY <4>2, <5>1, <3>1, <3>2, <1>1, <1>3 DEF LinkedIn
      <4> QED
        BY <4>1, <4>2
    <3>7. /\ prev'[m] \in Nodes \cup {NULL}
          /\ prev'[m] # NULL => where'[prev'[m]] = k /\ next'[prev'[m]] = m
          /\ prev'[m] = NULL => head'[k] = m
      <4>1. CASE m = next[n]
        BY <4>1, <3>5, <1>1, <1>2, <1>3, <3>1 DEF LinkedIn
      <4>2. CASE m # next[n]
        <5>1. prev[m] # NULL => prev[m] # prev[n]
          BY <4>2, <3>1, <1>1 DEF LinkedIn
        <5> QED
          BY <4>2, <5>1, <3>1, <3>3, <1>1, <1>3 DEF LinkedIn
      <4> QED
        BY <4>1, <4>2
    <3> QED
      BY <3>6, <3>7 DEF LinkedIn
  <2> QED
    BY <2>1, <2>2 DEF Linked
<1>6. Alone'
  <2>1. ASSUME NEW m \in Nodes, where'[m] = "out" PROVE prev'[m] = m /\ next'[m] = m
    <3>1. CASE m = n
      BY <3>1, <1>2, <1>3
    <3>2. CASE m # n
      <4>1. where[m] = "out" /\ prev[m] = m /\ next[m] = m
        BY <3>2, <2>1, <1>3 DEF Alone
      <4>2. m # prev[n] /\ m # next[n]
        BY <4>1, <1>1 DEF LinkedIn
      <4> QED
        BY <3>2, <4>1, <4>2, <1>3
    <3> QED
      BY <3>1, <3>2
  <2> QED
    BY <2>1 DEF Alone
<1>7. Ranked'
  <2>1. PICK rank \in [Nodes -> Nat] : Rising(rank)
    BY DEF Ranked
  <2>2. ASSUME NEW m \in Nodes, where'[m] \in Lists, next'[m] # NULL
        PROVE  rank[m] < rank[next'[m]]
    <3>1. m # n /\ where[m] \in Lists
      BY <2>2, <1>3
    <3>2. CASE m = prev[n]
      <4>1. next'[m] = next[n] /\ next[m] = n /\ next[n] \in Nodes
        BY <3>1, <3>2, <2>2, <1>1, <1>3 DEF LinkedIn
      <4>2. rank[m] < rank[n] /\ rank[n] < rank[next[n]]
        BY <4>1, <3>1, <2>1, <2>2 DEF Rising
      <4> QED
        BY <4>1, <4>2
    <3>3. CASE m # prev[n]
      BY <3>1, <3>3, <2>1, <2>2, <1>3 DEF Rising
    <3> QED
      BY <3>2, <3>3
  <2> QED
    BY <2>1, <2>2 DEF Ranked, Rising
<1> QED
  BY <1>5, <1>6, <1>7

(* list_move renames the list its nodes are in; nothing was in the other.  *)
LEMMA MovePreserves ==
  ASSUME Inv, NEW dest \in Lists, NEW src \in Lists, Move(dest, src)
  PROVE  Linked' /\ Alone' /\ Ranked' /\ WalkInList'
<1> USE DEF Inv, TypeOK
<1> USE ListAssumption
<1>1. \A n \in Nodes : where[n] # dest
  BY HeadlessIsEmpty DEF Move
<1>2. /\ head' = [head EXCEPT ![dest] = head[src], ![src] = NULL]
      /\ tail' = [tail EXCEPT ![dest] = tail[src], ![src] = NULL]
      /\ where' = [n \in Nodes |-> IF where[n] = src THEN dest ELSE where[n]]
      /\ dest # src /\ prev' = prev /\ next' = next /\ pos' = pos /\ met' = met
      /\ pos[src] = NULL /\ met[src] = NULL /\ pos[dest] = NULL /\ met[dest] = NULL
  BY DEF Move, Walked
<1>3. ASSUME NEW k \in Lists, NEW n \in Nodes, where'[n] = k
      PROVE  LinkedIn(k, n)'
  <2>1. CASE k = dest
    <3>1. where[n] = src /\ LinkedIn(src, n)
      BY <2>1, <1>1, <1>2, <1>3 DEF Linked
    <3> QED
      BY <2>1, <3>1, <1>2 DEF LinkedIn
  <2>2. CASE k # dest
    <3>1. k # src /\ where[n] = k /\ LinkedIn(k, n)
      BY <2>2, <1>2, <1>3 DEF Linked
    <3> QED
      BY <2>2, <3>1, <1>2 DEF LinkedIn
  <2> QED
    BY <2>1, <2>2
<1>4. Linked'
  <2>1. ASSUME NEW k \in Lists
        PROVE  /\ EmptyAsserts(k)'
               /\ (head[k] # NULL => where[head[k]] = k /\ prev[head[k]] = NULL)'
               /\ (tail[k] # NULL => where[tail[k]] = k /\ next[tail[k]] = NULL)'
    BY <2>1, <1>1, <1>2 DEF Linked, EmptyAsserts
  <2> QED
    BY <2>1, <1>3 DEF Linked
<1>5. Alone'
  BY <1>2 DEF Alone
<1>6. Ranked'
  BY <1>2 DEF Ranked, Rising
<1>7. WalkInList'
  BY <1>2 DEF WalkInList
<1> QED
  BY <1>4, <1>5, <1>6, <1>7

-----------------------------------------------------------------------------
(* Every step keeps the types.                                             *)
LEMMA TypeInductive == TypeOK /\ Linked /\ WalkInList /\ [Next]_vars => TypeOK'
<1> SUFFICES ASSUME TypeOK, Linked, WalkInList, [Next]_vars PROVE TypeOK'
  OBVIOUS
<1> USE DEF TypeOK, Pointer
<1>1. ASSUME NEW l \in Lists, NEW n \in Nodes, where[n] = l, Unlink(l, n)
      PROVE  /\ head' \in [Lists -> Nodes \cup {NULL}]
             /\ tail' \in [Lists -> Nodes \cup {NULL}]
             /\ prev' \in [Nodes -> Pointer]
             /\ next' \in [Nodes -> Pointer]
             /\ where' \in [Nodes -> Lists \cup {"out", "raw"}]
  <2>1. prev[n] \in Nodes \cup {NULL} /\ next[n] \in Nodes \cup {NULL}
    BY <1>1 DEF Linked, LinkedIn
  <2>2. where' = [where EXCEPT ![n] = "out"]
    BY <1>1 DEF Unlink
  <2>3. /\ head' = head \/ head' = [head EXCEPT ![l] = next[n]]
        /\ tail' = tail \/ tail' = [tail EXCEPT ![l] = prev[n]]
    BY <1>1 DEF Unlink
  <2>4. /\ prev' = [prev EXCEPT ![next[n]] = prev[n], ![n] = n]
           \/ prev' = [prev EXCEPT ![n] = n]
        /\ next' = [next EXCEPT ![prev[n]] = next[n], ![n] = n]
           \/ next' = [next EXCEPT ![n] = n]
    BY <1>1 DEF Unlink
  <2> QED
    BY <2>1, <2>2, <2>3, <2>4
<1>2. CASE UNCHANGED vars
  BY <1>2 DEF vars, linkVars
<1>3. ASSUME NEW n \in Nodes, NodeInit(n) \/ NodeFini(n) PROVE TypeOK'
  BY <1>3 DEF NodeInit, NodeFini
<1>4. ASSUME NEW l \in Lists, NEW n \in Nodes, AppendNode(l, n) PROVE TypeOK'
  BY <1>4 DEF AppendNode, Link
<1>5. ASSUME NEW l \in Lists, NEW n \in Nodes, RemoveNode(l, n) PROVE TypeOK'
  BY <1>5, <1>1 DEF RemoveNode
<1>6. ASSUME NEW l \in Lists, NEW src \in Lists, Move(l, src) PROVE TypeOK'
  BY <1>6 DEF Move
<1>7. ASSUME NEW l \in Lists, IterInit(l) \/ IterDone(l) PROVE TypeOK'
  BY <1>7 DEF IterInit, IterDone, linkVars
<1>8. ASSUME NEW l \in Lists, IterNext(l) PROVE TypeOK'
  BY <1>8 DEF IterNext, linkVars, Linked, LinkedIn, WalkInList
<1>9. ASSUME NEW l \in Lists, RemoveMet(l) PROVE TypeOK'
  BY <1>9, <1>1 DEF RemoveMet, WalkInList
<1> QED
  BY <1>2, <1>3, <1>4, <1>5, <1>6, <1>7, <1>8, <1>9 DEF Next

(* The local invariant holds of the lists as list_init leaves them.        *)
LEMMA InvInit == Init => Inv
<1> SUFFICES ASSUME Init PROVE Inv
  OBVIOUS
<1>1. TypeOK /\ Linked /\ Alone /\ WalkInList
  BY ListAssumption
     DEF Init, TypeOK, Pointer, Linked, LinkedIn, EmptyAsserts, Alone, WalkInList
<1>2. Rising([n \in Nodes |-> 0])
  BY ListAssumption DEF Init, Rising
<1> QED
  BY <1>1, <1>2 DEF Inv, Ranked

(* Every operation keeps the local invariant.                              *)
LEMMA InvInductive == Inv /\ [Next]_vars => Inv'
<1> SUFFICES ASSUME Inv, [Next]_vars PROVE Linked' /\ Alone' /\ Ranked' /\ WalkInList'
  BY TypeInductive DEF Inv
<1> USE ListAssumption DEF Inv
<1>1. CASE UNCHANGED vars
  BY <1>1 DEF vars, linkVars, Linked, LinkedIn, EmptyAsserts, Alone, Ranked, Rising,
              WalkInList
<1>2. ASSUME NEW n \in Nodes, NodeInit(n) \/ NodeFini(n)
      PROVE  Linked' /\ Alone' /\ Ranked' /\ WalkInList'
  <2>1. /\ where[n] \notin Lists /\ where'[n] \notin Lists
        /\ \A m \in Nodes \ {n} :
             where'[m] = where[m] /\ prev'[m] = prev[m] /\ next'[m] = next[m]
        /\ where'[n] = "out" => prev'[n] = n /\ next'[n] = n
        /\ UNCHANGED <<head, tail, pos, met>>
    BY <1>2 DEF NodeInit, NodeFini, TypeOK
  <2>2. \A l \in Lists : \A m \in Nodes : where[m] = l => m # n /\ LinkedIn(l, m)
    BY <2>1 DEF Linked
  <2>3. ASSUME NEW l \in Lists, NEW m \in Nodes, where'[m] = l
        PROVE  LinkedIn(l, m)'
    <3>1. m # n /\ where[m] = l
      BY <2>1, <2>3
    <3>2. prev[m] # n /\ next[m] # n /\ LinkedIn(l, m)
      BY <3>1, <2>1, <2>2 DEF LinkedIn
    <3> QED
      BY <3>1, <3>2, <2>1 DEF LinkedIn
  <2>4. Linked'
    <3>1. ASSUME NEW l \in Lists
          PROVE  /\ EmptyAsserts(l)'
                 /\ (head[l] # NULL => where[head[l]] = l /\ prev[head[l]] = NULL)'
                 /\ (tail[l] # NULL => where[tail[l]] = l /\ next[tail[l]] = NULL)'
      BY <3>1, <2>1 DEF Linked, EmptyAsserts, TypeOK
    <3> QED
      BY <3>1, <2>3 DEF Linked
  <2>5. Alone'
    BY <2>1 DEF Alone
  <2>6. Ranked'
    BY <2>1 DEF Ranked, Rising
  <2>7. WalkInList'
    <3>1. \A l \in Lists :
            /\ pos[l] # NULL => pos[l] # n
            /\ met[l] # NULL => met[l] # n
      BY <2>1 DEF WalkInList
    <3> QED
      BY <3>1, <2>1 DEF WalkInList, TypeOK
  <2> QED
    BY <2>4, <2>5, <2>6, <2>7
<1>3. ASSUME NEW l \in Lists, NEW n \in Nodes, AppendNode(l, n)
      PROVE  Linked' /\ Alone' /\ Ranked' /\ WalkInList'
  <2>1. WalkInList'
    <3>1. ASSUME NEW k \in Lists
          PROVE  /\ pos[k] # NULL => where'[pos[k]] = k
                 /\ met[k] # NULL => where'[met[k]] = k /\ next'[met[k]] = pos[k]
      <4>1. where[n] = "out" /\ where' = [where EXCEPT ![n] = l]
            /\ pos[l] = NULL /\ met[l] = NULL
            /\ \A m \in Nodes \ {n} : m # tail[l] => next'[m] = next[m]
        BY <1>3 DEF AppendNode, Walked, Link, TypeOK
      <4>2. /\ pos[k] # NULL => where[pos[k]] = k
            /\ met[k] # NULL => where[met[k]] = k /\ next[met[k]] = pos[k]
        BY DEF WalkInList
      <4>3. tail[l] # NULL => where[tail[l]] = l
        BY DEF Linked
      <4> QED
        BY <4>1, <4>2, <4>3 DEF TypeOK
    <3>2. pos' = pos /\ met' = met
      BY <1>3 DEF AppendNode
    <3> QED
      BY <3>1, <3>2 DEF WalkInList
  <2> QED
    BY <1>3, <2>1, LinkPreserves
<1>4. ASSUME NEW l \in Lists, NEW n \in Nodes, where[n] = l, Unlink(l, n),
             \A k \in Lists \ {l} : pos'[k] = pos[k] /\ met'[k] = met[k],
             met'[l] = NULL, pos'[l] = pos[l], pos[l] # n
      PROVE  Linked' /\ Alone' /\ Ranked' /\ WalkInList'
  <2>1. WalkInList'
    <3>1. ASSUME NEW k \in Lists
          PROVE  /\ pos'[k] # NULL => where'[pos'[k]] = k
                 /\ met'[k] # NULL => where'[met'[k]] = k /\ next'[met'[k]] = pos'[k]
      <4>1. /\ where' = [where EXCEPT ![n] = "out"]
            /\ \A m \in Nodes \ {n} : m # prev[n] => next'[m] = next[m]
        BY <1>4 DEF Unlink, TypeOK
      <4>2. /\ pos[k] # NULL => where[pos[k]] = k
            /\ met[k] # NULL => where[met[k]] = k /\ next[met[k]] = pos[k]
        BY DEF WalkInList
      <4>3. prev[n] # NULL => where[prev[n]] = l
        BY <1>4 DEF Linked, LinkedIn
      <4>4. CASE k = l
        BY <4>4, <4>1, <4>2, <1>4 DEF TypeOK
      <4>5. CASE k # l
        <5>1. met[k] # NULL => met[k] # n /\ met[k] # prev[n]
          BY <4>5, <4>2, <4>3, <1>4
        <5>2. pos[k] # NULL => pos[k] # n
          BY <4>5, <4>2, <1>4
        <5> QED
          BY <4>5, <5>1, <5>2, <4>1, <4>2, <1>4 DEF TypeOK
      <4> QED
        BY <4>4, <4>5
    <3> QED
      BY <3>1 DEF WalkInList
  <2> QED
    BY <1>4, <2>1, UnlinkPreserves
<1>5. ASSUME NEW l \in Lists, NEW n \in Nodes, RemoveNode(l, n)
      PROVE  Linked' /\ Alone' /\ Ranked' /\ WalkInList'
  BY <1>5, <1>4 DEF RemoveNode, Walked, TypeOK
<1>6. ASSUME NEW l \in Lists, NEW src \in Lists, Move(l, src)
      PROVE  Linked' /\ Alone' /\ Ranked' /\ WalkInList'
  BY <1>6, MovePreserves
<1>7. ASSUME NEW l \in Lists, IterInit(l) \/ IterNext(l) \/ IterDone(l)
      PROVE  Linked' /\ Alone' /\ Ranked' /\ WalkInList'
  <2>1. UNCHANGED linkVars
    BY <1>7 DEF IterInit, IterNext, IterDone
  <2>2. Linked' /\ Alone' /\ Ranked'
    BY <2>1 DEF linkVars, Linked, LinkedIn, EmptyAsserts, Alone, Ranked, Rising
  <2>3. WalkInList'
    <3>1. head[l] # NULL => where[head[l]] = l
      BY DEF Linked
    <3>2. pos[l] # NULL /\ next[pos[l]] # NULL => where[next[pos[l]]] = l
      BY DEF Linked, LinkedIn, WalkInList, TypeOK
    <3> QED
      BY <1>7, <2>1, <3>1, <3>2
         DEF IterInit, IterNext, IterDone, linkVars, WalkInList, TypeOK, Walked
  <2> QED
    BY <2>2, <2>3
<1>8. ASSUME NEW l \in Lists, RemoveMet(l)
      PROVE  Linked' /\ Alone' /\ Ranked' /\ WalkInList'
  <2>1. met[l] \in Nodes /\ where[met[l]] = l /\ next[met[l]] = pos[l]
    BY <1>8 DEF RemoveMet, WalkInList, TypeOK
  <2>2. pos[l] # met[l]
    BY <2>1, NoLoop
  <2> QED
    BY <1>8, <1>4, <2>1, <2>2 DEF RemoveMet, TypeOK
<1> QED
  BY <1>1, <1>2, <1>3, <1>5, <1>6, <1>7, <1>8 DEF Next

-----------------------------------------------------------------------------
(* The local invariant is what the assertions of list.c need.              *)
LEMMA InvImplies == Inv => AssertionsHold /\ EmptyIsEmpty
<1> SUFFICES ASSUME Inv PROVE AssertionsHold /\ EmptyIsEmpty
  OBVIOUS
<1> USE ListAssumption DEF Inv
<1>1. ASSUME NEW l \in Lists, NEW n \in Nodes, where[n] = "out"
      PROVE  AppendAsserts(l, n)
  <2>1. ~IsInserted(n)
    BY <1>1 DEF Alone, IsInserted
  <2>2. ASSUME tail[l] # NULL
        PROVE  /\ next[tail[l]] = NULL
               /\ prev[tail[l]] # NULL => next[prev[tail[l]]] = tail[l]
    BY <2>2 DEF Linked, LinkedIn, TypeOK
  <2>3. tail[l] = NULL => head[l] = NULL
    BY DEF Linked, EmptyAsserts
  <2> QED
    BY <2>1, <2>2, <2>3 DEF AppendAsserts
<1>2. ASSUME NEW l \in Lists, NEW n \in Nodes, where[n] = l
      PROVE  RemoveAsserts(l, n) /\ NextAsserts(l, n)
  <2>1. LinkedIn(l, n) /\ next[n] # n
    BY <1>2, NoLoop DEF Linked
  <2> QED
    BY <2>1 DEF LinkedIn, RemoveAsserts, NextAsserts, IsInserted
<1>3. AssertionsHold
  BY <1>1, <1>2 DEF AssertionsHold, Linked, WalkInList, TypeOK
<1>4. EmptyIsEmpty
  BY HeadlessIsEmpty DEF EmptyIsEmpty
<1> QED
  BY <1>3, <1>4

(* The links of the lists stay what list.c takes them to be: TypeOK holds  *)
(* of every state the operations of list.c can reach.                      *)
THEOREM TypeCorrect == Spec => []TypeOK
<1> QED
  BY InvInit, InvInductive, PTL DEF Spec, Inv

(* No assertion of list.c can fail, for any number of lists and nodes, if  *)
(* the callers append only nodes that are out and remove a node only from  *)
(* the list it is in.                                                      *)
THEOREM AssertionSafety == Spec => []AssertionsHold
<1> QED
  BY InvInit, InvInductive, InvImplies, PTL DEF Spec

(* list_is_empty tells the truth, so list_move strands no node.            *)
THEOREM EmptyCorrect == Spec => []EmptyIsEmpty
<1> QED
  BY InvInit, InvInductive, InvImplies, PTL DEF Spec

-----------------------------------------------------------------------------
(* Links read as sequences.                                                *)

(* Induction over a set of numbers.                                        *)
LEMMA SetInduction ==
  ASSUME NEW P, 0 \in P, \A n \in Nat : n \in P => n + 1 \in P
  PROVE  Nat \subseteq P
<1> DEFINE Rest == Nat \ P
<1>1. SUFFICES ASSUME Rest # {} PROVE FALSE
  OBVIOUS
<1>2. Rest \subseteq Nat
  OBVIOUS
<1>3. PICK m \in Rest : \A n \in Rest : <<n, m>> \notin OpToRel(<, Nat)
  <2> HIDE DEF Rest
  <2> QED BY <1>1, <1>2, NatLessThanWellFounded, WFMin, Zenon
<1>4. m \in Nat /\ m # 0 /\ m - 1 \in Nat /\ m - 1 < m /\ (m - 1) + 1 = m
  BY SMT
<1>5. <<m - 1, m>> \in OpToRel(<, Nat)
  BY <1>4 DEF OpToRel
<1>6. m - 1 \in P
  BY <1>3, <1>4, <1>5
<1> QED
  BY <1>4, <1>6

(* A function of the naturals defined by iterating a step exists.          *)
LEMMA IterationExists ==
  ASSUME NEW S, NEW base \in S, NEW step \in [S -> S]
  PROVE  \E f \in [Nat -> S] :
           f[0] = base /\ \A n \in Nat : f[n + 1] = step[f[n]]
<1> DEFINE Starts(g, n) ==
      g[0] = base /\ \A k \in 0..n : k # n => g[k + 1] = step[g[k]]
<1> DEFINE Reached == {n \in Nat : \E g \in [0..n -> S] : Starts(g, n)}
<1>1. 0 \in Reached
  <2>1. [k \in 0..0 |-> base] \in [0..0 -> S] /\ Starts([k \in 0..0 |-> base], 0)
    BY SMT
  <2> QED
    BY <2>1
<1>2. ASSUME NEW n \in Nat, n \in Reached PROVE n + 1 \in Reached
  <2>1. PICK g \in [0..n -> S] : Starts(g, n)
    BY <1>2
  <2> DEFINE h == [k \in 0..n + 1 |-> IF k = n + 1 THEN step[g[n]] ELSE g[k]]
  <2>2. h \in [0..n + 1 -> S]
    BY SMT
  <2>3. h[0] = base
    BY <2>1, SMT
  <2>4. ASSUME NEW k \in 0..n + 1, k # n + 1 PROVE h[k + 1] = step[h[k]]
    <3>1. k \in 0..n /\ k + 1 \in 0..n + 1 /\ k # n + 1 /\ (k # n => k + 1 # n + 1)
      BY <2>4, SMT
    <3>2. h[k] = g[k] /\ h[k + 1] = IF k = n THEN step[g[n]] ELSE g[k + 1]
      BY <3>1, SMT
    <3> QED
      BY <3>1, <3>2, <2>1
  <2> HIDE DEF h
  <2> QED
    BY <2>2, <2>3, <2>4, SMT
<1> HIDE DEF Reached
<1>3. Nat \subseteq Reached
  BY <1>1, <1>2, SetInduction
<1> DEFINE upto == [n \in Nat |-> CHOOSE g \in [0..n -> S] : Starts(g, n)]
<1>4. ASSUME NEW n \in Nat PROVE upto[n] \in [0..n -> S] /\ Starts(upto[n], n)
  BY <1>3 DEF Reached
<1>5. ASSUME NEW n \in Nat, NEW m \in Nat, n <= m
      PROVE  \A k \in 0..n : upto[m][k] = upto[n][k]
  <2> DEFINE Same == {k \in Nat : k <= n => upto[m][k] = upto[n][k]}
  <2> HIDE DEF upto
  <2>1. 0 \in Same
    BY <1>4
  <2>2. ASSUME NEW k \in Nat, k \in Same PROVE k + 1 \in Same
    <3> SUFFICES ASSUME k + 1 <= n PROVE upto[m][k + 1] = upto[n][k + 1]
      OBVIOUS
    <3>1. k <= n /\ k \in 0..n /\ k # n /\ k \in 0..m /\ k # m
      BY <1>5, SMT
    <3>2. upto[m][k] = upto[n][k]
      BY <2>2, <3>1
    <3> QED
      BY <1>4, <3>1, <3>2
  <2> HIDE DEF Same
  <2>3. Nat \subseteq Same
    BY <2>1, <2>2, SetInduction
  <2> QED
    BY <2>3, SMT DEF Same
<1> DEFINE f == [n \in Nat |-> upto[n][n]]
<1> HIDE DEF upto, Reached
<1>6. f \in [Nat -> S]
  BY <1>4
<1>7. f[0] = base
  BY <1>4
<1>8. ASSUME NEW n \in Nat PROVE f[n + 1] = step[f[n]]
  <2>1. n + 1 \in Nat /\ n <= n + 1 /\ n \in 0..n /\ n \in 0..n + 1 /\ n # n + 1
    BY SMT
  <2>2. upto[n + 1][n] = upto[n][n]
    BY <2>1, <1>5
  <2>3. upto[n + 1][n + 1] = step[upto[n + 1][n]]
    BY <2>1, <1>4
  <2> QED
    BY <2>1, <2>2, <2>3
<1> HIDE DEF f
<1> QED
  BY <1>6, <1>7, <1>8

-----------------------------------------------------------------------------
(* s is the sequence of distinct nodes that nx links from p to an end.     *)
Spelled(nx, s, p) ==
  /\ s \in Seq(Nodes)
  /\ \A j, k \in 1..Len(s) : s[j] = s[k] => j = k
  /\ s = <<>> => p = NULL
  /\ s # <<>> => s[1] = p /\ nx[s[Len(s)]] = NULL
  /\ \A k \in 1..Len(s) - 1 : nx[s[k]] = s[k + 1]

(* Distinct nodes are no more than there are.                              *)
LEMMA SpelledIsShort ==
  ASSUME NEW nx, NEW s, NEW p, Spelled(nx, s, p)
  PROVE  /\ Cardinality(Nodes) \in Nat
         /\ Len(s) <= Cardinality(Nodes)
<1>1. s \in Seq(Nodes) /\ Len(s) \in Nat /\ s \in [1..Len(s) -> Nodes]
  BY DEF Spelled
<1>2. s \in Injection(1..Len(s), Nodes)
  BY <1>1 DEF Spelled, Injection, IsInjective
<1>3. Cardinality(1..Len(s)) <= Cardinality(Nodes)
  BY <1>2, ListAssumption, FS_Injection
<1>4. Cardinality(1..Len(s)) = Len(s)
  BY <1>1, FS_Interval, SMT
<1> QED BY <1>3, <1>4, ListAssumption, FS_CardinalityType

(* The recursive function Follow satisfies the equation that defines it.   *)
LEMMA FollowUnfolds ==
  ASSUME NEW nx \in [Nodes -> Pointer]
  PROVE  \A y \in Pointer :
           /\ Follow(nx)[0][y] = <<>>
           /\ \A n \in Nat : Follow(nx)[n + 1][y] =
                IF y \notin Nodes THEN <<>>
                ELSE <<y>> \o Follow(nx)[n][nx[y]]
<1> DEFINE S == [Pointer -> Seq(Nodes)]
           base == [y \in Pointer |-> <<>>]
           Turn(w) == [y \in Pointer |->
                         IF y \notin Nodes THEN <<>> ELSE <<y>> \o w[nx[y]]]
           step == [w \in S |-> Turn(w)]
           Body(w, n) == [y \in Pointer |->
                            IF n = 0 \/ y \notin Nodes THEN <<>>
                            ELSE <<y>> \o w[n - 1][nx[y]]]
<1>1. base \in S
  OBVIOUS
<1>2. step \in [S -> S]
  <2> SUFFICES ASSUME NEW w \in S, NEW y \in Pointer
               PROVE Turn(w)[y] \in Seq(Nodes)
    OBVIOUS
  <2>1. CASE y \notin Nodes
    BY <2>1
  <2>2. CASE y \in Nodes
    <3>1. nx[y] \in Pointer /\ w[nx[y]] \in Seq(Nodes)
      BY <2>2
    <3>2. <<y>> \in Seq(Nodes)
      BY <2>2
    <3>3. <<y>> \o w[nx[y]] \in Seq(Nodes)
      BY <3>1, <3>2, ConcatProperties
    <3> QED BY <2>2, <3>3
  <2> QED BY <2>1, <2>2
<1> HIDE DEF S, base, step
<1>3. PICK f \in [Nat -> S] : f[0] = base /\ \A n \in Nat : f[n + 1] = step[f[n]]
  BY <1>1, <1>2, IterationExists, SMTT(60)
<1>4. f = [n \in Nat |-> Body(f, n)]
  <2>1. ASSUME NEW n \in Nat PROVE f[n] = Body(f, n)
    <3>1. CASE n = 0
      BY <3>1, <1>3 DEF base
    <3>2. CASE n # 0
      <4>1. n - 1 \in Nat /\ (n - 1) + 1 = n
        BY <3>2, SMT
      <4>2. f[n] = step[f[n - 1]] /\ f[n - 1] \in S
        BY <4>1, <1>3
      <4>3. f[n] = Turn(f[n - 1])
        BY <4>2 DEF step
      <4> QED BY <4>3, <3>2
    <3> QED BY <3>1, <3>2
  <2> HIDE DEF Body
  <2>2. f = [n \in Nat |-> f[n]]
    BY <1>3
  <2> QED BY <2>1, <2>2
<1>5. Follow(nx) = [n \in Nat |-> Body(Follow(nx), n)]
  BY <1>4 DEF Follow
<1>6. \A n \in Nat : Follow(nx)[n] = Body(Follow(nx), n)
  <2> HIDE DEF Body
  <2> QED BY <1>5
<1>7. Follow(nx)[0] = [y \in Pointer |-> <<>>]
  BY <1>6
<1>8. ASSUME NEW n \in Nat
      PROVE  Follow(nx)[n + 1] = Turn(Follow(nx)[n])
  <2>1. n + 1 \in Nat /\ n + 1 # 0 /\ (n + 1) - 1 = n
    OBVIOUS
  <2> QED BY <2>1, <1>6
<1> QED BY <1>7, <1>8

(* A sequence of nodes that is linked is what Follow reads.                *)
LEMMA FollowReads ==
  ASSUME NEW nx \in [Nodes -> Pointer], NEW s, NEW p, Spelled(nx, s, p)
  PROVE  Follow(nx)[Cardinality(Nodes)][p] = s
<1> DEFINE len == Len(s)
           From(k) == SubSeq(s, k, len)
           Reads == {n \in Nat : \A k \in 1..len :
                       len - k < n => Follow(nx)[n][s[k]] = From(k)}
<1>1. /\ s \in Seq(Nodes) /\ DOMAIN s = 1..len
      /\ \A k \in 1..len : s[k] \in Nodes
      /\ \A k \in 1..len - 1 : nx[s[k]] = s[k + 1]
      /\ s # <<>> => s[1] = p /\ nx[s[len]] = NULL
      /\ s = <<>> => p = NULL
  BY DEF Spelled
<1>2. len \in Nat /\ (s # <<>> <=> len # 0)
  BY <1>1, EmptySeq, LenProperties
<1>3. ASSUME NEW k \in 1..len PROVE From(k) = <<s[k]>> \o From(k + 1)
  <2>1. len \in k..len
    BY <1>2
  <2> QED BY <1>1, <2>1, SubSeqRecursiveFirst
<1>4. From(len + 1) = <<>>
  BY <1>2, SubSeqEmpty
<1>5. From(1) = s
  BY <1>1, SubSeqFull
<1> HIDE DEF From, len
<1>6. 0 \in Reads
  <2>1. \A k \in 1..len : ~(len - k < 0)
    BY <1>2
  <2> QED BY <2>1
<1>7. ASSUME NEW n \in Nat
      PROVE  /\ NULL \in Pointer /\ NULL \notin Nodes
             /\ \A v \in Nodes : Follow(nx)[n + 1][v] = <<v>> \o Follow(nx)[n][nx[v]]
             /\ Follow(nx)[n][NULL] = <<>>
  <2>1. NULL \in Pointer /\ NULL \notin Nodes /\ Nodes \subseteq Pointer
    BY ListAssumption DEF Pointer
  <2>2. \A v \in Pointer :
           /\ Follow(nx)[0][v] = <<>>
           /\ \A m \in Nat : Follow(nx)[m + 1][v] =
                IF v \notin Nodes THEN <<>>
                ELSE <<v>> \o Follow(nx)[m][nx[v]]
    BY FollowUnfolds, Zenon
  <2>3. CASE n = 0
    BY <2>1, <2>2, <2>3
  <2>4. CASE n # 0
    <3>1. PICK m \in Nat : n = m + 1
      <4>1. n - 1 \in Nat /\ n = (n - 1) + 1
        BY <2>4
      <4> QED BY <4>1
    <3> QED BY <3>1, <2>1, <2>2
  <2> QED BY <2>3, <2>4
<1>8. ASSUME NEW n \in Nat, n \in Reads PROVE n + 1 \in Reads
  <2> SUFFICES ASSUME NEW k \in 1..len, len - k < n + 1
               PROVE  Follow(nx)[n + 1][s[k]] = From(k)
    OBVIOUS
  <2>1. Follow(nx)[n + 1][s[k]] = <<s[k]>> \o Follow(nx)[n][nx[s[k]]]
    BY <1>1, <1>7
  <2>2. CASE k = len
    <3>1. nx[s[k]] = NULL
      BY <2>2, <1>1, <1>2
    <3> QED BY <3>1, <1>3, <1>4, <1>7, <2>1, <2>2
  <2>3. CASE k # len
    <3>1. k \in 1..len - 1 /\ k + 1 \in 1..len /\ len - (k + 1) < n
      BY <1>2, <2>3
    <3>2. nx[s[k]] = s[k + 1]
      BY <1>1, <3>1
    <3>3. Follow(nx)[n][s[k + 1]] = From(k + 1)
      BY <1>8, <3>1
    <3> QED BY <1>3, <2>1, <3>2, <3>3
  <2> QED BY <2>2, <2>3
<1> HIDE DEF Reads
<1>9. Nat \subseteq Reads
  BY <1>6, <1>8, SetInduction
<1>10. Cardinality(Nodes) \in Nat /\ len <= Cardinality(Nodes)
  BY SpelledIsShort DEF len
<1>11. CASE s = <<>>
  BY <1>1, <1>7, <1>10, <1>11
<1>12. CASE s # <<>>
  <2>1. 1 \in 1..len /\ len - 1 < Cardinality(Nodes)
    BY <1>2, <1>10, <1>12
  <2>2. Follow(nx)[Cardinality(Nodes)][s[1]] = From(1)
    BY <2>1, <1>9, <1>10 DEF Reads
  <2> QED BY <2>2, <1>1, <1>5, <1>12
<1> QED BY <1>11, <1>12

(* A sequence stays linked while no link of its nodes changes.             *)
LEMMA SpelledFrame ==
  ASSUME NEW nx, NEW mx, NEW s, NEW p, Spelled(nx, s, p),
         \A k \in 1..Len(s) : mx[s[k]] = nx[s[k]]
  PROVE  Spelled(mx, s, p)
<1>1. s # <<>> => Len(s) \in 1..Len(s)
  BY DEF Spelled
<1>2. \A k \in 1..Len(s) - 1 : k \in 1..Len(s)
  BY DEF Spelled
<1> QED BY <1>1, <1>2 DEF Spelled

(* What is linked from the middle of a sequence is the rest of it.         *)
LEMMA SpelledSuffix ==
  ASSUME NEW nx, NEW s, NEW p, Spelled(nx, s, p), NEW k \in 1..Len(s)
  PROVE  /\ SubSeq(s, k, Len(s)) \in Seq(Nodes)
         /\ Len(SubSeq(s, k, Len(s))) = Len(s) - k + 1
         /\ \A i \in 1..Len(s) - k + 1 : SubSeq(s, k, Len(s))[i] = s[k + i - 1]
         /\ Spelled(nx, SubSeq(s, k, Len(s)), s[k])
<1> DEFINE u == SubSeq(s, k, Len(s))
<1>1. /\ s \in Seq(Nodes) /\ Len(s) \in Nat
      /\ \A i, j \in 1..Len(s) : s[i] = s[j] => i = j
      /\ \A i \in 1..Len(s) - 1 : nx[s[i]] = s[i + 1]
      /\ nx[s[Len(s)]] = NULL
  BY DEF Spelled
<1>2. /\ u \in Seq(Nodes) /\ Len(u) = Len(s) - k + 1
      /\ \A i \in 1..Len(s) - k + 1 : u[i] = s[k + i - 1]
  <2>1. k \in Int /\ Len(s) \in Int /\ k <= Len(s) /\ \A i \in k..Len(s) : s[i] \in Nodes
    BY <1>1
  <2> QED BY <2>1, SubSeqProperties
<1> HIDE DEF u
<1>3. u # <<>> /\ u[1] = s[k] /\ u[Len(u)] = s[Len(s)]
  <2>1. /\ 1 \in 1..Len(s) - k + 1 /\ k + 1 - 1 = k /\ Len(u) # 0
        /\ Len(u) \in 1..Len(s) - k + 1 /\ k + Len(u) - 1 = Len(s)
    BY <1>1, <1>2
  <2> QED BY <1>2, <2>1
<1>4. ASSUME NEW i \in 1..Len(u), NEW j \in 1..Len(u), u[i] = u[j] PROVE i = j
  <2>1. /\ i \in 1..Len(s) - k + 1 /\ j \in 1..Len(s) - k + 1
        /\ k + i - 1 \in 1..Len(s) /\ k + j - 1 \in 1..Len(s)
    BY <1>1, <1>2
  <2>2. k + i - 1 = k + j - 1
    BY <1>1, <1>2, <1>4, <2>1
  <2> QED BY <2>1, <2>2
<1>5. ASSUME NEW i \in 1..Len(u) - 1 PROVE nx[u[i]] = u[i + 1]
  <2>1. /\ i \in 1..Len(s) - k + 1 /\ i + 1 \in 1..Len(s) - k + 1
        /\ k + i - 1 \in 1..Len(s) - 1 /\ (k + i - 1) + 1 = k + (i + 1) - 1
    BY <1>1, <1>2
  <2> QED BY <1>1, <1>2, <2>1
<1>6. Spelled(nx, u, s[k])
  BY <1>1, <1>2, <1>3, <1>4, <1>5 DEF Spelled
<1> QED BY <1>2, <1>6 DEF u

(* list_append appends.                                                    *)
LEMMA SpelledAppend ==
  ASSUME NEW nx, NEW mx, NEW s, NEW p, Spelled(nx, s, p),
         NEW n \in Nodes, \A k \in 1..Len(s) : s[k] # n,
         mx[n] = NULL, s # <<>> => mx[s[Len(s)]] = n,
         \A k \in 1..Len(s) : k # Len(s) => mx[s[k]] = nx[s[k]]
  PROVE  /\ Spelled(mx, Append(s, n), IF s = <<>> THEN n ELSE p)
         /\ Len(Append(s, n)) = Len(s) + 1
         /\ \A k \in 1..Len(s) + 1 : Append(s, n)[k] = IF k <= Len(s) THEN s[k] ELSE n
<1> DEFINE u == Append(s, n)
<1>1. /\ s \in Seq(Nodes) /\ Len(s) \in Nat
      /\ \A i, j \in 1..Len(s) : s[i] = s[j] => i = j
      /\ \A i \in 1..Len(s) - 1 : nx[s[i]] = s[i + 1]
      /\ s # <<>> => s[1] = p
      /\ s # <<>> <=> Len(s) # 0
  BY EmptySeq DEF Spelled
<1>2. /\ u \in Seq(Nodes) /\ Len(u) = Len(s) + 1
      /\ \A k \in 1..Len(s) + 1 : u[k] = IF k <= Len(s) THEN s[k] ELSE n
  BY <1>1, AppendProperties
<1> HIDE DEF u
<1>3. u # <<>> /\ u[1] = (IF s = <<>> THEN n ELSE p) /\ mx[u[Len(u)]] = NULL
  <2>1. 1 \in 1..Len(s) + 1 /\ Len(u) \in 1..Len(s) + 1 /\ ~(Len(u) <= Len(s)) /\ Len(u) # 0
    BY <1>1, <1>2
  <2>2. u[Len(u)] = n /\ u # <<>>
    BY <1>2, <2>1
  <2>3. u[1] = IF 1 <= Len(s) THEN s[1] ELSE n
    BY <1>2, <2>1
  <2> QED BY <1>1, <2>2, <2>3
<1>4. ASSUME NEW i \in 1..Len(u), NEW j \in 1..Len(u), u[i] = u[j] PROVE i = j
  <2>1. i \in 1..Len(s) + 1 /\ j \in 1..Len(s) + 1
    BY <1>2
  <2>2. /\ u[i] = IF i <= Len(s) THEN s[i] ELSE n
        /\ u[j] = IF j <= Len(s) THEN s[j] ELSE n
    BY <1>2, <2>1
  <2>3. CASE i <= Len(s) /\ j <= Len(s)
    <3>1. i \in 1..Len(s) /\ j \in 1..Len(s)
      BY <2>1, <2>3
    <3> QED BY <1>1, <1>4, <2>2, <2>3, <3>1
  <2>4. CASE i <= Len(s) /\ ~(j <= Len(s))
    <3>1. i \in 1..Len(s)
      BY <2>1, <2>4
    <3> QED BY <1>4, <2>2, <2>4, <3>1
  <2>5. CASE ~(i <= Len(s)) /\ j <= Len(s)
    <3>1. j \in 1..Len(s)
      BY <2>1, <2>5
    <3> QED BY <1>4, <2>2, <2>5, <3>1
  <2>6. CASE ~(i <= Len(s)) /\ ~(j <= Len(s))
    BY <1>1, <2>1, <2>6
  <2> QED BY <2>3, <2>4, <2>5, <2>6
<1>5. ASSUME NEW i \in 1..Len(u) - 1 PROVE mx[u[i]] = u[i + 1]
  <2>1. i \in 1..Len(s) /\ i \in 1..Len(s) + 1 /\ i + 1 \in 1..Len(s) + 1 /\ i <= Len(s)
    BY <1>1, <1>2
  <2>2. u[i] = s[i] /\ u[i + 1] = IF i + 1 <= Len(s) THEN s[i + 1] ELSE n
    BY <1>2, <2>1
  <2>3. CASE i = Len(s)
    <3>1. s # <<>> /\ ~(i + 1 <= Len(s))
      BY <1>1, <2>1, <2>3
    <3> QED BY <2>2, <2>3, <3>1
  <2>4. CASE i # Len(s)
    <3>1. i \in 1..Len(s) - 1 /\ i + 1 <= Len(s)
      BY <1>1, <2>1, <2>4
    <3> QED BY <1>1, <2>1, <2>2, <2>4, <3>1
  <2> QED BY <2>3, <2>4
<1>6. Spelled(mx, u, IF s = <<>> THEN n ELSE p)
  BY <1>2, <1>3, <1>4, <1>5 DEF Spelled
<1> QED BY <1>2, <1>6 DEF u

(* The sequence without its d-th node.                                     *)
Without(s, d) == SubSeq(s, 1, d - 1) \o SubSeq(s, d + 1, Len(s))

(* Without(s, k) is RemoveAt, read position by position.                   *)
LEMMA WithoutIs ==
  ASSUME NEW s \in Seq(Nodes), NEW d \in 1..Len(s)
  PROVE  /\ Without(s, d) \in Seq(Nodes)
         /\ Len(Without(s, d)) = Len(s) - 1
         /\ \A j \in 1..Len(s) - 1 : Without(s, d)[j] = IF j < d THEN s[j] ELSE s[j + 1]
<1> DEFINE a == SubSeq(s, 1, d - 1)
           b == SubSeq(s, d + 1, Len(s))
<1>1. /\ a \in Seq(Nodes) /\ Len(a) = d - 1
      /\ \A k \in 1..d - 1 : a[k] = s[k]
  <2>1. d - 1 \in 0..Len(s) /\ 1 \in 1..Len(s) + 1
    OBVIOUS
  <2> QED BY <2>1, SubSeqProperties
<1>2. /\ b \in Seq(Nodes) /\ Len(b) = Len(s) - d
      /\ \A k \in 1..Len(s) - d : b[k] = s[d + k]
  <2>1. d + 1 \in 1..Len(s) + 1 /\ Len(s) \in d..Len(s)
    OBVIOUS
  <2> QED BY <2>1, SubSeqProperties
<1>3. Without(s, d) = a \o b
  BY DEF Without
<1> HIDE DEF a, b
<1>4. /\ a \o b \in Seq(Nodes) /\ Len(a \o b) = Len(a) + Len(b)
      /\ \A k \in 1..Len(a) + Len(b) :
           (a \o b)[k] = IF k <= Len(a) THEN a[k] ELSE b[k - Len(a)]
  BY <1>1, <1>2, ConcatProperties
<1>5. ASSUME NEW j \in 1..Len(s) - 1
      PROVE  (a \o b)[j] = IF j < d THEN s[j] ELSE s[j + 1]
  <2>1. j \in 1..Len(a) + Len(b)
    BY <1>1, <1>2
  <2>2. CASE j < d
    <3>1. j \in 1..d - 1 /\ j <= Len(a)
      BY <1>1, <2>2
    <3> QED BY <2>1, <2>2, <3>1, <1>1, <1>4
  <2>3. CASE ~(j < d)
    <3>1. j - (d - 1) \in 1..Len(s) - d /\ d + (j - (d - 1)) = j + 1 /\ ~(j <= Len(a))
      BY <1>1, <2>3
    <3>2. (a \o b)[j] = b[j - (d - 1)]
      BY <2>1, <3>1, <1>1, <1>4
    <3> QED BY <2>3, <3>1, <3>2, <1>2
  <2> QED BY <2>2, <2>3
<1>6. Len(a) + Len(b) = Len(s) - 1
  BY <1>1, <1>2
<1> QED BY <1>3, <1>4, <1>5, <1>6

(* list_remove takes out one node and leaves the others in order.          *)
LEMMA SpelledRemove ==
  ASSUME NEW nx, NEW mx, NEW s, NEW p, Spelled(nx, s, p), NEW d \in 1..Len(s),
         d # 1 => mx[s[d - 1]] = nx[s[d]],
         \A k \in 1..Len(s) : k # d /\ k + 1 # d => mx[s[k]] = nx[s[k]]
  PROVE  Spelled(mx, Without(s, d), IF d = 1 THEN nx[s[1]] ELSE p)
<1> DEFINE u == Without(s, d)
           At(j) == IF j < d THEN j ELSE j + 1
<1>1. /\ s \in Seq(Nodes) /\ Len(s) \in Nat
      /\ \A i, j \in 1..Len(s) : s[i] = s[j] => i = j
      /\ \A i \in 1..Len(s) - 1 : nx[s[i]] = s[i + 1]
      /\ s[1] = p /\ nx[s[Len(s)]] = NULL
  BY DEF Spelled
<1>2. /\ u \in Seq(Nodes) /\ Len(u) = Len(s) - 1 /\ Len(u) \in Nat
      /\ \A j \in 1..Len(u) : u[j] = s[At(j)] /\ At(j) \in 1..Len(s) /\ At(j) # d
  <2>1. /\ u \in Seq(Nodes) /\ Len(u) = Len(s) - 1
        /\ \A j \in 1..Len(s) - 1 : u[j] = IF j < d THEN s[j] ELSE s[j + 1]
    BY <1>1, WithoutIs
  <2> HIDE DEF u
  <2>2. \A j \in 1..Len(u) : At(j) \in 1..Len(s) /\ At(j) # d
    BY <1>1, <2>1
  <2> QED BY <1>1, <2>1, <2>2
<1> HIDE DEF u
<1>3. \A i, j \in 1..Len(u) : u[i] = u[j] => i = j
  <2> SUFFICES ASSUME NEW i \in 1..Len(u), NEW j \in 1..Len(u), u[i] = u[j]
               PROVE  i = j
    OBVIOUS
  <2>1. At(i) = At(j)
    <3> HIDE DEF At
    <3> QED BY <1>1, <1>2
  <2> QED BY <1>1, <2>1
<1>4. u # <<>> <=> Len(u) # 0
  BY <1>2, EmptySeq
<1>5. CASE u = <<>>
  <2>1. Len(u) = 0
    BY <1>4, <1>5
  <2>2. Len(s) = Len(u) + 1
    <3> HIDE DEF At
    <3> QED BY <1>1, <1>2
  <2>3. d = 1 /\ Len(s) = 1
    BY <2>1, <2>2
  <2>4. nx[s[1]] = NULL
    BY <1>1, <2>3
  <2>5. 1..Len(u) = {} /\ 1..Len(u) - 1 = {}
    BY <2>1
  <2> HIDE DEF At
  <2>6. u \in Seq(Nodes)
    BY <1>2
  <2>7. (IF d = 1 THEN nx[s[1]] ELSE p) = NULL
    BY <2>3, <2>4
  <2>8. Spelled(mx, u, NULL)
    BY <1>5, <2>5, <2>6, Zenon DEF Spelled
  <2> QED BY <2>7, <2>8, Zenon DEF u
<1>6. CASE u # <<>>
  <2>1. u[1] = IF d = 1 THEN nx[s[1]] ELSE p
    <3>1. 1 \in 1..Len(u) /\ 1 \in 1..Len(s) - 1
      BY <1>2, <1>4, <1>6
    <3>2. u[1] = s[At(1)]
      BY <1>2, <3>1
    <3>3. CASE d = 1
      BY <1>1, <3>1, <3>2, <3>3
    <3>4. CASE d # 1
      BY <1>1, <3>2, <3>4
    <3> QED BY <3>3, <3>4
  <2>2. mx[u[Len(u)]] = NULL
    <3>1. Len(u) \in 1..Len(u)
      BY <1>2, <1>4, <1>6
    <3>2. CASE d = Len(s)
      <4>1. At(Len(u)) = d - 1 /\ d # 1
        BY <1>1, <1>2, <3>1, <3>2
      <4> QED BY <1>1, <1>2, <3>1, <3>2, <4>1
    <3>3. CASE d # Len(s)
      <4>1. At(Len(u)) = Len(s) /\ Len(s) # d /\ Len(s) + 1 # d /\ Len(s) \in 1..Len(s)
        BY <1>1, <1>2, <3>1, <3>3
      <4> QED BY <1>1, <1>2, <3>1, <4>1
    <3> QED BY <3>2, <3>3
  <2>3. ASSUME NEW j \in 1..Len(u) - 1 PROVE mx[u[j]] = u[j + 1]
    <3>1. j \in 1..Len(u) /\ j + 1 \in 1..Len(u)
      BY <1>2
    <3>2. CASE j + 1 = d
      <4>1. At(j) = d - 1 /\ At(j + 1) = d + 1 /\ d # 1 /\ d \in 1..Len(s) - 1
        BY <1>1, <1>2, <3>1, <3>2
      <4> QED BY <1>1, <1>2, <3>1, <4>1
    <3>3. CASE j + 1 # d
      <4>1. /\ At(j) \in 1..Len(s) - 1 /\ At(j + 1) = At(j) + 1
            /\ At(j) # d /\ At(j) + 1 # d /\ At(j) \in 1..Len(s)
        BY <1>1, <1>2, <3>1, <3>3
      <4> HIDE DEF At
      <4> QED BY <1>1, <1>2, <3>1, <4>1
    <3> QED BY <3>2, <3>3
  <2> HIDE DEF At
  <2>4. u \in Seq(Nodes)
    BY <1>2
  <2>5. \A j \in 1..Len(u) - 1 : mx[u[j]] = u[j + 1]
    BY <2>3
  <2> DEFINE q == IF d = 1 THEN nx[s[1]] ELSE p
  <2>6. u[1] = q
    BY <2>1
  <2> HIDE DEF q
  <2>7. Spelled(mx, u, q)
    BY <1>3, <1>6, <2>2, <2>4, <2>5, <2>6 DEF Spelled
  <2>8. Spelled(mx, u, IF d = 1 THEN nx[s[1]] ELSE p)
    BY <2>7, Zenon DEF q
  <2> QED BY <2>8, Zenon DEF u
<1> QED BY <1>5, <1>6, Zenon

-----------------------------------------------------------------------------
(* The nodes of list l in order, and those its walk has still to meet.     *)
Row(l) == Chain(head[l])
Left(l) == Chain(pos[l])

(* s is list l, its nodes being those that wh says are in it.              *)
Holds(nx, hd, wh, l, s) ==
  /\ Spelled(nx, s, hd[l])
  /\ \A n \in Nodes : wh[n] = l <=> \E k \in 1..Len(s) : s[k] = n

(* What is read from the head of a list is all of the list.                *)
Ordered == \A l \in Lists : Holds(next, head, where, l, Row(l))

(* The local invariant, and what reading a list yields.                    *)
IInv == Inv /\ Ordered

(* A sequence of nodes is a list's if its nodes are and it is linked.      *)
LEMMA RowReads ==
  ASSUME NEW nx \in [Nodes -> Pointer], NEW s, NEW p, Spelled(nx, s, p)
  PROVE  /\ Follow(nx)[Cardinality(Nodes)][p] = s
         /\ s \in Seq(Nodes) /\ Len(s) \in Nat
         /\ \A k \in 1..Len(s) : s[k] \in Nodes
         /\ \A j, k \in 1..Len(s) : s[j] = s[k] => j = k
         /\ s # <<>> <=> Len(s) # 0
<1>1. Follow(nx)[Cardinality(Nodes)][p] = s
  BY FollowReads
<1>2. s \in Seq(Nodes) /\ \A j, k \in 1..Len(s) : s[j] = s[k] => j = k
  BY DEF Spelled
<1>3. Len(s) \in Nat /\ \A k \in 1..Len(s) : s[k] \in Nodes
  BY <1>2
<1>4. s # <<>> <=> Len(s) # 0
  BY <1>2, EmptySeq
<1> QED BY <1>1, <1>2, <1>3, <1>4

(* Reading from NULL yields nothing.                                       *)
LEMMA NothingLeft ==
  ASSUME NEW nx \in [Nodes -> Pointer]
  PROVE  Spelled(nx, <<>>, NULL) /\ Follow(nx)[Cardinality(Nodes)][NULL] = <<>>
<1>1. Spelled(nx, <<>>, NULL)
  BY DEF Spelled
<1> QED BY <1>1, FollowReads

(* What the walk of a list has still to meet is the end of the list.       *)
LEMMA LeftIs ==
  ASSUME IInv, NEW l \in Lists
  PROVE  /\ Spelled(next, Left(l), pos[l])
         /\ \A k \in 1..Len(Left(l)) : where[Left(l)[k]] = l
         /\ pos[l] = NULL => Left(l) = <<>>
         /\ \A k \in 1..Len(Row(l)) : Row(l)[k] = pos[l] =>
              /\ Len(Left(l)) = Len(Row(l)) - k + 1
              /\ \A i \in 1..Len(Row(l)) - k + 1 : Left(l)[i] = Row(l)[k + i - 1]
<1>1. /\ next \in [Nodes -> Pointer] /\ pos[l] \in Nodes \cup {NULL}
      /\ pos[l] # NULL => where[pos[l]] = l
      /\ NULL \notin Nodes
      /\ Holds(next, head, where, l, Row(l))
  BY ListAssumption DEF IInv, Inv, TypeOK, WalkInList, Ordered
<1>2. PICK s : s = Row(l) /\ Holds(next, head, where, l, s)
  BY <1>1
<1>3. /\ s \in Seq(Nodes) /\ Len(s) \in Nat
      /\ \A k \in 1..Len(s) : s[k] \in Nodes /\ where[s[k]] = l
      /\ \A j, k \in 1..Len(s) : s[j] = s[k] => j = k
  BY <1>1, <1>2, RowReads DEF Holds
<1>4. CASE pos[l] = NULL
  <2>1. Left(l) = <<>> /\ Spelled(next, <<>>, NULL)
    BY <1>1, <1>4, NothingLeft DEF Left, Chain
  <2>2. \A k \in 1..Len(s) : s[k] # pos[l]
    BY <1>1, <1>3, <1>4
  <2>3. \A k \in 1..Len(<<>>) : FALSE
    OBVIOUS
  <2> QED BY <1>2, <1>4, <2>1, <2>2, <2>3
<1>5. CASE pos[l] # NULL
  <2>1. PICK k \in 1..Len(s) : s[k] = pos[l]
    BY <1>1, <1>2, <1>5 DEF Holds
  <2>2. PICK u : u = SubSeq(s, k, Len(s))
    OBVIOUS
  <2>3. /\ Spelled(next, u, pos[l])
        /\ Len(u) = Len(s) - k + 1
        /\ \A i \in 1..Len(s) - k + 1 : u[i] = s[k + i - 1]
    BY <1>2, <2>1, <2>2, SpelledSuffix DEF Holds
  <2>4. Left(l) = u
    BY <1>1, <2>3, FollowReads DEF Left, Chain
  <2>5. \A j \in 1..Len(s) : s[j] = pos[l] => j = k
    BY <1>3, <2>1
  <2>6. ASSUME NEW i \in 1..Len(u) PROVE where[u[i]] = l
    <3>1. i \in 1..Len(s) - k + 1 /\ k + i - 1 \in 1..Len(s)
      BY <1>3, <2>3
    <3> QED BY <1>3, <2>3, <3>1
  <2> QED BY <1>2, <1>5, <2>3, <2>4, <2>5, <2>6
<1> QED BY <1>4, <1>5

(* A list none of whose nodes a step touches, and its walk.                *)
LEMMA RowKept ==
  ASSUME IInv, TypeOK', NEW l \in Lists, head'[l] = head[l],
         \A n \in Nodes : where'[n] = l <=> where[n] = l,
         \A n \in Nodes : where[n] = l => next'[n] = next[n]
  PROVE  Row(l)' = Row(l) /\ Holds(next', head', where', l, Row(l))
<1>1. next' \in [Nodes -> Pointer] /\ next \in [Nodes -> Pointer]
  BY DEF IInv, Inv, TypeOK
<1>2. PICK s : s = Row(l) /\ Holds(next, head, where, l, s)
  BY DEF IInv, Ordered
<1>3. \A k \in 1..Len(s) : s[k] \in Nodes /\ where[s[k]] = l
  BY <1>1, <1>2, RowReads DEF Holds
<1>4. Spelled(next', s, head[l])
  BY <1>2, <1>3, SpelledFrame DEF Holds
<1>5. Row(l)' = s
  BY <1>1, <1>4, FollowReads DEF Row, Chain
<1> QED BY <1>2, <1>4, <1>5 DEF Holds

(* A step that changes no link a walk has before it changes nothing the    *)
(* walk meets.                                                             *)
LEMMA LeftKept ==
  ASSUME IInv, TypeOK', NEW l \in Lists, pos'[l] = pos[l],
         pos[l] = NULL \/ \A k \in 1..Len(Left(l)) : next'[Left(l)[k]] = next[Left(l)[k]]
  PROVE  Left(l)' = Left(l)
<1>1. next' \in [Nodes -> Pointer]
  BY DEF TypeOK
<1>2. PICK u : u = Left(l) /\ Spelled(next, u, pos[l]) /\ (pos[l] = NULL => u = <<>>)
  BY LeftIs
<1>3. Spelled(next', u, pos[l])
  <2>1. CASE pos[l] = NULL
    BY <1>1, <1>2, <2>1, NothingLeft
  <2>2. CASE pos[l] # NULL
    BY <1>2, <2>2, SpelledFrame
  <2> QED BY <2>1, <2>2
<1>4. Left(l)' = u
  BY <1>1, <1>3, FollowReads DEF Left, Chain
<1> QED BY <1>2, <1>4

(* Both, where no node of the list is touched.                             *)
LEMMA ListKept ==
  ASSUME IInv, TypeOK', NEW l \in Lists, head'[l] = head[l], pos'[l] = pos[l],
         \A n \in Nodes : where'[n] = l <=> where[n] = l,
         \A n \in Nodes : where[n] = l => next'[n] = next[n]
  PROVE  /\ Row(l)' = Row(l) /\ Holds(next', head', where', l, Row(l))
         /\ Left(l)' = Left(l)
<1>1. /\ \A k \in 1..Len(Left(l)) : where[Left(l)[k]] = l
      /\ Spelled(next, Left(l), pos[l]) /\ next \in [Nodes -> Pointer]
  BY LeftIs DEF IInv, Inv, TypeOK
<1>2. \A k \in 1..Len(Left(l)) : Left(l)[k] \in Nodes
  BY <1>1, RowReads
<1>3. \A k \in 1..Len(Left(l)) : next'[Left(l)[k]] = next[Left(l)[k]]
  BY <1>1, <1>2
<1> QED BY <1>3, RowKept, LeftKept

-----------------------------------------------------------------------------
(* What a step makes of the sequences of all the lists but l.              *)
OthersKept(l) ==
  \A m \in Lists \ {l} :
    /\ Row(m)' = Row(m) /\ Holds(next', head', where', m, Row(m))
    /\ Left(m)' = Left(m)

(* Nothing read of any list has changed.                                   *)
AllKept ==
  \A m \in Lists :
    /\ Row(m)' = Row(m) /\ Holds(next', head', where', m, Row(m))
    /\ Left(m)' = Left(m)

(* node_init changes nothing read of any list.                             *)
LEMMA NodeKeeps ==
  ASSUME IInv, TypeOK', NEW n \in Nodes, NodeInit(n) \/ NodeFini(n)
  PROVE  AllKept
<1>1. /\ where[n] \notin Lists /\ where'[n] \notin Lists
      /\ \A m \in Nodes : m # n => where'[m] = where[m] /\ next'[m] = next[m]
      /\ UNCHANGED <<head, pos>>
  BY ListAssumption DEF IInv, Inv, TypeOK, NodeInit, NodeFini
<1> QED BY <1>1, ListKept DEF AllKept

(* list_append: the node comes last.                                       *)
LEMMA AppendAppends ==
  ASSUME IInv, TypeOK', NEW l \in Lists, NEW n \in Nodes, AppendNode(l, n)
  PROVE  /\ OthersKept(l)
         /\ Row(l)' = Append(Row(l), n) /\ Holds(next', head', where', l, Append(Row(l), n))
         /\ Left(l) = <<>> /\ Left(l)' = <<>>
         /\ \A m \in Lists : \A k \in 1..Len(Row(m)) : Row(m)[k] # n
<1>0. Inv /\ TypeOK /\ Linked /\ ListAssumption
  BY ListAssumption DEF IInv, Inv
<1>1. /\ where[n] = "out" /\ pos[l] = NULL /\ UNCHANGED pos
      /\ next' = IF tail[l] # NULL THEN [next EXCEPT ![n] = NULL, ![tail[l]] = n]
                                  ELSE [next EXCEPT ![n] = NULL]
      /\ head' = IF tail[l] # NULL THEN head ELSE [head EXCEPT ![l] = n]
      /\ where' = [where EXCEPT ![n] = l]
  BY DEF AppendNode, Link, Walked
<1>2. /\ tail[l] # NULL => where[tail[l]] = l /\ tail[l] \in Nodes /\ tail[l] # n
      /\ head[l] = NULL <=> tail[l] = NULL
      /\ "out" \notin Lists
      /\ \A m \in Nodes : where[m] = l /\ next[m] = NULL => tail[l] = m
  BY <1>0, <1>1 DEF Linked, LinkedIn, EmptyAsserts, TypeOK
<1>3. OthersKept(l)
  <2> SUFFICES ASSUME NEW m \in Lists, m # l
               PROVE  /\ Row(m)' = Row(m) /\ Holds(next', head', where', m, Row(m))
                      /\ Left(m)' = Left(m)
    BY DEF OthersKept
  <2>1. /\ head'[m] = head[m] /\ pos'[m] = pos[m]
        /\ \A k \in Nodes : where'[k] = m <=> where[k] = m
        /\ \A k \in Nodes : where[k] = m => next'[k] = next[k]
    BY <1>0, <1>1, <1>2 DEF TypeOK
  <2> QED BY <2>1, ListKept
<1>4. Left(l) = <<>> /\ Left(l)' = <<>>
  <2>1. Left(l) = <<>>
    BY <1>1, LeftIs
  <2>2. Left(l)' = Left(l)
    BY <1>1, LeftKept
  <2> QED BY <2>1, <2>2
<1>5. ASSUME NEW m \in Lists, NEW k \in 1..Len(Row(m)) PROVE Row(m)[k] # n
  <2>1. Holds(next, head, where, m, Row(m))
    BY DEF IInv, Ordered
  <2> QED BY <1>1, <1>2, <1>5, <2>1 DEF Holds
<1>6. PICK s : s = Row(l) /\ Holds(next, head, where, l, s)
  BY DEF IInv, Ordered
<1>7. /\ s \in Seq(Nodes) /\ Len(s) \in Nat
      /\ \A k \in 1..Len(s) : s[k] \in Nodes /\ where[s[k]] = l
      /\ \A j, k \in 1..Len(s) : s[j] = s[k] => j = k
      /\ s # <<>> <=> Len(s) # 0
      /\ s = <<>> <=> head[l] = NULL
  <2>1. next \in [Nodes -> Pointer] /\ NULL \notin Nodes
    BY <1>0 DEF TypeOK, ListAssumption
  <2>2. /\ s \in Seq(Nodes) /\ Len(s) \in Nat
        /\ \A k \in 1..Len(s) : s[k] \in Nodes
        /\ \A j, k \in 1..Len(s) : s[j] = s[k] => j = k
        /\ s # <<>> <=> Len(s) # 0
    BY <1>6, <2>1, RowReads DEF Holds
  <2>3. s # <<>> => s[1] = head[l] /\ 1 \in 1..Len(s)
    BY <1>6, <2>2 DEF Holds, Spelled
  <2>4. s = <<>> => head[l] = NULL
    BY <1>6 DEF Holds, Spelled
  <2> QED BY <1>6, <2>1, <2>2, <2>3, <2>4 DEF Holds
<1>8. /\ next'[n] = NULL
      /\ s # <<>> => next'[s[Len(s)]] = n
      /\ \A k \in 1..Len(s) : k # Len(s) => next'[s[k]] = next[s[k]]
      /\ \A k \in 1..Len(s) : s[k] # n
      /\ head'[l] = IF s = <<>> THEN n ELSE head[l]
  <2>1. s # <<>> => Len(s) \in 1..Len(s) /\ next[s[Len(s)]] = NULL
    BY <1>6, <1>7 DEF Holds, Spelled
  <2>2. s # <<>> => tail[l] = s[Len(s)]
    BY <1>2, <1>7, <2>1
  <2>3. \A k \in 1..Len(s) : s[k] # n
    BY <1>1, <1>2, <1>7
  <2>4. \A k \in 1..Len(s) : s # <<>>
    BY <1>7
  <2>5. head'[l] = IF s = <<>> THEN n ELSE head[l]
    BY <1>0, <1>1, <1>2, <1>7 DEF TypeOK
  <2>6. next'[n] = NULL
    BY <1>0, <1>1, <1>2 DEF TypeOK
  <2>7. s # <<>> => next'[s[Len(s)]] = n
    BY <1>0, <1>1, <1>2, <1>7, <2>2 DEF TypeOK
  <2>8. ASSUME NEW k \in 1..Len(s), k # Len(s) PROVE next'[s[k]] = next[s[k]]
    <3>1. s[k] # tail[l] /\ s[k] # n /\ s[k] \in Nodes
      BY <1>7, <2>1, <2>2, <2>3, <2>4, <2>8
    <3> QED BY <1>0, <1>1, <3>1 DEF TypeOK
  <2> QED BY <2>3, <2>5, <2>6, <2>7, <2>8
<1>9. PICK u : u = Append(s, n)
  OBVIOUS
<1>10. /\ Spelled(next', u, head'[l]) /\ Len(u) = Len(s) + 1
       /\ \A k \in 1..Len(s) + 1 : u[k] = IF k <= Len(s) THEN s[k] ELSE n
  BY <1>6, <1>8, <1>9, SpelledAppend DEF Holds
<1>11. Row(l)' = u
  <2>1. next' \in [Nodes -> Pointer]
    BY DEF TypeOK
  <2> QED BY <1>10, <2>1, FollowReads DEF Row, Chain
<1>12. ASSUME NEW m \in Nodes PROVE where'[m] = l <=> \E k \in 1..Len(u) : u[k] = m
  <2>1. where'[m] = l <=> (m = n \/ where[m] = l)
    BY <1>0, <1>1 DEF TypeOK
  <2>2. where[m] = l <=> \E k \in 1..Len(s) : s[k] = m
    BY <1>6 DEF Holds
  <2>3. ASSUME NEW k \in 1..Len(s), s[k] = m PROVE k \in 1..Len(u) /\ u[k] = m
    BY <1>7, <1>10, <2>3
  <2>4. Len(s) + 1 \in 1..Len(u) /\ u[Len(s) + 1] = n
    BY <1>7, <1>10
  <2>5. ASSUME NEW k \in 1..Len(u), u[k] = m PROVE m = n \/ \E j \in 1..Len(s) : s[j] = m
    <3>1. k \in 1..Len(s) + 1 /\ (k <= Len(s) => k \in 1..Len(s))
      BY <1>7, <1>10
    <3> QED BY <1>10, <2>5, <3>1
  <2> QED BY <2>1, <2>2, <2>3, <2>4, <2>5
<1>13. Holds(next', head', where', l, u)
  BY <1>10, <1>12 DEF Holds
<1> QED BY <1>3, <1>4, <1>5, <1>6, <1>9, <1>11, <1>13

(* list_remove, of a node that the walk of its list, if there is one, has  *)
(* just met.                                                               *)
LEMMA UnlinkRemoves ==
  ASSUME IInv, TypeOK', NEW l \in Lists, NEW n \in Nodes, where[n] = l,
         Unlink(l, n), pos' = pos, pos[l] = NULL \/ pos[l] = next[n]
  PROVE  \E d \in 1..Len(Row(l)) :
           /\ OthersKept(l)
           /\ Row(l)[d] = n
           /\ Row(l)' = Without(Row(l), d)
           /\ Holds(next', head', where', l, Without(Row(l), d))
           /\ Left(l)' = Left(l)
           /\ \A i \in 1..Len(Left(l)) : Left(l)[i] # n
<1>0. Inv /\ TypeOK /\ Linked /\ ListAssumption
  BY ListAssumption DEF IInv, Inv
<1>1. /\ next' = IF prev[n] # NULL THEN [next EXCEPT ![prev[n]] = next[n], ![n] = n]
                                  ELSE [next EXCEPT ![n] = n]
      /\ head' = IF prev[n] # NULL THEN head ELSE [head EXCEPT ![l] = next[n]]
      /\ where' = [where EXCEPT ![n] = "out"]
  BY DEF Unlink
<1>2. PICK s : s = Row(l) /\ Holds(next, head, where, l, s)
  BY DEF IInv, Ordered
<1>3. /\ s \in Seq(Nodes) /\ Len(s) \in Nat
      /\ \A k \in 1..Len(s) : s[k] \in Nodes /\ where[s[k]] = l
      /\ \A j, k \in 1..Len(s) : s[j] = s[k] => j = k
      /\ s # <<>> <=> Len(s) # 0
  <2>1. next \in [Nodes -> Pointer]
    BY <1>0 DEF TypeOK
  <2>2. /\ s \in Seq(Nodes) /\ Len(s) \in Nat
        /\ \A k \in 1..Len(s) : s[k] \in Nodes
        /\ \A j, k \in 1..Len(s) : s[j] = s[k] => j = k
        /\ s # <<>> <=> Len(s) # 0
    BY <1>2, <2>1, RowReads DEF Holds
  <2> QED BY <1>2, <2>2 DEF Holds
<1>4. PICK d \in 1..Len(s) : s[d] = n
  BY <1>2 DEF Holds
<1>5. /\ s[1] = head[l] /\ next[s[Len(s)]] = NULL
      /\ \A k \in 1..Len(s) - 1 : next[s[k]] = s[k + 1]
  BY <1>2, <1>3, <1>4 DEF Holds, Spelled
<1>6. /\ d = 1 => prev[n] = NULL
      /\ d # 1 => d - 1 \in 1..Len(s) /\ prev[n] = s[d - 1] /\ prev[n] \in Nodes
  <2>1. CASE d = 1
    <3>1. head[l] = n /\ head[l] # NULL
      BY <1>0, <1>4, <1>5, <2>1 DEF ListAssumption
    <3> QED BY <1>0, <2>1, <3>1 DEF Linked
  <2>2. CASE d # 1
    <3>1. d - 1 \in 1..Len(s) - 1 /\ d - 1 \in 1..Len(s) /\ (d - 1) + 1 = d
      BY <1>3, <1>4, <2>2
    <3>2. /\ s[d - 1] \in Nodes /\ where[s[d - 1]] = l /\ next[s[d - 1]] = n /\ n # NULL
          /\ LinkedIn(l, s[d - 1])
      BY <1>0, <1>3, <1>4, <1>5, <3>1 DEF Linked, ListAssumption
    <3> QED BY <2>2, <3>1, <3>2 DEF LinkedIn
  <2> QED BY <2>1, <2>2
<1>7. /\ next'[n] = n
      /\ d # 1 => next'[s[d - 1]] = next[s[d]]
      /\ \A m \in Nodes : m # n /\ (d = 1 \/ m # s[d - 1]) => next'[m] = next[m]
      /\ head'[l] = IF d = 1 THEN next[s[1]] ELSE head[l]
      /\ \A m \in Lists : m # l => head'[m] = head[m]
  <2>1. d # 1 => s[d - 1] # n
    BY <1>3, <1>4, <1>6
  <2>2. NULL \notin Nodes
    BY <1>0 DEF ListAssumption
  <2>3. CASE d = 1
    BY <1>0, <1>1, <1>4, <1>6, <2>3 DEF TypeOK
  <2>4. CASE d # 1
    BY <1>0, <1>1, <1>4, <1>6, <2>1, <2>2, <2>4 DEF TypeOK
  <2> QED BY <2>3, <2>4
<1>8. \A k \in 1..Len(s) : k # d /\ k + 1 # d => next'[s[k]] = next[s[k]]
  <2> SUFFICES ASSUME NEW k \in 1..Len(s), k # d, k + 1 # d
               PROVE next'[s[k]] = next[s[k]]
    OBVIOUS
  <2>1. s[k] \in Nodes /\ s[k] # n
    BY <1>3, <1>4
  <2>2. d # 1 => s[k] # s[d - 1]
    BY <1>3, <1>4, <1>6
  <2> QED BY <1>7, <2>1, <2>2
<1>9. OthersKept(l)
  <2> SUFFICES ASSUME NEW m \in Lists, m # l
               PROVE  /\ Row(m)' = Row(m) /\ Holds(next', head', where', m, Row(m))
                      /\ Left(m)' = Left(m)
    BY DEF OthersKept
  <2>1. \A k \in Nodes : where'[k] = m <=> where[k] = m
    BY <1>0, <1>1 DEF TypeOK, ListAssumption
  <2>2. \A k \in Nodes : where[k] = m => next'[k] = next[k]
    BY <1>3, <1>4, <1>6, <1>7
  <2> QED BY <1>7, <2>1, <2>2, ListKept
<1>10. PICK u : u = Without(s, d)
  OBVIOUS
<1>11. Spelled(next', u, head'[l])
  <2>1. Spelled(next, s, head[l])
    BY <1>2 DEF Holds
  <2>2. Spelled(next', u, IF d = 1 THEN next[s[1]] ELSE head[l])
    BY <1>7, <1>8, <1>10, <2>1, SpelledRemove
  <2> QED BY <1>7, <2>2
<1>12. /\ Len(u) = Len(s) - 1
       /\ \A j \in 1..Len(s) - 1 : u[j] = IF j < d THEN s[j] ELSE s[j + 1]
  BY <1>3, <1>10, WithoutIs
<1>13. Row(l)' = u
  <2>1. next' \in [Nodes -> Pointer]
    BY DEF TypeOK
  <2> QED BY <1>11, <2>1, FollowReads DEF Row, Chain
<1>14. ASSUME NEW m \in Nodes PROVE where'[m] = l <=> \E k \in 1..Len(u) : u[k] = m
  <2>1. where'[m] = l <=> (m # n /\ where[m] = l)
    BY <1>0, <1>1 DEF TypeOK, ListAssumption
  <2>2. where[m] = l <=> \E k \in 1..Len(s) : s[k] = m
    BY <1>2 DEF Holds
  <2>3. ASSUME NEW k \in 1..Len(s), s[k] = m, k # d
        PROVE  \E j \in 1..Len(u) : u[j] = m
    <3>1. CASE k < d
      <4>1. k \in 1..Len(u) /\ k \in 1..Len(s) - 1
        BY <1>3, <1>4, <1>12, <3>1
      <4>2. u[k] = m
        BY <1>12, <2>3, <3>1, <4>1
      <4> QED BY <4>1, <4>2
    <3>2. CASE ~(k < d)
      <4>1. k - 1 \in 1..Len(u) /\ k - 1 \in 1..Len(s) - 1 /\ ~(k - 1 < d) /\ (k - 1) + 1 = k
        BY <1>3, <1>4, <1>12, <2>3, <3>2
      <4>2. u[k - 1] = m
        BY <1>12, <2>3, <4>1
      <4> QED BY <4>1, <4>2
    <3> QED BY <3>1, <3>2
  <2>4. ASSUME NEW k \in 1..Len(u), u[k] = m
        PROVE  m # n /\ \E j \in 1..Len(s) : s[j] = m
    <3>1. PICK j \in 1..Len(s) : j # d /\ u[k] = s[j]
      <4>1. k \in 1..Len(s) - 1
        BY <1>12
      <4>2. CASE k < d
        <5>1. k \in 1..Len(s) /\ k # d /\ u[k] = s[k]
          BY <1>3, <1>12, <4>1, <4>2
        <5> QED BY <5>1
      <4>3. CASE ~(k < d)
        <5>1. k + 1 \in 1..Len(s) /\ k + 1 # d /\ u[k] = s[k + 1]
          BY <1>3, <1>4, <1>12, <4>1, <4>3
        <5> QED BY <5>1
      <4> QED BY <4>2, <4>3
    <3> QED BY <1>3, <1>4, <2>4, <3>1
  <2>5. where'[m] = l => \E k \in 1..Len(u) : u[k] = m
    <3> SUFFICES ASSUME where'[m] = l PROVE \E k \in 1..Len(u) : u[k] = m
      OBVIOUS
    <3>1. PICK k \in 1..Len(s) : s[k] = m
      BY <2>1, <2>2
    <3>2. k # d
      BY <1>4, <2>1, <3>1
    <3> QED BY <2>3, <3>1, <3>2
  <2>6. (\E k \in 1..Len(u) : u[k] = m) => where'[m] = l
    BY <2>1, <2>2, <2>4
  <2> QED BY <2>5, <2>6
<1>15. Holds(next', head', where', l, u)
  BY <1>11, <1>14 DEF Holds
<1>16. \A i \in 1..Len(Left(l)) :
         Left(l)[i] # n /\ next'[Left(l)[i]] = next[Left(l)[i]]
  <2>1. CASE pos[l] = NULL
    <3>1. Left(l) = <<>>
      BY <2>1, LeftIs
    <3>2. \A i \in 1..Len(<<>>) : FALSE
      OBVIOUS
    <3> QED BY <3>1, <3>2
  <2>2. CASE pos[l] # NULL
    <3>1. d # Len(s) /\ d \in 1..Len(s) - 1
      BY <1>3, <1>4, <1>5, <2>2
    <3>2. d + 1 \in 1..Len(s) /\ s[d + 1] = pos[l]
      BY <1>3, <1>4, <1>5, <2>2, <3>1
    <3>3. /\ Len(Left(l)) = Len(s) - (d + 1) + 1
          /\ \A i \in 1..Len(s) - (d + 1) + 1 : Left(l)[i] = s[(d + 1) + i - 1]
      BY <1>2, <3>2, LeftIs
    <3>4. ASSUME NEW i \in 1..Len(Left(l))
          PROVE  Left(l)[i] # n /\ next'[Left(l)[i]] = next[Left(l)[i]]
      <4>1. /\ i \in 1..Len(s) - (d + 1) + 1
            /\ (d + 1) + i - 1 \in 1..Len(s)
            /\ (d + 1) + i - 1 # d /\ ((d + 1) + i - 1) + 1 # d
        BY <1>3, <1>4, <3>3
      <4>2. Left(l)[i] = s[(d + 1) + i - 1]
        BY <3>3, <4>1
      <4>3. s[(d + 1) + i - 1] # s[d]
        BY <1>3, <4>1
      <4>4. next'[s[(d + 1) + i - 1]] = next[s[(d + 1) + i - 1]]
        BY <1>8, <4>1
      <4> QED BY <1>4, <4>2, <4>3, <4>4
    <3> QED BY <3>4
  <2> QED BY <2>1, <2>2
<1>17. Left(l)' = Left(l)
  BY <1>16, LeftKept
<1> QED BY <1>2, <1>4, <1>9, <1>10, <1>13, <1>15, <1>16, <1>17

(* list_move: the nodes of src, in their order, are in dest.               *)
LEMMA MoveTransfers ==
  ASSUME IInv, TypeOK', NEW dest \in Lists, NEW src \in Lists, Move(dest, src)
  PROVE  /\ dest # src /\ Row(dest) = <<>>
         /\ \A m \in Lists :
              LET s == IF m = dest THEN Row(src) ELSE IF m = src THEN <<>> ELSE Row(m)
              IN Row(m)' = s /\ Holds(next', head', where', m, s)
         /\ \A m \in Lists : Left(m)' = Left(m)
<1>0. Inv /\ TypeOK /\ Linked /\ Ranked /\ ListAssumption
  BY ListAssumption DEF IInv, Inv
<1>1. /\ dest # src /\ head[dest] = NULL
      /\ UNCHANGED <<next, pos>>
      /\ head' = [head EXCEPT ![dest] = head[src], ![src] = NULL]
      /\ where' = [n \in Nodes |-> IF where[n] = src THEN dest ELSE where[n]]
  BY DEF Move
<1>2. \A n \in Nodes : where[n] # dest
  BY <1>0, <1>1, HeadlessIsEmpty
<1>3. next \in [Nodes -> Pointer] /\ next' = next
  BY <1>0, <1>1 DEF TypeOK
<1>4. \A m \in Lists : Holds(next, head, where, m, Row(m))
  BY DEF IInv, Ordered
<1>5. Row(dest) = <<>>
  BY <1>1, <1>3, NothingLeft DEF Row, Chain
<1>6. ASSUME NEW m \in Lists PROVE Left(m)' = Left(m)
  BY <1>1, <1>3 DEF Left, Chain
<1>7. Row(dest)' = Row(src) /\ Holds(next', head', where', dest, Row(src))
  <2>1. head'[dest] = head[src]
    BY <1>0, <1>1 DEF TypeOK
  <2>2. \A n \in Nodes : where'[n] = dest <=> where[n] = src
    BY <1>1, <1>2
  <2>3. Row(dest)' = Row(src)
    BY <1>3, <2>1 DEF Row, Chain
  <2> QED BY <1>3, <1>4, <2>1, <2>2, <2>3 DEF Holds
<1>8. Row(src)' = <<>> /\ Holds(next', head', where', src, <<>>)
  <2>1. head'[src] = NULL
    BY <1>0, <1>1 DEF TypeOK
  <2>2. \A n \in Nodes : where'[n] # src
    BY <1>1
  <2>3. Row(src)' = <<>> /\ Spelled(next, <<>>, NULL)
    BY <1>3, <2>1, NothingLeft DEF Row, Chain
  <2>4. \A k \in 1..Len(<<>>) : FALSE
    OBVIOUS
  <2> QED BY <1>3, <2>1, <2>2, <2>3, <2>4 DEF Holds
<1>9. ASSUME NEW m \in Lists, m # dest, m # src
      PROVE  Row(m)' = Row(m) /\ Holds(next', head', where', m, Row(m))
  <2>1. head'[m] = head[m]
    BY <1>0, <1>1, <1>9 DEF TypeOK
  <2>2. \A n \in Nodes : where'[n] = m <=> where[n] = m
    BY <1>1, <1>9
  <2> QED BY <1>3, <2>1, <2>2, RowKept
<1> QED BY <1>1, <1>5, <1>6, <1>7, <1>8, <1>9

(* The steps of a walk.                                                    *)
LEMMA RowsKept ==
  ASSUME IInv, UNCHANGED linkVars
  PROVE  \A m \in Lists : Row(m)' = Row(m) /\ Holds(next', head', where', m, Row(m))
<1>1. UNCHANGED <<next, head, where>>
  BY DEF linkVars
<1>2. \A m \in Lists : Row(m)' = Row(m)
  BY <1>1 DEF Row, Chain
<1> QED BY <1>1, <1>2 DEF IInv, Ordered, Holds

(* list_iter_init has the walk meet the whole list.                        *)
LEMMA IterInitStarts ==
  ASSUME IInv, NEW l \in Lists, IterInit(l)
  PROVE  /\ Left(l)' = Row(l)
         /\ \A m \in Lists \ {l} : Left(m)' = Left(m)
<1>1. next' = next /\ pos' = [pos EXCEPT ![l] = head[l]] /\ pos \in [Lists -> Nodes \cup {NULL}]
  BY DEF IterInit, linkVars, IInv, Inv, TypeOK
<1>2. pos'[l] = head[l] /\ \A m \in Lists \ {l} : pos'[m] = pos[m]
  BY <1>1
<1> QED BY <1>1, <1>2 DEF Row, Left, Chain

(* A step of the walk meets the next node of the list and leaves the rest. *)
LEMMA IterNextMeets ==
  ASSUME IInv, NEW l \in Lists, IterNext(l)
  PROVE  /\ Left(l) # <<>> /\ Left(l)' = Tail(Left(l))
         /\ \A m \in Lists \ {l} : Left(m)' = Left(m)
<1>1. /\ next' = next /\ pos' = [pos EXCEPT ![l] = next[pos[l]]] /\ pos[l] # NULL
      /\ pos \in [Lists -> Nodes \cup {NULL}] /\ next \in [Nodes -> Pointer]
  BY DEF IterNext, linkVars, IInv, Inv, TypeOK
<1>2. pos'[l] = next[pos[l]] /\ \A m \in Lists \ {l} : pos'[m] = pos[m]
  BY <1>1
<1>3. PICK u : u = Left(l) /\ Spelled(next, u, pos[l])
  BY LeftIs
<1>4. /\ u \in Seq(Nodes) /\ u # <<>> /\ Len(u) \in Nat /\ Len(u) # 0
      /\ u[1] = pos[l] /\ next[u[Len(u)]] = NULL
      /\ \A k \in 1..Len(u) - 1 : next[u[k]] = u[k + 1]
  BY <1>1, <1>3, EmptySeq, LenProperties DEF Spelled
<1>5. Spelled(next, Tail(u), next[pos[l]])
  <2>1. CASE Len(u) = 1
    <3>1. Tail(u) = <<>>
      <4>1. Tail(u) \in Seq(Nodes) /\ Len(Tail(u)) = Len(u) - 1
        BY <1>4, HeadTailProperties
      <4>2. Len(Tail(u)) = 0
        BY <2>1, <4>1
      <4> QED BY <4>1, <4>2, EmptySeq
    <3> QED BY <1>1, <1>4, <2>1, <3>1, NothingLeft
  <2>2. CASE Len(u) # 1
    <3>1. 2 \in 1..Len(u) /\ 1 \in 1..Len(u) - 1
      <4>1. Len(u) \in Nat /\ Len(u) # 0 /\ Len(u) # 1
        BY <1>4, <2>2
      <4> HIDE DEF Spelled
      <4>2. ASSUME NEW c \in Nat, c # 0, c # 1
            PROVE  2 \in 1..c /\ 1 \in 1..c - 1
        BY <4>2
      <4> QED BY <4>1, <4>2, Zenon
    <3>2. Spelled(next, SubSeq(u, 2, Len(u)), u[2])
      BY <1>3, <3>1, SpelledSuffix
    <3>3. Tail(u) = SubSeq(u, 2, Len(u))
      BY <1>4, TailIsSubSeq
    <3>4. next[pos[l]] = u[2]
      BY <1>4, <3>1
    <3> QED BY <3>2, <3>3, <3>4
  <2> QED BY <2>1, <2>2
<1>6. Left(l)' = Tail(u)
  BY <1>1, <1>2, <1>5, FollowReads DEF Left, Chain
<1>7. \A m \in Lists \ {l} : Left(m)' = Left(m)
  BY <1>1, <1>2 DEF Left, Chain
<1> QED BY <1>3, <1>4, <1>6, <1>7

-----------------------------------------------------------------------------
(* Initial states map to initial states.                                   *)
LEMMA InitIInv == Init => IInv /\ Sequences_!Init
<1> SUFFICES ASSUME Init PROVE IInv /\ Sequences_!Init
  OBVIOUS
<1>1. Inv
  BY InvInit
<1>2. /\ next \in [Nodes -> Pointer]
      /\ \A l \in Lists : head[l] = NULL /\ pos[l] = NULL
      /\ \A l \in Lists : \A n \in Nodes : where[n] # l
  BY <1>1, ListAssumption DEF Inv, TypeOK, Init
<1>3. \A l \in Lists : Row(l) = <<>> /\ Left(l) = <<>>
  BY <1>2, NothingLeft DEF Row, Left, Chain
<1>4. \A k \in 1..Len(<<>>) : FALSE
  OBVIOUS
<1>5. ASSUME NEW l \in Lists PROVE Holds(next, head, where, l, <<>>)
  BY <1>2, <1>4, NothingLeft DEF Holds
<1>6. Ordered
  BY <1>3, <1>5 DEF Ordered
<1>7. items = [l \in Lists |-> <<>>] /\ todo = [l \in Lists |-> <<>>]
  BY <1>3 DEF Row, Left, items, todo
<1> QED BY <1>1, <1>6, <1>7 DEF IInv, Sequences_!Init

(* What the mapping says of one list.                                      *)
LEMMA Mapped ==
  /\ items = [l \in Lists |-> Row(l)] /\ items' = [l \in Lists |-> Row(l)']
  /\ todo = [l \in Lists |-> Left(l)] /\ todo' = [l \in Lists |-> Left(l)']
BY DEF items, todo, Row, Left

(* The abstract list after a step that changes one.                        *)
LEMMA OneRow ==
  ASSUME NEW l \in Lists, NEW s, Row(l)' = s,
         \A m \in Lists \ {l} : Row(m)' = Row(m)
  PROVE  items' = [items EXCEPT ![l] = s]
<1>1. \A m \in Lists : Row(m)' = IF m = l THEN s ELSE Row(m)
  OBVIOUS
<1>2. items' = [m \in Lists |-> IF m = l THEN s ELSE Row(m)]
  BY <1>1, Mapped, Zenon
<1>3. items = [m \in Lists |-> Row(m)]
  BY Mapped
<1> HIDE DEF items, Row
<1> QED BY <1>2, <1>3

(* The abstract walks after a step that changes one.                       *)
LEMMA OneLeft ==
  ASSUME NEW l \in Lists, NEW s, Left(l)' = s,
         \A m \in Lists \ {l} : Left(m)' = Left(m)
  PROVE  todo' = [todo EXCEPT ![l] = s]
<1>1. \A m \in Lists : Left(m)' = IF m = l THEN s ELSE Left(m)
  OBVIOUS
<1>2. todo' = [m \in Lists |-> IF m = l THEN s ELSE Left(m)]
  BY <1>1, Mapped, Zenon
<1>3. todo = [m \in Lists |-> Left(m)]
  BY Mapped
<1> HIDE DEF todo, Left
<1> QED BY <1>2, <1>3

(* The abstract walks after a step that changes none.                      *)
LEMMA NoLeft ==
  ASSUME \A m \in Lists : Left(m)' = Left(m)
  PROVE  todo' = todo
BY Mapped, Zenon

(* The abstract lists after a step that changes none.                      *)
LEMMA NoRow ==
  ASSUME \A m \in Lists : Row(m)' = Row(m)
  PROVE  items' = items
BY Mapped, Zenon

(* Each step of the links is one of the sequences or none.                 *)
LEMMA StepRefines ==
  ASSUME IInv, [Next]_vars
  PROVE  IInv' /\ [Sequences_!Next]_(Sequences_!vars)
<1>1. Inv' /\ TypeOK'
  BY InvInductive DEF IInv, Inv
<1> SUFFICES Ordered' /\ (Sequences_!Next \/ (items' = items /\ todo' = todo))
  BY <1>1 DEF IInv, Sequences_!vars
<1>2. ASSUME AllKept PROVE Ordered' /\ items' = items /\ todo' = todo
  BY <1>2, NoRow, NoLeft DEF AllKept, Ordered
<1>3. \A l \in Lists : items[l] = Row(l) /\ todo[l] = Left(l)
  BY Mapped
<1>4. CASE UNCHANGED vars
  <2>1. UNCHANGED linkVars /\ UNCHANGED <<next, pos>>
    BY <1>4 DEF vars, linkVars
  <2>2. \A m \in Lists : Left(m)' = Left(m)
    BY <2>1 DEF Left, Chain
  <2>3. AllKept
    BY <2>1, <2>2, RowsKept DEF AllKept
  <2> QED BY <1>2, <2>3
<1>5. CASE \E n \in Nodes : NodeInit(n) \/ NodeFini(n)
  BY <1>1, <1>2, <1>5, NodeKeeps
<1>6. ASSUME NEW l \in Lists, NEW n \in Nodes, AppendNode(l, n)
      PROVE  Ordered' /\ Sequences_!Next
  <2>1. /\ OthersKept(l)
        /\ Row(l)' = Append(Row(l), n) /\ Holds(next', head', where', l, Append(Row(l), n))
        /\ Left(l) = <<>> /\ Left(l)' = <<>>
        /\ \A m \in Lists : \A k \in 1..Len(Row(m)) : Row(m)[k] # n
    BY <1>1, <1>6, AppendAppends
  <2>2. Ordered'
    BY <2>1 DEF OthersKept, Ordered
  <2>3. items' = [items EXCEPT ![l] = Append(Row(l), n)]
    BY <2>1, OneRow DEF OthersKept
  <2>4. todo' = todo
    BY <2>1, NoLeft DEF OthersKept
  <2>5. items' = [items EXCEPT ![l] = Append(items[l], n)] /\ todo[l] = <<>>
    BY <1>3, <2>1, <2>3
  <2>6. \A m \in Lists : ~Sequences_!Contains(items[m], n)
    BY <1>3, <2>1 DEF Sequences_!Contains
  <2>7. Sequences_!Insert(l, n)
    BY <2>4, <2>5, <2>6 DEF Sequences_!Insert
  <2> QED BY <2>2, <2>7 DEF Sequences_!Next
<1>7. ASSUME NEW l \in Lists, NEW n \in Nodes, where[n] = l, Unlink(l, n),
             pos' = pos, pos[l] = NULL \/ pos[l] = next[n]
      PROVE  Ordered' /\ Sequences_!Next
  <2>1. PICK d \in 1..Len(Row(l)) :
           /\ OthersKept(l)
           /\ Row(l)[d] = n
           /\ Row(l)' = Without(Row(l), d)
           /\ Holds(next', head', where', l, Without(Row(l), d))
           /\ Left(l)' = Left(l)
           /\ \A i \in 1..Len(Left(l)) : Left(l)[i] # n
    BY <1>1, <1>7, UnlinkRemoves
  <2>2. Ordered'
    BY <2>1 DEF OthersKept, Ordered
  <2>3. items' = [items EXCEPT ![l] = Without(Row(l), d)]
    BY <2>1, OneRow DEF OthersKept
  <2>4. todo' = todo
    BY <2>1, NoLeft DEF OthersKept
  <2>5. items' = [items EXCEPT ![l] = Sequences_!RemoveAt(items[l], d)]
    BY <1>3, <2>3 DEF Without, Sequences_!RemoveAt
  <2>6. ~Sequences_!Contains(todo[l], items[l][d])
    BY <1>3, <2>1 DEF Sequences_!Contains
  <2>7. d \in DOMAIN items[l]
    <3>1. Row(l) \in Seq(Nodes)
      BY DEF IInv, Ordered, Holds, Spelled
    <3>2. DOMAIN Row(l) = 1..Len(Row(l))
      BY <3>1
    <3> QED BY <1>3, <2>1, <3>2
  <2>8. Sequences_!Delete(l, d)
    BY <2>4, <2>5, <2>6 DEF Sequences_!Delete
  <2> QED BY <2>2, <2>7, <2>8 DEF Sequences_!Next
<1>8. ASSUME NEW l \in Lists, NEW n \in Nodes, RemoveNode(l, n)
      PROVE  Ordered' /\ Sequences_!Next
  BY <1>7, <1>8 DEF RemoveNode, Walked
<1>9. ASSUME NEW l \in Lists, RemoveMet(l)
      PROVE  Ordered' /\ Sequences_!Next
  <2>1. met[l] \in Nodes /\ where[met[l]] = l /\ next[met[l]] = pos[l]
    BY <1>9 DEF RemoveMet, IInv, Inv, WalkInList, TypeOK
  <2> QED BY <1>7, <1>9, <2>1 DEF RemoveMet
<1>10. ASSUME NEW l \in Lists, NEW src \in Lists, Move(l, src)
       PROVE  Ordered' /\ Sequences_!Next
  <2> DEFINE S(m) == IF m = l THEN Row(src) ELSE IF m = src THEN <<>> ELSE Row(m)
  <2>1. /\ l # src /\ Row(l) = <<>>
        /\ \A m \in Lists : Row(m)' = S(m) /\ Holds(next', head', where', m, S(m))
        /\ \A m \in Lists : Left(m)' = Left(m)
    BY <1>1, <1>10, MoveTransfers
  <2>2. Ordered'
    <3> HIDE DEF S
    <3> QED BY <2>1 DEF Ordered
  <2>3. items' = [m \in Lists |-> S(m)]
    <3> HIDE DEF S
    <3> QED BY <2>1, Mapped, Zenon
  <2>4. items = [m \in Lists |-> Row(m)]
    BY Mapped
  <2>5. items' = [items EXCEPT ![l] = items[src], ![src] = <<>>]
    <3> HIDE DEF items, Row
    <3> QED BY <1>3, <2>1, <2>3, <2>4
  <2>6. Sequences_!Transfer(l, src)
    BY <1>3, <2>1, <2>5, NoLeft DEF Sequences_!Transfer
  <2> QED BY <2>2, <2>6 DEF Sequences_!Next
<1>11. ASSUME NEW l \in Lists, IterInit(l) PROVE Ordered' /\ Sequences_!Next
  <2>1. \A m \in Lists : Row(m)' = Row(m) /\ Holds(next', head', where', m, Row(m))
    BY <1>11, RowsKept DEF IterInit
  <2>2. todo' = [todo EXCEPT ![l] = items[l]]
    BY <1>3, <1>11, IterInitStarts, OneLeft
  <2>3. Sequences_!Walk(l)
    BY <2>1, <2>2, NoRow DEF Sequences_!Walk
  <2>4. Ordered'
    BY <2>1 DEF Ordered
  <2> QED BY <2>3, <2>4 DEF Sequences_!Next
<1>12. ASSUME NEW l \in Lists, IterNext(l) PROVE Ordered' /\ Sequences_!Next
  <2>1. \A m \in Lists : Row(m)' = Row(m) /\ Holds(next', head', where', m, Row(m))
    BY <1>12, RowsKept DEF IterNext
  <2>2. todo[l] # <<>> /\ todo' = [todo EXCEPT ![l] = Tail(todo[l])]
    BY <1>3, <1>12, IterNextMeets, OneLeft
  <2>3. Sequences_!Meet(l)
    BY <2>1, <2>2, NoRow DEF Sequences_!Meet
  <2>4. Ordered'
    BY <2>1 DEF Ordered
  <2> QED BY <2>3, <2>4 DEF Sequences_!Next
<1>13. ASSUME NEW l \in Lists, IterDone(l) PROVE AllKept
  <2>1. UNCHANGED linkVars /\ UNCHANGED <<next, pos>>
    BY <1>13 DEF IterDone, linkVars
  <2>2. \A m \in Lists : Left(m)' = Left(m)
    BY <2>1 DEF Left, Chain
  <2> QED BY <2>1, <2>2, RowsKept DEF AllKept
<1>14. CASE Next
  BY <1>2, <1>5, <1>6, <1>8, <1>9, <1>10, <1>11, <1>12, <1>13, <1>14 DEF Next
<1> QED BY <1>4, <1>14

(* The links of list.c are sequences: for any lists and nodes, nodes stay  *)
(* in the order they were appended, list_move takes all of them along, and *)
(* a walk meets every node of the list once although the nodes it has met  *)
(* are removed behind it.                                                  *)
THEOREM ImplementsListSequences == Spec => ImplementsSequences
<1>1. IInv /\ [Next]_vars => IInv' /\ [Sequences_!Next]_(Sequences_!vars)
  BY StepRefines
<1>2. Init => IInv /\ Sequences_!Init
  BY InitIInv
<1> QED BY <1>1, <1>2, PTL DEF Spec, ImplementsSequences, Sequences_!Spec
=============================================================================
