--------------------------- MODULE ListSequences ---------------------------
(***************************************************************************)
(* What src/list.h promises: every list is a sequence of nodes, a node is  *)
(* in at most one of them, and a walk meets each node once, even when the  *)
(* nodes it has met are removed behind it.                                 *)
(***************************************************************************)
EXTENDS SequencesExt

CONSTANTS Lists, Nodes

VARIABLES
  items,  \* items[l]: the nodes of list l in order
  todo    \* todo[l]: the nodes the walk over l has still to meet

vars == <<items, todo>>

Init ==
  /\ items = [l \in Lists |-> <<>>]
  /\ todo = [l \in Lists |-> <<>>]

Insert(l, n) ==
  /\ \A m \in Lists : ~Contains(items[m], n)
  /\ todo[l] = <<>>
  /\ items' = [items EXCEPT ![l] = Append(@, n)]
  /\ UNCHANGED todo

Delete(l, k) ==
  /\ ~Contains(todo[l], items[l][k])
  /\ items' = [items EXCEPT ![l] = RemoveAt(@, k)]
  /\ UNCHANGED todo

Transfer(dest, src) ==
  /\ dest # src
  /\ items[dest] = <<>>
  /\ items' = [items EXCEPT ![dest] = items[src], ![src] = <<>>]
  /\ UNCHANGED todo

Walk(l) == todo' = [todo EXCEPT ![l] = items[l]] /\ UNCHANGED items

Meet(l) ==
  /\ todo[l] # <<>>
  /\ todo' = [todo EXCEPT ![l] = Tail(@)]
  /\ UNCHANGED items

Next ==
  \E l \in Lists :
    \/ \E n \in Nodes : Insert(l, n)
    \/ \E k \in DOMAIN items[l] : Delete(l, k)
    \/ \E m \in Lists : Transfer(l, m)
    \/ Walk(l)
    \/ Meet(l)

Spec == Init /\ [][Next]_vars
=============================================================================
