---------------------------- MODULE AtomicQueue ----------------------------
(***************************************************************************)
(* What src/queue.h promises its callers: one shared FIFO and one private  *)
(* FIFO per thread, every operation taking effect at a single instant.     *)
(* An item is always in exactly one place: the shared queue, one private   *)
(* queue, or the hands of one thread.                                      *)
(***************************************************************************)
EXTENDS Sequences, FiniteSets

CONSTANTS Threads, Items

VARIABLES
  shared,  \* struct queue_shared: oldest item first
  priv,    \* priv[t]: the struct queue_private of thread t, oldest first
  hand     \* hand[t]: the items thread t owns outside any queue

vars == <<shared, priv, hand>>

Init ==
  /\ shared = <<>>
  /\ priv = [t \in Threads |-> <<>>]
  /\ hand \in [Threads -> SUBSET Items]
  /\ \A t, u \in Threads : t # u => hand[t] \cap hand[u] = {}

(* queue_shared_push *)
Push(t, i) ==
  /\ i \in hand[t]
  /\ shared' = Append(shared, i)
  /\ hand' = [hand EXCEPT ![t] = @ \ {i}]
  /\ UNCHANGED priv

(* queue_shared_move_from_private, with something to move *)
MoveToShared(t) ==
  /\ priv[t] # <<>>
  /\ shared' = shared \o priv[t]
  /\ priv' = [priv EXCEPT ![t] = <<>>]
  /\ UNCHANGED hand

(* queue_private_move_from_shared: only ever into an empty private queue *)
MoveFromShared(t) ==
  /\ priv[t] = <<>>
  /\ priv' = [priv EXCEPT ![t] = shared]
  /\ shared' = <<>>
  /\ UNCHANGED hand

(* queue_private_pop, with something to pop *)
Pop(t) ==
  /\ priv[t] # <<>>
  /\ hand' = [hand EXCEPT ![t] = @ \cup {Head(priv[t])}]
  /\ priv' = [priv EXCEPT ![t] = Tail(@)]
  /\ UNCHANGED shared

Next ==
  \E t \in Threads :
    \/ \E i \in Items : Push(t, i)
    \/ MoveToShared(t)
    \/ MoveFromShared(t)
    \/ Pop(t)

Spec == Init /\ [][Next]_vars
=============================================================================
