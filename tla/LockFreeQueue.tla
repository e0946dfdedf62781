--------------------------- MODULE LockFreeQueue ---------------------------
(***************************************************************************)
(* The linked lists of src/queue.c, one step per access to the shared tail *)
(* pointer and one per turn of the reversal loop.  A queue_shared is a     *)
(* stack of items linked through `next` and reached from `tail`; a         *)
(* queue_private is a list reached from head[t], in FIFO order.  The last  *)
(* queued item's `next` is NULL; an item outside any queue points at       *)
(* itself (qitem_init).                                                    *)
(*                                                                         *)
(* Every thread owns one private queue, may push an item it holds, spill   *)
(* its private queue into the shared one, take the whole shared queue when *)
(* its private queue is empty, and pop.  That is every use snd-service.c   *)
(* makes of the queues, and items go round and round: the tail a thread    *)
(* read may come back to the same value with different items below it.     *)
(***************************************************************************)
EXTENDS Naturals, FiniteSets, SequencesExt

CONSTANTS
  Threads,
  Items,
  NULL

ASSUME QueueAssumption == NULL \notin Items /\ IsFiniteSet(Items)

VARIABLES
  tail,   \* queue_shared.tail: the item pushed last
  next,   \* next[i]: qitem.next
  head,   \* head[t]: queue_private.head of thread t
  hand,   \* hand[t]: items t owns outside the queues (a push still owns its item)
  pc,     \* where thread t is inside a queue operation
  seen,   \* seen[t]: the local `tail` / `tmp`, the shared tail as t read it
  qi,     \* qi[t], prev[t]: the locals of qitem_chain_reverse
  prev,
  first,  \* first[t]: what t will install as tail: the pushed item, or rev_head
  last    \* last[t]: the item whose next is linked to the old tail, or rev_tail

vars == <<tail, next, head, hand, pc, seen, qi, prev, first, last>>

Pointer == Items \cup {NULL}

Labels ==
  {"idle", "revspill", "link", "cas", "clear", "takeload", "takecas", "revtake"}

Init ==
  /\ tail = NULL
  /\ next = [i \in Items |-> i]
  /\ head = [t \in Threads |-> NULL]
  /\ hand \in [Threads -> SUBSET Items]
  /\ \A t, u \in Threads : t # u => hand[t] \cap hand[u] = {}
  /\ pc = [t \in Threads |-> "idle"]
  /\ seen = [t \in Threads |-> NULL]
  /\ qi = [t \in Threads |-> NULL]
  /\ prev = [t \in Threads |-> NULL]
  /\ first = [t \in Threads |-> NULL]
  /\ last = [t \in Threads |-> NULL]

Goto(t, label) == pc' = [pc EXCEPT ![t] = label]

(* Thread t is inside queue_shared_push, not queue_shared_move_from_private*)
Pushing(t) == first[t] \in hand[t]

-----------------------------------------------------------------------------
(* One turn of the loop of qitem_chain_reverse.  At the end of the chain   *)
(* the last item met heads the reversed list: rev_head when spilling,      *)
(* the new private head when taking.                                       *)
ReverseStep(t) ==
  /\ pc[t] \in {"revspill", "revtake"}
  /\ next' = [next EXCEPT ![qi[t]] = prev[t]]
  /\ \/ /\ next[qi[t]] # NULL
        /\ prev' = [prev EXCEPT ![t] = qi[t]]
        /\ qi' = [qi EXCEPT ![t] = next[qi[t]]]
        /\ UNCHANGED <<head, pc, first>>
     \/ /\ next[qi[t]] = NULL
        /\ pc[t] = "revspill"
        /\ first' = [first EXCEPT ![t] = qi[t]]
        /\ qi' = [qi EXCEPT ![t] = NULL]
        /\ prev' = [prev EXCEPT ![t] = NULL]
        /\ Goto(t, "link")
        /\ UNCHANGED head
     \/ /\ next[qi[t]] = NULL
        /\ pc[t] = "revtake"
        /\ head' = [head EXCEPT ![t] = qi[t]]
        /\ qi' = [qi EXCEPT ![t] = NULL]
        /\ prev' = [prev EXCEPT ![t] = NULL]
        /\ Goto(t, "idle")
        /\ UNCHANGED first
  /\ UNCHANGED <<tail, hand, seen, last>>

(* queue_shared_push: the pushed chain is the single item i.               *)
PushCall(t, i) ==
  /\ pc[t] = "idle"
  /\ i \in hand[t]
  /\ first' = [first EXCEPT ![t] = i]
  /\ last' = [last EXCEPT ![t] = i]
  /\ Goto(t, "link")
  /\ UNCHANGED <<tail, next, head, hand, seen, qi, prev>>

(* queue_shared_move_from_private up to the reversal; on an empty private  *)
(* queue it returns at once and changes nothing.                           *)
SpillCall(t) ==
  /\ pc[t] = "idle"
  /\ head[t] # NULL
  /\ last' = [last EXCEPT ![t] = head[t]]
  /\ qi' = [qi EXCEPT ![t] = head[t]]
  /\ Goto(t, "revspill")
  /\ UNCHANGED <<tail, next, head, hand, seen, prev, first>>

(* The body of both retry loops: tmp = qs->tail; rev_tail->next = tmp.     *)
Link(t) ==
  /\ pc[t] = "link"
  /\ seen' = [seen EXCEPT ![t] = tail]
  /\ next' = [next EXCEPT ![last[t]] = tail]
  /\ Goto(t, "cas")
  /\ UNCHANGED <<tail, head, hand, qi, prev, first, last>>

(* Faulty CasOk: a plain store, whatever the tail has become meanwhile.    *)
CasStores(t) ==
  /\ pc[t] = "cas"
  /\ tail' = first[t]
  /\ hand' = [hand EXCEPT ![t] = @ \ {first[t]}]
  /\ Goto(t, IF Pushing(t) THEN "idle" ELSE "clear")
  /\ seen' = [seen EXCEPT ![t] = NULL]
  /\ first' = [first EXCEPT ![t] = NULL]
  /\ last' = [last EXCEPT ![t] = NULL]
  /\ UNCHANGED <<next, head, qi, prev>>

(* Both loops' compare-and-exchange succeeds.  A push is then over, its    *)
(* locals gone; a spill has still to clear qp->head.                       *)
CasOk(t) ==
  /\ pc[t] = "cas"
  /\ tail = seen[t]
  /\ tail' = first[t]
  /\ hand' = [hand EXCEPT ![t] = @ \ {first[t]}]
  /\ Goto(t, IF Pushing(t) THEN "idle" ELSE "clear")
  /\ seen' = [seen EXCEPT ![t] = NULL]
  /\ first' = [first EXCEPT ![t] = NULL]
  /\ last' = [last EXCEPT ![t] = NULL]
  /\ UNCHANGED <<next, head, qi, prev>>

(* atomic_compare_exchange_weak fails: the tail moved, or spuriously.      *)
CasFail(t) ==
  /\ pc[t] = "cas"
  /\ Goto(t, "link")
  /\ UNCHANGED <<tail, next, head, hand, seen, qi, prev, first, last>>

(* Faulty Clear: the private queue keeps its head after the spill.         *)
ClearForgotten(t) ==
  /\ pc[t] = "clear"
  /\ Goto(t, "idle")
  /\ UNCHANGED <<tail, next, head, hand, seen, qi, prev, first, last>>

(* queue_shared_move_from_private: qp->head = NULL.                        *)
Clear(t) ==
  /\ pc[t] = "clear"
  /\ head' = [head EXCEPT ![t] = NULL]
  /\ Goto(t, "idle")
  /\ UNCHANGED <<tail, next, hand, seen, qi, prev, first, last>>

(* queue_private_move_from_shared.  Its assertion, an empty private queue, *)
(* is the callers' duty and a guard here.                                  *)
TakeLoad(t) ==
  /\ pc[t] \in {"idle", "takeload"}
  /\ head[t] = NULL
  /\ seen' = [seen EXCEPT ![t] = tail]
  /\ Goto(t, "takecas")
  /\ UNCHANGED <<tail, next, head, hand, qi, prev, first, last>>

(* Faulty TakeCasOk: reverses an empty chain like any other.               *)
TakeCasReversesNull(t) ==
  /\ pc[t] = "takecas"
  /\ tail = seen[t]
  /\ tail' = NULL
  /\ qi' = [qi EXCEPT ![t] = seen[t]]
  /\ seen' = [seen EXCEPT ![t] = NULL]
  /\ Goto(t, "revtake")
  /\ UNCHANGED <<next, head, hand, prev, first, last>>

(* The exchange with NULL; the reversal of an empty chain is NULL at once. *)
TakeCasOk(t) ==
  /\ pc[t] = "takecas"
  /\ tail = seen[t]
  /\ tail' = NULL
  /\ qi' = [qi EXCEPT ![t] = seen[t]]
  /\ seen' = [seen EXCEPT ![t] = NULL]
  /\ Goto(t, IF seen[t] = NULL THEN "idle" ELSE "revtake")
  /\ UNCHANGED <<next, head, hand, prev, first, last>>

TakeCasFail(t) ==
  /\ pc[t] = "takecas"
  /\ Goto(t, "takeload")
  /\ UNCHANGED <<tail, next, head, hand, seen, qi, prev, first, last>>

(* Faulty Pop: the popped item still points into the queue.                *)
PopLeavesLink(t) ==
  /\ pc[t] = "idle"
  /\ head[t] # NULL
  /\ head' = [head EXCEPT ![t] = next[head[t]]]
  /\ hand' = [hand EXCEPT ![t] = @ \cup {head[t]}]
  /\ UNCHANGED <<tail, next, pc, seen, qi, prev, first, last>>

(* queue_private_pop: the popped item points at itself again.              *)
Pop(t) ==
  /\ pc[t] = "idle"
  /\ head[t] # NULL
  /\ head' = [head EXCEPT ![t] = next[head[t]]]
  /\ next' = [next EXCEPT ![head[t]] = head[t]]
  /\ hand' = [hand EXCEPT ![t] = @ \cup {head[t]}]
  /\ UNCHANGED <<tail, pc, seen, qi, prev, first, last>>

Next ==
  \E t \in Threads :
    \/ \E i \in Items : PushCall(t, i)
    \/ SpillCall(t)
    \/ ReverseStep(t)
    \/ Link(t)
    \/ CasOk(t)
    \/ CasFail(t)
    \/ Clear(t)
    \/ TakeLoad(t)
    \/ TakeCasOk(t)
    \/ TakeCasFail(t)
    \/ Pop(t)

Spec == Init /\ [][Next]_vars
-----------------------------------------------------------------------------
(* Each field holds what its C type allows and a NULL is never followed:   *)
(* the item a step dereferences (qi, last, first) is there when its label  *)
(* is reached.                                                             *)
TypeOK ==
  /\ tail \in Pointer
  /\ next \in [Items -> Pointer]
  /\ head \in [Threads -> Pointer]
  /\ hand \in [Threads -> SUBSET Items]
  /\ pc \in [Threads -> Labels]
  /\ seen \in [Threads -> Pointer]
  /\ qi \in [Threads -> Pointer]
  /\ prev \in [Threads -> Pointer]
  /\ first \in [Threads -> Pointer]
  /\ last \in [Threads -> Pointer]
  /\ \A t \in Threads :
       /\ pc[t] \in {"revspill", "revtake"} => qi[t] # NULL
       /\ pc[t] \in {"revspill", "link", "cas"} => last[t] # NULL
       /\ pc[t] \in {"link", "cas"} => first[t] # NULL

(* qitem_is_queued tells the truth: an item a thread holds points at       *)
(* itself unless that thread is pushing it, which is what snd_command_clear*)
(* and qitem_fini assert of every command popped from a pool.              *)
HeldItemsUnlinked ==
  \A t \in Threads : \A i \in hand[t] :
    next[i] = i \/ (pc[t] \in {"link", "cas"} /\ first[t] = i)

-----------------------------------------------------------------------------
(* The queues a state stands for, read off the pointers.  Walk follows the *)
(* links from y up to and including `stop`, for at most n hops; no chain   *)
(* of distinct items needs more than Cardinality(Items).                   *)
Walk(links, stop) ==
  LET walk[n \in Nat] ==
        [y \in Pointer |->
           IF n = 0 \/ y = NULL THEN <<>>
           ELSE IF y = stop THEN <<y>>
           ELSE <<y>> \o walk[n - 1][links[y]]]
  IN walk

ChainTo(x, stop) == Walk(next, stop)[Cardinality(Items)][x]

Chain(x) == ChainTo(x, NULL)

(* A stack is newest first, a queue oldest first.  A spill takes effect at *)
(* its exchange, a take at its own: until then the items being reversed are*)
(* still the private queue, after it they already are.                     *)
sharedFifo == Reverse(Chain(tail))

privFifo ==
  [t \in Threads |->
    CASE pc[t] = "revspill" -> Reverse(Chain(prev[t])) \o Chain(qi[t])
      [] pc[t] \in {"link", "cas"} /\ ~Pushing(t) ->
           Reverse(ChainTo(first[t], last[t]))
      [] pc[t] = "clear" -> <<>>
      [] pc[t] = "revtake" -> Reverse(Chain(qi[t])) \o Chain(prev[t])
      [] OTHER -> Chain(head[t])]

Atomic == INSTANCE AtomicQueue WITH shared <- sharedFifo, priv <- privFifo

(* The compare-and-exchange loops implement atomic FIFOs: no interleaving  *)
(* of pushes, spills and takes loses, duplicates or reorders an item, even *)
(* when an item taken, popped and pushed again makes a stale tail look     *)
(* current (src/queue.c; the comment of snd_client_cmd_alloc).             *)
ImplementsAtomicQueue == Atomic!Spec

(* Nobody touches an item that can be reached from the shared tail: its    *)
(* links are frozen until one thread has taken the whole stack.  This is   *)
(* why queue.c needs no pop on a shared queue.                             *)
SharedItemsFrozen ==
  [][\A k \in 1..Len(sharedFifo) :
       next'[sharedFifo[k]] = next[sharedFifo[k]]]_vars
=============================================================================
