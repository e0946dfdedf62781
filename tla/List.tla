-------------------------------- MODULE List --------------------------------
(***************************************************************************)
(* The intrusive doubly linked lists of src/list.c, that hold the mixer's  *)
(* streams and the reaper's tasks.  A node outside every list points at    *)
(* itself; calloc'd memory that is not yet a node, and a node given up,    *)
(* do not, and so look inserted.                                           *)
(*                                                                         *)
(* The callers keep to what snd-mixer.c and reaper.c do: they append only  *)
(* a node that is out, remove one from the list it is in, and, while they  *)
(* walk a list, change it only by removing the node they have just met.    *)
(***************************************************************************)
EXTENDS Naturals, Sequences, FiniteSets

CONSTANTS
  Lists,
  Nodes,
  NULL,
  Poison   \* (void *) -1L

ASSUME ListAssumption ==
  /\ IsFiniteSet(Nodes)
  /\ NULL \notin Nodes
  /\ Poison \notin Nodes
  /\ Poison # NULL
  /\ "out" \notin Lists
  /\ "raw" \notin Lists

VARIABLES
  head,     \* head[l], tail[l]: struct list
  tail,
  prev,     \* prev[n], next[n]: struct list_node
  next,
  where,    \* where[n]: as the callers know, a list, "out" of all, or "raw"
  pos,      \* pos[l]: list_iter.pos of the walk over l
  met       \* met[l]: what the walk has just met and may remove

linkVars == <<head, tail, prev, next, where>>
vars == <<linkVars, pos, met>>

Pointer == Nodes \cup {NULL, Poison}

Init ==
  /\ head = [l \in Lists |-> NULL]
  /\ tail = [l \in Lists |-> NULL]
  /\ prev = [n \in Nodes |-> NULL]
  /\ next = [n \in Nodes |-> NULL]
  /\ where = [n \in Nodes |-> "raw"]
  /\ pos = [l \in Lists |-> NULL]
  /\ met = [l \in Lists |-> NULL]

Walked(l) == pos[l] # NULL \/ met[l] # NULL

(* list_node_is_inserted                                                   *)
IsInserted(n) == prev[n] # n \/ next[n] # n

-----------------------------------------------------------------------------
(* list_node_init                                                          *)
NodeInit(n) ==
  /\ where[n] = "raw"
  /\ prev' = [prev EXCEPT ![n] = n]
  /\ next' = [next EXCEPT ![n] = n]
  /\ where' = [where EXCEPT ![n] = "out"]
  /\ UNCHANGED <<head, tail, pos, met>>

(* list_node_fini                                                          *)
NodeFini(n) ==
  /\ where[n] = "out"
  /\ prev' = [prev EXCEPT ![n] = Poison]
  /\ next' = [next EXCEPT ![n] = Poison]
  /\ where' = [where EXCEPT ![n] = "raw"]
  /\ UNCHANGED <<head, tail, pos, met>>

(* Faulty Link: the new node does not point back.                          *)
LinkForward(l, n) ==
  /\ prev' = [prev EXCEPT ![n] = NULL]
  /\ IF tail[l] # NULL
     THEN /\ next' = [next EXCEPT ![n] = NULL, ![tail[l]] = n]
          /\ UNCHANGED head
     ELSE /\ next' = [next EXCEPT ![n] = NULL]
          /\ head' = [head EXCEPT ![l] = n]
  /\ tail' = [tail EXCEPT ![l] = n]

(* The assignments of list_append.                                         *)
Link(l, n) ==
  /\ prev' = [prev EXCEPT ![n] = tail[l]]
  /\ IF tail[l] # NULL
     THEN /\ next' = [next EXCEPT ![n] = NULL, ![tail[l]] = n]
          /\ UNCHANGED head
     ELSE /\ next' = [next EXCEPT ![n] = NULL]
          /\ head' = [head EXCEPT ![l] = n]
  /\ tail' = [tail EXCEPT ![l] = n]

(* list_append                                                             *)
AppendNode(l, n) ==
  /\ where[n] = "out"
  /\ ~Walked(l)
  /\ Link(l, n)
  /\ where' = [where EXCEPT ![n] = l]
  /\ UNCHANGED <<pos, met>>

(* The assignments of list_remove.                                         *)
Unlink(l, n) ==
  /\ IF prev[n] # NULL
     THEN next' = [next EXCEPT ![prev[n]] = next[n], ![n] = n] /\ UNCHANGED head
     ELSE next' = [next EXCEPT ![n] = n] /\ head' = [head EXCEPT ![l] = next[n]]
  /\ IF next[n] # NULL
     THEN prev' = [prev EXCEPT ![next[n]] = prev[n], ![n] = n] /\ UNCHANGED tail
     ELSE prev' = [prev EXCEPT ![n] = n] /\ tail' = [tail EXCEPT ![l] = prev[n]]
  /\ where' = [where EXCEPT ![n] = "out"]

(* list_remove, by a caller that holds the node                            *)
RemoveNode(l, n) ==
  /\ where[n] = l
  /\ ~Walked(l)
  /\ Unlink(l, n)
  /\ UNCHANGED <<pos, met>>

(* list_move                                                               *)
Move(dest, src) ==
  /\ dest # src
  /\ ~Walked(dest) /\ ~Walked(src)
  /\ head[dest] = NULL
  /\ head' = [head EXCEPT ![dest] = head[src], ![src] = NULL]
  /\ tail' = [tail EXCEPT ![dest] = tail[src], ![src] = NULL]
  /\ where' = [n \in Nodes |-> IF where[n] = src THEN dest ELSE where[n]]
  /\ UNCHANGED <<prev, next, pos, met>>

(* list_iter_init                                                          *)
IterInit(l) ==
  /\ ~Walked(l)
  /\ pos' = [pos EXCEPT ![l] = head[l]]
  /\ UNCHANGED <<linkVars, met>>

(* list_iter_deref, then list_iter_next: every loop of the code steps past *)
(* the node before it does anything to it.                                 *)
IterNext(l) ==
  /\ pos[l] # NULL
  /\ met' = [met EXCEPT ![l] = pos[l]]
  /\ pos' = [pos EXCEPT ![l] = next[pos[l]]]
  /\ UNCHANGED linkVars

(* Faulty RemoveMet: the walk steps on from the node once it is removed,   *)
(* and by then it points at itself.                                        *)
RemoveThenStep(l) ==
  /\ met[l] # NULL
  /\ Unlink(l, met[l])
  /\ pos' = [pos EXCEPT ![l] = met[l]]
  /\ met' = [met EXCEPT ![l] = NULL]

(* snd_mixer_mix drops the finished stream, list_clear every node.         *)
RemoveMet(l) ==
  /\ met[l] # NULL
  /\ Unlink(l, met[l])
  /\ met' = [met EXCEPT ![l] = NULL]
  /\ UNCHANGED pos

(* The end of the walk.                                                    *)
IterDone(l) ==
  /\ pos[l] = NULL
  /\ met[l] # NULL
  /\ met' = [met EXCEPT ![l] = NULL]
  /\ UNCHANGED <<linkVars, pos>>

Next ==
  \/ \E n \in Nodes : NodeInit(n) \/ NodeFini(n)
  \/ \E l \in Lists :
       \/ \E n \in Nodes : AppendNode(l, n) \/ RemoveNode(l, n)
       \/ \E src \in Lists : Move(l, src)
       \/ IterInit(l)
       \/ IterNext(l)
       \/ RemoveMet(l)
       \/ IterDone(l)

Spec == Init /\ [][Next]_vars

-----------------------------------------------------------------------------
TypeOK ==
  /\ head \in [Lists -> Nodes \cup {NULL}]
  /\ tail \in [Lists -> Nodes \cup {NULL}]
  /\ prev \in [Nodes -> Pointer]
  /\ next \in [Nodes -> Pointer]
  /\ where \in [Nodes -> Lists \cup {"out", "raw"}]
  /\ pos \in [Lists -> Nodes \cup {NULL}]
  /\ met \in [Lists -> Nodes \cup {NULL}]

(* The assertions of list_is_empty, list_append, list_remove and           *)
(* list_iter_next.                                                         *)
EmptyAsserts(l) == (head[l] = NULL) <=> (tail[l] = NULL)

AppendAsserts(l, n) ==
  /\ ~IsInserted(n)
  /\ tail[l] # NULL =>
       LET t == tail[l]
       IN next[t] = NULL /\ (prev[t] # NULL => next[prev[t]] = t)
  /\ tail[l] = NULL => head[l] = NULL

RemoveAsserts(l, n) ==
  /\ IsInserted(n)
  /\ IF prev[n] # NULL THEN next[prev[n]] = n ELSE head[l] = n
  /\ IF next[n] # NULL THEN prev[next[n]] = n ELSE tail[l] = n

NextAsserts(l, n) ==
  /\ IF prev[n] # NULL THEN next[prev[n]] = n ELSE head[l] = n
  /\ IF next[n] # NULL THEN prev[next[n]] = n ELSE tail[l] = n

(* No assertion of list.c fails, whichever of its operations is called     *)
(* next, as long as the callers keep to the rules above.                   *)
AssertionsHold ==
  \A l \in Lists :
    /\ EmptyAsserts(l)
    /\ \A n \in Nodes :
         /\ where[n] = "out" => AppendAsserts(l, n)
         /\ where[n] = l => RemoveAsserts(l, n)
    /\ pos[l] # NULL => NextAsserts(l, pos[l])

(* list_is_empty tells the truth: a list without a head holds nothing, so  *)
(* list_move over it strands no node.                                      *)
EmptyIsEmpty == \A l \in Lists : head[l] = NULL => \A n \in Nodes : where[n] # l

(* The nodes met by following links from p, k of them at most; no chain of *)
(* distinct nodes has more than Cardinality(Nodes).                        *)
Follow(links) ==
  LET follow[k \in Nat] ==
        [p \in Pointer |->
           IF k = 0 \/ p \notin Nodes THEN <<>>
           ELSE <<p>> \o follow[k - 1][links[p]]]
  IN follow

Chain(p) == Follow(next)[Cardinality(Nodes)][p]

items == [l \in Lists |-> Chain(head[l])]
todo == [l \in Lists |-> Chain(pos[l])]

Sequences_ == INSTANCE ListSequences WITH items <- items, todo <- todo

(* The links implement sequences: nodes stay in the order they were        *)
(* appended and a walk meets every one of them, whatever is removed from   *)
(* behind it.                                                              *)
ImplementsSequences == Sequences_!Spec
=============================================================================
