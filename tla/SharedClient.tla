---------------------------- MODULE SharedClient ----------------------------
(***************************************************************************)
(* snd_client_cmd_alloc step by step, when several application threads     *)
(* reach it through one client: they Play one buffer, whose client it is,  *)
(* or create buffers of one API object, whose reaper's client              *)
(* reaper_alloc_task uses.  Neither caller takes its lock (both say "TODO  *)
(* implement locking"), so only the application can see to it that they    *)
(* come one at a time.                                                     *)
(*                                                                         *)
(* The pool is a queue_private, linked through `next`; the exhaust queue   *)
(* is taken in one piece (LockFreeQueue).                                  *)
(***************************************************************************)
EXTENDS Naturals, Sequences, FiniteSets, SequencesExt

CONSTANTS
  Threads,
  Commands,     \* the memory for struct snd_command's
  NULL

VARIABLES
  head,       \* cmd_pool->head
  next,       \* next[c]: qitem.next; a command outside any queue has itself
  exhaust,    \* cmds_exhaust, oldest first
  service,    \* submitted, and not exhausted yet
  heap,       \* commands that are not allocated
  pc,         \* where thread t is in snd_client_cmd_alloc
  qi,         \* qi[t]: the local of queue_private_pop, then *out
  taken       \* taken[t]: the chain move_from_shared took, not yet installed

poolVars == <<head, next>>
queueVars == <<exhaust, service, heap>>
vars == <<poolVars, queueVars, pc, qi, taken>>

Init ==
  /\ head = NULL
  /\ next = [c \in Commands |-> c]
  /\ exhaust = <<>>
  /\ service = <<>>
  /\ heap = Commands
  /\ pc = [t \in Threads |-> "idle"]
  /\ qi = [t \in Threads |-> NULL]
  /\ taken = [t \in Threads |-> <<>>]

Goto(t, label) == pc' = [pc EXCEPT ![t] = label]

-----------------------------------------------------------------------------
(* queue_private_is_empty                                                  *)
Call(t) ==
  /\ pc[t] = "idle"
  /\ Goto(t, IF head = NULL THEN "take" ELSE "pop")
  /\ UNCHANGED <<poolVars, queueVars, qi, taken>>

(* queue_private_move_from_shared, up to the exchange                      *)
Take(t) ==
  /\ pc[t] = "take"
  /\ taken' = [taken EXCEPT ![t] = exhaust]
  /\ exhaust' = <<>>
  /\ Goto(t, "install")
  /\ UNCHANGED <<poolVars, service, heap, qi>>

(* qitem_chain_reverse, on a chain nobody else can reach                   *)
Linked(chain) ==
  [c \in Commands |->
     IF ~Contains(chain, c) THEN next[c]
     ELSE IF c = Last(chain) THEN NULL
     ELSE chain[CHOOSE n \in 2..Len(chain) : chain[n - 1] = c]]

(* qp->head = qitem_chain_reverse(tail)                                    *)
Install(t) ==
  /\ pc[t] = "install"
  /\ head' = IF taken[t] = <<>> THEN NULL ELSE Head(taken[t])
  /\ next' = Linked(taken[t])
  /\ taken' = [taken EXCEPT ![t] = <<>>]
  /\ Goto(t, "pop")
  /\ UNCHANGED <<queueVars, qi>>

(* queue_private_pop: qi = qp->head                                        *)
ReadHead(t) ==
  /\ pc[t] = "pop"
  /\ qi' = [qi EXCEPT ![t] = head]
  /\ Goto(t, IF head = NULL THEN "new" ELSE "unlink")
  /\ UNCHANGED <<poolVars, queueVars, taken>>

(* qp->head = qi->next                                                     *)
Unlink(t) ==
  /\ pc[t] = "unlink"
  /\ head' = next[qi[t]]
  /\ Goto(t, "clear")
  /\ UNCHANGED <<next, queueVars, qi, taken>>

(* qi->next = qi, then snd_command_clear                                   *)
Clear(t) ==
  /\ pc[t] = "clear"
  /\ next' = [next EXCEPT ![qi[t]] = qi[t]]
  /\ Goto(t, "got")
  /\ UNCHANGED <<head, queueVars, qi, taken>>

(* snd_command_alloc, which may give nothing                               *)
New(t) ==
  /\ pc[t] = "new"
  /\ \/ \E c \in heap :
          /\ heap' = heap \ {c}
          /\ qi' = [qi EXCEPT ![t] = c]
          /\ next' = [next EXCEPT ![c] = c]
          /\ Goto(t, "got")
     \/ Goto(t, "idle") /\ UNCHANGED <<heap, qi, next>>
  /\ UNCHANGED <<head, exhaust, service, taken>>

(* snd_client_cmd_submit                                                   *)
Submit(t) ==
  /\ pc[t] = "got"
  /\ service' = Append(service, qi[t])
  /\ qi' = [qi EXCEPT ![t] = NULL]
  /\ Goto(t, "idle")
  /\ UNCHANGED <<poolVars, exhaust, heap, taken>>

(* A period of the audio thread (SndService).                              *)
Period ==
  /\ service # <<>>
  /\ exhaust' = exhaust \o service
  /\ service' = <<>>
  /\ UNCHANGED <<poolVars, heap, pc, qi, taken>>

Next ==
  \/ \E t \in Threads :
       \/ Call(t)
       \/ Take(t)
       \/ Install(t)
       \/ ReadHead(t)
       \/ Unlink(t)
       \/ Clear(t)
       \/ New(t)
       \/ Submit(t)
  \/ Period

Spec == Init /\ [][Next]_vars
-----------------------------------------------------------------------------
Holds(t, c) == pc[t] \in {"clear", "got"} /\ qi[t] = c

(* A command that snd_client_cmd_alloc gives to one thread it gives to no  *)
(* other: "we can safely pop from that private pool".                      *)
OneTaker ==
  \A t, u \in Threads : \A c \in Commands : Holds(t, c) /\ Holds(u, c) => t = u
=============================================================================
