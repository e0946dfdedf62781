------------------------------ MODULE Creation ------------------------------
(***************************************************************************)
(* Making and unmaking buffers step by step (ds_api_create_sound_buffer,   *)
(* ds_api_duplicate_sound_buffer, ds_buffer_alloc, reaper_alloc_task): every*)
(* allocation may fail, and several threads create, duplicate, share and   *)
(* release at once.  Lifetime takes a creation for one step that succeeds; *)
(* this module is about what happens inside it.                            *)
(***************************************************************************)
EXTENDS Sequences, FiniteSets, Naturals

CONSTANTS
  Threads,
  Buffers,
  Api,      \* the ds_api object
  Nobody,
  MayFail   \* the steps of a creation that may fail

Failures == {"client", "self", "size", "samples", "stream", "task", "command"}

ASSUME CreationAssumption ==
  /\ IsFiniteSet(Threads)
  /\ IsFiniteSet(Buffers)
  /\ Api \notin Buffers
  /\ Nobody \notin Buffers \cup {Api}
  /\ MayFail \subseteq Failures

Objects == Buffers \cup {Api}
Parts == {"self", "client", "samples", "stream", "task"}

VARIABLES
  heap,     \* what is allocated: <<part, b>> is a part of buffer b
  primary,  \* the buffers that are ds_buffer_pri objects
  rc,       \* rc[x]: the reference count of x
  parent,   \* parent[b]: the object b has a reference on, Nobody if none
  buf,      \* buf[b]: the buffer whose samples b's stream plays
  tasks,    \* the reaper's tasks, first submitted first
  held,     \* held[t]: the objects thread t holds a reference on
  call,     \* call[t]: where thread t is: [at, new, src]
  failed    \* the assertion that stopped the program, "none" if none did

vars == <<heap, primary, rc, parent, buf, tasks, held, call, failed>>

Labels == {"idle", "destroy", "notify", "return", "shutdown"} \cup Failures

Idle(t) == call[t].at = "idle" /\ failed = "none"
At(t, label) == call[t].at = label /\ failed = "none"
NoCall == [at |-> "idle", new |-> Nobody, src |-> Nobody]
Goto(t, label) == call' = [call EXCEPT ![t].at = label]

Has(b, part) == <<part, b>> \in heap
Allocated(b) == \E part \in Parts : Has(b, part)
Unused(b) == ~Allocated(b) /\ \A t \in Threads : call[t].new # b

(* DirectSoundCreate8 has returned to one thread.                          *)
Init ==
  /\ heap = {}
  /\ primary = {}
  /\ rc = [x \in Objects |-> IF x = Api THEN 1 ELSE 0]
  /\ parent = [b \in Buffers |-> Nobody]
  /\ buf = [b \in Buffers |-> b]
  /\ tasks = <<>>
  /\ \E t \in Threads : held = [u \in Threads |-> IF u = t THEN {Api} ELSE {}]
  /\ call = [t \in Threads |-> NoCall]
  /\ failed = "none"

-----------------------------------------------------------------------------
(* Creation                                                                *)

(* ds_api_create_sound_buffer_sec                                          *)
Create(t, b) ==
  /\ Idle(t)
  /\ Api \in held[t]
  /\ Unused(b)
  /\ call' = [call EXCEPT ![t] = [at |-> "client", new |-> b, src |-> Nobody]]
  /\ UNCHANGED <<heap, primary, rc, parent, buf, tasks, held, failed>>

(* ds_api_duplicate_sound_buffer: the source is referenced for the length  *)
(* of the call; a buffer of another kind, the primary one among them, is   *)
(* refused.                                                                *)
Duplicate(t, b, src) ==
  /\ Idle(t)
  /\ {Api, src} \subseteq held[t]
  /\ src \notin primary
  /\ Unused(b)
  /\ rc' = [rc EXCEPT ![src] = @ + 1]
  /\ call' = [call EXCEPT ![t] = [at |-> "client", new |-> b, src |-> src]]
  /\ UNCHANGED <<heap, primary, parent, buf, tasks, held, failed>>

(* wasapi_snd_client_alloc, and the reference on the parent that becomes   *)
(* an argument of ds_buffer_alloc.                                         *)
AllocClient(t) ==
  LET b == call[t].new
      par == IF call[t].src = Nobody THEN Api ELSE call[t].src IN
  /\ At(t, "client")
  /\ heap' = heap \cup {<<"client", b>>}
  /\ parent' = [parent EXCEPT ![b] = par]
  /\ rc' = [rc EXCEPT ![par] = @ + 1]
  /\ Goto(t, "self")
  /\ UNCHANGED <<primary, buf, tasks, held, failed>>

(* No client: there is nothing to take back yet.                           *)
NoClient(t) ==
  /\ At(t, "client")
  /\ "client" \in MayFail
  /\ Goto(t, "return")
  /\ UNCHANGED <<heap, primary, rc, parent, buf, tasks, held, failed>>

AllocSelf(t) ==
  LET b == call[t].new IN
  /\ At(t, "self")
  /\ heap' = heap \cup {<<"self", b>>}
  /\ rc' = [rc EXCEPT ![b] = 1]
  /\ Goto(t, "size")
  /\ UNCHANGED <<primary, parent, buf, tasks, held, failed>>

(* Faulty NoSelf: the client is forgotten.                                 *)
NoSelfKeepsClient(t) ==
  LET b == call[t].new IN
  /\ At(t, "self")
  /\ "self" \in MayFail
  /\ rc' = [rc EXCEPT ![parent[b]] = @ - 1]
  /\ parent' = [parent EXCEPT ![b] = Nobody]
  /\ Goto(t, "return")
  /\ UNCHANGED <<heap, primary, buf, tasks, held, failed>>

(* Faulty NoSelf: as on the early return for an unsupported system format, *)
(* the parent is not notified.                                             *)
NoSelfNoNotify(t) ==
  LET b == call[t].new IN
  /\ At(t, "self")
  /\ "self" \in MayFail
  /\ heap' = heap \ {<<"client", b>>}
  /\ parent' = [parent EXCEPT ![b] = Nobody]
  /\ Goto(t, "return")
  /\ UNCHANGED <<primary, rc, buf, tasks, held, failed>>

(* No object: the parent is notified and the client freed.                 *)
NoSelf(t) ==
  LET b == call[t].new IN
  /\ At(t, "self")
  /\ "self" \in MayFail
  /\ heap' = heap \ {<<"client", b>>}
  /\ rc' = [rc EXCEPT ![parent[b]] = @ - 1]
  /\ parent' = [parent EXCEPT ![b] = Nobody]
  /\ Goto(t, "return")
  /\ UNCHANGED <<primary, buf, tasks, held, failed>>

(* converter_calculate_dest_nbytes; the samples of a duplicate are there   *)
(* already.                                                                *)
Size(t) ==
  /\ At(t, "size")
  /\ Goto(t, IF call[t].src = Nobody THEN "samples" ELSE "stream")
  /\ buf' = [buf EXCEPT ![call[t].new] = IF call[t].src = Nobody THEN @ ELSE buf[call[t].src]]
  /\ UNCHANGED <<heap, primary, rc, parent, tasks, held, failed>>

(* snd_buffer_alloc, snd_stream_alloc, the calloc of reaper_alloc_task: one*)
(* allocation after another.                                               *)
AllocPart(t, part, next) ==
  /\ At(t, part)
  /\ heap' = heap \cup {<<part, call[t].new>>}
  /\ Goto(t, next)
  /\ UNCHANGED <<primary, rc, parent, buf, tasks, held, failed>>

(* Once there is an object, a failure is unwound by ds_buffer_unref, which *)
(* submits a reaper task that does not exist; without a command,           *)
(* reaper_task_discard first meets a node that was never initialised.      *)
Unwind(t, step) ==
  /\ At(t, step)
  /\ step \in MayFail \ {"client", "self"}
  /\ failed' = CASE step \in {"size", "samples", "stream"} -> "reaper != NULL"
                 [] step = "task" -> "task != NULL"
                 [] step = "command" -> "!list_node_is_inserted(node)"
  /\ UNCHANGED <<heap, primary, rc, parent, buf, tasks, held, call>>

(* The command is there, and the object is committed to and handed out.    *)
Commit(t) ==
  /\ At(t, "command")
  /\ held' = [held EXCEPT ![t] = @ \cup {call[t].new}]
  /\ Goto(t, "return")
  /\ UNCHANGED <<heap, primary, rc, parent, buf, tasks, failed>>

(* The end of the call: a source is released.                              *)
Return(t) ==
  /\ At(t, "return")
  /\ rc' = [x \in Objects |-> IF x = call[t].src THEN rc[x] - 1 ELSE rc[x]]
  /\ call' = [call EXCEPT ![t] = NoCall]
  /\ UNCHANGED <<heap, primary, parent, buf, tasks, held, failed>>

(* ds_api_create_sound_buffer_pri: an object of one part that references   *)
(* nothing.  It is allocated with a reference and given out with another.  *)
CreatePrimary(t, b) ==
  /\ Idle(t)
  /\ Api \in held[t]
  /\ Unused(b)
  /\ heap' = heap \cup {<<"self", b>>}
  /\ primary' = primary \cup {b}
  /\ rc' = [rc EXCEPT ![b] = 2]
  /\ held' = [held EXCEPT ![t] = @ \cup {b}]
  /\ UNCHANGED <<parent, buf, tasks, call, failed>>

-----------------------------------------------------------------------------
(* Sharing and releasing                                                   *)

(* AddRef, for another thread to release.                                  *)
AddRef(t, x, u) ==
  /\ Idle(t)
  /\ x \in held[t]
  /\ x \notin held[u]
  /\ rc' = [rc EXCEPT ![x] = @ + 1]
  /\ held' = [held EXCEPT ![u] = @ \cup {x}]
  /\ UNCHANGED <<heap, primary, parent, buf, tasks, call, failed>>

(* What comes after the count of x has gone down by one.                   *)
Continue(t, x) ==
  call' = [call EXCEPT ![t] =
    IF rc[x] > 1 \/ x \in primary THEN NoCall
    ELSE IF x = Api THEN [NoCall EXCEPT !.at = "shutdown"]
    ELSE [NoCall EXCEPT !.at = "destroy", !.new = x]]

(* Release, of the API object, of a secondary or of a primary buffer.      *)
Release(t, x) ==
  /\ Idle(t)
  /\ x \in held[t]
  /\ held' = [held EXCEPT ![t] = @ \ {x}]
  /\ rc' = [rc EXCEPT ![x] = @ - 1]
  /\ heap' = IF x \in primary /\ rc[x] = 1 THEN heap \ {<<"self", x>>} ELSE heap
  /\ primary' = IF rc[x] = 1 THEN primary \ {x} ELSE primary
  /\ Continue(t, x)
  /\ UNCHANGED <<parent, buf, tasks, failed>>

(* Faulty Destroy: the task goes to the front of the reaper's list.        *)
DestroyFirst(t) ==
  LET b == call[t].new IN
  /\ At(t, "destroy")
  /\ heap' = heap \ {<<"client", b>>}
  /\ tasks' = <<b>> \o tasks
  /\ Goto(t, "notify")
  /\ UNCHANGED <<primary, rc, parent, buf, held, failed>>

(* ds_buffer_unref, the last one: the client is freed and the task, with   *)
(* the stream and the samples of a buffer that owns them, submitted.       *)
Destroy(t) ==
  LET b == call[t].new IN
  /\ At(t, "destroy")
  /\ heap' = heap \ {<<"client", b>>}
  /\ tasks' = Append(tasks, b)
  /\ Goto(t, "notify")
  /\ UNCHANGED <<primary, rc, parent, buf, held, failed>>

(* ... and the parent notified, which may be its last reference too.       *)
Notify(t) ==
  LET b == call[t].new
      par == parent[b] IN
  /\ At(t, "notify")
  /\ rc' = [rc EXCEPT ![par] = @ - 1]
  /\ parent' = [parent EXCEPT ![b] = Nobody]
  /\ heap' = heap \ {<<"self", b>>}
  /\ Continue(t, par)
  /\ UNCHANGED <<primary, buf, tasks, held, failed>>

(* The reaper, once the audio thread is past a task's fence.               *)
Reap ==
  /\ failed = "none"
  /\ tasks # <<>>
  /\ LET b == Head(tasks) IN
     /\ heap' = heap \ {<<"stream", b>>, <<"samples", b>>, <<"task", b>>}
     /\ buf' = [buf EXCEPT ![b] = b]
  /\ tasks' = Tail(tasks)
  /\ UNCHANGED <<primary, rc, parent, held, call, failed>>

(* The last ds_api_unref returns when the reaper has nothing left to free. *)
Shutdown(t) ==
  /\ At(t, "shutdown")
  /\ tasks = <<>>
  /\ call' = [call EXCEPT ![t] = NoCall]
  /\ UNCHANGED <<heap, primary, rc, parent, buf, tasks, held, failed>>

(* What the application's threads do, inside their calls and between.      *)
Calls ==
  \E t \in Threads :
    \/ \E b \in Buffers : Create(t, b)
    \/ \E b, src \in Buffers : Duplicate(t, b, src)
    \/ \E b \in Buffers : CreatePrimary(t, b)
    \/ AllocClient(t)
    \/ NoClient(t)
    \/ AllocSelf(t)
    \/ NoSelf(t)
    \/ Size(t)
    \/ AllocPart(t, "samples", "stream")
    \/ AllocPart(t, "stream", "task")
    \/ AllocPart(t, "task", "command")
    \/ \E what \in Failures : Unwind(t, what)
    \/ Commit(t)
    \/ Return(t)
    \/ \E x \in Objects, u \in Threads : AddRef(t, x, u)
    \/ \E x \in Objects : Release(t, x)
    \/ Destroy(t)
    \/ Notify(t)

Next == Calls \/ Reap \/ \E t \in Threads : Shutdown(t)

Spec == Init /\ [][Next]_vars

-----------------------------------------------------------------------------
(* Properties                                                              *)

TypeOK ==
  /\ heap \subseteq Parts \X Buffers
  /\ primary \subseteq Buffers
  /\ rc \in [Objects -> Nat]
  /\ parent \in [Buffers -> Objects \cup {Nobody}]
  /\ buf \in [Buffers -> Buffers]
  /\ tasks \in Seq(Buffers)
  /\ held \in [Threads -> SUBSET Objects]
  /\ call \in [Threads ->
       [at : Labels, new : Buffers \cup {Nobody}, src : Buffers \cup {Nobody}]]
  /\ failed \in {"none", "reaper != NULL", "task != NULL", "!list_node_is_inserted(node)"}

(* The references there are on x: the threads that hold it, the buffers    *)
(* made from it, the duplications that play from it in progress and the    *)
(* creation of it in progress.                                             *)
HeldBy(x) == {t \in Threads : x \in held[t]}
Children(x) == {b \in Buffers : parent[b] = x}
Copying(x) == {t \in Threads : call[t].src = x}
Making(x) == {t \in Threads : call[t].new = x /\ call[t].at \in Failures /\ Has(x, "self")}

(* Every count is what these come to, plus one that nobody holds for a     *)
(* primary buffer: no release, then, destroys an object somebody holds, and*)
(* a primary buffer outlives its last release.                             *)
CountsMatch ==
  \A x \in Objects :
    rc[x] = Cardinality(HeldBy(x)) + Cardinality(Children(x)) + Cardinality(Copying(x))
          + Cardinality(Making(x)) + (IF x \in primary THEN 1 ELSE 0)

Pending(b) == \E i \in DOMAIN tasks : tasks[i] = b
Live(b) == rc[b] > 0

(* A creation happens or does not: unless a thread is in the middle of     *)
(* making or destroying b, what is allocated of b is the parts of a live   *)
(* buffer, and what the reaper has still to free.  That covers a creation  *)
(* that fails for want of a client or of the object, and what every other  *)
(* thread does meanwhile; one that fails later stops the program at that   *)
(* step and never gets out of the middle.                                  *)
AllOrNothing ==
  \A b \in Buffers : (\A t \in Threads : call[t].new = b => call[t].at = "return") =>
    /\ Has(b, "self") <=> Live(b)
    /\ Has(b, "client") <=> Live(b) /\ b \notin primary
    /\ Has(b, "task") <=> Has(b, "client") \/ Pending(b)
    /\ Has(b, "stream") <=> Has(b, "task")
    /\ Has(b, "samples") <=> Has(b, "stream") /\ buf[b] = b

(* As long as a stream exists, the samples it plays do, whoever releases   *)
(* their owner while a duplicate is being made or destroyed.               *)
SamplesOutliveStreams ==
  \A b \in Buffers : Has(b, "stream") => Has(buf[b], "samples")
=============================================================================
