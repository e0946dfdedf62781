------------------------------ MODULE Lifetime ------------------------------
(***************************************************************************)
(* The whole library as far as lifetimes go: application threads create,   *)
(* duplicate, share, use and release sound buffers (ds-api.c, ds-buffer.c) *)
(* while the audio thread mixes and the reaper thread frees; the last      *)
(* release takes everything down.                                          *)
(*                                                                         *)
(* Every object is reference counted and a buffer holds a reference on its *)
(* parent: the API object, or the buffer it duplicates.  A thread holds at *)
(* most one reference on an object at a time.  Creation is modelled when   *)
(* it succeeds.                                                            *)
(***************************************************************************)
EXTENDS Reaper

CONSTANTS
  Threads,
  Api,         \* the ds_api object
  Uses,        \* the commands the application gives, of the three there are
  MaxPending   \* bound: no more is submitted on an intake queue this long

ASSUME LifetimeAssumption ==
  /\ Api \notin Buffers
  /\ IsFiniteSet(Threads)
  /\ IsFiniteSet(Buffers)
  /\ Uses \subseteq {"play", "stop", "set_volume"}
  /\ MaxPending \in Nat

VARIABLES
  rc,      \* rc[x]: the reference count of object x
  parent,  \* parent[b]: what dtor_notify of buffer b releases
  held,    \* held[t]: the objects thread t holds a reference on
  call     \* call[t]: where thread t is inside a Release: [at, on]

appVars == <<rc, parent, held, call>>
vars == <<pipeVars, audioVars, resourceVars, reaperVars, appVars>>

Objects == Buffers \cup {Api}

(* "submit": about to give b's task to the reaper; "unref": about to       *)
(* release a destroyed buffer's parent; the others are the steps of the    *)
(* last ds_api_unref.                                                      *)
CallLabels ==
  {"none", "submit", "unref", "stop_reaper", "join_reaper", "stop_audio", "join_audio"}

NoCall == [at |-> "none", on |-> Api]
Idle(t) == call[t] = NoCall

(* DirectSoundCreate8 has just returned to one thread.                     *)
Init ==
  /\ ReaperInit
  /\ rc = [x \in Objects |-> IF x = Api THEN 1 ELSE 0]
  /\ parent = [b \in Buffers |-> Api]
  /\ \E t \in Threads : held = [u \in Threads |-> IF u = t THEN {Api} ELSE {}]
  /\ call = [t \in Threads |-> NoCall]

-----------------------------------------------------------------------------
(* Creating and using                                                      *)

(* Faulty Alloc: the parent is not referenced.                             *)
AllocUncounted(t, b, par) ==
  /\ Idle(t)
  /\ Api \in held[t]
  /\ stm[b] = "none"
  /\ stm' = [stm EXCEPT ![b] = "live"]
  /\ rc' = [rc EXCEPT ![b] = 1]
  /\ parent' = [parent EXCEPT ![b] = par]
  /\ held' = [held EXCEPT ![t] = @ \cup {b}]
  /\ UNCHANGED <<pipeVars, audioVars, reaperVars, call>>

(* The part of ds_buffer_alloc that creation and duplication share.        *)
Alloc(t, b, par) ==
  /\ Idle(t)
  /\ Api \in held[t]
  /\ stm[b] = "none"
  /\ stm' = [stm EXCEPT ![b] = "live"]
  /\ rc' = [rc EXCEPT ![b] = 1, ![par] = rc[par] + 1]
  /\ parent' = [parent EXCEPT ![b] = par]
  /\ held' = [held EXCEPT ![t] = @ \cup {b}]
  /\ UNCHANGED <<pipeVars, audioVars, reaperVars, call>>

(* ds_api_create_sound_buffer_sec *)
Create(t, b) ==
  /\ Alloc(t, b, Api)
  /\ samples' = [samples EXCEPT ![b] = "live"]
  /\ sbuf' = [sbuf EXCEPT ![b] = b]

(* Faulty Duplicate: the reference goes to the API object, like that of any*)
(* other buffer.                                                           *)
DuplicateOfApi(t, b, src) ==
  /\ src \in held[t]
  /\ Alloc(t, b, Api)
  /\ sbuf' = [sbuf EXCEPT ![b] = sbuf[src]]
  /\ UNCHANGED samples

(* ds_api_duplicate_sound_buffer: the samples are the source's.            *)
Duplicate(t, b, src) ==
  /\ src \in held[t]
  /\ Alloc(t, b, src)
  /\ sbuf' = [sbuf EXCEPT ![b] = sbuf[src]]
  /\ UNCHANGED samples

(* Faulty AddRef: the increment is lost, as one that is not atomic may be. *)
AddRefLost(t, x, u) ==
  /\ Idle(t)
  /\ x \in held[t]
  /\ x \notin held[u]
  /\ held' = [held EXCEPT ![u] = @ \cup {x}]
  /\ UNCHANGED <<pipeVars, audioVars, resourceVars, reaperVars, rc, parent, call>>

(* AddRef on an object, for another thread to release.                     *)
AddRef(t, x, u) ==
  /\ Idle(t)
  /\ x \in held[t]
  /\ x \notin held[u]
  /\ rc' = [rc EXCEPT ![x] = @ + 1]
  /\ held' = [held EXCEPT ![u] = @ \cup {x}]
  /\ UNCHANGED <<pipeVars, audioVars, resourceVars, reaperVars, parent, call>>

(* ds_buffer_play, ds_buffer_stop, ds_buffer_set_volume.                   *)
Use(t, b, type) ==
  /\ Idle(t)
  /\ b \in held[t]
  /\ Len(intake) < MaxPending
  /\ Submit([type |-> type, stm |-> b, callback |-> FALSE])
  /\ UNCHANGED <<audioVars, resourceVars, reaperVars, appVars>>

-----------------------------------------------------------------------------
(* Releasing                                                               *)

(* refcount_dec, and what comes next if that was the last reference.       *)
Unref(t, x) ==
  /\ rc' = [rc EXCEPT ![x] = @ - 1]
  /\ call' = [call EXCEPT ![t] =
       IF rc[x] > 1 THEN NoCall
       ELSE IF x = Api THEN [at |-> "stop_reaper", on |-> Api]
       ELSE [at |-> "submit", on |-> x]]

(* Release, by an application thread.                                      *)
Release(t, x) ==
  /\ Idle(t)
  /\ x \in held[t]
  /\ held' = [held EXCEPT ![t] = @ \ {x}]
  /\ Unref(t, x)
  /\ UNCHANGED <<pipeVars, audioVars, resourceVars, reaperVars, parent>>

(* The rest of ds_buffer_unref: the task goes to the reaper, then the      *)
(* parent loses a reference.                                               *)
Retire(t) ==
  /\ call[t].at = "submit"
  /\ SubmitTask(call[t].on)
  /\ call' = [call EXCEPT ![t] = [at |-> "unref", on |-> parent[call[t].on]]]
  /\ UNCHANGED <<pipeVars, audioVars, resourceVars, rc, parent, held>>

UnrefParent(t) ==
  /\ call[t].at = "unref"
  /\ Unref(t, call[t].on)
  /\ UNCHANGED <<pipeVars, audioVars, resourceVars, reaperVars, parent, held>>

-----------------------------------------------------------------------------
(* The last ds_api_unref: reaper_free, then wasapi_free.                   *)

CallNext(t, from, to) ==
  /\ call[t].at = from
  /\ call' = [call EXCEPT ![t] = [at |-> to, on |-> Api]]
  /\ UNCHANGED <<rc, parent, held>>

StopReaper(t) ==
  /\ CallNext(t, "stop_reaper", "join_reaper")
  /\ RaiseStop
  /\ UNCHANGED <<pipeVars, audioVars, resourceVars>>

JoinReaper(t) ==
  /\ rpc = "exited"
  /\ CallNext(t, "join_reaper", "stop_audio")
  /\ UNCHANGED <<pipeVars, audioVars, resourceVars, reaperVars>>

StopAudio(t) ==
  /\ CallNext(t, "stop_audio", "join_audio")
  /\ audioStop' = TRUE
  /\ UNCHANGED <<pipeVars, audio, mixing, resourceVars, reaperVars>>

(* snd_service_free frees the commands nobody took.                        *)
JoinAudio(t) ==
  /\ audio = "exited"
  /\ CallNext(t, "join_audio", "none")
  /\ intake' = <<>>
  /\ UNCHANGED <<chamber, iter, phase, audioVars, resourceVars, reaperVars>>

-----------------------------------------------------------------------------
(* The library is gone: nobody refers to it and its threads have exited.   *)
Down ==
  /\ rc[Api] = 0
  /\ \A t \in Threads : Idle(t)

Done == Down /\ UNCHANGED vars

AppBegins(t) ==
  \/ \E b \in Buffers :
       \/ Create(t, b)
       \/ \E src \in Buffers : Duplicate(t, b, src)
       \/ \E type \in Uses : Use(t, b, type)
  \/ \E x \in Objects :
       \/ Release(t, x)
       \/ \E u \in Threads : AddRef(t, x, u)

AppContinues(t) ==
  \/ Retire(t)
  \/ UnrefParent(t)
  \/ StopReaper(t)
  \/ JoinReaper(t)
  \/ StopAudio(t)
  \/ JoinAudio(t)

SystemStep == (AudioStep \/ AudioFail \/ ReaperStep \/ SpuriousWake) /\ UNCHANGED appVars

Next ==
  \/ SystemStep
  \/ \E t \in Threads : AppBegins(t) \/ AppContinues(t)
  \/ Done

(* Threads are scheduled: a call begun goes on, the audio thread is given  *)
(* its periods, the reaper runs when it can.  The application need not do  *)
(* anything, no wake is spurious by duty and no device has to fail.        *)
Fairness ==
  /\ WF_vars(AudioStep /\ UNCHANGED appVars)
  /\ WF_vars(ReaperStep /\ UNCHANGED appVars)
  /\ \A t \in Threads : WF_vars(AppContinues(t))

Spec == Init /\ [][Next]_vars /\ Fairness
-----------------------------------------------------------------------------
TypeOK ==
  /\ PipeTypeOK
  /\ audio \in {"running", "exited"}
  /\ audioStop \in BOOLEAN
  /\ mixing \in SUBSET Buffers
  /\ stm \in [Buffers -> Lives]
  /\ samples \in [Buffers -> Lives]
  /\ sbuf \in [Buffers -> Buffers]
  /\ tasks_pending \in Seq(Buffers)
  /\ tasks \in Seq(Buffers)
  /\ task \in 1..(Len(tasks) + 1)
  /\ rpc \in ReaperLabels
  /\ stop \in BOOLEAN
  /\ stopping \in BOOLEAN
  /\ fence \in BOOLEAN
  /\ rc \in [Objects -> Nat]
  /\ parent \in [Buffers -> Objects]
  /\ held \in [Threads -> SUBSET Objects]
  /\ call \in [Threads -> [at : CallLabels, on : Objects]]
  /\ rpc = "submit" => task <= Len(tasks)
  /\ \A t \in Threads : call[t].at = "submit" => call[t].on \in Buffers

(* The streams the audio thread has been told about and may yet touch.     *)
Pending ==
  {intake[n].stm : n \in 1..Len(intake)}
  \cup (IF phase = "exec" THEN {chamber[n].stm : n \in iter..Len(chamber)} ELSE {})

(* The audio thread never touches a stream that has been freed: not        *)
(* through the list of the mixer, not through a command that waits to be   *)
(* executed (the design of reaper.c, its "safe to proceed").               *)
NoStreamUsedAfterFree == \A b \in mixing \cup Pending : stm[b] = "live"

(* Nor the samples such a stream reads, which another buffer may own and   *)
(* whose task may come first (ds_api_duplicate_sound_buffer).              *)
NoSamplesUsedAfterFree == \A b \in mixing \cup Pending : samples[sbuf[b]] = "live"

(* A stream whose memory, and the memory of its samples, is there.         *)
Readable(b) == stm[b] = "live" /\ samples[sbuf[b]] = "live"

(* Nor does an application thread: what it holds, and what a Release in    *)
(* progress still goes to, is referenced, and so is the API object with    *)
(* the reaper in it (the dtor_notify chain of ds_buffer_unref).            *)
CallersSafe ==
  \A t \in Threads :
    /\ \A x \in held[t] : rc[x] > 0 /\ (x # Api => Readable(x))
    /\ call[t].at = "submit" =>
         /\ rc[call[t].on] = 0
         /\ rc[parent[call[t].on]] > 0
         /\ rc[Api] > 0
         /\ Readable(call[t].on)
    /\ call[t].at = "unref" => rc[call[t].on] > 0 /\ rc[Api] > 0

(* The fence is signalled only for the batch being waited for, and then no *)
(* stream of that batch is mixed or about to be: a fence left signalled    *)
(* would let the next batch through at once (ResetEvent in                 *)
(* reaper_thread_submit_commands).                                         *)
FenceMeansQuiesced ==
  fence => /\ rpc \in {"fence", "reset"}
           /\ \A n \in 1..Len(tasks) : tasks[n] \notin mixing \cup Pending

(* The assertions of reaper_free: when the thread has exited no task is    *)
(* left, so everything that was released has been freed.                   *)
ReaperExitClean ==
  rpc = "exited" => /\ tasks = <<>>
                    /\ tasks_pending = <<>>
                    /\ \A b \in Buffers : stm[b] # "live" /\ samples[b] # "live"

(* "No new tasks could have come in since the stop flag was raised":       *)
(* the reason reaper_thread_main may leave its loop without looking again. *)
NoTasksAfterStop ==
  [][stop => Len(tasks_pending') <= Len(tasks_pending)]_vars

-----------------------------------------------------------------------------
(* Why no freed stream is used: an inductive invariant.                    *)

(* The holders of a reference on x: threads, Releases under way, and the   *)
(* buffers with parent x until their own Release reaches it.               *)
HeldBy(x) == {t \in Threads : x \in held[t]}
Unreffing(x) == {t \in Threads : call[t] = [at |-> "unref", on |-> x]}
Retiring(b) == {t \in Threads : call[t] = [at |-> "submit", on |-> b]}
Children(x) ==
  {b \in Buffers : /\ stm[b] # "none"
                   /\ parent[b] = x
                   /\ rc[b] > 0 \/ Retiring(b) # {}}

Counted ==
  \A x \in Objects :
    rc[x] = Cardinality(HeldBy(x)) + Cardinality(Unreffing(x))
              + Cardinality(Children(x))

(* What is referenced has its stream; what is about to be given to the     *)
(* reaper, or has been, is not referenced, and is given once.              *)
Retired(b) == rc[b] = 0 /\ stm[b] = "live"

ReferencedLives == \A b \in Buffers : rc[b] > 0 => stm[b] = "live"

RetiringOnce ==
  \A t \in Threads : call[t].at = "submit" =>
    /\ Retired(call[t].on)
    /\ \A u \in Threads : call[u] = call[t] => u = t

QueuedOnce ==
  /\ \A n \in 1..Len(tasks_pending) :
       /\ Retired(tasks_pending[n])
       /\ Retiring(tasks_pending[n]) = {}
       /\ \A m \in 1..Len(tasks_pending) :
            tasks_pending[m] = tasks_pending[n] => m = n
  /\ \A n \in 1..Len(tasks) :
       /\ Retired(tasks[n])
       /\ Retiring(tasks[n]) = {}
       /\ \A m \in 1..Len(tasks) : tasks[m] = tasks[n] => m = n
       /\ \A m \in 1..Len(tasks_pending) : tasks_pending[m] # tasks[n]

(* The commands of the pipe in order, the first still to be executed and   *)
(* the first still to be called back.                                      *)
PipeLen == Len(chamber) + Len(intake)
Cmd(p) == IF p <= Len(chamber) THEN chamber[p] ELSE intake[p - Len(chamber)]
ExecFrom ==
  IF phase = "idle" THEN 1 ELSE IF phase = "exec" THEN iter ELSE Len(chamber) + 1
CallFrom == IF phase = "notify" THEN iter ELSE 1
ToExecute == ExecFrom..PipeLen
ToCall == CallFrom..PipeLen

StreamsLive ==
  /\ \A b \in mixing : stm[b] = "live"
  /\ \A p \in ToExecute : stm[Cmd(p).stm] = "live"

(* One callback is outstanding at most, it is that of the batch waited for,*)
(* and nothing about a stream of the batch comes after it.                 *)
FenceIsLast ==
  \A c \in ToCall : Cmd(c).callback =>
    /\ rpc = "fence"
    /\ ~fence
    /\ \A p \in ToCall : Cmd(p).callback => p = c
    /\ \A p \in ToExecute : \A n \in 1..Len(tasks) : Cmd(p).stm = tasks[n] => p <= c

(* Once the stop of a retired stream has been submitted, nothing starts    *)
(* the stream again after it.                                              *)
StopFollows(b, p) ==
  \E q \in ToExecute : q > p /\ Cmd(q).stm = b /\ Cmd(q).type = "stop"

StopsComeLast ==
  rpc \in {"submit", "fence"} =>
    \A n \in 1..(task - 1) :
      /\ tasks[n] \in mixing => StopFollows(tasks[n], 0)
      /\ \A p \in ToExecute :
           Cmd(p).stm = tasks[n] /\ Cmd(p).type = "play" => StopFollows(tasks[n], p)

FenceState ==
  /\ rpc = "fence" => task = Len(tasks) + 1
  /\ fence => rpc \in {"fence", "reset"}

BatchQuiesced ==
  fence \/ rpc \in {"reset", "destroy"} =>
    \A n \in 1..Len(tasks) :
      /\ tasks[n] \notin mixing
      /\ \A p \in ToExecute : Cmd(p).stm # tasks[n]

(* Between batches there is none.                                          *)
NoBatch == rpc \in {"check", "asleep", "woken", "exited"} => tasks = <<>>

AudioGone == audio = "exited" => phase = "idle" /\ mixing = {}

IInv ==
  /\ TypeOK
  /\ Counted
  /\ ReferencedLives
  /\ RetiringOnce
  /\ QueuedOnce
  /\ StreamsLive
  /\ FenceIsLast
  /\ StopsComeLast
  /\ FenceState
  /\ BatchQuiesced
  /\ NoBatch
  /\ AudioGone

-----------------------------------------------------------------------------
(* The detailed life of buffers and streams is that of Reclamation.  Busy  *)
(* are the streams being mixed and those a submitted play will start.      *)
life ==
  [b \in Buffers |->
     IF stm[b] = "live" /\ rc[b] = 0 THEN "retired" ELSE stm[b]]

busy ==
  mixing
  \cup {intake[n].stm : n \in {m \in 1..Len(intake) : intake[m].type = "play"}}
  \cup (IF phase = "exec"
        THEN {chamber[n].stm :
                n \in {m \in iter..Len(chamber) : chamber[m].type = "play"}}
        ELSE {})

Abstract == INSTANCE Reclamation

(* The reaper reclaims: only what nobody refers to is freed, after every   *)
(* stream that reads the same samples, never while the audio thread may    *)
(* read it; and no released stream is ever started again.                  *)
ImplementsReclamation == Abstract!Spec

-----------------------------------------------------------------------------
(* The audio thread has died of a device that failed: nothing executes the *)
(* commands that were submitted.                                           *)
DeviceFailed == audio = "exited" /\ ~audioStop

(* What is released is freed: no wake-up is lost between reaper_submit_task*)
(* and the reaper's sleep, and every fence comes.  Unless the device fails:*)
(* the reaper waits for its fence without a time-out                       *)
(* (reaper_thread_submit_commands).                                        *)
ReleasedIsFreed ==
  \A b \in Buffers :
    (stm[b] = "live" /\ rc[b] = 0) ~> (stm[b] = "freed" \/ DeviceFailed)

(* The last Release returns: reaper_free and wasapi_free do not wait for   *)
(* ever, with the same exception.                                          *)
ShutdownCompletes == rc[Api] = 0 ~> (Down \/ DeviceFailed)
=============================================================================
