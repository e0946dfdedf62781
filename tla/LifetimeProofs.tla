--------------------------- MODULE LifetimeProofs ---------------------------
(* Theorems about Lifetime, for any number of threads, buffers and pending *)
(* commands, and whether or not the device may fail.  First the references.*)
(* Then the streams: what the commands on their way to the audio thread    *)
(* say, step by step.  Then the samples, which several streams read, the   *)
(* end of the reaper, and the refinement of Reclamation.                   *)
EXTENDS Lifetime, FiniteSetTheorems, WellFoundedInduction, TLAPS

-----------------------------------------------------------------------------
(* The types                                                               *)

LEMMA InitTypeOK == Init => TypeOK
<1> SUFFICES ASSUME Init PROVE TypeOK
  OBVIOUS
<1> USE DEF Init, ReaperInit, PipeInit
<1>1. PipeTypeOK
  BY DEF PipeTypeOK, Phases
<1>2. /\ rc \in [Objects -> Nat]
      /\ parent \in [Buffers -> Objects]
      /\ call \in [Threads -> [at : CallLabels, on : Objects]]
      /\ \A t \in Threads : call[t].at # "submit"
  BY DEF Objects, NoCall, CallLabels
<1>3. held \in [Threads -> SUBSET Objects]
  BY DEF Objects
<1>4. /\ tasks \in Seq(Buffers)
      /\ tasks_pending \in Seq(Buffers)
      /\ task \in 1..(Len(tasks) + 1)
  OBVIOUS
<1>5. /\ stm \in [Buffers -> Lives]
      /\ samples \in [Buffers -> Lives]
      /\ sbuf \in [Buffers -> Buffers]
      /\ rpc \in ReaperLabels /\ rpc # "submit"
      /\ mixing \in SUBSET Buffers
      /\ audio \in {"running", "exited"}
      /\ audioStop \in BOOLEAN /\ stop \in BOOLEAN
      /\ stopping \in BOOLEAN /\ fence \in BOOLEAN
  BY DEF Lives, ReaperLabels
<1> QED
  BY <1>1, <1>2, <1>3, <1>4, <1>5 DEF TypeOK

LEMMA AudioTypeOK ==
  ASSUME TypeOK, AudioStep \/ AudioFail, UNCHANGED appVars
  PROVE  TypeOK'
<1> USE DEF TypeOK, PipeTypeOK, Phases, pipeVars, audioVars, resourceVars,
            reaperVars, taskVars, threadVars, appVars
<1>1. CASE AudioIntake
  BY <1>1 DEF AudioIntake, TakeBatch
<1>2. CASE AudioExecute
  <2>1. chamber[iter] \in Requests
    BY <1>2, ReaperAssumption DEF AudioExecute, Execute, AtCommand
  <2>2. mixing' \in SUBSET Buffers
    BY <1>2, <2>1 DEF AudioExecute, Current, Requests
  <2> QED
    BY <1>2, <2>2 DEF AudioExecute, Execute, AtCommand
<1>3. CASE AudioStartMix
  BY <1>3 DEF AudioStartMix, StartMix
<1>4. CASE AudioMix
  BY <1>4 DEF AudioMix, EndMix
<1>5. CASE AudioNotify
  BY <1>5, ReaperAssumption DEF AudioNotify, Notify, AtCommand, Current, Requests
<1>6. CASE AudioRecycle
  BY <1>6 DEF AudioRecycle, Recycle
<1>7. CASE AudioExit \/ AudioFail
  BY <1>7 DEF AudioExit, AudioFail, Leave
<1> QED
  BY <1>1, <1>2, <1>3, <1>4, <1>5, <1>6, <1>7 DEF AudioStep

LEMMA ReaperTypeOK ==
  ASSUME TypeOK, ReaperStep \/ SpuriousWake, UNCHANGED appVars
  PROVE  TypeOK'
<1> USE DEF TypeOK, PipeTypeOK, Lives, ReaperLabels, pipeVars, audioVars,
            resourceVars, reaperVars, taskVars, threadVars, appVars
<1>1. CASE ReaperSleep \/ SpuriousWake
  BY <1>1 DEF ReaperSleep, SpuriousWake
<1>2. CASE ReaperTake
  BY <1>2 DEF ReaperTake
<1>3. CASE ReaperSubmit
  <2> DEFINE v == [type |-> "stop", stm |-> tasks[task], callback |-> task = Len(tasks)]
  <2>1. v \in Contents
    BY <1>3, ReaperAssumption DEF ReaperSubmit, Requests
  <2> HIDE DEF v
  <2>2. intake' = Append(intake, v) /\ UNCHANGED <<chamber, iter, phase>>
    BY <1>3 DEF ReaperSubmit, Submit, v
  <2>3. PipeTypeOK'
    BY <2>1, <2>2
  <2>4. /\ task' \in 1..(Len(tasks') + 1)
        /\ rpc' \in ReaperLabels
        /\ rpc' = "submit" => task' <= Len(tasks')
    BY <1>3 DEF ReaperSubmit
  <2> QED
    BY <1>3, <2>3, <2>4 DEF ReaperSubmit
<1>4. CASE ReaperWait \/ ReaperReset
  BY <1>4 DEF ReaperWait, ReaperReset
<1>5. CASE ReaperDestroy
  BY <1>5 DEF ReaperDestroy
<1>6. CASE ReaperLoop
  BY <1>6 DEF ReaperLoop
<1> QED
  BY <1>1, <1>2, <1>3, <1>4, <1>5, <1>6 DEF ReaperStep

-----------------------------------------------------------------------------
(* The references                                                          *)

LEMMA PartCardinality ==
  ASSUME NEW S, IsFiniteSet(S), NEW T \in SUBSET S
  PROVE  /\ Cardinality(T) \in Nat
         /\ Cardinality(T) = 0 <=> T = {}
         /\ \A x : x \notin T => Cardinality(T \cup {x}) = Cardinality(T) + 1
         /\ \A x \in T : Cardinality(T \ {x}) = Cardinality(T) - 1
<1>1. IsFiniteSet(T)
  BY FS_Subset
<1> QED
  BY <1>1, FS_CardinalityType, FS_EmptySet, FS_AddElement, FS_RemoveElement

(* The three kinds of holders of x, now and after a step.                  *)
LEMMA HolderParts ==
  ASSUME NEW x
  PROVE  /\ HeldBy(x) \in SUBSET Threads /\ HeldBy(x)' \in SUBSET Threads
         /\ Unreffing(x) \in SUBSET Threads /\ Unreffing(x)' \in SUBSET Threads
         /\ Children(x) \in SUBSET Buffers /\ Children(x)' \in SUBSET Buffers
  BY DEF HeldBy, Unreffing, Children

LEMMA HolderCounts ==
  ASSUME NEW x
  PROVE  /\ Cardinality(HeldBy(x)) \in Nat
         /\ Cardinality(HeldBy(x)) = 0 <=> HeldBy(x) = {}
         /\ Cardinality(Unreffing(x)) \in Nat
         /\ Cardinality(Unreffing(x)) = 0 <=> Unreffing(x) = {}
         /\ Cardinality(Children(x)) \in Nat
         /\ Cardinality(Children(x)) = 0 <=> Children(x) = {}
  BY HolderParts, PartCardinality, LifetimeAssumption

(* A reference count is positive exactly while there is a holder.          *)
LEMMA HolderReferences ==
  ASSUME TypeOK, Counted, NEW x \in Objects
  PROVE  /\ rc[x] > 0 <=> HeldBy(x) \cup Unreffing(x) \cup Children(x) # {}
         /\ \A t \in Threads : x \in held[t] => rc[x] > 0
         /\ \A t \in Threads : call[t] = [at |-> "unref", on |-> x] => rc[x] > 0
<1>1. rc[x] = Cardinality(HeldBy(x)) + Cardinality(Unreffing(x))
                + Cardinality(Children(x))
  BY DEF Counted
<1>2. rc[x] > 0 <=> HeldBy(x) \cup Unreffing(x) \cup Children(x) # {}
  BY <1>1, HolderCounts
<1> QED
  BY <1>2 DEF HeldBy, Unreffing

RefInv == Counted /\ ReferencedLives /\ RetiringOnce /\ QueuedOnce

LEMMA QueuedTypes ==
  ASSUME TypeOK
  PROVE  /\ \A n \in 1..Len(tasks_pending) : tasks_pending[n] \in Buffers
         /\ \A n \in 1..Len(tasks) : tasks[n] \in Buffers
  BY DEF TypeOK

(* A call is known by its label and its object.                            *)
LEMMA CallIs ==
  ASSUME TypeOK, NEW t \in Threads
  PROVE  call[t] = [at |-> call[t].at, on |-> call[t].on]
  BY DEF TypeOK

LEMMA UnrefTypes ==
  ASSUME TypeOK, NEW t \in Threads, NEW x \in Objects, rc[x] > 0, Unref(t, x)
  PROVE  /\ rc' \in [Objects -> Nat]
         /\ call' \in [Threads -> [at : CallLabels, on : Objects]]
         /\ \A u \in Threads : call'[u].at = "submit" => call'[u].on \in Buffers
<1> USE DEF TypeOK, Objects
<1>1. rc' \in [Objects -> Nat]
  BY DEF Unref
<1> DEFINE c == IF rc[x] > 1 THEN NoCall
                ELSE IF x = Api THEN [at |-> "stop_reaper", on |-> Api]
                ELSE [at |-> "submit", on |-> x]
<1>2. c \in [at : CallLabels, on : Objects] /\ (c.at = "submit" => c.on \in Buffers)
  BY DEF NoCall, CallLabels
<1> HIDE DEF c
<1>3. call' = [call EXCEPT ![t] = c]
  BY DEF Unref, c
<1> QED
  BY <1>1, <1>2, <1>3

LEMMA AppTypeOK ==
  ASSUME TypeOK, Counted, NEW t \in Threads, AppBegins(t) \/ AppContinues(t)
  PROVE  TypeOK'
<1> USE DEF pipeVars, audioVars, resourceVars, reaperVars, taskVars, threadVars
<1>1. ASSUME NEW b \in Buffers, NEW par \in Objects, Alloc(t, b, par)
      PROVE  /\ stm' \in [Buffers -> Lives]
             /\ rc' \in [Objects -> Nat]
             /\ parent' \in [Buffers -> Objects]
             /\ held' \in [Threads -> SUBSET Objects]
  <2> USE DEF TypeOK, Objects, Alloc
  <2>1. stm' \in [Buffers -> Lives]
    BY <1>1 DEF Lives
  <2>2. rc' \in [Objects -> Nat]
    <3>1. rc[par] + 1 \in Nat /\ 1 \in Nat /\ b \in Objects
      OBVIOUS
    <3> QED
      BY <1>1, <3>1
  <2>3. parent' \in [Buffers -> Objects]
    BY <1>1
  <2>4. held' \in [Threads -> SUBSET Objects]
    BY <1>1
  <2> QED
    BY <2>1, <2>2, <2>3, <2>4
<1>2. ASSUME NEW b \in Buffers, Create(t, b) PROVE TypeOK'
  BY <1>1, <1>2 DEF Create, Alloc, TypeOK, PipeTypeOK, Lives, Objects
<1>3. ASSUME NEW b \in Buffers, NEW src \in Buffers, Duplicate(t, b, src) PROVE TypeOK'
  BY <1>1, <1>3 DEF Duplicate, Alloc, TypeOK, PipeTypeOK, Objects
<1>4. ASSUME NEW b \in Buffers, NEW type \in Uses, Use(t, b, type) PROVE TypeOK'
  <2> DEFINE v == [type |-> type, stm |-> b, callback |-> FALSE]
  <2>1. v \in Contents
    BY ReaperAssumption, LifetimeAssumption DEF Requests
  <2> HIDE DEF v
  <2>2. intake' = Append(intake, v) /\ UNCHANGED <<chamber, iter, phase>>
    BY <1>4 DEF Use, Submit, v
  <2>3. PipeTypeOK'
    BY <2>1, <2>2 DEF TypeOK, PipeTypeOK
  <2> QED
    BY <1>4, <2>3 DEF Use, TypeOK, appVars
<1>5. ASSUME NEW x \in Objects, Release(t, x) PROVE TypeOK'
  <2>1. rc[x] > 0
    BY <1>5, HolderReferences DEF Release
  <2>2. held' \in [Threads -> SUBSET Objects]
    BY <1>5 DEF Release, TypeOK
  <2> QED
    BY <1>5, <2>1, <2>2, UnrefTypes DEF Release, TypeOK, PipeTypeOK
<1>6. ASSUME NEW x \in Objects, NEW u \in Threads, AddRef(t, x, u) PROVE TypeOK'
  <2>1. rc' \in [Objects -> Nat] /\ held' \in [Threads -> SUBSET Objects]
    BY <1>6 DEF AddRef, TypeOK
  <2> QED
    BY <1>6, <2>1 DEF AddRef, TypeOK, PipeTypeOK
<1>7. CASE Retire(t)
  <2>1. tasks_pending' \in Seq(Buffers) /\ rpc' \in ReaperLabels
        /\ (rpc' = "submit" => rpc = "submit")
    BY <1>7 DEF Retire, SubmitTask, TypeOK, Woken, ReaperLabels
  <2>2. /\ call' \in [Threads -> [at : CallLabels, on : Objects]]
        /\ \A u \in Threads : call'[u].at = "submit" => call'[u].on \in Buffers
    BY <1>7 DEF Retire, TypeOK, CallLabels, Objects
  <2> QED
    BY <1>7, <2>1, <2>2 DEF Retire, SubmitTask, TypeOK, PipeTypeOK
<1>8. CASE UnrefParent(t)
  <2>1. call[t].on \in Objects /\ rc[call[t].on] > 0
    BY <1>8, CallIs, HolderReferences DEF UnrefParent, TypeOK
  <2> QED
    BY <1>8, <2>1, UnrefTypes DEF UnrefParent, TypeOK, PipeTypeOK
<1>9. ASSUME NEW from \in CallLabels, NEW to \in CallLabels \ {"submit"},
             CallNext(t, from, to)
      PROVE  /\ call' \in [Threads -> [at : CallLabels, on : Objects]]
             /\ \A u \in Threads : call'[u].at = "submit" => call'[u].on \in Buffers
  BY <1>9 DEF CallNext, TypeOK, Objects
<1>10. CASE StopReaper(t) \/ JoinReaper(t) \/ StopAudio(t) \/ JoinAudio(t)
  <2>1. /\ call' \in [Threads -> [at : CallLabels, on : Objects]]
        /\ \A u \in Threads : call'[u].at = "submit" => call'[u].on \in Buffers
    BY <1>9, <1>10 DEF StopReaper, JoinReaper, StopAudio, JoinAudio, CallLabels
  <2>2. rpc' \in ReaperLabels /\ (rpc' = "submit" => rpc = "submit")
    BY <1>10 DEF StopReaper, JoinReaper, StopAudio, JoinAudio, RaiseStop, Woken,
                 TypeOK, ReaperLabels
  <2>3. intake' \in Seq(Contents)
    <3>1. <<>> \in Seq(Contents)
      OBVIOUS
    <3>2. intake' = intake \/ intake' = <<>>
      BY <1>10 DEF StopReaper, JoinReaper, StopAudio, JoinAudio, pipeVars
    <3> QED
      BY <3>1, <3>2 DEF TypeOK, PipeTypeOK
  <2> QED
    BY <1>10, <2>1, <2>2, <2>3
       DEF StopReaper, JoinReaper, StopAudio, JoinAudio, RaiseStop, CallNext,
           TypeOK, PipeTypeOK
<1> QED
  BY <1>2, <1>3, <1>4, <1>5, <1>6, <1>7, <1>8, <1>10 DEF AppBegins, AppContinues, Objects

-----------------------------------------------------------------------------
(* The references, step by step                                            *)

LEMMA AllocRefs ==
  ASSUME TypeOK, RefInv, NEW t \in Threads, NEW b \in Buffers, NEW par \in Objects,
         par \in held[t], Alloc(t, b, par)
  PROVE  RefInv'
<1>1. stm[b] = "none" /\ rc[b] = 0
  <2>1. stm[b] = "none"
    BY DEF Alloc
  <2>2. rc[b] \in Nat /\ ~(rc[b] > 0)
    BY <2>1 DEF RefInv, ReferencedLives, TypeOK, Objects
  <2> QED
    BY <2>1, <2>2
<1>2. HeldBy(b) = {} /\ Unreffing(b) = {} /\ Children(b) = {}
  <2>1. b \in Objects /\ Counted /\ ~(rc[b] > 0)
    BY <1>1 DEF RefInv, Objects
  <2> QED
    BY <2>1, HolderReferences
<1>3. Retiring(b) = {}
  BY <1>1 DEF Retiring, RefInv, RetiringOnce, Retired
<1>4. rc[par] > 0 /\ par # b
  BY <1>2, HolderReferences DEF RefInv, HeldBy
<1>5. /\ stm' = [stm EXCEPT ![b] = "live"]
      /\ \A d \in Buffers \ {b} : parent'[d] = parent[d]
      /\ parent'[b] = par
      /\ call' = call
      /\ UNCHANGED <<tasks, tasks_pending>>
  BY DEF Alloc, TypeOK, reaperVars, taskVars
<1>6. /\ rc'[b] = 1
      /\ rc'[par] = rc[par] + 1
      /\ \A x \in Objects \ {b, par} : rc'[x] = rc[x]
  BY <1>4 DEF Alloc, TypeOK, Objects
<1>7. \A x : Unreffing(x)' = Unreffing(x) /\ Retiring(x)' = Retiring(x)
  BY <1>5 DEF Unreffing, Retiring
<1>8. /\ HeldBy(b)' = HeldBy(b) \cup {t}
      /\ \A x \in Objects \ {b} : HeldBy(x)' = HeldBy(x)
  BY DEF HeldBy, Alloc, TypeOK
<1>9. /\ b \notin Children(par)
      /\ Children(par)' = Children(par) \cup {b}
      /\ \A x \in Objects \ {par} : Children(x)' = Children(x)
  <2>1. \A d \in Buffers \ {b} : stm'[d] = stm[d] /\ (rc'[d] > 0 <=> rc[d] > 0)
    <3> SUFFICES ASSUME NEW d \in Buffers \ {b}
                 PROVE  stm'[d] = stm[d] /\ (rc'[d] > 0 <=> rc[d] > 0)
      OBVIOUS
    <3>1. stm'[d] = stm[d]
      BY <1>5 DEF TypeOK
    <3>2. d \in Objects /\ rc[d] \in Nat
      BY DEF TypeOK, Objects
    <3> QED
      BY <1>4, <1>6, <3>1, <3>2
  <2>2. stm'[b] = "live" /\ rc'[b] > 0
    BY <1>5, <1>6 DEF TypeOK
  <2>3. ASSUME NEW x, NEW d \in Buffers \ {b} PROVE d \in Children(x)' <=> d \in Children(x)
    BY <2>1, <1>5, <1>7 DEF Children
  <2>4. \A x : b \in Children(x)' <=> x = par
    BY <2>2, <1>5 DEF Children
  <2>5. \A x : b \notin Children(x)
    BY <1>1 DEF Children
  <2>6. \A x : Children(x) \subseteq Buffers /\ Children(x)' \subseteq Buffers
    BY HolderParts
  <2>7. ASSUME NEW x PROVE Children(x)' = Children(x) \cup (IF x = par THEN {b} ELSE {})
    BY <2>3, <2>4, <2>5, <2>6
  <2> QED
    BY <2>5, <2>7
<1>10. Counted'
  <2> SUFFICES ASSUME NEW x \in Objects
               PROVE  rc'[x] = Cardinality(HeldBy(x)') + Cardinality(Unreffing(x)')
                                 + Cardinality(Children(x)')
    BY DEF Counted, Objects
  <2>1. rc[x] = Cardinality(HeldBy(x)) + Cardinality(Unreffing(x))
                  + Cardinality(Children(x))
    BY DEF RefInv, Counted
  <2>2. CASE x = b
    <3>1. Cardinality(HeldBy(b)') = 1
      BY <1>2, <1>8, FS_Singleton
    <3> QED
      BY <2>1, <2>2, <3>1, <1>2, <1>4, <1>6, <1>7, <1>9, HolderCounts DEF Objects
  <2>3. CASE x = par
    <3>1. Cardinality(Children(par)') = Cardinality(Children(par)) + 1
      BY <1>9, HolderParts, PartCardinality, LifetimeAssumption
    <3> QED
      BY <2>1, <2>3, <3>1, <1>4, <1>6, <1>7, <1>8, HolderCounts
  <2>4. CASE x \notin {b, par}
    BY <2>1, <2>4, <1>6, <1>7, <1>8, <1>9
  <2> QED
    BY <2>2, <2>3, <2>4
<1>11. ReferencedLives'
  BY <1>1, <1>4, <1>5, <1>6 DEF RefInv, ReferencedLives, TypeOK, Objects
<1>12. \A d \in Buffers : Retired(d) => Retired(d)'
  <2> SUFFICES ASSUME NEW d \in Buffers, Retired(d) PROVE Retired(d)'
    OBVIOUS
  <2>1. d \in Objects \ {b, par} /\ d # b
    BY <1>1, <1>4 DEF Retired, Objects
  <2> QED
    BY <2>1, <1>5, <1>6 DEF Retired, TypeOK
<1>13. RetiringOnce'
  BY <1>5, <1>12 DEF RefInv, RetiringOnce, TypeOK
<1>14. QueuedOnce'
  BY <1>5, <1>7, <1>12, QueuedTypes DEF RefInv, QueuedOnce
<1> QED
  BY <1>10, <1>11, <1>13, <1>14 DEF RefInv

LEMMA AddRefRefs ==
  ASSUME TypeOK, RefInv, NEW t \in Threads, NEW x \in Objects, NEW u \in Threads,
         AddRef(t, x, u)
  PROVE  RefInv'
<1>1. rc[x] > 0 /\ rc[x] \in Nat
  BY HolderReferences DEF RefInv, AddRef, TypeOK
<1>2. /\ rc'[x] = rc[x] + 1
      /\ \A y \in Objects \ {x} : rc'[y] = rc[y]
      /\ UNCHANGED <<stm, parent, call, tasks, tasks_pending>>
  BY DEF AddRef, TypeOK, resourceVars, reaperVars, taskVars
<1>3. \A y \in Objects : rc'[y] > 0 <=> rc[y] > 0
  BY <1>1, <1>2
<1>4. \A y : Unreffing(y)' = Unreffing(y) /\ Retiring(y)' = Retiring(y)
  BY <1>2 DEF Unreffing, Retiring
<1>5. \A y : Children(y)' = Children(y)
  BY <1>2, <1>3, <1>4 DEF Children, Objects
<1>6. /\ u \notin HeldBy(x)
      /\ HeldBy(x)' = HeldBy(x) \cup {u}
      /\ \A y \in Objects \ {x} : HeldBy(y)' = HeldBy(y)
  BY DEF HeldBy, AddRef, TypeOK
<1>7. Cardinality(HeldBy(x)') = Cardinality(HeldBy(x)) + 1
  BY <1>6, HolderParts, PartCardinality, LifetimeAssumption
<1>8. Counted'
  <2> SUFFICES ASSUME NEW y \in Objects
               PROVE  rc'[y] = Cardinality(HeldBy(y)') + Cardinality(Unreffing(y)')
                                 + Cardinality(Children(y)')
    BY DEF Counted, Objects
  <2>1. rc[y] = Cardinality(HeldBy(y)) + Cardinality(Unreffing(y))
                  + Cardinality(Children(y))
    BY DEF RefInv, Counted
  <2>2. /\ Cardinality(HeldBy(y)) \in Nat
        /\ Cardinality(Unreffing(y)) \in Nat
        /\ Cardinality(Children(y)) \in Nat
    BY HolderCounts
  <2>3. Unreffing(y)' = Unreffing(y) /\ Children(y)' = Children(y)
    BY <1>4, <1>5
  <2>4. CASE y = x
    BY <2>1, <2>2, <2>3, <2>4, <1>2, <1>7
  <2>5. CASE y # x
    BY <2>1, <2>2, <2>3, <2>5, <1>2, <1>6
  <2> QED
    BY <2>4, <2>5
<1>9. ReferencedLives'
  BY <1>2, <1>3 DEF RefInv, ReferencedLives, Objects
<1>10. \A d \in Buffers : Retired(d) => Retired(d)'
  BY <1>1, <1>2 DEF Retired, Objects
<1>11. RetiringOnce' /\ QueuedOnce'
  BY <1>2, <1>4, <1>10, QueuedTypes DEF RefInv, RetiringOnce, QueuedOnce, TypeOK
<1> QED
  BY <1>8, <1>9, <1>11 DEF RefInv

(* A reference goes, from a thread that held it or was releasing it.       *)
LEMMA UnrefRefs ==
  ASSUME TypeOK, RefInv, NEW t \in Threads, NEW x \in Objects, Unref(t, x),
         UNCHANGED <<stm, parent, tasks, tasks_pending>>,
         call[t].at \in {"none", "unref"},
         \/ /\ call[t].at = "none"
            /\ x \in held[t]
            /\ held' = [held EXCEPT ![t] = @ \ {x}]
         \/ /\ call[t] = [at |-> "unref", on |-> x]
            /\ held' = held
  PROVE  RefInv'
<1>1. rc[x] > 0 /\ rc[x] \in Nat
  BY HolderReferences DEF RefInv, TypeOK
<1>2. /\ rc'[x] = rc[x] - 1
      /\ \A y \in Objects \ {x} : rc'[y] = rc[y]
      /\ \A v \in Threads \ {t} : call'[v] = call[v]
      /\ call'[t].at \in {"none", "stop_reaper", "submit"}
      /\ x \in Buffers => (call'[t] = [at |-> "submit", on |-> x] <=> rc[x] = 1)
      /\ call'[t].at = "submit" => x \in Buffers /\ call'[t].on = x /\ rc[x] = 1
  <2>1. /\ rc'[x] = rc[x] - 1
        /\ \A y \in Objects \ {x} : rc'[y] = rc[y]
        /\ \A v \in Threads \ {t} : call'[v] = call[v]
    BY DEF Unref, TypeOK
  <2>2. call'[t] = IF rc[x] > 1 THEN NoCall
                   ELSE IF x = Api THEN [at |-> "stop_reaper", on |-> Api]
                   ELSE [at |-> "submit", on |-> x]
    BY DEF Unref, TypeOK
  <2> QED
    BY <1>1, <2>1, <2>2, LifetimeAssumption DEF NoCall, Objects
<1>3. x \in Buffers => Retiring(x) = {}
  BY <1>1 DEF RefInv, RetiringOnce, Retired, Retiring
<1>4. /\ \A y \in Buffers \ {x} : Retiring(y)' = Retiring(y)
      /\ x \in Buffers => (Retiring(x)' # {} <=> rc[x] = 1)
  <2>1. \A y \in Buffers : t \notin Retiring(y)
    BY DEF Retiring
  <2>2. \A y \in Buffers \ {x} : t \notin Retiring(y)'
    BY <1>2 DEF Retiring
  <2>3. \A y : \A v \in Threads \ {t} : v \in Retiring(y)' <=> v \in Retiring(y)
    BY <1>2 DEF Retiring
  <2>4. \A y : Retiring(y) \subseteq Threads /\ Retiring(y)' \subseteq Threads
    BY DEF Retiring
  <2>5. x \in Buffers => (t \in Retiring(x)' <=> rc[x] = 1)
    BY <1>2 DEF Retiring
  <2> QED
    BY <2>1, <2>2, <2>3, <2>4, <2>5, <1>3
<1>5. \A y : Children(y)' = Children(y)
  <2>1. \A d \in Buffers \ {x} : rc'[d] = rc[d] /\ Retiring(d)' = Retiring(d)
    BY <1>2, <1>4 DEF Objects
  <2>2. x \in Buffers => rc[x] > 0 /\ (rc'[x] > 0 \/ Retiring(x)' # {})
    BY <1>1, <1>2, <1>4
  <2> QED
    BY <2>1, <2>2 DEF Children
<1>6. Counted'
  <2> SUFFICES ASSUME NEW y \in Objects
               PROVE  rc'[y] = Cardinality(HeldBy(y)') + Cardinality(Unreffing(y)')
                                 + Cardinality(Children(y)')
    BY DEF Counted, Objects
  <2>1. rc[y] = Cardinality(HeldBy(y)) + Cardinality(Unreffing(y))
                  + Cardinality(Children(y))
    BY DEF RefInv, Counted
  <2>2. y # x => HeldBy(y)' = HeldBy(y) /\ Unreffing(y)' = Unreffing(y)
    <3> SUFFICES ASSUME y # x
                 PROVE  HeldBy(y)' = HeldBy(y) /\ Unreffing(y)' = Unreffing(y)
      OBVIOUS
    <3>1. \A v \in Threads : y \in held'[v] <=> y \in held[v]
      BY DEF TypeOK
    <3>2. call[t] # [at |-> "unref", on |-> y] /\ call'[t] # [at |-> "unref", on |-> y]
      BY <1>2
    <3>3. \A v \in Threads : call'[v] = [at |-> "unref", on |-> y]
                               <=> call[v] = [at |-> "unref", on |-> y]
      BY <3>2, <1>2
    <3> QED
      BY <3>1, <3>3 DEF HeldBy, Unreffing
  <2>5. /\ Cardinality(HeldBy(y)) \in Nat
        /\ Cardinality(Unreffing(y)) \in Nat
        /\ Cardinality(Children(y)) \in Nat
        /\ Children(y)' = Children(y)
    BY <1>5, HolderCounts
  <2>6. CASE y # x
    BY <2>1, <2>2, <2>5, <2>6, <1>2
  <2>3. CASE y = x /\ call[t].at = "none"
    <3>1. /\ t \in HeldBy(x)
          /\ HeldBy(x)' = HeldBy(x) \ {t}
          /\ Unreffing(x)' = Unreffing(x)
      BY <1>2, <2>3 DEF HeldBy, Unreffing, TypeOK
    <3>2. Cardinality(HeldBy(x)') = Cardinality(HeldBy(x)) - 1
      BY <3>1, HolderParts, PartCardinality, LifetimeAssumption
    <3> QED
      BY <2>1, <2>3, <2>5, <3>1, <3>2, <1>2
  <2>4. CASE y = x /\ call[t].at = "unref"
    <3>1. /\ t \in Unreffing(x)
          /\ Unreffing(x)' = Unreffing(x) \ {t}
          /\ HeldBy(x)' = HeldBy(x)
      BY <1>2, <2>4 DEF HeldBy, Unreffing, TypeOK
    <3>2. Cardinality(Unreffing(x)') = Cardinality(Unreffing(x)) - 1
      BY <3>1, HolderParts, PartCardinality, LifetimeAssumption
    <3> QED
      BY <2>1, <2>4, <2>5, <3>1, <3>2, <1>2
  <2> QED
    BY <2>3, <2>4, <2>6
<1>7. ReferencedLives'
  BY <1>1, <1>2 DEF RefInv, ReferencedLives, Objects
<1>8. \A d \in Buffers : Retired(d) => d # x /\ Retired(d)'
  BY <1>1, <1>2 DEF Retired, Objects
<1>9. RetiringOnce'
  <2> SUFFICES ASSUME NEW v \in Threads, call'[v].at = "submit"
               PROVE  /\ Retired(call[v].on)'
                      /\ \A w \in Threads : call'[w] = call'[v] => w = v
    BY DEF RetiringOnce
  <2>1. CASE v = t
    <3>1. call'[t].on = x /\ x \in Buffers /\ rc[x] = 1
      BY <1>2, <2>1
    <3>2. Retired(x)'
      BY <3>1, <1>2 DEF Retired, RefInv, ReferencedLives
    <3>3. ASSUME NEW w \in Threads \ {t}, call[w] = call'[t] PROVE FALSE
      BY <3>1, <3>3, <1>1, <2>1 DEF RefInv, RetiringOnce, Retired
    <3> QED
      BY <2>1, <3>1, <3>2, <3>3, <1>2
  <2>2. CASE v # t
    <3>1. call'[v] = call[v] /\ call[v].on \in Buffers /\ Retired(call[v].on)
      BY <2>2, <1>2 DEF RefInv, RetiringOnce, TypeOK
    <3>2. call'[t] # call[v]
      BY <3>1, <1>2, <1>8
    <3> QED
      BY <3>1, <3>2, <2>2, <1>2, <1>8 DEF RefInv, RetiringOnce
  <2> QED
    BY <2>1, <2>2
<1>10. QueuedOnce'
  BY <1>4, <1>8, QueuedTypes DEF RefInv, QueuedOnce
<1> QED
  BY <1>6, <1>7, <1>9, <1>10 DEF RefInv

(* A destroyed buffer's task is handed over; its reference on the parent   *)
(* passes from the buffer to the Release under way.                        *)
LEMMA RetireRefs ==
  ASSUME TypeOK, RefInv, NEW t \in Threads, Retire(t)
  PROVE  RefInv'
<1> PICK b \in Buffers, par \in Objects : b = call[t].on /\ par = parent[b]
  BY DEF Retire, TypeOK
<1>1. /\ call[t] = [at |-> "submit", on |-> b]
      /\ Retired(b)
  BY CallIs DEF Retire, TypeOK, RefInv, RetiringOnce
<1>2. Retiring(b) = {t}
  <2>1. call[t].at = "submit"
    BY <1>1
  <2>2. \A u \in Threads : call[u] = call[t] => u = t
    BY <2>1 DEF RefInv, RetiringOnce
  <2> QED
    BY <1>1, <2>2 DEF Retiring
<1>3. /\ call'[t] = [at |-> "unref", on |-> par]
      /\ \A v \in Threads \ {t} : call'[v] = call[v]
      /\ tasks_pending' = Append(tasks_pending, b)
      /\ UNCHANGED <<rc, stm, parent, held, tasks>>
  BY DEF Retire, SubmitTask, TypeOK, resourceVars
<1>4. /\ Retiring(b)' = {}
      /\ \A y \in Buffers \ {b} : Retiring(y)' = Retiring(y)
  <2>1. t \notin Retiring(b)' /\ \A v \in Threads \ {t} : v \notin Retiring(b)'
    BY <1>2, <1>3 DEF Retiring
  <2>2. \A y \in Buffers \ {b} : t \notin Retiring(y) /\ t \notin Retiring(y)'
    BY <1>1, <1>3 DEF Retiring
  <2>3. \A y \in Buffers \ {b} : \A v \in Threads \ {t} :
          v \in Retiring(y)' <=> v \in Retiring(y)
    BY <1>3 DEF Retiring
  <2>4. \A y : Retiring(y) \subseteq Threads /\ Retiring(y)' \subseteq Threads
    BY DEF Retiring
  <2> QED
    BY <2>1, <2>2, <2>3, <2>4
<1>5. /\ b \in Children(par)
      /\ Children(par)' = Children(par) \ {b}
      /\ \A y \in Objects \ {par} : Children(y)' = Children(y)
  <2>1. rc[b] = 0 /\ stm[b] = "live" /\ parent[b] = par
    BY <1>1 DEF Retired
  <2>2. b \in Children(par) /\ \A y \in Objects \ {par} : b \notin Children(y)
    BY <2>1, <1>1, <1>2 DEF Children
  <2>3. \A y : b \notin Children(y)'
    BY <2>1, <1>3, <1>4 DEF Children
  <2>4. \A y : \A d \in Buffers \ {b} : d \in Children(y)' <=> d \in Children(y)
    BY <1>3, <1>4 DEF Children
  <2>5. \A y : Children(y) \subseteq Buffers /\ Children(y)' \subseteq Buffers
    BY HolderParts
  <2>6. ASSUME NEW y PROVE Children(y)' = Children(y) \ {b}
    BY <2>3, <2>4, <2>5
  <2> QED
    BY <2>2, <2>6
<1>6. /\ t \notin Unreffing(par)
      /\ Unreffing(par)' = Unreffing(par) \cup {t}
      /\ \A y \in Objects \ {par} : Unreffing(y)' = Unreffing(y)
  <2>1. \A y : t \notin Unreffing(y)
    <3>1. \A y : call[t] # [at |-> "unref", on |-> y]
      BY <1>1
    <3> QED
      BY <3>1 DEF Unreffing
  <2>2. \A y : t \in Unreffing(y)' <=> y = par
    BY <1>3 DEF Unreffing
  <2>3. \A y : \A v \in Threads \ {t} : v \in Unreffing(y)' <=> v \in Unreffing(y)
    BY <1>3 DEF Unreffing
  <2>4. \A y : Unreffing(y) \subseteq Threads /\ Unreffing(y)' \subseteq Threads
    BY HolderParts
  <2>5. ASSUME NEW y
        PROVE  Unreffing(y)' = Unreffing(y) \cup (IF y = par THEN {t} ELSE {})
    BY <2>1, <2>2, <2>3, <2>4
  <2> QED
    BY <2>1, <2>5
<1>7. /\ Cardinality(Children(par)') = Cardinality(Children(par)) - 1
      /\ Cardinality(Unreffing(par)') = Cardinality(Unreffing(par)) + 1
  BY <1>5, <1>6, HolderParts, PartCardinality, LifetimeAssumption
<1>8. Counted'
  <2> SUFFICES ASSUME NEW y \in Objects
               PROVE  rc'[y] = Cardinality(HeldBy(y)') + Cardinality(Unreffing(y)')
                                 + Cardinality(Children(y)')
    BY DEF Counted, Objects
  <2>1. rc[y] = Cardinality(HeldBy(y)) + Cardinality(Unreffing(y))
                  + Cardinality(Children(y))
    BY DEF RefInv, Counted
  <2>2. /\ Cardinality(HeldBy(y)) \in Nat
        /\ Cardinality(Unreffing(y)) \in Nat
        /\ Cardinality(Children(y)) \in Nat
    BY HolderCounts
  <2>3. HeldBy(y)' = HeldBy(y) /\ rc' = rc
    BY <1>3 DEF HeldBy
  <2>4. CASE y = par
    BY <2>1, <2>2, <2>3, <2>4, <1>7
  <2>5. CASE y # par
    BY <2>1, <2>2, <2>3, <2>5, <1>5, <1>6
  <2> QED
    BY <2>4, <2>5
<1>9. ReferencedLives' /\ \A d \in Buffers : Retired(d)' <=> Retired(d)
  BY <1>3 DEF RefInv, ReferencedLives, Retired
<1>10. RetiringOnce'
  <2>1. call'[t].at # "submit"
    BY <1>3
  <2>2. \A v \in Threads \ {t} : call[v].at = "submit" => Retired(call[v].on)'
    <3> SUFFICES ASSUME NEW v \in Threads \ {t}, call[v].at = "submit"
                 PROVE  Retired(call[v].on)'
      OBVIOUS
    <3>1. call[v].on \in Buffers /\ Retired(call[v].on)
      BY DEF TypeOK, RefInv, RetiringOnce
    <3> QED
      BY <3>1, <1>3 DEF Retired
  <2> QED
    BY <1>3, <2>1, <2>2 DEF RefInv, RetiringOnce
<1>11. QueuedOnce'
  <2>1. /\ \A n \in 1..Len(tasks_pending) :
             /\ tasks_pending'[n] = tasks_pending[n]
             /\ tasks_pending[n] \in Buffers \ {b}
        /\ \A n \in 1..Len(tasks) : tasks[n] \in Buffers \ {b}
    <3>1. \A n \in 1..Len(tasks_pending) : tasks_pending'[n] = tasks_pending[n]
      BY <1>3 DEF TypeOK
    <3>2. \A d : Retiring(d) = {} => d # b
      BY <1>2
    <3>3. /\ \A n \in 1..Len(tasks_pending) : Retiring(tasks_pending[n]) = {}
          /\ \A n \in 1..Len(tasks) : Retiring(tasks[n]) = {}
      BY DEF RefInv, QueuedOnce
    <3> QED
      BY <3>1, <3>2, <3>3, QueuedTypes
  <2>2. /\ Len(tasks_pending') = Len(tasks_pending) + 1
        /\ tasks_pending'[Len(tasks_pending) + 1] = b
        /\ Len(tasks_pending) \in Nat
        /\ tasks' = tasks
    BY <1>1, <1>3 DEF TypeOK
  <2>3. \A d \in Buffers \ {b} : (Retired(d)' <=> Retired(d)) /\ Retiring(d)' = Retiring(d)
    BY <1>4, <1>9
  <2>4. Retired(b)' /\ Retiring(b)' = {}
    BY <1>1, <1>4, <1>9
  <2>5. \A n \in 1..Len(tasks_pending') : n = Len(tasks_pending) + 1 \/ n \in 1..Len(tasks_pending)
    BY <2>2
  <2> QED
    BY <2>1, <2>2, <2>3, <2>4, <2>5 DEF RefInv, QueuedOnce
<1> QED
  BY <1>8, <1>9, <1>10, <1>11 DEF RefInv

(* Steps that take or give no reference: they touch only the calls of the  *)
(* last Release of the API object.                                         *)
LEMMA SameRefs ==
  ASSUME TypeOK, RefInv,
         UNCHANGED <<stm, rc, parent, held, tasks, tasks_pending>>,
         \A v \in Threads :
           \/ call'[v] = call[v]
           \/ {call[v].at, call'[v].at} \cap {"submit", "unref"} = {}
  PROVE  RefInv'
<1>1. ASSUME NEW l \in {"submit", "unref"}, NEW x, NEW v \in Threads
      PROVE  call'[v] = [at |-> l, on |-> x] <=> call[v] = [at |-> l, on |-> x]
  <2>1. call[v] = [at |-> l, on |-> x] => call[v].at = l
    OBVIOUS
  <2>2. call'[v] = [at |-> l, on |-> x] => call'[v].at = l
    OBVIOUS
  <2> QED
    BY <2>1, <2>2
<1>2. \A x : HeldBy(x)' = HeldBy(x)
  BY DEF HeldBy
<1>3. \A x : Unreffing(x)' = Unreffing(x) /\ Retiring(x)' = Retiring(x)
  BY <1>1 DEF Unreffing, Retiring
<1>4. \A x : Children(x)' = Children(x)
  BY <1>3 DEF Children
<1>5. Counted'
  BY <1>2, <1>3, <1>4 DEF RefInv, Counted, Objects
<1>6. ReferencedLives'
  BY DEF RefInv, ReferencedLives
<1>7. \A d : Retired(d)' <=> Retired(d)
  BY DEF Retired
<1>8. RetiringOnce'
  <2> SUFFICES ASSUME NEW v \in Threads, call'[v].at = "submit"
               PROVE  /\ Retired(call[v].on)'
                      /\ \A w \in Threads : call'[w] = call'[v] => w = v
    BY DEF RetiringOnce
  <2>1. call'[v] = call[v]
    OBVIOUS
  <2>2. \A w \in Threads : call'[w] = call[v] => call[w] = call[v]
    BY <2>1
  <2>3. Retired(call[v].on) /\ \A w \in Threads : call[w] = call[v] => w = v
    BY <2>1 DEF RefInv, RetiringOnce
  <2> QED
    BY <2>1, <2>2, <2>3 DEF Retired
<1>9. QueuedOnce'
  BY <1>3, <1>7 DEF RefInv, QueuedOnce
<1> QED
  BY <1>5, <1>6, <1>8, <1>9 DEF RefInv

LEMMA AppRefs ==
  ASSUME TypeOK, RefInv, NEW t \in Threads, AppBegins(t) \/ AppContinues(t)
  PROVE  RefInv'
<1> USE DEF pipeVars, audioVars, resourceVars, reaperVars, taskVars, threadVars
<1>1. ASSUME NEW b \in Buffers, Create(t, b) PROVE RefInv'
  BY <1>1, AllocRefs DEF Create, Alloc, Objects
<1>2. ASSUME NEW b \in Buffers, NEW src \in Buffers, Duplicate(t, b, src) PROVE RefInv'
  BY <1>2, AllocRefs DEF Duplicate, Objects
<1>3. ASSUME NEW b \in Buffers, NEW type \in Uses, Use(t, b, type) PROVE RefInv'
  BY <1>3, SameRefs DEF Use, appVars
<1>4. ASSUME NEW x \in Objects, Release(t, x) PROVE RefInv'
  <2>1. call[t].at = "none"
    BY <1>4 DEF Release, Idle, NoCall
  <2> QED
    BY <1>4, <2>1, UnrefRefs DEF Release
<1>5. ASSUME NEW x \in Objects, NEW u \in Threads, AddRef(t, x, u) PROVE RefInv'
  BY <1>5, AddRefRefs
<1>6. CASE Retire(t)
  BY <1>6, RetireRefs
<1>7. CASE UnrefParent(t)
  <2>1. call[t].on \in Objects /\ call[t] = [at |-> "unref", on |-> call[t].on]
    BY <1>7, CallIs DEF UnrefParent, TypeOK
  <2> QED
    BY <1>7, <2>1, UnrefRefs DEF UnrefParent
<1>8. CASE StopReaper(t) \/ JoinReaper(t) \/ StopAudio(t) \/ JoinAudio(t)
  <2>1. /\ UNCHANGED <<stm, rc, parent, held, tasks, tasks_pending>>
        /\ call[t].at \notin {"submit", "unref"}
        /\ call'[t].at \notin {"submit", "unref"}
        /\ \A v \in Threads \ {t} : call'[v] = call[v]
    BY <1>8 DEF StopReaper, JoinReaper, StopAudio, JoinAudio, CallNext, RaiseStop, TypeOK
  <2> QED
    BY <2>1, SameRefs
<1> QED
  BY <1>1, <1>2, <1>3, <1>4, <1>5, <1>6, <1>7, <1>8 DEF AppBegins, AppContinues, Objects

(* Of the other steps, two move tasks.                                     *)
LEMMA TakeRefs ==
  ASSUME TypeOK, RefInv, NoBatch, ReaperTake, UNCHANGED appVars
  PROVE  RefInv'
<1>1. /\ tasks = <<>> /\ tasks' = tasks_pending /\ tasks_pending' = <<>>
      /\ UNCHANGED <<stm, rc, parent, held, call>>
  BY DEF ReaperTake, NoBatch, appVars, resourceVars
<1>2. \A x : /\ HeldBy(x)' = HeldBy(x) /\ Unreffing(x)' = Unreffing(x)
             /\ Retiring(x)' = Retiring(x) /\ Children(x)' = Children(x)
             /\ Retired(x)' <=> Retired(x)
  BY <1>1 DEF HeldBy, Unreffing, Retiring, Children, Retired
<1>3. Counted'
  BY <1>1, <1>2 DEF RefInv, Counted, Objects
<1>4. ReferencedLives' /\ RetiringOnce'
  BY <1>1, <1>2 DEF RefInv, ReferencedLives, RetiringOnce
<1>5. QueuedOnce'
  BY <1>1, <1>2 DEF RefInv, QueuedOnce
<1> QED
  BY <1>3, <1>4, <1>5 DEF RefInv

LEMMA DestroyRefs ==
  ASSUME TypeOK, RefInv, ReaperDestroy, UNCHANGED appVars
  PROVE  RefInv'
<1> PICK b \in Buffers : b = Head(tasks) /\ b = tasks[1] /\ 1 \in 1..Len(tasks)
  BY DEF ReaperDestroy, TypeOK
<1>1. /\ stm' = [stm EXCEPT ![b] = "freed"]
      /\ tasks' = Tail(tasks)
      /\ UNCHANGED <<rc, parent, held, call, tasks_pending>>
  BY DEF ReaperDestroy, appVars
<1>2. Retired(b) /\ Retiring(b) = {}
  BY DEF RefInv, QueuedOnce
<1>3. /\ \A d \in Buffers : stm'[d] = IF d = b THEN "freed" ELSE stm[d]
      /\ \A d \in Buffers \ {b} : Retired(d)' <=> Retired(d)
  BY <1>1 DEF TypeOK, Retired
<1>4. \A x : /\ HeldBy(x)' = HeldBy(x) /\ Unreffing(x)' = Unreffing(x)
             /\ Retiring(x)' = Retiring(x)
  BY <1>1 DEF HeldBy, Unreffing, Retiring
<1>5. ASSUME NEW x PROVE Children(x)' = Children(x)
  <2>1. \A d \in Buffers : stm'[d] # "none" <=> stm[d] # "none"
    BY <1>2, <1>3 DEF Retired
  <2> QED
    BY <2>1, <1>1, <1>4 DEF Children
<1>6. Counted'
  BY <1>1, <1>4, <1>5 DEF RefInv, Counted, Objects
<1>7. ReferencedLives'
  BY <1>1, <1>2, <1>3 DEF RefInv, ReferencedLives, Retired
<1>8. RetiringOnce'
  <2> SUFFICES ASSUME NEW v \in Threads, call[v].at = "submit"
               PROVE  Retired(call[v].on)'
    BY <1>1 DEF RefInv, RetiringOnce
  <2>1. call[v].on \in Buffers /\ Retired(call[v].on) /\ v \in Retiring(call[v].on)
    BY CallIs DEF TypeOK, RefInv, RetiringOnce, Retiring
  <2> PICK d \in Buffers : d = call[v].on
    BY <2>1
  <2>2. d # b /\ Retired(d)
    BY <2>1, <1>2
  <2>3. Retired(d)' /\ call' = call
    BY <2>2, <1>1, <1>3
  <2> QED
    BY <2>3 DEF Retired
<1>9. QueuedOnce'
  <2>1. /\ Len(tasks') = Len(tasks) - 1
        /\ \A n \in 1..Len(tasks') : n + 1 \in 1..Len(tasks) /\ tasks'[n] = tasks[n + 1]
        /\ b = tasks[1] /\ 1 \in 1..Len(tasks) /\ Len(tasks) \in Nat
    BY <1>1 DEF TypeOK, ReaperDestroy
  <2>2. /\ \A n \in 1..Len(tasks') : tasks'[n] \in Buffers \ {b}
        /\ \A n \in 1..Len(tasks_pending) : tasks_pending[n] \in Buffers \ {b}
    <3>1. \A n \in 1..Len(tasks) : tasks[n] = b => n = 1
      BY <2>1 DEF RefInv, QueuedOnce
    <3>2. \A n \in 1..Len(tasks_pending) : tasks_pending[n] # b
      BY <2>1 DEF RefInv, QueuedOnce
    <3>3. \A n \in 1..Len(tasks') : tasks[n + 1] # b /\ tasks[n + 1] \in Buffers
      BY <2>1, <3>1, QueuedTypes
    <3> QED
      BY <2>1, <3>2, <3>3, QueuedTypes
  <2>3. \A n \in 1..Len(tasks') :
          /\ Retired(tasks'[n]) /\ Retiring(tasks'[n]) = {}
          /\ \A m \in 1..Len(tasks') : tasks'[m] = tasks'[n] => m = n
          /\ \A m \in 1..Len(tasks_pending) : tasks_pending[m] # tasks'[n]
    <3>1. \A n \in 1..Len(tasks) :
            /\ Retired(tasks[n]) /\ Retiring(tasks[n]) = {}
            /\ \A m \in 1..Len(tasks) : tasks[m] = tasks[n] => m = n
            /\ \A m \in 1..Len(tasks_pending) : tasks_pending[m] # tasks[n]
      BY DEF RefInv, QueuedOnce
    <3> SUFFICES ASSUME NEW n \in 1..Len(tasks')
                 PROVE  /\ Retired(tasks[n + 1]) /\ Retiring(tasks[n + 1]) = {}
                        /\ \A m \in 1..Len(tasks') : tasks[m + 1] = tasks[n + 1] => m = n
                        /\ \A m \in 1..Len(tasks_pending) : tasks_pending[m] # tasks[n + 1]
      BY <2>1
    <3>2. n + 1 \in 1..Len(tasks) /\ \A m \in 1..Len(tasks') : m + 1 \in 1..Len(tasks)
      BY <2>1
    <3>3. \A m \in 1..Len(tasks') : m + 1 = n + 1 => m = n
      OBVIOUS
    <3> QED
      BY <3>1, <3>2, <3>3
  <2>4. \A d \in Buffers \ {b} :
          Retired(d) /\ Retiring(d) = {} => Retired(d)' /\ Retiring(d)' = {}
    BY <1>3, <1>4
  <2>5. tasks_pending' = tasks_pending
    BY <1>1
  <2>6. \A n \in 1..Len(tasks_pending) :
          /\ Retired(tasks_pending[n]) /\ Retiring(tasks_pending[n]) = {}
          /\ \A m \in 1..Len(tasks_pending) :
               tasks_pending[m] = tasks_pending[n] => m = n
    BY DEF RefInv, QueuedOnce
  <2> QED
    BY <2>2, <2>3, <2>4, <2>5, <2>6 DEF QueuedOnce
<1> QED
  BY <1>6, <1>7, <1>8, <1>9 DEF RefInv

LEMMA SystemRefs ==
  ASSUME TypeOK, RefInv, NoBatch, SystemStep
  PROVE  RefInv'
<1>1. UNCHANGED appVars
  BY DEF SystemStep
<1>2. CASE ReaperTake
  BY <1>1, <1>2, TakeRefs
<1>3. CASE ReaperDestroy
  BY <1>1, <1>3, DestroyRefs
<1>4. CASE UNCHANGED <<stm, tasks, tasks_pending>>
  BY <1>1, <1>4, SameRefs DEF appVars
<1>5. (AudioStep \/ AudioFail) => UNCHANGED <<stm, tasks, tasks_pending>>
  BY DEF AudioStep, AudioFail, AudioIntake, AudioExecute, AudioStartMix, AudioMix,
         AudioNotify, AudioRecycle, AudioExit, Leave, resourceVars, reaperVars, taskVars
<1>6. \/ ReaperSleep \/ SpuriousWake \/ ReaperSubmit \/ ReaperWait \/ ReaperReset
      \/ ReaperLoop
      => UNCHANGED <<stm, tasks, tasks_pending>>
  BY DEF ReaperSleep, SpuriousWake, ReaperSubmit, ReaperWait, ReaperReset, ReaperLoop,
         resourceVars, taskVars
<1> QED
  BY <1>2, <1>3, <1>4, <1>5, <1>6 DEF SystemStep, ReaperStep

LEMMA InitRefs == Init => RefInv
<1> SUFFICES ASSUME Init PROVE RefInv
  OBVIOUS
<1> PICK t \in Threads : held = [u \in Threads |-> IF u = t THEN {Api} ELSE {}]
  BY DEF Init
<1>1. /\ \A x \in Objects : rc[x] = IF x = Api THEN 1 ELSE 0
      /\ \A v \in Threads : call[v].at = "none"
      /\ \A b \in Buffers : stm[b] = "none"
      /\ tasks = <<>> /\ tasks_pending = <<>>
  BY DEF Init, ReaperInit, NoCall
<1>2. ASSUME NEW x \in Objects
      PROVE  /\ HeldBy(x) = IF x = Api THEN {t} ELSE {}
             /\ Unreffing(x) = {}
             /\ Children(x) = {}
  <2>1. \A v \in Threads : call[v] # [at |-> "unref", on |-> x]
    BY <1>1
  <2> QED
    BY <2>1, <1>1 DEF HeldBy, Unreffing, Children
<1>3. Counted
  <2> SUFFICES ASSUME NEW x \in Objects
               PROVE  rc[x] = Cardinality(HeldBy(x)) + Cardinality(Unreffing(x))
                                + Cardinality(Children(x))
    BY DEF Counted
  <2>1. Cardinality({t}) = 1 /\ Cardinality({}) = 0
    BY FS_Singleton, FS_EmptySet
  <2>2. /\ HeldBy(x) = IF x = Api THEN {t} ELSE {}
        /\ Unreffing(x) = {}
        /\ Children(x) = {}
    BY <1>2
  <2>3. CASE x = Api
    <3>1. HeldBy(x) = {t} /\ rc[x] = 1
      BY <1>1, <2>3, <2>2
    <3> QED
      BY <2>1, <2>2, <3>1
  <2>4. CASE x # Api
    <3>1. HeldBy(x) = {} /\ rc[x] = 0
      BY <1>1, <2>4, <2>2
    <3> QED
      BY <2>1, <2>2, <3>1
  <2> QED
    BY <2>3, <2>4
<1>4. ReferencedLives
  BY <1>1, LifetimeAssumption DEF ReferencedLives, Objects
<1>5. RetiringOnce /\ QueuedOnce
  BY <1>1 DEF RetiringOnce, QueuedOnce
<1> QED
  BY <1>3, <1>4, <1>5 DEF RefInv

-----------------------------------------------------------------------------
(* The pipe                                                                *)

PipeInv ==
  /\ StreamsLive
  /\ FenceIsLast
  /\ StopsComeLast
  /\ FenceState
  /\ BatchQuiesced
  /\ NoBatch
  /\ AudioGone

-----------------------------------------------------------------------------
(* The commands by position, and how the steps of the pipe move them       *)

LEMMA Positions ==
  ASSUME TypeOK
  PROVE  /\ ExecFrom \in Nat \ {0} /\ CallFrom \in Nat \ {0} /\ PipeLen \in Nat
         /\ CallFrom <= ExecFrom /\ ExecFrom <= PipeLen + 1
         /\ \A p \in 1..PipeLen : Cmd(p) \in Requests
<1> USE DEF TypeOK, PipeTypeOK, Phases
<1>1. Len(chamber) \in Nat /\ Len(intake) \in Nat /\ iter \in Nat \ {0}
  OBVIOUS
<1>2. \A p \in 1..PipeLen : Cmd(p) \in Requests
  <2> SUFFICES ASSUME NEW p \in 1..PipeLen PROVE Cmd(p) \in Contents
    BY ReaperAssumption
  <2>1. CASE p <= Len(chamber)
    BY <2>1, <1>1 DEF Cmd, PipeLen
  <2>2. CASE p > Len(chamber)
    <3>1. p - Len(chamber) \in 1..Len(intake)
      BY <2>2, <1>1 DEF PipeLen
    <3> QED
      BY <2>2, <3>1, <1>1 DEF Cmd
  <2> QED
    BY <2>1, <2>2, <1>1 DEF PipeLen
<1>3. phase = "idle" => Len(chamber) = 0
  OBVIOUS
<1> QED
  BY <1>1, <1>2, <1>3 DEF ExecFrom, CallFrom, PipeLen

LEMMA CommandFields ==
  ASSUME TypeOK, NEW p \in 1..PipeLen
  PROVE  /\ Cmd(p).type \in {"play", "stop", "set_volume"}
         /\ Cmd(p).stm \in Buffers
         /\ Cmd(p).callback \in BOOLEAN
  BY Positions DEF Requests

(* Nothing about the commands changes.                                     *)
SameCommands ==
  /\ ExecFrom' = ExecFrom /\ CallFrom' = CallFrom /\ PipeLen' = PipeLen
  /\ \A p \in 1..PipeLen : Cmd(p)' = Cmd(p)

LEMMA QuietPipe ==
  ASSUME TypeOK, UNCHANGED pipeVars \/ TakeBatch \/ StartMix \/ EndMix
  PROVE  SameCommands
<1> USE DEF TypeOK, PipeTypeOK, Phases, SameCommands, ExecFrom, CallFrom, PipeLen, Cmd
<1>1. CASE UNCHANGED pipeVars
  BY <1>1 DEF pipeVars
<1>2. CASE TakeBatch
  BY <1>2 DEF TakeBatch
<1>3. CASE StartMix
  BY <1>3 DEF StartMix, Visited
<1>4. CASE EndMix
  BY <1>4 DEF EndMix
<1> QED
  BY <1>1, <1>2, <1>3, <1>4

LEMMA SubmitPipe ==
  ASSUME TypeOK, NEW v \in Contents, Submit(v)
  PROVE  /\ ExecFrom' = ExecFrom /\ CallFrom' = CallFrom /\ PipeLen' = PipeLen + 1
         /\ \A p \in 1..PipeLen : Cmd(p)' = Cmd(p)
         /\ \A p : p = PipeLen + 1 => Cmd(p)' = v
<1> USE DEF TypeOK, PipeTypeOK, Submit, ExecFrom, CallFrom, PipeLen
<1>1. /\ Len(chamber) \in Nat /\ Len(intake) \in Nat /\ chamber' = chamber
      /\ intake' = Append(intake, v) /\ Len(intake') = Len(intake) + 1
  OBVIOUS
<1>2. \A p \in 1..PipeLen : Cmd(p)' = Cmd(p)
  BY <1>1 DEF Cmd
<1>3. \A p : p = PipeLen + 1 => Cmd(p)' = v
  BY <1>1 DEF Cmd
<1> QED
  BY <1>1, <1>2, <1>3

LEMMA ExecutePipe ==
  ASSUME TypeOK, Execute
  PROVE  /\ ExecFrom \in 1..PipeLen /\ Cmd(ExecFrom) = Current
         /\ ExecFrom' = ExecFrom + 1 /\ CallFrom' = CallFrom /\ PipeLen' = PipeLen
         /\ \A p \in 1..PipeLen : Cmd(p)' = Cmd(p)
  BY DEF TypeOK, PipeTypeOK, Execute, AtCommand, Current, ExecFrom, CallFrom, PipeLen, Cmd

LEMMA NotifyPipe ==
  ASSUME TypeOK, Notify
  PROVE  /\ CallFrom \in 1..PipeLen /\ CallFrom < ExecFrom /\ Cmd(CallFrom) = Current
         /\ ExecFrom' = ExecFrom /\ CallFrom' = CallFrom + 1 /\ PipeLen' = PipeLen
         /\ \A p \in 1..PipeLen : Cmd(p)' = Cmd(p)
  BY DEF TypeOK, PipeTypeOK, Notify, AtCommand, Current, ExecFrom, CallFrom, PipeLen, Cmd

LEMMA RecyclePipe ==
  ASSUME TypeOK, Recycle
  PROVE  \E d \in Nat :
           /\ ExecFrom = d + 1 /\ CallFrom = d + 1 /\ PipeLen = d + PipeLen'
           /\ ExecFrom' = 1 /\ CallFrom' = 1 /\ PipeLen' \in Nat
           /\ \A p \in 1..PipeLen' : Cmd(p)' = Cmd(p + d)
<1> USE DEF TypeOK, PipeTypeOK, Recycle, Visited, ExecFrom, CallFrom, PipeLen
<1>1. Len(chamber) \in Nat /\ Len(intake) \in Nat /\ iter = Len(chamber) + 1
  OBVIOUS
<1>2. chamber' = <<>> /\ intake' = intake /\ PipeLen' = Len(intake)
  BY <1>1
<1>3. \A p \in 1..PipeLen' : Cmd(p)' = Cmd(p + Len(chamber))
  BY <1>1, <1>2 DEF Cmd
<1> QED
  BY <1>1, <1>2, <1>3

-----------------------------------------------------------------------------
(* The invariant, step by step                                             *)

LEMMA Queues ==
  ASSUME TypeOK
  PROVE  /\ ToExecute \subseteq ToCall /\ ToCall \subseteq 1..PipeLen
         /\ \A p \in ToExecute : p \in Nat /\ p >= ExecFrom /\ p > 0
  BY Positions DEF ToExecute, ToCall

(* Steps that submit nothing, start nothing and free nothing, while the    *)
(* reaper stays with its batch or has none.                                *)
LEMMA QuietInv ==
  ASSUME TypeOK, PipeInv, SameCommands,
         mixing' \subseteq mixing,
         \A b \in Buffers : stm[b] = "live" => stm'[b] = "live",
         UNCHANGED <<tasks, task, fence>>,
         audio' = "exited" => phase' = "idle" /\ mixing' = {},
         rpc' = rpc \/ {rpc, rpc'} \subseteq {"check", "asleep", "woken"}
  PROVE  PipeInv'
<1>1. ToExecute' = ToExecute /\ ToCall' = ToCall
  BY DEF SameCommands, ToExecute, ToCall
<1>2. /\ \A p \in ToCall : Cmd(p)' = Cmd(p) /\ Cmd(p).stm \in Buffers
      /\ \A p \in ToExecute : Cmd(p)' = Cmd(p) /\ Cmd(p).stm \in Buffers
  BY Queues, CommandFields DEF SameCommands
<1>3. StreamsLive'
  BY <1>1, <1>2 DEF PipeInv, StreamsLive, TypeOK
<1>4. FenceIsLast'
  BY <1>1, <1>2 DEF PipeInv, FenceIsLast
<1>5. StopsComeLast'
  <2>1. \A b, p : StopFollows(b, p)' <=> StopFollows(b, p)
    BY <1>1, <1>2 DEF StopFollows
  <2> QED
    BY <1>1, <1>2, <2>1 DEF PipeInv, StopsComeLast
<1>6. FenceState' /\ NoBatch' /\ AudioGone'
  BY DEF PipeInv, FenceState, NoBatch, AudioGone
<1>7. BatchQuiesced'
  BY <1>1, <1>2 DEF PipeInv, BatchQuiesced
<1> QED
  BY <1>3, <1>4, <1>5, <1>6, <1>7 DEF PipeInv

(* The audio thread executes a command.                                    *)
LEMMA ExecuteInv ==
  ASSUME TypeOK, PipeInv, AudioExecute
  PROVE  PipeInv'
<1> PICK c \in Nat : c = ExecFrom
  BY Positions
<1>1. /\ c \in ToExecute /\ Cmd(c) = Current
      /\ ToExecute' = ToExecute \ {c}
      /\ \A p \in ToExecute' : p > c
      /\ ToCall' = ToCall
  BY Positions, ExecutePipe DEF AudioExecute, ToExecute, ToCall
<1>2. /\ \A p \in ToCall : Cmd(p)' = Cmd(p)
      /\ \A p \in ToExecute : Cmd(p)' = Cmd(p)
      /\ \A p \in ToExecute : p \in Nat /\ p >= c
  BY Queues, ExecutePipe DEF AudioExecute
<1>3. /\ Cmd(c).type \in {"play", "stop", "set_volume"} /\ Cmd(c).stm \in Buffers
      /\ mixing' = CASE Cmd(c).type = "play" -> mixing \cup {Cmd(c).stm}
                     [] Cmd(c).type = "stop" -> mixing \ {Cmd(c).stm}
                     [] OTHER -> mixing
      /\ UNCHANGED <<audio, stm, tasks, task, rpc, fence>>
  BY <1>1, Queues, CommandFields
     DEF AudioExecute, resourceVars, reaperVars, taskVars, threadVars
<1>4. StreamsLive'
  BY <1>1, <1>2, <1>3 DEF PipeInv, StreamsLive
<1>5. FenceIsLast'
  BY <1>1, <1>2, <1>3 DEF PipeInv, FenceIsLast
<1>6. StopsComeLast'
  <2> SUFFICES ASSUME rpc \in {"submit", "fence"}, NEW n \in 1..(task - 1), NEW b, b = tasks[n]
               PROVE  /\ b \in mixing' => StopFollows(b, 0)'
                      /\ \A p \in ToExecute' :
                           Cmd(p).stm = b /\ Cmd(p).type = "play" => StopFollows(b, p)'
    BY <1>1, <1>2, <1>3 DEF StopsComeLast
  <2>1. /\ b \in mixing => StopFollows(b, 0)
        /\ \A p \in ToExecute :
             Cmd(p).stm = b /\ Cmd(p).type = "play" => StopFollows(b, p)
    BY DEF PipeInv, StopsComeLast
  <2>2. ASSUME NEW p \in Nat, p >= c, StopFollows(b, p) PROVE StopFollows(b, p)'
    BY <2>2, <1>1, <1>2 DEF StopFollows
  <2>3. ASSUME b \in mixing' PROVE StopFollows(b, 0)'
    <3>1. CASE Cmd(c).type = "play" /\ Cmd(c).stm = b
      <4>1. StopFollows(b, c)'
        BY <3>1, <2>1, <2>2, <1>1
      <4> QED
        BY <4>1, <1>1, <1>2 DEF StopFollows
    <3>2. CASE b \in mixing /\ ~(Cmd(c).type = "stop" /\ Cmd(c).stm = b)
      <4>1. PICK q \in ToExecute : q > 0 /\ Cmd(q).stm = b /\ Cmd(q).type = "stop"
        BY <3>2, <2>1 DEF StopFollows
      <4>2. q \in ToExecute'
        BY <4>1, <3>2, <1>1
      <4> QED
        BY <4>1, <4>2, <1>2 DEF StopFollows
    <3> QED
      BY <2>3, <3>1, <3>2, <1>3
  <2> QED
    BY <2>1, <2>2, <2>3, <1>1, <1>2
<1>7. FenceState' /\ NoBatch'
  BY <1>3 DEF PipeInv, FenceState, NoBatch
<1>8. BatchQuiesced'
  BY <1>1, <1>2, <1>3 DEF PipeInv, BatchQuiesced
<1>9. AudioGone'
  BY <1>3 DEF PipeInv, AudioGone, AudioExecute, Execute, AtCommand
<1> QED
  BY <1>4, <1>5, <1>6, <1>7, <1>8, <1>9 DEF PipeInv

(* The audio thread calls a command back: that may signal the fence.       *)
LEMMA NotifyInv ==
  ASSUME TypeOK, PipeInv, AudioNotify
  PROVE  PipeInv'
<1> PICK c \in Nat : c = CallFrom
  BY Positions
<1>1. /\ c \in ToCall /\ Cmd(c) = Current
      /\ ToCall' = ToCall \ {c}
      /\ ToExecute' = ToExecute
      /\ \A p \in ToExecute : p > c
  BY Positions, NotifyPipe DEF AudioNotify, ToExecute, ToCall
<1>2. /\ \A p \in ToCall : Cmd(p)' = Cmd(p)
      /\ \A p \in ToExecute : Cmd(p)' = Cmd(p) /\ p \in ToCall /\ p \in Nat
  BY Queues, NotifyPipe DEF AudioNotify
<1>3. /\ fence' = (fence \/ Cmd(c).callback)
      /\ UNCHANGED <<audio, mixing, stm, tasks, task, rpc>>
      /\ Cmd(c).callback \in BOOLEAN /\ fence \in BOOLEAN
  BY <1>1, Queues, CommandFields
     DEF AudioNotify, audioVars, resourceVars, taskVars, threadVars, TypeOK
<1>4. StreamsLive'
  BY <1>1, <1>2, <1>3 DEF PipeInv, StreamsLive
<1>5. StopsComeLast'
  <2>1. \A b, p : StopFollows(b, p)' <=> StopFollows(b, p)
    BY <1>1, <1>2 DEF StopFollows
  <2> QED
    BY <1>1, <1>2, <1>3, <2>1 DEF PipeInv, StopsComeLast
<1>6. NoBatch' /\ AudioGone'
  BY <1>3 DEF PipeInv, NoBatch, AudioGone, AudioNotify, Notify, AtCommand
<1>7. CASE ~Cmd(c).callback
  <2>1. fence' = fence
    BY <1>3, <1>7
  <2>2. FenceIsLast'
    BY <1>1, <1>2, <1>3, <2>1 DEF PipeInv, FenceIsLast
  <2>3. FenceState' /\ BatchQuiesced'
    BY <1>1, <1>2, <1>3, <2>1 DEF PipeInv, FenceState, BatchQuiesced
  <2> QED
    BY <1>4, <1>5, <1>6, <2>2, <2>3 DEF PipeInv
<1>8. CASE Cmd(c).callback
  <2>1. /\ rpc = "fence"
        /\ \A p \in ToCall : Cmd(p).callback => p = c
        /\ \A p \in ToExecute : \A n \in 1..Len(tasks) : Cmd(p).stm = tasks[n] => p <= c
    BY <1>1, <1>8 DEF PipeInv, FenceIsLast
  <2>2. FenceIsLast'
    BY <2>1, <1>1, <1>2 DEF FenceIsLast
  <2>3. task = Len(tasks) + 1 /\ Len(tasks) \in Nat
    BY <2>1 DEF PipeInv, FenceState, TypeOK
  <2>4. \A p \in ToExecute : \A n \in 1..Len(tasks) : Cmd(p).stm # tasks[n]
    BY <2>1, <1>1, <1>2
  <2>5. \A n \in 1..Len(tasks) : tasks[n] \notin mixing
    BY <2>1, <2>3, <2>4 DEF PipeInv, StopsComeLast, StopFollows
  <2>6. FenceState' /\ BatchQuiesced'
    BY <2>1, <2>3, <2>4, <2>5, <1>1, <1>2, <1>3 DEF FenceState, BatchQuiesced
  <2> QED
    BY <1>4, <1>5, <1>6, <2>2, <2>6 DEF PipeInv
<1> QED
  BY <1>7, <1>8

LEMMA Shift ==
  ASSUME NEW d \in Nat, NEW len \in Nat
  PROVE  /\ \A p \in 1..len : p + d \in (d + 1)..(d + len)
         /\ \A q \in (d + 1)..(d + len) :
              q - d \in 1..len /\ (q - d) + d = q /\ q \in Nat
  OBVIOUS

(* The batch has been called back: the positions move down.                *)
LEMMA RecycleInv ==
  ASSUME TypeOK, PipeInv, AudioRecycle
  PROVE  PipeInv'
<1> PICK d \in Nat :
      /\ ExecFrom = d + 1 /\ CallFrom = d + 1 /\ PipeLen = d + PipeLen'
      /\ ExecFrom' = 1 /\ CallFrom' = 1 /\ PipeLen' \in Nat
      /\ \A p \in 1..PipeLen' : Cmd(p)' = Cmd(p + d)
  BY RecyclePipe DEF AudioRecycle
<1>1. /\ ToCall = ToExecute /\ ToCall' = ToExecute'
      /\ \A p \in ToExecute' : p \in Nat /\ p > 0 /\ Cmd(p)' = Cmd(p + d)
      /\ \A p \in ToExecute' : p + d \in ToExecute
      /\ \A q \in ToExecute : q - d \in ToExecute' /\ (q - d) + d = q /\ q \in Nat
  <2> PICK len \in Nat : len = PipeLen'
    OBVIOUS
  <2>1. ToExecute = (d + 1)..(d + len) /\ ToCall = ToExecute
    BY DEF ToExecute, ToCall
  <2>2. ToExecute' = 1..len /\ ToCall' = ToExecute'
    BY DEF ToExecute, ToCall
  <2>3. \A p \in 1..len : p \in Nat /\ p > 0 /\ Cmd(p)' = Cmd(p + d)
    OBVIOUS
  <2>4. /\ \A p \in 1..len : p + d \in (d + 1)..(d + len)
        /\ \A q \in (d + 1)..(d + len) :
             q - d \in 1..len /\ (q - d) + d = q /\ q \in Nat
    BY Shift
  <2> QED
    BY <2>1, <2>2, <2>3, <2>4
<1>2. UNCHANGED <<audio, mixing, stm, tasks, task, rpc, fence>>
  BY DEF AudioRecycle, audioVars, resourceVars, reaperVars, taskVars, threadVars
<1>3. StreamsLive'
  BY <1>1, <1>2 DEF PipeInv, StreamsLive
<1>4. FenceIsLast'
  <2> SUFFICES ASSUME NEW c \in ToCall', Cmd(c + d).callback
               PROVE  /\ rpc = "fence"
                      /\ ~fence
                      /\ \A p \in ToCall' : Cmd(p + d).callback => p = c
                      /\ \A p \in ToExecute' : \A n \in 1..Len(tasks) :
                           Cmd(p + d).stm = tasks[n] => p <= c
    BY <1>1, <1>2 DEF FenceIsLast
  <2>1. c \in Nat /\ c + d \in ToCall
    BY <1>1
  <2>2. /\ rpc = "fence"
        /\ ~fence
        /\ \A p \in ToCall : Cmd(p).callback => p = c + d
        /\ \A p \in ToExecute : \A n \in 1..Len(tasks) : Cmd(p).stm = tasks[n] => p <= c + d
    BY <2>1 DEF PipeInv, FenceIsLast
  <2>3. \A p \in Nat : (p + d = c + d => p = c) /\ (p + d <= c + d => p <= c)
    BY <2>1
  <2> QED
    BY <2>2, <2>3, <1>1
<1>5. StopsComeLast'
  <2>1. ASSUME NEW b, NEW p \in Nat, StopFollows(b, p + d) PROVE StopFollows(b, p)'
    <3>1. PICK q \in ToExecute : q > p + d /\ Cmd(q).stm = b /\ Cmd(q).type = "stop"
      BY <2>1 DEF StopFollows
    <3>2. q - d \in ToExecute' /\ q - d > p /\ Cmd(q - d)' = Cmd(q)
      BY <3>1, <1>1
    <3> QED
      BY <3>1, <3>2 DEF StopFollows
  <2>2. ASSUME NEW b, StopFollows(b, 0) PROVE StopFollows(b, 0)'
    <3>1. PICK q \in ToExecute : Cmd(q).stm = b /\ Cmd(q).type = "stop"
      BY <2>2 DEF StopFollows
    <3>2. q - d \in ToExecute' /\ q - d > 0 /\ Cmd(q - d)' = Cmd(q)
      BY <3>1, <1>1
    <3> QED
      BY <3>1, <3>2 DEF StopFollows
  <2> SUFFICES ASSUME rpc \in {"submit", "fence"}, NEW n \in 1..(task - 1), NEW b, b = tasks[n]
               PROVE  /\ b \in mixing => StopFollows(b, 0)'
                      /\ \A p \in ToExecute' :
                           Cmd(p + d).stm = b /\ Cmd(p + d).type = "play"
                             => StopFollows(b, p)'
    BY <1>1, <1>2 DEF StopsComeLast
  <2>3. /\ b \in mixing => StopFollows(b, 0)
        /\ \A p \in ToExecute :
             Cmd(p).stm = b /\ Cmd(p).type = "play" => StopFollows(b, p)
    BY DEF PipeInv, StopsComeLast
  <2> QED
    BY <2>1, <2>2, <2>3, <1>1
<1>6. FenceState' /\ NoBatch' /\ AudioGone'
  BY <1>2 DEF PipeInv, FenceState, NoBatch, AudioGone, AudioRecycle, Recycle, Visited
<1>7. BatchQuiesced'
  BY <1>1, <1>2 DEF PipeInv, BatchQuiesced
<1> QED
  BY <1>3, <1>4, <1>5, <1>6, <1>7 DEF PipeInv

(* A command is appended: v, at position last.                             *)
LEMMA Appended ==
  ASSUME TypeOK, NEW v \in Contents, Submit(v), NEW last, last = PipeLen + 1
  PROVE  /\ last \in Nat /\ last > 0
         /\ ToExecute' = ToExecute \cup {last} /\ ToCall' = ToCall \cup {last}
         /\ Cmd(last)' = v
         /\ \A p \in ToCall : Cmd(p)' = Cmd(p) /\ p \in Nat /\ p < last
         /\ \A p \in ToExecute : Cmd(p)' = Cmd(p) /\ p \in Nat /\ p < last
         /\ \A b, p : StopFollows(b, p) => StopFollows(b, p)'
<1>1. /\ ToExecute' = ToExecute \cup {last} /\ ToCall' = ToCall \cup {last}
      /\ last \in Nat /\ last > 0
  BY Positions, SubmitPipe DEF ToExecute, ToCall
<1>2. /\ \A p \in ToCall : Cmd(p)' = Cmd(p) /\ p \in Nat /\ p < last
      /\ \A p \in ToExecute : Cmd(p)' = Cmd(p) /\ p \in Nat /\ p < last
  BY Positions, Queues, SubmitPipe
<1>3. Cmd(last)' = v
  BY SubmitPipe
<1>4. \A b, p : StopFollows(b, p) => StopFollows(b, p)'
  BY <1>1, <1>2 DEF StopFollows
<1> QED
  BY <1>1, <1>2, <1>3, <1>4

(* An application thread says something about a buffer it holds: nothing   *)
(* of the reaper's batch.                                                  *)
LEMMA UseInv ==
  ASSUME TypeOK, RefInv, PipeInv, NEW t \in Threads, NEW b \in Buffers, NEW type \in Uses,
         Use(t, b, type)
  PROVE  PipeInv'
<1> DEFINE v == [type |-> type, stm |-> b, callback |-> FALSE]
<1> PICK last \in Nat : last = PipeLen + 1
  BY Positions
<1>1. v \in Contents /\ Submit(v)
  BY ReaperAssumption, LifetimeAssumption DEF Use, Requests
<1>2. v.stm = b /\ v.callback = FALSE
  OBVIOUS
<1> HIDE DEF v
<1>3. /\ last > 0
      /\ ToExecute' = ToExecute \cup {last} /\ ToCall' = ToCall \cup {last}
      /\ Cmd(last)' = v
      /\ \A p \in ToCall : Cmd(p)' = Cmd(p) /\ p < last
      /\ \A p \in ToExecute : Cmd(p)' = Cmd(p) /\ p < last
      /\ \A d, p : StopFollows(d, p) => StopFollows(d, p)'
  BY <1>1, Appended
<1>4. stm[b] = "live" /\ \A n \in 1..Len(tasks) : tasks[n] # b
  <2>1. rc[b] > 0
    BY HolderReferences DEF Use, RefInv, Objects
  <2> QED
    BY <2>1 DEF RefInv, ReferencedLives, QueuedOnce, Retired
<1>5. UNCHANGED <<audio, mixing, stm, tasks, task, rpc, fence>>
  BY DEF Use, audioVars, resourceVars, reaperVars, taskVars, threadVars
<1>6. StreamsLive'
  BY <1>2, <1>3, <1>4, <1>5 DEF PipeInv, StreamsLive
<1>7. FenceIsLast'
  BY <1>2, <1>3, <1>4, <1>5 DEF PipeInv, FenceIsLast
<1>8. StopsComeLast'
  <2> SUFFICES ASSUME rpc \in {"submit", "fence"}, NEW n \in 1..(task - 1), NEW d, d = tasks[n]
               PROVE  /\ d \in mixing => StopFollows(d, 0)'
                      /\ \A p \in ToExecute' :
                           Cmd(p)'.stm = d /\ Cmd(p)'.type = "play" => StopFollows(d, p)'
    BY <1>5 DEF StopsComeLast
  <2>1. /\ d \in mixing => StopFollows(d, 0)
        /\ \A p \in ToExecute :
             Cmd(p).stm = d /\ Cmd(p).type = "play" => StopFollows(d, p)
    BY DEF PipeInv, StopsComeLast
  <2>2. d # b
    BY <1>4 DEF TypeOK, PipeInv, FenceState
  <2> QED
    BY <2>1, <2>2, <1>2, <1>3
<1>9. FenceState' /\ NoBatch'
  BY <1>5 DEF PipeInv, FenceState, NoBatch
<1>10. BatchQuiesced'
  BY <1>2, <1>3, <1>4, <1>5 DEF PipeInv, BatchQuiesced
<1>11. AudioGone'
  BY <1>1, <1>5 DEF PipeInv, AudioGone, Submit
<1> QED
  BY <1>6, <1>7, <1>8, <1>9, <1>10, <1>11 DEF PipeInv

(* The reaper submits the stop of one task, the last one with the fence.   *)
LEMMA ReaperSubmitInv ==
  ASSUME TypeOK, RefInv, PipeInv, ReaperSubmit
  PROVE  PipeInv'
<1> DEFINE v == [type |-> "stop", stm |-> tasks[task], callback |-> task = Len(tasks)]
<1> PICK last \in Nat : last = PipeLen + 1
  BY Positions
<1> PICK b \in Buffers, n0 \in 1..Len(tasks) : n0 = task /\ b = tasks[n0]
  BY QueuedTypes DEF TypeOK, ReaperSubmit
<1>1. v \in Contents /\ Submit(v)
  BY ReaperAssumption DEF ReaperSubmit, Requests
<1>2. v.type = "stop" /\ v.stm = b /\ (v.callback <=> n0 = Len(tasks))
  OBVIOUS
<1> HIDE DEF v
<1>3. /\ last > 0
      /\ ToExecute' = ToExecute \cup {last} /\ ToCall' = ToCall \cup {last}
      /\ Cmd(last)' = v
      /\ \A p \in ToCall : Cmd(p)' = Cmd(p) /\ p < last
      /\ \A p \in ToExecute : Cmd(p)' = Cmd(p) /\ p \in Nat /\ p < last
      /\ \A d, p : StopFollows(d, p) => StopFollows(d, p)'
  BY <1>1, Appended
<1>4. stm[b] = "live"
  BY DEF RefInv, QueuedOnce, Retired
<1>5. /\ UNCHANGED <<audio, mixing, stm, tasks, fence>>
      /\ rpc = "submit" /\ task = n0 /\ task' = n0 + 1
      /\ rpc' = IF n0 = Len(tasks) THEN "fence" ELSE "submit"
      /\ fence = FALSE
      /\ n0 \in Nat /\ Len(tasks) \in Nat
  BY DEF ReaperSubmit, audioVars, resourceVars, PipeInv, FenceState, TypeOK
<1>6. \A c \in ToCall : ~Cmd(c).callback
  BY <1>5 DEF PipeInv, FenceIsLast
<1>7. StreamsLive'
  BY <1>2, <1>3, <1>4, <1>5 DEF PipeInv, StreamsLive
<1>8. FenceIsLast'
  BY <1>2, <1>3, <1>5, <1>6 DEF FenceIsLast
<1>9. StopsComeLast'
  <2>1. \A p \in ToExecute : StopFollows(b, p)'
    BY <1>2, <1>3 DEF StopFollows
  <2>2. StopFollows(b, 0)'
    BY <1>2, <1>3 DEF StopFollows
  <2>3. ASSUME NEW d, NEW n \in 1..n0, d = tasks[n], d # b
        PROVE  /\ d \in mixing => StopFollows(d, 0)
               /\ \A p \in ToExecute :
                    Cmd(p).stm = d /\ Cmd(p).type = "play" => StopFollows(d, p)
    <3>1. n \in 1..(n0 - 1)
      BY <2>3, <1>5
    <3> QED
      BY <2>3, <3>1, <1>5 DEF PipeInv, StopsComeLast
  <2> SUFFICES ASSUME NEW n \in 1..n0, NEW d, d = tasks[n]
               PROVE  /\ d \in mixing => StopFollows(d, 0)'
                      /\ \A p \in ToExecute' :
                           Cmd(p)'.stm = d /\ Cmd(p)'.type = "play" => StopFollows(d, p)'
    <3>1. (task - 1)' = n0
      BY <1>5
    <3> QED
      BY <3>1, <1>5 DEF StopsComeLast
  <2> QED
    BY <2>1, <2>2, <2>3, <1>2, <1>3
<1>10. FenceState' /\ NoBatch' /\ BatchQuiesced'
  BY <1>5 DEF FenceState, NoBatch, BatchQuiesced
<1>11. AudioGone'
  BY <1>1, <1>5 DEF PipeInv, AudioGone, Submit
<1> QED
  BY <1>7, <1>8, <1>9, <1>10, <1>11 DEF PipeInv

(* The reaper's other steps leave the pipe alone.                          *)
LEMMA ReaperInv ==
  ASSUME TypeOK, RefInv, PipeInv,
         ReaperTake \/ ReaperWait \/ ReaperReset \/ ReaperDestroy \/ ReaperLoop
  PROVE  PipeInv'
<1> USE DEF resourceVars, audioVars, taskVars
<1>1. UNCHANGED <<pipeVars, audio, mixing>>
  BY DEF ReaperTake, ReaperWait, ReaperReset, ReaperDestroy, ReaperLoop
<1>2. /\ ToExecute' = ToExecute /\ ToCall' = ToCall
      /\ \A p \in ToCall : Cmd(p)' = Cmd(p) /\ Cmd(p).stm \in Buffers
      /\ \A p \in ToExecute : Cmd(p)' = Cmd(p) /\ Cmd(p).stm \in Buffers
  BY <1>1, QuietPipe, Queues, CommandFields DEF SameCommands, ToExecute, ToCall
<1>3. \A b, p : StopFollows(b, p)' <=> StopFollows(b, p)
  BY <1>2 DEF StopFollows
<1>4. AudioGone'
  BY <1>1 DEF PipeInv, AudioGone, pipeVars
<1>5. CASE ReaperTake
  <2>1. /\ rpc \in {"check", "woken"} /\ tasks = <<>> /\ fence = FALSE /\ fence' = FALSE
        /\ tasks' = tasks_pending /\ task' = 1 /\ stm' = stm
        /\ rpc' = IF tasks_pending = <<>> THEN "destroy" ELSE "submit"
    BY <1>5 DEF ReaperTake, PipeInv, NoBatch, FenceState, TypeOK
  <2>2. \A c \in ToCall : ~Cmd(c).callback
    BY <2>1 DEF PipeInv, FenceIsLast
  <2>3. StreamsLive'
    BY <1>1, <1>2, <2>1 DEF PipeInv, StreamsLive
  <2>4. FenceIsLast'
    BY <1>2, <2>2 DEF FenceIsLast
  <2>5. StopsComeLast'
    BY <2>1 DEF StopsComeLast
  <2>6. FenceState' /\ NoBatch' /\ BatchQuiesced'
    BY <2>1 DEF FenceState, NoBatch, BatchQuiesced
  <2> QED
    BY <1>4, <2>3, <2>4, <2>5, <2>6 DEF PipeInv
<1>6. CASE ReaperWait
  <2>1. /\ rpc = "fence" /\ fence /\ rpc' = "reset"
        /\ UNCHANGED <<stm, tasks, task, fence>>
    BY <1>6 DEF ReaperWait
  <2>2. \A c \in ToCall : ~Cmd(c).callback
    BY <2>1 DEF PipeInv, FenceIsLast
  <2>3. StreamsLive'
    BY <1>1, <1>2, <2>1 DEF PipeInv, StreamsLive
  <2>4. FenceIsLast' /\ StopsComeLast' /\ FenceState' /\ NoBatch'
    BY <1>2, <2>1, <2>2 DEF FenceIsLast, StopsComeLast, FenceState, NoBatch
  <2>5. BatchQuiesced'
    BY <1>1, <1>2, <2>1 DEF PipeInv, BatchQuiesced
  <2> QED
    BY <1>4, <2>3, <2>4, <2>5 DEF PipeInv
<1>7. CASE ReaperReset
  <2>1. /\ rpc = "reset" /\ rpc' = "destroy" /\ fence' = FALSE
        /\ UNCHANGED <<stm, tasks, task>>
    BY <1>7 DEF ReaperReset
  <2>2. \A c \in ToCall : ~Cmd(c).callback
    BY <2>1 DEF PipeInv, FenceIsLast
  <2>3. StreamsLive'
    BY <1>1, <1>2, <2>1 DEF PipeInv, StreamsLive
  <2>4. FenceIsLast' /\ StopsComeLast' /\ FenceState' /\ NoBatch'
    BY <1>2, <2>1, <2>2 DEF FenceIsLast, StopsComeLast, FenceState, NoBatch
  <2>5. BatchQuiesced'
    BY <1>1, <1>2, <2>1 DEF PipeInv, BatchQuiesced
  <2> QED
    BY <1>4, <2>3, <2>4, <2>5 DEF PipeInv
<1>8. CASE ReaperDestroy
  <2> PICK b \in Buffers : b = tasks[1] /\ b = Head(tasks) /\ 1 \in 1..Len(tasks)
    BY <1>8 DEF ReaperDestroy, TypeOK
  <2>1. /\ rpc = "destroy" /\ rpc' = "destroy" /\ fence' = fence /\ fence = FALSE
        /\ tasks' = Tail(tasks)
        /\ \A d \in Buffers : d # b => stm'[d] = stm[d]
    BY <1>8 DEF ReaperDestroy, threadVars, PipeInv, FenceState, TypeOK
  <2>2. \A c \in ToCall : ~Cmd(c).callback
    BY <2>1 DEF PipeInv, FenceIsLast
  <2>3. b \notin mixing /\ \A p \in ToExecute : Cmd(p).stm # b
    BY <2>1 DEF PipeInv, BatchQuiesced
  <2>4. StreamsLive'
    BY <1>1, <1>2, <2>1, <2>3 DEF PipeInv, StreamsLive, TypeOK
  <2>5. FenceIsLast' /\ StopsComeLast' /\ FenceState' /\ NoBatch'
    BY <1>2, <2>1, <2>2 DEF FenceIsLast, StopsComeLast, FenceState, NoBatch
  <2>6. BatchQuiesced'
    <3>1. \A n \in 1..Len(Tail(tasks)) :
            n + 1 \in 1..Len(tasks) /\ Tail(tasks)[n] = tasks[n + 1]
      BY DEF TypeOK
    <3> QED
      BY <3>1, <1>1, <1>2, <2>1 DEF PipeInv, BatchQuiesced
  <2> QED
    BY <1>4, <2>4, <2>5, <2>6 DEF PipeInv
<1>9. CASE ReaperLoop
  <2>1. /\ rpc = "destroy" /\ rpc' \in {"exited", "check"} /\ tasks = <<>>
        /\ fence = FALSE
        /\ UNCHANGED <<stm, tasks, task, fence>>
    BY <1>9 DEF ReaperLoop, PipeInv, FenceState, TypeOK
  <2>2. \A c \in ToCall : ~Cmd(c).callback
    BY <2>1 DEF PipeInv, FenceIsLast
  <2>3. StreamsLive'
    BY <1>1, <1>2, <2>1 DEF PipeInv, StreamsLive
  <2>4. FenceIsLast' /\ StopsComeLast' /\ FenceState' /\ NoBatch' /\ BatchQuiesced'
    BY <1>2, <2>1, <2>2
       DEF FenceIsLast, StopsComeLast, FenceState, NoBatch, BatchQuiesced
  <2> QED
    BY <1>4, <2>3, <2>4 DEF PipeInv
<1> QED
  BY <1>5, <1>6, <1>7, <1>8, <1>9

(* wasapi_free has joined the audio thread and drops what nobody took.     *)
LEMMA JoinAudioInv ==
  ASSUME TypeOK, PipeInv, NEW t \in Threads, JoinAudio(t)
  PROVE  PipeInv'
<1>1. /\ phase' = "idle" /\ mixing' = {} /\ chamber' = <<>> /\ intake' = <<>>
      /\ UNCHANGED <<stm, tasks, task, rpc, fence>>
  BY DEF JoinAudio, PipeInv, AudioGone, TypeOK, PipeTypeOK, audioVars, resourceVars,
         reaperVars, taskVars, threadVars
<1>2. ToExecute' = {} /\ ToCall' = {}
  BY <1>1 DEF ToExecute, ToCall, ExecFrom, CallFrom, PipeLen
<1>3. StreamsLive' /\ FenceIsLast' /\ StopsComeLast' /\ BatchQuiesced' /\ AudioGone'
  BY <1>1, <1>2 DEF StreamsLive, FenceIsLast, StopsComeLast, BatchQuiesced, AudioGone
<1>4. FenceState' /\ NoBatch'
  BY <1>1 DEF PipeInv, FenceState, NoBatch
<1> QED
  BY <1>3, <1>4 DEF PipeInv

-----------------------------------------------------------------------------
(* The steps together                                                      *)

(* The audio thread's steps that are neither execution, callback nor       *)
(* recycling; the reaper's sleep.                                          *)
LEMMA QuietSystemInv ==
  ASSUME TypeOK, PipeInv, UNCHANGED appVars,
         \/ AudioIntake \/ AudioStartMix \/ AudioMix \/ AudioExit \/ AudioFail
         \/ ReaperSleep \/ SpuriousWake
  PROVE  PipeInv'
<1> USE DEF audioVars, resourceVars, reaperVars, taskVars, threadVars
<1>1. SameCommands
  BY QuietPipe DEF AudioIntake, AudioStartMix, AudioMix, AudioExit, AudioFail, Leave,
                   ReaperSleep, SpuriousWake
<1>2. /\ mixing' \subseteq mixing
      /\ UNCHANGED <<stm, tasks, task, fence>>
      /\ rpc' = rpc \/ {rpc, rpc'} \subseteq {"check", "asleep", "woken"}
  BY DEF AudioIntake, AudioStartMix, AudioMix, AudioExit, AudioFail, Leave,
         ReaperSleep, SpuriousWake
<1>3. audio' = "exited" => phase' = "idle" /\ mixing' = {}
  <2>1. CASE AudioExit \/ AudioFail
    BY <2>1 DEF AudioExit, AudioFail, Leave, pipeVars
  <2>2. CASE AudioIntake
    BY <2>2 DEF AudioIntake
  <2>3. CASE AudioStartMix \/ AudioMix
    BY <2>3 DEF PipeInv, AudioGone, AudioStartMix, AudioMix, StartMix, EndMix, Visited
  <2>4. CASE ReaperSleep \/ SpuriousWake
    BY <2>4 DEF PipeInv, AudioGone, ReaperSleep, SpuriousWake, pipeVars
  <2> QED
    BY <2>1, <2>2, <2>3, <2>4
<1> QED
  BY <1>1, <1>2, <1>3, QuietInv

LEMMA SystemInv ==
  ASSUME TypeOK, RefInv, PipeInv, SystemStep
  PROVE  PipeInv'
  BY QuietSystemInv, ExecuteInv, NotifyInv, RecycleInv, ReaperSubmitInv, ReaperInv
     DEF SystemStep, AudioStep, ReaperStep

LEMMA AppInv ==
  ASSUME TypeOK, RefInv, PipeInv, NEW t \in Threads, AppBegins(t) \/ AppContinues(t)
  PROVE  PipeInv'
<1> USE DEF audioVars, resourceVars, reaperVars, taskVars, threadVars
<1>1. ASSUME NEW b \in Buffers, NEW type \in Uses, Use(t, b, type) PROVE PipeInv'
  BY <1>1, UseInv
<1>2. CASE JoinAudio(t)
  BY <1>2, JoinAudioInv
<1>3. ASSUME UNCHANGED pipeVars, UNCHANGED <<audio, mixing, tasks, task, fence>>,
             \A b \in Buffers : stm[b] = "live" => stm'[b] = "live",
             rpc' = rpc \/ rpc' = Woken
      PROVE  PipeInv'
  <2>1. rpc' = rpc \/ {rpc, rpc'} \subseteq {"check", "asleep", "woken"}
    BY <1>3 DEF Woken
  <2>2. audio' = "exited" => phase' = "idle" /\ mixing' = {}
    BY <1>3 DEF PipeInv, AudioGone, pipeVars
  <2>3. SameCommands
    BY <1>3, QuietPipe
  <2> QED
    BY <1>3, <2>1, <2>2, <2>3, QuietInv
<1>4. ASSUME NEW b \in Buffers, NEW par, Alloc(t, b, par) PROVE PipeInv'
  <2>1. \A d \in Buffers : stm[d] = "live" => stm'[d] = "live"
    BY <1>4 DEF Alloc, TypeOK
  <2> QED
    BY <1>4, <2>1, <1>3 DEF Alloc
<1>5. ASSUME NEW b \in Buffers, Create(t, b) PROVE PipeInv'
  BY <1>5, <1>4 DEF Create
<1>6. ASSUME NEW b \in Buffers, NEW src \in Buffers, Duplicate(t, b, src) PROVE PipeInv'
  BY <1>6, <1>4 DEF Duplicate
<1>7. ASSUME NEW x \in Objects, Release(t, x) PROVE PipeInv'
  BY <1>7, <1>3 DEF Release
<1>8. ASSUME NEW x \in Objects, NEW u \in Threads, AddRef(t, x, u) PROVE PipeInv'
  BY <1>8, <1>3 DEF AddRef
<1>9. CASE Retire(t)
  BY <1>9, <1>3 DEF Retire, SubmitTask
<1>10. CASE UnrefParent(t) \/ JoinReaper(t) \/ StopAudio(t)
  BY <1>10, <1>3 DEF UnrefParent, JoinReaper, StopAudio
<1>11. CASE StopReaper(t)
  BY <1>11, <1>3 DEF StopReaper, RaiseStop
<1> QED
  BY <1>1, <1>2, <1>5, <1>6, <1>7, <1>8, <1>9, <1>10, <1>11
     DEF AppBegins, AppContinues

LEMMA StutterInv ==
  ASSUME IInv, UNCHANGED vars
  PROVE  IInv'
<1> USE DEF IInv
<1>1. TypeOK'
  BY DEF TypeOK, PipeTypeOK, vars, pipeVars, audioVars, resourceVars, reaperVars,
         taskVars, threadVars, appVars
<1>2. RefInv'
  BY SameRefs DEF RefInv, vars, resourceVars, reaperVars, taskVars, appVars
<1>3. PipeInv'
  <2>1. SameCommands /\ UNCHANGED <<audio, phase, mixing, stm, tasks, task, rpc, fence>>
    BY QuietPipe DEF vars, pipeVars, audioVars, resourceVars, reaperVars, taskVars,
                     threadVars
  <2> QED
    BY <2>1, QuietInv DEF PipeInv, AudioGone
<1> QED
  BY <1>1, <1>2, <1>3 DEF RefInv, PipeInv

LEMMA InitIInv == Init => IInv
<1> SUFFICES ASSUME Init PROVE IInv
  OBVIOUS
<1>1. TypeOK /\ RefInv
  BY InitTypeOK, InitRefs
<1>2. /\ intake = <<>> /\ chamber = <<>> /\ phase = "idle" /\ mixing = {}
      /\ tasks = <<>> /\ rpc = "check" /\ fence = FALSE
  BY DEF Init, ReaperInit, PipeInit
<1>3. ToExecute = {} /\ ToCall = {}
  BY <1>2 DEF ToExecute, ToCall, ExecFrom, CallFrom, PipeLen
<1>4. PipeInv
  BY <1>2, <1>3 DEF PipeInv, StreamsLive, FenceIsLast, StopsComeLast, FenceState,
                    BatchQuiesced, NoBatch, AudioGone
<1> QED
  BY <1>1, <1>4 DEF IInv, RefInv, PipeInv

LEMMA NextIInv == IInv /\ [Next]_vars => IInv'
<1> SUFFICES ASSUME IInv, [Next]_vars PROVE IInv'
  OBVIOUS
<1>1. TypeOK /\ RefInv /\ PipeInv
  BY DEF IInv, RefInv, PipeInv
<1>2. CASE SystemStep
  <2>1. TypeOK'
    BY <1>1, <1>2, AudioTypeOK, ReaperTypeOK DEF SystemStep
  <2>2. RefInv'
    BY <1>1, <1>2, SystemRefs DEF PipeInv
  <2>3. PipeInv'
    BY <1>1, <1>2, SystemInv
  <2> QED
    BY <2>1, <2>2, <2>3 DEF IInv, RefInv, PipeInv
<1>3. ASSUME NEW t \in Threads, AppBegins(t) \/ AppContinues(t) PROVE IInv'
  <2>1. TypeOK'
    BY <1>1, <1>3, AppTypeOK DEF RefInv
  <2>2. RefInv' /\ PipeInv'
    BY <1>1, <1>3, AppRefs, AppInv
  <2> QED
    BY <2>1, <2>2 DEF IInv, RefInv, PipeInv
<1>4. CASE Done \/ UNCHANGED vars
  BY <1>4, StutterInv DEF Done
<1> QED
  BY <1>2, <1>3, <1>4 DEF Next

(* In every state that can be reached, references are counted, retired     *)
(* buffers are queued once and the stops of a batch come last.             *)
THEOREM Invariance == Spec => []IInv
  BY InitIInv, NextIInv, PTL DEF Spec

(* The variables keep their types.  A count stays a natural number only    *)
(* because it counts holders: the type invariant is not inductive alone.   *)
THEOREM TypeCorrectness == Spec => []TypeOK
<1>1. IInv => TypeOK
  BY DEF IInv
<1> QED
  BY <1>1, Invariance, PTL

LEMMA PendingCommands ==
  ASSUME TypeOK
  PROVE  \A b \in Pending : \E p \in ToExecute : Cmd(p).stm = b
<1> USE DEF TypeOK, PipeTypeOK, Phases
<1> SUFFICES ASSUME NEW b \in Pending PROVE \E p \in ToExecute : Cmd(p).stm = b
  OBVIOUS
<1>1. Len(chamber) \in Nat /\ Len(intake) \in Nat /\ iter \in Nat \ {0}
  OBVIOUS
<1>2. ASSUME NEW n \in 1..Len(intake), b = intake[n].stm
      PROVE  \E p \in ToExecute : Cmd(p).stm = b
  <2> PICK p \in Nat : p = Len(chamber) + n
    BY <1>1
  <2>1. p \in ToExecute
    BY <1>1 DEF ToExecute, ExecFrom, PipeLen
  <2>2. Cmd(p) = intake[n]
    BY <1>1 DEF Cmd
  <2> QED
    BY <1>2, <2>1, <2>2
<1>3. ASSUME phase = "exec", NEW n \in iter..Len(chamber), b = chamber[n].stm
      PROVE  \E p \in ToExecute : Cmd(p).stm = b
  <2>1. n \in ToExecute
    BY <1>1, <1>3 DEF ToExecute, ExecFrom, PipeLen
  <2>2. Cmd(n) = chamber[n]
    BY <1>1 DEF Cmd
  <2> QED
    BY <1>3, <2>1, <2>2
<1> QED
  BY <1>2, <1>3 DEF Pending

(* Whatever the application does, however many threads, buffers and        *)
(* pending commands there are: the audio thread never uses a stream that   *)
(* the reaper has freed.                                                   *)
THEOREM StreamSafety == Spec => []NoStreamUsedAfterFree
<1>1. IInv => NoStreamUsedAfterFree
  BY PendingCommands DEF IInv, StreamsLive, NoStreamUsedAfterFree
<1> QED
  BY <1>1, Invariance, PTL

(* When the fence is signalled, the reaper is waiting for it and nothing   *)
(* of its batch is being mixed or waits to be executed.                    *)
THEOREM FenceSafety == Spec => []FenceMeansQuiesced
<1>1. IInv => FenceMeansQuiesced
  BY PendingCommands DEF IInv, FenceState, BatchQuiesced, FenceMeansQuiesced
<1> QED
  BY <1>1, Invariance, PTL
-----------------------------------------------------------------------------
(* The samples: a buffer and those made from it by duplication play the    *)
(* same ones, which go with the first of them.                             *)

(* Whether b is in the reaper's lists, and whether it plays the samples of *)
(* another buffer, its parent, and reads them.                             *)
InTasks(b) == \E n \in 1..Len(tasks) : tasks[n] = b
InPending(b) == \E n \in 1..Len(tasks_pending) : tasks_pending[n] = b
Queued(b) == InTasks(b) \/ InPending(b)
Sourced(b) == stm[b] = "live" /\ parent[b] \in Buffers

SourceLives ==
  \A b \in Buffers : Sourced(b) => stm[parent[b]] = "live" /\ sbuf[b] = sbuf[parent[b]]

OwnSamples ==
  \A b \in Buffers : stm[b] = "none" \/ (stm[b] = "live" /\ parent[b] = Api) => sbuf[b] = b

SamplesLive == \A b \in Buffers : stm[b] = "live" => samples[sbuf[b]] = "live"
SamplesOwned == \A b \in Buffers : samples[b] = "live" => stm[b] = "live" /\ sbuf[b] = b

(* What nobody refers to is on its way to the reaper, and a source comes   *)
(* after those who play its samples.                                       *)
RetiredKept == \A b \in Buffers : Retired(b) => Retiring(b) # {} \/ Queued(b)

SourceLast ==
  \A b \in Buffers : Sourced(b) =>
    /\ Retiring(parent[b]) # {} => Queued(b)
    /\ \A n \in 1..Len(tasks) :
         tasks[n] = parent[b] => \E m \in 1..(n - 1) : tasks[m] = b
    /\ \A n \in 1..Len(tasks_pending) :
         tasks_pending[n] = parent[b] =>
           InTasks(b) \/ \E m \in 1..(n - 1) : tasks_pending[m] = b

(* No buffer is its own source, however many duplications away.            *)
Rising(rank) == \A b \in Buffers : Sourced(b) => rank[parent[b]] < rank[b]
Ranked == \E rank \in [Buffers -> Nat] : Rising(rank)

SourceInv == SourceLives /\ OwnSamples /\ SamplesLive /\ SamplesOwned /\ Ranked
QueueInv == RetiredKept /\ SourceLast

(* A buffer of least rank in a set of them.                                *)
LEMMA LeastRank ==
  ASSUME NEW rank \in [Buffers -> Nat], NEW L \in SUBSET Buffers, L # {}
  PROVE  \E b \in L : \A d \in L : ~(rank[d] < rank[b])
<1> DEFINE Ranks == {rank[b] : b \in L}
<1>1. Ranks \subseteq Nat /\ Ranks # {}
  OBVIOUS
<1>2. PICK r \in Ranks : \A s \in Ranks : <<s, r>> \notin OpToRel(<, Nat)
  BY <1>1, NatLessThanWellFounded, WFMin, Zenon
<1>3. PICK b \in L : rank[b] = r
  BY <1>2
<1>4. ASSUME NEW d \in L, rank[d] < rank[b] PROVE FALSE
  BY <1>2, <1>3, <1>4 DEF OpToRel
<1> QED
  BY <1>4

(* A property that passes from a buffer to its source reaches one without. *)
LEMMA Ancestor ==
  ASSUME TypeOK, Ranked, NEW L \in SUBSET Buffers, L # {},
         \A b \in L : stm[b] = "live"
  PROVE  \E b \in L : parent[b] = Api \/ parent[b] \notin L
<1>1. PICK rank \in [Buffers -> Nat] : Rising(rank)
  BY DEF Ranked
<1>2. PICK b \in L : \A d \in L : ~(rank[d] < rank[b])
  BY LeastRank
<1>3. ASSUME parent[b] # Api, parent[b] \in L PROVE FALSE
  BY <1>1, <1>2, <1>3 DEF Rising, Sourced
<1> QED
  BY <1>3

(* As long as anything refers to a buffer, something does to the API object*)
(* and to the owner of its samples.                                        *)
LEMMA Upwards ==
  ASSUME TypeOK, RefInv, SourceInv, NEW b \in Buffers, stm[b] = "live",
         rc[b] > 0 \/ Retiring(b) # {}
  PROVE  rc[Api] > 0 /\ (sbuf[b] # b => rc[sbuf[b]] > 0)
<1> DEFINE Kept(d) == stm[d] = "live" /\ (rc[d] > 0 \/ Retiring(d) # {})
<1>1. ASSUME NEW d \in Buffers, Kept(d)
      PROVE  /\ parent[d] \in Objects /\ rc[parent[d]] > 0
             /\ parent[d] \in Buffers => Kept(parent[d]) /\ sbuf[parent[d]] = sbuf[d]
             /\ parent[d] \notin Buffers => parent[d] = Api /\ sbuf[d] = d
  <2>1. parent[d] \in Objects
    BY DEF TypeOK
  <2>2. d \in Children(parent[d])
    BY <1>1 DEF Children
  <2>3. rc[parent[d]] > 0
    BY <2>1, <2>2, HolderReferences DEF RefInv
  <2>4. CASE parent[d] \in Buffers
    BY <1>1, <2>1, <2>3, <2>4, LifetimeAssumption DEF SourceInv, SourceLives, Sourced
  <2>5. CASE parent[d] \notin Buffers
    BY <1>1, <2>1, <2>3, <2>5 DEF SourceInv, OwnSamples, Objects
  <2> QED
    BY <2>4, <2>5, <2>1, <2>3
<1>2. rc[Api] > 0
  <2> DEFINE L == {d \in Buffers : Kept(d)}
  <2>1. PICK d \in L : parent[d] = Api \/ parent[d] \notin L
    <3>1. L \in SUBSET Buffers /\ b \in L /\ \A d \in L : stm[d] = "live"
      OBVIOUS
    <3> HIDE DEF L
    <3> QED
      BY <3>1, Ancestor DEF SourceInv
  <2> QED
    BY <1>1, <2>1
<1>3. ASSUME sbuf[b] # b PROVE rc[sbuf[b]] > 0
  <2> DEFINE L == {d \in Buffers : Kept(d) /\ sbuf[d] = sbuf[b] /\ d # sbuf[b]}
  <2>1. PICK d \in L : parent[d] = Api \/ parent[d] \notin L
    <3>1. L \in SUBSET Buffers /\ b \in L /\ \A d \in L : stm[d] = "live"
      BY <1>3
    <3> HIDE DEF L
    <3> QED
      BY <3>1, Ancestor DEF SourceInv
  <2>2. parent[d] \in Buffers
    BY <1>1, <2>1
  <2> QED
    BY <1>1, <2>1, <2>2, LifetimeAssumption
<1> QED
  BY <1>2, <1>3

(* The first in the reaper's batch goes with its samples: nobody else plays*)
(* them any more.                                                          *)
LEMMA LastReader ==
  ASSUME TypeOK, SourceInv, QueueInv, NEW o \in Buffers, 1 \in 1..Len(tasks), tasks[1] = o,
         NEW b \in Buffers, stm[b] = "live", b # o
  PROVE  sbuf[b] # o
<1>1. ASSUME NEW d \in Buffers, Sourced(d) PROVE parent[d] # o
  BY <1>1 DEF QueueInv, SourceLast
<1> SUFFICES ASSUME sbuf[b] = o PROVE FALSE
  OBVIOUS
<1> DEFINE L == {d \in Buffers : stm[d] = "live" /\ sbuf[d] = o /\ d # o}
<1>2. PICK d \in L : parent[d] = Api \/ parent[d] \notin L
  <2>1. L \in SUBSET Buffers /\ b \in L /\ \A d \in L : stm[d] = "live"
    OBVIOUS
  <2> HIDE DEF L
  <2> QED
    BY <2>1, Ancestor DEF SourceInv
<1>3. parent[d] # Api
  BY <1>2 DEF SourceInv, OwnSamples
<1>4. Sourced(d)
  BY <1>2, <1>3 DEF Sourced, TypeOK, Objects
<1> QED
  BY <1>1, <1>2, <1>3, <1>4 DEF SourceInv, SourceLives, Sourced

-----------------------------------------------------------------------------
(* Step by step                                                            *)

(* What nobody refers to is nobody's source.                               *)
LEMMA Childless ==
  ASSUME RefInv', NEW x \in Objects, rc'[x] = 0
  PROVE  Children(x)' = {}
<1>1. rc'[x] = Cardinality(HeldBy(x)') + Cardinality(Unreffing(x)')
                 + Cardinality(Children(x)')
  BY DEF RefInv, Counted, Objects
<1>2. /\ Cardinality(HeldBy(x)') \in Nat
      /\ Cardinality(Unreffing(x)') \in Nat
      /\ Cardinality(Children(x)') \in Nat
      /\ Cardinality(Children(x)') = 0 <=> Children(x)' = {}
  BY HolderParts, PartCardinality, LifetimeAssumption
<1> QED
  BY <1>1, <1>2

(* Counts and calls change: a buffer that loses its last reference starts  *)
(* its way to the reaper, and those who play its samples have gone before. *)
LEMMA CountsSources ==
  ASSUME TypeOK, TypeOK', RefInv', SourceInv, QueueInv,
         UNCHANGED <<stm, samples, sbuf, parent, tasks, tasks_pending>>,
         \A b \in Buffers : Retiring(b) \subseteq Retiring(b)',
         \A b \in Buffers : rc'[b] = 0 => rc[b] = 0 \/ Retiring(b)' # {}
  PROVE  SourceInv' /\ QueueInv'
<1>1. SourceInv'
  BY DEF SourceInv, SourceLives, OwnSamples, SamplesLive, SamplesOwned, Ranked, Rising, Sourced
<1>2. \A b : /\ Queued(b)' <=> Queued(b)
             /\ InTasks(b)' <=> InTasks(b)
             /\ Sourced(b)' <=> Sourced(b)
  BY DEF Queued, InTasks, InPending, Sourced
<1>3. ASSUME NEW b \in Buffers, Retired(b)', Retiring(b)' = {} PROVE Queued(b)
  BY <1>3 DEF QueueInv, RetiredKept, Retired
<1>4. RetiredKept'
  BY <1>2, <1>3 DEF RetiredKept
<1>5. ASSUME NEW b \in Buffers, Sourced(b), Retiring(parent[b])' # {} PROVE Queued(b)
  <2> DEFINE p == parent[b]
  <2>1. p \in Buffers /\ stm[b] = "live"
    BY <1>5 DEF Sourced
  <2>2. rc'[p] = 0
    BY <1>5, <2>1 DEF Retiring, RefInv, RetiringOnce, Retired
  <2>3. Children(p)' = {}
    BY <2>1, <2>2, Childless DEF Objects
  <2>4. rc'[b] = 0 /\ Retiring(b)' = {}
    <3>1. b \notin Children(p)'
      BY <2>3
    <3>2. stm'[b] # "none" /\ parent'[b] = p /\ rc'[b] \in Nat
      BY <2>1 DEF TypeOK, Objects
    <3> QED
      BY <3>1, <3>2 DEF Children
  <2> QED
    BY <1>3, <2>1, <2>4 DEF Retired
<1>6. SourceLast'
  BY <1>2, <1>5 DEF QueueInv, SourceLast
<1> QED
  BY <1>1, <1>4, <1>6 DEF QueueInv

(* Neither streams nor samples change.                                     *)
LEMMA SameSources ==
  ASSUME SourceInv, UNCHANGED <<stm, samples, sbuf, parent>>
  PROVE  SourceInv' /\ \A b : Sourced(b)' <=> Sourced(b)
  BY DEF SourceInv, SourceLives, OwnSamples, SamplesLive, SamplesOwned, Ranked, Rising, Sourced

(* A task is given to the reaper.                                          *)
LEMMA RetireSources ==
  ASSUME TypeOK, RefInv, SourceInv, QueueInv, NEW t \in Threads, Retire(t)
  PROVE  SourceInv' /\ QueueInv'
<1> PICK b \in Buffers : b = call[t].on
  BY DEF Retire, TypeOK
<1>1. /\ UNCHANGED <<stm, samples, sbuf, rc, parent, tasks>>
      /\ tasks_pending' = Append(tasks_pending, b)
      /\ call'[t].at = "unref"
      /\ \A v \in Threads \ {t} : call'[v] = call[v]
  BY DEF Retire, SubmitTask, TypeOK, resourceVars
<1>2. SourceInv' /\ \A d : Sourced(d)' <=> Sourced(d)
  BY <1>1, SameSources
<1>3. call[t] = [at |-> "submit", on |-> b]
  BY CallIs DEF Retire
<1>4. \A d \in Buffers \ {b} : Retiring(d)' = Retiring(d)
  <2> SUFFICES ASSUME NEW d \in Buffers \ {b}, NEW v \in Threads
               PROVE  v \in Retiring(d)' <=> v \in Retiring(d)
    BY DEF Retiring
  <2> QED
    BY <1>1, <1>3 DEF Retiring
<1>5. Retiring(b)' = {}
  <2>1. call[t].at = "submit"
    BY <1>3
  <2>2. \A v \in Threads \ {t} : call[v] # call[t]
    BY <2>1 DEF RefInv, RetiringOnce
  <2> QED
    BY <1>1, <1>3, <2>2 DEF Retiring
<1>6. /\ Len(tasks_pending') = Len(tasks_pending) + 1 /\ Len(tasks_pending) \in Nat
      /\ \A n \in 1..Len(tasks_pending) : tasks_pending'[n] = tasks_pending[n]
      /\ tasks_pending'[Len(tasks_pending) + 1] = b
  BY <1>1 DEF TypeOK
<1>7. /\ \A d : InTasks(d)' <=> InTasks(d)
      /\ \A d : InPending(d) => InPending(d)'
      /\ InPending(b)'
  BY <1>1, <1>6 DEF InTasks, InPending
<1>8. RetiredKept'
  BY <1>1, <1>4, <1>7 DEF QueueInv, RetiredKept, Retired, Queued
<1>9. SourceLast'
  <2> SUFFICES ASSUME NEW d \in Buffers, Sourced(d)
               PROVE  /\ Retiring(parent[d])' # {} => Queued(d)'
                      /\ \A n \in 1..Len(tasks) :
                           tasks[n] = parent[d] => \E m \in 1..(n - 1) : tasks[m] = d
                      /\ \A n \in 1..Len(tasks_pending') :
                           tasks_pending'[n] = parent[d] =>
                             InTasks(d) \/ \E m \in 1..(n - 1) : tasks_pending'[m] = d
    BY <1>1, <1>2, <1>7 DEF SourceLast
  <2>1. parent[d] \in Buffers
    BY DEF Sourced
  <2>2. Retiring(parent[d])' # {} => Queued(d)'
    BY <1>1, <1>4, <1>5, <1>7, <2>1 DEF QueueInv, SourceLast, Queued
  <2>3. ASSUME NEW n \in 1..Len(tasks_pending), tasks_pending'[n] = parent[d]
        PROVE  InTasks(d) \/ \E m \in 1..(n - 1) : tasks_pending'[m] = d
    BY <1>6, <2>3 DEF QueueInv, SourceLast
  <2>4. ASSUME b = parent[d]
        PROVE  InTasks(d) \/ \E m \in 1..Len(tasks_pending) : tasks_pending'[m] = d
    <3>1. t \in Retiring(b)
      BY <1>3 DEF Retiring
    <3>2. Queued(d)
      BY <2>4, <3>1 DEF QueueInv, SourceLast
    <3> QED
      BY <3>2, <1>6 DEF Queued, InPending
  <2>5. \A n \in 1..Len(tasks_pending') :
          n \in 1..Len(tasks_pending) \/ (n = Len(tasks_pending) + 1 /\ n - 1 = Len(tasks_pending))
    BY <1>6
  <2>6. \A n \in 1..Len(tasks) :
          tasks[n] = parent[d] => \E m \in 1..(n - 1) : tasks[m] = d
    BY DEF QueueInv, SourceLast
  <2> QED
    BY <1>6, <2>2, <2>3, <2>4, <2>5, <2>6
<1> QED
  BY <1>2, <1>8, <1>9 DEF QueueInv

(* The reaper takes the tasks there are, in their order.                   *)
LEMMA TakeSources ==
  ASSUME TypeOK, NoBatch, SourceInv, QueueInv, ReaperTake, UNCHANGED appVars
  PROVE  SourceInv' /\ QueueInv'
<1>1. /\ tasks = <<>> /\ tasks' = tasks_pending /\ tasks_pending' = <<>>
      /\ UNCHANGED <<stm, samples, sbuf, rc, parent, call>>
  BY DEF ReaperTake, NoBatch, appVars, resourceVars
<1>2. SourceInv' /\ \A d : Sourced(d)' <=> Sourced(d)
  BY <1>1, SameSources
<1>3. \A d : /\ ~InTasks(d)
             /\ InTasks(d)' <=> InPending(d)
             /\ Retiring(d)' = Retiring(d)
             /\ Retired(d)' <=> Retired(d)
  BY <1>1 DEF InTasks, InPending, Retiring, Retired
<1>4. RetiredKept'
  BY <1>3 DEF QueueInv, RetiredKept, Queued
<1>5. SourceLast'
  BY <1>1, <1>2, <1>3 DEF QueueInv, SourceLast, Queued
<1> QED
  BY <1>2, <1>4, <1>5 DEF QueueInv

(* It frees the first.                                                     *)
LEMMA DestroySources ==
  ASSUME TypeOK, RefInv, SourceInv, QueueInv, ReaperDestroy, UNCHANGED appVars
  PROVE  SourceInv' /\ QueueInv'
<1> PICK o \in Buffers : o = Head(tasks) /\ o = tasks[1] /\ 1 \in 1..Len(tasks)
  BY DEF ReaperDestroy, TypeOK
<1>1. /\ stm' = [stm EXCEPT ![o] = "freed"]
      /\ samples' = [samples EXCEPT ![o] = IF sbuf[o] = o THEN "freed" ELSE @]
      /\ tasks' = Tail(tasks)
      /\ UNCHANGED <<sbuf, rc, parent, call, tasks_pending>>
  BY DEF ReaperDestroy, appVars
<1>2. /\ stm'[o] = "freed"
      /\ \A b \in Buffers \ {o} : stm'[b] = stm[b] /\ samples'[b] = samples[b]
      /\ samples'[o] = IF sbuf[o] = o THEN "freed" ELSE samples[o]
      /\ stm[o] = "live" /\ rc[o] = 0
  BY <1>1 DEF TypeOK, RefInv, QueuedOnce, Retired
<1>3. \A b \in Buffers : Sourced(b)' <=> Sourced(b) /\ b # o
  BY <1>1, <1>2 DEF Sourced
<1>4. \A b \in Buffers : Sourced(b) => parent[b] # o
  BY DEF QueueInv, SourceLast
<1>5. SourceLives'
  BY <1>1, <1>2, <1>3, <1>4 DEF SourceInv, SourceLives, Sourced
<1>6. OwnSamples'
  BY <1>1, <1>2 DEF SourceInv, OwnSamples
<1>7. SamplesLive'
  <2> SUFFICES ASSUME NEW b \in Buffers \ {o}, stm[b] = "live" PROVE samples'[sbuf[b]] = "live"
    BY <1>1, <1>2 DEF SamplesLive
  <2>1. sbuf[b] # o /\ sbuf[b] \in Buffers
    BY LastReader DEF TypeOK
  <2> QED
    BY <1>2, <2>1 DEF SourceInv, SamplesLive
<1>8. SamplesOwned'
  BY <1>1, <1>2 DEF SourceInv, SamplesOwned
<1>9. Ranked'
  BY <1>1, <1>3 DEF SourceInv, Ranked, Rising
<1>10. /\ Len(tasks') = Len(tasks) - 1 /\ Len(tasks) \in Nat
       /\ \A n \in 1..Len(tasks') : n + 1 \in 1..Len(tasks) /\ tasks'[n] = tasks[n + 1]
  BY <1>1 DEF TypeOK, ReaperDestroy
<1>11. \A m \in 1..Len(tasks) : tasks[m] # o => m - 1 \in 1..Len(tasks') /\ tasks'[m - 1] = tasks[m]
  <2> SUFFICES ASSUME NEW m \in 1..Len(tasks), tasks[m] # o
               PROVE  m - 1 \in 1..Len(tasks') /\ tasks'[m - 1] = tasks[m]
    OBVIOUS
  <2>1. m # 1
    OBVIOUS
  <2>2. m - 1 \in 1..Len(tasks') /\ (m - 1) + 1 = m
    BY <1>10, <2>1
  <2> QED
    BY <1>10, <2>2
<1>12. \A b \in Buffers \ {o} : /\ InTasks(b) => InTasks(b)'
                                /\ InPending(b)' <=> InPending(b)
                                /\ Retiring(b)' = Retiring(b)
                                /\ Retired(b)' <=> Retired(b)
  <2> SUFFICES ASSUME NEW b \in Buffers \ {o}
               PROVE  /\ InTasks(b) => InTasks(b)'
                      /\ InPending(b)' <=> InPending(b)
                      /\ Retiring(b)' = Retiring(b)
                      /\ Retired(b)' <=> Retired(b)
    OBVIOUS
  <2>1. InTasks(b) => InTasks(b)'
    BY <1>11 DEF InTasks
  <2>2. InPending(b)' <=> InPending(b)
    BY <1>1 DEF InPending
  <2>3. Retiring(b)' = Retiring(b)
    BY <1>1 DEF Retiring
  <2>4. Retired(b)' <=> Retired(b)
    BY <1>1, <1>2 DEF Retired
  <2> QED
    BY <2>1, <2>2, <2>3, <2>4
<1>13. RetiredKept'
  BY <1>2, <1>12 DEF QueueInv, RetiredKept, Retired, Queued
<1>14. SourceLast'
  <2> SUFFICES ASSUME NEW b \in Buffers \ {o}, Sourced(b)
               PROVE  /\ Retiring(parent[b])' # {} => Queued(b)'
                      /\ \A n \in 1..Len(tasks') :
                           tasks'[n] = parent[b] => \E m \in 1..(n - 1) : tasks'[m] = b
                      /\ \A n \in 1..Len(tasks_pending) :
                           tasks_pending[n] = parent[b] =>
                             InTasks(b)' \/ \E m \in 1..(n - 1) : tasks_pending[m] = b
    BY <1>1, <1>3 DEF SourceLast
  <2>1. parent[b] \in Buffers \ {o}
    BY <1>4 DEF Sourced
  <2>2. ASSUME NEW n \in 1..Len(tasks'), tasks'[n] = parent[b]
        PROVE  \E m \in 1..(n - 1) : tasks'[m] = b
    <3>1. PICK m \in 1..((n + 1) - 1) : tasks[m] = b
      BY <1>10, <2>2 DEF QueueInv, SourceLast
    <3>2. m \in 1..Len(tasks) /\ m \in 1..n /\ n \in Nat
      BY <1>10, <3>1
    <3>3. m - 1 \in 1..Len(tasks') /\ tasks'[m - 1] = b
      BY <1>11, <3>1, <3>2
    <3>4. m - 1 \in 1..(n - 1)
      BY <3>2, <3>3
    <3> QED
      BY <3>3, <3>4
  <2>3. Retiring(parent[b])' # {} => Queued(b)'
    BY <1>1, <1>12, <2>1 DEF QueueInv, SourceLast, Queued
  <2>4. \A n \in 1..Len(tasks_pending) :
          tasks_pending[n] = parent[b] =>
            InTasks(b)' \/ \E m \in 1..(n - 1) : tasks_pending[m] = b
    BY <1>12 DEF QueueInv, SourceLast
  <2> QED
    BY <2>2, <2>3, <2>4
<1> QED
  BY <1>5, <1>6, <1>7, <1>8, <1>9, <1>13, <1>14 DEF SourceInv, QueueInv

(* A buffer is made, with samples of its own or its source's.              *)
LEMMA AllocSources ==
  ASSUME TypeOK, RefInv, SourceInv, QueueInv,
         NEW t \in Threads, NEW b \in Buffers, NEW par \in Objects,
         par \in held[t], Alloc(t, b, par),
         \/ par = Api /\ sbuf' = [sbuf EXCEPT ![b] = b] /\ samples' = [samples EXCEPT ![b] = "live"]
         \/ par \in Buffers /\ sbuf' = [sbuf EXCEPT ![b] = sbuf[par]] /\ samples' = samples
  PROVE  SourceInv' /\ QueueInv'
<1>1. stm[b] = "none" /\ UNCHANGED <<tasks, tasks_pending, call>>
  BY DEF Alloc, reaperVars, taskVars
<1>2. rc[par] > 0 /\ rc[par] \in Nat
  BY HolderReferences DEF RefInv, TypeOK
<1>3. par \in Buffers => stm[par] = "live" /\ par # b
  BY <1>1, <1>2 DEF RefInv, ReferencedLives
<1>4. /\ stm'[b] = "live" /\ parent'[b] = par
      /\ \A d \in Buffers \ {b} : stm'[d] = stm[d] /\ parent'[d] = parent[d] /\ sbuf'[d] = sbuf[d]
  BY DEF Alloc, TypeOK
<1>5. \A d \in Buffers : rc'[d] = 0 => rc[d] = 0 /\ d # b /\ d # par
  BY <1>2, <1>3 DEF Alloc, TypeOK, Objects
<1>6. \A d \in Buffers : Sourced(d) => d # b /\ parent[d] # b
  BY <1>1 DEF SourceInv, SourceLives, Sourced
<1>7. \A d \in Buffers \ {b} : Sourced(d)' <=> Sourced(d)
  BY <1>4 DEF Sourced
<1>8. SourceLives'
  <2>1. \A d \in Buffers \ {b} : Sourced(d)' =>
          stm'[parent'[d]] = "live" /\ sbuf'[d] = sbuf'[parent'[d]]
    BY <1>4, <1>6, <1>7 DEF SourceInv, SourceLives, Sourced
  <2>2. par \in Buffers => stm'[par] = "live" /\ sbuf'[b] = sbuf'[par]
    BY <1>3, <1>4, LifetimeAssumption DEF TypeOK
  <2> QED
    BY <1>4, <2>1, <2>2 DEF SourceLives, Sourced
<1>9. OwnSamples'
  <2>1. par = Api => sbuf'[b] = b
    BY LifetimeAssumption DEF TypeOK
  <2> QED
    BY <1>4, <2>1 DEF SourceInv, OwnSamples
<1>10. SamplesLive'
  <2>1. \A o \in Buffers : samples[o] = "live" => samples'[o] = "live"
    BY DEF TypeOK
  <2>2. samples'[sbuf'[b]] = "live"
    BY <1>3, <2>1, LifetimeAssumption DEF TypeOK, SourceInv, SamplesLive
  <2>3. ASSUME NEW d \in Buffers \ {b}, stm'[d] = "live" PROVE samples'[sbuf'[d]] = "live"
    BY <1>4, <2>1, <2>3 DEF TypeOK, SourceInv, SamplesLive
  <2> QED
    BY <2>2, <2>3 DEF SamplesLive
<1>11. SamplesOwned'
  BY <1>1, <1>4 DEF TypeOK, SourceInv, SamplesOwned
<1>12. Ranked'
  <2> PICK rank \in [Buffers -> Nat] : Rising(rank)
    BY DEF SourceInv, Ranked
  <2> DEFINE higher == [rank EXCEPT ![b] = IF par = Api THEN 0 ELSE rank[par] + 1]
  <2>1. higher \in [Buffers -> Nat]
    BY DEF Objects
  <2>2. ASSUME NEW d \in Buffers, Sourced(d)' PROVE higher[parent'[d]] < higher[d]
    <3>1. CASE d = b
      BY <1>3, <1>4, <2>2, <3>1, LifetimeAssumption DEF Sourced
    <3>2. CASE d # b
      BY <1>4, <1>6, <1>7, <2>2, <3>2 DEF Rising, Sourced
    <3> QED
      BY <3>1, <3>2
  <2> QED
    BY <2>1, <2>2 DEF Ranked, Rising
<1>13. \A d : /\ InTasks(d)' <=> InTasks(d)
              /\ InPending(d)' <=> InPending(d)
              /\ Retiring(d)' = Retiring(d)
  BY <1>1 DEF InTasks, InPending, Retiring
<1>14. RetiredKept'
  BY <1>4, <1>5, <1>13 DEF QueueInv, RetiredKept, Retired, Queued
<1>15. par \in Buffers => /\ Retiring(par) = {}
                          /\ \A n \in 1..Len(tasks) : tasks[n] # par
                          /\ \A n \in 1..Len(tasks_pending) : tasks_pending[n] # par
  BY <1>2 DEF RefInv, RetiringOnce, QueuedOnce, Retired, Retiring
<1>16. SourceLast'
  <2> SUFFICES ASSUME NEW d \in Buffers, Sourced(d)'
               PROVE  /\ Retiring(parent'[d]) # {} => Queued(d)
                      /\ \A n \in 1..Len(tasks) :
                           tasks[n] = parent'[d] => \E m \in 1..(n - 1) : tasks[m] = d
                      /\ \A n \in 1..Len(tasks_pending) :
                           tasks_pending[n] = parent'[d] =>
                             InTasks(d) \/ \E m \in 1..(n - 1) : tasks_pending[m] = d
    BY <1>1, <1>13 DEF SourceLast, Queued, Retiring
  <2>1. CASE d = b
    BY <1>4, <1>15, <2>1 DEF Sourced
  <2>2. CASE d # b
    BY <1>4, <1>7, <2>2 DEF QueueInv, SourceLast
  <2> QED
    BY <2>1, <2>2
<1> QED
  BY <1>8, <1>9, <1>10, <1>11, <1>12, <1>14, <1>16 DEF SourceInv, QueueInv

(* Every step of the application, then every other.                        *)
LEMMA AppSources ==
  ASSUME TypeOK, RefInv, SourceInv, QueueInv, TypeOK', RefInv',
         NEW t \in Threads, AppBegins(t) \/ AppContinues(t)
  PROVE  SourceInv' /\ QueueInv'
<1> USE DEF resourceVars, reaperVars, taskVars, threadVars
<1>1. ASSUME NEW b \in Buffers, Create(t, b) PROVE SourceInv' /\ QueueInv'
  BY <1>1, AllocSources DEF Create, Alloc, Objects
<1>2. ASSUME NEW b \in Buffers, NEW src \in Buffers, Duplicate(t, b, src)
      PROVE  SourceInv' /\ QueueInv'
  BY <1>2, AllocSources DEF Duplicate, Objects
<1>3. ASSUME UNCHANGED <<stm, samples, sbuf, parent, tasks, tasks_pending>>,
             \A v \in Threads \ {t} : call'[v] = call[v],
             call[t].at # "submit",
             \A b \in Buffers : rc'[b] = 0 => rc[b] = 0 \/ call'[t] = [at |-> "submit", on |-> b]
      PROVE  SourceInv' /\ QueueInv'
  <2>1. ASSUME NEW b \in Buffers, NEW v \in Retiring(b) PROVE v \in Retiring(b)'
    <3>1. v \in Threads /\ call[v].at = "submit" /\ call[v] = [at |-> "submit", on |-> b]
      BY DEF Retiring
    <3>2. v # t
      BY <1>3, <3>1
    <3> QED
      BY <1>3, <3>1, <3>2 DEF Retiring
  <2>2. ASSUME NEW b \in Buffers, rc'[b] = 0, rc[b] # 0 PROVE Retiring(b)' # {}
    <3>1. t \in Retiring(b)'
      BY <1>3, <2>2 DEF Retiring
    <3> QED
      BY <3>1
  <2> QED
    BY <1>3, <2>1, <2>2, CountsSources
<1>4. ASSUME NEW b \in Buffers, NEW type \in Uses, Use(t, b, type) PROVE SourceInv' /\ QueueInv'
  BY <1>4, <1>3 DEF Use, appVars, Idle, NoCall
<1>5. ASSUME NEW x \in Objects, rc[x] > 0, Unref(t, x),
             UNCHANGED <<stm, samples, sbuf, parent, tasks, tasks_pending>>,
             call[t].at # "submit"
      PROVE  SourceInv' /\ QueueInv'
  <2>1. \A b \in Buffers : rc'[b] = 0 => rc[b] = 0 \/ call'[t] = [at |-> "submit", on |-> b]
    BY <1>5, LifetimeAssumption DEF Unref, TypeOK, Objects
  <2>2. \A v \in Threads \ {t} : call'[v] = call[v]
    BY <1>5 DEF Unref, TypeOK
  <2> QED
    BY <1>3, <1>5, <2>1, <2>2
<1>6. ASSUME NEW x \in Objects, Release(t, x) PROVE SourceInv' /\ QueueInv'
  <2>1. rc[x] > 0
    BY <1>6, HolderReferences DEF Release, RefInv
  <2>2. call[t].at # "submit"
    BY <1>6 DEF Release, Idle, NoCall
  <2> QED
    BY <1>5, <1>6, <2>1, <2>2 DEF Release
<1>7. CASE UnrefParent(t)
  <2>1. call[t].on \in Objects /\ call[t] = [at |-> "unref", on |-> call[t].on]
    BY <1>7, CallIs DEF UnrefParent, TypeOK
  <2>2. rc[call[t].on] > 0
    BY <2>1, HolderReferences DEF RefInv
  <2> QED
    BY <1>5, <1>7, <2>1, <2>2 DEF UnrefParent
<1>8. ASSUME NEW x \in Objects, NEW u \in Threads, AddRef(t, x, u) PROVE SourceInv' /\ QueueInv'
  <2>1. \A b \in Buffers : rc'[b] = 0 => rc[b] = 0
    BY <1>8 DEF AddRef, TypeOK, Objects
  <2> QED
    BY <1>3, <1>8, <2>1 DEF AddRef, Idle, NoCall
<1>9. CASE Retire(t)
  BY <1>9, RetireSources
<1>10. CASE StopReaper(t) \/ JoinReaper(t) \/ StopAudio(t) \/ JoinAudio(t)
  <2>1. /\ UNCHANGED <<stm, samples, sbuf, parent, tasks, tasks_pending, rc>>
        /\ \A v \in Threads \ {t} : call'[v] = call[v]
        /\ call[t].at # "submit"
    BY <1>10 DEF StopReaper, JoinReaper, StopAudio, JoinAudio, CallNext, RaiseStop, TypeOK
  <2> QED
    BY <1>3, <2>1
<1> QED
  BY <1>1, <1>2, <1>4, <1>6, <1>7, <1>8, <1>9, <1>10 DEF AppBegins, AppContinues

LEMMA SystemSources ==
  ASSUME TypeOK, RefInv, NoBatch, SourceInv, QueueInv, TypeOK', RefInv', SystemStep
  PROVE  SourceInv' /\ QueueInv'
<1>1. UNCHANGED appVars
  BY DEF SystemStep
<1>2. CASE ReaperTake
  BY <1>1, <1>2, TakeSources
<1>3. CASE ReaperDestroy
  BY <1>1, <1>3, DestroySources
<1>4. CASE UNCHANGED <<stm, samples, sbuf, tasks, tasks_pending>>
  <2>1. \A b \in Buffers : Retiring(b)' = Retiring(b)
    BY <1>1 DEF appVars, Retiring
  <2> QED
    BY <1>1, <1>4, <2>1, CountsSources DEF appVars
<1>5. (AudioStep \/ AudioFail) => UNCHANGED <<stm, samples, sbuf, tasks, tasks_pending>>
  BY DEF AudioStep, AudioFail, AudioIntake, AudioExecute, AudioStartMix, AudioMix,
         AudioNotify, AudioRecycle, AudioExit, Leave, resourceVars, reaperVars, taskVars
<1>6. \/ ReaperSleep \/ SpuriousWake \/ ReaperSubmit \/ ReaperWait \/ ReaperReset
      \/ ReaperLoop
      => UNCHANGED <<stm, samples, sbuf, tasks, tasks_pending>>
  BY DEF ReaperSleep, SpuriousWake, ReaperSubmit, ReaperWait, ReaperReset, ReaperLoop,
         resourceVars, taskVars
<1> QED
  BY <1>2, <1>3, <1>4, <1>5, <1>6 DEF SystemStep, ReaperStep

-----------------------------------------------------------------------------
(* The end: the stop flag                                                  *)

Ending == {"stop_reaper", "join_reaper", "stop_audio", "join_audio"}

StopInv ==
  /\ stop \/ (\E t \in Threads : call[t].at \in Ending) => rc[Api] = 0
  /\ stopping => stop /\ tasks_pending = <<>>
  /\ rpc = "exited" => stopping

SystemStops ==
  \/ UNCHANGED <<stopping, tasks_pending>> /\ (rpc' = "exited" => stopping \/ rpc = "exited")
  \/ stopping' = stop /\ tasks_pending' = <<>> /\ rpc' # "exited"

LEMMA SystemStop ==
  ASSUME TypeOK, StopInv, SystemStep
  PROVE  StopInv'
<1>1. UNCHANGED <<stop, appVars>>
  BY DEF SystemStep, AudioStep, AudioFail, AudioIntake, AudioExecute, AudioStartMix, AudioMix,
         AudioNotify, AudioRecycle, AudioExit, Leave, ReaperStep, ReaperSleep, SpuriousWake,
         ReaperTake, ReaperSubmit, ReaperWait, ReaperReset, ReaperDestroy, ReaperLoop,
         reaperVars, threadVars
<1>2. SystemStops
  <2>1. AudioStep \/ AudioFail => UNCHANGED <<stopping, tasks_pending, rpc>>
    BY DEF AudioStep, AudioFail, AudioIntake, AudioExecute, AudioStartMix, AudioMix,
           AudioNotify, AudioRecycle, AudioExit, Leave, reaperVars, taskVars, threadVars
  <2>2. ReaperStep \/ SpuriousWake => SystemStops
    BY DEF ReaperStep, ReaperSleep, SpuriousWake, ReaperTake, ReaperSubmit, ReaperWait,
           ReaperReset, ReaperDestroy, ReaperLoop, SystemStops, taskVars, threadVars
  <2> QED
    BY <2>1, <2>2 DEF SystemStep, SystemStops
<1> QED
  BY <1>1, <1>2 DEF SystemStops, StopInv, appVars

(* Once the API object is being destroyed nobody gives the reaper a task.  *)
LEMMA AppStop ==
  ASSUME TypeOK, RefInv, SourceInv, StopInv, NEW t \in Threads, AppBegins(t) \/ AppContinues(t)
  PROVE  StopInv'
<1> USE DEF reaperVars, taskVars, threadVars
<1>1. rc[Api] \in Nat
  BY DEF TypeOK, Objects
<1>2. ASSUME UNCHANGED <<stop, stopping, tasks_pending, rpc>>,
             rc[Api] = 0 => rc'[Api] = 0,
             \A v \in Threads \ {t} : call'[v] = call[v],
             call'[t].at \in Ending => call[t].at \in Ending \/ rc'[Api] = 0
      PROVE  StopInv'
  BY <1>2 DEF StopInv
<1>3. ASSUME NEW b \in Buffers, NEW par \in Objects, Alloc(t, b, par) PROVE StopInv'
  <2>1. rc[Api] > 0
    BY <1>3, HolderReferences DEF Alloc, RefInv, Objects
  <2> QED
    BY <1>2, <1>3, <2>1 DEF Alloc
<1>4. ASSUME NEW b \in Buffers, Create(t, b) PROVE StopInv'
  BY <1>3, <1>4 DEF Create, Objects
<1>5. ASSUME NEW b \in Buffers, NEW src \in Buffers, Duplicate(t, b, src) PROVE StopInv'
  BY <1>3, <1>5 DEF Duplicate, Objects
<1>6. ASSUME NEW b \in Buffers, NEW type \in Uses, Use(t, b, type) PROVE StopInv'
  BY <1>2, <1>6 DEF Use, appVars
<1>7. ASSUME NEW x \in Objects, rc[x] > 0, Unref(t, x),
             UNCHANGED <<stop, stopping, tasks_pending, rpc>>
      PROVE  StopInv'
  <2>1. rc[Api] = 0 => rc'[Api] = 0
    BY <1>7 DEF Unref, TypeOK, Objects
  <2>2. \A v \in Threads \ {t} : call'[v] = call[v]
    BY <1>7 DEF Unref, TypeOK
  <2>3. call'[t].at \in Ending => rc'[Api] = 0
    BY <1>1, <1>7 DEF Unref, TypeOK, Objects, Ending, NoCall
  <2> QED
    BY <1>2, <1>7, <2>1, <2>2, <2>3
<1>8. ASSUME NEW x \in Objects, Release(t, x) PROVE StopInv'
  <2>1. rc[x] > 0
    BY <1>8, HolderReferences DEF Release, RefInv
  <2> QED
    BY <1>7, <1>8, <2>1 DEF Release
<1>9. CASE UnrefParent(t)
  <2>1. call[t].on \in Objects /\ call[t] = [at |-> "unref", on |-> call[t].on]
    BY <1>9, CallIs DEF UnrefParent, TypeOK
  <2>2. rc[call[t].on] > 0
    BY <2>1, HolderReferences DEF RefInv
  <2> QED
    BY <1>7, <1>9, <2>1, <2>2 DEF UnrefParent
<1>10. ASSUME NEW x \in Objects, NEW u \in Threads, AddRef(t, x, u) PROVE StopInv'
  <2>1. rc[x] > 0
    BY <1>10, HolderReferences DEF AddRef, RefInv
  <2>2. rc[Api] = 0 => rc'[Api] = 0
    BY <1>10, <2>1 DEF AddRef, TypeOK, Objects
  <2> QED
    BY <1>2, <1>10, <2>2 DEF AddRef
<1>11. CASE Retire(t)
  <2> PICK b \in Buffers : b = call[t].on
    BY <1>11 DEF Retire, TypeOK
  <2>1. t \in Retiring(b) /\ stm[b] = "live"
    <3>1. call[t].at = "submit"
      BY <1>11 DEF Retire
    <3>2. call[t] = [at |-> "submit", on |-> b]
      BY <3>1, CallIs
    <3>3. Retired(b)
      BY <3>1 DEF RefInv, RetiringOnce
    <3> QED
      BY <3>2, <3>3 DEF Retiring, Retired
  <2>2. rc[Api] > 0
    BY <2>1, Upwards
  <2>3. ~stop /\ ~stopping /\ rpc # "exited" /\ ~\E v \in Threads : call[v].at \in Ending
    BY <2>2 DEF StopInv, TypeOK
  <2>4. UNCHANGED <<stop, stopping>> /\ rpc' # "exited"
    BY <1>11, <2>3 DEF Retire, SubmitTask, Woken
  <2>5. \A v \in Threads : call'[v].at \notin Ending
    BY <1>11, <2>3 DEF Retire, TypeOK, Ending
  <2> QED
    BY <2>3, <2>4, <2>5 DEF StopInv
<1>12. CASE StopReaper(t)
  <2>1. rc[Api] = 0 /\ rc' = rc
    BY <1>12 DEF StopReaper, CallNext, StopInv, Ending
  <2>2. UNCHANGED <<stopping, tasks_pending>> /\ stop' = TRUE /\ (rpc' = "exited" => rpc = "exited")
    BY <1>12 DEF StopReaper, RaiseStop, Woken
  <2> QED
    BY <2>1, <2>2 DEF StopInv
<1>13. CASE JoinReaper(t) \/ StopAudio(t) \/ JoinAudio(t)
  <2>1. /\ UNCHANGED <<stop, stopping, tasks_pending, rpc, rc>>
        /\ \A v \in Threads \ {t} : call'[v] = call[v]
        /\ call[t].at \in Ending
    BY <1>13 DEF JoinReaper, StopAudio, JoinAudio, CallNext, TypeOK, Ending
  <2> QED
    BY <1>2, <2>1
<1> QED
  BY <1>4, <1>5, <1>6, <1>8, <1>9, <1>10, <1>11, <1>12, <1>13 DEF AppBegins, AppContinues

-----------------------------------------------------------------------------
EndInv == IInv /\ SourceInv /\ QueueInv /\ StopInv

LEMMA InitEndInv == Init => EndInv
<1> SUFFICES ASSUME Init PROVE EndInv
  OBVIOUS
<1>1. IInv
  BY InitIInv
<1>2. /\ \A b \in Buffers : stm[b] = "none" /\ samples[b] = "none" /\ sbuf[b] = b
      /\ tasks = <<>> /\ tasks_pending = <<>> /\ rpc = "check" /\ ~stop /\ ~stopping
      /\ \A t \in Threads : call[t].at = "none"
  BY DEF Init, ReaperInit, NoCall
<1>3. SourceLives /\ OwnSamples /\ SamplesLive /\ SamplesOwned
  BY <1>2 DEF SourceLives, OwnSamples, SamplesLive, SamplesOwned, Sourced
<1>4. Ranked
  <2>1. [b \in Buffers |-> 0] \in [Buffers -> Nat]
    OBVIOUS
  <2>2. Rising([b \in Buffers |-> 0])
    BY <1>2 DEF Rising, Sourced
  <2> QED
    BY <2>1, <2>2 DEF Ranked
<1>5. QueueInv
  BY <1>2 DEF QueueInv, RetiredKept, SourceLast, Retired, Sourced
<1>6. StopInv
  BY <1>2 DEF StopInv, Ending
<1> QED
  BY <1>1, <1>3, <1>4, <1>5, <1>6 DEF EndInv, SourceInv

LEMMA NextEndInv == EndInv /\ [Next]_vars => EndInv'
<1> SUFFICES ASSUME EndInv, [Next]_vars PROVE EndInv'
  OBVIOUS
<1>1. IInv /\ IInv'
  BY NextIInv DEF EndInv
<1>2. TypeOK /\ RefInv /\ NoBatch /\ TypeOK' /\ RefInv'
  BY <1>1 DEF IInv, RefInv
<1>3. CASE SystemStep
  BY <1>1, <1>2, <1>3, SystemSources, SystemStop DEF EndInv
<1>4. ASSUME NEW t \in Threads, AppBegins(t) \/ AppContinues(t) PROVE EndInv'
  BY <1>1, <1>2, <1>4, AppSources, AppStop DEF EndInv
<1>5. CASE Done \/ UNCHANGED vars
  <2>1. UNCHANGED vars
    BY <1>5 DEF Done
  <2>2. UNCHANGED <<stm, samples, sbuf, parent, tasks, tasks_pending, rc, call, stop, stopping, rpc>>
    BY <2>1 DEF vars, resourceVars, reaperVars, taskVars, threadVars, appVars
  <2>3. \A b \in Buffers : Retiring(b)' = Retiring(b)
    BY <2>2 DEF Retiring
  <2>4. SourceInv' /\ QueueInv'
    BY <1>2, <2>2, <2>3, CountsSources DEF EndInv
  <2> QED
    BY <1>1, <2>2, <2>4 DEF EndInv, StopInv
<1> QED
  BY <1>3, <1>4, <1>5 DEF Next

(* In every reachable state, moreover, sources are freed last, samples are *)
(* there as long as a stream reads them, and the end is in order.          *)
THEOREM EndInvariance == Spec => []EndInv
  BY InitEndInv, NextEndInv, PTL DEF Spec

(* Nor does it use the samples such a stream reads, whoever owns them and  *)
(* in whatever order the owner and its duplicates were released.           *)
THEOREM SampleSafety == Spec => []NoSamplesUsedAfterFree
<1>1. EndInv => NoSamplesUsedAfterFree
  <2> SUFFICES ASSUME EndInv, NEW b \in mixing \cup Pending PROVE samples[sbuf[b]] = "live"
    BY DEF NoSamplesUsedAfterFree
  <2>1. TypeOK
    BY DEF EndInv, IInv
  <2>2. stm[b] = "live"
    BY <2>1, PendingCommands DEF EndInv, IInv, StreamsLive
  <2>3. b \in Buffers
    <3>1. b \in mixing => b \in Buffers
      BY <2>1 DEF TypeOK
    <3>2. b \in Pending => b \in Buffers
      BY <2>1, PendingCommands, Queues, CommandFields
    <3> QED
      BY <3>1, <3>2
  <2> QED
    BY <2>2, <2>3 DEF EndInv, SourceInv, SamplesLive
<1> QED
  BY <1>1, EndInvariance, PTL

(* Nor does any application thread, inside a call or outside: what it works*)
(* on is referenced, and so is the API object with the reaper in it.       *)
THEOREM CallerSafety == Spec => []CallersSafe
<1>1. EndInv => CallersSafe
  <2> SUFFICES ASSUME EndInv, NEW t \in Threads
               PROVE  /\ \A x \in held[t] : rc[x] > 0 /\ (x # Api => Readable(x))
                      /\ call[t].at = "submit" =>
                           /\ rc[call[t].on] = 0
                           /\ rc[parent[call[t].on]] > 0
                           /\ rc[Api] > 0
                           /\ Readable(call[t].on)
                      /\ call[t].at = "unref" => rc[call[t].on] > 0 /\ rc[Api] > 0
    BY DEF CallersSafe
  <2>1. TypeOK /\ RefInv /\ SourceInv
    BY DEF EndInv, IInv, RefInv
  <2>2. ASSUME NEW b \in Buffers, stm[b] = "live" PROVE Readable(b)
    BY <2>1, <2>2 DEF SourceInv, SamplesLive, Readable
  <2>3. ASSUME NEW b \in Buffers, rc[b] > 0 PROVE Readable(b) /\ rc[Api] > 0
    BY <2>1, <2>2, <2>3, Upwards DEF RefInv, ReferencedLives
  <2>4. ASSUME NEW x \in held[t] PROVE rc[x] > 0 /\ (x # Api => Readable(x))
    <3>1. x \in Objects
      BY <2>1 DEF TypeOK
    <3> QED
      BY <2>1, <2>3, <3>1, HolderReferences DEF RefInv, Objects
  <2>5. ASSUME call[t].at = "submit"
        PROVE  /\ rc[call[t].on] = 0
               /\ rc[parent[call[t].on]] > 0
               /\ rc[Api] > 0
               /\ Readable(call[t].on)
    <3> PICK b \in Buffers : b = call[t].on
      BY <2>1, <2>5 DEF TypeOK
    <3>1. rc[b] = 0 /\ stm[b] = "live"
      BY <2>1, <2>5 DEF RefInv, RetiringOnce, Retired
    <3>2. t \in Retiring(b)
      BY <2>1, <2>5, CallIs DEF Retiring
    <3>3. parent[b] \in Objects /\ b \in Children(parent[b])
      BY <2>1, <3>1, <3>2 DEF Children, TypeOK
    <3>4. rc[parent[b]] > 0
      BY <2>1, <3>3, HolderReferences DEF RefInv
    <3> QED
      BY <2>1, <2>2, <3>1, <3>2, <3>4, Upwards
  <2>6. ASSUME call[t].at = "unref" PROVE rc[call[t].on] > 0 /\ rc[Api] > 0
    <3>1. call[t].on \in Objects /\ call[t] = [at |-> "unref", on |-> call[t].on]
      BY <2>1, <2>6, CallIs DEF TypeOK
    <3>2. rc[call[t].on] > 0
      BY <2>1, <3>1, HolderReferences DEF RefInv
    <3> QED
      BY <2>3, <3>1, <3>2 DEF Objects
  <2> QED
    BY <2>4, <2>5, <2>6
<1> QED
  BY <1>1, EndInvariance, PTL

(* The assertions of reaper_free: the thread has freed everything when it  *)
(* exits, whatever was released last.                                      *)
THEOREM CleanExit == Spec => []ReaperExitClean
<1>1. EndInv => ReaperExitClean
  <2> SUFFICES ASSUME EndInv, rpc = "exited"
               PROVE  /\ tasks = <<>>
                      /\ tasks_pending = <<>>
                      /\ \A b \in Buffers : stm[b] # "live" /\ samples[b] # "live"
    BY DEF ReaperExitClean
  <2>1. TypeOK /\ RefInv /\ SourceInv /\ RetiredKept
    BY DEF EndInv, IInv, RefInv, QueueInv
  <2>2. tasks = <<>> /\ tasks_pending = <<>> /\ rc[Api] = 0
    BY DEF EndInv, IInv, NoBatch, StopInv
  <2>3. ASSUME NEW b \in Buffers, stm[b] = "live" PROVE FALSE
    <3>1. rc[b] = 0 /\ Retiring(b) = {}
      BY <2>1, <2>2, <2>3, Upwards DEF TypeOK, Objects
    <3>2. Queued(b)
      BY <2>1, <2>3, <3>1 DEF RetiredKept, Retired
    <3> QED
      BY <2>2, <3>2 DEF Queued, InTasks, InPending
  <2> QED
    BY <2>1, <2>2, <2>3 DEF SourceInv, SamplesOwned
<1> QED
  BY <1>1, EndInvariance, PTL

(* "No new tasks could have come in since the stop flag was raised".       *)
THEOREM NoLateTasks == Spec => NoTasksAfterStop
<1>1. EndInv /\ [Next]_vars => [stop => Len(tasks_pending') <= Len(tasks_pending)]_vars
  <2> SUFFICES ASSUME EndInv, Next, stop PROVE Len(tasks_pending') <= Len(tasks_pending)
    OBVIOUS
  <2>1. TypeOK /\ RefInv /\ SourceInv /\ rc[Api] = 0 /\ Len(tasks_pending) \in Nat
    BY DEF EndInv, IInv, RefInv, StopInv, TypeOK
  <2>2. ASSUME NEW t \in Threads, Retire(t) PROVE FALSE
    <3> PICK b \in Buffers : b = call[t].on
      BY <2>1, <2>2 DEF Retire, TypeOK
    <3>1. stm[b] = "live" /\ call[t].at = "submit"
      BY <2>1, <2>2 DEF Retire, RefInv, RetiringOnce, Retired
    <3>2. t \in Retiring(b)
      BY <2>1, <3>1, CallIs DEF Retiring
    <3> QED
      BY <2>1, <3>1, <3>2, Upwards
  <2>3. tasks_pending' = tasks_pending \/ tasks_pending' = <<>>
    <3>1. CASE SystemStep
      BY <3>1 DEF SystemStep, AudioStep, AudioFail, AudioIntake, AudioExecute, AudioStartMix,
           AudioMix, AudioNotify, AudioRecycle, AudioExit, Leave, ReaperStep, ReaperSleep,
           SpuriousWake, ReaperTake, ReaperSubmit, ReaperWait, ReaperReset, ReaperDestroy,
           ReaperLoop, reaperVars, taskVars
    <3>2. ASSUME NEW t \in Threads, AppBegins(t) \/ AppContinues(t)
          PROVE  tasks_pending' = tasks_pending
      BY <2>2, <3>2 DEF AppBegins, AppContinues, Create, Duplicate, Alloc, Use, Release, AddRef,
           UnrefParent, StopReaper, RaiseStop, JoinReaper, StopAudio, JoinAudio, reaperVars,
           taskVars
    <3>3. CASE Done
      BY <3>3 DEF Done, vars, reaperVars, taskVars
    <3> QED
      BY <3>1, <3>2, <3>3 DEF Next
  <2> QED
    BY <2>1, <2>3
<1> QED
  BY <1>1, EndInvariance, PTL DEF Spec, NoTasksAfterStop

-----------------------------------------------------------------------------
(* Reclamation                                                             *)

(* A play of b is submitted and not yet executed.                          *)
ToPlay(b) ==
  \/ \E n \in 1..Len(intake) : intake[n].type = "play" /\ intake[n].stm = b
  \/ /\ phase = "exec"
     /\ \E n \in iter..Len(chamber) : chamber[n].type = "play" /\ chamber[n].stm = b

LEMMA BusyIs ==
  /\ \A b : b \in busy <=> b \in mixing \/ ToPlay(b)
  /\ \A b : b \in busy' <=> b \in mixing' \/ ToPlay(b)'
  BY DEF busy, ToPlay

(* Nothing the audio thread does adds to the streams it may read.          *)
LEMMA AudioQuiet ==
  ASSUME TypeOK, AudioStep \/ AudioFail
  PROVE  busy' \subseteq busy /\ UNCHANGED <<stm, sbuf>>
<1> USE DEF TypeOK, PipeTypeOK, Phases, resourceVars, audioVars
<1>1. ASSUME mixing' \subseteq mixing, \A b : ToPlay(b)' => ToPlay(b)
      PROVE  busy' \subseteq busy
  BY <1>1, BusyIs
<1>2. CASE AudioIntake
  <2>1. mixing' = mixing /\ intake' = <<>> /\ chamber' = intake /\ iter' = 1
    BY <1>2 DEF AudioIntake, TakeBatch
  <2>2. \A b : ToPlay(b)' => ToPlay(b)
    BY <2>1 DEF ToPlay
  <2> QED
    BY <1>1, <1>2, <2>1, <2>2 DEF AudioIntake
<1>3. CASE AudioExecute
  <2>1. /\ phase = "exec" /\ iter \in 1..Len(chamber) /\ iter' = iter + 1
        /\ UNCHANGED <<intake, chamber, phase>>
    BY <1>3 DEF AudioExecute, Execute, AtCommand
  <2>2. \A b : ToPlay(b)' => ToPlay(b)
    BY <2>1 DEF ToPlay
  <2>3. \A b \in mixing' : b \in mixing \/ ToPlay(b)
    BY <1>3, <2>1 DEF AudioExecute, Current, ToPlay
  <2> QED
    BY <1>3, <2>2, <2>3, BusyIs DEF AudioExecute
<1>4. CASE AudioStartMix \/ AudioMix
  <2>1. intake' = intake /\ phase' # "exec" /\ mixing' \subseteq mixing
    BY <1>4 DEF AudioStartMix, AudioMix, StartMix, EndMix
  <2>2. \A b : ToPlay(b)' => ToPlay(b)
    BY <2>1 DEF ToPlay
  <2> QED
    BY <1>1, <1>4, <2>1, <2>2 DEF AudioStartMix, AudioMix
<1>5. CASE AudioNotify \/ AudioRecycle
  <2>1. intake' = intake /\ phase' # "exec" /\ mixing' = mixing
    BY <1>5 DEF AudioNotify, AudioRecycle, Notify, Recycle, AtCommand
  <2>2. \A b : ToPlay(b)' => ToPlay(b)
    BY <2>1 DEF ToPlay
  <2> QED
    BY <1>1, <1>5, <2>1, <2>2 DEF AudioNotify, AudioRecycle
<1>6. CASE AudioExit \/ AudioFail
  <2>1. UNCHANGED pipeVars /\ mixing' \subseteq mixing
    BY <1>6 DEF AudioExit, AudioFail, Leave
  <2>2. \A b : ToPlay(b)' => ToPlay(b)
    BY <2>1 DEF ToPlay, pipeVars
  <2> QED
    BY <1>1, <1>6, <2>1, <2>2 DEF AudioExit, AudioFail, Leave
<1> QED
  BY <1>2, <1>3, <1>4, <1>5, <1>6 DEF AudioStep

(* A command is submitted: only a play adds to them, and only its stream.  *)
LEMMA SubmitBusy ==
  ASSUME TypeOK, NEW v \in Contents, Submit(v), mixing' = mixing
  PROVE  busy' = IF v.type = "play" THEN busy \cup {v.stm} ELSE busy
<1>1. /\ Len(intake) \in Nat /\ Len(intake') = Len(intake) + 1
      /\ \A n \in 1..Len(intake) : intake'[n] = intake[n]
      /\ intake'[Len(intake) + 1] = v
      /\ UNCHANGED <<chamber, iter, phase>>
  BY DEF Submit, TypeOK, PipeTypeOK
<1>2. \A n : n \in 1..Len(intake') <=> n \in 1..Len(intake) \/ n = Len(intake) + 1
  BY <1>1
<1>3. \A b : ToPlay(b)' <=> ToPlay(b) \/ (v.type = "play" /\ b = v.stm)
  BY <1>1, <1>2 DEF ToPlay
<1>4. \A b : b \in busy' <=> b \in busy \/ (v.type = "play" /\ b = v.stm)
  BY <1>3, BusyIs
<1> QED
  BY <1>4

LEMMA SameBusy ==
  ASSUME UNCHANGED <<pipeVars, mixing>>
  PROVE  busy' = busy
<1>1. \A b : ToPlay(b)' <=> ToPlay(b)
  BY DEF ToPlay, pipeVars
<1>2. \A b : b \in busy' <=> b \in busy
  BY <1>1, BusyIs
<1> QED
  BY <1>2

LEMMA LifeIs ==
  /\ \A b \in Buffers :
       life[b] = IF stm[b] = "live" /\ rc[b] = 0 THEN "retired" ELSE stm[b]
  /\ \A b \in Buffers :
       life'[b] = IF stm'[b] = "live" /\ rc'[b] = 0 THEN "retired" ELSE stm'[b]
  /\ life = [b \in Buffers |-> life[b]] /\ life' = [b \in Buffers |-> life'[b]]
  BY DEF life

(* What has a reference goes on living when counts change.                 *)
LEMMA SameLife ==
  ASSUME stm' = stm, \A b \in Buffers : rc'[b] = 0 <=> rc[b] = 0
  PROVE  life' = life
<1>1. \A b \in Buffers : life'[b] = life[b]
  BY LifeIs
<1> QED
  BY <1>1, LifeIs

LEMMA SystemReclaims ==
  ASSUME TypeOK, RefInv, PipeInv, SourceInv, QueueInv, SystemStep
  PROVE  Abstract!Next
<1>1. UNCHANGED appVars
  BY DEF SystemStep
<1>2. ASSUME busy' \subseteq busy, UNCHANGED <<stm, sbuf>> PROVE Abstract!Quiet
  BY <1>1, <1>2, SameLife DEF Abstract!Quiet, appVars
<1>3. CASE AudioStep \/ AudioFail
  BY <1>2, <1>3, AudioQuiet DEF Abstract!Next
<1>4. CASE ReaperSubmit
  <2> DEFINE v == [type |-> "stop", stm |-> tasks[task], callback |-> task = Len(tasks)]
  <2>1. v \in Contents /\ v.type # "play"
    BY <1>4, ReaperAssumption, QueuedTypes DEF ReaperSubmit, TypeOK, Requests
  <2>2. Submit(v) /\ UNCHANGED <<mixing, stm, sbuf>>
    BY <1>4 DEF ReaperSubmit, audioVars, resourceVars
  <2> HIDE DEF v
  <2> QED
    BY <1>2, <2>1, <2>2, SubmitBusy DEF Abstract!Next
<1>5. CASE ReaperSleep \/ SpuriousWake \/ ReaperTake \/ ReaperWait \/ ReaperReset \/ ReaperLoop
  <2>1. UNCHANGED <<pipeVars, mixing, stm, sbuf>>
    BY <1>5 DEF ReaperSleep, SpuriousWake, ReaperTake, ReaperWait, ReaperReset, ReaperLoop,
                audioVars, resourceVars
  <2> QED
    BY <1>2, <2>1, SameBusy DEF Abstract!Next
<1>6. CASE ReaperDestroy
  <2> PICK o \in Buffers : o = Head(tasks) /\ o = tasks[1] /\ 1 \in 1..Len(tasks)
    BY <1>6 DEF ReaperDestroy, TypeOK
  <2>1. /\ stm' = [stm EXCEPT ![o] = "freed"]
        /\ rc' = rc /\ UNCHANGED <<pipeVars, mixing, sbuf>>
    BY <1>1, <1>6 DEF ReaperDestroy, audioVars, appVars
  <2>2. stm[o] = "live" /\ rc[o] = 0
    BY DEF RefInv, QueuedOnce, Retired
  <2>3. life[o] = "retired"
    BY <2>2, LifeIs
  <2>4. o \notin busy
    <3>1. o \notin mixing /\ \A p \in ToExecute : Cmd(p).stm # o
      BY <1>6 DEF PipeInv, BatchQuiesced, ReaperDestroy
    <3>2. o \notin Pending
      BY <3>1, PendingCommands
    <3>3. ToPlay(o) => o \in Pending
      BY DEF ToPlay, Pending
    <3> QED
      BY <3>1, <3>2, <3>3, BusyIs
  <2>5. ASSUME NEW d \in Buffers \ {o}, sbuf[d] = o PROVE life[d] = "freed"
    <3>1. stm[d] # "live"
      BY <2>5, LastReader
    <3>2. stm[d] # "none"
      BY <2>5 DEF SourceInv, OwnSamples
    <3> QED
      BY <3>1, <3>2, LifeIs DEF TypeOK, Lives
  <2>6. life' = [life EXCEPT ![o] = "freed"]
    <3>1. /\ life'[o] = "freed"
          /\ \A b \in Buffers \ {o} : life'[b] = life[b]
      BY <2>1, LifeIs DEF TypeOK
    <3> QED
      BY <3>1, LifeIs
  <2>7. busy' = busy
    BY <2>1, SameBusy
  <2>8. Abstract!Free(o)
    BY <2>1, <2>3, <2>4, <2>5, <2>6, <2>7 DEF Abstract!Free
  <2> QED
    BY <2>8 DEF Abstract!Next
<1> QED
  BY <1>3, <1>4, <1>5, <1>6 DEF SystemStep, ReaperStep

LEMMA AppReclaims ==
  ASSUME TypeOK, RefInv, SourceInv, NEW t \in Threads, AppBegins(t) \/ AppContinues(t)
  PROVE  Abstract!Next
<1> USE DEF audioVars, resourceVars
<1>1. ASSUME busy' \subseteq busy, UNCHANGED <<stm, sbuf>>,
             \A b \in Buffers : rc'[b] = 0 <=> rc[b] = 0
      PROVE  Abstract!Next
  BY <1>1, SameLife DEF Abstract!Quiet, Abstract!Next
<1>2. ASSUME NEW b \in Buffers, NEW par \in Objects, par \in held[t], Alloc(t, b, par),
             NEW own \in Buffers, sbuf' = [sbuf EXCEPT ![b] = own],
             own = b \/ life[own] = "live"
      PROVE  Abstract!Next
  <2>1. rc[par] > 0 /\ rc[par] \in Nat /\ stm[b] = "none"
    BY <1>2, HolderReferences DEF RefInv, TypeOK, Alloc
  <2>2. /\ stm'[b] = "live" /\ rc'[b] # 0
        /\ \A d \in Buffers \ {b} : stm'[d] = stm[d] /\ (rc'[d] = 0 <=> rc[d] = 0)
    <3>1. par # b
      BY <2>1 DEF RefInv, ReferencedLives
    <3> QED
      BY <1>2, <2>1, <3>1 DEF Alloc, TypeOK, Objects
  <2>3. life[b] = "none" /\ life' = [life EXCEPT ![b] = "live"]
    <3>1. life[b] = "none" /\ life'[b] = "live" /\ \A d \in Buffers \ {b} : life'[d] = life[d]
      BY <2>1, <2>2, LifeIs
    <3> QED
      BY <3>1, LifeIs
  <2>4. busy' = busy
    BY <1>2, SameBusy DEF Alloc
  <2>5. Abstract!Create(b, own)
    BY <1>2, <2>3, <2>4 DEF Abstract!Create
  <2> QED
    BY <2>5 DEF Abstract!Next
<1>3. ASSUME NEW b \in Buffers, Create(t, b) PROVE Abstract!Next
  BY <1>2, <1>3 DEF Create, Alloc, Objects
<1>4. ASSUME NEW b \in Buffers, NEW src \in Buffers, Duplicate(t, b, src) PROVE Abstract!Next
  <2>1. src \in held[t] /\ rc[src] > 0
    BY <1>4, HolderReferences DEF Duplicate, RefInv, Objects
  <2>2. sbuf[src] \in Buffers /\ rc[sbuf[src]] > 0
    BY <2>1, Upwards DEF RefInv, ReferencedLives, TypeOK
  <2>3. life[sbuf[src]] = "live"
    BY <2>2, LifeIs DEF RefInv, ReferencedLives
  <2> QED
    BY <1>2, <1>4, <2>1, <2>2, <2>3 DEF Duplicate, Objects
<1>5. ASSUME NEW b \in Buffers, NEW type \in Uses, Use(t, b, type) PROVE Abstract!Next
  <2> DEFINE v == [type |-> type, stm |-> b, callback |-> FALSE]
  <2>1. v \in Contents /\ v.type = type /\ v.stm = b
    BY ReaperAssumption, LifetimeAssumption DEF Requests
  <2>2. Submit(v) /\ UNCHANGED <<mixing, stm, sbuf, rc>>
    BY <1>5 DEF Use, appVars
  <2> HIDE DEF v
  <2>3. CASE type = "play"
    <3>1. rc[b] > 0
      BY <1>5, HolderReferences DEF Use, RefInv, Objects
    <3>2. life[b] = "live"
      BY <3>1, LifeIs DEF RefInv, ReferencedLives
    <3>3. busy' = busy \cup {b} /\ life' = life
      BY <2>1, <2>2, <2>3, SubmitBusy, SameLife
    <3>4. Abstract!Start(b)
      BY <2>2, <3>2, <3>3 DEF Abstract!Start
    <3> QED
      BY <3>4 DEF Abstract!Next
  <2>4. CASE type # "play"
    BY <1>1, <2>1, <2>2, <2>4, SubmitBusy
  <2> QED
    BY <2>3, <2>4
<1>6. ASSUME NEW x \in Objects, rc[x] > 0, Unref(t, x),
             UNCHANGED <<pipeVars, mixing, stm, sbuf>>
      PROVE  Abstract!Next
  <2>1. /\ rc'[x] = rc[x] - 1 /\ rc[x] \in Nat
        /\ \A d \in Buffers \ {x} : rc'[d] = rc[d]
    BY <1>6 DEF Unref, TypeOK, Objects
  <2>2. busy' = busy
    BY <1>6, SameBusy
  <2>3. CASE x \in Buffers /\ rc[x] = 1
    <3>1. stm[x] = "live"
      BY <1>6, <2>3 DEF RefInv, ReferencedLives
    <3>2. life[x] = "live" /\ life'[x] = "retired"
          /\ \A d \in Buffers \ {x} : life'[d] = life[d]
      BY <1>6, <2>1, <2>3, <3>1, LifeIs
    <3>3. life' = [life EXCEPT ![x] = "retired"]
      BY <3>2, LifeIs
    <3>4. Abstract!Retire(x)
      BY <1>6, <2>2, <3>2, <3>3 DEF Abstract!Retire
    <3> QED
      BY <2>3, <3>4 DEF Abstract!Next
  <2>4. CASE ~(x \in Buffers /\ rc[x] = 1)
    <3>1. \A b \in Buffers : rc'[b] = 0 <=> rc[b] = 0
      BY <1>6, <2>1, <2>4
    <3> QED
      BY <1>1, <1>6, <2>2, <3>1
  <2> QED
    BY <2>3, <2>4
<1>7. ASSUME NEW x \in Objects, Release(t, x) PROVE Abstract!Next
  BY <1>6, <1>7, HolderReferences DEF Release, RefInv
<1>8. CASE UnrefParent(t)
  <2>1. call[t].on \in Objects /\ call[t] = [at |-> "unref", on |-> call[t].on]
    BY <1>8, CallIs DEF UnrefParent, TypeOK
  <2>2. rc[call[t].on] > 0
    BY <2>1, HolderReferences DEF RefInv
  <2> QED
    BY <1>6, <1>8, <2>1, <2>2 DEF UnrefParent
<1>9. ASSUME NEW x \in Objects, NEW u \in Threads, AddRef(t, x, u) PROVE Abstract!Next
  <2>1. rc[x] > 0
    BY <1>9, HolderReferences DEF AddRef, RefInv
  <2>2. \A b \in Buffers : rc'[b] = 0 <=> rc[b] = 0
    BY <1>9, <2>1 DEF AddRef, TypeOK, Objects
  <2>3. busy' = busy /\ UNCHANGED <<stm, sbuf>>
    BY <1>9, SameBusy DEF AddRef
  <2> QED
    BY <1>1, <2>2, <2>3
<1>10. CASE Retire(t) \/ StopReaper(t) \/ JoinReaper(t) \/ StopAudio(t)
  <2>1. UNCHANGED <<pipeVars, mixing, stm, sbuf, rc>>
    BY <1>10 DEF Retire, StopReaper, JoinReaper, StopAudio, CallNext
  <2> QED
    BY <1>1, <2>1, SameBusy
<1>11. CASE JoinAudio(t)
  <2>1. intake' = <<>> /\ UNCHANGED <<chamber, iter, phase, mixing, stm, sbuf, rc>>
    BY <1>11 DEF JoinAudio, CallNext
  <2>2. \A b : ToPlay(b)' => ToPlay(b)
    BY <2>1 DEF ToPlay
  <2> QED
    BY <1>1, <2>1, <2>2, BusyIs
<1> QED
  BY <1>3, <1>4, <1>5, <1>7, <1>8, <1>9, <1>10, <1>11 DEF AppBegins, AppContinues

(* The reaper reclaims, as Reclamation says: each step of the library is a *)
(* step of it or leaves its state as it is.                                *)
THEOREM Reclaims == Spec => ImplementsReclamation
<1>1. Init => Abstract!Init
  <2> SUFFICES ASSUME Init PROVE Abstract!Init
    OBVIOUS
  <2>1. /\ stm = [b \in Buffers |-> "none"] /\ sbuf = [b \in Buffers |-> b]
        /\ mixing = {} /\ intake = <<>> /\ phase = "idle"
    BY DEF Init, ReaperInit, PipeInit
  <2>2. life = [b \in Buffers |-> "none"]
    BY <2>1 DEF life
  <2>3. busy = {}
    BY <2>1 DEF busy
  <2> QED
    BY <2>1, <2>2, <2>3 DEF Abstract!Init
<1>2. EndInv /\ [Next]_vars => [Abstract!Next]_(Abstract!vars)
  <2> SUFFICES ASSUME EndInv, [Next]_vars PROVE [Abstract!Next]_(Abstract!vars)
    OBVIOUS
  <2>1. TypeOK /\ RefInv /\ PipeInv /\ SourceInv /\ QueueInv
    BY DEF EndInv, IInv, RefInv, PipeInv
  <2>2. CASE SystemStep
    BY <2>1, <2>2, SystemReclaims
  <2>3. ASSUME NEW t \in Threads, AppBegins(t) \/ AppContinues(t) PROVE Abstract!Next
    BY <2>1, <2>3, AppReclaims
  <2>4. CASE Done \/ UNCHANGED vars
    <3>1. UNCHANGED <<pipeVars, mixing, stm, sbuf, rc>>
      BY <2>4 DEF Done, vars, audioVars, resourceVars, appVars
    <3>2. life' = life /\ busy' = busy
      BY <3>1, SameLife, SameBusy
    <3> QED
      BY <3>1, <3>2 DEF Abstract!vars
  <2> QED
    BY <2>2, <2>3, <2>4 DEF Next
<1> QED
  BY <1>1, <1>2, EndInvariance, PTL DEF Spec, ImplementsReclamation, Abstract!Spec
=============================================================================
