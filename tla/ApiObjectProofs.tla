--------------------------- MODULE ApiObjectProofs ---------------------------
(* Theorems about ApiObject and the creation of buffers in it, for any     *)
(* number of threads and buffers and any steps that may fail.              *)
EXTENDS ApiObject, Integers, FiniteSetTheorems, WellFoundedInduction, TLAPS

Creating(t) == call[t].at \in Failures
Destroying(t) == call[t].at \in {"destroy", "notify"}

(* What a thread inside a call knows of the buffer the call is about.      *)
CallMatches(t) ==
  /\ call[t].at \in {"idle", "shutdown", "destroy", "notify"} => call[t].src = Nobody
  /\ call[t].at \in {"idle", "shutdown"} => call[t].new = Nobody
  /\ Creating(t) =>
       /\ call[t].new \in Buffers \ primary
       /\ HeldBy(call[t].new) = {}
       /\ Has(call[t].new, "self") <=> call[t].at \notin {"client", "self"}
  /\ call[t].at = "self" => parent[call[t].new] # Nobody
  /\ Destroying(t) =>
       /\ call[t].new \in Buffers \ primary
       /\ Has(call[t].new, "self")
       /\ rc[call[t].new] = 0

CallsMatch == \A t \in Threads : CallMatches(t)

(* No two threads create one buffer, and no two destroy one.               *)
OneCall ==
  \A t, u \in Threads :
    /\ call[t].new = call[u].new
    /\ (Creating(t) /\ Creating(u)) \/ (Destroying(t) /\ Destroying(u))
    => t = u

(* A buffer that is referenced exists; one that exists has a parent unless *)
(* it is a primary one; and one with a parent exists or is about to.       *)
BufferMatches(b) ==
  /\ rc[b] # 0 => Has(b, "self")
  /\ Has(b, "self") /\ b \notin primary => parent[b] # Nobody
  /\ b \in primary => Has(b, "self") /\ parent[b] = Nobody
  /\ parent[b] # Nobody =>
       Has(b, "self") \/ \E t \in Threads : call[t].at = "self" /\ call[t].new = b

BuffersMatch == \A b \in Buffers : BufferMatches(b)

IInv == TypeOK /\ CountsMatch /\ CallsMatch /\ OneCall /\ BuffersMatch

-----------------------------------------------------------------------------
(* Counting                                                                *)

(* The cardinality of a part of a finite set, one element more and one     *)
(* less.                                                                   *)
LEMMA PartCardinality ==
  ASSUME NEW Whole, IsFiniteSet(Whole), NEW T \in SUBSET Whole
  PROVE  /\ Cardinality(T) \in Nat
         /\ Cardinality(T) = 0 <=> T = {}
         /\ \A x : x \notin T => Cardinality(T \cup {x}) = Cardinality(T) + 1
         /\ \A x \in T : Cardinality(T \ {x}) = Cardinality(T) - 1
<1>1. IsFiniteSet(T)
  BY FS_Subset
<1> QED
  BY <1>1, FS_CardinalityType, FS_EmptySet, FS_AddElement, FS_RemoveElement

(* Who refers to x is among the threads and the buffers, before and after  *)
(* a step.                                                                 *)
LEMMA HolderParts ==
  ASSUME NEW x
  PROVE  /\ HeldBy(x) \in SUBSET Threads /\ HeldBy(x)' \in SUBSET Threads
         /\ Copying(x) \in SUBSET Threads /\ Copying(x)' \in SUBSET Threads
         /\ Making(x) \in SUBSET Threads /\ Making(x)' \in SUBSET Threads
         /\ Children(x) \in SUBSET Buffers /\ Children(x)' \in SUBSET Buffers
  BY DEF HeldBy, Copying, Making, Children

(* So the references of each kind are finitely many.                       *)
LEMMA HolderCounts ==
  ASSUME NEW x
  PROVE  /\ Cardinality(HeldBy(x)) \in Nat
         /\ Cardinality(HeldBy(x)) = 0 <=> HeldBy(x) = {}
         /\ Cardinality(Children(x)) \in Nat
         /\ Cardinality(Children(x)) = 0 <=> Children(x) = {}
         /\ Cardinality(Copying(x)) \in Nat
         /\ Cardinality(Copying(x)) = 0 <=> Copying(x) = {}
         /\ Cardinality(Making(x)) \in Nat
         /\ Cardinality(Making(x)) = 0 <=> Making(x) = {}
  BY HolderParts, PartCardinality, CreationAssumption

(* What a reference says of the count, and a count of nought of references.*)
LEMMA References ==
  ASSUME CountsMatch, NEW x \in Objects
  PROVE  /\ rc[x] \in Nat
         /\ HeldBy(x) \cup Children(x) \cup Copying(x) \cup Making(x) # {} \/ x \in primary
              <=> rc[x] > 0
         /\ HeldBy(x) # {} /\ x \in primary => rc[x] > 1
<1>1. rc[x] = Cardinality(HeldBy(x)) + Cardinality(Children(x)) + Cardinality(Copying(x))
          + Cardinality(Making(x)) + (IF x \in primary THEN 1 ELSE 0)
  BY DEF CountsMatch
<1> DEFINE
  h == Cardinality(HeldBy(x))
  c == Cardinality(Children(x))
  p == Cardinality(Copying(x))
  m == Cardinality(Making(x))
<1>2. /\ h \in Nat /\ (h = 0 <=> HeldBy(x) = {})
      /\ c \in Nat /\ (c = 0 <=> Children(x) = {})
      /\ p \in Nat /\ (p = 0 <=> Copying(x) = {})
      /\ m \in Nat /\ (m = 0 <=> Making(x) = {})
  BY HolderCounts
<1>3. rc[x] = h + c + p + m + (IF x \in primary THEN 1 ELSE 0)
  BY <1>1
<1> HIDE DEF h, c, p, m
<1>4. /\ rc[x] \in Nat
      /\ rc[x] > 0 <=> h # 0 \/ c # 0 \/ p # 0 \/ m # 0 \/ x \in primary
      /\ h # 0 /\ x \in primary => rc[x] > 1
  BY <1>2, <1>3
<1> QED
  BY <1>2, <1>4

(* Who has a reference keeps the object alive, and nobody destroys it      *)
(* meanwhile.                                                              *)
LEMMA Holding ==
  ASSUME IInv, NEW x \in Objects
  PROVE  /\ \A t \in Threads : x \in held[t] => rc[x] > 0
         /\ \A t \in Threads : call[t].src = x => rc[x] > 0
         /\ \A b \in Buffers : parent[b] = x => rc[x] > 0
         /\ \A t \in Threads : x \in held[t] /\ x \in primary => rc[x] > 1
         /\ rc[x] > 0 => \A t \in Threads : Destroying(t) => call[t].new # x
<1>1. CountsMatch
  BY DEF IInv
<1>2. /\ \A t \in Threads : x \in held[t] => t \in HeldBy(x)
      /\ \A t \in Threads : call[t].src = x => t \in Copying(x)
      /\ \A b \in Buffers : parent[b] = x => b \in Children(x)
  BY DEF HeldBy, Copying, Children
<1>3. \A t \in Threads : Destroying(t) => rc[call[t].new] = 0
  BY DEF IInv, CallsMatch, CallMatches
<1> QED
  BY <1>1, <1>2, <1>3, References

(* When DirectSoundCreate8 has returned there is one reference, on the API *)
(* object.                                                                 *)
LEMMA InitInvariant == Init => IInv
<1> SUFFICES ASSUME Init PROVE IInv
  OBVIOUS
<1>1. PICK t \in Threads : held = [u \in Threads |-> IF u = t THEN {Api} ELSE {}]
  BY DEF Init
<1>2. TypeOK
  BY <1>1 DEF Init, TypeOK, Objects, NoCall, Labels
<1>3. CallsMatch /\ OneCall
  BY DEF Init, NoCall, CallsMatch, CallMatches, OneCall, Creating, Destroying, Failures
<1>4. BuffersMatch
  BY CreationAssumption DEF Init, BuffersMatch, BufferMatches, Objects, Has
<1>5. CountsMatch
  <2> SUFFICES ASSUME NEW x \in Objects
               PROVE  rc[x] = Cardinality(HeldBy(x)) + Cardinality(Children(x))
                        + Cardinality(Copying(x)) + Cardinality(Making(x))
                        + (IF x \in primary THEN 1 ELSE 0)
    BY DEF CountsMatch
  <2>1. Children(x) = {} /\ Copying(x) = {} /\ Making(x) = {} /\ x \notin primary
    BY CreationAssumption DEF Init, Children, Copying, Making, NoCall, Failures, Objects
  <2>2. HeldBy(x) = IF x = Api THEN {t} ELSE {}
    BY <1>1 DEF HeldBy
  <2>3. Cardinality({}) = 0 /\ Cardinality({t}) = 1
    BY FS_EmptySet, FS_Singleton
  <2>4. rc[x] = IF x = Api THEN 1 ELSE 0
    BY DEF Init
  <2> QED
    BY <2>1, <2>2, <2>3, <2>4
<1> QED
  BY <1>2, <1>3, <1>4, <1>5 DEF IInv

-----------------------------------------------------------------------------
(* Steps that count nothing                                                *)

(* A step that changes no reference and no count.                          *)
LEMMA SameCounts ==
  ASSUME CountsMatch, UNCHANGED <<rc, held, parent, primary>>,
         \A x \in Objects : Copying(x)' = Copying(x) /\ Making(x)' = Making(x)
  PROVE  CountsMatch'
<1>1. \A x : HeldBy(x)' = HeldBy(x) /\ Children(x)' = Children(x)
  BY DEF HeldBy, Children
<1> QED
  BY <1>1 DEF CountsMatch, Objects

(* What is being allocated once there is an object, and what comes after   *)
(* the last release, make no difference to the references.                 *)
Fitting == {"size", "samples", "stream", "task", "command"}

(* A step that only moves a call on, with the object it is about there     *)
(* before and after.                                                       *)
LEMMA QuietStep ==
  ASSUME IInv, TypeOK', UNCHANGED <<rc, held, parent, primary>>,
         \A b \in Buffers : Has(b, "self")' <=> Has(b, "self"),
         \A u \in Threads :
           /\ call'[u].new = call[u].new
           /\ call'[u].src = call[u].src
           /\ \/ call'[u].at = call[u].at
              \/ {call[u].at, call'[u].at} \subseteq Fitting
              \/ {call[u].at, call'[u].at} \subseteq {"destroy", "notify"}
  PROVE  IInv'
<1> USE DEF IInv, Fitting, Creating, Destroying, Failures
<1>1. \A u \in Threads : (Creating(u)' <=> Creating(u)) /\ (Destroying(u)' <=> Destroying(u))
  OBVIOUS
<1>2. \A x : Copying(x)' = Copying(x)
  BY DEF Copying
<1>3. \A x : HeldBy(x)' = HeldBy(x)
  BY DEF HeldBy
<1>4. \A x \in Objects : Making(x)' = Making(x)
  <2> SUFFICES ASSUME NEW x \in Objects PROVE Making(x)' = Making(x)
    OBVIOUS
  <2>1. \A u \in Threads : Creating(u) /\ call[u].new = x => x \in Buffers
    BY DEF CallsMatch, CallMatches
  <2> QED
    BY <1>1, <2>1 DEF Making
<1>5. CountsMatch'
  BY <1>2, <1>4, SameCounts
<1>6. CallsMatch'
  BY <1>1, <1>3 DEF CallsMatch, CallMatches
<1>7. OneCall'
  BY <1>1 DEF OneCall
<1>8. BuffersMatch'
  BY DEF BuffersMatch, BufferMatches, Objects
<1> QED
  BY <1>5, <1>6, <1>7, <1>8

(* What call[t] is.                                                        *)
CallRecords == [at : Labels, new : Buffers \cup {Nobody}, src : Buffers \cup {Nobody}]

(* A step to another label of the same call.                               *)
LEMMA GotoCalls ==
  ASSUME TypeOK, NEW t \in Threads, NEW label \in Labels, Goto(t, label)
  PROVE  /\ call' \in [Threads -> CallRecords]
         /\ call'[t] = [at |-> label, new |-> call[t].new, src |-> call[t].src]
         /\ \A u \in Threads \ {t} : call'[u] = call[u]
<1>1. call \in [Threads -> CallRecords]
  BY DEF TypeOK, CallRecords
<1>2. call' = [call EXCEPT ![t] = [call[t] EXCEPT !.at = label]]
  BY DEF Goto
<1>3. [call[t] EXCEPT !.at = label] = [at |-> label, new |-> call[t].new, src |-> call[t].src]
  BY <1>1 DEF CallRecords
<1>4. [at |-> label, new |-> call[t].new, src |-> call[t].src] \in CallRecords
  BY <1>1 DEF CallRecords
<1> QED
  BY <1>1, <1>2, <1>3, <1>4

(* The allocations once there is an object, and the first half of its      *)
(* destruction.                                                            *)
LEMMA FittingSteps ==
  ASSUME IInv, NEW t \in Threads,
         \/ Size(t)
         \/ AllocPart(t, "samples", "stream")
         \/ AllocPart(t, "stream", "task")
         \/ AllocPart(t, "task", "command")
         \/ \E what \in Failures : Unwind(t, what)
         \/ Destroy(t)
  PROVE  IInv'
<1> USE DEF At, Has, Fitting
<1>1. TypeOK
  BY DEF IInv
<1>2. CASE Size(t)
  <2> DEFINE next == IF call[t].src = Nobody THEN "samples" ELSE "stream"
  <2>1. next \in Labels /\ Goto(t, next)
    BY <1>2 DEF Size, Labels, Failures
  <2>2. call' \in [Threads -> CallRecords]
    BY <1>1, <2>1, GotoCalls
  <2>3. /\ call'[t] = [at |-> next, new |-> call[t].new, src |-> call[t].src]
        /\ \A u \in Threads \ {t} : call'[u] = call[u]
    BY <1>1, <2>1, GotoCalls
  <2>4. call[t].src # Nobody => buf[call[t].src] \in Buffers
    BY <1>1 DEF TypeOK
  <2>5. buf' \in [Buffers -> Buffers]
    BY <1>1, <1>2, <2>4 DEF Size, TypeOK
  <2>6. TypeOK'
    BY <1>1, <1>2, <2>2, <2>5 DEF Size, TypeOK, CallRecords
  <2> QED
    BY <1>2, <2>3, <2>6, QuietStep DEF Size
<1>3. ASSUME NEW part \in {"samples", "stream", "task"}, NEW next \in {"stream", "task", "command"},
             AllocPart(t, part, next)
      PROVE  IInv'
  <2>1. call[t].new \in Buffers
    BY <1>3 DEF AllocPart, IInv, CallsMatch, CallMatches, Creating, Failures
  <2>2. next \in Labels /\ Goto(t, next)
    BY <1>3 DEF AllocPart, Labels, Failures
  <2>3. call' \in [Threads -> CallRecords]
    BY <1>1, <2>2, GotoCalls
  <2>4. /\ call'[t] = [at |-> next, new |-> call[t].new, src |-> call[t].src]
        /\ \A u \in Threads \ {t} : call'[u] = call[u]
    BY <1>1, <2>2, GotoCalls
  <2>5. TypeOK'
    BY <1>1, <1>3, <2>1, <2>3 DEF AllocPart, TypeOK, CallRecords, Parts
  <2>6. call[t].at \in Fitting /\ next \in Fitting
    BY <1>3 DEF AllocPart
  <2>7. \A b \in Buffers : Has(b, "self")' <=> Has(b, "self")
    BY <1>3 DEF AllocPart
  <2> QED
    BY <1>3, <2>4, <2>5, <2>6, <2>7, QuietStep DEF AllocPart
<1>4. CASE \E what \in Failures : Unwind(t, what)
  <2>1. TypeOK'
    BY <1>1, <1>4 DEF Unwind, TypeOK, Failures
  <2> QED
    BY <1>4, <2>1, QuietStep DEF Unwind
<1>5. CASE Destroy(t)
  <2>1. call[t].new \in Buffers
    BY <1>5 DEF Destroy, IInv, CallsMatch, CallMatches, Destroying
  <2>2. "notify" \in Labels /\ Goto(t, "notify")
    BY <1>5 DEF Destroy, Labels
  <2>3. call' \in [Threads -> CallRecords]
    BY <1>1, <2>2, GotoCalls
  <2>4. /\ call'[t] = [at |-> "notify", new |-> call[t].new, src |-> call[t].src]
        /\ \A u \in Threads \ {t} : call'[u] = call[u]
    BY <1>1, <2>2, GotoCalls
  <2>5. tasks' \in Seq(Buffers) /\ heap' \subseteq Parts \X Buffers
    BY <1>1, <1>5, <2>1 DEF Destroy, TypeOK
  <2>6. TypeOK'
    BY <1>1, <1>5, <2>3, <2>5 DEF Destroy, TypeOK, CallRecords
  <2> QED
    BY <1>5, <2>4, <2>6, QuietStep DEF Destroy
<1> QED
  BY <1>2, <1>3, <1>4, <1>5

(* The reaper.                                                             *)
LEMMA ReapStep ==
  ASSUME IInv, Reap
  PROVE  IInv'
<1>1. TypeOK'
  BY DEF IInv, Reap, TypeOK
<1> QED
  BY <1>1, QuietStep DEF Reap, Has

(* A creation that fails before anything is allocated.                     *)
LEMMA NoClientStep ==
  ASSUME IInv, NEW t \in Threads, NoClient(t)
  PROVE  IInv'
<1> USE DEF At, Has, Creating, Destroying, Failures, IInv
<1>1. /\ call' \in [Threads -> CallRecords]
      /\ call'[t] = [at |-> "return", new |-> call[t].new, src |-> call[t].src]
      /\ \A u \in Threads \ {t} : call'[u] = call[u]
  BY GotoCalls DEF NoClient, Labels
<1>2. call[t].at = "client" /\ UNCHANGED <<heap, primary, rc, parent, buf, tasks, held, failed>>
  BY DEF NoClient
<1>3. TypeOK'
  BY <1>1, <1>2 DEF TypeOK, CallRecords
<1>4. \A x : HeldBy(x)' = HeldBy(x) /\ Copying(x)' = Copying(x)
  BY <1>1, <1>2 DEF HeldBy, Copying
<1>5. \A x : Making(x)' = Making(x)
  BY <1>1, <1>2 DEF Making, CallsMatch, CallMatches
<1>6. CountsMatch'
  BY <1>2, <1>4, <1>5, SameCounts
<1>7. CallsMatch'
  BY <1>1, <1>2, <1>4 DEF CallsMatch, CallMatches
<1>8. OneCall'
  BY <1>1, <1>2 DEF OneCall
<1>9. BuffersMatch'
  BY <1>1, <1>2 DEF BuffersMatch, BufferMatches
<1> QED
  BY <1>3, <1>6, <1>7, <1>8, <1>9

(* The return of the last release.                                         *)
LEMMA ShutdownStep ==
  ASSUME IInv, NEW t \in Threads, Shutdown(t)
  PROVE  IInv'
<1> USE DEF At, Has, Creating, Destroying, Failures, IInv, NoCall
<1>1. /\ call[t].at = "shutdown"
      /\ call' = [call EXCEPT ![t] = NoCall]
      /\ UNCHANGED <<heap, primary, rc, parent, buf, tasks, held, failed>>
  BY DEF Shutdown
<1>2. TypeOK'
  BY <1>1 DEF TypeOK, Labels
<1>3. /\ call'[t] = NoCall
      /\ \A u \in Threads \ {t} : call'[u] = call[u]
  BY <1>1 DEF TypeOK
<1>4. \A x : HeldBy(x)' = HeldBy(x)
  BY <1>1 DEF HeldBy
<1>5. \A x \in Objects : Copying(x)' = Copying(x) /\ Making(x)' = Making(x)
  <2> SUFFICES ASSUME NEW x \in Objects PROVE Copying(x)' = Copying(x) /\ Making(x)' = Making(x)
    OBVIOUS
  <2>1. x # Nobody
    BY CreationAssumption DEF Objects
  <2>2. call[t].src = Nobody
    BY <1>1 DEF CallsMatch, CallMatches
  <2>3. Copying(x)' = Copying(x)
    BY <1>3, <2>1, <2>2 DEF Copying
  <2>4. Making(x)' = Making(x)
    BY <1>1, <1>3, <2>1 DEF Making
  <2> QED
    BY <2>3, <2>4
<1>6. CountsMatch'
  BY <1>1, <1>4, <1>5, SameCounts
<1>7. CallsMatch'
  BY <1>1, <1>3, <1>4 DEF CallsMatch, CallMatches
<1>8. OneCall'
  BY <1>1, <1>3 DEF OneCall
<1>9. BuffersMatch'
  BY <1>1, <1>3 DEF BuffersMatch, BufferMatches
<1> QED
  BY <1>2, <1>6, <1>7, <1>8, <1>9

(* The beginning of a creation.                                            *)
LEMMA CreateStep ==
  ASSUME IInv, NEW t \in Threads, NEW b \in Buffers, Create(t, b)
  PROVE  IInv'
<1> USE DEF Idle, Has, Creating, Destroying, Failures, IInv
<1> DEFINE c == [at |-> "client", new |-> b, src |-> Nobody]
<1>1. /\ call[t].at = "idle"
      /\ call' = [call EXCEPT ![t] = c]
      /\ UNCHANGED <<heap, primary, rc, parent, buf, tasks, held, failed>>
  BY DEF Create
<1>2. TypeOK'
  BY <1>1 DEF TypeOK, Labels
<1>3. /\ call'[t] = c
      /\ \A u \in Threads \ {t} : call'[u] = call[u]
  BY <1>1 DEF TypeOK
<1>4. ~Has(b, "self") /\ \A u \in Threads : call[u].new # b
  BY DEF Create, Unused, Allocated, Parts
<1>5. rc[b] = 0 /\ b \notin primary /\ parent[b] = Nobody
  BY <1>4 DEF BuffersMatch, BufferMatches
<1>6. HeldBy(b) = {}
  BY <1>5, References DEF Objects
<1>7. \A x : HeldBy(x)' = HeldBy(x)
  BY <1>1 DEF HeldBy
<1>8. \A x \in Objects : Copying(x)' = Copying(x) /\ Making(x)' = Making(x)
  <2> SUFFICES ASSUME NEW x \in Objects PROVE Copying(x)' = Copying(x) /\ Making(x)' = Making(x)
    OBVIOUS
  <2>1. x # Nobody
    BY CreationAssumption DEF Objects
  <2>2. call[t].src = Nobody
    BY <1>1 DEF CallsMatch, CallMatches
  <2>3. Copying(x)' = Copying(x)
    BY <1>3, <2>1, <2>2 DEF Copying
  <2>4. Making(x)' = Making(x)
    BY <1>1, <1>3, <1>4 DEF Making
  <2> QED
    BY <2>3, <2>4
<1>9. CountsMatch'
  BY <1>1, <1>7, <1>8, SameCounts
<1>10. CallsMatch'
  BY <1>1, <1>3, <1>4, <1>5, <1>6, <1>7 DEF CallsMatch, CallMatches
<1>11. OneCall'
  BY <1>1, <1>3, <1>4 DEF OneCall
<1>12. BuffersMatch'
  BY <1>1, <1>3 DEF BuffersMatch, BufferMatches
<1> QED
  BY <1>2, <1>9, <1>10, <1>11, <1>12
-----------------------------------------------------------------------------
(* Steps that count                                                        *)

(* Only the references on y change.                                        *)
LEMMA CountsAfter ==
  ASSUME CountsMatch, NEW y \in Objects,
         \A x \in Objects \ {y} :
           /\ rc'[x] = rc[x]
           /\ HeldBy(x)' = HeldBy(x)
           /\ Children(x)' = Children(x)
           /\ Copying(x)' = Copying(x)
           /\ Making(x)' = Making(x)
           /\ x \in primary' <=> x \in primary,
         rc'[y] = Cardinality(HeldBy(y)') + Cardinality(Children(y)') + Cardinality(Copying(y)')
                + Cardinality(Making(y)') + (IF y \in primary' THEN 1 ELSE 0)
  PROVE  CountsMatch'
<1> SUFFICES ASSUME NEW x \in Objects
             PROVE  rc'[x] = Cardinality(HeldBy(x)') + Cardinality(Children(x)')
                           + Cardinality(Copying(x)') + Cardinality(Making(x)')
                           + (IF x \in primary' THEN 1 ELSE 0)
  BY DEF CountsMatch, Objects
<1>1. CASE x = y
  BY <1>1
<1>2. CASE x # y
  BY <1>2 DEF CountsMatch
<1> QED
  BY <1>1, <1>2

(* A count and one kind of holders of an object go up, or down, by one.    *)
LEMMA OneMore ==
  ASSUME NEW Whole, IsFiniteSet(Whole), NEW T \in SUBSET Whole, NEW x, x \notin T
  PROVE  Cardinality(T \cup {x}) = Cardinality(T) + 1
  BY PartCardinality

(* And one that has one member less.                                       *)
LEMMA OneLess ==
  ASSUME NEW Whole, IsFiniteSet(Whole), NEW T \in SUBSET Whole, NEW x \in T
  PROVE  Cardinality(T \ {x}) = Cardinality(T) - 1
  BY PartCardinality

(* A count that goes up by one, and no other.                              *)
LEMMA CountUp ==
  ASSUME rc \in [Objects -> Nat], NEW x \in Objects, rc' = [rc EXCEPT ![x] = @ + 1]
  PROVE  /\ rc' \in [Objects -> Nat]
         /\ rc'[x] = rc[x] + 1
         /\ \A y \in Objects \ {x} : rc'[y] = rc[y]
  OBVIOUS

(* A count that goes down by one, and no other.                            *)
LEMMA CountDown ==
  ASSUME rc \in [Objects -> Nat], NEW x \in Objects, rc[x] > 0, rc' = [rc EXCEPT ![x] = @ - 1]
  PROVE  /\ rc' \in [Objects -> Nat]
         /\ rc'[x] = rc[x] - 1
         /\ \A y \in Objects \ {x} : rc'[y] = rc[y]
  OBVIOUS

(* The beginning of a duplication, with the reference on its source.       *)
LEMMA DuplicateStep ==
  ASSUME IInv, NEW t \in Threads, NEW b \in Buffers, NEW src \in Buffers, Duplicate(t, b, src)
  PROVE  IInv'
<1> USE DEF Idle, Has, Creating, Destroying, Failures, IInv
<1> DEFINE c == [at |-> "client", new |-> b, src |-> src]
<1>1. /\ call[t].at = "idle"
      /\ src \in held[t]
      /\ call' = [call EXCEPT ![t] = c]
      /\ rc' = [rc EXCEPT ![src] = @ + 1]
      /\ UNCHANGED <<heap, primary, parent, buf, tasks, held, failed>>
  BY DEF Duplicate
<1>2. src \in Objects /\ src # Nobody
  BY CreationAssumption DEF Objects
<1>3. rc[src] \in Nat /\ rc[src] > 0 /\ \A u \in Threads : Destroying(u) => call[u].new # src
  BY <1>1, <1>2, Holding, References
<1>4. TypeOK'
  <2>1. rc' \in [Objects -> Nat]
    BY <1>1, <1>2, CountUp DEF TypeOK
  <2>2. c \in CallRecords
    BY DEF CallRecords, Labels
  <2>3. call' \in [Threads -> CallRecords]
    BY <1>1, <2>2 DEF TypeOK, CallRecords
  <2> QED
    BY <1>1, <2>1, <2>3 DEF TypeOK, CallRecords
<1>5. /\ call'[t] = c
      /\ \A u \in Threads \ {t} : call'[u] = call[u]
      /\ rc'[src] = rc[src] + 1
      /\ \A x \in Objects \ {src} : rc'[x] = rc[x]
  BY <1>1, <1>2 DEF TypeOK
<1>6. ~Has(b, "self") /\ \A u \in Threads : call[u].new # b
  BY DEF Duplicate, Unused, Allocated, Parts
<1>7. rc[b] = 0 /\ b \notin primary /\ parent[b] = Nobody
  BY <1>6 DEF BuffersMatch, BufferMatches
<1>8. HeldBy(b) = {}
  BY <1>7, References DEF Objects
<1>9. \A x : HeldBy(x)' = HeldBy(x) /\ Children(x)' = Children(x)
  BY <1>1 DEF HeldBy, Children
<1>10. call[t].src = Nobody
  BY <1>1 DEF CallsMatch, CallMatches
<1>11. \A x \in Objects \ {src} : Copying(x)' = Copying(x)
  <2> SUFFICES ASSUME NEW x \in Objects \ {src} PROVE Copying(x)' = Copying(x)
    OBVIOUS
  <2>1. x # Nobody
    BY CreationAssumption DEF Objects
  <2> QED
    BY <1>5, <1>10, <2>1 DEF Copying
<1>12. \A x \in Objects : Making(x)' = Making(x)
  BY <1>1, <1>5, <1>6 DEF Making
<1>13. t \notin Copying(src) /\ Copying(src)' = Copying(src) \cup {t}
  BY <1>2, <1>5, <1>10 DEF Copying
<1>14. Cardinality(Copying(src)') = Cardinality(Copying(src)) + 1
  BY <1>13, HolderParts, OneMore, CreationAssumption
<1>15. CountsMatch'
  <2>1. rc[src] = Cardinality(HeldBy(src)) + Cardinality(Children(src)) + Cardinality(Copying(src))
                + Cardinality(Making(src)) + (IF src \in primary THEN 1 ELSE 0)
    BY <1>2 DEF CountsMatch
  <2>2. rc'[src] = Cardinality(HeldBy(src)') + Cardinality(Children(src)') + Cardinality(Copying(src)')
                 + Cardinality(Making(src)') + (IF src \in primary' THEN 1 ELSE 0)
    BY <2>1, <1>1, <1>2, <1>5, <1>9, <1>12, <1>14, HolderCounts
  <2> QED
    BY <2>2, <1>1, <1>2, <1>5, <1>9, <1>11, <1>12, CountsAfter
<1>16. CallsMatch'
  <2>1. \A u \in Threads : Destroying(u) => rc'[call[u].new] = rc[call[u].new]
    BY <1>3, <1>5 DEF CallsMatch, CallMatches, Objects
  <2> QED
    BY <1>1, <1>5, <1>6, <1>7, <1>8, <1>9, <2>1 DEF CallsMatch, CallMatches
<1>17. OneCall'
  BY <1>1, <1>5, <1>6 DEF OneCall
<1>18. BuffersMatch'
  <2>1. \A d \in Buffers : rc'[d] # 0 => Has(d, "self")
    BY <1>3, <1>5 DEF BuffersMatch, BufferMatches, Objects
  <2> QED
    BY <1>1, <1>5, <2>1 DEF BuffersMatch, BufferMatches
<1> QED
  BY <1>4, <1>15, <1>16, <1>17, <1>18
(* The client, and the reference on the parent.                            *)
LEMMA AllocClientStep ==
  ASSUME IInv, NEW t \in Threads, AllocClient(t)
  PROVE  IInv'
<1> USE DEF At, Has, Creating, Destroying, Failures, IInv
<1> SUFFICES ASSUME NEW b, b = call[t].new,
                    NEW par, par = IF call[t].src = Nobody THEN Api ELSE call[t].src
             PROVE  IInv'
  OBVIOUS
<1>1. /\ call[t].at = "client"
      /\ heap' = heap \cup {<<"client", b>>}
      /\ parent' = [parent EXCEPT ![b] = par]
      /\ rc' = [rc EXCEPT ![par] = @ + 1]
      /\ UNCHANGED <<primary, buf, tasks, held, failed>>
  BY DEF AllocClient
<1>2. b \in Buffers /\ b \notin primary /\ HeldBy(b) = {} /\ ~Has(b, "self")
  BY <1>1 DEF CallsMatch, CallMatches
<1>3. par \in Objects /\ par # Nobody
  BY CreationAssumption DEF Objects, TypeOK
<1>4. \A x : Has(x, "self")' <=> Has(x, "self")
  BY <1>1
<1>5. par \in Buffers => rc[par] > 0
  <2> SUFFICES ASSUME par \in Buffers PROVE rc[par] > 0
    OBVIOUS
  <2>1. call[t].src = par
    BY CreationAssumption DEF Objects
  <2> QED
    BY <1>3, <2>1, Holding
<1>6. parent[b] = Nobody
  BY <1>1, <1>2 DEF BuffersMatch, BufferMatches, OneCall
<1>7. /\ call' \in [Threads -> CallRecords]
      /\ call'[t] = [at |-> "self", new |-> b, src |-> call[t].src]
      /\ \A u \in Threads \ {t} : call'[u] = call[u]
  BY GotoCalls DEF AllocClient, Labels
<1>8. /\ rc' \in [Objects -> Nat]
      /\ rc'[par] = rc[par] + 1
      /\ \A y \in Objects \ {par} : rc'[y] = rc[y]
  BY <1>1, <1>3, CountUp DEF TypeOK
<1>9. /\ parent' \in [Buffers -> Objects \cup {Nobody}]
      /\ parent'[b] = par
      /\ \A d \in Buffers \ {b} : parent'[d] = parent[d]
  BY <1>1, <1>2, <1>3 DEF TypeOK
<1>10. heap' \subseteq Parts \X Buffers
  <2>1. <<"client", b>> \in Parts \X Buffers
    BY <1>2 DEF Parts
  <2>2. heap \subseteq Parts \X Buffers
    BY DEF TypeOK
  <2> QED
    BY <1>1, <2>1, <2>2
<1>11. TypeOK'
  BY <1>1, <1>7, <1>8, <1>9, <1>10 DEF TypeOK, CallRecords
<1>12. call[t].new = b
  OBVIOUS
<1>13. \A x : HeldBy(x)' = HeldBy(x) /\ Copying(x)' = Copying(x)
  BY <1>1, <1>7 DEF HeldBy, Copying
<1>14. \A x : Making(x)' = Making(x)
  BY <1>1, <1>2, <1>4, <1>7, <1>12 DEF Making
<1>15. \A x \in Objects \ {par} : Children(x)' = Children(x)
  <2> SUFFICES ASSUME NEW x \in Objects \ {par} PROVE Children(x)' = Children(x)
    OBVIOUS
  <2>1. x # Nobody
    BY CreationAssumption DEF Objects
  <2> QED
    BY <1>6, <1>9, <2>1 DEF Children
<1>16. b \notin Children(par) /\ Children(par)' = Children(par) \cup {b}
  BY <1>2, <1>3, <1>6, <1>9 DEF Children
<1>17. Cardinality(Children(par)') = Cardinality(Children(par)) + 1
  BY <1>16, HolderParts, OneMore, CreationAssumption
<1>18. CountsMatch'
  <2>1. rc[par] = Cardinality(HeldBy(par)) + Cardinality(Children(par)) + Cardinality(Copying(par))
                + Cardinality(Making(par)) + (IF par \in primary THEN 1 ELSE 0)
    BY <1>3 DEF CountsMatch
  <2>2. rc'[par] = Cardinality(HeldBy(par)') + Cardinality(Children(par)') + Cardinality(Copying(par)')
                 + Cardinality(Making(par)') + (IF par \in primary' THEN 1 ELSE 0)
    BY <2>1, <1>1, <1>8, <1>13, <1>14, <1>17, HolderCounts
  <2> QED
    BY <2>2, <1>1, <1>3, <1>8, <1>13, <1>14, <1>15, CountsAfter
<1>19. CallsMatch'
  <2>1. \A u \in Threads : Destroying(u) => rc'[call[u].new] = 0
    BY <1>3, <1>5, <1>8, Holding DEF CallsMatch, CallMatches, Objects
  <2>2. \A u \in Threads : call[u].at = "self" => parent'[call[u].new] # Nobody
    BY <1>3, <1>9 DEF CallsMatch, CallMatches
  <2>3. CallMatches(t)'
    <3>1. call'[t].at = "self" /\ call'[t].new = b /\ parent'[b] # Nobody
      BY <1>3, <1>7, <1>9
    <3>2. HeldBy(b)' = {} /\ b \in Buffers \ primary' /\ ~Has(b, "self")'
      BY <1>1, <1>2, <1>4, <1>13
    <3> QED
      BY <3>1, <3>2 DEF CallMatches
  <2>4. ASSUME NEW u \in Threads \ {t} PROVE CallMatches(u)'
    BY <1>1, <1>4, <1>7, <1>13, <2>1, <2>2 DEF CallsMatch, CallMatches
  <2> QED
    BY <2>3, <2>4 DEF CallsMatch
<1>20. OneCall'
  BY <1>1, <1>7, <1>12 DEF OneCall
<1>21. BuffersMatch'
  <2>1. \A d \in Buffers : rc'[d] # 0 => Has(d, "self")
    BY <1>5, <1>8 DEF BuffersMatch, BufferMatches, Objects
  <2>2. \A d \in Buffers \ {b} :
          /\ parent'[d] = parent[d]
          /\ \A u \in Threads : call[u].at = "self" /\ call[u].new = d
                => call'[u].at = "self" /\ call'[u].new = d
    BY <1>1, <1>7, <1>9
  <2>3. BufferMatches(b)'
    BY <1>1, <1>2, <1>3, <1>4, <1>7, <1>9, <2>1 DEF BuffersMatch, BufferMatches
  <2>4. ASSUME NEW d \in Buffers \ {b} PROVE BufferMatches(d)'
    BY <1>1, <1>4, <2>1, <2>2 DEF BuffersMatch, BufferMatches
  <2> QED
    BY <2>3, <2>4 DEF BuffersMatch
<1> QED
  BY <1>11, <1>18, <1>19, <1>20, <1>21
(* The object, with the reference of its creator.                          *)
LEMMA AllocSelfStep ==
  ASSUME IInv, NEW t \in Threads, AllocSelf(t)
  PROVE  IInv'
<1> USE DEF At, Has, Creating, Destroying, Failures, IInv
<1> SUFFICES ASSUME NEW b, b = call[t].new PROVE IInv'
  OBVIOUS
<1>1. /\ call[t].at = "self"
      /\ heap' = heap \cup {<<"self", b>>}
      /\ rc' = [rc EXCEPT ![b] = 1]
      /\ UNCHANGED <<primary, parent, buf, tasks, held, failed>>
  BY DEF AllocSelf
<1>2. b \in Buffers /\ b \in Objects /\ HeldBy(b) = {} /\ ~Has(b, "self") /\ parent[b] # Nobody
  BY <1>1 DEF CallsMatch, CallMatches, Objects
<1>3. rc[b] = 0
  BY <1>2 DEF BuffersMatch, BufferMatches
<1>4. Children(b) = {} /\ Copying(b) = {} /\ b \notin primary
  BY <1>2, <1>3, References
<1>5. /\ call' \in [Threads -> CallRecords]
      /\ call'[t] = [at |-> "size", new |-> b, src |-> call[t].src]
      /\ \A u \in Threads \ {t} : call'[u] = call[u]
  BY GotoCalls DEF AllocSelf, Labels
<1>6. /\ rc' \in [Objects -> Nat]
      /\ rc'[b] = 1
      /\ \A x \in Objects \ {b} : rc'[x] = rc[x]
  <2>1. rc \in [Objects -> Nat]
    BY DEF TypeOK
  <2> QED
    BY <1>1, <1>2, <2>1
<1>7. /\ Has(b, "self")'
      /\ \A x : x # b => (Has(x, "self")' <=> Has(x, "self"))
  BY <1>1
<1>8. TypeOK'
  <2>1. <<"self", b>> \in Parts \X Buffers
    BY <1>2 DEF Parts
  <2>2. heap' \subseteq Parts \X Buffers
    BY <1>1, <2>1 DEF TypeOK
  <2> QED
    BY <1>1, <1>5, <1>6, <2>2 DEF TypeOK, CallRecords
<1>9. \A u \in Threads \ {t} : Creating(u) => call[u].new # b
  BY <1>1 DEF OneCall
<1>10. \A x : HeldBy(x)' = HeldBy(x) /\ Children(x)' = Children(x) /\ Copying(x)' = Copying(x)
  BY <1>1, <1>5 DEF HeldBy, Children, Copying
<1>11. Making(b)' = {t}
  BY <1>5, <1>7, <1>9 DEF Making
<1>12. \A x \in Objects \ {b} : Making(x)' = Making(x)
  <2> SUFFICES ASSUME NEW x \in Objects \ {b} PROVE Making(x)' = Making(x)
    OBVIOUS
  <2>1. Has(x, "self")' <=> Has(x, "self")
    BY <1>7
  <2>2. call[t].new # x /\ call'[t].new # x
    BY <1>5
  <2> QED
    BY <2>1, <2>2, <1>5 DEF Making
<1>13. CountsMatch'
  <2>1. Cardinality({}) = 0 /\ Cardinality({t}) = 1
    BY FS_EmptySet, FS_Singleton
  <2>2. rc'[b] = Cardinality(HeldBy(b)') + Cardinality(Children(b)') + Cardinality(Copying(b)')
               + Cardinality(Making(b)') + (IF b \in primary' THEN 1 ELSE 0)
    <3>1. HeldBy(b)' = {} /\ Children(b)' = {} /\ Copying(b)' = {} /\ b \notin primary'
      BY <1>1, <1>2, <1>4, <1>10
    <3> QED
      BY <2>1, <3>1, <1>6, <1>11
  <2> QED
    BY <2>2, <1>1, <1>2, <1>6, <1>10, <1>12, CountsAfter
<1>14. CallsMatch'
  <2>1. CallMatches(t)'
    <3>1. HeldBy(b)' = {} /\ b \in Buffers \ primary'
      BY <1>1, <1>2, <1>4, <1>10
    <3> QED
      BY <3>1, <1>5, <1>7 DEF CallMatches
  <2>2. ASSUME NEW u \in Threads \ {t} PROVE CallMatches(u)'
    <3>1. Destroying(u) => call[u].new # b
      BY <1>2 DEF CallsMatch, CallMatches
    <3>2. Destroying(u) => rc'[call[u].new] = 0
      BY <3>1, <1>6 DEF CallsMatch, CallMatches, Objects
    <3>3. Creating(u) \/ Destroying(u) => Has(call[u].new, "self")' <=> Has(call[u].new, "self")
      BY <3>1, <1>5, <1>7, <1>9
    <3> QED
      BY <3>2, <3>3, <1>1, <1>5, <1>10 DEF CallsMatch, CallMatches
  <2> QED
    BY <2>1, <2>2 DEF CallsMatch
<1>15. OneCall'
  BY <1>1, <1>5 DEF OneCall
<1>16. BuffersMatch'
  <2>1. BufferMatches(b)'
    BY <1>1, <1>2, <1>4, <1>7 DEF BufferMatches
  <2>2. ASSUME NEW d \in Buffers \ {b} PROVE BufferMatches(d)'
    <3>1. d \in Objects
      BY DEF Objects
    <3>2. \A u \in Threads : call[u].at = "self" /\ call[u].new = d
            => call'[u].at = "self" /\ call'[u].new = d
      BY <1>5
    <3> QED
      BY <3>1, <3>2, <1>1, <1>6, <1>7 DEF BuffersMatch, BufferMatches
  <2> QED
    BY <2>1, <2>2 DEF BuffersMatch
<1> QED
  BY <1>8, <1>13, <1>14, <1>15, <1>16

(* No object: the parent's reference is given back.                        *)
LEMMA NoSelfStep ==
  ASSUME IInv, NEW t \in Threads, NoSelf(t)
  PROVE  IInv'
<1> USE DEF At, Has, Creating, Destroying, Failures, IInv
<1> SUFFICES ASSUME NEW b, b = call[t].new, NEW par, par = parent[b] PROVE IInv'
  OBVIOUS
<1>1. /\ call[t].at = "self"
      /\ heap' = heap \ {<<"client", b>>}
      /\ rc' = [rc EXCEPT ![par] = @ - 1]
      /\ parent' = [parent EXCEPT ![b] = Nobody]
      /\ UNCHANGED <<primary, buf, tasks, held, failed>>
  BY DEF NoSelf
<1>2. b \in Buffers /\ ~Has(b, "self") /\ par # Nobody
  BY <1>1 DEF CallsMatch, CallMatches
<1>3. par \in Objects
  BY <1>2 DEF TypeOK
<1>4. rc[par] \in Nat /\ rc[par] > 0
  BY <1>2, <1>3, Holding, References
<1>5. /\ call' \in [Threads -> CallRecords]
      /\ call'[t] = [at |-> "return", new |-> b, src |-> call[t].src]
      /\ \A u \in Threads \ {t} : call'[u] = call[u]
  BY GotoCalls DEF NoSelf, Labels
<1>6. /\ rc' \in [Objects -> Nat]
      /\ rc'[par] = rc[par] - 1
      /\ \A x \in Objects \ {par} : rc'[x] = rc[x]
  BY <1>1, <1>3, <1>4, CountDown DEF TypeOK
<1>7. /\ parent' \in [Buffers -> Objects \cup {Nobody}]
      /\ parent'[b] = Nobody
      /\ \A d \in Buffers \ {b} : parent'[d] = parent[d]
  BY <1>1, <1>2 DEF TypeOK
<1>8. \A x : Has(x, "self")' <=> Has(x, "self")
  BY <1>1
<1>9. TypeOK'
  <2>1. heap' \subseteq Parts \X Buffers
    BY <1>1 DEF TypeOK
  <2> QED
    BY <1>1, <1>5, <1>6, <1>7, <2>1 DEF TypeOK, CallRecords
<1>10. \A x : HeldBy(x)' = HeldBy(x) /\ Copying(x)' = Copying(x)
  BY <1>1, <1>5 DEF HeldBy, Copying
<1>11. \A x : Making(x)' = Making(x)
  BY <1>1, <1>2, <1>5, <1>8 DEF Making
<1>12. \A x \in Objects \ {par} : Children(x)' = Children(x)
  <2> SUFFICES ASSUME NEW x \in Objects \ {par} PROVE Children(x)' = Children(x)
    OBVIOUS
  <2>1. x # Nobody
    BY CreationAssumption DEF Objects
  <2> QED
    BY <1>7, <2>1 DEF Children
<1>13. b \in Children(par) /\ Children(par)' = Children(par) \ {b}
  BY <1>2, <1>7 DEF Children
<1>14. Cardinality(Children(par)') = Cardinality(Children(par)) - 1
  BY <1>13, HolderParts, OneLess, CreationAssumption
<1>15. CountsMatch'
  <2>1. rc[par] = Cardinality(HeldBy(par)) + Cardinality(Children(par)) + Cardinality(Copying(par))
                + Cardinality(Making(par)) + (IF par \in primary THEN 1 ELSE 0)
    BY <1>3 DEF CountsMatch
  <2>2. rc'[par] = Cardinality(HeldBy(par)') + Cardinality(Children(par)') + Cardinality(Copying(par)')
                 + Cardinality(Making(par)') + (IF par \in primary' THEN 1 ELSE 0)
    BY <2>1, <1>1, <1>6, <1>10, <1>11, <1>14, HolderCounts
  <2> QED
    BY <2>2, <1>1, <1>3, <1>6, <1>10, <1>11, <1>12, CountsAfter
<1>16. CallsMatch'
  <2>1. CallMatches(t)'
    BY <1>5 DEF CallMatches
  <2>2. ASSUME NEW u \in Threads \ {t} PROVE CallMatches(u)'
    <3>1. Destroying(u) => rc'[call[u].new] = 0
      BY <1>3, <1>4, <1>6, Holding DEF CallsMatch, CallMatches, Objects
    <3>2. call[u].at = "self" => call[u].new # b
      BY <1>1 DEF OneCall
    <3>3. call[u].at = "self" => parent'[call[u].new] # Nobody
      BY <3>2, <1>7 DEF CallsMatch, CallMatches
    <3> QED
      BY <3>1, <3>3, <1>1, <1>5, <1>8, <1>10 DEF CallsMatch, CallMatches
  <2> QED
    BY <2>1, <2>2 DEF CallsMatch
<1>17. OneCall'
  BY <1>1, <1>5 DEF OneCall
<1>18. BuffersMatch'
  <2>1. \A d \in Buffers : rc'[d] # 0 => Has(d, "self")
    BY <1>4, <1>6 DEF BuffersMatch, BufferMatches, Objects
  <2>2. BufferMatches(b)'
    BY <2>1, <1>1, <1>2, <1>7, <1>8 DEF BuffersMatch, BufferMatches
  <2>3. ASSUME NEW d \in Buffers \ {b} PROVE BufferMatches(d)'
    <3>1. \A u \in Threads : call[u].at = "self" /\ call[u].new = d
            => call'[u].at = "self" /\ call'[u].new = d
      BY <1>5
    <3> QED
      BY <2>1, <3>1, <1>1, <1>7, <1>8 DEF BuffersMatch, BufferMatches
  <2> QED
    BY <2>2, <2>3 DEF BuffersMatch
<1> QED
  BY <1>9, <1>15, <1>16, <1>17, <1>18
(* The reference of the creator becomes the application's.                 *)
LEMMA CommitStep ==
  ASSUME IInv, NEW t \in Threads, Commit(t)
  PROVE  IInv'
<1> USE DEF At, Has, Creating, Destroying, Failures, IInv
<1> SUFFICES ASSUME NEW b, b = call[t].new PROVE IInv'
  OBVIOUS
<1>1. /\ call[t].at = "command"
      /\ held' = [held EXCEPT ![t] = @ \cup {b}]
      /\ UNCHANGED <<heap, primary, rc, parent, buf, tasks, failed>>
  BY DEF Commit
<1>2. b \in Buffers /\ b \in Objects /\ HeldBy(b) = {} /\ Has(b, "self")
  BY <1>1 DEF CallsMatch, CallMatches, Objects
<1>3. /\ call' \in [Threads -> CallRecords]
      /\ call'[t] = [at |-> "return", new |-> b, src |-> call[t].src]
      /\ \A u \in Threads \ {t} : call'[u] = call[u]
  BY GotoCalls DEF Commit, Labels
<1>4. /\ held' \in [Threads -> SUBSET Objects]
      /\ held'[t] = held[t] \cup {b}
      /\ \A u \in Threads \ {t} : held'[u] = held[u]
  BY <1>1, <1>2 DEF TypeOK
<1>5. TypeOK'
  BY <1>1, <1>3, <1>4 DEF TypeOK, CallRecords
<1>6. \A u \in Threads \ {t} : Creating(u) => call[u].new # b
  BY <1>1 DEF OneCall
<1>7. \A x : Children(x)' = Children(x) /\ Copying(x)' = Copying(x)
  BY <1>1, <1>3 DEF Children, Copying
<1>8. \A x : x # b => HeldBy(x)' = HeldBy(x)
  BY <1>4 DEF HeldBy
<1>9. HeldBy(b)' = {t} /\ Making(b) = {t} /\ Making(b)' = {}
  <2>1. HeldBy(b)' = {t}
    BY <1>2, <1>4 DEF HeldBy
  <2>2. Making(b) = {t}
    BY <1>1, <1>2, <1>6 DEF Making
  <2>3. Making(b)' = {}
    BY <1>3, <1>6 DEF Making
  <2> QED
    BY <2>1, <2>2, <2>3
<1>10. \A x \in Objects \ {b} : Making(x)' = Making(x)
  BY <1>1, <1>3 DEF Making
<1>11. CountsMatch'
  <2>1. rc[b] = Cardinality(HeldBy(b)) + Cardinality(Children(b)) + Cardinality(Copying(b))
              + Cardinality(Making(b)) + (IF b \in primary THEN 1 ELSE 0)
    BY <1>2 DEF CountsMatch
  <2>2. Cardinality(HeldBy(b)) = Cardinality(Making(b)')
    BY <1>2, <1>9
  <2>3. Cardinality(HeldBy(b)') = Cardinality(Making(b))
    BY <1>9
  <2>4. rc'[b] = Cardinality(HeldBy(b)') + Cardinality(Children(b)') + Cardinality(Copying(b)')
               + Cardinality(Making(b)') + (IF b \in primary' THEN 1 ELSE 0)
    BY <2>1, <2>2, <2>3, <1>1, <1>7, HolderCounts
  <2> QED
    BY <2>4, <1>1, <1>2, <1>7, <1>8, <1>10, CountsAfter
<1>12. CallsMatch'
  <2>1. CallMatches(t)'
    BY <1>3 DEF CallMatches
  <2>2. ASSUME NEW u \in Threads \ {t} PROVE CallMatches(u)'
    <3>1. Creating(u) => HeldBy(call[u].new)' = {}
      <4> SUFFICES ASSUME Creating(u), NEW d, d = call[u].new PROVE HeldBy(d)' = {}
        BY <1>3
      <4> QED
        BY <1>6, <1>8 DEF CallsMatch, CallMatches
    <3> QED
      BY <3>1, <1>1, <1>3 DEF CallsMatch, CallMatches
  <2> QED
    BY <2>1, <2>2 DEF CallsMatch
<1>13. OneCall'
  BY <1>1, <1>3 DEF OneCall
<1>14. BuffersMatch'
  BY <1>1, <1>3 DEF BuffersMatch, BufferMatches
<1> QED
  BY <1>5, <1>11, <1>12, <1>13, <1>14

(* The source is released.                                                 *)
LEMMA ReturnStep ==
  ASSUME IInv, NEW t \in Threads, Return(t)
  PROVE  IInv'
<1> USE DEF At, Has, Creating, Destroying, Failures, IInv, NoCall
<1> SUFFICES ASSUME NEW src, src = call[t].src PROVE IInv'
  OBVIOUS
<1>1. /\ call[t].at = "return"
      /\ rc' = [x \in Objects |-> IF x = src THEN rc[x] - 1 ELSE rc[x]]
      /\ call' = [call EXCEPT ![t] = NoCall]
      /\ UNCHANGED <<heap, primary, parent, buf, tasks, held, failed>>
  BY DEF Return
<1>2. src \in Objects => rc[src] \in Nat /\ rc[src] > 0
  BY Holding, References
<1>3. rc' \in [Objects -> Nat]
  <2>1. \A x \in Objects : rc[x] \in Nat
    BY References
  <2>2. \A x \in Objects : (IF x = src THEN rc[x] - 1 ELSE rc[x]) \in Nat
    BY <1>2, <2>1
  <2> QED
    BY <1>1, <2>2
<1>4. TypeOK'
  BY <1>1, <1>3 DEF TypeOK, Labels
<1>5. /\ call'[t] = NoCall
      /\ \A u \in Threads \ {t} : call'[u] = call[u]
  BY <1>1 DEF TypeOK
<1>6. \A x : HeldBy(x)' = HeldBy(x) /\ Children(x)' = Children(x)
  BY <1>1 DEF HeldBy, Children
<1>7. \A x \in Objects : x # Nobody
  BY CreationAssumption DEF Objects
<1>8. \A x \in Objects : Making(x)' = Making(x)
  BY <1>1, <1>5 DEF Making
<1>9. \A x \in Objects \ {src} : Copying(x)' = Copying(x)
  BY <1>5, <1>7 DEF Copying
<1>10. CountsMatch'
  <2>1. CASE src \in Objects
    <3>1. t \in Copying(src) /\ Copying(src)' = Copying(src) \ {t}
      BY <1>5, <1>7, <2>1 DEF Copying
    <3>2. Cardinality(Copying(src)') = Cardinality(Copying(src)) - 1
      BY <3>1, HolderParts, OneLess, CreationAssumption
    <3>3. rc[src] = Cardinality(HeldBy(src)) + Cardinality(Children(src)) + Cardinality(Copying(src))
                  + Cardinality(Making(src)) + (IF src \in primary THEN 1 ELSE 0)
      BY <2>1 DEF CountsMatch
    <3>4. rc'[src] = rc[src] - 1 /\ \A x \in Objects \ {src} : rc'[x] = rc[x]
      BY <1>1, <2>1
    <3>5. rc'[src] = Cardinality(HeldBy(src)') + Cardinality(Children(src)') + Cardinality(Copying(src)')
                   + Cardinality(Making(src)') + (IF src \in primary' THEN 1 ELSE 0)
      BY <2>1, <3>2, <3>3, <3>4, <1>1, <1>6, <1>8, HolderCounts
    <3> QED
      BY <2>1, <3>4, <3>5, <1>1, <1>6, <1>8, <1>9, CountsAfter
  <2>2. CASE src \notin Objects
    <3>1. rc' = rc
      BY <1>1, <2>2 DEF TypeOK
    <3> QED
      BY <2>2, <3>1, <1>1, <1>8, <1>9, SameCounts
  <2> QED
    BY <2>1, <2>2
<1>11. CallsMatch'
  <2>1. CallMatches(t)'
    BY <1>5 DEF CallMatches
  <2>2. ASSUME NEW u \in Threads \ {t} PROVE CallMatches(u)'
    <3>1. Destroying(u) => rc'[call[u].new] = 0
      BY <1>1, <1>2, Holding DEF CallsMatch, CallMatches, Objects
    <3> QED
      BY <3>1, <1>1, <1>5, <1>6 DEF CallsMatch, CallMatches
  <2> QED
    BY <2>1, <2>2 DEF CallsMatch
<1>12. OneCall'
  BY <1>5 DEF OneCall
<1>13. BuffersMatch'
  <2>1. \A d \in Buffers : rc'[d] # 0 => Has(d, "self")
    BY <1>1, <1>2 DEF BuffersMatch, BufferMatches, Objects
  <2> QED
    BY <2>1, <1>1, <1>5 DEF BuffersMatch, BufferMatches
<1> QED
  BY <1>4, <1>10, <1>11, <1>12, <1>13
(* A primary buffer, with the reference nobody holds.                      *)
LEMMA CreatePrimaryStep ==
  ASSUME IInv, NEW t \in Threads, NEW b \in Buffers, CreatePrimary(t, b)
  PROVE  IInv'
<1> USE DEF Idle, Has, Creating, Destroying, Failures, IInv
<1>1. /\ heap' = heap \cup {<<"self", b>>}
      /\ primary' = primary \cup {b}
      /\ rc' = [rc EXCEPT ![b] = 2]
      /\ held' = [held EXCEPT ![t] = @ \cup {b}]
      /\ UNCHANGED <<parent, buf, tasks, call, failed>>
  BY DEF CreatePrimary
<1>2. b \in Objects /\ ~Has(b, "self") /\ \A u \in Threads : call[u].new # b
  BY DEF CreatePrimary, Unused, Allocated, Parts, Objects
<1>3. rc[b] = 0 /\ b \notin primary /\ parent[b] = Nobody
  BY <1>2 DEF BuffersMatch, BufferMatches
<1>4. HeldBy(b) = {} /\ Children(b) = {} /\ Copying(b) = {} /\ Making(b) = {}
  BY <1>2, <1>3, References
<1>5. /\ rc' \in [Objects -> Nat]
      /\ rc'[b] = 2
      /\ \A x \in Objects \ {b} : rc'[x] = rc[x]
  <2>1. rc \in [Objects -> Nat]
    BY DEF TypeOK
  <2> QED
    BY <1>1, <1>2, <2>1
<1>6. /\ held' \in [Threads -> SUBSET Objects]
      /\ held'[t] = held[t] \cup {b}
      /\ \A u \in Threads \ {t} : held'[u] = held[u]
  BY <1>1, <1>2 DEF TypeOK
<1>7. /\ Has(b, "self")'
      /\ \A x : x # b => (Has(x, "self")' <=> Has(x, "self"))
  BY <1>1
<1>8. TypeOK'
  <2>1. <<"self", b>> \in Parts \X Buffers
    BY DEF Parts
  <2>2. heap' \subseteq Parts \X Buffers
    BY <1>1, <2>1 DEF TypeOK
  <2> QED
    BY <1>1, <1>5, <1>6, <2>2 DEF TypeOK
<1>9. \A x : Children(x)' = Children(x) /\ Copying(x)' = Copying(x)
  BY <1>1 DEF Children, Copying
<1>10. \A x : x # b => HeldBy(x)' = HeldBy(x)
  BY <1>6 DEF HeldBy
<1>11. HeldBy(b)' = {t}
  BY <1>4, <1>6 DEF HeldBy
<1>12. \A x : Making(x)' = Making(x)
  BY <1>1, <1>2, <1>7 DEF Making
<1>13. CountsMatch'
  <2>1. Cardinality({}) = 0 /\ Cardinality({t}) = 1
    BY FS_EmptySet, FS_Singleton
  <2>2. Children(b)' = {} /\ Copying(b)' = {} /\ Making(b)' = {} /\ b \in primary'
    BY <1>1, <1>4, <1>9, <1>12
  <2>3. rc'[b] = Cardinality(HeldBy(b)') + Cardinality(Children(b)') + Cardinality(Copying(b)')
               + Cardinality(Making(b)') + (IF b \in primary' THEN 1 ELSE 0)
    BY <2>1, <2>2, <1>5, <1>11
  <2> QED
    BY <2>3, <1>1, <1>2, <1>5, <1>9, <1>10, <1>12, CountsAfter
<1>14. CallsMatch'
  <2> SUFFICES ASSUME NEW u \in Threads PROVE CallMatches(u)'
    BY DEF CallsMatch
  <2>1. Destroying(u) => rc'[call[u].new] = 0
    BY <1>2, <1>5 DEF CallsMatch, CallMatches, Objects
  <2>2. Creating(u) => HeldBy(call[u].new)' = {}
    <3> SUFFICES ASSUME Creating(u), NEW d, d = call[u].new PROVE HeldBy(d)' = {}
      BY <1>1
    <3> QED
      BY <1>2, <1>10 DEF CallsMatch, CallMatches
  <2> QED
    BY <2>1, <2>2, <1>1, <1>2, <1>7 DEF CallsMatch, CallMatches
<1>15. OneCall'
  BY <1>1 DEF OneCall
<1>16. BuffersMatch'
  <2>1. BufferMatches(b)'
    BY <1>1, <1>3, <1>7 DEF BufferMatches
  <2>2. ASSUME NEW d \in Buffers \ {b} PROVE BufferMatches(d)'
    <3>1. d \in Objects
      BY DEF Objects
    <3> QED
      BY <3>1, <1>1, <1>5, <1>7 DEF BuffersMatch, BufferMatches
  <2> QED
    BY <2>1, <2>2 DEF BuffersMatch
<1> QED
  BY <1>8, <1>13, <1>14, <1>15, <1>16

(* A reference for another thread.                                         *)
LEMMA AddRefStep ==
  ASSUME IInv, NEW t \in Threads, NEW x \in Objects, NEW u \in Threads, AddRef(t, x, u)
  PROVE  IInv'
<1> USE DEF Idle, Has, Creating, Destroying, Failures, IInv
<1>1. /\ x \in held[t]
      /\ x \notin held[u]
      /\ rc' = [rc EXCEPT ![x] = @ + 1]
      /\ held' = [held EXCEPT ![u] = @ \cup {x}]
      /\ UNCHANGED <<heap, primary, parent, buf, tasks, call, failed>>
  BY DEF AddRef
<1>2. rc[x] \in Nat /\ rc[x] > 0
  BY <1>1, Holding, References
<1>3. /\ rc' \in [Objects -> Nat]
      /\ rc'[x] = rc[x] + 1
      /\ \A y \in Objects \ {x} : rc'[y] = rc[y]
  BY <1>1, CountUp DEF TypeOK
<1>4. /\ held' \in [Threads -> SUBSET Objects]
      /\ held'[u] = held[u] \cup {x}
      /\ \A v \in Threads \ {u} : held'[v] = held[v]
  BY <1>1 DEF TypeOK
<1>5. TypeOK'
  BY <1>1, <1>3, <1>4 DEF TypeOK
<1>6. \A y : Children(y)' = Children(y) /\ Copying(y)' = Copying(y) /\ Making(y)' = Making(y)
  BY <1>1 DEF Children, Copying, Making
<1>7. \A y : y # x => HeldBy(y)' = HeldBy(y)
  BY <1>4 DEF HeldBy
<1>8. u \notin HeldBy(x) /\ HeldBy(x)' = HeldBy(x) \cup {u}
  BY <1>1, <1>4 DEF HeldBy
<1>9. Cardinality(HeldBy(x)') = Cardinality(HeldBy(x)) + 1
  BY <1>8, HolderParts, OneMore, CreationAssumption
<1>10. CountsMatch'
  <2>1. rc[x] = Cardinality(HeldBy(x)) + Cardinality(Children(x)) + Cardinality(Copying(x))
              + Cardinality(Making(x)) + (IF x \in primary THEN 1 ELSE 0)
    BY DEF CountsMatch
  <2>2. rc'[x] = Cardinality(HeldBy(x)') + Cardinality(Children(x)') + Cardinality(Copying(x)')
               + Cardinality(Making(x)') + (IF x \in primary' THEN 1 ELSE 0)
    BY <2>1, <1>1, <1>3, <1>6, <1>9, HolderCounts
  <2> QED
    BY <2>2, <1>1, <1>3, <1>6, <1>7, CountsAfter
<1>11. CallsMatch'
  <2> SUFFICES ASSUME NEW v \in Threads PROVE CallMatches(v)'
    BY DEF CallsMatch
  <2>1. Destroying(v) => rc'[call[v].new] = 0
    BY <1>2, <1>3, Holding DEF CallsMatch, CallMatches, Objects
  <2>2. Creating(v) => HeldBy(call[v].new)' = {}
    <3> SUFFICES ASSUME Creating(v), NEW d, d = call[v].new PROVE HeldBy(d)' = {}
      BY <1>1
    <3>1. HeldBy(d) = {}
      BY DEF CallsMatch, CallMatches
    <3>2. d # x
      BY <3>1, <1>1 DEF HeldBy
    <3> QED
      BY <3>1, <3>2, <1>7
  <2> QED
    BY <2>1, <2>2, <1>1 DEF CallsMatch, CallMatches
<1>12. OneCall'
  BY <1>1 DEF OneCall
<1>13. BuffersMatch'
  <2>1. \A d \in Buffers : rc'[d] # 0 => Has(d, "self")
    BY <1>2, <1>3 DEF BuffersMatch, BufferMatches, Objects
  <2> QED
    BY <2>1, <1>1 DEF BuffersMatch, BufferMatches
<1> QED
  BY <1>5, <1>10, <1>11, <1>12, <1>13
(* After a release its thread is done, shuts down, or destroys the object. *)
LEMMA ContinueCall ==
  ASSUME TypeOK, NEW t \in Threads, NEW x \in Objects, rc[x] \in Nat, Continue(t, x)
  PROVE  /\ call' \in [Threads -> CallRecords]
         /\ \A u \in Threads \ {t} : call'[u] = call[u]
         /\ call'[t].src = Nobody
         /\ \/ call'[t].at \in {"idle", "shutdown"} /\ call'[t].new = Nobody
            \/ /\ call'[t].at = "destroy"
               /\ call'[t].new = x
               /\ x \in Buffers \ primary
               /\ rc[x] <= 1
<1> DEFINE c == IF rc[x] > 1 \/ x \in primary THEN NoCall
           ELSE IF x = Api THEN [NoCall EXCEPT !.at = "shutdown"]
           ELSE [NoCall EXCEPT !.at = "destroy", !.new = x]
<1>1. call' = [call EXCEPT ![t] = c]
  BY DEF Continue
<1>2. \/ c = [at |-> "idle", new |-> Nobody, src |-> Nobody]
      \/ c = [at |-> "shutdown", new |-> Nobody, src |-> Nobody]
      \/ /\ c = [at |-> "destroy", new |-> x, src |-> Nobody]
         /\ x \in Buffers \ primary
         /\ rc[x] <= 1
  <2>1. CASE rc[x] > 1 \/ x \in primary
    BY <2>1 DEF NoCall
  <2>2. CASE ~(rc[x] > 1 \/ x \in primary) /\ x = Api
    BY <2>2 DEF NoCall
  <2>3. CASE ~(rc[x] > 1 \/ x \in primary) /\ x # Api
    <3>1. x \in Buffers \ primary /\ rc[x] <= 1
      BY <2>3 DEF Objects
    <3>2. c = [NoCall EXCEPT !.at = "destroy", !.new = x]
      BY <2>3
    <3> QED
      BY <3>1, <3>2 DEF NoCall
  <2> QED
    BY <2>1, <2>2, <2>3
<1> HIDE DEF c
<1>3. c \in CallRecords
  BY <1>2 DEF CallRecords, Labels
<1>4. call \in [Threads -> CallRecords]
  BY DEF TypeOK, CallRecords
<1>5. /\ call' \in [Threads -> CallRecords]
      /\ call'[t] = c
      /\ \A u \in Threads \ {t} : call'[u] = call[u]
  BY <1>1, <1>3, <1>4
<1> QED
  BY <1>2, <1>5

(* A reference given back, the last one or not.                            *)
LEMMA ReleaseStep ==
  ASSUME IInv, NEW t \in Threads, NEW x \in Objects, Release(t, x)
  PROVE  IInv'
<1> USE DEF Idle, Has, Creating, Destroying, Failures, IInv
<1>1. /\ call[t].at = "idle"
      /\ x \in held[t]
      /\ held' = [held EXCEPT ![t] = @ \ {x}]
      /\ rc' = [rc EXCEPT ![x] = @ - 1]
      /\ UNCHANGED <<parent, buf, tasks, failed>>
  BY DEF Release
<1>2. rc[x] \in Nat /\ rc[x] > 0 /\ (x \in primary => rc[x] > 1)
  BY <1>1, Holding, References
<1>3. UNCHANGED <<heap, primary>>
  BY <1>2 DEF Release
<1>4. /\ call' \in [Threads -> CallRecords]
      /\ \A u \in Threads \ {t} : call'[u] = call[u]
      /\ call'[t].src = Nobody
      /\ \/ call'[t].at \in {"idle", "shutdown"} /\ call'[t].new = Nobody
         \/ /\ call'[t].at = "destroy"
            /\ call'[t].new = x
            /\ x \in Buffers \ primary
            /\ rc[x] <= 1
  BY <1>2, ContinueCall DEF Release
<1>5. /\ rc' \in [Objects -> Nat]
      /\ rc'[x] = rc[x] - 1
      /\ \A y \in Objects \ {x} : rc'[y] = rc[y]
  BY <1>1, <1>2, CountDown DEF TypeOK
<1>6. /\ held' \in [Threads -> SUBSET Objects]
      /\ held'[t] = held[t] \ {x}
      /\ \A u \in Threads \ {t} : held'[u] = held[u]
  BY <1>1 DEF TypeOK
<1>7. TypeOK'
  BY <1>1, <1>3, <1>4, <1>5, <1>6 DEF TypeOK, CallRecords
<1>8. call[t].src = Nobody /\ call[t].new = Nobody
  BY <1>1 DEF CallsMatch, CallMatches
<1>9. \A y : Children(y)' = Children(y)
  BY <1>1 DEF Children
<1>10. \A y : Copying(y)' = Copying(y) /\ Making(y)' = Making(y)
  <2> SUFFICES ASSUME NEW y PROVE Copying(y)' = Copying(y) /\ Making(y)' = Making(y)
    OBVIOUS
  <2>1. Copying(y)' = Copying(y)
    BY <1>4, <1>8 DEF Copying
  <2>2. ~Creating(t) /\ ~Creating(t)'
    BY <1>1, <1>4
  <2>3. Making(y)' = Making(y)
    BY <1>3, <1>4, <2>2 DEF Making
  <2> QED
    BY <2>1, <2>3
<1>11. \A y : y # x => HeldBy(y)' = HeldBy(y)
  BY <1>6 DEF HeldBy
<1>12. t \in HeldBy(x) /\ HeldBy(x)' = HeldBy(x) \ {t}
  BY <1>1, <1>6 DEF HeldBy
<1>13. Cardinality(HeldBy(x)') = Cardinality(HeldBy(x)) - 1
  BY <1>12, HolderParts, OneLess, CreationAssumption
<1>14. CountsMatch'
  <2>1. rc[x] = Cardinality(HeldBy(x)) + Cardinality(Children(x)) + Cardinality(Copying(x))
              + Cardinality(Making(x)) + (IF x \in primary THEN 1 ELSE 0)
    BY DEF CountsMatch
  <2>2. rc'[x] = Cardinality(HeldBy(x)') + Cardinality(Children(x)') + Cardinality(Copying(x)')
               + Cardinality(Making(x)') + (IF x \in primary' THEN 1 ELSE 0)
    BY <2>1, <1>3, <1>5, <1>9, <1>10, <1>13, HolderCounts
  <2> QED
    BY <2>2, <1>3, <1>5, <1>9, <1>10, <1>11, CountsAfter
<1>15. CallsMatch'
  <2>1. CallMatches(t)'
    <3>1. x \in Buffers => Has(x, "self")'
      BY <1>2, <1>3 DEF BuffersMatch, BufferMatches
    <3>2. rc[x] <= 1 => rc'[x] = 0
      BY <1>2, <1>5
    <3> QED
      BY <3>1, <3>2, <1>3, <1>4 DEF CallMatches
  <2>2. ASSUME NEW v \in Threads \ {t} PROVE CallMatches(v)'
    <3>1. Destroying(v) => rc'[call[v].new] = 0
      BY <1>2, <1>5, Holding DEF CallsMatch, CallMatches, Objects
    <3>2. Creating(v) => HeldBy(call[v].new)' = {}
      <4> SUFFICES ASSUME Creating(v), NEW d, d = call[v].new PROVE HeldBy(d)' = {}
        BY <1>4
      <4> QED
        BY <1>11, <1>12 DEF CallsMatch, CallMatches
    <3> QED
      BY <3>1, <3>2, <1>1, <1>3, <1>4 DEF CallsMatch, CallMatches
  <2> QED
    BY <2>1, <2>2 DEF CallsMatch
<1>16. OneCall'
  <2>1. \A v \in Threads : Destroying(v) => call[v].new # x
    BY <1>2, Holding
  <2> QED
    BY <2>1, <1>4 DEF OneCall
<1>17. BuffersMatch'
  <2>1. \A d \in Buffers : rc'[d] # 0 => Has(d, "self")
    BY <1>2, <1>5 DEF BuffersMatch, BufferMatches, Objects
  <2>2. ASSUME NEW d \in Buffers PROVE BufferMatches(d)'
    <3>1. \A u \in Threads : call[u].at = "self" /\ call[u].new = d
            => call'[u].at = "self" /\ call'[u].new = d
      BY <1>1, <1>4
    <3> QED
      BY <2>1, <3>1, <1>1, <1>3 DEF BuffersMatch, BufferMatches
  <2> QED
    BY <2>2 DEF BuffersMatch
<1> QED
  BY <1>7, <1>14, <1>15, <1>16, <1>17

(* The parent notified, which may be its last reference.                   *)
LEMMA NotifyStep ==
  ASSUME IInv, NEW t \in Threads, Notify(t)
  PROVE  IInv'
<1> USE DEF At, Has, Creating, Destroying, Failures, IInv
<1> SUFFICES ASSUME NEW b, b = call[t].new, NEW par, par = parent[b] PROVE IInv'
  OBVIOUS
<1>1. /\ call[t].at = "notify"
      /\ heap' = heap \ {<<"self", b>>}
      /\ rc' = [rc EXCEPT ![par] = @ - 1]
      /\ parent' = [parent EXCEPT ![b] = Nobody]
      /\ UNCHANGED <<primary, buf, tasks, held, failed>>
  BY DEF Notify
<1>2. /\ b \in Buffers \ primary /\ Has(b, "self") /\ rc[b] = 0
      /\ call[t].src = Nobody
  BY <1>1 DEF CallsMatch, CallMatches
<1>3. b \in Objects /\ par # Nobody /\ par \in Objects
  BY <1>2 DEF BuffersMatch, BufferMatches, TypeOK, Objects
<1>4. rc[par] \in Nat /\ rc[par] > 0
  BY <1>2, <1>3, Holding, References
<1>5. par # b
  BY <1>2, <1>4
<1>6. HeldBy(b) = {} /\ Children(b) = {} /\ Copying(b) = {} /\ Making(b) = {}
  BY <1>2, <1>3, References
<1>7. \A u \in Threads : Creating(u) => call[u].new # b
  <2> SUFFICES ASSUME NEW u \in Threads, Creating(u), call[u].new = b PROVE FALSE
    OBVIOUS
  <2>1. u \in Making(b)
    BY <1>2 DEF Making
  <2> QED
    BY <2>1, <1>6
<1>8. /\ call' \in [Threads -> CallRecords]
      /\ \A u \in Threads \ {t} : call'[u] = call[u]
      /\ call'[t].src = Nobody
      /\ \/ call'[t].at \in {"idle", "shutdown"} /\ call'[t].new = Nobody
         \/ /\ call'[t].at = "destroy"
            /\ call'[t].new = par
            /\ par \in Buffers \ primary
            /\ rc[par] <= 1
  <2>1. Continue(t, par)
    BY DEF Notify
  <2> QED
    BY <1>3, <1>4, <2>1, ContinueCall
<1>9. /\ rc' \in [Objects -> Nat]
      /\ rc'[par] = rc[par] - 1
      /\ \A x \in Objects \ {par} : rc'[x] = rc[x]
  BY <1>1, <1>3, <1>4, CountDown DEF TypeOK
<1>10. /\ parent' \in [Buffers -> Objects \cup {Nobody}]
       /\ parent'[b] = Nobody
       /\ \A d \in Buffers \ {b} : parent'[d] = parent[d]
  BY <1>1, <1>2 DEF TypeOK
<1>11. \A x : x # b => (Has(x, "self")' <=> Has(x, "self"))
  BY <1>1
<1>12. TypeOK'
  <2>1. heap' \subseteq Parts \X Buffers
    BY <1>1 DEF TypeOK
  <2> QED
    BY <1>1, <1>8, <1>9, <1>10, <2>1 DEF TypeOK, CallRecords
<1>13. \A x : HeldBy(x)' = HeldBy(x) /\ Copying(x)' = Copying(x)
  <2> SUFFICES ASSUME NEW x PROVE HeldBy(x)' = HeldBy(x) /\ Copying(x)' = Copying(x)
    OBVIOUS
  <2>1. HeldBy(x)' = HeldBy(x)
    BY <1>1 DEF HeldBy
  <2>2. Copying(x)' = Copying(x)
    BY <1>2, <1>8 DEF Copying
  <2> QED
    BY <2>1, <2>2
<1>14. \A x : Making(x)' = Making(x)
  <2> SUFFICES ASSUME NEW x PROVE Making(x)' = Making(x)
    OBVIOUS
  <2>1. ~Creating(t) /\ ~Creating(t)'
    BY <1>1, <1>8
  <2>2. CASE x = b
    BY <1>7, <1>8, <2>1, <2>2 DEF Making
  <2>3. CASE x # b
    BY <1>8, <1>11, <2>1, <2>3 DEF Making
  <2> QED
    BY <2>2, <2>3
<1>15. \A x \in Objects \ {par} : Children(x)' = Children(x)
  <2> SUFFICES ASSUME NEW x \in Objects \ {par} PROVE Children(x)' = Children(x)
    OBVIOUS
  <2>1. x # Nobody
    BY CreationAssumption DEF Objects
  <2> QED
    BY <1>10, <2>1 DEF Children
<1>16. b \in Children(par) /\ Children(par)' = Children(par) \ {b}
  BY <1>2, <1>3, <1>10 DEF Children
<1>17. Cardinality(Children(par)') = Cardinality(Children(par)) - 1
  BY <1>16, HolderParts, OneLess, CreationAssumption
<1>18. CountsMatch'
  <2>1. rc[par] = Cardinality(HeldBy(par)) + Cardinality(Children(par)) + Cardinality(Copying(par))
                + Cardinality(Making(par)) + (IF par \in primary THEN 1 ELSE 0)
    BY <1>3 DEF CountsMatch
  <2>2. rc'[par] = Cardinality(HeldBy(par)') + Cardinality(Children(par)') + Cardinality(Copying(par)')
                 + Cardinality(Making(par)') + (IF par \in primary' THEN 1 ELSE 0)
    BY <2>1, <1>1, <1>9, <1>13, <1>14, <1>17, HolderCounts
  <2> QED
    BY <2>2, <1>1, <1>3, <1>9, <1>13, <1>14, <1>15, CountsAfter
<1>19. CallsMatch'
  <2>1. CallMatches(t)'
    <3>1. par \in Buffers => Has(par, "self")'
      BY <1>4, <1>5, <1>11 DEF BuffersMatch, BufferMatches
    <3>2. rc[par] <= 1 => rc'[par] = 0
      BY <1>4, <1>9
    <3> QED
      BY <3>1, <3>2, <1>1, <1>8 DEF CallMatches
  <2>2. ASSUME NEW u \in Threads \ {t} PROVE CallMatches(u)'
    <3>1. Destroying(u) => rc'[call[u].new] = 0
      BY <1>3, <1>4, <1>9, Holding DEF CallsMatch, CallMatches, Objects
    <3>2. Creating(u) \/ Destroying(u) => call[u].new # b
      BY <1>1, <1>7 DEF OneCall
    <3>3. call[u].at = "self" => parent'[call[u].new] # Nobody
      BY <3>2, <1>10 DEF CallsMatch, CallMatches
    <3>4. Creating(u) \/ Destroying(u) => (Has(call[u].new, "self")' <=> Has(call[u].new, "self"))
      BY <3>2, <1>8, <1>11
    <3>5. call'[u] = call[u]
      BY <1>8
    <3>6. \A x : HeldBy(x)' = HeldBy(x)
      BY <1>13
    <3> QED
      BY <3>1, <3>3, <3>4, <3>5, <3>6, <1>1 DEF CallsMatch, CallMatches
  <2> QED
    BY <2>1, <2>2 DEF CallsMatch
<1>20. OneCall'
  <2>1. \A u \in Threads : Destroying(u) => call[u].new # par
    BY <1>3, <1>4, Holding
  <2> QED
    BY <2>1, <1>8 DEF OneCall
<1>21. BuffersMatch'
  <2>1. \A d \in Buffers \ {b} : rc'[d] # 0 => Has(d, "self")
    BY <1>4, <1>9 DEF BuffersMatch, BufferMatches, Objects
  <2>2. BufferMatches(b)'
    <3>1. rc'[b] = 0
      BY <1>2, <1>3, <1>5, <1>9
    <3>2. ~Has(b, "self")'
      BY <1>1
    <3> QED
      BY <3>1, <3>2, <1>1, <1>2, <1>10 DEF BufferMatches
  <2>3. ASSUME NEW d \in Buffers \ {b} PROVE BufferMatches(d)'
    <3>1. \A u \in Threads : call[u].at = "self" /\ call[u].new = d
            => call'[u].at = "self" /\ call'[u].new = d
      BY <1>1, <1>8
    <3> QED
      BY <2>1, <3>1, <1>1, <1>10, <1>11 DEF BuffersMatch, BufferMatches
  <2> QED
    BY <2>2, <2>3 DEF BuffersMatch
<1> QED
  BY <1>12, <1>18, <1>19, <1>20, <1>21

-----------------------------------------------------------------------------
(* The invariant of the whole                                              *)

(* Every step of the application's threads.                                *)
LEMMA CallsStep ==
  ASSUME IInv, Calls
  PROVE  IInv'
<1>1. PICK t \in Threads :
        \/ \E b \in Buffers : Create(t, b)
        \/ \E b, src \in Buffers : Duplicate(t, b, src)
        \/ \E b \in Buffers : CreatePrimary(t, b)
        \/ AllocClient(t)
        \/ NoClient(t)
        \/ AllocSelf(t)
        \/ NoSelf(t)
        \/ Size(t)
        \/ AllocPart(t, "samples", "stream")
        \/ AllocPart(t, "stream", "task")
        \/ AllocPart(t, "task", "command")
        \/ \E what \in Failures : Unwind(t, what)
        \/ Commit(t)
        \/ Return(t)
        \/ \E x \in Objects, u \in Threads : AddRef(t, x, u)
        \/ \E x \in Objects : Release(t, x)
        \/ Destroy(t)
        \/ Notify(t)
  BY DEF Calls
<1>2. CASE \E b \in Buffers : Create(t, b)
  BY <1>2, CreateStep
<1>3. CASE \E b, src \in Buffers : Duplicate(t, b, src)
  BY <1>3, DuplicateStep
<1>4. CASE \E b \in Buffers : CreatePrimary(t, b)
  BY <1>4, CreatePrimaryStep
<1>5. CASE AllocClient(t) \/ NoClient(t) \/ AllocSelf(t) \/ NoSelf(t)
  BY <1>5, AllocClientStep, NoClientStep, AllocSelfStep, NoSelfStep
<1>6. CASE \/ Size(t)
           \/ AllocPart(t, "samples", "stream")
           \/ AllocPart(t, "stream", "task")
           \/ AllocPart(t, "task", "command")
           \/ \E what \in Failures : Unwind(t, what)
           \/ Destroy(t)
  BY <1>6, FittingSteps
<1>7. CASE Commit(t) \/ Return(t)
  BY <1>7, CommitStep, ReturnStep
<1>8. CASE \E x \in Objects, u \in Threads : AddRef(t, x, u)
  BY <1>8, AddRefStep
<1>9. CASE \E x \in Objects : Release(t, x)
  BY <1>9, ReleaseStep
<1>10. CASE Notify(t)
  BY <1>10, NotifyStep
<1> QED
  BY <1>1, <1>2, <1>3, <1>4, <1>5, <1>6, <1>7, <1>8, <1>9, <1>10

(* A step of the rest of the program.                                      *)
LEMMA StutterStep ==
  ASSUME IInv, UNCHANGED vars
  PROVE  IInv'
<1>1. TypeOK'
  BY DEF IInv, TypeOK, vars
<1> QED
  BY <1>1, QuietStep DEF vars, Has

(* A step of the whole is one of Creation or leaves its variables alone.   *)
LEMMA NextInvariant == IInv /\ [ApiNext]_allVars => IInv'
<1> SUFFICES ASSUME IInv, [ApiNext]_allVars PROVE IInv'
  OBVIOUS
<1>1. Calls \/ Reap \/ (\E t \in Threads : Shutdown(t)) \/ UNCHANGED vars
  BY DEF ApiNext, allVars, BringUpAndDown, PlayPeriods, UseObject, ReaperFrees, ReaperExits,
         LastRelease, LastReleaseReturns
<1>2. CASE Calls
  BY <1>2, CallsStep
<1>3. CASE Reap
  BY <1>3, ReapStep
<1>4. CASE \E t \in Threads : Shutdown(t)
  BY <1>4, ShutdownStep
<1>5. CASE UNCHANGED vars
  BY <1>5, StutterStep
<1> QED
  BY <1>1, <1>2, <1>3, <1>4, <1>5

(* In every state that can be reached, with a step of any thread failing,  *)
(* references are counted and what a call in progress works on is there.   *)
THEOREM Invariance == ApiSpec => []IInv
<1>1. ApiInit => IInv
  BY InitInvariant DEF ApiInit
<1> QED
  BY <1>1, NextInvariant, PTL DEF ApiSpec

(* However many threads create, duplicate, share and release however many  *)
(* buffers at once, and whatever of it fails: every count is the number of *)
(* references there are, and one more for a primary buffer.                *)
THEOREM Counting == ApiSpec => []CountsMatch
<1>1. IInv => CountsMatch
  BY DEF IInv
<1> QED
  BY <1>1, Invariance, PTL

(* What a thread is destroying exists, was released by its last holder, is *)
(* referenced by nothing any more and is destroyed by nobody else: no      *)
(* object is freed under a thread that uses it, nor freed twice.           *)
DestroyedOnce ==
  \A t \in Threads : Destroying(t) =>
    LET b == call[t].new IN
    /\ Has(b, "self")
    /\ rc[b] = 0
    /\ \A u \in Threads :
         /\ b \notin held[u]
         /\ call[u].src # b
         /\ u # t /\ Destroying(u) => call[u].new # b
    /\ \A d \in Buffers : parent[d] # b

(* The last release destroys an object once, and nothing refers to it.     *)
THEOREM NoUseAfterDestroy == ApiSpec => []DestroyedOnce
<1>1. IInv => DestroyedOnce
  <2> SUFFICES ASSUME IInv, NEW t \in Threads, Destroying(t), NEW b, b = call[t].new
               PROVE  /\ Has(b, "self")
                      /\ rc[b] = 0
                      /\ \A u \in Threads :
                           /\ b \notin held[u]
                           /\ call[u].src # b
                           /\ u # t /\ Destroying(u) => call[u].new # b
                      /\ \A d \in Buffers : parent[d] # b
    BY DEF DestroyedOnce
  <2>1. b \in Objects /\ Has(b, "self") /\ rc[b] = 0
    BY DEF IInv, CallsMatch, CallMatches, Objects
  <2>2. \A u \in Threads : b \notin held[u] /\ call[u].src # b
    BY <2>1, Holding
  <2>3. \A d \in Buffers : parent[d] # b
    BY <2>1, Holding
  <2>4. \A u \in Threads : u # t /\ Destroying(u) => call[u].new # b
    BY DEF IInv, OneCall
  <2> QED
    BY <2>1, <2>2, <2>3, <2>4
<1> QED
  BY <1>1, Invariance, PTL

-----------------------------------------------------------------------------
(* The samples: a buffer and those made from it by duplication play the    *)
(* same ones, which the reaper frees with the first of them.               *)

(* The steps of a creation up to the one that makes the stream.            *)
EarlySteps == {"client", "self", "size", "samples", "stream"}

Early(b) == \E t \in Threads : call[t].at \in EarlySteps /\ call[t].new = b
Notifying(b) == \E t \in Threads : call[t].at = "notify" /\ call[t].new = b

(* Nothing is made from x, nor being made.                                 *)
Lonely(x) ==
  /\ \A d \in Buffers : parent[d] # x
  /\ \A u \in Threads : call[u].src # x

MadeAlone ==
  /\ \A t \in Threads : Creating(t) => Lonely(call[t].new)
  /\ \A b \in primary : Lonely(b)

(* What a thread has of the buffer it makes.                               *)
MakingMatches(t) ==
  LET b == call[t].new
      src == call[t].src IN
  /\ call[t].at \in EarlySteps => ~Has(b, "stream")
  /\ call[t].at \in EarlySteps \ {"stream"} => buf[b] = b
  /\ call[t].at \in Failures \ {"client"} => parent[b] = IF src = Nobody THEN Api ELSE src
  /\ call[t].at = "samples" => src = Nobody
  /\ call[t].at = "stream" /\ src = Nobody => buf[b] = b /\ Has(b, "samples")
  /\ call[t].at = "stream" /\ src # Nobody => buf[b] = buf[src]

MakingMatch == \A t \in Threads : MakingMatches(t)

(* A buffer has its stream from the step that makes it until the reaper    *)
(* frees it, which is after its task was submitted.                        *)
Streamed(b) ==
  /\ Has(b, "self") /\ b \notin primary => Has(b, "stream") \/ Notifying(b) \/ Early(b)
  /\ Has(b, "stream") => b \notin primary /\ (Has(b, "self") \/ Pending(b))
  /\ Has(b, "stream") /\ Notifying(b) => Pending(b)
  /\ Pending(b) => Has(b, "stream") /\ (Has(b, "self") => Notifying(b))

AllStreamed == \A b \in Buffers : Streamed(b)

(* Whose samples it plays.                                                 *)
Sourced(b) ==
  /\ \/ buf[b] = b
     \/ Has(b, "stream")
     \/ \E t \in Threads : call[t].at = "stream" /\ call[t].new = b
  /\ Has(b, "stream") /\ parent[b] = Api => buf[b] = b
  /\ Has(b, "stream") /\ parent[b] \in Buffers => buf[b] = buf[parent[b]]

AllSourced == \A b \in Buffers : Sourced(b)

(* Nothing is freed twice, and the owner of samples after those who play   *)
(* them.                                                                   *)
TasksOnce == \A m, n \in 1..Len(tasks) : tasks[m] = tasks[n] => m = n

OwnersLast ==
  \A b \in Buffers : Has(b, "stream") /\ buf[b] # b =>
    \A n \in 1..Len(tasks) :
      tasks[n] = buf[b] => \E m \in 1..(n - 1) : tasks[m] = b

(* No buffer is its own source, however many duplications away.            *)
Rising(rank) == \A b \in Buffers : parent[b] \in Buffers => rank[parent[b]] < rank[b]
Ranked == \E rank \in [Buffers -> Nat] : Rising(rank)

SamplesInv ==
  /\ MadeAlone
  /\ MakingMatch
  /\ AllStreamed
  /\ AllSourced
  /\ TasksOnce
  /\ OwnersLast
  /\ SamplesOutliveStreams
  /\ Ranked

(* The tasks are numbered from 1.                                          *)
LEMMA TaskNumbers ==
  ASSUME IInv
  PROVE  DOMAIN tasks = 1..Len(tasks) /\ Len(tasks) \in Nat /\ tasks \in Seq(Buffers)
<1>1. tasks \in Seq(Buffers)
  BY DEF IInv, TypeOK
<1> QED
  BY <1>1

(* A buffer others are made from is there, and all of it.                  *)
LEMMA Standing ==
  ASSUME IInv, SamplesInv, NEW x \in Buffers, ~Lonely(x)
  PROVE  /\ rc[x] > 0
         /\ Has(x, "self") /\ Has(x, "stream") /\ x \notin primary
         /\ ~Early(x) /\ ~Notifying(x) /\ ~Pending(x)
<1>1. x \in Objects
  BY DEF Objects
<1>2. rc[x] > 0
  BY <1>1, Holding DEF Lonely
<1>3. Has(x, "self")
  BY <1>2 DEF IInv, BuffersMatch, BufferMatches
<1>4. x \notin primary /\ ~Early(x)
  BY DEF SamplesInv, MadeAlone, Early, Creating, EarlySteps, Failures
<1>5. ~Notifying(x)
  BY <1>1, <1>2, Holding DEF Notifying, Destroying
<1>6. Has(x, "stream") /\ ~Pending(x)
  BY <1>3, <1>4, <1>5 DEF SamplesInv, AllStreamed, Streamed
<1> QED
  BY <1>2, <1>3, <1>4, <1>5, <1>6

(* Steps that make or free no stream or samples and give the reaper none.  *)
LEMMA SameStreams ==
  ASSUME SamplesInv, UNCHANGED <<buf, tasks>>,
         \A b : Has(b, "stream")' <=> Has(b, "stream"),
         \A b : Has(b, "samples")' <=> Has(b, "samples")
  PROVE  TasksOnce' /\ OwnersLast' /\ SamplesOutliveStreams' /\ (\A b : Pending(b)' <=> Pending(b))
<1>1. \A b : Pending(b)' <=> Pending(b)
  BY DEF Pending
<1>2. TasksOnce'
  BY DEF SamplesInv, TasksOnce
<1>3. OwnersLast'
  BY DEF SamplesInv, OwnersLast
<1>4. SamplesOutliveStreams'
  BY DEF SamplesInv, SamplesOutliveStreams
<1> QED
  BY <1>1, <1>2, <1>3, <1>4

Idling == {"idle", "shutdown", "destroy", "return"}

(* And steps of a call that are of no concern to the stream.               *)
LEMMA QuietStreams ==
  ASSUME IInv, SamplesInv, UNCHANGED <<buf, tasks, parent, primary>>,
         \A b : Has(b, "self")' <=> Has(b, "self"),
         \A b : Has(b, "stream")' <=> Has(b, "stream"),
         \A b : Has(b, "samples")' <=> Has(b, "samples"),
         \A u \in Threads :
           /\ \/ call'[u].at = call[u].at /\ call'[u].new = call[u].new
              \/ {call[u].at, call'[u].at} = {"task", "command"} /\ call'[u].new = call[u].new
              \/ call[u].at \in Idling \cup {"command"} /\ call'[u].at \in Idling
              \/ /\ call[u].at = "client" /\ call'[u].at = "return" /\ call'[u].new = call[u].new
                 /\ ~Has(call[u].new, "self")
           /\ \/ call'[u].src = call[u].src
              \/ call'[u].src = Nobody /\ call'[u].at \in Idling
  PROVE  SamplesInv'
<1> USE DEF SamplesInv, Idling
<1>1. TasksOnce' /\ OwnersLast' /\ SamplesOutliveStreams' /\ (\A b : Pending(b)' <=> Pending(b))
  BY SameStreams
<1>2. /\ \A b : Notifying(b)' <=> Notifying(b)
      /\ \A b : Has(b, "self") /\ Early(b) => Early(b)'
  BY DEF Notifying, Early, EarlySteps
<1>3. AllStreamed'
  BY <1>1, <1>2 DEF AllStreamed, Streamed
<1>4. AllSourced'
  BY DEF AllSourced, Sourced
<1>5. MakingMatch'
  <2> SUFFICES ASSUME NEW u \in Threads PROVE MakingMatches(u)'
    BY DEF MakingMatch
  <2>1. MakingMatches(u)
    BY DEF MakingMatch
  <2> QED
    BY <2>1 DEF MakingMatches, EarlySteps, Failures
<1>6. \A b \in Buffers : Lonely(b) => Lonely(b)'
  BY CreationAssumption DEF Lonely
<1>7. MadeAlone'
  <2>1. primary \subseteq Buffers
    BY DEF IInv, TypeOK
  <2>2. ASSUME NEW u \in Threads, Creating(u)' PROVE Lonely(call[u].new)'
    <3>1. Creating(u) /\ call'[u].new = call[u].new
      BY <2>2 DEF Creating, Failures
    <3>2. call[u].new \in Buffers
      BY <3>1 DEF IInv, CallsMatch, CallMatches
    <3> QED
      BY <1>6, <3>1, <3>2 DEF MadeAlone
  <2> QED
    BY <1>6, <2>1, <2>2 DEF MadeAlone
<1>8. Ranked'
  BY DEF Ranked, Rising
<1> QED
  BY <1>1, <1>3, <1>4, <1>5, <1>7, <1>8

(* A creation begins.                                                      *)
LEMMA BeginStreams ==
  ASSUME IInv, SamplesInv, NEW t \in Threads, NEW b \in Buffers, Unused(b),
         NEW src \in Buffers \cup {Nobody}, src # Nobody => src \in held[t] /\ src \notin primary,
         call[t].at = "idle",
         call' = [call EXCEPT ![t] = [at |-> "client", new |-> b, src |-> src]],
         UNCHANGED <<heap, primary, parent, buf, tasks>>
  PROVE  SamplesInv'
<1> USE DEF SamplesInv
<1>1. /\ call'[t] = [at |-> "client", new |-> b, src |-> src]
      /\ \A u \in Threads \ {t} : call'[u] = call[u]
  BY DEF IInv, TypeOK
<1>2. \A x, part : Has(x, part)' <=> Has(x, part)
  BY DEF Has
<1>3. ~Has(b, "self") /\ ~Has(b, "stream") /\ \A u \in Threads : call[u].new # b
  BY DEF Unused, Allocated, Parts
<1>4. TasksOnce' /\ OwnersLast' /\ SamplesOutliveStreams' /\ (\A x : Pending(x)' <=> Pending(x))
  BY <1>2, SameStreams
<1>5. /\ \A x : Notifying(x)' <=> Notifying(x)
      /\ \A x : Early(x) => Early(x)'
  BY <1>1 DEF Notifying, Early, EarlySteps
<1>6. AllStreamed'
  BY <1>2, <1>4, <1>5 DEF AllStreamed, Streamed
<1>7. AllSourced'
  BY <1>1, <1>2 DEF AllSourced, Sourced
<1>8. MakingMatch'
  <2>1. MakingMatches(t)'
    BY <1>1, <1>2, <1>3 DEF MakingMatches, EarlySteps, Failures, AllSourced, Sourced
  <2>2. ASSUME NEW u \in Threads \ {t} PROVE MakingMatches(u)'
    BY <1>1, <1>2 DEF MakingMatch, MakingMatches
  <2> QED
    BY <2>1, <2>2 DEF MakingMatch
<1>9. Lonely(b) /\ src # b
  <2>1. ~Lonely(b) => Has(b, "self")
    BY Standing
  <2>2. src = b => Has(b, "self")
    BY Holding, CreationAssumption DEF IInv, BuffersMatch, BufferMatches, Objects
  <2> QED
    BY <1>3, <2>1, <2>2
<1>10. \A x \in Buffers \ {src} : Lonely(x) => Lonely(x)'
  BY <1>1 DEF Lonely
<1>11. MadeAlone'
  <2>1. primary \subseteq Buffers
    BY DEF IInv, TypeOK
  <2>2. ASSUME NEW u \in Threads \ {t}, Creating(u)' PROVE Lonely(call[u].new)'
    <3>1. Creating(u) /\ call'[u].new = call[u].new
      BY <2>2, <1>1 DEF Creating
    <3>2. call[u].new \in Buffers /\ HeldBy(call[u].new) = {}
      BY <3>1 DEF IInv, CallsMatch, CallMatches
    <3>3. call[u].new # src
      BY <3>2, CreationAssumption DEF HeldBy
    <3> QED
      BY <1>10, <3>1, <3>2, <3>3 DEF MadeAlone
  <2>3. Lonely(call[t].new)'
    BY <1>1, <1>9, <1>10
  <2>4. ASSUME NEW x \in primary PROVE Lonely(x)'
    BY <1>10, <2>1, CreationAssumption DEF MadeAlone
  <2> QED
    BY <2>2, <2>3, <2>4 DEF MadeAlone
<1>12. Ranked'
  BY DEF Ranked, Rising
<1> QED
  BY <1>4, <1>6, <1>7, <1>8, <1>11, <1>12

(* A primary buffer plays nothing.                                         *)
LEMMA PrimaryStreams ==
  ASSUME IInv, SamplesInv, NEW t \in Threads, NEW b \in Buffers, CreatePrimary(t, b)
  PROVE  SamplesInv'
<1> USE DEF SamplesInv
<1>1. /\ heap' = heap \cup {<<"self", b>>}
      /\ primary' = primary \cup {b}
      /\ UNCHANGED <<parent, buf, tasks, call, failed>>
  BY DEF CreatePrimary
<1>2. /\ \A x : Has(x, "self")' <=> Has(x, "self") \/ x = b
      /\ \A x : Has(x, "stream")' <=> Has(x, "stream")
      /\ \A x : Has(x, "samples")' <=> Has(x, "samples")
  BY <1>1 DEF Has
<1>3. ~Has(b, "self") /\ ~Has(b, "stream") /\ \A u \in Threads : call[u].new # b
  BY DEF CreatePrimary, Unused, Allocated, Parts
<1>4. TasksOnce' /\ OwnersLast' /\ SamplesOutliveStreams' /\ (\A x : Pending(x)' <=> Pending(x))
  BY <1>1, <1>2, SameStreams
<1>5. (\A x : Notifying(x)' <=> Notifying(x)) /\ (\A x : Early(x)' <=> Early(x))
  BY <1>1 DEF Notifying, Early
<1>6. AllStreamed'
  BY <1>1, <1>2, <1>3, <1>4, <1>5 DEF AllStreamed, Streamed
<1>7. AllSourced'
  BY <1>1, <1>2 DEF AllSourced, Sourced
<1>8. MakingMatch'
  BY <1>1, <1>2 DEF MakingMatch, MakingMatches
<1>9. Lonely(b)
  BY <1>3, Standing
<1>10. MadeAlone'
  BY <1>1, <1>9 DEF MadeAlone, Lonely, Creating
<1>11. Ranked'
  BY <1>1 DEF Ranked, Rising
<1> QED
  BY <1>4, <1>6, <1>7, <1>8, <1>10, <1>11

(* The parent is referenced, and the creation of the object goes on.       *)
LEMMA ClientStreams ==
  ASSUME IInv, SamplesInv, NEW t \in Threads, AllocClient(t)
  PROVE  SamplesInv'
<1> USE DEF SamplesInv
<1> SUFFICES ASSUME NEW b, b = call[t].new,
                    NEW par, par = IF call[t].src = Nobody THEN Api ELSE call[t].src
             PROVE  SamplesInv'
  OBVIOUS
<1>1. /\ call[t].at = "client"
      /\ heap' = heap \cup {<<"client", b>>}
      /\ parent' = [parent EXCEPT ![b] = par]
      /\ UNCHANGED <<primary, buf, tasks>>
  BY DEF AllocClient, At
<1>2. /\ call'[t] = [at |-> "self", new |-> b, src |-> call[t].src]
      /\ \A u \in Threads \ {t} : call'[u] = call[u]
  BY GotoCalls DEF IInv, AllocClient, Labels, Failures
<1>3. b \in Buffers /\ Creating(t) /\ Lonely(b)
  BY <1>1 DEF IInv, CallsMatch, CallMatches, Creating, Failures, MadeAlone
<1>4. /\ parent'[b] = par
      /\ \A d \in Buffers \ {b} : parent'[d] = parent[d]
  BY <1>1, <1>3 DEF IInv, TypeOK
<1>5. /\ \A x : Has(x, "self")' <=> Has(x, "self")
      /\ \A x : Has(x, "stream")' <=> Has(x, "stream")
      /\ \A x : Has(x, "samples")' <=> Has(x, "samples")
  BY <1>1 DEF Has
<1>6. TasksOnce' /\ OwnersLast' /\ SamplesOutliveStreams' /\ (\A x : Pending(x)' <=> Pending(x))
  BY <1>1, <1>5, SameStreams
<1>7. (\A x : Notifying(x)' <=> Notifying(x)) /\ (\A x : Early(x)' <=> Early(x))
  BY <1>1, <1>2 DEF Notifying, Early, EarlySteps
<1>8. AllStreamed'
  BY <1>1, <1>5, <1>6, <1>7 DEF AllStreamed, Streamed
<1>9. ~Has(b, "stream")
  BY <1>1 DEF MakingMatch, MakingMatches, EarlySteps
<1>10. AllSourced'
  <2>1. ASSUME NEW d \in Buffers PROVE Sourced(d)'
    BY <1>1, <1>2, <1>4, <1>5, <1>9 DEF AllSourced, Sourced
  <2> QED
    BY <2>1 DEF AllSourced
<1>11. MakingMatch'
  <2>1. MakingMatches(t)'
    BY <1>1, <1>2, <1>4, <1>5 DEF MakingMatch, MakingMatches, EarlySteps, Failures
  <2>2. ASSUME NEW u \in Threads \ {t} PROVE MakingMatches(u)'
    <3>1. call[u].at \in Failures => call[u].new \in Buffers \ {b}
      BY <1>3 DEF IInv, OneCall, CallsMatch, CallMatches, Creating
    <3>2. MakingMatches(u)
      BY DEF MakingMatch
    <3>3. call'[u] = call[u] /\ buf' = buf
      BY <1>1, <1>2
    <3>4. call[u].at \in Failures => parent'[call[u].new] = parent[call[u].new]
      BY <1>4, <3>1
    <3> QED
      BY <1>5, <3>2, <3>3, <3>4 DEF MakingMatches
  <2> QED
    BY <2>1, <2>2 DEF MakingMatch
<1>12. par # b /\ (par = Api \/ ~Lonely(par))
  BY <1>3, CreationAssumption DEF Lonely
<1>13. \A x \in Buffers : Lonely(x) => Lonely(x)'
  <2>1. \A u \in Threads : call'[u].src = call[u].src
    BY <1>2
  <2>2. ASSUME NEW x \in Buffers, Lonely(x), NEW d \in Buffers PROVE parent'[d] # x
    BY <1>4, <1>12, <2>2, CreationAssumption DEF Lonely
  <2> QED
    BY <2>1, <2>2 DEF Lonely
<1>14. MadeAlone'
  <2>1. primary \subseteq Buffers /\ primary' = primary
    BY <1>1 DEF IInv, TypeOK
  <2>2. ASSUME NEW u \in Threads, Creating(u)' PROVE Lonely(call[u].new)' /\ call'[u].new = call[u].new
    <3>1. Creating(u) /\ call'[u].new = call[u].new
      BY <2>2, <1>2, <1>3 DEF Creating
    <3>2. call[u].new \in Buffers
      BY <3>1 DEF IInv, CallsMatch, CallMatches
    <3> QED
      BY <1>13, <3>1, <3>2 DEF MadeAlone
  <2> QED
    BY <1>13, <2>1, <2>2 DEF MadeAlone
<1>15. Ranked'
  <2>1. PICK rank \in [Buffers -> Nat] : Rising(rank)
    BY DEF Ranked
  <2> DEFINE higher == [rank EXCEPT ![b] = IF par \in Buffers THEN rank[par] + 1 ELSE 0]
  <2>2. higher \in [Buffers -> Nat]
    <3>1. (IF par \in Buffers THEN rank[par] + 1 ELSE 0) \in Nat
      BY <2>1, SMT
    <3> QED
      BY <2>1, <3>1, Zenon
  <2>3. ASSUME NEW d \in Buffers, parent'[d] \in Buffers PROVE higher[parent'[d]] < higher[d]
    <3>1. CASE d = b
      BY <1>3, <1>4, <1>12, <2>3, <3>1
    <3>2. CASE d # b
      BY <1>3, <1>4, <2>1, <2>3, <3>2 DEF Lonely, Rising
    <3> QED
      BY <3>1, <3>2
  <2> HIDE DEF higher
  <2> QED
    BY <2>2, <2>3 DEF Ranked, Rising
<1> QED
  BY <1>6, <1>8, <1>10, <1>11, <1>14, <1>15

(* The object is allocated.                                                *)
LEMMA SelfStreams ==
  ASSUME IInv, SamplesInv, NEW t \in Threads, AllocSelf(t)
  PROVE  SamplesInv'
<1> USE DEF SamplesInv
<1> SUFFICES ASSUME NEW b, b = call[t].new PROVE SamplesInv'
  OBVIOUS
<1>1. /\ call[t].at = "self"
      /\ heap' = heap \cup {<<"self", b>>}
      /\ UNCHANGED <<primary, parent, buf, tasks>>
  BY DEF AllocSelf, At
<1>2. /\ call'[t] = [at |-> "size", new |-> b, src |-> call[t].src]
      /\ \A u \in Threads \ {t} : call'[u] = call[u]
  BY GotoCalls DEF IInv, AllocSelf, Labels, Failures
<1>3. /\ \A x : Has(x, "self")' <=> Has(x, "self") \/ x = b
      /\ \A x : Has(x, "stream")' <=> Has(x, "stream")
      /\ \A x : Has(x, "samples")' <=> Has(x, "samples")
  BY <1>1 DEF Has
<1>4. TasksOnce' /\ OwnersLast' /\ SamplesOutliveStreams' /\ (\A x : Pending(x)' <=> Pending(x))
  BY <1>1, <1>3, SameStreams
<1>5. (\A x : Notifying(x)' <=> Notifying(x)) /\ (\A x : Early(x)' <=> Early(x)) /\ Early(b)
  BY <1>1, <1>2 DEF Notifying, Early, EarlySteps
<1>6. ~Has(b, "stream")
  BY <1>1 DEF MakingMatch, MakingMatches, EarlySteps
<1>7. AllStreamed'
  BY <1>1, <1>3, <1>4, <1>5, <1>6 DEF AllStreamed, Streamed
<1>8. AllSourced'
  BY <1>1, <1>2, <1>3 DEF AllSourced, Sourced
<1>9. MakingMatch'
  BY <1>1, <1>2, <1>3 DEF MakingMatch, MakingMatches, EarlySteps, Failures
<1>10. MadeAlone'
  BY <1>1, <1>2 DEF MadeAlone, Lonely, Creating, Failures
<1>11. Ranked'
  BY <1>1 DEF Ranked, Rising
<1> QED
  BY <1>4, <1>7, <1>8, <1>9, <1>10, <1>11

(* The parent is notified, on a failure or at the end of a buffer.         *)
LEMMA NotifyStreams ==
  ASSUME IInv, SamplesInv, NEW t \in Threads, NoSelf(t) \/ Notify(t)
  PROVE  SamplesInv'
<1> USE DEF SamplesInv
<1> SUFFICES ASSUME NEW b, b = call[t].new PROVE SamplesInv'
  OBVIOUS
<1>1. /\ call[t].at \in {"self", "notify"}
      /\ call[t].at = "self" => heap' = heap \ {<<"client", b>>}
      /\ call[t].at = "notify" => heap' = heap \ {<<"self", b>>}
      /\ parent' = [parent EXCEPT ![b] = Nobody]
      /\ UNCHANGED <<primary, buf, tasks>>
  BY DEF NoSelf, Notify, At
<1>2. /\ \A u \in Threads \ {t} : call'[u] = call[u]
      /\ call'[t].at \in {"return", "idle", "shutdown", "destroy"}
      /\ call'[t].src \in {call[t].src, Nobody}
  <2>1. CASE NoSelf(t)
    <3>1. Goto(t, "return") /\ "return" \in Labels
      BY <2>1 DEF NoSelf, Labels
    <3>2. TypeOK
      BY DEF IInv
    <3>3. /\ call'[t] = [at |-> "return", new |-> call[t].new, src |-> call[t].src]
          /\ \A u \in Threads \ {t} : call'[u] = call[u]
      BY <3>1, <3>2, GotoCalls
    <3> QED
      BY <3>3
  <2>2. CASE Notify(t)
    <3>1. b \in Buffers /\ Has(b, "self") /\ b \notin primary
      BY <2>2 DEF Notify, At, IInv, CallsMatch, CallMatches, Destroying
    <3>2. parent[b] \in Objects
      BY <3>1 DEF IInv, TypeOK, BuffersMatch, BufferMatches
    <3>3. rc[parent[b]] \in Nat
      BY <3>2, References DEF IInv
    <3> QED
      BY <2>2, <3>2, <3>3, ContinueCall DEF Notify, IInv
  <2> QED
    BY <2>1, <2>2
<1>3. b \in Buffers /\ b \notin primary /\ (call[t].at = "self" => ~Has(b, "self"))
  BY <1>1 DEF IInv, CallsMatch, CallMatches, Creating, Destroying, Failures
<1>4. /\ parent'[b] = Nobody
      /\ \A d \in Buffers \ {b} : parent'[d] = parent[d]
  BY <1>1, <1>3 DEF IInv, TypeOK
<1>5. /\ \A x : x # b => (Has(x, "self")' <=> Has(x, "self"))
      /\ ~Has(b, "self")'
      /\ \A x : Has(x, "stream")' <=> Has(x, "stream")
      /\ \A x : Has(x, "samples")' <=> Has(x, "samples")
  BY <1>1, <1>3 DEF Has
<1>6. TasksOnce' /\ OwnersLast' /\ SamplesOutliveStreams' /\ (\A x : Pending(x)' <=> Pending(x))
  BY <1>1, <1>5, SameStreams
<1>7. \A x : x # b => (Notifying(x)' <=> Notifying(x)) /\ (Early(x)' <=> Early(x))
  BY <1>1, <1>2 DEF Notifying, Early, EarlySteps
<1>8. ~Notifying(b)'
  BY <1>1, <1>2, <1>3 DEF Notifying, IInv, OneCall, CallsMatch, CallMatches, Destroying
<1>9. Has(b, "stream") => Pending(b)
  BY <1>1, <1>3 DEF AllStreamed, Streamed, Notifying
<1>10. AllStreamed'
  <2>1. Streamed(b)'
    BY <1>1, <1>3, <1>5, <1>6, <1>8, <1>9 DEF AllStreamed, Streamed
  <2>2. ASSUME NEW d \in Buffers \ {b} PROVE Streamed(d)'
    BY <1>1, <1>5, <1>6, <1>7 DEF AllStreamed, Streamed
  <2> QED
    BY <2>1, <2>2 DEF AllStreamed
<1>11. AllSourced'
  BY <1>1, <1>2, <1>4, <1>5, CreationAssumption DEF AllSourced, Sourced
<1>12. MakingMatch'
  <2>1. MakingMatches(t)'
    BY <1>2 DEF MakingMatches, EarlySteps, Failures
  <2>2. ASSUME NEW u \in Threads \ {t} PROVE MakingMatches(u)'
    <3>1. call[u].at \in Failures \ {"client"} => call[u].new \in Buffers \ {b}
      <4>1. CASE call[t].at = "self"
        BY <4>1 DEF IInv, OneCall, CallsMatch, CallMatches, Creating, Failures
      <4>2. CASE call[t].at = "notify"
        <5>1. rc[b] = 0 /\ Has(b, "self") /\ b \in Objects
          BY <4>2 DEF IInv, CallsMatch, CallMatches, Destroying, Objects
        <5>2. call[u].at \in Failures /\ call[u].new = b => u \in Making(b)
          BY <5>1 DEF Making
        <5> QED
          BY <5>1, <5>2, References DEF IInv, CallsMatch, CallMatches, Creating
      <4> QED
        BY <1>1, <4>1, <4>2
    <3>2. MakingMatches(u)
      BY DEF MakingMatch
    <3>3. call'[u] = call[u] /\ buf' = buf
      BY <1>1, <1>2
    <3>4. call[u].at \in Failures \ {"client"} => parent'[call[u].new] = parent[call[u].new]
      BY <1>4, <3>1
    <3> QED
      BY <1>5, <3>2, <3>3, <3>4 DEF MakingMatches
  <2> QED
    BY <2>1, <2>2 DEF MakingMatch
<1>13. \A x \in Buffers : Lonely(x) => Lonely(x)'
  BY <1>2, <1>4, CreationAssumption DEF Lonely
<1>14. MadeAlone'
  <2>1. primary \subseteq Buffers /\ primary' = primary
    BY <1>1 DEF IInv, TypeOK
  <2>2. ASSUME NEW u \in Threads, Creating(u)' PROVE Lonely(call[u].new)' /\ call'[u].new = call[u].new
    <3>1. Creating(u) /\ call'[u].new = call[u].new
      BY <2>2, <1>2 DEF Creating, Failures
    <3>2. call[u].new \in Buffers
      BY <3>1 DEF IInv, CallsMatch, CallMatches
    <3> QED
      BY <1>13, <3>1, <3>2 DEF MadeAlone
  <2> QED
    BY <1>13, <2>1, <2>2 DEF MadeAlone
<1>15. Ranked'
  BY <1>4, CreationAssumption DEF Ranked, Rising
<1> QED
  BY <1>6, <1>10, <1>11, <1>12, <1>14, <1>15

(* The samples of a duplicate are its source's ...                         *)
LEMMA SizeStreams ==
  ASSUME IInv, SamplesInv, NEW t \in Threads, Size(t)
  PROVE  SamplesInv'
<1> USE DEF SamplesInv
<1> SUFFICES ASSUME NEW b, b = call[t].new, NEW src, src = call[t].src,
                    NEW next, next = IF src = Nobody THEN "samples" ELSE "stream"
             PROVE  SamplesInv'
  OBVIOUS
<1>1. /\ call[t].at = "size"
      /\ Goto(t, next)
      /\ buf' = [buf EXCEPT ![b] = IF src = Nobody THEN @ ELSE buf[src]]
      /\ UNCHANGED <<heap, primary, parent, tasks>>
  BY DEF Size, At
<1>2. next \in Labels
  BY DEF Labels, Failures
<1>3. /\ call'[t] = [at |-> next, new |-> b, src |-> src]
      /\ \A u \in Threads \ {t} : call'[u] = call[u]
  BY <1>1, <1>2, GotoCalls DEF IInv
<1>4. b \in Buffers /\ Creating(t) /\ Lonely(b)
  BY <1>1 DEF IInv, CallsMatch, CallMatches, Creating, Failures, MadeAlone
<1>5. \A x, part : Has(x, part)' <=> Has(x, part)
  BY <1>1 DEF Has
<1>6. \A x : Pending(x)' <=> Pending(x)
  BY <1>1 DEF Pending
<1>7. ~Has(b, "stream") /\ buf[b] = b
  BY <1>1 DEF MakingMatch, MakingMatches, EarlySteps
<1>8. /\ \A d \in Buffers \ {b} : buf'[d] = buf[d]
      /\ src = Nobody => buf'[b] = b
      /\ src # Nobody => buf'[b] = buf[src]
  BY <1>1, <1>4, <1>7 DEF IInv, TypeOK
<1>9. src # b
  BY <1>4 DEF Lonely
<1>10. src # Nobody => src \in Buffers
  BY DEF IInv, TypeOK
<1>11. (\A x : Notifying(x)' <=> Notifying(x)) /\ (\A x : Early(x)' <=> Early(x))
  BY <1>1, <1>3 DEF Notifying, Early, EarlySteps
<1>12. AllStreamed'
  BY <1>1, <1>5, <1>6, <1>11 DEF AllStreamed, Streamed
<1>13. AllSourced'
  <2>1. Sourced(b)'
    BY <1>3, <1>5, <1>7, <1>8 DEF Sourced
  <2>2. ASSUME NEW d \in Buffers \ {b} PROVE Sourced(d)'
    <3>1. Sourced(d)
      BY DEF AllSourced
    <3>2. parent[d] # b
      BY <1>4 DEF Lonely
    <3> QED
      BY <1>1, <1>3, <1>5, <1>8, <3>1, <3>2 DEF Sourced
  <2> QED
    BY <2>1, <2>2 DEF AllSourced
<1>14. MakingMatch'
  <2>1. MakingMatches(t)'
    <3>1. MakingMatches(t)
      BY DEF MakingMatch
    <3>2. src # Nobody => buf'[src] = buf[src]
      BY <1>8, <1>9, <1>10
    <3> QED
      BY <1>1, <1>3, <1>5, <1>8, <3>1, <3>2 DEF MakingMatches, EarlySteps, Failures
  <2>2. ASSUME NEW u \in Threads \ {t} PROVE MakingMatches(u)'
    <3>1. call[u].at \in Failures => call[u].new \in Buffers \ {b}
      BY <1>4 DEF IInv, OneCall, CallsMatch, CallMatches, Creating
    <3>2. call[u].src # b
      BY <1>4 DEF Lonely
    <3>3. call[u].src # Nobody => buf'[call[u].src] = buf[call[u].src]
      BY <1>8, <3>2 DEF IInv, TypeOK
    <3>4. MakingMatches(u)
      BY DEF MakingMatch
    <3>5. call'[u] = call[u]
      BY <1>3
    <3>6. call[u].at \in Failures => buf'[call[u].new] = buf[call[u].new]
      BY <1>8, <3>1
    <3> QED
      BY <1>1, <1>5, <3>3, <3>4, <3>5, <3>6 DEF MakingMatches, EarlySteps, Failures
  <2> QED
    BY <2>1, <2>2 DEF MakingMatch
<1>15. MadeAlone'
  BY <1>1, <1>3 DEF MadeAlone, Lonely, Creating, Failures
<1>16. TasksOnce'
  BY <1>1 DEF TasksOnce
<1>17. OwnersLast' /\ SamplesOutliveStreams'
  BY <1>1, <1>5, <1>7, <1>8 DEF OwnersLast, SamplesOutliveStreams
<1>18. Ranked'
  BY <1>1 DEF Ranked, Rising
<1> QED
  BY <1>12, <1>13, <1>14, <1>15, <1>16, <1>17, <1>18

(* ... and others get their own.                                           *)
LEMMA SamplesStreams ==
  ASSUME IInv, SamplesInv, NEW t \in Threads, AllocPart(t, "samples", "stream")
  PROVE  SamplesInv'
<1> USE DEF SamplesInv
<1> SUFFICES ASSUME NEW b, b = call[t].new PROVE SamplesInv'
  OBVIOUS
<1>1. /\ call[t].at = "samples"
      /\ heap' = heap \cup {<<"samples", b>>}
      /\ UNCHANGED <<primary, parent, buf, tasks>>
  BY DEF AllocPart, At
<1>2. Goto(t, "stream") /\ "stream" \in Labels
  BY DEF AllocPart, Labels, Failures
<1>3. /\ call'[t] = [at |-> "stream", new |-> b, src |-> call[t].src]
      /\ \A u \in Threads \ {t} : call'[u] = call[u]
  BY <1>2, GotoCalls DEF IInv
<1>4. /\ \A x : Has(x, "self")' <=> Has(x, "self")
      /\ \A x : Has(x, "stream")' <=> Has(x, "stream")
      /\ \A x : Has(x, "samples")' <=> Has(x, "samples") \/ x = b
  BY <1>1 DEF Has
<1>5. (\A x : Pending(x)' <=> Pending(x)) /\ TasksOnce' /\ OwnersLast' /\ SamplesOutliveStreams'
  BY <1>1, <1>4 DEF Pending, TasksOnce, OwnersLast, SamplesOutliveStreams
<1>6. (\A x : Notifying(x)' <=> Notifying(x)) /\ (\A x : Early(x)' <=> Early(x))
  BY <1>1, <1>3 DEF Notifying, Early, EarlySteps
<1>7. AllStreamed'
  BY <1>1, <1>4, <1>5, <1>6 DEF AllStreamed, Streamed
<1>8. AllSourced'
  BY <1>1, <1>3, <1>4 DEF AllSourced, Sourced
<1>9. MakingMatch'
  BY <1>1, <1>3, <1>4 DEF MakingMatch, MakingMatches, EarlySteps, Failures
<1>10. MadeAlone'
  BY <1>1, <1>3 DEF MadeAlone, Lonely, Creating, Failures
<1>11. Ranked'
  BY <1>1 DEF Ranked, Rising
<1> QED
  BY <1>5, <1>7, <1>8, <1>9, <1>10, <1>11

(* The stream is made: the samples it plays are there, and will be.        *)
LEMMA StreamStreams ==
  ASSUME IInv, SamplesInv, NEW t \in Threads, AllocPart(t, "stream", "task")
  PROVE  SamplesInv'
<1> USE DEF SamplesInv
<1> SUFFICES ASSUME NEW b, b = call[t].new, NEW src, src = call[t].src PROVE SamplesInv'
  OBVIOUS
<1>1. /\ call[t].at = "stream"
      /\ heap' = heap \cup {<<"stream", b>>}
      /\ UNCHANGED <<primary, parent, buf, tasks>>
  BY DEF AllocPart, At
<1>2. Goto(t, "task") /\ "task" \in Labels
  BY DEF AllocPart, Labels, Failures
<1>3. /\ call'[t] = [at |-> "task", new |-> b, src |-> src]
      /\ \A u \in Threads \ {t} : call'[u] = call[u]
  BY <1>2, GotoCalls DEF IInv
<1>4. /\ \A x : Has(x, "self")' <=> Has(x, "self")
      /\ \A x : Has(x, "stream")' <=> Has(x, "stream") \/ x = b
      /\ \A x : Has(x, "samples")' <=> Has(x, "samples")
  BY <1>1 DEF Has
<1>5. (\A x : Pending(x)' <=> Pending(x)) /\ TasksOnce'
  BY <1>1 DEF Pending, TasksOnce
<1>6. b \in Buffers \ primary /\ Creating(t) /\ Lonely(b) /\ Has(b, "self") /\ ~Has(b, "stream")
  BY <1>1 DEF IInv, CallsMatch, CallMatches, Creating, Failures, MadeAlone,
              MakingMatch, MakingMatches, EarlySteps
<1>7. ~Pending(b) /\ ~Notifying(b)
  <2>1. ~Pending(b)
    BY <1>6 DEF AllStreamed, Streamed
  <2>2. b \in Objects /\ rc[b] > 0
    <3>1. b \in Objects /\ t \in Making(b)
      BY <1>6 DEF Objects, Making, Creating
    <3> QED
      BY <3>1, References DEF IInv
  <2> QED
    BY <2>1, <2>2, Holding DEF Notifying, Destroying
<1>8. /\ \A x : Notifying(x)' <=> Notifying(x)
      /\ \A x : x # b /\ Early(x) => Early(x)'
  BY <1>1, <1>3 DEF Notifying, Early, EarlySteps
<1>9. AllStreamed'
  <2>1. Streamed(b)'
    BY <1>1, <1>4, <1>5, <1>6, <1>7, <1>8 DEF Streamed
  <2>2. ASSUME NEW d \in Buffers \ {b} PROVE Streamed(d)'
    BY <1>1, <1>4, <1>5, <1>8 DEF AllStreamed, Streamed
  <2> QED
    BY <2>1, <2>2 DEF AllStreamed
<1>10. /\ src = Nobody => buf[b] = b /\ Has(b, "samples") /\ parent[b] = Api
       /\ src # Nobody => buf[b] = buf[src] /\ parent[b] = src
  BY <1>1 DEF MakingMatch, MakingMatches, Failures
<1>11. AllSourced'
  <2>1. Sourced(b)'
    BY <1>1, <1>4, <1>10, CreationAssumption DEF Sourced, IInv, TypeOK
  <2>2. ASSUME NEW d \in Buffers \ {b} PROVE Sourced(d)'
    <3>1. \A u \in Threads : call[u].at = "stream" /\ call[u].new = d
            => call'[u].at = "stream" /\ call'[u].new = d
      BY <1>3
    <3>2. Sourced(d)
      BY DEF AllSourced
    <3> QED
      BY <1>1, <1>4, <3>1, <3>2 DEF Sourced
  <2> QED
    BY <2>1, <2>2 DEF AllSourced
<1>12. MakingMatch'
  <2>1. MakingMatches(t)'
    BY <1>1, <1>3, <1>10 DEF MakingMatches, EarlySteps, Failures
  <2>2. ASSUME NEW u \in Threads \ {t} PROVE MakingMatches(u)'
    <3>1. call[u].at \in Failures => call[u].new # b
      BY <1>6 DEF IInv, OneCall, Creating
    <3>2. MakingMatches(u) /\ call'[u] = call[u]
      BY <1>3 DEF MakingMatch
    <3> QED
      BY <1>1, <1>4, <3>1, <3>2 DEF MakingMatches, EarlySteps, Failures
  <2> QED
    BY <2>1, <2>2 DEF MakingMatch
<1>13. MadeAlone'
  BY <1>1, <1>3 DEF MadeAlone, Lonely, Creating, Failures
<1>14. src # Nobody => src \in Buffers /\ Has(src, "stream") /\ ~Pending(src)
  BY Standing DEF Lonely, IInv, TypeOK
<1>15. SamplesOutliveStreams'
  BY <1>1, <1>4, <1>10, <1>14 DEF SamplesOutliveStreams
<1>16. OwnersLast'
  <2>1. ~Pending(buf[b])
    <3>1. CASE src = Nobody
      BY <1>7, <1>10, <3>1
    <3>2. CASE src # Nobody
      <4>1. ASSUME Pending(buf[src]) PROVE Pending(src)
        <5>1. PICK n \in 1..Len(tasks) : tasks[n] = buf[src]
          BY <4>1, TaskNumbers DEF Pending
        <5>2. CASE buf[src] = src
          BY <4>1, <5>2
        <5>3. CASE buf[src] # src
          <6>1. PICK m \in 1..(n - 1) : tasks[m] = src
            BY <1>14, <3>2, <5>1, <5>3 DEF OwnersLast
          <6>2. m \in DOMAIN tasks
            BY <6>1, TaskNumbers
          <6> QED
            BY <6>1, <6>2 DEF Pending
        <5> QED
          BY <5>2, <5>3
      <4> QED
        BY <1>10, <1>14, <3>2, <4>1
    <3> QED
      BY <3>1, <3>2
  <2>2. \A n \in 1..Len(tasks) : tasks[n] # buf[b]
    BY <2>1, TaskNumbers DEF Pending
  <2> QED
    BY <1>1, <1>4, <2>2 DEF OwnersLast
<1>17. Ranked'
  BY <1>1 DEF Ranked, Rising
<1> QED
  BY <1>5, <1>9, <1>11, <1>12, <1>13, <1>15, <1>16, <1>17

(* A property of buffers that passes from one to its parent reaches one of *)
(* which the parent does not have it.                                      *)
LEMMA Ancestor ==
  ASSUME Ranked, NEW L \in SUBSET Buffers, L # {}
  PROVE  \E b \in L : parent[b] \notin L
<1>1. PICK rank \in [Buffers -> Nat] : Rising(rank)
  BY DEF Ranked
<1> DEFINE Ranks == {rank[b] : b \in L}
<1>2. Ranks \subseteq Nat /\ Ranks # {}
  BY <1>1
<1>3. PICK r \in Ranks : \A s \in Ranks : <<s, r>> \notin OpToRel(<, Nat)
  BY <1>2, NatLessThanWellFounded, WFMin, Zenon
<1>4. PICK b \in L : rank[b] = r
  BY <1>3
<1>5. ASSUME parent[b] \in L PROVE FALSE
  <2>1. rank[parent[b]] < rank[b] /\ rank[parent[b]] \in Ranks
    BY <1>1, <1>4, <1>5 DEF Rising
  <2>2. <<rank[parent[b]], r>> \in OpToRel(<, Nat)
    BY <2>1, <1>2, <1>4 DEF OpToRel
  <2> QED
    BY <1>3, <2>1, <2>2
<1> QED
  BY <1>5

(* Who plays the samples of a buffer without references has been given to  *)
(* the reaper.                                                             *)
LEMMA ReadersPending ==
  ASSUME IInv, SamplesInv, NEW o \in Buffers, rc[o] = 0
  PROVE  \A d \in Buffers : Has(d, "stream") /\ buf[d] = o /\ d # o => Pending(d)
<1> DEFINE L == {d \in Buffers : Has(d, "stream") /\ buf[d] = o /\ d # o /\ ~Pending(d)}
<1>1. ASSUME NEW d \in L PROVE parent[d] \in L
  <2>1. d \in Buffers /\ Has(d, "stream") /\ buf[d] = o /\ d # o /\ ~Pending(d)
    OBVIOUS
  <2>2. Has(d, "self") /\ d \notin primary
    BY <2>1 DEF SamplesInv, AllStreamed, Streamed
  <2>3. parent[d] \in Objects
    BY <2>1, <2>2 DEF IInv, TypeOK, BuffersMatch, BufferMatches
  <2>4. parent[d] \in Buffers /\ buf[parent[d]] = o
    BY <2>1, <2>3 DEF SamplesInv, AllSourced, Sourced, Objects
  <2>5. ~Lonely(parent[d])
    BY <2>1 DEF Lonely
  <2>6. Has(parent[d], "stream") /\ ~Pending(parent[d]) /\ rc[parent[d]] > 0
    BY <2>4, <2>5, Standing
  <2> QED
    BY <2>4, <2>6
<1>2. L = {}
  <2>1. L \in SUBSET Buffers
    OBVIOUS
  <2> HIDE DEF L
  <2> QED
    BY <1>1, <2>1, Ancestor DEF SamplesInv
<1> QED
  BY <1>2

(* The end of a buffer: its task is the last.                              *)
LEMMA DestroyStreams ==
  ASSUME IInv, SamplesInv, NEW t \in Threads, Destroy(t)
  PROVE  SamplesInv'
<1> USE DEF SamplesInv
<1> SUFFICES ASSUME NEW b, b = call[t].new PROVE SamplesInv'
  OBVIOUS
<1>1. /\ call[t].at = "destroy"
      /\ heap' = heap \ {<<"client", b>>}
      /\ tasks' = Append(tasks, b)
      /\ UNCHANGED <<primary, parent, buf>>
  BY DEF Destroy, At
<1>2. Goto(t, "notify") /\ "notify" \in Labels
  BY DEF Destroy, Labels
<1>3. /\ call'[t] = [at |-> "notify", new |-> b, src |-> call[t].src]
      /\ \A u \in Threads \ {t} : call'[u] = call[u]
  BY <1>2, GotoCalls DEF IInv
<1>4. /\ \A x : Has(x, "self")' <=> Has(x, "self")
      /\ \A x : Has(x, "stream")' <=> Has(x, "stream")
      /\ \A x : Has(x, "samples")' <=> Has(x, "samples")
  BY <1>1 DEF Has
<1>5. b \in Buffers \ primary /\ Has(b, "self") /\ rc[b] = 0 /\ b \in Objects
  BY <1>1 DEF IInv, CallsMatch, CallMatches, Destroying, Objects
<1>6. ~Notifying(b) /\ ~Early(b)
  <2>1. ~Notifying(b)
    BY <1>1 DEF Notifying, IInv, OneCall, Destroying
  <2>2. ASSUME NEW u \in Threads, call[u].at \in EarlySteps, call[u].new = b PROVE FALSE
    <3>1. u \in Making(b)
      BY <1>5, <2>2 DEF Making, EarlySteps, Failures
    <3> QED
      BY <1>5, <3>1, References DEF IInv
  <2> QED
    BY <2>1, <2>2 DEF Early
<1>7. Has(b, "stream") /\ ~Pending(b)
  BY <1>5, <1>6 DEF AllStreamed, Streamed
<1>8. /\ Len(tasks') = Len(tasks) + 1
      /\ \A n \in 1..Len(tasks) : tasks'[n] = tasks[n]
      /\ tasks'[Len(tasks) + 1] = b
      /\ DOMAIN tasks' = 1..(Len(tasks) + 1)
  BY <1>1, <1>5, TaskNumbers
<1>9. \A n \in 1..Len(tasks) : tasks[n] # b
  BY <1>7, TaskNumbers DEF Pending
<1>10. \A x : Pending(x)' <=> Pending(x) \/ x = b
  BY <1>8, TaskNumbers DEF Pending
<1>11. /\ \A x : x # b => (Notifying(x)' <=> Notifying(x))
       /\ Notifying(b)'
       /\ \A x : Early(x)' <=> Early(x)
  BY <1>1, <1>3 DEF Notifying, Early, EarlySteps
<1>12. AllStreamed'
  <2>1. Streamed(b)'
    BY <1>1, <1>4, <1>5, <1>7, <1>10, <1>11 DEF Streamed
  <2>2. ASSUME NEW d \in Buffers \ {b} PROVE Streamed(d)'
    BY <1>1, <1>4, <1>10, <1>11 DEF AllStreamed, Streamed
  <2> QED
    BY <2>1, <2>2 DEF AllStreamed
<1>13. AllSourced'
  BY <1>1, <1>3, <1>4 DEF AllSourced, Sourced
<1>14. MakingMatch'
  BY <1>1, <1>3, <1>4 DEF MakingMatch, MakingMatches, EarlySteps, Failures
<1>15. MadeAlone'
  BY <1>1, <1>3 DEF MadeAlone, Lonely, Creating, Failures
<1>16. TasksOnce'
  BY <1>8, <1>9, TaskNumbers DEF TasksOnce
<1>17. SamplesOutliveStreams'
  BY <1>1, <1>4 DEF SamplesOutliveStreams
<1>18. OwnersLast'
  <2> SUFFICES ASSUME NEW d \in Buffers, Has(d, "stream"), buf[d] # d,
                      NEW n \in 1..(Len(tasks) + 1), tasks'[n] = buf[d]
               PROVE  \E m \in 1..(n - 1) : tasks'[m] = d
    BY <1>1, <1>4, <1>8 DEF OwnersLast
  <2>1. CASE n \in 1..Len(tasks)
    <3>1. PICK m \in 1..(n - 1) : tasks[m] = d
      BY <1>8, <2>1 DEF OwnersLast
    <3>2. m \in 1..Len(tasks)
      BY <2>1, TaskNumbers
    <3> QED
      BY <1>8, <3>1, <3>2
  <2>2. CASE n = Len(tasks) + 1
    <3>1. buf[d] = b
      BY <1>8, <2>2
    <3>2. Pending(d)
      BY <1>5, <3>1, ReadersPending
    <3>3. PICK m \in 1..Len(tasks) : tasks[m] = d
      BY <3>2, TaskNumbers DEF Pending
    <3>4. m \in 1..(n - 1)
      BY <2>2, <3>3, TaskNumbers
    <3> QED
      BY <1>8, <3>3, <3>4
  <2> QED
    BY <2>1, <2>2, TaskNumbers
<1>19. Ranked'
  BY <1>1 DEF Ranked, Rising
<1> QED
  BY <1>12, <1>13, <1>14, <1>15, <1>16, <1>17, <1>18, <1>19

(* The first task is gone, and the buffer's, which had no other, with it.  *)
LEMMA ReapPending ==
  ASSUME IInv, TasksOnce, Reap, NEW b, b = Head(tasks)
  PROVE  /\ b \in Buffers /\ Pending(b) /\ ~Pending(b)'
         /\ \A x : x # b => (Pending(x)' <=> Pending(x))
<1>1. tasks # <<>> /\ tasks' = Tail(tasks)
  BY DEF Reap
<1>2. /\ Len(tasks) \in Nat \ {0} /\ b = tasks[1] /\ b \in Buffers
      /\ Len(tasks') = Len(tasks) - 1
      /\ \A n \in 1..(Len(tasks) - 1) : tasks'[n] = tasks[n + 1]
      /\ DOMAIN tasks' = 1..(Len(tasks) - 1)
  BY <1>1, TaskNumbers
<1>3. \A n \in 1..(Len(tasks) - 1) : tasks'[n] # b
  BY <1>2 DEF TasksOnce
<1>4. Pending(b) /\ ~Pending(b)'
  BY <1>2, <1>3, TaskNumbers DEF Pending
<1>5. \A x : x # b => (Pending(x)' <=> Pending(x))
  <2> SUFFICES ASSUME NEW x, x # b PROVE Pending(x)' <=> Pending(x)
    OBVIOUS
  <2>1. ASSUME Pending(x)' PROVE Pending(x)
    <3>1. PICK n \in 1..(Len(tasks) - 1) : tasks'[n] = x
      BY <1>2, <2>1 DEF Pending
    <3>2. n + 1 \in 1..Len(tasks) /\ tasks[n + 1] = x
      BY <1>2, <3>1
    <3> QED
      BY <3>2, TaskNumbers DEF Pending
  <2>2. ASSUME Pending(x) PROVE Pending(x)'
    <3>1. PICK n \in 1..Len(tasks) : tasks[n] = x
      BY <2>2, TaskNumbers DEF Pending
    <3>2. n - 1 \in 1..(Len(tasks) - 1)
      BY <1>2, <3>1
    <3>3. tasks'[n - 1] = x
      BY <1>2, <3>1, <3>2
    <3> QED
      BY <1>2, <3>2, <3>3 DEF Pending
  <2> QED
    BY <2>1, <2>2
<1> QED
  BY <1>2, <1>4, <1>5

(* The reaper frees the first.                                             *)
LEMMA ReapStreams ==
  ASSUME IInv, SamplesInv, Reap
  PROVE  SamplesInv'
<1> USE DEF SamplesInv
<1> SUFFICES ASSUME NEW b, b = Head(tasks) PROVE SamplesInv'
  OBVIOUS
<1>1. /\ tasks # <<>>
      /\ heap' = heap \ {<<"stream", b>>, <<"samples", b>>, <<"task", b>>}
      /\ buf' = [buf EXCEPT ![b] = b]
      /\ tasks' = Tail(tasks)
      /\ UNCHANGED <<primary, parent, call>>
  BY DEF Reap
<1>2. /\ Len(tasks) \in Nat \ {0} /\ b = tasks[1] /\ b \in Buffers
      /\ Len(tasks') = Len(tasks) - 1
      /\ \A n \in 1..(Len(tasks) - 1) : tasks'[n] = tasks[n + 1]
      /\ DOMAIN tasks' = 1..(Len(tasks) - 1)
  BY <1>1, TaskNumbers
<1>3. \A n \in 1..(Len(tasks) - 1) : tasks'[n] # b
  BY <1>2 DEF TasksOnce
<1>4. Pending(b) /\ ~Pending(b)'
  BY ReapPending
<1>5. \A x : x # b => (Pending(x)' <=> Pending(x))
  BY ReapPending
<1>6. /\ \A x : Has(x, "self")' <=> Has(x, "self")
      /\ \A x : Has(x, "stream")' <=> Has(x, "stream") /\ x # b
      /\ \A x : Has(x, "samples")' <=> Has(x, "samples") /\ x # b
  BY <1>1 DEF Has
<1>7. (\A x : Notifying(x)' <=> Notifying(x)) /\ (\A x : Early(x)' <=> Early(x))
  BY <1>1 DEF Notifying, Early
<1>8. /\ buf'[b] = b
      /\ \A d \in Buffers \ {b} : buf'[d] = buf[d]
  BY <1>1, <1>2 DEF IInv, TypeOK
<1>9. AllStreamed'
  <2>1. Streamed(b)'
    BY <1>2, <1>4, <1>6, <1>7 DEF AllStreamed, Streamed
  <2>2. ASSUME NEW d \in Buffers \ {b} PROVE Streamed(d)'
    BY <1>1, <1>5, <1>6, <1>7 DEF AllStreamed, Streamed
  <2> QED
    BY <2>1, <2>2 DEF AllStreamed
<1>10. Lonely(b)
  BY <1>2, <1>4, Standing
<1>11. AllSourced'
  <2>1. Sourced(b)'
    BY <1>6, <1>8 DEF Sourced
  <2>2. ASSUME NEW d \in Buffers \ {b} PROVE Sourced(d)'
    BY <1>1, <1>6, <1>8, <1>10 DEF AllSourced, Sourced, Lonely
  <2> QED
    BY <2>1, <2>2 DEF AllSourced
<1>12. MakingMatch'
  <2> SUFFICES ASSUME NEW u \in Threads PROVE MakingMatches(u)'
    BY DEF MakingMatch
  <2>1. MakingMatches(u)
    BY DEF MakingMatch
  <2>2. call[u].at \in EarlySteps => call[u].new \in Buffers \ {b}
    <3>1. Has(b, "stream")
      BY <1>2, <1>4 DEF AllStreamed, Streamed
    <3>2. call[u].at \in EarlySteps => call[u].new \in Buffers
      BY DEF IInv, CallsMatch, CallMatches, Creating, EarlySteps, Failures
    <3> QED
      BY <2>1, <3>1, <3>2 DEF MakingMatches
  <2>3. call[u].src # b /\ (call[u].src # Nobody => call[u].src \in Buffers)
    BY <1>10 DEF Lonely, IInv, TypeOK
  <2>4. /\ call[u].at \in EarlySteps => buf'[call[u].new] = buf[call[u].new]
        /\ call[u].src # Nobody => buf'[call[u].src] = buf[call[u].src]
    BY <1>8, <2>2, <2>3
  <2> QED
    BY <1>1, <1>6, <2>1, <2>2, <2>4 DEF MakingMatches, EarlySteps
<1>13. MadeAlone'
  BY <1>1 DEF MadeAlone, Lonely, Creating
<1>14. TasksOnce'
  <2> SUFFICES ASSUME NEW m \in 1..(Len(tasks) - 1), NEW n \in 1..(Len(tasks) - 1),
                      tasks'[m] = tasks'[n]
               PROVE  m = n
    BY <1>2 DEF TasksOnce
  <2>1. /\ m + 1 \in 1..Len(tasks) /\ n + 1 \in 1..Len(tasks)
        /\ tasks[m + 1] = tasks[n + 1]
    BY <1>2
  <2>2. m + 1 = n + 1
    BY <2>1 DEF TasksOnce
  <2> QED
    BY <2>2
<1>15. \A d \in Buffers \ {b} : Has(d, "stream") => buf[d] # b
  <2> SUFFICES ASSUME NEW d \in Buffers \ {b}, Has(d, "stream"), buf[d] = b PROVE FALSE
    OBVIOUS
  <2>1. 1 \in 1..Len(tasks)
    BY <1>2
  <2>2. \E m \in 1..(1 - 1) : tasks[m] = d
    BY <1>2, <2>1 DEF OwnersLast
  <2> QED
    BY <2>2
<1>16. SamplesOutliveStreams'
  BY <1>6, <1>8, <1>15 DEF SamplesOutliveStreams
<1>17. OwnersLast'
  <2> SUFFICES ASSUME NEW d \in Buffers \ {b}, Has(d, "stream"), buf[d] # d,
                      NEW n \in 1..(Len(tasks) - 1), tasks'[n] = buf[d]
               PROVE  \E m \in 1..(n - 1) : tasks'[m] = d
    BY <1>2, <1>6, <1>8 DEF OwnersLast
  <2>1. n + 1 \in 1..Len(tasks) /\ tasks[n + 1] = buf[d]
    BY <1>2
  <2>2. PICK m \in 1..((n + 1) - 1) : tasks[m] = d
    BY <2>1 DEF OwnersLast
  <2>3. m # 1
    BY <1>2, <2>2
  <2>4. m - 1 \in 1..(n - 1) /\ m - 1 \in 1..(Len(tasks) - 1)
    BY <1>2, <2>2, <2>3
  <2>5. tasks'[m - 1] = d
    BY <1>2, <2>2, <2>4
  <2> QED
    BY <2>4, <2>5
<1>18. Ranked'
  BY <1>1 DEF Ranked, Rising
<1> QED
  BY <1>9, <1>11, <1>12, <1>13, <1>14, <1>16, <1>17, <1>18

(* Every call, the beginning, and every step.                              *)
LEMMA CallsStreams ==
  ASSUME IInv, SamplesInv, Calls
  PROVE  SamplesInv'
<1> USE DEF Idling
<1>1. PICK t \in Threads :
        \/ \E b \in Buffers : Create(t, b)
        \/ \E b, src \in Buffers : Duplicate(t, b, src)
        \/ \E b \in Buffers : CreatePrimary(t, b)
        \/ AllocClient(t)
        \/ NoClient(t)
        \/ AllocSelf(t)
        \/ NoSelf(t)
        \/ Size(t)
        \/ AllocPart(t, "samples", "stream")
        \/ AllocPart(t, "stream", "task")
        \/ AllocPart(t, "task", "command")
        \/ \E what \in Failures : Unwind(t, what)
        \/ Commit(t)
        \/ Return(t)
        \/ \E x \in Objects, u \in Threads : AddRef(t, x, u)
        \/ \E x \in Objects : Release(t, x)
        \/ Destroy(t)
        \/ Notify(t)
  BY DEF Calls
<1>2. CASE \E b \in Buffers : Create(t, b)
  BY <1>2, BeginStreams DEF Create, Idle
<1>3. CASE \E b, src \in Buffers : Duplicate(t, b, src)
  BY <1>3, BeginStreams DEF Duplicate, Idle
<1>4. CASE \E b \in Buffers : CreatePrimary(t, b)
  BY <1>4, PrimaryStreams
<1>5. CASE AllocClient(t) \/ AllocSelf(t) \/ NoSelf(t) \/ Notify(t)
  BY <1>5, ClientStreams, SelfStreams, NotifyStreams
<1>6. CASE \/ Size(t)
           \/ AllocPart(t, "samples", "stream")
           \/ AllocPart(t, "stream", "task")
           \/ Destroy(t)
  BY <1>6, SizeStreams, SamplesStreams, StreamStreams, DestroyStreams
<1>7. CASE NoClient(t) \/ Commit(t)
  <2>1. /\ call[t].at \in {"client", "command"} /\ Goto(t, "return") /\ "return" \in Labels
        /\ UNCHANGED <<heap, primary, parent, buf, tasks>>
    BY <1>7 DEF NoClient, Commit, At, Labels
  <2>2. /\ call'[t] = [at |-> "return", new |-> call[t].new, src |-> call[t].src]
        /\ \A u \in Threads \ {t} : call'[u] = call[u]
    BY <2>1, GotoCalls DEF IInv
  <2>3. call[t].at = "client" => ~Has(call[t].new, "self")
    BY DEF IInv, CallsMatch, CallMatches, Creating, Failures
  <2> QED
    BY <2>1, <2>2, <2>3, QuietStreams DEF Has
<1>8. CASE AllocPart(t, "task", "command")
  <2>1. /\ call[t].at = "task" /\ Goto(t, "command") /\ "command" \in Labels
        /\ heap' = heap \cup {<<"task", call[t].new>>}
        /\ UNCHANGED <<primary, parent, buf, tasks>>
    BY <1>8 DEF AllocPart, At, Labels, Failures
  <2>2. /\ call'[t] = [at |-> "command", new |-> call[t].new, src |-> call[t].src]
        /\ \A u \in Threads \ {t} : call'[u] = call[u]
    BY <2>1, GotoCalls DEF IInv
  <2>3. /\ \A b : Has(b, "self")' <=> Has(b, "self")
        /\ \A b : Has(b, "stream")' <=> Has(b, "stream")
        /\ \A b : Has(b, "samples")' <=> Has(b, "samples")
    BY <2>1 DEF Has
  <2> QED
    BY <2>1, <2>2, <2>3, QuietStreams
<1>9. CASE \/ \E what \in Failures : Unwind(t, what)
           \/ \E x \in Objects, u \in Threads : AddRef(t, x, u)
  <2>1. UNCHANGED <<heap, primary, parent, buf, tasks, call>>
    BY <1>9 DEF Unwind, AddRef
  <2> QED
    BY <2>1, QuietStreams DEF Has
<1>10. CASE Return(t)
  <2>1. call[t].at = "return" /\ UNCHANGED <<heap, primary, parent, buf, tasks>>
    BY <1>10 DEF Return, At
  <2>2. /\ call'[t] = NoCall
        /\ \A u \in Threads \ {t} : call'[u] = call[u]
    BY <1>10 DEF Return, IInv, TypeOK
  <2> QED
    BY <2>1, <2>2, QuietStreams DEF Has, NoCall
<1>11. CASE \E x \in Objects : Release(t, x)
  <2>1. PICK x \in Objects : Release(t, x)
    BY <1>11
  <2>2. rc[x] \in Nat /\ (x \in primary => rc[x] > 1)
    BY <2>1, Holding, References DEF Release, IInv
  <2>3. call[t].at = "idle" /\ UNCHANGED <<heap, primary, parent, buf, tasks>>
    BY <2>1, <2>2 DEF Release, Idle
  <2>4. /\ \A u \in Threads \ {t} : call'[u] = call[u]
        /\ call'[t].src = Nobody
        /\ call'[t].at \in {"idle", "shutdown", "destroy"}
    BY <2>1, <2>2, ContinueCall DEF Release, IInv
  <2> QED
    BY <2>3, <2>4, QuietStreams DEF Has
<1> QED
  BY <1>1, <1>2, <1>3, <1>4, <1>5, <1>6, <1>7, <1>8, <1>9, <1>10, <1>11

(* At first there is no stream.                                            *)
LEMMA InitSamples == Init => SamplesInv
<1> SUFFICES ASSUME Init PROVE SamplesInv
  OBVIOUS
<1>1. /\ heap = {} /\ primary = {} /\ tasks = <<>>
      /\ \A b \in Buffers : parent[b] = Nobody /\ buf[b] = b
      /\ \A t \in Threads : call[t] = [at |-> "idle", new |-> Nobody, src |-> Nobody]
  BY DEF Init, NoCall
<1>2. \A b, part : ~Has(b, part)
  BY <1>1 DEF Has
<1>3. \A b : ~Pending(b)
  BY <1>1 DEF Pending
<1>4. MadeAlone /\ MakingMatch
  BY <1>1 DEF MadeAlone, MakingMatch, MakingMatches, Creating, EarlySteps, Failures
<1>5. AllStreamed /\ AllSourced /\ OwnersLast /\ SamplesOutliveStreams
  BY <1>1, <1>2, <1>3 DEF AllStreamed, Streamed, AllSourced, Sourced, OwnersLast, SamplesOutliveStreams
<1>6. TasksOnce
  BY <1>1 DEF TasksOnce
<1>7. Ranked
  <2>1. [b \in Buffers |-> 0] \in [Buffers -> Nat]
    OBVIOUS
  <2>2. Rising([b \in Buffers |-> 0])
    BY <1>1, CreationAssumption DEF Rising, Objects
  <2> QED
    BY <2>1, <2>2 DEF Ranked
<1> QED
  BY <1>4, <1>5, <1>6, <1>7 DEF SamplesInv

(* Every step of the whole keeps it.                                       *)
LEMMA NextSamples == IInv /\ SamplesInv /\ [ApiNext]_allVars => SamplesInv'
<1> SUFFICES ASSUME IInv, SamplesInv, [ApiNext]_allVars PROVE SamplesInv'
  OBVIOUS
<1>1. Calls \/ Reap \/ (\E t \in Threads : Shutdown(t)) \/ UNCHANGED vars
  BY DEF ApiNext, allVars, BringUpAndDown, PlayPeriods, UseObject, ReaperFrees, ReaperExits,
         LastRelease, LastReleaseReturns
<1>2. CASE Calls
  BY <1>2, CallsStreams
<1>3. CASE Reap
  BY <1>3, ReapStreams
<1>4. CASE \E t \in Threads : Shutdown(t)
  <2>1. PICK t \in Threads : Shutdown(t)
    BY <1>4
  <2>2. call[t].at = "shutdown" /\ UNCHANGED <<heap, primary, parent, buf, tasks>>
    BY <2>1 DEF Shutdown, At
  <2>3. /\ call'[t] = NoCall
        /\ \A u \in Threads \ {t} : call'[u] = call[u]
    BY <2>1 DEF Shutdown, IInv, TypeOK
  <2> QED
    BY <2>2, <2>3, QuietStreams DEF Has, NoCall, Idling
<1>5. CASE UNCHANGED vars
  BY <1>5, QuietStreams DEF Has, vars
<1> QED
  BY <1>1, <1>2, <1>3, <1>4, <1>5

(* As long as a stream exists, even one whose creation is still going on or*)
(* whose buffer is released already, the samples it plays do, however many *)
(* duplications away their owner is and whoever released it first.         *)
THEOREM SamplesKept == ApiSpec => []SamplesOutliveStreams
<1>1. ApiInit => SamplesInv
  BY InitSamples DEF ApiInit
<1>2. SamplesInv => SamplesOutliveStreams
  BY DEF SamplesInv
<1> QED
  BY <1>1, <1>2, Invariance, NextSamples, PTL DEF ApiSpec

-----------------------------------------------------------------------------
(* The parts of a buffer, at every step of its making and unmaking.        *)

(* What a thread inside a call needs, it holds.                            *)
InUse(t) ==
  /\ Creating(t) => Api \in held[t]
  /\ call[t].src # Nobody => call[t].src \in held[t]

UsedHeld == \A t \in Threads : InUse(t)

(* The next step of a thread that makes or destroys b is one of these.     *)
StepAt(b, steps) == \E t \in Threads : call[t].at \in steps /\ call[t].new = b

(* ... and is the one that follows the making of its samples.              *)
SamplesMade(b) ==
  \E t \in Threads : call[t].at = "stream" /\ call[t].new = b /\ call[t].src = Nobody

(* A secondary buffer is there, and its task is not submitted.             *)
InPlace(b) == Has(b, "self") /\ b \notin primary /\ ~StepAt(b, {"notify"})

(* A buffer nobody refers to is being destroyed.                           *)
DyingMatches == \A b \in Buffers : Has(b, "self") /\ rc[b] = 0 => StepAt(b, {"destroy", "notify"})

(* Which parts b has, at every step of its making and unmaking.            *)
PartsMatch(b) ==
  /\ Has(b, "client") <=> InPlace(b) \/ StepAt(b, {"self"})
  /\ Has(b, "task") <=>
       (InPlace(b) /\ ~StepAt(b, {"size", "samples", "stream", "task"})) \/ Pending(b)
  /\ Has(b, "samples") => (Has(b, "stream") /\ buf[b] = b) \/ SamplesMade(b)

AllPartsMatch == \A b \in Buffers : PartsMatch(b)

PartsInv == UsedHeld /\ DyingMatches /\ AllPartsMatch

(* The steps that say something of a buffer's parts.                       *)
Telling == {"self", "size", "samples", "stream", "task", "notify"}

(* A step after which t is in no other creation, nor copies another        *)
(* source, and no thread in a call holds less.                             *)
LEMMA KeepsUse ==
  ASSUME UsedHeld, NEW t \in Threads,
         \A u \in Threads \ {t} : call'[u] = call[u],
         call'[t].at \in Failures => call[t].at \in Failures,
         call'[t].src \in {Nobody, call[t].src},
         \A u \in Threads : (call'[u].at \in Failures \/ call'[u].src # Nobody)
                              => held[u] \subseteq held'[u]
  PROVE  UsedHeld'
<1> SUFFICES ASSUME NEW u \in Threads PROVE InUse(u)'
  BY DEF UsedHeld
<1>1. InUse(u)
  BY DEF UsedHeld
<1>2. CASE u = t
  BY <1>1, <1>2 DEF InUse, Creating
<1>3. CASE u # t
  BY <1>1, <1>3 DEF InUse, Creating
<1> QED
  BY <1>2, <1>3

(* A buffer a step of t is not about.                                      *)
LEMMA PartsElsewhere ==
  ASSUME NEW b, PartsMatch(b), NEW t \in Threads,
         \A u \in Threads \ {t} : call'[u] = call[u],
         call[t].new = b => call[t].at \notin Telling,
         call'[t].new = b => call'[t].at \notin Telling,
         \A part : Has(b, part)' <=> Has(b, part),
         b \in primary' <=> b \in primary,
         Pending(b)' <=> Pending(b),
         buf'[b] = buf[b]
  PROVE  PartsMatch(b)'
<1>1. /\ StepAt(b, {"notify"})' <=> StepAt(b, {"notify"})
      /\ StepAt(b, {"self"})' <=> StepAt(b, {"self"})
      /\ StepAt(b, {"size", "samples", "stream", "task"})'
           <=> StepAt(b, {"size", "samples", "stream", "task"})
  BY DEF StepAt, Telling
<1>2. SamplesMade(b)' <=> SamplesMade(b)
  BY DEF SamplesMade, Telling
<1> QED
  BY <1>1, <1>2 DEF PartsMatch, InPlace

(* Who makes or destroys a buffer does so alone.                           *)
LEMMA StepAlone ==
  ASSUME IInv, NEW t \in Threads, Creating(t) \/ Destroying(t),
         NEW steps \in SUBSET (Failures \cup {"destroy", "notify"})
  PROVE  StepAt(call[t].new, steps) <=> call[t].at \in steps
<1> SUFFICES ASSUME NEW u \in Threads, call[u].at \in steps, call[u].new = call[t].new
             PROVE  u = t
  BY DEF StepAt
<1>1. Creating(u) \/ Destroying(u)
  BY DEF Creating, Destroying
<1>2. ASSUME NEW v \in Threads, NEW w \in Threads, Creating(v), Destroying(w),
             call[v].new = call[w].new
      PROVE  FALSE
  <2>1. /\ call[v].new \in Buffers /\ Has(call[v].new, "self") /\ rc[call[v].new] = 0
    BY <1>2 DEF IInv, CallsMatch, CallMatches
  <2>2. v \in Making(call[v].new)
    BY <1>2, <2>1 DEF Making, Creating
  <2> QED
    BY <2>1, <2>2, References DEF IInv, Objects
<1>3. (Creating(u) /\ Creating(t)) \/ (Destroying(u) /\ Destroying(t))
  BY <1>1, <1>2
<1> QED
  BY <1>3 DEF IInv, OneCall

(* And still does after its step.                                          *)
LEMMA StepAloneNext ==
  ASSUME IInv, NEW t \in Threads, Creating(t) \/ Destroying(t),
         \A u \in Threads \ {t} : call'[u] = call[u],
         NEW b, b = call[t].new,
         NEW steps \in SUBSET (Failures \cup {"destroy", "notify"})
  PROVE  (\E u \in Threads : call'[u].at \in steps /\ call'[u].new = b)
           <=> call'[t].at \in steps /\ call'[t].new = b
<1> SUFFICES ASSUME NEW u \in Threads \ {t}, call[u].at \in steps, call[u].new = b
             PROVE  FALSE
  OBVIOUS
<1>1. StepAt(b, {call[u].at})
  BY DEF StepAt
<1>2. call[t].at = call[u].at
  BY <1>1, StepAlone
<1>3. (Creating(u) /\ Creating(t)) \/ (Destroying(u) /\ Destroying(t))
  BY <1>2 DEF Creating, Destroying
<1> QED
  BY <1>3 DEF IInv, OneCall

(* The steps that neither allocate nor free, nor take the last reference.  *)
LEMMA QuietParts ==
  ASSUME IInv, PartsInv, NEW t \in Threads,
         \A u \in Threads \ {t} : call'[u] = call[u],
         call[t].at \notin Telling \cup {"destroy"},
         call'[t].at \notin Telling,
         UNCHANGED <<heap, primary, buf, tasks>>,
         \A b \in Buffers : rc'[b] = 0 =>
           rc[b] = 0 \/ (call'[t].at = "destroy" /\ call'[t].new = b)
  PROVE  DyingMatches' /\ AllPartsMatch'
<1>1. \A b, part : Has(b, part)' <=> Has(b, part)
  BY DEF Has
<1>2. \A b : Pending(b)' <=> Pending(b)
  BY DEF Pending
<1>3. ASSUME NEW b \in Buffers PROVE PartsMatch(b)'
  BY <1>1, <1>2, PartsElsewhere DEF PartsInv, AllPartsMatch
<1>4. ASSUME NEW b \in Buffers, Has(b, "self"), rc'[b] = 0
      PROVE  StepAt(b, {"destroy", "notify"})'
  <2>1. CASE rc[b] = 0
    <3>1. PICK u \in Threads : call[u].at \in {"destroy", "notify"} /\ call[u].new = b
      BY <1>4, <2>1 DEF PartsInv, DyingMatches, StepAt
    <3>2. u # t
      BY <3>1 DEF Telling
    <3> QED
      BY <3>1, <3>2 DEF StepAt
  <2>2. CASE call'[t].at = "destroy" /\ call'[t].new = b
    BY <2>2 DEF StepAt
  <2> QED
    BY <1>4, <2>1, <2>2
<1> QED
  BY <1>1, <1>3, <1>4 DEF DyingMatches, AllPartsMatch

(* What is held still has references after the step.                       *)
LEMMA StillHeld ==
  ASSUME IInv', NEW t \in Threads, NEW x \in Objects, x \in held'[t]
  PROVE  rc'[x] > 0
<1>1. rc'[x] = Cardinality(HeldBy(x)') + Cardinality(Children(x)') + Cardinality(Copying(x)')
              + Cardinality(Making(x)') + (IF x \in primary' THEN 1 ELSE 0)
  BY DEF IInv, CountsMatch
<1>2. t \in HeldBy(x)'
  BY DEF HeldBy
<1> DEFINE
  h == Cardinality(HeldBy(x)')
  c == Cardinality(Children(x)')
  p == Cardinality(Copying(x)')
  m == Cardinality(Making(x)')
<1>3. h \in Nat /\ h # 0 /\ c \in Nat /\ p \in Nat /\ m \in Nat
  BY <1>2, HolderParts, PartCardinality, CreationAssumption
<1>4. rc'[x] = h + c + p + m + (IF x \in primary' THEN 1 ELSE 0)
  BY <1>1
<1> HIDE DEF h, c, p, m
<1> QED
  BY <1>3, <1>4

(* A call begins, ends, or hands the object out.                           *)
LEMMA BeginParts ==
  ASSUME IInv, IInv', PartsInv, NEW t \in Threads, NEW b \in Buffers,
         Create(t, b) \/ \E src \in Buffers : Duplicate(t, b, src)
  PROVE  PartsInv'
<1> USE DEF PartsInv
<1>1. PICK src \in Buffers \cup {Nobody} :
        /\ call' = [call EXCEPT ![t] = [at |-> "client", new |-> b, src |-> src]]
        /\ Api \in held[t] /\ (src # Nobody => src \in held[t])
        /\ call[t].at = "idle"
        /\ UNCHANGED <<heap, primary, buf, tasks, held>>
        /\ \A x \in Objects : rc'[x] = rc[x] \/ (x = src /\ rc'[x] = rc[x] + 1)
  <2>1. CASE Create(t, b)
    BY <2>1 DEF Create, Idle
  <2>2. CASE \E src \in Buffers : Duplicate(t, b, src)
    <3>1. PICK src \in Buffers : Duplicate(t, b, src)
      BY <2>2
    <3>2. rc' = [rc EXCEPT ![src] = @ + 1] /\ rc \in [Objects -> Nat]
      BY <3>1 DEF Duplicate, IInv, TypeOK
    <3> QED
      BY <3>1, <3>2 DEF Duplicate, Idle
  <2> QED
    BY <2>1, <2>2
<1>2. /\ call'[t] = [at |-> "client", new |-> b, src |-> src]
      /\ \A u \in Threads \ {t} : call'[u] = call[u]
  BY <1>1 DEF IInv, TypeOK
<1>3. UsedHeld'
  <2>1. ASSUME NEW u \in Threads PROVE InUse(u)'
    BY <1>1, <1>2, CreationAssumption DEF UsedHeld, InUse, Creating, Failures
  <2> QED
    BY <2>1 DEF UsedHeld
<1>4. \A x \in Buffers : rc'[x] = 0 => rc[x] = 0
  <2>1. rc \in [Objects -> Nat]
    BY DEF IInv, TypeOK
  <2> QED
    BY <1>1, <2>1 DEF Objects
<1>5. DyingMatches' /\ AllPartsMatch'
  BY <1>1, <1>2, <1>4, QuietParts DEF Telling
<1> QED
  BY <1>3, <1>5

(* A creation that made nothing, one that is complete, and the end of      *)
(* either.                                                                 *)
LEMMA EndParts ==
  ASSUME IInv, IInv', PartsInv, NEW t \in Threads, NoClient(t) \/ Commit(t) \/ Return(t)
  PROVE  PartsInv'
<1> USE DEF PartsInv
<1>1. /\ call[t].at \in {"client", "command", "return"}
      /\ UNCHANGED <<heap, primary, buf, tasks>>
  BY DEF NoClient, Commit, Return, At
<1>2. /\ call'[t].at \in {"return", "idle"}
      /\ call'[t].src \in {Nobody, call[t].src}
      /\ \A u \in Threads \ {t} : call'[u] = call[u]
  <2>1. CASE Return(t)
    BY <2>1 DEF Return, NoCall, IInv, TypeOK
  <2>2. CASE NoClient(t) \/ Commit(t)
    <3>1. Goto(t, "return") /\ "return" \in Labels
      BY <2>2 DEF NoClient, Commit, Labels
    <3>2. /\ call'[t] = [at |-> "return", new |-> call[t].new, src |-> call[t].src]
          /\ \A u \in Threads \ {t} : call'[u] = call[u]
      BY <3>1, GotoCalls DEF IInv
    <3> QED
      BY <3>2
  <2> QED
    BY <2>1, <2>2
<1>3. \A u \in Threads : held[u] \subseteq held'[u]
  <2>1. held \in [Threads -> SUBSET Objects]
    BY DEF IInv, TypeOK
  <2> QED
    BY <2>1 DEF NoClient, Commit, Return
<1>4. UsedHeld'
  BY <1>1, <1>2, <1>3, KeepsUse DEF Failures
<1>5. \A x \in Buffers : rc'[x] = 0 => rc[x] = 0
  <2>1. CASE Return(t)
    <3>1. rc' = [x \in Objects |-> IF x = call[t].src THEN rc[x] - 1 ELSE rc[x]]
      BY <2>1 DEF Return
    <3>2. ASSUME NEW x \in Buffers, x = call[t].src PROVE rc'[x] > 0
      <4>1. x \in held[t]
        BY <3>2, CreationAssumption DEF UsedHeld, InUse
      <4> QED
        BY <1>3, <4>1, StillHeld DEF Objects
    <3>3. rc' \in [Objects -> Nat]
      BY DEF IInv, TypeOK
    <3> QED
      BY <3>1, <3>2, <3>3 DEF Objects
  <2>2. CASE NoClient(t) \/ Commit(t)
    BY <2>2 DEF NoClient, Commit
  <2> QED
    BY <2>1, <2>2
<1>6. DyingMatches' /\ AllPartsMatch'
  BY <1>1, <1>2, <1>5, QuietParts DEF Telling
<1> QED
  BY <1>4, <1>6

(* Where a release ends: the last reference is followed by the             *)
(* destruction, or by the shutdown if it was the API object's.             *)
LEMMA ContinueEnds ==
  ASSUME TypeOK, NEW t \in Threads, NEW x \in Objects, rc[x] \in Nat, Continue(t, x)
  PROVE  /\ x \in Buffers \ primary /\ rc[x] <= 1 => call'[t].at = "destroy" /\ call'[t].new = x
         /\ call'[t].at = "shutdown" => x = Api /\ rc[x] <= 1
<1> DEFINE c == IF rc[x] > 1 \/ x \in primary THEN NoCall
           ELSE IF x = Api THEN [NoCall EXCEPT !.at = "shutdown"]
           ELSE [NoCall EXCEPT !.at = "destroy", !.new = x]
<1>1. call'[t] = c
  BY DEF Continue, TypeOK
<1>2. ASSUME x \in Buffers \ primary, rc[x] <= 1
      PROVE  c = [at |-> "destroy", new |-> x, src |-> Nobody]
  <2>1. ~(rc[x] > 1 \/ x \in primary) /\ x # Api
    BY <1>2, CreationAssumption
  <2>2. c = [NoCall EXCEPT !.at = "destroy", !.new = x]
    BY <2>1
  <2> QED
    BY <2>2 DEF NoCall
<1>3. CASE rc[x] > 1 \/ x \in primary
  <2>1. c = NoCall
    BY <1>3
  <2>2. c.at = "idle"
    BY <2>1 DEF NoCall
  <2> HIDE DEF c
  <2> QED
    BY <1>1, <1>2, <2>2
<1>4. CASE ~(rc[x] > 1 \/ x \in primary) /\ x # Api
  <2>1. c = [NoCall EXCEPT !.at = "destroy", !.new = x]
    BY <1>4
  <2>2. c.at = "destroy"
    BY <2>1 DEF NoCall
  <2> HIDE DEF c
  <2> QED
    BY <1>1, <1>2, <2>2
<1>5. CASE ~(rc[x] > 1 \/ x \in primary) /\ x = Api
  <2>1. rc[x] <= 1 /\ x \notin Buffers
    BY <1>5, CreationAssumption
  <2> QED
    BY <1>5, <2>1
<1> QED
  BY <1>3, <1>4, <1>5

(* A reference more, a reference less, and the end of the shutdown.        *)
LEMMA ShareParts ==
  ASSUME IInv, PartsInv, NEW t \in Threads,
         \/ \E x \in Objects, u \in Threads : AddRef(t, x, u)
         \/ \E x \in Objects : Release(t, x)
         \/ Shutdown(t)
  PROVE  PartsInv'
<1> USE DEF PartsInv
<1>1. /\ call[t].at \in {"idle", "shutdown"}
      /\ call[t].src = Nobody
      /\ UNCHANGED <<buf, tasks>>
  <2>1. call[t].at \in {"idle", "shutdown"}
    BY DEF AddRef, Release, Shutdown, Idle, At
  <2> QED
    BY <2>1 DEF AddRef, Release, Shutdown, IInv, CallsMatch, CallMatches
<1>2. rc \in [Objects -> Nat] /\ held \in [Threads -> SUBSET Objects]
  BY DEF IInv, TypeOK
<1>3. CASE \E x \in Objects : Release(t, x)
  <2>1. PICK x \in Objects : Release(t, x)
    BY <1>3
  <2>2. x \in held[t] /\ held' = [held EXCEPT ![t] = @ \ {x}] /\ rc' = [rc EXCEPT ![x] = @ - 1]
    BY <2>1 DEF Release
  <2>3. rc[x] \in Nat /\ rc[x] > 0 /\ (x \in primary => rc[x] > 1)
    BY <2>2, Holding, References DEF IInv
  <2>4. heap' = heap
    BY <2>1, <2>3 DEF Release
  <2>5. /\ \A u \in Threads \ {t} : call'[u] = call[u]
        /\ call'[t].src = Nobody
        /\ call'[t].at \in {"idle", "shutdown", "destroy"}
    BY <2>1, <2>3, ContinueCall DEF Release, IInv
  <2>6. x \in Buffers \ primary /\ rc[x] <= 1 => call'[t].at = "destroy" /\ call'[t].new = x
    BY <2>1, <2>3, ContinueEnds DEF Release, IInv
  <2>7. UsedHeld'
    <3>1. \A u \in Threads \ {t} : held'[u] = held[u]
      BY <1>2, <2>2
    <3> QED
      BY <1>1, <2>5, <3>1, KeepsUse DEF Failures
  <2>8. \A d \in Buffers : rc'[d] = 0 =>
          rc[d] = 0 \/ (call'[t].at = "destroy" /\ call'[t].new = d)
    BY <1>2, <2>2, <2>3, <2>6 DEF Objects
  <2>9. primary' = primary
    BY <2>1, <2>3 DEF Release
  <2>10. DyingMatches' /\ AllPartsMatch'
    BY <1>1, <2>4, <2>5, <2>8, <2>9, QuietParts DEF Telling
  <2> QED
    BY <2>7, <2>10
<1>4. CASE (\E x \in Objects, u \in Threads : AddRef(t, x, u)) \/ Shutdown(t)
  <2>1. /\ call'[t].at \in {"idle", "shutdown"} /\ call'[t].src = Nobody
        /\ \A u \in Threads \ {t} : call'[u] = call[u]
        /\ UNCHANGED <<heap, primary>>
    <3>1. CASE Shutdown(t)
      BY <3>1 DEF Shutdown, NoCall, IInv, TypeOK
    <3>2. CASE \E x \in Objects, u \in Threads : AddRef(t, x, u)
      BY <1>1, <3>2 DEF AddRef
    <3> QED
      BY <1>4, <3>1, <3>2
  <2>2. \A d \in Buffers : rc'[d] = 0 => rc[d] = 0
    BY <1>2, <1>4 DEF AddRef, Shutdown, Objects
  <2>3. \A u \in Threads : held[u] \subseteq held'[u]
    BY <1>2, <1>4 DEF AddRef, Shutdown
  <2>4. UsedHeld'
    BY <1>1, <2>1, <2>3, KeepsUse DEF Failures
  <2>5. DyingMatches' /\ AllPartsMatch'
    BY <1>1, <2>1, <2>2, QuietParts DEF Telling
  <2> QED
    BY <2>4, <2>5
<1> QED
  BY <1>3, <1>4

(* A failed assertion changes nothing else.                                *)
LEMMA UnwindParts ==
  ASSUME IInv, PartsInv, UNCHANGED <<heap, primary, rc, parent, buf, tasks, held, call>>
  PROVE  PartsInv'
<1> USE DEF PartsInv
<1>1. UsedHeld' /\ DyingMatches'
  BY DEF UsedHeld, InUse, Creating, DyingMatches, Has, StepAt
<1>2. AllPartsMatch'
  <2>1. /\ \A x, part : Has(x, part)' <=> Has(x, part)
        /\ \A x : Pending(x)' <=> Pending(x)
        /\ \A x : SamplesMade(x)' <=> SamplesMade(x)
    BY DEF Has, Pending, SamplesMade
  <2>2. /\ \A x : StepAt(x, {"notify"})' <=> StepAt(x, {"notify"})
        /\ \A x : StepAt(x, {"self"})' <=> StepAt(x, {"self"})
        /\ \A x : StepAt(x, {"size", "samples", "stream", "task"})'
                    <=> StepAt(x, {"size", "samples", "stream", "task"})
    BY DEF StepAt
  <2> QED
    BY <2>1, <2>2 DEF AllPartsMatch, PartsMatch, InPlace
<1> QED
  BY <1>1, <1>2

(* A primary buffer has one part.                                          *)
LEMMA PrimaryParts ==
  ASSUME IInv, PartsInv, NEW t \in Threads, NEW b \in Buffers, CreatePrimary(t, b)
  PROVE  PartsInv'
<1> USE DEF PartsInv
<1>1. /\ heap' = heap \cup {<<"self", b>>} /\ primary' = primary \cup {b}
      /\ rc' = [rc EXCEPT ![b] = 2] /\ held' = [held EXCEPT ![t] = @ \cup {b}]
      /\ UNCHANGED <<parent, buf, tasks, call>>
  BY DEF CreatePrimary
<1>2. /\ \A part \in Parts : ~Has(b, part)
      /\ \A u \in Threads : call[u].new # b
  BY DEF CreatePrimary, Unused, Allocated
<1>3. rc \in [Objects -> Nat] /\ held \in [Threads -> SUBSET Objects]
  BY DEF IInv, TypeOK
<1>4. UsedHeld'
  <2>1. \A u \in Threads : held[u] \subseteq held'[u]
    BY <1>1, <1>3
  <2> QED
    BY <1>1, <2>1 DEF UsedHeld, InUse, Creating
<1>5. \A x, part : Has(x, part)' <=> Has(x, part) \/ (x = b /\ part = "self")
  BY <1>1 DEF Has
<1>6. /\ \A x : Pending(x)' <=> Pending(x)
      /\ \A x, steps : (\E u \in Threads : call'[u].at \in steps /\ call'[u].new = x)
                         <=> StepAt(x, steps)
  BY <1>1 DEF Pending, StepAt
<1>7. DyingMatches'
  <2> SUFFICES ASSUME NEW x \in Buffers, Has(x, "self")', rc'[x] = 0
               PROVE  StepAt(x, {"destroy", "notify"})'
    BY DEF DyingMatches
  <2>1. x # b /\ rc[x] = 0
    BY <1>1, <1>3 DEF Objects
  <2> QED
    BY <1>1, <1>5, <2>1 DEF DyingMatches, StepAt
<1>8. AllPartsMatch'
  <2>1. PartsMatch(b)'
    <3>1. /\ ~Has(b, "client")' /\ ~Has(b, "task")' /\ ~Has(b, "samples")' /\ b \in primary'
      BY <1>1, <1>2, <1>5 DEF Parts
    <3>2. ~Pending(b)' /\ ~StepAt(b, {"self"})'
      BY <1>1, <1>2, <1>6 DEF AllPartsMatch, PartsMatch, StepAt, Parts
    <3> QED
      BY <3>1, <3>2 DEF PartsMatch, InPlace
  <2>2. ASSUME NEW x \in Buffers \ {b} PROVE PartsMatch(x)'
    <3>1. \A part : Has(x, part)' <=> Has(x, part)
      BY <1>5
    <3>2. /\ SamplesMade(x)' <=> SamplesMade(x)
          /\ StepAt(x, {"notify"})' <=> StepAt(x, {"notify"})
          /\ StepAt(x, {"self"})' <=> StepAt(x, {"self"})
          /\ StepAt(x, {"size", "samples", "stream", "task"})'
               <=> StepAt(x, {"size", "samples", "stream", "task"})
      BY <1>1 DEF SamplesMade, StepAt
    <3>3. PartsMatch(x)
      BY DEF AllPartsMatch
    <3> QED
      BY <1>1, <1>6, <3>1, <3>2, <3>3 DEF PartsMatch, InPlace
  <2> QED
    BY <2>1, <2>2 DEF AllPartsMatch
<1> QED
  BY <1>4, <1>7, <1>8

(* What a step leaves of the buffers it is not about.                      *)
LEMMA OtherParts ==
  ASSUME PartsInv, NEW t \in Threads, UNCHANGED primary,
         \A u \in Threads \ {t} : call'[u] = call[u],
         NEW b, b = call[t].new,
         call'[t].new = b \/ call'[t].at \notin Telling,
         \A x \in Buffers \ {b} :
           /\ \A part : Has(x, part)' <=> Has(x, part)
           /\ Pending(x)' <=> Pending(x)
           /\ buf'[x] = buf[x]
  PROVE  \A x \in Buffers \ {b} : PartsMatch(x)'
<1> SUFFICES ASSUME NEW x \in Buffers \ {b} PROVE PartsMatch(x)'
  OBVIOUS
<1>1. PartsMatch(x)
  BY DEF PartsInv, AllPartsMatch
<1>2. /\ call[t].new = x => call[t].at \notin Telling
      /\ call'[t].new = x => call'[t].at \notin Telling
  OBVIOUS
<1> QED
  BY <1>1, <1>2, PartsElsewhere

(* A buffer without references has somebody who destroys it, if the step   *)
(* leaves none without.                                                    *)
LEMMA OtherDying ==
  ASSUME PartsInv, NEW t \in Threads,
         \A u \in Threads \ {t} : call'[u] = call[u],
         \A x \in Buffers : Has(x, "self")' /\ rc'[x] = 0 =>
           \/ Has(x, "self") /\ rc[x] = 0
           \/ call'[t].at = "destroy" /\ call'[t].new = x,
         NEW b, b = call[t].new,
         Destroying(t) => \/ call'[t].new = b /\ call'[t].at \in {"destroy", "notify"}
                          \/ ~Has(b, "self")'
  PROVE  DyingMatches'
<1> SUFFICES ASSUME NEW x \in Buffers, Has(x, "self")', rc'[x] = 0
             PROVE  StepAt(x, {"destroy", "notify"})'
  BY DEF DyingMatches
<1>1. CASE call'[t].at = "destroy" /\ call'[t].new = x
  BY <1>1 DEF StepAt
<1>2. CASE Has(x, "self") /\ rc[x] = 0
  <2>1. PICK u \in Threads : call[u].at \in {"destroy", "notify"} /\ call[u].new = x
    BY <1>2 DEF PartsInv, DyingMatches, StepAt
  <2>2. CASE u = t
    BY <2>1, <2>2 DEF StepAt, Destroying
  <2>3. CASE u # t
    BY <2>1, <2>3 DEF StepAt
  <2> QED
    BY <2>2, <2>3
<1> QED
  BY <1>1, <1>2

(* The steps that make a part, and those that unmake one.                  *)
LEMMA ClientParts ==
  ASSUME IInv, IInv', SamplesInv, PartsInv, NEW t \in Threads,
         AllocClient(t) \/ AllocSelf(t) \/ NoSelf(t)
  PROVE  PartsInv'
<1> USE DEF PartsInv
<1> SUFFICES ASSUME NEW b, b = call[t].new PROVE PartsInv'
  OBVIOUS
<1>1. PICK label \in {"self", "size", "return"} :
        /\ Goto(t, label)
        /\ \/ /\ call[t].at = "client" /\ label = "self"
              /\ heap' = heap \cup {<<"client", b>>}
              /\ \E par : rc' = [rc EXCEPT ![par] = @ + 1]
           \/ /\ call[t].at = "self" /\ label = "size"
              /\ heap' = heap \cup {<<"self", b>>}
              /\ rc' = [rc EXCEPT ![b] = 1]
           \/ /\ call[t].at = "self" /\ label = "return"
              /\ heap' = heap \ {<<"client", b>>}
              /\ rc' = [rc EXCEPT ![parent[b]] = @ - 1]
        /\ UNCHANGED <<primary, buf, tasks, held>>
  BY DEF AllocClient, AllocSelf, NoSelf, At
<1>2. /\ call'[t] = [at |-> label, new |-> b, src |-> call[t].src]
      /\ \A u \in Threads \ {t} : call'[u] = call[u]
  <2>1. label \in Labels
    BY DEF Labels, Failures
  <2> QED
    BY <1>1, <2>1, GotoCalls DEF IInv
<1>3. /\ b \in Buffers \ primary /\ ~Has(b, "self") /\ Creating(t) /\ b \in Objects
  BY <1>1 DEF IInv, CallsMatch, CallMatches, Creating, Failures, Objects
<1>4. UsedHeld'
  BY <1>1, <1>2, KeepsUse DEF Failures
<1>5. rc \in [Objects -> Nat] /\ rc' \in [Objects -> Nat]
  BY DEF IInv, TypeOK
<1>6. \A x \in Buffers : Has(x, "self")' /\ rc'[x] = 0 => Has(x, "self") /\ rc[x] = 0
  <2>1. CASE label = "self"
    <3>1. \A x \in Buffers : Has(x, "self")' <=> Has(x, "self")
      BY <1>1, <2>1 DEF Has
    <3>2. PICK par : rc' = [rc EXCEPT ![par] = @ + 1]
      BY <1>1, <2>1
    <3>3. \A x \in Buffers : rc'[x] = 0 => rc[x] = 0
      BY <1>5, <3>2 DEF Objects
    <3> QED
      BY <3>1, <3>3
  <2>2. CASE label = "size"
    BY <1>1, <1>3, <1>5, <2>2 DEF Has, Objects
  <2>3. CASE label = "return"
    <3>1. \A x \in Buffers : Has(x, "self")' <=> Has(x, "self")
      BY <1>1, <2>3 DEF Has
    <3>2. parent[b] = IF call[t].src = Nobody THEN Api ELSE call[t].src
      BY <1>1, <2>3 DEF SamplesInv, MakingMatch, MakingMatches, Failures
    <3>3. parent[b] \in held[t]
      BY <1>3, <3>2 DEF UsedHeld, InUse
    <3>4. \A x \in Buffers : x = parent[b] => rc'[x] > 0
      BY <1>1, <3>3, StillHeld DEF Objects
    <3>5. \A x \in Buffers : x # parent[b] => rc'[x] = rc[x]
      BY <1>1, <1>5, <2>3 DEF Objects
    <3> QED
      BY <1>5, <3>1, <3>4, <3>5 DEF Objects
  <2> QED
    BY <2>1, <2>2, <2>3
<1>7. DyingMatches'
  <2>1. ~Destroying(t)
    BY <1>1 DEF Destroying
  <2> QED
    BY <1>2, <1>6, <2>1, OtherDying
<1>8. \A x : Pending(x)' <=> Pending(x)
  BY <1>1 DEF Pending
<1>9. \A x \in Buffers \ {b} : PartsMatch(x)'
  <2>1. \A x \in Buffers \ {b} : \A part : Has(x, part)' <=> Has(x, part)
    BY <1>1 DEF Has
  <2> QED
    BY <1>1, <1>2, <1>8, <2>1, OtherParts
<1>10. PartsMatch(b)'
  <2>1. \A steps \in SUBSET (Failures \cup {"destroy", "notify"}) :
          StepAt(b, steps) <=> call[t].at \in steps
    BY <1>3, StepAlone
  <2>2. \A steps \in SUBSET (Failures \cup {"destroy", "notify"}) :
          (\E u \in Threads : call'[u].at \in steps /\ call'[u].new = b) <=> label \in steps
    BY <1>2, <1>3, StepAloneNext
  <2>3. /\ ~StepAt(b, {"notify"}) /\ ~StepAt(b, {"stream"})
        /\ StepAt(b, {"self"}) <=> call[t].at = "self"
        /\ ~StepAt(b, {"size", "samples", "stream", "task"})
    BY <1>1, <2>1 DEF Failures
  <2>4. /\ ~StepAt(b, {"notify"})' /\ ~StepAt(b, {"stream"})'
        /\ StepAt(b, {"self"})' <=> label = "self"
        /\ StepAt(b, {"size", "samples", "stream", "task"})' <=> label = "size"
    <3> DEFINE After(steps) == \E u \in Threads : call'[u].at \in steps /\ call'[u].new = b
    <3>1. /\ ~After({"notify"}) /\ ~After({"stream"})
          /\ After({"self"}) <=> label = "self"
          /\ After({"size", "samples", "stream", "task"}) <=> label = "size"
      <4> HIDE DEF After
      <4>1. \A steps \in SUBSET (Failures \cup {"destroy", "notify"}) :
              After(steps) <=> label \in steps
        BY <2>2 DEF After
      <4> QED
        BY <4>1 DEF Failures
    <3> QED
      BY <3>1 DEF StepAt
  <2>5. ~SamplesMade(b) /\ ~SamplesMade(b)'
    BY <2>3, <2>4 DEF SamplesMade, StepAt
  <2>6. PartsMatch(b)
    BY <1>3 DEF AllPartsMatch
  <2>7. /\ Has(b, "task")' <=> Has(b, "task")
        /\ Has(b, "samples")' <=> Has(b, "samples")
        /\ Has(b, "stream")' <=> Has(b, "stream")
        /\ Has(b, "self")' <=> label = "size"
        /\ Has(b, "client")' <=> label # "return"
    <3>1. call[t].at = "self" => Has(b, "client")
      BY <2>3, <2>6 DEF PartsMatch
    <3> QED
      BY <1>1, <1>3, <3>1 DEF Has
  <2> QED
    BY <1>1, <1>3, <1>8, <2>3, <2>4, <2>5, <2>6, <2>7 DEF PartsMatch, InPlace
<1> QED
  BY <1>4, <1>7, <1>9, <1>10 DEF AllPartsMatch

(* The parts made once there is an object.                                 *)
LEMMA FittingParts ==
  ASSUME IInv, IInv', SamplesInv, PartsInv, NEW t \in Threads,
         \/ Size(t)
         \/ AllocPart(t, "samples", "stream")
         \/ AllocPart(t, "stream", "task")
         \/ AllocPart(t, "task", "command")
  PROVE  PartsInv'
<1> USE DEF PartsInv
<1> SUFFICES ASSUME NEW b, b = call[t].new PROVE PartsInv'
  OBVIOUS
<1>1. PICK label \in {"samples", "stream", "task", "command"} :
        /\ Goto(t, label)
        /\ \/ call[t].at = "size" /\ label \in {"samples", "stream"} /\ heap' = heap
           \/ /\ call[t].at = "samples" /\ label = "stream"
              /\ heap' = heap \cup {<<"samples", b>>} /\ buf' = buf
           \/ /\ call[t].at = "stream" /\ label = "task"
              /\ heap' = heap \cup {<<"stream", b>>} /\ buf' = buf
           \/ /\ call[t].at = "task" /\ label = "command"
              /\ heap' = heap \cup {<<"task", b>>} /\ buf' = buf
        /\ UNCHANGED <<primary, rc, tasks, held>>
        /\ call[t].at = "size" =>
             /\ buf' = [buf EXCEPT ![b] = IF call[t].src = Nobody THEN @ ELSE buf[call[t].src]]
             /\ label = IF call[t].src = Nobody THEN "samples" ELSE "stream"
  BY DEF Size, AllocPart, At
<1>2. /\ call'[t] = [at |-> label, new |-> b, src |-> call[t].src]
      /\ \A u \in Threads \ {t} : call'[u] = call[u]
  <2>1. label \in Labels
    BY DEF Labels, Failures
  <2> QED
    BY <1>1, <2>1, GotoCalls DEF IInv
<1>3. /\ b \in Buffers \ primary /\ Has(b, "self") /\ Creating(t) /\ b \in Objects
  BY <1>1 DEF IInv, CallsMatch, CallMatches, Creating, Failures, Objects
<1>4. UsedHeld'
  BY <1>1, <1>2, KeepsUse DEF Failures
<1>5. \A x : Has(x, "self")' <=> Has(x, "self")
  BY <1>1 DEF Has
<1>6. DyingMatches'
  <2>1. ~Destroying(t)
    BY <1>1 DEF Destroying
  <2> QED
    BY <1>1, <1>2, <1>5, <2>1, OtherDying
<1>7. \A x : Pending(x)' <=> Pending(x)
  BY <1>1 DEF Pending
<1>8. \A x \in Buffers \ {b} : PartsMatch(x)'
  <2>1. \A x \in Buffers \ {b} : \A part : Has(x, part)' <=> Has(x, part)
    BY <1>1 DEF Has
  <2>2. \A x \in Buffers \ {b} : buf'[x] = buf[x]
    BY <1>1 DEF IInv, TypeOK
  <2> QED
    BY <1>1, <1>2, <1>7, <2>1, <2>2, OtherParts
<1>9. PartsMatch(b)'
  <2>1. \A steps \in SUBSET (Failures \cup {"destroy", "notify"}) :
          StepAt(b, steps) <=> call[t].at \in steps
    BY <1>3, StepAlone
  <2>2. \A steps \in SUBSET (Failures \cup {"destroy", "notify"}) :
          (\E u \in Threads : call'[u].at \in steps /\ call'[u].new = b) <=> label \in steps
    BY <1>2, <1>3, StepAloneNext
  <2>3. /\ ~StepAt(b, {"notify"}) /\ ~StepAt(b, {"self"})
        /\ StepAt(b, {"size", "samples", "stream", "task"})
    BY <1>1, <2>1 DEF Failures
  <2>4. /\ ~StepAt(b, {"notify"})' /\ ~StepAt(b, {"self"})'
        /\ StepAt(b, {"size", "samples", "stream", "task"})' <=> label # "command"
    <3> DEFINE After(steps) == \E u \in Threads : call'[u].at \in steps /\ call'[u].new = b
    <3>1. /\ ~After({"notify"}) /\ ~After({"self"})
          /\ After({"size", "samples", "stream", "task"}) <=> label # "command"
      <4> HIDE DEF After
      <4>1. \A steps \in SUBSET (Failures \cup {"destroy", "notify"}) :
              After(steps) <=> label \in steps
        BY <2>2 DEF After
      <4> QED
        BY <1>1, <4>1 DEF Failures
    <3> QED
      BY <3>1 DEF StepAt
  <2>5. SamplesMade(b) <=> call[t].at = "stream" /\ call[t].src = Nobody
    <3>1. ASSUME NEW u \in Threads, u # t, call[u].at = "stream", call[u].new = b PROVE FALSE
      BY <1>3, <3>1 DEF IInv, OneCall, Creating, Failures
    <3> QED
      BY <3>1 DEF SamplesMade
  <2>6. label = "stream" /\ call[t].src = Nobody => SamplesMade(b)'
    BY <1>2 DEF SamplesMade
  <2>7. PartsMatch(b) /\ MakingMatches(t)
    BY <1>3 DEF AllPartsMatch, SamplesInv, MakingMatch
  <2>8. Has(b, "client") /\ Has(b, "client")'
    BY <1>1, <1>3, <2>3, <2>7 DEF PartsMatch, InPlace, Has
  <2>9. /\ Has(b, "task")' <=> Has(b, "task") \/ label = "command"
        /\ Has(b, "stream")' <=> Has(b, "stream") \/ label = "task"
        /\ Has(b, "samples")' <=> Has(b, "samples") \/ call[t].at = "samples"
    BY <1>1 DEF Has
  <2>10. Has(b, "task")' <=> (InPlace(b)' /\ label # "size" /\ label = "command") \/ Pending(b)'
    <3>1. Has(b, "task") <=> Pending(b)
      BY <2>3, <2>7 DEF PartsMatch
    <3>2. InPlace(b)'
      BY <1>1, <1>3, <1>5, <2>4 DEF InPlace
    <3> QED
      BY <1>7, <2>9, <3>1, <3>2
  <2>11. Has(b, "samples")' => (Has(b, "stream")' /\ buf'[b] = b) \/ SamplesMade(b)'
    <3>1. CASE call[t].at = "size"
      BY <1>1, <2>5, <2>7, <2>9, <3>1 DEF PartsMatch, MakingMatches, EarlySteps
    <3>2. CASE call[t].at = "samples"
      BY <1>1, <2>6, <2>7, <3>2 DEF MakingMatches
    <3>3. CASE call[t].at = "stream"
      <4>1. Has(b, "samples") => call[t].src = Nobody
        BY <2>5, <2>7, <3>3 DEF PartsMatch, MakingMatches, EarlySteps
      <4>2. call[t].src = Nobody => buf[b] = b
        BY <2>7, <3>3 DEF MakingMatches
      <4> QED
        BY <1>1, <2>9, <3>3, <4>1, <4>2
    <3>4. CASE call[t].at = "task"
      BY <1>1, <2>5, <2>7, <2>9, <3>4 DEF PartsMatch
    <3> QED
      BY <1>1, <3>1, <3>2, <3>3, <3>4
  <2> QED
    BY <1>1, <1>3, <1>5, <2>4, <2>8, <2>10, <2>11 DEF PartsMatch, InPlace
<1> QED
  BY <1>4, <1>6, <1>8, <1>9 DEF AllPartsMatch

(* The task takes over what the buffer leaves: the client goes.            *)
LEMMA DestroyParts ==
  ASSUME IInv, IInv', SamplesInv, PartsInv, NEW t \in Threads, Destroy(t)
  PROVE  PartsInv'
<1> USE DEF PartsInv
<1> SUFFICES ASSUME NEW b, b = call[t].new PROVE PartsInv'
  OBVIOUS
<1>1. /\ call[t].at = "destroy"
      /\ heap' = heap \ {<<"client", b>>}
      /\ tasks' = Append(tasks, b)
      /\ UNCHANGED <<primary, rc, buf, held>>
  BY DEF Destroy, At
<1>2. Goto(t, "notify") /\ "notify" \in Labels
  BY DEF Destroy, Labels
<1>3. /\ call'[t] = [at |-> "notify", new |-> b, src |-> call[t].src]
      /\ \A u \in Threads \ {t} : call'[u] = call[u]
  BY <1>2, GotoCalls DEF IInv
<1>4. b \in Buffers \ primary /\ Has(b, "self") /\ Destroying(t)
  BY <1>1 DEF IInv, CallsMatch, CallMatches, Destroying
<1>5. UsedHeld'
  BY <1>1, <1>3, KeepsUse DEF Failures
<1>6. \A x, part : Has(x, part)' <=> Has(x, part) /\ ~(x = b /\ part = "client")
  BY <1>1 DEF Has
<1>7. DyingMatches'
  BY <1>1, <1>3, <1>6, OtherDying
<1>8. \A x : Pending(x)' <=> Pending(x) \/ x = b
  <2>1. /\ \A n \in 1..Len(tasks) : tasks'[n] = tasks[n]
        /\ tasks'[Len(tasks) + 1] = b
        /\ DOMAIN tasks' = 1..(Len(tasks) + 1)
    BY <1>1, <1>4, TaskNumbers
  <2> QED
    BY <2>1, TaskNumbers DEF Pending
<1>9. \A x \in Buffers \ {b} : PartsMatch(x)'
  BY <1>1, <1>3, <1>6, <1>8, OtherParts
<1>10. PartsMatch(b)'
  <2>1. \A steps \in SUBSET (Failures \cup {"destroy", "notify"}) :
          StepAt(b, steps) <=> call[t].at \in steps
    BY <1>4, StepAlone
  <2>2. ~StepAt(b, {"notify"}) /\ ~StepAt(b, {"stream"}) /\ ~StepAt(b, {"self"})
        /\ ~StepAt(b, {"size", "samples", "stream", "task"})
    BY <1>1, <2>1 DEF Failures
  <2>3. StepAt(b, {"notify"})' /\ (SamplesMade(b)' <=> SamplesMade(b))
    BY <1>1, <1>3 DEF StepAt, SamplesMade
  <2>4. ~StepAt(b, {"self"})'
    <3>1. \A u \in Threads \ {t} : ~(call[u].at \in {"self"} /\ call[u].new = b)
      BY <2>2 DEF StepAt
    <3> QED
      BY <1>3, <3>1 DEF StepAt
  <2>5. PartsMatch(b)
    BY <1>4 DEF AllPartsMatch
  <2>6. Has(b, "task")
    BY <1>4, <2>2, <2>5 DEF PartsMatch, InPlace
  <2>7. ~InPlace(b)'
    BY <2>3 DEF InPlace
  <2> QED
    BY <1>1, <1>6, <1>8, <2>3, <2>4, <2>5, <2>6, <2>7 DEF PartsMatch
<1> QED
  BY <1>5, <1>7, <1>9, <1>10 DEF AllPartsMatch

(* The object goes; its parent may be the next.                            *)
LEMMA NotifyParts ==
  ASSUME IInv, IInv', SamplesInv, PartsInv, NEW t \in Threads, Notify(t)
  PROVE  PartsInv'
<1> USE DEF PartsInv
<1> SUFFICES ASSUME NEW b, b = call[t].new, NEW par, par = parent[b] PROVE PartsInv'
  OBVIOUS
<1>1. /\ call[t].at = "notify"
      /\ heap' = heap \ {<<"self", b>>}
      /\ rc' = [rc EXCEPT ![par] = @ - 1]
      /\ Continue(t, par)
      /\ UNCHANGED <<primary, tasks, buf, held>>
  BY DEF Notify, At
<1>2. b \in Buffers \ primary /\ Has(b, "self") /\ Destroying(t)
  BY <1>1 DEF IInv, CallsMatch, CallMatches, Destroying
<1>3. par \in Objects
  BY <1>2 DEF IInv, BuffersMatch, BufferMatches, TypeOK
<1>4. par \notin primary
  <2>1. ~Lonely(par)
    BY <1>2 DEF Lonely
  <2> QED
    BY <2>1 DEF SamplesInv, MadeAlone
<1>5. rc[par] \in Nat /\ rc[par] > 0 /\ rc \in [Objects -> Nat]
  BY <1>2, <1>3, Holding DEF IInv, TypeOK
<1>6. /\ \A u \in Threads \ {t} : call'[u] = call[u]
      /\ call'[t].src = Nobody
      /\ call'[t].at \in {"idle", "shutdown", "destroy"}
  BY <1>1, <1>3, <1>5, ContinueCall DEF IInv
<1>7. par \in Buffers /\ rc[par] <= 1 => call'[t].at = "destroy" /\ call'[t].new = par
  BY <1>1, <1>3, <1>4, <1>5, ContinueEnds DEF IInv
<1>8. UsedHeld'
  BY <1>1, <1>6, KeepsUse DEF Failures
<1>9. \A x, part : Has(x, part)' <=> Has(x, part) /\ ~(x = b /\ part = "self")
  BY <1>1 DEF Has
<1>10. DyingMatches'
  <2>1. \A x \in Buffers : Has(x, "self")' /\ rc'[x] = 0 =>
           \/ Has(x, "self") /\ rc[x] = 0
           \/ call'[t].at = "destroy" /\ call'[t].new = x
    BY <1>1, <1>5, <1>7, <1>9 DEF Objects
  <2>2. ~Has(b, "self")'
    BY <1>9
  <2> QED
    BY <1>6, <2>1, <2>2, OtherDying
<1>11. \A x : Pending(x)' <=> Pending(x)
  BY <1>1 DEF Pending
<1>12. \A x \in Buffers \ {b} : PartsMatch(x)'
  BY <1>1, <1>6, <1>9, <1>11, OtherParts DEF Telling
<1>13. PartsMatch(b)'
  <2>1. \A steps \in SUBSET (Failures \cup {"destroy", "notify"}) :
          StepAt(b, steps) <=> call[t].at \in steps
    BY <1>2, StepAlone
  <2>2. StepAt(b, {"notify"}) /\ ~StepAt(b, {"self"})
    BY <1>1, <2>1 DEF Failures
  <2>3. SamplesMade(b)' <=> SamplesMade(b)
    BY <1>1, <1>6 DEF SamplesMade
  <2>4. ~StepAt(b, {"self"})'
    BY <1>6, <2>2 DEF StepAt
  <2>5. PartsMatch(b)
    BY <1>2 DEF AllPartsMatch
  <2>6. ~InPlace(b) /\ ~InPlace(b)'
    BY <1>9, <2>2 DEF InPlace
  <2> QED
    BY <1>1, <1>9, <1>11, <2>2, <2>3, <2>4, <2>5, <2>6 DEF PartsMatch
<1> QED
  BY <1>8, <1>10, <1>12, <1>13 DEF AllPartsMatch

(* The reaper frees all that is left of a buffer.                          *)
LEMMA ReapParts ==
  ASSUME IInv, SamplesInv, PartsInv, Reap
  PROVE  PartsInv'
<1> USE DEF PartsInv
<1> SUFFICES ASSUME NEW b, b = Head(tasks) PROVE PartsInv'
  OBVIOUS
<1>1. /\ heap' = heap \ {<<"stream", b>>, <<"samples", b>>, <<"task", b>>}
      /\ buf' = [buf EXCEPT ![b] = b]
      /\ UNCHANGED <<primary, rc, held, call>>
  BY DEF Reap
<1>2. /\ b \in Buffers /\ Pending(b) /\ ~Pending(b)'
      /\ \A x : x # b => (Pending(x)' <=> Pending(x))
  BY ReapPending DEF SamplesInv
<1>3. \A x, part : Has(x, part)' <=> Has(x, part) /\ ~(x = b /\ part \in {"stream", "samples", "task"})
  BY <1>1 DEF Has
<1>4. \A x \in Buffers \ {b} : buf'[x] = buf[x]
  BY <1>1 DEF IInv, TypeOK
<1>5. UsedHeld'
  BY <1>1 DEF UsedHeld, InUse, Creating
<1>6. DyingMatches'
  BY <1>1, <1>3 DEF DyingMatches, StepAt
<1>7. /\ \A x : SamplesMade(x)' <=> SamplesMade(x)
      /\ \A x : StepAt(x, {"notify"})' <=> StepAt(x, {"notify"})
      /\ \A x : StepAt(x, {"self"})' <=> StepAt(x, {"self"})
      /\ \A x : StepAt(x, {"size", "samples", "stream", "task"})'
                  <=> StepAt(x, {"size", "samples", "stream", "task"})
  BY <1>1 DEF StepAt, SamplesMade
<1>8. \A x \in Buffers \ {b} : PartsMatch(x)'
  BY <1>1, <1>2, <1>3, <1>4, <1>7 DEF AllPartsMatch, PartsMatch, InPlace
<1>9. PartsMatch(b)'
  <2>1. Has(b, "self") => StepAt(b, {"notify"})
    BY <1>2 DEF SamplesInv, AllStreamed, Streamed, Notifying, StepAt
  <2>2. ~InPlace(b) /\ ~InPlace(b)'
    BY <1>3, <1>7, <2>1 DEF InPlace
  <2>3. PartsMatch(b)
    BY <1>2 DEF AllPartsMatch
  <2> QED
    BY <1>2, <1>3, <1>7, <2>2, <2>3 DEF PartsMatch
<1> QED
  BY <1>5, <1>6, <1>8, <1>9 DEF AllPartsMatch

(* Every step of the application's threads.                                *)
LEMMA CallsParts ==
  ASSUME IInv, SamplesInv, PartsInv, Calls
  PROVE  PartsInv'
<1>1. PICK t \in Threads :
        \/ \E b \in Buffers : Create(t, b)
        \/ \E b, src \in Buffers : Duplicate(t, b, src)
        \/ \E b \in Buffers : CreatePrimary(t, b)
        \/ AllocClient(t)
        \/ NoClient(t)
        \/ AllocSelf(t)
        \/ NoSelf(t)
        \/ Size(t)
        \/ AllocPart(t, "samples", "stream")
        \/ AllocPart(t, "stream", "task")
        \/ AllocPart(t, "task", "command")
        \/ \E what \in Failures : Unwind(t, what)
        \/ Commit(t)
        \/ Return(t)
        \/ \E x \in Objects, u \in Threads : AddRef(t, x, u)
        \/ \E x \in Objects : Release(t, x)
        \/ Destroy(t)
        \/ Notify(t)
  BY DEF Calls
<1>2. IInv'
  BY CallsStep
<1>3. CASE (\E b \in Buffers : Create(t, b)) \/ (\E b, src \in Buffers : Duplicate(t, b, src))
  BY <1>2, <1>3, BeginParts
<1>4. CASE \E b \in Buffers : CreatePrimary(t, b)
  BY <1>4, PrimaryParts
<1>5. CASE AllocClient(t) \/ AllocSelf(t) \/ NoSelf(t)
  BY <1>2, <1>5, ClientParts
<1>6. CASE \/ Size(t)
           \/ AllocPart(t, "samples", "stream")
           \/ AllocPart(t, "stream", "task")
           \/ AllocPart(t, "task", "command")
  BY <1>2, <1>6, FittingParts
<1>7. CASE NoClient(t) \/ Commit(t) \/ Return(t)
  BY <1>2, <1>7, EndParts
<1>8. CASE \E what \in Failures : Unwind(t, what)
  BY <1>8, UnwindParts DEF Unwind
<1>9. CASE \/ \E x \in Objects, u \in Threads : AddRef(t, x, u)
           \/ \E x \in Objects : Release(t, x)
  BY <1>9, ShareParts
<1>10. CASE Destroy(t) \/ Notify(t)
  BY <1>2, <1>10, DestroyParts, NotifyParts
<1> QED
  BY <1>1, <1>3, <1>4, <1>5, <1>6, <1>7, <1>8, <1>9, <1>10

(* At first there is nothing.                                              *)
LEMMA InitParts == Init => PartsInv
<1> SUFFICES ASSUME Init PROVE PartsInv
  OBVIOUS
<1>1. /\ heap = {} /\ primary = {} /\ tasks = <<>>
      /\ \A t \in Threads : call[t] = [at |-> "idle", new |-> Nobody, src |-> Nobody]
  BY DEF Init, NoCall
<1>2. (\A b, part : ~Has(b, part)) /\ (\A b : ~Pending(b))
  BY <1>1 DEF Has, Pending
<1>3. \A b : ~StepAt(b, {"self"})
  BY <1>1 DEF StepAt
<1>4. UsedHeld
  BY <1>1 DEF UsedHeld, InUse, Creating, Failures
<1>5. DyingMatches /\ AllPartsMatch
  BY <1>2, <1>3 DEF DyingMatches, AllPartsMatch, PartsMatch, InPlace
<1> QED
  BY <1>4, <1>5 DEF PartsInv

(* Every step of the whole keeps it.                                       *)
LEMMA NextParts == IInv /\ SamplesInv /\ PartsInv /\ [ApiNext]_allVars => PartsInv'
<1> SUFFICES ASSUME IInv, SamplesInv, PartsInv, [ApiNext]_allVars PROVE PartsInv'
  OBVIOUS
<1>1. Calls \/ Reap \/ (\E t \in Threads : Shutdown(t)) \/ UNCHANGED vars
  BY DEF ApiNext, allVars, BringUpAndDown, PlayPeriods, UseObject, ReaperFrees, ReaperExits,
         LastRelease, LastReleaseReturns
<1> QED
  BY <1>1, CallsParts, ReapParts, ShareParts, UnwindParts DEF vars

(* What is allocated of a buffer that no thread is in the middle of making *)
(* or destroying is the parts of a live buffer and what the reaper has     *)
(* still to free: also when its creation failed for want of a client or of *)
(* the object, and while the other threads are inside calls of their own.  *)
(* Later failures stop the program with their thread still in the middle.  *)
THEOREM CreationsHappenOrNot == ApiSpec => []AllOrNothing
<1>1. ApiInit => SamplesInv /\ PartsInv
  BY InitSamples, InitParts DEF ApiInit
<1>2. IInv /\ SamplesInv /\ PartsInv => AllOrNothing
  <2> SUFFICES ASSUME IInv, SamplesInv, PartsInv, NEW b \in Buffers,
                      \A t \in Threads : call[t].new = b => call[t].at = "return"
               PROVE  /\ Has(b, "self") <=> Live(b)
                      /\ Has(b, "client") <=> Live(b) /\ b \notin primary
                      /\ Has(b, "task") <=> Has(b, "client") \/ Pending(b)
                      /\ Has(b, "stream") <=> Has(b, "task")
                      /\ Has(b, "samples") <=> Has(b, "stream") /\ buf[b] = b
    BY DEF AllOrNothing
  <2>1. /\ ~StepAt(b, {"destroy", "notify"}) /\ ~StepAt(b, {"notify"}) /\ ~StepAt(b, {"self"})
        /\ ~StepAt(b, {"size", "samples", "stream", "task"})
    BY DEF StepAt
  <2>2. ~SamplesMade(b) /\ ~Notifying(b) /\ ~Early(b)
    BY DEF SamplesMade, Notifying, Early, EarlySteps
  <2>3. Has(b, "self") <=> Live(b)
    <3>1. rc[b] \in Nat
      BY DEF IInv, TypeOK, Objects
    <3>2. rc[b] # 0 => Has(b, "self")
      BY DEF IInv, BuffersMatch, BufferMatches
    <3>3. rc[b] = 0 => ~Has(b, "self")
      BY <2>1 DEF PartsInv, DyingMatches
    <3> QED
      BY <3>1, <3>2, <3>3 DEF Live
  <2>4. PartsMatch(b) /\ Streamed(b)
    BY DEF PartsInv, AllPartsMatch, SamplesInv, AllStreamed
  <2>5. InPlace(b) <=> Live(b) /\ b \notin primary
    BY <2>1, <2>3 DEF InPlace
  <2>6. /\ Has(b, "client") <=> InPlace(b)
        /\ Has(b, "task") <=> InPlace(b) \/ Pending(b)
    BY <2>1, <2>4 DEF PartsMatch
  <2>7. Has(b, "stream") <=> InPlace(b) \/ Pending(b)
    BY <2>2, <2>3, <2>4, <2>5 DEF Streamed
  <2>8. Has(b, "samples") <=> Has(b, "stream") /\ buf[b] = b
    BY <2>2, <2>4 DEF PartsMatch, SamplesInv, SamplesOutliveStreams
  <2> QED
    BY <2>3, <2>5, <2>6, <2>7, <2>8
<1> QED
  BY <1>1, <1>2, Invariance, NextSamples, NextParts, PTL DEF ApiSpec

-----------------------------------------------------------------------------
(* The audio thread and its device.                                        *)

(* What the audio thread opens that is not counted.                        *)
Opened == {"com", "event", "mixer", "boost"}

(* What has pointers at which step of the setup.                           *)
SetupAt(first, last) == audio = "setup" /\ first <= step /\ step <= last

(* The audio thread has a reference for each pointer, and the pointers of  *)
(* the step its setup is at; between the setup and the end it keeps two.   *)
DeviceInv ==
  /\ audio \in {"none", "setup", "loop", "mix", "end", "exited"}
  /\ step \in 1..15
  /\ local \subseteq S!Interfaces
  /\ kept \subseteq S!Interfaces
  /\ refs \in [S!Interfaces -> Int]
  /\ S!InterfacesCounted
  /\ "enumerator" \in local <=> SetupAt(4, 11)
  /\ "device" \in local <=> SetupAt(5, 11)
  /\ "client_interface" \in local <=> SetupAt(6, 11)
  /\ "render_interface" \in local <=> SetupAt(11, 11)
  /\ (audio \in {"none", "exited"} \/ SetupAt(1, 11)) => kept = {}
  /\ audio = "none" => step = 1

(* The steps of the audio thread, by their numbers.                        *)
LEMMA StepNames ==
  /\ S!ThreadSteps[1] = "com" /\ S!ThreadSteps[2] = "event"
  /\ S!ThreadSteps[3] = "enumerator" /\ S!ThreadSteps[4] = "device"
  /\ S!ThreadSteps[5] = "client_interface" /\ S!ThreadSteps[6] = "period"
  /\ S!ThreadSteps[7] = "initialize" /\ S!ThreadSteps[8] = "event_handle"
  /\ S!ThreadSteps[9] = "buffer_size" /\ S!ThreadSteps[10] = "render_interface"
  /\ S!ThreadSteps[11] = "preroll" /\ S!ThreadSteps[12] = "mixer"
  /\ S!ThreadSteps[13] = "report" /\ S!ThreadSteps[14] = "boost"
  /\ S!ThreadSteps[15] = "start_device"
  BY DEF S!ThreadSteps

(* There are fifteen of them.                                              *)
LEMMA StepNumbers ==
  ASSUME NEW n \in 1..15
  PROVE  \/ n = 1 \/ n = 2 \/ n = 3 \/ n = 4 \/ n = 5 \/ n = 6 \/ n = 7 \/ n = 8
         \/ n = 9 \/ n = 10 \/ n = 11 \/ n = 12 \/ n = 13 \/ n = 14 \/ n = 15
  OBVIOUS

(* All of them.                                                            *)
LEMMA StepSet ==
  S!Elements(S!ThreadSteps) =
    {"com", "event", "enumerator", "device", "client_interface", "period", "initialize",
     "event_handle", "buffer_size", "render_interface", "preroll", "mixer", "report", "boost",
     "start_device"}
<1>1. DOMAIN S!ThreadSteps = 1..15
  BY DEF S!ThreadSteps
<1> QED
  BY <1>1, StepNames, StepNumbers DEF S!Elements

(* A step that opens something has not opened it before.                   *)
LEMMA OpenDevice ==
  ASSUME DeviceInv, S!Open
  PROVE  DeviceInv'
<1> DEFINE name == S!ThreadSteps[step]
<1>1. /\ audio = "setup" /\ audio' = "setup"
      /\ name \notin {"report", "preroll", "start_device"}
      /\ local' = local \cup ({name} \cap S!Interfaces)
      /\ refs' = [i \in S!Interfaces |-> refs[i] + IF i = name THEN 1 ELSE 0]
      /\ step' = step + 1
      /\ kept' = kept
  BY DEF S!Open
<1>2. step \in 1..15
  BY DEF DeviceInv
<1>3. step # 11 /\ step # 13 /\ step # 15
  BY <1>1, StepNames
<1>4. /\ name = "enumerator" <=> step = 3
      /\ name = "device" <=> step = 4
      /\ name = "client_interface" <=> step = 5
      /\ name = "render_interface" <=> step = 10
  BY <1>2, StepNumbers, StepNames
<1> HIDE DEF name
<1>5. name \notin local
  <2>1. /\ local \subseteq {"enumerator", "device", "client_interface", "render_interface"}
        /\ step # 3 \/ "enumerator" \notin local
        /\ step # 4 \/ "device" \notin local
        /\ step # 5 \/ "client_interface" \notin local
        /\ step # 10 \/ "render_interface" \notin local
    BY <1>1, <1>2 DEF DeviceInv, SetupAt, S!Interfaces
  <2> QED
    BY <1>4, <2>1
<1>6. /\ \A i \in S!Interfaces : refs'[i] = refs[i] + IF i = name THEN 1 ELSE 0
      /\ refs' \in [S!Interfaces -> Int]
  BY <1>1 DEF DeviceInv
<1>7. name \in local => FALSE
  BY <1>5
<1>8. SetupAt(1, 11) => kept = {}
  BY DEF DeviceInv
<1>9. name \in S!Interfaces => name \notin kept
  <2>1. name \in S!Interfaces => step <= 11 /\ 1 <= step
    BY <1>2, <1>4 DEF S!Interfaces
  <2> QED
    BY <1>1, <1>8, <2>1 DEF SetupAt
<1>10. S!InterfacesCounted'
  BY <1>1, <1>5, <1>6 DEF DeviceInv, S!InterfacesCounted
<1>11. /\ "enumerator" \in local' <=> SetupAt(4, 11)'
       /\ "device" \in local' <=> SetupAt(5, 11)'
       /\ "client_interface" \in local' <=> SetupAt(6, 11)'
       /\ "render_interface" \in local' <=> SetupAt(11, 11)'
  <2>1. /\ "enumerator" \in local' <=> "enumerator" \in local \/ step = 3
        /\ "device" \in local' <=> "device" \in local \/ step = 4
        /\ "client_interface" \in local' <=> "client_interface" \in local \/ step = 5
        /\ "render_interface" \in local' <=> "render_interface" \in local \/ step = 10
    BY <1>1, <1>4 DEF S!Interfaces
  <2>2. /\ "enumerator" \in local <=> 4 <= step /\ step <= 11
        /\ "device" \in local <=> 5 <= step /\ step <= 11
        /\ "client_interface" \in local <=> 6 <= step /\ step <= 11
        /\ "render_interface" \in local <=> 11 <= step /\ step <= 11
    BY <1>1 DEF DeviceInv, SetupAt
  <2>3. \A m, n \in Nat : SetupAt(m, n)' <=> m <= step + 1 /\ step + 1 <= n
    BY <1>1 DEF SetupAt
  <2> QED
    BY <1>2, <1>3, <2>1, <2>2, <2>3
<1>12. (audio' \in {"none", "exited"} \/ SetupAt(1, 11)') => kept' = {}
  BY <1>1, <1>2, <1>3, <1>8 DEF SetupAt
<1>13. step' \in 1..15 /\ local' \subseteq S!Interfaces /\ kept' \subseteq S!Interfaces
  BY <1>1, <1>2, <1>3 DEF DeviceInv
<1> QED
  BY <1>1, <1>6, <1>10, <1>11, <1>12, <1>13 DEF DeviceInv

(* The other steps: each gives back what it has pointers to, or hands it   *)
(* over.                                                                   *)
LEMMA RestOfDevice ==
  ASSUME DeviceInv,
         \/ S!Renegotiate \/ S!RenegotiateFails \/ S!HandOver \/ S!StepFails
         \/ S!Report \/ S!Play \/ S!Period \/ S!LeaveLoop \/ S!End
  PROVE  DeviceInv'
<1> USE DEF S!AtStep, S!Interfaces
<1>1. /\ step \in 1..15 /\ local \subseteq S!Interfaces /\ kept \subseteq S!Interfaces
      /\ refs \in [S!Interfaces -> Int]
      /\ \A i \in S!Interfaces :
           refs[i] = (IF i \in local THEN 1 ELSE 0) + (IF i \in kept THEN 1 ELSE 0)
  BY DEF DeviceInv, S!InterfacesCounted
<1>2. /\ S!ThreadSteps[step] = "initialize" => step = 7
      /\ S!ThreadSteps[step] = "preroll" => step = 11
      /\ S!ThreadSteps[step] = "report" => step = 13
      /\ S!ThreadSteps[step] = "start_device" => step = 15
  BY <1>1, StepNumbers, StepNames
<1>3. \A pointers : S!Dropped(pointers) \in [S!Interfaces -> Int]
  BY <1>1 DEF S!Dropped
<1>4. CASE S!Renegotiate
  <2>1. /\ audio = "setup" /\ step = 7 /\ step' = 8
        /\ refs' = [refs EXCEPT !["client_interface"] = (@ - 1) + 1]
        /\ UNCHANGED <<audio, local, kept>>
    BY <1>2, <1>4 DEF S!Renegotiate
  <2>2. refs' = refs
    BY <1>1, <2>1
  <2> QED
    BY <2>1, <2>2 DEF DeviceInv, SetupAt, S!InterfacesCounted
<1>5. CASE S!RenegotiateFails
  <2>1. /\ audio = "setup" /\ step = 7 /\ audio' = "end" /\ local' = {}
        /\ UNCHANGED <<step, kept>>
    BY <1>2, <1>5 DEF S!RenegotiateFails
  <2>2. "client_interface" \in local
    BY <2>1 DEF DeviceInv, SetupAt
  <2>3. /\ refs' \in [S!Interfaces -> Int]
        /\ \A i \in S!Interfaces : refs'[i] = IF i \in kept THEN 1 ELSE 0
    <3>1. CASE refs' = S!Dropped(local)
      <4>1. \A i \in S!Interfaces : refs'[i] = refs[i] - IF i \in local THEN 1 ELSE 0
        BY <3>1 DEF S!Dropped
      <4> QED
        BY <1>1, <1>3, <3>1, <4>1
    <3>2. CASE refs' = [S!Dropped(local \ {"client_interface"})
                          EXCEPT !["client_interface"] = @ - 1]
      <4> DEFINE d == S!Dropped(local \ {"client_interface"})
      <4>1. /\ d \in [S!Interfaces -> Int]
            /\ \A i \in S!Interfaces :
                 d[i] = refs[i] - IF i \in local \ {"client_interface"} THEN 1 ELSE 0
        BY <1>3 DEF S!Dropped
      <4> HIDE DEF d
      <4>2. refs' = [d EXCEPT !["client_interface"] = @ - 1]
        BY <3>2 DEF d
      <4>3. refs' \in [S!Interfaces -> Int]
        BY <4>1, <4>2
      <4>4. \A i \in S!Interfaces : refs'[i] = IF i = "client_interface" THEN d[i] - 1 ELSE d[i]
        BY <4>1, <4>2
      <4> QED
        BY <1>1, <2>2, <4>1, <4>3, <4>4
    <3> QED
      BY <1>5, <3>1, <3>2 DEF S!RenegotiateFails
  <2> QED
    BY <1>1, <2>1, <2>3 DEF DeviceInv, SetupAt, S!InterfacesCounted
<1>6. CASE S!HandOver
  <2>1. /\ audio = "setup" /\ step = 11 /\ audio' = "setup" /\ step' = 12
        /\ local' = {}
        /\ kept' = {"client_interface", "render_interface"}
        /\ refs' = [i \in S!Interfaces |-> S!Dropped(local)[i] + IF i \in kept' THEN 1 ELSE 0]
    BY <1>2, <1>6 DEF S!HandOver
  <2>2. kept = {}
    BY <2>1 DEF DeviceInv, SetupAt
  <2>3. \A i \in S!Interfaces : S!Dropped(local)[i] = 0
    BY <1>1, <2>2 DEF S!Dropped
  <2>4. \A i \in S!Interfaces : refs'[i] = IF i \in kept' THEN 1 ELSE 0
    BY <2>1, <2>3
  <2>5. refs' \in [S!Interfaces -> Int]
    BY <2>1, <2>3
  <2> QED
    BY <2>1, <2>4, <2>5 DEF DeviceInv, SetupAt, S!InterfacesCounted
<1>7. CASE S!StepFails
  <2>1. /\ audio = "setup" /\ audio' = "end" /\ local' = {} /\ refs' = S!Dropped(local)
        /\ UNCHANGED <<step, kept>>
    BY <1>7 DEF S!StepFails
  <2>2. \A i \in S!Interfaces : refs'[i] = IF i \in kept THEN 1 ELSE 0
    BY <1>1, <2>1 DEF S!Dropped
  <2> QED
    BY <1>1, <1>3, <2>1, <2>2 DEF DeviceInv, SetupAt, S!InterfacesCounted
<1>8. CASE S!Report
  <2>1. audio = "setup" /\ step = 13 /\ step' = 14 /\ UNCHANGED <<audio, local, kept, refs>>
    BY <1>2, <1>8 DEF S!Report
  <2> QED
    BY <2>1 DEF DeviceInv, SetupAt, S!InterfacesCounted
<1>9. CASE S!Play
  <2>1. audio = "setup" /\ step = 15 /\ audio' = "loop" /\ UNCHANGED <<step, local, kept, refs>>
    BY <1>2, <1>9 DEF S!Play
  <2> QED
    BY <2>1 DEF DeviceInv, SetupAt, S!InterfacesCounted
<1>10. CASE S!Period \/ S!LeaveLoop
  <2>1. /\ audio \in {"loop", "mix"} /\ audio' \in {"loop", "mix", "end"}
        /\ UNCHANGED <<step, local, kept, refs>>
    BY <1>10 DEF S!Period, S!LeaveLoop
  <2> QED
    BY <2>1 DEF DeviceInv, SetupAt, S!InterfacesCounted
<1>11. CASE S!End
  <2>1. /\ audio = "end" /\ audio' = "exited" /\ kept' = {} /\ refs' = S!Dropped(kept)
        /\ UNCHANGED <<step, local>>
    BY <1>11 DEF S!End
  <2>2. local = {}
    BY <1>1, <2>1 DEF DeviceInv, SetupAt
  <2>3. \A i \in S!Interfaces : refs'[i] = 0
    BY <1>1, <2>1, <2>2 DEF S!Dropped
  <2> QED
    BY <1>1, <1>3, <2>1, <2>2, <2>3 DEF DeviceInv, SetupAt, S!InterfacesCounted
<1> QED
  BY <1>4, <1>5, <1>6, <1>7, <1>8, <1>9, <1>10, <1>11

-----------------------------------------------------------------------------
(* The phases of the library: what is live, and which threads run.         *)

(* Everything ds_api_alloc allocates.                                      *)
AllocatedNames ==
  {"api", "wasapi", "started", "stop", "service", "intake", "chamber", "exhaust",
   "client", "pool", "reaper", "fence", "tasks", "tasks_pending"}
(* The thread handles.                                                     *)
Handles == {"reaper_handle", "audio_handle"}

(* The library is complete, and being taken down, whether or not it was.   *)
Up == app \in {"start_audio", "wait"} \/ (app = "returned" /\ outcome = "created")
(* Taking down: ds_api_unref, the last one.                                *)
Down == app \in {"unref", "join_reaper", "stop_audio", "join_audio"}
(* What has returned without an object, or released it.                    *)
Gone == app = "returned" /\ outcome # "created"

(* What is live, and which threads run, in each phase.                     *)
PhaseTypes ==
  /\ app \in {"alloc", "start_audio", "wait", "returned"} \/ Down
  /\ made \in 0..14
  /\ outcome \in {"none", "failed", "created", "released"}
  /\ reaper \in {"none", "running", "exited"}
  /\ reaperStop \in BOOLEAN
  /\ thread \in BOOLEAN
  /\ live \subseteq AllocatedNames \cup Handles \cup Opened

(* What there is to return, and when.                                      *)
OutcomeMatches ==
  /\ app \in {"alloc", "start_audio", "wait"} <=> outcome = "none"
  /\ outcome = "released" => app = "returned"
  /\ thread => outcome = "created"
  /\ outcome = "created" => thread

(* What is allocated.                                                      *)
AllocMatches ==
  /\ app = "alloc" =>
       /\ \A i \in 1..14 : S!Allocations[i] \in live <=> i <= made
       /\ live \cap Handles = {}
       /\ reaper = "none" /\ ~reaperStop
  /\ Up \/ Down => made = 14 /\ S!WasapiFreed \subseteq live

(* The audio thread has a handle while it may run, and opens nothing       *)
(* before and after.                                                       *)
AudioMatches ==
  /\ audio \in {"none", "exited"} => live \cap Opened = {}
  /\ app \in {"alloc", "start_audio"} => audio = "none"
  /\ thread \/ app = "wait" => audio # "none" /\ "audio_handle" \in live
  /\ ~thread /\ app # "wait" => audio \in {"none", "exited"} /\ "audio_handle" \notin live

(* The reaper thread has its lists and its handle while it may run.        *)
ReaperMatches ==
  /\ Up => reaper = "running" /\ ~reaperStop /\ "reaper_handle" \in live
  /\ Up \/ app \in {"unref", "join_reaper"} => S!Reaper \subseteq live
  /\ app \in {"unref", "join_reaper"} => ("reaper_handle" \in live <=> reaper # "none")
  /\ app = "unref" => reaper # "exited" /\ ~reaperStop
  /\ app \in {"stop_audio", "join_audio"} \/ Gone =>
       reaper # "running" /\ live \cap (S!Reaper \cup {"reaper_handle"}) = {}

(* All of it, and what is left when all is done.                           *)
PhaseInv ==
  /\ PhaseTypes
  /\ OutcomeMatches
  /\ AllocMatches
  /\ AudioMatches
  /\ ReaperMatches
  /\ Gone => live \subseteq S!Leaked

(* The allocations, by their numbers.                                      *)
LEMMA AllocationNames ==
  /\ Len(S!Allocations) = 14
  /\ S!Allocations[1] = "api" /\ S!Allocations[2] = "wasapi"
  /\ S!Allocations[3] = "started" /\ S!Allocations[4] = "stop"
  /\ S!Allocations[5] = "service" /\ S!Allocations[6] = "intake"
  /\ S!Allocations[7] = "chamber" /\ S!Allocations[8] = "exhaust"
  /\ S!Allocations[9] = "client" /\ S!Allocations[10] = "pool"
  /\ S!Allocations[11] = "reaper" /\ S!Allocations[12] = "fence"
  /\ S!Allocations[13] = "tasks" /\ S!Allocations[14] = "tasks_pending"
  BY DEF S!Allocations

(* There are fourteen of them.                                             *)
LEMMA AllocationNumbers ==
  ASSUME NEW n \in 1..14
  PROVE  \/ n = 1 \/ n = 2 \/ n = 3 \/ n = 4 \/ n = 5 \/ n = 6 \/ n = 7
         \/ n = 8 \/ n = 9 \/ n = 10 \/ n = 11 \/ n = 12 \/ n = 13 \/ n = 14
  OBVIOUS

(* No two of them are of one thing.                                        *)
LEMMA AllocationsDiffer ==
  ASSUME NEW m \in 1..14, NEW n \in 1..14, S!Allocations[m] = S!Allocations[n]
  PROVE  m = n /\ S!Allocations[m] \in AllocatedNames
  BY AllocationNames, AllocationNumbers DEF AllocatedNames

(* One more allocation.                                                    *)
LEMMA AllocateStep ==
  ASSUME DeviceInv, PhaseInv, S!Allocate
  PROVE  PhaseInv'
<1> USE DEF Up, Down, Gone
<1>1. /\ app = "alloc" /\ made < 14 /\ made' = made + 1
      /\ live' = live \cup {S!Allocations[made + 1]}
      /\ UNCHANGED <<app, outcome, reaper, reaperStop, audio, thread>>
  BY AllocationNames DEF S!Allocate, S!audioVars
<1>2. made \in 0..14 /\ made + 1 \in 1..14
  BY <1>1 DEF PhaseInv, PhaseTypes
<1>3. S!Allocations[made + 1] \in AllocatedNames
  BY <1>2, AllocationsDiffer
<1>4. S!Allocations[made + 1] \notin Handles \cup Opened
  BY <1>3 DEF AllocatedNames, Handles, Opened
<1>5. PhaseTypes'
  BY <1>1, <1>2, <1>3 DEF PhaseInv, PhaseTypes
<1>6. OutcomeMatches'
  BY <1>1 DEF PhaseInv, OutcomeMatches
<1>7. AllocMatches'
  <2>1. \A i \in 1..14 : S!Allocations[i] \in live' <=> i <= made'
    <3> SUFFICES ASSUME NEW i \in 1..14 PROVE S!Allocations[i] \in live' <=> i <= made'
      OBVIOUS
    <3>1. S!Allocations[i] \in live <=> i <= made
      BY <1>1 DEF PhaseInv, AllocMatches
    <3>2. S!Allocations[i] = S!Allocations[made + 1] <=> i = made + 1
      BY <1>2, AllocationsDiffer
    <3> QED
      BY <1>1, <1>2, <3>1, <3>2
  <2> QED
    BY <1>1, <1>4, <2>1 DEF PhaseInv, AllocMatches
<1>8. AudioMatches'
  BY <1>1, <1>4 DEF PhaseInv, AudioMatches, Handles
<1>9. ReaperMatches'
  BY <1>1 DEF PhaseInv, ReaperMatches
<1> QED
  BY <1>1, <1>5, <1>6, <1>7, <1>8, <1>9 DEF PhaseInv

(* One that fails: all but the wasapi structure goes.                      *)
LEMMA AllocateFailsStep ==
  ASSUME DeviceInv, PhaseInv, S!AllocateFails
  PROVE  PhaseInv'
<1> USE DEF Up, Down, Gone
<1>1. /\ app = "alloc" /\ made < 14 /\ app' = "returned" /\ outcome' = "failed"
      /\ live' = live \ (S!WasapiFreed \cup S!Reaper \cup S!Client \cup {"api"})
      /\ UNCHANGED <<made, reaper, reaperStop, audio, thread>>
  BY AllocationNames DEF S!AllocateFails, S!audioVars
<1>2. /\ audio = "none" /\ outcome = "none" /\ ~thread /\ reaper = "none"
      /\ live \cap Opened = {} /\ live \cap Handles = {}
  BY <1>1 DEF PhaseInv, OutcomeMatches, AllocMatches, AudioMatches
<1>3. live' \subseteq {"wasapi"}
  BY <1>1, <1>2
     DEF PhaseInv, PhaseTypes, AllocatedNames, S!WasapiFreed, S!Reaper, S!Client, S!Service
<1>4. PhaseTypes'
  BY <1>1, <1>3 DEF PhaseInv, PhaseTypes, AllocatedNames
<1>5. OutcomeMatches' /\ AllocMatches'
  BY <1>1, <1>2 DEF OutcomeMatches, AllocMatches
<1>6. AudioMatches' /\ ReaperMatches'
  BY <1>1, <1>2, <1>3 DEF AudioMatches, ReaperMatches, Opened, S!Reaper
<1> QED
  BY <1>1, <1>3, <1>4, <1>5, <1>6 DEF PhaseInv, S!Leaked

(* All there is before the threads are started.                            *)
LEMMA AllAllocated ==
  ASSUME PhaseInv, app = "alloc", made = 14
  PROVE  AllocatedNames \subseteq live
<1>1. \A i \in 1..14 : S!Allocations[i] \in live
  BY DEF PhaseInv, AllocMatches
<1> QED
  BY <1>1, AllocationNames DEF AllocatedNames

(* The threads are started, or not.                                        *)
LEMMA StartsStep ==
  ASSUME DeviceInv, PhaseInv,
         S!StartReaper \/ S!StartReaperFails \/ S!StartAudio \/ S!StartAudioFails
  PROVE  PhaseInv'
<1> USE DEF Up, Down, Gone
<1>1. CASE S!StartReaper \/ S!StartReaperFails
  <2>1. /\ app = "alloc" /\ made = 14
        /\ UNCHANGED <<made, reaperStop, audio, thread>>
    BY <1>1, AllocationNames DEF S!StartReaper, S!StartReaperFails, S!audioVars
  <2>2. AllocatedNames \subseteq live
    BY <2>1, AllAllocated
  <2>3. S!WasapiFreed \cup S!Reaper \subseteq live
    BY <2>2 DEF AllocatedNames, S!WasapiFreed, S!Service, S!Reaper
  <2>4. /\ audio = "none" /\ outcome = "none" /\ ~thread /\ reaper = "none" /\ ~reaperStop
        /\ live \cap Opened = {} /\ live \cap Handles = {}
        /\ live \subseteq AllocatedNames \cup Handles \cup Opened /\ made \in 0..14
    BY <2>1 DEF PhaseInv, OutcomeMatches, AllocMatches, AudioMatches, PhaseTypes
  <2>5. CASE S!StartReaper
    <3>1. /\ app' = "start_audio" /\ reaper' = "running" /\ outcome' = outcome
          /\ live' = live \cup {"reaper_handle"}
      BY <2>5 DEF S!StartReaper
    <3>2. live' \cap Opened = {} /\ "audio_handle" \notin live'
      BY <2>4, <3>1 DEF Opened, Handles
    <3>3. PhaseTypes'
      BY <2>1, <3>1 DEF PhaseInv, PhaseTypes, Handles
    <3> QED
      BY <2>1, <2>3, <2>4, <3>1, <3>2, <3>3
         DEF PhaseInv, OutcomeMatches, AllocMatches, AudioMatches, ReaperMatches
  <2>6. CASE S!StartReaperFails
    <3>1. app' = "unref" /\ outcome' = "failed" /\ UNCHANGED <<live, reaper>>
      BY <2>6 DEF S!StartReaperFails
    <3>2. PhaseTypes'
      BY <2>1, <3>1 DEF PhaseInv, PhaseTypes
    <3> QED
      BY <2>1, <2>3, <2>4, <3>1, <3>2
         DEF PhaseInv, OutcomeMatches, AllocMatches, AudioMatches, ReaperMatches, Handles
  <2> QED
    BY <1>1, <2>5, <2>6
<1>2. CASE S!StartAudio
  <2>1. /\ app = "start_audio" /\ app' = "wait" /\ audio' = "setup"
        /\ live' = live \cup {"audio_handle"}
        /\ UNCHANGED <<made, outcome, reaper, reaperStop, thread>>
    BY <1>2 DEF S!StartAudio
  <2>2. PhaseTypes'
    BY <2>1 DEF PhaseInv, PhaseTypes, Handles
  <2>3. OutcomeMatches' /\ AllocMatches' /\ AudioMatches'
    BY <2>1 DEF PhaseInv, OutcomeMatches, AllocMatches, AudioMatches
  <2>4. ReaperMatches'
    BY <2>1 DEF PhaseInv, ReaperMatches
  <2> QED
    BY <2>1, <2>2, <2>3, <2>4 DEF PhaseInv
<1>3. CASE S!StartAudioFails
  <2>1. /\ app = "start_audio" /\ app' = "unref" /\ outcome' = "failed"
        /\ UNCHANGED <<made, live, reaper, reaperStop, audio, thread>>
    BY <1>3 DEF S!StartAudioFails, S!audioVars
  <2>2. PhaseTypes'
    BY <2>1 DEF PhaseInv, PhaseTypes
  <2>3. OutcomeMatches' /\ AllocMatches' /\ AudioMatches'
    BY <2>1 DEF PhaseInv, OutcomeMatches, AllocMatches, AudioMatches
  <2>4. ReaperMatches'
    BY <2>1 DEF PhaseInv, ReaperMatches
  <2> QED
    BY <2>1, <2>2, <2>3, <2>4 DEF PhaseInv
<1> QED
  BY <1>1, <1>2, <1>3

(* The wait for the audio thread ends; and the last release.               *)
LEMMA WaitsStep ==
  ASSUME DeviceInv, PhaseInv, S!WaitStarted \/ S!WaitExited \/ S!Release
  PROVE  PhaseInv'
<1> USE DEF Up, Down, Gone
<1>1. CASE S!WaitStarted
  <2>1. /\ app = "wait" /\ app' = "returned" /\ outcome' = "created" /\ thread' = TRUE
        /\ UNCHANGED <<made, live, reaper, reaperStop, audio>>
    BY <1>1 DEF S!WaitStarted, S!audioVars
  <2>2. PhaseTypes'
    BY <2>1 DEF PhaseInv, PhaseTypes
  <2>3. OutcomeMatches' /\ AllocMatches' /\ AudioMatches'
    BY <2>1 DEF PhaseInv, OutcomeMatches, AllocMatches, AudioMatches
  <2>4. ReaperMatches'
    BY <2>1 DEF PhaseInv, ReaperMatches
  <2> QED
    BY <2>1, <2>2, <2>3, <2>4 DEF PhaseInv
<1>2. CASE S!WaitExited
  <2>1. /\ app = "wait" /\ audio = "exited" /\ app' = "unref" /\ outcome' = "failed"
        /\ live' = live \ {"audio_handle"}
        /\ UNCHANGED <<made, reaper, reaperStop, audio, thread>>
    BY <1>2 DEF S!WaitExited, S!audioVars
  <2>2. PhaseTypes'
    BY <2>1 DEF PhaseInv, PhaseTypes
  <2>3. OutcomeMatches' /\ AllocMatches' /\ AudioMatches'
    BY <2>1 DEF PhaseInv, OutcomeMatches, AllocMatches, AudioMatches, S!WasapiFreed, S!Service
  <2>4. ReaperMatches'
    BY <2>1 DEF PhaseInv, ReaperMatches, S!Reaper
  <2> QED
    BY <2>1, <2>2, <2>3, <2>4 DEF PhaseInv
<1>3. CASE S!Release
  <2>1. /\ app = "returned" /\ outcome = "created" /\ app' = "unref"
        /\ UNCHANGED <<made, outcome, live, reaper, reaperStop, audio, thread>>
    BY <1>3 DEF S!Release, S!audioVars
  <2>2. PhaseTypes'
    BY <2>1 DEF PhaseInv, PhaseTypes
  <2>3. OutcomeMatches' /\ AllocMatches' /\ AudioMatches'
    BY <2>1 DEF PhaseInv, OutcomeMatches, AllocMatches, AudioMatches
  <2>4. ReaperMatches'
    BY <2>1 DEF PhaseInv, ReaperMatches
  <2> QED
    BY <2>1, <2>2, <2>3, <2>4 DEF PhaseInv
<1> QED
  BY <1>1, <1>2, <1>3

(* The steps of the last ds_api_unref, and the end of the reaper.          *)
LEMMA UnrefStep ==
  ASSUME DeviceInv, PhaseInv,
         \/ S!UnrefStopReaper \/ S!UnrefFreeReaper \/ S!UnrefStopAudio \/ S!UnrefFreeWasapi
         \/ S!ReaperExits
  PROVE  PhaseInv'
<1> USE DEF Up, Down, Gone
<1>1. CASE S!UnrefStopReaper
  <2>1. /\ app = "unref" /\ app' = "join_reaper"
        /\ reaperStop' = ("reaper_handle" \in live)
        /\ UNCHANGED <<made, outcome, live, reaper, audio, thread>>
    BY <1>1 DEF S!UnrefStopReaper, S!audioVars
  <2>2. PhaseTypes'
    BY <2>1 DEF PhaseInv, PhaseTypes
  <2>3. OutcomeMatches' /\ AllocMatches' /\ AudioMatches'
    BY <2>1 DEF PhaseInv, OutcomeMatches, AllocMatches, AudioMatches
  <2>4. ReaperMatches'
    BY <2>1 DEF PhaseInv, ReaperMatches
  <2> QED
    BY <2>1, <2>2, <2>3, <2>4 DEF PhaseInv
<1>2. CASE S!UnrefFreeReaper
  <2>1. /\ app = "join_reaper" /\ app' = "stop_audio"
        /\ "reaper_handle" \in live => reaper = "exited"
        /\ live' = live \ (S!Reaper \cup {"reaper_handle"})
        /\ UNCHANGED <<made, outcome, reaper, reaperStop, audio, thread>>
    BY <1>2 DEF S!UnrefFreeReaper, S!audioVars
  <2>2. PhaseTypes'
    BY <2>1 DEF PhaseInv, PhaseTypes
  <2>3. "audio_handle" \in live' <=> "audio_handle" \in live
    BY <2>1 DEF S!Reaper
  <2>4. S!WasapiFreed \subseteq live'
    BY <2>1 DEF PhaseInv, AllocMatches, S!WasapiFreed, S!Service, S!Reaper
  <2>5. OutcomeMatches' /\ AllocMatches' /\ AudioMatches'
    BY <2>1, <2>3, <2>4 DEF PhaseInv, OutcomeMatches, AllocMatches, AudioMatches
  <2>6. ReaperMatches'
    BY <2>1 DEF PhaseInv, ReaperMatches
  <2> QED
    BY <2>1, <2>2, <2>5, <2>6 DEF PhaseInv
<1>3. CASE S!UnrefStopAudio
  <2>1. /\ app = "stop_audio" /\ app' = "join_audio"
        /\ UNCHANGED <<made, outcome, live, reaper, reaperStop, audio, thread>>
    BY <1>3 DEF S!UnrefStopAudio, S!audioVars
  <2>2. PhaseTypes'
    BY <2>1 DEF PhaseInv, PhaseTypes
  <2>3. OutcomeMatches' /\ AllocMatches' /\ AudioMatches'
    BY <2>1 DEF PhaseInv, OutcomeMatches, AllocMatches, AudioMatches
  <2>4. ReaperMatches'
    BY <2>1 DEF PhaseInv, ReaperMatches
  <2> QED
    BY <2>1, <2>2, <2>3, <2>4 DEF PhaseInv
<1>4. CASE S!UnrefFreeWasapi
  <2>1. /\ app = "join_audio" /\ app' = "returned"
        /\ thread => audio = "exited"
        /\ outcome' = IF outcome = "created" THEN "released" ELSE outcome
        /\ live' = live \ (S!WasapiFreed \cup {"api"} \cup IF thread THEN {"audio_handle"} ELSE {})
        /\ thread' = FALSE
        /\ UNCHANGED <<made, reaper, reaperStop, audio>>
    BY <1>4 DEF S!UnrefFreeWasapi, S!audioVars
  <2>2. /\ audio \in {"none", "exited"} /\ "audio_handle" \notin live'
    BY <2>1 DEF PhaseInv, AudioMatches
  <2>3. /\ outcome \in {"failed", "created"} /\ outcome' \in {"failed", "released"}
    BY <2>1 DEF PhaseInv, PhaseTypes, OutcomeMatches
  <2>4. PhaseTypes'
    BY <2>1, <2>3 DEF PhaseInv, PhaseTypes
  <2>5. live' \subseteq S!Leaked'
    <3>1. /\ live \cap Opened = {} /\ live \cap (S!Reaper \cup {"reaper_handle"}) = {}
          /\ live \subseteq AllocatedNames \cup Handles \cup Opened /\ made' = 14
      BY <2>1, <2>2 DEF PhaseInv, PhaseTypes, AudioMatches, ReaperMatches, AllocMatches
    <3> QED
      BY <2>1, <2>2, <3>1, AllocationNames
         DEF S!Leaked, AllocatedNames, Handles, S!Reaper, S!WasapiFreed, S!Service, S!Client
  <2>6. OutcomeMatches' /\ AllocMatches' /\ AudioMatches'
    BY <2>1, <2>2, <2>3 DEF PhaseInv, OutcomeMatches, AllocMatches, AudioMatches
  <2>7. ReaperMatches'
    BY <2>1, <2>3 DEF PhaseInv, ReaperMatches
  <2> QED
    BY <2>1, <2>4, <2>5, <2>6, <2>7 DEF PhaseInv
<1>5. CASE S!ReaperExits
  <2>1. /\ reaper = "running" /\ reaperStop /\ reaper' = "exited"
        /\ UNCHANGED <<app, made, outcome, live, reaperStop, audio, thread>>
    BY <1>5 DEF S!ReaperExits, S!appVars, S!audioVars
  <2>2. PhaseTypes'
    BY <2>1 DEF PhaseInv, PhaseTypes
  <2>3. OutcomeMatches' /\ AllocMatches' /\ AudioMatches'
    BY <2>1 DEF PhaseInv, OutcomeMatches, AllocMatches, AudioMatches
  <2>4. ReaperMatches'
    BY <2>1 DEF PhaseInv, ReaperMatches, AllocMatches
  <2> QED
    BY <2>1, <2>2, <2>3, <2>4 DEF PhaseInv, S!Leaked
<1> QED
  BY <1>1, <1>2, <1>3, <1>4, <1>5

(* What the audio thread does to the rest.                                 *)
LEMMA AudioEffect ==
  ASSUME S!Audio
  PROVE  /\ audio \notin {"none", "exited"} /\ audio' # "none"
         /\ \A x : x \in live' => x \in live \cup Opened
         /\ \A x : x \in live /\ x \notin Opened => x \in live'
         /\ audio' = "exited" => live' \cap Opened = {}
         /\ UNCHANGED <<app, made, outcome, reaper, reaperStop, thread>>
<1> USE DEF S!appVars, Opened, S!AtStep
<1>1. CASE S!Open
  BY <1>1 DEF S!Open, S!Opens
<1>2. CASE S!Renegotiate \/ S!RenegotiateFails \/ S!HandOver \/ S!StepFails
  BY <1>2 DEF S!Renegotiate, S!RenegotiateFails, S!HandOver, S!StepFails
<1>3. CASE S!Report \/ S!Play \/ S!Period \/ S!LeaveLoop
  BY <1>3 DEF S!Report, S!Play, S!Period, S!LeaveLoop
<1>4. CASE S!End
  BY <1>4 DEF S!End
<1> QED
  BY <1>1, <1>2, <1>3, <1>4 DEF S!Audio

(* So none of them changes the phase.                                      *)
LEMMA AudioPhase ==
  ASSUME DeviceInv, PhaseInv, S!Audio
  PROVE  PhaseInv'
<1> USE DEF Up, Down, Gone
<1>1. /\ audio \notin {"none", "exited"} /\ audio' # "none"
      /\ \A x : x \in live' => x \in live \cup Opened
      /\ \A x : x \in live /\ x \notin Opened => x \in live'
      /\ audio' = "exited" => live' \cap Opened = {}
      /\ UNCHANGED <<app, made, outcome, reaper, reaperStop, thread>>
  BY AudioEffect
<1>2. thread \/ app = "wait"
  BY <1>1 DEF PhaseInv, AudioMatches
<1>3. ~Gone /\ app # "alloc" /\ app # "start_audio"
  BY <1>1, <1>2 DEF PhaseInv, OutcomeMatches, AudioMatches
<1>4. \A x : x \notin Opened => (x \in live' <=> x \in live)
  BY <1>1
<1>5. "audio_handle" \notin Opened /\ "reaper_handle" \notin Opened
      /\ S!Reaper \cap Opened = {} /\ S!WasapiFreed \cap Opened = {}
  BY DEF Opened, S!Reaper, S!WasapiFreed, S!Service
<1>6. PhaseTypes'
  BY <1>1 DEF PhaseInv, PhaseTypes
<1>7. OutcomeMatches'
  BY <1>1 DEF PhaseInv, OutcomeMatches
<1>8. AllocMatches'
  BY <1>1, <1>3, <1>4, <1>5 DEF PhaseInv, AllocMatches
<1>9. AudioMatches'
  BY <1>1, <1>2, <1>3, <1>4, <1>5 DEF PhaseInv, AudioMatches
<1>10. ReaperMatches'
  BY <1>1, <1>3, <1>4, <1>5 DEF PhaseInv, ReaperMatches
<1> QED
  BY <1>1, <1>3, <1>6, <1>7, <1>8, <1>9, <1>10 DEF PhaseInv

(* At first there is nothing.                                              *)
LEMMA InitPhase == S!Init => DeviceInv /\ PhaseInv
<1> SUFFICES ASSUME S!Init PROVE DeviceInv /\ PhaseInv
  OBVIOUS
<1>1. DeviceInv
  BY DEF S!Init, DeviceInv, SetupAt, S!InterfacesCounted, S!Interfaces
<1>2. PhaseTypes
  <2>1. /\ app = "alloc" /\ made = 0 /\ outcome = "none" /\ live = {} /\ reaper = "none"
        /\ reaperStop = FALSE /\ thread = FALSE
    BY DEF S!Init
  <2>2. reaperStop \in BOOLEAN /\ thread \in BOOLEAN
    BY <2>1, Zenon
  <2>3. made \in 0..14
    BY <2>1
  <2> QED
    BY <2>1, <2>2, <2>3 DEF PhaseTypes
<1>4. OutcomeMatches /\ AudioMatches
  BY DEF S!Init, OutcomeMatches, AudioMatches
<1>3. AllocMatches /\ ReaperMatches
  BY AllocationNumbers, AllocationNames DEF S!Init, AllocMatches, ReaperMatches, Up, Down, Gone
<1> QED
  BY <1>1, <1>2, <1>3, <1>4 DEF S!Init, PhaseInv, Gone

(* The application thread starts the audio thread and leaves the rest to   *)
(* it.                                                                     *)
LEMMA AppDevice ==
  ASSUME DeviceInv, PhaseInv, S!App \/ S!Release \/ S!ReaperExits
  PROVE  DeviceInv'
<1>1. CASE S!StartAudio
  <2>1. audio = "none" /\ audio' = "setup" /\ UNCHANGED <<step, local, kept, refs>>
    BY <1>1 DEF S!StartAudio, PhaseInv, AudioMatches
  <2> QED
    BY <2>1 DEF DeviceInv, SetupAt, S!InterfacesCounted
<1>2. CASE ~S!StartAudio
  <2>1. UNCHANGED <<audio, step, local, kept, refs>>
    BY <1>2
       DEF S!App, S!Release, S!ReaperExits, S!Allocate, S!AllocateFails, S!StartReaper,
           S!StartReaperFails, S!StartAudioFails, S!WaitStarted, S!WaitExited, S!UnrefStopReaper,
           S!UnrefFreeReaper, S!UnrefStopAudio, S!UnrefFreeWasapi, S!audioVars
  <2> QED
    BY <2>1 DEF DeviceInv, SetupAt, S!InterfacesCounted
<1> QED
  BY <1>1, <1>2

(* A step of the start-up or the shutdown.                                 *)
LEMMA StartupStep ==
  ASSUME DeviceInv, PhaseInv, S!App \/ S!Release \/ S!ReaperExits \/ S!Audio
  PROVE  DeviceInv' /\ PhaseInv'
<1>1. CASE S!Audio
  <2>1. DeviceInv'
    BY <1>1, OpenDevice, RestOfDevice DEF S!Audio
  <2> QED
    BY <1>1, <2>1, AudioPhase
<1>2. CASE S!App \/ S!Release \/ S!ReaperExits
  <2>1. DeviceInv'
    BY <1>2, AppDevice
  <2>2. PhaseInv'
    BY <1>2, AllocateStep, AllocateFailsStep, StartsStep, WaitsStep, UnrefStep DEF S!App
  <2> QED
    BY <2>1, <2>2
<1> QED
  BY <1>1, <1>2

-----------------------------------------------------------------------------
(* The whole: the start-up, the buffers and the shutdown together.         *)

(* The reaper runs while it has something to free, and nothing refers to   *)
(* the API object once the last release has begun.                         *)
LifeInv ==
  /\ tasks # <<>> => reaper = "running"
  /\ \A t \in Threads : call[t].at = "shutdown" => rc[Api] = 0
  /\ outcome = "released" \/ (Down /\ outcome = "created") => rc[Api] = 0

(* Once nothing refers to the API object nothing does again; and a thread  *)
(* begins the shutdown when that is so.                                    *)
LEMMA ApiCount ==
  ASSUME IInv, SamplesInv, PartsInv, Calls
  PROVE  /\ rc[Api] = 0 => rc'[Api] = 0
         /\ \A u \in Threads :
              call'[u].at = "shutdown" => call[u].at = "shutdown" \/ rc'[Api] = 0
<1>1. PICK t \in Threads :
        \/ \E b \in Buffers : Create(t, b)
        \/ \E b, src \in Buffers : Duplicate(t, b, src)
        \/ \E b \in Buffers : CreatePrimary(t, b)
        \/ AllocClient(t)
        \/ NoClient(t)
        \/ AllocSelf(t)
        \/ NoSelf(t)
        \/ Size(t)
        \/ AllocPart(t, "samples", "stream")
        \/ AllocPart(t, "stream", "task")
        \/ AllocPart(t, "task", "command")
        \/ \E what \in Failures : Unwind(t, what)
        \/ Commit(t)
        \/ Return(t)
        \/ \E x \in Objects, u \in Threads : AddRef(t, x, u)
        \/ \E x \in Objects : Release(t, x)
        \/ Destroy(t)
        \/ Notify(t)
  BY DEF Calls
<1>2. /\ Api \in Objects /\ Api \notin Buffers /\ Api # Nobody
      /\ rc \in [Objects -> Nat] /\ rc' \in [Objects -> Nat]
  <2>1. IInv'
    BY CallsStep
  <2> QED
    BY <2>1, CreationAssumption DEF IInv, TypeOK, Objects
<1>3. call \in [Threads -> CallRecords]
  BY DEF IInv, TypeOK, CallRecords
<1>4. Api \in held[t] => rc[Api] > 0
  BY <1>2, Holding
<1>5. CASE (\E b \in Buffers : Create(t, b)) \/ (\E b, src \in Buffers : Duplicate(t, b, src))
  <2>1. PICK b, src : call' = [call EXCEPT ![t] = [at |-> "client", new |-> b, src |-> src]]
    BY <1>5 DEF Create, Duplicate
  <2>2. Api \in held[t]
    BY <1>5 DEF Create, Duplicate
  <2> QED
    BY <1>2, <1>3, <1>4, <2>1, <2>2
<1>6. CASE \/ \E b \in Buffers : CreatePrimary(t, b)
           \/ \E x \in Objects, u \in Threads : AddRef(t, x, u)
           \/ \E what \in Failures : Unwind(t, what)
  <2>1. call' = call
    BY <1>6 DEF CreatePrimary, AddRef, Unwind
  <2>2. rc[Api] = 0 => rc'[Api] = 0
    <3>1. CASE \E b \in Buffers : CreatePrimary(t, b)
      BY <1>2, <1>4, <3>1 DEF CreatePrimary
    <3>2. CASE \E x \in Objects, u \in Threads : AddRef(t, x, u)
      <4>1. PICK x \in Objects, u \in Threads : AddRef(t, x, u)
        BY <3>2
      <4>2. x \in held[t] /\ rc' = [rc EXCEPT ![x] = @ + 1]
        BY <4>1 DEF AddRef
      <4> QED
        BY <1>2, <1>4, <4>2
    <3>3. CASE \E what \in Failures : Unwind(t, what)
      BY <3>3 DEF Unwind
    <3> QED
      BY <1>6, <3>1, <3>2, <3>3
  <2> QED
    BY <2>1, <2>2
<1>7. CASE \/ AllocClient(t) \/ NoClient(t) \/ AllocSelf(t) \/ NoSelf(t) \/ Size(t)
           \/ AllocPart(t, "samples", "stream")
           \/ AllocPart(t, "stream", "task")
           \/ AllocPart(t, "task", "command")
           \/ Commit(t)
  <2>1. Creating(t)
    BY <1>7 DEF AllocClient, NoClient, AllocSelf, NoSelf, Size, AllocPart, Commit, At, Creating, Failures
  <2>2. rc[Api] > 0
    BY <1>4, <2>1 DEF PartsInv, UsedHeld, InUse
  <2>3. PICK label \in Labels \ {"shutdown"} : Goto(t, label)
    BY <1>7 DEF AllocClient, NoClient, AllocSelf, NoSelf, Size, AllocPart, Commit, Labels, Failures
  <2>4. /\ call'[t] = [at |-> label, new |-> call[t].new, src |-> call[t].src]
        /\ \A u \in Threads \ {t} : call'[u] = call[u]
    BY <2>3, GotoCalls DEF IInv
  <2> QED
    BY <1>2, <2>2, <2>4
<1>8. CASE Destroy(t)
  <2>1. Goto(t, "notify") /\ "notify" \in Labels /\ rc' = rc
    BY <1>8 DEF Destroy, Labels
  <2>2. /\ call'[t] = [at |-> "notify", new |-> call[t].new, src |-> call[t].src]
        /\ \A u \in Threads \ {t} : call'[u] = call[u]
    BY <2>1, GotoCalls DEF IInv
  <2> QED
    BY <2>1, <2>2
<1>9. CASE Return(t)
  <2>1. /\ rc' = [x \in Objects |-> IF x = call[t].src THEN rc[x] - 1 ELSE rc[x]]
        /\ call' = [call EXCEPT ![t] = NoCall]
    BY <1>9 DEF Return
  <2>2. call[t].src # Api
    BY <1>2, <1>3 DEF CallRecords
  <2>3. rc'[Api] = rc[Api]
    BY <1>2, <2>1, <2>2
  <2>4. \A u \in Threads : call'[u].at = "shutdown" => call[u].at = "shutdown"
    BY <1>3, <2>1 DEF NoCall
  <2> QED
    BY <2>3, <2>4
<1>10. ASSUME NEW x \in Objects, rc[x] > 0, rc' = [rc EXCEPT ![x] = @ - 1], Continue(t, x)
       PROVE  /\ rc[Api] = 0 => rc'[Api] = 0
              /\ \A u \in Threads :
                   call'[u].at = "shutdown" => call[u].at = "shutdown" \/ rc'[Api] = 0
  <2>1. rc[x] \in Nat
    BY <1>2
  <2>2. call'[t].at = "shutdown" => x = Api /\ rc[x] <= 1
    BY <1>10, <2>1, ContinueEnds DEF IInv
  <2>3. \A u \in Threads \ {t} : call'[u] = call[u]
    BY <1>10, <2>1, ContinueCall DEF IInv
  <2>4. x = Api /\ rc[x] <= 1 => rc'[Api] = 0
    BY <1>2, <1>10, <2>1
  <2>5. rc[Api] = 0 => rc'[Api] = 0
    BY <1>2, <1>10
  <2> QED
    BY <2>2, <2>3, <2>4, <2>5
<1>11. CASE \E x \in Objects : Release(t, x)
  <2>1. PICK x \in Objects : Release(t, x)
    BY <1>11
  <2>2. x \in held[t] /\ rc' = [rc EXCEPT ![x] = @ - 1] /\ Continue(t, x)
    BY <2>1 DEF Release
  <2>3. rc[x] > 0
    BY <2>2, Holding
  <2> QED
    BY <1>10, <2>2, <2>3
<1>12. CASE Notify(t)
  <2>1. PICK x : x = parent[call[t].new] /\ rc' = [rc EXCEPT ![x] = @ - 1] /\ Continue(t, x)
    BY <1>12 DEF Notify
  <2>2. call[t].new \in Buffers \ primary /\ Has(call[t].new, "self")
    BY <1>12 DEF Notify, At, IInv, CallsMatch, CallMatches, Destroying
  <2>3. x \in Objects
    BY <2>1, <2>2 DEF IInv, BuffersMatch, BufferMatches, TypeOK
  <2>4. rc[x] > 0
    BY <2>1, <2>2, <2>3, Holding
  <2> QED
    BY <1>10, <2>1, <2>3, <2>4
<1> QED
  BY <1>1, <1>5, <1>6, <1>7, <1>8, <1>9, <1>11, <1>12

(* What is left when nothing refers to the API object and the reaper has   *)
(* freed its tasks.                                                        *)
LEMMA HeapLeft ==
  ASSUME IInv, SamplesInv, PartsInv, rc[Api] = 0, tasks = <<>>
  PROVE  heap \subseteq {"self"} \X primary
<1>1. Api \in Objects
  BY DEF Objects
<1>2. \A t \in Threads : ~Creating(t)
  BY <1>1, Holding DEF PartsInv, UsedHeld, InUse
<1>3. \A b \in Buffers : parent[b] = Nobody
  <2> DEFINE L == {b \in Buffers : parent[b] # Nobody}
  <2>1. ASSUME NEW b \in L PROVE parent[b] \in L
    <3>1. parent[b] \in Objects \ {Api} /\ rc[parent[b]] > 0
      <4>1. b \in Buffers /\ parent[b] \in Objects
        BY DEF IInv, TypeOK
      <4>2. rc[parent[b]] > 0
        BY <4>1, Holding
      <4> QED
        BY <4>1, <4>2
    <3>2. parent[b] \in Buffers /\ Has(parent[b], "self")
      BY <3>1 DEF Objects, IInv, BuffersMatch, BufferMatches
    <3>3. parent[b] \notin primary
      BY DEF SamplesInv, MadeAlone, Lonely
    <3> QED
      BY <3>2, <3>3 DEF IInv, BuffersMatch, BufferMatches
  <2>2. L \in SUBSET Buffers
    OBVIOUS
  <2>3. L = {}
    <3> HIDE DEF L
    <3> QED
      BY <2>1, <2>2, Ancestor DEF SamplesInv
  <2> QED
    BY <2>3
<1>4. \A b : ~Pending(b)
  BY DEF Pending
<1> SUFFICES \A part \in Parts, b \in Buffers : Has(b, part) => part = "self" /\ b \in primary
  <2>1. heap \subseteq Parts \X Buffers
    BY DEF IInv, TypeOK
  <2> QED
    BY <2>1 DEF Has
<1> SUFFICES ASSUME NEW part \in Parts, NEW b \in Buffers, Has(b, part)
             PROVE  part = "self" /\ b \in primary
  OBVIOUS
<1>5. ~Has(b, "self") \/ b \in primary
  BY <1>3 DEF IInv, BuffersMatch, BufferMatches
<1>6. PartsMatch(b) /\ Streamed(b)
  BY DEF PartsInv, AllPartsMatch, SamplesInv, AllStreamed
<1>7. ~InPlace(b) /\ ~StepAt(b, {"self"}) /\ ~SamplesMade(b)
  BY <1>2, <1>5 DEF InPlace, StepAt, SamplesMade, Creating, Failures
<1>8. ~Has(b, "client") /\ ~Has(b, "task")
  BY <1>4, <1>6, <1>7 DEF PartsMatch
<1>9. ~Has(b, "stream")
  BY <1>4, <1>5, <1>6 DEF Streamed
<1>10. ~Has(b, "samples")
  BY <1>6, <1>7, <1>9 DEF PartsMatch
<1> QED
  BY <1>5, <1>8, <1>9, <1>10 DEF Parts

(* What bringing up and taking down leaves as it is.                       *)
LEMMA AppEffect ==
  ASSUME S!App
  PROVE  /\ reaper' # "running" => reaper # "running"
         /\ (outcome' = "released" \/ (Down' /\ outcome' = "created")) =>
              (outcome = "released" \/ (Down /\ outcome = "created"))
<1> USE DEF Down
<1>1. CASE S!Allocate \/ S!AllocateFails
  BY <1>1 DEF S!Allocate, S!AllocateFails
<1>5. CASE S!StartReaper \/ S!StartReaperFails
  BY <1>5 DEF S!StartReaper, S!StartReaperFails
<1>2. CASE S!StartAudio \/ S!StartAudioFails \/ S!WaitStarted \/ S!WaitExited
  BY <1>2 DEF S!StartAudio, S!StartAudioFails, S!WaitStarted, S!WaitExited
<1>3. CASE S!UnrefStopReaper \/ S!UnrefFreeReaper \/ S!UnrefStopAudio
  BY <1>3 DEF S!UnrefStopReaper, S!UnrefFreeReaper, S!UnrefStopAudio
<1>4. CASE S!UnrefFreeWasapi
  BY <1>4 DEF S!UnrefFreeWasapi
<1> QED
  BY <1>1, <1>2, <1>3, <1>4, <1>5 DEF S!App

(* The inductive invariant of the whole.                                   *)
WholeInv == IInv /\ SamplesInv /\ PartsInv /\ DeviceInv /\ PhaseInv /\ LifeInv

(* Every step of the whole keeps the part of it that is about the threads. *)
LEMMA NextWhole == WholeInv /\ [ApiNext]_allVars => DeviceInv' /\ PhaseInv' /\ LifeInv'
<1> SUFFICES ASSUME WholeInv, [ApiNext]_allVars PROVE DeviceInv' /\ PhaseInv' /\ LifeInv'
  OBVIOUS
<1> USE DEF WholeInv
<1>1. ASSUME UNCHANGED startupVars PROVE DeviceInv' /\ PhaseInv'
  <2>1. DeviceInv'
    BY <1>1 DEF startupVars, DeviceInv, SetupAt, S!InterfacesCounted
  <2>2. PhaseTypes' /\ OutcomeMatches' /\ AllocMatches'
    BY <1>1 DEF startupVars, PhaseInv, PhaseTypes, OutcomeMatches, AllocMatches, Up, Down
  <2>3. AudioMatches' /\ ReaperMatches' /\ (Gone => live \subseteq S!Leaked)'
    BY <1>1 DEF startupVars, PhaseInv, AudioMatches, ReaperMatches, Up, Down, Gone, S!Leaked
  <2> QED
    BY <2>1, <2>2, <2>3 DEF PhaseInv
<1>2. CASE BringUpAndDown
  <2>1. S!App /\ UNCHANGED vars
    BY <1>2 DEF BringUpAndDown
  <2>2. LifeInv'
    BY <2>1, AppEffect DEF LifeInv, vars
  <2> QED
    BY <2>1, <2>2, StartupStep
<1>3. CASE PlayPeriods
  <2>1. S!Audio /\ UNCHANGED vars
    BY <1>3 DEF PlayPeriods
  <2>2. LifeInv'
    BY <2>1, AudioEffect DEF LifeInv, Down, vars
  <2> QED
    BY <2>1, <2>2, StartupStep
<1>4. CASE UseObject
  <2>1. Created /\ Calls /\ UNCHANGED startupVars
    BY <1>4 DEF UseObject
  <2>2. reaper = "running"
    BY <2>1 DEF Created, PhaseInv, ReaperMatches, Up
  <2>3. LifeInv'
    BY <2>1, <2>2, ApiCount DEF LifeInv, startupVars, Created, Down
  <2> QED
    BY <1>1, <2>1, <2>3
<1>5. CASE ReaperFrees
  <2>1. reaper = "running" /\ Reap /\ UNCHANGED startupVars
    BY <1>5 DEF ReaperFrees
  <2>2. LifeInv'
    BY <2>1 DEF LifeInv, startupVars, Reap, Down
  <2> QED
    BY <1>1, <2>1, <2>2
<1>6. CASE ReaperExits
  <2>1. tasks = <<>> /\ S!ReaperExits /\ UNCHANGED vars
    BY <1>6 DEF ReaperExits
  <2>2. LifeInv'
    BY <2>1 DEF LifeInv, S!ReaperExits, S!appVars, Down, vars
  <2> QED
    BY <2>1, <2>2, StartupStep
<1>7. CASE LastRelease
  <2>1. PICK t \in Threads : At(t, "shutdown")
    BY <1>7 DEF LastRelease
  <2>2. S!Release /\ UNCHANGED vars /\ rc[Api] = 0
    BY <1>7, <2>1 DEF LastRelease, At, LifeInv
  <2>3. LifeInv'
    BY <2>2 DEF LifeInv, S!Release, vars
  <2> QED
    BY <2>2, <2>3, StartupStep
<1>8. CASE LastReleaseReturns
  <2>1. PICK t \in Threads : Shutdown(t) /\ UNCHANGED startupVars
    BY <1>8 DEF LastReleaseReturns
  <2>2. \A u \in Threads : call'[u].at = "shutdown" => call[u].at = "shutdown"
    BY <2>1 DEF Shutdown, NoCall, IInv, TypeOK
  <2>3. LifeInv'
    BY <2>1, <2>2 DEF LifeInv, startupVars, Shutdown, Down
  <2> QED
    BY <1>1, <2>1, <2>3
<1>9. CASE UNCHANGED allVars
  <2>1. LifeInv'
    BY <1>9 DEF LifeInv, allVars, startupVars, vars, Down
  <2> QED
    BY <1>1, <1>9, <2>1 DEF allVars
<1> QED
  BY <1>2, <1>3, <1>4, <1>5, <1>6, <1>7, <1>8, <1>9 DEF ApiNext

(* It holds in every state that can be reached, whatever fails, and        *)
(* wherever.                                                               *)
THEOREM WholeInvariance == ApiSpec => []WholeInv
<1>1. ApiInit => WholeInv
  <2> SUFFICES ASSUME ApiInit PROVE WholeInv
    OBVIOUS
  <2>1. Init /\ S!Init
    BY DEF ApiInit
  <2>2. LifeInv
    BY <2>1 DEF Init, S!Init, LifeInv, NoCall, Down
  <2> QED
    BY <2>1, <2>2, InitInvariant, InitSamples, InitParts, InitPhase DEF WholeInv
<1>2. WholeInv /\ [ApiNext]_allVars => WholeInv'
  BY NextInvariant, NextSamples, NextParts, NextWhole DEF WholeInv
<1> QED
  BY <1>1, <1>2, PTL DEF ApiSpec

(* Wherever the opening of the device, or the device, fails: each of its   *)
(* interfaces has the references the audio thread has pointers for, and    *)
(* what the thread opened is closed when it exits.                         *)
THEOREM DeviceCleanUp == ApiSpec => []AudioCleansUp
<1>1. WholeInv => AudioCleansUp
  <2> SUFFICES ASSUME DeviceInv, PhaseInv PROVE S!InterfacesCounted /\ S!AudioClosesAll
    BY DEF WholeInv, AudioCleansUp
  <2>1. ASSUME audio = "exited" PROVE live \cap S!Elements(S!ThreadSteps) = {}
    <3>1. live \subseteq (AllocatedNames \cup Handles \cup Opened) \ Opened
      BY <2>1 DEF PhaseInv, PhaseTypes, AudioMatches
    <3> QED
      BY <3>1, StepSet DEF AllocatedNames, Handles, Opened
  <2>2. ASSUME audio = "exited" PROVE kept \cup local = {}
    BY <2>2 DEF DeviceInv, SetupAt, S!Interfaces
  <2> QED
    BY <2>1, <2>2 DEF DeviceInv, S!AudioClosesAll
<1> QED
  BY <1>1, WholeInvariance, PTL

(* What a thread of the library uses is there as long as it runs, and the  *)
(* reaper runs as long as it has something to free.                        *)
THEOREM ThreadsUseWhatIsThere == ApiSpec => []ThreadsOutlived
<1>1. WholeInv => ThreadsOutlived
  <2> SUFFICES ASSUME PhaseInv, LifeInv PROVE ThreadsOutlived
    BY DEF WholeInv
  <2>1. ASSUME audio \in {"setup", "loop", "mix", "end"} PROVE S!WasapiFreed \subseteq live
    BY <2>1 DEF PhaseInv, PhaseTypes, OutcomeMatches, AllocMatches, AudioMatches, Up, Down
  <2>2. ASSUME reaper = "running" PROVE S!Reaper \subseteq live
    BY <2>2 DEF PhaseInv, PhaseTypes, AllocMatches, ReaperMatches, Up, Down, Gone
  <2> QED
    BY <2>1, <2>2 DEF ThreadsOutlived, S!ThreadsOutlived, LifeInv
<1> QED
  BY <1>1, WholeInvariance, PTL

(* A DirectSoundCreate8 that fails, at whatever step, and a last release   *)
(* leave no thread and no object but the wasapi structure, the reaper's    *)
(* client and the primary buffers.                                         *)
THEOREM CleanExit == ApiSpec => []NothingLeft
<1>1. WholeInv => NothingLeft
  <2> SUFFICES ASSUME WholeInv PROVE NothingLeft
    OBVIOUS
  <2> USE DEF WholeInv
  <2>1. ASSUME app = "returned", outcome \in {"failed", "released"}
        PROVE  /\ live \subseteq S!Leaked
               /\ audio \in {"none", "exited"}
               /\ reaper \in {"none", "exited"}
    <3>1. Gone /\ ~thread
      BY <2>1 DEF Gone, PhaseInv, OutcomeMatches
    <3> QED
      BY <2>1, <3>1 DEF PhaseInv, PhaseTypes, AudioMatches, ReaperMatches
  <2>2. ASSUME outcome = "released" PROVE heap \subseteq {"self"} \X primary
    <3>1. app = "returned" /\ reaper # "running"
      BY <2>2 DEF PhaseInv, OutcomeMatches, ReaperMatches, Gone
    <3>2. rc[Api] = 0 /\ tasks = <<>>
      BY <2>2, <3>1 DEF LifeInv
    <3> QED
      BY <3>2, HeapLeft
  <2> QED
    BY <2>1, <2>2 DEF NothingLeft, S!NothingLeft
<1> QED
  BY <1>1, WholeInvariance, PTL
=============================================================================
