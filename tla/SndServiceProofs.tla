-------------------------- MODULE SndServiceProofs --------------------------
(* Theorems about SndService, for any number of clients, streams, volumes  *)
(* and command objects: every command has one owner, and what travels is   *)
(* CommandPipe's pipe of values.                                           *)
EXTENDS SndService, SequenceTheorems, TLAPS

(* A command that was given out says nothing yet.                          *)
GivenOutCleared == \A k \in Clients : \A c \in filling[k] : cmd[c] = Cleared

(* The audio thread stops between two periods.                             *)
StoppedIdle == service # "running" => phase = "idle"

IInv == TypeOK /\ ChamberEmptyAtIntake /\ StoppedIdle /\ OneOwner /\ GivenOutCleared

-----------------------------------------------------------------------------
(* Sequences without repetition                                            *)

LEMMA EmptySequence ==
  ASSUME NEW S
  PROVE  <<>> \in Seq(S) /\ IsInjective(<<>>) /\ \A x : ~Contains(<<>>, x)
  BY DEF IsInjective, Contains

LEMMA Elements ==
  ASSUME NEW S, NEW q \in Seq(S)
  PROVE  /\ DOMAIN q = 1..Len(q)
         /\ \A x : Contains(q, x) <=> x \in ToSet(q)
         /\ \A x : Contains(q, x) => x \in S
         /\ q # <<>> => Contains(q, Head(q)) /\ Head(q) \in S
<1>1. DOMAIN q = 1..Len(q)
  OBVIOUS
<1>2. \A x : Contains(q, x) <=> x \in ToSet(q)
  BY <1>1 DEF Contains, ToSet
<1>3. \A x : Contains(q, x) => x \in S
  BY DEF Contains
<1>4. q # <<>> => Contains(q, Head(q)) /\ Head(q) \in S
  <2> SUFFICES ASSUME q # <<>> PROVE Contains(q, Head(q)) /\ Head(q) \in S
    OBVIOUS
  <2>1. Head(q) = q[1] /\ 1 \in 1..Len(q)
    OBVIOUS
  <2> QED
    BY <2>1 DEF Contains
<1> QED
  BY <1>1, <1>2, <1>3, <1>4

LEMMA Appending ==
  ASSUME NEW S, NEW q \in Seq(S), NEW c \in S
  PROVE  /\ Append(q, c) \in Seq(S)
         /\ \A x : Contains(Append(q, c), x) <=> Contains(q, x) \/ x = c
         /\ IsInjective(q) /\ ~Contains(q, c) => IsInjective(Append(q, c))
<1> DEFINE r == Append(q, c)
<1>1. /\ r \in Seq(S)
      /\ Len(r) = Len(q) + 1
      /\ DOMAIN r = 1..Len(r)
      /\ r[Len(q) + 1] = c
      /\ \A n \in 1..Len(q) : r[n] = q[n]
  OBVIOUS
<1>2. Len(q) \in Nat /\ DOMAIN q = 1..Len(q)
  OBVIOUS
<1> HIDE DEF r
<1>3. \A x : Contains(r, x) <=> Contains(q, x) \/ x = c
  BY <1>1, <1>2 DEF Contains
<1>4. ASSUME IsInjective(q), ~Contains(q, c) PROVE IsInjective(r)
  BY <1>1, <1>2, <1>4 DEF Contains, IsInjective
<1> QED
  BY <1>1, <1>3, <1>4 DEF r

LEMMA Popping ==
  ASSUME NEW S, NEW q \in Seq(S), q # <<>>, IsInjective(q)
  PROVE  /\ Tail(q) \in Seq(S)
         /\ \A x : Contains(Tail(q), x) <=> Contains(q, x) /\ x # Head(q)
         /\ IsInjective(Tail(q))
<1> DEFINE r == Tail(q)
<1>1. /\ r \in Seq(S)
      /\ Len(r) = Len(q) - 1
      /\ DOMAIN r = 1..Len(r)
      /\ \A n \in 1..Len(r) : r[n] = q[n + 1]
      /\ Head(q) = q[1]
  OBVIOUS
<1>2. Len(q) \in Nat /\ Len(q) > 0 /\ DOMAIN q = 1..Len(q)
  OBVIOUS
<1> HIDE DEF r
<1>3. \A n \in 1..Len(q) : n = 1 \/ (n - 1 \in 1..Len(r) /\ r[n - 1] = q[n])
  BY <1>1, <1>2
<1>4. ASSUME NEW x PROVE Contains(r, x) => Contains(q, x) /\ x # Head(q)
  BY <1>1, <1>2 DEF Contains, IsInjective
<1>5. ASSUME NEW x PROVE Contains(q, x) /\ x # Head(q) => Contains(r, x)
  BY <1>1, <1>2, <1>3 DEF Contains
<1>6. ASSUME NEW m \in 1..Len(r), NEW n \in 1..Len(r), r[m] = r[n] PROVE m = n
  <2>1. m + 1 \in 1..Len(q) /\ n + 1 \in 1..Len(q) /\ q[m + 1] = q[n + 1]
    BY <1>1, <1>2, <1>6
  <2>2. m + 1 = n + 1
    BY <1>2, <2>1 DEF IsInjective
  <2> QED
    BY <2>2
<1>7. IsInjective(r)
  BY <1>1, <1>6 DEF IsInjective
<1> QED
  BY <1>1, <1>4, <1>5, <1>7 DEF r

LEMMA Joining ==
  ASSUME NEW S, NEW q \in Seq(S), NEW r \in Seq(S)
  PROVE  /\ q \o r \in Seq(S)
         /\ \A x : Contains(q \o r, x) <=> Contains(q, x) \/ Contains(r, x)
         /\ IsInjective(q) /\ IsInjective(r) /\ (\A x : ~(Contains(q, x) /\ Contains(r, x)))
              => IsInjective(q \o r)
<1> DEFINE s == q \o r
<1>1. /\ s \in Seq(S)
      /\ Len(s) = Len(q) + Len(r)
      /\ DOMAIN s = 1..Len(s)
      /\ \A n \in 1..Len(q) : s[n] = q[n]
      /\ \A n \in 1..Len(s) : n > Len(q) => s[n] = r[n - Len(q)]
  OBVIOUS
<1>2. /\ Len(q) \in Nat /\ DOMAIN q = 1..Len(q)
      /\ Len(r) \in Nat /\ DOMAIN r = 1..Len(r)
  OBVIOUS
<1> HIDE DEF s
<1>3. \A n \in 1..Len(s) :
        \/ n \in 1..Len(q) /\ s[n] = q[n]
        \/ n > Len(q) /\ n - Len(q) \in 1..Len(r) /\ s[n] = r[n - Len(q)]
  <2> SUFFICES ASSUME NEW n \in 1..Len(s), n \notin 1..Len(q)
               PROVE  n > Len(q) /\ n - Len(q) \in 1..Len(r) /\ s[n] = r[n - Len(q)]
    BY <1>1
  <2>1. n \in Nat /\ n > Len(q) /\ n <= Len(q) + Len(r)
    BY <1>1, <1>2
  <2>2. n - Len(q) \in 1..Len(r)
    BY <1>2, <2>1
  <2> QED
    BY <1>1, <2>1, <2>2
<1>4. \A n \in 1..Len(r) : Len(q) + n \in 1..Len(s) /\ s[Len(q) + n] = r[n]
  <2> SUFFICES ASSUME NEW n \in 1..Len(r)
               PROVE  Len(q) + n \in 1..Len(s) /\ s[Len(q) + n] = r[n]
    OBVIOUS
  <2>1. Len(q) + n \in 1..Len(s) /\ Len(q) + n > Len(q) /\ (Len(q) + n) - Len(q) = n
    BY <1>1, <1>2
  <2> QED
    BY <1>1, <2>1
<1>5. ASSUME NEW x PROVE Contains(s, x) => Contains(q, x) \/ Contains(r, x)
  BY <1>2, <1>3 DEF Contains
<1>6. ASSUME NEW x PROVE Contains(q, x) \/ Contains(r, x) => Contains(s, x)
  BY <1>1, <1>2, <1>4 DEF Contains
<1>7. ASSUME IsInjective(q), IsInjective(r), \A x : ~(Contains(q, x) /\ Contains(r, x)),
             NEW m \in 1..Len(s), NEW n \in 1..Len(s), s[m] = s[n]
      PROVE  m = n
  <2>1. CASE m \in 1..Len(q) /\ n \in 1..Len(q)
    BY <1>1, <1>2, <1>7, <2>1 DEF IsInjective
  <2>2. CASE m \notin 1..Len(q) /\ n \notin 1..Len(q)
    <3>1. /\ m - Len(q) \in 1..Len(r) /\ n - Len(q) \in 1..Len(r)
          /\ r[m - Len(q)] = r[n - Len(q)]
      BY <1>3, <1>7, <2>2
    <3>2. m - Len(q) = n - Len(q)
      BY <1>2, <1>7, <3>1 DEF IsInjective
    <3> QED
      BY <1>2, <3>2
  <2>3. CASE m \in 1..Len(q) /\ n \notin 1..Len(q)
    BY <1>1, <1>2, <1>3, <1>7, <2>3 DEF Contains
  <2>4. CASE m \notin 1..Len(q) /\ n \in 1..Len(q)
    BY <1>1, <1>2, <1>3, <1>7, <2>4 DEF Contains
  <2> QED
    BY <2>1, <2>2, <2>3, <2>4
<1>8. ASSUME IsInjective(q), IsInjective(r), \A x : ~(Contains(q, x) /\ Contains(r, x))
      PROVE  IsInjective(s)
  BY <1>1, <1>7, <1>8 DEF IsInjective
<1> QED
  BY <1>1, <1>5, <1>6, <1>8 DEF s

-----------------------------------------------------------------------------
(* One owner                                                               *)

LEMMA IsInParts ==
  ASSUME NEW c
  PROVE  /\ IsIn("intake", c) <=> Contains(cmds_intake, c)
         /\ IsIn("chamber", c) <=> Contains(cmds_chamber, c)
         /\ IsIn("exhaust", c) <=> Contains(cmds_exhaust, c)
         /\ IsIn("pool", c) <=> \E k \in Clients : Contains(cmd_pool[k], c)
         /\ IsIn("user", c) <=> \E k \in Clients : c \in filling[k]
         /\ IsIn("heap", c) <=> c \in heap
         /\ IsIn("intake", c)' <=> Contains(cmds_intake', c)
         /\ IsIn("chamber", c)' <=> Contains(cmds_chamber', c)
         /\ IsIn("exhaust", c)' <=> Contains(cmds_exhaust', c)
         /\ IsIn("pool", c)' <=> \E k \in Clients : Contains(cmd_pool'[k], c)
         /\ IsIn("user", c)' <=> \E k \in Clients : c \in filling'[k]
         /\ IsIn("heap", c)' <=> c \in heap'
<1>1. /\ IsIn("intake", c) <=> Contains(cmds_intake, c)
      /\ IsIn("intake", c)' <=> Contains(cmds_intake', c)
  BY DEF IsIn
<1>2. /\ IsIn("chamber", c) <=> Contains(cmds_chamber, c)
      /\ IsIn("chamber", c)' <=> Contains(cmds_chamber', c)
  BY DEF IsIn
<1>3. /\ IsIn("exhaust", c) <=> Contains(cmds_exhaust, c)
      /\ IsIn("exhaust", c)' <=> Contains(cmds_exhaust', c)
  BY DEF IsIn
<1>4. /\ IsIn("pool", c) <=> \E k \in Clients : Contains(cmd_pool[k], c)
      /\ IsIn("pool", c)' <=> \E k \in Clients : Contains(cmd_pool'[k], c)
  BY DEF IsIn
<1>5. /\ IsIn("user", c) <=> \E k \in Clients : c \in filling[k]
      /\ IsIn("user", c)' <=> \E k \in Clients : c \in filling'[k]
  BY DEF IsIn
<1>6. /\ IsIn("heap", c) <=> c \in heap
      /\ IsIn("heap", c)' <=> c \in heap'
  BY DEF IsIn
<1> QED
  BY <1>1, <1>2, <1>3, <1>4, <1>5, <1>6

(* Moving commands from one place to another keeps each in one place.      *)
LEMMA Moved ==
  ASSUME OnePlace, NEW a \in Places, NEW b \in Places, a # b, NEW S,
         \A c \in Commands : c \in S => IsIn(a, c),
         \A c \in Commands : IsIn(a, c)' <=> IsIn(a, c) /\ c \notin S,
         \A c \in Commands : IsIn(b, c)' <=> IsIn(b, c) \/ c \in S,
         \A o \in Places \ {a, b} : \A c \in Commands : IsIn(o, c)' <=> IsIn(o, c)
  PROVE  OnePlace'
<1> SUFFICES ASSUME NEW c \in Commands
             PROVE  \E p \in Places : \A o \in Places : IsIn(o, c)' <=> o = p
  BY DEF OnePlace, Places
<1>1. PICK p \in Places : \A o \in Places : IsIn(o, c) <=> o = p
  BY DEF OnePlace
<1>2. CASE c \in S
  <2>1. p = a
    BY <1>1, <1>2
  <2>2. \A o \in Places : IsIn(o, c)' <=> o = b
    BY <1>1, <1>2, <2>1
  <2> QED
    BY <2>2
<1>3. CASE c \notin S
  <2>1. \A o \in Places : IsIn(o, c)' <=> o = p
    BY <1>1, <1>3
  <2> QED
    BY <2>1
<1> QED
  BY <1>2, <1>3

LEMMA Unmoved ==
  ASSUME OneOwner, UNCHANGED <<queueVars, cmd_pool, filling, heap>>
  PROVE  OneOwner'
<1>1. \A o \in Places, c \in Commands : IsIn(o, c)' <=> IsIn(o, c)
  BY DEF IsIn, Places, queueVars
<1>2. OnePlace'
  <2> SUFFICES ASSUME NEW c \in Commands
               PROVE  \E p \in Places : \A o \in Places : IsIn(o, c)' <=> o = p
    BY DEF OnePlace, Places
  <2> QED
    BY <1>1 DEF OneOwner, OnePlace
<1> QED
  BY <1>2 DEF OneOwner, QueuedOnce, OneClient, queueVars

LEMMA InitInvariant == Init => IInv
<1> SUFFICES ASSUME Init PROVE IInv
  OBVIOUS
<1>1. Cleared \in CommandFields
  BY ServiceAssumption DEF Cleared, CommandFields
<1>2. TypeOK
  BY <1>1, EmptySequence DEF Init, TypeOK
<1>3. QueuedOnce /\ OneClient
  BY EmptySequence DEF Init, QueuedOnce, OneClient
<1>4. OnePlace
  <2> SUFFICES ASSUME NEW c \in Commands
               PROVE  \E p \in Places : \A o \in Places : IsIn(o, c) <=> o = p
    BY DEF OnePlace
  <2>1. \A o \in Places : IsIn(o, c) <=> o = "heap"
    BY IsInParts, EmptySequence DEF Init, Places
  <2> QED
    BY <2>1 DEF Places
<1> QED
  BY <1>2, <1>3, <1>4
     DEF Init, IInv, ChamberEmptyAtIntake, StoppedIdle, OneOwner, GivenOutCleared

LEMMA QuietSteps ==
  ASSUME IInv,
         \/ \E k \in Clients : ClientAlloc(k)
         \/ VisitNext
         \/ BeginMix
         \/ EndMix
         \/ AudioStop
         \/ UNCHANGED vars
  PROVE  IInv'
<1> USE DEF queueVars, clientVars, audioVars, vars
<1>1. UNCHANGED <<cmd, queueVars, cmd_pool, filling, heap>>
  BY DEF ClientAlloc, VisitNext, BeginMix, EndMix, AudioStop
<1>2. OneOwner' /\ GivenOutCleared'
  BY <1>1, Unmoved DEF IInv, GivenOutCleared
<1>3. TypeOK'
  <2>1. Len(cmds_chamber) \in Nat /\ iter \in 1..(Len(cmds_chamber) + 1)
    BY DEF IInv, TypeOK
  <2>2. iter' \in 1..(Len(cmds_chamber) + 1)
    BY <2>1 DEF ClientAlloc, VisitNext, BeginMix, EndMix, AudioStop
  <2> QED
    BY <1>1, <2>2 DEF IInv, TypeOK, ClientAlloc, VisitNext, BeginMix, EndMix, AudioStop
<1>4. ChamberEmptyAtIntake' /\ StoppedIdle'
  BY <1>1 DEF IInv, ChamberEmptyAtIntake, StoppedIdle, ClientAlloc, VisitNext, BeginMix, EndMix,
              AudioStop
<1> QED
  BY <1>2, <1>3, <1>4 DEF IInv

LEMMA ClientFreeStep ==
  ASSUME IInv, NEW k \in Clients, ClientFree(k)
  PROVE  IInv'
<1> USE DEF IInv
<1>1. /\ heap' = heap \cup ToSet(cmd_pool[k])
      /\ cmd_pool' = [cmd_pool EXCEPT ![k] = <<>>]
      /\ clients' = clients \ {k}
      /\ UNCHANGED <<cmd, cmds_intake, cmds_chamber, cmds_exhaust, filling, iter, phase, service>>
  BY DEF ClientFree, queueVars, audioVars
<1>2. cmd_pool \in [Clients -> Seq(Commands)] /\ cmd_pool[k] \in Seq(Commands)
  BY DEF TypeOK
<1>3. /\ cmd_pool' \in [Clients -> Seq(Commands)]
      /\ cmd_pool'[k] = <<>>
      /\ \A j \in Clients \ {k} : cmd_pool'[j] = cmd_pool[j]
  BY <1>1, <1>2, EmptySequence
<1>4. \A c : Contains(cmd_pool[k], c) <=> c \in ToSet(cmd_pool[k])
  BY <1>2, Elements
<1>5. \A c : Contains(cmd_pool[k], c) => c \in Commands
  BY <1>2, Elements
<1>6. TypeOK'
  BY <1>1, <1>3, <1>4, <1>5 DEF TypeOK
<1>7. QueuedOnce'
  BY <1>1, <1>3, EmptySequence DEF OneOwner, QueuedOnce
<1>8. OneClient'
  BY <1>1, <1>3, EmptySequence DEF OneOwner, OneClient
<1>9. OnePlace'
  <2> DEFINE S == ToSet(cmd_pool[k])
  <2>1. \A c \in Commands : c \in S => IsIn("pool", c)
    BY <1>4, IsInParts
  <2>2. \A c \in Commands : IsIn("pool", c)' <=> IsIn("pool", c) /\ c \notin S
    <3> SUFFICES ASSUME NEW c \in Commands
                 PROVE  IsIn("pool", c)' <=> IsIn("pool", c) /\ c \notin S
      OBVIOUS
    <3>1. IsIn("pool", c)' => IsIn("pool", c) /\ c \notin S
      BY <1>3, <1>4, IsInParts, EmptySequence DEF OneOwner, OneClient
    <3>2. IsIn("pool", c) /\ c \notin S => IsIn("pool", c)'
      BY <1>3, <1>4, IsInParts
    <3> QED
      BY <3>1, <3>2, IsInParts
  <2>3. \A c \in Commands : IsIn("heap", c)' <=> IsIn("heap", c) \/ c \in S
    BY <1>1, IsInParts
  <2>4. \A o \in Places \ {"pool", "heap"} : \A c \in Commands : IsIn(o, c)' <=> IsIn(o, c)
    BY <1>1, IsInParts DEF Places
  <2>5. "pool" \in Places /\ "heap" \in Places /\ "pool" # "heap"
    BY DEF Places
  <2> HIDE DEF S
  <2> QED
    BY <2>1, <2>2, <2>3, <2>4, <2>5, Moved DEF OneOwner
<1>10. GivenOutCleared' /\ ChamberEmptyAtIntake' /\ StoppedIdle'
  BY <1>1 DEF GivenOutCleared, ChamberEmptyAtIntake, StoppedIdle
<1> QED
  BY <1>6, <1>7, <1>8, <1>9, <1>10 DEF OneOwner

LEMMA CmdNewStep ==
  ASSUME IInv, NEW k \in Clients, NEW c \in Commands, CmdNew(k, c)
  PROVE  IInv'
<1> USE DEF IInv
<1>1. /\ c \in heap
      /\ heap' = heap \ {c}
      /\ cmd' = [cmd EXCEPT ![c] = Cleared]
      /\ filling' = [filling EXCEPT ![k] = @ \cup {c}]
      /\ UNCHANGED <<cmds_intake, cmds_chamber, cmds_exhaust, cmd_pool, clients,
                    iter, phase, service>>
  BY DEF CmdNew, queueVars, audioVars
<1>2. /\ filling' \in [Clients -> SUBSET Commands]
      /\ filling'[k] = filling[k] \cup {c}
      /\ \A j \in Clients \ {k} : filling'[j] = filling[j]
  BY <1>1 DEF TypeOK
<1>3. /\ cmd' \in [Commands -> CommandFields]
      /\ cmd'[c] = Cleared
      /\ \A d \in Commands \ {c} : cmd'[d] = cmd[d]
  <2>1. Cleared \in CommandFields
    BY ServiceAssumption DEF Cleared, CommandFields
  <2>2. cmd \in [Commands -> CommandFields]
    BY DEF TypeOK
  <2> QED
    BY <1>1, <2>1, <2>2
<1>4. TypeOK'
  BY <1>1, <1>2, <1>3 DEF TypeOK
<1>5. QueuedOnce'
  BY <1>1 DEF OneOwner, QueuedOnce
<1>6. ~IsIn("user", c)
  BY <1>1, IsInParts DEF OneOwner, OnePlace, Places
<1>7. OneClient'
  BY <1>1, <1>2, <1>6, IsInParts DEF OneOwner, OneClient
<1>8. OnePlace'
  <2>1. \A d \in Commands : d \in {c} => IsIn("heap", d)
    BY <1>1, IsInParts
  <2>2. \A d \in Commands : IsIn("heap", d)' <=> IsIn("heap", d) /\ d \notin {c}
    BY <1>1, IsInParts
  <2>3. \A d \in Commands : IsIn("user", d)' <=> IsIn("user", d) \/ d \in {c}
    BY <1>2, IsInParts
  <2>4. \A o \in Places \ {"heap", "user"} : \A d \in Commands : IsIn(o, d)' <=> IsIn(o, d)
    BY <1>1, IsInParts DEF Places
  <2>5. "user" \in Places /\ "heap" \in Places /\ "user" # "heap"
    BY DEF Places
  <2> QED
    BY <2>1, <2>2, <2>3, <2>4, <2>5, Moved DEF OneOwner
<1>9. GivenOutCleared'
  BY <1>2, <1>3 DEF GivenOutCleared, TypeOK
<1>10. ChamberEmptyAtIntake' /\ StoppedIdle'
  BY <1>1 DEF ChamberEmptyAtIntake, StoppedIdle
<1> QED
  BY <1>4, <1>5, <1>7, <1>8, <1>9, <1>10 DEF OneOwner

(* What a user of a client had goes to the intake queue or to the heap.    *)
LEMMA Given ==
  ASSUME IInv, NEW k \in Clients, NEW c \in Commands, c \in filling[k],
         filling' = [filling EXCEPT ![k] = @ \ {c}]
  PROVE  /\ filling' \in [Clients -> SUBSET Commands]
         /\ \A j \in Clients, d \in Commands : d \in filling'[j] => d \in filling[j] /\ d # c
         /\ \A d \in Commands : d \in {c} => IsIn("user", d)
         /\ \A d \in Commands : IsIn("user", d)' <=> IsIn("user", d) /\ d \notin {c}
         /\ \A d \in Commands : d \in {c} => ~IsIn("intake", d)
<1> USE DEF IInv
<1>1. /\ filling' \in [Clients -> SUBSET Commands]
      /\ filling'[k] = filling[k] \ {c}
      /\ \A j \in Clients \ {k} : filling'[j] = filling[j]
  BY DEF TypeOK
<1>2. \A j \in Clients, d \in Commands : d \in filling'[j] => d \in filling[j] /\ d # c
  BY <1>1 DEF OneOwner, OneClient
<1>3. IsIn("user", c)
  BY IsInParts
<1>4. ~IsIn("intake", c)
  BY <1>3 DEF OneOwner, OnePlace, Places
<1>5. \A d \in Commands : IsIn("user", d)' <=> IsIn("user", d) /\ d # c
  <2> SUFFICES ASSUME NEW d \in Commands PROVE IsIn("user", d)' <=> IsIn("user", d) /\ d # c
    OBVIOUS
  <2>1. IsIn("user", d)' => IsIn("user", d) /\ d # c
    BY <1>2, IsInParts
  <2>2. IsIn("user", d) /\ d # c => IsIn("user", d)'
    BY <1>1, IsInParts
  <2> QED
    BY <2>1, <2>2, IsInParts
<1> QED
  BY <1>1, <1>2, <1>3, <1>4, <1>5

LEMMA CmdFreeStep ==
  ASSUME IInv, NEW k \in Clients, NEW c \in Commands, CmdFree(k, c)
  PROVE  IInv'
<1> USE DEF IInv
<1>1. /\ c \in filling[k]
      /\ filling' = [filling EXCEPT ![k] = @ \ {c}]
      /\ heap' = heap \cup {c}
      /\ UNCHANGED <<cmd, cmds_intake, cmds_chamber, cmds_exhaust, cmd_pool, clients,
                    iter, phase, service>>
  BY DEF CmdFree, queueVars, audioVars
<1>2. /\ filling' \in [Clients -> SUBSET Commands]
      /\ \A j \in Clients, d \in Commands : d \in filling'[j] => d \in filling[j] /\ d # c
      /\ \A d \in Commands : d \in {c} => IsIn("user", d)
      /\ \A d \in Commands : IsIn("user", d)' <=> IsIn("user", d) /\ d \notin {c}
  BY <1>1, Given
<1>3. TypeOK'
  BY <1>1, <1>2 DEF TypeOK
<1>4. QueuedOnce' /\ OneClient'
  BY <1>1, <1>2 DEF OneOwner, QueuedOnce, OneClient
<1>5. OnePlace'
  <2>1. \A d \in Commands : IsIn("heap", d)' <=> IsIn("heap", d) \/ d \in {c}
    BY <1>1, IsInParts
  <2>2. \A o \in Places \ {"heap", "user"} : \A d \in Commands : IsIn(o, d)' <=> IsIn(o, d)
    BY <1>1, IsInParts DEF Places
  <2>3. "user" \in Places /\ "heap" \in Places /\ "user" # "heap"
    BY DEF Places
  <2> QED
    BY <1>2, <2>1, <2>2, <2>3, Moved DEF OneOwner
<1>6. GivenOutCleared' /\ ChamberEmptyAtIntake' /\ StoppedIdle'
  BY <1>1, <1>2 DEF GivenOutCleared, ChamberEmptyAtIntake, StoppedIdle, TypeOK
<1> QED
  BY <1>3, <1>4, <1>5, <1>6 DEF OneOwner

LEMMA CmdSubmitStep ==
  ASSUME IInv, NEW k \in Clients, NEW c \in Commands, NEW contents \in CommandFields,
         CmdSubmit(k, c, contents)
  PROVE  IInv'
<1> USE DEF IInv
<1>1. /\ c \in filling[k]
      /\ cmd' = [cmd EXCEPT ![c] = contents]
      /\ filling' = [filling EXCEPT ![k] = @ \ {c}]
      /\ cmds_intake' = Append(cmds_intake, c)
      /\ UNCHANGED <<cmds_chamber, cmds_exhaust, cmd_pool, heap, clients, iter, phase, service>>
  BY DEF CmdSubmit, audioVars
<1>2. /\ filling' \in [Clients -> SUBSET Commands]
      /\ \A j \in Clients, d \in Commands : d \in filling'[j] => d \in filling[j] /\ d # c
      /\ \A d \in Commands : d \in {c} => IsIn("user", d)
      /\ \A d \in Commands : IsIn("user", d)' <=> IsIn("user", d) /\ d \notin {c}
      /\ \A d \in Commands : d \in {c} => ~IsIn("intake", d)
  BY <1>1, Given
<1>3. cmds_intake \in Seq(Commands) /\ ~Contains(cmds_intake, c) /\ IsInjective(cmds_intake)
  BY <1>2, IsInParts DEF TypeOK, OneOwner, QueuedOnce
<1>4. /\ cmds_intake' \in Seq(Commands)
      /\ \A d : Contains(cmds_intake', d) <=> Contains(cmds_intake, d) \/ d = c
      /\ IsInjective(cmds_intake')
  BY <1>1, <1>3, Appending
<1>5. /\ cmd' \in [Commands -> CommandFields]
      /\ \A d \in Commands \ {c} : cmd'[d] = cmd[d]
  BY <1>1 DEF TypeOK
<1>6. TypeOK'
  BY <1>1, <1>2, <1>4, <1>5 DEF TypeOK
<1>7. QueuedOnce' /\ OneClient'
  BY <1>1, <1>2, <1>4 DEF OneOwner, QueuedOnce, OneClient
<1>8. OnePlace'
  <2>1. \A d \in Commands : IsIn("intake", d)' <=> IsIn("intake", d) \/ d \in {c}
    BY <1>4, IsInParts
  <2>2. \A o \in Places \ {"intake", "user"} : \A d \in Commands : IsIn(o, d)' <=> IsIn(o, d)
    BY <1>1, IsInParts DEF Places
  <2>3. "user" \in Places /\ "intake" \in Places /\ "user" # "intake"
    BY DEF Places
  <2> QED
    BY <1>2, <2>1, <2>2, <2>3, Moved DEF OneOwner
<1>9. GivenOutCleared' /\ ChamberEmptyAtIntake' /\ StoppedIdle'
  BY <1>1, <1>2, <1>5 DEF GivenOutCleared, ChamberEmptyAtIntake, StoppedIdle, TypeOK
<1> QED
  BY <1>6, <1>7, <1>8, <1>9 DEF OneOwner

(* A command taken from the pool, or with the rest of the exhaust queue.   *)
LEMMA CmdReuseStep ==
  ASSUME IInv, NEW k \in Clients, CmdReuse(k)
  PROVE  IInv'
<1> USE DEF IInv
<1> SUFFICES ASSUME NEW q, q = Available(k), NEW c, c = Head(q) PROVE IInv'
  OBVIOUS
<1>1. /\ q # <<>>
      /\ cmd_pool' = [cmd_pool EXCEPT ![k] = Tail(q)]
      /\ cmds_exhaust' = ExhaustAfterAlloc(k)
      /\ cmd' = [cmd EXCEPT ![c] = Cleared]
      /\ filling' = [filling EXCEPT ![k] = @ \cup {c}]
      /\ UNCHANGED <<cmds_intake, cmds_chamber, heap, clients, iter, phase, service>>
  BY DEF CmdReuse, audioVars
<1>2. \/ q = cmd_pool[k] /\ cmds_exhaust' = cmds_exhaust
      \/ q = cmds_exhaust /\ cmds_exhaust' = <<>> /\ cmd_pool[k] = <<>>
  BY <1>1 DEF Available, ExhaustAfterAlloc
<1>3. q \in Seq(Commands) /\ IsInjective(q)
  BY <1>2 DEF TypeOK, OneOwner, QueuedOnce
<1>4. c \in Commands /\ Contains(q, c)
  BY <1>1, <1>3, Elements
<1>5. /\ Tail(q) \in Seq(Commands)
      /\ \A d : Contains(Tail(q), d) <=> Contains(q, d) /\ d # c
      /\ IsInjective(Tail(q))
  BY <1>1, <1>3, Popping
<1>6. /\ cmd_pool' \in [Clients -> Seq(Commands)]
      /\ cmd_pool'[k] = Tail(q)
      /\ \A j \in Clients \ {k} : cmd_pool'[j] = cmd_pool[j]
  BY <1>1, <1>5 DEF TypeOK
<1>7. /\ filling' \in [Clients -> SUBSET Commands]
      /\ filling'[k] = filling[k] \cup {c}
      /\ \A j \in Clients \ {k} : filling'[j] = filling[j]
  BY <1>1, <1>4 DEF TypeOK
<1>8. /\ cmd' \in [Commands -> CommandFields]
      /\ cmd'[c] = Cleared
      /\ \A d \in Commands \ {c} : cmd'[d] = cmd[d]
  <2>1. Cleared \in CommandFields
    BY ServiceAssumption DEF Cleared, CommandFields
  <2>2. cmd \in [Commands -> CommandFields]
    BY DEF TypeOK
  <2> QED
    BY <1>1, <1>4, <2>1, <2>2
<1>9. TypeOK'
  BY <1>1, <1>2, <1>6, <1>7, <1>8, EmptySequence DEF TypeOK
<1>10. QueuedOnce'
  BY <1>1, <1>2, <1>5, <1>6, EmptySequence DEF OneOwner, QueuedOnce
<1>11. ASSUME NEW d \in Commands, Contains(q, d)
       PROVE  ~IsIn("user", d) /\ \A j \in Clients \ {k} : ~Contains(cmd_pool[j], d)
  <2>1. CASE q = cmd_pool[k]
    BY <1>11, <2>1, IsInParts DEF OneOwner, OnePlace, OneClient, Places
  <2>2. CASE q = cmds_exhaust
    BY <1>11, <2>2, IsInParts DEF OneOwner, OnePlace, Places
  <2> QED
    BY <1>2, <2>1, <2>2
<1>12. OneClient'
  <2> SUFFICES ASSUME NEW d \in Commands, NEW i \in Clients, NEW j \in Clients,
                      \/ Contains(cmd_pool'[i], d) /\ Contains(cmd_pool'[j], d)
                      \/ d \in filling'[i] /\ d \in filling'[j]
               PROVE  i = j
    BY DEF OneClient
  <2>1. CASE Contains(cmd_pool'[i], d) /\ Contains(cmd_pool'[j], d)
    BY <1>5, <1>6, <1>11, <2>1 DEF OneOwner, OneClient
  <2>2. CASE d \in filling'[i] /\ d \in filling'[j]
    BY <1>4, <1>7, <1>11, <2>2, IsInParts DEF OneOwner, OneClient
  <2> QED
    BY <2>1, <2>2
<1>13. OnePlace'
  <2> SUFFICES ASSUME NEW d \in Commands
               PROVE  \E p \in Places : \A o \in Places : IsIn(o, d)' <=> o = p
    BY DEF OnePlace, Places
  <2>1. PICK p \in Places : \A o \in Places : IsIn(o, d) <=> o = p
    BY DEF OneOwner, OnePlace
  <2>2. /\ IsIn("intake", d)' <=> p = "intake"
        /\ IsIn("chamber", d)' <=> p = "chamber"
        /\ IsIn("heap", d)' <=> p = "heap"
    BY <1>1, <2>1, IsInParts DEF Places
  <2>3. IsIn("user", d)' <=> IsIn("user", d) \/ d = c
    BY <1>7, IsInParts
  <2>4. CASE Contains(q, d)
    <3>1. p \in {"pool", "exhaust"}
      BY <1>2, <2>1, <2>4, IsInParts DEF Places
    <3>2. IsIn("pool", d)' <=> d # c
      BY <1>5, <1>6, <1>11, <2>4, IsInParts
    <3>3. ~IsIn("exhaust", d)'
      <4>1. CASE q = cmd_pool[k] /\ cmds_exhaust' = cmds_exhaust
        BY <2>1, <2>4, <4>1, IsInParts DEF Places
      <4>2. CASE cmds_exhaust' = <<>>
        BY <4>2, IsInParts, EmptySequence
      <4> QED
        BY <1>2, <4>1, <4>2
    <3>4. IsIn("user", d)' <=> d = c
      BY <1>11, <2>3, <2>4
    <3> QED
      BY <2>2, <3>1, <3>2, <3>3, <3>4 DEF Places
  <2>5. CASE ~Contains(q, d)
    <3>1. IsIn("user", d)' <=> p = "user"
      BY <1>4, <2>1, <2>3, <2>5 DEF Places
    <3>2. IsIn("pool", d)' <=> IsIn("pool", d)
      <4>1. IsIn("pool", d)' => IsIn("pool", d)
        BY <1>5, <1>6, <2>5, IsInParts
      <4>2. ~Contains(cmd_pool[k], d)
        BY <1>2, <2>5, EmptySequence
      <4>3. IsIn("pool", d) => IsIn("pool", d)'
        BY <1>6, <4>2, IsInParts
      <4> QED
        BY <4>1, <4>3, IsInParts
    <3>3. IsIn("exhaust", d)' <=> IsIn("exhaust", d)
      BY <1>2, <2>5, IsInParts, EmptySequence
    <3>4. (IsIn("pool", d)' <=> p = "pool") /\ (IsIn("exhaust", d)' <=> p = "exhaust")
      BY <2>1, <3>2, <3>3 DEF Places
    <3> QED
      BY <2>2, <3>1, <3>4 DEF Places
  <2> QED
    BY <2>4, <2>5
<1>14. GivenOutCleared'
  BY <1>7, <1>8 DEF GivenOutCleared, TypeOK
<1>15. ChamberEmptyAtIntake' /\ StoppedIdle'
  BY <1>1 DEF ChamberEmptyAtIntake, StoppedIdle
<1> QED
  BY <1>9, <1>10, <1>12, <1>13, <1>14, <1>15 DEF OneOwner

LEMMA IntakeStep ==
  ASSUME IInv, Intake
  PROVE  IInv'
<1> USE DEF IInv
<1>1. /\ cmds_chamber' = cmds_intake
      /\ cmds_intake' = <<>>
      /\ iter' = 1
      /\ phase' = "exec"
      /\ cmds_chamber = <<>>
      /\ UNCHANGED <<cmd, cmds_exhaust, cmd_pool, filling, heap, clients, service>>
  BY DEF Intake, clientVars, ChamberEmptyAtIntake
<1>2. TypeOK'
  BY <1>1, EmptySequence DEF TypeOK
<1>3. QueuedOnce' /\ OneClient'
  BY <1>1, EmptySequence DEF OneOwner, QueuedOnce, OneClient
<1>4. OnePlace'
  <2> DEFINE S == {c \in Commands : Contains(cmds_intake, c)}
  <2>1. \A c \in Commands : c \in S => IsIn("intake", c)
    BY IsInParts
  <2>2. \A c \in Commands : IsIn("intake", c)' <=> IsIn("intake", c) /\ c \notin S
    BY <1>1, IsInParts, EmptySequence
  <2>3. \A c \in Commands : IsIn("chamber", c)' <=> IsIn("chamber", c) \/ c \in S
    BY <1>1, IsInParts, EmptySequence
  <2>4. \A o \in Places \ {"intake", "chamber"} : \A c \in Commands : IsIn(o, c)' <=> IsIn(o, c)
    BY <1>1, IsInParts DEF Places
  <2>5. "intake" \in Places /\ "chamber" \in Places /\ "intake" # "chamber"
    BY DEF Places
  <2> HIDE DEF S
  <2> QED
    BY <2>1, <2>2, <2>3, <2>4, <2>5, Moved DEF OneOwner
<1>5. GivenOutCleared' /\ ChamberEmptyAtIntake' /\ StoppedIdle'
  BY <1>1 DEF Intake, GivenOutCleared, ChamberEmptyAtIntake, StoppedIdle
<1> QED
  BY <1>2, <1>3, <1>4, <1>5 DEF OneOwner

LEMMA ExhaustStep ==
  ASSUME IInv, Exhaust
  PROVE  IInv'
<1> USE DEF IInv
<1>1. /\ cmds_exhaust' = cmds_exhaust \o cmds_chamber
      /\ cmds_chamber' = <<>>
      /\ iter' = 1
      /\ phase' = "idle"
      /\ UNCHANGED <<cmd, cmds_intake, cmd_pool, filling, heap, clients, service>>
  BY DEF Exhaust, clientVars
<1>2. \A c \in Commands : ~(Contains(cmds_exhaust, c) /\ Contains(cmds_chamber, c))
  BY IsInParts DEF OneOwner, OnePlace, Places
<1>3. /\ cmds_exhaust \in Seq(Commands) /\ IsInjective(cmds_exhaust)
      /\ cmds_chamber \in Seq(Commands) /\ IsInjective(cmds_chamber)
  BY DEF TypeOK, OneOwner, QueuedOnce
<1>4. \A c : ~(Contains(cmds_exhaust, c) /\ Contains(cmds_chamber, c))
  BY <1>2, <1>3, Elements
<1>5. /\ cmds_exhaust' \in Seq(Commands)
      /\ IsInjective(cmds_exhaust')
      /\ \A c : Contains(cmds_exhaust', c) <=> Contains(cmds_exhaust, c) \/ Contains(cmds_chamber, c)
  BY <1>1, <1>3, <1>4, Joining
<1>6. TypeOK'
  BY <1>1, <1>5, EmptySequence DEF TypeOK
<1>7. QueuedOnce' /\ OneClient'
  BY <1>1, <1>5, EmptySequence DEF OneOwner, QueuedOnce, OneClient
<1>8. OnePlace'
  <2> DEFINE S == {c \in Commands : Contains(cmds_chamber, c)}
  <2>1. \A c \in Commands : c \in S => IsIn("chamber", c)
    BY IsInParts
  <2>2. \A c \in Commands : IsIn("chamber", c)' <=> IsIn("chamber", c) /\ c \notin S
    BY <1>1, IsInParts, EmptySequence
  <2>3. \A c \in Commands : IsIn("exhaust", c)' <=> IsIn("exhaust", c) \/ c \in S
    BY <1>5, IsInParts
  <2>4. \A o \in Places \ {"chamber", "exhaust"} : \A c \in Commands : IsIn(o, c)' <=> IsIn(o, c)
    BY <1>1, IsInParts DEF Places
  <2>5. "chamber" \in Places /\ "exhaust" \in Places /\ "chamber" # "exhaust"
    BY DEF Places
  <2> HIDE DEF S
  <2> QED
    BY <2>1, <2>2, <2>3, <2>4, <2>5, Moved DEF OneOwner
<1>9. GivenOutCleared' /\ ChamberEmptyAtIntake' /\ StoppedIdle'
  BY <1>1 DEF GivenOutCleared, ChamberEmptyAtIntake, StoppedIdle
<1> QED
  BY <1>6, <1>7, <1>8, <1>9 DEF OneOwner

LEMMA ServiceFreeStep ==
  ASSUME IInv, ServiceFree
  PROVE  IInv'
<1> USE DEF IInv
<1>1. /\ heap' = heap \cup ToSet(cmds_intake) \cup ToSet(cmds_chamber) \cup ToSet(cmds_exhaust)
      /\ cmds_intake' = <<>>
      /\ cmds_chamber' = <<>>
      /\ cmds_exhaust' = <<>>
      /\ service' = "freed"
      /\ service = "stopped"
      /\ UNCHANGED <<cmd, cmd_pool, filling, clients, iter, phase>>
  BY DEF ServiceFree
<1>2. phase = "idle" /\ cmds_chamber = <<>> /\ iter = 1
  BY <1>1 DEF StoppedIdle, ChamberEmptyAtIntake, TypeOK
<1>3. \A c :
        /\ Contains(cmds_intake, c) <=> c \in ToSet(cmds_intake)
        /\ Contains(cmds_chamber, c) <=> c \in ToSet(cmds_chamber)
        /\ Contains(cmds_exhaust, c) <=> c \in ToSet(cmds_exhaust)
  <2>1. /\ cmds_intake \in Seq(Commands)
        /\ cmds_chamber \in Seq(Commands)
        /\ cmds_exhaust \in Seq(Commands)
    BY DEF TypeOK
  <2>2. \A c : Contains(cmds_intake, c) <=> c \in ToSet(cmds_intake)
    BY <2>1, Elements
  <2>3. \A c : Contains(cmds_chamber, c) <=> c \in ToSet(cmds_chamber)
    BY <2>1, Elements
  <2>4. \A c : Contains(cmds_exhaust, c) <=> c \in ToSet(cmds_exhaust)
    BY <2>1, Elements
  <2> QED
    BY <2>2, <2>3, <2>4
<1>4. heap' \in SUBSET Commands
  BY <1>1, <1>3, Elements DEF TypeOK
<1>5. TypeOK'
  BY <1>1, <1>2, <1>4, EmptySequence DEF TypeOK
<1>6. QueuedOnce' /\ OneClient'
  BY <1>1, EmptySequence DEF OneOwner, QueuedOnce, OneClient
<1>7. OnePlace'
  <2> SUFFICES ASSUME NEW c \in Commands
               PROVE  \E p \in Places : \A o \in Places : IsIn(o, c)' <=> o = p
    BY DEF OnePlace, Places
  <2>1. PICK p \in Places : \A o \in Places : IsIn(o, c) <=> o = p
    BY DEF OneOwner, OnePlace
  <2>2. /\ IsIn("pool", c)' <=> p = "pool"
        /\ IsIn("user", c)' <=> p = "user"
    BY <1>1, <2>1, IsInParts DEF Places
  <2>3. ~IsIn("intake", c)' /\ ~IsIn("chamber", c)' /\ ~IsIn("exhaust", c)'
    BY <1>1, IsInParts, EmptySequence
  <2>4. IsIn("heap", c)' <=> p \in {"heap", "intake", "chamber", "exhaust"}
    BY <1>1, <1>3, <2>1, IsInParts DEF Places
  <2> QED
    BY <2>2, <2>3, <2>4 DEF Places
<1>8. GivenOutCleared' /\ ChamberEmptyAtIntake' /\ StoppedIdle'
  BY <1>1, <1>2 DEF GivenOutCleared, ChamberEmptyAtIntake, StoppedIdle
<1> QED
  BY <1>5, <1>6, <1>7, <1>8 DEF OneOwner

-----------------------------------------------------------------------------
(* The invariant                                                           *)

(* What is submitted: a command that was given out cleared, filled in.     *)
LEMMA Submitting ==
  ASSUME IInv, NEW k \in Clients, NEW c \in Commands, NEW s \in Streams,
         \/ \E loop \in BOOLEAN : SubmitPlay(k, c, s, loop)
         \/ SubmitStop(k, c, s)
         \/ SubmitStopAndCallBack(k, c, s)
         \/ \E level \in Volumes : SubmitVolumes(k, c, s, level)
  PROVE  \E contents \in Requests \cap CommandFields : CmdSubmit(k, c, contents)
<1> DEFINE unities == [ch \in Channels |-> Unity]
<1>1. cmd[c] = Cleared
  BY DEF IInv, GivenOutCleared, SubmitPlay, SubmitStop, SubmitStopAndCallBack, SubmitVolumes,
         CmdSubmit
<1>2. unities \in [Channels -> Volumes] /\ Cleared.volumes = unities
  BY ServiceAssumption DEF Cleared
<1>3. CASE \E loop \in BOOLEAN : SubmitPlay(k, c, s, loop)
  <2>1. PICK loop \in BOOLEAN : SubmitPlay(k, c, s, loop)
    BY <1>3
  <2>2. FillPlay(c, s, loop) = [Cleared EXCEPT !.type = "play", !.stm = s, !.loop = loop]
    BY <1>1 DEF FillPlay
  <2>3. FillPlay(c, s, loop) =
          [type |-> "play", stm |-> s, loop |-> loop, volumes |-> unities, callback |-> FALSE]
    BY <2>2 DEF Cleared
  <2>4. FillPlay(c, s, loop) \in CommandFields
    BY <1>2, <2>3 DEF CommandFields
  <2>5. FillPlay(c, s, loop) \in Requests
    BY <1>2, <2>3, <2>4 DEF Requests
  <2> QED
    BY <2>1, <2>4, <2>5 DEF SubmitPlay
<1>4. CASE SubmitStop(k, c, s)
  <2>1. FillStop(c, s) = [Cleared EXCEPT !.type = "stop", !.stm = s]
    BY <1>1 DEF FillStop
  <2>2. FillStop(c, s) =
          [type |-> "stop", stm |-> s, loop |-> FALSE, volumes |-> unities, callback |-> FALSE]
    BY <2>1 DEF Cleared
  <2>3. FillStop(c, s) \in CommandFields
    BY <1>2, <2>2 DEF CommandFields
  <2>4. FillStop(c, s) \in Requests
    BY <1>2, <2>2, <2>3 DEF Requests
  <2> QED
    BY <1>4, <2>3, <2>4 DEF SubmitStop
<1>5. CASE SubmitStopAndCallBack(k, c, s)
  <2>1. FillStopAndCallBack(c, s) =
          [[Cleared EXCEPT !.type = "stop", !.stm = s] EXCEPT !.callback = TRUE]
    BY <1>1 DEF FillStop, FillStopAndCallBack
  <2>2. FillStopAndCallBack(c, s) =
          [type |-> "stop", stm |-> s, loop |-> FALSE, volumes |-> unities, callback |-> TRUE]
    BY <2>1 DEF Cleared
  <2>3. FillStopAndCallBack(c, s) \in CommandFields
    BY <1>2, <2>2 DEF CommandFields
  <2>4. FillStopAndCallBack(c, s) \in Requests
    BY <1>2, <2>2, <2>3 DEF Requests
  <2> QED
    BY <1>5, <2>3, <2>4 DEF SubmitStopAndCallBack
<1>6. CASE \E level \in Volumes : SubmitVolumes(k, c, s, level)
  <2>1. PICK level \in Volumes : SubmitVolumes(k, c, s, level)
    BY <1>6
  <2>2. FillVolumes(c, s, level) =
          [Cleared EXCEPT !.type = "set_volume", !.stm = s,
                          !.volumes = [ch \in Channels |-> level]]
    BY <1>1 DEF FillVolumes
  <2>3. FillVolumes(c, s, level) =
          [type |-> "set_volume", stm |-> s, loop |-> FALSE,
           volumes |-> [ch \in Channels |-> level], callback |-> FALSE]
    BY <2>2 DEF Cleared
  <2>4. FillVolumes(c, s, level) \in CommandFields
    BY <2>3 DEF CommandFields
  <2>5. \E v \in Volumes : FillVolumes(c, s, level).volumes = [ch \in Channels |-> v]
    BY <2>3
  <2>6. FillVolumes(c, s, level) \in Requests
    <3> DEFINE r == FillVolumes(c, s, level)
    <3>1. /\ r \in CommandFields
          /\ r.stm \in Streams /\ r.type = "set_volume" /\ r.loop = FALSE /\ r.callback = FALSE
          /\ \E v \in Volumes : r.volumes = [ch \in Channels |-> v]
      BY <2>3, <2>4, <2>5
    <3> HIDE DEF r
    <3>2. r \in Requests
      BY <3>1, Zenon DEF Requests
    <3> QED
      BY <3>2 DEF r
  <2> QED
    BY <2>1, <2>4, <2>6 DEF SubmitVolumes
<1> QED
  BY <1>3, <1>4, <1>5, <1>6

LEMMA NextInvariant == IInv /\ [Next]_vars => IInv'
<1> SUFFICES ASSUME IInv, [Next]_vars PROVE IInv'
  OBVIOUS
<1>1. ASSUME NEW k \in Clients, ClientAlloc(k) PROVE IInv'
  BY <1>1, QuietSteps
<1>2. ASSUME NEW k \in Clients, ClientFree(k) PROVE IInv'
  BY <1>2, ClientFreeStep
<1>3. ASSUME NEW k \in Clients, CmdReuse(k) PROVE IInv'
  BY <1>3, CmdReuseStep
<1>4. ASSUME NEW k \in Clients, NEW c \in Commands, CmdNew(k, c) PROVE IInv'
  BY <1>4, CmdNewStep
<1>5. ASSUME NEW k \in Clients, NEW c \in Commands, CmdFree(k, c) PROVE IInv'
  BY <1>5, CmdFreeStep
<1>6. ASSUME NEW k \in Clients, NEW c \in Commands, NEW s \in Streams,
             \/ \E loop \in BOOLEAN : SubmitPlay(k, c, s, loop)
             \/ SubmitStop(k, c, s)
             \/ SubmitStopAndCallBack(k, c, s)
             \/ \E level \in Volumes : SubmitVolumes(k, c, s, level)
      PROVE  IInv'
  BY <1>6, Submitting, CmdSubmitStep
<1>7. CASE ClientNext
  BY <1>1, <1>2, <1>3, <1>4, <1>5, <1>6, <1>7 DEF ClientNext
<1>8. CASE AudioNext
  BY <1>8, QuietSteps, IntakeStep, ExhaustStep DEF AudioNext
<1>9. CASE AudioStop \/ UNCHANGED vars
  BY <1>9, QuietSteps
<1>10. CASE ServiceFree
  BY <1>10, ServiceFreeStep
<1> QED
  BY <1>7, <1>8, <1>9, <1>10 DEF Next

(* In every state that can be reached, for any number of clients, threads  *)
(* behind them and commands: commands are owned once, and what a client    *)
(* gives out has been cleared.                                             *)
THEOREM Invariance == Spec => []IInv
  BY InitInvariant, NextInvariant, PTL DEF Spec

(* The fields of a command and of the service keep their types.            *)
THEOREM TypeCorrect == Spec => []TypeOK
<1>1. IInv => TypeOK
  BY DEF IInv
<1> QED
  BY <1>1, Invariance, PTL

(* No command is lost, queued twice, or in the hands of two: neither       *)
(* snd_client_cmd_alloc's refill of a pool from the exhaust queue nor the  *)
(* freeing of a client or of the service breaks it.                        *)
THEOREM Ownership == Spec => []OneOwner
<1>1. IInv => OneOwner
  BY DEF IInv
<1> QED
  BY <1>1, Invariance, PTL

(* The audio thread finds its chamber empty whenever it takes a batch.     *)
THEOREM EmptyChamber == Spec => []ChamberEmptyAtIntake
<1>1. IInv => ChamberEmptyAtIntake
  BY DEF IInv
<1> QED
  BY <1>1, Invariance, PTL

-----------------------------------------------------------------------------
(* What travels                                                            *)

LEMMA ContentsType ==
  ASSUME TypeOK, NEW q \in Seq(Commands)
  PROVE  /\ Len(ContentsOf(q)) = Len(q)
         /\ q = <<>> => ContentsOf(q) = <<>>
  BY DEF ContentsOf

(* A command that is neither in the intake nor in the chamber may change.  *)
LEMMA ContentsKept ==
  ASSUME TypeOK, UNCHANGED <<cmds_intake, cmds_chamber>>,
         \A c \in Commands :
           Contains(cmds_intake, c) \/ Contains(cmds_chamber, c) => cmd'[c] = cmd[c]
  PROVE  /\ ContentsOf(cmds_intake)' = ContentsOf(cmds_intake)
         /\ ContentsOf(cmds_chamber)' = ContentsOf(cmds_chamber)
<1>1. cmds_intake \in Seq(Commands) /\ cmds_chamber \in Seq(Commands)
  BY DEF TypeOK
<1>2. \A n \in 1..Len(cmds_intake) : cmd'[cmds_intake[n]] = cmd[cmds_intake[n]]
  BY <1>1 DEF Contains
<1>3. \A n \in 1..Len(cmds_chamber) : cmd'[cmds_chamber[n]] = cmd[cmds_chamber[n]]
  BY <1>1 DEF Contains
<1> QED
  BY <1>2, <1>3 DEF ContentsOf

LEMMA PipeStutter ==
  ASSUME TypeOK, UNCHANGED <<cmds_intake, cmds_chamber, iter, phase>>,
         \A c \in Commands :
           Contains(cmds_intake, c) \/ Contains(cmds_chamber, c) => cmd'[c] = cmd[c]
  PROVE  UNCHANGED Pipe!pipeVars
  BY ContentsKept DEF Pipe!pipeVars

(* The steps that are about a command nobody else has.                     *)
LEMMA OwnSteps ==
  ASSUME IInv, NEW k \in Clients,
         \/ ClientAlloc(k)
         \/ ClientFree(k)
         \/ CmdReuse(k)
         \/ \E c \in Commands : CmdNew(k, c) \/ CmdFree(k, c)
  PROVE  UNCHANGED Pipe!pipeVars
<1> USE DEF IInv, queueVars, audioVars
<1>1. CASE ClientAlloc(k) \/ ClientFree(k) \/ \E c \in Commands : CmdFree(k, c)
  BY <1>1, PipeStutter DEF ClientAlloc, ClientFree, CmdFree
<1>2. ASSUME NEW c \in Commands, CmdNew(k, c) PROVE UNCHANGED Pipe!pipeVars
  <2>1. ~Contains(cmds_intake, c) /\ ~Contains(cmds_chamber, c)
    BY <1>2, IsInParts DEF CmdNew, OneOwner, OnePlace, Places
  <2> QED
    BY <1>2, <2>1, PipeStutter DEF CmdNew, TypeOK
<1>3. CASE CmdReuse(k)
  <2> SUFFICES ASSUME NEW q, q = Available(k), NEW c, c = Head(q) PROVE UNCHANGED Pipe!pipeVars
    OBVIOUS
  <2>1. q \in Seq(Commands) /\ q \in {cmd_pool[k], cmds_exhaust}
    BY DEF Available, TypeOK
  <2>2. c \in Commands /\ Contains(q, c)
    BY <1>3, <2>1, Elements DEF CmdReuse
  <2>3. IsIn("pool", c) \/ IsIn("exhaust", c)
    BY <2>1, <2>2, IsInParts
  <2>4. ~Contains(cmds_intake, c) /\ ~Contains(cmds_chamber, c)
    BY <2>2, <2>3, IsInParts DEF OneOwner, OnePlace, Places
  <2> QED
    BY <1>3, <2>4, PipeStutter DEF CmdReuse, TypeOK
<1> QED
  BY <1>1, <1>2, <1>3

LEMMA SubmitRefines ==
  ASSUME IInv, NEW k \in Clients, NEW c \in Commands, NEW contents \in Requests,
         CmdSubmit(k, c, contents)
  PROVE  Pipe!PipeNext
<1> USE DEF IInv
<1>1. /\ cmd' = [cmd EXCEPT ![c] = contents]
      /\ cmds_intake' = Append(cmds_intake, c)
      /\ UNCHANGED <<cmds_chamber, iter, phase>>
      /\ c \in filling[k]
  BY DEF CmdSubmit, audioVars
<1>2. cmd'[c] = contents /\ \A d \in Commands \ {c} : cmd'[d] = cmd[d]
  BY <1>1 DEF TypeOK
<1>3. ~Contains(cmds_intake, c) /\ ~Contains(cmds_chamber, c)
  BY <1>1, IsInParts DEF OneOwner, OnePlace, Places
<1>4. cmds_intake \in Seq(Commands) /\ cmds_chamber \in Seq(Commands)
  BY DEF TypeOK
<1>5. ContentsOf(cmds_chamber)' = ContentsOf(cmds_chamber)
  <2>1. \A n \in 1..Len(cmds_chamber) : cmd'[cmds_chamber[n]] = cmd[cmds_chamber[n]]
    BY <1>2, <1>3, <1>4 DEF Contains
  <2> QED
    BY <1>1, <2>1 DEF ContentsOf
<1>6. ContentsOf(cmds_intake)' = Append(ContentsOf(cmds_intake), contents)
  <2> DEFINE old == ContentsOf(cmds_intake)
             new == ContentsOf(cmds_intake)'
  <2>1. /\ Len(cmds_intake') = Len(cmds_intake) + 1
        /\ cmds_intake'[Len(cmds_intake) + 1] = c
        /\ \A n \in 1..Len(cmds_intake) : cmds_intake'[n] = cmds_intake[n]
        /\ Len(cmds_intake) \in Nat
    BY <1>1, <1>4
  <2>2. \A n \in 1..Len(cmds_intake) : cmd'[cmds_intake[n]] = cmd[cmds_intake[n]]
    BY <1>2, <1>3, <1>4 DEF Contains
  <2>3. new = [n \in 1..(Len(cmds_intake) + 1) |-> cmd'[cmds_intake'[n]]]
    BY <2>1 DEF ContentsOf
  <2>4. old = [n \in 1..Len(cmds_intake) |-> cmd[cmds_intake[n]]]
    BY DEF ContentsOf
  <2>5. old \in Seq(CommandFields) /\ Len(old) = Len(cmds_intake)
    BY <1>4, <2>1, <2>4 DEF TypeOK
  <2> HIDE DEF old, new
  <2>6. \A n \in 1..(Len(cmds_intake) + 1) :
          new[n] = IF n = Len(cmds_intake) + 1 THEN contents ELSE old[n]
    BY <1>2, <2>1, <2>2, <2>3, <2>4
  <2>7. new \in Seq(CommandFields) /\ Len(new) = Len(cmds_intake) + 1
    <3>1. contents \in CommandFields
      BY DEF Requests
    <3>2. \A n \in 1..(Len(cmds_intake) + 1) : new[n] \in CommandFields
      BY <2>1, <2>5, <2>6, <3>1
    <3> QED
      BY <2>1, <2>3, <3>2
  <2>8. contents \in CommandFields
    BY DEF Requests
  <2>9. /\ Append(old, contents) \in Seq(CommandFields)
        /\ Len(Append(old, contents)) = Len(cmds_intake) + 1
        /\ \A n \in 1..Len(cmds_intake) : Append(old, contents)[n] = old[n]
        /\ Append(old, contents)[Len(cmds_intake) + 1] = contents
    BY <2>5, <2>8, AppendProperties
  <2>10. \A n \in 1..(Len(cmds_intake) + 1) : new[n] = Append(old, contents)[n]
    BY <2>1, <2>6, <2>9
  <2>11. new = Append(old, contents)
    BY <2>7, <2>9, <2>10, SeqEqual
  <2> QED
    BY <2>11 DEF old, new
<1>7. Pipe!Submit(contents)
  BY <1>1, <1>5, <1>6 DEF Pipe!Submit
<1> QED
  BY <1>7 DEF Pipe!PipeNext

LEMMA AudioRefines ==
  ASSUME IInv, AudioNext
  PROVE  Pipe!PipeNext
<1> USE DEF IInv, queueVars, clientVars
<1>1. /\ cmds_intake \in Seq(Commands) /\ cmds_chamber \in Seq(Commands)
      /\ iter \in Nat \ {0}
  BY DEF TypeOK
<1>2. Len(ContentsOf(cmds_chamber)) = Len(cmds_chamber) /\ Len(cmds_chamber) \in Nat
  BY <1>1, ContentsType
<1>3. CASE Intake
  <2>1. /\ ContentsOf(cmds_chamber)' = ContentsOf(cmds_intake)
        /\ ContentsOf(cmds_intake)' = <<>>
    BY <1>3 DEF Intake, ContentsOf
  <2>2. Pipe!TakeBatch
    BY <1>3, <2>1 DEF Intake, Pipe!TakeBatch
  <2> QED
    BY <2>2 DEF Pipe!PipeNext
<1>4. CASE VisitNext
  <2>1. UNCHANGED <<ContentsOf(cmds_intake), ContentsOf(cmds_chamber), phase>>
    BY <1>4 DEF VisitNext, ContentsOf
  <2>2. iter \in 1..Len(ContentsOf(cmds_chamber))
    BY <1>1, <1>2, <1>4 DEF VisitNext
  <2>3. Pipe!Execute \/ Pipe!Notify
    BY <1>4, <2>1, <2>2 DEF VisitNext, Pipe!Execute, Pipe!Notify, Pipe!AtCommand
  <2> QED
    BY <2>3 DEF Pipe!PipeNext
<1>5. CASE BeginMix
  <2>1. UNCHANGED <<ContentsOf(cmds_intake), ContentsOf(cmds_chamber)>>
    BY <1>5 DEF BeginMix, ContentsOf
  <2>2. Pipe!StartMix
    BY <1>2, <1>5, <2>1 DEF BeginMix, Pipe!StartMix, Pipe!Visited
  <2> QED
    BY <2>2 DEF Pipe!PipeNext
<1>6. CASE EndMix
  <2>1. UNCHANGED <<ContentsOf(cmds_intake), ContentsOf(cmds_chamber)>>
    BY <1>6 DEF EndMix, ContentsOf
  <2>2. Pipe!EndMix
    BY <1>6, <2>1 DEF EndMix, Pipe!EndMix
  <2> QED
    BY <2>2 DEF Pipe!PipeNext
<1>7. CASE Exhaust
  <2>1. /\ ContentsOf(cmds_chamber)' = <<>>
        /\ UNCHANGED ContentsOf(cmds_intake)
    BY <1>7 DEF Exhaust, ContentsOf
  <2>2. Pipe!Recycle
    BY <1>2, <1>7, <2>1 DEF Exhaust, Pipe!Recycle, Pipe!Visited
  <2> QED
    BY <2>2 DEF Pipe!PipeNext
<1> QED
  BY <1>3, <1>4, <1>5, <1>6, <1>7 DEF AudioNext

LEMMA StepRefines ==
  IInv /\ [Next]_vars => [service' = "freed" \/ Pipe!PipeNext]_(Pipe!pipeVars)
<1> SUFFICES ASSUME IInv, [Next]_vars
             PROVE  service' = "freed" \/ Pipe!PipeNext \/ UNCHANGED Pipe!pipeVars
  OBVIOUS
<1>1. CASE ClientNext
  <2>1. PICK k \in Clients :
          \/ ClientAlloc(k)
          \/ ClientFree(k)
          \/ CmdReuse(k)
          \/ \E c \in Commands :
               \/ CmdNew(k, c)
               \/ CmdFree(k, c)
               \/ \E s \in Streams :
                    \/ \E loop \in BOOLEAN : SubmitPlay(k, c, s, loop)
                    \/ SubmitStop(k, c, s)
                    \/ SubmitStopAndCallBack(k, c, s)
                    \/ \E level \in Volumes : SubmitVolumes(k, c, s, level)
    BY <1>1 DEF ClientNext
  <2>2. ASSUME NEW c \in Commands, NEW s \in Streams,
               \/ \E loop \in BOOLEAN : SubmitPlay(k, c, s, loop)
               \/ SubmitStop(k, c, s)
               \/ SubmitStopAndCallBack(k, c, s)
               \/ \E level \in Volumes : SubmitVolumes(k, c, s, level)
        PROVE  Pipe!PipeNext
    BY <2>2, Submitting, SubmitRefines
  <2> QED
    BY <2>1, <2>2, OwnSteps
<1>2. CASE AudioNext
  BY <1>2, AudioRefines
<1>3. CASE AudioStop \/ UNCHANGED vars
  BY <1>3, PipeStutter DEF IInv, AudioStop, queueVars, clientVars, audioVars, vars
<1>4. CASE ServiceFree
  BY <1>4 DEF ServiceFree
<1> QED
  BY <1>1, <1>2, <1>3, <1>4 DEF Next

(* For any number of clients, streams, volumes and commands: until it is   *)
(* torn down the service is a pipe of values - each executed and called    *)
(* back once, in order, saying what its client asked - however the objects *)
(* that carry them are recycled.                                           *)
THEOREM Implementation == Spec => ImplementsCommandPipe
<1>1. Init => Pipe!PipeInit
  BY DEF Init, Pipe!PipeInit, ContentsOf
<1> QED
  BY <1>1, Invariance, StepRefines, PTL DEF Spec, ImplementsCommandPipe
=============================================================================
