---------------------------- MODULE SampleProofs ----------------------------
(***************************************************************************)
(* From the bytes of the application to the samples of the device, proved  *)
(* for every value of the constants: Mixdown, what the mixer's arithmetic  *)
(* does to the samples of all the streams, and BufferLock, how the samples *)
(* of a sound buffer are written.                                          *)
(*                                                                         *)
(* For BufferLock the invariant follows what was written on its way.  The  *)
(* bytes of a handle hold what was written through it, whether or not its  *)
(* conversion has failed since; the samples hold what ought to be heard,   *)
(* but for the frames that a conversion reaches in part or not at all; and *)
(* what has been written since the last Lock lies over either.             *)
(***************************************************************************)
EXTENDS Mixdown, BufferLock, TLAPS

(* One stream adds at most the loudest contribution, on either side.       *)
LEMMA ProductBounded ==
  ASSUME NEW s \in Samples, NEW v \in Volumes
  PROVE  /\ s * v \in Int
         /\ -Loudest <= s * v
         /\ s * v <= Loudest - 1
<1> USE MixdownAssumption DEF Samples, Volumes
<1>1. s \in Int /\ v \in Nat /\ -SampleSpan <= s /\ s <= SampleSpan - 1 /\ v <= Unity
  OBVIOUS
<1>2. s * v \in Int
  BY <1>1
<1>3. (s + SampleSpan) * v \in Nat
  BY <1>1
<1>4. (SampleSpan - 1 - s) * v \in Nat
  BY <1>1
<1>5. SampleSpan * (Unity - v) \in Nat
  BY <1>1
<1>6. (s + SampleSpan) * v = s * v + SampleSpan * v
  BY <1>1
<1>7. (SampleSpan - 1 - s) * v = SampleSpan * v - v - s * v
  BY <1>1
<1>8. SampleSpan * (Unity - v) = SampleSpan * Unity - SampleSpan * v
  BY <1>1
<1>9. SampleSpan * v \in Int /\ SampleSpan * Unity \in Int
  BY <1>1
<1>10. -Loudest <= s * v
  BY <1>1, <1>2, <1>3, <1>5, <1>6, <1>8, <1>9 DEF Loudest
<1>11. s * v <= SampleSpan * v - v
  BY <1>1, <1>2, <1>4, <1>7, <1>9
<1>12. CASE v = 0
  <2>1. s * v = 0
    BY <1>1, <1>12
  <2>2. SampleSpan * Unity \in Nat \ {0}
    <3>1. SampleSpan * Unity = (SampleSpan - 1) * Unity + Unity
      BY <1>1
    <3>2. (SampleSpan - 1) * Unity \in Nat
      BY <1>1
    <3> QED BY <3>1, <3>2
  <2> QED BY <1>2, <1>10, <2>1, <2>2 DEF Loudest
<1>13. CASE v # 0
  BY <1>1, <1>2, <1>5, <1>8, <1>9, <1>10, <1>11, <1>13 DEF Loudest
<1> QED BY <1>12, <1>13

(* A slot that is in range is as far from its ends as the streams still    *)
(* missing to the limit.                                                   *)
LEMMA SumFits ==
  ASSUME NEW n \in Nat, n <= Limit,
         NEW x \in Int, -(n * Loudest) <= x, x <= n * (Loudest - 1)
  PROVE  x \in Work
<1> USE MixdownAssumption
<1> DEFINE L == Loudest
<1>1. L \in Nat \ {0}
  <2>1. SampleSpan * Unity = (SampleSpan - 1) * Unity + Unity
    OBVIOUS
  <2>2. (SampleSpan - 1) * Unity \in Nat
    OBVIOUS
  <2> QED BY <2>1, <2>2 DEF Loudest
<1>2. Limit * L <= WorkSpan
  BY DEF Loudest
<1> HIDE DEF L
<1>3. n * L + (Limit - n) * L = Limit * L
  BY <1>1
<1>4. (Limit - n) * L \in Nat
  BY <1>1
<1>5. n * L <= WorkSpan /\ n * L \in Int /\ Limit * L \in Int
  BY <1>1, <1>2, <1>3, <1>4
<1>6. n * (L - 1) = n * L - n
  BY <1>1
<1>7. x <= WorkSpan - 1
  <2>1. CASE n = 0
    <3>1. n * (L - 1) = 0
      BY <1>1, <2>1
    <3>2. Limit * L = (Limit - 1) * L + L
      BY <1>1
    <3>3. (Limit - 1) * L \in Nat
      BY <1>1
    <3>4. x <= 0
      BY <3>1 DEF L
    <3> QED BY <1>1, <1>2, <3>2, <3>3, <3>4
  <2>2. CASE n # 0
    <3>1. x <= n * (L - 1)
      BY DEF L
    <3> QED BY <1>5, <1>6, <2>2, <3>1
  <2> QED BY <2>1, <2>2
<1>8. -WorkSpan <= x
  <2>1. -(n * L) <= x
    BY DEF L
  <2> QED BY <1>5, <2>1
<1> QED BY <1>7, <1>8 DEF Work

(* The invariant of the mix holds at first.                                *)
LEMMA InitInductive == Init => Inductive
<1> SUFFICES ASSUME Init PROVE Inductive
  OBVIOUS
<1> USE MixdownAssumption DEF Init
<1>1. Loudest \in Nat
  BY DEF Loudest
<1>2. 0 * Loudest = 0 /\ 0 * (Loudest - 1) = 0
  BY <1>1
<1>3. SumBounded
  BY <1>2 DEF SumBounded
<1>4. work \in Work
  BY SumFits, <1>3 DEF SumBounded
<1>5. sample \in Samples
  BY DEF Samples
<1>6. TypeOK
  <2>1. done \in BOOLEAN
    BY Zenon
  <2>2. mixed \in Nat /\ exact \in Int
    OBVIOUS
  <2> QED BY <1>4, <1>5, <2>1, <2>2, Zenon DEF TypeOK
<1>7. SlotIsSum /\ HeardIsClippedSum
  BY DEF SlotIsSum, HeardIsClippedSum
<1> QED BY <1>3, <1>6, <1>7 DEF Inductive

(* Every step of the mix keeps it.                                         *)
LEMMA NextInductive == Inductive /\ [Next]_vars => Inductive'
<1> SUFFICES ASSUME Inductive, [Next]_vars PROVE Inductive'
  OBVIOUS
<1> USE MixdownAssumption
<1>1. Loudest \in Nat
  BY DEF Loudest
<1>2. CASE Clear
  <2>1. 0 * Loudest = 0 /\ 0 * (Loudest - 1) = 0
    BY <1>1
  <2>2. SumBounded'
    BY <1>2, <2>1 DEF SumBounded, Clear
  <2>3. 0 \in Work
    BY SumFits, <2>1
  <2>4. TypeOK'
    <3>1. done' \in BOOLEAN
      BY <1>2, Zenon DEF Clear
    <3>2. mixed' \in Nat /\ exact' \in Int
      BY <1>2 DEF Clear
    <3>3. work' \in Work /\ sample' \in Samples
      BY <1>2, <2>3 DEF Clear, Inductive, TypeOK
    <3> QED BY <3>1, <3>2, <3>3, Zenon DEF TypeOK
  <2>5. SlotIsSum' /\ HeardIsClippedSum'
    BY <1>2 DEF SlotIsSum, HeardIsClippedSum, Clear
  <2> QED BY <2>2, <2>4, <2>5 DEF Inductive
<1>3. ASSUME NEW s \in Samples, NEW v \in Volumes, Render(s, v)
      PROVE  Inductive'
  <2> DEFINE p == s * v
  <2>1. p \in Int /\ -Loudest <= p /\ p <= Loudest - 1
    BY ProductBounded
  <2>2. mixed \in Nat /\ exact \in Int /\ mixed' = mixed + 1 /\ exact' = exact + p
    BY <1>3 DEF Inductive, TypeOK, Render
  <2>3. work' = Wrap(work + p)
    BY <1>3 DEF Render
  <2> HIDE DEF p
  <2>4. SumBounded'
    <3>1. (mixed + 1) * Loudest = mixed * Loudest + Loudest
      BY <1>1, <2>2
    <3>2. (mixed + 1) * (Loudest - 1) = mixed * (Loudest - 1) + (Loudest - 1)
      BY <1>1, <2>2
    <3>3. mixed * Loudest \in Int /\ mixed * (Loudest - 1) \in Int
      BY <1>1, <2>2
    <3>4. -(mixed * Loudest) <= exact /\ exact <= mixed * (Loudest - 1)
      BY DEF Inductive, SumBounded
    <3>5. -((mixed + 1) * Loudest) <= exact + p
      BY <1>1, <2>1, <2>2, <3>1, <3>3, <3>4
    <3>6. exact + p <= (mixed + 1) * (Loudest - 1)
      BY <1>1, <2>1, <2>2, <3>2, <3>3, <3>4
    <3> QED BY <2>2, <3>5, <3>6 DEF SumBounded
  <2>5. work' \in Work
    <3>1. Loudest <= WorkSpan
      <4>1. Limit * Loudest <= WorkSpan
        BY DEF Loudest
      <4>2. Limit * Loudest = (Limit - 1) * Loudest + Loudest
        BY <1>1
      <4>3. (Limit - 1) * Loudest \in Nat
        BY <1>1
      <4> QED BY <1>1, <4>1, <4>2, <4>3
    <3>2. work \in Work
      BY DEF Inductive, TypeOK
    <3> QED BY <1>1, <2>1, <2>3, <3>1, <3>2 DEF Wrap, Work
  <2>6. SlotIsSum'
    <3> SUFFICES ASSUME mixed + 1 <= Limit PROVE work' = exact + p
      BY <2>2 DEF SlotIsSum
    <3>1. work = exact
      BY <2>2 DEF Inductive, SlotIsSum
    <3>2. exact + p \in Work
      BY SumFits, <2>1, <2>2, <2>4 DEF SumBounded
    <3> QED BY <2>1, <2>2, <2>3, <3>1, <3>2 DEF Wrap, Work
  <2>7. ~done'
    BY <1>3 DEF Render
  <2> QED BY <1>3, <2>2, <2>4, <2>5, <2>6, <2>7
       DEF Inductive, TypeOK, HeardIsClippedSum, Render
<1>4. CASE Emit
  <2>1. work \in Int /\ exact \in Int /\ mixed \in Nat
    BY DEF Inductive, TypeOK, Work
  <2>2. work \div Unity \in Int
    BY <2>1
  <2>3. UNCHANGED <<work, mixed, exact>> /\ sample' = Clip(work \div Unity) /\ done'
    BY <1>4 DEF Emit
  <2>4. SumBounded' /\ SlotIsSum' /\ work' \in Work
    BY <2>3 DEF Inductive, TypeOK, SumBounded, SlotIsSum
  <2> DEFINE q == work \div Unity
  <2> HIDE DEF q
  <2>5. q \in Int /\ sample' = Clip(q)
    BY <2>2, <2>3 DEF q
  <2>6. sample' \in Samples
    BY <2>5 DEF Clip, Samples
  <2>7. \/ sample' = q
        \/ sample' = -SampleSpan /\ q < sample'
        \/ sample' = SampleSpan - 1 /\ q > sample'
    BY <2>5 DEF Clip
  <2>8. HeardIsClippedSum'
    <3> SUFFICES ASSUME mixed <= Limit
                 PROVE  \/ sample' = exact \div Unity
                        \/ sample' = -SampleSpan /\ exact \div Unity < sample'
                        \/ sample' = SampleSpan - 1 /\ exact \div Unity > sample'
      BY <2>3 DEF HeardIsClippedSum
    <3>1. q = exact \div Unity
      BY DEF Inductive, SlotIsSum, q
    <3> QED BY <2>7, <3>1
  <2> QED BY <2>1, <2>3, <2>4, <2>6, <2>8 DEF Inductive, TypeOK
<1>5. CASE UNCHANGED vars
  BY <1>5 DEF Inductive, TypeOK, SumBounded, SlotIsSum, HeardIsClippedSum, vars
<1> QED BY <1>2, <1>3, <1>4, <1>5 DEF Next

(* Whatever is mixed, a slot stays in the range of its integer and a sample*)
(* in that of its own.                                                     *)
THEOREM TypeCorrect == Spec => []TypeOK
<1>1. Inductive => TypeOK
  BY DEF Inductive
<1> QED BY InitInductive, NextInductive, <1>1, PTL DEF Spec

(* Up to the limit of streams - 256 with the code's widths - a mix is the  *)
(* clipped sum of what its streams play, however loud they are.            *)
THEOREM MixCorrect == Spec => []HeardIsClippedSum
<1>1. Inductive => HeardIsClippedSum
  BY DEF Inductive
<1> QED BY InitInductive, NextInductive, <1>1, PTL DEF Spec

-----------------------------------------------------------------------------
(* What a byte, or a frame, can hold, and what has been written where.     *)
Contents == Values \cup {Zero}
Deliveries == UNION {[places -> Contents] : places \in SUBSET Nat}

ValidFormats == {f \in Formats : Valid(f)}

(* The frames written since the last Lock into the bytes of a handle, and  *)
(* into the samples themselves.                                            *)
PendingIn(h) == IF grant # NoGrant /\ grant.handle = h THEN grant.wrote ELSE {}
DirectPending ==
  IF grant # NoGrant /\ conv[grant.handle] = NoFormat THEN grant.wrote ELSE {}

(* The types of the variables, and what Lock has said of the span.         *)
LockTypeOK ==
  /\ format \in [Handles -> Formats \cup {NoFormat}]
  /\ conv \in [Handles -> ValidFormats \cup {NoFormat}]
  /\ conv_bytes \in [Handles -> {"null", "live", "dangling"}]
  /\ source \in [Handles -> [Bytes -> Contents]]
  /\ samples \in [Frames -> SUBSET Contents]
  /\ mine \in [Handles -> Deliveries] /\ written \in Deliveries
  /\ grant # NoGrant =>
       /\ grant \in Grants
       /\ grant.span = Span(grant.format, grant.in_pos, grant.in_nbytes)
       /\ grant.wrote # {} =>
            Valid(grant.format) /\ grant.wrote \subseteq 0..(NFrames(grant.format) - 1)
  /\ used \subseteq Handles /\ opened \subseteq Formats
  /\ disturbed \in BOOLEAN /\ refused \in BOOLEAN /\ set_formats \in Nat

(* A converter belongs to a handle that is there and has been locked, and, *)
(* as long as nothing was disturbed, to each of those that needs one.      *)
ConvInv ==
  /\ \A h \in Handles : conv[h] # NoFormat =>
       h \in used /\ format[h] # NoFormat /\ conv[h] \in opened /\ conv[h] # SysFormat
  /\ \A h \in Handles : h \notin used => DOMAIN mine[h] = {}
  /\ grant # NoGrant => grant.handle \in used /\ format[grant.handle] # NoFormat
  /\ ~disturbed =>
       /\ \A h \in used : format[h] # NoFormat =>
            conv[h] = IF RequiresConversion(h) THEN format[h] ELSE NoFormat
       /\ grant # NoGrant => grant.format = format[grant.handle]

(* The bytes of a handle hold what was written through it, whether or not  *)
(* it has been converted, under what has been written since the last Lock. *)
BytesInv ==
  ~disturbed => \A h \in Handles : conv[h] # NoFormat =>
    /\ DOMAIN mine[h] \subseteq Places(conv[h])
    /\ \A j \in DOMAIN mine[h] : SourceOf(conv[h], j) \notin PendingIn(h) =>
         \A b \in FrameBytes(conv[h], SourceOf(conv[h], j)) : source[h][b] = mine[h][j]
    /\ \A i \in PendingIn(h) :
         \A b \in FrameBytes(conv[h], i) : source[h][b] = grant.value

(* Where a conversion does not reach for sure.                             *)
BeyondReach(j) ==
  \E f \in opened : j \in Places(f) /\ (j >= WholeFrames(f) \/ j >= SysFrames)

(* The samples hold what ought to be heard, under what has been written    *)
(* into them since the last Lock.                                          *)
SamplesInv ==
  ~disturbed =>
    /\ \A j \in DOMAIN written : j \in Frames \/ BeyondReach(j)
    /\ \A j \in DOMAIN written :
         j \in DirectPending \/ samples[j] = {written[j]} \/ BeyondReach(j)
    /\ \A j \in DirectPending : j \in Frames /\ samples[j] = {grant.value}

(* While no converter has been refused, the bytes are there with their     *)
(* converter and nothing else, and every format is one to create with.     *)
FailInv ==
  ~refused =>
    /\ failed = "none"
    /\ \A h \in Handles :
         /\ conv_bytes[h] = IF conv[h] # NoFormat THEN "live" ELSE "null"
         /\ format[h] # NoFormat => Usable(format[h])

(* The inductive invariant of BufferLock.                                  *)
LockIInv == LockTypeOK /\ ConvInv /\ BytesInv /\ SamplesInv /\ FailInv

-----------------------------------------------------------------------------
(* The arithmetic of frames.                                               *)
LEMMA DivMod ==
  ASSUME NEW x \in Nat, NEW d \in Nat \ {0}
  PROVE  /\ x \div d \in Nat
         /\ (x \div d) * d <= x
         /\ x < (x \div d) * d + d
  OBVIOUS

(* A quotient is below n where the dividend is below n times the divisor.  *)
LEMMA QuotientBelow ==
  ASSUME NEW x \in Nat, NEW d \in Nat \ {0}, NEW n \in Nat, x < n * d
  PROVE  x \div d < n
<1> DEFINE q == x \div d
<1>1. q \in Nat /\ q * d <= x
  BY DivMod
<1> HIDE DEF q
<1>2. ASSUME q >= n PROVE FALSE
  <2>1. (q - n) * d \in Nat
    BY <1>1, <1>2
  <2>2. q * d = n * d + (q - n) * d /\ n * d \in Nat
    BY <1>1, <1>2
  <2> QED BY <1>1, <2>1, <2>2
<1> QED BY <1>1, <1>2 DEF q

(* What is said of rates and frames of formats that are valid.             *)
LEMMA FormatFacts ==
  ASSUME NEW f \in ValidFormats
  PROVE  /\ f \in Formats /\ Valid(f) /\ f # NoFormat
         /\ Bpf(f) \in Nat \ {0} /\ f.rate \in Nat \ {0}
<1>1. f \in Formats /\ Valid(f) /\ f # NoFormat
  BY BufferLockAssumption DEF ValidFormats
<1>2. f.rate \in Nat \ {0} /\ f.channels \in Nat \ {0} /\ f.bits \in Nat \ {0}
  BY <1>1, BufferLockAssumption DEF Valid
<1>3. f.bits \div 8 \in Nat \ {0}
  <2>1. f.bits % 8 = 0
    BY <1>1 DEF Valid
  <2> QED BY <1>2, <2>1
<1>4. \A x, y \in Nat \ {0} : x * y \in Nat \ {0}
  OBVIOUS
<1> QED BY <1>1, <1>2, <1>3, <1>4 DEF Bpf

(* The formats and the sizes that are given.                               *)
LEMMA TheFormats ==
  /\ SysFormat \in ValidFormats /\ FirstFormat \in ValidFormats
  /\ NoFormat \notin Formats /\ Original \in Handles
  /\ SizeLimit \in Nat \ {0} /\ ConvNBytes \in Nat \ {0} /\ ConvNBytes < SizeLimit
BY BufferLockAssumption DEF ValidFormats, Usable, Handles

(* A quotient rounded upwards is the least that is enough.                 *)
LEMMA CeilDivFacts ==
  ASSUME NEW x \in Nat, NEW d \in Nat \ {0}
  PROVE  /\ CeilDiv(x, d) \in Nat
         /\ x <= CeilDiv(x, d) * d
         /\ x \div d <= CeilDiv(x, d)
         /\ \A k \in Nat : x <= k * d => CeilDiv(x, d) <= k
         /\ \A j \in Nat : j < CeilDiv(x, d) => j * d < x
<1> DEFINE q == CeilDiv(x, d)
<1>1. x + (d - 1) \in Nat
  OBVIOUS
<1>2. q \in Nat /\ q * d <= x + (d - 1) /\ x + (d - 1) < q * d + d
  BY <1>1, DivMod DEF CeilDiv
<1>3. x \div d \in Nat /\ (x \div d) * d <= x
  BY DivMod
<1> DEFINE p == x \div d
<1> HIDE DEF q, p
<1>4. q * d \in Nat
  BY <1>2
<1>5. ASSUME NEW k \in Nat, x <= k * d PROVE q <= k
  <2>1. ASSUME q >= k + 1 PROVE FALSE
    <3>1. (q - k - 1) * d \in Nat
      BY <1>2, <2>1
    <3>2. q * d = k * d + d + (q - k - 1) * d /\ k * d \in Nat
      BY <1>2, <2>1
    <3> QED BY <1>2, <1>5, <3>1, <3>2
  <2> QED BY <1>2, <2>1
<1>6. ASSUME NEW j \in Nat, j < q PROVE j * d < x
  <2>1. j * d \in Nat
    OBVIOUS
  <2> QED BY <1>2, <1>5, <1>6, <2>1
<1>7. x <= q * d
  BY <1>2, <1>4
<1>8. p <= q
  <2>1. p \in Nat /\ p * d <= x
    BY <1>3 DEF p
  <2>2. ASSUME p > q PROVE FALSE
    <3>1. (p - q - 1) * d \in Nat
      BY <1>2, <2>1, <2>2
    <3>2. p * d = q * d + d + (p - q - 1) * d
      BY <1>2, <2>1, <2>2
    <3> QED BY <1>2, <1>4, <1>7, <2>1, <3>1, <3>2
  <2> QED BY <1>2, <2>1, <2>2
<1> QED BY <1>2, <1>5, <1>6, <1>7, <1>8 DEF q, p

(* Every size is a natural number below 2^32.                              *)
LEMMA Sizes ==
  ASSUME NEW f
  PROVE  NBytes(f) \in Nat /\ NBytes(f) < SizeLimit
<1>1. SizeLimit \in Nat \ {0} /\ ConvNBytes \in Nat \ {0} /\ ConvNBytes < SizeLimit
  BY TheFormats
<1>2. SysNBytes \in Nat /\ SysNBytes < SizeLimit
  <2>1. PICK k : SysNBytes = k % SizeLimit /\ k \in Nat
    <3> DEFINE n == ConvNBytes \div Bpf(FirstFormat)
    <3>1. /\ Bpf(FirstFormat) \in Nat \ {0} /\ FirstFormat.rate \in Nat \ {0}
          /\ Bpf(SysFormat) \in Nat \ {0} /\ SysFormat.rate \in Nat \ {0}
      BY TheFormats, FormatFacts
    <3>2. n \in Nat
      BY <1>1, <3>1, DivMod
    <3> HIDE DEF n
    <3>3. n * SysFormat.rate \in Nat
      BY <3>1, <3>2
    <3>4. DestNFrames(FirstFormat, SysFormat, n) \in Nat
      BY <3>1, <3>3, CeilDivFacts DEF DestNFrames
    <3>5. DestNFrames(FirstFormat, SysFormat, n) * Bpf(SysFormat) \in Nat
      BY <3>1, <3>4
    <3>6. SysNBytes = (DestNFrames(FirstFormat, SysFormat, n) * Bpf(SysFormat)) % SizeLimit
      BY DEF SysNBytes, DestNBytes, n
    <3> QED BY <3>5, <3>6
  <2> QED BY <1>1, <2>1
<1> QED BY <1>1, <1>2 DEF NBytes

(* The frames of a buffer lie within its bytes.                            *)
LEMMA FramesInBytes ==
  ASSUME NEW f \in ValidFormats
  PROVE  /\ NFrames(f) \in Nat
         /\ NFrames(f) * Bpf(f) <= NBytes(f)
         /\ \A i \in 0..(NFrames(f) - 1) : f # SysFormat => FrameBytes(f, i) \subseteq Bytes
<1>1. Bpf(f) \in Nat \ {0} /\ NBytes(f) \in Nat
  BY FormatFacts, Sizes
<1>2. NFrames(f) \in Nat /\ NFrames(f) * Bpf(f) <= NBytes(f)
  BY <1>1, DivMod DEF NFrames
<1>3. ASSUME NEW i \in 0..(NFrames(f) - 1), f # SysFormat
      PROVE  FrameBytes(f, i) \subseteq Bytes
  <2> DEFINE n == NFrames(f)
             d == Bpf(f)
  <2>0. n \in Nat /\ d \in Nat \ {0} /\ i \in 0..(n - 1) /\ n * d <= ConvNBytes
    BY <1>1, <1>2, <1>3 DEF NBytes
  <2>1. FrameBytes(f, i) = (i * d) .. ((i + 1) * d - 1)
    BY DEF FrameBytes
  <2> HIDE DEF n, d
  <2>2. i * d \in Nat /\ (i + 1) * d \in Nat /\ (n - i - 1) * d \in Nat /\ n * d \in Nat
    BY <2>0
  <2>3. n * d = (i + 1) * d + (n - i - 1) * d
    BY <2>0
  <2> QED BY <2>0, <2>1, <2>2, <2>3, TheFormats DEF Bytes
<1> QED BY <1>2, <1>3

(* A frame has a byte, and no byte is in two frames.                       *)
LEMMA FramesApart ==
  ASSUME NEW f \in ValidFormats, NEW i \in Nat
  PROVE  /\ FrameBytes(f, i) # {}
         /\ \A k \in Nat : \A b \in FrameBytes(f, i) : b \in FrameBytes(f, k) => i = k
<1>1. PICK d \in Nat \ {0} : d = Bpf(f)
  BY FormatFacts
<1>2. \A k : FrameBytes(f, k) = (k * d) .. ((k + 1) * d - 1)
  BY <1>1 DEF FrameBytes
<1>3. i * d \in Nat /\ (i + 1) * d = i * d + d
  BY <1>1
<1>4. i * d \in FrameBytes(f, i)
  BY <1>2, <1>3
<1>5. ASSUME NEW m \in Nat, NEW n \in Nat, m < n PROVE (m + 1) * d <= n * d
  <2>1. (n - m - 1) * d \in Nat
    BY <1>5
  <2>2. n * d = (m + 1) * d + (n - m - 1) * d /\ (m + 1) * d \in Nat
    BY <1>5
  <2> QED BY <2>1, <2>2
<1>6. ASSUME NEW k \in Nat, NEW b \in FrameBytes(f, i), b \in FrameBytes(f, k), i # k
      PROVE  FALSE
  <2>1. k * d \in Nat /\ (k + 1) * d \in Nat /\ (i + 1) * d \in Nat
    OBVIOUS
  <2>2. i * d <= b /\ b < (i + 1) * d /\ k * d <= b /\ b < (k + 1) * d /\ b \in Int
    BY <1>2, <1>3, <1>6, <2>1
  <2>3. CASE i < k
    BY <1>3, <1>5, <2>1, <2>2, <2>3
  <2>4. CASE k < i
    BY <1>3, <1>5, <2>1, <2>2, <2>4
  <2> QED BY <1>6, <2>3, <2>4
<1> QED BY <1>4, <1>6

(* The places of a handle's frames, and the frame that is heard at each.   *)
LEMMA PlaceFacts ==
  ASSUME NEW f \in ValidFormats
  PROVE  /\ DestNFrames(f, SysFormat, NFrames(f)) \in Nat
         /\ WholeFrames(f) \in Nat
         /\ WholeFrames(f) <= DestNFrames(f, SysFormat, NFrames(f))
         /\ Places(f) = 0..(DestNFrames(f, SysFormat, NFrames(f)) - 1)
         /\ \A j \in Places(f) : SourceOf(f, j) \in 0..(NFrames(f) - 1)
<1>1. PICK s \in Nat \ {0}, r \in Nat \ {0}, n \in Nat :
        s = SysFormat.rate /\ r = f.rate /\ n = NFrames(f)
  BY FormatFacts, TheFormats, FramesInBytes
<1>2. n * s \in Nat
  BY <1>1
<1>3. /\ DestNFrames(f, SysFormat, NFrames(f)) = CeilDiv(n * s, r)
      /\ WholeFrames(f) = (n * s) \div r
      /\ \A j : SourceOf(f, j) = (j * r) \div s
  BY <1>1 DEF DestNFrames, WholeFrames, SourceOf
<1>4. /\ CeilDiv(n * s, r) \in Nat
      /\ (n * s) \div r <= CeilDiv(n * s, r)
      /\ \A j \in Nat : j < CeilDiv(n * s, r) => j * r < n * s
  BY <1>1, <1>2, CeilDivFacts
<1>5. (n * s) \div r \in Nat
  BY <1>1, <1>2, DivMod
<1>6. Places(f) = 0..(CeilDiv(n * s, r) - 1)
  BY <1>3, FormatFacts DEF Places
<1>7. ASSUME NEW j \in Places(f) PROVE SourceOf(f, j) \in 0..(NFrames(f) - 1)
  <2>1. j \in Nat /\ j * r < n * s /\ j * r \in Nat
    <3>1. j \in Nat /\ j < CeilDiv(n * s, r)
      BY <1>4, <1>6, <1>7
    <3> QED BY <1>1, <1>4, <3>1
  <2>2. (j * r) \div s \in Nat /\ (j * r) \div s < n
    BY <1>1, <2>1, DivMod, QuotientBelow
  <2>3. SourceOf(f, j) \in Nat /\ SourceOf(f, j) < n
    BY <1>3, <2>2
  <2> QED BY <1>1, <2>3
<1> QED BY <1>3, <1>4, <1>5, <1>6, <1>7

(* In the device's format every frame is its own place.                    *)
LEMMA DirectPlaces ==
  /\ Places(SysFormat) = Frames
  /\ \A j \in Nat : SourceOf(SysFormat, j) = j
<1>1. PICK s \in Nat \ {0}, n \in Nat : s = SysFormat.rate /\ n = SysFrames
  BY FormatFacts, TheFormats, FramesInBytes DEF SysFrames
<1>2. \A x \in Nat : (x * s) \div s = x
  BY <1>1
<1>3. \A j \in Nat : SourceOf(SysFormat, j) = j
  BY <1>1, <1>2 DEF SourceOf
<1>4. CeilDiv(n * s, s) = n
  <2>1. n * s \in Nat
    BY <1>1
  <2>2. CeilDiv(n * s, s) <= n
    BY <1>1, <2>1, CeilDivFacts
  <2>3. n <= CeilDiv(n * s, s) /\ CeilDiv(n * s, s) \in Nat
    BY <1>1, <1>2, <2>1, CeilDivFacts
  <2> QED BY <2>2, <2>3
<1>5. DestNFrames(SysFormat, SysFormat, NFrames(SysFormat)) = SysFrames
  BY <1>1, <1>4 DEF DestNFrames, SysFrames
<1> QED BY <1>3, <1>5, PlaceFacts, TheFormats DEF Frames

(* The lesser of two numbers.                                              *)
LEMMA MinOfTwo ==
  ASSUME NEW a \in Int, NEW b \in Int
  PROVE  Min({a, b}) = IF a <= b THEN a ELSE b
<1> DEFINE m == IF a <= b THEN a ELSE b
<1>1. m \in {a, b} /\ \A y \in {a, b} : m <= y
  OBVIOUS
<1>2. \A x \in {a, b} : (\A y \in {a, b} : x <= y) => x = m
  OBVIOUS
<1> HIDE DEF m
<1>3. Min({a, b}) = m
  BY <1>1, <1>2 DEF Min
<1> QED BY <1>3 DEF m

(* A conversion fills, of the places that exist, all that are covered      *)
(* wholly and none outside the handle's.                                   *)
LEMMA FilledFacts ==
  ASSUME NEW f \in ValidFormats, NEW n \in Filled(f)
  PROVE  /\ n \in Int
         /\ n <= DestNFrames(f, SysFormat, NFrames(f))
         /\ \A j \in Int : j < WholeFrames(f) /\ j < SysFrames => j < n
<1>1. SysFrames \in Nat
  BY FramesInBytes, TheFormats DEF SysFrames
<1>2. /\ DestNFrames(f, SysFormat, NFrames(f)) \in Nat /\ WholeFrames(f) \in Nat
      /\ WholeFrames(f) <= DestNFrames(f, SysFormat, NFrames(f))
  BY PlaceFacts
<1>3. PICK m \in {WholeFrames(f), DestNFrames(f, SysFormat, NFrames(f))} :
        n = Min({m, SysFrames})
  BY DEF Filled
<1>4. n = IF m <= SysFrames THEN m ELSE SysFrames
  BY <1>1, <1>2, <1>3, MinOfTwo
<1> QED BY <1>1, <1>2, <1>3, <1>4

(* Bytes that last no longer than when buf was made have room in it.       *)
LEMMA RoomForPlaces ==
  ASSUME NEW f \in ValidFormats, LastsNoLonger(f),
         Fits(FirstFormat, SysFormat, ConvNBytes \div Bpf(FirstFormat))
  PROVE  Places(f) \subseteq Frames
<1>1. PICK s \in Nat \ {0}, r \in Nat \ {0}, n \in Nat, c \in Nat \ {0} :
        s = SysFormat.rate /\ r = f.rate /\ n = NFrames(f) /\ c = Bpf(SysFormat)
  BY FormatFacts, TheFormats, FramesInBytes
<1>2. PICK o \in Nat \ {0}, d \in Nat \ {0}, m \in Nat :
        o = FirstFormat.rate /\ d = Bpf(FirstFormat) /\ m = ConvNBytes \div d
  BY FormatFacts, TheFormats, DivMod
<1>3. n * o <= m * r
  BY <1>1, <1>2 DEF LastsNoLonger
<1>4. PICK k \in Nat : /\ k = CeilDiv(m * s, o) /\ m * s <= k * o
  <2>1. m * s \in Nat
    BY <1>1, <1>2
  <2> QED BY <1>2, <2>1, CeilDivFacts
<1>5. SysFrames = k
  <2>1. k = DestNFrames(FirstFormat, SysFormat, ConvNBytes \div Bpf(FirstFormat))
    BY <1>1, <1>2, <1>4 DEF DestNFrames
  <2>2. k * c < SizeLimit /\ SysNBytes = (k * c) % SizeLimit
    BY <1>1, <2>1 DEF Fits, SysNBytes, DestNBytes
  <2>3. SysNBytes = k * c
    <3>1. k * c \in Nat /\ SizeLimit \in Nat \ {0}
      BY <1>1, <1>4, TheFormats
    <3> QED BY <2>2, <3>1
  <2>4. (k * c) \div c = k
    BY <1>1, <1>4
  <2>5. SysFrames = SysNBytes \div c
    BY <1>1 DEF SysFrames, NFrames, NBytes
  <2> QED BY <2>3, <2>4, <2>5
<1>6. n * s <= k * r
  <2>1. (n * o) * s <= (m * r) * s
    <3>1. (m * r - n * o) \in Nat
      BY <1>1, <1>2, <1>3
    <3>2. (m * r - n * o) * s \in Nat
      BY <1>1, <3>1
    <3>3. (m * r - n * o) * s = (m * r) * s - (n * o) * s
      BY <1>1, <1>2
    <3>4. (m * r) * s \in Nat /\ (n * o) * s \in Nat
      BY <1>1, <1>2
    <3> QED BY <3>2, <3>3, <3>4
  <2>2. (m * s) * r <= (k * o) * r
    <3>1. (k * o - m * s) \in Nat
      BY <1>1, <1>2, <1>4
    <3>2. (k * o - m * s) * r \in Nat
      BY <1>1, <3>1
    <3>3. (k * o - m * s) * r = (k * o) * r - (m * s) * r
      BY <1>1, <1>2, <1>4
    <3>4. (k * o) * r \in Nat /\ (m * s) * r \in Nat
      BY <1>1, <1>2, <1>4
    <3> QED BY <3>2, <3>3, <3>4
  <2>3. (m * r) * s = (m * s) * r /\ (n * o) * s = (n * s) * o /\ (k * o) * r = (k * r) * o
    BY <1>1, <1>2, <1>4
  <2>4. /\ (n * s) * o \in Nat /\ (k * r) * o \in Nat /\ (m * s) * r \in Nat
        /\ n * s \in Nat /\ k * r \in Nat
    BY <1>1, <1>2, <1>4
  <2>5. (n * s) * o <= (k * r) * o
    BY <2>1, <2>2, <2>3, <2>4
  <2>6. ASSUME NEW x \in Nat, NEW y \in Nat, x * o <= y * o PROVE x <= y
    <3>1. ASSUME x > y PROVE FALSE
      <4>1. (x - y - 1) * o \in Nat /\ x * o = y * o + o + (x - y - 1) * o /\ y * o \in Nat
        BY <1>2, <3>1
      <4> QED BY <1>2, <2>6, <4>1
    <3> QED BY <3>1
  <2> QED BY <2>4, <2>5, <2>6
<1>7. CeilDiv(n * s, r) <= k
  <2>1. n * s \in Nat
    BY <1>1
  <2> QED BY <1>1, <1>4, <1>6, <2>1, CeilDivFacts
<1>8. DestNFrames(f, SysFormat, NFrames(f)) <= SysFrames
  BY <1>1, <1>5, <1>7 DEF DestNFrames
<1>9. /\ Places(f) = 0..(DestNFrames(f, SysFormat, NFrames(f)) - 1)
      /\ DestNFrames(f, SysFormat, NFrames(f)) \in Nat /\ SysFrames \in Nat
  BY <1>4, <1>5, PlaceFacts
<1> QED BY <1>8, <1>9 DEF Frames

-----------------------------------------------------------------------------
(* The arithmetic of Lock: the span without the minima of sets and, where  *)
(* it has no borrow, the modulus.                                          *)
LEMMA SpanIs ==
  ASSUME NEW f, NEW p \in Requested, NEW n \in Requested
  PROVE  LET size == NBytes(f)
             start == IF p <= size THEN p ELSE size
             end == IF (p + n) % SizeLimit <= size THEN (p + n) % SizeLimit ELSE size
         IN /\ Span(f, p, n) = [start |-> start, nbytes |-> (end - start) % SizeLimit]
            /\ start \in Nat /\ end \in Nat
            /\ (end - start) % SizeLimit \in Nat
            /\ 0 <= end - start => (end - start) % SizeLimit = end - start
<1> DEFINE size == NBytes(f)
           sum == (p + n) % SizeLimit
           start == IF p <= size THEN p ELSE size
           end == IF sum <= size THEN sum ELSE size
<1>1. size \in Nat /\ size < SizeLimit /\ SizeLimit \in Nat \ {0}
  BY Sizes, TheFormats
<1>2. p \in Nat /\ n \in Nat /\ p + n \in Nat
  BY <1>1, BufferLockAssumption
<1>3. sum \in Nat /\ sum < SizeLimit
  BY <1>1, <1>2
<1>4. Min({p, size}) = start /\ Min({sum, size}) = end
  <2> HIDE DEF size, sum
  <2> QED BY <1>1, <1>2, <1>3, MinOfTwo
<1>5. Span(f, p, n) = [start |-> start, nbytes |-> (end - start) % SizeLimit]
  BY <1>4 DEF Span
<1> HIDE DEF size, sum
<1>6. start \in Nat /\ end \in Nat /\ start <= size /\ end <= size
  BY <1>1, <1>2, <1>3
<1> HIDE DEF start, end
<1>7. (end - start) % SizeLimit \in Nat
  BY <1>1, <1>6
<1>8. ASSUME 0 <= end - start PROVE (end - start) % SizeLimit = end - start
  <2>1. end - start \in Nat /\ end - start < SizeLimit
    BY <1>1, <1>6, <1>8
  <2> QED BY <1>1, <2>1
<1> QED BY <1>5, <1>6, <1>7, <1>8 DEF start, end, sum, size

(* A span is a pair of natural numbers.                                    *)
LEMMA SpanType ==
  ASSUME NEW f, NEW p \in Requested, NEW n \in Requested
  PROVE  Span(f, p, n) \in [start : Nat, nbytes : Nat]
<1>1. PICK a, b : Span(f, p, n) = [start |-> a, nbytes |-> b] /\ a \in Nat /\ b \in Nat
  <2> DEFINE size == NBytes(f)
             a == IF p <= size THEN p ELSE size
             sum == (p + n) % SizeLimit
             end == IF sum <= size THEN sum ELSE size
             b == (end - a) % SizeLimit
  <2>1. Span(f, p, n) = [start |-> a, nbytes |-> b] /\ a \in Nat /\ b \in Nat
    BY SpanIs
  <2> HIDE DEF a, b
  <2> QED BY <2>1
<1> QED BY <1>1

(* A span whose end does not overflow is the part of the request that      *)
(* exists.                                                                 *)
LEMMA SpanExact ==
  ASSUME NEW f, NEW p \in Requested, NEW n \in Requested,
         p + n < SizeLimit
  PROVE  Span(f, p, n).start .. Span(f, p, n).start + Span(f, p, n).nbytes - 1
         = (p .. p + n - 1) \cap (0 .. NBytes(f) - 1)
<1> DEFINE size == NBytes(f)
           start == IF p <= size THEN p ELSE size
           sum == (p + n) % SizeLimit
           end == IF sum <= size THEN sum ELSE size
<1>1. size \in Nat /\ size < SizeLimit /\ SizeLimit \in Nat \ {0}
  BY Sizes, TheFormats
<1>2. p \in Nat /\ n \in Nat /\ p + n \in Nat
  BY <1>1, BufferLockAssumption
<1>3. sum = p + n
  BY <1>1, <1>2
<1>4. /\ Span(f, p, n) = [start |-> start, nbytes |-> (end - start) % SizeLimit]
      /\ 0 <= end - start => (end - start) % SizeLimit = end - start
  BY SpanIs
<1> HIDE DEF size, sum
<1>5. 0 <= end - start /\ start \in Nat /\ end \in Nat
  BY <1>1, <1>2, <1>3
<1>6. start + (end - start) - 1 = end - 1
  BY <1>5
<1>7. (start .. end - 1) = (p .. p + n - 1) \cap (0 .. size - 1)
  BY <1>1, <1>2, <1>3
<1> HIDE DEF start, end
<1>8. Span(f, p, n).start = start /\ Span(f, p, n).nbytes = end - start
  BY <1>4, <1>5
<1> QED BY <1>6, <1>7, <1>8 DEF size

-----------------------------------------------------------------------------
(* What is delivered over what was delivered before.                       *)
LEMMA OverFacts ==
  ASSUME NEW new \in Deliveries, NEW old \in Deliveries
  PROVE  /\ Over(new, old) \in Deliveries
         /\ DOMAIN Over(new, old) = DOMAIN new \cup DOMAIN old
         /\ \A j \in DOMAIN new : Over(new, old)[j] = new[j]
         /\ \A j \in DOMAIN old : j \notin DOMAIN new => Over(new, old)[j] = old[j]
<1>1. PICK xs \in SUBSET Nat : new \in [xs -> Contents]
  BY DEF Deliveries
<1>2. PICK ys \in SUBSET Nat : old \in [ys -> Contents]
  BY DEF Deliveries
<1>3. Over(new, old) = [j \in xs \cup ys |-> IF j \in xs THEN new[j] ELSE old[j]]
  BY <1>1, <1>2 DEF Over
<1>4. Over(new, old) \in [xs \cup ys -> Contents]
  BY <1>1, <1>2, <1>3
<1>5. Over(new, old) \in Deliveries
  BY <1>4 DEF Deliveries
<1> QED BY <1>1, <1>2, <1>3, <1>5

(* Nothing has been delivered at first.                                    *)
LEMMA NothingDelivered == Nothing \in Deliveries /\ DOMAIN Nothing = {}
<1>1. Nothing \in [{} -> Contents] /\ {} \in SUBSET Nat
  BY DEF Nothing
<1> QED BY <1>1 DEF Deliveries, Nothing

(* What a grant delivers.                                                  *)
LEMMA DeliveredFacts ==
  ASSUME LockTypeOK, grant # NoGrant
  PROVE  /\ Delivered \in Deliveries
         /\ DOMAIN Delivered = {k \in Places(grant.format) :
                                  SourceOf(grant.format, k) \in grant.wrote}
         /\ \A j \in DOMAIN Delivered : Delivered[j] = grant.value
<1> DEFINE ks == {k \in Places(grant.format) : SourceOf(grant.format, k) \in grant.wrote}
<1>1. grant \in Grants
  BY DEF LockTypeOK
<1>2. grant.format \in Formats /\ grant.value \in Contents
  BY <1>1 DEF Grants, Contents
<1>3. ks \in SUBSET Nat
  <2>1. CASE Valid(grant.format)
    <3>1. grant.format \in ValidFormats
      BY <1>2, <2>1 DEF ValidFormats
    <3>2. /\ Places(grant.format)
               = 0..(DestNFrames(grant.format, SysFormat, NFrames(grant.format)) - 1)
          /\ DestNFrames(grant.format, SysFormat, NFrames(grant.format)) \in Nat
      BY <3>1, PlaceFacts
    <3> QED BY <3>2
  <2>2. CASE ~Valid(grant.format)
    BY <2>2 DEF Places
  <2> QED BY <2>1, <2>2
<1>4. Delivered = [j \in ks |-> grant.value]
  BY DEF Delivered
<1> HIDE DEF ks
<1>5. Delivered \in [ks -> Contents]
  BY <1>2, <1>4
<1>6. Delivered \in Deliveries
  BY <1>3, <1>5 DEF Deliveries
<1>7. DOMAIN Delivered = ks /\ \A j \in ks : Delivered[j] = grant.value
  BY <1>4
<1> QED BY <1>6, <1>7 DEF ks

-----------------------------------------------------------------------------
(* LockIInv holds at first.                                                *)
LEMMA LockIInvInit == LockInit => LockIInv
<1> SUFFICES ASSUME LockInit PROVE LockIInv
  OBVIOUS
<1> USE DEF LockInit
<1>1. Zeroed \in [Bytes -> Contents]
  BY DEF Zeroed, Contents
<1>2. /\ FirstFormat \in Formats /\ NoFormat \notin Formats /\ Original \in Handles
      /\ Usable(FirstFormat)
  BY BufferLockAssumption, TheFormats
<1>3. mine \in [Handles -> Deliveries] /\ written \in Deliveries /\ DOMAIN written = {}
  BY NothingDelivered
<1>4. samples \in [Frames -> SUBSET Contents]
  BY DEF Contents
<1>5. LockTypeOK
  BY <1>1, <1>2, <1>3, <1>4 DEF LockTypeOK
<1>6. ConvInv
  BY NothingDelivered DEF ConvInv
<1>7. BytesInv
  BY DEF BytesInv
<1>8. SamplesInv
  BY <1>3 DEF SamplesInv, DirectPending
<1>9. FailInv
  BY <1>2 DEF FailInv
<1> QED BY <1>5, <1>6, <1>7, <1>8, <1>9 DEF LockIInv

(* What Lock hands out.                                                    *)
LEMMA GrantsASpan ==
  ASSUME LockTypeOK, NEW h \in Handles, format[h] # NoFormat, grant = NoGrant,
         NEW p \in Requested, NEW n \in Requested, Grant(h, p, n)
  PROVE  /\ grant' \in Grants /\ grant' # NoGrant
         /\ grant'.span = Span(grant'.format, grant'.in_pos, grant'.in_nbytes)
         /\ grant'.handle = h /\ grant'.format = format[h] /\ grant'.wrote = {}
         /\ DirectPending = {} /\ (DirectPending)' = {}
         /\ \A x : PendingIn(x) = {} /\ PendingIn(x)' = {}
<1>1. format[h] \in Formats
  BY DEF LockTypeOK
<1>2. Span(format[h], p, n) \in [start : Nat, nbytes : Nat]
  BY SpanType
<1>3. grant' = [handle |-> h, format |-> format[h], in_pos |-> p, in_nbytes |-> n,
                span |-> Span(format[h], p, n), wrote |-> {}, value |-> Zero]
  BY DEF Grant
<1>4. grant' \in Grants
  BY <1>1, <1>2, <1>3 DEF Grants
<1>5. grant' # NoGrant
  BY <1>4, BufferLockAssumption
<1>6. /\ grant'.span = Span(format[h], p, n)
      /\ grant'.format = format[h] /\ grant'.in_pos = p /\ grant'.in_nbytes = n
      /\ grant'.handle = h /\ grant'.wrote = {}
  BY <1>3
<1>7. /\ DirectPending = {} /\ (DirectPending)' = {}
      /\ \A x : PendingIn(x) = {} /\ PendingIn(x)' = {}
  BY <1>6 DEF DirectPending, PendingIn
<1> QED BY <1>4, <1>5, <1>6, <1>7

(* Lock, in the device's format.                                           *)
LEMMA LockDirect ==
  ASSUME LockIInv, NEW h \in Handles, NEW p \in Requested, NEW n \in Requested,
         Lock(h, p, n), ~RequiresConversion(h)
  PROVE  LockIInv'
<1>0. LockTypeOK /\ ConvInv /\ BytesInv /\ SamplesInv /\ FailInv
  BY DEF LockIInv
<1>1. /\ grant = NoGrant /\ format[h] # NoFormat
      /\ Grant(h, p, n)
      /\ used' = used \cup {h}
      /\ UNCHANGED <<conv, conv_bytes, source, failed, opened>>
      /\ UNCHANGED <<format, samples, mine, written, disturbed, refused, set_formats>>
  BY DEF Lock, Callable, Prepare
<1>2. /\ grant' \in Grants /\ grant' # NoGrant
      /\ grant'.span = Span(grant'.format, grant'.in_pos, grant'.in_nbytes)
      /\ grant'.handle = h /\ grant'.format = format[h] /\ grant'.wrote = {}
      /\ DirectPending = {} /\ (DirectPending)' = {}
      /\ \A x : PendingIn(x) = {} /\ PendingIn(x)' = {}
  BY <1>0, <1>1, GrantsASpan
<1>3. LockTypeOK'
  <2>1. (grant.span = Span(grant.format, grant.in_pos, grant.in_nbytes))'
    BY <1>2 DEF Span
  <2> QED BY <1>0, <1>1, <1>2, <2>1 DEF LockTypeOK
<1>4. ConvInv'
  BY <1>0, <1>1, <1>2 DEF ConvInv, RequiresConversion
<1>5. BytesInv'
  BY <1>0, <1>1, <1>2 DEF BytesInv
<1>6. SamplesInv'
  <2>1. \A j : BeyondReach(j)' <=> BeyondReach(j)
    BY <1>1 DEF BeyondReach
  <2> QED BY <1>0, <1>1, <1>2, <2>1 DEF SamplesInv
<1>7. FailInv'
  BY <1>0, <1>1 DEF FailInv
<1> QED BY <1>3, <1>4, <1>5, <1>6, <1>7 DEF LockIInv

(* Lock, in another format than the device's: a handle that gets its bytes *)
(* now has had nothing written through it.                                 *)
LEMMA LockConverted ==
  ASSUME LockIInv, NEW h \in Handles, NEW p \in Requested, NEW n \in Requested,
         Lock(h, p, n), RequiresConversion(h)
  PROVE  LockIInv'
<1>0. LockTypeOK /\ ConvInv /\ BytesInv /\ SamplesInv /\ FailInv
  BY DEF LockIInv
<1>1. /\ grant = NoGrant /\ format[h] # NoFormat
      /\ Grant(h, p, n)
      /\ used' = used \cup {h} /\ opened' = opened \cup {format[h]} /\ failed' = failed
      /\ UNCHANGED <<format, samples, mine, written, disturbed, refused, set_formats>>
      /\ \/ conv[h] # NoFormat /\ UNCHANGED <<conv, conv_bytes, source>>
         \/ /\ conv[h] = NoFormat /\ Valid(format[h])
            /\ conv' = [conv EXCEPT ![h] = format[h]]
            /\ conv_bytes' = [conv_bytes EXCEPT ![h] = "live"]
            /\ source' = [source EXCEPT ![h] = Zeroed]
  BY DEF Lock, Callable, Prepare
<1>2. /\ grant' \in Grants /\ grant' # NoGrant
      /\ grant'.span = Span(grant'.format, grant'.in_pos, grant'.in_nbytes)
      /\ grant'.handle = h /\ grant'.format = format[h] /\ grant'.wrote = {}
      /\ DirectPending = {} /\ (DirectPending)' = {}
      /\ \A x : PendingIn(x) = {} /\ PendingIn(x)' = {}
  BY <1>0, <1>1, GrantsASpan
<1>3. format[h] \in Formats /\ Zeroed \in [Bytes -> Contents]
  BY <1>0, <1>1 DEF LockTypeOK, Zeroed, Contents
<1>4. LockTypeOK'
  <2>1. (grant.span = Span(grant.format, grant.in_pos, grant.in_nbytes))'
    BY <1>2 DEF Span
  <2>2. /\ conv' \in [Handles -> ValidFormats \cup {NoFormat}]
        /\ conv_bytes' \in [Handles -> {"null", "live", "dangling"}]
        /\ source' \in [Handles -> [Bytes -> Contents]]
    BY <1>0, <1>1, <1>3 DEF LockTypeOK, ValidFormats
  <2> QED BY <1>0, <1>1, <1>2, <1>3, <2>1, <2>2 DEF LockTypeOK
<1>5. /\ conv'[h] # NoFormat
      /\ \A x \in Handles : x # h =>
           /\ conv'[x] = conv[x] /\ conv_bytes'[x] = conv_bytes[x]
           /\ source'[x] = source[x]
      /\ conv[h] # NoFormat => conv'[h] = conv[h] /\ conv_bytes'[h] = conv_bytes[h]
                               /\ source'[h] = source[h]
      /\ conv[h] = NoFormat => conv'[h] = format[h] /\ conv_bytes'[h] = "live"
  BY <1>0, <1>1 DEF LockTypeOK
<1>6. ConvInv'
  <2>1. ASSUME NEW x \in Handles, conv'[x] # NoFormat
        PROVE  /\ x \in used' /\ format'[x] # NoFormat
               /\ conv'[x] \in opened' /\ conv'[x] # SysFormat
    <3>1. CASE x # h \/ conv[h] # NoFormat
      BY <1>0, <1>1, <1>5, <2>1, <3>1 DEF ConvInv
    <3>2. CASE x = h /\ conv[h] = NoFormat
      BY <1>1, <1>5, <3>2 DEF RequiresConversion
    <3> QED BY <3>1, <3>2
  <2>2. \A x \in Handles : x \notin used' => DOMAIN mine'[x] = {}
    BY <1>0, <1>1 DEF ConvInv
  <2>3. ASSUME ~disturbed', NEW x \in used', format'[x] # NoFormat
        PROVE  conv'[x] = IF format'[x] # SysFormat THEN format'[x] ELSE NoFormat
    <3>1. CASE x # h
      BY <1>0, <1>1, <1>5, <2>3, <3>1 DEF ConvInv, RequiresConversion, LockTypeOK
    <3>2. CASE x = h /\ conv[h] = NoFormat
      BY <1>1, <1>5, <3>2 DEF RequiresConversion
    <3>3. CASE x = h /\ conv[h] # NoFormat
      BY <1>0, <1>1, <1>5, <2>3, <3>3 DEF ConvInv, RequiresConversion
    <3> QED BY <3>1, <3>2, <3>3
  <2> QED BY <1>1, <1>2, <2>1, <2>2, <2>3 DEF ConvInv, RequiresConversion
<1>7. BytesInv'
  <2> SUFFICES ASSUME ~disturbed', NEW x \in Handles, conv'[x] # NoFormat
               PROVE  /\ DOMAIN mine'[x] \subseteq Places(conv'[x])
                      /\ \A j \in DOMAIN mine'[x] :
                           SourceOf(conv'[x], j) \notin PendingIn(x)' =>
                             \A b \in FrameBytes(conv'[x], SourceOf(conv'[x], j)) :
                               source'[x][b] = mine'[x][j]
                      /\ \A i \in PendingIn(x)' :
                           \A b \in FrameBytes(conv'[x], i) : source'[x][b] = grant'.value
    BY DEF BytesInv
  <2>1. CASE x # h \/ conv[h] # NoFormat
    <3>1. conv'[x] = conv[x] /\ source'[x] = source[x] /\ mine'[x] = mine[x]
      BY <1>1, <1>5, <2>1
    <3> QED BY <1>0, <1>1, <1>2, <3>1 DEF BytesInv
  <2>2. CASE x = h /\ conv[h] = NoFormat
    <3>1. h \notin used
      BY <1>0, <1>1, <2>2 DEF ConvInv
    <3>2. DOMAIN mine'[h] = {}
      BY <1>0, <1>1, <3>1 DEF ConvInv
    <3> QED BY <1>2, <2>2, <3>2
  <2> QED BY <2>1, <2>2
<1>8. SamplesInv'
  <2>1. \A j : BeyondReach(j) => BeyondReach(j)'
    BY <1>1 DEF BeyondReach
  <2> QED BY <1>0, <1>1, <1>2, <2>1 DEF SamplesInv
<1>9. FailInv'
  BY <1>0, <1>1, <1>5 DEF FailInv
<1> QED BY <1>4, <1>6, <1>7, <1>8, <1>9 DEF LockIInv

(* Lock, when it fails.                                                    *)
LEMMA LockFailsKeeps ==
  ASSUME LockIInv, NEW h \in Handles, LockFails(h)
  PROVE  LockIInv'
<1>0. LockTypeOK /\ ConvInv /\ BytesInv /\ SamplesInv /\ FailInv
  BY DEF LockIInv
<1>1. /\ UNCHANGED <<format, conv, source, samples, mine, written, grant>>
      /\ UNCHANGED <<used, opened, disturbed, set_formats>>
      /\ conv[h] = NoFormat /\ format[h] # NoFormat
      /\ \/ /\ conv_bytes[h] # "null"
            /\ UNCHANGED <<conv_bytes, refused>>
         \/ UNCHANGED <<conv_bytes, failed, refused>>
         \/ /\ conv_bytes' = [conv_bytes EXCEPT ![h] = "dangling"]
            /\ refused' = TRUE
  BY DEF LockFails, FailedPrepare, Callable, dataVars
<1>2. LockTypeOK'
  <2>1. /\ conv_bytes' \in [Handles -> {"null", "live", "dangling"}]
        /\ refused' \in BOOLEAN
    BY <1>0, <1>1 DEF LockTypeOK
  <2>2. grant' # NoGrant => (grant.span = Span(grant.format, grant.in_pos, grant.in_nbytes))'
    BY <1>0, <1>1 DEF LockTypeOK, Span
  <2> QED BY <1>0, <1>1, <2>1, <2>2 DEF LockTypeOK
<1>3. ConvInv'
  BY <1>0, <1>1 DEF ConvInv, RequiresConversion
<1>4. BytesInv'
  BY <1>0, <1>1 DEF BytesInv, PendingIn
<1>5. SamplesInv'
  BY <1>0, <1>1 DEF SamplesInv, DirectPending, BeyondReach
<1>6. FailInv'
  BY <1>0, <1>1 DEF FailInv
<1> QED BY <1>2, <1>3, <1>4, <1>5, <1>6 DEF LockIInv

-----------------------------------------------------------------------------
(* The frames a grant lets the application write lie in its memory.        *)
LEMMA GrantedFrames ==
  ASSUME LockTypeOK, grant # NoGrant, Valid(grant.format)
  PROVE  /\ grant.format \in ValidFormats
         /\ Granted \subseteq 0..(NFrames(grant.format) - 1)
         /\ grant.format = SysFormat => Granted \subseteq Frames
<1>1. grant.format \in ValidFormats
  BY DEF LockTypeOK, Grants, ValidFormats
<1> QED BY <1>1 DEF Granted, Frames, SysFrames

(* What an application writes where its bytes are converted from.          *)
LEMMA WriteBytes ==
  ASSUME LockIInv, NEW v \in Values, Write(v), grant.format # SysFormat,
         NEW h \in Handles, h = grant.handle
  PROVE  /\ \A b \in Bytes : source'[h][b] =
              IF \E i \in Granted : b \in FrameBytes(grant.format, i) THEN v ELSE source[h][b]
         /\ \A x \in Handles : x # h => source'[x] = source[x]
         /\ source' \in [Handles -> [Bytes -> Contents]]
<1>1. source \in [Handles -> [Bytes -> Contents]]
  BY DEF LockIInv, LockTypeOK
<1> DEFINE fill == [b \in Bytes |->
              IF \E i \in Granted : b \in FrameBytes(grant.format, i) THEN v ELSE source[h][b]]
<1>2. source' = [source EXCEPT ![h] = fill]
  BY <1>1 DEF Write
<1>3. fill \in [Bytes -> Contents]
  <2>1. source[h] \in [Bytes -> Contents]
    BY <1>1
  <2>2. v \in Contents
    BY DEF Contents
  <2> QED BY <2>1, <2>2
<1>4. \A b \in Bytes : fill[b] =
        IF \E i \in Granted : b \in FrameBytes(grant.format, i) THEN v ELSE source[h][b]
  OBVIOUS
<1> HIDE DEF fill
<1>5. source' \in [Handles -> [Bytes -> Contents]] /\ source'[h] = fill
      /\ \A x \in Handles : x # h => source'[x] = source[x]
  BY <1>1, <1>2, <1>3
<1> QED BY <1>4, <1>5

(* Write.                                                                  *)
LEMMA WriteKeeps ==
  ASSUME LockIInv, NEW v \in Values, Write(v)
  PROVE  LockIInv'
<1>0. LockTypeOK /\ ConvInv /\ BytesInv /\ SamplesInv /\ FailInv
  BY DEF LockIInv
<1>1. /\ UNCHANGED <<format, conv, conv_bytes, failed, mine, written>>
      /\ UNCHANGED <<used, opened, disturbed, refused, set_formats>>
      /\ grant # NoGrant /\ Valid(grant.format) /\ grant.wrote = {}
      /\ grant' = [grant EXCEPT !.wrote = Granted, !.value = v]
  BY DEF Write, historyVars
<1>2. /\ grant \in Grants /\ grant.handle \in Handles
      /\ grant.span = Span(grant.format, grant.in_pos, grant.in_nbytes)
  BY <1>0, <1>1 DEF LockTypeOK, Grants
<1>3. PICK h \in Handles : h = grant.handle
  BY <1>2
<1>4. /\ grant.format \in ValidFormats
      /\ Granted \subseteq 0..(NFrames(grant.format) - 1)
      /\ grant.format = SysFormat => Granted \subseteq Frames
  BY <1>0, <1>1, GrantedFrames
<1>5. NFrames(grant.format) \in Nat
  BY <1>4, FramesInBytes
<1>6. /\ grant' \in Grants /\ grant' # NoGrant /\ grant'.handle = h
      /\ grant'.format = grant.format /\ grant'.span = grant.span
      /\ grant'.in_pos = grant.in_pos /\ grant'.in_nbytes = grant.in_nbytes
      /\ grant'.wrote = Granted /\ grant'.value = v
  <2>1. Granted \in SUBSET Nat /\ v \in Values \cup {Zero}
    BY <1>4, <1>5
  <2>2. grant' \in Grants
    BY <1>1, <1>2, <2>1 DEF Grants
  <2>3. grant' # NoGrant
    BY <2>2, BufferLockAssumption
  <2>4. /\ grant'.handle = h
        /\ grant'.format = grant.format /\ grant'.span = grant.span
        /\ grant'.in_pos = grant.in_pos /\ grant'.in_nbytes = grant.in_nbytes
        /\ grant'.wrote = Granted /\ grant'.value = v
    BY <1>1, <1>2, <1>3 DEF Grants
  <2> QED BY <2>2, <2>3, <2>4
<1>7. /\ grant.format = SysFormat =>
           /\ samples' = [j \in Frames |-> IF j \in Granted THEN {v} ELSE samples[j]]
           /\ source' = source
      /\ grant.format # SysFormat => samples' = samples
  BY DEF Write
<1>8. LockTypeOK'
  <2>1. (grant.span = Span(grant.format, grant.in_pos, grant.in_nbytes))'
    BY <1>2, <1>6 DEF Span
  <2>2. samples' \in [Frames -> SUBSET Contents]
    BY <1>0, <1>7 DEF LockTypeOK, Contents
  <2>3. source' \in [Handles -> [Bytes -> Contents]]
    BY <1>0, <1>3, <1>7, WriteBytes DEF LockTypeOK
  <2> QED BY <1>0, <1>1, <1>4, <1>6, <2>1, <2>2, <2>3 DEF LockTypeOK
<1>9. ConvInv'
  BY <1>0, <1>1, <1>3, <1>6 DEF ConvInv, RequiresConversion
<1>10. ASSUME ~disturbed
       PROVE  conv[h] = IF grant.format # SysFormat THEN grant.format ELSE NoFormat
  BY <1>0, <1>1, <1>3, <1>10 DEF ConvInv, RequiresConversion
<1>11. BytesInv'
  <2> SUFFICES ASSUME ~disturbed', NEW x \in Handles, conv'[x] # NoFormat
               PROVE  /\ DOMAIN mine'[x] \subseteq Places(conv'[x])
                      /\ \A j \in DOMAIN mine'[x] :
                           SourceOf(conv'[x], j) \notin PendingIn(x)' =>
                             \A b \in FrameBytes(conv'[x], SourceOf(conv'[x], j)) :
                               source'[x][b] = mine'[x][j]
                      /\ \A i \in PendingIn(x)' :
                           \A b \in FrameBytes(conv'[x], i) : source'[x][b] = grant'.value
    BY DEF BytesInv
  <2>1. ~disturbed /\ conv[x] # NoFormat /\ conv'[x] = conv[x] /\ mine'[x] = mine[x]
    BY <1>1
  <2>2. CASE x # h
    <3>1. source'[x] = source[x]
      BY <1>3, <1>7, <2>2, WriteBytes
    <3>2. PendingIn(x)' = {} /\ PendingIn(x) = {}
      BY <1>1, <1>3, <1>6, <2>2 DEF PendingIn
    <3> QED BY <1>0, <2>1, <3>1, <3>2 DEF BytesInv
  <2>3. CASE x = h
    <3>1. grant.format # SysFormat /\ conv[h] = grant.format
      BY <1>10, <2>1, <2>3
    <3>2. PICK f \in ValidFormats : f = grant.format /\ f # SysFormat /\ conv[h] = f
      BY <1>4, <3>1
    <3>3. PendingIn(h) = {} /\ PendingIn(h)' = Granted
      BY <1>1, <1>3, <1>6 DEF PendingIn
    <3>4. /\ DOMAIN mine[h] \subseteq Places(f)
          /\ \A j \in DOMAIN mine[h] :
               \A b \in FrameBytes(f, SourceOf(f, j)) : source[h][b] = mine[h][j]
      BY <1>0, <2>1, <2>3, <3>2, <3>3 DEF BytesInv
    <3>5. \A b \in Bytes : source'[h][b] =
             IF \E i \in Granted : b \in FrameBytes(f, i) THEN v ELSE source[h][b]
      BY <1>3, <3>2, WriteBytes
    <3>6. \A i \in 0..(NFrames(f) - 1) : FrameBytes(f, i) \subseteq Bytes
      BY <3>2, FramesInBytes
    <3>7. \A i \in Granted : \A b \in FrameBytes(f, i) : source'[h][b] = v
      BY <1>4, <3>2, <3>5, <3>6
    <3>8. ASSUME NEW j \in DOMAIN mine[h], SourceOf(f, j) \notin Granted,
                 NEW b \in FrameBytes(f, SourceOf(f, j))
          PROVE  source'[h][b] = mine[h][j]
      <4>1. SourceOf(f, j) \in 0..(NFrames(f) - 1)
        BY <3>2, <3>4, <3>8, PlaceFacts
      <4>2. b \in Bytes
        BY <3>6, <3>8, <4>1
      <4>3. NFrames(f) \in Nat
        BY <3>2, FramesInBytes
      <4>4. SourceOf(f, j) \in Nat /\ Granted \subseteq Nat
        BY <1>4, <3>2, <4>1, <4>3
      <4>5. ~\E i \in Granted : b \in FrameBytes(f, i)
        BY <3>2, <3>8, <4>4, FramesApart
      <4> QED BY <3>4, <3>5, <3>8, <4>2, <4>5
    <3> QED BY <1>6, <2>1, <2>3, <3>2, <3>3, <3>4, <3>7, <3>8
  <2> QED BY <2>2, <2>3
<1>12. SamplesInv'
  <2> SUFFICES ASSUME ~disturbed' PROVE SamplesInv'
    BY DEF SamplesInv
  <2>0. ~disturbed
    BY <1>1
  <2>1. \A j : BeyondReach(j)' <=> BeyondReach(j)
    BY <1>1 DEF BeyondReach
  <2>2. DirectPending = {}
    BY <1>1 DEF DirectPending
  <2>3. CASE grant.format = SysFormat
    <3>1. (DirectPending)' = Granted
      BY <1>1, <1>3, <1>6, <1>10, <2>0, <2>3 DEF DirectPending
    <3>2. \A j \in Granted : j \in Frames /\ samples'[j] = {v}
      BY <1>4, <1>7, <2>3
    <3>3. \A j \in Frames : j \notin Granted => samples'[j] = samples[j]
      BY <1>7, <2>3
    <3>4. \A j \in DOMAIN written : j \in Frames \/ BeyondReach(j)
      BY <1>0, <2>0 DEF SamplesInv
    <3>5. \A j \in DOMAIN written : samples[j] = {written[j]} \/ BeyondReach(j)
      BY <1>0, <2>0, <2>2 DEF SamplesInv
    <3>6. \A j \in DOMAIN written :
            j \in Granted \/ samples'[j] = {written[j]} \/ BeyondReach(j)
      BY <3>3, <3>4, <3>5
    <3> QED BY <1>1, <1>6, <2>1, <3>1, <3>2, <3>4, <3>6 DEF SamplesInv
  <2>4. CASE grant.format # SysFormat
    <3>1. conv[h] # NoFormat
      BY <1>4, <1>10, <2>0, <2>4, FormatFacts
    <3>2. (DirectPending)' = {}
      BY <1>1, <1>6, <3>1 DEF DirectPending
    <3> QED BY <1>0, <1>1, <1>7, <2>0, <2>1, <2>2, <2>4, <3>2 DEF SamplesInv
  <2> QED BY <2>3, <2>4
<1>13. FailInv'
  BY <1>0, <1>1 DEF FailInv
<1> QED BY <1>8, <1>9, <1>11, <1>12, <1>13 DEF LockIInv

-----------------------------------------------------------------------------
(* Unlock, of a handle without a converter: what was written is in the     *)
(* samples already.                                                        *)
LEMMA UnlockDirect ==
  ASSUME LockIInv, Unlock, conv[grant.handle] = NoFormat
  PROVE  LockIInv'
<1>0. LockTypeOK /\ ConvInv /\ BytesInv /\ SamplesInv /\ FailInv
  BY DEF LockIInv
<1>1. /\ UNCHANGED <<format, conv, conv_bytes, source, failed, samples>>
      /\ UNCHANGED <<used, opened, disturbed, refused, set_formats>>
      /\ grant # NoGrant /\ grant' = NoGrant
      /\ written' = Over(Delivered, written)
      /\ mine' = [mine EXCEPT ![grant.handle] = Over(Delivered, mine[grant.handle])]
  BY DEF Unlock, historyVars
<1>2. /\ grant \in Grants /\ grant.handle \in used /\ grant.handle \in Handles
      /\ grant.format \in Formats
  BY <1>0, <1>1 DEF LockTypeOK, ConvInv, Grants
<1>3. PICK h \in Handles : h = grant.handle /\ h \in used
  BY <1>2
<1>4. /\ Delivered \in Deliveries
      /\ DOMAIN Delivered = {k \in Places(grant.format) :
                               SourceOf(grant.format, k) \in grant.wrote}
      /\ \A j \in DOMAIN Delivered : Delivered[j] = grant.value
  BY <1>0, <1>1, DeliveredFacts
<1>5. /\ mine[h] \in Deliveries /\ written \in Deliveries
      /\ mine \in [Handles -> Deliveries]
  BY <1>0 DEF LockTypeOK
<1>6. mine' \in [Handles -> Deliveries] /\ \A x \in Handles : x # h => mine'[x] = mine[x]
  <2>1. Over(Delivered, mine[h]) \in Deliveries
    BY <1>4, <1>5, OverFacts
  <2> QED BY <1>1, <1>3, <1>5, <2>1
<1>7. /\ written' \in Deliveries
      /\ DOMAIN written' = DOMAIN Delivered \cup DOMAIN written
      /\ \A j \in DOMAIN Delivered : written'[j] = grant.value
      /\ \A j \in DOMAIN written : j \notin DOMAIN Delivered => written'[j] = written[j]
  <2>1. /\ Over(Delivered, written) \in Deliveries
        /\ DOMAIN Over(Delivered, written) = DOMAIN Delivered \cup DOMAIN written
        /\ \A j \in DOMAIN Delivered : Over(Delivered, written)[j] = Delivered[j]
        /\ \A j \in DOMAIN written :
             j \notin DOMAIN Delivered => Over(Delivered, written)[j] = written[j]
    BY <1>4, <1>5, OverFacts, Zenon
  <2> QED BY <1>1, <1>4, <2>1
<1>8. LockTypeOK'
  BY <1>0, <1>1, <1>6, <1>7 DEF LockTypeOK
<1>9. ConvInv'
  <2>1. \A x \in Handles : x \notin used' => DOMAIN mine'[x] = {}
    BY <1>0, <1>1, <1>3, <1>6 DEF ConvInv
  <2> QED BY <1>0, <1>1, <2>1 DEF ConvInv, RequiresConversion
<1>10. BytesInv'
  <2>1. \A x : PendingIn(x)' = {}
    BY <1>1 DEF PendingIn
  <2>2. \A x \in Handles : x # h => PendingIn(x) = {}
    BY <1>3 DEF PendingIn
  <2>3. conv[h] = NoFormat
    BY <1>3
  <2> QED BY <1>0, <1>1, <1>6, <2>1, <2>2, <2>3 DEF BytesInv
<1>11. SamplesInv'
  <2> SUFFICES ASSUME ~disturbed' PROVE SamplesInv'
    BY DEF SamplesInv
  <2>0. ~disturbed
    BY <1>1
  <2>1. \A j : BeyondReach(j)' <=> BeyondReach(j)
    BY <1>1 DEF BeyondReach
  <2>2. DirectPending = grant.wrote /\ (DirectPending)' = {}
    BY <1>1 DEF DirectPending
  <2>3. grant.format = SysFormat
    BY <1>0, <1>1, <1>2, <2>0, BufferLockAssumption DEF ConvInv, RequiresConversion
  <2>4. \A j \in grant.wrote : j \in Frames /\ samples[j] = {grant.value}
    BY <1>0, <2>0, <2>2 DEF SamplesInv
  <2>5. DOMAIN Delivered = grant.wrote
    <3>1. /\ Places(SysFormat) = Frames
          /\ \A j \in Frames : SourceOf(SysFormat, j) = j
      BY DirectPlaces DEF Frames
    <3> QED BY <1>4, <2>3, <2>4, <3>1
  <2>6. \A j \in DOMAIN written : j \in Frames \/ BeyondReach(j)
    BY <1>0, <2>0 DEF SamplesInv
  <2>7. \A j \in DOMAIN written :
          j \in grant.wrote \/ samples[j] = {written[j]} \/ BeyondReach(j)
    BY <1>0, <2>0, <2>2 DEF SamplesInv
  <2>8. \A j \in DOMAIN written' :
          (j \in Frames \/ BeyondReach(j)) /\ (samples[j] = {written'[j]} \/ BeyondReach(j))
    BY <1>7, <2>4, <2>5, <2>6, <2>7
  <2> QED BY <1>1, <2>1, <2>2, <2>8 DEF SamplesInv
<1>12. FailInv'
  BY <1>0, <1>1 DEF FailInv
<1> QED BY <1>8, <1>9, <1>10, <1>11, <1>12 DEF LockIInv

(* What the bytes of a handle hold once its grant is delivered.            *)
LEMMA DeliveredBytes ==
  ASSUME LockIInv, grant # NoGrant, ~disturbed,
         NEW h \in Handles, h = grant.handle, conv[h] # NoFormat
  PROVE  /\ conv[h] \in ValidFormats /\ conv[h] = grant.format
         /\ Over(Delivered, mine[h]) \in Deliveries
         /\ DOMAIN Over(Delivered, mine[h]) \subseteq Places(conv[h])
         /\ \A j \in DOMAIN Over(Delivered, mine[h]) :
              \A b \in FrameBytes(conv[h], SourceOf(conv[h], j)) :
                source[h][b] = Over(Delivered, mine[h])[j]
<1>0. LockTypeOK /\ ConvInv /\ BytesInv
  BY DEF LockIInv
<1>1. grant.handle \in used /\ format[h] # NoFormat /\ grant.format = format[h]
  BY <1>0 DEF ConvInv
<1>2. conv[h] = grant.format /\ conv[h] \in ValidFormats
  BY <1>0, <1>1 DEF ConvInv, LockTypeOK, RequiresConversion
<1>3. PICK f \in ValidFormats : f = conv[h] /\ f = grant.format
  BY <1>2
<1>4. /\ Delivered \in Deliveries
      /\ DOMAIN Delivered = {k \in Places(f) : SourceOf(f, k) \in grant.wrote}
      /\ \A j \in DOMAIN Delivered : Delivered[j] = grant.value
  BY <1>0, <1>3, DeliveredFacts
<1>5. PendingIn(h) = grant.wrote
  BY DEF PendingIn
<1>6. /\ DOMAIN mine[h] \subseteq Places(f)
      /\ \A j \in DOMAIN mine[h] : SourceOf(f, j) \notin grant.wrote =>
           \A b \in FrameBytes(f, SourceOf(f, j)) : source[h][b] = mine[h][j]
      /\ \A i \in grant.wrote : \A b \in FrameBytes(f, i) : source[h][b] = grant.value
  <2>1. /\ DOMAIN mine[h] \subseteq Places(conv[h])
        /\ \A j \in DOMAIN mine[h] : SourceOf(conv[h], j) \notin PendingIn(h) =>
             \A b \in FrameBytes(conv[h], SourceOf(conv[h], j)) : source[h][b] = mine[h][j]
        /\ \A i \in PendingIn(h) :
             \A b \in FrameBytes(conv[h], i) : source[h][b] = grant.value
    BY <1>0, Zenon DEF BytesInv
  <2> QED BY <1>3, <1>5, <2>1
<1>7. mine[h] \in Deliveries
  BY <1>0 DEF LockTypeOK
<1> DEFINE now == Over(Delivered, mine[h])
<1>8. /\ now \in Deliveries
      /\ DOMAIN now = DOMAIN Delivered \cup DOMAIN mine[h]
      /\ \A j \in DOMAIN Delivered : now[j] = grant.value
      /\ \A j \in DOMAIN mine[h] : j \notin DOMAIN Delivered => now[j] = mine[h][j]
  <2>1. /\ now \in Deliveries
        /\ DOMAIN now = DOMAIN Delivered \cup DOMAIN mine[h]
        /\ \A j \in DOMAIN Delivered : now[j] = Delivered[j]
        /\ \A j \in DOMAIN mine[h] : j \notin DOMAIN Delivered => now[j] = mine[h][j]
    BY <1>4, <1>7, OverFacts, Zenon
  <2> QED BY <1>4, <2>1, Zenon
<1> HIDE DEF now
<1>9. ASSUME NEW j \in DOMAIN now, NEW b \in FrameBytes(f, SourceOf(f, j))
      PROVE  source[h][b] = now[j]
  <2>1. CASE j \in DOMAIN Delivered
    BY <1>4, <1>6, <1>8, <1>9, <2>1
  <2>2. CASE j \notin DOMAIN Delivered
    <3>1. j \in DOMAIN mine[h] /\ SourceOf(f, j) \notin grant.wrote /\ now[j] = mine[h][j]
      BY <1>4, <1>6, <1>8, <1>9, <2>2
    <3> QED BY <1>6, <1>9, <3>1
  <2> QED BY <2>1, <2>2
<1>10. DOMAIN now \subseteq Places(f)
  BY <1>4, <1>6, <1>8
<1> QED BY <1>2, <1>3, <1>8, <1>9, <1>10 DEF now

(* The part of an Unlock that is the same whether or not it converts.      *)
LEMMA MineKept ==
  ASSUME LockIInv, grant # NoGrant, conv[grant.handle] # NoFormat,
         UNCHANGED <<format, conv, conv_bytes, source, used, opened, disturbed>>,
         grant' = NoGrant,
         mine' = [mine EXCEPT ![grant.handle] = Over(Delivered, mine[grant.handle])]
  PROVE  /\ mine' \in [Handles -> Deliveries]
         /\ ConvInv' /\ BytesInv'
<1>0. LockTypeOK /\ ConvInv /\ BytesInv
  BY DEF LockIInv
<1>1. grant \in Grants /\ grant.handle \in used /\ grant.handle \in Handles
  BY <1>0 DEF LockTypeOK, ConvInv, Grants
<1>2. PICK h \in Handles : h = grant.handle /\ h \in used /\ conv[h] # NoFormat
  BY <1>1
<1>3. mine \in [Handles -> Deliveries] /\ mine[h] \in Deliveries /\ Delivered \in Deliveries
  BY <1>0, DeliveredFacts DEF LockTypeOK
<1>4. Over(Delivered, mine[h]) \in Deliveries
  BY <1>3, OverFacts
<1>5. /\ mine' \in [Handles -> Deliveries]
      /\ mine'[h] = Over(Delivered, mine[h])
      /\ \A x \in Handles : x # h => mine'[x] = mine[x]
  BY <1>2, <1>3, <1>4
<1>6. ConvInv'
  <2>1. \A x \in Handles : x \notin used' => DOMAIN mine'[x] = {}
    BY <1>0, <1>2, <1>5 DEF ConvInv
  <2> QED BY <1>0, <2>1 DEF ConvInv, RequiresConversion
<1>7. BytesInv'
  <2> SUFFICES ASSUME ~disturbed', NEW x \in Handles, conv'[x] # NoFormat
               PROVE  /\ DOMAIN mine'[x] \subseteq Places(conv'[x])
                      /\ \A j \in DOMAIN mine'[x] :
                           \A b \in FrameBytes(conv'[x], SourceOf(conv'[x], j)) :
                             source'[x][b] = mine'[x][j]
    BY DEF BytesInv, PendingIn
  <2>1. ~disturbed /\ conv'[x] = conv[x] /\ source'[x] = source[x] /\ conv[x] # NoFormat
    OBVIOUS
  <2>2. CASE x # h
    <3>1. PendingIn(x) = {} /\ mine'[x] = mine[x]
      BY <1>2, <1>5, <2>2 DEF PendingIn
    <3> QED BY <1>0, <2>1, <3>1 DEF BytesInv
  <2>3. CASE x = h
    <3>1. /\ DOMAIN Over(Delivered, mine[h]) \subseteq Places(conv[h])
          /\ \A j \in DOMAIN Over(Delivered, mine[h]) :
               \A b \in FrameBytes(conv[h], SourceOf(conv[h], j)) :
                 source[h][b] = Over(Delivered, mine[h])[j]
      BY <1>2, <2>1, DeliveredBytes
    <3> QED BY <1>5, <2>1, <2>3, <3>1
  <2> QED BY <2>2, <2>3
<1> QED BY <1>5, <1>6, <1>7

(* Unlock, of a handle with a converter: all that was written through it   *)
(* is heard, as far as the conversion reaches.                             *)
LEMMA UnlockConverted ==
  ASSUME LockIInv, Unlock, conv[grant.handle] # NoFormat
  PROVE  LockIInv'
<1>0. LockTypeOK /\ ConvInv /\ BytesInv /\ SamplesInv /\ FailInv
  BY DEF LockIInv
<1>1. /\ UNCHANGED <<format, conv, conv_bytes, source, failed>>
      /\ UNCHANGED <<used, opened, disturbed, refused, set_formats>>
      /\ grant # NoGrant /\ grant' = NoGrant
      /\ mine' = [mine EXCEPT ![grant.handle] = Over(Delivered, mine[grant.handle])]
  BY DEF Unlock, historyVars
<1>2. grant \in Grants /\ grant.handle \in used /\ grant.handle \in Handles
  BY <1>0, <1>1 DEF LockTypeOK, ConvInv, Grants
<1>3. PICK h \in Handles : h = grant.handle
  BY <1>2
<1>4. conv[h] # NoFormat /\ conv[h] \in opened /\ conv[h] # SysFormat
  BY <1>0, <1>3 DEF ConvInv
<1>5. PICK f \in ValidFormats : f = conv[h] /\ f \in opened /\ f # SysFormat
  BY <1>0, <1>4 DEF LockTypeOK
<1> DEFINE now == Over(Delivered, mine[h])
           rest == [j \in DOMAIN written \ Places(f) |-> written[j]]
<1>6. PICK n \in Filled(f) :
        samples' = [j \in Frames |->
                      IF j < n THEN {source[h][b] : b \in FrameBytes(f, SourceOf(f, j))}
                               ELSE samples[j]]
  BY <1>3, <1>4, <1>5 DEF Unlock, Converted
<1>7. written' = Over(now, rest)
  BY <1>3, <1>4, <1>5 DEF Unlock
<1>8. mine' \in [Handles -> Deliveries] /\ ConvInv' /\ BytesInv'
  BY <1>1, MineKept
<1>9. now \in Deliveries /\ rest \in Deliveries /\ DOMAIN rest = DOMAIN written \ Places(f)
      /\ \A j \in DOMAIN rest : rest[j] = written[j]
  <2>1. mine[h] \in Deliveries /\ Delivered \in Deliveries
    BY <1>0, <1>1, DeliveredFacts DEF LockTypeOK
  <2>2. PICK xs \in SUBSET Nat : written \in [xs -> Contents]
    BY <1>0 DEF LockTypeOK, Deliveries
  <2>3. rest \in [xs \ Places(f) -> Contents] /\ xs \ Places(f) \in SUBSET Nat
    BY <2>2
  <2>4. rest \in Deliveries
    BY <2>3 DEF Deliveries
  <2>5. now \in Deliveries
    BY <2>1, OverFacts
  <2> QED BY <2>4, <2>5
<1> HIDE DEF now, rest
<1>10. /\ written' \in Deliveries
       /\ DOMAIN written' = DOMAIN now \cup DOMAIN rest
       /\ \A j \in DOMAIN now : written'[j] = now[j]
       /\ \A j \in DOMAIN rest : j \notin DOMAIN now => written'[j] = written[j]
  <2>1. /\ Over(now, rest) \in Deliveries
        /\ DOMAIN Over(now, rest) = DOMAIN now \cup DOMAIN rest
        /\ \A j \in DOMAIN now : Over(now, rest)[j] = now[j]
        /\ \A j \in DOMAIN rest : j \notin DOMAIN now => Over(now, rest)[j] = rest[j]
    BY <1>9, OverFacts, Zenon
  <2> QED BY <1>7, <1>9, <2>1
<1>11. /\ n \in Int
       /\ n <= DestNFrames(f, SysFormat, NFrames(f))
       /\ \A j \in Int : j < WholeFrames(f) /\ j < SysFrames => j < n
  BY <1>6, FilledFacts
<1>12. /\ DestNFrames(f, SysFormat, NFrames(f)) \in Nat /\ WholeFrames(f) \in Nat
       /\ Places(f) = 0..(DestNFrames(f, SysFormat, NFrames(f)) - 1)
       /\ \A j \in Places(f) : SourceOf(f, j) \in 0..(NFrames(f) - 1)
  BY PlaceFacts
<1>13. /\ NFrames(f) \in Nat /\ SysFrames \in Nat
       /\ \A i \in 0..(NFrames(f) - 1) : FrameBytes(f, i) \subseteq Bytes
  BY <1>5, FramesInBytes, TheFormats DEF SysFrames
<1>14. LockTypeOK'
  <2>1. ASSUME NEW j \in Frames, j < n
        PROVE  {source[h][b] : b \in FrameBytes(f, SourceOf(f, j))} \subseteq Contents
    <3>1. j \in Places(f)
      BY <1>11, <1>12, <1>13, <2>1 DEF Frames
    <3>2. FrameBytes(f, SourceOf(f, j)) \subseteq Bytes
      BY <1>12, <1>13, <3>1
    <3>3. source[h] \in [Bytes -> Contents]
      BY <1>0 DEF LockTypeOK
    <3> QED BY <3>2, <3>3
  <2>2. samples \in [Frames -> SUBSET Contents]
    BY <1>0 DEF LockTypeOK
  <2>3. samples' \in [Frames -> SUBSET Contents]
    BY <1>6, <2>1, <2>2
  <2> QED BY <1>0, <1>1, <1>8, <1>10, <2>3 DEF LockTypeOK
<1>15. SamplesInv'
  <2> SUFFICES ASSUME ~disturbed' PROVE SamplesInv'
    BY DEF SamplesInv
  <2>0. ~disturbed
    BY <1>1
  <2>1. \A j : BeyondReach(j)' <=> BeyondReach(j)
    BY <1>1 DEF BeyondReach
  <2>2. DirectPending = {} /\ (DirectPending)' = {}
    BY <1>1, <1>3, <1>4 DEF DirectPending
  <2>3. /\ DOMAIN now \subseteq Places(f)
        /\ \A j \in DOMAIN now : \A b \in FrameBytes(f, SourceOf(f, j)) : source[h][b] = now[j]
    BY <1>1, <1>3, <1>4, <1>5, <2>0, DeliveredBytes DEF now
  <2>4. ASSUME NEW j \in DOMAIN now
        PROVE  \/ j \in Frames /\ samples'[j] = {now[j]}
               \/ BeyondReach(j)
    <3>1. j \in Places(f) /\ j \in Nat
      BY <1>12, <2>3, <2>4
    <3>2. CASE j < WholeFrames(f) /\ j < SysFrames
      <4>1. j \in Frames /\ j < n
        BY <1>11, <1>13, <3>1, <3>2 DEF Frames
      <4>2. FrameBytes(f, SourceOf(f, j)) # {}
        <5>1. SourceOf(f, j) \in Nat
          BY <1>12, <1>13, <3>1
        <5> QED BY <5>1, FramesApart
      <4>3. {source[h][b] : b \in FrameBytes(f, SourceOf(f, j))} = {now[j]}
        BY <2>3, <2>4, <4>2
      <4> QED BY <1>6, <4>1, <4>3
    <3>3. CASE ~(j < WholeFrames(f) /\ j < SysFrames)
      <4>1. j >= WholeFrames(f) \/ j >= SysFrames
        BY <1>12, <1>13, <3>1, <3>3
      <4> QED BY <1>5, <3>1, <4>1 DEF BeyondReach
    <3> QED BY <3>2, <3>3
  <2>5. ASSUME NEW j \in DOMAIN rest
        PROVE  \/ j \in Frames /\ samples'[j] = {written[j]}
               \/ BeyondReach(j)
    <3>1. j \in DOMAIN written /\ j \notin Places(f)
      BY <1>9, <2>5
    <3>2. (j \in Frames /\ samples[j] = {written[j]}) \/ BeyondReach(j)
      BY <1>0, <2>0, <2>2, <3>1 DEF SamplesInv
    <3>3. ASSUME j \in Frames PROVE samples'[j] = samples[j]
      <4>1. ~(j < n)
        BY <1>11, <1>12, <1>13, <3>1, <3>3 DEF Frames
      <4> QED BY <1>6, <3>3, <4>1
    <3> QED BY <3>2, <3>3
  <2>6. \A j \in DOMAIN written' :
          (j \in Frames \/ BeyondReach(j)) /\ (samples'[j] = {written'[j]} \/ BeyondReach(j))
    <3>1. ASSUME NEW j \in DOMAIN written'
          PROVE  (j \in Frames /\ samples'[j] = {written'[j]}) \/ BeyondReach(j)
      <4>1. CASE j \in DOMAIN now
        BY <1>10, <2>4, <4>1
      <4>2. CASE j \notin DOMAIN now
        <5>1. j \in DOMAIN rest /\ written'[j] = written[j]
          BY <1>10, <3>1, <4>2
        <5> QED BY <2>5, <5>1
      <4> QED BY <4>1, <4>2
    <3> QED BY <3>1
  <2> QED BY <2>1, <2>2, <2>6 DEF SamplesInv
<1>16. FailInv'
  BY <1>0, <1>1 DEF FailInv
<1> QED BY <1>8, <1>14, <1>15, <1>16 DEF LockIInv

(* Unlock, when the conversion fails: the bytes are kept, and the next     *)
(* conversion that does not fail delivers them.                            *)
LEMMA UnlockFailsKeeps ==
  ASSUME LockIInv, UnlockFails
  PROVE  LockIInv'
<1>0. LockTypeOK /\ ConvInv /\ BytesInv /\ SamplesInv /\ FailInv
  BY DEF LockIInv
<1>1. /\ UNCHANGED <<format, conv, conv_bytes, source, samples, written, failed>>
      /\ UNCHANGED <<used, opened, disturbed, refused, set_formats>>
      /\ grant # NoGrant /\ grant' = NoGrant /\ conv[grant.handle] # NoFormat
      /\ mine' = [mine EXCEPT ![grant.handle] = Over(Delivered, mine[grant.handle])]
  BY DEF UnlockFails, historyVars
<1>2. mine' \in [Handles -> Deliveries] /\ ConvInv' /\ BytesInv'
  BY <1>1, MineKept
<1>3. LockTypeOK'
  BY <1>0, <1>1, <1>2 DEF LockTypeOK
<1>4. SamplesInv'
  BY <1>0, <1>1 DEF SamplesInv, DirectPending, BeyondReach
<1>5. FailInv'
  BY <1>0, <1>1 DEF FailInv
<1> QED BY <1>2, <1>3, <1>4, <1>5 DEF LockIInv

(* A call that touches no data leaves what is said of them as it was.      *)
LEMMA DataUntouched ==
  ASSUME BytesInv, SamplesInv, ~disturbed' => ~disturbed,
         UNCHANGED <<conv, source, samples, mine, written, grant, opened>>
  PROVE  BytesInv' /\ SamplesInv'
<1>1. BytesInv'
  <2>1. \A x : PendingIn(x)' = PendingIn(x)
    BY DEF PendingIn
  <2>2. conv' = conv /\ source' = source /\ mine' = mine /\ grant' = grant
    OBVIOUS
  <2> QED BY <2>1, <2>2 DEF BytesInv
<1>2. SamplesInv'
  <2>1. (DirectPending)' = DirectPending
    BY DEF DirectPending
  <2>2. \A j : BeyondReach(j)' <=> BeyondReach(j)
    BY DEF BeyondReach
  <2>3. samples' = samples /\ written' = written /\ grant' = grant
    OBVIOUS
  <2> QED BY <2>1, <2>2, <2>3 DEF SamplesInv
<1> QED BY <1>1, <1>2

(* SetFormat: it disturbs nothing if the handle has not been locked yet,   *)
(* or is given the format it has.                                          *)
LEMMA SetFormatKeeps ==
  ASSUME LockIInv, NEW h \in Handles, NEW f \in Formats, SetFormat(h, f)
  PROVE  LockIInv'
<1>0. LockTypeOK /\ ConvInv /\ BytesInv /\ SamplesInv /\ FailInv
  BY DEF LockIInv
<1>1. /\ UNCHANGED <<conv, conv_bytes, source, samples, mine, written, grant, failed>>
      /\ UNCHANGED <<used, opened>>
      /\ format[h] # NoFormat
      /\ format' = [format EXCEPT ![h] = f]
      /\ set_formats' = set_formats + 1
      /\ disturbed' = (disturbed \/ (h \in used /\ f # format[h]))
      /\ refused' = (refused \/ ~Usable(f))
  BY DEF SetFormat, Callable, dataVars
<1>2. /\ f # NoFormat /\ format'[h] = f
      /\ \A x \in Handles : x # h => format'[x] = format[x]
      /\ \A x \in Handles : format'[x] = NoFormat <=> format[x] = NoFormat
  BY <1>0, <1>1, TheFormats DEF LockTypeOK
<1>3. LockTypeOK'
  <2>1. /\ format' \in [Handles -> Formats \cup {NoFormat}]
        /\ disturbed' \in BOOLEAN /\ refused' \in BOOLEAN /\ set_formats' \in Nat
    BY <1>0, <1>1 DEF LockTypeOK
  <2> QED BY <1>0, <1>1, <2>1 DEF LockTypeOK
<1>4. ~disturbed' => ~disturbed /\ \A x \in used : format'[x] = format[x]
  BY <1>0, <1>1, <1>2 DEF LockTypeOK
<1>5. ConvInv'
  BY <1>0, <1>1, <1>2, <1>4 DEF ConvInv, RequiresConversion, LockTypeOK
<1>6. BytesInv' /\ SamplesInv'
  BY <1>0, <1>1, <1>4, DataUntouched
<1>7. FailInv'
  BY <1>0, <1>1, <1>2 DEF FailInv
<1> QED BY <1>3, <1>5, <1>6, <1>7 DEF LockIInv

(* GetCurrentPosition.                                                     *)
LEMMA GetCurrentPositionKeeps ==
  ASSUME LockIInv, NEW h \in Handles, GetCurrentPosition(h)
  PROVE  LockIInv'
<1>0. LockTypeOK /\ ConvInv /\ BytesInv /\ SamplesInv /\ FailInv
  BY DEF LockIInv
<1>1. /\ UNCHANGED <<format, conv, conv_bytes, source, samples, mine, written, grant>>
      /\ UNCHANGED <<used, disturbed, opened, refused, set_formats>>
      /\ format[h] # NoFormat
      /\ failed' = IF Valid(format[h]) THEN failed ELSE "SUCCEEDED(hr)"
  BY DEF GetCurrentPosition, Callable, dataVars, historyVars
<1>2. LockTypeOK'
  BY <1>0, <1>1 DEF LockTypeOK
<1>3. ConvInv'
  BY <1>0, <1>1 DEF ConvInv, RequiresConversion
<1>4. BytesInv' /\ SamplesInv'
  BY <1>0, <1>1, DataUntouched
<1>5. FailInv'
  BY <1>0, <1>1 DEF FailInv, Usable
<1> QED BY <1>2, <1>3, <1>4, <1>5 DEF LockIInv

(* DuplicateSoundBuffer: the duplicate has the format its source has now.  *)
LEMMA DuplicateKeeps ==
  ASSUME LockIInv, NEW src \in Handles, NEW h \in Handles, Duplicate(src, h)
  PROVE  LockIInv'
<1>0. LockTypeOK /\ ConvInv /\ BytesInv /\ SamplesInv /\ FailInv
  BY DEF LockIInv
<1>1. /\ UNCHANGED <<conv, conv_bytes, source, samples, mine, written, grant>>
      /\ UNCHANGED <<used, disturbed, opened, refused, set_formats>>
      /\ h \notin used /\ format[h] = NoFormat /\ format[src] # NoFormat
      /\ IF Usable(format[src])
         THEN format' = [format EXCEPT ![h] = format[src]] /\ UNCHANGED failed
         ELSE failed' = "reaper != NULL" /\ UNCHANGED format
  BY DEF Duplicate, Callable, dataVars, historyVars
<1>2. /\ format' \in [Handles -> Formats \cup {NoFormat}]
      /\ \A x \in Handles : x # h => format'[x] = format[x]
      /\ \A x \in Handles : format[x] # NoFormat => format'[x] = format[x]
      /\ format'[h] # NoFormat => format'[h] = format[src]
  BY <1>0, <1>1 DEF LockTypeOK
<1>3. \A x \in used : x # h
  BY <1>1
<1>4. LockTypeOK'
  BY <1>0, <1>1, <1>2 DEF LockTypeOK
<1>5. ConvInv'
  BY <1>0, <1>1, <1>2, <1>3 DEF ConvInv, RequiresConversion, LockTypeOK
<1>6. BytesInv' /\ SamplesInv'
  BY <1>0, <1>1, DataUntouched
<1>7. FailInv'
  <2> SUFFICES ASSUME ~refused PROVE FailInv'
    BY <1>1 DEF FailInv
  <2>1. failed = "none" /\ Usable(format[src])
    BY <1>0, <1>1 DEF FailInv
  <2>2. failed' = "none"
    BY <1>1, <2>1
  <2>3. \A x \in Handles : format'[x] # NoFormat => Usable(format'[x])
    BY <1>0, <1>1, <1>2, <2>1 DEF FailInv
  <2>4. \A x \in Handles : conv_bytes'[x] = IF conv'[x] # NoFormat THEN "live" ELSE "null"
    BY <1>0, <1>1 DEF FailInv
  <2> QED BY <2>2, <2>3, <2>4 DEF FailInv, Usable
<1> QED BY <1>4, <1>5, <1>6, <1>7 DEF LockIInv

(* The last Release: nothing of a conversion is left, and what it put into *)
(* the samples stays.                                                      *)
LEMMA ReleaseKeeps ==
  ASSUME LockIInv, NEW h \in Handles, Release(h)
  PROVE  LockIInv'
<1>0. LockTypeOK /\ ConvInv /\ BytesInv /\ SamplesInv /\ FailInv
  BY DEF LockIInv
<1>1. /\ UNCHANGED <<source, samples, mine, written, grant>>
      /\ UNCHANGED <<used, disturbed, opened, refused, set_formats>>
      /\ grant = NoGrant
      /\ failed' = IF conv_bytes[h] = "dangling" THEN "free(conv_bytes)" ELSE failed
      /\ format' = [format EXCEPT ![h] = NoFormat]
      /\ conv' = [conv EXCEPT ![h] = NoFormat]
      /\ conv_bytes' = [conv_bytes EXCEPT ![h] = "null"]
  BY DEF Release, Callable, dataVars, historyVars
<1>2. /\ format'[h] = NoFormat /\ conv'[h] = NoFormat /\ conv_bytes'[h] = "null"
      /\ \A x \in Handles : x # h =>
           /\ format'[x] = format[x] /\ conv'[x] = conv[x]
           /\ conv_bytes'[x] = conv_bytes[x]
  BY <1>0, <1>1 DEF LockTypeOK
<1>3. LockTypeOK'
  BY <1>0, <1>1 DEF LockTypeOK
<1>4. ConvInv'
  BY <1>0, <1>1, <1>2 DEF ConvInv, RequiresConversion, LockTypeOK
<1>5. BytesInv'
  <2> SUFFICES ASSUME ~disturbed', NEW x \in Handles, conv'[x] # NoFormat
               PROVE  /\ DOMAIN mine'[x] \subseteq Places(conv'[x])
                      /\ \A j \in DOMAIN mine'[x] :
                           SourceOf(conv'[x], j) \notin PendingIn(x)' =>
                             \A b \in FrameBytes(conv'[x], SourceOf(conv'[x], j)) :
                               source'[x][b] = mine'[x][j]
                      /\ \A i \in PendingIn(x)' :
                           \A b \in FrameBytes(conv'[x], i) : source'[x][b] = grant'.value
    BY DEF BytesInv
  <2>1. conv'[x] = conv[x]
    BY <1>2
  <2>2. PendingIn(x)' = PendingIn(x)
    BY <1>1 DEF PendingIn
  <2> QED BY <1>0, <1>1, <2>1, <2>2 DEF BytesInv
<1>6. SamplesInv'
  <2>1. DirectPending = {} /\ (DirectPending)' = {}
    BY <1>1 DEF DirectPending
  <2>2. \A j : BeyondReach(j)' <=> BeyondReach(j)
    BY <1>1 DEF BeyondReach
  <2> QED BY <1>0, <1>1, <2>1, <2>2 DEF SamplesInv
<1>7. FailInv'
  <2> SUFFICES ASSUME ~refused'
               PROVE  /\ failed' = "none"
                      /\ \A x \in Handles :
                           /\ conv_bytes'[x] = IF conv'[x] # NoFormat THEN "live" ELSE "null"
                           /\ format'[x] # NoFormat => Usable(format'[x])
    BY DEF FailInv
  <2>1. /\ failed = "none"
        /\ \A x \in Handles :
             /\ conv_bytes[x] = IF conv[x] # NoFormat THEN "live" ELSE "null"
             /\ format[x] # NoFormat => Usable(format[x])
    BY <1>0, <1>1 DEF FailInv
  <2> QED BY <1>1, <1>2, <2>1
<1> QED BY <1>3, <1>4, <1>5, <1>6, <1>7 DEF LockIInv

-----------------------------------------------------------------------------
(* Every step of LockSpec keeps the invariant.                             *)
LEMMA LockIInvKept == LockIInv /\ [LockNext]_lockVars => LockIInv'
<1> SUFFICES ASSUME LockIInv, [LockNext]_lockVars PROVE LockIInv'
  OBVIOUS
<1>1. ASSUME NEW h \in Handles, NEW p \in Requested, NEW n \in Requested, Lock(h, p, n)
      PROVE  LockIInv'
  <2>1. CASE RequiresConversion(h)
    BY <1>1, <2>1, LockConverted
  <2>2. CASE ~RequiresConversion(h)
    BY <1>1, <2>2, LockDirect
  <2> QED BY <2>1, <2>2
<1>2. CASE \E h \in Handles : LockFails(h)
  BY <1>2, LockFailsKeeps
<1>3. CASE \E h \in Handles : \E f \in Formats : SetFormat(h, f)
  BY <1>3, SetFormatKeeps
<1>4. CASE \E h \in Handles : GetCurrentPosition(h)
  BY <1>4, GetCurrentPositionKeeps
<1>5. CASE \E h \in Handles : \E src \in Handles : Duplicate(src, h)
  BY <1>5, DuplicateKeeps
<1>6. CASE \E h \in Handles : Release(h)
  BY <1>6, ReleaseKeeps
<1>7. CASE \E v \in Values : Write(v)
  BY <1>7, WriteKeeps
<1>8. CASE Unlock
  <2>1. CASE conv[grant.handle] = NoFormat
    BY <1>8, <2>1, UnlockDirect
  <2>2. CASE conv[grant.handle] # NoFormat
    BY <1>8, <2>2, UnlockConverted
  <2> QED BY <2>1, <2>2
<1>9. CASE UnlockFails
  BY <1>9, UnlockFailsKeeps
<1>10. CASE UNCHANGED lockVars
  <2>1. /\ UNCHANGED <<format, conv, conv_bytes, source, samples, mine, written>>
        /\ UNCHANGED <<grant, failed, used, disturbed, opened, refused, set_formats>>
    BY <1>10 DEF lockVars, dataVars, historyVars
  <2>2. LockTypeOK'
    BY <2>1 DEF LockIInv, LockTypeOK
  <2>3. ConvInv'
    BY <2>1 DEF LockIInv, ConvInv, RequiresConversion
  <2>4. BytesInv' /\ SamplesInv'
    BY <2>1, DataUntouched DEF LockIInv
  <2>5. FailInv'
    BY <2>1 DEF LockIInv, FailInv
  <2> QED BY <2>2, <2>3, <2>4, <2>5 DEF LockIInv
<1> QED BY <1>1, <1>2, <1>3, <1>4, <1>5, <1>6, <1>7, <1>8, <1>9, <1>10 DEF LockNext

(* The state of a sound buffer's bytes, converters and samples holds       *)
(* together under every sequence of calls on it and its duplicates: each   *)
(* handle's bytes hold what was written through it, and the samples hold   *)
(* what ought to be heard wherever a conversion reaches.                   *)
THEOREM LockInvariance == LockSpec => []LockIInv
BY LockIInvInit, LockIInvKept, PTL DEF LockSpec

(* Lock's arithmetic on DWORDs grants exactly the bytes asked for that     *)
(* exist, unless the end of the request itself overflows.                  *)
THEOREM GrantsWhatExists == LockSpec => []SpanIsRequest
<1>1. LockIInv => SpanIsRequest
  <2> SUFFICES ASSUME LockIInv, grant # NoGrant,
                      grant.in_pos + grant.in_nbytes < SizeLimit
               PROVE  SpanIsRequest
    BY DEF SpanIsRequest
  <2>1. /\ grant.in_pos \in Requested /\ grant.in_nbytes \in Requested
        /\ grant.span = Span(grant.format, grant.in_pos, grant.in_nbytes)
    BY DEF LockIInv, LockTypeOK, Grants
  <2> DEFINE p == grant.in_pos
             n == grant.in_nbytes
             f == grant.format
  <2>2. Span(f, p, n).start .. Span(f, p, n).start + Span(f, p, n).nbytes - 1
        = (p .. p + n - 1) \cap (0 .. NBytes(f) - 1)
    <3> HIDE DEF p, n, f
    <3>1. p \in Requested /\ n \in Requested /\ p + n < SizeLimit
      BY <2>1 DEF p, n
    <3> QED BY <3>1, SpanExact
  <2> QED BY <2>1, <2>2 DEF SpanIsRequest
<1> QED BY <1>1, LockInvariance, PTL

(* What is written under a lock is what is played, for any number of       *)
(* handles in any formats, frames and calls, whichever conversions fail in *)
(* between: as far as buf reaches, and not in the frame that the bytes of  *)
(* a handle cover in part.  No handle may get another format after its     *)
(* first Lock; one that it gets before may make the bytes last longer than *)
(* buf, and what lies beyond is lost, and so is what a size that overflows *)
(* leaves out.                                                             *)
THEOREM WritesReachTheSamples == LockSpec => []WrittenIsHeard
<1>1. LockIInv => WrittenIsHeard
  <2> SUFFICES ASSUME LockIInv, grant = NoGrant, ~disturbed, NEW j \in DOMAIN written
               PROVE  /\ j < SysFrames => samples[j] = {written[j]} \/ CoveredInPart(j)
                      /\ (/\ Fits(FirstFormat, SysFormat, ConvNBytes \div Bpf(FirstFormat))
                          /\ \A f \in opened : LastsNoLonger(f)) => j < SysFrames
    BY DEF WrittenIsHeard
  <2>1. /\ j \in Frames \/ BeyondReach(j)
        /\ samples[j] = {written[j]} \/ BeyondReach(j)
    <3>1. DirectPending = {}
      BY DEF DirectPending
    <3> QED BY <3>1 DEF LockIInv, SamplesInv
  <2>2. SysFrames \in Nat /\ opened \subseteq Formats
    BY FramesInBytes, TheFormats DEF SysFrames, LockIInv, LockTypeOK
  <2>3. ASSUME j < SysFrames PROVE samples[j] = {written[j]} \/ CoveredInPart(j)
    <3>1. ASSUME BeyondReach(j) PROVE CoveredInPart(j)
      <4>1. PICK f \in opened : j \in Places(f) /\ (j >= WholeFrames(f) \/ j >= SysFrames)
        BY <3>1 DEF BeyondReach
      <4>2. j \in Int
        <5>1. CASE Valid(f)
          <6>1. f \in ValidFormats
            BY <2>2, <4>1, <5>1 DEF ValidFormats
          <6> QED BY <4>1, <6>1, PlaceFacts
        <5>2. CASE ~Valid(f)
          BY <4>1, <5>2 DEF Places
        <5> QED BY <5>1, <5>2
      <4>3. j >= WholeFrames(f)
        BY <2>2, <2>3, <4>1, <4>2
      <4> QED BY <4>1, <4>3 DEF CoveredInPart
    <3> QED BY <2>1, <3>1
  <2>4. ASSUME Fits(FirstFormat, SysFormat, ConvNBytes \div Bpf(FirstFormat)),
               \A f \in opened : LastsNoLonger(f)
        PROVE  j < SysFrames
    <3>1. CASE j \in Frames
      BY <2>2, <3>1 DEF Frames
    <3>2. CASE BeyondReach(j)
      <4>1. PICK f \in opened : j \in Places(f)
        BY <3>2 DEF BeyondReach
      <4>2. f \in ValidFormats
        BY <2>2, <4>1 DEF Places, ValidFormats
      <4>3. j \in Frames
        BY <2>4, <4>1, <4>2, RoomForPlaces
      <4> QED BY <2>2, <4>3 DEF Frames
    <3> QED BY <2>1, <3>1, <3>2
  <2> QED BY <2>3, <2>4
<1> QED BY <1>1, LockInvariance, PTL

(* No assertion fails and no bytes are freed twice while every converter   *)
(* can be opened and every format that is set goes with the length in      *)
(* bytes: the hazard is in what a Lock that failed leaves behind, or in a  *)
(* format that could not have been created with, and nowhere else.         *)
THEOREM AssertionsHold == LockSpec => []NoAssertionFails
<1>1. LockIInv => NoAssertionFails
  BY DEF LockIInv, FailInv, NoAssertionFails
<1> QED BY <1>1, LockInvariance, PTL
=============================================================================
