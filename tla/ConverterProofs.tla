-------------------------- MODULE ConverterProofs --------------------------
(* The sizes and positions of Converter are right for all formats.         *)
EXTENDS Converter, TLAPS

LEMMA DivMod ==
  ASSUME NEW x \in Nat, NEW d \in Nat \ {0}
  PROVE  /\ x \div d \in Nat
         /\ (x \div d) * d <= x
         /\ x < (x \div d) * d + d
  OBVIOUS

LEMMA DivProduct ==
  ASSUME NEW x \in Nat, NEW d \in Nat \ {0}
  PROVE  (x * d) \div d = x
  OBVIOUS

LEMMA ModSmall ==
  ASSUME NEW x \in Nat, NEW d \in Nat \ {0}
  PROVE  x % d \in Nat /\ (x < d => x % d = x)
  OBVIOUS

LEMMA ProductNat == ASSUME NEW x \in Nat, NEW y \in Nat PROVE x * y \in Nat
  OBVIOUS

LEMMA CeilDivBounds ==
  ASSUME NEW x \in Nat, NEW d \in Nat \ {0}
  PROVE  /\ CeilDiv(x, d) \in Nat
         /\ x <= CeilDiv(x, d) * d
         /\ CeilDiv(x, d) * d < x + d
<1> DEFINE q == CeilDiv(x, d)
<1>1. x + (d - 1) \in Nat
  OBVIOUS
<1>2. q \in Nat /\ q * d <= x + (d - 1) /\ x + (d - 1) < q * d + d
  BY <1>1, DivMod DEF CeilDiv
<1>3. q * d \in Nat
  BY <1>2, ProductNat
<1> HIDE DEF q
<1>4. q \in Nat /\ x <= q * d /\ q * d < x + d
  BY <1>2, <1>3
<1> QED
  BY <1>4 DEF q

LEMMA DivExact ==
  ASSUME NEW x \in Nat, NEW d \in Nat \ {0}, x % d = 0
  PROVE  (x \div d) * d = x
  OBVIOUS

LEMMA PositiveProduct ==
  ASSUME NEW x \in Nat \ {0}, NEW y \in Nat \ {0}
  PROVE  x * y \in Nat \ {0}
  OBVIOUS

LEMMA BpfPositive ==
  ASSUME NEW f \in Formats, Valid(f)
  PROVE  Bpf(f) \in Nat \ {0} /\ f.rate \in Nat \ {0}
<1>1. f.rate \in Nat \ {0} /\ f.channels \in Nat \ {0} /\ f.bits \in Nat \ {0}
  BY ConverterAssumption DEF Valid
<1>2. f.bits \div 8 \in Nat \ {0}
  <2>1. f.bits % 8 = 0
    BY DEF Valid
  <2> QED
    BY <1>1, <2>1, DivMod
<1> QED
  BY <1>1, <1>2, PositiveProduct DEF Bpf

(* What the conversion of n frames comes to, for any two valid formats.    *)
LEMMA Conversion ==
  ASSUME NEW src \in Formats, NEW dest \in Formats, Valid(src), Valid(dest),
         NEW n \in Nat
  PROVE  LET nbytes == DestNBytes(src, dest, n * Bpf(src))
         IN /\ nbytes \in Nat
            /\ nbytes \div Bpf(dest) \in Nat
            /\ Fits(src, dest, n) =>
                 Lasts(nbytes \div Bpf(dest), dest.rate, n, src.rate)
<1> DEFINE nbytes == DestNBytes(src, dest, n * Bpf(src))
           k == DestNFrames(src, dest, n)
<1>1. /\ Bpf(src) \in Nat \ {0} /\ Bpf(dest) \in Nat \ {0}
      /\ src.rate \in Nat \ {0} /\ dest.rate \in Nat \ {0}
      /\ SizeLimit \in Nat \ {0}
  BY BpfPositive, ConverterAssumption
<1>2. n * Bpf(src) \in Nat /\ (n * Bpf(src)) \div Bpf(src) = n
  BY <1>1, ProductNat, DivProduct
<1>3. n * dest.rate \in Nat
  BY <1>1, ProductNat
<1>4. k \in Nat /\ Lasts(k, dest.rate, n, src.rate)
  <2>1. /\ CeilDiv(n * dest.rate, src.rate) \in Nat
        /\ n * dest.rate <= CeilDiv(n * dest.rate, src.rate) * src.rate
        /\ CeilDiv(n * dest.rate, src.rate) * src.rate < n * dest.rate + src.rate
    BY <1>1, <1>3, CeilDivBounds
  <2> QED
    BY <2>1 DEF DestNFrames, Lasts
<1>5. nbytes = (k * Bpf(dest)) % SizeLimit
  BY <1>2 DEF DestNBytes
<1> HIDE DEF nbytes, k
<1>6. k * Bpf(dest) \in Nat
  BY <1>1, <1>4, ProductNat
<1>7. nbytes \in Nat /\ (k * Bpf(dest) < SizeLimit => nbytes = k * Bpf(dest))
  BY <1>1, <1>5, <1>6, ModSmall
<1>8. nbytes \div Bpf(dest) \in Nat
  BY <1>1, <1>7, DivMod
<1>9. k * Bpf(dest) < SizeLimit => nbytes \div Bpf(dest) = k
  BY <1>1, <1>4, <1>7, DivProduct
<1>10. Fits(src, dest, n) <=> k * Bpf(dest) < SizeLimit
  BY DEF Fits, k
<1>11. Fits(src, dest, n) => Lasts(nbytes \div Bpf(dest), dest.rate, n, src.rate)
  BY <1>4, <1>9, <1>10
<1> QED
  BY <1>7, <1>8, <1>11 DEF nbytes

-----------------------------------------------------------------------------
Inv ==
  /\ format \in Formats /\ made \in Formats
  /\ pos \in Nat
  /\ sys_frames # Unset =>
       /\ frames \in Nat
       /\ Valid(made) /\ Valid(format) /\ Valid(SysFormat)
       /\ sys_frames = DestNBytes(made, SysFormat, frames * Bpf(made))
                          \div Bpf(SysFormat)
       /\ pos <= sys_frames
  /\ frames = Unset => sys_frames = Unset /\ made = format /\ pos = 0
  /\ told # Unset =>
       /\ sys_frames # Unset
       /\ told.format \in Formats /\ Valid(told.format)
       /\ told.pos \in Nat /\ told.pos <= sys_frames
       /\ told.nbytes = DestNBytes(SysFormat, told.format, told.pos * Bpf(SysFormat))

LEMMA InvInductive == Inv /\ [Next]_vars => Inv'
<1> SUFFICES ASSUME Inv, [Next]_vars PROVE Inv'
  OBVIOUS
<1> USE DEF Inv
<1>0. SysFormat \in Formats /\ Unset \notin Nat /\ MaxNBytes \in Nat
  BY ConverterAssumption
<1>1. CASE UNCHANGED vars
  BY <1>1 DEF vars
<1>2. ASSUME NEW n \in 0..MaxNBytes, Create(n) PROVE Inv'
  <2>1. Valid(format) /\ Valid(SysFormat) /\ n \in Nat /\ n % Bpf(format) = 0
    BY <1>0, <1>2 DEF Create
  <2>2. Bpf(format) \in Nat \ {0}
    BY <2>1, BpfPositive
  <2>3. frames' \in Nat /\ frames' * Bpf(format) = n
    BY <1>2, <2>1, <2>2, DivMod, DivExact DEF Create
  <2>4. sys_frames' = DestNBytes(format, SysFormat, frames' * Bpf(format))
                        \div Bpf(SysFormat)
    BY <1>2, <2>3 DEF Create
  <2>5. sys_frames' \in Nat
    BY <1>0, <2>1, <2>3, <2>4, Conversion
  <2>6. made = format /\ pos = 0 /\ told = Unset
    BY <1>2 DEF Create
  <2>7. format' = format /\ made' = made /\ pos' = pos /\ told' = told
    BY <1>2 DEF Create
  <2> QED
    BY <1>0, <2>1, <2>3, <2>4, <2>5, <2>6, <2>7
<1>3. ASSUME Render PROVE Inv'
  <2>1. sys_frames \in Nat
    BY <1>0, <1>3, Conversion DEF Render
  <2>2. pos' \in Nat /\ pos' <= sys_frames
    BY <1>3, <2>1 DEF Render
  <2> QED
    BY <1>0, <1>3, <2>2 DEF Render
<1>4. ASSUME NEW f \in Formats, SetFormat(f) PROVE Inv'
  BY <1>0, <1>4 DEF SetFormat
<1>5. ASSUME GetCurrentPosition PROVE Inv'
  BY <1>0, <1>5 DEF GetCurrentPosition
<1> QED
  BY <1>1, <1>2, <1>3, <1>4, <1>5 DEF Next

LEMMA InvInit == Init => Inv
  BY ConverterAssumption DEF Init, Inv

-----------------------------------------------------------------------------
LEMMA InvBuffer == Inv => BufferLongEnough
  BY Conversion, ConverterAssumption DEF Inv, BufferLongEnough

LEMMA InvPosition == Inv => PositionTracks
  BY Conversion, ConverterAssumption DEF Inv, PositionTracks, ToldFrames

(* If m frames at rate s last as long as n at rate r, then the frames at   *)
(* rate r that last as long as p of those m are not many more than n.      *)
LEMMA RoundTrip ==
  ASSUME NEW m \in Nat, NEW n \in Nat, NEW p \in Nat, NEW q \in Nat,
         NEW r \in Nat \ {0}, NEW s \in Nat \ {0},
         p <= m, Lasts(m, s, n, r), Lasts(q, r, p, s)
  PROVE  (q - n) * s <= r + s - 2
<1>1. m * r < n * s + r /\ q * s < p * r + s
  BY DEF Lasts
<1>2. p * r <= m * r
  OBVIOUS
<1>3. m * r \in Nat /\ n * s \in Nat /\ q * s \in Nat /\ p * r \in Nat
  BY ProductNat
<1>4. q * s <= n * s + r + s - 2
  BY <1>1, <1>2, <1>3
<1>5. (q - n) * s = q * s - n * s
  OBVIOUS
<1> QED
  BY <1>3, <1>4, <1>5

LEMMA InvNearEnd == Inv => PositionNearEnd
<1> SUFFICES ASSUME Inv, told # Unset, told.format = made,
                    Fits(SysFormat, made, told.pos), Fits(made, SysFormat, frames)
             PROVE  (ToldFrames - frames) * SysFormat.rate
                      <= made.rate + SysFormat.rate - 2
  BY DEF PositionNearEnd
<1>1. SysFormat \in Formats /\ Valid(made) /\ Valid(SysFormat) /\ made \in Formats
      /\ frames \in Nat /\ told.pos \in Nat /\ told.pos <= sys_frames
  BY ConverterAssumption DEF Inv
<1>2. sys_frames \in Nat /\ Lasts(sys_frames, SysFormat.rate, frames, made.rate)
  BY <1>1, Conversion DEF Inv
<1>3. ToldFrames \in Nat /\ Lasts(ToldFrames, made.rate, told.pos, SysFormat.rate)
  BY <1>1, Conversion DEF Inv, ToldFrames
<1>4. made.rate \in Nat \ {0} /\ SysFormat.rate \in Nat \ {0}
  BY <1>1, BpfPositive
<1> QED
  BY <1>1, <1>2, <1>3, <1>4, RoundTrip

(* For any formats, the device's copy of a buffer has room for all of it   *)
(* and is less than a frame too long (converter_calculate_dest_nbytes).    *)
THEOREM BufferCorrect == Spec => []BufferLongEnough
<1> QED
  BY InvInit, InvInductive, InvBuffer, PTL DEF Spec

(* For any formats, GetCurrentPosition is right to within a frame.         *)
THEOREM PositionCorrect == Spec => []PositionTracks
<1> QED
  BY InvInit, InvInductive, InvPosition, PTL DEF Spec

(* For any formats, how far past the end of the application's buffer the   *)
(* position can come to lie.                                               *)
THEOREM PositionBounded == Spec => []PositionNearEnd
<1> QED
  BY InvInit, InvInductive, InvNearEnd, PTL DEF Spec
=============================================================================
