---------------------------- MODULE FormatSizes ----------------------------
(***************************************************************************)
(* The sizes converter_calculate_dest_nbytes works out for wave formats:   *)
(* records of rate, channels and bits.                                     *)
(***************************************************************************)
EXTENDS Integers

CONSTANT SizeLimit   \* 2^32: a size_t and a DWORD are numbers modulo this

Valid(f) ==
  f.rate # 0 /\ f.channels # 0 /\ f.bits # 0 /\ f.bits % 8 = 0

(* Bytes per frame.                                                        *)
Bpf(f) == f.channels * (f.bits \div 8)

(* Faulty CeilDiv: an integer quotient rounding downwards.                 *)
FloorDiv(num, den) == num \div den

(* "An integer quotient rounding upwards".                                 *)
CeilDiv(num, den) == (num + (den - 1)) \div den

DestNFrames(src, dest, n) == CeilDiv(n * dest.rate, src.rate)

(* Faulty DestNBytes: frames of the source's size.                         *)
DestNBytesOfSource(src, dest, n) ==
  (DestNFrames(src, dest, n \div Bpf(src)) * Bpf(src)) % SizeLimit

(* converter_calculate_dest_nbytes of two valid formats and a whole number *)
(* of frames.  The result is stored in a size_t.                           *)
DestNBytes(src, dest, n) ==
  (DestNFrames(src, dest, n \div Bpf(src)) * Bpf(dest)) % SizeLimit

(* A size_t holds the bytes of n frames converted from src to dest.        *)
Fits(src, dest, n) == DestNFrames(src, dest, n) * Bpf(dest) < SizeLimit
=============================================================================
