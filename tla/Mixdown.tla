------------------------------ MODULE Mixdown -------------------------------
(***************************************************************************)
(* The arithmetic of snd_mixer_mix: one slot of its 32-bit work area, to   *)
(* which every playing stream adds a sample times a volume in one period,  *)
(* and which is scaled down and clipped to a 16-bit sample.  Slots do not  *)
(* meet, and a stream adds to a slot at most once a period.                *)
(*                                                                         *)
(* In the code a sample is of 16 bits (SampleSpan is 2^15), a volume is at *)
(* most 0x100 (Unity), the work area is of int32_t (WorkSpan is 2^31), so  *)
(* that Limit is 256.                                                      *)
(***************************************************************************)
EXTENDS Integers

CONSTANTS
  SampleSpan,  \* a sample is in -SampleSpan..SampleSpan - 1
  Unity,       \* the volume that leaves a sample as it is
  WorkSpan,    \* a slot of the work area is in -WorkSpan..WorkSpan - 1
  Limit,       \* as many streams cannot overflow a slot
  MaxStreams   \* bound: how many streams play in a period

ASSUME MixdownAssumption ==
  /\ SampleSpan \in Nat \ {0}
  /\ Unity \in Nat \ {0}
  /\ WorkSpan \in Nat
  /\ Limit \in Nat \ {0}
  /\ Limit * (SampleSpan * Unity) <= WorkSpan
  /\ MaxStreams \in Nat

Samples == -SampleSpan..(SampleSpan - 1)
Volumes == 0..Unity
Work == -WorkSpan..(WorkSpan - 1)

VARIABLES
  work,    \* the slot
  sample,  \* the sample of the last period
  done,    \* the period's sample has been made
  mixed,   \* auxiliary: how many streams have been added in this period
  exact    \* auxiliary: what they come to

vars == <<work, sample, done, mixed, exact>>

(* Where a 32-bit addition of one stream ends up: it overflows at most once*)
Wrap(x) ==
  CASE x >= WorkSpan -> x - 2 * WorkSpan
    [] x < -WorkSpan -> x + 2 * WorkSpan
    [] OTHER -> x

(* Faulty Clip: the sample is cut to its low bits.                         *)
ClipWraps(x) == ((x + SampleSpan) % (2 * SampleSpan)) - SampleSpan

(* The two bounds of a sample.                                             *)
Clip(x) ==
  CASE x < -SampleSpan -> -SampleSpan
    [] x > SampleSpan - 1 -> SampleSpan - 1
    [] OTHER -> x

Init ==
  /\ work = 0
  /\ sample = 0
  /\ done = FALSE
  /\ mixed = 0
  /\ exact = 0

(* The next period begins: memset of the work area.                        *)
Clear ==
  /\ done
  /\ work' = 0
  /\ done' = FALSE
  /\ mixed' = 0
  /\ exact' = 0
  /\ UNCHANGED sample

(* snd_stream_render adds one more stream's sample.                        *)
Render(s, v) ==
  /\ ~done
  /\ mixed < MaxStreams
  /\ work' = Wrap(work + s * v)
  /\ mixed' = mixed + 1
  /\ exact' = exact + s * v
  /\ UNCHANGED <<sample, done>>

(* The slot becomes a sample: an arithmetic shift, and a clip.             *)
Emit ==
  /\ ~done
  /\ sample' = Clip(work \div Unity)
  /\ done' = TRUE
  /\ UNCHANGED <<work, mixed, exact>>

Next ==
  \/ Clear
  \/ \E s \in Samples, v \in Volumes : Render(s, v)
  \/ Emit

Spec == Init /\ [][Next]_vars

-----------------------------------------------------------------------------
(* Properties                                                              *)

TypeOK ==
  /\ work \in Work
  /\ sample \in Samples
  /\ done \in BOOLEAN
  /\ mixed \in Nat
  /\ exact \in Int

(* With no more streams than the limit, what is heard is their sum, scaled *)
(* down once and clipped: a loud mix saturates and never turns over, and   *)
(* nothing is left of the period before.                                   *)
HeardIsClippedSum ==
  done /\ mixed <= Limit =>
    \/ sample = exact \div Unity
    \/ sample = -SampleSpan /\ exact \div Unity < sample
    \/ sample = SampleSpan - 1 /\ exact \div Unity > sample

-----------------------------------------------------------------------------
(* The strengthening of HeardIsClippedSum that is inductive: the sum is as *)
(* far from zero as so many streams can make it, so that up to the limit   *)
(* the slot holds it.                                                      *)
Loudest == SampleSpan * Unity

SumBounded == -(mixed * Loudest) <= exact /\ exact <= mixed * (Loudest - 1)
SlotIsSum == mixed <= Limit => work = exact
Inductive == TypeOK /\ SumBounded /\ SlotIsSum /\ HeardIsClippedSum
=============================================================================
