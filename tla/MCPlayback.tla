----------------------------- MODULE MCPlayback -----------------------------
(* Instances of Playback for TLC.                                          *)
EXTENDS Playback

(* A buffer longer than the period and one shorter, so that looping wraps  *)
(* within a period and across periods.                                     *)
MCNFrames == [long |-> 5, short |-> 2]
MCNFramesLong == [long |-> 5]
=============================================================================
