----------------------------- MODULE MCMixdown ------------------------------
(* Instances of Mixdown for TLC.                                           *)
EXTENDS Mixdown
=============================================================================
