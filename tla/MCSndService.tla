---------------------------- MODULE MCSndService ----------------------------
(* Instances of SndService for TLC.                                        *)
EXTENDS SndService
=============================================================================
