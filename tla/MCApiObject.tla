---------------------------- MODULE MCApiObject ----------------------------
(* Instances of ApiObject for TLC.                                         *)
EXTENDS ApiObject
=============================================================================
