--------------------------- MODULE MCSharedClient ---------------------------
(* Instances of SharedClient for TLC.                                      *)
EXTENDS SharedClient
=============================================================================
