----------------------------- MODULE MCLifetime -----------------------------
(* Instances of Lifetime for TLC.                                          *)
EXTENDS Lifetime, TLC

(* Threads and buffers are interchangeable.                                *)
Symmetry == Permutations(Threads) \cup Permutations(Buffers)
=============================================================================
