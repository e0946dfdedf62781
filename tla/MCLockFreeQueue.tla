-------------------------- MODULE MCLockFreeQueue --------------------------
(* Instances of LockFreeQueue for TLC.                                     *)
EXTENDS LockFreeQueue, TLC

(* Threads and items are interchangeable.                                  *)
Symmetry == Permutations(Threads) \cup Permutations(Items)
=============================================================================
