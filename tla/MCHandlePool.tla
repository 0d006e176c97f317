---------------------------- MODULE MCHandlePool ----------------------------
(* Small instances of HandlePool for TLC. *)
EXTENDS HandlePool, TLC

\* Threads are interchangeable in every property that is not temporal.
Symmetry == Permutations(Threads)
=============================================================================
