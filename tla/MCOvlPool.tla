----------------------------- MODULE MCOvlPool ------------------------------
(* Instances of OvlPool for TLC: the slots of each pool are interchangeable. *)
EXTENDS OvlPool, TLC

Symmetry == Permutations(PoolSlots) \cup Permutations(OvlSlots)
=============================================================================
