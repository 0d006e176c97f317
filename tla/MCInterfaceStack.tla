--------------------------- MODULE MCInterfaceStack ---------------------------
(* An instance of InterfaceStack: two configurations share interface 2, which *)
(* is second in one of them and first in the other.                             *)
EXTENDS InterfaceStack, TLC

MCConfigs == {<<0, 2>>, <<2>>}
MCFirst == <<0, 2>>
Symmetry == Permutations(Threads) \cup Permutations(Handles) \cup Permutations(Devs)
=============================================================================
