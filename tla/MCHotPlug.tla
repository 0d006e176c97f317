------------------------------ MODULE MCHotPlug ------------------------------
(* Instances of HotPlug for TLC. *)
EXTENDS HotPlug, TLC

CONSTANTS a1, a2, d1, d2, h1, h2, h3

MCPattern == (h1 :> {d1}) @@ (h2 :> Devices) @@ (h3 :> Devices)
MCPlugAll == {h1, h3}
MCPassDupe == {h3}

\* Threads that are not in a call are alike: one of them makes the next call.
OneCaller ==
    \A a \in Apps : pc[a] = "idle" /\ pc'[a] # "idle" => a = CHOOSE b \in Apps : pc[b] = "idle"
=============================================================================
