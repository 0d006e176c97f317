---------------------------- MODULE MCPipeQueue -----------------------------
(* Instances of PipeQueue for TLC. *)
EXTENDS PipeQueue

\* One handler at a time and every operation, or transfers that overlap one
\* flush or reset.
MCUses == {
    [ops |-> AllOps, exclusive |-> AllOps, failures |-> {"create", "select"}],
    [ops |-> {"forward", "flush", "reset"}, exclusive |-> {"flush", "reset"},
     failures |-> {"start"}]}

\* What the theorems about PipeQueue assume of the uses.
ASSUME MCAssumption == HandlersApart
=============================================================================
