------------------------------ MODULE BulkPipe ------------------------------
(***************************************************************************)
(* What reads from an IN pipe (BulkRead) and writes to an OUT pipe         *)
(* (BulkWrite) have in common: the sizes of a bulk or interrupt pipe of    *)
(* the kernel driver, the context of its queue and the request the queue   *)
(* has presented (drv_private.h).                                          *)
(***************************************************************************)
EXTENDS Integers, Sequences

CONSTANTS
    MaxPacket,      \* Info.MaximumPacketSize
    MaxTransfer,    \* Info.MaximumTransferSize
    MaxLength       \* bound on the length of a request

ASSUME PacketAssumption == MaxPacket \in Nat \ {0}
ASSUME TransferAssumption == MaxTransfer \in Nat /\ MaxTransfer >= MaxPacket
ASSUME LengthAssumption == MaxLength \in Nat

VARIABLES
    resetForResume, \* ResetPipeForResume
    request,        \* the request the queue has presented, if any
    stage,          \* the stage of it that the USB stack has, if any
    halted,         \* the endpoint is halted (it stalled)
    last            \* history: how the last completed request ended

Smaller(a, b) == IF a < b THEN a ELSE b
=============================================================================
