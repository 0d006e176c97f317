----------------------------- MODULE BulkWrite ------------------------------
(***************************************************************************)
(* Writes to a bulk or interrupt OUT pipe in the kernel driver: Xfer_Write-*)
(* Bulk and its completion routine (drv_xfer_bulk.c), which split a write  *)
(* into stages of at most MaximumTransferSize bytes and, when the pipe has *)
(* the policy ShortPacketTerminate, end it with a zero-length packet.      *)
(*                                                                         *)
(* As for reads, the queue of the pipe is sequential: one request at a     *)
(* time.  The bytes of a request are numbered from 1 in its buffer.        *)
(***************************************************************************)
EXTENDS BulkPipe

VARIABLES
    zlpsRequired,   \* Xfer.Zlps.Required
    zlpsSent,       \* Xfer.Zlps.Sent
    transferred,    \* Xfer.Transferred
    wire,           \* history: packets' data of the request's stages, in order
    zlps            \* history: zero-length stages of the request: 0, 1, 2, 1, 2, ...

writeVars == <<zlpsRequired, zlpsSent, resetForResume, request, transferred, stage, halted,
               wire, zlps, last>>

WriteRequests == [length : 0 .. MaxLength, terminate : BOOLEAN, resetOnResume : BOOLEAN]
NoWrite == [length |-> -1, terminate |-> FALSE, resetOnResume |-> FALSE]
NoWriteStage == [off |-> -1, size |-> 0]
WriteFailures == {"STALL", "CANCELLED"}

WriteInit ==
    /\ zlpsRequired = 0
    /\ zlpsSent = 0
    /\ resetForResume = FALSE
    /\ request = NoWrite
    /\ transferred = 0
    /\ stage = NoWriteStage
    /\ halted = FALSE
    /\ wire = << >>
    /\ zlps = 0
    /\ last = [ok |-> TRUE, whole |-> TRUE, terminated |-> TRUE]

-----------------------------------------------------------------------------
\* WdfRequestCompleteWithInformation(Request, status, Transferred)
CompleteWrite(r, status, count) ==
    /\ request' = NoWrite
    /\ stage' = NoWriteStage
    /\ transferred' = count
    /\ last' = [ok |-> status = "SUCCESS",
                whole |-> wire' = [i \in 1 .. r.length |-> i],
                terminated |-> r.terminate => zlps' > 0]

\* mutant: the offset of the stage stays at the start of the buffer
SubmitNextWriteFromStart(r, count) ==
    \/ /\ request' = r
       /\ transferred' = count
       /\ stage' = [off |-> 0, size |-> Smaller(r.length - count, MaxTransfer)]
       /\ UNCHANGED last
    \/ CompleteWrite(r, "ERROR", count)

\* mXfer_SubmitNextWrite: a stage of what is left, a zero-length packet when
\* nothing is; formatting or sending it may fail.
SubmitNextWrite(r, count) ==
    \/ /\ request' = r
       /\ transferred' = count
       /\ stage' = [off |-> count, size |-> Smaller(r.length - count, MaxTransfer)]
       /\ UNCHANGED last
    \/ CompleteWrite(r, "ERROR", count)

\* mXfer_HandlePipeResetScenarios; ResetPipeForStall is never set on an OUT pipe.
HandleOutPipeResetScenarios(r) ==
    IF resetForResume /\ r.resetOnResume
    THEN \/ resetForResume' = FALSE /\ halted' = FALSE
         \/ UNCHANGED <<resetForResume, halted>>
    ELSE UNCHANGED <<resetForResume, halted>>

\* Xfer_WriteBulk
WriteBulk(r) ==
    /\ request = NoWrite
    /\ HandleOutPipeResetScenarios(r)
    /\ zlpsRequired' = IF r.terminate THEN 1 ELSE 0
    /\ wire' = << >>
    /\ zlps' = 0
    /\ SubmitNextWrite(r, 0)
    /\ UNCHANGED zlpsSent

\* The zero-length packets this write needs have been sent.
ZlpsDone == zlpsSent >= zlpsRequired

\* mutant: the zero-length packet is not counted
CountZlpSkipped == UNCHANGED zlpsSent

\* Zlps.Sent is counted when the packet is submitted, and only here.
CountZlp == zlpsSent' = zlpsSent + 1

\* Xfer_WriteBulkComplete for a stage of which n bytes were transferred.
WriteBulkComplete(n, status) ==
    /\ stage # NoWriteStage
    /\ IF status = "SUCCESS"
       THEN n = stage.size /\ ~halted
       ELSE n <= stage.size /\ n % MaxPacket = 0 /\ (halted => n = 0)
    /\ halted' = (halted \/ status = "STALL")
    /\ wire' = wire \o [i \in 1 .. n |-> stage.off + i]
    /\ zlps' = IF stage.size = 0 /\ status = "SUCCESS" THEN (zlps % 2) + 1 ELSE zlps
    /\ LET count == transferred + n
       IN  CASE status # "SUCCESS" ->
                  CompleteWrite(request, status, count) /\ UNCHANGED zlpsSent
             [] status = "SUCCESS" /\ count < request.length ->
                  SubmitNextWrite(request, count) /\ UNCHANGED zlpsSent
             [] status = "SUCCESS" /\ count >= request.length /\ ZlpsDone ->
                  CompleteWrite(request, status, count) /\ UNCHANGED zlpsSent
             [] OTHER ->
                  SubmitNextWrite(request, count) /\ CountZlp
    /\ UNCHANGED <<zlpsRequired, resetForResume>>

-----------------------------------------------------------------------------
\* A dirty queue is purged, deleted and created again with a zeroed context.
RefreshOutQueue ==
    /\ request = NoWrite
    /\ zlpsRequired' = 0
    /\ zlpsSent' = 0
    /\ resetForResume' = FALSE
    /\ UNCHANGED <<request, transferred, stage, halted, wire, zlps, last>>

\* LIBUSB_IOCTL_RESET_ENDPOINT
OutPipeReset ==
    /\ halted
    /\ halted' = FALSE
    /\ UNCHANGED <<zlpsRequired, zlpsSent, resetForResume, request, transferred, stage,
                   wire, zlps, last>>

\* Device_OnD0Exit on a pipe whose policy has ResetPipeOnResume.
OutPipeOnD0Exit ==
    /\ resetForResume' = TRUE
    /\ UNCHANGED <<zlpsRequired, zlpsSent, request, transferred, stage, halted, wire,
                   zlps, last>>

\* Queue_OnResume for the request the driver kept over the suspend.
ResumeWrite ==
    /\ request # NoWrite
    /\ HandleOutPipeResetScenarios(request)
    /\ UNCHANGED <<zlpsRequired, zlpsSent, request, transferred, stage, wire, zlps, last>>

WriteNext ==
    \/ \E r \in WriteRequests : WriteBulk(r)
    \/ \E n \in 0 .. MaxTransfer, status \in {"SUCCESS"} \cup WriteFailures :
           WriteBulkComplete(n, status)
    \/ RefreshOutQueue \/ OutPipeReset \/ OutPipeOnD0Exit \/ ResumeWrite

WriteSpec == WriteInit /\ [][WriteNext]_writeVars

\* The USB stack completes every stage, sooner or later; a driver that is given
\* completions makes progress.
WriteFairness == WF_writeVars(\E n \in 0 .. MaxTransfer, status \in {"SUCCESS"} \cup WriteFailures :
                        WriteBulkComplete(n, status))
FairWriteSpec == WriteSpec /\ WriteFairness
-----------------------------------------------------------------------------
\* Type correctness.
WriteTypeOK ==
    /\ zlpsRequired \in 0 .. 1
    /\ zlpsSent \in 0 .. 1
    /\ resetForResume \in BOOLEAN
    /\ request \in WriteRequests \cup {NoWrite}
    /\ transferred \in 0 .. MaxLength
    /\ stage \in [off : 0 .. MaxLength, size : 0 .. MaxTransfer] \cup {NoWriteStage}
    /\ halted \in BOOLEAN
    /\ wire \in Seq(1 .. MaxLength)
    /\ zlps \in 0 .. 2
    /\ last \in [ok : BOOLEAN, whole : BOOLEAN, terminated : BOOLEAN]

\* The device receives the bytes of the buffer in order, each once, and no
\* data after a zero-length packet; a request that succeeds has sent them all.
WriteExact ==
    /\ wire = [i \in 1 .. transferred |-> i]
    /\ request # NoWrite => transferred <= request.length
    /\ zlps > 0 /\ stage # NoWriteStage => stage.size = 0
    /\ last.ok => last.whole

\* The progress of a chain of stages agrees with what is on the wire, whichever
\* stage failed or was cancelled, and whatever earlier writes left behind.
BufferOnWire == WriteTypeOK /\ WriteExact

\* Every write ends: the chain of stages and of zero-length packets is finite.
WriteEnds == request # NoWrite ~> request = NoWrite

\* "Enabling SHORT_PACKET_TERMINATE causes the driver to send a zero-length
\* packet at the end of every write request": of every one that succeeds.
ZlpEveryWrite == last.ok => last.terminated
=============================================================================
