------------------------------ MODULE BulkRead ------------------------------
(***************************************************************************)
(* Reads from a bulk or interrupt IN pipe in the kernel driver: Xfer_Read- *)
(* Bulk and its completion routine (drv_xfer_bulk.c), which split a read   *)
(* into stages, keep what a packet holds beyond the end of the user's      *)
(* buffer in the overrun buffer for the next read, and reset the pipe      *)
(* after a stall or a resume (drv_xfer.h).                                 *)
(*                                                                         *)
(* The pipe queue is sequential (Pipe_InitQueueConfig, RawIO off): one     *)
(* request is in the driver at a time, and its stage reads complete        *)
(* asynchronously.  The bytes the device sends are numbered 1, 2, 3, ...   *)
(* in the order it sends them, so that a buffer's content says which bytes *)
(* of the stream it holds; 0 is what a new overrun buffer holds.           *)
(***************************************************************************)
EXTENDS BulkPipe, FiniteSets

CONSTANTS
    MaxBytes,       \* bound on the bytes the device sends
    Policies        \* the pipe policies that may be set

ASSUME BoundAssumption == MaxBytes \in Nat
ASSUME PolicyAssumption ==
    Policies \subseteq {"AllowPartialReads", "AutoFlush", "IgnoreShortPackets",
                        "AutoClearStall", "ResetPipeOnResume"}

VARIABLES
    overBuf,        \* OverBuf: the bytes in the overrun buffer
    overOfs,        \* OverOfs: BufferOffset and BufferLength
    resetForStall,  \* ResetPipeForStall
    user,           \* the bytes in UserMem so far; Transferred is its length
    received,       \* bytes the device has sent
    delivered,      \* history: bytes completed requests gave their callers
    discarded,      \* history: bytes dropped by a flush
    unfilled,       \* history: no stage has filled the range of OverBuf
    junk,           \* history: bytes at the front of the last read that came
                    \* from an unfilled range
    short,          \* history: a short packet ended a stage of the request
    stallFails      \* history: AutoClearStall reads failed by one halt

vars == <<overBuf, overOfs, resetForResume, resetForStall, request, user, stage,
          received, halted, delivered, discarded, unfilled, junk, short, stallFails, last>>

Requests == [length : 0 .. MaxLength, policies : SUBSET Policies]
NoRequest == [length |-> -1, policies |-> {}]
NoStage == [mem |-> "none", size |-> 0]
NoOverrun == [off |-> 0, len |-> 0]
FailedStatus == {"STALL", "TIMEOUT", "CANCELLED"}

\* mutant: BufferOffset is ignored
BytesFromStart(b, k, n) == [i \in 1 .. n |-> b[i - 1]]

\* n bytes of buffer b from offset k on.
Bytes(b, k, n) == [i \in 1 .. n |-> b[k + i - 1]]

\* The bytes a completed stage of n bytes carried.
Landed(n) == [i \in 1 .. n |-> received + i]

\* The device's bytes left over from earlier reads.  The range set for a stage
\* read has none until the stage has filled it, which it may fail to do: the
\* range then stays, with whatever bytes are in the buffer.
Leftover ==
    IF unfilled THEN << >> ELSE Bytes(overBuf, overOfs.off, overOfs.len)

\* The bytes of u, what a request has, that the device sent for it.
Genuine(u, j) == [i \in 1 .. Len(u) - j |-> u[i + j]]

Contents(s) == {s[i] : i \in DOMAIN s}

Init ==
    /\ overBuf = [i \in 0 .. MaxPacket - 1 |-> 0]
    /\ overOfs = NoOverrun
    /\ resetForResume = FALSE
    /\ resetForStall = FALSE
    /\ request = NoRequest
    /\ user = << >>
    /\ stage = NoStage
    /\ received = 0
    /\ halted = FALSE
    /\ delivered = << >>
    /\ discarded = {}
    /\ unfilled = FALSE
    /\ junk = 0
    /\ short = FALSE
    /\ stallFails = 0
    /\ last = [ok |-> TRUE, whole |-> TRUE, excused |-> FALSE]

-----------------------------------------------------------------------------
\* WdfRequestCompleteWithInformation(Request, status, Transferred)
CompleteRequest(r, status, u) ==
    /\ request' = NoRequest
    /\ stage' = NoStage
    /\ user' = << >>
    /\ delivered' = delivered \o Genuine(u, junk')
    /\ last' = [ok |-> status = "SUCCESS",
                whole |-> Len(u) = r.length,
                excused |-> short' /\ "IgnoreShortPackets" \notin r.policies]

\* Format, timeout option and submission of one stage; any of them may fail,
\* and then the request is completed with what it has.
SendStage(r, u, mem, size) ==
    \/ /\ request' = r
       /\ user' = u
       /\ stage' = [mem |-> mem, size |-> size]
       /\ UNCHANGED <<delivered, last>>
    \/ CompleteRequest(r, "ERROR", u)

\* mutant: what has been transferred is not taken off the length
SubmitNextReadWholeLength(r, u, ofs) ==
    LET stageLength == Smaller(r.length, MaxTransfer)
    IN  IF stageLength >= MaxPacket
        THEN /\ overOfs' = ofs
             /\ unfilled' = FALSE
             /\ SendStage(r, u, "user", stageLength - (stageLength % MaxPacket))
        ELSE IF "AllowPartialReads" \in r.policies
        THEN /\ overOfs' = [off |-> 0, len |-> stageLength]
             /\ unfilled' = TRUE
             /\ SendStage(r, u, "over", MaxPacket)
        ELSE /\ overOfs' = ofs
             /\ unfilled' = FALSE
             /\ CompleteRequest(r, "INVALID_BUFFER_SIZE", u)

\* mXfer_SubmitNextRead: whole packets go straight into the user's buffer, the
\* last part of a packet through the overrun buffer.
SubmitNextRead(r, u, ofs) ==
    LET stageLength == Smaller(r.length - Len(u), MaxTransfer)
    IN  IF stageLength >= MaxPacket
        THEN /\ overOfs' = ofs
             /\ unfilled' = FALSE
             /\ SendStage(r, u, "user", stageLength - (stageLength % MaxPacket))
        ELSE IF "AllowPartialReads" \in r.policies
        THEN /\ overOfs' = [off |-> 0, len |-> stageLength]
             /\ unfilled' = TRUE
             /\ SendStage(r, u, "over", MaxPacket)
        ELSE /\ overOfs' = ofs
             /\ unfilled' = FALSE
             /\ CompleteRequest(r, "INVALID_BUFFER_SIZE", u)

\* AutoFlush when the request is served: the range ofs is dropped, with the
\* device's bytes in it.
FlushLeftover(r, ofs, bytes) ==
    IF "AutoFlush" \in r.policies
    THEN /\ overOfs' = NoOverrun
         /\ discarded' = discarded \cup Contents(bytes)
    ELSE /\ overOfs' = ofs
         /\ UNCHANGED discarded

\* mXfer_HandlePipeResetScenarios; the reset itself may fail, which is only
\* logged.
HandlePipeResetScenarios(r) ==
    IF \/ resetForResume /\ "ResetPipeOnResume" \in r.policies
       \/ resetForStall /\ "AutoClearStall" \in r.policies
    THEN \/ /\ resetForResume' = FALSE
            /\ resetForStall' = FALSE
            /\ halted' = FALSE
            /\ stallFails' = 0
         \/ /\ stallFails' = 0      \* a failed reset excuses the next failure
            /\ UNCHANGED <<resetForResume, resetForStall, halted>>
    ELSE UNCHANGED <<resetForResume, resetForStall, halted, stallFails>>

\* Xfer_ReadBulk: what BufferLength says is left over comes first.
ReadBulk(r) ==
    /\ request = NoRequest
    /\ HandlePipeResetScenarios(r)
    /\ short' = FALSE
    /\ LET n == Smaller(overOfs.len, r.length)
           u == Bytes(overBuf, overOfs.off, n)
           ofs == [off |-> overOfs.off + n, len |-> overOfs.len - n]
           kept == IF unfilled THEN << >> ELSE Bytes(overBuf, ofs.off, ofs.len)
       IN  \/ /\ r.length = 0 /\ junk' = 0
              /\ CompleteRequest(r, IF "AllowPartialReads" \in r.policies
                                    THEN "SUCCESS" ELSE "INVALID_BUFFER_SIZE", << >>)
              /\ UNCHANGED <<overOfs, discarded, unfilled>>
           \/ /\ r.length > 0 /\ junk' = 0         \* GetTransferMemory failed
              /\ CompleteRequest(r, "ERROR", << >>)
              /\ UNCHANGED <<overOfs, discarded, unfilled>>
           \/ /\ r.length > 0 /\ overOfs.len >= r.length
              /\ junk' = IF unfilled THEN n ELSE 0
              /\ FlushLeftover(r, ofs, kept)
              /\ CompleteRequest(r, "SUCCESS", u)
              /\ UNCHANGED unfilled
           \/ /\ overOfs.len < r.length
              /\ junk' = IF unfilled THEN n ELSE 0
              /\ SubmitNextRead(r, u, ofs)
              /\ UNCHANGED discarded
    /\ UNCHANGED <<overBuf, received>>

-----------------------------------------------------------------------------
\* Xfer_ReadBulkComplete after a stage into the overrun buffer.  The copy to
\* the user's buffer replaces the status by its own.
OverrunComplete(n, status) ==
    LET k == Smaller(overOfs.len, n)
        b == [i \in 0 .. MaxPacket - 1 |-> IF i < n THEN received + i + 1 ELSE overBuf[i]]
        u == user \o Bytes(b, 0, k)
        ofs == [off |-> overOfs.off + k, len |-> n - k]
    IN  /\ overBuf' = b
        /\ CASE n > 0 /\ Len(u) >= request.length ->
                  /\ FlushLeftover(request, ofs, Bytes(b, ofs.off, ofs.len))
                  /\ CompleteRequest(request, "SUCCESS", u)
                  /\ unfilled' = FALSE
             [] n = 0 /\ status # "SUCCESS" ->
                  /\ CompleteRequest(request, status, user)
                  /\ UNCHANGED <<overOfs, discarded, unfilled>>
             [] OTHER ->
                  LET rest == IF n > 0 THEN ofs ELSE [overOfs EXCEPT !.len = 0]
                  IN  /\ IF "IgnoreShortPackets" \in request.policies
                         THEN SubmitNextRead(request, u, rest)
                         ELSE /\ overOfs' = rest
                              /\ unfilled' = FALSE
                              /\ CompleteRequest(request, "SUCCESS", u)
                      /\ UNCHANGED discarded

\* mutant: any data counts as a full stage
UserCompleteAnyData(n, status) ==
    LET u == user \o Landed(n)
        more == n > 0 \/ "IgnoreShortPackets" \in request.policies
    IN  /\ IF status = "SUCCESS" /\ Len(u) < request.length /\ more
           THEN SubmitNextRead(request, u, overOfs)
           ELSE /\ CompleteRequest(request, status, u)
                /\ UNCHANGED <<overOfs, unfilled>>
        /\ UNCHANGED <<overBuf, discarded>>

\* Xfer_ReadBulkComplete after a stage into the user's buffer.
UserComplete(n, status) ==
    LET u == user \o Landed(n)
        more == \/ n > 0 /\ n = stage.size
                \/ "IgnoreShortPackets" \in request.policies
    IN  /\ IF status = "SUCCESS" /\ Len(u) < request.length /\ more
           THEN SubmitNextRead(request, u, overOfs)
           ELSE /\ CompleteRequest(request, status, u)
                /\ UNCHANGED <<overOfs, unfilled>>
        /\ UNCHANGED <<overBuf, discarded>>

\* mutant: the condition on the status is the wrong way round
ForCompleteCancelledOnly(status) ==
    /\ resetForStall' = (resetForStall \/ (/\ status = "CANCELLED"
                                           /\ "AutoClearStall" \in request.policies))
    /\ UNCHANGED resetForResume

\* mXfer_HandlePipeResetScenariosForComplete
HandlePipeResetScenariosForComplete(status) ==
    /\ resetForStall' = (resetForStall \/ (/\ status \in FailedStatus \ {"CANCELLED"}
                                           /\ "AutoClearStall" \in request.policies))
    /\ UNCHANGED resetForResume

\* The stage comes back with n bytes.  A successful one is full, or was ended
\* by a short packet; one that failed brought whole packets before it did.
ReadBulkComplete(n, status) ==
    /\ stage # NoStage
    /\ n <= stage.size /\ received + n <= MaxBytes
    /\ status # "SUCCESS" => n < stage.size /\ n % MaxPacket = 0
    /\ halted => n = 0 /\ status \in {"STALL", "CANCELLED"}
    /\ received' = received + n
    /\ halted' = (halted \/ status = "STALL")
    /\ short' = (short \/ (status = "SUCCESS" /\ n < stage.size))
    /\ stallFails' = IF status = "STALL" /\ "AutoClearStall" \in request.policies
                     THEN stallFails + 1 ELSE stallFails
    /\ UNCHANGED junk
    /\ HandlePipeResetScenariosForComplete(status)
    /\ IF overOfs.len # 0 THEN OverrunComplete(n, status) ELSE UserComplete(n, status)

-----------------------------------------------------------------------------
\* The overrun range is dropped, with whatever it held.
DropLeftover ==
    /\ overOfs' = NoOverrun
    /\ unfilled' = FALSE
    /\ discarded' = discarded \cup Contents(Leftover)

\* LIBUSB_IOCTL_FLUSH_PIPE: the queue is purged first, so the request the
\* driver has, if any, has been cancelled and completed.
FlushPipe ==
    /\ request = NoRequest
    /\ DropLeftover
    /\ UNCHANGED <<overBuf, resetForResume, resetForStall, request, user, stage, received,
                   halted, delivered, junk, short, stallFails, last>>

\* A dirty queue is purged, deleted and created again with a zeroed context.
RefreshQueue ==
    /\ request = NoRequest
    /\ overBuf' = [i \in 0 .. MaxPacket - 1 |-> 0]
    /\ DropLeftover
    /\ resetForResume' = FALSE
    /\ resetForStall' = FALSE
    /\ stallFails' = 0
    /\ UNCHANGED <<request, user, stage, received, halted, delivered, junk, short, last>>

\* LIBUSB_IOCTL_RESET_ENDPOINT: the flags of the queue stay as they are.
PipeReset ==
    /\ halted
    /\ halted' = FALSE
    /\ stallFails' = 0
    /\ UNCHANGED <<overBuf, overOfs, resetForResume, resetForStall, request, user, stage,
                   received, delivered, discarded, unfilled, junk, short, last>>

\* Device_OnD0Exit marks the pipes whose policy has ResetPipeOnResume.
OnD0Exit ==
    /\ "ResetPipeOnResume" \in Policies
    /\ resetForResume' = TRUE
    /\ UNCHANGED <<overBuf, overOfs, resetForStall, request, user, stage, received, halted,
                   delivered, discarded, unfilled, junk, short, stallFails, last>>

\* Queue_OnResume for the request the driver kept over the suspend.
OnResume ==
    /\ request # NoRequest
    /\ HandlePipeResetScenarios(request)
    /\ UNCHANGED <<overBuf, overOfs, request, user, stage, received, delivered, discarded,
                   unfilled, junk, short, last>>

Next ==
    \/ \E r \in Requests : ReadBulk(r)
    \/ \E n \in 0 .. MaxTransfer, status \in {"SUCCESS"} \cup FailedStatus :
           ReadBulkComplete(n, status)
    \/ FlushPipe \/ RefreshQueue \/ PipeReset \/ OnD0Exit \/ OnResume

Spec == Init /\ [][Next]_vars
-----------------------------------------------------------------------------
\* Type correctness; BufferOffset and BufferLength are a range of OverBuf.
TypeOK ==
    /\ overBuf \in [0 .. MaxPacket - 1 -> 0 .. MaxBytes]
    /\ overOfs \in [off : 0 .. MaxPacket, len : 0 .. MaxPacket]
    /\ resetForResume \in BOOLEAN
    /\ resetForStall \in BOOLEAN
    /\ request \in Requests \cup {NoRequest}
    /\ user \in Seq(Nat)
    /\ stage \in [mem : {"none", "user", "over"}, size : 0 .. MaxTransfer]
    /\ received \in 0 .. MaxBytes
    /\ halted \in BOOLEAN
    /\ delivered \in Seq(Nat)
    /\ discarded \in SUBSET Nat
    /\ unfilled \in BOOLEAN
    /\ junk \in Nat
    /\ short \in BOOLEAN
    /\ stallFails \in Nat
    /\ last \in [ok : BOOLEAN, whole : BOOLEAN, excused : BOOLEAN]

\* No access beyond a buffer: the copies stay inside OverBuf, and a request
\* never receives more than its length, the stage under way included.
BufferBounds ==
    /\ overOfs.off + overOfs.len <= MaxPacket
    /\ request # NoRequest => Len(user) < request.length
    /\ stage.mem = "user" => Len(user) + stage.size <= request.length
    /\ stage.mem = "over" => Len(user) + overOfs.len <= request.length

\* Whatever the lengths, policies, time-outs and flushes, no stage and no copy
\* goes beyond the user's buffer or OverBuf, and the context keeps its shape.
BuffersKept == TypeOK /\ BufferBounds

\* What the callers got, what the open request has and what is left over are
\* the device's bytes in the device's order, each once; what is missing was
\* dropped by a flush.  That holds also when stages into OverBuf time out or
\* are not sent: the bytes of the range such a stage leaves behind, which the
\* next read is given, are not counted here.  They are only ever at the front
\* of one read, and none of the device's bytes is lost or given twice for them.
StreamExact ==
    LET s == delivered \o Genuine(user, junk) \o Leftover
    IN  /\ \A i, j \in DOMAIN s : i < j => s[i] < s[j]
        /\ Contents(s) \cap discarded = {}
        /\ Contents(s) \cup discarded = 1 .. received

\* A read completes successfully with fewer bytes than it asked for only after
\* a short packet, and only if short packets are not ignored; and without
\* IgnoreShortPackets no stage is read after a short packet.
ShortReadHasReason ==
    /\ last.ok => last.whole \/ last.excused
    /\ request # NoRequest /\ "IgnoreShortPackets" \notin request.policies => ~short

\* One halt of the endpoint fails at most one read that has AutoClearStall:
\* the next one resets the pipe before it reads (unless that reset fails).
StallFailsOnce == stallFails <= 1
=============================================================================
