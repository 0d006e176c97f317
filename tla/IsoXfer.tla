------------------------------- MODULE IsoXfer -------------------------------
(***************************************************************************)
(* Isochronous transfers of one pipe (sys/drv_xfer_iso.c).                 *)
(*                                                                         *)
(* A read or write is cut into packets by the driver, a transfer with an   *)
(* isochronous context (XferIsoEx) has the packets the application set up. *)
(* Unless it is sent "as soon as possible" a transfer is given the frame   *)
(* it starts in: the one in which the transfer before it ends, or, after a *)
(* pipe reset, one a latency ahead of the bus.  The packets of a read come *)
(* back with holes, which the completion routine closes.                   *)
(*                                                                         *)
(* The queue is parallel, so transfers overlap on the bus, but its         *)
(* callbacks hold the queue's lock (SynchronizationScope,                  *)
(* sys/drv_pipe.c:300): a submission is one step.  Completions, resets     *)
(* and power changes come between.  Numbers of the code are scaled down:   *)
(* the packet limits 1024 and 256, the latency, the frame counter.         *)
(***************************************************************************)
EXTENDS Integers, Sequences, FiniteSets, SequencesExt

CONSTANTS
    MPS,            \* MaximumPacketSize of the endpoint
    Intervals,      \* bInterval of the endpoint: one of these
    Lengths,        \* lengths of transfers
    FixedPackets,   \* values of policy ISO_NUM_FIXED_PACKETS, 0 for none
    Latency,        \* policy ISO_START_LATENCY
    MaxPacketsHS, MaxPacketsFS,
    MaxInFlight,    \* bound on the transfers in flight
    MaxTime,        \* bound on the frames the bus goes through
    MaxFrame        \* bound on the start frames given out

ASSUME IsoAssumption ==
    /\ MPS \in Nat \ {0} /\ Intervals \subseteq 1 .. 6 /\ Lengths \subseteq Nat
    /\ FixedPackets \subseteq Nat /\ Latency \in Nat
    /\ MaxPacketsHS \in Nat \ {0} /\ MaxPacketsHS % 8 = 0 /\ MaxPacketsFS \in Nat \ {0}
    /\ MaxInFlight \in Nat \ {0} /\ MaxTime \in Nat /\ MaxFrame \in Nat

VARIABLES
    pipe,           \* what does not change: hs, interval, in
    policy,         \* asap, fixed, autoClear, resetOnResume
    queue,          \* IsFreshPipeReset, NextFrameNumber, ResetPipeForStall and -Resume
    frame,          \* the frame the bus is in
    inFlight,       \* transfers the host controller has, in order of submission
    lastEnd,        \* history: the frame in which the last transfer that was sent
                    \* ends, -1 after a fetch or a submission that failed
    sent,           \* history: the frames of the transfer this step has sent
    got             \* the read this step has completed: packets and buffer

vars == <<pipe, policy, queue, frame, inFlight, lastEnd, sent, got>>

NotSent == [scheduled |-> FALSE, start |-> -1, follows |-> -1]

NoRead == [packets |-> << >>, buffer |-> << >>, transferred |-> 0]

\* Bound: AUTO_CLEAR_STALL and RESET_PIPE_ON_RESUME are set or cleared before the
\* first transfer, both.
Init ==
    /\ pipe \in [hs : BOOLEAN, interval : Intervals, in : BOOLEAN]
    /\ policy \in {[asap |-> ~pipe.in, fixed |-> 0, autoClear |-> b, resetOnResume |-> b] : b \in BOOLEAN}
    /\ queue = [fresh |-> TRUE, next |-> 0, stall |-> FALSE, resume |-> FALSE]
    /\ frame = 0
    /\ inFlight = << >>
    /\ lastEnd = -1
    /\ sent = NotSent
    /\ got = NoRead

-----------------------------------------------------------------------------
(***************************************************************************)
(* Packets.                                                                *)
(***************************************************************************)

MaxPackets == IF pipe.hs THEN MaxPacketsHS ELSE MaxPacketsFS
Least(a, b) == IF a < b THEN a ELSE b

\* XferIsoRead: as many whole packets as fit, at high speed whole frames.
ReadPackets(len) ==
    LET n == len \div MPS
    IN Least(MaxPackets, IF pipe.hs THEN n - (n % 8) ELSE n)

\* XferIsoWrite: the fixed number, or as many as are needed.
WritePackets(len) ==
    LET n == (len + MPS - 1) \div MPS
    IN IF policy.fixed # 0 THEN policy.fixed
       ELSE IF pipe.hs THEN ((n + 7) \div 8) * 8 ELSE n

WriteFits(len) ==
    IF policy.fixed # 0 THEN len \div policy.fixed <= MPS
                        ELSE WritePackets(len) \in 1 .. MaxPackets

\* Mutant: the remaining bytes are not handed out.
WriteOffsetNoRest(len, n, i) == i * (len \div n)

\* Where packet i of n starts: the bytes that remain when all packets are equal
\* are added to the first ones, one each.
WriteOffset(len, n, i) == i * (len \div n) + Least(i, len % n)

\* A packet's start and its end for the host controller, which takes the next
\* packet's offset, or the transfer's length, for it.
PacketSize(x, i) == (IF i = Len(x.offsets) THEN x.length ELSE x.offsets[i + 1]) - x.offsets[i]

-----------------------------------------------------------------------------
(***************************************************************************)
(* Frames.                                                                 *)
(***************************************************************************)

\* Frames_Per_bInterval: packet period, in (micro)frames.
Period == IF pipe.hs THEN 2 ^ (pipe.interval - 1)
          ELSE CASE pipe.interval = 1 -> 1 [] pipe.interval \in 2 .. 3 -> 2 [] OTHER -> 4

\* Mutant: the interval of the endpoint is forgotten.
FramesOfEveryFrame(n) == IF pipe.hs THEN n \div 8 ELSE n

\* mXfer_IsoAssignNextFrameNumber: frames a transfer of n packets takes.
FramesOf(n) == IF pipe.hs THEN (n \div 8) * Period ELSE n * Period

\* mXfer_HandlePipeResetScenarios before a transfer; the reset may fail.
NeedsReset ==
    \/ queue.resume /\ policy.resetOnResume
    \/ queue.stall /\ policy.autoClear

\* Mutant: the frame number is fetched for the first transfer of all only.
ResetKeepsFrame(q) == [q EXCEPT !.stall = FALSE, !.resume = FALSE]

Reset(q) == [q EXCEPT !.fresh = TRUE, !.stall = FALSE, !.resume = FALSE]

\* mXfer_IsoCheckInitNextFrameNumber: the queue after the bus was asked for its
\* frame number, which is rounded up at high speed.
Fetched(q, ok) ==
    LET f == frame + Latency
    IN [q EXCEPT !.fresh = FALSE,
                 !.next = IF ~ok THEN 0 ELSE IF pipe.hs THEN ((f + 7) \div 8) * 8 ELSE f]

-----------------------------------------------------------------------------
(***************************************************************************)
(* Submissions.                                                            *)
(***************************************************************************)

\* How long n packets are on the bus, in frames.
Duration(n) == IF pipe.hs THEN (n * Period + 7) \div 8 ELSE n * Period

Transfer(kind, len, offsets) == [kind |-> kind, length |-> len, offsets |-> offsets]

\* The queue with the pipe reset, if that is due and succeeds.
Ready(resetOk) == IF NeedsReset /\ resetOk THEN Reset(queue) ELSE queue

\* A transfer is given its start frame, unless it has one, and is sent or fails to be.
Send(x, start, resetOk, frameOk, sendOk) ==
    LET q == Ready(resetOk)
        chooses == ~policy.asap /\ start = -1
        asks == chooses /\ q.fresh
        q1 == IF asks THEN Fetched(q, frameOk) ELSE q
        scheduled == chooses /\ (asks => frameOk)
        last == IF asks THEN -1 ELSE lastEnd
        n == Len(x.offsets)
    IN /\ resetOk \/ NeedsReset
       /\ frameOk \/ asks
       /\ Len(inFlight) < MaxInFlight /\ q1.next <= MaxFrame
       /\ queue' = IF scheduled THEN [q1 EXCEPT !.next = @ + FramesOf(n)] ELSE q1
       /\ inFlight' = IF sendOk THEN Append(inFlight, x) ELSE inFlight
       /\ sent' = IF sendOk /\ scheduled
                  THEN [scheduled |-> TRUE, start |-> q1.next, follows |-> last] ELSE NotSent
       /\ lastEnd' = IF ~scheduled THEN last
                     ELSE IF sendOk THEN q1.next + Duration(n) ELSE -1
       /\ got' = NoRead
       /\ UNCHANGED <<pipe, policy, frame>>

SubmitRead(len, resetOk, frameOk, sendOk) ==
    LET n == ReadPackets(len)
    IN /\ pipe.in /\ n > 0
       /\ Send(Transfer("read", n * MPS, [i \in 1 .. n |-> (i - 1) * MPS]), -1,
               resetOk, frameOk, sendOk)

SubmitWrite(len, resetOk, frameOk, sendOk) ==
    LET n == WritePackets(len)
    IN /\ ~pipe.in /\ WriteFits(len)
       /\ Send(Transfer("write", len, [i \in 1 .. n |-> WriteOffset(len, n, i - 1)]), -1,
               resetOk, frameOk, sendOk)

\* XferIsoEx, with packets of a size (IsoK_SetPackets) and, if start is not -1,
\* with the application's own start frame.
SubmitEx(len, n, size, start, resetOk, frameOk, sendOk) ==
    /\ pipe.hs => n % 8 = 0
    /\ (n - 1) * size < len
    /\ Send(Transfer("ex", len, [i \in 1 .. n |-> (i - 1) * size]), start,
            resetOk, frameOk, sendOk)

\* Nothing is sent and no read completed by this step.
Quiet == sent' = NotSent /\ got' = NoRead

\* A packet's offset is out of range: the request fails, the reset remains.
SubmitExFails ==
    /\ NeedsReset
    /\ queue' = Reset(queue)
    /\ Quiet
    /\ UNCHANGED <<pipe, policy, frame, inFlight, lastEnd>>

-----------------------------------------------------------------------------
(***************************************************************************)
(* Completions.                                                            *)
(***************************************************************************)

\* Byte k of packet i as the device sent it, and bytes nobody wrote.
Byte(i, k) == <<i, k>>
Unwritten == <<0, 0>>

Received(x, lens) ==
    [b \in 1 .. x.length |->
        LET i == (b - 1) \div MPS + 1
            k == (b - 1) % MPS
        IN IF k < lens[i] THEN Byte(i, k) ELSE Unwritten]

\* TransferBufferLength as the host controller leaves it: the bytes of all packets.
Total(lens) ==
    LET upto[i \in 0 .. Len(lens)] == IF i = 0 THEN 0 ELSE upto[i - 1] + lens[i]
    IN upto[Len(lens)]

\* The application's buffer after len bytes moved from offset from to offset to.
Moved(buffer, to, from, len) ==
    [b \in DOMAIN buffer |-> IF b - 1 \in to .. to + len - 1 THEN buffer[b - to + from] ELSE buffer[b]]

\* Mutant: the holes are closed by the packet size instead of the packet's length.
MovePacketBySize(x, lens, acc, i) ==
    [buffer |-> IF lens[i] > 0 /\ acc.offset < x.offsets[i]
                THEN Moved(acc.buffer, acc.offset, x.offsets[i], lens[i])
                ELSE acc.buffer,
     offset |-> acc.offset + (IF lens[i] > 0 THEN MPS ELSE 0)]

\* The body of the loop for packet i, given the buffer and the end of its data.
MovePacket(x, lens, acc, i) ==
    [buffer |-> IF lens[i] > 0 /\ acc.offset < x.offsets[i]
                THEN Moved(acc.buffer, acc.offset, x.offsets[i], lens[i])
                ELSE acc.buffer,
     offset |-> acc.offset + lens[i]]

\* XferIsoRdComplete: every packet with data is moved down to the end of the
\* data before it.
ClosedHoles(x, lens) ==
    LET after[i \in 0 .. Len(lens)] ==
            IF i = 0 THEN [buffer |-> Received(x, lens), offset |-> 0]
                     ELSE MovePacket(x, lens, after[i - 1], i)
    IN after[Len(lens)].buffer

\* What the device puts into n packets.  Bound: full ones if another transfer is
\* in flight; every combination for at most three packets, else every other
\* packet has the same length.
Fillings(n) ==
    IF Len(inFlight) > 1 THEN {[i \in 1 .. n |-> MPS]}
    ELSE IF n <= 3 THEN [1 .. n -> 0 .. MPS]
    ELSE {[i \in 1 .. n |-> IF i % 2 = 1 THEN a ELSE b] : a, b \in 0 .. MPS}

Rest == <<pipe, policy, frame, lastEnd>>

CompleteRead(lens) ==
    LET x == Head(inFlight)
        total == Total(lens)
    IN /\ inFlight # << >> /\ x.kind = "read"
       /\ lens \in Fillings(Len(x.offsets))
       /\ got' = [packets |-> lens, transferred |-> total,
                  buffer |-> IF total \in 1 .. x.length - 1 THEN ClosedHoles(x, lens)
                                                           ELSE Received(x, lens)]
       /\ sent' = NotSent
       /\ inFlight' = Tail(inFlight)
       /\ UNCHANGED <<Rest, queue>>

\* Writes, and transfers whose packets the application looks at itself.
Complete ==
    /\ inFlight # << >> /\ Head(inFlight).kind # "read"
    /\ inFlight' = Tail(inFlight)
    /\ Quiet
    /\ UNCHANGED <<Rest, queue>>

\* The transfer failed: the pipe is marked for a reset, except by XferIsoEx when
\* the header of the URB has an error too (urbFailed).
CompleteFailed(urbFailed) ==
    LET x == Head(inFlight)
    IN /\ inFlight # << >>
       /\ urbFailed => x.kind = "ex"
       /\ queue' = IF policy.autoClear /\ ~urbFailed THEN [queue EXCEPT !.stall = TRUE] ELSE queue
       /\ inFlight' = Tail(inFlight)
       /\ Quiet
       /\ UNCHANGED Rest

\* A transfer is cancelled.
CompleteCancelled(i) ==
    /\ i \in DOMAIN inFlight
    /\ inFlight' = RemoveAt(inFlight, i)
    /\ Quiet
    /\ UNCHANGED <<Rest, queue>>

-----------------------------------------------------------------------------
\* Pipe_Reset.
PipeReset ==
    /\ queue' = [queue EXCEPT !.fresh = TRUE]
    /\ Quiet
    /\ UNCHANGED <<Rest, inFlight>>

\* The device leaves D0 with nothing in flight, and comes back.
Suspend ==
    /\ policy.resetOnResume /\ inFlight = << >>
    /\ queue' = [queue EXCEPT !.resume = TRUE]
    /\ Quiet
    /\ UNCHANGED <<Rest, inFlight>>

\* Policy_SetPipe; at high speed the fixed number has to be a multiple of 8.
\* Bound: the number is changed with nothing in flight, and for writes.
SetPolicy(asap, fixed) ==
    /\ fixed <= MaxPackets /\ (pipe.hs => fixed % 8 = 0)
    /\ fixed = policy.fixed \/ (inFlight = << >> /\ ~pipe.in)
    /\ policy' = [policy EXCEPT !.asap = asap, !.fixed = fixed]
    /\ Quiet
    /\ UNCHANGED <<pipe, queue, frame, inFlight, lastEnd>>

Tick ==
    /\ frame < MaxTime /\ frame' = frame + 1
    /\ Quiet
    /\ UNCHANGED <<pipe, policy, queue, inFlight, lastEnd>>

Next ==
    \/ \E resetOk, frameOk, sendOk \in BOOLEAN, len \in Lengths :
          \/ SubmitRead(len, resetOk, frameOk, sendOk)
          \/ SubmitWrite(len, resetOk, frameOk, sendOk)
          \/ \E n \in {1, 8}, start \in {-1, MaxFrame} :
                SubmitEx(len, n, MPS, start, resetOk, frameOk, sendOk)
    \/ SubmitExFails
    \/ \E lens \in Fillings(IF inFlight = << >> THEN 0 ELSE Len(Head(inFlight).offsets)) :
          CompleteRead(lens)
    \/ Complete
    \/ \E urbFailed \in BOOLEAN : CompleteFailed(urbFailed)
    \/ \E i \in 1 .. MaxInFlight : CompleteCancelled(i)
    \/ PipeReset \/ Suspend \/ Tick
    \/ \E asap \in BOOLEAN, fixed \in FixedPackets : SetPolicy(asap, fixed)

Spec == Init /\ [][Next]_vars

-----------------------------------------------------------------------------
(***************************************************************************)
(* Properties.                                                             *)
(***************************************************************************)

\* The state has its type.
TypeOK ==
    /\ pipe \in [hs : BOOLEAN, interval : Intervals, in : BOOLEAN]
    /\ policy \in [asap : BOOLEAN, fixed : Nat, autoClear : BOOLEAN, resetOnResume : BOOLEAN]
    /\ queue \in [fresh : BOOLEAN, next : Nat, stall : BOOLEAN, resume : BOOLEAN]
    /\ frame \in 0 .. MaxTime
    /\ Len(inFlight) <= MaxInFlight
    /\ \A i \in DOMAIN inFlight :
          /\ inFlight[i].kind \in {"read", "write", "ex"}
          /\ inFlight[i].offsets # << >>
          /\ inFlight[i].kind # "ex" => Len(inFlight[i].offsets) <= MaxPackets
    /\ lastEnd \in Nat \cup {-1}

\* The packets of a transfer lie one behind the other in the buffer, up to its
\* end, for every length, number of packets and speed; none is larger than the
\* endpoint's unless their number was fixed too small.  At high speed they are
\* whole frames.
PacketsFillBuffer ==
    \A t \in DOMAIN inFlight :
        LET x == inFlight[t]
            n == Len(x.offsets)
        IN /\ x.offsets[1] = 0
           /\ \A i \in 1 .. n : /\ PacketSize(x, i) >= 0
                                 /\ x.length <= n * MPS => PacketSize(x, i) <= MPS
           /\ pipe.hs => n % 8 = 0

\* Every transfer in flight has packets the bus can carry and the buffer holds,
\* as many as the driver allocated at most.
TransfersWellFormed == TypeOK /\ PacketsFillBuffer

\* A transfer starts in the frame in which the one sent before it ends: the
\* driver neither leaves a gap in the stream nor puts two transfers into one
\* frame, whatever was sent as soon as possible or cancelled in between.
FramesContiguous ==
    sent.scheduled /\ sent.follows # -1 => sent.start = sent.follows

\* The bytes a read delivers are those of its packets in order, without the
\* holes of packets that came short.
ReadInOrder ==
    LET data == FlattenSeq([i \in DOMAIN got.packets |->
                               [k \in 1 .. got.packets[i] |-> Byte(i, k - 1)]])
    IN SubSeq(got.buffer, 1, got.transferred) = data

\* The first transfer to be given a frame after the pipe was reset, by the
\* application, for a stall or on resume, starts ahead of the bus; a frame
\* number from before the reset lies in the past.
StartsAhead ==
    [][LET reset == queue.fresh \/ (NeedsReset /\ ~queue'.stall /\ ~queue'.resume)
       IN sent'.scheduled /\ reset => sent'.start >= frame + Latency]_vars
=============================================================================
