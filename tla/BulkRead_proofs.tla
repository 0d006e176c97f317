--------------------------- MODULE BulkRead_proofs ---------------------------
(***************************************************************************)
(* Proofs about BulkRead and BulkWrite: for packets, transfers and         *)
(* requests of every size and whatever policies the requests carry, the    *)
(* stages of a read stay inside the user's buffer and OverBuf, the callers *)
(* get the device's bytes in order, a read is short for a reason only, and *)
(* a halted endpoint fails one read only; what a write has put on the wire *)
(* is the part of the buffer that Transferred counts (drv_xfer_bulk.c,     *)
(* drv_xfer.h).                                                            *)
(***************************************************************************)
EXTENDS BulkRead, BulkWrite, SequenceTheorems, TLAPS

(***************************************************************************)
(* The parts of TypeOK that are kept by the steps that do not write them:  *)
(* the context of the queue, the overrun range, how the last request       *)
(* ended.                                                                  *)
(***************************************************************************)
ContextOK ==
    /\ overBuf \in [0 .. MaxPacket - 1 -> 0 .. MaxBytes]
    /\ resetForResume \in BOOLEAN
    /\ resetForStall \in BOOLEAN
    /\ received \in 0 .. MaxBytes
    /\ halted \in BOOLEAN
    /\ discarded \in SUBSET Nat
    /\ unfilled \in BOOLEAN
    /\ junk \in Nat
    /\ short \in BOOLEAN
    /\ stallFails \in Nat

\* The types of what a completed stage may write of the context.
ContextTypes ==
    /\ (overBuf \in [0 .. MaxPacket - 1 -> 0 .. MaxBytes])'
    /\ (discarded \in SUBSET Nat)'
    /\ (unfilled \in BOOLEAN)'

IsOverrun(ofs) ==
    /\ ofs \in [off : 0 .. MaxPacket, len : 0 .. MaxPacket]
    /\ ofs.off + ofs.len <= MaxPacket

LastOK ==
    /\ last \in [ok : BOOLEAN, whole : BOOLEAN, excused : BOOLEAN]
    /\ last.ok => last.whole \/ last.excused

(***************************************************************************)
(* The invariant that is inductive.  Beside the properties it says what a  *)
(* stage is: the queue has a request exactly while the USB stack has a     *)
(* stage of it; the stage reads into the user's buffer, and then nothing   *)
(* is left over, or a whole packet into OverBuf, and then BufferLength is  *)
(* all that the request still wants, and none of the range is filled.      *)
(* Bytes that the device did not send are at the front of what a request   *)
(* has.                                                                    *)
(***************************************************************************)
StageInv ==
    /\ request = NoRequest <=> stage = NoStage
    /\ request = NoRequest => user = << >>
    /\ request # NoRequest => junk <= Len(user)
    /\ request # NoRequest =>
           \/ /\ stage.mem = "user" /\ stage.size > 0
              /\ overOfs.len = 0
              /\ Len(user) + stage.size <= request.length
           \/ /\ stage.mem = "over" /\ stage.size = MaxPacket
              /\ overOfs.off = 0 /\ overOfs.len > 0 /\ unfilled
              /\ Len(user) + overOfs.len = request.length

IInv == BuffersKept /\ StageInv /\ ShortReadHasReason

-----------------------------------------------------------------------------
(***************************************************************************)
(* Requests, stages and the bytes of a buffer.                             *)
(***************************************************************************)
LEMMA RequestType ==
    ASSUME NEW r \in Requests
    PROVE  /\ r.length \in Nat /\ r.length <= MaxLength
           /\ r.policies \in SUBSET Policies
           /\ r # NoRequest
BY LengthAssumption, BoundAssumption DEF Requests, NoRequest

LEMMA SmallerType ==
    ASSUME NEW a \in Nat, NEW b \in Nat
    PROVE  /\ Smaller(a, b) \in Nat
           /\ Smaller(a, b) <= a /\ Smaller(a, b) <= b
           /\ Smaller(a, b) = a \/ Smaller(a, b) = b
BY DEF Smaller

\* Whole packets of a stage: what is left of the length is a part of a packet.
LEMMA WholePackets ==
    ASSUME NEW n \in Nat, n >= MaxPacket
    PROVE  /\ n - (n % MaxPacket) \in Nat
           /\ n - (n % MaxPacket) > 0
           /\ n - (n % MaxPacket) <= n
BY PacketAssumption

\* The length of a stage: all that is wanted, or as much as a transfer takes.
LEMMA StageLength ==
    ASSUME NEW n \in Nat, NEW m \in Nat, m < n
    PROVE  /\ Smaller(n - m, MaxTransfer) \in Nat
           /\ Smaller(n - m, MaxTransfer) > 0
           /\ Smaller(n - m, MaxTransfer) <= MaxTransfer
           /\ m + Smaller(n - m, MaxTransfer) <= n
           /\ Smaller(n - m, MaxTransfer) < MaxPacket => m + Smaller(n - m, MaxTransfer) = n
BY PacketAssumption, TransferAssumption DEF Smaller

LEMMA BytesType ==
    ASSUME NEW b \in [0 .. MaxPacket - 1 -> 0 .. MaxBytes],
           NEW k \in Nat, NEW n \in Nat, k + n <= MaxPacket
    PROVE  /\ Bytes(b, k, n) \in Seq(Nat)
           /\ Len(Bytes(b, k, n)) = n
           /\ \A i \in 1 .. n : Bytes(b, k, n)[i] = b[k + i - 1]
<1>1. \A i \in 1 .. n : b[k + i - 1] \in Nat
  BY PacketAssumption, LengthAssumption, BoundAssumption
<1> QED
  BY <1>1 DEF Bytes

LEMMA LandedType ==
    ASSUME NEW n \in Nat, received \in Nat
    PROVE  /\ Landed(n) \in Seq(Nat)
           /\ Len(Landed(n)) = n
           /\ \A i \in 1 .. n : Landed(n)[i] = received + i
BY DEF Landed

\* What is left over is a part of OverBuf, or nothing.
LEMMA LeftoverType ==
    ASSUME TypeOK, BufferBounds
    PROVE  Leftover \in Seq(Nat)
<1>1. /\ overOfs.off \in Nat /\ overOfs.len \in Nat
      /\ overOfs.off + overOfs.len <= MaxPacket
  BY PacketAssumption DEF TypeOK, BufferBounds
<1>2. overBuf \in [0 .. MaxPacket - 1 -> 0 .. MaxBytes]
  BY DEF TypeOK
<1>3. Bytes(overBuf, overOfs.off, overOfs.len) \in Seq(Nat)
  BY <1>1, <1>2, BytesType
<1> QED
  BY <1>3, EmptySeq DEF Leftover

\* The bytes of the device in u are those after the first j.
LEMMA GenuineType ==
    ASSUME NEW u \in Seq(Nat), NEW j \in Nat, j <= Len(u)
    PROVE  /\ Genuine(u, j) \in Seq(Nat)
           /\ Len(Genuine(u, j)) = Len(u) - j
           /\ \A i \in 1 .. Len(u) - j : Genuine(u, j)[i] = u[i + j]
<1> DEFINE n == Len(u) - j
<1>1. n \in Nat /\ Len(u) \in Nat /\ \A i \in 1 .. Len(u) : u[i] \in Nat
  BY LenProperties
<1>2. \A i \in 1 .. n : i + j \in 1 .. Len(u)
  BY <1>1
<1>3. \A i \in 1 .. n : u[i + j] \in Nat
  BY <1>1, <1>2
<1>4. Genuine(u, j) = [i \in 1 .. n |-> u[i + j]]
  BY DEF Genuine
<1> HIDE DEF n
<1>5. /\ Genuine(u, j) \in Seq(Nat) /\ Len(Genuine(u, j)) = n
      /\ \A i \in 1 .. n : Genuine(u, j)[i] = u[i + j]
  BY <1>1, <1>3, <1>4
<1> QED
  BY <1>5 DEF n

LEMMA GenuineAll ==
    ASSUME NEW u \in Seq(Nat)
    PROVE  Genuine(u, 0) = u
<1> DEFINE g == Genuine(u, 0)
<1>1. 0 \in Nat /\ 0 <= Len(u) /\ Len(u) \in Nat /\ Len(u) - 0 = Len(u)
  BY LenProperties
<1>2. /\ g \in Seq(Nat) /\ Len(g) = Len(u)
      /\ \A i \in 1 .. Len(u) : g[i] = u[i + 0]
  BY <1>1, GenuineType
<1> HIDE DEF g
<1>3. \A i \in 1 .. Len(g) : g[i] = u[i]
  BY <1>1, <1>2
<1>4. g = u
  BY <1>2, <1>3, SeqEqual
<1> QED
  BY <1>4 DEF g

LEMMA GenuineNone ==
    ASSUME NEW u \in Seq(Nat), NEW j \in Nat, Len(u) <= j
    PROVE  Genuine(u, j) = << >>
<1>1. 1 .. Len(u) - j = {}
  BY LenProperties
<1> QED
  BY <1>1 DEF Genuine

\* What is put behind u is the device's, if the bytes that are not are in u.
LEMMA GenuineConcat ==
    ASSUME NEW u \in Seq(Nat), NEW v \in Seq(Nat), NEW j \in Nat, j <= Len(u)
    PROVE  Genuine(u \o v, j) = Genuine(u, j) \o v
<1> DEFINE w == u \o v
           g == Genuine(u, j)
           h == Genuine(w, j)
           t == g \o v
           m == Len(u)
           n == Len(v)
<1>1. /\ w \in Seq(Nat) /\ Len(w) = m + n
      /\ \A i \in 1 .. m + n : w[i] = IF i <= m THEN u[i] ELSE v[i - m]
  BY ConcatProperties
<1>2. m \in Nat /\ n \in Nat /\ j <= m
  BY LenProperties
<1>3. /\ g \in Seq(Nat) /\ Len(g) = m - j
      /\ \A i \in 1 .. m - j : g[i] = u[i + j]
  BY GenuineType
<1> HIDE DEF w, g
<1>4. /\ t \in Seq(Nat) /\ Len(t) = Len(g) + n
      /\ \A i \in 1 .. Len(g) + n : t[i] = IF i <= Len(g) THEN g[i] ELSE v[i - Len(g)]
  BY <1>3, ConcatProperties
<1>5. j <= Len(w)
  BY <1>1, <1>2
<1>6. /\ h \in Seq(Nat) /\ Len(h) = Len(w) - j
      /\ \A i \in 1 .. Len(w) - j : h[i] = w[i + j]
  BY <1>1, <1>5, GenuineType
<1> HIDE DEF t, h, m, n
<1>7. Len(h) = Len(t) /\ Len(h) = (m - j) + n
  BY <1>1, <1>2, <1>3, <1>4, <1>6
<1>8. ASSUME NEW i \in 1 .. Len(h)
      PROVE  h[i] = t[i]
  <2>1. i \in 1 .. (m - j) + n /\ i + j \in 1 .. m + n
    BY <1>2, <1>7, <1>8
  <2>2. h[i] = IF i + j <= m THEN u[i + j] ELSE v[(i + j) - m]
    BY <1>1, <1>2, <1>6, <2>1
  <2>3. CASE i + j <= m
    <3>1. i <= m - j /\ i \in 1 .. m - j
      BY <1>2, <2>1, <2>3
    <3>2. t[i] = u[i + j]
      BY <1>3, <1>4, <2>1, <3>1
    <3> QED
      BY <2>2, <2>3, <3>2
  <2>4. CASE ~(i + j <= m)
    <3>1. ~(i <= m - j) /\ i - (m - j) = (i + j) - m
      BY <1>2, <2>1, <2>4
    <3>2. t[i] = v[(i + j) - m]
      BY <1>3, <1>4, <2>1, <3>1
    <3> QED
      BY <2>2, <2>4, <3>2
  <2> QED
    BY <2>3, <2>4
<1>9. h = t
  BY <1>4, <1>6, <1>7, <1>8, SeqEqual
<1> QED
  BY <1>9 DEF h, t, w, g

-----------------------------------------------------------------------------
LEMMA InitOK == Init => IInv
<1> SUFFICES ASSUME Init PROVE IInv
  OBVIOUS
<1>1. overBuf \in [0 .. MaxPacket - 1 -> 0 .. MaxBytes]
  BY LengthAssumption, BoundAssumption DEF Init
<1>2. IsOverrun(overOfs)
  BY PacketAssumption DEF Init, NoOverrun, IsOverrun
<1>3. resetForResume \in BOOLEAN /\ resetForStall \in BOOLEAN
  BY Zenon DEF Init
<1>4. halted \in BOOLEAN /\ short \in BOOLEAN /\ unfilled \in BOOLEAN
  BY Zenon DEF Init
<1>5. user \in Seq(Nat) /\ delivered \in Seq(Nat)
  BY EmptySeq DEF Init
<1>6. stage \in [mem : {"none", "user", "over"}, size : 0 .. MaxTransfer]
  BY PacketAssumption, TransferAssumption DEF Init, NoStage
<1>7. /\ received \in 0 .. MaxBytes /\ discarded \in SUBSET Nat /\ stallFails \in Nat
      /\ junk \in Nat
  BY LengthAssumption, BoundAssumption DEF Init
<1>8. LastOK
  BY DEF Init, LastOK
<1>9. request \in Requests \cup {NoRequest}
  BY DEF Init
<1>10. TypeOK
  BY <1>1, <1>2, <1>3, <1>4, <1>5, <1>6, <1>7, <1>8, <1>9 DEF TypeOK, IsOverrun, LastOK
<1>11. request = NoRequest /\ stage = NoStage /\ user = << >>
  BY DEF Init
<1>12. BufferBounds
  BY <1>2, <1>11 DEF BufferBounds, NoStage, IsOverrun
<1>13. StageInv
  BY <1>11 DEF StageInv
<1>14. ShortReadHasReason
  BY <1>8, <1>11 DEF ShortReadHasReason, LastOK
<1> QED
  BY <1>10, <1>12, <1>13, <1>14 DEF IInv, BuffersKept

\* CompleteRequest, whatever range it leaves over: a read that succeeds is
\* whole, or a short packet ended it.
LEMMA CompletedOK ==
    ASSUME NEW r \in Requests, NEW status, NEW u \in Seq(Nat),
           status = "SUCCESS" => \/ Len(u) = r.length
                                 \/ short' /\ "IgnoreShortPackets" \notin r.policies,
           CompleteRequest(r, status, u), junk' <= Len(u),
           delivered \in Seq(Nat), ContextOK', IsOverrun(overOfs')
    PROVE  IInv'
<1>1. request' = NoRequest /\ stage' = NoStage /\ user' = << >>
  BY DEF CompleteRequest
<1>2. (user \in Seq(Nat) /\ delivered \in Seq(Nat))'
  <2>1. Genuine(u, junk') \in Seq(Nat)
    BY GenuineType DEF ContextOK
  <2>2. delivered' = delivered \o Genuine(u, junk')
    BY DEF CompleteRequest
  <2> QED
    BY <1>1, <2>1, <2>2, EmptySeq, ConcatProperties
<1>3. (stage \in [mem : {"none", "user", "over"}, size : 0 .. MaxTransfer])'
  BY <1>1, PacketAssumption, TransferAssumption DEF NoStage
<1>4. short' \in BOOLEAN
  BY DEF ContextOK
<1>5. LastOK'
  <2>1. last' = [ok |-> status = "SUCCESS",
                 whole |-> Len(u) = r.length,
                 excused |-> short' /\ "IgnoreShortPackets" \notin r.policies]
    BY DEF CompleteRequest
  <2>2. last' \in [ok : BOOLEAN, whole : BOOLEAN, excused : BOOLEAN]
    BY <2>1, <1>4
  <2>3. (last.ok => last.whole \/ last.excused)'
    BY <2>1
  <2> QED
    BY <2>2, <2>3 DEF LastOK
<1>6. TypeOK'
  BY <1>1, <1>2, <1>3, <1>5 DEF TypeOK, ContextOK, LastOK, IsOverrun
<1>7. BufferBounds'
  BY <1>1 DEF BufferBounds, NoStage, IsOverrun
<1>8. StageInv'
  BY <1>1 DEF StageInv
<1>9. ShortReadHasReason'
  BY <1>1, <1>5 DEF ShortReadHasReason, LastOK
<1> QED
  BY <1>6, <1>7, <1>8, <1>9 DEF IInv, BuffersKept

\* A stage that mXfer_SubmitNextRead has sent.
LEMMA SentOK ==
    ASSUME NEW r \in Requests, NEW u \in Seq(Nat), Len(u) < r.length, junk' <= Len(u),
           NEW mem, NEW size \in 1 .. MaxTransfer,
           \/ /\ mem = "user" /\ overOfs'.len = 0
              /\ Len(u) + size <= r.length
           \/ /\ mem = "over" /\ size = MaxPacket
              /\ overOfs'.off = 0 /\ overOfs'.len > 0 /\ unfilled'
              /\ Len(u) + overOfs'.len = r.length,
           request' = r, user' = u, stage' = [mem |-> mem, size |-> size],
           UNCHANGED <<delivered, last>>,
           "IgnoreShortPackets" \notin r.policies => ~short',
           delivered \in Seq(Nat), LastOK, ContextOK', IsOverrun(overOfs')
    PROVE  IInv'
<1>1. request' # NoRequest /\ stage' # NoStage
  BY RequestType DEF NoStage
<1>2. (stage \in [mem : {"none", "user", "over"}, size : 0 .. MaxTransfer])'
  BY PacketAssumption, TransferAssumption
<1>3. LastOK'
  BY DEF LastOK
<1>4. TypeOK'
  BY <1>2, <1>3 DEF TypeOK, ContextOK, LastOK, IsOverrun
<1>5. BufferBounds'
  BY <1>1 DEF BufferBounds, IsOverrun
<1>6. StageInv'
  BY <1>1 DEF StageInv
<1>7. ShortReadHasReason'
  BY <1>3 DEF ShortReadHasReason, LastOK
<1> QED
  BY <1>4, <1>5, <1>6, <1>7 DEF IInv, BuffersKept

\* mXfer_SubmitNextRead when nothing is left over, whether it sends the next
\* stage, refuses the length or fails.
LEMMA SubmittedOK ==
    ASSUME NEW r \in Requests, NEW u \in Seq(Nat), Len(u) < r.length,
           NEW ofs, IsOverrun(ofs), ofs.len = 0,
           SubmitNextRead(r, u, ofs), junk' <= Len(u),
           "IgnoreShortPackets" \notin r.policies => ~short',
           delivered \in Seq(Nat), LastOK, ContextOK'
    PROVE  IInv'
<1> DEFINE stageLength == Smaller(r.length - Len(u), MaxTransfer)
<1>1. Len(u) \in Nat /\ r.length \in Nat
  BY RequestType, LenProperties
<1>2. /\ stageLength \in Nat /\ stageLength > 0
      /\ stageLength <= MaxTransfer
      /\ Len(u) + stageLength <= r.length
      /\ stageLength < MaxPacket => Len(u) + stageLength = r.length
  BY <1>1, StageLength
<1> HIDE DEF stageLength
<1>3. CASE stageLength >= MaxPacket
  <2> DEFINE size == stageLength - (stageLength % MaxPacket)
  <2>1. size \in 1 .. MaxTransfer /\ Len(u) + size <= r.length
    BY <1>1, <1>2, <1>3, WholePackets, PacketAssumption, TransferAssumption
  <2>2. overOfs' = ofs /\ SendStage(r, u, "user", size)
    BY <1>3 DEF SubmitNextRead, stageLength
  <2> HIDE DEF size
  <2>3. CASE CompleteRequest(r, "ERROR", u)
    BY <2>2, <2>3, CompletedOK
  <2>4. CASE /\ request' = r
             /\ user' = u
             /\ stage' = [mem |-> "user", size |-> size]
             /\ UNCHANGED <<delivered, last>>
    BY <2>1, <2>2, <2>4, SentOK
  <2> QED
    BY <2>2, <2>3, <2>4 DEF SendStage
<1>4. CASE stageLength < MaxPacket /\ "AllowPartialReads" \in r.policies
  <2>1. /\ overOfs' = [off |-> 0, len |-> stageLength] /\ unfilled'
        /\ SendStage(r, u, "over", MaxPacket)
    BY <1>2, <1>4, PacketAssumption DEF SubmitNextRead, stageLength
  <2>2. IsOverrun(overOfs') /\ overOfs'.off = 0 /\ overOfs'.len = stageLength
    BY <1>2, <1>4, <2>1, PacketAssumption DEF IsOverrun
  <2>3. CASE CompleteRequest(r, "ERROR", u)
    BY <2>2, <2>3, CompletedOK
  <2>4. CASE /\ request' = r
             /\ user' = u
             /\ stage' = [mem |-> "over", size |-> MaxPacket]
             /\ UNCHANGED <<delivered, last>>
    <3>1. MaxPacket \in 1 .. MaxTransfer
      BY PacketAssumption, TransferAssumption
    <3> QED
      BY <1>2, <1>4, <2>1, <2>2, <2>4, <3>1, SentOK
  <2> QED
    BY <2>1, <2>3, <2>4 DEF SendStage
<1>5. CASE stageLength < MaxPacket /\ "AllowPartialReads" \notin r.policies
  <2>1. overOfs' = ofs /\ CompleteRequest(r, "INVALID_BUFFER_SIZE", u)
    BY <1>2, <1>5, PacketAssumption DEF SubmitNextRead, stageLength
  <2> QED
    BY <2>1, CompletedOK
<1> QED
  BY <1>2, <1>3, <1>4, <1>5, PacketAssumption

-----------------------------------------------------------------------------
\* What AutoFlush leaves over of a range is a range.
LEMMA FlushedOK ==
    ASSUME NEW r, NEW bytes \in Seq(Nat), NEW ofs,
           IsOverrun(ofs), FlushLeftover(r, ofs, bytes), discarded \in SUBSET Nat
    PROVE  IsOverrun(overOfs') /\ discarded' \in SUBSET Nat
<1>1. IsOverrun(NoOverrun)
  BY PacketAssumption DEF NoOverrun, IsOverrun
<1>2. Contents(bytes) \in SUBSET Nat
  BY DEF Contents
<1> QED
  BY <1>1, <1>2 DEF FlushLeftover

LEMMA ResetType ==
    ASSUME TypeOK, NEW r, HandlePipeResetScenarios(r)
    PROVE  (/\ resetForResume \in BOOLEAN /\ resetForStall \in BOOLEAN
            /\ halted \in BOOLEAN /\ stallFails \in Nat)'
<1>1. (resetForResume \in BOOLEAN /\ resetForStall \in BOOLEAN /\ halted \in BOOLEAN)'
  BY Zenon DEF TypeOK, HandlePipeResetScenarios
<1>2. (stallFails \in Nat)'
  BY DEF TypeOK, HandlePipeResetScenarios
<1> QED
  BY <1>1, <1>2

\* Xfer_ReadBulk: one step per branch.
LEMMA ReadBulkOK ==
    ASSUME IInv, NEW r \in Requests, ReadBulk(r)
    PROVE  IInv'
<1> DEFINE n == Smaller(overOfs.len, r.length)
           u == Bytes(overBuf, overOfs.off, n)
           ofs == [off |-> overOfs.off + n, len |-> overOfs.len - n]
           kept == IF unfilled THEN << >> ELSE Bytes(overBuf, ofs.off, ofs.len)
<1>1. TypeOK /\ BufferBounds /\ ShortReadHasReason
  BY DEF IInv, BuffersKept
<1>2. IsOverrun(overOfs) /\ delivered \in Seq(Nat) /\ LastOK
  BY <1>1 DEF TypeOK, BufferBounds, ShortReadHasReason, IsOverrun, LastOK
<1>3. overOfs.off \in Nat /\ overOfs.len \in Nat /\ r.length \in Nat
  BY <1>2, RequestType, PacketAssumption DEF IsOverrun
<1>4. /\ n \in Nat /\ n <= overOfs.len /\ n <= r.length
      /\ overOfs.off + n <= MaxPacket
      /\ n = overOfs.len \/ n = r.length
  <2>1. /\ n \in Nat /\ n <= overOfs.len /\ n <= r.length
        /\ n = overOfs.len \/ n = r.length
    BY <1>3, SmallerType
  <2>2. overOfs.off + overOfs.len <= MaxPacket
    BY <1>2 DEF IsOverrun
  <2> HIDE DEF n
  <2> QED
    BY <1>3, <2>1, <2>2, PacketAssumption
<1>5. u \in Seq(Nat) /\ Len(u) = n
  <2> HIDE DEF n
  <2>1. overBuf \in [0 .. MaxPacket - 1 -> 0 .. MaxBytes]
    BY <1>1 DEF TypeOK
  <2> QED
    BY <1>3, <1>4, <2>1, BytesType
<1>6. IsOverrun(ofs)
  <2> HIDE DEF n
  <2> QED
    BY <1>2, <1>3, <1>4, PacketAssumption DEF IsOverrun
<1>7. discarded' \in SUBSET Nat /\ unfilled' \in BOOLEAN /\ junk' \in Nat => ContextOK'
  <2>1. HandlePipeResetScenarios(r) /\ short' = FALSE /\ UNCHANGED <<overBuf, received>>
    BY DEF ReadBulk
  <2> QED
    BY <2>1, <1>1, ResetType DEF TypeOK, ContextOK
<1>8. /\ discarded \in SUBSET Nat /\ overBuf \in [0 .. MaxPacket - 1 -> 0 .. MaxBytes]
      /\ unfilled \in BOOLEAN
  BY <1>1 DEF TypeOK
<1>9. << >> \in Seq(Nat) /\ Len(<< >>) = 0
  BY EmptySeq
<1>10. ~short'
  BY DEF ReadBulk
<1>11. CASE /\ r.length = 0
            /\ CompleteRequest(r, IF "AllowPartialReads" \in r.policies
                                  THEN "SUCCESS" ELSE "INVALID_BUFFER_SIZE", << >>)
            /\ junk' = 0 /\ UNCHANGED <<overOfs, discarded, unfilled>>
  <2>1. ContextOK' /\ IsOverrun(overOfs') /\ junk' <= Len(<< >>)
    BY <1>2, <1>7, <1>8, <1>9, <1>11
  <2> QED
    BY <1>2, <1>9, <1>11, <2>1, CompletedOK
<1>12. CASE /\ CompleteRequest(r, "ERROR", << >>)
            /\ junk' = 0 /\ UNCHANGED <<overOfs, discarded, unfilled>>
  <2>1. ContextOK' /\ IsOverrun(overOfs') /\ junk' <= Len(<< >>)
    BY <1>2, <1>7, <1>8, <1>9, <1>12
  <2> QED
    BY <1>2, <1>9, <1>12, <2>1, CompletedOK
<1>13. CASE /\ overOfs.len >= r.length
            /\ junk' = IF unfilled THEN n ELSE 0
            /\ FlushLeftover(r, ofs, kept)
            /\ CompleteRequest(r, "SUCCESS", u)
            /\ UNCHANGED unfilled
  <2>1. Len(u) = r.length
    BY <1>3, <1>4, <1>5, <1>13
  <2>2. kept \in Seq(Nat)
    <3>1. Bytes(overBuf, ofs.off, ofs.len) \in Seq(Nat)
      <4> HIDE DEF ofs
      <4> QED
        BY <1>6, <1>8, BytesType, PacketAssumption DEF IsOverrun
    <3> QED
      BY <1>9, <3>1
  <2>3. IsOverrun(overOfs') /\ discarded' \in SUBSET Nat
    <3> HIDE DEF ofs, kept
    <3> QED
      BY <1>6, <1>8, <1>13, <2>2, FlushedOK
  <2> HIDE DEF u, ofs, kept, n
  <2>4. junk' \in Nat /\ junk' <= Len(u) /\ unfilled' \in BOOLEAN
    BY <1>4, <1>5, <1>8, <1>13
  <2> QED
    BY <1>2, <1>5, <1>7, <1>13, <2>1, <2>3, <2>4, CompletedOK
<1>14. CASE /\ overOfs.len < r.length
            /\ junk' = IF unfilled THEN n ELSE 0
            /\ SubmitNextRead(r, u, ofs)
            /\ UNCHANGED discarded
  <2>1. n = overOfs.len /\ Len(u) < r.length
    BY <1>3, <1>4, <1>5, <1>14
  <2>2. ofs.len = 0
    BY <1>3, <2>1
  <2> HIDE DEF u, ofs, n
  <2>3. junk' \in Nat /\ junk' <= Len(u) /\ unfilled' \in BOOLEAN
    <3>1. unfilled' \in BOOLEAN
      BY <1>14 DEF SubmitNextRead
    <3> QED
      BY <1>4, <1>5, <1>14, <3>1
  <2> QED
    BY <1>2, <1>5, <1>6, <1>7, <1>8, <1>10, <1>14, <2>1, <2>2, <2>3, SubmittedOK
<1> QED
  BY <1>11, <1>12, <1>13, <1>14, Zenon DEF ReadBulk

\* Xfer_ReadBulkComplete after a stage into the overrun buffer: one step per
\* branch.
LEMMA OverrunCompleteOK ==
    ASSUME IInv, stage # NoStage, overOfs.len # 0,
           NEW n \in Nat, n <= stage.size, NEW status,
           status # "SUCCESS" => n = 0,
           received + n <= MaxBytes,
           short' = (short \/ (status = "SUCCESS" /\ n < stage.size)),
           ContextTypes => ContextOK',
           UNCHANGED junk,
           OverrunComplete(n, status)
    PROVE  IInv'
<1> DEFINE k == Smaller(overOfs.len, n)
           b == [i \in 0 .. MaxPacket - 1 |-> IF i < n THEN received + i + 1 ELSE overBuf[i]]
           u == user \o Bytes(b, 0, k)
           ofs == [off |-> overOfs.off + k, len |-> n - k]
           rest == IF n > 0 THEN ofs ELSE [overOfs EXCEPT !.len = 0]
<1>1. TypeOK /\ BufferBounds /\ ShortReadHasReason
  BY DEF IInv, BuffersKept
<1>2. /\ request \in Requests /\ request # NoRequest
      /\ stage.size = MaxPacket /\ overOfs.off = 0
      /\ Len(user) + overOfs.len = request.length
      /\ junk \in Nat /\ junk <= Len(user) /\ unfilled \in BOOLEAN
  BY <1>1 DEF IInv, StageInv, TypeOK
<1>3. /\ IsOverrun(overOfs) /\ delivered \in Seq(Nat) /\ user \in Seq(Nat) /\ LastOK
      /\ discarded \in SUBSET Nat
  BY <1>1 DEF TypeOK, BufferBounds, ShortReadHasReason, IsOverrun, LastOK
<1>4. /\ overOfs.len \in Nat /\ overOfs.len <= MaxPacket
      /\ Len(user) \in Nat /\ request.length \in Nat
      /\ n <= MaxPacket
  BY <1>2, <1>3, RequestType, LenProperties, PacketAssumption DEF IsOverrun
<1>5. k \in Nat /\ k <= overOfs.len /\ k <= n /\ (k = overOfs.len \/ k = n)
  BY <1>4, SmallerType
<1> HIDE DEF k
<1>6. b \in [0 .. MaxPacket - 1 -> 0 .. MaxBytes] /\ overBuf' = b
  <2>1. \A i \in 0 .. MaxPacket - 1 : i < n => received + i + 1 \in 0 .. MaxBytes
    BY <1>1, LengthAssumption, BoundAssumption, PacketAssumption DEF TypeOK
  <2>2. \A i \in 0 .. MaxPacket - 1 : overBuf[i] \in 0 .. MaxBytes
    BY <1>1 DEF TypeOK
  <2>3. b \in [0 .. MaxPacket - 1 -> 0 .. MaxBytes]
    BY <2>1, <2>2
  <2> QED
    BY <2>3 DEF OverrunComplete
<1> HIDE DEF b
<1>7. u \in Seq(Nat) /\ Len(u) = Len(user) + k
  <2> DEFINE v == Bytes(b, 0, k)
  <2>1. 0 + k <= MaxPacket
    BY <1>4, <1>5, PacketAssumption
  <2>2. v \in Seq(Nat) /\ Len(v) = k
    BY <1>5, <1>6, <2>1, BytesType
  <2> HIDE DEF v
  <2>3. user \o v \in Seq(Nat) /\ Len(user \o v) = Len(user) + Len(v)
    BY <1>3, <2>2, ConcatProperties
  <2> QED
    BY <2>2, <2>3 DEF v
<1> HIDE DEF u
<1>8. IsOverrun(ofs)
  BY <1>2, <1>4, <1>5, PacketAssumption DEF IsOverrun
<1>9. /\ Len(u) \in Nat /\ Len(u) <= request.length
      /\ Len(u) < request.length => k = n
  BY <1>2, <1>4, <1>5, <1>7
<1> HIDE DEF ofs
<1>10. /\ discarded' \in SUBSET Nat /\ unfilled' \in BOOLEAN => ContextOK'
       /\ junk' <= Len(user) /\ junk' <= Len(u)
  BY <1>2, <1>4, <1>5, <1>6, <1>7 DEF ContextTypes
<1>11. CASE n > 0 /\ Len(u) >= request.length
  <2>1. /\ FlushLeftover(request, ofs, Bytes(b, ofs.off, ofs.len))
        /\ CompleteRequest(request, "SUCCESS", u) /\ unfilled' = FALSE
    BY <1>11 DEF OverrunComplete, k, b, u, ofs
  <2>2. IsOverrun(overOfs') /\ discarded' \in SUBSET Nat
    <3>1. Bytes(b, ofs.off, ofs.len) \in Seq(Nat)
      BY <1>6, <1>8, BytesType, PacketAssumption DEF IsOverrun
    <3> QED
      BY <1>3, <1>8, <2>1, <3>1, FlushedOK
  <2>3. Len(u) = request.length
    BY <1>4, <1>9, <1>11
  <2> QED
    BY <1>2, <1>3, <1>7, <1>10, <2>1, <2>2, <2>3, CompletedOK
<1>12. CASE n = 0 /\ status # "SUCCESS"
  <2>1. CompleteRequest(request, status, user) /\ UNCHANGED <<overOfs, discarded, unfilled>>
    BY <1>12 DEF OverrunComplete
  <2> QED
    BY <1>2, <1>3, <1>10, <1>12, <2>1, CompletedOK
<1>13. CASE ~(n > 0 /\ Len(u) >= request.length) /\ ~(n = 0 /\ status # "SUCCESS")
  <2>1. /\ IF "IgnoreShortPackets" \in request.policies
           THEN SubmitNextRead(request, u, rest)
           ELSE /\ overOfs' = rest /\ unfilled' = FALSE
                /\ CompleteRequest(request, "SUCCESS", u)
        /\ UNCHANGED discarded
    BY <1>13 DEF OverrunComplete, k, b, u, ofs
  <2>2. status = "SUCCESS" /\ Len(u) < request.length
    <3>1. n = 0 => k = 0
      BY <1>5
    <3> QED
      BY <1>2, <1>4, <1>7, <1>9, <1>13, <3>1
  <2>3. k = n
    BY <1>9, <2>2
  <2>4. IsOverrun(rest) /\ rest.len = 0
    <3>1. CASE n > 0
      BY <1>8, <2>3, <3>1 DEF ofs
    <3>2. CASE ~(n > 0)
      BY <1>2, <1>3, <3>2, PacketAssumption DEF IsOverrun
    <3> QED
      BY <3>1, <3>2
  <2>5. short'
    <3>1. n < MaxPacket
      BY <1>2, <1>4, <1>7, <2>2, <2>3, PacketAssumption, TransferAssumption, <1>5
    <3> QED
      BY <1>2, <2>2, <3>1
  <2>6. unfilled' \in BOOLEAN
    BY <2>1 DEF SubmitNextRead
  <2> HIDE DEF rest
  <2>7. CASE "IgnoreShortPackets" \in request.policies
    BY <1>2, <1>3, <1>7, <1>10, <2>1, <2>2, <2>4, <2>7, <2>6, SubmittedOK
  <2>8. CASE "IgnoreShortPackets" \notin request.policies
    BY <1>2, <1>3, <1>7, <1>10, <2>1, <2>4, <2>5, <2>8, <2>6, CompletedOK
  <2> QED
    BY <2>7, <2>8
<1> QED
  BY <1>11, <1>12, <1>13

\* Xfer_ReadBulkComplete after a stage into the user's buffer.
LEMMA UserCompleteOK ==
    ASSUME IInv, stage # NoStage, overOfs.len = 0,
           NEW n \in Nat, n <= stage.size, NEW status,
           short' = (short \/ (status = "SUCCESS" /\ n < stage.size)),
           ContextTypes => ContextOK',
           UNCHANGED junk,
           UserComplete(n, status)
    PROVE  IInv'
<1> DEFINE u == user \o Landed(n)
           more == \/ n > 0 /\ n = stage.size
                   \/ "IgnoreShortPackets" \in request.policies
<1>1. TypeOK /\ BufferBounds /\ ShortReadHasReason
  BY DEF IInv, BuffersKept
<1>2. /\ request \in Requests /\ request # NoRequest
      /\ stage.size > 0
      /\ Len(user) + stage.size <= request.length
      /\ junk \in Nat /\ junk <= Len(user) /\ unfilled \in BOOLEAN
  BY <1>1 DEF IInv, StageInv, TypeOK
<1>3. /\ IsOverrun(overOfs) /\ delivered \in Seq(Nat) /\ user \in Seq(Nat) /\ LastOK
      /\ discarded \in SUBSET Nat /\ overBuf \in [0 .. MaxPacket - 1 -> 0 .. MaxBytes]
      /\ received \in Nat
  BY <1>1, LengthAssumption, BoundAssumption
     DEF TypeOK, BufferBounds, ShortReadHasReason, IsOverrun, LastOK
<1>4. /\ Len(user) \in Nat /\ request.length \in Nat /\ stage.size \in Nat
  BY <1>1, <1>2, <1>3, RequestType, LenProperties, PacketAssumption, TransferAssumption
     DEF TypeOK
<1>5. u \in Seq(Nat) /\ Len(u) = Len(user) + n
  <2> DEFINE v == Landed(n)
  <2>1. v \in Seq(Nat) /\ Len(v) = n
    BY <1>3, LandedType
  <2> HIDE DEF v
  <2>2. user \o v \in Seq(Nat) /\ Len(user \o v) = Len(user) + Len(v)
    BY <1>3, <2>1, ConcatProperties
  <2> QED
    BY <2>1, <2>2 DEF v
<1> HIDE DEF u
<1>6. ContextOK' /\ junk' <= Len(u)
  <2>1. unfilled' \in BOOLEAN
    BY <1>2 DEF UserComplete, SubmitNextRead
  <2>2. overBuf' = overBuf /\ discarded' = discarded
    BY DEF UserComplete
  <2>3. ContextOK'
    BY <1>3, <2>1, <2>2 DEF ContextTypes
  <2> QED
    BY <1>2, <1>4, <1>5, <2>3
<1>7. CASE status = "SUCCESS" /\ Len(u) < request.length /\ more
  <2>1. SubmitNextRead(request, u, overOfs)
    BY <1>7 DEF UserComplete, u
  <2>2. "IgnoreShortPackets" \notin request.policies => ~short'
    <3>1. ASSUME "IgnoreShortPackets" \notin request.policies PROVE ~(n < stage.size)
      BY <1>4, <1>7, <3>1
    <3>2. ASSUME "IgnoreShortPackets" \notin request.policies PROVE ~short
      BY <1>1, <1>2, <3>2 DEF ShortReadHasReason
    <3> QED
      BY <3>1, <3>2, Zenon
  <2> QED
    BY <1>2, <1>3, <1>5, <1>6, <1>7, <2>1, <2>2, SubmittedOK
<1>8. CASE ~(status = "SUCCESS" /\ Len(u) < request.length /\ more)
  <2>1. CompleteRequest(request, status, u) /\ UNCHANGED overOfs
    BY <1>8 DEF UserComplete, u
  <2>2. status = "SUCCESS" => \/ Len(u) = request.length
                              \/ short' /\ "IgnoreShortPackets" \notin request.policies
    <3>1. CASE status = "SUCCESS" /\ ~(Len(u) < request.length)
      <4>1. /\ Len(user) + stage.size <= request.length /\ Len(u) = Len(user) + n
            /\ ~(Len(u) < request.length)
        BY <1>2, <1>5, <3>1
      <4>2. Len(u) = request.length
        BY <1>4, <4>1
      <4> QED
        BY <4>2
    <3>2. CASE status = "SUCCESS" /\ ~more
      <4>1. n < stage.size
        BY <1>2, <1>4, <3>2
      <4> QED
        BY <3>2, <4>1
    <3> QED
      BY <1>8, <3>1, <3>2
  <2> QED
    BY <1>2, <1>3, <1>5, <1>6, <2>1, <2>2, CompletedOK
<1> QED
  BY <1>7, <1>8

LEMMA ReadBulkCompleteOK ==
    ASSUME IInv,
           NEW n \in 0 .. MaxTransfer, NEW status \in {"SUCCESS"} \cup FailedStatus,
           ReadBulkComplete(n, status)
    PROVE  IInv'
<1>1. TypeOK
  BY DEF IInv, BuffersKept
<1>2. n \in Nat /\ n <= stage.size /\ received + n <= MaxBytes /\ stage # NoStage
  BY PacketAssumption, TransferAssumption DEF ReadBulkComplete
<1>3. (received \in 0 .. MaxBytes /\ stallFails \in Nat)'
  BY <1>1, <1>2, LengthAssumption, BoundAssumption DEF ReadBulkComplete, TypeOK
<1>4. (resetForResume \in BOOLEAN /\ resetForStall \in BOOLEAN)'
  BY <1>1, Zenon DEF ReadBulkComplete, TypeOK, HandlePipeResetScenariosForComplete
<1>5. (halted \in BOOLEAN /\ short \in BOOLEAN)'
  BY DEF ReadBulkComplete
<1>6. /\ ContextTypes => ContextOK'
      /\ short' = (short \/ (status = "SUCCESS" /\ n < stage.size))
      /\ UNCHANGED junk
  <2>1. UNCHANGED junk /\ short' = (short \/ (status = "SUCCESS" /\ n < stage.size))
    BY DEF ReadBulkComplete
  <2>2. junk' \in Nat
    BY <1>1, <2>1 DEF TypeOK
  <2>3. ASSUME ContextTypes PROVE ContextOK'
    BY <1>3, <1>4, <1>5, <2>2, <2>3, Zenon DEF ContextOK, ContextTypes
  <2> QED
    BY <2>1, <2>3
<1>7. CASE overOfs.len # 0
  <2>1. OverrunComplete(n, status)
    BY <1>7 DEF ReadBulkComplete
  <2>2. stage.size = MaxPacket
    BY <1>2, <1>7 DEF IInv, StageInv
  <2>3. status # "SUCCESS" => n = 0
    BY <1>2, <2>2, PacketAssumption DEF ReadBulkComplete
  <2> QED
    BY <1>2, <1>6, <1>7, <2>1, <2>3, OverrunCompleteOK
<1>8. CASE overOfs.len = 0
  <2>1. UserComplete(n, status)
    BY <1>8 DEF ReadBulkComplete
  <2> QED
    BY <1>2, <1>6, <1>8, <2>1, UserCompleteOK
<1> QED
  BY <1>7, <1>8

\* Flushes, resets and power changes leave the stage alone.
LEMMA OthersOK ==
    ASSUME IInv, FlushPipe \/ RefreshQueue \/ PipeReset \/ OnD0Exit \/ OnResume \/ UNCHANGED vars
    PROVE  IInv'
<1>1. TypeOK /\ BufferBounds /\ ShortReadHasReason /\ StageInv
  BY DEF IInv, BuffersKept
<1>2. UNCHANGED <<request, user, stage, received, delivered, junk, short, last>>
  BY DEF FlushPipe, RefreshQueue, PipeReset, OnD0Exit, OnResume, vars
<1>3. /\ IsOverrun(overOfs') /\ discarded' \in SUBSET Nat
      /\ request # NoRequest => UNCHANGED <<overOfs, unfilled>>
      /\ unfilled' \in BOOLEAN
  <2>1. IsOverrun(overOfs) /\ IsOverrun(NoOverrun)
    BY <1>1, PacketAssumption DEF TypeOK, BufferBounds, IsOverrun, NoOverrun
  <2>2. Contents(Leftover) \in SUBSET Nat
    <3>1. Leftover \in Seq(Nat)
      BY <1>1, LeftoverType
    <3> QED
      BY <3>1 DEF Contents
  <2>3. CASE FlushPipe \/ RefreshQueue
    BY <1>1, <2>1, <2>2, <2>3 DEF FlushPipe, RefreshQueue, DropLeftover, TypeOK
  <2>4. CASE PipeReset \/ OnD0Exit \/ OnResume \/ UNCHANGED vars
    BY <1>1, <2>1, <2>4 DEF PipeReset, OnD0Exit, OnResume, vars, TypeOK
  <2> QED
    BY <2>3, <2>4
<1>4. (overBuf \in [0 .. MaxPacket - 1 -> 0 .. MaxBytes])'
  <2>1. [i \in 0 .. MaxPacket - 1 |-> 0] \in [0 .. MaxPacket - 1 -> 0 .. MaxBytes]
    BY LengthAssumption, BoundAssumption
  <2> QED
    BY <1>1, <2>1 DEF FlushPipe, RefreshQueue, PipeReset, OnD0Exit, OnResume, vars, TypeOK
<1>5. (/\ resetForResume \in BOOLEAN /\ resetForStall \in BOOLEAN
       /\ halted \in BOOLEAN /\ stallFails \in Nat)'
  <2>1. CASE OnResume
    BY <1>1, <2>1, ResetType DEF OnResume
  <2>2. CASE ~OnResume
    <3>1. (stallFails \in Nat)'
      BY <1>1, <2>2 DEF FlushPipe, RefreshQueue, PipeReset, OnD0Exit, vars, TypeOK
    <3>2. (resetForResume \in BOOLEAN /\ resetForStall \in BOOLEAN /\ halted \in BOOLEAN)'
      BY <1>1, <2>2 DEF FlushPipe, RefreshQueue, PipeReset, OnD0Exit, vars, TypeOK
    <3> QED
      BY <3>1, <3>2
  <2> QED
    BY <2>1, <2>2
<1>6. TypeOK'
  BY <1>1, <1>2, <1>3, <1>4, <1>5 DEF TypeOK, IsOverrun
<1>7. BufferBounds' /\ StageInv' /\ ShortReadHasReason'
  <2>1. request = NoRequest => stage = NoStage
    BY <1>1 DEF StageInv
  <2>2. BufferBounds'
    BY <1>1, <1>2, <1>3, <2>1 DEF BufferBounds, IsOverrun, NoStage
  <2>3. StageInv'
    BY <1>1, <1>2, <1>3 DEF StageInv
  <2>4. ShortReadHasReason'
    BY <1>1, <1>2 DEF ShortReadHasReason
  <2> QED
    BY <2>2, <2>3, <2>4
<1> QED
  BY <1>6, <1>7 DEF IInv, BuffersKept

LEMMA NextOK == IInv /\ [Next]_vars => IInv'
<1> SUFFICES ASSUME IInv, [Next]_vars PROVE IInv'
  OBVIOUS
<1>1. CASE \E r \in Requests : ReadBulk(r)
  BY <1>1, ReadBulkOK
<1>2. CASE \E n \in 0 .. MaxTransfer, status \in {"SUCCESS"} \cup FailedStatus :
               ReadBulkComplete(n, status)
  BY <1>2, ReadBulkCompleteOK
<1>3. CASE FlushPipe \/ RefreshQueue \/ PipeReset \/ OnD0Exit \/ OnResume \/ UNCHANGED vars
  BY <1>3, OthersOK
<1> QED
  BY <1>1, <1>2, <1>3 DEF Next

LEMMA Inductive == Spec => []IInv
BY InitOK, NextOK, PTL DEF Spec

-----------------------------------------------------------------------------
\* Whatever the lengths of packets, transfers and requests, the policies, the
\* time-outs and the flushes: no stage that Xfer_ReadBulk or its completion
\* routine sends goes beyond the user's buffer, no copy beyond OverBuf, and
\* the context of the queue keeps its shape.
THEOREM ReadStaysInBuffers == Spec => []BuffersKept
<1>1. IInv => BuffersKept
  BY DEF IInv
<1> QED
  BY <1>1, Inductive, PTL

\* A read that succeeds with fewer bytes than it asked for was ended by a short
\* packet, and only without IgnoreShortPackets, whether the packet came into
\* the user's buffer or into OverBuf (Xfer_ReadBulkComplete).
THEOREM ShortReadsExcused == Spec => []ShortReadHasReason
<1>1. IInv => ShortReadHasReason
  BY DEF IInv
<1> QED
  BY <1>1, Inductive, PTL

-----------------------------------------------------------------------------
(***************************************************************************)
(* One halt fails one read: the failure is remembered in ResetPipeForStall *)
(* until the pipe has been reset, and a read with AutoClearStall looks at  *)
(* that before its first stage.                                            *)
(***************************************************************************)
StallInv ==
    /\ StallFailsOnce
    /\ stallFails > 0 => resetForStall
    /\ request # NoRequest /\ "AutoClearStall" \in request.policies => stallFails = 0

\* A failed stage ends its request.
LEMMA FailureCompletes ==
    ASSUME IInv, NEW n \in 0 .. MaxTransfer, NEW status \in FailedStatus,
           ReadBulkComplete(n, status)
    PROVE  request' = NoRequest
<1>1. TypeOK /\ StageInv
  BY DEF IInv, BuffersKept
<1>2. CASE overOfs.len # 0
  <2>1. stage # NoStage /\ n <= stage.size /\ n < stage.size /\ n % MaxPacket = 0
    BY DEF ReadBulkComplete, FailedStatus
  <2>2. stage.size = MaxPacket
    BY <1>1, <1>2, <2>1 DEF StageInv
  <2>3. n = 0
    BY <2>1, <2>2, PacketAssumption
  <2>4. OverrunComplete(n, status) /\ status # "SUCCESS"
    BY <1>2 DEF ReadBulkComplete, FailedStatus
  <2>5. CompleteRequest(request, status, user)
    BY <2>3, <2>4 DEF OverrunComplete
  <2> QED
    BY <2>5 DEF CompleteRequest
<1>3. CASE overOfs.len = 0
  BY <1>3 DEF ReadBulkComplete, UserComplete, CompleteRequest, FailedStatus
<1> QED
  BY <1>2, <1>3

\* The request a completion leaves open is the one that was open.
LEMMA SameRequest ==
    ASSUME NEW n, NEW status, ReadBulkComplete(n, status)
    PROVE  request' \in {request, NoRequest}
BY DEF ReadBulkComplete, UserComplete, OverrunComplete, SubmitNextRead, SendStage, CompleteRequest

LEMMA StallNextOK == IInv /\ StallInv /\ [Next]_vars => StallInv'
<1> SUFFICES ASSUME IInv, StallInv, [Next]_vars PROVE StallInv'
  OBVIOUS
<1>1. TypeOK /\ stallFails \in Nat
  BY DEF IInv, BuffersKept, TypeOK
<1>2. ASSUME NEW r, HandlePipeResetScenarios(r)
      PROVE  /\ stallFails' <= 1
             /\ stallFails' > 0 => resetForStall'
             /\ "AutoClearStall" \in r.policies => stallFails' = 0
  BY <1>1, <1>2 DEF HandlePipeResetScenarios, StallInv, StallFailsOnce
<1>3. ASSUME NEW r \in Requests, ReadBulk(r)
      PROVE  StallInv'
  <2>1. HandlePipeResetScenarios(r)
    BY <1>3 DEF ReadBulk
  <2>2. request' \in {r, NoRequest}
    BY <1>3 DEF ReadBulk, CompleteRequest, SubmitNextRead, SendStage
  <2> QED
    BY <1>2, <2>1, <2>2 DEF StallInv, StallFailsOnce
<1>4. ASSUME NEW n \in 0 .. MaxTransfer, NEW status \in {"SUCCESS"} \cup FailedStatus,
             ReadBulkComplete(n, status)
      PROVE  StallInv'
  <2>1. request' \in {request, NoRequest}
    BY <1>4, SameRequest
  <2>2. CASE status = "STALL" /\ "AutoClearStall" \in request.policies
    <3>1. request' = NoRequest
      BY <1>4, <2>2, FailureCompletes DEF FailedStatus
    <3>2. stallFails = 0
      <4>1. stage # NoStage
        BY <1>4 DEF ReadBulkComplete
      <4>2. request # NoRequest
        BY <4>1 DEF IInv, StageInv
      <4> QED
        BY <2>2, <4>2 DEF StallInv
    <3>3. stallFails' = 1
      BY <1>4, <2>2, <3>2 DEF ReadBulkComplete
    <3>4. resetForStall'
      <4>1. status \in FailedStatus \ {"CANCELLED"}
        BY <2>2 DEF FailedStatus
      <4> QED
        BY <1>4, <2>2, <4>1, Zenon
           DEF ReadBulkComplete, HandlePipeResetScenariosForComplete
    <3> QED
      BY <3>1, <3>3, <3>4 DEF StallInv, StallFailsOnce
  <2>3. CASE ~(status = "STALL" /\ "AutoClearStall" \in request.policies)
    <3>1. stallFails' = stallFails
      BY <1>4, <2>3 DEF ReadBulkComplete
    <3>2. resetForStall => resetForStall'
      BY <1>4 DEF ReadBulkComplete, HandlePipeResetScenariosForComplete
    <3> QED
      BY <1>1, <2>1, <3>1, <3>2 DEF StallInv, StallFailsOnce
  <2> QED
    BY <2>2, <2>3
<1>5. CASE RefreshQueue \/ PipeReset
  BY <1>5 DEF RefreshQueue, PipeReset, StallInv, StallFailsOnce
<1>6. CASE FlushPipe \/ OnD0Exit \/ UNCHANGED vars
  BY <1>1, <1>6 DEF FlushPipe, OnD0Exit, vars, StallInv, StallFailsOnce
<1>7. CASE OnResume
  BY <1>2, <1>7 DEF OnResume, StallInv, StallFailsOnce
<1> QED
  BY <1>3, <1>4, <1>5, <1>6, <1>7 DEF Next

\* A halt of the endpoint fails at most one read that has AutoClearStall:
\* mXfer_HandlePipeResetScenariosForComplete marks the pipe and
\* mXfer_HandlePipeResetScenarios resets it before the next such read, also
\* when flushes, suspends and reads without the policy come between.
THEOREM HaltFailsOneRead == Spec => []StallFailsOnce
<1>1. Init => StallInv
  BY DEF Init, StallInv, StallFailsOnce
<1>2. StallInv => StallFailsOnce
  BY DEF StallInv
<1> QED
  BY <1>1, <1>2, Inductive, StallNextOK, PTL DEF Spec

-----------------------------------------------------------------------------
(***************************************************************************)
(* The bytes of the device.  Exact says of a sequence of bytes what        *)
(* StreamExact says of all that the callers and the driver have.           *)
(***************************************************************************)
Exact(s, gone, n) ==
    /\ \A i, j \in DOMAIN s : i < j => s[i] < s[j]
    /\ Contents(s) \cap gone = {}
    /\ Contents(s) \cup gone = 1 .. n

Stream == delivered \o Genuine(user, junk) \o Leftover

LEMMA StreamIsExact == StreamExact <=> Exact(Stream, discarded, received)
BY DEF StreamExact, Exact, Stream

\* The elements of a concatenation are those of its parts, in their order.
LEMMA ConcatParts ==
    ASSUME NEW a \in Seq(Nat), NEW b \in Seq(Nat)
    PROVE  /\ Len(a) \in Nat /\ DOMAIN a \subseteq Nat /\ DOMAIN b \subseteq Nat
           /\ \A i \in DOMAIN a : i <= Len(a) /\ a[i] \in Nat
           /\ \A i \in DOMAIN b : i > 0 /\ b[i] \in Nat
           /\ \A i \in DOMAIN a : i \in DOMAIN (a \o b) /\ (a \o b)[i] = a[i]
           /\ \A i \in DOMAIN b : /\ Len(a) + i \in DOMAIN (a \o b)
                                 /\ (a \o b)[Len(a) + i] = b[i]
           /\ \A i \in DOMAIN (a \o b) :
                 i \in DOMAIN a \/ \E j \in DOMAIN b : i = Len(a) + j
<1> DEFINE s == a \o b
           m == Len(a)
           n == Len(b)
<1>1. /\ s \in Seq(Nat) /\ Len(s) = m + n
      /\ \A i \in 1 .. m + n : s[i] = IF i <= m THEN a[i] ELSE b[i - m]
  BY ConcatProperties
<1>2. /\ DOMAIN a = 1 .. m /\ DOMAIN b = 1 .. n /\ DOMAIN s = 1 .. m + n
      /\ m \in Nat /\ n \in Nat
      /\ \A i \in 1 .. m : a[i] \in Nat
      /\ \A i \in 1 .. n : b[i] \in Nat
  BY <1>1, LenProperties
<1> HIDE DEF s, m, n
<1>3. /\ m \in Nat /\ DOMAIN a \subseteq Nat /\ DOMAIN b \subseteq Nat
      /\ \A i \in DOMAIN a : i <= m /\ a[i] \in Nat
      /\ \A i \in DOMAIN b : i > 0 /\ b[i] \in Nat
  BY <1>2
<1>4. \A i \in DOMAIN a : i \in DOMAIN s /\ s[i] = a[i]
  BY <1>1, <1>2
<1>5. \A i \in DOMAIN b : m + i \in DOMAIN s /\ s[m + i] = b[i]
  BY <1>1, <1>2
<1>6. ASSUME NEW i \in DOMAIN s, i \notin DOMAIN a
      PROVE  \E j \in DOMAIN b : i = m + j
  <2>1. i - m \in DOMAIN b /\ i = m + (i - m)
    BY <1>2, <1>6
  <2> QED
    BY <2>1
<1> QED
  BY <1>3, <1>4, <1>5, <1>6 DEF s, m

LEMMA ContentsConcat ==
    ASSUME NEW a \in Seq(Nat), NEW b \in Seq(Nat)
    PROVE  Contents(a \o b) = Contents(a) \cup Contents(b)
<1> DEFINE s == a \o b
<1>1. /\ \A i \in DOMAIN a : i \in DOMAIN s /\ s[i] = a[i]
      /\ \A i \in DOMAIN b : Len(a) + i \in DOMAIN s /\ s[Len(a) + i] = b[i]
      /\ \A i \in DOMAIN s : i \in DOMAIN a \/ \E j \in DOMAIN b : i = Len(a) + j
  BY ConcatParts
<1> HIDE DEF s
<1>2. Contents(s) = Contents(a) \cup Contents(b)
  BY <1>1 DEF Contents
<1> QED
  BY <1>2 DEF s

\* What a stage brought continues the stream.
LEMMA ExactLanded ==
    ASSUME NEW s \in Seq(Nat), NEW gone, NEW n \in Nat, received \in Nat,
           Exact(s, gone, received)
    PROVE  Exact(s \o Landed(n), gone, received + n)
<1> DEFINE v == Landed(n)
           t == s \o v
           m == Len(s)
<1>1. v \in Seq(Nat) /\ DOMAIN v = 1 .. n /\ \A i \in 1 .. n : v[i] = received + i
  BY LandedType DEF Landed
<1>2. Contents(v) = (received + 1) .. (received + n)
  <2>1. \A x \in (received + 1) .. (received + n) : x - received \in 1 .. n /\ v[x - received] = x
    BY <1>1
  <2>2. \A i \in 1 .. n : v[i] \in (received + 1) .. (received + n)
    BY <1>1
  <2> HIDE DEF v
  <2> QED
    BY <1>1, <2>1, <2>2 DEF Contents
<1> HIDE DEF v
<1>3. Contents(t) = Contents(s) \cup Contents(v)
  BY <1>1, ContentsConcat
<1>4. /\ m \in Nat /\ DOMAIN s \subseteq Nat
      /\ \A i \in DOMAIN s : i <= m /\ s[i] \in Nat
      /\ \A i \in DOMAIN s : i \in DOMAIN t /\ t[i] = s[i]
      /\ \A i \in DOMAIN t : i \in DOMAIN s \/ \E j \in DOMAIN v : i = m + j
      /\ \A i \in DOMAIN v : m + i \in DOMAIN t /\ t[m + i] = v[i]
  BY <1>1, ConcatParts
<1> HIDE DEF t, m
<1>5. Contents(t) \cap gone = {} /\ Contents(t) \cup gone = 1 .. received + n
  <2>1. (1 .. received) \cap ((received + 1) .. (received + n)) = {}
    OBVIOUS
  <2>2. (1 .. received) \cup ((received + 1) .. (received + n)) = 1 .. received + n
    OBVIOUS
  <2> QED
    BY <1>2, <1>3, <2>1, <2>2 DEF Exact
<1>6. ASSUME NEW i \in DOMAIN t, NEW j \in DOMAIN t, i < j
      PROVE  t[i] < t[j]
  <2>1. CASE i \in DOMAIN s /\ j \in DOMAIN s
    BY <1>4, <1>6, <2>1 DEF Exact
  <2>2. CASE i \in DOMAIN s /\ j \notin DOMAIN s
    <3>1. t[i] \in Contents(s) /\ t[i] \in Nat
      BY <1>4, <2>2 DEF Contents
    <3>2. t[i] <= received
      BY <3>1 DEF Exact
    <3>3. PICK k \in 1 .. n : j = m + k
      BY <1>1, <1>4, <2>2
    <3>4. t[j] = received + k
      BY <1>1, <1>4, <3>3
    <3> QED
      BY <3>1, <3>2, <3>4
  <2>3. CASE i \notin DOMAIN s
    <3>1. PICK k \in 1 .. n : i = m + k
      BY <1>1, <1>4, <2>3
    <3>2. j \notin DOMAIN s
      BY <1>4, <1>6, <3>1
    <3>3. PICK l \in 1 .. n : j = m + l
      BY <1>1, <1>4, <3>2
    <3>4. t[i] = received + k /\ t[j] = received + l
      BY <1>1, <1>4, <3>1, <3>3
    <3> QED
      BY <1>4, <1>6, <3>1, <3>3, <3>4
  <2> QED
    BY <2>1, <2>2, <2>3
<1> QED
  BY <1>5, <1>6 DEF Exact, t, v

\* What is dropped at the end of the stream is gone.
LEMMA ExactDropped ==
    ASSUME NEW a \in Seq(Nat), NEW b \in Seq(Nat), NEW gone, NEW n \in Nat,
           Exact(a \o b, gone, n)
    PROVE  Exact(a, gone \cup Contents(b), n)
<1> DEFINE s == a \o b
           m == Len(a)
<1>1. Contents(s) = Contents(a) \cup Contents(b)
  BY ContentsConcat
<1>2. /\ m \in Nat /\ DOMAIN a \subseteq Nat /\ DOMAIN b \subseteq Nat
      /\ \A i \in DOMAIN a : i <= m /\ a[i] \in Nat
      /\ \A i \in DOMAIN b : i > 0 /\ b[i] \in Nat
      /\ \A i \in DOMAIN a : i \in DOMAIN s /\ s[i] = a[i]
      /\ \A i \in DOMAIN b : m + i \in DOMAIN s /\ s[m + i] = b[i]
  BY ConcatParts
<1>3. /\ \A i, j \in DOMAIN s : i < j => s[i] < s[j]
      /\ Contents(s) \cap gone = {} /\ Contents(s) \cup gone = 1 .. n
  BY DEF Exact
<1> HIDE DEF s, m
<1>4. \A i, j \in DOMAIN a : i < j => a[i] < a[j]
  BY <1>2, <1>3
<1>5. Contents(a) \cap Contents(b) = {}
  <2>1. SUFFICES ASSUME NEW i \in DOMAIN a, NEW j \in DOMAIN b
                 PROVE  a[i] # b[j]
    BY DEF Contents
  <2>2. i < m + j
    BY <1>2
  <2>3. s[i] < s[m + j]
    BY <1>2, <1>3, <2>2
  <2>4. a[i] < b[j] /\ a[i] \in Nat /\ b[j] \in Nat
    BY <1>2, <2>3
  <2> QED
    BY <2>4
<1> QED
  BY <1>1, <1>3, <1>4, <1>5 DEF Exact

-----------------------------------------------------------------------------
\* A range of OverBuf is copied in two parts.
LEMMA BytesSplit ==
    ASSUME NEW b \in [0 .. MaxPacket - 1 -> 0 .. MaxBytes],
           NEW k \in Nat, NEW n \in Nat, NEW m \in Nat, k + (n + m) <= MaxPacket
    PROVE  Bytes(b, k, n) \o Bytes(b, k + n, m) = Bytes(b, k, n + m)
<1> DEFINE u == Bytes(b, k, n)
           v == Bytes(b, k + n, m)
           w == Bytes(b, k, n + m)
<1>1. u \in Seq(Nat) /\ Len(u) = n /\ \A i \in 1 .. n : u[i] = b[k + i - 1]
  <2>1. k + n <= MaxPacket
    BY PacketAssumption
  <2> QED
    BY <2>1, BytesType
<1>2. v \in Seq(Nat) /\ Len(v) = m /\ \A i \in 1 .. m : v[i] = b[k + n + i - 1]
  <2>1. k + n \in Nat /\ (k + n) + m <= MaxPacket
    BY PacketAssumption
  <2> QED
    BY <2>1, BytesType
<1>3. w \in Seq(Nat) /\ Len(w) = n + m /\ \A i \in 1 .. n + m : w[i] = b[k + i - 1]
  <2>1. n + m \in Nat
    OBVIOUS
  <2> QED
    BY <2>1, BytesType
<1> HIDE DEF u, v, w
<1>4. /\ u \o v \in Seq(Nat) /\ Len(u \o v) = n + m
      /\ \A i \in 1 .. n + m : (u \o v)[i] = IF i <= n THEN u[i] ELSE v[i - n]
  <2>1. /\ u \o v \in Seq(Nat) /\ Len(u \o v) = Len(u) + Len(v)
        /\ \A i \in 1 .. Len(u) + Len(v) :
              (u \o v)[i] = IF i <= Len(u) THEN u[i] ELSE v[i - Len(u)]
    <3>1. u \in Seq(Nat) /\ v \in Seq(Nat)
      BY <1>1, <1>2
    <3> QED
      BY ONLY <3>1, ConcatProperties
  <2>2. Len(u) = n /\ Len(v) = m
    BY <1>1, <1>2
  <2> QED
    BY ONLY <2>1, <2>2
<1>5. ASSUME NEW i \in 1 .. n + m
      PROVE  (u \o v)[i] = w[i]
  <2>1. CASE i <= n
    <3>1. i \in 1 .. n
      BY <2>1
    <3>2. u[i] = b[k + i - 1]
      BY <1>1, <3>1
    <3> QED
      BY <1>3, <1>4, <2>1, <3>2
  <2>2. CASE ~(i <= n)
    <3>1. i - n \in 1 .. m /\ k + n + (i - n) - 1 = k + i - 1
      BY <2>2
    <3>2. v[i - n] = b[k + i - 1]
      BY <1>2, <3>1
    <3> QED
      BY <1>3, <1>4, <2>2, <3>2
  <2> QED
    BY <2>1, <2>2
<1>6. u \o v = w
  <2> DEFINE t == u \o v
  <2>1. t \in Seq(Nat) /\ Len(t) = Len(w) /\ \A i \in 1 .. Len(t) : t[i] = w[i]
    BY <1>3, <1>4, <1>5
  <2> HIDE DEF t
  <2>2. t = w
    BY <1>3, <2>1, SeqEqual
  <2> QED
    BY <2>2 DEF t
<1> QED
  BY <1>6 DEF u, v, w

LEMMA Assoc ==
    ASSUME NEW a \in Seq(Nat), NEW b \in Seq(Nat), NEW c \in Seq(Nat)
    PROVE  (a \o b) \o c = a \o (b \o c)
BY ConcatAssociative

LEMMA BytesNone ==
    ASSUME NEW b, NEW k
    PROVE  Bytes(b, k, 0) = << >>
BY DEF Bytes

\* What is the device's in a request that is completed goes to the end of what
\* was delivered.
LEMMA CompletedStream ==
    ASSUME NEW r, NEW status, NEW u \in Seq(Nat), junk' \in Nat, junk' <= Len(u),
           CompleteRequest(r, status, u), delivered \in Seq(Nat)
    PROVE  Stream' = (delivered \o Genuine(u, junk')) \o Leftover'
<1> DEFINE v == delivered \o Genuine(u, junk')
<1>1. delivered' = v /\ user' = << >>
  BY DEF CompleteRequest
<1>2. v \in Seq(Nat)
  BY GenuineType, ConcatProperties
<1> HIDE DEF v
<1>3. Genuine(user', junk') = << >>
  <2>1. << >> \in Seq(Nat) /\ Len(<< >>) <= junk'
    BY EmptySeq
  <2> QED
    BY <1>1, <2>1, GenuineNone
<1>4. (delivered \o Genuine(user, junk))' = v
  BY <1>1, <1>2, <1>3, ConcatEmptySeq
<1> QED
  BY <1>4 DEF Stream, v

\* mXfer_SubmitNextRead moves no byte, if nothing is left over: what a stage
\* into OverBuf that is not sent leaves behind is not the device's.
LEMMA SubmittedStream ==
    ASSUME NEW r, NEW u \in Seq(Nat), junk' \in Nat, junk' <= Len(u),
           NEW ofs, ofs.len = 0, SubmitNextRead(r, u, ofs), delivered \in Seq(Nat)
    PROVE  Stream' = delivered \o Genuine(u, junk')
<1> DEFINE v == delivered \o Genuine(u, junk')
<1>1. v \in Seq(Nat)
  BY GenuineType, ConcatProperties
<1>2. Leftover' = << >>
  <2>1. overOfs' = ofs \/ unfilled'
    BY DEF SubmitNextRead
  <2> QED
    BY <2>1, BytesNone DEF Leftover
<1>3. Stream' = v \o << >>
  <2>1. CASE \E status : CompleteRequest(r, status, u)
    BY <1>2, <2>1, CompletedStream
  <2>2. CASE user' = u /\ UNCHANGED delivered
    BY <1>2, <2>2 DEF Stream
  <2> QED
    BY <2>1, <2>2 DEF SubmitNextRead, SendStage
<1> HIDE DEF v
<1>4. Stream' = v
  BY <1>1, <1>3, ConcatEmptySeq
<1> QED
  BY <1>4 DEF v

\* A read that is served, and an AutoFlush after it.
LEMMA FlushedStream ==
    ASSUME NEW r, NEW u \in Seq(Nat), junk' \in Nat, junk' <= Len(u), NEW ofs,
           NEW kept \in Seq(Nat), NEW n \in Nat, delivered \in Seq(Nat),
           FlushLeftover(r, ofs, kept), CompleteRequest(r, "SUCCESS", u),
           overOfs' = ofs => Leftover' = kept,
           Exact((delivered \o Genuine(u, junk')) \o kept, discarded, n)
    PROVE  Exact(Stream', discarded', n)
<1> DEFINE v == delivered \o Genuine(u, junk')
<1>1. v \in Seq(Nat)
  BY GenuineType, ConcatProperties
<1>2. Stream' = v \o Leftover'
  BY CompletedStream
<1> HIDE DEF v
<1>3. CASE overOfs' = NoOverrun /\ discarded' = discarded \cup Contents(kept)
  <2>1. Leftover' = << >>
    BY <1>3, BytesNone DEF Leftover, NoOverrun
  <2>2. Stream' = v
    BY <1>1, <1>2, <2>1, ConcatEmptySeq
  <2>3. Exact(v, discarded \cup Contents(kept), n)
    BY <1>1, ExactDropped DEF v
  <2> QED
    BY <1>3, <2>2, <2>3
<1>4. CASE overOfs' = ofs /\ UNCHANGED discarded
  BY <1>2, <1>4 DEF v
<1> QED
  BY <1>3, <1>4 DEF FlushLeftover

LEMMA ReadBulkStream ==
    ASSUME IInv, Exact(Stream, discarded, received),
           NEW r \in Requests, ReadBulk(r)
    PROVE  Exact(Stream', discarded', received')
<1> DEFINE n == Smaller(overOfs.len, r.length)
           u == Bytes(overBuf, overOfs.off, n)
           ofs == [off |-> overOfs.off + n, len |-> overOfs.len - n]
           kept == IF unfilled THEN << >> ELSE Bytes(overBuf, ofs.off, ofs.len)
           gen == IF unfilled THEN << >> ELSE u
           all == Bytes(overBuf, overOfs.off, overOfs.len)
           rest == Bytes(overBuf, overOfs.off + n, overOfs.len - n)
<1>1. TypeOK /\ BufferBounds /\ StageInv /\ request = NoRequest
  BY DEF IInv, BuffersKept, ReadBulk
<1>2. /\ overOfs.off \in Nat /\ overOfs.len \in Nat /\ r.length \in Nat
      /\ overOfs.off + overOfs.len <= MaxPacket
      /\ overBuf \in [0 .. MaxPacket - 1 -> 0 .. MaxBytes]
      /\ delivered \in Seq(Nat) /\ received \in Nat
      /\ unfilled \in BOOLEAN /\ junk \in Nat
  BY <1>1, RequestType, PacketAssumption, LengthAssumption, BoundAssumption DEF TypeOK, BufferBounds
<1>3. /\ n \in Nat /\ n <= overOfs.len /\ n <= r.length
      /\ n = overOfs.len \/ n = r.length
  BY <1>2, SmallerType
<1> HIDE DEF n
<1>4. u \in Seq(Nat) /\ Len(u) = n /\ all \in Seq(Nat)
  <2>1. overOfs.off + n <= MaxPacket
    BY <1>2, <1>3, PacketAssumption
  <2> QED
    BY <1>2, <1>3, <2>1, BytesType
<1>5. /\ rest \in Seq(Nat) /\ u \o rest = all
  <2>1. /\ overOfs.len - n \in Nat /\ overOfs.off + n \in Nat
        /\ (overOfs.off + n) + (overOfs.len - n) <= MaxPacket
        /\ overOfs.off + (n + (overOfs.len - n)) <= MaxPacket
        /\ n + (overOfs.len - n) = overOfs.len
    <3> DEFINE o == overOfs.off
               l == overOfs.len
    <3>1. o \in Nat /\ l \in Nat /\ o + l <= MaxPacket /\ n \in Nat /\ n <= l
      BY <1>2, <1>3
    <3> HIDE DEF o, l
    <3>2. /\ l - n \in Nat /\ o + n \in Nat
          /\ (o + n) + (l - n) <= MaxPacket
          /\ o + (n + (l - n)) <= MaxPacket
          /\ n + (l - n) = l
      BY <3>1, PacketAssumption
    <3> QED
      BY <3>2 DEF o, l
  <2>2. rest \in Seq(Nat)
    <3> DEFINE o == overOfs.off + n
               l == overOfs.len - n
    <3>1. o \in Nat /\ l \in Nat /\ o + l <= MaxPacket
      BY <2>1
    <3> HIDE DEF o, l
    <3>2. Bytes(overBuf, o, l) \in Seq(Nat)
      BY <1>2, <3>1, BytesType
    <3> QED
      BY <3>2 DEF o, l
  <2>3. u \o rest = Bytes(overBuf, overOfs.off, n + (overOfs.len - n))
    <3> DEFINE o == overOfs.off
               l == overOfs.len - n
    <3>1. o \in Nat /\ l \in Nat /\ n \in Nat /\ o + (n + l) <= MaxPacket
      BY <1>2, <1>3, <2>1
    <3> HIDE DEF o, l
    <3>2. overBuf \in [0 .. MaxPacket - 1 -> 0 .. MaxBytes]
      BY <1>2
    <3>3. Bytes(overBuf, o, n) \o Bytes(overBuf, o + n, l) = Bytes(overBuf, o, n + l)
      BY ONLY <3>1, <3>2, BytesSplit
    <3> QED
      BY <3>3 DEF o, l
  <2> QED
    BY <2>1, <2>2, <2>3
<1>6. Stream = delivered \o Leftover
  <2>1. user = << >> /\ Len(<< >>) <= junk /\ << >> \in Seq(Nat)
    BY <1>1, <1>2, EmptySeq DEF StageInv
  <2>2. Genuine(user, junk) = << >>
    BY <1>2, <2>1, GenuineNone
  <2>3. delivered \o << >> = delivered
    BY <1>2, ConcatEmptySeq
  <2> QED
    BY <2>2, <2>3 DEF Stream
<1>7. UNCHANGED <<overBuf, received>>
  BY DEF ReadBulk
<1>8. /\ gen \in Seq(Nat) /\ kept \in Seq(Nat)
      /\ gen \o kept = Leftover
  <2>1. kept = IF unfilled THEN << >> ELSE rest
    OBVIOUS
  <2>2. Leftover = IF unfilled THEN << >> ELSE all
    BY DEF Leftover
  <2> HIDE DEF kept, u, rest, all
  <2>3. << >> \in Seq(Nat) /\ << >> \o << >> = << >>
    BY EmptySeq, ConcatEmptySeq
  <2> QED
    BY <1>4, <1>5, <2>1, <2>2, <2>3
<1>9. (delivered \o gen) \o kept = delivered \o Leftover
  <2> HIDE DEF gen, kept
  <2> QED
    BY <1>2, <1>8, Assoc
<1>10. CASE /\ \E status : CompleteRequest(r, status, << >>)
            /\ junk' = 0 /\ UNCHANGED <<overOfs, discarded, unfilled>>
  <2>1. << >> \in Seq(Nat) /\ junk' \in Nat /\ junk' <= Len(<< >>)
    BY <1>10, EmptySeq
  <2>2. Genuine(<< >>, junk') = << >>
    BY <2>1, <1>10, GenuineNone, EmptySeq
  <2>3. Stream' = (delivered \o << >>) \o Leftover'
    BY <1>2, <1>10, <2>1, <2>2, CompletedStream
  <2>4. delivered \o << >> = delivered
    BY <1>2, ConcatEmptySeq
  <2>5. Leftover' = Leftover
    BY <1>7, <1>10 DEF Leftover
  <2> QED
    BY <1>6, <1>7, <1>10, <2>3, <2>4, <2>5
<1>11. ASSUME junk' = IF unfilled THEN n ELSE 0
       PROVE  junk' \in Nat /\ junk' <= Len(u) /\ Genuine(u, junk') = gen
  <2> HIDE DEF u
  <2>1. CASE unfilled
    BY <1>3, <1>4, <1>11, <2>1, GenuineNone
  <2>2. CASE ~unfilled
    BY <1>3, <1>4, <1>11, <2>2, GenuineAll
  <2> QED
    BY <2>1, <2>2
<1>12. CASE /\ junk' = IF unfilled THEN n ELSE 0
            /\ FlushLeftover(r, ofs, kept) /\ CompleteRequest(r, "SUCCESS", u)
            /\ UNCHANGED unfilled
  <2>1. overOfs' = ofs => Leftover' = kept
    BY <1>7, <1>12 DEF Leftover
  <2> HIDE DEF u, ofs, kept, gen
  <2>2. Exact((delivered \o Genuine(u, junk')) \o kept, discarded, received)
    BY <1>6, <1>9, <1>11, <1>12
  <2> QED
    BY <1>2, <1>4, <1>7, <1>8, <1>11, <1>12, <2>1, <2>2, FlushedStream
<1>13. CASE /\ overOfs.len < r.length
            /\ junk' = IF unfilled THEN n ELSE 0
            /\ SubmitNextRead(r, u, ofs)
            /\ UNCHANGED discarded
  <2>1. n = overOfs.len /\ ofs.len = 0
    BY <1>2, <1>3, <1>13
  <2>2. gen = Leftover
    BY <2>1 DEF Leftover
  <2> HIDE DEF u, ofs, gen
  <2>3. Stream' = delivered \o gen
    BY <1>2, <1>4, <1>11, <1>13, <2>1, SubmittedStream
  <2> QED
    BY <1>6, <1>7, <1>13, <2>2, <2>3
<1> HIDE DEF u, ofs, kept
<1> QED
  BY <1>10, <1>12, <1>13, Zenon DEF ReadBulk, u, ofs, kept, n

LEMMA OverrunCompleteStream ==
    ASSUME IInv, Exact(Stream, discarded, received),
           stage # NoStage, overOfs.len # 0, NEW n \in Nat, n <= stage.size,
           received + n <= MaxBytes, received' = received + n, UNCHANGED junk,
           NEW status, status # "SUCCESS" => n = 0,
           OverrunComplete(n, status)
    PROVE  Exact(Stream', discarded', received')
<1> DEFINE k == Smaller(overOfs.len, n)
           b == [i \in 0 .. MaxPacket - 1 |-> IF i < n THEN received + i + 1 ELSE overBuf[i]]
           v == Bytes(b, 0, k)
           u == user \o v
           g == Genuine(user, junk)
           w == Bytes(b, k, n - k)
           ofs == [off |-> overOfs.off + k, len |-> n - k]
           rest == IF n > 0 THEN ofs ELSE [overOfs EXCEPT !.len = 0]
<1>1. TypeOK /\ BufferBounds /\ StageInv
  BY DEF IInv, BuffersKept
<1>2. /\ stage.mem = "over" /\ stage.size = MaxPacket
      /\ overOfs.off = 0 /\ overOfs.len \in Nat /\ overOfs.len <= MaxPacket
      /\ Len(user) + overOfs.len = request.length
      /\ request \in Requests
      /\ junk \in Nat /\ junk <= Len(user) /\ unfilled
  BY <1>1, PacketAssumption DEF StageInv, TypeOK
<1>3. /\ delivered \in Seq(Nat) /\ user \in Seq(Nat) /\ received \in Nat
      /\ Len(user) \in Nat /\ request.length \in Nat /\ n <= MaxPacket
      /\ g \in Seq(Nat) /\ junk' \in Nat /\ junk' <= Len(user)
  BY <1>1, <1>2, RequestType, LenProperties, GenuineType, LengthAssumption, BoundAssumption
     DEF TypeOK
<1> HIDE DEF g
<1>4. k \in Nat /\ k <= overOfs.len /\ k <= n /\ (k = overOfs.len \/ k = n)
  BY <1>2, SmallerType
<1> HIDE DEF k
<1>5. /\ b \in [0 .. MaxPacket - 1 -> 0 .. MaxBytes]
      /\ \A i \in 0 .. MaxPacket - 1 : i < n => b[i] = received + i + 1
  <2>1. \A i \in 0 .. MaxPacket - 1 : i < n => received + i + 1 \in 0 .. MaxBytes
    BY <1>3, LengthAssumption, BoundAssumption, PacketAssumption
  <2>2. \A i \in 0 .. MaxPacket - 1 : overBuf[i] \in 0 .. MaxBytes
    BY <1>1 DEF TypeOK
  <2> QED
    BY <2>1, <2>2
<1>6. overBuf' = b
  BY DEF OverrunComplete
<1> HIDE DEF b
<1>7. Bytes(b, 0, n) = Landed(n)
  <2>1. \A i \in 1 .. n : b[0 + i - 1] = received + i
    <3> TAKE i \in 1 .. n
    <3>1. i - 1 \in 0 .. MaxPacket - 1 /\ i - 1 < n /\ 0 + i - 1 = i - 1
      BY <1>3, PacketAssumption
    <3> QED
      BY <1>3, <1>5, <3>1
  <2> QED
    BY <2>1 DEF Bytes, Landed
<1>8. /\ v \in Seq(Nat) /\ w \in Seq(Nat) /\ v \o w = Landed(n)
      /\ Len(v) = k
  <2>1. /\ n - k \in Nat /\ 0 + (k + (n - k)) <= MaxPacket /\ 0 + k = k
        /\ k + (n - k) = n /\ 0 + k <= MaxPacket
    BY <1>3, <1>4, PacketAssumption
  <2>2. v \in Seq(Nat) /\ Len(v) = k
    BY <1>4, <1>5, <2>1, BytesType
  <2>3. w \in Seq(Nat)
    <3>1. k + (n - k) <= MaxPacket
      BY <2>1
    <3> QED
      BY <1>4, <1>5, <2>1, <3>1, BytesType
  <2>4. Bytes(b, 0, k) \o Bytes(b, 0 + k, n - k) = Bytes(b, 0, k + (n - k))
    <3>1. b \in [0 .. MaxPacket - 1 -> 0 .. MaxBytes]
      BY <1>5
    <3>2. k \in Nat /\ n - k \in Nat /\ 0 \in Nat /\ 0 + (k + (n - k)) <= MaxPacket
      BY <1>4, <2>1
    <3> QED
      BY ONLY <3>1, <3>2, BytesSplit
  <2> QED
    BY <1>7, <2>1, <2>2, <2>3, <2>4
<1>9. /\ Exact((delivered \o g) \o Landed(n), discarded, received')
      /\ Stream = delivered \o g /\ delivered \o g \in Seq(Nat)
  <2>1. Stream = (delivered \o g) \o << >>
    BY <1>2 DEF Stream, Leftover, g
  <2>2. delivered \o g \in Seq(Nat)
    BY <1>3, ConcatProperties
  <2>3. Stream = delivered \o g
    <3> DEFINE s == delivered \o g
    <3> HIDE DEF s
    <3>1. s \o << >> = s
      BY <2>2, ConcatEmptySeq DEF s
    <3> QED
      BY <2>1, <3>1 DEF s
  <2> QED
    BY <1>3, <2>2, <2>3, ExactLanded
<1>10. /\ u \in Seq(Nat) /\ Len(u) = Len(user) + k /\ junk' <= Len(u)
       /\ Genuine(u, junk') = g \o v /\ g \o v \in Seq(Nat)
  <2> HIDE DEF v
  <2>1. user \o v \in Seq(Nat) /\ Len(user \o v) = Len(user) + Len(v)
    BY <1>3, <1>8, ConcatProperties
  <2>2. Genuine(user \o v, junk) = g \o v
    BY <1>2, <1>3, <1>8, GenuineConcat DEF g
  <2>3. g \o v \in Seq(Nat)
    BY <1>3, <1>8, ConcatProperties
  <2>4. junk' <= Len(user) + k
    BY <1>3, <1>4
  <2> QED
    BY <1>8, <2>1, <2>2, <2>3, <2>4
<1> DEFINE h == Genuine(u, junk')
<1>11. (delivered \o h) \o w = (delivered \o g) \o Landed(n)
  <2>0. h = g \o v
    BY <1>10
  <2> HIDE DEF v, w, h
  <2>1. delivered \o (g \o v) = (delivered \o g) \o v
    BY <1>3, <1>8, Assoc
  <2> DEFINE s == delivered \o g
  <2>2. s \in Seq(Nat)
    BY <1>3, ConcatProperties
  <2> HIDE DEF s
  <2>3. (s \o v) \o w = s \o (v \o w)
    BY <1>8, <2>2, Assoc
  <2> QED
    BY <1>8, <2>0, <2>1, <2>3 DEF s
<1> HIDE DEF u, w
<1>12. CASE n > 0 /\ Len(u) >= request.length
  <2>1. /\ FlushLeftover(request, ofs, Bytes(b, ofs.off, ofs.len))
        /\ CompleteRequest(request, "SUCCESS", u) /\ unfilled' = FALSE
    BY <1>12 DEF OverrunComplete, k, b, u, ofs
  <2>2. Bytes(b, ofs.off, ofs.len) = w
    <3>1. ofs.off = k /\ ofs.len = n - k
      BY <1>2, <1>4
    <3> QED
      BY <3>1 DEF w
  <2>3. Exact((delivered \o h) \o w, discarded, received')
    BY <1>9, <1>11
  <2>4. received' \in Nat /\ w \in Seq(Nat)
    BY <1>3, <1>8 DEF w
  <2>5. overOfs' = ofs => Leftover' = w
    BY <1>6, <2>1, <2>2 DEF Leftover
  <2> HIDE DEF ofs
  <2> QED
    BY <1>3, <1>10, <2>1, <2>2, <2>3, <2>4, <2>5, FlushedStream
<1>13. CASE n = 0 /\ status # "SUCCESS"
  <2>1. /\ CompleteRequest(request, status, user)
        /\ UNCHANGED <<overOfs, discarded, unfilled>>
    BY <1>13 DEF OverrunComplete
  <2>2. Leftover' = << >>
    BY <1>2, <2>1 DEF Leftover
  <2>3. Stream' = (delivered \o g) \o << >>
    <3>1. Genuine(user, junk') = g
      BY DEF g
    <3> QED
      BY <1>3, <2>1, <2>2, <3>1, CompletedStream
  <2>4. Stream' = Stream
    <3> DEFINE s == delivered \o g
    <3> HIDE DEF s
    <3>1. s \o << >> = s
      BY <1>9, ConcatEmptySeq DEF s
    <3> QED
      BY <1>9, <2>3, <3>1 DEF s
  <2>5. received' = received /\ discarded' = discarded
    BY <1>3, <1>13, <2>1
  <2> QED
    BY <2>4, <2>5
<1>14. CASE ~(n > 0 /\ Len(u) >= request.length) /\ ~(n = 0 /\ status # "SUCCESS")
  <2>1. /\ IF "IgnoreShortPackets" \in request.policies
           THEN SubmitNextRead(request, u, rest)
           ELSE /\ overOfs' = rest /\ unfilled' = FALSE
                /\ CompleteRequest(request, "SUCCESS", u)
        /\ UNCHANGED discarded
    BY <1>14 DEF OverrunComplete, k, b, u, ofs
  <2>2. k = n
    BY <1>2, <1>3, <1>4, <1>10, <1>14
  <2>3. rest.len = 0
    <3>1. n > 0 => rest.len = 0
      BY <2>2
    <3>2. ~(n > 0) => rest.len = 0
      BY <1>1 DEF TypeOK
    <3> QED
      BY <3>1, <3>2
  <2>4. delivered \o h \in Seq(Nat)
    <3>1. h \in Seq(Nat)
      BY <1>10
    <3> QED
      BY <1>3, <3>1, ConcatProperties
  <2>5. (delivered \o h) \o << >> = delivered \o h
    <3> DEFINE s == delivered \o h
    <3> HIDE DEF s
    <3>1. s \o << >> = s
      BY <2>4, ConcatEmptySeq DEF s
    <3> QED
      BY <3>1 DEF s
  <2>6. delivered \o h = (delivered \o g) \o Landed(n)
    <3>1. w = << >>
      <4>1. n - k = 0
        BY <2>2
      <4> QED
        BY <4>1, BytesNone DEF w
    <3> QED
      BY <1>11, <2>5, <3>1
  <2> HIDE DEF rest, ofs
  <2>7. Stream' = delivered \o h
    <3>1. CASE SubmitNextRead(request, u, rest)
      BY <1>3, <1>10, <2>3, <3>1, SubmittedStream
    <3>2. CASE overOfs' = rest /\ CompleteRequest(request, "SUCCESS", u)
      <4>1. Stream' = (delivered \o h) \o Leftover'
        BY <1>3, <1>10, <3>2, CompletedStream
      <4>2. Leftover' = << >>
        BY <2>3, <3>2, BytesNone DEF Leftover
      <4> QED
        BY <2>5, <4>1, <4>2
    <3> QED
      BY <2>1, <3>1, <3>2
  <2> QED
    BY <1>9, <2>1, <2>6, <2>7
<1> QED
  BY <1>12, <1>13, <1>14

LEMMA UserCompleteStream ==
    ASSUME IInv, Exact(Stream, discarded, received),
           stage # NoStage, overOfs.len = 0, NEW n \in Nat, received' = received + n,
           UNCHANGED junk,
           NEW status, UserComplete(n, status)
    PROVE  Exact(Stream', discarded', received')
<1> DEFINE w == Landed(n)
           u == user \o w
           g == Genuine(user, junk)
           h == Genuine(u, junk')
           s == delivered \o g
<1>1. TypeOK /\ StageInv
  BY DEF IInv, BuffersKept
<1>2. /\ delivered \in Seq(Nat) /\ user \in Seq(Nat) /\ received \in Nat
      /\ junk \in Nat /\ junk' = junk /\ junk <= Len(user)
  BY <1>1, LengthAssumption, BoundAssumption DEF TypeOK, StageInv
<1>3. w \in Seq(Nat) /\ g \in Seq(Nat)
  BY <1>2, LandedType, GenuineType
<1>4. /\ u \in Seq(Nat) /\ s \in Seq(Nat) /\ h = g \o w
      /\ junk' \in Nat /\ junk' <= Len(u) /\ delivered \o h \in Seq(Nat)
  <2> HIDE DEF w
  <2>1. h = g \o w
    BY <1>2, <1>3, GenuineConcat
  <2> HIDE DEF g, h
  <2>2. /\ u \in Seq(Nat) /\ Len(u) = Len(user) + Len(w) /\ s \in Seq(Nat)
        /\ g \o w \in Seq(Nat)
    BY <1>2, <1>3, ConcatProperties
  <2>3. delivered \o h \in Seq(Nat)
    BY <1>2, <2>1, <2>2, ConcatProperties
  <2>4. Len(user) \in Nat /\ Len(w) \in Nat
    BY <1>2, <1>3, LenProperties
  <2> QED
    BY <1>2, <2>1, <2>2, <2>3, <2>4
<1>5. Exact(s \o w, discarded, received')
  <2>1. Leftover = << >>
    BY BytesNone DEF Leftover
  <2>2. Stream = s
    <3>1. Stream = s \o << >>
      BY <2>1 DEF Stream
    <3> HIDE DEF s
    <3>2. s \o << >> = s
      BY <1>4, ConcatEmptySeq
    <3> QED
      BY <3>1, <3>2
  <2> HIDE DEF s
  <2> QED
    BY <1>2, <1>4, <2>2, ExactLanded
<1>6. delivered \o h = s \o w
  <2> HIDE DEF w, g, h
  <2>1. h = g \o w
    BY <1>4
  <2>2. (delivered \o g) \o w = delivered \o (g \o w)
    <3>1. delivered \in Seq(Nat) /\ g \in Seq(Nat) /\ w \in Seq(Nat)
      BY <1>2, <1>3
    <3> HIDE DEF s, u
    <3> QED
      BY <3>1, Assoc
  <2> QED
    BY <2>1, <2>2
<1> HIDE DEF u, s, w, g
<1>7. Stream' = delivered \o h
  <2>1. CASE SubmitNextRead(request, u, overOfs)
    BY <1>2, <1>4, <2>1, SubmittedStream
  <2>2. CASE CompleteRequest(request, status, u) /\ UNCHANGED overOfs
    <3>1. Leftover' = << >>
      BY <2>2, BytesNone DEF Leftover
    <3> DEFINE t == delivered \o h
    <3>2. Stream' = t \o << >> /\ t \in Seq(Nat)
      BY <1>2, <1>4, <2>2, <3>1, CompletedStream
    <3> HIDE DEF t
    <3>3. t \o << >> = t
      BY <3>2, ConcatEmptySeq
    <3> QED
      BY <3>2, <3>3 DEF t
  <2> QED
    BY <2>1, <2>2 DEF UserComplete, u, w
<1>8. UNCHANGED discarded
  BY DEF UserComplete
<1> QED
  BY <1>5, <1>6, <1>7, <1>8

LEMMA StreamNextOK ==
    ASSUME IInv, StreamExact, [Next]_vars
    PROVE  StreamExact'
<1>1. Exact(Stream, discarded, received) /\ TypeOK /\ BufferBounds /\ StageInv
  BY StreamIsExact DEF IInv, BuffersKept
<1>2. StreamExact' <=> Exact(Stream', discarded', received')
  BY DEF StreamExact, Exact, Stream
<1>3. ASSUME NEW r \in Requests, ReadBulk(r)
      PROVE  Exact(Stream', discarded', received')
  BY <1>1, <1>3, ReadBulkStream
<1>4. ASSUME NEW n \in 0 .. MaxTransfer, NEW status \in {"SUCCESS"} \cup FailedStatus,
             ReadBulkComplete(n, status)
      PROVE  Exact(Stream', discarded', received')
  <2>1. /\ n \in Nat /\ n <= stage.size /\ received + n <= MaxBytes /\ stage # NoStage
        /\ received' = received + n /\ UNCHANGED junk
    BY <1>4, PacketAssumption, TransferAssumption DEF ReadBulkComplete
  <2>2. CASE overOfs.len = 0
    BY <1>1, <1>4, <2>1, <2>2, UserCompleteStream DEF ReadBulkComplete
  <2>3. CASE overOfs.len # 0
    <3>1. stage.size = MaxPacket
      BY <1>1, <2>1, <2>3 DEF StageInv
    <3>2. OverrunComplete(n, status) /\ (status # "SUCCESS" => n = 0)
      BY <1>4, <2>1, <2>3, <3>1, PacketAssumption DEF ReadBulkComplete
    <3> QED
      BY <1>1, <2>1, <2>3, <3>2, OverrunCompleteStream
  <2> QED
    BY <2>2, <2>3
<1>5. CASE FlushPipe \/ RefreshQueue
  <2> DEFINE g == Genuine(user, junk)
             v == delivered \o g
  <2>1. v \in Seq(Nat) /\ Leftover \in Seq(Nat)
    <3>1. /\ user \in Seq(Nat) /\ delivered \in Seq(Nat)
          /\ junk \in Nat /\ (junk <= Len(user) \/ user = << >>)
      BY <1>1 DEF TypeOK, StageInv
    <3>2. g \in Seq(Nat)
      <4>1. CASE junk <= Len(user)
        BY <3>1, <4>1, GenuineType
      <4>2. CASE user = << >>
        <5>1. Len(user) <= junk /\ << >> \in Seq(Nat)
          BY <3>1, <4>2, EmptySeq
        <5> QED
          BY <3>1, <5>1, GenuineNone
      <4> QED
        BY <3>1, <4>1, <4>2
    <3> HIDE DEF g
    <3>3. v \in Seq(Nat)
      BY <3>1, <3>2, ConcatProperties
    <3> QED
      BY <1>1, <3>3, LeftoverType
  <2>2. /\ overOfs' = NoOverrun /\ discarded' = discarded \cup Contents(Leftover)
        /\ UNCHANGED <<delivered, user, junk, received>>
    BY <1>5 DEF FlushPipe, RefreshQueue, DropLeftover
  <2>3. Leftover' = << >>
    BY <2>2, BytesNone DEF Leftover, NoOverrun
  <2>4. Stream' = v \o << >>
    BY <2>2, <2>3 DEF Stream
  <2>5. Exact(v \o Leftover, discarded, received)
    BY <1>1 DEF Stream
  <2> HIDE DEF v, g
  <2>6. Stream' = v
    BY <2>1, <2>4, ConcatEmptySeq
  <2>7. received \in Nat
    BY <1>1, LengthAssumption, BoundAssumption DEF TypeOK
  <2>8. Exact(v, discarded \cup Contents(Leftover), received)
    BY <2>1, <2>5, <2>7, ExactDropped
  <2>9. discarded' = discarded \cup Contents(Leftover) /\ received' = received
    BY <2>2
  <2> QED
    BY ONLY <1>2, <2>6, <2>8, <2>9
<1>6. CASE PipeReset \/ OnD0Exit \/ OnResume \/ UNCHANGED vars
  <2>1. UNCHANGED <<delivered, user, junk, overBuf, overOfs, unfilled, discarded, received>>
    BY <1>6 DEF PipeReset, OnD0Exit, OnResume, vars
  <2>2. Stream' = Stream
    BY <2>1 DEF Stream, Leftover
  <2>3. discarded' = discarded /\ received' = received
    BY <2>1
  <2>4. Exact(Stream, discarded, received)
    BY <1>1
  <2> QED
    BY ONLY <1>2, <2>2, <2>3, <2>4
<1> QED
  BY <1>2, <1>3, <1>4, <1>5, <1>6 DEF Next

\* For every sequence of reads, short packets, stalls, time-outs, cancellations,
\* failed submissions and flushes the bytes of the device that the callers of
\* Xfer_ReadBulk got, the open request has and OverBuf keeps are those the
\* device sent, in its order, each once; what is missing was dropped by a flush.
\* A stage into OverBuf that fails leaves its range behind as if it held bytes
\* (mXfer_SubmitNextRead sets it before the stage is sent, and nothing takes it
\* back); what a read is given from such a range stands apart, in front of what
\* the device sent for that read.
THEOREM StreamIsKept == Spec => []StreamExact
<1>1. Init => StreamExact
  <2> SUFFICES ASSUME Init PROVE StreamExact
    OBVIOUS
  <2>1. Leftover = << >>
    BY BytesNone DEF Init, Leftover, NoOverrun
  <2>2. Stream = << >>
    <3>1. << >> \o << >> = << >>
      BY EmptySeq, ConcatEmptySeq
    <3>2. Genuine(<< >>, 0) = << >>
      BY EmptySeq, GenuineAll
    <3> QED
      BY <2>1, <3>1, <3>2 DEF Init, Stream
  <2>3. DOMAIN << >> = {} /\ Contents(<< >>) = {}
    BY DEF Contents
  <2>4. discarded = {} /\ received = 0
    BY DEF Init
  <2>5. Exact(<< >>, {}, 0)
    BY <2>3 DEF Exact
  <2> QED
    BY <2>2, <2>4, <2>5, StreamIsExact
<1>2. IInv /\ StreamExact /\ [Next]_vars => StreamExact'
  BY StreamNextOK
<1> QED
  BY <1>1, <1>2, Inductive, PTL DEF Spec

-----------------------------------------------------------------------------
(***************************************************************************)
(* Writes.                                                                 *)
(***************************************************************************)

(***************************************************************************)
(* The invariant that is inductive.  Beside BufferOnWire it says what a    *)
(* stage is: the queue has a request exactly while the USB stack has a     *)
(* stage of it, the stage starts where Transferred stands and is as long   *)
(* as mXfer_SubmitNextWrite makes it, and once a zero-length packet was    *)
(* sent nothing of the buffer is left.                                     *)
(***************************************************************************)
WriteStageInv ==
    /\ request = NoWrite <=> stage = NoWriteStage
    /\ request # NoWrite =>
           /\ stage.off = transferred
           /\ stage.size = Smaller(request.length - transferred, MaxTransfer)
           /\ zlps > 0 => transferred = request.length

WriteInv == BufferOnWire /\ WriteStageInv

-----------------------------------------------------------------------------
\* The bytes 1 .. n of the buffer.
Sent(n) == [i \in 1 .. n |-> i]

\* A stage of n bytes at offset t continues what was sent: the wire after
\* Xfer_WriteBulkComplete.
LEMMA SentContinued ==
    ASSUME NEW t \in Nat, NEW n \in Nat
    PROVE  Sent(t) \o [i \in 1 .. n |-> t + i] = Sent(t + n)
<1> DEFINE s == Sent(t)
           u == [i \in 1 .. n |-> t + i]
<1>1. s \in Seq(Nat) /\ Len(s) = t /\ \A i \in 1 .. t : s[i] = i
  BY DEF Sent
<1>2. u \in Seq(Nat) /\ Len(u) = n /\ \A i \in 1 .. n : u[i] = t + i
  OBVIOUS
<1>3. /\ s \o u \in Seq(Nat)
      /\ Len(s \o u) = t + n
      /\ \A i \in 1 .. t + n : (s \o u)[i] = IF i <= t THEN s[i] ELSE u[i - t]
  <2> HIDE DEF s, u
  <2> QED
    BY <1>1, <1>2, ConcatProperties
<1>4. \A i \in 1 .. t + n : (IF i <= t THEN s[i] ELSE u[i - t]) = i
  <2> HIDE DEF s, u
  <2> QED
    BY <1>1, <1>2
<1>5. Sent(t + n) \in Seq(Nat) /\ Len(Sent(t + n)) = t + n
  BY DEF Sent
<1>6. \A i \in 1 .. t + n : (s \o u)[i] = Sent(t + n)[i]
  <2>1. \A i \in 1 .. t + n : Sent(t + n)[i] = i
    BY DEF Sent
  <2> QED
    BY <1>3, <1>4, <2>1
<1>7. s \o u = Sent(t + n)
  <2> HIDE DEF s, u
  <2> DEFINE v == s \o u
             w == Sent(t + n)
  <2>1. v \in Seq(Nat) /\ w \in Seq(Nat) /\ Len(v) = Len(w)
    BY <1>3, <1>5
  <2>2. \A i \in 1 .. Len(v) : v[i] = w[i]
    BY <1>3, <1>6
  <2> HIDE DEF v, w
  <2>3. v = w
    BY <2>1, <2>2, SeqEqual
  <2> QED
    BY <2>3 DEF v, w
<1> QED
  BY <1>7

\* The bytes sent are bytes of the buffer.
LEMMA SentType ==
    ASSUME NEW n \in 0 .. MaxLength
    PROVE  Sent(n) \in Seq(1 .. MaxLength)
BY LengthAssumption DEF Sent

LEMMA NoWriteIsNone == NoWrite \notin WriteRequests
BY DEF NoWrite, WriteRequests

LEMMA NoWriteStageIsNone ==
    ASSUME NEW o \in Nat, NEW s \in Nat
    PROVE  [off |-> o, size |-> s] # NoWriteStage
BY DEF NoWriteStage

-----------------------------------------------------------------------------
LEMMA WriteInitOK == WriteInit => WriteInv
<1> SUFFICES ASSUME WriteInit PROVE WriteInv
  OBVIOUS
<1>1. WriteTypeOK
  <2>1. wire \in Seq(1 .. MaxLength)
    BY EmptySeq DEF WriteInit
  <2>2. last \in [ok : BOOLEAN, whole : BOOLEAN, terminated : BOOLEAN]
    BY DEF WriteInit
  <2>3. transferred \in 0 .. MaxLength
    BY LengthAssumption DEF WriteInit
  <2>4. request \in {NoWrite} /\ stage \in {NoWriteStage}
    BY DEF WriteInit
  <2>5. zlpsRequired \in 0 .. 1 /\ zlpsSent \in 0 .. 1 /\ zlps \in 0 .. 2
    BY DEF WriteInit
  <2>6. resetForResume \in BOOLEAN /\ halted \in BOOLEAN
    BY Zenon DEF WriteInit
  <2> QED
    BY <2>1, <2>2, <2>3, <2>4, <2>5, <2>6 DEF WriteTypeOK
<1>2. wire = [i \in 1 .. transferred |-> i]
  BY DEF WriteInit
<1> QED
  BY <1>1, <1>2 DEF WriteInit, WriteInv, BufferOnWire, WriteExact, WriteStageInv

\* CompleteRequest, with what was sent on the wire: nothing is left over, and
\* a request that succeeds has sent its whole buffer.
LEMMA WriteCompletedOK ==
    ASSUME NEW r \in WriteRequests, NEW count \in 0 .. r.length, NEW status,
           status = "SUCCESS" => count = r.length,
           CompleteWrite(r, status, count),
           wire' = Sent(count),
           (zlpsRequired \in 0 .. 1 /\ zlpsSent \in 0 .. 1 /\ resetForResume \in BOOLEAN
              /\ halted \in BOOLEAN /\ zlps \in 0 .. 2)'
    PROVE  WriteInv'
<1>1. count \in 0 .. MaxLength
  BY LengthAssumption DEF WriteRequests
<1>2. wire' \in Seq(1 .. MaxLength)
  BY <1>1, SentType
<1>3. last' \in [ok : BOOLEAN, whole : BOOLEAN, terminated : BOOLEAN]
  BY DEF CompleteWrite
<1>4. WriteTypeOK'
  BY <1>1, <1>2, <1>3 DEF CompleteWrite, WriteTypeOK
<1>5. (last.ok => last.whole)'
  BY DEF CompleteWrite, Sent
<1>6. WriteExact'
  BY <1>5 DEF CompleteWrite, WriteExact, Sent
<1>7. WriteStageInv'
  BY DEF CompleteWrite, WriteStageInv
<1> QED
  BY <1>4, <1>6, <1>7 DEF WriteInv, BufferOnWire

\* mXfer_SubmitNextWrite, whether it sends the next stage or fails.
LEMMA WriteSubmittedOK ==
    ASSUME NEW r \in WriteRequests, NEW count \in 0 .. r.length,
           SubmitNextWrite(r, count),
           wire' = Sent(count),
           zlps' > 0 => count = r.length,
           last \in [ok : BOOLEAN, whole : BOOLEAN, terminated : BOOLEAN],
           last.ok => last.whole,
           (zlpsRequired \in 0 .. 1 /\ zlpsSent \in 0 .. 1 /\ resetForResume \in BOOLEAN
              /\ halted \in BOOLEAN /\ zlps \in 0 .. 2)'
    PROVE  WriteInv'
<1> DEFINE size == Smaller(r.length - count, MaxTransfer)
<1>1. CASE CompleteWrite(r, "ERROR", count)
  BY <1>1, WriteCompletedOK
<1>2. CASE /\ request' = r
           /\ transferred' = count
           /\ stage' = [off |-> count, size |-> size]
           /\ UNCHANGED last
  <2>1. count \in 0 .. MaxLength /\ r.length \in 0 .. MaxLength
    BY LengthAssumption DEF WriteRequests
  <2>2. size \in 0 .. MaxTransfer
    BY <2>1, TransferAssumption, PacketAssumption DEF Smaller
  <2>3. stage' # NoWriteStage /\ request' # NoWrite
    BY <1>2, <2>1, <2>2, NoWriteStageIsNone, NoWriteIsNone, TransferAssumption
  <2>4. wire' \in Seq(1 .. MaxLength)
    BY <2>1, SentType
  <2>5. WriteTypeOK'
    <3>1. stage' \in [off : 0 .. MaxLength, size : 0 .. MaxTransfer]
      BY <1>2, <2>1, <2>2
    <3> QED
      BY <1>2, <2>1, <2>4, <3>1 DEF WriteTypeOK
  <2>6. WriteStageInv'
    BY <1>2, <2>3 DEF WriteStageInv
  <2>7. (zlps > 0 => stage.size = 0)'
    BY <1>2, <2>1, TransferAssumption, PacketAssumption DEF Smaller
  <2>8. WriteExact'
    BY <1>2, <2>1, <2>7 DEF WriteExact, Sent
  <2> QED
    BY <2>5, <2>6, <2>8 DEF WriteInv, BufferOnWire
<1> QED
  BY <1>1, <1>2 DEF SubmitNextWrite

-----------------------------------------------------------------------------
LEMMA WriteResetType ==
    ASSUME WriteTypeOK, NEW r, HandleOutPipeResetScenarios(r)
    PROVE  (resetForResume \in BOOLEAN /\ halted \in BOOLEAN)'
BY DEF WriteTypeOK, HandleOutPipeResetScenarios

LEMMA WriteBulkOK ==
    ASSUME WriteInv, NEW r \in WriteRequests, WriteBulk(r)
    PROVE  WriteInv'
<1>1. r.length \in Nat
  BY LengthAssumption DEF WriteRequests
<1>2. 0 \in 0 .. r.length
  BY <1>1
<1>3. wire' = Sent(0)
  BY DEF WriteBulk, Sent
<1>4. (resetForResume \in BOOLEAN /\ halted \in BOOLEAN)'
  BY WriteResetType DEF WriteBulk, WriteInv, BufferOnWire
<1>5. (zlpsRequired \in 0 .. 1 /\ zlpsSent \in 0 .. 1 /\ zlps \in 0 .. 2)'
  BY DEF WriteBulk, WriteInv, BufferOnWire, WriteTypeOK
<1>6. /\ last \in [ok : BOOLEAN, whole : BOOLEAN, terminated : BOOLEAN]
      /\ last.ok => last.whole
  BY DEF WriteInv, BufferOnWire, WriteTypeOK, WriteExact
<1>7. SubmitNextWrite(r, 0) /\ ~(zlps' > 0)
  BY DEF WriteBulk
<1> QED
  BY <1>2, <1>3, <1>4, <1>5, <1>6, <1>7, WriteSubmittedOK

\* Xfer_WriteBulkComplete: one step per branch of its switch.
LEMMA WriteBulkCompleteOK ==
    ASSUME WriteInv,
           NEW n \in 0 .. MaxTransfer, NEW status \in {"SUCCESS"} \cup WriteFailures,
           WriteBulkComplete(n, status)
    PROVE  WriteInv'
<1> DEFINE count == transferred + n
<1>1. /\ WriteTypeOK /\ WriteExact /\ WriteStageInv
      /\ request \in WriteRequests /\ request.length \in 0 .. MaxLength
      /\ stage # NoWriteStage /\ n <= stage.size
      /\ transferred \in 0 .. request.length
  BY LengthAssumption
     DEF WriteInv, BufferOnWire, WriteTypeOK, WriteStageInv, WriteBulkComplete, WriteExact,
         WriteRequests, NoWriteStage
<1>2. /\ stage.off = transferred
      /\ stage.size = Smaller(request.length - transferred, MaxTransfer)
      /\ zlps > 0 => transferred = request.length
  BY <1>1 DEF WriteStageInv
<1>3. count \in 0 .. request.length
  BY <1>1, <1>2, TransferAssumption, PacketAssumption DEF Smaller
<1>4. wire' = Sent(count)
  <2>1. wire' = Sent(transferred) \o [i \in 1 .. n |-> transferred + i]
    BY <1>1, <1>2 DEF WriteBulkComplete, WriteExact, Sent
  <2>2. transferred \in Nat /\ n \in Nat
    BY <1>1, TransferAssumption, PacketAssumption
  <2>3. Sent(transferred) \o [i \in 1 .. n |-> transferred + i] = Sent(transferred + n)
    BY <2>2, SentContinued
  <2> QED
    BY <2>1, <2>3
<1>5. /\ (zlps \in 0 .. 2)'
      /\ zlps' > 0 => count = request.length \/ status # "SUCCESS"
  <2>1. zlps \in 0 .. 2
    BY <1>1 DEF WriteTypeOK
  <2>2. CASE stage.size = 0 /\ status = "SUCCESS"
    <3>1. n = 0 /\ zlps' = (zlps % 2) + 1
      BY <1>1, <2>2 DEF WriteBulkComplete
    <3>2. transferred = request.length
      BY <1>1, <1>2, <2>2, TransferAssumption, PacketAssumption DEF Smaller
    <3> QED
      BY <1>1, <2>1, <3>1, <3>2
  <2>3. CASE ~(stage.size = 0 /\ status = "SUCCESS")
    <3>1. zlps' = zlps
      BY <2>3 DEF WriteBulkComplete
    <3>2. zlps > 0 => n = 0
      BY <1>1, <1>2, TransferAssumption, PacketAssumption DEF Smaller
    <3> QED
      BY <1>1, <1>2, <2>1, <3>1, <3>2
  <2> QED
    BY <2>2, <2>3
<1>6. (zlpsRequired \in 0 .. 1 /\ resetForResume \in BOOLEAN /\ halted \in BOOLEAN)'
  BY <1>1 DEF WriteBulkComplete, WriteTypeOK
<1>7. /\ last \in [ok : BOOLEAN, whole : BOOLEAN, terminated : BOOLEAN]
      /\ last.ok => last.whole
  BY <1>1 DEF WriteTypeOK, WriteExact
<1>8. zlpsSent \in 0 .. 1 /\ zlpsRequired \in 0 .. 1
  BY <1>1 DEF WriteTypeOK
<1>9. CASE status # "SUCCESS"
  <2>1. CompleteWrite(request, status, count) /\ UNCHANGED zlpsSent
    BY <1>9 DEF WriteBulkComplete
  <2> QED
    BY <1>1, <1>3, <1>4, <1>5, <1>6, <1>8, <1>9, <2>1, WriteCompletedOK
<1>10. CASE status = "SUCCESS" /\ count < request.length
  <2>1. SubmitNextWrite(request, count) /\ UNCHANGED zlpsSent
    BY <1>1, <1>3, <1>10 DEF WriteBulkComplete
  <2> QED
    BY <1>1, <1>3, <1>4, <1>5, <1>6, <1>7, <1>8, <1>10, <2>1, WriteSubmittedOK
<1>11. CASE status = "SUCCESS" /\ ~(count < request.length) /\ ZlpsDone
  <2>1. count = request.length
    BY <1>1, <1>3, <1>11
  <2>2. CompleteWrite(request, status, count) /\ UNCHANGED zlpsSent
    BY <1>1, <1>3, <1>11, <2>1 DEF WriteBulkComplete
  <2> QED
    BY <1>1, <1>3, <1>4, <1>5, <1>6, <1>8, <2>1, <2>2, WriteCompletedOK
<1>12. CASE status = "SUCCESS" /\ ~(count < request.length) /\ ~ZlpsDone
  <2>1. count = request.length
    BY <1>1, <1>3, <1>12
  <2>2. SubmitNextWrite(request, count) /\ CountZlp
    BY <1>12 DEF WriteBulkComplete
  <2>3. (zlpsSent \in 0 .. 1)'
    BY <1>8, <1>12, <2>2 DEF CountZlp, ZlpsDone
  <2> QED
    BY <1>1, <1>3, <1>4, <1>5, <1>6, <1>7, <2>1, <2>2, <2>3, WriteSubmittedOK
<1> QED
  BY <1>9, <1>10, <1>11, <1>12

\* What other handlers do to the queue and the pipe leaves the transfer alone.
LEMMA WriteOthersOK ==
    ASSUME WriteInv,
           \/ RefreshOutQueue \/ OutPipeReset \/ OutPipeOnD0Exit \/ ResumeWrite
           \/ UNCHANGED writeVars
    PROVE  WriteInv'
<1>1. UNCHANGED <<request, transferred, stage, wire, zlps, last>>
  BY DEF RefreshOutQueue, OutPipeReset, OutPipeOnD0Exit, ResumeWrite, writeVars
<1>2. (resetForResume \in BOOLEAN /\ halted \in BOOLEAN)'
  <2>1. WriteTypeOK
    BY DEF WriteInv, BufferOnWire
  <2>2. CASE ResumeWrite
    BY <2>1, <2>2, WriteResetType DEF ResumeWrite
  <2>3. CASE RefreshOutQueue \/ OutPipeReset \/ OutPipeOnD0Exit \/ UNCHANGED writeVars
    BY <2>1, <2>3 DEF RefreshOutQueue, OutPipeReset, OutPipeOnD0Exit, writeVars, WriteTypeOK
  <2> QED
    BY <2>2, <2>3
<1>3. (zlpsRequired \in 0 .. 1 /\ zlpsSent \in 0 .. 1)'
  BY DEF RefreshOutQueue, OutPipeReset, OutPipeOnD0Exit, ResumeWrite, writeVars, WriteInv,
         BufferOnWire, WriteTypeOK
<1>4. WriteTypeOK'
  BY <1>1, <1>2, <1>3 DEF WriteInv, BufferOnWire, WriteTypeOK
<1>5. WriteExact' /\ WriteStageInv'
  BY <1>1 DEF WriteInv, BufferOnWire, WriteExact, WriteStageInv
<1> QED
  BY <1>4, <1>5 DEF WriteInv, BufferOnWire

-----------------------------------------------------------------------------
\* For packets, transfers and requests of every size: Xfer_WriteBulk and its
\* completion routine send the bytes of the buffer in order, each once, and
\* count what they have sent, whatever stage fails or is cancelled; a write
\* that succeeds has sent everything, and no data follows its zero-length
\* packet.
THEOREM WireIsBuffer == WriteSpec => []BufferOnWire
<1>1. WriteInit => WriteInv
  BY WriteInitOK
<1>2. WriteInv /\ [WriteNext]_writeVars => WriteInv'
  <2> SUFFICES ASSUME WriteInv, [WriteNext]_writeVars PROVE WriteInv'
    OBVIOUS
  <2>1. CASE \E r \in WriteRequests : WriteBulk(r)
    BY <2>1, WriteBulkOK
  <2>2. CASE \E n \in 0 .. MaxTransfer, status \in {"SUCCESS"} \cup WriteFailures :
                 WriteBulkComplete(n, status)
    BY <2>2, WriteBulkCompleteOK
  <2>3. CASE \/ RefreshOutQueue \/ OutPipeReset \/ OutPipeOnD0Exit \/ ResumeWrite
             \/ UNCHANGED writeVars
    BY <2>3, WriteOthersOK
  <2> QED
    BY <2>1, <2>2, <2>3 DEF WriteNext
<1>3. WriteInv => BufferOnWire
  BY DEF WriteInv
<1> QED
  BY <1>1, <1>2, <1>3, PTL DEF WriteSpec
=============================================================================
