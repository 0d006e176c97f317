---------------------------- MODULE IsoXfer_proofs ----------------------------
(***************************************************************************)
(* Proofs about the isochronous transfers of IsoXfer: for every packet     *)
(* size, packet limit, set of intervals and lengths, latency and number    *)
(* of transfers in flight,                                                 *)
(*   - every transfer in flight has packets that fill its buffer, no       *)
(*     larger than the endpoint's and whole frames of them at high speed;  *)
(*   - the transfers of a stream follow each other without a gap and       *)
(*     without two in one frame;                                           *)
(*   - the first one after a reset starts ahead of the bus;                *)
(*   - a read delivers the bytes of its packets, in order and without the  *)
(*     holes of short packets.                                             *)
(*                                                                         *)
(* The argument rests on two facts.  The driver adds the frames of a       *)
(* transfer to the next frame number as (n \div 8) * Period at high speed, *)
(* which is how long its packets are on the bus only because their number  *)
(* is a multiple of 8: SpanExact, and the lemmas on the number of packets. *)
(* And a frame number that is not to be fetched anew is always the one in  *)
(* which the last transfer ended: Chain.                                   *)
(***************************************************************************)
EXTENDS IsoXfer, SequenceTheorems, WellFoundedInduction, TLAPS

-----------------------------------------------------------------------------
(***************************************************************************)
(* Arithmetic.                                                             *)
(***************************************************************************)

\* Division with remainder.
LEMMA Division ==
    ASSUME NEW a \in Int, NEW n \in Int, n > 0
    PROVE  /\ a = n * (a \div n) + (a % n)
           /\ 0 <= a % n /\ a % n < n
<1>1. a = n * (a \div n) + (a % n)
  BY SMTT(30)
<1>2. 0 <= a % n /\ a % n < n
  OBVIOUS
<1> QED
  BY <1>1, <1>2

\* The quotient of natural numbers is one.
LEMMA Quotient ==
    ASSUME NEW a \in Nat, NEW n \in Nat \ {0}
    PROVE  a \div n \in Nat /\ a % n \in Nat
OBVIOUS

\* Multiplication by a natural number is monotonic.
LEMMA Monotonic ==
    ASSUME NEW a \in Int, NEW b \in Int, NEW n \in Nat, a <= b
    PROVE  n * a <= n * b
OBVIOUS

\* Frame and packet numbers are rounded to whole frames.
LEMMA RoundedUp ==
    ASSUME NEW f \in Nat
    PROVE  LET g == ((f + 7) \div 8) * 8 IN g \in Nat /\ g >= f /\ g % 8 = 0
OBVIOUS

LEMMA RoundedDown ==
    ASSUME NEW n \in Nat
    PROVE  LET m == n - (n % 8) IN m \in Nat /\ m % 8 = 0
<1> DEFINE r == n % 8
<1>1. r \in Nat /\ r <= n
  OBVIOUS
<1>2. (n - r) % 8 = 0
  OBVIOUS
<1> QED
  BY <1>1, <1>2

LEMMA LeastType ==
    ASSUME NEW a \in Nat, NEW b \in Nat
    PROVE  /\ Least(a, b) \in Nat /\ Least(a, b) <= a /\ Least(a, b) <= b
           /\ Least(a, b) = a \/ Least(a, b) = b
BY DEF Least

\* Packets of 8 * m * p eighths of a frame take m * p frames.
LEMMA WholeFrames ==
    ASSUME NEW m \in Nat, NEW p \in Nat
    PROVE  m * p \in Nat /\ ((8 * m) * p + 7) \div 8 = m * p
<1> DEFINE q == m * p
<1>1. q \in Nat /\ (8 * m) * p = 8 * q
  OBVIOUS
<1> HIDE DEF q
<1>2. (8 * q + 7) \div 8 = q
  BY <1>1
<1> QED
  BY <1>1, <1>2 DEF q

-----------------------------------------------------------------------------
(***************************************************************************)
(* Loops: functions that are computed round by round, and induction over   *)
(* the rounds.                                                             *)
(***************************************************************************)

\* Every set of numbers has a smallest one: the form in which induction over
\* the packets of a transfer is used.
LEMMA Smallest ==
    ASSUME NEW S \in SUBSET Nat, S # {}
    PROVE  \E n \in S : \A m \in S : n <= m
<1> DEFINE R == OpToRel(<, Nat)
<1>1. IsWellFoundedOn(R, Nat)
  BY NatLessThanWellFounded
<1>2. PICK n \in S : \A m \in S : <<m, n>> \notin R
  BY <1>1, WFMin
<1>3. \A m \in S : ~(m < n)
  BY <1>2 DEF OpToRel
<1> QED
  BY <1>3

\* Induction up to N, for the set of numbers of which something holds.
LEMMA UpTo ==
    ASSUME NEW N \in Nat, NEW S, 0 \in S, \A i \in 1 .. N : i - 1 \in S => i \in S
    PROVE  \A i \in 0 .. N : i \in S
<1> DEFINE Bad == (0 .. N) \ S
<1> SUFFICES ASSUME Bad # {} PROVE FALSE
  OBVIOUS
<1>1. Bad \in SUBSET Nat
  OBVIOUS
<1>2. PICK n \in Bad : \A m \in Bad : n <= m
  <2> HIDE DEF Bad
  <2> QED
    BY <1>1, Smallest
<1>3. n \in 1 .. N
  BY <1>2
<1>4. n - 1 \in S
  BY <1>2, <1>3
<1> QED
  BY <1>2, <1>3, <1>4

\* A loop of N rounds that starts with b computes a function.
Rounds(f, N, b, step) ==
    f = [i \in 0 .. N |-> IF i = 0 THEN b ELSE step[i][f[i - 1]]]

LEMMA LoopExists ==
    ASSUME NEW N \in Nat, NEW V, NEW b \in V, NEW step \in [1 .. N -> [V -> V]]
    PROVE  \E f \in [0 .. N -> V] : Rounds(f, N, b, step)
<1> DEFINE Runs(f, n) ==
               f \in [0 .. n -> V] /\ \A i \in 0 .. n : f[i] = IF i = 0 THEN b ELSE step[i][f[i - 1]]
           Good == {n \in 0 .. N : \E f : Runs(f, n)}
<1> HIDE DEF Runs
<1>1. 0 \in Good
  <2>1. Runs([i \in 0 .. 0 |-> b], 0)
    BY DEF Runs
  <2> QED
    BY <2>1
<1>2. ASSUME NEW n \in 1 .. N, n - 1 \in Good PROVE n \in Good
  <2>1. PICK f : Runs(f, n - 1)
    BY <1>2
  <2> DEFINE g == [i \in 0 .. n |-> IF i = n THEN step[n][f[n - 1]] ELSE f[i]]
  <2>2. f[n - 1] \in V /\ step[n] \in [V -> V]
    BY <2>1 DEF Runs
  <2>3. \A i \in 0 .. n : g[i] \in V
    BY <2>1, <2>2 DEF Runs
  <2>4. \A i \in 0 .. n : g[i] = IF i = 0 THEN b ELSE step[i][g[i - 1]]
    BY <2>1 DEF Runs
  <2>5. Runs(g, n)
    BY <2>3, <2>4 DEF Runs
  <2> HIDE DEF g
  <2> QED
    BY <2>5
<1>3. N \in Good
  <2> HIDE DEF Good
  <2>1. \A i \in 0 .. N : i \in Good
    BY <1>1, <1>2, UpTo
  <2> QED
    BY <2>1
<1>4. PICK f : Runs(f, N)
  BY <1>3
<1>5. f = [i \in 0 .. N |-> IF i = 0 THEN b ELSE step[i][f[i - 1]]]
  <2> DEFINE g == [i \in 0 .. N |-> IF i = 0 THEN b ELSE step[i][f[i - 1]]]
  <2>1. f \in [0 .. N -> V] /\ \A i \in 0 .. N : f[i] = g[i]
    BY <1>4 DEF Runs
  <2>2. g \in [0 .. N -> V]
    BY <2>1
  <2> HIDE DEF g
  <2>3. f = g
    BY <2>1, <2>2
  <2> QED
    BY <2>3 DEF g
<1> QED
  BY <1>4, <1>5 DEF Rounds, Runs

\* The rounds of FlattenSeq: each appends the next sequence.
Flattens(f, n, seqs) ==
    /\ f[1] = seqs[1]
    /\ \A i \in 2 .. n : f[i] = f[i - 1] \o seqs[i]
    /\ FlattenSeq(seqs) = f[n]

LEMMA Flattened ==
    ASSUME NEW T, NEW n \in Nat \ {0}, NEW seqs \in [1 .. n -> Seq(T)]
    PROVE  \E f \in [1 .. n -> Seq(T)] : Flattens(f, n, seqs)
<1> DEFINE Cat(s, t) == s \o t
           step == [i \in 1 .. n - 1 |-> [s \in Seq(T) |-> Cat(s, seqs[i + 1])]]
           round(f) == [i \in 1 .. n |-> IF i = 1 THEN seqs[i] ELSE Cat(f[i - 1], seqs[i])]
           flatten == CHOOSE f : f = round(f)
<1>1. FlattenSeq(seqs) = flatten[n]
  <2>1. Len(seqs) = n
    OBVIOUS
  <2> QED
    BY <2>1 DEF FlattenSeq
<1>2. \A s, t \in Seq(T) : Cat(s, t) \in Seq(T)
  BY ConcatProperties
<1> HIDE DEF Cat
<1>3. step \in [1 .. n - 1 -> [Seq(T) -> Seq(T)]]
  <2>1. \A i \in 1 .. n - 1 : seqs[i + 1] \in Seq(T)
    OBVIOUS
  <2>2. \A i \in 1 .. n - 1 : \A s \in Seq(T) : Cat(s, seqs[i + 1]) \in Seq(T)
    BY <1>2, <2>1
  <2> QED
    BY <2>2
<1>4. seqs[1] \in Seq(T) /\ n - 1 \in Nat
  OBVIOUS
<1>5. PICK g \in [0 .. n - 1 -> Seq(T)] : Rounds(g, n - 1, seqs[1], step)
  <2> HIDE DEF step
  <2> QED
    BY <1>3, <1>4, LoopExists
<1>6. \A i \in 0 .. n - 1 : g[i] = IF i = 0 THEN seqs[1] ELSE Cat(g[i - 1], seqs[i + 1])
  <2>1. \A i \in 0 .. n - 1 : g[i] = IF i = 0 THEN seqs[1] ELSE step[i][g[i - 1]]
    BY <1>5 DEF Rounds
  <2>2. \A i \in 1 .. n - 1 : step[i][g[i - 1]] = Cat(g[i - 1], seqs[i + 1])
    BY <1>5
  <2> HIDE DEF step
  <2>3. \A i \in 0 .. n - 1 : i = 0 \/ i \in 1 .. n - 1
    OBVIOUS
  <2> QED
    BY <2>1, <2>2, <2>3, Zenon
<1> DEFINE h == [i \in 1 .. n |-> g[i - 1]]
<1>7. h = round(h)
  <2>1. \A i \in 1 .. n : h[i] = IF i = 1 THEN seqs[i] ELSE Cat(h[i - 1], seqs[i])
    <3> TAKE i \in 1 .. n
    <3>1. i - 1 \in 0 .. n - 1 /\ h[i] = g[i - 1]
      OBVIOUS
    <3>2. CASE i = 1
      BY <1>6, <3>1, <3>2
    <3>3. CASE i # 1
      <4>1. i - 1 \in 1 .. n /\ h[i - 1] = g[i - 1 - 1] /\ (i - 1) + 1 = i
        BY <3>3
      <4>2. g[i - 1] = Cat(g[i - 1 - 1], seqs[(i - 1) + 1])
        BY <1>6, <3>1, <3>3
      <4> QED
        BY <3>1, <3>3, <4>1, <4>2
    <3> QED
      BY <3>2, <3>3
  <2>2. h \in [1 .. n -> Seq(T)]
    BY <1>5
  <2>3. \A i \in 1 .. n : h[i] = round(h)[i]
    BY <2>1
  <2>4. round(h) \in [1 .. n -> Seq(T)]
    BY <2>2, <2>3
  <2> HIDE DEF h, round
  <2> QED
    BY <2>2, <2>3, <2>4
<1>8. flatten = round(flatten)
  <2> HIDE DEF round, h
  <2> QED
    BY <1>7
<1> HIDE DEF flatten, h, step
<1>9. \A i \in 1 .. n : flatten[i] = IF i = 1 THEN seqs[i] ELSE Cat(flatten[i - 1], seqs[i])
  <2>1. \A i \in 1 .. n : round(flatten)[i] = IF i = 1 THEN seqs[i] ELSE Cat(flatten[i - 1], seqs[i])
    OBVIOUS
  <2> HIDE DEF round
  <2> QED
    BY <1>8, <2>1, Zenon
<1>10. /\ flatten[1] = seqs[1]
       /\ \A i \in 2 .. n : flatten[i] = Cat(flatten[i - 1], seqs[i])
  BY <1>9
<1>11. \A i \in 1 .. n : flatten[i] \in Seq(T)
  <2> DEFINE Good == {i \in 0 .. n - 1 : flatten[i + 1] \in Seq(T)}
  <2>1. 0 \in Good
    BY <1>4, <1>10
  <2>2. ASSUME NEW i \in 1 .. n - 1, i - 1 \in Good PROVE i \in Good
    <3>1. flatten[(i - 1) + 1] \in Seq(T) /\ (i - 1) + 1 = i
      BY <2>2
    <3>2. flatten[i + 1] = Cat(flatten[i], seqs[i + 1]) /\ seqs[i + 1] \in Seq(T)
      <4>1. i + 1 \in 2 .. n /\ (i + 1) - 1 = i
        OBVIOUS
      <4> QED
        BY <1>10, <4>1
    <3>3. flatten[i + 1] \in Seq(T)
      BY <1>2, <3>1, <3>2
    <3> QED
      BY <3>3
  <2>3. \A i \in 0 .. n - 1 : i \in Good
    <3> HIDE DEF Good
    <3> QED
      BY <1>4, <2>1, <2>2, UpTo
  <2> TAKE i \in 1 .. n
  <2>4. i - 1 \in 0 .. n - 1 /\ (i - 1) + 1 = i
    OBVIOUS
  <2> QED
    BY <2>3, <2>4
<1>12. flatten \in [1 .. n -> Seq(T)]
  <2>1. round(flatten) = [i \in 1 .. n |-> round(flatten)[i]]
    OBVIOUS
  <2>2. flatten = [i \in 1 .. n |-> flatten[i]]
    <3> HIDE DEF round
    <3> QED
      BY <1>8, <2>1, Zenon
  <2> QED
    BY <1>11, <2>2
<1> QED
  BY <1>1, <1>10, <1>12 DEF Cat, Flattens

-----------------------------------------------------------------------------
(***************************************************************************)
(* Periods and numbers of packets.                                         *)
(***************************************************************************)

PipeType == [hs : BOOLEAN, interval : Intervals, in : BOOLEAN]

PolicyType == [asap : BOOLEAN, fixed : Nat, autoClear : BOOLEAN, resetOnResume : BOOLEAN]

\* Policy_SetPipe admits fixed numbers the driver can send only.
FixedOK == policy.fixed <= MaxPackets /\ (pipe.hs => policy.fixed % 8 = 0)

LEMMA PeriodType ==
    ASSUME pipe \in PipeType
    PROVE  Period \in Nat
<1>1. pipe.interval \in 1 .. 6
  BY IsoAssumption DEF PipeType
<1>2. \A k \in 1 .. 6 : 2 ^ (k - 1) \in Nat
  <2> TAKE k \in 1 .. 6
  <2>1. /\ 2 ^ (1 - 1) \in Nat /\ 2 ^ (2 - 1) \in Nat /\ 2 ^ (3 - 1) \in Nat
        /\ 2 ^ (4 - 1) \in Nat /\ 2 ^ (5 - 1) \in Nat /\ 2 ^ (6 - 1) \in Nat
    OBVIOUS
  <2>2. k = 1 \/ k = 2 \/ k = 3 \/ k = 4 \/ k = 5 \/ k = 6
    OBVIOUS
  <2> QED
    BY <2>1, <2>2
<1>3. CASE pipe.hs
  BY <1>1, <1>2, <1>3 DEF Period
<1>4. CASE ~pipe.hs
  <2>1. pipe.interval = 1 \/ pipe.interval \in 2 .. 3 \/ pipe.interval \in 4 .. 6
    BY <1>1
  <2> QED
    BY <1>4, <2>1 DEF Period
<1> QED
  BY <1>3, <1>4

\* What mXfer_IsoAssignNextFrameNumber adds to the next frame number is how long
\* the packets are on the bus.
LEMMA SpanExact ==
    ASSUME pipe \in PipeType, NEW n \in Nat, pipe.hs => n % 8 = 0
    PROVE  FramesOf(n) \in Nat /\ FramesOf(n) = Duration(n)
<1>1. Period \in Nat
  BY PeriodType
<1>2. CASE pipe.hs
  <2> DEFINE m == n \div 8
             p == Period
  <2>1. m \in Nat /\ n = 8 * m
    BY <1>2
  <2>2. FramesOf(n) = m * p /\ Duration(n) = (n * p + 7) \div 8
    BY <1>2 DEF FramesOf, Duration
  <2>3. p \in Nat
    BY <1>1
  <2> HIDE DEF m, p
  <2> QED
    BY <2>1, <2>2, <2>3, WholeFrames
<1>3. CASE ~pipe.hs
  <2>1. n * Period \in Nat
    BY <1>1
  <2> QED
    BY <1>3, <2>1 DEF FramesOf, Duration
<1> QED
  BY <1>2, <1>3

LEMMA MaxPacketsType == /\ MaxPackets \in Nat
                        /\ pipe.hs => MaxPackets % 8 = 0
BY IsoAssumption DEF MaxPackets

\* XferIsoRead cuts a read into packets that are allocated, whole frames of them.
LEMMA ReadPacketsOK ==
    ASSUME NEW len \in Nat
    PROVE  /\ ReadPackets(len) \in Nat /\ ReadPackets(len) <= MaxPackets
           /\ pipe.hs => ReadPackets(len) % 8 = 0
<1> DEFINE n == len \div MPS
           k == IF pipe.hs THEN n - (n % 8) ELSE n
<1>1. n \in Nat
  BY IsoAssumption, Quotient
<1> HIDE DEF n
<1>2. k \in Nat /\ (pipe.hs => k % 8 = 0)
  BY <1>1, RoundedDown
<1> HIDE DEF k
<1>3. ReadPackets(len) = Least(MaxPackets, k)
  BY DEF ReadPackets, k, n
<1> QED
  BY <1>2, <1>3, LeastType, MaxPacketsType

\* XferIsoWrite does the same for a write, or takes the fixed number.
LEMMA WritePacketsOK ==
    ASSUME policy \in PolicyType, FixedOK, NEW len \in Nat, WriteFits(len)
    PROVE  /\ WritePackets(len) \in Nat \ {0} /\ WritePackets(len) <= MaxPackets
           /\ pipe.hs => WritePackets(len) % 8 = 0
<1>1. CASE policy.fixed # 0
  BY <1>1 DEF WritePackets, FixedOK, PolicyType
<1>2. CASE policy.fixed = 0
  <2> DEFINE n == (len + MPS - 1) \div MPS
  <2>1. n \in Nat
    <3>1. len + MPS - 1 \in Nat
      BY IsoAssumption
    <3> QED
      BY <3>1, IsoAssumption, Quotient
  <2>2. WritePackets(len) = IF pipe.hs THEN ((n + 7) \div 8) * 8 ELSE n
    BY <1>2 DEF WritePackets
  <2>3. WritePackets(len) \in 1 .. MaxPackets
    BY <1>2 DEF WriteFits
  <2> HIDE DEF n
  <2>4. pipe.hs => WritePackets(len) % 8 = 0
    BY <2>1, <2>2, RoundedUp
  <2> QED
    BY <2>3, <2>4, MaxPacketsType
<1> QED
  BY <1>1, <1>2

-----------------------------------------------------------------------------
(***************************************************************************)
(* The packets of one transfer.                                            *)
(***************************************************************************)

XferType == [kind : {"read", "write", "ex"}, length : Nat, offsets : Seq(Nat)]

\* One packet lies behind the other, to the end of the buffer.
Fills(x) ==
    /\ x.offsets # << >> /\ x.offsets[1] = 0
    /\ \A i \in 1 .. Len(x.offsets) :
          /\ PacketSize(x, i) >= 0
          /\ x.length <= Len(x.offsets) * MPS => PacketSize(x, i) <= MPS

\* A read's packets are of the endpoint's size, one behind the other.
ReadShape(x) ==
    /\ x.length = Len(x.offsets) * MPS
    /\ \A i \in 1 .. Len(x.offsets) : x.offsets[i] = (i - 1) * MPS

\* The transfers a pipe can have in flight.
Xfers ==
    {x \in XferType : /\ Fills(x)
                      /\ x.kind # "ex" => Len(x.offsets) <= MaxPackets
                      /\ x.kind = "read" => ReadShape(x)
                      /\ pipe.hs => Len(x.offsets) % 8 = 0}

\* Packets of the endpoint's size, as IsoK_SetPackets and XferIsoRead set them.
LEMMA EqualPackets ==
    ASSUME NEW kind \in {"read", "write", "ex"}, NEW len \in Nat,
           NEW n \in Nat \ {0}, (n - 1) * MPS <= len,
           NEW x, x = Transfer(kind, len, [i \in 1 .. n |-> (i - 1) * MPS])
    PROVE  x \in XferType /\ Fills(x) /\ Len(x.offsets) = n /\ x.kind = kind
<1> DEFINE f == [i \in 1 .. n |-> (i - 1) * MPS]
<1>1. \A i \in 1 .. n : f[i] = (i - 1) * MPS /\ f[i] \in Nat
  <2> TAKE i \in 1 .. n
  <2>1. i - 1 \in Nat /\ MPS \in Nat
    BY IsoAssumption
  <2>2. (i - 1) * MPS \in Nat
    BY <2>1
  <2> QED
    BY <2>2
<1>2. f \in Seq(Nat) /\ Len(f) = n /\ f # << >>
  <2>1. f \in [1 .. n -> Nat]
    BY <1>1
  <2>2. f \in Seq(Nat) /\ Len(f) = n
    BY <2>1, IsASeq, LenProperties
  <2> QED
    BY <2>2, EmptySeq
<1> HIDE DEF f
<1>3. x.kind = kind /\ x.length = len /\ x.offsets = f /\ x \in XferType
  BY <1>2 DEF Transfer, XferType, f
<1>4. f[1] = 0
  <2>1. 0 * MPS = 0 /\ 1 \in 1 .. n /\ 1 - 1 = 0
    BY IsoAssumption
  <2> QED
    BY <1>1, <2>1
<1>5. ASSUME NEW i \in 1 .. n
      PROVE  /\ PacketSize(x, i) >= 0
             /\ len <= n * MPS => PacketSize(x, i) <= MPS
  <2>1. CASE i # n
    <3>1. i + 1 \in 1 .. n /\ (i + 1) - 1 = i /\ i = (i - 1) + 1
      BY <2>1
    <3>2. PacketSize(x, i) = i * MPS - (i - 1) * MPS
      BY <1>1, <1>2, <1>3, <2>1, <3>1 DEF PacketSize
    <3>3. i * MPS - (i - 1) * MPS = MPS
      BY IsoAssumption
    <3> QED
      BY <3>2, <3>3, IsoAssumption
  <2>2. CASE i = n
    <3>1. PacketSize(x, i) = len - (n - 1) * MPS
      BY <1>1, <1>2, <1>3, <2>2 DEF PacketSize
    <3>2. n * MPS = (n - 1) * MPS + MPS /\ (n - 1) * MPS \in Int
      BY IsoAssumption
    <3> QED
      BY <3>1, <3>2, IsoAssumption
  <2> QED
    BY <2>1, <2>2
<1> QED
  BY <1>2, <1>3, <1>4, <1>5 DEF Fills

\* Where the packets of a write start: the first r of them are one byte larger.
LEMMA WritePacketSizes ==
    ASSUME NEW len \in Nat, NEW n \in Nat \ {0}, NEW i \in 1 .. n,
           NEW size, size = (IF i = n THEN len ELSE WriteOffset(len, n, i))
                            - WriteOffset(len, n, i - 1)
    PROVE  /\ WriteOffset(len, n, i - 1) \in Nat
           /\ size \in {len \div n} \cup {d \in {len \div n + 1} : len % n > 0}
<1> DEFINE d == len \div n
           r == len % n
<1>1. /\ d \in Nat /\ r \in Nat /\ r < n /\ len = n * d + r
  BY Quotient, Division
<1>2. WriteOffset(len, n, i - 1) = (i - 1) * d + Least(i - 1, r)
  BY DEF WriteOffset
<1>3. WriteOffset(len, n, i) = i * d + Least(i, r)
  BY DEF WriteOffset
<1>4. size \in {d} \cup {e \in {d + 1} : r > 0}
      /\ WriteOffset(len, n, i - 1) \in Nat
  <2> HIDE DEF d, r
  <2> DEFINE a == (i - 1) * d
  <2>1. a \in Nat /\ i * d = a + d
    <3>1. i - 1 \in Nat
      OBVIOUS
    <3> QED
      BY <1>1, <3>1
  <2>2. i = n => len = a + d + r
    BY <1>1, <2>1
  <2> HIDE DEF a
  <2>3. WriteOffset(len, n, i - 1) = a + Least(i - 1, r)
    BY <1>2 DEF a
  <2>4. WriteOffset(len, n, i) = a + d + Least(i, r)
    BY <1>1, <1>3, <2>1, LeastType
  <2>5. CASE i = n
    <3>1. i - 1 >= r
      BY <1>1, <2>5
    <3>2. Least(i - 1, r) = r
      BY <1>1, <3>1 DEF Least
    <3>3. size = (a + d + r) - (a + r)
      BY <2>2, <2>3, <2>5, <3>2
    <3> QED
      BY <1>1, <2>1, <2>3, <3>2, <3>3
  <2>6. CASE i # n
    <3>1. size = (a + d + Least(i, r)) - (a + Least(i - 1, r))
      BY <2>3, <2>4, <2>6
    <3>2. CASE i <= r
      <4>1. Least(i, r) = i /\ Least(i - 1, r) = i - 1 /\ r > 0
        BY <1>1, <3>2 DEF Least
      <4> QED
        BY <1>1, <2>1, <2>3, <3>1, <4>1
    <3>3. CASE ~(i <= r)
      <4>1. Least(i, r) = r /\ Least(i - 1, r) = r
        BY <1>1, <3>3 DEF Least
      <4> QED
        BY <1>1, <2>1, <2>3, <3>1, <4>1
    <3> QED
      BY <3>2, <3>3
  <2> QED
    BY <2>5, <2>6
<1> QED
  BY <1>4

\* No packet of a write is larger than the endpoint's, unless there are too few.
LEMMA WriteSizeBound ==
    ASSUME NEW len \in Nat, NEW n \in Nat \ {0}, len <= n * MPS
    PROVE  /\ len \div n <= MPS
           /\ len % n > 0 => len \div n + 1 <= MPS
<1> DEFINE d == len \div n
           r == len % n
<1>1. /\ d \in Nat /\ r \in Nat /\ len = n * d + r
  BY Quotient, Division
<1>2. MPS \in Nat
  BY IsoAssumption
<1> HIDE DEF d, r
<1>3. d <= MPS
  <2>1. SUFFICES ASSUME MPS + 1 <= d PROVE FALSE
    BY <1>1, <1>2
  <2>2. n * (MPS + 1) <= n * d
    BY <1>1, <1>2, <2>1, Monotonic
  <2>3. n * (MPS + 1) = n * MPS + n /\ n * MPS \in Nat /\ n * d \in Nat
    BY <1>1, <1>2
  <2> QED
    BY <1>1, <2>2, <2>3
<1>4. ASSUME r > 0 PROVE d + 1 <= MPS
  <2>1. SUFFICES ASSUME MPS <= d PROVE FALSE
    BY <1>1, <1>2
  <2>2. n * MPS <= n * d
    BY <1>1, <1>2, <2>1, Monotonic
  <2>3. n * MPS \in Nat /\ n * d \in Nat
    BY <1>1, <1>2
  <2> QED
    BY <1>1, <1>4, <2>2, <2>3
<1> QED
  BY <1>3, <1>4 DEF d, r

\* The packets of a write, as XferIsoWrite sets them.
LEMMA WritePacketsFill ==
    ASSUME NEW len \in Nat, NEW n \in Nat \ {0},
           NEW x, x = Transfer("write", len, [i \in 1 .. n |-> WriteOffset(len, n, i - 1)])
    PROVE  x \in XferType /\ Fills(x) /\ Len(x.offsets) = n /\ x.kind = "write"
<1> DEFINE f == [i \in 1 .. n |-> WriteOffset(len, n, i - 1)]
<1>1. \A i \in 1 .. n : f[i] = WriteOffset(len, n, i - 1) /\ f[i] \in Nat
  BY WritePacketSizes
<1>2. f \in Seq(Nat) /\ Len(f) = n /\ f # << >>
  <2>1. f \in [1 .. n -> Nat]
    BY <1>1
  <2>2. f \in Seq(Nat) /\ Len(f) = n
    BY <2>1, IsASeq, LenProperties
  <2> QED
    BY <2>2, EmptySeq
<1> HIDE DEF f
<1>3. x.kind = "write" /\ x.length = len /\ x.offsets = f /\ x \in XferType
  BY <1>2 DEF Transfer, XferType, f
<1>4. f[1] = 0
  <2> DEFINE d == len \div n
             r == len % n
  <2>1. d \in Nat /\ r \in Nat
    BY Quotient
  <2>2. WriteOffset(len, n, 0) = 0 * d + Least(0, r)
    BY DEF WriteOffset
  <2> HIDE DEF d, r
  <2>3. Least(0, r) = 0 /\ 0 * d = 0
    BY <2>1 DEF Least
  <2> QED
    BY <1>1, <2>2, <2>3
<1>5. ASSUME NEW i \in 1 .. n
      PROVE  /\ PacketSize(x, i) >= 0
             /\ len <= n * MPS => PacketSize(x, i) <= MPS
  <2> DEFINE size == (IF i = n THEN len ELSE WriteOffset(len, n, i)) - WriteOffset(len, n, i - 1)
             d == len \div n
             r == len % n
  <2>1. PacketSize(x, i) = size
    <3>1. i # n => i + 1 \in 1 .. n /\ (i + 1) - 1 = i
      OBVIOUS
    <3> QED
      BY <1>1, <1>2, <1>3, <3>1 DEF PacketSize
  <2>2. size \in {d} \cup {e \in {d + 1} : r > 0}
    BY WritePacketSizes
  <2>3. len <= n * MPS => d <= MPS /\ (r > 0 => d + 1 <= MPS)
    BY WriteSizeBound
  <2>4. d \in Nat
    BY Quotient
  <2> HIDE DEF size, d, r
  <2> QED
    BY <2>1, <2>2, <2>3, <2>4
<1> QED
  BY <1>2, <1>3, <1>4, <1>5 DEF Fills

-----------------------------------------------------------------------------
(***************************************************************************)
(* The inductive invariant.                                                *)
(***************************************************************************)

QueueType == [fresh : BOOLEAN, next : Nat, stall : BOOLEAN, resume : BOOLEAN]

Types ==
    /\ pipe \in PipeType /\ policy \in PolicyType /\ queue \in QueueType
    /\ frame \in 0 .. MaxTime
    /\ inFlight \in Seq(Xfers) /\ Len(inFlight) <= MaxInFlight
    /\ lastEnd \in Nat \cup {-1}

\* A frame number that will be used as it is was left by the transfer sent last.
Chain == lastEnd # -1 /\ ~queue.fresh => queue.next = lastEnd

IInv == Types /\ FixedOK /\ Chain /\ FramesContiguous

LEMMA InvImpliesWellFormed == IInv => TransfersWellFormed
<1> SUFFICES ASSUME IInv PROVE TypeOK /\ PacketsFillBuffer
  BY DEF TransfersWellFormed
<1>1. Types
  BY DEF IInv
<1>2. ASSUME NEW i \in DOMAIN inFlight
      PROVE  inFlight[i] \in Xfers
  BY <1>1, <1>2, ElementOfSeq, LenProperties DEF Types
<1>3. TypeOK
  BY <1>1, <1>2 DEF Types, TypeOK, PipeType, PolicyType, QueueType, Xfers, XferType, Fills
<1>4. PacketsFillBuffer
  BY <1>2 DEF PacketsFillBuffer, Xfers, Fills
<1> QED
  BY <1>3, <1>4

LEMMA InitOK == Init => IInv
<1> SUFFICES ASSUME Init PROVE IInv
  OBVIOUS
<1>1. pipe \in PipeType /\ policy \in PolicyType /\ policy.fixed = 0
  <2>1. PICK b \in BOOLEAN : policy = [asap |-> ~pipe.in, fixed |-> 0,
                                      autoClear |-> b, resetOnResume |-> b]
    BY DEF Init
  <2>2. pipe \in PipeType
    BY DEF Init, PipeType
  <2> DEFINE a == ~pipe.in
  <2>3. a \in BOOLEAN
    OBVIOUS
  <2>4. policy = [asap |-> a, fixed |-> 0, autoClear |-> b, resetOnResume |-> b]
    BY <2>1
  <2> HIDE DEF a
  <2>5. policy \in PolicyType /\ policy.fixed = 0
    BY <2>3, <2>4 DEF PolicyType
  <2> QED
    BY <2>2, <2>5
<1>2. queue = [fresh |-> TRUE, next |-> 0, stall |-> FALSE, resume |-> FALSE]
  BY DEF Init
<1>3. Types
  <2>1. queue \in QueueType
    BY <1>2 DEF QueueType
  <2>2. inFlight \in Seq(Xfers) /\ Len(inFlight) = 0
    BY EmptySeq DEF Init
  <2> QED
    BY <1>1, <2>1, <2>2, IsoAssumption DEF Init, Types
<1>4. FixedOK
  BY <1>1, MaxPacketsType DEF FixedOK
<1>5. Chain
  BY <1>2 DEF Chain
<1>6. FramesContiguous
  BY DEF Init, FramesContiguous, NotSent
<1> QED
  BY <1>3, <1>4, <1>5, <1>6 DEF IInv

-----------------------------------------------------------------------------
(***************************************************************************)
(* A submission.                                                           *)
(***************************************************************************)

\* The queue after the reset a transfer may need, and after the bus was asked.
LEMMA ReadyOK ==
    ASSUME queue \in QueueType, NEW resetOk \in BOOLEAN
    PROVE  /\ Ready(resetOk) \in QueueType
           /\ Ready(resetOk) = queue \/ Ready(resetOk).fresh
BY DEF Ready, Reset, QueueType

LEMMA FetchedOK ==
    ASSUME frame \in Nat, NEW q \in QueueType, NEW ok \in BOOLEAN
    PROVE  /\ Fetched(q, ok) \in QueueType
           /\ ok => Fetched(q, ok).next >= frame + Latency
<1> DEFINE f == frame + Latency
           g == ((f + 7) \div 8) * 8
           next == IF ~ok THEN 0 ELSE IF pipe.hs THEN g ELSE f
<1>1. f \in Nat
  BY IsoAssumption
<1>2. g \in Nat /\ g >= f
  BY <1>1, RoundedUp
<1>3. Fetched(q, ok) = [q EXCEPT !.fresh = FALSE, !.next = next]
  BY DEF Fetched
<1> HIDE DEF g
<1>4. next \in Nat /\ (ok => next >= f)
  BY <1>1, <1>2
<1> HIDE DEF f, next
<1>5. /\ [q EXCEPT !.fresh = FALSE, !.next = next] \in QueueType
      /\ [q EXCEPT !.fresh = FALSE, !.next = next].next = next
  BY <1>4 DEF QueueType
<1> QED
  BY <1>3, <1>4, <1>5 DEF f

LEMMA SendOK ==
    ASSUME IInv, NEW x \in Xfers, NEW start, NEW resetOk \in BOOLEAN,
           NEW frameOk \in BOOLEAN, NEW sendOk \in BOOLEAN,
           Send(x, start, resetOk, frameOk, sendOk)
    PROVE  IInv'
<1> DEFINE q == Ready(resetOk)
           chooses == ~policy.asap /\ start = -1
           asks == chooses /\ q.fresh
           q1 == IF asks THEN Fetched(q, frameOk) ELSE q
           scheduled == chooses /\ (asks => frameOk)
           end == IF asks THEN -1 ELSE lastEnd
           n == Len(x.offsets)
           q2 == [q1 EXCEPT !.next = @ + FramesOf(n)]
<1>1. Types /\ FixedOK /\ Chain
  BY DEF IInv
<1>2. /\ queue' = IF scheduled THEN q2 ELSE q1
      /\ inFlight' = IF sendOk THEN Append(inFlight, x) ELSE inFlight
      /\ sent' = IF sendOk /\ scheduled
                 THEN [scheduled |-> TRUE, start |-> q1.next, follows |-> end] ELSE NotSent
      /\ lastEnd' = IF ~scheduled THEN end
                    ELSE IF sendOk THEN q1.next + Duration(n) ELSE -1
      /\ Len(inFlight) < MaxInFlight
      /\ pipe' = pipe /\ policy' = policy /\ frame' = frame
  BY DEF Send
<1>3. n \in Nat /\ FramesOf(n) \in Nat /\ FramesOf(n) = Duration(n)
  <2>1. x.offsets \in Seq(Nat) /\ (pipe.hs => n % 8 = 0) /\ pipe \in PipeType
    BY <1>1 DEF Types, Xfers, XferType
  <2>2. n \in Nat
    BY <2>1, LenProperties
  <2> HIDE DEF n
  <2> QED
    BY <2>1, <2>2, SpanExact
<1>4. q \in QueueType /\ (q = queue \/ q.fresh)
  BY <1>1, ReadyOK DEF Types
<1>5. frame \in Nat
  BY <1>1, IsoAssumption DEF Types
<1> HIDE DEF n, q
<1>6. q1 \in QueueType
  BY <1>4, <1>5, FetchedOK
<1>7. end # -1 /\ ~q.fresh => q1 = queue /\ queue.next = end
  BY <1>1, <1>4 DEF Chain
<1>8. end # -1 => ~asks
  OBVIOUS
<1>9. end \in Nat \cup {-1}
  BY <1>1 DEF Types
<1>10. chooses /\ end # -1 => q1.next = end
  BY <1>7, <1>8
<1>11. ~asks => q1 = q
  OBVIOUS
<1> HIDE DEF q1, asks, end
<1>12. q1.next \in Nat
  BY <1>6 DEF QueueType
<1>13. q2 \in QueueType /\ q2.next = q1.next + FramesOf(n)
  BY <1>3, <1>6, <1>12 DEF QueueType
<1> HIDE DEF q2
<1>14. Types'
  <2>1. inFlight' \in Seq(Xfers) /\ Len(inFlight') <= MaxInFlight
    <3>1. inFlight \in Seq(Xfers) /\ Len(inFlight) \in Nat /\ Len(inFlight) < MaxInFlight
      BY <1>1, <1>2, LenProperties DEF Types
    <3>2. /\ Append(inFlight, x) \in Seq(Xfers)
          /\ Len(Append(inFlight, x)) = Len(inFlight) + 1
      BY <3>1, AppendProperties
    <3> QED
      BY <1>2, <3>1, <3>2, IsoAssumption
  <2>2. Xfers' = Xfers
    BY <1>2 DEF Xfers, MaxPackets
  <2>3. queue' \in QueueType
    BY <1>2, <1>6, <1>13
  <2>4. lastEnd' \in Nat \cup {-1}
    BY <1>2, <1>3, <1>9, <1>12
  <2> QED
    BY <1>1, <1>2, <2>1, <2>2, <2>3, <2>4 DEF Types
<1>15. FixedOK'
  BY <1>1, <1>2 DEF FixedOK, MaxPackets
<1>16. Chain'
  <2>1. CASE ~scheduled
    <3>1. queue' = q1 /\ lastEnd' = end
      BY <1>2, <2>1
    <3>2. end # -1 /\ ~q1.fresh => q1.next = end
      BY <1>7, <1>8, <1>11
    <3> QED
      BY <3>1, <3>2 DEF Chain
  <2>2. CASE scheduled
    BY <1>2, <1>3, <1>13, <2>2 DEF Chain
  <2> QED
    BY <2>1, <2>2
<1>17. FramesContiguous'
  <2>1. CASE sendOk /\ scheduled
    BY <1>2, <1>10, <2>1 DEF FramesContiguous
  <2>2. CASE ~(sendOk /\ scheduled)
    BY <1>2, <2>2 DEF FramesContiguous, NotSent
  <2> QED
    BY <2>1, <2>2
<1> QED
  BY <1>14, <1>15, <1>16, <1>17 DEF IInv

\* Every submission sends a transfer that can be in flight.
LEMMA SubmitReadSends ==
    ASSUME IInv, NEW len \in Lengths, NEW resetOk \in BOOLEAN, NEW frameOk \in BOOLEAN,
           NEW sendOk \in BOOLEAN, SubmitRead(len, resetOk, frameOk, sendOk)
    PROVE  \E x \in Xfers : Send(x, -1, resetOk, frameOk, sendOk)
<1> DEFINE n == ReadPackets(len)
           x == Transfer("read", n * MPS, [i \in 1 .. n |-> (i - 1) * MPS])
<1>1. n > 0 /\ Send(x, -1, resetOk, frameOk, sendOk)
  BY DEF SubmitRead
<1>2. n \in Nat /\ n <= MaxPackets /\ (pipe.hs => n % 8 = 0)
  BY ReadPacketsOK, IsoAssumption
<1> HIDE DEF n
<1>3. n \in Nat \ {0} /\ n * MPS \in Nat /\ (n - 1) * MPS <= n * MPS
  <2>1. n * MPS = (n - 1) * MPS + MPS /\ (n - 1) * MPS \in Int /\ n * MPS \in Nat
    BY <1>2, IsoAssumption
  <2> QED
    BY <1>1, <1>2, <2>1, IsoAssumption
<1>4. x \in XferType /\ Fills(x) /\ Len(x.offsets) = n
  BY <1>3, EqualPackets
<1>5. ReadShape(x)
  <2>1. x.length = n * MPS /\ x.offsets = [i \in 1 .. n |-> (i - 1) * MPS]
    BY DEF Transfer
  <2> HIDE DEF x
  <2> QED
    BY <1>4, <2>1 DEF ReadShape
<1> HIDE DEF x
<1>6. x \in Xfers
  BY <1>2, <1>4, <1>5 DEF Xfers
<1> QED
  BY <1>1, <1>6

LEMMA SubmitWriteSends ==
    ASSUME IInv, NEW len \in Lengths, NEW resetOk \in BOOLEAN, NEW frameOk \in BOOLEAN,
           NEW sendOk \in BOOLEAN, SubmitWrite(len, resetOk, frameOk, sendOk)
    PROVE  \E x \in Xfers : Send(x, -1, resetOk, frameOk, sendOk)
<1> DEFINE n == WritePackets(len)
           x == Transfer("write", len, [i \in 1 .. n |-> WriteOffset(len, n, i - 1)])
<1>1. WriteFits(len) /\ Send(x, -1, resetOk, frameOk, sendOk)
  BY DEF SubmitWrite
<1>2. len \in Nat
  BY IsoAssumption
<1>3. n \in Nat \ {0} /\ n <= MaxPackets /\ (pipe.hs => n % 8 = 0)
  BY <1>1, <1>2, WritePacketsOK DEF IInv, Types
<1> HIDE DEF n
<1>4. x \in XferType /\ Fills(x) /\ Len(x.offsets) = n /\ x.kind = "write"
  BY <1>2, <1>3, WritePacketsFill
<1> HIDE DEF x
<1>5. x \in Xfers
  BY <1>3, <1>4 DEF Xfers
<1> QED
  BY <1>1, <1>5

LEMMA SubmitExSends ==
    ASSUME IInv, NEW len \in Lengths, NEW n \in {1, 8}, NEW start \in {-1, MaxFrame},
           NEW resetOk \in BOOLEAN, NEW frameOk \in BOOLEAN, NEW sendOk \in BOOLEAN,
           SubmitEx(len, n, MPS, start, resetOk, frameOk, sendOk)
    PROVE  \E x \in Xfers : Send(x, start, resetOk, frameOk, sendOk)
<1> DEFINE x == Transfer("ex", len, [i \in 1 .. n |-> (i - 1) * MPS])
<1>1. /\ pipe.hs => n % 8 = 0
      /\ (n - 1) * MPS < len
      /\ Send(x, start, resetOk, frameOk, sendOk)
  BY DEF SubmitEx
<1>2. n \in Nat \ {0} /\ len \in Nat /\ (n - 1) * MPS <= len
  <2>1. n \in Nat \ {0} /\ len \in Nat /\ (n - 1) * MPS \in Int
    BY IsoAssumption
  <2> QED
    BY <1>1, <2>1
<1>3. x \in XferType /\ Fills(x) /\ Len(x.offsets) = n /\ x.kind = "ex"
  BY <1>2, EqualPackets
<1> HIDE DEF x
<1>4. x \in Xfers
  BY <1>1, <1>3 DEF Xfers
<1> QED
  BY <1>1, <1>4

-----------------------------------------------------------------------------
(***************************************************************************)
(* The other actions send nothing.                                         *)
(***************************************************************************)

\* What is true of a sequence of transfers without one of them.
LEMMA Removed ==
    ASSUME NEW s \in Seq(Xfers), NEW i \in DOMAIN s
    PROVE  RemoveAt(s, i) \in Seq(Xfers) /\ Len(RemoveAt(s, i)) <= Len(s)
<1>1. Len(s) \in Nat /\ i \in 1 .. Len(s)
  BY LenProperties
<1>2. /\ SubSeq(s, 1, i - 1) \in Seq(Xfers)
      /\ Len(SubSeq(s, 1, i - 1)) = IF 1 <= i - 1 THEN (i - 1) - 1 + 1 ELSE 0
  BY <1>1, SubSeqProperties
<1>3. /\ SubSeq(s, i + 1, Len(s)) \in Seq(Xfers)
      /\ Len(SubSeq(s, i + 1, Len(s))) = IF i + 1 <= Len(s) THEN Len(s) - (i + 1) + 1 ELSE 0
  BY <1>1, SubSeqProperties
<1> DEFINE a == SubSeq(s, 1, i - 1)
           b == SubSeq(s, i + 1, Len(s))
<1>4. RemoveAt(s, i) = a \o b
  BY DEF RemoveAt
<1>5. a \in Seq(Xfers) /\ b \in Seq(Xfers) /\ Len(a) + Len(b) <= Len(s)
  BY <1>1, <1>2, <1>3
<1> HIDE DEF a, b
<1>6. a \o b \in Seq(Xfers) /\ Len(a \o b) = Len(a) + Len(b)
  BY <1>5, ConcatProperties
<1> QED
  BY <1>4, <1>5, <1>6

\* A transfer is completed or cancelled.
LEMMA CompletedOK ==
    ASSUME IInv, sent' = NotSent, UNCHANGED Rest,
           \/ inFlight # << >> /\ inFlight' = Tail(inFlight)
           \/ \E i \in DOMAIN inFlight : inFlight' = RemoveAt(inFlight, i),
           \/ queue' = queue
           \/ queue' = [queue EXCEPT !.stall = TRUE]
    PROVE  IInv'
<1>1. Types /\ FixedOK /\ Chain
  BY DEF IInv
<1>2. pipe' = pipe /\ policy' = policy /\ frame' = frame /\ lastEnd' = lastEnd
  BY DEF Rest
<1>3. queue' \in QueueType /\ queue'.fresh = queue.fresh /\ queue'.next = queue.next
  BY <1>1 DEF Types, QueueType
<1>4. inFlight' \in Seq(Xfers) /\ Len(inFlight') <= MaxInFlight
  <2>1. /\ inFlight \in Seq(Xfers) /\ Len(inFlight) \in Nat /\ Len(inFlight) <= MaxInFlight
        /\ MaxInFlight \in Nat
    BY <1>1, LenProperties, IsoAssumption DEF Types
  <2>2. CASE inFlight # << >> /\ inFlight' = Tail(inFlight)
    <3>1. Tail(inFlight) \in Seq(Xfers) /\ Len(Tail(inFlight)) = Len(inFlight) - 1
      BY <2>1, <2>2, HeadTailProperties
    <3> QED
      BY <2>1, <2>2, <3>1
  <2>3. ASSUME NEW i \in DOMAIN inFlight, inFlight' = RemoveAt(inFlight, i)
        PROVE  inFlight' \in Seq(Xfers) /\ Len(inFlight') <= MaxInFlight
    <3>1. inFlight' \in Seq(Xfers) /\ Len(inFlight') <= Len(inFlight)
      BY <2>1, <2>3, Removed
    <3>2. Len(inFlight') \in Nat
      BY <3>1, LenProperties
    <3> QED
      BY <2>1, <3>1, <3>2
  <2> QED
    BY <2>2, <2>3
<1>5. Xfers' = Xfers
  BY <1>2 DEF Xfers, MaxPackets
<1>6. Types'
  BY <1>1, <1>2, <1>3, <1>4, <1>5 DEF Types
<1>7. FixedOK'
  BY <1>1, <1>2 DEF FixedOK, MaxPackets
<1>8. Chain'
  BY <1>1, <1>2, <1>3 DEF Chain
<1>9. FramesContiguous'
  BY DEF FramesContiguous, NotSent
<1> QED
  BY <1>6, <1>7, <1>8, <1>9 DEF IInv

\* The pipe is reset, the device suspended, or nothing of the stream changes.
LEMMA QueueOK ==
    ASSUME IInv, sent' = NotSent, UNCHANGED <<pipe, policy, inFlight, lastEnd>>,
           frame' \in 0 .. MaxTime, queue' \in QueueType,
           queue'.fresh \/ (queue'.fresh = queue.fresh /\ queue'.next = queue.next)
    PROVE  IInv'
<1>1. Types /\ FixedOK /\ Chain
  BY DEF IInv
<1>2. Xfers' = Xfers
  BY DEF Xfers, MaxPackets
<1>3. Types'
  BY <1>1, <1>2 DEF Types
<1>4. FixedOK'
  BY <1>1 DEF FixedOK, MaxPackets
<1>5. Chain'
  BY <1>1 DEF Chain
<1>6. FramesContiguous'
  BY DEF FramesContiguous, NotSent
<1> QED
  BY <1>3, <1>4, <1>5, <1>6 DEF IInv

LEMMA SetPolicyOK ==
    ASSUME IInv, NEW asap \in BOOLEAN, NEW fixed \in FixedPackets, SetPolicy(asap, fixed)
    PROVE  IInv'
<1>1. Types /\ FixedOK /\ Chain
  BY DEF IInv
<1>2. /\ policy' = [policy EXCEPT !.asap = asap, !.fixed = fixed]
      /\ fixed <= MaxPackets /\ (pipe.hs => fixed % 8 = 0)
      /\ sent' = NotSent /\ UNCHANGED <<pipe, queue, frame, inFlight, lastEnd>>
  BY DEF SetPolicy, Quiet
<1>3. policy' \in PolicyType /\ policy'.fixed = fixed
  BY <1>1, <1>2, IsoAssumption DEF Types, PolicyType
<1>4. Xfers' = Xfers
  BY <1>2 DEF Xfers, MaxPackets
<1>5. Types'
  BY <1>1, <1>2, <1>3, <1>4 DEF Types
<1>6. FixedOK'
  BY <1>2, <1>3 DEF FixedOK, MaxPackets
<1>7. Chain'
  BY <1>1, <1>2 DEF Chain
<1>8. FramesContiguous'
  BY <1>2 DEF FramesContiguous, NotSent
<1> QED
  BY <1>5, <1>6, <1>7, <1>8 DEF IInv

-----------------------------------------------------------------------------
(***************************************************************************)
(* The completion of a read.                                               *)
(***************************************************************************)

\* The bytes of a buffer.
BufferBytes == Nat \X Nat

\* What the device put into packet i.
Piece(lens, i) == [k \in 1 .. lens[i] |-> Byte(i, k - 1)]

\* After i rounds of the completion routine's loop: the data of i packets is at
\* the start of the buffer, what came in the other packets is where it was, and
\* if no packet was short nothing has moved.
Packed(x, lens, acc, data, i) ==
    /\ acc.buffer \in [1 .. x.length -> BufferBytes]
    /\ data \in Seq(BufferBytes) /\ acc.offset = Len(data) /\ Len(data) <= i * MPS
    /\ \A b \in 1 .. Len(data) : acc.buffer[b] = data[b]
    /\ \A j \in i + 1 .. Len(lens) : \A k \in 0 .. lens[j] - 1 :
           acc.buffer[(j - 1) * MPS + k + 1] = Byte(j, k)
    /\ Len(data) = i * MPS => acc.buffer = Received(x, lens)

\* The ends of whole packets.
LEMMA PacketEnds ==
    ASSUME NEW i \in Nat, NEW j \in Nat, i < j
    PROVE  /\ i * MPS \in Nat /\ j * MPS \in Nat
           /\ i * MPS + MPS <= j * MPS
<1>1. MPS \in Nat /\ i + 1 <= j
  BY IsoAssumption
<1>2. MPS * (i + 1) <= MPS * j
  BY <1>1, Monotonic
<1>3. MPS * (i + 1) = i * MPS + MPS /\ MPS * j = j * MPS
  BY <1>1
<1>4. i * MPS \in Nat /\ j * MPS \in Nat
  BY <1>1
<1> QED
  BY <1>2, <1>3, <1>4

\* Byte k of packet q + 1 is in that packet.
LEMMA PacketOf ==
    ASSUME NEW q \in Nat, NEW k \in 0 .. MPS - 1
    PROVE  (q * MPS + k) \div MPS = q /\ (q * MPS + k) % MPS = k
<1> DEFINE a == q * MPS + k
           d == a \div MPS
<1>1. a \in Nat /\ MPS \in Nat \ {0}
  BY IsoAssumption
<1>2. a = MPS * d + (a % MPS) /\ 0 <= a % MPS /\ a % MPS < MPS /\ d \in Nat
  <2> HIDE DEF a
  <2> QED
    BY <1>1, Division, Quotient
<1>3. a = q * MPS + k
  OBVIOUS
<1> HIDE DEF a, d
<1>4. CASE d < q
  <2>1. d * MPS + MPS <= q * MPS /\ d * MPS \in Nat /\ q * MPS \in Nat
    BY <1>2, <1>4, PacketEnds
  <2>2. MPS * d = d * MPS
    BY <1>1, <1>2
  <2> QED
    BY <1>1, <1>2, <1>3, <2>1, <2>2
<1>5. CASE q < d
  <2>1. q * MPS + MPS <= d * MPS /\ d * MPS \in Nat /\ q * MPS \in Nat
    BY <1>2, <1>5, PacketEnds
  <2>2. MPS * d = d * MPS
    BY <1>1, <1>2
  <2> QED
    BY <1>1, <1>2, <1>3, <2>1, <2>2
<1>6. CASE d = q
  <2>1. MPS * d = q * MPS /\ q * MPS \in Nat
    BY <1>1, <1>6
  <2>2. a % MPS = k
    BY <1>1, <1>2, <1>3, <2>1
  <2> QED
    BY <1>6, <2>2 DEF a, d
<1> QED
  BY <1>2, <1>4, <1>5, <1>6

\* What came in packet j is at its place in the buffer.
Landed(x, lens, n) ==
    /\ Received(x, lens) \in [1 .. x.length -> BufferBytes]
    /\ \A j \in 1 .. n : \A k \in 0 .. lens[j] - 1 :
          Received(x, lens)[(j - 1) * MPS + k + 1] = Byte(j, k)

LEMMA ReceivedIs ==
    ASSUME NEW n \in Nat, NEW x, x.length = n * MPS, NEW lens \in [1 .. n -> 0 .. MPS]
    PROVE  Landed(x, lens, n)
<1> DEFINE i(b) == (b - 1) \div MPS + 1
           k(b) == (b - 1) % MPS
<1>1. x.length \in Nat /\ MPS \in Nat \ {0}
  BY IsoAssumption
<1>2. Received(x, lens) \in [1 .. x.length -> BufferBytes]
  <2>1. \A b \in 1 .. x.length : i(b) \in Nat /\ k(b) \in Nat
    <3> TAKE b \in 1 .. x.length
    <3>1. b - 1 \in Nat
      BY <1>1
    <3>2. (b - 1) \div MPS \in Nat /\ (b - 1) % MPS \in Nat
      BY <1>1, <3>1, Quotient
    <3> QED
      BY <3>2
  <2> HIDE DEF i, k
  <2>2. \A b \in 1 .. x.length :
           (IF k(b) < lens[i(b)] THEN Byte(i(b), k(b)) ELSE Unwritten) \in BufferBytes
    BY <2>1 DEF Byte, Unwritten, BufferBytes
  <2>3. Received(x, lens) =
           [b \in 1 .. x.length |-> IF k(b) < lens[i(b)] THEN Byte(i(b), k(b)) ELSE Unwritten]
    BY DEF Received, i, k
  <2> QED
    BY <2>2, <2>3
<1>3. ASSUME NEW j \in 1 .. n, NEW m \in 0 .. lens[j] - 1
      PROVE  Received(x, lens)[(j - 1) * MPS + m + 1] = Byte(j, m)
  <2> DEFINE a == (j - 1) * MPS
             b == a + m + 1
  <2>1. m \in 0 .. MPS - 1 /\ j - 1 \in Nat
    BY <1>1
  <2>2. (a + m) \div MPS = j - 1 /\ (a + m) % MPS = m
    BY <2>1, PacketOf
  <2>3. a \in Nat /\ a + MPS <= x.length
    <3>1. a + MPS <= n * MPS /\ a \in Nat
      BY <2>1, PacketEnds
    <3> QED
      BY <3>1
  <2> HIDE DEF a
  <2>4. b \in 1 .. x.length /\ b - 1 = a + m
    BY <1>1, <2>1, <2>3
  <2>5. i(b) = j /\ k(b) = m
    <3> HIDE DEF b
    <3> QED
      BY <2>2, <2>4
  <2> HIDE DEF i, k, b
  <2>6. Received(x, lens)[b] = IF k(b) < lens[i(b)] THEN Byte(i(b), k(b)) ELSE Unwritten
    BY <2>4 DEF Received, i, k
  <2>7. m < lens[j]
    BY <2>1
  <2> QED
    BY <2>5, <2>6, <2>7 DEF a, b
<1> QED
  BY <1>2, <1>3 DEF Landed

\* One round of the loop: the bytes of packet i come behind those before it.
LEMMA PacketMoved ==
    ASSUME NEW n \in Nat, NEW x, ReadShape(x), Len(x.offsets) = n,
           NEW lens \in [1 .. n -> 0 .. MPS], NEW i \in 1 .. n,
           NEW acc, NEW data, Packed(x, lens, acc, data, i - 1)
    PROVE  Packed(x, lens, MovePacket(x, lens, acc, i), data \o Piece(lens, i), i)
<1> DEFINE from == (i - 1) * MPS
           o == Len(data)
           m == lens[i]
           L == x.length
           old == acc.buffer
           new == MovePacket(x, lens, acc, i).buffer
           piece == Piece(lens, i)
           result == data \o piece
<1>1. /\ MPS \in Nat \ {0} /\ i - 1 \in Nat /\ m \in 0 .. MPS
      /\ x.offsets[i] = from /\ L = n * MPS
  BY IsoAssumption DEF ReadShape
<1>2. /\ from \in Nat /\ i * MPS = from + MPS
      /\ from + MPS <= L /\ L \in Nat
  <2>1. (i - 1) * MPS + MPS <= n * MPS /\ (i - 1) * MPS \in Nat /\ n * MPS \in Nat
    BY <1>1, PacketEnds
  <2>2. i * MPS = (i - 1) * MPS + MPS
    BY <1>1
  <2> QED
    BY <1>1, <2>1, <2>2
<1>3. /\ old \in [1 .. L -> BufferBytes]
      /\ data \in Seq(BufferBytes) /\ acc.offset = o /\ o \in Nat /\ o <= from
      /\ \A b \in 1 .. o : old[b] = data[b]
      /\ \A j \in i .. n : \A k \in 0 .. lens[j] - 1 :
             old[(j - 1) * MPS + k + 1] = Byte(j, k)
      /\ o = from => old = Received(x, lens)
  <2>1. Len(lens) = n /\ (i - 1) + 1 = i
    BY <1>1
  <2>2. data \in Seq(BufferBytes)
    BY DEF Packed
  <2>3. o \in Nat
    BY <2>2, LenProperties
  <2> QED
    BY <2>1, <2>2, <2>3 DEF Packed
<1>4. piece \in Seq(BufferBytes) /\ Len(piece) = m /\ \A k \in 1 .. m : piece[k] = Byte(i, k - 1)
  <2>1. \A k \in 1 .. m : Byte(i, k - 1) \in BufferBytes
    BY <1>1 DEF Byte, BufferBytes
  <2>2. piece = [k \in 1 .. m |-> Byte(i, k - 1)]
    BY DEF Piece
  <2>3. piece \in [1 .. m -> BufferBytes] /\ m \in Nat
    BY <1>1, <2>1, <2>2
  <2> HIDE DEF piece, m
  <2> QED
    BY <2>2, <2>3
<1>5. /\ result \in Seq(BufferBytes) /\ Len(result) = o + m
      /\ \A b \in 1 .. o + m : result[b] = IF b <= o THEN data[b] ELSE piece[b - o]
  <2> HIDE DEF piece
  <2>1. data \in Seq(BufferBytes) /\ piece \in Seq(BufferBytes)
    BY <1>3, <1>4
  <2>2. /\ result \in Seq(BufferBytes) /\ Len(result) = Len(data) + Len(piece)
        /\ \A b \in 1 .. Len(data) + Len(piece) :
               result[b] = IF b <= Len(data) THEN data[b] ELSE piece[b - Len(data)]
    BY <2>1, ConcatProperties, Zenon
  <2>3. Len(piece) = m
    BY <1>4
  <2> HIDE DEF m
  <2> QED
    BY <2>2, <2>3, Zenon
<1>6. /\ MovePacket(x, lens, acc, i).offset = o + m
      /\ new = IF m > 0 /\ o < from THEN Moved(old, o, from, m) ELSE old
  BY <1>1, <1>3 DEF MovePacket
<1> HIDE DEF from, o, m, L, old, new, piece, result
<1>7. /\ new \in [1 .. L -> BufferBytes]
      /\ \A b \in 1 .. o : new[b] = old[b]
      /\ \A k \in 0 .. m - 1 : new[o + k + 1] = Byte(i, k)
      /\ \A b \in 1 .. L : b > from + MPS => new[b] = old[b]
      /\ o = from => new = old
  <2>1. \A k \in 0 .. m - 1 : from + k + 1 \in 1 .. L /\ old[from + k + 1] = Byte(i, k)
    <3>1. i \in i .. n /\ lens[i] = m
      BY DEF m
    <3>2. \A k \in 0 .. m - 1 : old[(i - 1) * MPS + k + 1] = Byte(i, k)
      BY <1>3, <3>1
    <3>3. \A k \in 0 .. m - 1 : from + k + 1 \in 1 .. L
      <4>1. from \in Nat /\ m \in Nat /\ m <= MPS /\ MPS \in Nat /\ from + MPS <= L /\ L \in Nat
        BY <1>1, <1>2
      <4> QED
        BY <4>1
    <3> QED
      BY <3>2, <3>3 DEF from
  <2>2. CASE m > 0 /\ o < from
    <3>1. new = Moved(old, o, from, m) /\ DOMAIN old = 1 .. L
      BY <1>3, <1>6, <2>2
    <3>2. new = [b \in 1 .. L |-> IF b - 1 \in o .. o + m - 1 THEN old[b - o + from] ELSE old[b]]
      BY <3>1 DEF Moved
    <3>3. \A b \in 1 .. L : b - 1 \in o .. o + m - 1 => b - o + from \in 1 .. L
      BY <1>1, <1>2, <1>3, <2>2
    <3>4. new \in [1 .. L -> BufferBytes]
      BY <1>3, <3>2, <3>3
    <3>5. \A k \in 0 .. m - 1 : new[o + k + 1] = Byte(i, k)
      <4> TAKE k \in 0 .. m - 1
      <4>1. /\ o + k + 1 \in 1 .. L /\ (o + k + 1) - 1 \in o .. o + m - 1
            /\ (o + k + 1) - o + from = from + k + 1
        BY <1>1, <1>2, <1>3, <2>2
      <4>2. new[o + k + 1] = old[from + k + 1]
        BY <3>2, <4>1
      <4> QED
        BY <2>1, <4>2
    <3>6. \A b \in 1 .. o : new[b] = old[b]
      BY <1>1, <1>2, <1>3, <2>2, <3>2
    <3>7. \A b \in 1 .. L : b > from + MPS => new[b] = old[b]
      BY <1>1, <1>2, <1>3, <2>2, <3>2
    <3> QED
      BY <1>3, <2>2, <3>4, <3>5, <3>6, <3>7
  <2>3. CASE ~(m > 0 /\ o < from)
    <3>1. new = old
      BY <1>6, <2>3
    <3>2. \A k \in 0 .. m - 1 : o = from
      BY <1>1, <1>2, <1>3, <2>3
    <3>3. \A k \in 0 .. m - 1 : new[o + k + 1] = Byte(i, k)
      BY <2>1, <3>1, <3>2
    <3> QED
      BY <1>3, <3>1, <3>3
  <2> QED
    BY <2>2, <2>3
<1>8. \A b \in 1 .. o + m : new[b] = result[b]
  <2> TAKE b \in 1 .. o + m
  <2>1. CASE b <= o
    <3>1. b \in 1 .. o
      BY <1>3, <2>1
    <3>2. result[b] = data[b]
      BY <1>5, <2>1
    <3> QED
      BY <1>3, <1>7, <3>1, <3>2
  <2>2. CASE ~(b <= o)
    <3> DEFINE k == b - o - 1
    <3>1. k \in 0 .. m - 1 /\ b = o + k + 1 /\ b - o \in 1 .. m /\ (b - o) - 1 = k
      <4>1. o \in Nat /\ m \in Nat /\ b \in Nat /\ b <= o + m /\ b > o
        BY <1>1, <1>3, <2>2
      <4> QED
        BY <4>1
    <3>2. result[b] = piece[b - o] /\ piece[b - o] = Byte(i, (b - o) - 1)
      BY <1>4, <1>5, <2>2, <3>1
    <3> HIDE DEF k
    <3>3. new[o + k + 1] = Byte(i, k)
      BY <1>7, <3>1
    <3> QED
      BY <3>1, <3>2, <3>3
  <2> QED
    BY <2>1, <2>2
<1>9. ASSUME NEW j \in i + 1 .. n, NEW k \in 0 .. lens[j] - 1
      PROVE  new[(j - 1) * MPS + k + 1] = Byte(j, k)
  <2>1. j \in i .. n /\ j \in 1 .. n /\ j - 1 \in Nat /\ i <= j - 1 /\ lens[j] \in 0 .. MPS
    OBVIOUS
  <2>2. /\ (j - 1) * MPS \in Nat /\ (j - 1) * MPS + MPS <= n * MPS
    BY <2>1, PacketEnds
  <2>3. from + MPS <= (j - 1) * MPS
    <3>1. (i - 1) * MPS + MPS <= (j - 1) * MPS
      BY <1>1, <2>1, PacketEnds
    <3> QED
      BY <3>1 DEF from
  <2>4. L = n * MPS
    BY <1>1 DEF L
  <2> DEFINE a == (j - 1) * MPS
  <2>5. a + k + 1 \in 1 .. L /\ a + k + 1 > from + MPS
    <3>1. a \in Nat /\ a + MPS <= L /\ from + MPS <= a
      BY <2>2, <2>3, <2>4
    <3> HIDE DEF a
    <3> QED
      BY <1>1, <1>2, <2>1, <3>1
  <2>6. old[a + k + 1] = Byte(j, k)
    BY <1>3, <2>1
  <2> HIDE DEF a
  <2>7. new[a + k + 1] = Byte(j, k)
    BY <1>7, <2>5, <2>6
  <2> QED
    BY <2>7 DEF a
<1>10. o + m = i * MPS => new = Received(x, lens)
  BY <1>1, <1>2, <1>3, <1>7
<1>11. Len(lens) = n
  BY <1>1
<1>12. o + m <= i * MPS
  BY <1>1, <1>2, <1>3
<1> QED
  BY <1>5, <1>6, <1>7, <1>8, <1>9, <1>10, <1>11, <1>12 DEF Packed, L, new, result, piece

\* The rounds in which Total and ClosedHoles are computed.
LEMMA TotalIs ==
    ASSUME NEW n \in Nat, NEW lens \in [1 .. n -> 0 .. MPS]
    PROVE  \E u : /\ u[0] = 0 /\ \A i \in 1 .. n : u[i] = u[i - 1] + lens[i]
                  /\ Total(lens) = u[n]
<1> DEFINE step == [i \in 1 .. n |-> [s \in Nat |-> s + lens[i]]]
           round(u) == [i \in 0 .. n |-> IF i = 0 THEN 0 ELSE u[i - 1] + lens[i]]
           upto == CHOOSE u : u = round(u)
<1>1. Total(lens) = upto[n]
  <2>1. Len(lens) = n
    OBVIOUS
  <2> QED
    BY <2>1 DEF Total
<1>2. step \in [1 .. n -> [Nat -> Nat]]
  <2>1. \A i \in 1 .. n : lens[i] \in Nat
    BY IsoAssumption
  <2> QED
    BY <2>1
<1>3. PICK g \in [0 .. n -> Nat] : Rounds(g, n, 0, step)
  <2> HIDE DEF step
  <2> QED
    BY <1>2, LoopExists
<1>4. g = round(g)
  <2>1. \A i \in 1 .. n : step[i][g[i - 1]] = g[i - 1] + lens[i]
    BY <1>3
  <2>2. g = [i \in 0 .. n |-> IF i = 0 THEN 0 ELSE step[i][g[i - 1]]]
    BY <1>3 DEF Rounds
  <2> HIDE DEF step
  <2>3. \A i \in 0 .. n : (IF i = 0 THEN 0 ELSE step[i][g[i - 1]])
                          = (IF i = 0 THEN 0 ELSE g[i - 1] + lens[i])
    BY <2>1
  <2> QED
    BY <2>2, <2>3
<1>5. upto = round(upto)
  <2> HIDE DEF round
  <2> QED
    BY <1>4
<1> HIDE DEF upto
<1>6. \A i \in 0 .. n : upto[i] = IF i = 0 THEN 0 ELSE upto[i - 1] + lens[i]
  <2>1. \A i \in 0 .. n : round(upto)[i] = IF i = 0 THEN 0 ELSE upto[i - 1] + lens[i]
    OBVIOUS
  <2> HIDE DEF round
  <2> QED
    BY <1>5, <2>1, Zenon
<1>7. upto[0] = 0 /\ \A i \in 1 .. n : upto[i] = upto[i - 1] + lens[i]
  BY <1>6
<1> QED
  BY <1>1, <1>7

\* What the loop computes, round by round.
HoleRounds(a, x, lens, n) ==
    /\ a[0] = [buffer |-> Received(x, lens), offset |-> 0]
    /\ \A i \in 1 .. n : a[i] = MovePacket(x, lens, a[i - 1], i)
    /\ ClosedHoles(x, lens) = a[n].buffer

LEMMA ClosedHolesIs ==
    ASSUME NEW n \in Nat, NEW x, ReadShape(x), Len(x.offsets) = n,
           NEW lens \in [1 .. n -> 0 .. MPS]
    PROVE  \E a : HoleRounds(a, x, lens, n)
<1> DEFINE L == x.length
           V == [buffer : [1 .. L -> BufferBytes], offset : Nat]
           start == [buffer |-> Received(x, lens), offset |-> 0]
           step == [i \in 1 .. n |-> [acc \in V |-> MovePacket(x, lens, acc, i)]]
           round(a) == [i \in 0 .. n |-> IF i = 0 THEN start ELSE MovePacket(x, lens, a[i - 1], i)]
           after == CHOOSE a : a = round(a)
<1>1. ClosedHoles(x, lens) = after[n].buffer
  <2>1. Len(lens) = n
    OBVIOUS
  <2> QED
    BY <2>1 DEF ClosedHoles
<1>2. start \in V
  <2>1. L = n * MPS
    BY DEF ReadShape
  <2>2. Received(x, lens) \in [1 .. L -> BufferBytes]
    BY <2>1, ReceivedIs DEF Landed
  <2> QED
    BY <2>2
<1>3. ASSUME NEW i \in 1 .. n, NEW acc \in V
      PROVE  MovePacket(x, lens, acc, i) \in V
  <2> DEFINE from == x.offsets[i]
             m == lens[i]
             moved == Moved(acc.buffer, acc.offset, from, m)
  <2>1. from \in Nat /\ from + MPS <= L /\ L \in Nat /\ m \in 0 .. MPS /\ MPS \in Nat
    <3>1. i - 1 \in Nat /\ i - 1 < n /\ x.offsets[i] = (i - 1) * MPS /\ L = n * MPS
      BY DEF ReadShape
    <3> QED
      BY <3>1, PacketEnds, IsoAssumption
  <2>2. acc.buffer \in [1 .. L -> BufferBytes] /\ acc.offset \in Nat
    OBVIOUS
  <2>3. /\ MovePacket(x, lens, acc, i).buffer \in {moved, acc.buffer}
        /\ MovePacket(x, lens, acc, i).offset = acc.offset + m
        /\ MovePacket(x, lens, acc, i) =
              [buffer |-> MovePacket(x, lens, acc, i).buffer, offset |-> acc.offset + m]
    BY DEF MovePacket
  <2>4. moved \in [1 .. L -> BufferBytes]
    <3> HIDE DEF from, m, L
    <3>1. moved = [b \in 1 .. L |-> IF b - 1 \in acc.offset .. acc.offset + m - 1
                                    THEN acc.buffer[b - acc.offset + from] ELSE acc.buffer[b]]
      BY <2>2 DEF Moved
    <3>2. \A b \in 1 .. L : b - 1 \in acc.offset .. acc.offset + m - 1
                               => b - acc.offset + from \in 1 .. L
      BY <2>1, <2>2
    <3> QED
      BY <2>2, <3>1, <3>2
  <2> HIDE DEF moved, from, m, L
  <2>5. acc.offset + m \in Nat
    BY <2>1, <2>2
  <2> QED
    BY <2>2, <2>3, <2>4, <2>5
<1> HIDE DEF L, V, start
<1>4. step \in [1 .. n -> [V -> V]]
  BY <1>3
<1>5. PICK g \in [0 .. n -> V] : Rounds(g, n, start, step)
  <2> HIDE DEF step
  <2> QED
    BY <1>2, <1>4, LoopExists
<1>6. g = round(g)
  <2>1. \A i \in 1 .. n : step[i][g[i - 1]] = MovePacket(x, lens, g[i - 1], i)
    BY <1>5
  <2>2. g = [i \in 0 .. n |-> IF i = 0 THEN start ELSE step[i][g[i - 1]]]
    BY <1>5 DEF Rounds
  <2> HIDE DEF step
  <2>3. \A i \in 0 .. n : (IF i = 0 THEN start ELSE step[i][g[i - 1]])
                          = (IF i = 0 THEN start ELSE MovePacket(x, lens, g[i - 1], i))
    BY <2>1
  <2> QED
    BY <2>2, <2>3
<1>7. after = round(after)
  <2> HIDE DEF round
  <2> QED
    BY <1>6
<1> HIDE DEF after
<1>8. \A i \in 0 .. n : after[i] = IF i = 0 THEN start ELSE MovePacket(x, lens, after[i - 1], i)
  <2>1. \A i \in 0 .. n : round(after)[i] =
                          IF i = 0 THEN start ELSE MovePacket(x, lens, after[i - 1], i)
    OBVIOUS
  <2> HIDE DEF round
  <2> QED
    BY <1>7, <2>1, Zenon
<1>9. after[0] = start /\ \A i \in 1 .. n : after[i] = MovePacket(x, lens, after[i - 1], i)
  BY <1>8
<1> QED
  BY <1>1, <1>9 DEF start, HoleRounds

\* The completion routine's loop as a whole.
LEMMA HolesClosed ==
    ASSUME NEW n \in Nat \ {0}, NEW x, ReadShape(x), Len(x.offsets) = n,
           NEW lens \in [1 .. n -> 0 .. MPS]
    PROVE  LET data == FlattenSeq([i \in 1 .. n |-> Piece(lens, i)])
           IN \E acc : /\ Packed(x, lens, acc, data, n)
                       /\ acc.buffer = ClosedHoles(x, lens)
                       /\ acc.offset = Total(lens)
<1> DEFINE pieces == [i \in 1 .. n |-> Piece(lens, i)]
<1>0. n \in Nat
  OBVIOUS
<1>1. \A i \in 1 .. n : /\ Piece(lens, i) \in Seq(BufferBytes)
                        /\ Len(Piece(lens, i)) = lens[i]
  <2> TAKE i \in 1 .. n
  <2>1. lens[i] \in Nat
    BY IsoAssumption
  <2>2. \A k \in 1 .. lens[i] : Byte(i, k - 1) \in BufferBytes
    BY <2>1 DEF Byte, BufferBytes
  <2>3. Piece(lens, i) \in [1 .. lens[i] -> BufferBytes]
    BY <2>2 DEF Piece
  <2> QED
    BY <2>1, <2>3
<1>2. PICK f \in [1 .. n -> Seq(BufferBytes)] : Flattens(f, n, pieces)
  <2>1. pieces \in [1 .. n -> Seq(BufferBytes)]
    BY <1>1
  <2> HIDE DEF pieces
  <2> QED
    BY <2>1, Flattened
<1>2a. /\ f[1] = pieces[1]
       /\ \A i \in 2 .. n : f[i] = f[i - 1] \o pieces[i]
       /\ FlattenSeq(pieces) = f[n]
  <2> HIDE DEF pieces
  <2> QED
    BY <1>2, Zenon DEF Flattens
<1>3. PICK u : /\ u[0] = 0 /\ \A i \in 1 .. n : u[i] = u[i - 1] + lens[i]
               /\ Total(lens) = u[n]
  BY <1>0, TotalIs
<1>3a. PICK a : HoleRounds(a, x, lens, n)
  BY <1>0, ClosedHolesIs
<1>4. /\ a[0] = [buffer |-> Received(x, lens), offset |-> 0]
      /\ \A i \in 1 .. n : a[i] = MovePacket(x, lens, a[i - 1], i)
      /\ ClosedHoles(x, lens) = a[n].buffer
  BY <1>3a DEF HoleRounds
<1> DEFINE data(i) == IF i = 0 THEN << >> ELSE f[i]
           Done == {i \in 0 .. n : Packed(x, lens, a[i], data(i), i) /\ a[i].offset = u[i]}
<1>5. \A i \in 1 .. n : data(i) = data(i - 1) \o Piece(lens, i)
  <2> TAKE i \in 1 .. n
  <2>1. pieces[i] = Piece(lens, i)
    OBVIOUS
  <2>2. CASE i = 1
    <3>1. << >> \o Piece(lens, 1) = Piece(lens, 1)
      BY <1>1, ConcatEmptySeq
    <3> QED
      BY <1>2a, <2>1, <2>2, <3>1
  <2>3. CASE i # 1
    <3>1. i \in 2 .. n /\ i # 0 /\ i - 1 # 0
      BY <2>3
    <3>2. f[i] = f[i - 1] \o pieces[i] /\ data(i) = f[i] /\ data(i - 1) = f[i - 1]
      BY <1>2a, <3>1
    <3> QED
      BY <2>1, <3>2
  <2> QED
    BY <2>2, <2>3
<1>6. 0 \in Done
  <2>1. a[0].buffer = Received(x, lens) /\ a[0].offset = 0 /\ data(0) = << >>
    BY <1>4
  <2>0. x.length = n * MPS
    BY DEF ReadShape
  <2>2. /\ Received(x, lens) \in [1 .. x.length -> BufferBytes]
        /\ \A j \in 1 .. n : \A k \in 0 .. lens[j] - 1 :
              Received(x, lens)[(j - 1) * MPS + k + 1] = Byte(j, k)
    <3>1. Landed(x, lens, n)
      BY <1>0, <2>0, ReceivedIs
    <3> QED
      BY <3>1 DEF Landed
  <2>3. Len(lens) = n /\ 0 + 1 = 1 /\ 0 * MPS = 0
    BY IsoAssumption
  <2>4. << >> \in Seq(BufferBytes) /\ Len(<< >>) = 0
    OBVIOUS
  <2> HIDE DEF data
  <2>5. Len(data(0)) = 0 /\ data(0) \in Seq(BufferBytes)
    BY <2>1, <2>4
  <2>6. \A b \in 1 .. Len(data(0)) : a[0].buffer[b] = data(0)[b]
    BY <2>5
  <2>7. \A j \in 0 + 1 .. Len(lens) : \A k \in 0 .. lens[j] - 1 :
           a[0].buffer[(j - 1) * MPS + k + 1] = Byte(j, k)
    BY <2>1, <2>2, <2>3, Zenon
  <2>8. Packed(x, lens, a[0], data(0), 0)
    BY <2>1, <2>2, <2>3, <2>5, <2>6, <2>7 DEF Packed
  <2> QED
    BY <1>3, <2>1, <2>8
<1>7. ASSUME NEW i \in 1 .. n, i - 1 \in Done PROVE i \in Done
  <2>1. Packed(x, lens, a[i - 1], data(i - 1), i - 1) /\ a[i - 1].offset = u[i - 1]
    BY <1>7
  <2> HIDE DEF data
  <2>2. Packed(x, lens, MovePacket(x, lens, a[i - 1], i), data(i - 1) \o Piece(lens, i), i)
    BY <2>1, PacketMoved
  <2>3. a[i] = MovePacket(x, lens, a[i - 1], i) /\ data(i) = data(i - 1) \o Piece(lens, i)
    BY <1>4, <1>5
  <2>4. Packed(x, lens, a[i], data(i), i)
    BY <2>2, <2>3, Zenon
  <2>5. MovePacket(x, lens, a[i - 1], i).offset = a[i - 1].offset + lens[i]
    BY DEF MovePacket
  <2>6. a[i].offset = u[i]
    BY <1>3, <2>1, <2>3, <2>5
  <2> QED
    BY <2>4, <2>6
<1>8. n \in Done
  <2> HIDE DEF Done
  <2>1. \A i \in 0 .. n : i \in Done
    BY <1>6, <1>7, UpTo
  <2> QED
    BY <2>1
<1>9. Packed(x, lens, a[n], FlattenSeq(pieces), n) /\ a[n].offset = Total(lens)
  BY <1>2a, <1>3, <1>8
<1> QED
  BY <1>4, <1>9

\* What a completed read gives its caller, be it moved or not.
LEMMA ReadDelivers ==
    ASSUME NEW n \in Nat \ {0}, NEW x, ReadShape(x), Len(x.offsets) = n,
           NEW lens \in [1 .. n -> 0 .. MPS],
           NEW buffer, buffer = IF Total(lens) \in 1 .. x.length - 1
                                THEN ClosedHoles(x, lens) ELSE Received(x, lens)
    PROVE  SubSeq(buffer, 1, Total(lens)) = FlattenSeq([i \in 1 .. n |-> Piece(lens, i)])
<1> DEFINE data == FlattenSeq([i \in 1 .. n |-> Piece(lens, i)])
           total == Total(lens)
<1>1. PICK acc : /\ Packed(x, lens, acc, data, n)
                 /\ acc.buffer = ClosedHoles(x, lens)
                 /\ acc.offset = total
  BY HolesClosed
<1> HIDE DEF data, total
<1>2. /\ x.length = n * MPS /\ x.length \in Nat
      /\ acc.buffer \in [1 .. x.length -> BufferBytes]
      /\ data \in Seq(BufferBytes) /\ total = Len(data) /\ total \in Nat /\ total <= x.length
      /\ \A b \in 1 .. total : acc.buffer[b] = data[b]
      /\ total = x.length => acc.buffer = Received(x, lens)
  <2>1. x.length = n * MPS /\ MPS \in Nat
    BY IsoAssumption DEF ReadShape
  <2>2. data \in Seq(BufferBytes) /\ total = Len(data)
    BY <1>1 DEF Packed
  <2>3. Len(data) \in Nat
    BY <2>2, LenProperties
  <2> QED
    BY <1>1, <2>1, <2>2, <2>3 DEF Packed
<1>3. buffer \in [1 .. x.length -> BufferBytes] /\ \A b \in 1 .. total : buffer[b] = data[b]
  <2>1. Received(x, lens) \in [1 .. x.length -> BufferBytes]
    BY <1>2, ReceivedIs DEF Landed
  <2>2. buffer = acc.buffer \/ (buffer = Received(x, lens) /\ total = 0)
    BY <1>1, <1>2 DEF total
  <2> QED
    BY <1>2, <2>1, <2>2
<1>4. buffer \in Seq(BufferBytes) /\ Len(buffer) = x.length
  <2> DEFINE L == x.length
  <2>1. buffer \in [1 .. L -> BufferBytes] /\ L \in Nat
    BY <1>2, <1>3
  <2> HIDE DEF L
  <2>2. buffer \in Seq(BufferBytes) /\ Len(buffer) = L
    BY <2>1
  <2> QED
    BY <2>2 DEF L
<1> DEFINE front == SubSeq(buffer, 1, total)
<1>5. front = [b \in 1 .. total |-> data[b]]
  <2>1. front = [b \in 1 .. total |-> buffer[b]]
    BY <1>2, <1>4
  <2> HIDE DEF front
  <2> QED
    BY <1>3, <2>1
<1>6. data = [b \in 1 .. total |-> data[b]]
  BY <1>2
<1> QED
  BY <1>5, <1>6 DEF total, data

-----------------------------------------------------------------------------
(***************************************************************************)
(* The theorems.                                                           *)
(***************************************************************************)

LEMMA NextOK == IInv /\ [Next]_vars => IInv'
<1> SUFFICES ASSUME IInv, [Next]_vars PROVE IInv'
  OBVIOUS
<1>1. Types
  BY DEF IInv
<1>2. ASSUME NEW resetOk \in BOOLEAN, NEW frameOk \in BOOLEAN, NEW sendOk \in BOOLEAN,
             NEW len \in Lengths,
             \/ SubmitRead(len, resetOk, frameOk, sendOk)
             \/ SubmitWrite(len, resetOk, frameOk, sendOk)
             \/ \E n \in {1, 8}, start \in {-1, MaxFrame} :
                   SubmitEx(len, n, MPS, start, resetOk, frameOk, sendOk)
      PROVE  IInv'
  BY <1>2, SubmitReadSends, SubmitWriteSends, SubmitExSends, SendOK
<1>3. CASE SubmitExFails
  BY <1>1, <1>3, QueueOK DEF SubmitExFails, Quiet, Reset, Types, QueueType
<1>4. ASSUME NEW lens, CompleteRead(lens)
      PROVE  IInv'
  BY <1>4, CompletedOK DEF CompleteRead
<1>5. CASE Complete
  BY <1>5, CompletedOK DEF Complete, Quiet
<1>6. ASSUME NEW urbFailed \in BOOLEAN, CompleteFailed(urbFailed)
      PROVE  IInv'
  BY <1>6, CompletedOK DEF CompleteFailed, Quiet
<1>7. ASSUME NEW i \in 1 .. MaxInFlight, CompleteCancelled(i)
      PROVE  IInv'
  BY <1>7, CompletedOK DEF CompleteCancelled, Quiet
<1>8. CASE PipeReset \/ Suspend
  BY <1>1, <1>8, QueueOK DEF PipeReset, Suspend, Rest, Quiet, Types, QueueType
<1>9. CASE Tick
  <2>1. frame \in 0 .. MaxTime /\ frame' \in 0 .. MaxTime
    BY <1>1, <1>9, IsoAssumption DEF Types, Tick
  <2> QED
    BY <1>1, <1>9, <2>1, QueueOK DEF Tick, Quiet, Types
<1>10. ASSUME NEW asap \in BOOLEAN, NEW fixed \in FixedPackets, SetPolicy(asap, fixed)
       PROVE  IInv'
  BY <1>10, SetPolicyOK
<1>11. CASE UNCHANGED vars
  <2>1. UNCHANGED <<pipe, policy, queue, frame, inFlight, lastEnd, sent>>
    BY <1>11 DEF vars
  <2> QED
    BY <2>1 DEF IInv, Types, FixedOK, MaxPackets, Chain, FramesContiguous, Xfers
<1> QED
  BY <1>2, <1>3, <1>4, <1>5, <1>6, <1>7, <1>8, <1>9, <1>10, <1>11 DEF Next

LEMMA Inductive == Spec => []IInv
<1> QED
  BY InitOK, NextOK, PTL DEF Spec

\* For every length, number of packets, packet size and speed, the packets of a
\* transfer in flight lie one behind the other and fill its buffer, none is
\* larger than the endpoint's unless the fixed number was too small, and at high
\* speed they are whole frames, no more than the driver allocated.
THEOREM PacketsFit == Spec => []TransfersWellFormed
<1> QED
  BY Inductive, InvImpliesWellFormed, PTL

\* A transfer that is given its start frame by the driver starts in the frame in
\* which the one sent before it ends, through resets, failed submissions,
\* cancellations and transfers sent as soon as possible.
THEOREM NoGapNoOverlap == Spec => []FramesContiguous
<1>1. IInv => FramesContiguous
  BY DEF IInv
<1> QED
  BY <1>1, Inductive, PTL

\* What StartsAhead says of one step.
AheadStep ==
    LET reset == queue.fresh \/ (NeedsReset /\ ~queue'.stall /\ ~queue'.resume)
    IN sent'.scheduled /\ reset => sent'.start >= frame + Latency

LEMMA SendAhead ==
    ASSUME IInv, NEW x \in Xfers, NEW start, NEW resetOk \in BOOLEAN,
           NEW frameOk \in BOOLEAN, NEW sendOk \in BOOLEAN,
           Send(x, start, resetOk, frameOk, sendOk)
    PROVE  AheadStep
<1> SUFFICES ASSUME sent'.scheduled,
                    queue.fresh \/ (NeedsReset /\ ~queue'.stall /\ ~queue'.resume)
             PROVE  sent'.start >= frame + Latency
  BY DEF AheadStep
<1> DEFINE q == Ready(resetOk)
           chooses == ~policy.asap /\ start = -1
           asks == chooses /\ q.fresh
           q1 == IF asks THEN Fetched(q, frameOk) ELSE q
           scheduled == chooses /\ (asks => frameOk)
           end == IF asks THEN -1 ELSE lastEnd
           n == Len(x.offsets)
<1>1. /\ queue' = IF scheduled THEN [q1 EXCEPT !.next = @ + FramesOf(n)] ELSE q1
      /\ sent' = IF sendOk /\ scheduled
                 THEN [scheduled |-> TRUE, start |-> q1.next, follows |-> end] ELSE NotSent
  BY DEF Send
<1>2. scheduled /\ sent'.start = q1.next
  BY <1>1 DEF NotSent
<1>3. queue \in QueueType /\ frame \in Nat
  BY IsoAssumption DEF IInv, Types
<1>4. q \in QueueType
  BY <1>3, ReadyOK
<1>5. q.fresh
  <2>1. CASE queue.fresh
    BY <2>1 DEF Ready, Reset
  <2>2. CASE ~queue.fresh
    <3>1. NeedsReset /\ ~queue'.stall /\ ~queue'.resume
      BY <2>2
    <3>2. CASE resetOk
      BY <1>3, <3>1, <3>2 DEF Ready, Reset, QueueType
    <3>3. CASE ~resetOk
      <4>1. q = queue
        BY <3>3 DEF Ready
      <4>2. queue'.stall = queue.stall /\ queue'.resume = queue.resume
        BY <1>1, <1>3, <4>1 DEF Fetched, QueueType
      <4> QED
        BY <3>1, <4>2 DEF NeedsReset
    <3> QED
      BY <3>2, <3>3
  <2> QED
    BY <2>1, <2>2
<1>6. asks /\ frameOk
  BY <1>2, <1>5
<1> QED
  BY <1>2, <1>3, <1>4, <1>6, FetchedOK

LEMMA AheadOK == IInv /\ [Next]_vars => AheadStep \/ UNCHANGED vars
<1> SUFFICES ASSUME IInv, Next PROVE AheadStep
  BY DEF vars
<1>1. ASSUME NEW resetOk \in BOOLEAN, NEW frameOk \in BOOLEAN, NEW sendOk \in BOOLEAN,
             NEW len \in Lengths,
             \/ SubmitRead(len, resetOk, frameOk, sendOk)
             \/ SubmitWrite(len, resetOk, frameOk, sendOk)
             \/ \E n \in {1, 8}, start \in {-1, MaxFrame} :
                   SubmitEx(len, n, MPS, start, resetOk, frameOk, sendOk)
      PROVE  AheadStep
  BY <1>1, SubmitReadSends, SubmitWriteSends, SubmitExSends, SendAhead
<1>2. ASSUME sent' = NotSent
      PROVE  AheadStep
  BY <1>2 DEF AheadStep, NotSent
<1>3. CASE \/ SubmitExFails \/ Complete \/ PipeReset \/ Suspend \/ Tick
  BY <1>2, <1>3 DEF SubmitExFails, Complete, PipeReset, Suspend, Tick, Quiet
<1>4. ASSUME NEW lens, CompleteRead(lens)
      PROVE  AheadStep
  BY <1>2, <1>4 DEF CompleteRead
<1>5. ASSUME NEW urbFailed \in BOOLEAN, CompleteFailed(urbFailed)
      PROVE  AheadStep
  BY <1>2, <1>5 DEF CompleteFailed, Quiet
<1>6. ASSUME NEW i \in 1 .. MaxInFlight, CompleteCancelled(i)
      PROVE  AheadStep
  BY <1>2, <1>6 DEF CompleteCancelled, Quiet
<1>7. ASSUME NEW asap \in BOOLEAN, NEW fixed \in FixedPackets, SetPolicy(asap, fixed)
      PROVE  AheadStep
  BY <1>2, <1>7 DEF SetPolicy, Quiet
<1> QED
  BY <1>1, <1>3, <1>4, <1>5, <1>6, <1>7 DEF Next

\* The first transfer to be given a frame after a reset of the pipe starts a
\* latency ahead of the bus, never in a frame fetched before the reset.
THEOREM FirstStartsAhead == Spec => StartsAhead
<1>1. IInv /\ [Next]_vars => [AheadStep]_vars
  BY AheadOK
<1> QED
  BY <1>1, Inductive, PTL DEF Spec, StartsAhead, AheadStep

\* Every step but the completion of a read leaves nothing read.
LEMMA OnlyCompleteReads ==
    ASSUME Next, ~\E lens : CompleteRead(lens)
    PROVE  got' = NoRead
<1>1. ASSUME NEW x, NEW start, NEW resetOk, NEW frameOk, NEW sendOk,
             Send(x, start, resetOk, frameOk, sendOk)
      PROVE  got' = NoRead
  BY <1>1 DEF Send
<1>2. ASSUME NEW resetOk \in BOOLEAN, NEW frameOk \in BOOLEAN, NEW sendOk \in BOOLEAN,
             NEW len \in Lengths,
             \/ SubmitRead(len, resetOk, frameOk, sendOk)
             \/ SubmitWrite(len, resetOk, frameOk, sendOk)
             \/ \E n \in {1, 8}, start \in {-1, MaxFrame} :
                   SubmitEx(len, n, MPS, start, resetOk, frameOk, sendOk)
      PROVE  got' = NoRead
  BY <1>1, <1>2 DEF SubmitRead, SubmitWrite, SubmitEx
<1>3. CASE SubmitExFails \/ Complete \/ PipeReset \/ Suspend \/ Tick
  BY <1>3 DEF SubmitExFails, Complete, PipeReset, Suspend, Tick, Quiet
<1>4. ASSUME NEW urbFailed \in BOOLEAN, CompleteFailed(urbFailed)
      PROVE  got' = NoRead
  BY <1>4 DEF CompleteFailed, Quiet
<1>5. ASSUME NEW i \in 1 .. MaxInFlight, CompleteCancelled(i)
      PROVE  got' = NoRead
  BY <1>5 DEF CompleteCancelled, Quiet
<1>6. ASSUME NEW asap \in BOOLEAN, NEW fixed \in FixedPackets, SetPolicy(asap, fixed)
      PROVE  got' = NoRead
  BY <1>6 DEF SetPolicy, Quiet
<1> QED
  BY <1>2, <1>3, <1>4, <1>5, <1>6 DEF Next

\* Nothing read is in order.
LEMMA NoReadInOrder == got = NoRead => ReadInOrder
<1> SUFFICES ASSUME got = NoRead PROVE ReadInOrder
  OBVIOUS
<1> DEFINE pieces == [i \in DOMAIN got.packets |-> [k \in 1 .. got.packets[i] |-> Byte(i, k - 1)]]
<1>1. got.packets = << >> /\ got.buffer = << >> /\ got.transferred = 0
  BY DEF NoRead
<1>2. pieces = << >> /\ Len(pieces) = 0
  BY <1>1
<1>3. FlattenSeq(pieces) = << >>
  BY <1>2 DEF FlattenSeq
<1>4. SubSeq(got.buffer, 1, got.transferred) = << >>
  BY <1>1
<1> QED
  BY <1>3, <1>4 DEF ReadInOrder

LEMMA CompleteReadOK ==
    ASSUME IInv, NEW lens, CompleteRead(lens)
    PROVE  ReadInOrder'
<1> DEFINE x == Head(inFlight)
           n == Len(x.offsets)
           buffer == IF Total(lens) \in 1 .. x.length - 1 THEN ClosedHoles(x, lens)
                                                          ELSE Received(x, lens)
<1>1. inFlight # << >> /\ x.kind = "read" /\ lens \in Fillings(n)
  BY DEF CompleteRead
<1>2. got' = [packets |-> lens, transferred |-> Total(lens), buffer |-> buffer]
  BY DEF CompleteRead
<1>3. x \in Xfers
  <2>1. inFlight \in Seq(Xfers)
    BY DEF IInv, Types
  <2> QED
    BY <1>1, <2>1, HeadTailProperties
<1> HIDE DEF x
<1>4. ReadShape(x) /\ n \in Nat \ {0}
  <2>1. x.offsets \in Seq(Nat) /\ x.offsets # << >> /\ ReadShape(x)
    BY <1>1, <1>3 DEF Xfers, XferType, Fills
  <2>2. n \in Nat /\ n # 0
    BY <2>1, EmptySeq
  <2> QED
    BY <2>1, <2>2
<1> HIDE DEF n
<1>5. lens \in [1 .. n -> 0 .. MPS]
  <2>1. MPS \in 0 .. MPS
    BY IsoAssumption
  <2> QED
    BY <1>1, <2>1 DEF Fillings
<1>6. SubSeq(buffer, 1, Total(lens)) = FlattenSeq([i \in 1 .. n |-> Piece(lens, i)])
  <2>1. Len(x.offsets) = n
    BY DEF n
  <2> HIDE DEF buffer
  <2>2. buffer = IF Total(lens) \in 1 .. x.length - 1 THEN ClosedHoles(x, lens)
                                                      ELSE Received(x, lens)
    BY DEF buffer
  <2> QED
    BY <1>4, <1>5, <2>1, <2>2, ReadDelivers
<1> HIDE DEF buffer
<1>7. /\ got'.packets = lens /\ got'.buffer = buffer /\ got'.transferred = Total(lens)
  BY <1>2
<1>8. [i \in DOMAIN got'.packets |-> [k \in 1 .. got'.packets[i] |-> Byte(i, k - 1)]]
         = [i \in 1 .. n |-> Piece(lens, i)]
  <2>1. DOMAIN lens = 1 .. n
    BY <1>5
  <2> QED
    BY <1>7, <2>1 DEF Piece
<1> QED
  BY <1>6, <1>7, <1>8, Zenon DEF ReadInOrder

\* For every packet size and number of packets, however many bytes came in each
\* of them: a read that is completed delivers the bytes of its packets in order,
\* without the holes behind packets that came short.
THEOREM ReadsInOrder == Spec => []ReadInOrder
<1>1. Init => ReadInOrder
  BY NoReadInOrder DEF Init
<1>2. ReadInOrder /\ IInv /\ [Next]_vars => ReadInOrder'
  <2> SUFFICES ASSUME ReadInOrder, IInv, [Next]_vars PROVE ReadInOrder'
    OBVIOUS
  <2>1. ASSUME NEW lens, CompleteRead(lens) PROVE ReadInOrder'
    BY <2>1, CompleteReadOK
  <2>2. CASE Next /\ ~\E lens : CompleteRead(lens)
    <3>1. got' = NoRead
      BY <2>2, OnlyCompleteReads
    <3>2. (got = NoRead => ReadInOrder)'
      BY NoReadInOrder, PTL
    <3> QED
      BY <3>1, <3>2 DEF NoRead
  <2>3. CASE UNCHANGED vars
    BY <2>3 DEF vars, ReadInOrder
  <2> QED
    BY <2>1, <2>2, <2>3
<1> QED
  BY <1>1, <1>2, Inductive, PTL DEF Spec
=============================================================================
