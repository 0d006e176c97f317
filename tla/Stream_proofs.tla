---------------------------- MODULE Stream_proofs ----------------------------
(***************************************************************************)
(* Proofs about Stream: for any number of callers, transfers and           *)
(* OVERLAPPEDs and every stream StmK_Init can make, no transfer is lost    *)
(* from sight or in two places, the semaphore counts what is ready, bytes  *)
(* keep their order and a freed stream has no thread                       *)
(* (lusbk_queued_stream.c).                                                *)
(***************************************************************************)
EXTENDS Stream, SequenceTheorems, FiniteSetTheorems, WellFoundedInduction, TLAPS

-----------------------------------------------------------------------------
(***************************************************************************)
(* Loops: functions that are computed round by round, and induction over   *)
(* the rounds.                                                             *)
(***************************************************************************)

\* Every set of numbers has a smallest one: the form in which induction over
\* the packets of a transfer is used.
LEMMA Smallest ==
    ASSUME NEW S \in SUBSET Nat, S # {}
    PROVE  \E n \in S : \A m \in S : n <= m
<1> DEFINE R == OpToRel(<, Nat)
<1>1. IsWellFoundedOn(R, Nat)
  BY NatLessThanWellFounded
<1>2. PICK n \in S : \A m \in S : <<m, n>> \notin R
  BY <1>1, WFMin
<1>3. \A m \in S : ~(m < n)
  BY <1>2 DEF OpToRel
<1> QED
  BY <1>3

\* Induction up to N, for the set of numbers of which something holds.
LEMMA UpTo ==
    ASSUME NEW N \in Nat, NEW S, 0 \in S, \A i \in 1 .. N : i - 1 \in S => i \in S
    PROVE  \A i \in 0 .. N : i \in S
<1> DEFINE Bad == (0 .. N) \ S
<1> SUFFICES ASSUME Bad # {} PROVE FALSE
  OBVIOUS
<1>1. Bad \in SUBSET Nat
  OBVIOUS
<1>2. PICK n \in Bad : \A m \in Bad : n <= m
  <2> HIDE DEF Bad
  <2> QED
    BY <1>1, Smallest
<1>3. n \in 1 .. N
  BY <1>2
<1>4. n - 1 \in S
  BY <1>2, <1>3
<1> QED
  BY <1>2, <1>3, <1>4

\* A loop of N rounds that starts with b computes a function.
Rounds(f, N, b, step) ==
    f = [i \in 0 .. N |-> IF i = 0 THEN b ELSE step[i][f[i - 1]]]

LEMMA LoopExists ==
    ASSUME NEW N \in Nat, NEW V, NEW b \in V, NEW step \in [1 .. N -> [V -> V]]
    PROVE  \E f \in [0 .. N -> V] : Rounds(f, N, b, step)
<1> DEFINE Runs(f, n) ==
               f \in [0 .. n -> V] /\ \A i \in 0 .. n : f[i] = IF i = 0 THEN b ELSE step[i][f[i - 1]]
           Good == {n \in 0 .. N : \E f : Runs(f, n)}
<1> HIDE DEF Runs
<1>1. 0 \in Good
  <2>1. Runs([i \in 0 .. 0 |-> b], 0)
    BY DEF Runs
  <2> QED
    BY <2>1
<1>2. ASSUME NEW n \in 1 .. N, n - 1 \in Good PROVE n \in Good
  <2>1. PICK f : Runs(f, n - 1)
    BY <1>2
  <2> DEFINE g == [i \in 0 .. n |-> IF i = n THEN step[n][f[n - 1]] ELSE f[i]]
  <2>2. f[n - 1] \in V /\ step[n] \in [V -> V]
    BY <2>1 DEF Runs
  <2>3. \A i \in 0 .. n : g[i] \in V
    BY <2>1, <2>2 DEF Runs
  <2>4. \A i \in 0 .. n : g[i] = IF i = 0 THEN b ELSE step[i][g[i - 1]]
    BY <2>1 DEF Runs
  <2>5. Runs(g, n)
    BY <2>3, <2>4 DEF Runs
  <2> HIDE DEF g
  <2> QED
    BY <2>5
<1>3. N \in Good
  <2> HIDE DEF Good
  <2>1. \A i \in 0 .. N : i \in Good
    BY <1>1, <1>2, UpTo
  <2> QED
    BY <2>1
<1>4. PICK f : Runs(f, N)
  BY <1>3
<1>5. f = [i \in 0 .. N |-> IF i = 0 THEN b ELSE step[i][f[i - 1]]]
  <2> DEFINE g == [i \in 0 .. N |-> IF i = 0 THEN b ELSE step[i][f[i - 1]]]
  <2>1. f \in [0 .. N -> V] /\ \A i \in 0 .. N : f[i] = g[i]
    BY <1>4 DEF Runs
  <2>2. g \in [0 .. N -> V]
    BY <2>1
  <2> HIDE DEF g
  <2>3. f = g
    BY <2>1, <2>2
  <2> QED
    BY <2>3 DEF g
<1> QED
  BY <1>4, <1>5 DEF Rounds, Runs

\* The rounds of FlattenSeq: each appends the next sequence.
Flattens(f, n, seqs) ==
    /\ f[1] = seqs[1]
    /\ \A i \in 2 .. n : f[i] = f[i - 1] \o seqs[i]
    /\ FlattenSeq(seqs) = f[n]

LEMMA Flattened ==
    ASSUME NEW T, NEW n \in Nat \ {0}, NEW seqs \in [1 .. n -> Seq(T)]
    PROVE  \E f \in [1 .. n -> Seq(T)] : Flattens(f, n, seqs)
<1> DEFINE Cat(s, t) == s \o t
           step == [i \in 1 .. n - 1 |-> [s \in Seq(T) |-> Cat(s, seqs[i + 1])]]
           round(f) == [i \in 1 .. n |-> IF i = 1 THEN seqs[i] ELSE Cat(f[i - 1], seqs[i])]
           flatten == CHOOSE f : f = round(f)
<1>1. FlattenSeq(seqs) = flatten[n]
  <2>1. Len(seqs) = n
    OBVIOUS
  <2> QED
    BY <2>1 DEF FlattenSeq
<1>2. \A s, t \in Seq(T) : Cat(s, t) \in Seq(T)
  BY ConcatProperties
<1> HIDE DEF Cat
<1>3. step \in [1 .. n - 1 -> [Seq(T) -> Seq(T)]]
  <2>1. \A i \in 1 .. n - 1 : seqs[i + 1] \in Seq(T)
    OBVIOUS
  <2>2. \A i \in 1 .. n - 1 : \A s \in Seq(T) : Cat(s, seqs[i + 1]) \in Seq(T)
    BY <1>2, <2>1
  <2> QED
    BY <2>2
<1>4. seqs[1] \in Seq(T) /\ n - 1 \in Nat
  OBVIOUS
<1>5. PICK g \in [0 .. n - 1 -> Seq(T)] : Rounds(g, n - 1, seqs[1], step)
  <2> HIDE DEF step
  <2> QED
    BY <1>3, <1>4, LoopExists
<1>6. \A i \in 0 .. n - 1 : g[i] = IF i = 0 THEN seqs[1] ELSE Cat(g[i - 1], seqs[i + 1])
  <2>1. \A i \in 0 .. n - 1 : g[i] = IF i = 0 THEN seqs[1] ELSE step[i][g[i - 1]]
    BY <1>5 DEF Rounds
  <2>2. \A i \in 1 .. n - 1 : step[i][g[i - 1]] = Cat(g[i - 1], seqs[i + 1])
    BY <1>5
  <2> HIDE DEF step
  <2>3. \A i \in 0 .. n - 1 : i = 0 \/ i \in 1 .. n - 1
    OBVIOUS
  <2> QED
    BY <2>1, <2>2, <2>3, Zenon
<1> DEFINE h == [i \in 1 .. n |-> g[i - 1]]
<1>7. h = round(h)
  <2>1. \A i \in 1 .. n : h[i] = IF i = 1 THEN seqs[i] ELSE Cat(h[i - 1], seqs[i])
    <3> TAKE i \in 1 .. n
    <3>1. i - 1 \in 0 .. n - 1 /\ h[i] = g[i - 1]
      OBVIOUS
    <3>2. CASE i = 1
      BY <1>6, <3>1, <3>2
    <3>3. CASE i # 1
      <4>1. i - 1 \in 1 .. n /\ h[i - 1] = g[i - 1 - 1] /\ (i - 1) + 1 = i
        BY <3>3
      <4>2. g[i - 1] = Cat(g[i - 1 - 1], seqs[(i - 1) + 1])
        BY <1>6, <3>1, <3>3
      <4> QED
        BY <3>1, <3>3, <4>1, <4>2
    <3> QED
      BY <3>2, <3>3
  <2>2. h \in [1 .. n -> Seq(T)]
    BY <1>5
  <2>3. \A i \in 1 .. n : h[i] = round(h)[i]
    BY <2>1
  <2>4. round(h) \in [1 .. n -> Seq(T)]
    BY <2>2, <2>3
  <2> HIDE DEF h, round
  <2> QED
    BY <2>2, <2>3, <2>4
<1>8. flatten = round(flatten)
  <2> HIDE DEF round, h
  <2> QED
    BY <1>7
<1> HIDE DEF flatten, h, step
<1>9. \A i \in 1 .. n : flatten[i] = IF i = 1 THEN seqs[i] ELSE Cat(flatten[i - 1], seqs[i])
  <2>1. \A i \in 1 .. n : round(flatten)[i] = IF i = 1 THEN seqs[i] ELSE Cat(flatten[i - 1], seqs[i])
    OBVIOUS
  <2> HIDE DEF round
  <2> QED
    BY <1>8, <2>1, Zenon
<1>10. /\ flatten[1] = seqs[1]
       /\ \A i \in 2 .. n : flatten[i] = Cat(flatten[i - 1], seqs[i])
  BY <1>9
<1>11. \A i \in 1 .. n : flatten[i] \in Seq(T)
  <2> DEFINE Good == {i \in 0 .. n - 1 : flatten[i + 1] \in Seq(T)}
  <2>1. 0 \in Good
    BY <1>4, <1>10
  <2>2. ASSUME NEW i \in 1 .. n - 1, i - 1 \in Good PROVE i \in Good
    <3>1. flatten[(i - 1) + 1] \in Seq(T) /\ (i - 1) + 1 = i
      BY <2>2
    <3>2. flatten[i + 1] = Cat(flatten[i], seqs[i + 1]) /\ seqs[i + 1] \in Seq(T)
      <4>1. i + 1 \in 2 .. n /\ (i + 1) - 1 = i
        OBVIOUS
      <4> QED
        BY <1>10, <4>1
    <3>3. flatten[i + 1] \in Seq(T)
      BY <1>2, <3>1, <3>2
    <3> QED
      BY <3>3
  <2>3. \A i \in 0 .. n - 1 : i \in Good
    <3> HIDE DEF Good
    <3> QED
      BY <1>4, <2>1, <2>2, UpTo
  <2> TAKE i \in 1 .. n
  <2>4. i - 1 \in 0 .. n - 1 /\ (i - 1) + 1 = i
    OBVIOUS
  <2> QED
    BY <2>3, <2>4
<1>12. flatten \in [1 .. n -> Seq(T)]
  <2>1. round(flatten) = [i \in 1 .. n |-> round(flatten)[i]]
    OBVIOUS
  <2>2. flatten = [i \in 1 .. n |-> flatten[i]]
    <3> HIDE DEF round
    <3> QED
      BY <1>8, <2>1, Zenon
  <2> QED
    BY <1>11, <2>2
<1> QED
  BY <1>1, <1>10, <1>12 DEF Cat, Flattens

-----------------------------------------------------------------------------
(***************************************************************************)
(* Sequences.                                                              *)
(***************************************************************************)

\* What FlattenSeq does with one more sequence.
LEMMA FlatAppend ==
    ASSUME NEW T, NEW seqs \in Seq(Seq(T)), NEW t \in Seq(T)
    PROVE  /\ FlattenSeq(seqs) \in Seq(T)
           /\ FlattenSeq(Append(seqs, t)) = FlattenSeq(seqs) \o t
<1> DEFINE n == Len(seqs)
           longer == Append(seqs, t)
<1>1. n \in Nat /\ seqs \in [1 .. n -> Seq(T)]
  OBVIOUS
<1>2. longer \in [1 .. n + 1 -> Seq(T)] /\ Len(longer) = n + 1
      /\ longer[n + 1] = t /\ \A i \in 1 .. n : longer[i] = seqs[i]
  <2> DEFINE S == Seq(T)
  <2>1. seqs \in Seq(S) /\ t \in S
    OBVIOUS
  <2> HIDE DEF S
  <2>2. longer \in Seq(S) /\ Len(longer) = n + 1 /\ longer[n + 1] = t
        /\ \A i \in 1 .. n : longer[i] = seqs[i]
    BY <2>1, AppendProperties
  <2>3. longer \in [1 .. n + 1 -> S]
    <3> HIDE DEF longer, n
    <3> QED
      BY <2>2, LenProperties
  <2> QED
    BY <2>2, <2>3 DEF S
<1>3. PICK g \in [1 .. n + 1 -> Seq(T)] : Flattens(g, n + 1, longer)
  <2>1. n + 1 \in Nat \ {0}
    BY <1>1
  <2> HIDE DEF n, longer
  <2> QED
    BY <1>2, <2>1, Flattened
<1> HIDE DEF longer
<1>4. CASE n = 0
  <2>1. seqs = << >> /\ FlattenSeq(seqs) = << >>
    BY <1>4 DEF FlattenSeq
  <2>2. FlattenSeq(longer) = t
    BY <1>2, <1>3, <1>4 DEF Flattens
  <2>3. << >> \o t = t /\ << >> \in Seq(T)
    BY ConcatEmptySeq, EmptySeq
  <2> QED
    BY <2>1, <2>2, <2>3 DEF longer
<1>5. CASE n # 0
  <2>1. n \in Nat \ {0}
    BY <1>1, <1>5
  <2>2. PICK f \in [1 .. n -> Seq(T)] : Flattens(f, n, seqs)
    <3> HIDE DEF n
    <3> QED
      BY <1>1, <2>1, Flattened
  <2> DEFINE Good == {i \in 0 .. n - 1 : g[i + 1] = f[i + 1]}
  <2>3. 0 \in Good
    BY <1>2, <1>3, <2>1, <2>2 DEF Flattens
  <2>4. ASSUME NEW i \in 1 .. n - 1, i - 1 \in Good PROVE i \in Good
    <3>1. g[(i - 1) + 1] = f[(i - 1) + 1] /\ (i - 1) + 1 = i
      BY <2>4
    <3>2. i + 1 \in 2 .. n /\ i + 1 \in 2 .. n + 1 /\ (i + 1) - 1 = i /\ i + 1 \in 1 .. n
      BY <2>1
    <3>3. g[i + 1] = g[i] \o longer[i + 1] /\ f[i + 1] = f[i] \o seqs[i + 1]
      BY <1>3, <2>2, <3>2 DEF Flattens
    <3>4. longer[i + 1] = seqs[i + 1]
      BY <1>2, <3>2
    <3>5. i \in 0 .. n - 1
      BY <2>1
    <3> QED
      BY <3>1, <3>3, <3>4, <3>5
  <2>5. n - 1 \in Nat /\ n - 1 \in 0 .. n - 1 /\ (n - 1) + 1 = n
    BY <2>1
  <2>6. n - 1 \in Good
    <3>1. \A i \in 0 .. n - 1 : i \in Good
      <4> HIDE DEF Good, n
      <4> QED
        BY <2>3, <2>4, <2>5, UpTo
    <3> QED
      BY <3>1, <2>5
  <2>7. g[n] = f[n]
    BY <2>5, <2>6
  <2>8. g[n + 1] = g[n] \o t
    <3>1. n + 1 \in 2 .. n + 1 /\ (n + 1) - 1 = n
      BY <2>1
    <3> QED
      BY <1>2, <1>3, <3>1 DEF Flattens
  <2>9. f[n] \in Seq(T)
    <3> HIDE DEF n
    <3> QED
      BY <2>1, <2>2
  <2> HIDE DEF n, Good
  <2> QED
    BY <1>3, <2>2, <2>7, <2>8, <2>9 DEF Flattens, longer
<1> QED
  BY <1>4, <1>5

LEMMA FlatEmpty == FlattenSeq(<< >>) = << >>
BY DEF FlattenSeq

LEMMA FlatOne ==
    ASSUME NEW T, NEW t \in Seq(T)
    PROVE  FlattenSeq(<< t >>) = t
<1>1. << >> \in Seq(Seq(T)) /\ Append(<< >>, t) = << t >>
  OBVIOUS
<1>2. FlattenSeq(Append(<< >>, t)) = FlattenSeq(<< >>) \o t
  BY <1>1, FlatAppend
<1> QED
  BY <1>1, <1>2, FlatEmpty, ConcatEmptySeq

LEMMA FlatConcat ==
    ASSUME NEW T, NEW a \in Seq(Seq(T)), NEW b \in Seq(Seq(T))
    PROVE  FlattenSeq(a \o b) = FlattenSeq(a) \o FlattenSeq(b)
<1> DEFINE N == Len(b)
           B(i) == SubSeq(b, 1, i)
           Good == {i \in 0 .. N : FlattenSeq(a \o B(i)) = FlattenSeq(a) \o FlattenSeq(B(i))}
<1>1. N \in Nat /\ FlattenSeq(a) \in Seq(T)
  BY FlatAppend
<1>2. \A i \in 0 .. N : B(i) \in Seq(Seq(T)) /\ Len(B(i)) = i /\ FlattenSeq(B(i)) \in Seq(T)
  <2> TAKE i \in 0 .. N
  <2>1. B(i) \in Seq(Seq(T)) /\ Len(B(i)) = i
    OBVIOUS
  <2> HIDE DEF B
  <2> QED
    BY <2>1, FlatAppend
<1>3. B(0) = << >> /\ B(N) = b
  OBVIOUS
<1>4. 0 \in Good
  <2>1. a \o << >> = a /\ FlattenSeq(a) \o << >> = FlattenSeq(a)
    BY <1>1, ConcatEmptySeq
  <2>2. FlattenSeq(a \o B(0)) = FlattenSeq(a) \o FlattenSeq(B(0))
    BY <1>3, <2>1, FlatEmpty, Zenon
  <2> HIDE DEF B, N
  <2> QED
    BY <1>1, <2>2
<1>5. ASSUME NEW i \in 1 .. N, i - 1 \in Good PROVE i \in Good
  <2>1. b[i] \in Seq(T) /\ i - 1 \in 0 .. N /\ i \in 0 .. N
    OBVIOUS
  <2>2. B(i) = Append(B(i - 1), b[i])
    OBVIOUS
  <2>3. a \o B(i) = Append(a \o B(i - 1), b[i]) /\ a \o B(i - 1) \in Seq(Seq(T))
    <3>1. B(i - 1) \in Seq(Seq(T))
      BY <1>2, <2>1
    <3> HIDE DEF B
    <3> QED
      BY <2>1, <2>2, <3>1, SMTT(40)
  <2>4. FlattenSeq(a \o B(i - 1)) = FlattenSeq(a) \o FlattenSeq(B(i - 1))
    BY <1>5
  <2> HIDE DEF B, Good, N
  <2>5. FlattenSeq(B(i)) = FlattenSeq(B(i - 1)) \o b[i]
    BY <1>2, <2>1, <2>2, FlatAppend
  <2>6. FlattenSeq(a \o B(i)) = (FlattenSeq(a) \o FlattenSeq(B(i - 1))) \o b[i]
    BY <2>1, <2>3, <2>4, FlatAppend, ZenonT(60)
  <2>7. (FlattenSeq(a) \o FlattenSeq(B(i - 1))) \o b[i] = FlattenSeq(a) \o (FlattenSeq(B(i - 1)) \o b[i])
    <3>1. FlattenSeq(B(i - 1)) \in Seq(T)
      BY <1>2, <2>1
    <3> DEFINE u == FlattenSeq(a)
               v == FlattenSeq(B(i - 1))
               w == b[i]
    <3>2. u \in Seq(T) /\ v \in Seq(T) /\ w \in Seq(T)
      BY <1>1, <2>1, <3>1
    <3> HIDE DEF u, v, w
    <3>3. (u \o v) \o w = u \o (v \o w)
      BY <3>2, ConcatAssociative, SMTT(40)
    <3> QED
      BY <3>3 DEF u, v, w
  <2>8. FlattenSeq(a \o B(i)) = FlattenSeq(a) \o FlattenSeq(B(i))
    BY <2>5, <2>6, <2>7
  <2> QED
    BY <2>1, <2>8 DEF Good
<1>6. N \in Good
  <2> HIDE DEF Good, N
  <2>1. \A i \in 0 .. N : i \in Good
    BY <1>1, <1>4, <1>5, UpTo
  <2> QED
    BY <1>1, <2>1
<1> QED
  BY <1>3, <1>6

\* Sequences of nothing make nothing.
LEMMA FlatNothing ==
    ASSUME NEW a \in Seq({<< >>})
    PROVE  FlattenSeq(a) = << >>
<1> DEFINE N == Len(a)
           A(i) == SubSeq(a, 1, i)
           Good == {i \in 0 .. N : FlattenSeq(A(i)) = << >>}
<1>1. N \in Nat /\ A(0) = << >> /\ A(N) = a
  OBVIOUS
<1>2. 0 \in Good
  <2>1. FlattenSeq(A(0)) = << >>
    BY <1>1, FlatEmpty, Zenon
  <2> HIDE DEF A, N
  <2> QED
    BY <1>1, <2>1
<1>3. ASSUME NEW i \in 1 .. N, i - 1 \in Good PROVE i \in Good
  <2>1. A(i) = Append(A(i - 1), << >>)
    <3>1. a[i] = << >>
      OBVIOUS
    <3> QED
      BY <3>1
  <2>2. A(i - 1) \in Seq(Seq({})) /\ << >> \in Seq({})
    <3>1. << >> \in Seq({})
      BY EmptySeq
    <3>2. \A j \in 1 .. i - 1 : a[j] \in {<< >>}
      OBVIOUS
    <3>3. A(i - 1) \in Seq({<< >>})
      OBVIOUS
    <3> DEFINE E == {<< >>}
               Z == Seq({})
    <3> HIDE DEF A
    <3>4. E \subseteq Z /\ A(i - 1) \in Seq(E)
      BY <3>1, <3>3
    <3> HIDE DEF E, Z
    <3>5. A(i - 1) \in Seq(Z)
      BY <3>4, SeqMonotonic
    <3> QED
      BY <3>1, <3>5 DEF Z
  <2>3. FlattenSeq(A(i - 1)) = << >> /\ i \in 0 .. N
    BY <1>3
  <2> HIDE DEF A, Good
  <2>4. FlattenSeq(A(i)) = << >> \o << >>
    BY <2>1, <2>2, <2>3, FlatAppend
  <2>5. << >> \o << >> = << >>
    BY <2>2, ConcatEmptySeq
  <2> QED
    BY <2>3, <2>4, <2>5 DEF Good
<1>4. N \in Good
  <2> HIDE DEF Good, N
  <2> QED
    BY <1>1, <1>2, <1>3, UpTo
<1> QED
  BY <1>1, <1>4

\* Ranges and repetitions of lists put together.
LEMMA RangeIs ==
    ASSUME NEW T, NEW s \in Seq(T)
    PROVE  /\ Range(s) \in SUBSET T
           /\ \A x : x \in Range(s) <=> \E i \in 1 .. Len(s) : s[i] = x
BY DEF Range

LEMMA NoItems == Range(<< >>) = {} /\ IsInjective(<< >>)
BY DEF Range, IsInjective

LEMMA OneItem ==
    ASSUME NEW T, NEW x \in T
    PROVE  << x >> \in Seq(T) /\ Len(<< x >>) = 1 /\ Range(<< x >>) = {x} /\ IsInjective(<< x >>)
BY DEF Range, IsInjective

LEMMA JoinedRange ==
    ASSUME NEW T, NEW s \in Seq(T), NEW t \in Seq(T)
    PROVE  Range(s \o t) = Range(s) \cup Range(t)
<1> DEFINE u == s \o t
<1>1. /\ u \in Seq(T) /\ Len(u) = Len(s) + Len(t)
      /\ \A i \in 1 .. Len(s) + Len(t) : u[i] = IF i <= Len(s) THEN s[i] ELSE t[i - Len(s)]
  BY ConcatProperties
<1>2. Len(s) \in Nat /\ Len(t) \in Nat
  OBVIOUS
<1>3. \A x : x \in Range(u) <=> \E i \in 1 .. Len(u) : u[i] = x
  <2> HIDE DEF u
  <2> QED
    BY <1>1, RangeIs
<1>4. \A x : x \in Range(s) <=> \E i \in 1 .. Len(s) : s[i] = x
  BY RangeIs
<1>5. \A x : x \in Range(t) <=> \E i \in 1 .. Len(t) : t[i] = x
  BY RangeIs
<1> HIDE DEF u
<1>6. ASSUME NEW x \in Range(u) PROVE x \in Range(s) \cup Range(t)
  <2>1. PICK i \in 1 .. Len(u) : u[i] = x
    BY <1>3, <1>6
  <2>2. CASE i <= Len(s)
    BY <1>1, <1>2, <1>4, <2>1, <2>2
  <2>3. CASE ~(i <= Len(s))
    <3>1. i - Len(s) \in 1 .. Len(t) /\ t[i - Len(s)] = x
      BY <1>1, <1>2, <2>1, <2>3
    <3> QED
      BY <1>5, <3>1
  <2> QED
    BY <2>2, <2>3
<1>7. ASSUME NEW x \in Range(s) PROVE x \in Range(u)
  <2>1. PICK i \in 1 .. Len(s) : s[i] = x
    BY <1>4, <1>7
  <2>2. i \in 1 .. Len(u) /\ u[i] = x
    BY <1>1, <1>2, <2>1
  <2> QED
    BY <1>3, <2>2
<1>8. ASSUME NEW x \in Range(t) PROVE x \in Range(u)
  <2>1. PICK i \in 1 .. Len(t) : t[i] = x
    BY <1>5, <1>8
  <2>2. i + Len(s) \in 1 .. Len(u) /\ u[i + Len(s)] = x
    <3>1. i + Len(s) \in 1 .. Len(s) + Len(t) /\ ~(i + Len(s) <= Len(s)) /\ (i + Len(s)) - Len(s) = i
      BY <1>2
    <3> QED
      BY <1>1, <2>1, <3>1
  <2> QED
    BY <1>3, <2>2
<1>9. Range(u) = Range(s) \cup Range(t)
  BY <1>6, <1>7, <1>8
<1> QED
  BY <1>9 DEF u

LEMMA JoinedOnce ==
    ASSUME NEW T, NEW s \in Seq(T), NEW t \in Seq(T)
    PROVE  IsInjective(s \o t) <=>
               IsInjective(s) /\ IsInjective(t) /\ Range(s) \cap Range(t) = {}
<1> DEFINE u == s \o t
           m == Len(s)
           n == Len(t)
<1>1. /\ m \in Nat /\ n \in Nat
      /\ DOMAIN s = 1 .. m /\ DOMAIN t = 1 .. n
  OBVIOUS
<1>2. /\ DOMAIN u = 1 .. m + n
      /\ \A i \in 1 .. m + n : u[i] = IF i <= m THEN s[i] ELSE t[i - m]
  <2>1. u \in Seq(T) /\ Len(u) = m + n
        /\ \A i \in 1 .. m + n : u[i] = IF i <= m THEN s[i] ELSE t[i - m]
    BY ConcatProperties
  <2> HIDE DEF u, m, n
  <2> QED
    BY <2>1
<1>3. \A i \in 1 .. m : i \in 1 .. m + n /\ u[i] = s[i]
  <2> HIDE DEF u, m, n
  <2> QED
    BY <1>1, <1>2
<1>4. \A j \in 1 .. n : m + j \in 1 .. m + n /\ u[m + j] = t[j]
  <2> HIDE DEF u, m, n
  <2>1. \A j \in 1 .. n : m + j \in 1 .. m + n /\ ~(m + j <= m) /\ (m + j) - m = j
    BY <1>1
  <2> QED
    BY <1>2, <2>1
<1>5. Range(s) = {s[i] : i \in 1 .. m} /\ Range(t) = {t[i] : i \in 1 .. n}
  BY DEF Range
<1> HIDE DEF u, m, n
<1>6. ASSUME IsInjective(u) PROVE IsInjective(s) /\ IsInjective(t) /\ Range(s) \cap Range(t) = {}
  <2>1. \A i, j \in 1 .. m + n : u[i] = u[j] => i = j
    BY <1>2, <1>6 DEF IsInjective
  <2>2. IsInjective(s)
    BY <1>1, <1>3, <2>1 DEF IsInjective
  <2>3. IsInjective(t)
    <3>1. ASSUME NEW i \in 1 .. n, NEW j \in 1 .. n, t[i] = t[j] PROVE i = j
      <4>1. u[m + i] = u[m + j] /\ m + i \in 1 .. m + n /\ m + j \in 1 .. m + n
        BY <1>4, <3>1
      <4>2. m + i = m + j
        BY <2>1, <4>1
      <4> QED
        BY <1>1, <4>2
    <3> QED
      BY <1>1, <3>1 DEF IsInjective
  <2>4. ASSUME NEW i \in 1 .. m, NEW j \in 1 .. n, s[i] = t[j] PROVE FALSE
    <3>1. i \in 1 .. m + n /\ m + j \in 1 .. m + n /\ u[i] = u[m + j]
      BY <1>3, <1>4, <2>4
    <3>2. i = m + j
      BY <2>1, <3>1
    <3> QED
      BY <1>1, <3>2
  <2> QED
    BY <1>5, <2>2, <2>3, <2>4
<1>7. ASSUME IsInjective(s), IsInjective(t), Range(s) \cap Range(t) = {} PROVE IsInjective(u)
  <2>1. ASSUME NEW i \in 1 .. m + n, NEW j \in 1 .. m + n, u[i] = u[j] PROVE i = j
    <3>1. CASE i <= m /\ j <= m
      <4>1. i \in 1 .. m /\ j \in 1 .. m /\ s[i] = s[j]
        BY <1>1, <1>3, <2>1, <3>1
      <4> QED
        BY <1>1, <1>7, <4>1 DEF IsInjective
    <3>2. CASE ~(i <= m) /\ ~(j <= m)
      <4>1. i - m \in 1 .. n /\ j - m \in 1 .. n /\ t[i - m] = t[j - m]
        BY <1>1, <1>2, <2>1, <3>2
      <4>2. i - m = j - m
        BY <1>1, <1>7, <4>1 DEF IsInjective
      <4> QED
        BY <1>1, <4>2
    <3>3. CASE i <= m /\ ~(j <= m)
      <4>1. i \in 1 .. m /\ j - m \in 1 .. n /\ s[i] = t[j - m]
        BY <1>1, <1>2, <2>1, <3>3
      <4> QED
        BY <1>5, <1>7, <4>1
    <3>4. CASE ~(i <= m) /\ j <= m
      <4>1. j \in 1 .. m /\ i - m \in 1 .. n /\ s[j] = t[i - m]
        BY <1>1, <1>2, <2>1, <3>4
      <4> QED
        BY <1>5, <1>7, <4>1
    <3> QED
      BY <3>1, <3>2, <3>3, <3>4
  <2> QED
    BY <1>2, <2>1 DEF IsInjective
<1> QED
  BY <1>6, <1>7 DEF u

\* The first element of a list, and the rest.
LEMMA HeadFirst ==
    ASSUME NEW T, NEW s \in Seq(T), s # << >>
    PROVE  /\ Head(s) \in T /\ Tail(s) \in Seq(T) /\ << Head(s) >> \in Seq(T)
           /\ s = << Head(s) >> \o Tail(s)
           /\ Len(s) = 1 + Len(Tail(s))
<1>1. Head(s) \in T /\ Tail(s) \in Seq(T) /\ Len(Tail(s)) = Len(s) - 1
      /\ \A i \in 1 .. Len(Tail(s)) : Tail(s)[i] = s[i + 1]
  BY HeadTailProperties
<1>2. << Head(s) >> \in Seq(T) /\ Len(<< Head(s) >>) = 1 /\ << Head(s) >>[1] = s[1]
  BY <1>1
<1> DEFINE h == << Head(s) >>
           t == Tail(s)
           u == h \o t
<1>3. h \in Seq(T) /\ t \in Seq(T) /\ Len(h) = 1 /\ h[1] = s[1] /\ Len(t) = Len(s) - 1
      /\ (\A i \in 1 .. Len(t) : t[i] = s[i + 1]) /\ Len(s) \in Nat
  BY <1>1, <1>2
<1> HIDE DEF h, t
<1>4. u \in Seq(T) /\ Len(u) = 1 + Len(t)
      /\ \A i \in 1 .. 1 + Len(t) : u[i] = IF i <= 1 THEN h[i] ELSE t[i - 1]
  <2>1. u \in Seq(T) /\ Len(u) = Len(h) + Len(t)
        /\ \A i \in 1 .. Len(h) + Len(t) : u[i] = IF i <= Len(h) THEN h[i] ELSE t[i - Len(h)]
    <3>1. h \in Seq(T) /\ t \in Seq(T)
      BY <1>3
    <3> QED
      BY <3>1, ConcatProperties
  <2> HIDE DEF u
  <2> QED
    BY <1>3, <2>1
<1>5. \A i \in 1 .. Len(s) : u[i] = s[i]
  <2> TAKE i \in 1 .. Len(s)
  <2>1. CASE i = 1
    BY <1>3, <1>4, <2>1
  <2>2. CASE i # 1
    <3>1. i - 1 \in 1 .. Len(t) /\ (i - 1) + 1 = i /\ i \in 1 .. 1 + Len(t)
      BY <1>3, <2>2
    <3> QED
      BY <1>3, <1>4, <2>2, <3>1
  <2> QED
    BY <2>1, <2>2
<1>6. u = s
  <2> HIDE DEF u
  <2>1. Len(u) = Len(s)
    BY <1>3, <1>4
  <2> QED
    BY <1>4, <1>5, <2>1, SeqEqual
<1> QED
  BY <1>1, <1>2, <1>3, <1>4, <1>6 DEF h, t

\* A list cut after n elements.
LEMMA Cut ==
    ASSUME NEW T, NEW s \in Seq(T), NEW n \in 0 .. Len(s)
    PROVE  /\ Prefix(s, n) \in Seq(T) /\ Len(Prefix(s, n)) = n
           /\ Suffix(s, Len(s) - n) \in Seq(T) /\ Len(Suffix(s, Len(s) - n)) = Len(s) - n
           /\ \A i \in 1 .. n : Prefix(s, n)[i] = s[i]
           /\ \A i \in 1 .. Len(s) - n : Suffix(s, Len(s) - n)[i] = s[n + i]
           /\ Prefix(s, n) \o Suffix(s, Len(s) - n) = s
<1> DEFINE p == Prefix(s, n)
           q == Suffix(s, Len(s) - n)
           u == p \o q
<1>1. p \in Seq(T) /\ Len(p) = n /\ \A i \in 1 .. n : p[i] = s[i]
  BY DEF Prefix
<1>2. q \in Seq(T) /\ Len(q) = Len(s) - n /\ \A i \in 1 .. Len(s) - n : q[i] = s[n + i]
  <2>1. Len(s) - (Len(s) - n) + 1 = n + 1 /\ Len(s) \in Nat
    OBVIOUS
  <2>2. q = SubSeq(s, n + 1, Len(s))
    BY <2>1 DEF Suffix
  <2>3. \A i \in n + 1 .. Len(s) : s[i] \in T
    OBVIOUS
  <2> HIDE DEF q
  <2>4. /\ q \in Seq(T)
        /\ Len(q) = IF n + 1 <= Len(s) THEN Len(s) - (n + 1) + 1 ELSE 0
        /\ \A i \in 1 .. Len(s) - (n + 1) + 1 : q[i] = s[(n + 1) + i - 1]
    <3>1. n + 1 \in Int /\ Len(s) \in Int
      OBVIOUS
    <3> QED
      BY <2>2, <2>3, <3>1, SubSeqProperties
  <2>5. n \in Nat /\ n <= Len(s)
    OBVIOUS
  <2> QED
    BY <2>1, <2>4, <2>5
<1> HIDE DEF p, q
<1>3. Len(s) \in Nat
  OBVIOUS
<1>4. u \in Seq(T) /\ Len(u) = Len(s)
      /\ \A i \in 1 .. Len(s) : u[i] = IF i <= n THEN p[i] ELSE q[i - n]
  <2>1. u \in Seq(T) /\ Len(u) = Len(p) + Len(q)
        /\ \A i \in 1 .. Len(p) + Len(q) : u[i] = IF i <= Len(p) THEN p[i] ELSE q[i - Len(p)]
    BY <1>1, <1>2, ConcatProperties
  <2>2. Len(p) + Len(q) = Len(s)
    BY <1>1, <1>2, <1>3
  <2> HIDE DEF u
  <2> QED
    BY <1>1, <2>1, <2>2
<1>5. \A i \in 1 .. Len(s) : u[i] = s[i]
  <2> TAKE i \in 1 .. Len(s)
  <2> HIDE DEF u
  <2>1. CASE i <= n
    BY <1>1, <1>4, <2>1
  <2>2. CASE ~(i <= n)
    <3>1. i - n \in 1 .. Len(s) - n /\ n + (i - n) = i
      BY <1>3, <2>2
    <3> QED
      BY <1>2, <1>4, <2>2, <3>1
  <2> QED
    BY <2>1, <2>2
<1>6. u = s
  <2> HIDE DEF u
  <2> QED
    BY <1>4, <1>5, SeqEqual
<1> QED
  BY <1>1, <1>2, <1>6 DEF p, q

LEMMA Reversed ==
    ASSUME NEW T, NEW s \in Seq(T)
    PROVE  /\ Reverse(s) \in Seq(T) /\ Len(Reverse(s)) = Len(s)
           /\ Range(Reverse(s)) = Range(s)
           /\ IsInjective(s) => IsInjective(Reverse(s))
<1> DEFINE n == Len(s)
           r == Reverse(s)
<1>1. n \in Nat /\ \A i \in 1 .. n : (n - i) + 1 \in 1 .. n
  OBVIOUS
<1>2. r = [i \in 1 .. n |-> s[(n - i) + 1]]
  BY DEF Reverse
<1>3. r \in Seq(T) /\ Len(r) = n /\ DOMAIN r = 1 .. n /\ \A i \in 1 .. n : r[i] = s[(n - i) + 1]
  <2> HIDE DEF r
  <2>1. \A i \in 1 .. n : s[(n - i) + 1] \in T
    OBVIOUS
  <2> QED
    BY <1>1, <1>2, <2>1
<1>4. DOMAIN s = 1 .. n /\ \A x : x \in Range(s) <=> \E i \in 1 .. n : s[i] = x
  BY RangeIs
<1> HIDE DEF r, n
<1>5. \A x : x \in Range(r) <=> \E i \in 1 .. n : r[i] = x
  BY <1>3, RangeIs
<1>6. ASSUME NEW x, x \in Range(r) PROVE x \in Range(s)
  BY <1>1, <1>3, <1>4, <1>5, <1>6
<1>7. ASSUME NEW x, x \in Range(s) PROVE x \in Range(r)
  <2>1. PICK i \in 1 .. n : s[i] = x
    BY <1>4, <1>7
  <2>2. (n - i) + 1 \in 1 .. n /\ r[(n - i) + 1] = s[i]
    <3>1. (n - i) + 1 \in 1 .. n /\ (n - ((n - i) + 1)) + 1 = i
      BY <1>1
    <3> QED
      BY <1>3, <3>1
  <2> QED
    BY <1>5, <2>1, <2>2
<1>8. ASSUME IsInjective(s) PROVE IsInjective(r)
  <2>1. ASSUME NEW i \in 1 .. n, NEW j \in 1 .. n, r[i] = r[j] PROVE i = j
    <3>1. (n - i) + 1 = (n - j) + 1
      BY <1>1, <1>3, <1>4, <1>8, <2>1 DEF IsInjective
    <3> QED
      BY <1>1, <3>1
  <2> QED
    BY <1>3, <2>1 DEF IsInjective
<1> QED
  BY <1>3, <1>6, <1>7, <1>8 DEF r, n

\* A list of numbers up to M without repetitions has at most M elements.
LEMMA OnceFits ==
    ASSUME NEW M \in Nat, NEW s \in Seq(1 .. M), IsInjective(s)
    PROVE  Len(s) <= M
<1> DEFINE n == Len(s)
<1>1. n \in Nat /\ s \in [1 .. n -> 1 .. M] /\ DOMAIN s = 1 .. n
  OBVIOUS
<1>2. IsFiniteSet(1 .. n) /\ Cardinality(1 .. n) = n
  <2> HIDE DEF n
  <2> QED
    BY <1>1, FS_Interval
<1>3. IsFiniteSet(1 .. M) /\ Cardinality(1 .. M) = M
  BY FS_Interval
<1> HIDE DEF n
<1>4. CASE M < n
  <2>1. PICK i \in 1 .. n, j \in 1 .. n : i # j /\ s[i] = s[j]
    BY <1>1, <1>2, <1>3, <1>4, FS_PigeonHole
  <2> QED
    BY <1>1, <2>1 DEF IsInjective
<1>5. CASE ~(M < n)
  BY <1>1, <1>5 DEF n
<1> QED
  BY <1>4, <1>5
-----------------------------------------------------------------------------
(***************************************************************************)
(* The invariant that is inductive, in parts.                              *)
(***************************************************************************)

\* Bytes come from the device or from callers.
Carriers == IF pipe = "IN" THEN {Device} ELSE Users
ByteType == Carriers \X Int

PendingType == [xfer : Xfers, ovl : Ovls, io : {"flying", "done", "failed", "cancelled"}]

Links == [Ovls -> 0 .. MaxPendingIO]
OvlType == [head : 0 .. MaxPendingIO, prev : Links, next : Links]

CallType == [taken : Seq(Xfers), fails : BOOLEAN, backup : Xfers \cup {NULL},
             saved : Seq(ByteType)]

Places == {"idle", "sem", "lock", "taken", "error", "apc", "append", "inc", "restored",
           "starting", "stopapc", "stopping", "freed"}

\* The thread ends by itself only after a failure, it does so at once, and
\* whoever calls StmK_Start or StmK_Stop knows whether it runs.
ThreadInv ==
    /\ setup \in Setups
    /\ state \in {"STOPPED", "STARTED", "STARTING", "STOPPING"}
    /\ thread \in {"none", "begin", "loop", "queued", "pending", "sleep", "sync",
                   "drain", "drainpending", "ending"}
    /\ failed \in BOOLEAN
    /\ state = "STOPPED" <=> thread = "none"
    /\ state = "STARTING" <=> thread = "begin"
    /\ state = "STARTING" => At(Controller, "starting")
    /\ failed => thread \in {"loop", "sync", "drain", "drainpending", "ending"}
    /\ At(Controller, "idle") /\ state = "STOPPING" => failed
    /\ FreedIsStopped

\* What the thread has in hand: the links of ovlList stay links whatever the
\* second DL_DELETE does, there is an OVERLAPPED and a transfer to submit where
\* the thread submits one, and there are no APCs without a thread.
HandInv ==
    /\ noWaiting \in BOOLEAN /\ apcCount \in Int
    /\ ovls \in OvlType
    /\ thread = "queued" => ovls.head # NULL /\ queued # << >>
    /\ thread = "none" => apcs = << >>

\* A caller's locals, and the lock.
CallInv ==
    /\ lock \in Users \cup {Free}
    /\ pc \in [Users \cup {Controller} -> Places]
    /\ call \in [Users -> CallType]
    /\ \A c \in Users : (lock = c) <=> pc[c] \in {"taken", "restored"}
    /\ \A c \in Users : pc[c] \notin {"taken", "apc", "append", "error"} => call[c] = NoCall

InQueued == Range(queued)
InPending == Range(XfersOf(pending))
InFinished == Range(finished)
InTemp == Range(finishedTemp)
AllApcs == FlattenSeq(apcs)
InApcs == Range(AllApcs)

ListTypes ==
    /\ queued \in Seq(Xfers) /\ finished \in Seq(Xfers) /\ finishedTemp \in Seq(Xfers)
    /\ pending \in Seq(PendingType)
    /\ apcs \in Seq(Seq(Xfers))
    /\ \A i \in DOMAIN apcs : Len(apcs[i]) <= MaxPendingTransfers
    /\ lost \in SUBSET Xfers

\* No list has a transfer twice.
NoRepeats ==
    /\ IsInjective(queued) /\ IsInjective(XfersOf(pending)) /\ IsInjective(finished)
    /\ IsInjective(finishedTemp) /\ IsInjective(AllApcs)
    /\ \A c \in Users : IsInjective(call[c].taken)

\* A transfer is in one place.
OnePlace ==
    /\ InQueued \cap (InPending \cup InFinished \cup InTemp \cup InApcs \cup lost) = {}
    /\ InPending \cap (InFinished \cup InTemp \cup InApcs \cup lost) = {}
    /\ InFinished \cap (InTemp \cup InApcs \cup lost) = {}
    /\ InTemp \cap (InApcs \cup lost) = {}
    /\ InApcs \cap lost = {}
    /\ \A c \in Users :
          /\ Taken(c) \cap (InQueued \cup InPending \cup InFinished \cup InTemp \cup InApcs
                               \cup lost) = {}
          /\ \A d \in Users \ {c} : Taken(c) \cap Taken(d) = {}

\* No transfer is nowhere.
SomePlace ==
    \A x \in Xfers : \/ x \in InQueued \cup InPending \cup InFinished \cup InTemp \cup InApcs
                                 \cup lost
                     \/ \E c \in Users : x \in Taken(c)

ListInv == ListTypes /\ NoRepeats /\ OnePlace /\ SomePlace

SemInv ==
    /\ sem \in Nat
    /\ ~HasSem => sem = 0
    /\ SemExact

\* What transfers carry.
DataInv ==
    /\ data \in [Xfers -> Seq(ByteType)]
    /\ \A x \in Xfers : Len(data[x]) <= MaxTransferSize
    /\ \A c \in Users : Len(call[c].saved) <= MaxTransferSize
    /\ entered \in [Sources -> Int] /\ left \in [Sources -> Int]
    /\ \A s \in Sources \ Carriers : entered[s] = left[s]

\* Transfers end in the order they were submitted, and until something has failed
\* a read has nothing before it has ended and what a caller is about to queue is
\* its own.  (A failed claim writes to a transfer another caller may have taken on.)
FlyingInv ==
    /\ \A i, j \in DOMAIN pending : i < j /\ pending[i].io = "flying" => pending[j].io = "flying"
    /\ clean /\ pipe = "IN" =>
          \A i \in DOMAIN pending : pending[i].io = "flying" => data[pending[i].xfer] = << >>
    /\ clean /\ pipe = "OUT" =>
          \A c \in Users : \A x \in Taken(c) : data[x] # << >> => Source(Head(data[x])) = c

OrderInv ==
    /\ clean \in BOOLEAN
    /\ clean => \A s \in Sources : left[s] <= entered[s]
    /\ InOrder

IInv == ThreadInv /\ HandInv /\ CallInv /\ ListInv /\ SemInv /\ DataInv /\ FlyingInv /\ OrderInv

-----------------------------------------------------------------------------
(***************************************************************************)
(* What the invariant says, and that it holds initially.                   *)
(***************************************************************************)

LEMMA SetupIs ==
    ASSUME setup \in Setups
    PROVE  /\ pipe \in {"IN", "OUT"} /\ HasSem \in BOOLEAN /\ setup.failures \in BOOLEAN
           /\ MaxPendingTransfers \in Nat /\ MaxPendingTransfers >= MaxPendingIO
           /\ Xfers = 1 .. MaxPendingTransfers /\ NULL \notin Xfers
BY SetupAssumption DEF pipe, HasSem, MaxPendingTransfers, Xfers, NULL

LEMMA UsersAre == Controller \notin Users /\ Device \notin Users /\ Free \notin Users
BY UserAssumption

LEMMA NoCallIs ==
    /\ NoCall \in CallType /\ NoCall.taken = << >> /\ Len(NoCall.saved) = 0
    /\ NoCall.backup = NULL
<1>1. << >> \in Seq(Xfers) /\ << >> \in Seq(ByteType)
  BY EmptySeq
<1> QED
  BY <1>1 DEF NoCall, CallType

\* The transfers of the elements of pendingList.
LEMMA XfersAre ==
    ASSUME NEW l \in Seq(PendingType)
    PROVE  /\ XfersOf(l) \in Seq(Xfers) /\ Len(XfersOf(l)) = Len(l)
           /\ DOMAIN XfersOf(l) = 1 .. Len(l)
           /\ \A i \in 1 .. Len(l) : XfersOf(l)[i] = l[i].xfer /\ l[i].xfer \in Xfers
<1>1. \A i \in 1 .. Len(l) : l[i].xfer \in Xfers
  <2>1. \A i \in 1 .. Len(l) : l[i] \in PendingType
    BY ElementOfSeq
  <2> QED
    BY <2>1 DEF PendingType
<1> QED
  BY <1>1 DEF XfersOf

LEMMA XfersJoined ==
    ASSUME NEW l \in Seq(PendingType), NEW m \in Seq(PendingType)
    PROVE  XfersOf(l \o m) = XfersOf(l) \o XfersOf(m)
<1> DEFINE a == XfersOf(l \o m)
           p == XfersOf(l)
           q == XfersOf(m)
           b == p \o q
<1>1. /\ l \o m \in Seq(PendingType) /\ Len(l \o m) = Len(l) + Len(m)
      /\ \A i \in 1 .. Len(l) + Len(m) : (l \o m)[i] = IF i <= Len(l) THEN l[i] ELSE m[i - Len(l)]
  BY ConcatProperties
<1>2. a \in Seq(Xfers) /\ Len(a) = Len(l) + Len(m)
      /\ \A i \in 1 .. Len(l) + Len(m) : a[i] = (l \o m)[i].xfer
  BY <1>1, XfersAre
<1>3. p \in Seq(Xfers) /\ Len(p) = Len(l) /\ q \in Seq(Xfers) /\ Len(q) = Len(m)
      /\ (\A i \in 1 .. Len(l) : p[i] = l[i].xfer) /\ \A i \in 1 .. Len(m) : q[i] = m[i].xfer
  BY XfersAre
<1>4. Len(l) \in Nat /\ Len(m) \in Nat
  OBVIOUS
<1> HIDE DEF p, q
<1>5. b \in Seq(Xfers) /\ Len(b) = Len(p) + Len(q)
      /\ \A i \in 1 .. Len(p) + Len(q) : b[i] = IF i <= Len(p) THEN p[i] ELSE q[i - Len(p)]
  <2>1. p \in Seq(Xfers) /\ q \in Seq(Xfers)
    BY <1>3
  <2> QED
    BY <2>1, ConcatProperties
<1>6. Len(b) = Len(a)
  BY <1>2, <1>3, <1>5
<1> HIDE DEF a, b
<1>7. \A i \in 1 .. Len(a) : a[i] = b[i]
  <2> TAKE i \in 1 .. Len(a)
  <2>1. CASE i <= Len(l)
    <3>1. i \in 1 .. Len(l) /\ i \in 1 .. Len(l) + Len(m)
      BY <1>2, <1>4, <2>1
    <3>2. a[i] = l[i].xfer
      BY <1>1, <1>2, <2>1, <3>1
    <3>3. b[i] = p[i]
      BY <1>3, <1>5, <2>1, <3>1
    <3> QED
      BY <1>3, <3>1, <3>2, <3>3
  <2>2. CASE ~(i <= Len(l))
    <3>1. i - Len(l) \in 1 .. Len(m)
      BY <1>2, <1>4, <2>2
    <3> QED
      BY <1>1, <1>2, <1>3, <1>4, <1>5, <2>2, <3>1
  <2> QED
    BY <2>1, <2>2
<1>8. a = b
  BY <1>2, <1>5, <1>6, <1>7, SeqEqual
<1> QED
  BY <1>8 DEF a, b, p, q

\* AllApcs is a list of transfers.
LEMMA ApcsAre ==
    ASSUME apcs \in Seq(Seq(Xfers))
    PROVE  AllApcs \in Seq(Xfers)
BY FlatAppend, EmptySeq, SMTT(40) DEF AllApcs

LEMMA ListFits ==
    ASSUME setup \in Setups, NEW l \in Seq(Xfers), IsInjective(l)
    PROVE  l \in ListOf(Xfers) /\ Len(l) <= MaxPendingTransfers
<1>1. Len(l) <= MaxPendingTransfers /\ MaxPendingTransfers \in Nat
  BY SetupIs, OnceFits
<1>2. Len(l) \in 0 .. MaxPendingTransfers /\ l \in [1 .. Len(l) -> Xfers]
  BY <1>1
<1> QED
  BY <1>1, <1>2 DEF ListOf

LEMMA InvImpliesTypeOK == IInv => TypeOK
<1> SUFFICES ASSUME IInv PROVE TypeOK
  OBVIOUS
<1> USE DEF IInv
<1>1. setup \in Setups
  BY DEF ThreadInv
<1>2. \A l \in {queued, finished, finishedTemp} : l \in ListOf(Xfers) /\ Len(l) <= MaxPendingTransfers
  BY <1>1, ListFits DEF ListInv, ListTypes, NoRepeats
<1>3. \A l \in Range(apcs) : l \in ListOf(Xfers)
  <2> TAKE l \in Range(apcs)
  <2>1. PICK i \in DOMAIN apcs : l = apcs[i]
    BY DEF Range
  <2>2. l \in Seq(Xfers) /\ Len(l) <= MaxPendingTransfers
    BY <2>1 DEF ListInv, ListTypes
  <2>3. Len(l) \in 0 .. MaxPendingTransfers /\ l \in [1 .. Len(l) -> Xfers]
    BY <1>1, <2>2, SetupIs
  <2> QED
    BY <2>3 DEF ListOf
<1>4. \A i \in DOMAIN pending :
         pending[i] \in [xfer : Xfers, ovl : Ovls, io : {"flying", "done", "failed", "cancelled"}]
  <2>1. pending \in Seq(PendingType)
    BY DEF ListInv, ListTypes
  <2>2. \A i \in DOMAIN pending : pending[i] \in PendingType
    BY <2>1, ElementOfSeq
  <2> QED
    BY <2>2, Zenon DEF PendingType
<1>5. sem \in 0 .. MaxPendingTransfers
  <2>1. CASE ~HasSem
    BY <1>1, <2>1, SetupIs DEF SemInv
  <2>2. CASE HasSem
    <3> DEFINE S == {c \in Users : At(c, "lock")}
    <3>1. Cardinality(S) \in Nat
      BY UserAssumption, FS_Subset, FS_CardinalityType
    <3>2. sem \in Nat /\ sem + Cardinality(S) = Len(finished)
      BY <2>2 DEF SemInv, SemExact
    <3>3. Len(finished) <= MaxPendingTransfers
      BY <1>2
    <3>4. Len(finished) \in Nat /\ MaxPendingTransfers \in Nat
      BY <1>1, SetupIs DEF ListInv, ListTypes
    <3> HIDE DEF S
    <3> QED
      BY <3>1, <3>2, <3>3, <3>4
  <2> QED
    BY <1>1, <2>1, <2>2, SetupIs
<1>6. ovls.head \in Ovls \cup {NULL} /\ \A o \in Ovls : {ovls.prev[o], ovls.next[o]} \subseteq 0 .. MaxPendingIO
  BY InitAssumption DEF HandInv, OvlType, Links, Ovls, NULL
<1> QED
  BY <1>1, <1>2, <1>3, <1>4, <1>5, <1>6 DEF TypeOK, ThreadInv, HandInv, CallInv, DataInv

LEMMA InvImpliesConserved == IInv => TransferConserved
<1> SUFFICES ASSUME IInv PROVE TransferConserved
  OBVIOUS
<1>1. ListTypes /\ NoRepeats /\ OnePlace /\ SomePlace /\ CallInv
  BY DEF IInv, ListInv
<1>2. /\ queued \in Seq(Xfers) /\ XfersOf(pending) \in Seq(Xfers) /\ finished \in Seq(Xfers)
      /\ finishedTemp \in Seq(Xfers) /\ AllApcs \in Seq(Xfers)
  BY <1>1, XfersAre, ApcsAre DEF ListTypes
<1> DEFINE p == XfersOf(pending)
           s == queued \o p
           t == s \o finished
           u == t \o finishedTemp
           v == u \o AllApcs
<1>3. s \in Seq(Xfers) /\ t \in Seq(Xfers) /\ u \in Seq(Xfers) /\ v \in Seq(Xfers)
  BY <1>2, ConcatProperties
<1>4. v = Listed
  BY DEF Listed, AllApcs
<1> HIDE DEF p
<1>5. /\ Range(s) = InQueued \cup InPending
      /\ Range(t) = Range(s) \cup InFinished
      /\ Range(u) = Range(t) \cup InTemp
      /\ Range(v) = Range(u) \cup InApcs
  <2>1. Range(s) = Range(queued) \cup Range(p)
    BY <1>2, JoinedRange DEF p
  <2> HIDE DEF s
  <2>2. Range(t) = Range(s) \cup Range(finished)
    BY <1>2, <1>3, JoinedRange
  <2> HIDE DEF t
  <2>3. Range(u) = Range(t) \cup Range(finishedTemp)
    BY <1>2, <1>3, JoinedRange
  <2> HIDE DEF u
  <2>4. Range(v) = Range(u) \cup Range(AllApcs)
    BY <1>2, <1>3, JoinedRange
  <2> QED
    BY <2>1, <2>2, <2>3, <2>4 DEF p, InQueued, InPending, InFinished, InTemp, InApcs
<1>6. /\ IsInjective(s) <=> IsInjective(queued) /\ IsInjective(p) /\ InQueued \cap InPending = {}
      /\ IsInjective(t) <=> IsInjective(s) /\ IsInjective(finished) /\ Range(s) \cap InFinished = {}
      /\ IsInjective(u) <=> IsInjective(t) /\ IsInjective(finishedTemp) /\ Range(t) \cap InTemp = {}
      /\ IsInjective(v) <=> IsInjective(u) /\ IsInjective(AllApcs) /\ Range(u) \cap InApcs = {}
  BY <1>2, <1>3, JoinedOnce DEF p, InQueued, InPending, InFinished, InTemp, InApcs
<1> HIDE DEF s, t, u, v
<1>7. IsInjective(v)
  BY <1>1, <1>5, <1>6 DEF p, NoRepeats, OnePlace
<1>8. Range(v) = InQueued \cup InPending \cup InFinished \cup InTemp \cup InApcs
  BY <1>5
<1>9. \A c \in Users : Taken(c) \in SUBSET Xfers
  <2> TAKE c \in Users
  <2>1. call[c].taken \in Seq(Xfers)
    BY <1>1 DEF CallInv, CallType
  <2> QED
    BY <2>1, RangeIs DEF Taken
<1>10. Range(v) \in SUBSET Xfers
  BY <1>3, RangeIs
<1> DEFINE taken == UNION {Taken(c) : c \in Users}
<1>11. \A x : x \in taken <=> \E c \in Users : x \in Taken(c)
  OBVIOUS
<1> HIDE DEF taken
<1>12. Range(v) \cap taken = {} /\ (Range(v) \cup taken) \cap lost = {}
  BY <1>1, <1>8, <1>11 DEF OnePlace
<1>13. Range(v) \cup taken \cup lost = Xfers
  BY <1>1, <1>8, <1>9, <1>10, <1>11 DEF SomePlace, ListTypes
<1>14. \A c, d \in Users : c # d => Taken(c) \cap Taken(d) = {}
  BY <1>1 DEF OnePlace
<1> QED
  BY <1>1, <1>4, <1>7, <1>12, <1>13, <1>14 DEF TransferConserved, NoRepeats, taken

LEMMA InvImplies == IInv => StreamConsistent /\ InOrder /\ FreedIsStopped
BY InvImpliesTypeOK, InvImpliesConserved DEF StreamConsistent, IInv, SemInv, OrderInv, ThreadInv

-----------------------------------------------------------------------------
(***************************************************************************)
(* What transfers carry, as a function of the bytes d of each transfer.    *)
(***************************************************************************)

Carry(d, s, x) == IF d[x] # << >> /\ Source(Head(d[x])) = s THEN d[x] ELSE << >>
CarryList(d, s, list) == [i \in DOMAIN list |-> Carry(d, s, list[i])]
CarryAll(d, s, list) == FlattenSeq(CarryList(d, s, list))
FlyBytes(d) == [e \in PendingType |-> IF e.io = "flying" THEN d[e.xfer] ELSE << >>]

LEMMA CarryIs ==
    ASSUME NEW X, NEW B, NEW d \in [X -> Seq(B)], NEW s, NEW list \in Seq(X)
    PROVE  /\ \A i \in 1 .. Len(list) : Carry(d, s, list[i]) \in Seq(B)
           /\ CarryList(d, s, list) \in Seq(Seq(B))
           /\ CarryAll(d, s, list) \in Seq(B)
<1>1. << >> \in Seq(B)
  BY EmptySeq
<1>2. \A i \in 1 .. Len(list) : Carry(d, s, list[i]) \in Seq(B)
  <2>1. \A i \in 1 .. Len(list) : d[list[i]] \in Seq(B)
    OBVIOUS
  <2> QED
    BY <1>1, <2>1 DEF Carry
<1> DEFINE S == Seq(B)
           m == [i \in DOMAIN list |-> Carry(d, s, list[i])]
<1>3. m \in Seq(S)
  <2>1. \A i \in 1 .. Len(list) : Carry(d, s, list[i]) \in S
    BY <1>2
  <2>2. DOMAIN list = 1 .. Len(list) /\ Len(list) \in Nat
    OBVIOUS
  <2> HIDE DEF S
  <2> QED
    BY <2>1, <2>2
<1>4. FlattenSeq(m) \in Seq(B)
  <2> HIDE DEF m
  <2> QED
    BY <1>1, <1>3, FlatAppend
<1> QED
  BY <1>2, <1>3, <1>4 DEF CarryAll, CarryList

LEMMA CarryNothing ==
    ASSUME NEW d, NEW s
    PROVE  CarryAll(d, s, << >>) = << >>
<1>1. CarryList(d, s, << >>) = << >>
  BY DEF CarryList
<1> QED
  BY <1>1, FlatEmpty DEF CarryAll

LEMMA CarryOne ==
    ASSUME NEW X, NEW B, NEW d \in [X -> Seq(B)], NEW s, NEW x \in X
    PROVE  CarryAll(d, s, << x >>) = Carry(d, s, x) /\ Carry(d, s, x) \in Seq(B)
<1>1. << x >> \in Seq(X) /\ Len(<< x >>) = 1 /\ << x >>[1] = x
  OBVIOUS
<1>2. Carry(d, s, x) \in Seq(B)
  BY EmptySeq DEF Carry
<1>3. CarryList(d, s, << x >>) = << Carry(d, s, x) >>
  BY DEF CarryList
<1> QED
  BY <1>2, <1>3, FlatOne DEF CarryAll

\* What two lists put together carry; the same for pendingList.
LEMMA CarryJoined ==
    ASSUME NEW X, NEW B, NEW d \in [X -> Seq(B)], NEW s, NEW a \in Seq(X), NEW b \in Seq(X)
    PROVE  CarryAll(d, s, a \o b) = CarryAll(d, s, a) \o CarryAll(d, s, b)
<1> DEFINE C(x) == Carry(d, s, x)
           ab == a \o b
           m == CarryList(d, s, a)
           n == CarryList(d, s, b)
           mn == CarryList(d, s, ab)
<1>1. m \in Seq(Seq(B)) /\ n \in Seq(Seq(B))
  BY CarryIs
<1>2. /\ ab \in Seq(X) /\ Len(ab) = Len(a) + Len(b)
      /\ \A i \in 1 .. Len(a) + Len(b) : ab[i] = IF i <= Len(a) THEN a[i] ELSE b[i - Len(a)]
  BY ConcatProperties
<1>3. mn \in Seq(Seq(B))
  <2> HIDE DEF ab
  <2> QED
    BY <1>2, CarryIs
<1>4. /\ Len(a) \in Nat /\ Len(b) \in Nat
      /\ Len(m) = Len(a) /\ \A i \in 1 .. Len(a) : m[i] = C(a[i])
  BY DEF CarryList
<1>5. Len(n) = Len(b) /\ \A i \in 1 .. Len(b) : n[i] = C(b[i])
  BY DEF CarryList
<1>6. Len(mn) = Len(a) + Len(b) /\ \A i \in 1 .. Len(a) + Len(b) : mn[i] = C(ab[i])
  <2> HIDE DEF ab
  <2>1. DOMAIN ab = 1 .. Len(a) + Len(b)
    BY <1>2
  <2> QED
    BY <1>4, <2>1 DEF CarryList
<1> HIDE DEF C, m, n, mn, ab
<1>7. /\ Len(m \o n) = Len(a) + Len(b) /\ m \o n \in Seq(Seq(B))
      /\ \A i \in 1 .. Len(a) + Len(b) : (m \o n)[i] = IF i <= Len(a) THEN m[i] ELSE n[i - Len(a)]
  <2> DEFINE S == Seq(B)
  <2>1. m \in Seq(S) /\ n \in Seq(S)
    BY <1>1
  <2> HIDE DEF S
  <2>2. /\ m \o n \in Seq(S) /\ Len(m \o n) = Len(m) + Len(n)
        /\ \A i \in 1 .. Len(m) + Len(n) : (m \o n)[i] = IF i <= Len(m) THEN m[i] ELSE n[i - Len(m)]
    BY <2>1, ConcatProperties
  <2> QED
    BY <1>4, <1>5, <2>2 DEF S
<1>8. \A i \in 1 .. Len(a) + Len(b) : mn[i] = (m \o n)[i]
  <2> TAKE i \in 1 .. Len(a) + Len(b)
  <2>1. CASE i <= Len(a)
    <3>1. i \in 1 .. Len(a)
      BY <1>4, <2>1
    <3> QED
      BY <1>2, <1>4, <1>6, <1>7, <2>1, <3>1
  <2>2. CASE ~(i <= Len(a))
    <3>1. i - Len(a) \in 1 .. Len(b)
      BY <1>4, <2>2
    <3> QED
      BY <1>2, <1>5, <1>6, <1>7, <2>2, <3>1
  <2> QED
    BY <2>1, <2>2
<1>9. mn = m \o n
  <2> DEFINE S == Seq(B)
             w == m \o n
  <2>1. mn \in Seq(S) /\ w \in Seq(S) /\ Len(mn) = Len(w) /\ \A i \in 1 .. Len(mn) : mn[i] = w[i]
    BY <1>3, <1>6, <1>7, <1>8
  <2> HIDE DEF S, w
  <2>2. mn = w
    BY <2>1, SeqEqual
  <2> QED
    BY <2>2 DEF w
<1>10. FlattenSeq(m \o n) = FlattenSeq(m) \o FlattenSeq(n)
  BY <1>1, FlatConcat
<1> QED
  BY <1>9, <1>10 DEF CarryAll, m, n, mn, ab

\* Only the bytes of the list's transfers matter.
LEMMA CarrySame ==
    ASSUME NEW X, NEW d, NEW e, NEW s, NEW list \in Seq(X),
           \A x \in Range(list) : d[x] = e[x]
    PROVE  CarryAll(d, s, list) = CarryAll(e, s, list)
<1>1. \A i \in DOMAIN list : d[list[i]] = e[list[i]]
  BY DEF Range
<1>2. \A i \in DOMAIN list : Carry(d, s, list[i]) = Carry(e, s, list[i])
  BY <1>1 DEF Carry
<1>3. CarryList(d, s, list) = CarryList(e, s, list)
  BY <1>2 DEF CarryList
<1> QED
  BY <1>3 DEF CarryAll

LEMMA CarryNone ==
    ASSUME NEW X, NEW d, NEW s, NEW list \in Seq(X),
           \A x \in Range(list) : Carry(d, s, x) = << >>
    PROVE  CarryAll(d, s, list) = << >>
<1>1. \A i \in 1 .. Len(list) : Carry(d, s, list[i]) = << >>
  BY DEF Range
<1>2. CarryList(d, s, list) \in Seq({<< >>})
  BY <1>1 DEF CarryList
<1> QED
  BY <1>2, FlatNothing DEF CarryAll

\* Both for lists of transfers.
LEMMA CarryTwo ==
    ASSUME NEW d \in [Xfers -> Seq(ByteType)], NEW s, NEW a \in Seq(Xfers), NEW b \in Seq(Xfers)
    PROVE  /\ a \o b \in Seq(Xfers)
           /\ CarryAll(d, s, a \o b) = CarryAll(d, s, a) \o CarryAll(d, s, b)
           /\ CarryAll(d, s, a) \in Seq(ByteType) /\ CarryAll(d, s, b) \in Seq(ByteType)
<1>1. a \o b \in Seq(Xfers)
  BY ConcatProperties
<1>2. CarryAll(d, s, a) \in Seq(ByteType) /\ CarryAll(d, s, b) \in Seq(ByteType)
  BY CarryIs
<1>3. CarryAll(d, s, a \o b) = CarryAll(d, s, a) \o CarryAll(d, s, b)
  <2> DEFINE X == Xfers
             B == ByteType
  <2>1. d \in [X -> Seq(B)] /\ a \in Seq(X) /\ b \in Seq(X)
    OBVIOUS
  <2> HIDE DEF X, B
  <2> QED
    BY <2>1, CarryJoined
<1> QED
  BY <1>1, <1>2, <1>3


\* The part of pendingList that is in flight, as a list that carries.
LEMMA FlyBytesAre ==
    ASSUME NEW d \in [Xfers -> Seq(ByteType)]
    PROVE  /\ FlyBytes(d) \in [PendingType -> Seq(ByteType)]
           /\ \A e \in PendingType :
                 FlyBytes(d)[e] = IF e.io = "flying" THEN d[e.xfer] ELSE << >>
<1>1. \A e \in PendingType : e.xfer \in Xfers
  BY DEF PendingType
<1>2. << >> \in Seq(ByteType)
  BY EmptySeq
<1> QED
  BY <1>1, <1>2 DEF FlyBytes

LEMMA CarryElements ==
    ASSUME NEW g \in [PendingType -> Seq(ByteType)], NEW s,
           NEW a \in Seq(PendingType), NEW b \in Seq(PendingType)
    PROVE  /\ CarryAll(g, s, a \o b) = CarryAll(g, s, a) \o CarryAll(g, s, b)
           /\ CarryAll(g, s, a) \in Seq(ByteType) /\ CarryAll(g, s, b) \in Seq(ByteType)
<1>1. CarryAll(g, s, a) \in Seq(ByteType) /\ CarryAll(g, s, b) \in Seq(ByteType)
  BY CarryIs
<1>2. CarryAll(g, s, a \o b) = CarryAll(g, s, a) \o CarryAll(g, s, b)
  <2> DEFINE X == PendingType
             B == ByteType
  <2>1. g \in [X -> Seq(B)] /\ a \in Seq(X) /\ b \in Seq(X)
    OBVIOUS
  <2> HIDE DEF X, B
  <2> QED
    BY <2>1, CarryJoined
<1> QED
  BY <1>1, <1>2

LEMMA CarryFly ==
    ASSUME NEW d \in [Xfers -> Seq(ByteType)], NEW s,
           NEW a \in Seq(PendingType), NEW b \in Seq(PendingType)
    PROVE  /\ CarryAll(FlyBytes(d), s, a \o b) = CarryAll(FlyBytes(d), s, a) \o CarryAll(FlyBytes(d), s, b)
           /\ CarryAll(FlyBytes(d), s, a) \in Seq(ByteType) /\ CarryAll(FlyBytes(d), s, b) \in Seq(ByteType)
<1> DEFINE f == FlyBytes(d)
<1>1. f \in [PendingType -> Seq(ByteType)]
  BY FlyBytesAre
<1> HIDE DEF f
<1>2. /\ CarryAll(f, s, a \o b) = CarryAll(f, s, a) \o CarryAll(f, s, b)
      /\ CarryAll(f, s, a) \in Seq(ByteType) /\ CarryAll(f, s, b) \in Seq(ByteType)
  BY <1>1, CarryElements
<1> QED
  BY <1>2 DEF f

LEMMA FlyingIs ==
    ASSUME NEW d \in [Xfers -> Seq(ByteType)], NEW s, NEW l \in Seq(PendingType)
    PROVE  FlattenSeq([i \in DOMAIN l |->
                          IF l[i].io = "flying" THEN Carry(d, s, l[i].xfer) ELSE << >>])
               = CarryAll(FlyBytes(d), s, l)
<1>1. \A i \in DOMAIN l : l[i] \in PendingType
  BY ElementOfSeq
<1>2. \A i \in DOMAIN l : Carry(FlyBytes(d), s, l[i])
                            = IF l[i].io = "flying" THEN Carry(d, s, l[i].xfer) ELSE << >>
  BY <1>1, FlyBytesAre DEF Carry
<1>3. [i \in DOMAIN l |-> IF l[i].io = "flying" THEN Carry(d, s, l[i].xfer) ELSE << >>]
         = CarryList(FlyBytes(d), s, l)
  BY <1>2 DEF CarryList
<1> QED
  BY <1>3 DEF CarryAll

\* What OnTheWay is made of.
LEMMA WayIn ==
    ASSUME ListTypes, DataInv, pipe = "IN", NEW s
    PROVE  /\ OnTheWay(s) = CarryAll(data, s, finished \o finishedTemp \o XfersOf(pending))
           /\ OnTheWay(s) = (CarryAll(data, s, finished) \o CarryAll(data, s, finishedTemp))
                               \o CarryAll(data, s, XfersOf(pending))
<1> DEFINE p == XfersOf(pending)
           ft == finished \o finishedTemp
<1>1. OnTheWay(s) = CarryAll(data, s, ft \o p)
  BY DEF OnTheWay, CarriedBy, Carried, Carry, CarryAll, CarryList
<1>2. p \in Seq(Xfers) /\ finished \in Seq(Xfers) /\ finishedTemp \in Seq(Xfers)
      /\ data \in [Xfers -> Seq(ByteType)]
  BY XfersAre DEF ListTypes, DataInv
<1>3. ft \in Seq(Xfers) /\ CarryAll(data, s, ft) = CarryAll(data, s, finished) \o CarryAll(data, s, finishedTemp)
  BY <1>2, CarryTwo, ZenonT(60)
<1> HIDE DEF p, ft
<1>4. CarryAll(data, s, ft \o p) = CarryAll(data, s, ft) \o CarryAll(data, s, p)
  <2>1. ft \in Seq(Xfers) /\ p \in Seq(Xfers) /\ data \in [Xfers -> Seq(ByteType)]
    BY <1>2, <1>3
  <2> QED
    BY <2>1, CarryTwo, ZenonT(60)
<1> QED
  BY <1>1, <1>3, <1>4 DEF p, ft

Own(s) == IF s \in Users THEN call[s].taken ELSE << >>

LEMMA OwnIs ==
    ASSUME CallInv, NEW s
    PROVE  Own(s) \in Seq(Xfers) /\ (s \in Users => Range(Own(s)) = Taken(s)) /\ (s \notin Users => Own(s) = << >>)
<1>1. << >> \in Seq(Xfers)
  BY EmptySeq
<1> QED
  BY <1>1 DEF Own, CallInv, CallType, Taken

LEMMA WayOut ==
    ASSUME ListTypes, DataInv, CallInv, pipe = "OUT", NEW s
    PROVE  /\ OnTheWay(s) = CarryAll(FlyBytes(data), s, pending)
                               \o CarryAll(data, s, queued \o AllApcs \o Own(s))
           /\ CarryAll(data, s, queued \o AllApcs \o Own(s))
                 = (CarryAll(data, s, queued) \o CarryAll(data, s, AllApcs)) \o CarryAll(data, s, Own(s))
<1> DEFINE o == Own(s)
           qa == queued \o AllApcs
<1>1. /\ pending \in Seq(PendingType) /\ data \in [Xfers -> Seq(ByteType)]
      /\ queued \in Seq(Xfers) /\ AllApcs \in Seq(Xfers) /\ o \in Seq(Xfers)
  BY ApcsAre, OwnIs DEF ListTypes, DataInv
<1>2. Flying(s) = CarryAll(FlyBytes(data), s, pending)
  <2>1. Flying(s) = FlattenSeq([i \in DOMAIN pending |->
                          IF pending[i].io = "flying" THEN Carry(data, s, pending[i].xfer) ELSE << >>])
    BY DEF Flying, Carried, Carry
  <2> QED
    BY <1>1, <2>1, FlyingIs
<1>3. OnTheWay(s) = Flying(s) \o CarryAll(data, s, qa \o o)
  BY DEF OnTheWay, CarriedBy, Carried, Carry, CarryAll, CarryList, Own, AllApcs
<1>4. qa \in Seq(Xfers) /\ CarryAll(data, s, qa) = CarryAll(data, s, queued) \o CarryAll(data, s, AllApcs)
  BY <1>1, CarryTwo, ZenonT(60)
<1> HIDE DEF qa, o
<1>5. CarryAll(data, s, qa \o o) = CarryAll(data, s, qa) \o CarryAll(data, s, o)
  <2>1. qa \in Seq(Xfers) /\ o \in Seq(Xfers) /\ data \in [Xfers -> Seq(ByteType)]
    BY <1>1, <1>4
  <2> QED
    BY <2>1, CarryTwo, ZenonT(60)
<1> QED
  BY <1>2, <1>3, <1>4, <1>5 DEF qa, o

-----------------------------------------------------------------------------
(***************************************************************************)
(* Bytes of one source with consecutive numbers.                           *)
(***************************************************************************)

Run(s, l, e) == [i \in 1 .. e - l |-> << s, l + i >>]

LEMMA RunIs ==
    ASSUME NEW S, NEW s \in S, NEW l \in Int, NEW e \in Int, l <= e
    PROVE  /\ Run(s, l, e) \in Seq(S \X Int) /\ Len(Run(s, l, e)) = e - l
           /\ \A i \in 1 .. e - l : Run(s, l, e)[i] = << s, l + i >>
<1>1. e - l \in Nat
  OBVIOUS
<1>2. \A i \in 1 .. e - l : << s, l + i >> \in S \X Int
  OBVIOUS
<1> QED
  BY <1>1, <1>2 DEF Run

\* The lemmas about \o that follow are cited with these in place of what they say:
\* the provers rewrite \o before they look for an instance.
Joins(u, v, r) == u \o v = r
CutsRun(s, l, e, u, v) ==
    /\ Len(u) + Len(v) = e - l
    /\ u = Run(s, l, l + Len(u)) /\ v = Run(s, l + Len(u), e)
JoinsFour(a, b, c, d) == ((a \o b) \o c) \o d = a \o ((b \o c) \o d)

LEMMA RunCut ==
    ASSUME NEW S, NEW s \in S, NEW l \in Int, NEW e \in Int, l <= e,
           NEW u \in Seq(S \X Int), NEW v \in Seq(S \X Int), Joins(u, v, Run(s, l, e))
    PROVE  CutsRun(s, l, e, u, v)
<1> DEFINE B == S \X Int
           m == Len(u)
           n == Len(v)
           w == u \o v
<1>1. m \in Nat /\ n \in Nat
  OBVIOUS
<1>2. w \in Seq(B) /\ Len(w) = m + n /\ \A i \in 1 .. m + n : w[i] = IF i <= m THEN u[i] ELSE v[i - m]
  <2>1. u \in Seq(B) /\ v \in Seq(B)
    OBVIOUS
  <2> HIDE DEF B
  <2> QED
    BY <2>1, ConcatProperties
<1>3. Len(w) = e - l /\ \A i \in 1 .. e - l : w[i] = << s, l + i >>
  <2> DEFINE r == Run(s, l, e)
  <2>1. Len(r) = e - l /\ \A i \in 1 .. e - l : r[i] = << s, l + i >>
    BY RunIs
  <2>2. w = r
    BY DEF Joins
  <2> HIDE DEF w, r
  <2> QED
    BY <2>1, <2>2
<1> HIDE DEF w, m, n
<1>4. m + n = e - l
  BY <1>2, <1>3
<1> DEFINE a == Run(s, l, l + m)
           b == Run(s, l + m, e)
<1>5. a \in Seq(B) /\ Len(a) = m /\ \A i \in 1 .. m : a[i] = << s, l + i >>
  <2>1. l <= l + m /\ l + m \in Int /\ (l + m) - l = m
    BY <1>1
  <2> QED
    BY <2>1, RunIs, ZenonT(60)
<1>6. b \in Seq(B) /\ Len(b) = n /\ \A i \in 1 .. n : b[i] = << s, (l + m) + i >>
  <2>1. l + m <= e /\ l + m \in Int /\ e - (l + m) = n
    BY <1>1, <1>4
  <2> QED
    BY <2>1, RunIs, ZenonT(60)
<1> HIDE DEF a, b
<1>7. \A i \in 1 .. m : u[i] = a[i]
  <2> TAKE i \in 1 .. m
  <2>1. i \in 1 .. m + n /\ i <= m /\ i \in 1 .. e - l
    BY <1>1, <1>4
  <2> QED
    BY <1>2, <1>3, <1>5, <2>1
<1>8. \A i \in 1 .. n : v[i] = b[i]
  <2> TAKE i \in 1 .. n
  <2>1. m + i \in 1 .. m + n /\ ~(m + i <= m) /\ m + i \in 1 .. e - l /\ (m + i) - m = i
        /\ l + (m + i) = (l + m) + i
    BY <1>1, <1>4
  <2>2. w[m + i] = v[i] /\ w[m + i] = << s, l + (m + i) >>
    BY <1>2, <1>3, <2>1
  <2> QED
    BY <1>6, <2>1, <2>2
<1>9. u \in Seq(B) /\ v \in Seq(B) /\ Len(u) = m /\ Len(v) = n
  BY DEF m, n
<1> HIDE DEF B
<1>10. u = a
  BY <1>5, <1>7, <1>9, SeqEqual
<1>11. v = b
  BY <1>6, <1>8, <1>9, SeqEqual
<1> QED
  BY <1>4, <1>10, <1>11 DEF CutsRun, a, b, m, n

LEMMA RunJoin ==
    ASSUME NEW S, NEW s \in S, NEW l \in Int, NEW m \in Int, NEW e \in Int, l <= m, m <= e
    PROVE  Run(s, l, m) \o Run(s, m, e) = Run(s, l, e)
<1> DEFINE B == S \X Int
           u == Run(s, l, m)
           v == Run(s, m, e)
           w == u \o v
           r == Run(s, l, e)
<1>1. u \in Seq(B) /\ Len(u) = m - l /\ \A i \in 1 .. m - l : u[i] = << s, l + i >>
  BY RunIs
<1>2. v \in Seq(B) /\ Len(v) = e - m /\ \A i \in 1 .. e - m : v[i] = << s, m + i >>
  BY RunIs
<1>3. l <= e /\ r \in Seq(B) /\ Len(r) = e - l /\ \A i \in 1 .. e - l : r[i] = << s, l + i >>
  <2>1. l <= e
    OBVIOUS
  <2> QED
    BY <2>1, RunIs
<1> HIDE DEF B, u, v, r
<1>4. w \in Seq(B) /\ Len(w) = Len(u) + Len(v)
      /\ \A i \in 1 .. Len(u) + Len(v) : w[i] = IF i <= Len(u) THEN u[i] ELSE v[i - Len(u)]
  BY <1>1, <1>2, ConcatProperties
<1> HIDE DEF w
<1>5. Len(u) + Len(v) = e - l
  BY <1>1, <1>2
<1>6. \A i \in 1 .. e - l : w[i] = r[i]
  <2> TAKE i \in 1 .. e - l
  <2>1. CASE i <= m - l
    <3>1. i \in 1 .. m - l
      BY <2>1
    <3> QED
      BY <1>1, <1>3, <1>4, <1>5, <2>1, <3>1
  <2>2. CASE ~(i <= m - l)
    <3>1. i - (m - l) \in 1 .. e - m /\ m + (i - (m - l)) = l + i
      BY <2>2
    <3>2. v[i - (m - l)] = << s, l + i >>
      BY <1>2, <3>1
    <3> QED
      BY <1>1, <1>3, <1>4, <1>5, <2>2, <3>2
  <2> QED
    BY <2>1, <2>2
<1>7. w = r
  BY <1>3, <1>4, <1>5, <1>6, SeqEqual
<1> QED
  BY <1>7 DEF w, u, v, r

LEMMA RunNone ==
    ASSUME NEW S, NEW s \in S, NEW l \in Int
    PROVE  Run(s, l, l) = << >>
<1> DEFINE r == Run(s, l, l)
<1>1. l <= l /\ l - l = 0
  OBVIOUS
<1>2. r \in Seq(S \X Int) /\ Len(r) = l - l
  BY <1>1, RunIs
<1> HIDE DEF r
<1>3. r = << >>
  BY <1>1, <1>2, EmptySeq
<1> QED
  BY <1>3 DEF r

LEMMA JoinFour ==
    ASSUME NEW B, NEW a \in Seq(B), NEW b \in Seq(B), NEW c \in Seq(B), NEW d \in Seq(B)
    PROVE  JoinsFour(a, b, c, d)
<1> DEFINE ab == a \o b
           bc == b \o c
<1>1. ab \in Seq(B) /\ bc \in Seq(B) /\ ab \o c = a \o bc
  BY ConcatProperties, ConcatAssociative
<1> HIDE DEF ab, bc
<1>2. (a \o bc) \o d = a \o (bc \o d)
  <2>1. a \in Seq(B) /\ bc \in Seq(B) /\ d \in Seq(B)
    BY <1>1
  <2> QED
    BY <2>1, ConcatAssociative, SMTT(40)
<1> QED
  BY <1>1, <1>2 DEF ab, bc, JoinsFour


-----------------------------------------------------------------------------
(***************************************************************************)
(* Steps that leave a part of the state alone.                             *)
(***************************************************************************)

LEMMA SetupKept ==
    ASSUME setup' = setup
    PROVE  /\ pipe' = pipe /\ HasSem' = HasSem /\ MaxPendingTransfers' = MaxPendingTransfers
           /\ Xfers' = Xfers /\ ByteType' = ByteType /\ PendingType' = PendingType
           /\ CallType' = CallType /\ Carriers' = Carriers
BY DEF pipe, HasSem, MaxPendingTransfers, Xfers, Carriers, ByteType, PendingType, CallType

LEMMA ThreadKept ==
    ASSUME ThreadInv, setup' = setup, state' = state, thread' = thread, failed' = failed,
           pc'[Controller] = pc[Controller]
    PROVE  ThreadInv'
BY DEF ThreadInv, FreedIsStopped, At

LEMMA HandKept ==
    ASSUME HandInv, noWaiting' = noWaiting, apcCount' \in Int, ovls' = ovls, thread' = thread,
           apcs' = apcs \/ thread # "none", queued # << >> => queued' # << >>
    PROVE  HandInv'
BY DEF HandInv

LEMMA ListKept ==
    ASSUME ListInv, setup' = setup, queued' = queued, pending' = pending, finished' = finished,
           finishedTemp' = finishedTemp, apcs' = apcs, lost' = lost,
           \A c \in Users : call'[c].taken = call[c].taken
    PROVE  ListInv'
<1>1. Xfers' = Xfers /\ PendingType' = PendingType /\ MaxPendingTransfers' = MaxPendingTransfers
  BY SetupKept
<1>2. \A c \in Users : Taken(c)' = Taken(c)
  BY DEF Taken
<1>3. /\ InQueued' = InQueued /\ InPending' = InPending /\ InFinished' = InFinished
      /\ InTemp' = InTemp /\ InApcs' = InApcs /\ AllApcs' = AllApcs /\ XfersOf(pending)' = XfersOf(pending)
  BY DEF InQueued, InPending, InFinished, InTemp, InApcs, AllApcs, XfersOf
<1>4. ListTypes'
  BY <1>1 DEF ListInv, ListTypes
<1>5. NoRepeats'
  BY <1>3 DEF ListInv, NoRepeats
<1>6. OnePlace' /\ SomePlace'
  BY <1>1, <1>2, <1>3 DEF ListInv, OnePlace, SomePlace
<1> QED
  BY <1>4, <1>5, <1>6 DEF ListInv

LEMMA SemKept ==
    ASSUME SemInv, setup' = setup, sem' = sem, Len(finished') = Len(finished),
           \A c \in Users : pc'[c] = "lock" <=> pc[c] = "lock"
    PROVE  SemInv'
<1>1. {c \in Users : At(c, "lock")}' = {c \in Users : At(c, "lock")}
  BY DEF At
<1>2. HasSem' = HasSem
  BY SetupKept
<1> QED
  BY <1>1, <1>2 DEF SemInv, SemExact

LEMMA DataKept ==
    ASSUME DataInv, setup' = setup, data' = data, entered' = entered, left' = left,
           \A c \in Users : Len(call'[c].saved) <= MaxTransferSize
    PROVE  DataInv'
BY SetupKept DEF DataInv

LEMMA FlyingKept ==
    ASSUME FlyingInv, setup' = setup, data' = data, pending' = pending, clean' => clean,
           \A c \in Users : Taken(c)' \subseteq Taken(c)
    PROVE  FlyingInv'
<1>1. pipe' = pipe
  BY SetupKept
<1>2. (\A i, j \in DOMAIN pending : i < j /\ pending[i].io = "flying" => pending[j].io = "flying")'
  BY DEF FlyingInv
<1>3. (clean /\ pipe = "IN" => \A i \in DOMAIN pending : pending[i].io = "flying" => data[pending[i].xfer] = << >>)'
  BY <1>1 DEF FlyingInv
<1>4. (clean /\ pipe = "OUT" => \A c \in Users : \A x \in Taken(c) : data[x] # << >> => Source(Head(data[x])) = c)'
  <2> SUFFICES ASSUME clean', pipe = "OUT", NEW c \in Users, NEW x \in Taken(c)', data[x] # << >>
               PROVE  Source(Head(data[x])) = c
    BY <1>1 DEF Source
  <2> QED
    BY DEF FlyingInv
<1> QED
  BY <1>2, <1>3, <1>4 DEF FlyingInv

\* The bytes on their way are the same.
LEMMA OrderKept ==
    ASSUME OrderInv, entered' = entered, left' = left, clean' \in BOOLEAN, clean' => clean,
           clean' => \A s \in Sources : OnTheWay(s)' = OnTheWay(s)
    PROVE  OrderInv'
BY SMTT(40) DEF OrderInv, InOrder

LEMMA WayKept ==
    ASSUME setup' = setup, queued' = queued, pending' = pending, finished' = finished,
           finishedTemp' = finishedTemp, apcs' = apcs, data' = data,
           \A c \in Users : call'[c].taken = call[c].taken
    PROVE  \A s : OnTheWay(s)' = OnTheWay(s)
<1> TAKE s
<1>1. pipe' = pipe
  BY SetupKept
<1>2. (IF s \in Users THEN call[s].taken ELSE << >>)' = IF s \in Users THEN call[s].taken ELSE << >>
  OBVIOUS
<1>3. \A l : CarriedBy(s, l)' = CarriedBy(s, l)
  BY DEF CarriedBy, Carried, Source
<1> QED
  BY <1>1, <1>2, <1>3, ZenonT(60) DEF OnTheWay, CarriedBy, Carried, Source, Flying, XfersOf

\* WayIn and WayOut in the next state.
WayInIs ==
    ListTypes /\ DataInv /\ pipe = "IN" =>
        \A s : /\ OnTheWay(s) = CarryAll(data, s, finished \o finishedTemp \o XfersOf(pending))
               /\ OnTheWay(s) = (CarryAll(data, s, finished) \o CarryAll(data, s, finishedTemp))
                                   \o CarryAll(data, s, XfersOf(pending))

LEMMA WayInAll == WayInIs
BY WayIn DEF WayInIs

LEMMA WayInNext ==
    ASSUME ListTypes', DataInv', pipe' = "IN", NEW s
    PROVE  /\ OnTheWay(s)' = CarryAll(data', s, finished' \o finishedTemp' \o XfersOf(pending'))
           /\ OnTheWay(s)' = (CarryAll(data', s, finished') \o CarryAll(data', s, finishedTemp'))
                               \o CarryAll(data', s, XfersOf(pending'))
<1>1. WayInIs'
  BY WayInAll, PTL
<1> QED
  BY <1>1 DEF WayInIs, CarryAll, CarryList, Carry, XfersOf

WayOutIs ==
    ListTypes /\ DataInv /\ CallInv /\ pipe = "OUT" =>
        \A s : OnTheWay(s) = CarryAll(FlyBytes(data), s, pending)
                  \o ((CarryAll(data, s, queued) \o CarryAll(data, s, AllApcs)) \o CarryAll(data, s, Own(s)))

LEMMA WayOutAll == WayOutIs
BY WayOut DEF WayOutIs

LEMMA WayOutNext ==
    ASSUME ListTypes', DataInv', CallInv', pipe' = "OUT", setup' = setup, NEW s
    PROVE  OnTheWay(s)' = CarryAll(FlyBytes(data'), s, pending')
              \o ((CarryAll(data', s, queued') \o CarryAll(data', s, AllApcs')) \o CarryAll(data', s, Own(s)'))
<1>1. WayOutIs'
  BY WayOutAll, PTL
<1>2. FlyBytes(data)' = FlyBytes(data')
  BY SetupKept, SMTT(40) DEF FlyBytes
<1>3. OnTheWay(s)' = CarryAll(FlyBytes(data)', s, pending')
              \o ((CarryAll(data', s, queued') \o CarryAll(data', s, AllApcs')) \o CarryAll(data', s, Own(s)'))
  BY <1>1 DEF WayOutIs, CarryAll, CarryList, Carry
<1> QED
  BY <1>2, <1>3

\* A step of a caller that moves no transfer.
LEMMA CallerOK ==
    ASSUME IInv, NEW c \in Users, NEW q \in Places, setup' = setup,
           pc' = [pc EXCEPT ![c] = q], call' = call,
           pc[c] \notin {"taken", "apc", "append", "error"} \/ q \in {"taken", "apc", "append", "error"},
           pc[c] \in {"taken", "restored"} => lock' = Free /\ q \notin {"taken", "restored"},
           pc[c] \notin {"taken", "restored"} => lock' = lock /\ q \notin {"taken", "restored"},
           UNCHANGED <<state, thread, failed, noWaiting, apcs, lists, bytes, ovls, lost, clean>>,
           apcCount' \in Int, SemInv'
    PROVE  IInv'
<1> USE DEF IInv
<1>1. pc \in [Users \cup {Controller} -> Places] /\ pc'[Controller] = pc[Controller]
      /\ \A d \in Users : pc'[d] = IF d = c THEN q ELSE pc[d]
  BY UsersAre DEF CallInv
<1>2. ThreadInv'
  BY <1>1, ThreadKept
<1>3. HandInv'
  BY HandKept DEF lists
<1>4. CallInv'
  <2>1. pc' \in [Users \cup {Controller} -> Places]
    BY <1>1
  <2>2. lock' \in Users \cup {Free}
    BY DEF CallInv
  <2>3. call' \in [Users -> CallType']
    BY SetupKept DEF CallInv
  <2>4. \A d \in Users : (lock' = d) <=> pc'[d] \in {"taken", "restored"}
    <3>1. Free \notin Users /\ \A d \in Users : (lock = d) <=> pc[d] \in {"taken", "restored"}
      BY UsersAre DEF CallInv
    <3>2. CASE pc[c] \in {"taken", "restored"}
      BY <1>1, <3>1, <3>2
    <3>3. CASE pc[c] \notin {"taken", "restored"}
      BY <1>1, <3>1, <3>3
    <3> QED
      BY <3>2, <3>3
  <2>5. \A d \in Users : pc'[d] \notin {"taken", "apc", "append", "error"} => call'[d] = NoCall
    BY <1>1 DEF CallInv
  <2> QED
    BY <2>1, <2>2, <2>3, <2>4, <2>5 DEF CallInv
<1>5. ListInv'
  BY ListKept DEF lists
<1>6. DataInv'
  BY DataKept DEF DataInv, bytes
<1>7. FlyingInv'
  <2>1. \A d \in Users : Taken(d)' = Taken(d)
    BY DEF Taken
  <2> QED
    BY <2>1, FlyingKept DEF lists, bytes
<1>8. OrderInv'
  <2>1. \A s : OnTheWay(s)' = OnTheWay(s)
    BY WayKept DEF lists, bytes
  <2> QED
    BY <2>1, OrderKept DEF bytes, OrderInv
<1> QED
  BY <1>2, <1>3, <1>4, <1>5, <1>6, <1>7, <1>8

-----------------------------------------------------------------------------
(***************************************************************************)
(* The first state, and the steps of a caller that move no transfer.       *)
(***************************************************************************)

LEMMA AllIs ==
    ASSUME NEW n \in Nat
    PROVE  LET all == [i \in 1 .. n |-> i]
           IN  all \in Seq(1 .. n) /\ Len(all) = n /\ Range(all) = 1 .. n /\ IsInjective(all)
BY DEF Range, IsInjective

\* The callers with a claim, and what a step of one of them makes of them.
Claims == {c \in Users : At(c, "lock")}

LEMMA InitOK == Init => IInv
<1> SUFFICES ASSUME Init PROVE IInv
  OBVIOUS
<1> USE DEF Init
<1> DEFINE all == [i \in Xfers |-> i]
<1>1. /\ all \in Seq(Xfers) /\ Len(all) = MaxPendingTransfers /\ Range(all) = Xfers /\ IsInjective(all)
      /\ MaxPendingTransfers \in Nat /\ pipe \in {"IN", "OUT"} /\ pipe = setup.pipe
  BY SetupIs, AllIs DEF pipe
<1>2. /\ queued = IF pipe = "IN" THEN all ELSE << >>
      /\ finished = IF pipe = "OUT" THEN all ELSE << >>
  OBVIOUS
<1> HIDE DEF all
<1>3. \A T : << >> \in Seq(T)
  BY EmptySeq
<1>16. << >> \o << >> = << >>
  BY <1>3, ConcatEmptySeq
<1>4. ThreadInv
  BY UsersAre DEF ThreadInv, At, FreedIsStopped
<1>5. HandInv
  <2>1. EmptyOvls \in OvlType
    BY InitAssumption DEF OvlType, Links, EmptyOvls, Ovls, NULL
  <2>2. noWaiting = FALSE /\ apcCount = 0 /\ ovls = EmptyOvls /\ thread = "none" /\ apcs = << >>
    OBVIOUS
  <2>3. noWaiting \in BOOLEAN
    BY <2>2, Zenon
  <2>6. apcCount \in Int
    BY <2>2
  <2>4. ovls \in OvlType
    BY <2>1, <2>2
  <2>5. thread # "queued" /\ apcs = << >>
    BY <2>2
  <2> QED
    BY <2>3, <2>4, <2>5, <2>6 DEF HandInv
<1>6. CallInv
  <2>1. pc \in [Users \cup {Controller} -> Places]
    BY DEF Places
  <2>2. call \in [Users -> CallType]
    BY NoCallIs
  <2> QED
    BY <2>1, <2>2, UsersAre DEF CallInv
<1>7. pending = << >> /\ XfersOf(pending) = << >> /\ apcs = << >> /\ AllApcs = << >>
      /\ \A c \in Users : call[c].taken = << >>
  BY FlatEmpty, NoCallIs DEF XfersOf, AllApcs
<1>8. ListTypes
  BY <1>1, <1>2, <1>3, <1>7 DEF ListTypes
<1>9. NoRepeats
  BY <1>1, <1>2, <1>7, NoItems DEF NoRepeats
<1>10. /\ InPending = {} /\ InTemp = {} /\ InApcs = {} /\ lost = {}
       /\ InQueued = IF pipe = "IN" THEN Xfers ELSE {}
       /\ InFinished = IF pipe = "OUT" THEN Xfers ELSE {}
       /\ \A c \in Users : Taken(c) = {}
  BY <1>1, <1>2, <1>7, NoItems DEF InPending, InTemp, InApcs, InQueued, InFinished, Taken
<1>11. OnePlace /\ SomePlace
  BY <1>1, <1>10 DEF OnePlace, SomePlace
<1>12. SemInv
  <2>1. Claims = {}
    BY DEF Claims, At
  <2>2. Cardinality(Claims) = 0
    BY <2>1, FS_EmptySet
  <2>3. Len(finished) = IF pipe = "OUT" THEN MaxPendingTransfers ELSE 0
    BY <1>1, <1>2
  <2>4. sem = IF HasSem /\ pipe = "OUT" THEN MaxPendingTransfers ELSE 0
    OBVIOUS
  <2> QED
    BY <1>1, <2>2, <2>3, <2>4 DEF SemInv, SemExact, Claims
<1>13. DataInv
  <2>1. \A x \in Xfers : data[x] = << >> /\ Len(data[x]) = 0
    OBVIOUS
  <2> QED
    BY <1>3, <2>1, InitAssumption, NoCallIs DEF DataInv
<1>14. FlyingInv
  BY <1>7, <1>10 DEF FlyingInv
<1>15. OrderInv
  <2>1. \A s \in Sources : OnTheWay(s) = << >>
    <3> TAKE s \in Sources
    <3>1. CASE pipe = "IN"
      <4>1. OnTheWay(s) = (CarryAll(data, s, finished) \o CarryAll(data, s, finishedTemp))
                               \o CarryAll(data, s, XfersOf(pending))
        BY <1>8, <1>13, <3>1, WayIn
      <4>2. finished = << >>
        BY <1>2, <3>1
      <4> QED
        BY <1>7, <1>16, <4>1, <4>2, CarryNothing, Zenon
    <3>2. CASE pipe = "OUT"
      <4>1. /\ OnTheWay(s) = CarryAll(FlyBytes(data), s, pending)
                               \o CarryAll(data, s, queued \o AllApcs \o Own(s))
            /\ CarryAll(data, s, queued \o AllApcs \o Own(s))
                 = (CarryAll(data, s, queued) \o CarryAll(data, s, AllApcs)) \o CarryAll(data, s, Own(s))
        BY <1>6, <1>8, <1>13, <3>2, WayOut
      <4>2. queued = << >> /\ Own(s) = << >>
        BY <1>2, <1>7, <3>2 DEF Own
      <4> QED
        BY <1>7, <1>16, <4>1, <4>2, CarryNothing, Zenon
    <3> QED
      BY <1>1, <3>1, <3>2
  <2>2. \A s \in Sources : entered[s] = 0 /\ left[s] = 0
    OBVIOUS
  <2>3. \A s \in Sources : OnTheWay(s) = [i \in 1 .. entered[s] - left[s] |-> <<s, left[s] + i>>]
    <3> TAKE s \in Sources
    <3>1. Run(s, 0, 0) = << >>
      BY RunNone
    <3> QED
      BY <2>1, <2>2, <3>1 DEF Run
  <2> QED
    BY <2>2, <2>3 DEF OrderInv, InOrder
<1> QED
  BY <1>4, <1>5, <1>6, <1>8, <1>9, <1>11, <1>12, <1>13, <1>14, <1>15 DEF IInv, ListInv

LEMMA CallOK ==
    ASSUME IInv, NEW c \in Users, Call(c)
    PROVE  IInv'
<1> DEFINE q == IF HasSem THEN "sem" ELSE "lock"
<1>1. /\ pc' = [pc EXCEPT ![c] = q] /\ pc[c] = "idle" /\ setup' = setup /\ call' = call
      /\ lock' = lock /\ apcCount' = apcCount /\ sem' = sem /\ finished' = finished
      /\ UNCHANGED <<state, thread, failed, noWaiting, apcs, lists, bytes, ovls, lost, clean>>
  BY DEF Call, Goto, At, threadVars, lists
<1>2. q \in Places \ {"taken", "restored"}
  BY DEF Places
<1>3. apcCount' \in Int
  BY <1>1 DEF IInv, HandInv
<1>4. SemInv'
  <2>1. CASE HasSem
    <3>1. \A d \in Users : pc'[d] = "lock" <=> pc[d] = "lock"
      BY <1>1, <2>1 DEF IInv, CallInv
    <3> QED
      BY <1>1, <3>1, SemKept DEF IInv
  <2>2. CASE ~HasSem
    BY <1>1, <2>2, SetupKept DEF IInv, SemInv, SemExact
  <2> QED
    BY <2>1, <2>2
<1> HIDE DEF q
<1> QED
  BY <1>1, <1>2, <1>3, <1>4, CallerOK

LEMMA ClaimsAre == Claims \in SUBSET Users /\ IsFiniteSet(Claims) /\ Cardinality(Claims) \in Nat
BY UserAssumption, FS_Subset, FS_CardinalityType DEF Claims

LEMMA ClaimsMore ==
    ASSUME CallInv, NEW c \in Users, pc[c] # "lock", pc' = [pc EXCEPT ![c] = "lock"]
    PROVE  Cardinality(Claims') = Cardinality(Claims) + 1
<1>1. Claims' = Claims \cup {c} /\ c \notin Claims
  BY DEF Claims, At, CallInv
<1> QED
  BY <1>1, ClaimsAre, FS_AddElement

LEMMA ClaimsFewer ==
    ASSUME CallInv, NEW c \in Users, pc[c] = "lock", NEW q, q # "lock", pc' = [pc EXCEPT ![c] = q]
    PROVE  Cardinality(Claims') = Cardinality(Claims) - 1
<1>1. Claims' = Claims \ {c} /\ c \in Claims
  BY DEF Claims, At, CallInv
<1> QED
  BY <1>1, ClaimsAre, FS_RemoveElement

LEMMA ClaimsSame ==
    ASSUME \A c \in Users : pc'[c] = "lock" <=> pc[c] = "lock"
    PROVE  Claims' = Claims
BY DEF Claims, At

LEMMA TakeSemOK ==
    ASSUME IInv, NEW c \in Users, TakeSem(c)
    PROVE  IInv'
<1>1. /\ pc' = [pc EXCEPT ![c] = "lock"] /\ pc[c] = "sem" /\ setup' = setup /\ call' = call
      /\ lock' = lock /\ apcCount' = apcCount /\ sem' = sem - 1 /\ sem > 0 /\ finished' = finished
      /\ UNCHANGED <<state, thread, failed, noWaiting, apcs, lists, bytes, ovls, lost, clean>>
  BY DEF TakeSem, Goto, At, threadVars, lists
<1>2. apcCount' \in Int
  BY <1>1 DEF IInv, HandInv
<1>3. SemInv'
  <2>1. Cardinality(Claims') = Cardinality(Claims) + 1 /\ Cardinality(Claims) \in Nat
    BY <1>1, ClaimsMore, ClaimsAre DEF IInv
  <2>2. sem \in Nat /\ HasSem /\ sem + Cardinality(Claims) = Len(finished)
    BY <1>1 DEF IInv, SemInv, SemExact, Claims
  <2> QED
    BY <1>1, <2>1, <2>2, SetupKept DEF SemInv, SemExact, Claims
<1> QED
  BY <1>1, <1>2, <1>3, CallerOK DEF Places

LEMMA ReturnIs ==
    ASSUME CallInv, NEW c \in Users, Return(c), pc[c] \notin {"taken", "apc", "append", "error"}
    PROVE  pc' = [pc EXCEPT ![c] = "idle"] /\ call' = call
<1>1. call' = [call EXCEPT ![c] = NoCall] /\ call[c] = NoCall /\ call \in [Users -> CallType]
  BY DEF Return, CallInv
<1> QED
  BY <1>1 DEF Return, Goto

LEMMA SemTimeoutOK ==
    ASSUME IInv, NEW c \in Users, SemTimeout(c)
    PROVE  IInv'
<1>1. pc[c] = "sem" /\ pc' = [pc EXCEPT ![c] = "idle"] /\ call' = call
  BY ReturnIs DEF IInv, SemTimeout, At
<1>2. /\ setup' = setup /\ lock' = lock /\ apcCount' = apcCount /\ sem' = sem /\ finished' = finished
      /\ UNCHANGED <<state, thread, failed, noWaiting, apcs, lists, bytes, ovls, lost, clean>>
  BY DEF SemTimeout, threadVars, lists
<1>3. apcCount' \in Int
  BY <1>2 DEF IInv, HandInv
<1>4. SemInv'
  <2>1. \A d \in Users : pc'[d] = "lock" <=> pc[d] = "lock"
    BY <1>1 DEF IInv, CallInv
  <2> QED
    BY <1>2, <2>1, SemKept DEF IInv
<1> QED
  BY <1>1, <1>2, <1>3, <1>4, CallerOK DEF Places

LEMMA NoneReadyOK ==
    ASSUME IInv, NEW c \in Users, NoneReady(c)
    PROVE  IInv'
<1>1. pc[c] = "lock" /\ pc' = [pc EXCEPT ![c] = "idle"] /\ call' = call
  BY ReturnIs DEF IInv, NoneReady, At
<1>2. /\ setup' = setup /\ lock' = lock /\ apcCount' = apcCount /\ sem' = SemPlus(1) /\ finished' = finished
      /\ UNCHANGED <<state, thread, failed, noWaiting, apcs, lists, bytes, ovls, lost, clean>>
  BY DEF NoneReady, threadVars, lists
<1>3. apcCount' \in Int
  BY <1>2 DEF IInv, HandInv
<1>4. SemInv'
  <2>1. Cardinality(Claims') = Cardinality(Claims) - 1 /\ Cardinality(Claims) \in Nat
    BY <1>1, ClaimsFewer, ClaimsAre DEF IInv
  <2>2. sem \in Nat /\ (~HasSem => sem = 0) /\ (HasSem => sem + Cardinality(Claims) = Len(finished))
    BY DEF IInv, SemInv, SemExact, Claims
  <2>3. sem' = IF HasSem THEN sem + 1 ELSE sem
    BY <1>2 DEF SemPlus
  <2> QED
    BY <1>2, <2>1, <2>2, <2>3, SetupKept DEF SemInv, SemExact, Claims
<1> QED
  BY <1>1, <1>2, <1>3, <1>4, CallerOK DEF Places

LEMMA UnlockOK ==
    ASSUME IInv, NEW c \in Users, Unlock(c)
    PROVE  IInv'
<1> DEFINE q == IF call[c].fails THEN "error"
               ELSE IF call[c].taken # << >> /\ state = "STARTED" THEN "apc" ELSE "append"
<1>1. /\ pc' = [pc EXCEPT ![c] = q] /\ pc[c] = "taken" /\ setup' = setup /\ call' = call
      /\ lock' = Free /\ apcCount' = apcCount /\ sem' = sem /\ finished' = finished
      /\ UNCHANGED <<state, thread, failed, noWaiting, apcs, lists, bytes, ovls, lost, clean>>
  BY DEF Unlock, Goto, At, threadVars, lists
<1>2. q \in {"error", "apc", "append"}
  OBVIOUS
<1> HIDE DEF q
<1>3. apcCount' \in Int
  BY <1>1 DEF IInv, HandInv
<1>4. SemInv'
  <2>1. \A d \in Users : pc'[d] = "lock" <=> pc[d] = "lock"
    BY <1>1, <1>2 DEF IInv, CallInv
  <2> QED
    BY <1>1, <2>1, SemKept DEF IInv
<1> QED
  BY <1>1, <1>2, <1>3, <1>4, CallerOK DEF Places

LEMMA IncApcCountOK ==
    ASSUME IInv, NEW c \in Users, IncApcCount(c)
    PROVE  IInv'
<1>1. pc[c] = "inc" /\ pc' = [pc EXCEPT ![c] = "idle"] /\ call' = call
  BY ReturnIs DEF IInv, IncApcCount, At
<1>2. /\ setup' = setup /\ lock' = lock /\ apcCount' = apcCount + 1 /\ sem' = sem /\ finished' = finished
      /\ UNCHANGED <<state, thread, failed, noWaiting, apcs, lists, bytes, ovls, lost, clean>>
  BY DEF IncApcCount, lists
<1>3. apcCount' \in Int
  BY <1>2 DEF IInv, HandInv
<1>4. SemInv'
  <2>1. \A d \in Users : pc'[d] = "lock" <=> pc[d] = "lock"
    BY <1>1 DEF IInv, CallInv
  <2> QED
    BY <1>2, <2>1, SemKept DEF IInv
<1> QED
  BY <1>1, <1>2, <1>3, <1>4, CallerOK DEF Places

LEMMA UnlockRestoredOK ==
    ASSUME IInv, NEW c \in Users, UnlockRestored(c)
    PROVE  IInv'
<1>1. pc[c] = "restored" /\ pc' = [pc EXCEPT ![c] = "idle"] /\ call' = call
  BY ReturnIs DEF IInv, UnlockRestored, At
<1>2. /\ setup' = setup /\ lock' = Free /\ apcCount' = apcCount /\ sem' = sem /\ finished' = finished
      /\ UNCHANGED <<state, thread, failed, noWaiting, apcs, lists, bytes, ovls, lost, clean>>
  BY DEF UnlockRestored, threadVars, lists
<1>3. apcCount' \in Int
  BY <1>2 DEF IInv, HandInv
<1>4. SemInv'
  <2>1. \A d \in Users : pc'[d] = "lock" <=> pc[d] = "lock"
    BY <1>1 DEF IInv, CallInv
  <2> QED
    BY <1>2, <2>1, SemKept DEF IInv
<1> QED
  BY <1>1, <1>2, <1>3, <1>4, CallerOK DEF Places

-----------------------------------------------------------------------------
(***************************************************************************)
(* A caller takes transfers from Finished.                                 *)
(***************************************************************************)

LEMMA SetsKept ==
    /\ queued' = queued => InQueued' = InQueued
    /\ pending' = pending => InPending' = InPending /\ XfersOf(pending)' = XfersOf(pending)
    /\ finished' = finished => InFinished' = InFinished
    /\ finishedTemp' = finishedTemp => InTemp' = InTemp
    /\ apcs' = apcs => InApcs' = InApcs /\ AllApcs' = AllApcs
    /\ \A c \in Users : call'[c].taken = call[c].taken => Taken(c)' = Taken(c)
BY DEF InQueued, InPending, InFinished, InTemp, InApcs, AllApcs, XfersOf, Taken

\* The loops of StmK_Read and StmK_Write end with a transfer of Finished, at the
\* latest with the last one that has a count, and not before they must.
LEMMA LookedIs ==
    ASSUME ListTypes, SemInv, finished # << >>, setup \in Setups, NEW n \in Nat
    PROVE  /\ Looked(n) \in 1 .. Len(finished)
           /\ HasSem => Looked(n) <= sem + 1
           /\ pipe = "IN" /\ n <= Len(BytesOf(Prefix(finished, Looked(n)))) =>
                 \A m \in 1 .. Looked(n) - 1 : ~(n <= Len(BytesOf(Prefix(finished, m))))
<1> DEFINE limit == IF HasSem THEN Smaller(sem + 1, Len(finished)) ELSE Len(finished)
           Room(m) == IF pipe = "IN" THEN Len(BytesOf(Prefix(finished, m))) ELSE m * MaxTransferSize
           enough == {m \in 1 .. limit : Room(m) >= n}
<1>1. limit \in 1 .. Len(finished) /\ (HasSem => limit <= sem + 1)
  <2>1. Len(finished) \in Nat /\ Len(finished) # 0 /\ sem \in Nat
    BY EmptySeq DEF ListTypes, SemInv
  <2> QED
    BY <2>1 DEF Smaller
<1>2. Looked(n) = IF enough = {} THEN limit ELSE Min(enough)
  BY DEF Looked
<1> HIDE DEF Room, limit
<1>3. CASE enough = {}
  <2>1. Looked(n) = limit /\ limit \in 1 .. limit
    BY <1>1, <1>2, <1>3
  <2>2. ~(Room(limit) >= n)
    BY <1>3, <2>1
  <2>3. pipe = "IN" => Room(limit) = Len(BytesOf(Prefix(finished, limit)))
    BY DEF Room
  <2>4. ~(pipe = "IN" /\ Len(BytesOf(Prefix(finished, limit))) >= n)
    BY <2>2, <2>3
  <2> QED
    BY <1>1, <2>1, <2>4
<1>4. CASE enough # {}
  <2>1. enough \in SUBSET Nat
    OBVIOUS
  <2>2. \E m \in enough : \A k \in enough : m <= k
    <3> HIDE DEF enough
    <3> QED
      BY <1>4, <2>1, Smallest
  <2>3. Min(enough) \in enough /\ \A k \in enough : Min(enough) <= k
    <3> HIDE DEF enough
    <3> QED
      BY <2>2, Zenon DEF Min
  <2>4. Looked(n) \in 1 .. limit /\ \A k \in 1 .. limit : Room(k) >= n => Looked(n) <= k
    BY <1>2, <1>4, <2>3
  <2>5. ASSUME pipe = "IN", NEW m \in 1 .. Looked(n) - 1, n <= Len(BytesOf(Prefix(finished, m)))
        PROVE  FALSE
    <3>1. m \in 1 .. limit /\ ~(Looked(n) <= m)
      BY <1>1, <2>4
    <3>2. Room(m) = Len(BytesOf(Prefix(finished, m)))
      BY <2>5 DEF Room
    <3> QED
      BY <2>4, <2>5, <3>1, <3>2
  <2>6. pipe = "IN" => \A m \in 1 .. Looked(n) - 1 : ~(n <= Len(BytesOf(Prefix(finished, m))))
    BY <2>5
  <2>7. Looked(n) \in 1 .. Len(finished) /\ (HasSem => Looked(n) <= sem + 1)
    <3>1. Len(finished) \in Nat /\ sem \in Nat
      BY DEF ListTypes, SemInv
    <3> HIDE DEF enough
    <3> QED
      BY <1>1, <2>4, <3>1
  <2> QED
    BY <2>6, <2>7
<1> QED
  BY <1>3, <1>4

\* The first w transfers of Finished become the call's.
LEMMA TakeMoves ==
    ASSUME IInv, NEW c \in Users, pc[c] = "lock", lock = Free, NEW w \in 0 .. Len(finished),
           HasSem => w <= sem + 1,
           finished' = Suffix(finished, Len(finished) - w), sem' = SemPlus(1 - w),
           NEW k \in CallType, k.taken = Prefix(finished, w), call' = [call EXCEPT ![c] = k],
           lock' = c, pc' = [pc EXCEPT ![c] = "taken"],
           UNCHANGED <<setup, threadVars, queued, pending, finishedTemp, ovls, lost>>
    PROVE  ThreadInv' /\ HandInv' /\ CallInv' /\ ListInv' /\ SemInv'
<1> USE DEF IInv
<1>1. pc \in [Users \cup {Controller} -> Places] /\ pc'[Controller] = pc[Controller]
      /\ \A d \in Users : pc'[d] = IF d = c THEN "taken" ELSE pc[d]
  BY UsersAre DEF CallInv
<1>2. ThreadInv'
  BY <1>1, ThreadKept DEF threadVars
<1>3. HandInv'
  <2>1. apcCount' \in Int
    BY DEF HandInv, threadVars
  <2> QED
    BY <2>1, HandKept DEF threadVars
<1>4. /\ call \in [Users -> CallType] /\ call[c] = NoCall /\ call'[c] = k
      /\ \A d \in Users \ {c} : call'[d] = call[d]
  BY DEF CallInv
<1>5. CallInv'
  <2>1. pc' \in [Users \cup {Controller} -> Places]
    BY <1>1 DEF Places
  <2>2. call' \in [Users -> CallType']
    BY <1>4, SetupKept
  <2>3. \A d \in Users : (lock' = d) <=> pc'[d] \in {"taken", "restored"}
    BY <1>1, UsersAre DEF CallInv
  <2>4. \A d \in Users : pc'[d] \notin {"taken", "apc", "append", "error"} => call'[d] = NoCall
    BY <1>1, <1>4 DEF CallInv
  <2> QED
    BY <2>1, <2>2, <2>3, <2>4 DEF CallInv
<1>6. ListTypes /\ NoRepeats /\ OnePlace /\ SomePlace
  BY DEF ListInv
<1> DEFINE t == Prefix(finished, w)
           f == Suffix(finished, Len(finished) - w)
<1>7. t \in Seq(Xfers) /\ f \in Seq(Xfers) /\ t \o f = finished /\ Len(f) = Len(finished) - w
  BY <1>6, Cut DEF ListTypes
<1> HIDE DEF t, f
<1>8. IsInjective(t) /\ IsInjective(f) /\ Range(t) \cap Range(f) = {} /\ InFinished = Range(t) \cup Range(f)
  <2>1. IsInjective(t \o f)
    BY <1>6, <1>7 DEF NoRepeats
  <2>2. Range(t \o f) = Range(t) \cup Range(f)
    BY <1>7, JoinedRange, ZenonT(60)
  <2>3. InFinished = Range(t \o f)
    BY <1>7 DEF InFinished
  <2>4. IsInjective(t) /\ IsInjective(f) /\ Range(t) \cap Range(f) = {}
    BY <1>7, <2>1, JoinedOnce
  <2> QED
    BY <2>2, <2>3, <2>4
<1>9. /\ InQueued' = InQueued /\ InPending' = InPending /\ InTemp' = InTemp /\ InApcs' = InApcs
      /\ XfersOf(pending)' = XfersOf(pending) /\ AllApcs' = AllApcs
      /\ \A d \in Users \ {c} : Taken(d)' = Taken(d)
  BY <1>4, SetsKept DEF threadVars
<1>10. Taken(c) = {} /\ Taken(c)' = Range(t) /\ InFinished' = Range(f)
  BY <1>4, NoCallIs, NoItems DEF Taken, InFinished, t, f
<1>11. ListTypes'
  <2>1. Xfers' = Xfers /\ PendingType' = PendingType /\ MaxPendingTransfers' = MaxPendingTransfers
    BY SetupKept
  <2> QED
    BY <1>6, <1>7, <2>1 DEF ListTypes, threadVars, f
<1>12. NoRepeats'
  <2>1. \A d \in Users : IsInjective(call'[d].taken)
    BY <1>4, <1>6, <1>8 DEF NoRepeats, t
  <2> QED
    BY <1>6, <1>8, <1>9, <2>1 DEF NoRepeats, f
<1>13. OnePlace'
  <2>1. \A d \in Users : Taken(d)' \subseteq Taken(d) \cup (IF d = c THEN Range(t) ELSE {})
    BY <1>9, <1>10
  <2> QED
    BY <1>6, <1>8, <1>9, <1>10, <2>1 DEF OnePlace
<1>14. SomePlace'
  <2> SUFFICES ASSUME NEW x \in Xfers,
                      x \notin InQueued \cup InPending \cup InFinished' \cup InTemp \cup InApcs \cup lost
               PROVE  \E d \in Users : x \in Taken(d)'
    BY <1>9, SetupKept DEF SomePlace
  <2>1. CASE x \in Range(t)
    BY <1>10, <2>1
  <2>2. CASE x \notin Range(t)
    <3>1. PICK d \in Users : x \in Taken(d)
      BY <1>6, <1>8, <1>10, <2>2 DEF SomePlace
    <3>2. d # c
      BY <1>10, <3>1
    <3> QED
      BY <1>9, <3>1, <3>2
  <2> QED
    BY <2>1, <2>2
<1>15. SemInv'
  <2>1. Cardinality(Claims') = Cardinality(Claims) - 1 /\ Cardinality(Claims) \in Nat
    BY ClaimsFewer, ClaimsAre
  <2>2. sem \in Nat /\ (~HasSem => sem = 0) /\ (HasSem => sem + Cardinality(Claims) = Len(finished))
    BY DEF SemInv, SemExact, Claims
  <2>3. sem' = IF HasSem THEN sem + (1 - w) ELSE sem
    BY DEF SemPlus
  <2>4. Len(finished') = Len(finished) - w /\ Len(finished) \in Nat
    <3>1. finished' = f
      BY DEF f
    <3>2. Len(finished) \in Nat
      BY <1>6 DEF ListTypes
    <3> QED
      BY <1>7, <3>1, <3>2
  <2> QED
    BY <2>1, <2>2, <2>3, <2>4, SetupKept, SMTT(40) DEF SemInv, SemExact, Claims
<1> QED
  BY <1>2, <1>3, <1>5, <1>11, <1>12, <1>13, <1>14, <1>15 DEF ListInv

\* On an IN pipe every byte is the device's.
LEMMA CarryIn ==
    ASSUME DataInv, pipe = "IN", NEW d \in [Xfers -> Seq(ByteType)], NEW l \in Seq(Xfers)
    PROVE  /\ CarryAll(d, Device, l) = FlattenSeq([i \in DOMAIN l |-> d[l[i]]])
           /\ \A x \in Xfers : Carry(d, Device, x) = d[x]
           /\ \A s : s # Device => CarryAll(d, s, l) = << >>
<1>1. ByteType = {Device} \X Int
  BY DEF ByteType, Carriers
<1>2. \A x \in Xfers : d[x] # << >> => Source(Head(d[x])) = Device
  <2> SUFFICES ASSUME NEW x \in Xfers, d[x] # << >> PROVE Source(Head(d[x])) = Device
    OBVIOUS
  <2>1. d[x] \in Seq(ByteType)
    OBVIOUS
  <2>2. Head(d[x]) \in ByteType
    BY <2>1, HeadTailProperties
  <2> QED
    BY <1>1, <2>2 DEF Source
<1>3. \A x \in Xfers : Carry(d, Device, x) = d[x]
  BY <1>2 DEF Carry
<1>4. CarryList(d, Device, l) = [i \in DOMAIN l |-> d[l[i]]]
  <2>1. \A i \in DOMAIN l : Carry(d, Device, l[i]) = d[l[i]]
    BY <1>3
  <2> QED
    BY <2>1 DEF CarryList
<1>5. ASSUME NEW s, s # Device PROVE CarryAll(d, s, l) = << >>
  <2>1. \A x \in Range(l) : x \in Xfers
    BY RangeIs
  <2>2. \A x \in Range(l) : Carry(d, s, x) = << >>
    BY <1>2, <1>5, <2>1 DEF Carry
  <2> QED
    BY <2>2, CarryNone
<1> QED
  BY <1>3, <1>4, <1>5 DEF CarryAll

\* Around one element of a sequence.
LEMMA CutAt ==
    ASSUME NEW T, NEW s \in Seq(T), NEW m \in 1 .. Len(s)
    PROVE  /\ Prefix(s, m) = Prefix(s, m - 1) \o << s[m] >>
           /\ Suffix(s, Len(s) - (m - 1)) = << s[m] >> \o Suffix(s, Len(s) - m)
           /\ s[m] \in T
<1>1. m \in 0 .. Len(s) /\ m - 1 \in 0 .. Len(s) /\ s[m] \in T /\ Len(s) \in Nat
  OBVIOUS
<1> DEFINE x == << s[m] >>
           p == Prefix(s, m)
           q == Prefix(s, m - 1)
           u == q \o x
           y == Suffix(s, Len(s) - (m - 1))
           z == Suffix(s, Len(s) - m)
           v == x \o z
<1>2. x \in Seq(T) /\ Len(x) = 1 /\ x[1] = s[m]
  BY <1>1
<1>3. p \in Seq(T) /\ Len(p) = m /\ \A i \in 1 .. m : p[i] = s[i]
  BY <1>1, Cut
<1>4. q \in Seq(T) /\ Len(q) = m - 1 /\ \A i \in 1 .. m - 1 : q[i] = s[i]
  BY <1>1, Cut, ZenonT(60)
<1>5. y \in Seq(T) /\ Len(y) = Len(s) - (m - 1) /\ \A i \in 1 .. Len(s) - (m - 1) : y[i] = s[(m - 1) + i]
  BY <1>1, Cut, ZenonT(60)
<1>6. z \in Seq(T) /\ Len(z) = Len(s) - m /\ \A i \in 1 .. Len(s) - m : z[i] = s[m + i]
  BY <1>1, Cut
<1> HIDE DEF x, p, q, y, z
<1>7. u \in Seq(T) /\ Len(u) = Len(q) + Len(x)
      /\ \A i \in 1 .. Len(q) + Len(x) : u[i] = IF i <= Len(q) THEN q[i] ELSE x[i - Len(q)]
  BY <1>2, <1>4, ConcatProperties
<1>8. v \in Seq(T) /\ Len(v) = Len(x) + Len(z)
      /\ \A i \in 1 .. Len(x) + Len(z) : v[i] = IF i <= Len(x) THEN x[i] ELSE z[i - Len(x)]
  BY <1>2, <1>6, ConcatProperties
<1> HIDE DEF u, v
<1>9. u = p
  <2>1. \A i \in 1 .. m : u[i] = p[i]
    <3> TAKE i \in 1 .. m
    <3>1. CASE i = m
      BY <1>2, <1>3, <1>4, <1>7, <3>1
    <3>2. CASE i # m
      <4>1. i \in 1 .. m - 1 /\ i <= Len(q) /\ i \in 1 .. Len(q) + Len(x)
        BY <1>2, <1>4, <3>2
      <4>2. u[i] = q[i]
        BY <1>7, <4>1
      <4> QED
        BY <1>3, <1>4, <4>1, <4>2
    <3> QED
      BY <3>1, <3>2
  <2> QED
    BY <1>2, <1>3, <1>4, <1>7, <2>1, SeqEqual
<1>10. v = y
  <2>1. Len(v) = Len(s) - (m - 1)
    BY <1>1, <1>2, <1>6, <1>8
  <2>2. \A i \in 1 .. Len(s) - (m - 1) : v[i] = y[i]
    <3> TAKE i \in 1 .. Len(s) - (m - 1)
    <3>1. CASE i = 1
      BY <1>1, <1>2, <1>5, <1>6, <1>8, <3>1
    <3>2. CASE i # 1
      <4>1. i - 1 \in 1 .. Len(s) - m /\ m + (i - 1) = (m - 1) + i
        BY <1>1, <3>2
      <4>2. i \in 1 .. Len(x) + Len(z) /\ ~(i <= Len(x)) /\ i - Len(x) = i - 1
        BY <1>1, <1>2, <1>6, <3>2
      <4>3. v[i] = z[i - 1]
        BY <1>8, <4>2
      <4>4. z[i - 1] = s[m + (i - 1)]
        BY <1>6, <4>1
      <4>5. y[i] = s[(m - 1) + i]
        BY <1>5
      <4> QED
        BY <4>1, <4>3, <4>4, <4>5
    <3> QED
      BY <3>1, <3>2
  <2> QED
    BY <1>5, <1>8, <2>1, <2>2, SeqEqual
<1> QED
  BY <1>1, <1>9, <1>10 DEF x, p, q, u, y, z, v


LEMMA CarryTogether ==
    ASSUME NEW d \in [Xfers -> Seq(ByteType)], NEW s
    PROVE  \A k, l \in Seq(Xfers) : CarryAll(d, s, k \o l) = CarryAll(d, s, k) \o CarryAll(d, s, l)
BY CarryTwo

LEMMA CarryInOne ==
    ASSUME DataInv, pipe = "IN", NEW d \in [Xfers -> Seq(ByteType)]
    PROVE  \A x \in Xfers : CarryAll(d, Device, << x >>) = d[x]
<1> TAKE x \in Xfers
<1>1. << >> \in Seq(Xfers)
  BY EmptySeq
<1>2. Carry(d, Device, x) = d[x]
  BY <1>1, CarryIn
<1>3. CarryAll(d, Device, << x >>) = Carry(d, Device, x)
  BY CarryOne
<1> QED
  BY <1>2, <1>3

Reads(n, m, ready, got, rest, d) ==
    /\ m = Looked(n)
    /\ ready = BytesOf(Prefix(finished, m))
    /\ got = Prefix(ready, Smaller(n, Len(ready)))
    /\ rest = Suffix(ready, Len(ready) - Len(got))
    /\ d = IF rest = << >> THEN data ELSE [data EXCEPT ![finished[m]] = rest]

Leaves(m, got, rest, d) ==
    LET z == Suffix(finished, Len(finished) - m)
        f == IF rest = << >> THEN z ELSE Suffix(finished, Len(finished) - (m - 1))
    IN  /\ m \in 1 .. Len(finished) /\ (HasSem => m <= sem + 1)
        /\ finished[m] \in Xfers /\ finished[m] \in InFinished
        /\ got \in Seq(ByteType) /\ rest \in Seq(ByteType)
        /\ d \in [Xfers -> Seq(ByteType)] /\ \A x \in Xfers : Len(d[x]) <= MaxTransferSize
        /\ \A x \in Xfers \ InFinished : d[x] = data[x]
        /\ z \in Seq(Xfers) /\ f \in Seq(Xfers)
        /\ CarryAll(data, Device, finished) = (got \o rest) \o CarryAll(data, Device, z)
        /\ CarryAll(d, Device, f) = rest \o CarryAll(data, Device, z)

\* What the loop of StmK_Read takes, and what it leaves of a transfer.
LEMMA ReadIs ==
    ASSUME ListInv, DataInv, SemInv, finished # << >>, setup \in Setups, pipe = "IN",
           NEW n \in Nat \ {0}, NEW m, NEW ready, NEW got, NEW rest, NEW d,
           Reads(n, m, ready, got, rest, d)
    PROVE  Leaves(m, got, rest, d)
<1> DEFINE z == Suffix(finished, Len(finished) - m)
           f == IF rest = << >> THEN z ELSE Suffix(finished, Len(finished) - (m - 1))
           a == Prefix(finished, m)
           b == Prefix(finished, m - 1)
           x == finished[m]
           C(l) == CarryAll(data, Device, l)
<1>1. /\ finished \in Seq(Xfers) /\ data \in [Xfers -> Seq(ByteType)] /\ IsInjective(finished)
      /\ \A y \in Xfers : Len(data[y]) <= MaxTransferSize
  BY DEF ListInv, ListTypes, NoRepeats, DataInv
<1>2. m \in 1 .. Len(finished) /\ (HasSem => m <= sem + 1)
      /\ (n <= Len(ready) => \A k \in 1 .. m - 1 : ~(n <= Len(BytesOf(Prefix(finished, k)))))
  <2>1. m = Looked(n) /\ ready = BytesOf(Prefix(finished, m)) /\ n \in Nat
    BY DEF Reads
  <2> QED
    BY <2>1, LookedIs DEF ListInv
<1>3. /\ a \in Seq(Xfers) /\ z \in Seq(Xfers) /\ a \o z = finished
      /\ b \in Seq(Xfers) /\ a = b \o << x >> /\ Suffix(finished, Len(finished) - (m - 1)) = << x >> \o z
      /\ x \in Xfers /\ << x >> \in Seq(Xfers)
  <2>1. m \in 0 .. Len(finished) /\ m - 1 \in 0 .. Len(finished)
    BY <1>2
  <2>2. a \in Seq(Xfers) /\ z \in Seq(Xfers) /\ a \o z = finished /\ b \in Seq(Xfers)
    BY <1>1, <2>1, Cut
  <2>3. a = b \o << x >> /\ Suffix(finished, Len(finished) - (m - 1)) = << x >> \o z /\ x \in Xfers
    BY <1>1, <1>2, CutAt
  <2>4. << x >> \in Seq(Xfers)
    BY <2>3
  <2> QED
    BY <2>2, <2>3, <2>4
<1>4. \A l \in Seq(Xfers) : BytesOf(l) = C(l) /\ C(l) \in Seq(ByteType)
  BY <1>1, CarryIn, CarryIs DEF BytesOf
<1>11. \A k, l \in Seq(Xfers) : C(k \o l) = C(k) \o C(l)
  BY <1>1, CarryTogether
<1>12. \A y \in Xfers : C(<< y >>) = data[y]
  BY <1>1, CarryInOne
<1> HIDE DEF z, f, a, b, x, C
<1>5. ready = C(a) /\ ready \in Seq(ByteType) /\ Len(ready) \in Nat
  <2>1. ready = BytesOf(a)
    BY DEF Reads, a
  <2>2. ready = C(a) /\ ready \in Seq(ByteType)
    BY <1>3, <1>4, <2>1
  <2> QED
    BY <2>2
<1>6. /\ got \in Seq(ByteType) /\ rest \in Seq(ByteType) /\ got \o rest = ready
      /\ Len(got) = Smaller(n, Len(ready)) /\ Len(rest) = Len(ready) - Len(got)
  <2> DEFINE g == Smaller(n, Len(ready))
  <2>1. g \in 0 .. Len(ready)
    BY <1>5 DEF Smaller
  <2> HIDE DEF g
  <2>2. /\ Prefix(ready, g) \in Seq(ByteType) /\ Len(Prefix(ready, g)) = g
        /\ Suffix(ready, Len(ready) - g) \in Seq(ByteType) /\ Len(Suffix(ready, Len(ready) - g)) = Len(ready) - g
        /\ Prefix(ready, g) \o Suffix(ready, Len(ready) - g) = ready
    BY <1>5, <2>1, Cut
  <2>3. got = Prefix(ready, g) /\ Len(got) = g
    BY <2>2 DEF Reads, g
  <2>4. rest = Suffix(ready, Len(ready) - g)
    BY <2>3 DEF Reads
  <2> QED
    BY <2>2, <2>3, <2>4 DEF g
<1>7. C(finished) = ready \o C(z)
  <2>1. C(a \o z) = C(a) \o C(z)
    BY <1>3, <1>11
  <2> QED
    BY <1>3, <1>5, <2>1
<1>8. x \in InFinished
  BY <1>1, <1>2, RangeIs DEF InFinished, x
<1>9. CASE rest = << >>
  <2>1. d = data /\ f = z
    BY <1>9 DEF Reads, f
  <2>2. << >> \o C(z) = C(z)
    BY <1>3, <1>4, ConcatEmptySeq
  <2>3. C(f) = rest \o C(z)
    BY <1>9, <2>1, <2>2
  <2> QED
    BY <1>1, <1>2, <1>3, <1>6, <1>7, <1>8, <2>1, <2>3 DEF Leaves, z, f, x, C
<1>10. CASE rest # << >>
  <2>1. n < Len(ready) /\ Len(got) = n
    <3>1. Len(rest) # 0
      BY <1>6, <1>10, EmptySeq
    <3> QED
      BY <1>5, <1>6, <3>1 DEF Smaller
  <2>2. ready = C(b) \o data[x] /\ Len(ready) = Len(C(b)) + Len(data[x]) /\ C(b) \in Seq(ByteType)
    <3>1. C(b \o << x >>) = C(b) \o C(<< x >>)
      BY <1>3, <1>11
    <3>2. C(<< x >>) = data[x]
      BY <1>3, <1>12
    <3>3. ready = C(b) \o data[x]
      BY <1>3, <1>5, <3>1, <3>2
    <3>4. C(b) \in Seq(ByteType) /\ data[x] \in Seq(ByteType)
      BY <1>1, <1>3, <1>4
    <3> QED
      BY <3>3, <3>4, ConcatProperties
  <2>3. Len(C(b)) < n
    <3>1. CASE m = 1
      <4>1. b = << >>
        <5>1. Len(b) = 0
          <6>1. 0 \in 0 .. Len(finished) /\ m - 1 = 0
            BY <1>1, <3>1
          <6>2. Len(Prefix(finished, 0)) = 0
            BY <1>1, <6>1, Cut
          <6> QED
            BY <6>1, <6>2 DEF b
        <5> QED
          BY <1>3, <5>1, EmptySeq
      <4> QED
        BY <4>1, CarryNothing, EmptySeq DEF C
    <3>2. CASE m # 1
      <4>1. m - 1 \in 1 .. m - 1
        BY <1>2, <3>2
      <4>2. ~(n <= Len(BytesOf(Prefix(finished, m - 1))))
        BY <1>2, <2>1, <4>1
      <4>3. BytesOf(Prefix(finished, m - 1)) = C(b)
        BY <1>3, <1>4 DEF b
      <4>4. Len(C(b)) \in Nat
        BY <1>3, <1>4
      <4> QED
        BY <4>2, <4>3, <4>4
    <3> QED
      BY <3>1, <3>2
  <2>4. Len(rest) <= MaxTransferSize
    <3>1. Len(data[x]) <= MaxTransferSize /\ Len(data[x]) \in Nat /\ Len(C(b)) \in Nat
      BY <1>1, <1>3, <2>2
    <3>2. Len(rest) = Len(ready) - n /\ Len(ready) = Len(C(b)) + Len(data[x]) /\ Len(ready) \in Nat
      BY <1>5, <1>6, <2>1, <2>2
    <3>3. MaxTransferSize \in Nat
      BY InitAssumption
    <3>4. Len(rest) < Len(data[x]) /\ Len(rest) \in Int
      BY <2>3, <3>1, <3>2
    <3> QED
      BY <3>1, <3>3, <3>4
  <2>5. d = [data EXCEPT ![x] = rest] /\ f = << x >> \o z
    BY <1>3, <1>10 DEF Reads, f, x
  <2>6. d \in [Xfers -> Seq(ByteType)] /\ d[x] = rest /\ \A y \in Xfers \ {x} : d[y] = data[y]
    <3>1. data \in [Xfers -> Seq(ByteType)] /\ x \in Xfers /\ rest \in Seq(ByteType)
      BY <1>1, <1>3, <1>6
    <3> QED
      BY <2>5, <3>1
  <2>7. f \in Seq(Xfers) /\ CarryAll(d, Device, << x >> \o z) = CarryAll(d, Device, << x >>) \o CarryAll(d, Device, z)
    <3>1. << x >> \o z \in Seq(Xfers)
      BY <1>3, ConcatProperties
    <3>2. CarryAll(d, Device, << x >> \o z) = CarryAll(d, Device, << x >>) \o CarryAll(d, Device, z)
      <4>1. \A k, l \in Seq(Xfers) : CarryAll(d, Device, k \o l) = CarryAll(d, Device, k) \o CarryAll(d, Device, l)
        BY <2>6, CarryTogether
      <4> QED
        BY <1>3, <4>1
    <3> QED
      BY <2>5, <3>1, <3>2
  <2>8. CarryAll(d, Device, << x >>) = rest
    BY <1>3, <2>6, CarryInOne
  <2>9. CarryAll(d, Device, z) = C(z)
    <3>1. IsInjective(<< x >> \o z)
      <4>1. b \o Suffix(finished, Len(finished) - (m - 1)) = finished
        <5>1. finished \in Seq(Xfers) /\ m - 1 \in 0 .. Len(finished)
          BY <1>1, <1>2
        <5> DEFINE k == m - 1
        <5>2. k \in 0 .. Len(finished)
          BY <5>1
        <5> HIDE DEF k
        <5>3. Prefix(finished, k) \o Suffix(finished, Len(finished) - k) = finished
          BY <5>1, <5>2, Cut
        <5> QED
          BY <5>3 DEF b, k
      <4>2. Suffix(finished, Len(finished) - (m - 1)) \in Seq(Xfers)
        BY <1>3, ConcatProperties
      <4>3. IsInjective(Suffix(finished, Len(finished) - (m - 1)))
        <5> DEFINE y == Suffix(finished, Len(finished) - (m - 1))
        <5>1. b \in Seq(Xfers) /\ y \in Seq(Xfers) /\ IsInjective(b \o y)
          BY <1>1, <1>3, <4>1, <4>2
        <5> HIDE DEF y
        <5>2. IsInjective(y)
          BY <5>1, JoinedOnce
        <5> QED
          BY <5>2 DEF y
      <4> QED
        BY <1>3, <4>3
    <3>2. Range(<< x >>) \cap Range(z) = {}
      BY <1>3, <3>1, JoinedOnce
    <3>3. x \notin Range(z)
      BY <1>3, <3>2, OneItem
    <3>4. \A y \in Range(z) : d[y] = data[y]
      BY <1>3, <2>6, <3>3, RangeIs
    <3>5. z \in Seq(Xfers)
      BY <1>3
    <3>6. CarryAll(d, Device, z) = CarryAll(data, Device, z)
      BY <3>4, <3>5, CarrySame
    <3> QED
      BY <3>6 DEF C
  <2>10. CarryAll(d, Device, f) = rest \o C(z)
    BY <2>5, <2>7, <2>8, <2>9
  <2>11. (\A y \in Xfers : Len(d[y]) <= MaxTransferSize) /\ \A y \in Xfers \ InFinished : d[y] = data[y]
    BY <1>1, <1>8, <2>4, <2>6
  <2>12. C(finished) = (got \o rest) \o C(z)
    BY <1>6, <1>7
  <2> QED
    BY <1>2, <1>3, <1>6, <1>8, <2>6, <2>7, <2>10, <2>11, <2>12 DEF Leaves, z, f, x, C
<1> QED
  BY <1>9, <1>10

LEMMA TakeBytesOK ==
    ASSUME IInv, NEW c \in Users, At(c, "lock"), lock = Free, finished # << >>, pipe = "IN",
           NEW n \in 1 .. MaxLength, TakeBytes(c, n), lock' = c, Goto(c, "taken"),
           UNCHANGED <<setup, threadVars, queued, pending, finishedTemp, ovls, lost, clean>>
    PROVE  IInv'
<1> DEFINE m == Looked(n)
           ready == BytesOf(Prefix(finished, m))
           got == Prefix(ready, Smaller(n, Len(ready)))
           rest == Suffix(ready, Len(ready) - Len(got))
           w == IF rest = << >> THEN m ELSE m - 1
           split == IF rest = << >> THEN NULL ELSE finished[m]
           kept == IF w = 0 THEN NULL ELSE split
           k == Locals(Prefix(finished, w), n - Len(got), kept)
           z == Suffix(finished, Len(finished) - m)
           C(l) == CarryAll(data, Device, l)
<1>1. /\ finished' = Suffix(finished, Len(finished) - w) /\ sem' = SemPlus(1 - w)
      /\ data' = IF split = NULL THEN data ELSE [data EXCEPT ![split] = rest]
      /\ call' = [call EXCEPT ![c] = k] /\ left' = Out(got) /\ entered' = entered
      /\ pc[c] = "lock" /\ pc' = [pc EXCEPT ![c] = "taken"]
  BY DEF TakeBytes, At, Goto
<1>2. /\ ListInv /\ DataInv /\ SemInv /\ setup \in Setups /\ FlyingInv /\ OrderInv /\ CallInv
      /\ ListTypes /\ n \in Nat \ {0}
  BY BoundAssumption DEF IInv, ThreadInv, ListInv
<1> HIDE DEF k
<1>3. finished[m] \in Xfers => finished[m] # NULL
  BY <1>2, SetupIs
<1> DEFINE d == IF rest = << >> THEN data ELSE [data EXCEPT ![finished[m]] = rest]
           f == IF rest = << >> THEN z ELSE Suffix(finished, Len(finished) - (m - 1))
<1>4. Reads(n, m, ready, got, rest, d)
  BY DEF Reads
<1> HIDE DEF m, ready, got, rest, d
<1>5. /\ m \in 1 .. Len(finished) /\ (HasSem => m <= sem + 1)
      /\ finished[m] \in Xfers /\ finished[m] \in InFinished
      /\ got \in Seq(ByteType) /\ rest \in Seq(ByteType)
      /\ d \in [Xfers -> Seq(ByteType)] /\ \A x \in Xfers : Len(d[x]) <= MaxTransferSize
      /\ \A x \in Xfers \ InFinished : d[x] = data[x]
      /\ z \in Seq(Xfers) /\ f \in Seq(Xfers)
      /\ CarryAll(data, Device, finished) = (got \o rest) \o CarryAll(data, Device, z)
      /\ CarryAll(d, Device, f) = rest \o CarryAll(data, Device, z)
  <2>1. ListInv /\ DataInv /\ SemInv /\ setup \in Setups /\ n \in Nat \ {0}
    BY <1>2
  <2>2. Leaves(m, got, rest, d)
    BY <1>4, <2>1, ReadIs
  <2> QED
    BY <2>2 DEF Leaves
<1>6. data' = d /\ finished' = f /\ w \in 0 .. Len(finished) /\ (HasSem => w <= sem + 1)
  <2>1. data' = d
    BY <1>1, <1>3, <1>5 DEF d
  <2>2. finished' = f
    BY <1>1
  <2>3. w \in 0 .. Len(finished) /\ (HasSem => w <= sem + 1)
    <3>1. Len(finished) \in Nat /\ sem \in Nat
      BY <1>2 DEF SemInv, ListTypes
    <3>2. w \in {m, m - 1}
      OBVIOUS
    <3> HIDE DEF w
    <3> QED
      BY <1>5, <3>1, <3>2
  <2> QED
    BY <2>1, <2>2, <2>3
<1> HIDE DEF w, z, f
<1>7. k \in CallType /\ k.taken = Prefix(finished, w) /\ Len(k.saved) <= MaxTransferSize
  <2>1. Prefix(finished, w) \in Seq(Xfers)
    BY <1>2, <1>6, Cut DEF ListTypes
  <2>2. kept \in Xfers \cup {NULL}
    BY <1>5
  <2> HIDE DEF kept
  <2>3. << >> \in Seq(ByteType) /\ Len(<< >>) = 0 /\ MaxTransferSize \in Nat
    BY EmptySeq, InitAssumption
  <2> DEFINE sv == IF kept = NULL THEN << >> ELSE data[kept]
  <2>4. sv \in Seq(ByteType) /\ Len(sv) <= MaxTransferSize
    BY <1>2, <2>2, <2>3 DEF DataInv
  <2> DEFINE fl == n - Len(got) > 0 /\ "NO_PARTIAL_XFERS" \in setup.flags
  <2>5. fl \in BOOLEAN
    OBVIOUS
  <2>6. k = [taken |-> Prefix(finished, w), fails |-> fl, backup |-> kept, saved |-> sv]
    BY DEF k, Locals
  <2> HIDE DEF sv, fl
  <2> QED
    BY <2>1, <2>2, <2>4, <2>5, <2>6 DEF CallType
<1>8. ThreadInv' /\ HandInv' /\ CallInv' /\ ListInv' /\ SemInv'
  BY <1>1, <1>6, <1>7, TakeMoves
<1>9. Device \in Sources /\ Carriers = {Device}
  BY DEF Sources, Carriers
<1>10. /\ entered \in [Sources -> Int] /\ left \in [Sources -> Int] /\ left' \in [Sources -> Int]
       /\ \A s \in Sources \ {Device} : left'[s] = left[s] /\ entered[s] = left[s]
       /\ left'[Device] = IF got = << >> THEN left[Device] ELSE Number(got[Len(got)])
  <2>1. entered \in [Sources -> Int] /\ left \in [Sources -> Int]
        /\ \A s \in Sources \ {Device} : entered[s] = left[s]
    BY <1>2, <1>9 DEF DataInv
  <2>2. CASE got = << >>
    BY <1>1, <2>1, <2>2 DEF Out
  <2>3. CASE got # << >>
    <3>1. Len(got) \in 1 .. Len(got) /\ Last(got) = got[Len(got)]
      BY <1>5, <2>3, EmptySeq DEF Last
    <3>2. got[Len(got)] \in {Device} \X Int
      BY <1>5, <1>9, <3>1, ElementOfSeq DEF ByteType
    <3>3. Source(Last(got)) = Device /\ Number(Last(got)) \in Int
      BY <3>1, <3>2 DEF Source, Number
    <3>4. left' = [left EXCEPT ![Device] = Number(Last(got))]
      BY <1>1, <2>3, <3>3 DEF Out
    <3> QED
      BY <1>9, <2>1, <2>3, <3>1, <3>3, <3>4
  <2> QED
    BY <2>2, <2>3
<1>11. DataInv'
  <2>1. Xfers' = Xfers /\ ByteType' = ByteType /\ Carriers' = Carriers
    BY SetupKept
  <2>2. \A e \in Users : Len(call'[e].saved) <= MaxTransferSize
    BY <1>1, <1>2, <1>7 DEF CallInv, DataInv
  <2>3. data' \in [Xfers -> Seq(ByteType)] /\ \A x \in Xfers : Len(data'[x]) <= MaxTransferSize
    BY <1>5, <1>6
  <2>4. \A s \in Sources \ Carriers : entered'[s] = left'[s]
    BY <1>1, <1>9, <1>10
  <2> QED
    BY <1>1, <1>10, <2>1, <2>2, <2>3, <2>4 DEF DataInv
<1>12. (\A x \in InPending : data'[x] = data[x]) /\ \A x \in InTemp : data'[x] = data[x]
  <2>1. InPending \in SUBSET Xfers /\ InTemp \in SUBSET Xfers
    BY <1>2, XfersAre, RangeIs DEF ListTypes, InPending, InTemp
  <2>2. InPending \cap InFinished = {} /\ InTemp \cap InFinished = {}
    BY <1>2 DEF ListInv, OnePlace
  <2> QED
    BY <1>5, <1>6, <2>1, <2>2
<1>13. FlyingInv'
  <2>1. pipe' = pipe /\ pending' = pending
    BY SetupKept
  <2>2. \A i \in DOMAIN pending : pending[i].xfer \in InPending
    <3>1. pending \in Seq(PendingType)
      BY <1>2 DEF ListTypes
    <3>2. XfersOf(pending) \in Seq(Xfers) /\ Len(XfersOf(pending)) = Len(pending)
          /\ \A i \in 1 .. Len(pending) : XfersOf(pending)[i] = pending[i].xfer
      BY <3>1, XfersAre
    <3>3. \A i \in 1 .. Len(pending) : XfersOf(pending)[i] \in Range(XfersOf(pending))
      BY <3>2, RangeIs
    <3> QED
      BY <3>1, <3>2, <3>3 DEF InPending
  <2> QED
    BY <1>2, <1>12, <2>1, <2>2 DEF FlyingInv
<1>14. OrderInv'
  <2>1. CASE ~clean
    BY <1>2, <2>1 DEF OrderInv, InOrder
  <2>2. CASE clean
    <3> DEFINE l == left[Device]
               e == entered[Device]
               t == C(finishedTemp)
               p == C(XfersOf(pending))
               new == ((rest \o C(z)) \o t) \o p
    <3>1. l \in Int /\ e \in Int /\ l <= e /\ OnTheWay(Device) = Run(Device, l, e)
      BY <1>2, <1>9, <1>10, <2>2 DEF OrderInv, InOrder, Run
    <3>2. pipe' = pipe /\ ListTypes' /\ XfersOf(pending)' = XfersOf(pending) /\ finishedTemp' = finishedTemp
          /\ XfersOf(pending') = XfersOf(pending)
      BY <1>8, SetupKept DEF ListInv, XfersOf
    <3>3. /\ finishedTemp \in Seq(Xfers) /\ XfersOf(pending) \in Seq(Xfers)
          /\ data \in [Xfers -> Seq(ByteType)]
      BY <1>2, XfersAre DEF ListTypes, DataInv
    <3>4. t \in Seq(ByteType) /\ p \in Seq(ByteType) /\ C(z) \in Seq(ByteType)
      BY <1>5, <3>3, CarryIs
    <3>5. OnTheWay(Device) = (((got \o rest) \o C(z)) \o t) \o p
      BY <1>2, <1>5, WayIn
    <3> HIDE DEF C, t, p
    <3>6. OnTheWay(Device) = got \o new /\ new \in Seq(ByteType)
      <4>1. rest \o C(z) \in Seq(ByteType) /\ (got \o rest) \o C(z) = got \o (rest \o C(z))
        <5>1. rest \in Seq(ByteType) /\ C(z) \in Seq(ByteType) /\ got \in Seq(ByteType)
          BY <1>5, <3>4
        <5>2. rest \o C(z) \in Seq(ByteType)
          BY <5>1, ConcatProperties
        <5> QED
          BY <5>1, <5>2, ConcatAssociative
      <4> DEFINE rz == rest \o C(z)
      <4> HIDE DEF rz
      <4>2. rz \in Seq(ByteType) /\ OnTheWay(Device) = ((got \o rz) \o t) \o p
        BY <3>5, <4>1 DEF rz
      <4>3. JoinsFour(got, rz, t, p) /\ (rz \o t) \o p \in Seq(ByteType)
        <5>1. got \in Seq(ByteType) /\ rz \in Seq(ByteType) /\ t \in Seq(ByteType) /\ p \in Seq(ByteType)
          BY <1>5, <3>4, <4>2
        <5>2. rz \o t \in Seq(ByteType)
          BY <5>1, ConcatProperties
        <5>3. (rz \o t) \o p \in Seq(ByteType)
          BY <5>1, <5>2, ConcatProperties
        <5>4. JoinsFour(got, rz, t, p)
          BY <5>1, JoinFour
        <5> QED
          BY <5>3, <5>4
      <4> QED
        BY <4>2, <4>3 DEF rz, JoinsFour
    <3>7. OnTheWay(Device)' = new
      <4>1. OnTheWay(Device)' = (CarryAll(data', Device, finished') \o CarryAll(data', Device, finishedTemp'))
                               \o CarryAll(data', Device, XfersOf(pending'))
        BY <1>8, <1>11, <3>2, WayInNext
      <4>2. CarryAll(data', Device, finishedTemp) = t
        BY <1>12, <3>3, CarrySame DEF t, C, InTemp
      <4>3. CarryAll(data', Device, XfersOf(pending)) = p
        BY <1>12, <3>3, CarrySame DEF p, C, InPending
      <4>4. CarryAll(data', Device, finished') = rest \o C(z)
        BY <1>5, <1>6 DEF C
      <4> QED
        BY <3>2, <4>1, <4>2, <4>3, <4>4
    <3> HIDE DEF new, l, e
    <3>8. /\ Len(got) + Len(new) = e - l /\ got = Run(Device, l, l + Len(got))
          /\ new = Run(Device, l + Len(got), e)
      <4>1. Joins(got, new, Run(Device, l, e))
        BY <3>1, <3>6 DEF Joins
      <4>2. got \in Seq({Device} \X Int) /\ new \in Seq({Device} \X Int)
        BY <1>5, <1>9, <3>6 DEF ByteType
      <4>3. Device \in {Device} /\ l \in Int /\ e \in Int /\ l <= e
        BY <3>1
      <4> QED
        <5>1. CutsRun(Device, l, e, got, new)
          BY <4>1, <4>2, <4>3, RunCut
        <5> QED
          BY <5>1 DEF CutsRun
    <3>9. left'[Device] = l + Len(got) /\ Len(got) \in Nat /\ Len(new) \in Nat
      <4>1. Len(got) \in Nat /\ Len(new) \in Nat
        BY <1>5, <3>6
      <4>2. CASE got = << >>
        BY <1>10, <3>1, <4>2, EmptySeq DEF l
      <4>3. CASE got # << >>
        <5>1. Len(got) \in 1 .. Len(got)
          BY <1>5, <4>3, EmptySeq
        <5>2. l + Len(got) \in Int /\ l <= l + Len(got) /\ (l + Len(got)) - l = Len(got)
          BY <3>1, <4>1
        <5> DEFINE r == Run(Device, l, l + Len(got))
        <5>3. \A i \in 1 .. (l + Len(got)) - l : r[i] = << Device, l + i >>
          BY <3>1, <5>2, RunIs
        <5>4. r[Len(got)] = << Device, l + Len(got) >>
          <6> HIDE DEF r
          <6> QED
            BY <5>1, <5>2, <5>3
        <5>5. got[Len(got)] = << Device, l + Len(got) >>
          BY <3>8, <5>4
        <5> QED
          BY <1>10, <4>1, <4>3, <5>5 DEF Number
      <4> QED
        BY <4>1, <4>2, <4>3
    <3>10. \A s \in Sources : left'[s] <= entered'[s] /\ OnTheWay(s)' = Run(s, left'[s], entered'[s])
      <4> TAKE s \in Sources
      <4>1. CASE s = Device
        BY <1>1, <3>1, <3>7, <3>8, <3>9, <4>1 DEF e
      <4>2. CASE s # Device
        <5>1. left'[s] = entered'[s] /\ left'[s] \in Int
          BY <1>1, <1>10, <4>2
        <5>2. OnTheWay(s)' = CarryAll(data', s, finished' \o finishedTemp' \o XfersOf(pending'))
          BY <1>8, <1>11, <3>2, WayInNext
        <5>3. finished' \o finishedTemp' \o XfersOf(pending') \in Seq(Xfers)
          <6>1. finished' \in Seq(Xfers) /\ finishedTemp' \in Seq(Xfers) /\ XfersOf(pending') \in Seq(Xfers)
            BY <1>5, <1>6, <3>2, <3>3
          <6>2. finished' \o finishedTemp' \in Seq(Xfers)
            BY <6>1, ConcatProperties
          <6> QED
            BY <6>1, <6>2, ConcatProperties
        <5>4. OnTheWay(s)' = << >>
          BY <1>2, <1>5, <1>6, <4>2, <5>2, <5>3, CarryIn
        <5>5. Run(s, left'[s], left'[s]) = << >>
          BY <5>1, RunNone
        <5> QED
          BY <5>1, <5>4, <5>5
      <4> QED
        BY <4>1, <4>2
    <3> QED
      BY <2>2, <3>10 DEF OrderInv, InOrder, Run
  <2> QED
    BY <2>1, <2>2
<1> QED
  BY <1>8, <1>11, <1>13, <1>14 DEF IInv

\* What a list carries whose transfers hold one run of bytes, cut at `ends`.
LEMMA FillRun ==
    ASSUME NEW d \in [Xfers -> Seq(ByteType)], NEW s \in Carriers, NEW t \in Seq(Xfers),
           NEW ends \in [0 .. Len(t) -> Int],
           \A i \in 1 .. Len(t) : ends[i - 1] <= ends[i] /\ d[t[i]] = Run(s, ends[i - 1], ends[i])
    PROVE  CarryAll(d, s, t) = Run(s, ends[0], ends[Len(t)]) /\ ends[0] <= ends[Len(t)]
<1> DEFINE N == Len(t)
           P(i) == Prefix(t, i)
           R(i) == Run(s, ends[0], ends[i])
           Good == {i \in 0 .. N : ends[0] <= ends[i] /\ CarryAll(d, s, P(i)) = R(i)}
<1>1. N \in Nat /\ 0 \in 0 .. N /\ N \in 0 .. N /\ \A i \in 0 .. N : ends[i] \in Int
  OBVIOUS
<1>2. P(0) = << >> /\ P(N) = t
  BY SMTT(40) DEF Prefix
<1>3. \A i \in 0 .. N : P(i) \in Seq(Xfers)
  BY Cut
<1>4. 0 \in Good
  <2>1. R(0) = << >>
    BY <1>1, RunNone
  <2>2. CarryAll(d, s, P(0)) = << >>
    BY <1>2, CarryNothing, Zenon
  <2> HIDE DEF P, R, N
  <2> QED
    BY <1>1, <2>1, <2>2
<1>5. ASSUME NEW i \in 1 .. N, i - 1 \in Good PROVE i \in Good
  <2> DEFINE x == t[i]
             l == ends[0]
             m == ends[i - 1]
             e == ends[i]
  <2>1. i - 1 \in 0 .. N /\ i \in 0 .. N /\ x \in Xfers
    BY <1>1
  <2>2. P(i) = P(i - 1) \o << x >>
    BY CutAt
  <2>3. l \in Int /\ m \in Int /\ e \in Int /\ m <= e /\ d[x] = Run(s, m, e)
    BY <1>1, <2>1
  <2>4. l <= m /\ CarryAll(d, s, P(i - 1)) = R(i - 1)
    BY <1>5
  <2>5. R(i - 1) = Run(s, l, m) /\ R(i) = Run(s, l, e)
    OBVIOUS
  <2> HIDE DEF P, x, R, l, m, e, Good, N
  <2>6. << x >> \in Seq(Xfers) /\ P(i - 1) \in Seq(Xfers)
    BY <1>3, <2>1
  <2>7. CarryAll(d, s, P(i)) = CarryAll(d, s, P(i - 1)) \o CarryAll(d, s, << x >>)
    BY <2>2, <2>6, CarryTogether, ZenonT(60)
  <2>8. CarryAll(d, s, << x >>) = Carry(d, s, x)
    BY <2>1, CarryOne
  <2>9. Carry(d, s, x) = d[x]
    <3> DEFINE r == Run(s, m, e)
    <3>1. r \in Seq(Carriers \X Int) /\ Len(r) = e - m /\ \A k \in 1 .. e - m : r[k] = << s, m + k >>
      BY <2>3, RunIs, ZenonT(60)
    <3>2. d[x] = r
      BY <2>3
    <3> HIDE DEF r
    <3>3. r # << >> => Source(Head(r)) = s
      <4>1. SUFFICES ASSUME r # << >> PROVE Source(Head(r)) = s
        OBVIOUS
      <4>2. Len(r) \in Nat \ {0}
        BY <3>1, <4>1, EmptySeq
      <4>3. 1 \in 1 .. e - m
        BY <2>3, <3>1, <4>2
      <4>4. Head(r) = r[1]
        BY <3>1, <4>2
      <4>5. r[1] = << s, m + 1 >>
        BY <3>1, <4>3
      <4> QED
        BY <4>4, <4>5 DEF Source
    <3> QED
      BY <3>2, <3>3 DEF Carry
  <2>10. Run(s, l, m) \o Run(s, m, e) = Run(s, l, e) /\ l <= e
    <3>1. l \in Int /\ m \in Int /\ e \in Int /\ l <= m /\ m <= e
      BY <2>3, <2>4
    <3>2. Run(s, l, m) \o Run(s, m, e) = Run(s, l, e)
      BY ONLY <3>1, s \in Carriers, RunJoin
    <3>3. l <= e
      BY ONLY <3>1
    <3> QED
      BY <3>2, <3>3
  <2>11. CarryAll(d, s, P(i)) = R(i)
    BY <2>3, <2>4, <2>5, <2>7, <2>8, <2>9, <2>10
  <2> QED
    BY <2>1, <2>10, <2>11 DEF Good, l, e
<1>6. N \in Good
  <2>1. \A i \in 0 .. N : i \in Good
    <3> HIDE DEF Good, N
    <3> QED
      BY <1>1, <1>4, <1>5, UpTo
  <2> QED
    BY <1>1, <2>1
<1> QED
  BY <1>2, <1>6

\* The bytes that StmK_Write puts into the i-th transfer.
Piece(c, given, i) ==
    [j \in 1 .. Smaller(MaxTransferSize, given - (i - 1) * MaxTransferSize)
        |-> <<c, entered[c] + (i - 1) * MaxTransferSize + j>>]

LEMMA PieceIs ==
    ASSUME NEW c, entered[c] \in Int, NEW given \in Nat, NEW i \in Nat \ {0}
    PROVE  LET a == Smaller(given, (i - 1) * MaxTransferSize)
               b == Smaller(given, i * MaxTransferSize)
           IN  /\ a \in Nat /\ b \in Nat /\ a <= b /\ b - a <= MaxTransferSize
               /\ Piece(c, given, i) = Run(c, entered[c] + a, entered[c] + b)
<1> DEFINE M == MaxTransferSize
           u == (i - 1) * M
           v == i * M
           e == entered[c]
           a == Smaller(given, u)
           b == Smaller(given, v)
<1>1. M \in Nat \ {0} /\ i - 1 \in Nat /\ e \in Int
  BY InitAssumption
<1>2. u \in Nat /\ v = u + M
  BY <1>1
<1> HIDE DEF u, v, M, e
<1>3. a \in Nat /\ b \in Nat /\ a <= b /\ b - a <= M
  BY <1>1, <1>2 DEF Smaller
<1>4. Piece(c, given, i) = [j \in 1 .. Smaller(M, given - u) |-> <<c, e + u + j>>]
  BY DEF Piece, u, M, e
<1>5. Run(c, e + a, e + b) = [j \in 1 .. (e + b) - (e + a) |-> << c, e + a + j >>]
  BY DEF Run
<1>6. CASE given <= u
  <2>1. 1 .. Smaller(M, given - u) = {} /\ 1 .. (e + b) - (e + a) = {}
    BY <1>1, <1>2, <1>6 DEF Smaller
  <2> HIDE DEF a, b
  <2> QED
    BY <1>3, <1>4, <1>5, <2>1 DEF a, b, u, v, M, e
<1>7. CASE ~(given <= u)
  <2>1. a = u /\ Smaller(M, given - u) = (e + b) - (e + a)
    BY <1>1, <1>2, <1>7 DEF Smaller
  <2> HIDE DEF a, b
  <2> QED
    BY <1>3, <1>4, <1>5, <2>1 DEF a, b, u, v, M, e
<1> QED
  BY <1>6, <1>7

LEMMA PutBytesOK ==
    ASSUME IInv, NEW c \in Users, At(c, "lock"), lock = Free, finished # << >>, pipe = "OUT",
           NEW n \in 1 .. MaxLength, PutBytes(c, n), lock' = c, Goto(c, "taken"),
           UNCHANGED <<setup, threadVars, queued, pending, finishedTemp, ovls, lost, clean>>
    PROVE  IInv'
<1> DEFINE m == Looked(n)
           given == Smaller(n, m * MaxTransferSize)
           t == Prefix(finished, m)
           k == Locals(t, n - given, NULL)
           at(x) == CHOOSE i \in 1 .. m : t[i] = x
           e == entered[c]
           ends == [i \in 0 .. m |-> e + Smaller(given, i * MaxTransferSize)]
<1>1. /\ finished' = Suffix(finished, Len(finished) - m) /\ sem' = SemPlus(1 - m)
      /\ data' = [x \in Xfers |-> IF x \in Range(t) THEN Piece(c, given, at(x)) ELSE data[x]]
      /\ call' = [call EXCEPT ![c] = k] /\ left' = left
      /\ entered' = [entered EXCEPT ![c] = e + given]
      /\ pc[c] = "lock" /\ pc' = [pc EXCEPT ![c] = "taken"]
  BY DEF PutBytes, At, Goto, Piece
<1>2. /\ ListInv /\ DataInv /\ SemInv /\ setup \in Setups /\ FlyingInv /\ OrderInv /\ CallInv
      /\ ListTypes /\ n \in Nat /\ n # 0
  BY BoundAssumption DEF IInv, ThreadInv, ListInv
<1> HIDE DEF k, at, m, given, t, ends
<1>3. m \in 1 .. Len(finished) /\ (HasSem => m <= sem + 1) /\ m \in 0 .. Len(finished) /\ m \in Nat
  <2>1. m \in 1 .. Len(finished) /\ (HasSem => m <= sem + 1)
    BY <1>2, LookedIs DEF m
  <2> QED
    BY <2>1
<1>4. given \in Nat /\ given <= m * MaxTransferSize /\ m * MaxTransferSize \in Nat
  BY <1>2, <1>3, InitAssumption DEF given, Smaller
<1>5. t \in Seq(Xfers) /\ Len(t) = m /\ IsInjective(t) /\ Range(t) \subseteq InFinished
  <2> DEFINE z == Suffix(finished, Len(finished) - m)
  <2>1. finished \in Seq(Xfers) /\ IsInjective(finished)
    BY <1>2 DEF ListInv, ListTypes, NoRepeats
  <2>2. t \in Seq(Xfers) /\ Len(t) = m /\ z \in Seq(Xfers) /\ t \o z = finished
    BY <1>3, <2>1, Cut DEF t
  <2> HIDE DEF z
  <2>3. IsInjective(t \o z) /\ Range(t \o z) = InFinished
    BY <2>1, <2>2 DEF InFinished
  <2>4. IsInjective(t) /\ Range(t) \subseteq Range(t \o z)
    <3>1. IsInjective(t)
      BY <2>2, <2>3, JoinedOnce
    <3>2. Range(t \o z) = Range(t) \cup Range(z)
      BY <2>2, JoinedRange, ZenonT(60)
    <3> QED
      BY <3>1, <3>2
  <2> QED
    BY <2>2, <2>3, <2>4
<1>6. k \in CallType /\ k.taken = t /\ Len(k.saved) <= MaxTransferSize
  <2>1. << >> \in Seq(ByteType) /\ Len(<< >>) = 0 /\ MaxTransferSize \in Nat
    BY EmptySeq, InitAssumption
  <2> DEFINE fl == n - given > 0 /\ "NO_PARTIAL_XFERS" \in setup.flags
  <2>2. fl \in BOOLEAN
    OBVIOUS
  <2>3. k = [taken |-> t, fails |-> fl, backup |-> NULL, saved |-> << >>]
    BY DEF k, Locals
  <2> HIDE DEF fl
  <2> QED
    BY <1>5, <2>1, <2>2, <2>3 DEF CallType
<1>7. ThreadInv' /\ HandInv' /\ CallInv' /\ ListInv' /\ SemInv'
  <2>1. k.taken = Prefix(finished, m)
    BY <1>6 DEF t
  <2> QED
    BY <1>1, <1>3, <1>6, <2>1, TakeMoves
<1>8. /\ Carriers = Users /\ c \in Carriers /\ c \in Sources /\ Device \notin Users
      /\ entered \in [Sources -> Int] /\ left \in [Sources -> Int] /\ e \in Int
      /\ entered[Device] = left[Device]
  BY <1>2, UsersAre DEF DataInv, Carriers, Sources
<1>9. ends \in [0 .. m -> Int] /\ ends[0] = e /\ ends[m] = e + given
  <2>1. \A i \in 0 .. m : i * MaxTransferSize \in Nat
    BY <1>3, InitAssumption
  <2>2. \A i \in 0 .. m : Smaller(given, i * MaxTransferSize) \in Nat
    BY <1>4, <2>1 DEF Smaller
  <2>3. Smaller(given, 0 * MaxTransferSize) = 0 /\ Smaller(given, m * MaxTransferSize) = given
    BY <1>4, InitAssumption DEF Smaller
  <2> HIDE DEF e
  <2>4. 0 \in 0 .. m /\ m \in 0 .. m
    BY <1>3
  <2> QED
    BY <1>8, <2>2, <2>3, <2>4 DEF ends
<1>10. \A i \in 1 .. m : /\ data'[t[i]] = Run(c, ends[i - 1], ends[i])
                         /\ ends[i - 1] <= ends[i] /\ ends[i] - ends[i - 1] <= MaxTransferSize
  <2> TAKE i \in 1 .. m
  <2>1. t[i] \in Xfers /\ t[i] \in Range(t)
    BY <1>5, RangeIs
  <2>2. at(t[i]) = i
    <3>1. \A j \in 1 .. m : t[j] = t[i] => j = i
      BY <1>5 DEF IsInjective
    <3>2. at(t[i]) \in 1 .. m /\ t[at(t[i])] = t[i]
      BY Zenon DEF at
    <3> QED
      BY <3>1, <3>2
  <2>3. data'[t[i]] = Piece(c, given, i)
    BY <1>1, <2>1, <2>2
  <2> DEFINE a == Smaller(given, (i - 1) * MaxTransferSize)
             b == Smaller(given, i * MaxTransferSize)
  <2>4. a \in Nat /\ b \in Nat /\ a <= b /\ b - a <= MaxTransferSize
        /\ Piece(c, given, i) = Run(c, entered[c] + a, entered[c] + b)
    <3>1. i \in Nat \ {0} /\ entered[c] \in Int
      BY <1>3, <1>8
    <3> QED
      BY <1>4, <3>1, PieceIs
  <2>5. i \in 0 .. m /\ i - 1 \in 0 .. m
    BY <1>3
  <2>6. ends[i] = e + b /\ ends[i - 1] = e + a
    BY <2>5 DEF ends
  <2> HIDE DEF a, b
  <2> QED
    BY <1>8, <2>3, <2>4, <2>6, InitAssumption
<1>11. \A x \in Range(t) : /\ data'[x] \in Seq(ByteType) /\ Len(data'[x]) <= MaxTransferSize
                           /\ data'[x] # << >> => Source(Head(data'[x])) = c
  <2> TAKE x \in Range(t)
  <2>1. PICK i \in 1 .. m : t[i] = x
    BY <1>5, RangeIs
  <2> DEFINE l == ends[i - 1]
             h == ends[i]
             r == Run(c, l, h)
  <2>2. l \in Int /\ h \in Int /\ l <= h /\ h - l <= MaxTransferSize /\ data'[x] = r
    <3>1. i - 1 \in 0 .. m /\ i \in 0 .. m
      BY <1>3
    <3> QED
      BY <1>9, <1>10, <2>1, <3>1
  <2> HIDE DEF l, h
  <2>3. r \in Seq(Carriers \X Int) /\ Len(r) = h - l /\ \A j \in 1 .. h - l : r[j] = << c, l + j >>
    <3>1. c \in Carriers /\ l \in Int /\ h \in Int /\ l <= h
      BY <1>8, <2>2
    <3> QED
      BY <3>1, RunIs
  <2> HIDE DEF r
  <2>4. r # << >> => Source(Head(r)) = c
    <3> SUFFICES ASSUME r # << >> PROVE Source(Head(r)) = c
      OBVIOUS
    <3>1. Len(r) \in Nat \ {0}
      BY <2>3, EmptySeq
    <3>2. Head(r) = r[1] /\ 1 \in 1 .. h - l
      BY <2>2, <2>3, <3>1
    <3>3. r[1] = << c, l + 1 >>
      BY <2>3, <3>2
    <3> QED
      BY <3>2, <3>3 DEF Source
  <2> QED
    BY <2>2, <2>3, <2>4 DEF ByteType
<1>12. \A x \in Xfers \ Range(t) : data'[x] = data[x]
  BY <1>1
<1>13. data' \in [Xfers -> Seq(ByteType)] /\ \A x \in Xfers : Len(data'[x]) <= MaxTransferSize
  <2>1. \A x \in Xfers : data'[x] \in Seq(ByteType) /\ Len(data'[x]) <= MaxTransferSize
    BY <1>2, <1>11, <1>12 DEF DataInv
  <2>2. data' = [x \in Xfers |-> data'[x]]
    BY <1>1
  <2> QED
    BY <2>1, <2>2
<1>14. DataInv'
  <2>1. Xfers' = Xfers /\ ByteType' = ByteType /\ Carriers' = Carriers
    BY SetupKept
  <2>2. \A d \in Users : Len(call'[d].saved) <= MaxTransferSize
    BY <1>1, <1>2, <1>6 DEF CallInv, DataInv
  <2>3. entered' \in [Sources -> Int] /\ left' \in [Sources -> Int]
        /\ \A s \in Sources \ Carriers : entered'[s] = left'[s]
    BY <1>1, <1>2, <1>4, <1>8 DEF DataInv
  <2> QED
    BY <1>13, <2>1, <2>2, <2>3 DEF DataInv
<1>15. /\ \A x \in InPending \cup InQueued \cup InApcs : x \in Xfers /\ data'[x] = data[x]
       /\ \A d \in Users \ {c} : \A x \in Taken(d) : x \in Xfers /\ data'[x] = data[x]
  <2>1. /\ InPending \in SUBSET Xfers /\ InQueued \in SUBSET Xfers /\ InApcs \in SUBSET Xfers
        /\ \A d \in Users : Taken(d) \in SUBSET Xfers
    <3>1. XfersOf(pending) \in Seq(Xfers) /\ queued \in Seq(Xfers) /\ AllApcs \in Seq(Xfers)
      BY <1>2, XfersAre, ApcsAre DEF ListTypes
    <3>2. \A d \in Users : call[d].taken \in Seq(Xfers)
      BY <1>2 DEF CallInv, CallType
    <3> QED
      BY <3>1, <3>2, RangeIs DEF InPending, InQueued, InApcs, Taken
  <2>2. /\ InPending \cap InFinished = {} /\ InQueued \cap InFinished = {} /\ InApcs \cap InFinished = {}
        /\ \A d \in Users : Taken(d) \cap InFinished = {}
    BY <1>2 DEF ListInv, OnePlace
  <2> QED
    BY <1>5, <1>12, <2>1, <2>2
<1>16. /\ call \in [Users -> CallType] /\ call[c] = NoCall /\ call'[c].taken = t
       /\ \A d \in Users \ {c} : call'[d] = call[d]
  BY <1>1, <1>2, <1>6 DEF CallInv
<1>17. pipe' = pipe /\ pending' = pending
  BY SetupKept
<1>18. FlyingInv'
  <2>1. clean => \A d \in Users : \A x \in Taken(d)' : data'[x] # << >> => Source(Head(data'[x])) = d
    <3> SUFFICES ASSUME clean, NEW d \in Users, NEW x \in Taken(d)', data'[x] # << >>
                 PROVE  Source(Head(data'[x])) = d
      OBVIOUS
    <3>1. CASE d = c
      BY <1>11, <1>16, <3>1 DEF Taken
    <3>2. CASE d # c
      <4>1. x \in Taken(d)
        BY <1>16, <3>2 DEF Taken
      <4> QED
        BY <1>2, <1>15, <3>2, <4>1 DEF FlyingInv
    <3> QED
      BY <3>1, <3>2
  <2> QED
    BY <1>2, <1>17, <2>1 DEF FlyingInv, Source
<1>19. \A s : OnTheWay(s)' = CarryAll(FlyBytes(data), s, pending)
                 \o ((CarryAll(data, s, queued) \o CarryAll(data, s, AllApcs)) \o CarryAll(data', s, Own(s)'))
  <2> TAKE s
  <2>1. AllApcs' = AllApcs /\ queued' = queued /\ AllApcs \in Seq(Xfers) /\ queued \in Seq(Xfers)
        /\ pending \in Seq(PendingType)
    BY <1>2, SetsKept, ApcsAre DEF threadVars, ListTypes
  <2>2. OnTheWay(s)' = CarryAll(FlyBytes(data'), s, pending')
              \o ((CarryAll(data', s, queued') \o CarryAll(data', s, AllApcs')) \o CarryAll(data', s, Own(s)'))
    BY <1>7, <1>14, <1>17, WayOutNext DEF ListInv
  <2>3. CarryAll(data', s, queued) = CarryAll(data, s, queued)
    BY <1>15, <2>1, CarrySame DEF InQueued
  <2>4. CarryAll(data', s, AllApcs) = CarryAll(data, s, AllApcs)
    BY <1>15, <2>1, CarrySame DEF InApcs
  <2>5. CarryAll(FlyBytes(data'), s, pending) = CarryAll(FlyBytes(data), s, pending)
    <3>1. \A p \in Range(pending) : FlyBytes(data')[p] = FlyBytes(data)[p]
      <4> TAKE p \in Range(pending)
      <4>1. PICK i \in 1 .. Len(pending) : pending[i] = p
        BY <2>1, RangeIs
      <4>2. p \in PendingType /\ p.xfer \in InPending
        <5>1. XfersOf(pending) \in Seq(Xfers) /\ Len(XfersOf(pending)) = Len(pending)
              /\ XfersOf(pending)[i] = pending[i].xfer
          BY <2>1, XfersAre
        <5>2. XfersOf(pending)[i] \in Range(XfersOf(pending))
          BY <5>1, RangeIs
        <5>3. p \in PendingType
          BY <2>1, <4>1, ElementOfSeq
        <5> QED
          BY <4>1, <5>1, <5>2, <5>3 DEF InPending
      <4> QED
        BY <1>15, <4>2 DEF FlyBytes
    <3> QED
      BY <2>1, <3>1, CarrySame
  <2> QED
    BY <1>17, <2>1, <2>2, <2>3, <2>4, <2>5
<1>20. OrderInv'
  <2>1. CASE ~clean
    BY <1>2, <2>1 DEF OrderInv, InOrder
  <2>2. CASE clean
    <3>1. \A s \in Sources : left[s] <= entered[s] /\ OnTheWay(s) = Run(s, left[s], entered[s])
      BY <1>2, <2>2 DEF OrderInv, InOrder, Run
    <3>2. \A s \in Sources : left'[s] <= entered'[s] /\ OnTheWay(s)' = Run(s, left'[s], entered'[s])
      <4> TAKE s \in Sources
      <4> DEFINE F == CarryAll(FlyBytes(data), s, pending)
                 Q == CarryAll(data, s, queued) \o CarryAll(data, s, AllApcs)
                 W == CarryAll(data, s, Own(s))
                 T == CarryAll(data', s, Own(s)')
      <4>1. OnTheWay(s) = F \o (Q \o W) /\ OnTheWay(s)' = F \o (Q \o T)
        BY <1>2, <1>19, WayOut
      <4>2. F \in Seq(ByteType) /\ Q \in Seq(ByteType)
        <5>1. data \in [Xfers -> Seq(ByteType)] /\ queued \in Seq(Xfers) /\ AllApcs \in Seq(Xfers)
              /\ pending \in Seq(PendingType)
          BY <1>2, ApcsAre DEF DataInv, ListTypes
        <5>2. CarryAll(data, s, queued) \in Seq(ByteType) /\ CarryAll(data, s, AllApcs) \in Seq(ByteType)
          BY <5>1, CarryIs
        <5>3. FlyBytes(data) \in [PendingType -> Seq(ByteType)]
          BY <5>1, FlyBytesAre
        <5>4. F \in Seq(ByteType)
          BY <5>1, <5>3, CarryIs
        <5> QED
          BY <5>2, <5>4, ConcatProperties
      <4>3. CASE s = c
        <5>1. W = << >>
          <6>1. Own(s) = << >>
            BY <1>16, <4>3, NoCallIs DEF Own
          <6> QED
            BY <6>1, CarryNothing, Zenon
        <5>2. T = Run(s, e, e + given) /\ e <= e + given
          <6>1. Own(s)' = t
            BY <1>16, <4>3 DEF Own
          <6>2. \A i \in 1 .. Len(t) : ends[i - 1] <= ends[i] /\ data'[t[i]] = Run(s, ends[i - 1], ends[i])
            BY <1>5, <1>10, <4>3
          <6>3. ends \in [0 .. Len(t) -> Int] /\ s \in Carriers
            BY <1>5, <1>8, <1>9, <4>3
          <6>4. CarryAll(data', s, t) = Run(s, ends[0], ends[Len(t)])
            BY <1>5, <1>13, <6>2, <6>3, FillRun
          <6> QED
            BY <1>4, <1>5, <1>8, <1>9, <6>1, <6>4
        <5> HIDE DEF F, Q, W, T
        <5> DEFINE l == left[s]
                   fq == F \o Q
        <5>3. l \in Int /\ l <= e /\ F \o (Q \o W) = Run(s, l, e)
          BY <1>8, <3>1, <4>1, <4>3
        <5>4. Q \o << >> = Q
          BY <4>2, ConcatEmptySeq
        <5>5. fq = Run(s, l, e)
          BY <5>1, <5>3, <5>4
        <5>6. T \in Seq(ByteType)
          <6>1. e + given \in Int
            BY <1>4, <1>8
          <6>2. s \in Carriers
            BY <1>8, <4>3
          <6> HIDE DEF e
          <6>3. Run(s, e, e + given) \in Seq(Carriers \X Int)
            BY <1>8, <5>2, <6>1, <6>2, RunIs
          <6> QED
            BY <5>2, <6>3 DEF ByteType
        <5>7. F \o (Q \o T) = fq \o T
          BY <4>2, <5>6, ConcatAssociative
        <5> HIDE DEF fq, l, e
        <5>8. Run(s, l, e) \o Run(s, e, e + given) = Run(s, l, e + given) /\ e + given \in Int /\ l <= e + given
          <6>1. e + given \in Int /\ e \in Int /\ l <= e + given
            BY <1>4, <1>8, <5>3
          <6>2. Run(s, l, e) \o Run(s, e, e + given) = Run(s, l, e + given)
            BY <5>2, <5>3, <6>1, RunJoin
          <6> QED
            BY <6>1, <6>2
        <5>9. OnTheWay(s)' = Run(s, l, e + given)
          BY <4>1, <5>2, <5>5, <5>7, <5>8
        <5>10. entered'[s] = e + given /\ left'[s] = l
          BY <1>1, <1>8, <4>3 DEF l
        <5> QED
          BY <5>8, <5>9, <5>10
      <4>4. CASE s # c
        <5>1. entered'[s] = entered[s] /\ left'[s] = left[s]
          BY <1>1, <1>8, <4>4
        <5>2. T = W
          <6>1. Own(s)' = Own(s)
            BY <1>16, <4>4 DEF Own
          <6>2. CarryAll(data', s, Own(s)) = CarryAll(data, s, Own(s))
            <7>1. Own(s) \in Seq(Xfers) /\ (s \in Users => Range(Own(s)) = Taken(s)) /\ (s \notin Users => Own(s) = << >>)
              BY <1>2, OwnIs
            <7>2. \A x \in Range(Own(s)) : data'[x] = data[x]
              BY <1>15, <4>4, <7>1, NoItems
            <7> QED
              BY <7>1, <7>2, CarrySame
          <6> QED
            BY <6>1, <6>2
        <5> QED
          BY <3>1, <4>1, <5>1, <5>2
      <4> QED
        BY <4>3, <4>4
    <3> QED
      BY <2>2, <3>2 DEF OrderInv, InOrder, Run
  <2> QED
    BY <2>1, <2>2
<1> QED
  BY <1>7, <1>14, <1>18, <1>20 DEF IInv

LEMMA TakeOK ==
    ASSUME IInv, NEW c \in Users, Take(c)
    PROVE  IInv'
<1>1. PICK n \in 1 .. MaxLength : IF pipe = "IN" THEN TakeBytes(c, n) ELSE PutBytes(c, n)
  BY DEF Take
<1>2. /\ At(c, "lock") /\ lock = Free /\ finished # << >> /\ lock' = c /\ Goto(c, "taken")
      /\ UNCHANGED <<setup, threadVars, queued, pending, finishedTemp, ovls, lost, clean>>
  BY DEF Take
<1>3. pipe \in {"IN", "OUT"}
  BY SetupIs DEF IInv, ThreadInv
<1>4. CASE pipe = "IN"
  <2>1. TakeBytes(c, n)
    BY <1>1, <1>4
  <2> QED
    BY <1>2, <1>4, <2>1, TakeBytesOK
<1>5. CASE pipe = "OUT"
  <2>1. PutBytes(c, n)
    BY <1>1, <1>5
  <2> QED
    BY <1>2, <1>5, <2>1, PutBytesOK
<1> QED
  BY <1>3, <1>4, <1>5

-----------------------------------------------------------------------------
(***************************************************************************)
(* A caller gives its transfers away.                                      *)
(***************************************************************************)

LEMMA PlacesAre ==
    ASSUME ListTypes, CallInv
    PROVE  /\ InQueued \in SUBSET Xfers /\ InPending \in SUBSET Xfers /\ InFinished \in SUBSET Xfers
           /\ InTemp \in SUBSET Xfers /\ InApcs \in SUBSET Xfers
           /\ \A c \in Users : call[c].taken \in Seq(Xfers) /\ Taken(c) \in SUBSET Xfers
           /\ XfersOf(pending) \in Seq(Xfers) /\ AllApcs \in Seq(Xfers)
           /\ \A i \in DOMAIN pending : pending[i].xfer \in InPending
<1>1. pending \in Seq(PendingType) /\ queued \in Seq(Xfers) /\ finished \in Seq(Xfers)
      /\ finishedTemp \in Seq(Xfers) /\ AllApcs \in Seq(Xfers)
  BY ApcsAre DEF ListTypes
<1>2. XfersOf(pending) \in Seq(Xfers) /\ Len(XfersOf(pending)) = Len(pending)
      /\ \A i \in 1 .. Len(pending) : XfersOf(pending)[i] = pending[i].xfer
  BY <1>1, XfersAre
<1>3. \A i \in 1 .. Len(pending) : XfersOf(pending)[i] \in Range(XfersOf(pending))
  BY <1>2, RangeIs
<1>4. \A i \in DOMAIN pending : pending[i].xfer \in InPending
  BY <1>1, <1>2, <1>3, SMTT(40) DEF InPending
<1>5. \A c \in Users : call[c].taken \in Seq(Xfers)
  BY DEF CallInv, CallType
<1>6. \A c \in Users : Taken(c) \in SUBSET Xfers
  BY <1>5, RangeIs DEF Taken
<1> QED
  BY <1>1, <1>2, <1>4, <1>5, <1>6, RangeIs DEF InQueued, InPending, InFinished, InTemp, InApcs

LEMMA FlySame ==
    ASSUME ListTypes, CallInv, NEW d, NEW e, NEW s, \A x \in InPending : e[x] = d[x]
    PROVE  CarryAll(FlyBytes(e), s, pending) = CarryAll(FlyBytes(d), s, pending)
<1>1. pending \in Seq(PendingType)
  BY DEF ListTypes
<1>2. \A p \in Range(pending) : FlyBytes(e)[p] = FlyBytes(d)[p]
  <2> TAKE p \in Range(pending)
  <2>1. PICK i \in 1 .. Len(pending) : pending[i] = p
    BY <1>1, RangeIs
  <2>2. p \in PendingType
    BY <1>1, <2>1, ElementOfSeq
  <2>3. p.xfer \in InPending
    BY <1>1, <2>1, PlacesAre
  <2> QED
    BY <2>2, <2>3 DEF FlyBytes
<1> QED
  BY <1>1, <1>2, CarrySame

\* The bytes on their way through an IN stream stay the same.
LEMMA WayInKept ==
    ASSUME ListInv, DataInv, ListInv', DataInv', CallInv, setup' = setup, pipe = "IN", finished' = finished,
           finishedTemp' = finishedTemp, pending' = pending,
           \A x \in InFinished \cup InTemp \cup InPending : data'[x] = data[x]
    PROVE  \A s : OnTheWay(s)' = OnTheWay(s)
<1> TAKE s
<1>1. pipe' = "IN" /\ XfersOf(pending') = XfersOf(pending)
  BY SetupKept DEF XfersOf
<1>2. OnTheWay(s) = (CarryAll(data, s, finished) \o CarryAll(data, s, finishedTemp))
                               \o CarryAll(data, s, XfersOf(pending))
  BY WayIn DEF ListInv
<1>3. OnTheWay(s)' = (CarryAll(data', s, finished') \o CarryAll(data', s, finishedTemp'))
                               \o CarryAll(data', s, XfersOf(pending'))
  BY <1>1, WayInNext DEF ListInv
<1>4. finished \in Seq(Xfers) /\ finishedTemp \in Seq(Xfers) /\ XfersOf(pending) \in Seq(Xfers)
  BY PlacesAre DEF ListInv, ListTypes
<1>5. CarryAll(data', s, finished) = CarryAll(data, s, finished)
  BY <1>4, CarrySame DEF InFinished
<1>6. CarryAll(data', s, finishedTemp) = CarryAll(data, s, finishedTemp)
  BY <1>4, CarrySame DEF InTemp
<1>7. CarryAll(data', s, XfersOf(pending)) = CarryAll(data, s, XfersOf(pending))
  BY <1>4, CarrySame DEF InPending
<1> QED
  BY <1>1, <1>2, <1>3, <1>5, <1>6, <1>7

\* What a caller has taken carries its own bytes only.
LEMMA CarryOwn ==
    ASSUME CallInv, FlyingInv, clean, pipe = "OUT", NEW c \in Users, NEW s, s # c
    PROVE  CarryAll(data, s, call[c].taken) = << >>
<1>1. call[c].taken \in Seq(Xfers)
  BY DEF CallInv, CallType
<1>2. \A x \in Range(call[c].taken) : Carry(data, s, x) = << >>
  BY DEF FlyingInv, Taken, Carry
<1> QED
  BY <1>1, <1>2, CarryNone

LEMMA RecycleIs ==
    ASSUME DataInv, CallInv, ListTypes, setup \in Setups, NEW c \in Users, Recycle(call[c].taken)
    PROVE  /\ data' \in [Xfers -> Seq(ByteType)] /\ \A x \in Xfers : Len(data'[x]) <= MaxTransferSize
           /\ \A x \in Xfers \ Taken(c) : data'[x] = data[x]
           /\ pipe = "OUT" => data' = data
<1>1. << >> \in Seq(ByteType) /\ Len(<< >>) = 0 /\ 0 <= MaxTransferSize
  BY EmptySeq, InitAssumption
<1>2. data \in [Xfers -> Seq(ByteType)] /\ \A x \in Xfers : Len(data[x]) <= MaxTransferSize
  BY DEF DataInv
<1> QED
  BY <1>1, <1>2 DEF Recycle, Taken

LEMMA FlyingData ==
    ASSUME FlyingInv, ListTypes, CallInv, setup' = setup, pending' = pending, clean' => clean,
           \A x \in InPending : data'[x] = data[x],
           \A c \in Users : Taken(c)' \subseteq Taken(c),
           pipe = "OUT" => \A c \in Users : \A x \in Taken(c)' : data'[x] = data[x]
    PROVE  FlyingInv'
<1>1. pipe' = pipe
  BY SetupKept
<1>2. \A i \in DOMAIN pending : pending[i].xfer \in InPending
  BY PlacesAre
<1>3. clean /\ pipe = "OUT" => \A c \in Users : \A x \in Taken(c)' : data'[x] # << >> => Source(Head(data'[x])) = c
  BY DEF FlyingInv
<1> QED
  BY <1>1, <1>2, <1>3 DEF FlyingInv, Source

\* What all these steps do to the caller.
LEMMA GiveFrame ==
    ASSUME IInv, NEW c \in Users, pc[c] \in {"apc", "append", "error"},
           NEW q \in {"inc", "idle", "restored"}, pc' = [pc EXCEPT ![c] = q],
           call' = [call EXCEPT ![c] = NoCall],
           lock' = IF q = "restored" THEN c ELSE lock, q = "restored" => lock = Free,
           UNCHANGED <<setup, state, thread, failed>>
    PROVE  /\ ThreadInv' /\ CallInv'
           /\ Taken(c)' = {} /\ call'[c].taken = << >>
           /\ \A d \in Users \ {c} : Taken(d)' = Taken(d) /\ call'[d].taken = call[d].taken
           /\ \A d \in Users : Len(call'[d].saved) <= MaxTransferSize
           /\ \A d \in Users : pc'[d] = "lock" <=> pc[d] = "lock"
<1> USE DEF IInv
<1>1. pc \in [Users \cup {Controller} -> Places] /\ pc'[Controller] = pc[Controller]
      /\ \A d \in Users : pc'[d] = IF d = c THEN q ELSE pc[d]
  BY UsersAre DEF CallInv
<1>2. ThreadInv'
  BY <1>1, ThreadKept
<1>3. /\ call \in [Users -> CallType] /\ call'[c] = NoCall
      /\ \A d \in Users \ {c} : call'[d] = call[d]
  BY DEF CallInv
<1>4. NoCall \in CallType /\ NoCall.taken = << >> /\ Len(NoCall.saved) = 0 /\ MaxTransferSize \in Nat
  BY NoCallIs, InitAssumption
<1>5. CallInv'
  <2>1. pc' \in [Users \cup {Controller} -> Places]
    BY <1>1 DEF Places
  <2>2. call' \in [Users -> CallType']
    BY <1>3, <1>4, SetupKept
  <2>3. \A d \in Users : (lock' = d) <=> pc'[d] \in {"taken", "restored"}
    <3>1. Free \notin Users /\ \A d \in Users : (lock = d) <=> pc[d] \in {"taken", "restored"}
      BY UsersAre DEF CallInv
    <3>2. CASE q = "restored"
      BY <1>1, <3>1, <3>2
    <3>3. CASE q # "restored"
      BY <1>1, <3>1, <3>3
    <3> QED
      BY <3>2, <3>3
  <2>4. \A d \in Users : pc'[d] \notin {"taken", "apc", "append", "error"} => call'[d] = NoCall
    BY <1>1, <1>3 DEF CallInv
  <2>5. lock' \in Users \cup {Free}
    BY DEF CallInv
  <2> QED
    BY <2>1, <2>2, <2>3, <2>4, <2>5 DEF CallInv
<1>6. Taken(c)' = {} /\ \A d \in Users \ {c} : Taken(d)' = Taken(d)
  BY <1>3, <1>4, NoItems DEF Taken
<1>7. \A d \in Users : Len(call'[d].saved) <= MaxTransferSize
  BY <1>3, <1>4 DEF DataInv
<1>8. \A d \in Users : pc'[d] = "lock" <=> pc[d] = "lock"
  BY <1>1
<1> QED
  BY <1>2, <1>3, <1>4, <1>5, <1>6, <1>7, <1>8

LEMMA QueueTransferAPCOK ==
    ASSUME IInv, NEW c \in Users, QueueTransferAPC(c)
    PROVE  IInv'
<1>1. CASE thread = "none"
  <2>1. /\ pc' = [pc EXCEPT ![c] = "error"] /\ pc[c] = "apc" /\ setup' = setup /\ call' = call
        /\ lock' = lock /\ apcCount' = apcCount /\ sem' = sem /\ finished' = finished
        /\ UNCHANGED <<state, thread, failed, noWaiting, apcs, lists, bytes, ovls, lost, clean>>
    BY <1>1 DEF QueueTransferAPC, Goto, At, lists, bytes
  <2>2. apcCount' \in Int
    BY <2>1 DEF IInv, HandInv
  <2>3. SemInv'
    <3>1. \A d \in Users : pc'[d] = "lock" <=> pc[d] = "lock"
      BY <2>1 DEF IInv, CallInv
    <3> QED
      BY <2>1, <3>1, SemKept DEF IInv
  <2> QED
    BY <2>1, <2>2, <2>3, CallerOK DEF Places
<1>2. CASE thread # "none"
  <2> DEFINE t == call[c].taken
  <2>1. /\ pc[c] = "apc" /\ pc' = [pc EXCEPT ![c] = "inc"] /\ call' = [call EXCEPT ![c] = NoCall]
        /\ lock' = lock /\ setup' = setup /\ apcs' = Append(apcs, t) /\ Recycle(call[c].taken)
        /\ queued' = queued /\ pending' = pending /\ finished' = finished /\ finishedTemp' = finishedTemp
        /\ entered' = entered /\ left' = left /\ lost' = lost /\ clean' = clean /\ sem' = sem
        /\ noWaiting' = noWaiting /\ apcCount' = apcCount /\ ovls' = ovls /\ thread' = thread
        /\ UNCHANGED <<setup, state, thread, failed>>
    BY <1>2 DEF QueueTransferAPC, Goto, At, lists
  <2>2. /\ ListInv /\ ListTypes /\ NoRepeats /\ OnePlace /\ SomePlace /\ CallInv /\ DataInv /\ FlyingInv
        /\ HandInv /\ SemInv /\ OrderInv /\ setup \in Setups
    BY DEF IInv, ListInv, ThreadInv
  <2>3. /\ ThreadInv' /\ CallInv'
        /\ Taken(c)' = {} /\ call'[c].taken = << >>
        /\ \A d \in Users \ {c} : Taken(d)' = Taken(d) /\ call'[d].taken = call[d].taken
        /\ \A d \in Users : Len(call'[d].saved) <= MaxTransferSize
        /\ \A d \in Users : pc'[d] = "lock" <=> pc[d] = "lock"
    BY <2>1, GiveFrame
  <2>4. HandInv'
    BY <1>2, <2>1, <2>2, HandKept DEF HandInv
  <2>5. SemInv'
    BY <2>1, <2>2, <2>3, SemKept
  <2>6. t \in Seq(Xfers) /\ Range(t) = Taken(c) /\ IsInjective(t) /\ Len(t) <= MaxPendingTransfers
    <3>1. t \in Seq(Xfers) /\ Range(t) = Taken(c) /\ IsInjective(t)
      BY <2>2, PlacesAre DEF Taken, NoRepeats
    <3> QED
      BY <2>2, <3>1, ListFits
  <2>7. AllApcs' = AllApcs \o t /\ AllApcs \in Seq(Xfers)
    BY <2>1, <2>2, <2>6, FlatAppend, ApcsAre DEF AllApcs, ListTypes
  <2> HIDE DEF t
  <2>8. /\ IsInjective(AllApcs') /\ InApcs' = InApcs \cup Taken(c)
    <3>1. InApcs \cap Taken(c) = {} /\ IsInjective(AllApcs)
      BY <2>2 DEF OnePlace, NoRepeats
    <3>2. IsInjective(AllApcs \o t)
      BY <2>6, <2>7, <3>1, JoinedOnce DEF InApcs
    <3>3. Range(AllApcs \o t) = Range(AllApcs) \cup Range(t)
      BY <2>6, <2>7, JoinedRange
    <3> QED
      BY <2>6, <2>7, <3>2, <3>3 DEF InApcs
  <2>9. /\ InQueued' = InQueued /\ InPending' = InPending /\ InFinished' = InFinished /\ InTemp' = InTemp
        /\ XfersOf(pending)' = XfersOf(pending)
    BY <2>1, SetsKept
  <2>10. ListTypes'
    <3>1. Xfers' = Xfers /\ PendingType' = PendingType /\ MaxPendingTransfers' = MaxPendingTransfers
      BY <2>1, SetupKept
    <3>2. apcs' \in Seq(Seq(Xfers)) /\ \A i \in DOMAIN apcs' : Len(apcs'[i]) <= MaxPendingTransfers
      <4> DEFINE S == Seq(Xfers)
      <4>1. apcs \in Seq(S) /\ t \in S /\ \A i \in 1 .. Len(apcs) : Len(apcs[i]) <= MaxPendingTransfers
        BY <2>2, <2>6 DEF ListTypes
      <4> HIDE DEF S
      <4>2. /\ apcs' \in Seq(S) /\ Len(apcs') = Len(apcs) + 1 /\ apcs'[Len(apcs) + 1] = t
            /\ \A i \in 1 .. Len(apcs) : apcs'[i] = apcs[i]
        BY <2>1, <4>1, AppendProperties
      <4>3. Len(apcs) \in Nat /\ DOMAIN apcs' = 1 .. Len(apcs) + 1
        BY <4>1, <4>2
      <4>4. \A i \in DOMAIN apcs' : Len(apcs'[i]) <= MaxPendingTransfers
        <5> TAKE i \in DOMAIN apcs'
        <5>1. i \in 1 .. Len(apcs) \/ i = Len(apcs) + 1
          BY <4>3
        <5> QED
          BY <2>6, <4>1, <4>2, <5>1
      <4> QED
        BY <4>2, <4>4 DEF S
    <3> QED
      BY <2>1, <2>2, <3>1, <3>2 DEF ListTypes
  <2>11. NoRepeats'
    <3>1. \A d \in Users : IsInjective(call'[d].taken)
      BY <2>2, <2>3, NoItems DEF NoRepeats
    <3> QED
      BY <2>1, <2>2, <2>8, <2>9, <3>1 DEF NoRepeats
  <2>12. OnePlace' /\ SomePlace'
    <3>1. OnePlace'
      BY <2>1, <2>2, <2>3, <2>8, <2>9 DEF OnePlace
    <3>2. Xfers' = Xfers
      BY <2>1, SetupKept
    <3>3. SomePlace'
      BY <2>1, <2>2, <2>3, <2>8, <2>9, <3>2 DEF SomePlace
    <3> QED
      BY <3>1, <3>3
  <2>13. ListInv'
    BY <2>10, <2>11, <2>12 DEF ListInv
  <2>14. /\ data' \in [Xfers -> Seq(ByteType)] /\ \A x \in Xfers : Len(data'[x]) <= MaxTransferSize
         /\ \A x \in Xfers \ Taken(c) : data'[x] = data[x]
         /\ pipe = "OUT" => data' = data
    BY <2>1, <2>2, RecycleIs
  <2>15. DataInv'
    BY <2>1, <2>2, <2>3, <2>14, SetupKept DEF DataInv
  <2>16. \A x \in InFinished \cup InTemp \cup InPending : data'[x] = data[x]
    BY <2>2, <2>14, PlacesAre DEF OnePlace
  <2>17. FlyingInv'
    <3>1. \A d \in Users : Taken(d)' \subseteq Taken(d)
      BY <2>3
    <3> QED
      BY <2>1, <2>2, <2>14, <2>16, <3>1, FlyingData
  <2>18. clean => \A s : OnTheWay(s)' = OnTheWay(s)
    <3>1. CASE pipe = "IN"
      BY <2>1, <2>2, <2>13, <2>15, <2>16, <3>1, WayInKept
    <3>2. CASE pipe = "OUT"
      <4> SUFFICES ASSUME clean, NEW s PROVE OnTheWay(s)' = OnTheWay(s)
        OBVIOUS
      <4> DEFINE F == CarryAll(FlyBytes(data), s, pending)
                 Q == CarryAll(data, s, queued)
                 A == CarryAll(data, s, AllApcs)
                 W == CarryAll(data, s, Own(s))
                 T == CarryAll(data, s, t)
                 V == CarryAll(data', s, Own(s)')
      <4>1. OnTheWay(s) = F \o ((Q \o A) \o W)
        BY <2>2, <3>2, WayOut
      <4>2. pipe' = "OUT" /\ data' = data /\ queued' = queued /\ pending' = pending /\ setup' = setup
        BY <2>1, <2>14, <3>2, SetupKept
      <4>3. OnTheWay(s)' = CarryAll(FlyBytes(data'), s, pending')
              \o ((CarryAll(data', s, queued') \o CarryAll(data', s, AllApcs')) \o CarryAll(data', s, Own(s)'))
        BY <2>3, <2>10, <2>15, <4>2, WayOutNext
      <4>4. data \in [Xfers -> Seq(ByteType)] /\ queued \in Seq(Xfers) /\ AllApcs \in Seq(Xfers)
        BY <2>2, <2>7 DEF DataInv, ListTypes
      <4>5. CarryAll(data, s, AllApcs \o t) = A \o T
        BY <2>6, <4>4, CarryTwo, ZenonT(60)
      <4>6. Q \in Seq(ByteType) /\ A \in Seq(ByteType) /\ T \in Seq(ByteType)
        BY <2>6, <4>4, CarryIs
      <4>7. OnTheWay(s)' = F \o ((Q \o (A \o T)) \o V)
        BY <2>7, <4>2, <4>3, <4>5
      <4> HIDE DEF F, Q, A, W, T, V
      <4>8. CASE s = c
        <5>1. W = T
          BY <4>8 DEF W, T, t, Own
        <5>2. V = << >>
          BY <2>3, <4>8, CarryNothing DEF V, Own
        <5>3. A \o T \in Seq(ByteType) /\ Q \o (A \o T) = (Q \o A) \o T
          BY <4>6, ConcatProperties, ConcatAssociative
        <5>4. Q \o (A \o T) \in Seq(ByteType)
          BY <4>6, <5>3, ConcatProperties
        <5>5. (Q \o (A \o T)) \o V = Q \o (A \o T)
          BY <5>2, <5>4, ConcatEmptySeq
        <5> QED
          BY <4>1, <4>7, <5>1, <5>3, <5>5
      <4>9. CASE s # c
        <5>1. W = V
          BY <2>3, <4>2, <4>9 DEF W, V, Own
        <5>2. T = << >>
          BY <2>2, <3>2, <4>9, CarryOwn DEF T, t
        <5>3. A \o T = A
          BY <4>6, <5>2, ConcatEmptySeq
        <5> QED
          BY <4>1, <4>7, <5>1, <5>3
      <4> QED
        BY <4>8, <4>9
    <3> QED
      BY <2>2, <3>1, <3>2, SetupIs
  <2>19. OrderInv'
    BY <2>1, <2>2, <2>18, OrderKept DEF OrderInv
  <2> QED
    BY <2>3, <2>4, <2>5, <2>13, <2>15, <2>17, <2>19 DEF IInv
<1> QED
  BY <1>1, <1>2

LEMMA AppendDirectOK ==
    ASSUME IInv, NEW c \in Users, AppendDirect(c)
    PROVE  IInv'
<1> DEFINE t == call[c].taken
           raced == t # << >> /\ (thread # "none" \/ \E d \in Users \ {c} : At(d, "append"))
           added == queued' = queued \o t /\ lost' = lost
           dropped == raced /\ queued' = queued /\ lost' = lost \cup Range(t)
<1>1. /\ pc[c] = "append" /\ pc' = [pc EXCEPT ![c] = "idle"] /\ call' = [call EXCEPT ![c] = NoCall]
      /\ lock' = lock /\ setup' = setup /\ apcs' = apcs /\ Recycle(call[c].taken)
      /\ pending' = pending /\ finished' = finished /\ finishedTemp' = finishedTemp
      /\ entered' = entered /\ left' = left /\ sem' = sem
      /\ noWaiting' = noWaiting /\ apcCount' = apcCount /\ ovls' = ovls /\ thread' = thread
      /\ UNCHANGED <<setup, state, thread, failed>>
      /\ clean' = (clean /\ ~raced)
      /\ added \/ dropped
  BY DEF AppendDirect, Goto, At, Return, threadVars
<1>2. /\ ListInv /\ ListTypes /\ NoRepeats /\ OnePlace /\ SomePlace /\ CallInv /\ DataInv /\ FlyingInv
      /\ HandInv /\ SemInv /\ OrderInv /\ setup \in Setups
  BY DEF IInv, ListInv, ThreadInv
<1>3. /\ ThreadInv' /\ CallInv'
      /\ Taken(c)' = {} /\ call'[c].taken = << >>
      /\ \A d \in Users \ {c} : Taken(d)' = Taken(d) /\ call'[d].taken = call[d].taken
      /\ \A d \in Users : Len(call'[d].saved) <= MaxTransferSize
      /\ \A d \in Users : pc'[d] = "lock" <=> pc[d] = "lock"
  BY <1>1, GiveFrame
<1>4. t \in Seq(Xfers) /\ Range(t) = Taken(c) /\ IsInjective(t) /\ queued \in Seq(Xfers)
  BY <1>2, PlacesAre DEF Taken, NoRepeats, ListTypes
<1>5. raced \in BOOLEAN /\ clean' \in BOOLEAN /\ (clean' => clean /\ ~raced)
  <2>1. raced \in BOOLEAN
    OBVIOUS
  <2> HIDE DEF raced
  <2> QED
    BY <1>1, <1>2, <2>1 DEF OrderInv
<1> HIDE DEF t
<1>6. /\ queued' \in Seq(Xfers) /\ IsInjective(queued') /\ lost' \in SUBSET Xfers
      /\ InQueued' \cup lost' = InQueued \cup lost \cup Taken(c)
      /\ InQueued' \cap lost' = {}
      /\ queued # << >> => queued' # << >>
  <2>1. /\ InQueued \cap lost = {} /\ InQueued \cap Taken(c) = {} /\ Taken(c) \cap lost = {}
        /\ IsInjective(queued) /\ lost \in SUBSET Xfers /\ Taken(c) \in SUBSET Xfers
    BY <1>2, PlacesAre DEF OnePlace, NoRepeats, ListTypes
  <2>2. CASE added
    <3>1. queued \o t \in Seq(Xfers) /\ Len(queued \o t) = Len(queued) + Len(t)
      BY <1>4, ConcatProperties
    <3>2. IsInjective(queued \o t)
      BY <1>4, <2>1, JoinedOnce DEF InQueued
    <3>3. Range(queued \o t) = Range(queued) \cup Range(t)
      BY <1>4, JoinedRange
    <3>4. queued # << >> => queued \o t # << >>
      <4>1. Len(t) \in Nat /\ (queued # << >> => Len(queued) \in Nat \ {0}) /\ Len(<< >>) = 0
        BY <1>4, EmptySeq
      <4> QED
        BY <3>1, <4>1
    <3>5. InQueued' = InQueued \cup Taken(c)
      BY <1>4, <2>2, <3>3 DEF InQueued
    <3> QED
      BY <2>1, <2>2, <3>1, <3>2, <3>4, <3>5
  <2>3. CASE dropped
    <3>1. InQueued' = InQueued
      BY <2>3, SetsKept
    <3> QED
      BY <1>4, <2>1, <2>3, <3>1
  <2> QED
    BY <1>1, <2>2, <2>3
<1> HIDE DEF raced
<1>7. HandInv'
  <2>1. apcCount' \in Int
    BY <1>1, <1>2 DEF HandInv
  <2> QED
    BY <1>1, <1>2, <1>6, <2>1, HandKept
<1>8. SemInv'
  BY <1>1, <1>2, <1>3, SemKept
<1>9. /\ InPending' = InPending /\ InFinished' = InFinished /\ InTemp' = InTemp /\ InApcs' = InApcs
      /\ XfersOf(pending)' = XfersOf(pending) /\ AllApcs' = AllApcs
  BY <1>1, SetsKept
<1>10. ListTypes'
  BY <1>1, <1>2, <1>6, SetupKept DEF ListTypes
<1>11. NoRepeats'
  <2>1. \A d \in Users : IsInjective(call'[d].taken)
    BY <1>2, <1>3, NoItems DEF NoRepeats
  <2> QED
    BY <1>1, <1>2, <1>6, <1>9, <2>1 DEF NoRepeats
<1>12. ListInv'
  <2>1. OnePlace'
    <3> DEFINE others == InPending \cup InFinished \cup InTemp \cup InApcs
    <3>1. (InQueued' \cup lost') \cap others = {}
      BY <1>2, <1>6 DEF OnePlace
    <3>2. \A d \in Users \ {c} : Taken(d) \cap (InQueued' \cup lost') = {}
      BY <1>2, <1>6 DEF OnePlace
    <3> QED
      BY <1>2, <1>3, <1>6, <1>9, <3>1, <3>2 DEF OnePlace
  <2>2. SomePlace'
    BY <1>2, <1>3, <1>6, <1>9, <1>1, SetupKept DEF SomePlace
  <2> QED
    BY <1>10, <1>11, <2>1, <2>2 DEF ListInv
<1>13. /\ data' \in [Xfers -> Seq(ByteType)] /\ \A x \in Xfers : Len(data'[x]) <= MaxTransferSize
       /\ \A x \in Xfers \ Taken(c) : data'[x] = data[x]
       /\ pipe = "OUT" => data' = data
  BY <1>1, <1>2, RecycleIs
<1>14. DataInv'
  BY <1>1, <1>2, <1>3, <1>13, SetupKept DEF DataInv
<1>15. \A x \in InFinished \cup InTemp \cup InPending : data'[x] = data[x]
  BY <1>2, <1>13, PlacesAre DEF OnePlace
<1>16. FlyingInv'
  <2>1. \A d \in Users : Taken(d)' \subseteq Taken(d)
    BY <1>3
  <2> QED
    BY <1>1, <1>2, <1>13, <1>15, <2>1, FlyingData
<1>17. clean' => \A s \in Sources : OnTheWay(s)' = OnTheWay(s)
  <2>1. CASE pipe = "IN"
    BY <1>1, <1>2, <1>12, <1>14, <1>15, <2>1, WayInKept
  <2>2. CASE pipe = "OUT"
    <3> SUFFICES ASSUME clean', NEW s \in Sources PROVE OnTheWay(s)' = OnTheWay(s)
      OBVIOUS
    <3> DEFINE F == CarryAll(FlyBytes(data), s, pending)
               Q == CarryAll(data, s, queued)
               A == CarryAll(data, s, AllApcs)
               W == CarryAll(data, s, Own(s))
               T == CarryAll(data, s, t)
               V == CarryAll(data', s, Own(s)')
    <3>1. OnTheWay(s) = F \o ((Q \o A) \o W)
      BY <1>2, <2>2, WayOut
    <3>2. pipe' = "OUT" /\ data' = data /\ pending' = pending /\ setup' = setup /\ queued' = queued \o t
      BY <1>1, <1>5, <1>13, <2>2, SetupKept
    <3>3. OnTheWay(s)' = CarryAll(FlyBytes(data'), s, pending')
              \o ((CarryAll(data', s, queued') \o CarryAll(data', s, AllApcs')) \o CarryAll(data', s, Own(s)'))
      BY <1>3, <1>10, <1>14, <3>2, WayOutNext
    <3>4. data \in [Xfers -> Seq(ByteType)] /\ AllApcs \in Seq(Xfers)
      BY <1>2, ApcsAre DEF DataInv, ListTypes
    <3>5. CarryAll(data, s, queued \o t) = Q \o T
      BY <1>4, <3>4, CarryTwo
    <3>6. Q \in Seq(ByteType) /\ A \in Seq(ByteType) /\ T \in Seq(ByteType)
      BY <1>4, <3>4, CarryIs
    <3>7. OnTheWay(s)' = F \o (((Q \o T) \o A) \o V)
      BY <1>9, <3>2, <3>3, <3>5
    <3>8. t = << >> \/ AllApcs = << >>
      <4>1. CASE t = << >>
        BY <4>1
      <4>2. CASE t # << >>
        <5>1. thread = "none"
          BY <1>5, <4>2 DEF raced
        <5>2. apcs = << >>
          BY <1>2, <5>1 DEF HandInv
        <5> QED
          BY <5>2, FlatEmpty DEF AllApcs
      <4> QED
        BY <4>1, <4>2
    <3>9. T = << >> \/ A = << >>
      BY <3>8, CarryNothing, Zenon
    <3>10. s = c => W = T
      BY DEF t, Own
    <3>11. s = c => V = << >>
      BY <1>3, CarryNothing DEF Own
    <3>12. s # c => T = << >>
      BY <1>2, <1>5, <2>2, CarryOwn DEF t
    <3>13. s # c => W = V
      BY <1>3, <3>2 DEF Own
    <3> HIDE DEF F, Q, A, W, T, V
    <3>14. Q \o T \in Seq(ByteType)
      BY <3>6, ConcatProperties
    <3>15. Q \o << >> = Q /\ (Q \o T) \o << >> = Q \o T
      BY <3>6, <3>14, ConcatEmptySeq
    <3>16. CASE s # c
      BY <3>1, <3>7, <3>12, <3>13, <3>15, <3>16
    <3>17. CASE s = c /\ A = << >>
      BY <3>1, <3>7, <3>10, <3>11, <3>15, <3>17
    <3>18. CASE s = c /\ T = << >>
      BY <3>1, <3>7, <3>10, <3>11, <3>15, <3>18
    <3> QED
      BY <3>9, <3>16, <3>17, <3>18
  <2> QED
    BY <1>2, <2>1, <2>2, SetupIs
<1>18. OrderInv'
  BY <1>1, <1>2, <1>5, <1>17, OrderKept
<1> QED
  BY <1>3, <1>7, <1>8, <1>12, <1>14, <1>16, <1>18 DEF IInv

LEMMA RestoreOK ==
    ASSUME IInv, NEW c \in Users, Restore(c)
    PROVE  IInv'
<1> DEFINE k == call[c]
           t == k.taken
           r == Reverse(t)
<1>1. /\ pc[c] = "error" /\ pc' = [pc EXCEPT ![c] = "restored"] /\ call' = [call EXCEPT ![c] = NoCall]
      /\ lock' = c /\ lock = Free /\ setup' = setup /\ apcs' = apcs
      /\ data' = IF k.backup # NULL THEN [data EXCEPT ![k.backup] = k.saved] ELSE data
      /\ finished' = r \o finished
      /\ queued' = queued /\ pending' = pending /\ finishedTemp' = finishedTemp
      /\ entered' = entered /\ left' = left /\ sem' = SemPlus(Len(t)) /\ lost' = lost
      /\ noWaiting' = noWaiting /\ apcCount' = apcCount /\ ovls' = ovls /\ thread' = thread
      /\ UNCHANGED <<setup, state, thread, failed>>
      /\ clean' = FALSE
  BY DEF Restore, Goto, At, threadVars
<1>2. /\ ListInv /\ ListTypes /\ NoRepeats /\ OnePlace /\ SomePlace /\ CallInv /\ DataInv /\ FlyingInv
      /\ HandInv /\ SemInv /\ OrderInv /\ setup \in Setups
  BY DEF IInv, ListInv, ThreadInv
<1>3. /\ ThreadInv' /\ CallInv'
      /\ Taken(c)' = {} /\ call'[c].taken = << >>
      /\ \A d \in Users \ {c} : Taken(d)' = Taken(d) /\ call'[d].taken = call[d].taken
      /\ \A d \in Users : Len(call'[d].saved) <= MaxTransferSize
      /\ \A d \in Users : pc'[d] = "lock" <=> pc[d] = "lock"
  BY <1>1, GiveFrame
<1>4. t \in Seq(Xfers) /\ Range(t) = Taken(c) /\ IsInjective(t) /\ finished \in Seq(Xfers)
  BY <1>2, PlacesAre DEF Taken, NoRepeats, ListTypes
<1>5. k.backup \in Xfers \cup {NULL} /\ k.saved \in Seq(ByteType) /\ Len(k.saved) <= MaxTransferSize
  <2>1. k \in CallType
    BY <1>2 DEF CallInv
  <2> QED
    BY <1>2, <2>1 DEF CallType, DataInv
<1> HIDE DEF t
<1>6. /\ finished' \in Seq(Xfers) /\ IsInjective(finished')
      /\ InFinished' = Taken(c) \cup InFinished /\ Len(finished') = Len(finished) + Len(t)
  <2>1. r \in Seq(Xfers) /\ Len(r) = Len(t) /\ Range(r) = Taken(c) /\ IsInjective(r)
    BY <1>4, Reversed
  <2>2. Taken(c) \cap InFinished = {} /\ IsInjective(finished)
    BY <1>2 DEF OnePlace, NoRepeats
  <2> HIDE DEF r
  <2>3. Range(r \o finished) = Range(r) \cup InFinished
    BY <1>4, <2>1, JoinedRange DEF InFinished
  <2>4. IsInjective(r \o finished)
    BY <1>4, <2>1, <2>2, JoinedOnce DEF InFinished
  <2>5. r \o finished \in Seq(Xfers) /\ Len(r \o finished) = Len(r) + Len(finished)
    BY <1>4, <2>1, ConcatProperties
  <2>6. Len(t) \in Nat /\ Len(finished) \in Nat
    BY <1>4
  <2>7. InFinished' = Range(r \o finished)
    BY <1>1 DEF InFinished
  <2> QED
    BY <1>1, <2>1, <2>3, <2>4, <2>5, <2>6, <2>7
<1> HIDE DEF r
<1>7. HandInv'
  <2>1. apcCount' \in Int
    BY <1>1, <1>2 DEF HandInv
  <2> QED
    BY <1>1, <1>2, <2>1, HandKept
<1>8. SemInv'
  <2>1. Cardinality(Claims') = Cardinality(Claims) /\ Cardinality(Claims) \in Nat
    BY <1>3, ClaimsSame, ClaimsAre
  <2>2. Len(t) \in Nat /\ Len(finished) \in Nat
    BY <1>4
  <2>3. HasSem' = HasSem
    BY <1>1, SetupKept
  <2>4. sem \in Nat /\ (~HasSem => sem = 0) /\ (HasSem => sem + Cardinality(Claims) = Len(finished))
    BY <1>2 DEF SemInv, SemExact, Claims
  <2>5. sem' \in Nat /\ (~HasSem => sem' = 0) /\ (HasSem => sem' + Cardinality(Claims') = Len(finished'))
    BY <1>1, <1>6, <2>1, <2>2, <2>4 DEF SemPlus
  <2> QED
    BY <2>3, <2>5 DEF SemInv, SemExact, Claims
<1>9. /\ InPending' = InPending /\ InQueued' = InQueued /\ InTemp' = InTemp /\ InApcs' = InApcs
      /\ XfersOf(pending)' = XfersOf(pending) /\ AllApcs' = AllApcs
  BY <1>1, SetsKept
<1>10. ListInv'
  <2>1. ListTypes'
    BY <1>1, <1>2, <1>6, SetupKept DEF ListTypes
  <2>2. NoRepeats'
    <3>1. \A d \in Users : IsInjective(call'[d].taken)
      BY <1>2, <1>3, NoItems DEF NoRepeats
    <3> QED
      BY <1>1, <1>2, <1>6, <1>9, <3>1 DEF NoRepeats
  <2>3. OnePlace'
    <3>1. \A d \in Users \ {c} : Taken(d) \cap InFinished' = {}
      BY <1>2, <1>6 DEF OnePlace
    <3>2. InFinished' \cap (InQueued \cup InPending \cup InTemp \cup InApcs \cup lost) = {}
      BY <1>2, <1>6 DEF OnePlace
    <3> QED
      BY <1>1, <1>2, <1>3, <1>9, <3>1, <3>2 DEF OnePlace
  <2>4. SomePlace'
    BY <1>2, <1>3, <1>6, <1>9, <1>1, SetupKept, SMTT(40) DEF SomePlace
  <2> QED
    BY <2>1, <2>2, <2>3, <2>4 DEF ListInv
<1>11. DataInv'
  <2>1. data' \in [Xfers -> Seq(ByteType)] /\ \A x \in Xfers : Len(data'[x]) <= MaxTransferSize
    <3>1. data \in [Xfers -> Seq(ByteType)] /\ \A x \in Xfers : Len(data[x]) <= MaxTransferSize
      BY <1>2 DEF DataInv
    <3> QED
      BY <1>1, <1>5, <3>1
  <2> QED
    BY <1>1, <1>2, <1>3, <2>1, SetupKept DEF DataInv
<1>12. FlyingInv'
  BY <1>1, <1>2 DEF FlyingInv
<1>13. OrderInv'
  BY <1>1 DEF OrderInv, InOrder
<1> QED
  BY <1>3, <1>7, <1>8, <1>10, <1>11, <1>12, <1>13 DEF IInv

-----------------------------------------------------------------------------
(***************************************************************************)
(* Steps of the thread that starts and stops the stream, and of the stream *)
(* thread.                                                                 *)
(***************************************************************************)

\* The controller moves, or the stream thread: no caller does.
LEMMA CallersKept ==
    ASSUME CallInv, setup' = setup, lock' = lock, call' = call,
           pc' \in [Users \cup {Controller} -> Places], \A c \in Users : pc'[c] = pc[c]
    PROVE  /\ CallInv'
           /\ \A c \in Users : Taken(c)' = Taken(c) /\ call'[c].taken = call[c].taken
           /\ \A c \in Users : pc'[c] = "lock" <=> pc[c] = "lock"
           /\ \A s : Own(s)' = Own(s)
<1>1. CallType' = CallType
  BY SetupKept
<1>2. CallInv'
  BY <1>1 DEF CallInv
<1> QED
  BY <1>2 DEF Taken, Own

\* Bytes that stay on their way OUT.
LEMMA WayOutKept ==
    ASSUME ListTypes, DataInv, CallInv, ListTypes', DataInv', CallInv', setup' = setup,
           pipe = "OUT", data' = data, \A s : Own(s)' = Own(s),
           \A s : CarryAll(FlyBytes(data), s, pending')
                     \o ((CarryAll(data, s, queued') \o CarryAll(data, s, AllApcs')) \o CarryAll(data, s, Own(s)))
                  = CarryAll(FlyBytes(data), s, pending)
                     \o ((CarryAll(data, s, queued) \o CarryAll(data, s, AllApcs)) \o CarryAll(data, s, Own(s)))
    PROVE  \A s : OnTheWay(s)' = OnTheWay(s)
<1> TAKE s
<1> DEFINE L(p, q, a, w) == CarryAll(FlyBytes(data), s, p)
                               \o ((CarryAll(data, s, q) \o CarryAll(data, s, a)) \o CarryAll(data, s, w))
<1>1. OnTheWay(s) = L(pending, queued, AllApcs, Own(s))
  BY WayOut
<1>2. pipe' = "OUT" /\ setup' = setup
  BY SetupKept
<1>3. OnTheWay(s)' = CarryAll(FlyBytes(data'), s, pending')
              \o ((CarryAll(data', s, queued') \o CarryAll(data', s, AllApcs')) \o CarryAll(data', s, Own(s)'))
  BY <1>2, WayOutNext
<1>4. L(pending', queued', AllApcs', Own(s)) = L(pending, queued, AllApcs, Own(s))
  OBVIOUS
<1>5. OnTheWay(s)' = L(pending', queued', AllApcs', Own(s))
  BY <1>3
<1> QED
  BY <1>1, <1>4, <1>5

\* A step that moves no transfer, and may queue the APC that stops the thread.
LEMMA QuietOK ==
    ASSUME IInv, setup' = setup,
           UNCHANGED <<queued, pending, finished, finishedTemp, data, entered, left, lock, sem, call,
                       lost, clean>>,
           apcs' = apcs \/ apcs' = Append(apcs, << >>),
           pc' \in [Users \cup {Controller} -> Places], \A c \in Users : pc'[c] = pc[c],
           ThreadInv', HandInv'
    PROVE  IInv'
<1>1. /\ ListInv /\ ListTypes /\ NoRepeats /\ OnePlace /\ SomePlace /\ CallInv /\ DataInv /\ FlyingInv
      /\ HandInv /\ SemInv /\ OrderInv /\ setup \in Setups
  BY DEF IInv, ListInv, ThreadInv
<1>2. /\ CallInv'
      /\ \A c \in Users : Taken(c)' = Taken(c) /\ call'[c].taken = call[c].taken
      /\ \A c \in Users : pc'[c] = "lock" <=> pc[c] = "lock"
      /\ \A s : Own(s)' = Own(s)
  BY <1>1, CallersKept
<1>3. /\ apcs' \in Seq(Seq(Xfers)) /\ AllApcs' = AllApcs
      /\ \A i \in DOMAIN apcs' : Len(apcs'[i]) <= MaxPendingTransfers
  <2>1. apcs \in Seq(Seq(Xfers)) /\ << >> \in Seq(Xfers) /\ Len(<< >>) = 0 /\ MaxPendingTransfers \in Nat
    BY <1>1, SetupIs, EmptySeq DEF ListTypes
  <2>2. CASE apcs' = apcs
    BY <1>1, <2>2 DEF ListTypes, AllApcs
  <2>3. CASE apcs' = Append(apcs, << >>)
    <3>1. FlattenSeq(Append(apcs, << >>)) = AllApcs \o << >> /\ AllApcs \in Seq(Xfers)
      BY <2>1, FlatAppend DEF AllApcs
    <3>2. AllApcs \o << >> = AllApcs
      BY <3>1, ConcatEmptySeq
    <3>3. /\ Append(apcs, << >>) \in Seq(Seq(Xfers)) /\ Len(Append(apcs, << >>)) = Len(apcs) + 1
          /\ \A i \in 1 .. Len(apcs) : Append(apcs, << >>)[i] = apcs[i]
          /\ Append(apcs, << >>)[Len(apcs) + 1] = << >>
      BY <2>1, AppendProperties
    <3>4. \A i \in 1 .. Len(apcs) : Len(apcs[i]) <= MaxPendingTransfers
      BY <1>1, <2>1 DEF ListTypes
    <3>5. Len(apcs) \in Nat
      BY <2>1
    <3>6. \A i \in 1 .. Len(apcs) + 1 : Len(Append(apcs, << >>)[i]) <= MaxPendingTransfers
      <4> TAKE i \in 1 .. Len(apcs) + 1
      <4>1. CASE i = Len(apcs) + 1
        BY <2>1, <3>3, <4>1
      <4>2. CASE i # Len(apcs) + 1
        BY <3>3, <3>4, <3>5, <4>2
      <4> QED
        BY <4>1, <4>2
    <3>7. DOMAIN Append(apcs, << >>) = 1 .. Len(apcs) + 1
      BY <3>3
    <3> QED
      BY <2>3, <3>1, <3>2, <3>3, <3>6, <3>7 DEF AllApcs
  <2> QED
    BY <2>2, <2>3
<1>4. /\ InQueued' = InQueued /\ InPending' = InPending /\ InFinished' = InFinished /\ InTemp' = InTemp
      /\ InApcs' = InApcs /\ XfersOf(pending)' = XfersOf(pending)
  BY <1>3, SetsKept DEF InApcs
<1>5. ListInv'
  <2>1. ListTypes'
    BY <1>1, <1>3, SetupKept DEF ListTypes
  <2>2. NoRepeats'
    BY <1>1, <1>2, <1>3, <1>4 DEF NoRepeats
  <2>3. OnePlace'
    BY <1>1, <1>2, <1>4 DEF OnePlace
  <2>4. SomePlace'
    BY <1>1, <1>2, <1>4, SetupKept DEF SomePlace
  <2> QED
    BY <2>1, <2>2, <2>3, <2>4 DEF ListInv
<1>6. SemInv'
  BY <1>1, <1>2, SemKept
<1>7. DataInv'
  BY <1>1, DataKept DEF DataInv
<1>8. FlyingInv'
  BY <1>1, <1>2, FlyingKept
<1>9. \A s : OnTheWay(s)' = OnTheWay(s)
  <2>1. CASE pipe = "IN"
    <3>1. \A x \in InFinished \cup InTemp \cup InPending : data'[x] = data[x]
      OBVIOUS
    <3> QED
      BY <1>1, <1>5, <1>7, <2>1, <3>1, WayInKept
  <2>2. CASE pipe = "OUT"
    <3>1. ListTypes'
      BY <1>5 DEF ListInv
    <3> QED
      BY <1>1, <1>2, <1>3, <1>7, <2>2, <3>1, WayOutKept
  <2> QED
    BY <1>1, <2>1, <2>2, SetupIs
<1>10. OrderInv'
  BY <1>1, <1>9, OrderKept DEF OrderInv
<1> QED
  BY <1>2, <1>5, <1>6, <1>7, <1>8, <1>10 DEF IInv

\* The controller's steps.
LEMMA ControlOK ==
    ASSUME IInv, Control
    PROVE  IInv'
<1>1. /\ CallInv /\ HandInv /\ ThreadInv
      /\ pc \in [Users \cup {Controller} -> Places] /\ Controller \notin Users
  BY UsersAre DEF IInv, CallInv
<1>2. ASSUME NEW q \in Places, pc' = [pc EXCEPT ![Controller] = q]
      PROVE  /\ pc' \in [Users \cup {Controller} -> Places] /\ pc'[Controller] = q
             /\ \A c \in Users : pc'[c] = pc[c]
  BY <1>1, <1>2
<1>3. CASE StmK_Start
  <2>1. pc' = [pc EXCEPT ![Controller] = "starting"] /\ "starting" \in Places
    BY <1>3 DEF StmK_Start, Goto, Places
  <2>2. ThreadInv'
    BY <1>1, <1>2, <1>3, <2>1 DEF StmK_Start, ThreadInv, FreedIsStopped, At
  <2>3. HandInv'
    BY <1>1, <1>3, SetupKept DEF StmK_Start, HandInv, lists
  <2> QED
    BY <1>2, <1>3, <2>1, <2>2, <2>3, QuietOK DEF StmK_Start, lists, bytes
<1>4. CASE Started
  <2>1. pc' = [pc EXCEPT ![Controller] = "idle"] /\ "idle" \in Places
    BY <1>4 DEF Started, Goto, Places
  <2>2. ThreadInv'
    BY <1>1, <1>2, <1>4, <2>1 DEF Started, ThreadInv, FreedIsStopped, At, threadVars
  <2>3. HandInv'
    BY <1>1, <1>4, HandKept DEF Started, HandInv, lists, threadVars
  <2> QED
    BY <1>2, <1>4, <2>1, <2>2, <2>3, QuietOK DEF Started, lists, bytes, threadVars
<1>5. CASE StopInternal
  <2>1. pc' = [pc EXCEPT ![Controller] = "stopapc"] /\ "stopapc" \in Places
    BY <1>5 DEF StopInternal, Goto, Places
  <2>2. ThreadInv'
    BY <1>1, <1>2, <1>5, <2>1 DEF StopInternal, ThreadInv, FreedIsStopped, At
  <2>3. HandInv'
    BY <1>1, <1>5, HandKept DEF StopInternal, HandInv, lists
  <2> QED
    BY <1>2, <1>5, <2>1, <2>2, <2>3, QuietOK DEF StopInternal, lists, bytes
<1>6. CASE QueueStopAPC
  <2>1. PICK q \in {"freed", "idle", "stopping"} :
            pc' = [pc EXCEPT ![Controller] = q] /\ (thread # "none" => q = "stopping")
    BY <1>6 DEF QueueStopAPC, StopReturns, Goto
  <2>2. q \in Places
    BY DEF Places
  <2>3. ThreadInv'
    BY <1>1, <1>2, <1>6, <2>1, <2>2 DEF QueueStopAPC, ThreadInv, FreedIsStopped, At
  <2>4. HandInv'
    BY <1>1, <1>6, HandKept DEF QueueStopAPC, HandInv, lists
  <2>5. apcs' = apcs \/ apcs' = Append(apcs, << >>)
    BY <1>6 DEF QueueStopAPC
  <2> QED
    BY <1>2, <1>6, <2>1, <2>2, <2>3, <2>4, <2>5, QuietOK DEF QueueStopAPC, lists, bytes
<1>7. CASE Stopped
  <2>1. PICK q \in {"freed", "idle"} : pc' = [pc EXCEPT ![Controller] = q]
    BY <1>7 DEF Stopped, StopReturns, Goto
  <2>2. q \in Places
    BY DEF Places
  <2>3. ThreadInv'
    BY <1>1, <1>2, <1>7, <2>1, <2>2 DEF Stopped, ThreadInv, FreedIsStopped, At, threadVars
  <2>4. HandInv'
    BY <1>1, <1>7, HandKept DEF Stopped, HandInv, lists, threadVars
  <2> QED
    BY <1>2, <1>7, <2>1, <2>2, <2>3, <2>4, QuietOK DEF Stopped, lists, bytes, threadVars
<1>8. CASE FreeUnstarted
  <2>1. pc' = [pc EXCEPT ![Controller] = "freed"] /\ "freed" \in Places
    BY <1>8 DEF FreeUnstarted, Goto, Places
  <2>2. ThreadInv'
    BY <1>1, <1>2, <1>8, <2>1 DEF FreeUnstarted, ThreadInv, FreedIsStopped, At, threadVars
  <2>3. HandInv'
    BY <1>1, <1>8, HandKept DEF FreeUnstarted, HandInv, lists, threadVars
  <2> QED
    BY <1>2, <1>8, <2>1, <2>2, <2>3, QuietOK DEF FreeUnstarted, lists, bytes, threadVars
<1> QED
  BY <1>3, <1>4, <1>5, <1>6, <1>7, <1>8 DEF Control

-----------------------------------------------------------------------------
(***************************************************************************)
(* ovlList: whatever is linked or unlinked, its links are links.           *)
(***************************************************************************)

LEMMA AppendIs ==
    ASSUME NEW l \in OvlType, NEW o \in Ovls
    PROVE  DL_APPEND(l, o) \in OvlType
<1>1. MaxPendingIO \in Nat \ {0} /\ o \in 0 .. MaxPendingIO /\ NULL \in 0 .. MaxPendingIO
  BY InitAssumption DEF Ovls, NULL
<1>2. l.head \in 0 .. MaxPendingIO /\ l.prev \in Links /\ l.next \in Links
  BY DEF OvlType
<1>3. CASE l.head = NULL
  BY <1>1, <1>2, <1>3 DEF DL_APPEND, OvlType, Links
<1>4. CASE l.head # NULL
  <2>1. l.head \in Ovls
    BY <1>1, <1>2, <1>4 DEF Ovls, NULL
  <2>2. l.prev[l.head] \in 0 .. MaxPendingIO
    BY <1>2, <2>1 DEF Links
  <2> QED
    BY <1>1, <1>2, <1>4, <2>1, <2>2 DEF DL_APPEND, OvlType, Links
<1> QED
  BY <1>3, <1>4

LEMMA PrependIs ==
    ASSUME NEW l \in OvlType, NEW o \in Ovls
    PROVE  DL_PREPEND(l, o) \in OvlType
<1>1. MaxPendingIO \in Nat \ {0} /\ o \in 0 .. MaxPendingIO /\ NULL \in 0 .. MaxPendingIO
  BY InitAssumption DEF Ovls, NULL
<1>2. l.head \in 0 .. MaxPendingIO /\ l.prev \in Links /\ l.next \in Links
  BY DEF OvlType
<1>3. l.head # NULL => l.prev[l.head] \in 0 .. MaxPendingIO
  BY <1>1, <1>2 DEF Ovls, NULL, Links
<1> QED
  BY <1>1, <1>2, <1>3 DEF DL_PREPEND, OvlType, Links

LEMMA DeleteIs ==
    ASSUME NEW l \in OvlType, NEW o \in Ovls
    PROVE  DL_DELETE(l, o) \in OvlType
<1>1. MaxPendingIO \in Nat \ {0} /\ NULL \in 0 .. MaxPendingIO
  BY InitAssumption DEF NULL
<1>2. l.head \in 0 .. MaxPendingIO /\ l.prev \in Links /\ l.next \in Links
  BY DEF OvlType
<1>3. l.prev[o] \in 0 .. MaxPendingIO /\ l.next[o] \in 0 .. MaxPendingIO
  BY <1>2 DEF Links
<1> QED
  BY <1>1, <1>2, <1>3 DEF DL_DELETE, OvlType, Links

\* Stm_Thread_Alloc_Ovl appends one OVERLAPPED after the other.
LEMMA AllOvlsAre == AllOvls \in OvlType
<1> DEFINE N == MaxPendingIO
           step == [i \in 1 .. N |-> [l \in OvlType |-> DL_APPEND(l, i)]]
           round(f) == [o \in 0 .. N |-> IF o = 0 THEN EmptyOvls ELSE DL_APPEND(f[o - 1], o)]
           upto == CHOOSE f : f = round(f)
<1>1. AllOvls = upto[N]
  BY DEF AllOvls
<1>2. N \in Nat \ {0} /\ EmptyOvls \in OvlType
  BY InitAssumption DEF EmptyOvls, OvlType, Links, NULL
<1>3. \A i \in 1 .. N : \A l \in OvlType : DL_APPEND(l, i) \in OvlType
  BY AppendIs DEF Ovls
<1>4. step \in [1 .. N -> [OvlType -> OvlType]]
  BY <1>3
<1>5. PICK g \in [0 .. N -> OvlType] : Rounds(g, N, EmptyOvls, step)
  <2> HIDE DEF step
  <2> QED
    BY <1>2, <1>4, LoopExists
<1>6. g = round(g)
  <2>1. \A i \in 0 .. N : g[i] = IF i = 0 THEN EmptyOvls ELSE step[i][g[i - 1]]
    BY <1>5 DEF Rounds
  <2>2. \A i \in 1 .. N : g[i - 1] \in OvlType
    <3> HIDE DEF step
    <3>1. \A i \in 1 .. N : i - 1 \in 0 .. N
      BY <1>2
    <3> QED
      BY <1>5, <3>1
  <2>3. \A i \in 1 .. N : step[i][g[i - 1]] = DL_APPEND(g[i - 1], i)
    BY <2>2
  <2> HIDE DEF step
  <2>4. \A i \in 0 .. N : g[i] = IF i = 0 THEN EmptyOvls ELSE DL_APPEND(g[i - 1], i)
    <3>1. \A i \in 0 .. N : i = 0 \/ i \in 1 .. N
      BY <1>2
    <3> QED
      BY <2>1, <2>3, <3>1, Zenon
  <2>5. g = [i \in 0 .. N |-> g[i]]
    OBVIOUS
  <2> QED
    BY <2>4, <2>5, Zenon
<1>7. upto = round(upto)
  <2> HIDE DEF round
  <2> QED
    BY <1>6
<1> HIDE DEF upto
<1>8. \A i \in 0 .. N : upto[i] = IF i = 0 THEN EmptyOvls ELSE DL_APPEND(upto[i - 1], i)
  <2>1. \A i \in 0 .. N : round(upto)[i] = IF i = 0 THEN EmptyOvls ELSE DL_APPEND(upto[i - 1], i)
    BY Zenon
  <2> HIDE DEF round
  <2> QED
    BY <1>7, <2>1, Zenon
<1> DEFINE Good == {i \in 0 .. N : upto[i] \in OvlType}
<1>9. 0 \in Good
  <2>1. 0 \in 0 .. N /\ upto[0] = EmptyOvls
    BY <1>2, <1>8
  <2> QED
    BY <1>2, <2>1
<1>10. ASSUME NEW i \in 1 .. N, i - 1 \in Good PROVE i \in Good
  <2>1. i \in 0 .. N /\ i # 0 /\ upto[i - 1] \in OvlType
    BY <1>2, <1>10
  <2>2. upto[i] = DL_APPEND(upto[i - 1], i)
    BY <1>8, <2>1, Zenon
  <2> QED
    BY <1>3, <2>1, <2>2
<1>11. N \in Good
  <2> HIDE DEF Good
  <2>1. \A i \in 0 .. N : i \in Good
    BY <1>2, <1>9, <1>10, UpTo
  <2> QED
    BY <1>2, <2>1
<1> QED
  BY <1>1, <1>11

-----------------------------------------------------------------------------
(***************************************************************************)
(* The stream thread's steps.                                              *)
(***************************************************************************)

Quiet == UNCHANGED <<setup, queued, pending, finished, finishedTemp, data, entered, left, lock, sem,
                     call, lost, clean, pc>>

LEMMA QuietThreadOK ==
    ASSUME IInv, Quiet, apcs' = apcs, ThreadInv', HandInv'
    PROVE  IInv'
<1>1. pc' \in [Users \cup {Controller} -> Places] /\ \A c \in Users : pc'[c] = pc[c]
  BY DEF Quiet, IInv, CallInv
<1> QED
  BY <1>1, QuietOK DEF Quiet

LEMMA BeginOK ==
    ASSUME IInv, Begin
    PROVE  IInv'
<1>1. Quiet /\ apcs' = apcs
  BY DEF Begin, Quiet, lists, bytes, callVars
<1>2. ThreadInv'
  BY DEF Begin, GoDone, IInv, ThreadInv, FreedIsStopped, At, callVars
<1>3. HandInv'
  <2>1. OvlType' = OvlType
    BY DEF OvlType, Links, Ovls
  <2>2. ovls' \in OvlType
    BY AllOvlsAre DEF Begin, IInv, HandInv
  <2> QED
    BY <2>1, <2>2 DEF Begin, GoDone, IInv, HandInv
<1> QED
  BY <1>1, <1>2, <1>3, QuietThreadOK

LEMMA SubmitFailsOK ==
    ASSUME IInv, SubmitFails
    PROVE  IInv'
<1>1. Quiet /\ apcs' = apcs
  BY DEF SubmitFails, Quiet, lists, bytes, callVars
<1>2. ThreadInv'
  BY DEF SubmitFails, GoDone, IInv, ThreadInv, FreedIsStopped, At, callVars
<1>3. HandInv'
  <2>1. ovls \in OvlType /\ ovls.head \in Ovls
    BY InitAssumption DEF SubmitFails, IInv, HandInv, OvlType, Ovls, NULL
  <2>2. DL_DELETE(ovls, ovls.head) \in OvlType
    BY <2>1, DeleteIs
  <2>3. ovls' \in OvlType
    BY <2>1, <2>2, PrependIs DEF SubmitFails
  <2> QED
    BY <2>3 DEF SubmitFails, GoDone, IInv, HandInv
<1> QED
  BY <1>1, <1>2, <1>3, QuietThreadOK

LEMMA DrainedOK ==
    ASSUME IInv, Drained
    PROVE  IInv'
<1>1. Quiet /\ apcs' = apcs
  BY DEF Drained, Quiet, lists, bytes, callVars
<1>2. ThreadInv'
  BY DEF Drained, IInv, ThreadInv, FreedIsStopped, At, callVars
<1>3. HandInv'
  BY DEF Drained, IInv, HandInv
<1> QED
  BY <1>1, <1>2, <1>3, QuietThreadOK

\* What a step of the thread leaves alone.
LEMMA ThreadFrame ==
    ASSUME IInv, setup' = setup, lock' = lock, call' = call, pc' = pc
    PROVE  /\ ListInv /\ ListTypes /\ NoRepeats /\ OnePlace /\ SomePlace /\ CallInv /\ DataInv
           /\ FlyingInv /\ HandInv /\ SemInv /\ OrderInv /\ ThreadInv /\ setup \in Setups
           /\ CallInv'
           /\ \A c \in Users : Taken(c)' = Taken(c) /\ call'[c].taken = call[c].taken
           /\ Claims' = Claims
           /\ \A s : Own(s)' = Own(s)
<1>1. ListInv /\ CallInv /\ ThreadInv
  BY DEF IInv
<1>2. pc' \in [Users \cup {Controller} -> Places] /\ \A c \in Users : pc'[c] = pc[c]
  BY <1>1 DEF CallInv
<1>3. /\ CallInv'
      /\ \A c \in Users : Taken(c)' = Taken(c) /\ call'[c].taken = call[c].taken
      /\ \A c \in Users : pc'[c] = "lock" <=> pc[c] = "lock"
      /\ \A s : Own(s)' = Own(s)
  BY <1>1, <1>2, CallersKept
<1>4. Claims' = Claims
  BY DEF Claims, At
<1> QED
  BY <1>1, <1>3, <1>4 DEF IInv, ListInv, ThreadInv

\* An alertable wait moves the transfers of all APCs to Queued.
LEMMA RunApcsOK ==
    ASSUME IInv, RunApcs, thread' # "queued", noWaiting' = noWaiting, ThreadInv',
           UNCHANGED <<setup, pending, finished, finishedTemp, data, entered, left, ovls, lock, sem,
                       call, lost, clean, pc>>
    PROVE  IInv'
<1>1. /\ ListInv /\ ListTypes /\ NoRepeats /\ OnePlace /\ SomePlace /\ CallInv /\ DataInv
      /\ FlyingInv /\ HandInv /\ SemInv /\ OrderInv /\ ThreadInv /\ setup \in Setups
      /\ CallInv'
      /\ \A c \in Users : Taken(c)' = Taken(c) /\ call'[c].taken = call[c].taken
      /\ Claims' = Claims
      /\ \A s : Own(s)' = Own(s)
  BY ThreadFrame
<1>2. queued \in Seq(Xfers) /\ AllApcs \in Seq(Xfers) /\ queued' = queued \o AllApcs
  BY <1>1, ApcsAre DEF ListTypes, RunApcs, AllApcs
<1>3. apcs' = << >> /\ AllApcs' = << >> /\ InApcs' = {}
  BY FlatEmpty, NoItems DEF RunApcs, AllApcs, InApcs
<1>4. /\ queued' \in Seq(Xfers) /\ IsInjective(queued') /\ InQueued' = InQueued \cup InApcs
  <2>1. queued \o AllApcs \in Seq(Xfers)
    BY <1>2, ConcatProperties
  <2>2. IsInjective(queued \o AllApcs)
    BY <1>1, <1>2, JoinedOnce DEF NoRepeats, OnePlace, InQueued, InApcs
  <2>3. Range(queued \o AllApcs) = InQueued \cup InApcs
    BY <1>2, JoinedRange DEF InQueued, InApcs
  <2>4. InQueued' = Range(queued \o AllApcs)
    BY <1>2 DEF InQueued
  <2> QED
    BY <1>2, <2>1, <2>2, <2>3, <2>4
<1>5. /\ InPending' = InPending /\ InFinished' = InFinished /\ InTemp' = InTemp
      /\ XfersOf(pending)' = XfersOf(pending)
  BY SetsKept
<1>6. HandInv'
  <2>1. apcCount' \in Int
    <3>1. IsFiniteSet(DOMAIN apcs)
      <4>1. apcs \in Seq(Seq(Xfers))
        BY <1>1 DEF ListTypes
      <4>2. DOMAIN apcs = 1 .. Len(apcs) /\ Len(apcs) \in Nat
        BY <4>1
      <4> QED
        BY <4>2, FS_Interval
    <3>2. Cardinality({i \in DOMAIN apcs : apcs[i] # << >>}) \in Nat
      BY <3>1, FS_Subset, FS_CardinalityType
    <3> QED
      BY <1>1, <3>2 DEF RunApcs, HandInv
  <2>2. OvlType' = OvlType
    BY DEF OvlType, Links, Ovls
  <2> QED
    BY <1>1, <1>3, <2>1, <2>2 DEF HandInv
<1>7. ListInv'
  <2>1. ListTypes'
    <3>1. apcs' \in Seq(Seq(Xfers)) /\ \A i \in DOMAIN apcs' : Len(apcs'[i]) <= MaxPendingTransfers
      BY <1>3
    <3> QED
      BY <1>1, <1>4, <3>1, SetupKept DEF ListTypes
  <2>2. NoRepeats'
    BY <1>1, <1>3, <1>4, <1>5, NoItems DEF NoRepeats
  <2>3. OnePlace'
    BY <1>1, <1>3, <1>4, <1>5 DEF OnePlace
  <2>4. SomePlace'
    BY <1>1, <1>3, <1>4, <1>5, SetupKept DEF SomePlace
  <2> QED
    BY <2>1, <2>2, <2>3, <2>4 DEF ListInv
<1>8. SemInv'
  <2>1. \A c \in Users : pc'[c] = "lock" <=> pc[c] = "lock"
    OBVIOUS
  <2> QED
    BY <1>1, <2>1, SemKept
<1>9. DataInv'
  BY <1>1, DataKept DEF DataInv
<1>10. FlyingInv'
  BY <1>1, FlyingKept
<1>11. \A s : OnTheWay(s)' = OnTheWay(s)
  <2>1. CASE pipe = "IN"
    BY <1>1, <1>7, <1>9, <2>1, WayInKept
  <2>2. CASE pipe = "OUT"
    <3>1. ListTypes'
      BY <1>7 DEF ListInv
    <3>2. ASSUME NEW s
          PROVE  CarryAll(FlyBytes(data), s, pending')
                     \o ((CarryAll(data, s, queued') \o CarryAll(data, s, AllApcs')) \o CarryAll(data, s, Own(s)))
                  = CarryAll(FlyBytes(data), s, pending)
                     \o ((CarryAll(data, s, queued) \o CarryAll(data, s, AllApcs)) \o CarryAll(data, s, Own(s)))
      <4> DEFINE Q == CarryAll(data, s, queued)
                 A == CarryAll(data, s, AllApcs)
      <4>1. data \in [Xfers -> Seq(ByteType)]
        BY <1>1 DEF DataInv
      <4>5. queued \in Seq(Xfers) /\ AllApcs \in Seq(Xfers)
        BY <1>2
      <4>2. CarryAll(data, s, queued') = Q \o A /\ Q \in Seq(ByteType) /\ A \in Seq(ByteType)
        <5>1. CarryAll(data, s, queued \o AllApcs) = Q \o A
          BY <4>1, <4>5, CarryTwo, ZenonT(60)
        <5>2. Q \in Seq(ByteType) /\ A \in Seq(ByteType)
          BY <4>1, <4>5, CarryIs
        <5> QED
          BY <1>2, <5>1, <5>2
      <4>3. CarryAll(data, s, AllApcs') = << >>
        BY <1>3, CarryNothing
      <4> HIDE DEF Q, A
      <4>4. (Q \o A) \o << >> = Q \o A
        BY <4>2, ConcatProperties, ConcatEmptySeq
      <4> QED
        BY <4>2, <4>3, <4>4 DEF Q, A
    <3> QED
      BY <1>1, <1>9, <2>2, <3>1, <3>2, WayOutKept
  <2> QED
    BY <1>1, <2>1, <2>2, SetupIs
<1>12. OrderInv'
  BY <1>1, <1>11, OrderKept DEF OrderInv
<1> QED
  BY <1>1, <1>6, <1>7, <1>8, <1>9, <1>10, <1>12 DEF IInv

LEMMA ApcStepsOK ==
    ASSUME IInv, BeginApcs \/ WakeUp \/ DrainNext
    PROVE  IInv'
<1>1. RunApcs /\ thread' # "queued" /\ noWaiting' = noWaiting
      /\ UNCHANGED <<setup, pending, finished, finishedTemp, data, entered, left, ovls, lock, sem,
                     call, lost, clean, pc>>
  BY DEF BeginApcs, WakeUp, DrainNext, bytes, callVars
<1>2. ThreadInv'
  BY DEF BeginApcs, WakeUp, DrainNext, IInv, ThreadInv, FreedIsStopped, At, callVars
<1> QED
  BY <1>1, <1>2, RunApcsOK

\* Transfers at the end of Finished: those of FinishedTemp, and of `more`.
LEMMA SyncIs ==
    ASSUME ListTypes, SemInv, NEW more \in Seq(Xfers), SynchronizeFinishedList(more), Claims' = Claims,
           setup' = setup, IsInjective(finished), IsInjective(finishedTemp), IsInjective(more),
           InFinished \cap InTemp = {}, (InFinished \cup InTemp) \cap Range(more) = {}
    PROVE  /\ finished' \in Seq(Xfers) /\ finished' = (finished \o finishedTemp) \o more
           /\ IsInjective(finished')
           /\ InFinished' = InFinished \cup InTemp \cup Range(more)
           /\ finishedTemp' = << >> /\ InTemp' = {} /\ SemInv'
<1>1. finished \in Seq(Xfers) /\ finishedTemp \in Seq(Xfers)
  BY DEF ListTypes
<1>2. finished' = (finished \o finishedTemp) \o more /\ finishedTemp' = << >>
      /\ sem' = SemPlus(Len(finishedTemp \o more))
  BY DEF SynchronizeFinishedList
<1> DEFINE u == finished \o finishedTemp
<1>3. /\ u \in Seq(Xfers) /\ Len(u) = Len(finished) + Len(finishedTemp)
      /\ Range(u) = InFinished \cup InTemp /\ IsInjective(u)
  BY <1>1, ConcatProperties, JoinedRange, JoinedOnce DEF InFinished, InTemp
<1> HIDE DEF u
<1>4. /\ u \o more \in Seq(Xfers) /\ Len(u \o more) = Len(u) + Len(more)
      /\ Range(u \o more) = Range(u) \cup Range(more) /\ IsInjective(u \o more)
  <2>1. u \o more \in Seq(Xfers) /\ Len(u \o more) = Len(u) + Len(more)
    BY <1>3, ConcatProperties
  <2>2. Range(u \o more) = Range(u) \cup Range(more)
    BY <1>3, JoinedRange
  <2>3. Range(u) \cap Range(more) = {}
    BY <1>3
  <2>4. IsInjective(u \o more)
    BY <1>3, <2>3, JoinedOnce
  <2> QED
    BY <2>1, <2>2, <2>4
<1>5. finished' = u \o more
  BY <1>2 DEF u
<1>6. InFinished' = Range(u \o more)
  BY <1>5 DEF InFinished
<1>7. SemInv'
  <2> DEFINE n == Len(finishedTemp \o more)
  <2>1. n = Len(finishedTemp) + Len(more) /\ sem' = SemPlus(n)
    BY <1>1, <1>2, ConcatProperties
  <2> HIDE DEF n
  <2>2. /\ Len(more) \in Nat /\ Len(finished) \in Nat /\ Len(finishedTemp) \in Nat
        /\ Cardinality(Claims) \in Nat /\ Cardinality(Claims') = Cardinality(Claims)
    BY <1>1, ClaimsAre
  <2>3. HasSem' = HasSem
    BY SetupKept
  <2>4. sem \in Nat /\ (~HasSem => sem = 0) /\ (HasSem => sem + Cardinality(Claims) = Len(finished))
    BY DEF SemInv, SemExact, Claims
  <2>5. Len(finished') = Len(finished) + Len(finishedTemp) + Len(more)
    BY <1>3, <1>4, <1>5, <2>2
  <2>6. sem' \in Nat /\ (~HasSem => sem' = 0) /\ (HasSem => sem' + Cardinality(Claims') = Len(finished'))
    <3> DEFINE a == Cardinality(Claims)
               b == Len(finished)
               v == Len(finishedTemp)
               w == Len(more)
    <3>1. a \in Nat /\ b \in Nat /\ v \in Nat /\ w \in Nat /\ n = v + w /\ sem \in Nat
          /\ Len(finished') = b + v + w /\ Cardinality(Claims') = a
      BY <2>1, <2>2, <2>4, <2>5
    <3> HIDE DEF a, b, v, w
    <3>2. CASE HasSem
      <4>1. sem' = sem + n /\ sem + a = b
        BY <2>1, <2>4, <3>2 DEF SemPlus, a, b
      <4> QED
        BY <3>1, <3>2, <4>1
    <3>3. CASE ~HasSem
      <4>1. sem' = sem /\ sem = 0
        BY <2>1, <2>4, <3>3 DEF SemPlus
      <4> QED
        BY <3>3, <4>1
    <3> QED
      BY <3>2, <3>3
  <2> QED
    BY <2>3, <2>6 DEF SemInv, SemExact, Claims
<1>8. InTemp' = {}
  BY <1>2, NoItems DEF InTemp
<1> QED
  BY <1>2, <1>3, <1>4, <1>5, <1>6, <1>7, <1>8

\* A step that empties FinishedTemp and moves no other transfer.
LEMMA SynchronizeOK ==
    ASSUME IInv, SynchronizeFinishedList(<< >>), ThreadInv', HandInv',
           UNCHANGED <<setup, queued, pending, apcs, data, entered, left, lock, call, lost, clean, pc>>
    PROVE  IInv'
<1>1. /\ ListInv /\ ListTypes /\ NoRepeats /\ OnePlace /\ SomePlace /\ CallInv /\ DataInv
      /\ FlyingInv /\ HandInv /\ SemInv /\ OrderInv /\ ThreadInv /\ setup \in Setups
      /\ CallInv'
      /\ \A c \in Users : Taken(c)' = Taken(c) /\ call'[c].taken = call[c].taken
      /\ Claims' = Claims
      /\ \A s : Own(s)' = Own(s)
  BY ThreadFrame
<1>2. /\ << >> \in Seq(Xfers) /\ Range(<< >>) = {} /\ IsInjective(<< >>)
      /\ IsInjective(finished) /\ IsInjective(finishedTemp) /\ InFinished \cap InTemp = {}
  BY <1>1, NoItems, EmptySeq DEF NoRepeats, OnePlace
<1>3. /\ finished' \in Seq(Xfers) /\ finished' = (finished \o finishedTemp) \o << >>
      /\ IsInjective(finished')
      /\ InFinished' = InFinished \cup InTemp \cup Range(<< >>)
      /\ finishedTemp' = << >> /\ InTemp' = {} /\ SemInv'
  <2>1. (InFinished \cup InTemp) \cap Range(<< >>) = {}
    BY <1>2
  <2> QED
    BY <1>1, <1>2, <2>1, SyncIs
<1>4. finished' = finished \o finishedTemp
  <2>1. finished \o finishedTemp \in Seq(Xfers)
    BY <1>1, ConcatProperties DEF ListTypes
  <2> QED
    BY <1>3, <2>1, ConcatEmptySeq
<1>5. /\ InPending' = InPending /\ InQueued' = InQueued /\ InApcs' = InApcs
      /\ XfersOf(pending)' = XfersOf(pending) /\ AllApcs' = AllApcs
  BY SetsKept
<1>6. ListInv'
  <2>1. ListTypes'
    BY <1>1, <1>2, <1>3, SetupKept DEF ListTypes
  <2>2. NoRepeats'
    BY <1>1, <1>2, <1>3, <1>5 DEF NoRepeats
  <2>3. OnePlace'
    BY <1>1, <1>2, <1>3, <1>5 DEF OnePlace
  <2>4. SomePlace'
    BY <1>1, <1>2, <1>3, <1>5, SetupKept DEF SomePlace
  <2> QED
    BY <2>1, <2>2, <2>3, <2>4 DEF ListInv
<1>7. DataInv'
  BY <1>1, DataKept DEF DataInv
<1>8. FlyingInv'
  BY <1>1, FlyingKept
<1>9. \A s : OnTheWay(s)' = OnTheWay(s)
  <2>1. ListTypes'
    BY <1>6 DEF ListInv
  <2>2. CASE pipe = "IN"
    <3> TAKE s
    <3> DEFINE F == CarryAll(data, s, finished)
               T == CarryAll(data, s, finishedTemp)
               P == CarryAll(data, s, XfersOf(pending))
    <3>1. OnTheWay(s) = (F \o T) \o P
      BY <1>1, <2>2, WayIn
    <3>2. pipe' = "IN"
      BY <2>2, SetupKept
    <3>3. OnTheWay(s)' = (CarryAll(data', s, finished') \o CarryAll(data', s, finishedTemp'))
                            \o CarryAll(data', s, XfersOf(pending'))
      BY <1>7, <2>1, <3>2, WayInNext
    <3>4. data \in [Xfers -> Seq(ByteType)] /\ finished \in Seq(Xfers) /\ finishedTemp \in Seq(Xfers)
      BY <1>1 DEF DataInv, ListTypes
    <3>5. CarryAll(data, s, finished \o finishedTemp) = F \o T
      BY <3>4, CarryTwo, ZenonT(60)
    <3>6. F \in Seq(ByteType) /\ T \in Seq(ByteType)
      BY <3>4, CarryIs
    <3>7. CarryAll(data, s, << >>) = << >>
      BY CarryNothing
    <3>8. OnTheWay(s)' = ((F \o T) \o << >>) \o P
      BY <1>3, <1>4, <3>3, <3>5, <3>7
    <3> HIDE DEF F, T, P
    <3>9. (F \o T) \o << >> = F \o T
      BY <3>6, ConcatProperties, ConcatEmptySeq
    <3> QED
      BY <3>1, <3>8, <3>9
  <2>3. CASE pipe = "OUT"
    BY <1>1, <1>5, <1>7, <2>1, <2>3, WayOutKept
  <2> QED
    BY <1>1, <2>2, <2>3, SetupIs
<1>10. OrderInv'
  BY <1>1, <1>9, OrderKept DEF OrderInv
<1> QED
  BY <1>1, <1>3, <1>6, <1>7, <1>8, <1>10 DEF IInv

LEMMA LoopOK ==
    ASSUME IInv, Loop
    PROVE  IInv'
<1>1. /\ UNCHANGED <<setup, queued, pending, apcs, data, entered, left, lock, call, lost, clean, pc>>
      /\ ovls' = ovls /\ noWaiting' = noWaiting /\ apcCount' = apcCount
  BY DEF Loop, bytes, callVars
<1>2. ThreadInv'
  BY DEF Loop, GoDone, NextPlace, IInv, ThreadInv, FreedIsStopped, At, callVars
<1>3. HandInv'
  <2>1. OvlType' = OvlType
    BY DEF OvlType, Links, Ovls
  <2>2. thread' = "queued" => ovls.head # NULL /\ queued # << >>
    BY DEF Loop, GoDone, NextPlace
  <2>3. thread' # "none"
    BY DEF Loop, GoDone, NextPlace
  <2> QED
    BY <1>1, <2>1, <2>2, <2>3 DEF IInv, HandInv
<1>4. CASE SynchronizeFinishedList(<< >>)
  BY <1>1, <1>2, <1>3, <1>4, SynchronizeOK
<1>5. CASE UNCHANGED <<finished, finishedTemp, sem>>
  <2>1. Quiet /\ apcs' = apcs
    BY <1>1, <1>5 DEF Quiet
  <2> QED
    BY <1>2, <1>3, <2>1, QuietThreadOK
<1> QED
  BY <1>4, <1>5 DEF Loop

LEMMA SyncOK ==
    ASSUME IInv, Sync
    PROVE  IInv'
<1>1. UNCHANGED <<setup, queued, pending, apcs, data, entered, left, lock, call, lost, clean, pc>>
  BY DEF Sync, bytes, callVars
<1>2. ThreadInv'
  BY DEF Sync, IInv, ThreadInv, FreedIsStopped, At, callVars
<1>3. HandInv'
  <2>1. OvlType' = OvlType
    BY DEF OvlType, Links, Ovls
  <2> QED
    BY <2>1 DEF Sync, IInv, HandInv
<1>4. SynchronizeFinishedList(<< >>)
  BY DEF Sync
<1> QED
  BY <1>1, <1>2, <1>3, <1>4, SynchronizeOK

-----------------------------------------------------------------------------
(***************************************************************************)
(* Submission.                                                             *)
(***************************************************************************)

\* Three runs of bytes are joined in either order.
Associates(r, s, t) == (r \o s) \o t = r \o (s \o t)

LEMMA AssociatesAll ==
    ASSUME NEW B, NEW r \in Seq(B), NEW s \in Seq(B), NEW t \in Seq(B)
    PROVE  Associates(r, s, t)
BY ConcatAssociative DEF Associates

\* The first of some bytes moves from one run of them to the one before.
MovesHead(f, h, q, a, w) == (f \o h) \o ((q \o a) \o w) = f \o (((h \o q) \o a) \o w)

LEMMA MoveHead ==
    ASSUME NEW B, NEW f \in Seq(B), NEW h \in Seq(B), NEW q \in Seq(B), NEW a \in Seq(B), NEW w \in Seq(B)
    PROVE  MovesHead(f, h, q, a, w)
<1> DEFINE qa == q \o a
           x == qa \o w
<1>1. qa \in Seq(B)
  BY ConcatProperties
<1>2. Associates(h, q, a)
  BY AssociatesAll
<1>3. (h \o q) \o a = h \o qa
  BY <1>2, Zenon DEF Associates
<1> HIDE DEF qa
<1>4. x \in Seq(B)
  BY <1>1, ConcatProperties
<1>5. Associates(h, qa, w)
  BY <1>1, AssociatesAll
<1>6. (h \o qa) \o w = h \o x
  BY <1>5, Zenon DEF Associates
<1> HIDE DEF x
<1>7. Associates(f, h, x)
  BY <1>4, AssociatesAll
<1>8. (f \o h) \o x = f \o (h \o x)
  BY <1>7, Zenon DEF Associates
<1>9. (f \o h) \o x = f \o (((h \o q) \o a) \o w)
  BY <1>3, <1>6, <1>8, Zenon
<1> QED
  BY <1>9, Zenon DEF x, qa, MovesHead

\* A transfer that goes from Queued to pendingList.
LEMMA SubmitIs ==
    ASSUME ListTypes, HandInv, thread = "queued", setup \in Setups, NEW h, NEW e,
           h = Head(queued), e = [xfer |-> h, ovl |-> ovls.head, io |-> "flying"]
    PROVE  /\ h \in Xfers /\ e \in PendingType /\ e.xfer = h /\ e.io = "flying"
           /\ Tail(queued) \in Seq(Xfers) /\ << h >> \in Seq(Xfers) /\ << e >> \in Seq(PendingType)
           /\ queued = << h >> \o Tail(queued)
           /\ Append(pending, e) \in Seq(PendingType) /\ Append(pending, e) = pending \o << e >>
           /\ Len(Append(pending, e)) = Len(pending) + 1 /\ Len(pending) \in Nat
           /\ \A i \in 1 .. Len(pending) : Append(pending, e)[i] = pending[i]
           /\ Append(pending, e)[Len(pending) + 1] = e
           /\ XfersOf(Append(pending, e)) = XfersOf(pending) \o << h >>
           /\ XfersOf(pending) \in Seq(Xfers)
           /\ ovls.head \in Ovls
<1>1. queued \in Seq(Xfers) /\ queued # << >> /\ ovls.head \in Ovls /\ pending \in Seq(PendingType)
  BY InitAssumption DEF HandInv, ListTypes, OvlType, Ovls, NULL
<1>2. /\ h \in Xfers /\ Tail(queued) \in Seq(Xfers) /\ << h >> \in Seq(Xfers)
      /\ queued = << h >> \o Tail(queued)
  BY <1>1, HeadFirst
<1>3. e \in PendingType /\ e.xfer = h /\ e.io = "flying"
  BY <1>1, <1>2 DEF PendingType
<1>4. << e >> \in Seq(PendingType) /\ Len(<< e >>) = 1
  BY <1>3, OneItem
<1>5. /\ Append(pending, e) \in Seq(PendingType)
      /\ Len(Append(pending, e)) = Len(pending) + 1 /\ Len(pending) \in Nat
      /\ \A i \in 1 .. Len(pending) : Append(pending, e)[i] = pending[i]
      /\ Append(pending, e)[Len(pending) + 1] = e
  BY <1>1, <1>3, AppendProperties
<1>6. Append(pending, e) = pending \o << e >>
  BY <1>1, <1>3, AppendIsConcat
<1>7. XfersOf(<< e >>) = << h >>
  BY <1>3, <1>4 DEF XfersOf
<1>8. XfersOf(pending \o << e >>) = XfersOf(pending) \o XfersOf(<< e >>)
  BY <1>1, <1>4, XfersJoined
<1>9. XfersOf(pending) \in Seq(Xfers)
  BY <1>1, XfersAre
<1>10. XfersOf(Append(pending, e)) = XfersOf(pending) \o << h >>
  BY <1>6, <1>7, <1>8
<1> QED
  BY <1>1, <1>2, <1>3, <1>4, <1>5, <1>6, <1>9, <1>10

LEMMA SubmitOK ==
    ASSUME IInv, Submit
    PROVE  IInv'
<1> DEFINE h == Head(queued)
           e == [xfer |-> h, ovl |-> ovls.head, io |-> "flying"]
<1>1. /\ thread = "queued" /\ queued' = Tail(queued) /\ ovls' = DL_DELETE(ovls, ovls.head)
      /\ pending' = Append(pending, e)
      /\ data' = IF pipe = "IN" THEN [data EXCEPT ![h] = << >>] ELSE data
      /\ thread' = NextPlace(ovls', queued', pending')
      /\ UNCHANGED <<setup, state, failed, noWaiting, apcs, apcCount, finished, finishedTemp,
                     entered, left, lock, sem, call, pc, lost, clean>>
  BY DEF Submit, callVars
<1>2. /\ ListInv /\ ListTypes /\ NoRepeats /\ OnePlace /\ SomePlace /\ CallInv /\ DataInv
      /\ FlyingInv /\ HandInv /\ SemInv /\ OrderInv /\ ThreadInv /\ setup \in Setups
      /\ CallInv'
      /\ \A c \in Users : Taken(c)' = Taken(c) /\ call'[c].taken = call[c].taken
      /\ Claims' = Claims
      /\ \A s : Own(s)' = Own(s)
  BY <1>1, ThreadFrame
<1>3. h = Head(queued) /\ e = [xfer |-> h, ovl |-> ovls.head, io |-> "flying"]
  OBVIOUS
<1> HIDE DEF h, e
<1>4. /\ h \in Xfers /\ e \in PendingType /\ e.xfer = h /\ e.io = "flying"
      /\ Tail(queued) \in Seq(Xfers) /\ << h >> \in Seq(Xfers) /\ << e >> \in Seq(PendingType)
      /\ queued = << h >> \o Tail(queued)
      /\ Append(pending, e) \in Seq(PendingType) /\ Append(pending, e) = pending \o << e >>
      /\ Len(Append(pending, e)) = Len(pending) + 1 /\ Len(pending) \in Nat
      /\ \A i \in 1 .. Len(pending) : Append(pending, e)[i] = pending[i]
      /\ Append(pending, e)[Len(pending) + 1] = e
      /\ XfersOf(Append(pending, e)) = XfersOf(pending) \o << h >>
      /\ XfersOf(pending) \in Seq(Xfers)
      /\ ovls.head \in Ovls
  BY <1>1, <1>2, <1>3, SubmitIs
<1>5. ThreadInv'
  BY <1>1, <1>2 DEF NextPlace, ThreadInv, FreedIsStopped, At
<1>6. HandInv'
  <2>1. OvlType' = OvlType
    BY DEF OvlType, Links, Ovls
  <2>2. ovls' \in OvlType
    BY <1>1, <1>2, <1>4, DeleteIs DEF HandInv
  <2>3. thread' = "queued" => ovls'.head # NULL /\ queued' # << >>
    BY <1>1 DEF NextPlace
  <2>4. thread' # "none"
    BY <1>1 DEF NextPlace
  <2> QED
    BY <1>1, <1>2, <2>1, <2>2, <2>3, <2>4 DEF HandInv
<1>7. /\ InQueued = {h} \cup InQueued' /\ h \notin InQueued'
      /\ IsInjective(queued') /\ queued' \in Seq(Xfers)
  <2>1. << h >> \o Tail(queued) = queued /\ IsInjective(queued) /\ Range(<< h >>) = {h}
    BY <1>2, <1>4, OneItem DEF NoRepeats
  <2>6. << h >> \in Seq(Xfers) /\ Tail(queued) \in Seq(Xfers)
    BY <1>4
  <2>2. Range(<< h >> \o Tail(queued)) = Range(<< h >>) \cup Range(Tail(queued))
    BY <2>6, JoinedRange
  <2>3. IsInjective(<< h >> \o Tail(queued))
    BY <2>1
  <2>4. IsInjective(Tail(queued)) /\ Range(<< h >>) \cap Range(Tail(queued)) = {}
    BY <1>4, <2>3, JoinedOnce
  <2>5. InQueued' = Range(Tail(queued))
    BY <1>1 DEF InQueued
  <2> QED
    BY <1>1, <1>4, <2>1, <2>2, <2>4, <2>5 DEF InQueued
<1>8. /\ InPending' = InPending \cup {h} /\ XfersOf(pending') = XfersOf(pending) \o << h >>
      /\ IsInjective(XfersOf(pending')) /\ h \notin InPending
  <2>1. IsInjective(<< h >>) /\ Range(<< h >>) = {h} /\ IsInjective(XfersOf(pending))
    BY <1>2, <1>4, OneItem DEF NoRepeats
  <2>2. h \notin InPending
    BY <1>2, <1>7 DEF OnePlace
  <2>8. << h >> \in Seq(Xfers) /\ XfersOf(pending) \in Seq(Xfers)
    BY <1>4
  <2>3. Range(XfersOf(pending) \o << h >>) = Range(XfersOf(pending)) \cup Range(<< h >>)
    BY <2>8, JoinedRange, ZenonT(60)
  <2>4. Range(XfersOf(pending)) \cap Range(<< h >>) = {}
    BY <2>1, <2>2 DEF InPending
  <2>5. IsInjective(XfersOf(pending) \o << h >>)
    BY <1>4, <2>1, <2>4, JoinedOnce
  <2>6. XfersOf(pending') = XfersOf(pending) \o << h >>
    BY <1>1, <1>4
  <2>7. InPending' = Range(XfersOf(pending'))
    BY DEF InPending, XfersOf
  <2> QED
    BY <2>1, <2>2, <2>3, <2>5, <2>6, <2>7 DEF InPending
<1>9. /\ InFinished' = InFinished /\ InTemp' = InTemp /\ InApcs' = InApcs /\ AllApcs' = AllApcs
  BY <1>1, SetsKept
<1>10. h \notin InFinished \cup InTemp \cup InApcs \cup InPending \cup lost
  BY <1>2, <1>7 DEF OnePlace
<1>11. ListInv'
  <2>1. ListTypes'
    BY <1>1, <1>2, <1>4, SetupKept DEF ListTypes
  <2>2. NoRepeats'
    <3>1. XfersOf(pending)' = XfersOf(pending')
      BY DEF XfersOf
    <3> QED
      BY <1>1, <1>2, <1>7, <1>8, <1>9, <3>1 DEF NoRepeats
  <2>3. OnePlace'
    <3>1. InQueued' \cap (InPending' \cup InFinished \cup InTemp \cup InApcs \cup lost) = {}
      BY <1>2, <1>7, <1>8 DEF OnePlace
    <3>2. InPending' \cap (InFinished \cup InTemp \cup InApcs \cup lost) = {}
      BY <1>2, <1>8, <1>10 DEF OnePlace
    <3>3. \A c \in Users : Taken(c) \cap (InQueued' \cup InPending' \cup InFinished \cup InTemp \cup InApcs
                                             \cup lost) = {}
      BY <1>2, <1>7, <1>8 DEF OnePlace
    <3> QED
      BY <1>1, <1>2, <1>9, <3>1, <3>2, <3>3 DEF OnePlace
  <2>4. SomePlace'
    BY <1>1, <1>2, <1>7, <1>8, <1>9, SetupKept DEF SomePlace
  <2> QED
    BY <2>1, <2>2, <2>3, <2>4 DEF ListInv
<1>12. SemInv'
  <2>1. \A c \in Users : pc'[c] = "lock" <=> pc[c] = "lock"
    BY <1>1
  <2> QED
    BY <1>1, <1>2, <2>1, SemKept
<1>13. /\ data' \in [Xfers -> Seq(ByteType)] /\ \A x \in Xfers : Len(data'[x]) <= MaxTransferSize
       /\ \A x \in Xfers \ {h} : data'[x] = data[x]
       /\ pipe = "IN" => data'[h] = << >>
       /\ pipe = "OUT" => data' = data
  <2>1. data \in [Xfers -> Seq(ByteType)] /\ \A x \in Xfers : Len(data[x]) <= MaxTransferSize
    BY <1>2 DEF DataInv
  <2>2. << >> \in Seq(ByteType) /\ Len(<< >>) <= MaxTransferSize
    BY InitAssumption, EmptySeq
  <2> QED
    BY <1>1, <1>4, <2>1, <2>2
<1>14. DataInv'
  <2>1. \A c \in Users : call'[c].saved = call[c].saved
    BY <1>1
  <2> QED
    BY <1>1, <1>2, <1>13, <2>1, SetupKept DEF DataInv
<1>15. pipe' = pipe /\ DOMAIN pending' = 1 .. Len(pending) + 1 /\ DOMAIN pending = 1 .. Len(pending)
       /\ (\A i \in 1 .. Len(pending) : pending'[i] = pending[i]) /\ pending'[Len(pending) + 1] = e
       /\ pending \in Seq(PendingType)
  BY <1>1, <1>2, <1>4, SetupKept DEF ListTypes
<1>16. FlyingInv'
  <2> DEFINE n == Len(pending)
  <2>1. n \in Nat
    BY <1>4
  <2> HIDE DEF n
  <2>2. \A i, j \in DOMAIN pending' : i < j /\ pending'[i].io = "flying" => pending'[j].io = "flying"
    <3> SUFFICES ASSUME NEW i \in 1 .. n + 1, NEW j \in 1 .. n + 1, i < j, pending'[i].io = "flying"
                 PROVE  pending'[j].io = "flying"
      BY <1>15 DEF n
    <3>1. CASE j = n + 1
      BY <1>4, <1>15, <3>1 DEF n
    <3>2. CASE j # n + 1
      <4>1. i \in 1 .. n /\ j \in 1 .. n
        BY <2>1, <3>2
      <4>2. pending'[i] = pending[i] /\ pending'[j] = pending[j] /\ i \in DOMAIN pending /\ j \in DOMAIN pending
        BY <1>15, <4>1 DEF n
      <4> QED
        BY <1>2, <4>2 DEF FlyingInv
    <3> QED
      BY <3>1, <3>2
  <2>3. clean' /\ pipe' = "IN" =>
          \A i \in DOMAIN pending' : pending'[i].io = "flying" => data'[pending'[i].xfer] = << >>
    <3> SUFFICES ASSUME clean, pipe = "IN", NEW i \in 1 .. n + 1, pending'[i].io = "flying"
                 PROVE  data'[pending'[i].xfer] = << >>
      BY <1>1, <1>15 DEF n
    <3>1. CASE i = n + 1
      BY <1>4, <1>13, <1>15, <3>1 DEF n
    <3>2. CASE i # n + 1
      <4>1. i \in 1 .. n /\ i \in DOMAIN pending /\ pending'[i] = pending[i]
        BY <1>15, <2>1, <3>2 DEF n
      <4>2. pending[i].xfer \in InPending /\ pending[i].xfer \in Xfers
        BY <1>2, <4>1, PlacesAre
      <4>3. data'[pending[i].xfer] = data[pending[i].xfer]
        BY <1>8, <1>13, <4>2
      <4>4. data[pending[i].xfer] = << >>
        BY <1>2, <4>1 DEF FlyingInv
      <4> QED
        BY <4>1, <4>3, <4>4
    <3> QED
      BY <3>1, <3>2
  <2>4. clean' /\ pipe' = "OUT" =>
          \A c \in Users : \A x \in Taken(c)' : data'[x] # << >> => Source(Head(data'[x])) = c
    BY <1>1, <1>2, <1>13, <1>15 DEF FlyingInv
  <2>5. \A b : Source(b)' = Source(b)
    BY DEF Source
  <2> QED
    BY <2>2, <2>3, <2>4, <2>5 DEF FlyingInv, Source
<1>17. ASSUME NEW s PROVE OnTheWay(s)' = OnTheWay(s)
  <2>1. ListTypes' /\ data \in [Xfers -> Seq(ByteType)]
    BY <1>2, <1>11 DEF ListInv, DataInv
  <2>2. CASE pipe = "IN"
    <3> DEFINE F == CarryAll(data, s, finished)
               T == CarryAll(data, s, finishedTemp)
               P == CarryAll(data, s, XfersOf(pending))
    <3>1. OnTheWay(s) = (F \o T) \o P
      BY <1>2, <2>2, WayIn
    <3>2. OnTheWay(s)' = (CarryAll(data', s, finished') \o CarryAll(data', s, finishedTemp'))
                            \o CarryAll(data', s, XfersOf(pending'))
      BY <1>14, <1>15, <2>1, <2>2, WayInNext
    <3>3. finished \in Seq(Xfers) /\ finishedTemp \in Seq(Xfers) /\ XfersOf(pending) \in Seq(Xfers)
      BY <1>2, <1>4 DEF ListTypes
    <3>4. /\ \A x \in Range(finished) : data[x] = data'[x]
          /\ \A x \in Range(finishedTemp) : data[x] = data'[x]
          /\ \A x \in Range(XfersOf(pending)) : data[x] = data'[x]
      BY <1>2, <1>10, <1>13, PlacesAre DEF InFinished, InTemp, InPending
    <3>5. CarryAll(data', s, finished) = F
      BY <3>3, <3>4, CarrySame
    <3>6. CarryAll(data', s, finishedTemp) = T
      BY <3>3, <3>4, CarrySame
    <3>7. CarryAll(data', s, XfersOf(pending)) = P
      BY <3>3, <3>4, CarrySame
    <3>8. CarryAll(data', s, XfersOf(pending) \o << h >>)
             = CarryAll(data', s, XfersOf(pending)) \o CarryAll(data', s, << h >>)
      <4>1. data' \in [Xfers -> Seq(ByteType)] /\ << h >> \in Seq(Xfers) /\ XfersOf(pending) \in Seq(Xfers)
        BY <1>4, <1>13
      <4> QED
        BY <4>1, CarryTwo, ZenonT(60)
    <3>9. CarryAll(data', s, << h >>) = << >>
      <4>2. data' \in [Xfers -> Seq(ByteType)] /\ h \in Xfers
        BY <1>4, <1>13
      <4>1. CarryAll(data', s, << h >>) = Carry(data', s, h)
        BY <4>2, CarryOne
      <4> QED
        BY <1>13, <2>2, <4>1 DEF Carry
    <3>10. P \in Seq(ByteType)
      BY <2>1, <3>3, CarryIs
    <3>11. P \o << >> = P
      BY <3>10, ConcatEmptySeq
    <3>12. CarryAll(data', s, XfersOf(pending')) = P
      BY <1>8, <3>7, <3>8, <3>9, <3>11
    <3> HIDE DEF F, T, P
    <3> QED
      BY <1>1, <3>1, <3>2, <3>5, <3>6, <3>12
  <2>3. CASE pipe = "OUT"
    <3> DEFINE F == CarryAll(FlyBytes(data), s, pending)
               H == CarryAll(data, s, << h >>)
               Q == CarryAll(data, s, queued')
               A == CarryAll(data, s, AllApcs)
               W == CarryAll(data, s, Own(s))
    <3>1. OnTheWay(s) = F \o ((CarryAll(data, s, queued) \o A) \o W)
      BY <1>2, <2>3, WayOut
    <3>2. OnTheWay(s)' = CarryAll(FlyBytes(data'), s, pending')
              \o ((CarryAll(data', s, queued') \o CarryAll(data', s, AllApcs')) \o CarryAll(data', s, Own(s)'))
      BY <1>1, <1>2, <1>14, <1>15, <2>1, <2>3, WayOutNext
    <3>3. CarryAll(data, s, << h >> \o Tail(queued)) = H \o CarryAll(data, s, Tail(queued))
      <4>1. data \in [Xfers -> Seq(ByteType)] /\ << h >> \in Seq(Xfers) /\ Tail(queued) \in Seq(Xfers)
        BY <1>4, <2>1
      <4> QED
        BY <4>1, CarryTwo, ZenonT(60)
    <3>4. CarryAll(data, s, queued) = H \o Q
      BY <1>1, <1>4, <3>3
    <3>5. pending \in Seq(PendingType)
      BY <1>2 DEF ListTypes
    <3>6. CarryAll(FlyBytes(data), s, pending \o << e >>) = F \o CarryAll(FlyBytes(data), s, << e >>)
      BY <1>4, <2>1, <3>5, CarryFly
    <3>7. CarryAll(FlyBytes(data), s, << e >>) = H
      <4>4. data \in [Xfers -> Seq(ByteType)] /\ h \in Xfers /\ e \in PendingType
        BY <1>4, <2>1
      <4>1. /\ FlyBytes(data) \in [PendingType -> Seq(ByteType)]
            /\ FlyBytes(data)[e] = data[h]
        BY <1>4, <2>1, FlyBytesAre
      <4>2. CarryAll(FlyBytes(data), s, << e >>) = Carry(FlyBytes(data), s, e)
        BY <4>1, <4>4, CarryOne
      <4>3. H = Carry(data, s, h)
        BY <4>4, CarryOne
      <4> QED
        BY <4>1, <4>2, <4>3 DEF Carry
    <3>8. CarryAll(FlyBytes(data'), s, pending') = F \o H
      BY <1>1, <1>4, <1>13, <2>3, <3>6, <3>7
    <3>9. Own(s) \in Seq(Xfers) /\ AllApcs \in Seq(Xfers)
      BY <1>2, OwnIs, PlacesAre
    <3>10. F \in Seq(ByteType)
      BY <1>4, <2>1, <3>5, CarryFly
    <3>11. H \in Seq(ByteType) /\ Q \in Seq(ByteType) /\ A \in Seq(ByteType) /\ W \in Seq(ByteType)
      BY <1>4, <1>7, <2>1, <3>9, CarryIs
    <3> HIDE DEF F, H, Q, A, W
    <3>12. MovesHead(F, H, Q, A, W)
      BY <3>10, <3>11, MoveHead
    <3>13. OnTheWay(s)' = (F \o H) \o ((Q \o A) \o W)
      BY <1>2, <1>9, <1>13, <2>3, <3>2, <3>8 DEF Q, A, W
    <3> QED
      BY <3>1, <3>4, <3>12, <3>13 DEF MovesHead
  <2> QED
    BY <1>2, <2>2, <2>3, SetupIs
<1>18. OrderInv'
  BY <1>1, <1>2, <1>17, OrderKept DEF OrderInv
<1> QED
  BY <1>2, <1>5, <1>6, <1>11, <1>12, <1>14, <1>16, <1>18 DEF IInv

-----------------------------------------------------------------------------
(***************************************************************************)
(* Completion.                                                             *)
(***************************************************************************)

\* Two facts about \o, in a form the provers can use by name.
RangesJoin(a, b) == Range(a \o b) = Range(a) \cup Range(b)
CarriesJoin(d, s, a, b) == CarryAll(d, s, a \o b) = CarryAll(d, s, a) \o CarryAll(d, s, b)

LEMMA RangesTogether ==
    ASSUME NEW T, NEW a \in Seq(T), NEW b \in Seq(T)
    PROVE  RangesJoin(a, b)
BY JoinedRange DEF RangesJoin

LEMMA CarriesTogether ==
    ASSUME NEW d \in [Xfers -> Seq(ByteType)], NEW s, NEW a \in Seq(Xfers), NEW b \in Seq(Xfers)
    PROVE  CarriesJoin(d, s, a, b)
BY CarryTwo, ZenonT(60) DEF CarriesJoin

\* The oldest pending transfer, and the others.
LEMMA OldestIs ==
    ASSUME ListTypes, NoRepeats, setup \in Setups, pending # << >>, NEW e, NEW x, NEW rest,
           e = Head(pending), x = e.xfer, rest = Tail(pending)
    PROVE  /\ e \in PendingType /\ x \in Xfers /\ e.ovl \in Ovls
           /\ rest \in Seq(PendingType) /\ XfersOf(rest) \in Seq(Xfers)
           /\ << e >> \in Seq(PendingType) /\ << x >> \in Seq(Xfers)
           /\ pending = << e >> \o rest /\ XfersOf(pending) = << x >> \o XfersOf(rest)
           /\ IsInjective(XfersOf(rest)) /\ x \notin Range(XfersOf(rest))
           /\ InPending = {x} \cup Range(XfersOf(rest))
           /\ Len(rest) \in Nat /\ Len(pending) = Len(rest) + 1
           /\ \A i \in 1 .. Len(rest) : rest[i] = pending[i + 1]
           /\ \A p \in Range(rest) : p.xfer \in Range(XfersOf(rest))
<1>1. pending \in Seq(PendingType)
  BY DEF ListTypes
<1>2. /\ e \in PendingType /\ rest \in Seq(PendingType) /\ << e >> \in Seq(PendingType)
      /\ pending = << e >> \o rest /\ Len(pending) = 1 + Len(rest)
  BY <1>1, HeadFirst
<1>3. x \in Xfers /\ e.ovl \in Ovls
  BY <1>2 DEF PendingType
<1>4. << x >> \in Seq(Xfers) /\ Range(<< x >>) = {x}
  BY <1>3, OneItem
<1>5. XfersOf(<< e >>) = << x >>
  BY <1>2 DEF XfersOf
<1>6. XfersOf(<< e >> \o rest) = XfersOf(<< e >>) \o XfersOf(rest)
  BY <1>2, XfersJoined
<1>7. XfersOf(rest) \in Seq(Xfers)
  BY <1>2, XfersAre
<1>8. XfersOf(pending) = << x >> \o XfersOf(rest)
  BY <1>2, <1>5, <1>6
<1>9. IsInjective(<< x >> \o XfersOf(rest))
  BY <1>8 DEF NoRepeats
<1>10. IsInjective(XfersOf(rest)) /\ Range(<< x >>) \cap Range(XfersOf(rest)) = {}
  BY <1>4, <1>7, <1>9, JoinedOnce
<1>11. Range(<< x >> \o XfersOf(rest)) = Range(<< x >>) \cup Range(XfersOf(rest))
  <2>1. RangesJoin(<< x >>, XfersOf(rest))
    BY <1>4, <1>7, RangesTogether
  <2> QED
    BY <2>1 DEF RangesJoin
<1>12. InPending = {x} \cup Range(XfersOf(rest))
  BY <1>4, <1>8, <1>11 DEF InPending
<1>13. Len(rest) \in Nat /\ \A i \in 1 .. Len(rest) : rest[i] = pending[i + 1]
  BY <1>1, <1>2
<1>14. \A p \in Range(rest) : p.xfer \in Range(XfersOf(rest))
  <2> TAKE p \in Range(rest)
  <2>1. PICK i \in 1 .. Len(rest) : rest[i] = p
    BY <1>2, RangeIs
  <2>2. XfersOf(rest)[i] = p.xfer /\ i \in 1 .. Len(XfersOf(rest))
    BY <1>2, <2>1, XfersAre
  <2> QED
    BY <1>7, <2>2, RangeIs
<1>15. x \notin Range(XfersOf(rest)) /\ Len(pending) = Len(rest) + 1
  BY <1>2, <1>4, <1>10, <1>13
<1>16. << x >> \in Seq(Xfers) /\ IsInjective(XfersOf(rest))
  BY <1>4, <1>10
<1> QED
  BY <1>2, <1>3, <1>7, <1>8, <1>12, <1>13, <1>14, <1>15, <1>16

\* What Finish does to Finished and FinishedTemp.
FinishedMoves(x) ==
    /\ finished' \in Seq(Xfers) /\ finishedTemp' \in Seq(Xfers)
    /\ IsInjective(finished') /\ IsInjective(finishedTemp') /\ InFinished' \cap InTemp' = {}
    /\ InFinished' \cup InTemp' = InFinished \cup InTemp \cup {x}
    /\ SemInv'

\* The bytes in Finished and FinishedTemp, before and after.
FinishedCarry(d, s, x) ==
    CarryAll(d, s, finished') \o CarryAll(d, s, finishedTemp')
       = (CarryAll(d, s, finished) \o CarryAll(d, s, finishedTemp)) \o CarryAll(d, s, << x >>)

LEMMA FinishIs ==
    ASSUME ListTypes, SemInv, NoRepeats, OnePlace, setup' = setup, NEW x \in Xfers,
           x \notin InFinished \cup InTemp, Finish(x), pc' = pc
    PROVE  /\ FinishedMoves(x)
           /\ \A d \in [Xfers -> Seq(ByteType)] : \A s : FinishedCarry(d, s, x)
<1>1. /\ finished \in Seq(Xfers) /\ finishedTemp \in Seq(Xfers)
      /\ IsInjective(finished) /\ IsInjective(finishedTemp) /\ InFinished \cap InTemp = {}
  BY DEF ListTypes, NoRepeats, OnePlace
<1>2. << x >> \in Seq(Xfers) /\ Len(<< x >>) = 1 /\ Range(<< x >>) = {x} /\ IsInjective(<< x >>)
  BY OneItem
<1>3. CASE lock = Free
  <2>1. SynchronizeFinishedList(<< x >>)
    BY <1>3 DEF Finish
  <2>2. (InFinished \cup InTemp) \cap Range(<< x >>) = {} /\ Claims' = Claims
    BY <1>2 DEF Claims, At
  <2>3. /\ finished' \in Seq(Xfers) /\ finished' = (finished \o finishedTemp) \o << x >>
        /\ IsInjective(finished')
        /\ InFinished' = InFinished \cup InTemp \cup Range(<< x >>)
        /\ finishedTemp' = << >> /\ InTemp' = {} /\ SemInv'
    BY <1>1, <1>2, <2>1, <2>2, SyncIs
  <2>4. FinishedMoves(x)
    BY <1>2, <2>3, NoItems, EmptySeq DEF FinishedMoves
  <2>5. ASSUME NEW d \in [Xfers -> Seq(ByteType)], NEW s PROVE FinishedCarry(d, s, x)
    <3> DEFINE u == finished \o finishedTemp
    <3>1. u \in Seq(Xfers)
      BY <1>1, ConcatProperties
    <3>2. CarryAll(d, s, u) = CarryAll(d, s, finished) \o CarryAll(d, s, finishedTemp)
      <4>1. CarriesJoin(d, s, finished, finishedTemp)
        BY <1>1, CarriesTogether
      <4> QED
        BY <4>1 DEF CarriesJoin
    <3>3. finished' = u \o << x >>
      BY <2>3
    <3> HIDE DEF u
    <3>4. << x >> \in Seq(Xfers)
      BY <1>2
    <3>5. CarryAll(d, s, u \o << x >>) = CarryAll(d, s, u) \o CarryAll(d, s, << x >>)
      <4>1. CarriesJoin(d, s, u, << x >>)
        BY <3>1, <3>4, CarriesTogether
      <4> QED
        BY <4>1 DEF CarriesJoin
    <3>6. CarryAll(d, s, finishedTemp') = << >>
      BY <2>3, CarryNothing
    <3>7. u \o << x >> \in Seq(Xfers)
      BY <3>1, <3>4, ConcatProperties
    <3>8. CarryAll(d, s, finished') \in Seq(ByteType)
      BY <3>3, <3>7, CarryIs
    <3>9. CarryAll(d, s, finished') \o << >> = CarryAll(d, s, finished')
      BY <3>8, ConcatEmptySeq
    <3> QED
      BY <3>2, <3>3, <3>5, <3>6, <3>9 DEF FinishedCarry
  <2> QED
    BY <2>4, <2>5
<1>4. CASE lock # Free
  <2>1. finishedTemp' = Append(finishedTemp, x) /\ finished' = finished /\ sem' = sem
    BY <1>4 DEF Finish
  <2>2. Append(finishedTemp, x) = finishedTemp \o << x >>
    BY <1>1, AppendIsConcat
  <2>3. finishedTemp' = finishedTemp \o << x >>
    BY <2>1, <2>2
  <2>7. finishedTemp \in Seq(Xfers) /\ << x >> \in Seq(Xfers)
    BY <1>1, <1>2
  <2>4. /\ finishedTemp' \in Seq(Xfers) /\ IsInjective(finishedTemp') /\ InTemp' = InTemp \cup {x}
    <3>1. finishedTemp \o << x >> \in Seq(Xfers)
      BY <2>7, ConcatProperties
    <3>2. Range(finishedTemp) \cap Range(<< x >>) = {}
      BY <1>2 DEF InTemp
    <3>3. IsInjective(finishedTemp \o << x >>)
      BY <1>1, <1>2, <2>7, <3>2, JoinedOnce
    <3>4. Range(finishedTemp \o << x >>) = Range(finishedTemp) \cup Range(<< x >>)
      <4>1. RangesJoin(finishedTemp, << x >>)
        BY <2>7, RangesTogether
      <4> QED
        BY <4>1 DEF RangesJoin
    <3> QED
      BY <1>2, <2>3, <3>1, <3>3, <3>4 DEF InTemp
  <2>5. FinishedMoves(x)
    <3>1. InFinished' = InFinished
      BY <2>1, SetsKept
    <3>2. SemInv'
      BY <2>1, SemKept
    <3> QED
      BY <1>1, <2>1, <2>4, <3>1, <3>2 DEF FinishedMoves
  <2>6. ASSUME NEW d \in [Xfers -> Seq(ByteType)], NEW s PROVE FinishedCarry(d, s, x)
    <3> DEFINE F == CarryAll(d, s, finished)
               T == CarryAll(d, s, finishedTemp)
               X == CarryAll(d, s, << x >>)
    <3>1. CarryAll(d, s, finishedTemp \o << x >>) = T \o X
      <4>1. CarriesJoin(d, s, finishedTemp, << x >>)
        BY <2>7, CarriesTogether
      <4> QED
        BY <4>1 DEF CarriesJoin
    <3>2. F \in Seq(ByteType) /\ T \in Seq(ByteType) /\ X \in Seq(ByteType)
      BY <1>1, <2>7, CarryIs
    <3>3. CarryAll(d, s, finished') = F /\ CarryAll(d, s, finishedTemp') = T \o X
      BY <2>1, <2>3, <3>1
    <3> HIDE DEF F, T, X
    <3>4. F \o (T \o X) = (F \o T) \o X
      BY <3>2, ConcatAssociative, SMTT(40)
    <3> QED
      BY <3>3, <3>4 DEF FinishedCarry, F, T, X
  <2> QED
    BY <2>5, <2>6
<1> QED
  BY <1>3, <1>4

LEMMA CarryElement ==
    ASSUME NEW g \in [PendingType -> Seq(ByteType)], NEW s, NEW e \in PendingType
    PROVE  CarryAll(g, s, << e >>) = Carry(g, s, e)
BY CarryOne

\* The bytes of the pending transfers when the oldest has ended.
LEMMA RestCarries ==
    ASSUME NEW d \in [Xfers -> Seq(ByteType)], NEW g \in [Xfers -> Seq(ByteType)], NEW s,
           NEW e \in PendingType, e.io # "flying", NEW rest \in Seq(PendingType),
           << e >> \in Seq(PendingType), pending = << e >> \o rest, NEW x,
           x \notin Range(XfersOf(rest)), \A p \in Range(rest) : p.xfer \in Range(XfersOf(rest)),
           \A y \in Xfers \ {x} : g[y] = d[y]
    PROVE  CarryAll(FlyBytes(g), s, rest) = CarryAll(FlyBytes(d), s, pending)
<1>1. FlyBytes(d) \in [PendingType -> Seq(ByteType)] /\ FlyBytes(d)[e] = << >>
  BY FlyBytesAre
<1>2. CarryAll(FlyBytes(d), s, << e >> \o rest)
         = CarryAll(FlyBytes(d), s, << e >>) \o CarryAll(FlyBytes(d), s, rest)
  BY CarryFly
<1>3. CarryAll(FlyBytes(d), s, << e >>) = << >>
  <2>1. CarryAll(FlyBytes(d), s, << e >>) = Carry(FlyBytes(d), s, e)
    <3> DEFINE G == FlyBytes(d)
    <3>1. G \in [PendingType -> Seq(ByteType)]
      BY <1>1
    <3> HIDE DEF G
    <3>2. CarryAll(G, s, << e >>) = Carry(G, s, e)
      BY <3>1, CarryElement
    <3> QED
      BY <3>2 DEF G
  <2> QED
    BY <1>1, <2>1 DEF Carry
<1>4. CarryAll(FlyBytes(d), s, rest) \in Seq(ByteType)
  BY CarryFly
<1>5. << >> \o CarryAll(FlyBytes(d), s, rest) = CarryAll(FlyBytes(d), s, rest)
  BY <1>4, ConcatEmptySeq
<1>6. \A p \in Range(rest) : FlyBytes(g)[p] = FlyBytes(d)[p]
  <2> TAKE p \in Range(rest)
  <2>1. p \in PendingType
    BY RangeIs
  <2>2. p.xfer \in Xfers /\ p.xfer # x
    BY <2>1 DEF PendingType
  <2>3. /\ FlyBytes(d)[p] = IF p.io = "flying" THEN d[p.xfer] ELSE << >>
        /\ FlyBytes(g)[p] = IF p.io = "flying" THEN g[p.xfer] ELSE << >>
    BY <2>1, FlyBytesAre
  <2> QED
    BY <2>2, <2>3
<1>7. CarryAll(FlyBytes(g), s, rest) = CarryAll(FlyBytes(d), s, rest)
  BY <1>6, CarrySame
<1> QED
  BY <1>2, <1>3, <1>5, <1>7

\* The oldest pending transfer has gone.
LEMMA RestFlies ==
    ASSUME FlyingInv, ListTypes, OnePlace, setup' = setup, clean' => clean, NEW x, NEW rest \in Seq(PendingType),
           pending' = rest, Len(pending) = Len(rest) + 1,
           \A i \in 1 .. Len(rest) : rest[i] = pending[i + 1],
           \A p \in Range(rest) : p.xfer \in Range(XfersOf(rest)), x \notin Range(XfersOf(rest)),
           \A y \in Xfers \ {x} : data'[y] = data[y], x \in InPending, CallInv,
           \A c \in Users : Taken(c)' = Taken(c)
    PROVE  FlyingInv'
<1> DEFINE n == Len(rest)
<1>1. n \in Nat /\ DOMAIN rest = 1 .. n /\ DOMAIN pending = 1 .. n + 1
  BY DEF ListTypes
<1> HIDE DEF n
<1>2. \A i \in 1 .. n : rest[i] = pending[i + 1] /\ i + 1 \in 1 .. n + 1
  BY <1>1 DEF n
<1>3. pipe' = pipe
  BY SetupKept
<1>4. \A i, j \in 1 .. n : i < j /\ rest[i].io = "flying" => rest[j].io = "flying"
  <2> SUFFICES ASSUME NEW i \in 1 .. n, NEW j \in 1 .. n, i < j, rest[i].io = "flying"
               PROVE  rest[j].io = "flying"
    OBVIOUS
  <2>1. i + 1 < j + 1 /\ i + 1 \in DOMAIN pending /\ j + 1 \in DOMAIN pending
    BY <1>1, <1>2
  <2>2. pending[i + 1].io = "flying"
    BY <1>2
  <2>3. pending[j + 1].io = "flying"
    BY <2>1, <2>2 DEF FlyingInv
  <2> QED
    BY <1>2, <2>3
<1>5. clean' /\ pipe = "IN" => \A i \in 1 .. n : rest[i].io = "flying" => data'[rest[i].xfer] = << >>
  <2> SUFFICES ASSUME clean', pipe = "IN", NEW i \in 1 .. n, rest[i].io = "flying"
               PROVE  data'[rest[i].xfer] = << >>
    OBVIOUS
  <2>1. i + 1 \in DOMAIN pending /\ pending[i + 1].io = "flying"
    BY <1>1, <1>2
  <2>2. data[pending[i + 1].xfer] = << >>
    BY <2>1 DEF FlyingInv
  <2>3. rest[i] \in Range(rest) /\ rest[i] \in PendingType
    BY <1>1, RangeIs DEF n
  <2>4. rest[i].xfer \in Xfers \ {x}
    BY <2>3 DEF PendingType
  <2> QED
    BY <1>2, <2>2, <2>4
<1>6. clean' /\ pipe = "OUT" => \A c \in Users : \A y \in Taken(c) : data'[y] # << >> => Source(Head(data'[y])) = c
  <2> SUFFICES ASSUME clean', pipe = "OUT", NEW c \in Users, NEW y \in Taken(c), data'[y] # << >>
               PROVE  Source(Head(data'[y])) = c
    OBVIOUS
  <2>1. y \in Xfers /\ y # x
    BY PlacesAre DEF OnePlace
  <2>2. data'[y] = data[y]
    BY <2>1
  <2> QED
    BY <2>2 DEF FlyingInv
<1>7. \A b : Source(b)' = Source(b)
  BY DEF Source
<1> QED
  BY <1>1, <1>3, <1>4, <1>5, <1>6 DEF FlyingInv, Source

LEMMA CompleteOK ==
    ASSUME IInv, Complete
    PROVE  IInv'
<1> DEFINE e == Head(pending)
           x == e.xfer
           rest == Tail(pending)
<1>1. /\ thread \in {"pending", "drainpending"} /\ pending # << >> /\ e.io # "flying"
      /\ pending' = rest /\ ovls' = DL_APPEND(DL_DELETE(ovls, e.ovl), e.ovl)
      /\ (Finish(x) /\ clean' = clean) \/ (Requeue(x) /\ clean' = FALSE)
      /\ thread = "pending" => thread' = "loop" /\ failed' \in BOOLEAN
      /\ thread = "drainpending" => thread' = "drain" /\ failed' = failed
      /\ UNCHANGED <<setup, state, noWaiting, apcs, apcCount, entered, left, lock, call, pc, lost>>
  <2>1. /\ thread \in {"pending", "drainpending"} /\ pending # << >> /\ e.io # "flying"
        /\ pending' = rest /\ ovls' = DL_APPEND(DL_DELETE(ovls, e.ovl), e.ovl)
        /\ UNCHANGED <<setup, state, noWaiting, apcs, apcCount, entered, left, lock, call, pc, lost>>
    BY DEF Complete, callVars
  <2>2. (Finish(x) /\ clean' = clean) \/ (Requeue(x) /\ clean' = FALSE)
    BY DEF Complete
  <2>3. /\ thread = "pending" => thread' = "loop" /\ failed' \in BOOLEAN
        /\ thread = "drainpending" => thread' = "drain" /\ failed' = failed
    BY DEF Complete
  <2> QED
    BY <2>1, <2>2, <2>3
<1>2. /\ ListInv /\ ListTypes /\ NoRepeats /\ OnePlace /\ SomePlace /\ CallInv /\ DataInv
      /\ FlyingInv /\ HandInv /\ SemInv /\ OrderInv /\ ThreadInv /\ setup \in Setups
      /\ CallInv'
      /\ \A c \in Users : Taken(c)' = Taken(c) /\ call'[c].taken = call[c].taken
      /\ Claims' = Claims
      /\ \A s : Own(s)' = Own(s)
  BY <1>1, ThreadFrame
<1>3. e = Head(pending) /\ x = e.xfer /\ rest = Tail(pending)
  OBVIOUS
<1> HIDE DEF e, x, rest
<1>4. /\ e \in PendingType /\ x \in Xfers /\ e.ovl \in Ovls
      /\ rest \in Seq(PendingType) /\ XfersOf(rest) \in Seq(Xfers)
      /\ << e >> \in Seq(PendingType) /\ << x >> \in Seq(Xfers)
      /\ pending = << e >> \o rest /\ XfersOf(pending) = << x >> \o XfersOf(rest)
      /\ IsInjective(XfersOf(rest)) /\ x \notin Range(XfersOf(rest))
      /\ InPending = {x} \cup Range(XfersOf(rest))
      /\ Len(rest) \in Nat /\ Len(pending) = Len(rest) + 1
      /\ \A i \in 1 .. Len(rest) : rest[i] = pending[i + 1]
      /\ \A p \in Range(rest) : p.xfer \in Range(XfersOf(rest))
  <2>1. ListTypes /\ NoRepeats /\ setup \in Setups /\ pending # << >>
    BY <1>1, <1>2
  <2> QED
    BY <1>3, <2>1, OldestIs, ZenonT(60)
<1>5. ThreadInv'
  BY <1>1, <1>2 DEF ThreadInv, FreedIsStopped, At
<1>6. HandInv'
  <2>1. OvlType' = OvlType
    BY DEF OvlType, Links, Ovls
  <2>2. DL_DELETE(ovls, e.ovl) \in OvlType
    BY <1>2, <1>4, DeleteIs DEF HandInv
  <2>3. ovls' \in OvlType
    BY <1>1, <1>4, <2>2, AppendIs
  <2> QED
    BY <1>1, <1>2, <2>1, <2>3 DEF HandInv
<1>7. x \notin InQueued \cup InFinished \cup InTemp \cup InApcs \cup lost /\ \A c \in Users : x \notin Taken(c)
  BY <1>2, <1>4 DEF OnePlace
<1>8. /\ InApcs' = InApcs /\ AllApcs' = AllApcs
      /\ InPending' = Range(XfersOf(rest)) /\ XfersOf(pending)' = XfersOf(rest)
  BY <1>1, SetsKept DEF InPending, XfersOf
<1>9. /\ queued' \in Seq(Xfers) /\ finished' \in Seq(Xfers) /\ finishedTemp' \in Seq(Xfers)
      /\ IsInjective(queued') /\ IsInjective(finished') /\ IsInjective(finishedTemp')
      /\ InQueued' \cap InFinished' = {} /\ InQueued' \cap InTemp' = {} /\ InFinished' \cap InTemp' = {}
      /\ InQueued' \cup InFinished' \cup InTemp' = InQueued \cup InFinished \cup InTemp \cup {x}
      /\ SemInv'
  <2>1. /\ queued \in Seq(Xfers) /\ finished \in Seq(Xfers) /\ finishedTemp \in Seq(Xfers)
        /\ IsInjective(queued) /\ IsInjective(finished) /\ IsInjective(finishedTemp)
        /\ InQueued \cap InFinished = {} /\ InQueued \cap InTemp = {} /\ InFinished \cap InTemp = {}
    BY <1>2 DEF ListTypes, NoRepeats, OnePlace
  <2>2. CASE Finish(x)
    <3>1. queued' = queued /\ InQueued' = InQueued
      BY <2>2, SetsKept DEF Finish
    <3>2. FinishedMoves(x)
      BY <1>1, <1>2, <1>4, <1>7, <2>2, FinishIs
    <3> QED
      BY <1>7, <2>1, <3>1, <3>2 DEF FinishedMoves
  <2>3. CASE Requeue(x)
    <3>1. queued' = Append(queued, x) /\ finished' = finished /\ finishedTemp' = finishedTemp /\ sem' = sem
      BY <2>3 DEF Requeue
    <3>2. InFinished' = InFinished /\ InTemp' = InTemp
      BY <3>1, SetsKept
    <3>3. << x >> \in Seq(Xfers) /\ Range(<< x >>) = {x} /\ IsInjective(<< x >>)
      BY <1>4, OneItem
    <3>4. Append(queued, x) = queued \o << x >>
      BY <1>4, <2>1, AppendIsConcat
    <3>5. queued \o << x >> \in Seq(Xfers)
      BY <2>1, <3>3, ConcatProperties
    <3>6. RangesJoin(queued, << x >>)
      BY <2>1, <3>3, RangesTogether
    <3>7. Range(queued) \cap Range(<< x >>) = {}
      BY <1>7, <3>3 DEF InQueued
    <3>8. IsInjective(queued \o << x >>)
      BY <2>1, <3>3, <3>7, JoinedOnce
    <3>9. InQueued' = InQueued \cup {x}
      BY <3>1, <3>3, <3>4, <3>6 DEF RangesJoin, InQueued
    <3>10. SemInv'
      <4>1. \A c \in Users : pc'[c] = "lock" <=> pc[c] = "lock"
        BY <1>1
      <4> QED
        BY <1>1, <1>2, <3>1, <4>1, SemKept
    <3>11. queued' \in Seq(Xfers) /\ IsInjective(queued')
      BY <3>1, <3>4, <3>5, <3>8
    <3> QED
      BY <1>7, <2>1, <3>1, <3>2, <3>9, <3>10, <3>11
  <2> QED
    BY <1>1, <2>2, <2>3
<1>10. ListInv'
  <2>1. ListTypes'
    BY <1>1, <1>2, <1>4, <1>9, SetupKept DEF ListTypes
  <2>2. NoRepeats'
    BY <1>2, <1>4, <1>8, <1>9 DEF NoRepeats
  <2>3. OnePlace'
    <3> DEFINE U == InQueued \cup InFinished \cup InTemp
               V == InQueued' \cup InFinished' \cup InTemp'
    <3>1. V = U \cup {x}
      BY <1>9
    <3>2. U \cap (InPending \cup InApcs \cup lost) = {} /\ InPending \cap (InApcs \cup lost) = {}
          /\ InApcs \cap lost = {} /\ InPending' = InPending \ {x}
      BY <1>2, <1>4, <1>8 DEF OnePlace
    <3>3. V \cap (InPending' \cup InApcs \cup lost) = {} /\ InPending' \cap (InApcs \cup lost) = {}
      BY <1>7, <3>1, <3>2
    <3>4. \A c \in Users : Taken(c) \cap (V \cup InPending' \cup InApcs \cup lost) = {}
      BY <1>2, <1>7, <3>1, <3>2 DEF OnePlace
    <3>5. \A c, d \in Users : c # d => Taken(c) \cap Taken(d) = {}
      BY <1>2 DEF OnePlace
    <3>6. InApcs' = InApcs /\ lost' = lost /\ InApcs \cap lost = {}
      BY <1>1, <1>8, <3>2
    <3> QED
      BY <1>2, <1>9, <3>3, <3>4, <3>5, <3>6 DEF OnePlace
  <2>4. SomePlace'
    BY <1>1, <1>2, <1>4, <1>8, <1>9, SetupKept DEF SomePlace
  <2> QED
    BY <2>1, <2>2, <2>3, <2>4 DEF ListInv
<1>11. /\ data' \in [Xfers -> Seq(ByteType)] /\ \A y \in Xfers : Len(data'[y]) <= MaxTransferSize
       /\ \A y \in Xfers \ {x} : data'[y] = data[y]
       /\ pipe = "IN" => data' = data
  <2>1. data \in [Xfers -> Seq(ByteType)] /\ \A y \in Xfers : Len(data[y]) <= MaxTransferSize
    BY <1>2 DEF DataInv
  <2>2. << >> \in Seq(ByteType) /\ Len(<< >>) <= MaxTransferSize
    BY InitAssumption, EmptySeq
  <2>3. data' = data \/ (pipe = "OUT" /\ data' = [data EXCEPT ![x] = << >>])
    BY <1>1 DEF Finish, Requeue
  <2> QED
    BY <1>4, <2>1, <2>2, <2>3
<1>12. DataInv'
  <2>1. \A c \in Users : call'[c].saved = call[c].saved
    BY <1>1
  <2> QED
    BY <1>1, <1>2, <1>11, <2>1, SetupKept DEF DataInv
<1>13. clean' \in BOOLEAN /\ (clean' => clean /\ Finish(x))
  <2>1. clean \in BOOLEAN
    BY <1>2 DEF OrderInv
  <2>2. CASE Finish(x) /\ clean' = clean
    BY <2>1, <2>2
  <2>3. CASE Requeue(x) /\ clean' = FALSE
    BY <2>3
  <2> QED
    BY <1>1, <2>2, <2>3
<1>14. FlyingInv'
  <2>1. clean' => clean
    BY <1>13
  <2>2. x \in InPending
    BY <1>4
  <2> QED
    BY <1>1, <1>2, <1>4, <1>11, <2>1, <2>2, RestFlies
<1>15. ASSUME clean', NEW s PROVE OnTheWay(s)' = OnTheWay(s)
  <2>1. ListTypes' /\ data \in [Xfers -> Seq(ByteType)] /\ Finish(x) /\ pipe' = pipe
    BY <1>1, <1>2, <1>10, <1>13, <1>15, SetupKept DEF ListInv, DataInv
  <2>2. CASE pipe = "IN"
    <3> DEFINE F == CarryAll(data, s, finished)
               T == CarryAll(data, s, finishedTemp)
               X == CarryAll(data, s, << x >>)
               P == CarryAll(data, s, XfersOf(rest))
    <3>1. OnTheWay(s) = (F \o T) \o CarryAll(data, s, XfersOf(pending))
      BY <1>2, <2>2, WayIn
    <3>2. OnTheWay(s)' = (CarryAll(data', s, finished') \o CarryAll(data', s, finishedTemp'))
                            \o CarryAll(data', s, XfersOf(pending'))
      BY <1>12, <2>1, <2>2, WayInNext
    <3>3. FinishedCarry(data, s, x)
      BY <1>1, <1>2, <1>4, <1>7, <2>1, FinishIs
    <3>4. CarriesJoin(data, s, << x >>, XfersOf(rest))
      BY <1>4, <2>1, CarriesTogether
    <3>5. CarryAll(data, s, XfersOf(pending)) = X \o P
      BY <1>4, <3>4 DEF CarriesJoin
    <3>6. finished \in Seq(Xfers) /\ finishedTemp \in Seq(Xfers)
      BY <1>2 DEF ListTypes
    <3>7. F \in Seq(ByteType) /\ T \in Seq(ByteType) /\ X \in Seq(ByteType) /\ P \in Seq(ByteType)
      BY <1>4, <2>1, <3>6, CarryIs
    <3>8. OnTheWay(s)' = ((F \o T) \o X) \o P
      BY <1>1, <1>11, <2>2, <3>2, <3>3 DEF FinishedCarry
    <3> HIDE DEF F, T, X, P
    <3> DEFINE u == F \o T
    <3>9. u \in Seq(ByteType)
      BY <3>7, ConcatProperties
    <3>10. OnTheWay(s) = u \o (X \o P) /\ OnTheWay(s)' = (u \o X) \o P
      BY <3>1, <3>5, <3>8
    <3> HIDE DEF u
    <3>11. (u \o X) \o P = u \o (X \o P)
      BY <3>7, <3>9, ConcatAssociative, SMTT(40)
    <3> QED
      BY <3>10, <3>11
  <2>3. CASE pipe = "OUT"
    <3>1. OnTheWay(s) = CarryAll(FlyBytes(data), s, pending)
              \o ((CarryAll(data, s, queued) \o CarryAll(data, s, AllApcs)) \o CarryAll(data, s, Own(s)))
      BY <1>2, <2>3, WayOut
    <3>2. OnTheWay(s)' = CarryAll(FlyBytes(data'), s, pending')
              \o ((CarryAll(data', s, queued') \o CarryAll(data', s, AllApcs')) \o CarryAll(data', s, Own(s)'))
      BY <1>1, <1>2, <1>12, <2>1, <2>3, WayOutNext
    <3>3. CarryAll(FlyBytes(data'), s, rest) = CarryAll(FlyBytes(data), s, pending)
      BY <1>1, <1>4, <1>11, <2>1, RestCarries, ZenonT(60)
    <3>4. queued \in Seq(Xfers) /\ AllApcs \in Seq(Xfers) /\ Own(s) \in Seq(Xfers)
      BY <1>2, OwnIs, PlacesAre DEF ListTypes
    <3>5. /\ \A y \in Range(queued) : data[y] = data'[y]
          /\ \A y \in Range(AllApcs) : data[y] = data'[y]
      BY <1>2, <1>7, <1>11, PlacesAre DEF InQueued, InApcs
    <3>6. \A y \in Range(Own(s)) : data[y] = data'[y]
      <4>1. CASE s \in Users
        BY <1>2, <1>7, <1>11, <4>1, OwnIs, PlacesAre
      <4>2. CASE s \notin Users
        BY <1>2, <4>2, OwnIs, NoItems
      <4> QED
        BY <4>1, <4>2
    <3>7. CarryAll(data', s, queued) = CarryAll(data, s, queued)
      BY <3>4, <3>5, CarrySame
    <3>8. CarryAll(data', s, AllApcs) = CarryAll(data, s, AllApcs)
      BY <3>4, <3>5, CarrySame
    <3>9. CarryAll(data', s, Own(s)) = CarryAll(data, s, Own(s))
      BY <3>4, <3>6, CarrySame
    <3>10. queued' = queued /\ pending' = rest /\ AllApcs' = AllApcs /\ Own(s)' = Own(s)
      BY <1>1, <1>2, <1>8, <2>1 DEF Finish
    <3> QED
      BY <3>1, <3>2, <3>3, <3>7, <3>8, <3>9, <3>10
  <2> QED
    BY <1>2, <2>2, <2>3, SetupIs
<1>16. OrderInv'
  <2>1. clean' => clean
    BY <1>13
  <2>2. clean' => \A s \in Sources : OnTheWay(s)' = OnTheWay(s)
    BY <1>15
  <2> QED
    BY <1>1, <1>2, <1>13, <2>1, <2>2, OrderKept
<1> QED
  BY <1>2, <1>5, <1>6, <1>9, <1>10, <1>12, <1>14, <1>16 DEF IInv

-----------------------------------------------------------------------------
(***************************************************************************)
(* The end of a thread, and transfers that end.                            *)
(***************************************************************************)

\* The thread ends with APCs it has not run: their transfers are lost.
LEMMA EndOK ==
    ASSUME IInv, End
    PROVE  IInv'
<1>1. /\ thread = "ending" /\ state' = "STOPPED" /\ thread' = "none" /\ apcs' = << >>
      /\ ovls' = EmptyOvls /\ lost' = lost \cup InApcs
      /\ clean' = (clean /\ (pipe = "OUT" => InApcs = {})) /\ failed' = FALSE /\ noWaiting' = FALSE
      /\ UNCHANGED <<setup, apcCount, queued, pending, finished, finishedTemp, data, entered, left,
                     lock, sem, call, pc, freed>>
  BY DEF End, lists, bytes, callVars, InApcs, AllApcs
<1>2. /\ ListInv /\ ListTypes /\ NoRepeats /\ OnePlace /\ SomePlace /\ CallInv /\ DataInv
      /\ FlyingInv /\ HandInv /\ SemInv /\ OrderInv /\ ThreadInv /\ setup \in Setups
      /\ CallInv'
      /\ \A c \in Users : Taken(c)' = Taken(c) /\ call'[c].taken = call[c].taken
      /\ Claims' = Claims
      /\ \A s : Own(s)' = Own(s)
  BY <1>1, ThreadFrame
<1>3. AllApcs' = << >> /\ InApcs' = {} /\ IsInjective(AllApcs') /\ apcs' = << >>
  BY <1>1, FlatEmpty, NoItems DEF AllApcs, InApcs
<1>4. clean' \in BOOLEAN /\ (clean' => clean /\ (pipe = "OUT" => InApcs = {}))
  <2>1. clean \in BOOLEAN
    BY <1>2 DEF OrderInv
  <2> QED
    BY <1>1, <2>1
<1>5. ThreadInv'
  BY <1>1, <1>2 DEF ThreadInv, FreedIsStopped, At
<1>6. HandInv'
  <2>1. OvlType' = OvlType /\ EmptyOvls \in OvlType
    BY InitAssumption DEF OvlType, Links, Ovls, EmptyOvls, NULL
  <2> QED
    BY <1>1, <1>2, <2>1 DEF HandInv
<1>7. /\ InPending' = InPending /\ InFinished' = InFinished /\ InTemp' = InTemp /\ InQueued' = InQueued
      /\ XfersOf(pending)' = XfersOf(pending)
  BY <1>1, SetsKept
<1>8. ListInv'
  <2>1. ListTypes'
    <3>1. apcs' \in Seq(Seq(Xfers)) /\ \A i \in DOMAIN apcs' : Len(apcs'[i]) <= MaxPendingTransfers
      BY <1>3
    <3>2. lost' \in SUBSET Xfers
      BY <1>1, <1>2, PlacesAre DEF ListTypes
    <3> QED
      BY <1>1, <1>2, <3>1, <3>2, SetupKept DEF ListTypes
  <2>2. NoRepeats'
    BY <1>1, <1>2, <1>3, <1>7 DEF NoRepeats
  <2>3. OnePlace'
    BY <1>1, <1>2, <1>3, <1>7 DEF OnePlace
  <2>4. SomePlace'
    BY <1>1, <1>2, <1>3, <1>7, SetupKept DEF SomePlace
  <2> QED
    BY <2>1, <2>2, <2>3, <2>4 DEF ListInv
<1>9. SemInv'
  <2>1. \A c \in Users : pc'[c] = "lock" <=> pc[c] = "lock"
    BY <1>1
  <2> QED
    BY <1>1, <1>2, <2>1, SemKept
<1>10. DataInv'
  BY <1>1, <1>2, DataKept DEF DataInv
<1>11. FlyingInv'
  BY <1>1, <1>2, <1>4, FlyingKept
<1>12. ASSUME clean', NEW s PROVE OnTheWay(s)' = OnTheWay(s)
  <2>1. CASE pipe = "IN"
    <3>1. \A x \in InFinished \cup InTemp \cup InPending : data'[x] = data[x]
      BY <1>1
    <3> QED
      BY <1>1, <1>2, <1>8, <1>10, <2>1, <3>1, WayInKept
  <2>2. CASE pipe = "OUT"
    <3>1. AllApcs = << >>
      <4>1. AllApcs \in Seq(Xfers) /\ Range(AllApcs) = {}
        BY <1>2, <1>4, <1>12, <2>2, PlacesAre DEF InApcs
      <4>2. AllApcs # << >> => Head(AllApcs) \in Range(AllApcs)
        <5> HAVE AllApcs # << >>
        <5>1. Len(AllApcs) \in Nat \ {0} /\ Head(AllApcs) = AllApcs[1]
          BY <4>1, EmptySeq
        <5>2. 1 \in 1 .. Len(AllApcs) /\ AllApcs \in Seq(Xfers)
          BY <4>1, <5>1
        <5>3. AllApcs[1] \in Range(AllApcs)
          BY <5>2, RangeIs
        <5> QED
          BY <5>1, <5>3
      <4> QED
        BY <4>1, <4>2
    <3>2. AllApcs' = AllApcs /\ ListTypes'
      BY <1>3, <1>8, <3>1 DEF ListInv
    <3> QED
      BY <1>1, <1>2, <1>10, <2>2, <3>2, WayOutKept
  <2> QED
    BY <1>2, <2>1, <2>2, SetupIs
<1>13. OrderInv'
  <2>1. clean' => clean
    BY <1>4
  <2>2. clean' => \A s \in Sources : OnTheWay(s)' = OnTheWay(s)
    BY <1>12
  <2> QED
    BY <1>1, <1>2, <1>4, <2>1, <2>2, OrderKept
<1> QED
  BY <1>2, <1>5, <1>6, <1>8, <1>9, <1>10, <1>11, <1>13 DEF IInv

\* Some pending transfers have ended; no transfer has moved.
LEMMA IoFrame ==
    ASSUME IInv, NEW p \in Seq(PendingType), pending' = p, Len(p) = Len(pending),
           \A i \in 1 .. Len(pending) : p[i].xfer = pending[i].xfer,
           UNCHANGED <<setup, apcs, queued, finished, finishedTemp, lock, sem, call, pc, lost>>
    PROVE  /\ ListInv /\ ListTypes /\ NoRepeats /\ OnePlace /\ SomePlace /\ CallInv /\ DataInv
           /\ FlyingInv /\ HandInv /\ SemInv /\ OrderInv /\ ThreadInv /\ setup \in Setups
           /\ CallInv' /\ ListInv' /\ ListTypes' /\ SemInv'
           /\ \A c \in Users : Taken(c)' = Taken(c) /\ call'[c].taken = call[c].taken
           /\ \A s : Own(s)' = Own(s)
           /\ XfersOf(p) = XfersOf(pending) /\ AllApcs' = AllApcs
           /\ InFinished' = InFinished /\ InTemp' = InTemp /\ InPending' = InPending
<1>1. /\ ListInv /\ ListTypes /\ NoRepeats /\ OnePlace /\ SomePlace /\ CallInv /\ DataInv
      /\ FlyingInv /\ HandInv /\ SemInv /\ OrderInv /\ ThreadInv /\ setup \in Setups
      /\ CallInv'
      /\ \A c \in Users : Taken(c)' = Taken(c) /\ call'[c].taken = call[c].taken
      /\ \A s : Own(s)' = Own(s)
  BY ThreadFrame
<1>2. XfersOf(p) = XfersOf(pending)
  <2>1. pending \in Seq(PendingType)
    BY <1>1 DEF ListTypes
  <2>2. DOMAIN p = DOMAIN pending /\ DOMAIN pending = 1 .. Len(pending)
    BY <2>1
  <2> QED
    BY <2>2 DEF XfersOf
<1>3. XfersOf(pending)' = XfersOf(pending) /\ InPending' = InPending
  BY <1>2 DEF XfersOf, InPending
<1>4. /\ InFinished' = InFinished /\ InTemp' = InTemp /\ InQueued' = InQueued /\ InApcs' = InApcs
      /\ AllApcs' = AllApcs
  BY SetsKept
<1>5. ListTypes'
  BY <1>1, SetupKept DEF ListTypes
<1>6. ListInv'
  <2>1. NoRepeats'
    BY <1>1, <1>3, <1>4 DEF NoRepeats
  <2>2. OnePlace'
    BY <1>1, <1>3, <1>4 DEF OnePlace
  <2>3. SomePlace'
    BY <1>1, <1>3, <1>4, SetupKept DEF SomePlace
  <2> QED
    BY <1>5, <2>1, <2>2, <2>3 DEF ListInv
<1>7. SemInv'
  <2>1. \A c \in Users : pc'[c] = "lock" <=> pc[c] = "lock"
    OBVIOUS
  <2> QED
    BY <1>1, <2>1, SemKept
<1> QED
  BY <1>1, <1>2, <1>3, <1>4, <1>5, <1>6, <1>7

LEMMA WaitTimeoutOK ==
    ASSUME IInv, WaitTimeout
    PROVE  IInv'
<1>1. ThreadInv'
  BY DEF WaitTimeout, IInv, ThreadInv, FreedIsStopped, At, callVars
<1>2. HandInv'
  <2>1. OvlType' = OvlType
    BY DEF OvlType, Links, Ovls
  <2> QED
    BY <2>1 DEF WaitTimeout, IInv, HandInv
<1>3. CASE UNCHANGED <<noWaiting, pending, clean>>
  <2>1. Quiet /\ apcs' = apcs
    BY <1>3 DEF WaitTimeout, Quiet, bytes, callVars
  <2> QED
    BY <1>1, <1>2, <2>1, QuietThreadOK
<1> DEFINE p == [i \in DOMAIN pending |->
                    IF pending[i].io = "flying" THEN [pending[i] EXCEPT !.io = "cancelled"]
                    ELSE pending[i]]
<1>4. CASE pending' = p /\ clean' = (clean /\ pipe = "IN")
  <2>1. UNCHANGED <<setup, apcs, queued, finished, finishedTemp, lock, sem, call, pc, lost, data,
                    entered, left>>
    BY DEF WaitTimeout, bytes, callVars
  <2>2. pending \in Seq(PendingType)
    BY DEF IInv, ListInv, ListTypes
  <2>3. /\ p \in Seq(PendingType) /\ Len(p) = Len(pending)
        /\ \A i \in 1 .. Len(pending) : p[i].xfer = pending[i].xfer /\ p[i].io # "flying"
    <3>1. DOMAIN pending = 1 .. Len(pending) /\ Len(pending) \in Nat
      BY <2>2
    <3>2. \A i \in 1 .. Len(pending) : pending[i] \in PendingType
      BY <2>2
    <3>3. \A i \in 1 .. Len(pending) :
             p[i] \in PendingType /\ p[i].xfer = pending[i].xfer /\ p[i].io # "flying"
      BY <3>1, <3>2 DEF PendingType
    <3> QED
      BY <3>1, <3>3
  <2>4. pending' = p
    BY <1>4
  <2> HIDE DEF p
  <2>5. /\ ListInv /\ ListTypes /\ NoRepeats /\ OnePlace /\ SomePlace /\ CallInv /\ DataInv
        /\ FlyingInv /\ HandInv /\ SemInv /\ OrderInv /\ ThreadInv /\ setup \in Setups
        /\ CallInv' /\ ListInv' /\ ListTypes' /\ SemInv'
        /\ \A c \in Users : Taken(c)' = Taken(c) /\ call'[c].taken = call[c].taken
        /\ \A s : Own(s)' = Own(s)
        /\ XfersOf(p) = XfersOf(pending) /\ AllApcs' = AllApcs
        /\ InFinished' = InFinished /\ InTemp' = InTemp /\ InPending' = InPending
    BY <2>1, <2>3, <2>4, IoFrame
  <2>6. DataInv'
    BY <2>1, <2>5, DataKept DEF DataInv
  <2>7. clean' \in BOOLEAN /\ (clean' => clean /\ pipe = "IN")
    <3>1. clean \in BOOLEAN
      BY <2>5 DEF OrderInv
    <3> QED
      BY <1>4, <3>1
  <2>8. pipe' = pipe /\ DOMAIN p = 1 .. Len(pending)
    BY <2>1, <2>3, SetupKept
  <2>9. FlyingInv'
    BY <2>3, <2>4, <2>5, <2>7, <2>8 DEF FlyingInv
  <2>10. ASSUME clean', NEW s PROVE OnTheWay(s)' = OnTheWay(s)
    <3>1. pipe = "IN"
      BY <2>7, <2>10
    <3>2. OnTheWay(s) = (CarryAll(data, s, finished) \o CarryAll(data, s, finishedTemp))
                            \o CarryAll(data, s, XfersOf(pending))
      BY <2>5, <3>1, WayIn
    <3>3. OnTheWay(s)' = (CarryAll(data', s, finished') \o CarryAll(data', s, finishedTemp'))
                            \o CarryAll(data', s, XfersOf(pending'))
      BY <2>5, <2>6, <2>8, <3>1, WayInNext
    <3> QED
      BY <2>1, <2>4, <2>5, <3>2, <3>3
  <2>11. OrderInv'
    <3>1. clean' => clean
      BY <2>7
    <3>2. clean' => \A s \in Sources : OnTheWay(s)' = OnTheWay(s)
      BY <2>10
    <3> QED
      BY <2>1, <2>5, <2>7, <3>1, <3>2, OrderKept
  <2> QED
    BY <1>1, <1>2, <2>5, <2>6, <2>9, <2>11 DEF IInv
<1> QED
  BY <1>3, <1>4 DEF WaitTimeout

\* The first transfer in flight ends.
Ends(p, i, v) ==
    /\ p \in Seq(PendingType) /\ Len(p) = Len(pending) /\ i \in 1 .. Len(pending)
    /\ \A j \in 1 .. Len(pending) : p[j].xfer = pending[j].xfer /\ (j # i => p[j] = pending[j])
    /\ p[i].io = v /\ pending[i].io = "flying" /\ \A j \in 1 .. i - 1 : pending[j].io # "flying"
    /\ \A j, k \in 1 .. Len(pending) : j < k /\ p[j].io = "flying" => p[k].io = "flying"

LEMMA EndsIs ==
    ASSUME FlyingInv, pending \in Seq(PendingType), NEW i, FirstFlying(i), NEW v \in {"done", "failed"}
    PROVE  Ends([pending EXCEPT ![i].io = v], i, v)
<1> DEFINE p == [pending EXCEPT ![i].io = v]
           n == Len(pending)
<1>1. n \in Nat /\ DOMAIN pending = 1 .. n
  OBVIOUS
<1>2. i \in 1 .. n /\ pending[i].io = "flying" /\ \A j \in 1 .. i - 1 : pending[j].io # "flying"
  BY <1>1 DEF FirstFlying
<1>3. \A j \in 1 .. n : pending[j] \in PendingType
  OBVIOUS
<1> HIDE DEF n
<1>4. p = [j \in 1 .. n |-> IF j = i THEN [pending[i] EXCEPT !.io = v] ELSE pending[j]]
  BY <1>1, <1>2
<1>5. [pending[i] EXCEPT !.io = v] \in PendingType
  BY <1>2, <1>3 DEF PendingType
<1>6. /\ [pending[i] EXCEPT !.io = v].io = v
      /\ [pending[i] EXCEPT !.io = v].xfer = pending[i].xfer
  BY <1>2, <1>3 DEF PendingType
<1> HIDE DEF p
<1>7. p \in Seq(PendingType) /\ Len(p) = n
  <2>1. \A j \in 1 .. n : p[j] \in PendingType
    BY <1>3, <1>4, <1>5
  <2>2. p \in [1 .. n -> PendingType]
    BY <1>4, <2>1
  <2> QED
    BY <1>1, <2>2
<1>8. \A j \in 1 .. n : p[j].xfer = pending[j].xfer /\ (j # i => p[j] = pending[j])
  BY <1>4, <1>6
<1>9. p[i].io = v
  BY <1>2, <1>4, <1>6
<1>10. ASSUME NEW j \in 1 .. n, NEW k \in 1 .. n, j < k, p[j].io = "flying" PROVE p[k].io = "flying"
  <2>1. j # i /\ p[j] = pending[j]
    BY <1>8, <1>9, <1>10
  <2>2. pending[k].io = "flying"
    BY <1>1, <1>10, <2>1 DEF FlyingInv
  <2>3. k # i
    <3>1. \A m \in 1 .. i - 1 : pending[m].io # "flying"
      BY <1>2
    <3>2. pending[j].io = "flying"
      BY <1>10, <2>1
    <3>3. k = i => j \in 1 .. i - 1
      BY <1>1, <1>2, <1>10
    <3> QED
      BY <3>1, <3>2, <3>3
  <2> QED
    BY <1>8, <2>2, <2>3
<1> QED
  BY <1>1, <1>2, <1>7, <1>8, <1>9, <1>10 DEF Ends, n, p

LEMMA DeviceFailsOK ==
    ASSUME IInv, DeviceFails
    PROVE  IInv'
<1>1. PICK i : FirstFlying(i) /\ pending' = [pending EXCEPT ![i].io = "failed"] /\ clean' = FALSE
  BY DEF DeviceFails
<1>2. /\ UNCHANGED <<setup, apcs, queued, finished, finishedTemp, lock, sem, call, pc, lost>>
      /\ UNCHANGED <<state, thread, failed, noWaiting, apcCount, data, entered, left, ovls>>
  BY DEF DeviceFails, threadVars, bytes, callVars
<1> DEFINE p == [pending EXCEPT ![i].io = "failed"]
<1>3. Ends(p, i, "failed")
  BY <1>1, EndsIs DEF IInv, ListInv, ListTypes
<1>4. pending' = p
  BY <1>1
<1> HIDE DEF p
<1>5. /\ p \in Seq(PendingType) /\ Len(p) = Len(pending)
      /\ \A j \in 1 .. Len(pending) : p[j].xfer = pending[j].xfer
      /\ \A j, k \in 1 .. Len(pending) : j < k /\ p[j].io = "flying" => p[k].io = "flying"
  BY <1>3 DEF Ends
<1>6. /\ DataInv /\ HandInv /\ ThreadInv /\ CallInv' /\ ListInv' /\ SemInv' /\ CallInv
  BY <1>2, <1>4, <1>5, IoFrame
<1>7. ThreadInv'
  BY <1>2, <1>6, ThreadKept
<1>8. HandInv'
  BY <1>2, <1>6, HandKept DEF HandInv
<1>9. DataInv'
  BY <1>2, <1>6, DataKept DEF DataInv
<1>10. FlyingInv'
  <2>1. DOMAIN p = 1 .. Len(pending)
    BY <1>5
  <2> QED
    <3>1. (\A j, k \in DOMAIN pending : j < k /\ pending[j].io = "flying" => pending[k].io = "flying")'
      BY <1>4, <1>5, <2>1
    <3>2. ~clean'
      BY <1>1
    <3> QED
      BY <3>1, <3>2 DEF FlyingInv
<1>11. OrderInv'
  BY <1>1 DEF OrderInv, InOrder
<1> QED
  BY <1>6, <1>7, <1>8, <1>9, <1>10, <1>11 DEF IInv

\* What the device does to the bytes.
LEMMA MovesIs ==
    ASSUME DataInv, setup \in Setups, NEW x \in Xfers, DeviceMoves(x)
    PROVE  /\ pipe = "IN" =>
                 \E n \in Nat :
                    /\ n <= MaxTransferSize
                    /\ data' = [data EXCEPT ![x] = Run(Device, entered[Device], entered[Device] + n)]
                    /\ entered' = [entered EXCEPT ![Device] = @ + n] /\ left' = left
           /\ pipe = "OUT" => left' = Out(data[x]) /\ data' = data /\ entered' = entered
<1>1. CASE pipe = "IN"
  <2>1. PICK n \in 0 .. Smaller(MaxTransferSize, MaxBytes - entered[Device]) :
            /\ data' = [data EXCEPT ![x] = [k \in 1 .. n |-> <<Device, entered[Device] + k>>]]
            /\ entered' = [entered EXCEPT ![Device] = @ + n] /\ left' = left
    BY <1>1 DEF DeviceMoves
  <2>2. entered[Device] \in Int /\ MaxBytes \in Int /\ MaxTransferSize \in Nat
    BY InitAssumption, BoundAssumption DEF DataInv, Sources
  <2>3. n \in Nat /\ n <= MaxTransferSize
    BY <2>2 DEF Smaller
  <2>4. (entered[Device] + n) - entered[Device] = n
    BY <2>2, <2>3
  <2>5. [k \in 1 .. n |-> <<Device, entered[Device] + k>>] = Run(Device, entered[Device], entered[Device] + n)
    BY <2>4 DEF Run
  <2> QED
    BY <1>1, <2>1, <2>3, <2>5
<1>2. CASE pipe = "OUT"
  BY <1>2 DEF DeviceMoves
<1> QED
  BY <1>1, <1>2, SetupIs

\* How a list is cut, in a form the provers can use by name.
CutsInto(T, s, n, u, v) ==
    /\ u \in Seq(T) /\ Len(u) = n /\ \A i \in 1 .. n : u[i] = s[i]
    /\ v \in Seq(T) /\ Len(v) = Len(s) - n /\ \A i \in 1 .. Len(s) - n : v[i] = s[n + i]
    /\ u \o v = s
CutsOne(s, m, u, w) == w = u \o << s[m] >>

LEMMA CutInto ==
    ASSUME NEW T, NEW s \in Seq(T), NEW n \in 0 .. Len(s)
    PROVE  CutsInto(T, s, n, Prefix(s, n), Suffix(s, Len(s) - n))
BY Cut DEF CutsInto

LEMMA CutOne ==
    ASSUME NEW T, NEW s \in Seq(T), NEW m \in 1 .. Len(s)
    PROVE  CutsOne(s, m, Prefix(s, m - 1), Prefix(s, m))
<1>1. Prefix(s, m) = Prefix(s, m - 1) \o << s[m] >>
  BY CutAt, Zenon
<1> QED
  BY <1>1 DEF CutsOne

\* A read ends: what the device has sent follows the bytes that are on their way.
LEMMA ReadEnds ==
    ASSUME ListInv, DataInv, CallInv, FlyingInv, setup \in Setups, clean, pipe = "IN",
           NEW p, NEW i, Ends(p, i, "done"), NEW x \in Xfers, x = pending[i].xfer, NEW r \in Seq(ByteType),
           NEW d \in [Xfers -> Seq(ByteType)], d[x] = r, \A z \in Xfers \ {x} : d[z] = data[z]
    PROVE  /\ CarryAll(d, Device, XfersOf(pending)) = CarryAll(data, Device, XfersOf(pending)) \o r
           /\ CarryAll(d, Device, finished) = CarryAll(data, Device, finished)
           /\ CarryAll(d, Device, finishedTemp) = CarryAll(data, Device, finishedTemp)
<1> DEFINE l == XfersOf(pending)
           a == Prefix(l, i - 1)
           b == Suffix(l, Len(l) - i)
           y == << x >>
           C(k) == CarryAll(data, Device, k)
           D(k) == CarryAll(d, Device, k)
<1>1. /\ l \in Seq(Xfers) /\ Len(l) = Len(pending) /\ i \in 1 .. Len(l) /\ Len(l) \in Nat
      /\ \A j \in 1 .. Len(l) : l[j] = pending[j].xfer
      /\ IsInjective(l)
  BY XfersAre DEF Ends, ListInv, ListTypes, NoRepeats
<1>2. l[i] = x /\ Range(l) = InPending
  BY <1>1 DEF InPending
<1>3. /\ data \in [Xfers -> Seq(ByteType)] /\ finished \in Seq(Xfers) /\ finishedTemp \in Seq(Xfers)
  BY DEF DataInv, ListInv, ListTypes
<1> HIDE DEF l
<1>4. y \in Seq(Xfers)
  BY OneItem
<1>5. i \in 0 .. Len(l) /\ i - 1 \in 0 .. Len(l)
  BY <1>1
<1>6. /\ a \in Seq(Xfers) /\ Len(a) = i - 1 /\ \A j \in 1 .. i - 1 : a[j] = l[j]
      /\ b \in Seq(Xfers) /\ Len(b) = Len(l) - i /\ \A j \in 1 .. Len(l) - i : b[j] = l[i + j]
  <2>1. l \in Seq(Xfers)
    BY <1>1
  <2>2. CutsInto(Xfers, l, i - 1, a, Suffix(l, Len(l) - (i - 1)))
    BY <1>5, <2>1, CutInto
  <2>3. CutsInto(Xfers, l, i, Prefix(l, i), b)
    BY <1>5, <2>1, CutInto
  <2> HIDE DEF a, b
  <2> QED
    BY <2>2, <2>3 DEF CutsInto
<1>7. l = (a \o y) \o b
  <2>1. l \in Seq(Xfers) /\ i \in 1 .. Len(l)
    BY <1>1
  <2>2. CutsOne(l, i, a, Prefix(l, i))
    BY <2>1, CutOne
  <2>3. CutsInto(Xfers, l, i, Prefix(l, i), b)
    BY <1>5, <2>1, CutInto
  <2> HIDE DEF a, b
  <2> QED
    BY <1>2, <2>2, <2>3 DEF CutsInto, CutsOne
<1>8. x \in Range(l)
  BY <1>1, <1>2, RangeIs
<1>9. \A j \in 1 .. Len(l) : j # i => l[j] # x
  BY <1>1, <1>2 DEF IsInjective
<1>10. \A z \in Xfers \ {x} : d[z] = data[z]
  OBVIOUS
<1>11. d[x] = r
  OBVIOUS
<1> HIDE DEF a, b, y
<1>12. \A z \in Range(a) : data[z] = d[z]
  <2> TAKE z \in Range(a)
  <2>1. PICK j \in 1 .. i - 1 : a[j] = z
    BY <1>6, RangeIs
  <2>2. j \in 1 .. Len(l) /\ j # i /\ l[j] = z /\ l[j] \in Xfers
    BY <1>1, <1>6, <2>1, SMTT(40)
  <2> QED
    BY <1>9, <1>10, <2>2
<1>13. \A z \in Range(b) : data[z] = << >> /\ d[z] = << >>
  <2> TAKE z \in Range(b)
  <2>1. PICK j \in 1 .. Len(l) - i : b[j] = z
    BY <1>6, RangeIs
  <2>2. i + j \in 1 .. Len(l) /\ i + j # i /\ i < i + j /\ l[i + j] = z /\ l[i + j] \in Xfers
    BY <1>1, <1>6, <2>1, SMTT(40)
  <2>3. DOMAIN pending = 1 .. Len(l)
    BY <1>1 DEF ListInv, ListTypes
  <2>4. pending[i].io = "flying" /\ i \in DOMAIN pending /\ i + j \in DOMAIN pending
    BY <1>1, <2>2, <2>3 DEF Ends
  <2>5. pending[i + j].io = "flying"
    BY <2>2, <2>4 DEF FlyingInv
  <2>6. data[pending[i + j].xfer] = << >>
    BY <2>4, <2>5 DEF FlyingInv
  <2>7. data[z] = << >> /\ z # x /\ z \in Xfers
    BY <1>1, <1>9, <2>2, <2>6
  <2> QED
    BY <1>10, <2>7
<1>14. data[x] = << >>
  <2>1. i \in DOMAIN pending /\ pending[i].io = "flying"
    BY <1>1 DEF Ends, ListInv, ListTypes
  <2> QED
    BY <2>1 DEF FlyingInv
<1>15. a \o y \in Seq(Xfers)
  BY <1>4, <1>6, ConcatProperties
<1>16. C(l) = (C(a) \o C(y)) \o C(b) /\ D(l) = (D(a) \o D(y)) \o D(b)
  <2>1. CarriesJoin(data, Device, a \o y, b) /\ CarriesJoin(d, Device, a \o y, b)
    BY <1>3, <1>6, <1>15, CarriesTogether
  <2>2. CarriesJoin(data, Device, a, y) /\ CarriesJoin(d, Device, a, y)
    BY <1>3, <1>4, <1>6, CarriesTogether
  <2> QED
    BY <1>7, <2>1, <2>2 DEF CarriesJoin
<1>17. D(a) = C(a)
  <2>1. a \in Seq(Xfers)
    BY <1>6
  <2> QED
    BY <1>12, <2>1, CarrySame
<1>18. C(b) = << >> /\ D(b) = << >>
  <2>1. (\A z \in Range(b) : Carry(data, Device, z) = << >>) /\ \A z \in Range(b) : Carry(d, Device, z) = << >>
    BY <1>13 DEF Carry
  <2>2. b \in Seq(Xfers)
    BY <1>6
  <2>3. C(b) = << >>
    BY <2>1, <2>2, CarryNone
  <2>4. D(b) = << >>
    BY <2>1, <2>2, CarryNone
  <2> QED
    BY <2>3, <2>4
<1>19. C(y) = << >> /\ D(y) = r
  BY <1>3, <1>11, <1>14, CarryInOne DEF y
<1>20. C(a) \in Seq(ByteType)
  BY <1>3, <1>6, CarryIs
<1>21. x \notin InFinished /\ x \notin InTemp
  BY <1>2, <1>8 DEF ListInv, OnePlace
<1>22. D(finished) = C(finished)
  <2>1. \A z \in Range(finished) : data[z] = d[z]
    BY <1>10, <1>21, PlacesAre DEF InFinished, ListInv
  <2> QED
    BY <1>3, <2>1, CarrySame
<1>23. D(finishedTemp) = C(finishedTemp)
  <2>1. \A z \in Range(finishedTemp) : data[z] = d[z]
    BY <1>10, <1>21, PlacesAre DEF InTemp, ListInv
  <2> QED
    BY <1>3, <2>1, CarrySame
<1> HIDE DEF C, D
<1>24. (C(a) \o << >>) \o << >> = C(a)
  BY <1>20, ConcatEmptySeq
<1>25. C(a) \o r \in Seq(ByteType)
  BY <1>20, ConcatProperties
<1>26. (C(a) \o r) \o << >> = C(a) \o r
  BY <1>25, ConcatEmptySeq
<1>27. D(l) = C(l) \o r
  BY <1>16, <1>17, <1>18, <1>19, <1>24, <1>26
<1> QED
  BY <1>22, <1>23, <1>27 DEF C, D, l

\* A write ends: the oldest bytes of its transfer's source are out.
LEMMA WriteEnds ==
    ASSUME ListInv, DataInv, setup \in Setups,
           NEW p, NEW i, Ends(p, i, "done"), NEW x \in Xfers, x = pending[i].xfer, NEW s
    PROVE  /\ CarryAll(FlyBytes(data), s, pending) = Carry(data, s, x) \o CarryAll(FlyBytes(data), s, p)
           /\ Carry(data, s, x) \in Seq(ByteType) /\ CarryAll(FlyBytes(data), s, p) \in Seq(ByteType)
<1> DEFINE G == FlyBytes(data)
           n == Len(pending)
           a == Prefix(pending, i - 1)
           b == Suffix(pending, n - i)
           c == Prefix(p, i)
           z == pending[i]
<1>1. /\ pending \in Seq(PendingType) /\ p \in Seq(PendingType) /\ Len(p) = n /\ n \in Nat
      /\ i \in 1 .. n /\ i \in 0 .. n /\ i - 1 \in 0 .. n
      /\ data \in [Xfers -> Seq(ByteType)]
  BY DEF Ends, ListInv, ListTypes, DataInv
<1>2. /\ G \in [PendingType -> Seq(ByteType)]
      /\ \A e \in PendingType : G[e] = IF e.io = "flying" THEN data[e.xfer] ELSE << >>
  BY <1>1, FlyBytesAre
<1>3. z \in PendingType /\ z.io = "flying" /\ z.xfer = x
  BY <1>1 DEF Ends
<1>4. << z >> \in Seq(PendingType)
  BY <1>3, OneItem
<1>5. /\ a \in Seq(PendingType) /\ Len(a) = i - 1 /\ \A j \in 1 .. i - 1 : a[j] = pending[j]
      /\ b \in Seq(PendingType) /\ Len(b) = n - i /\ \A j \in 1 .. n - i : b[j] = pending[i + j]
      /\ Prefix(pending, i) \o b = pending
  <2>1. pending \in Seq(PendingType) /\ i - 1 \in 0 .. Len(pending) /\ i \in 0 .. Len(pending)
    BY <1>1
  <2>2. CutsInto(PendingType, pending, i - 1, a, Suffix(pending, Len(pending) - (i - 1)))
    BY <2>1, CutInto
  <2>3. CutsInto(PendingType, pending, i, Prefix(pending, i), b)
    BY <2>1, CutInto
  <2> HIDE DEF a, b
  <2> QED
    BY <2>2, <2>3 DEF CutsInto
<1>6. Prefix(pending, i) = a \o << z >>
  <2>1. pending \in Seq(PendingType) /\ i \in 1 .. Len(pending)
    BY <1>1
  <2>2. CutsOne(pending, i, a, Prefix(pending, i))
    BY <2>1, CutOne
  <2> HIDE DEF a
  <2> QED
    BY <2>2 DEF CutsOne
<1>7. /\ c \in Seq(PendingType) /\ Len(c) = i /\ (\A j \in 1 .. i : c[j] = p[j])
      /\ Suffix(p, n - i) \in Seq(PendingType) /\ Len(Suffix(p, n - i)) = n - i
      /\ (\A j \in 1 .. n - i : Suffix(p, n - i)[j] = p[i + j])
      /\ c \o Suffix(p, n - i) = p
  <2>1. p \in Seq(PendingType) /\ i \in 0 .. Len(p)
    BY <1>1
  <2>2. CutsInto(PendingType, p, i, c, Suffix(p, Len(p) - i))
    BY <2>1, CutInto
  <2> HIDE DEF c, n
  <2>3. Len(p) = n
    BY <1>1
  <2> QED
    BY <2>2, <2>3 DEF CutsInto
<1>8. Suffix(p, n - i) = b
  <2>1. \A j \in 1 .. n - i : p[i + j] = pending[i + j]
    <3> TAKE j \in 1 .. n - i
    <3>1. i + j \in 1 .. n /\ i + j # i
      BY <1>1
    <3> QED
      BY <3>1 DEF Ends
  <2>2. \A j \in 1 .. n - i : Suffix(p, n - i)[j] = b[j]
    BY <1>5, <1>7, <2>1
  <2> DEFINE q == Suffix(p, n - i)
  <2>3. q \in Seq(PendingType) /\ b \in Seq(PendingType) /\ Len(q) = n - i /\ Len(b) = n - i
        /\ \A j \in 1 .. n - i : q[j] = b[j]
    BY <1>5, <1>7, <2>2
  <2> HIDE DEF q, b
  <2>4. q = b
    BY <2>3, SeqEqual
  <2> QED
    BY <2>4 DEF q
<1>9. \A e \in Range(a) : Carry(G, s, e) = << >>
  <2> TAKE e \in Range(a)
  <2>1. PICK j \in 1 .. i - 1 : a[j] = e
    BY <1>5, RangeIs
  <2>2. e = pending[j] /\ pending[j].io # "flying" /\ e \in PendingType
    BY <1>1, <1>5, <2>1 DEF Ends
  <2> QED
    BY <1>2, <2>2 DEF Carry
<1>10. \A e \in Range(c) : Carry(G, s, e) = << >>
  <2> TAKE e \in Range(c)
  <2>1. PICK j \in 1 .. i : c[j] = e
    BY <1>7, RangeIs
  <2>2. e = p[j] /\ e \in PendingType /\ j \in 1 .. n
    BY <1>1, <1>7, <2>1
  <2>3. p[j].io # "flying"
    <3>1. CASE j = i
      BY <3>1 DEF Ends
    <3>2. CASE j # i
      <4>1. j \in 1 .. i - 1
        BY <1>1, <3>2
      <4> QED
        BY <2>2, <3>2, <4>1 DEF Ends
    <3> QED
      BY <3>1, <3>2
  <2> QED
    BY <1>2, <2>2, <2>3 DEF Carry
<1>11. Carry(G, s, z) = Carry(data, s, x)
  BY <1>2, <1>3 DEF Carry
<1> HIDE DEF G, a, b, c, z
<1>12. a \o << z >> \in Seq(PendingType)
  BY <1>4, <1>5, ConcatProperties
<1>13. CarryAll(G, s, a) = << >> /\ CarryAll(G, s, c) = << >>
  BY <1>5, <1>7, <1>9, <1>10, CarryNone
<1>14. CarryAll(G, s, << z >>) = Carry(G, s, z) /\ Carry(G, s, z) \in Seq(ByteType)
  <2>1. G \in [PendingType -> Seq(ByteType)] /\ z \in PendingType
    BY <1>2, <1>3
  <2> QED
    BY <2>1, CarryOne
<1>15. CarryAll(G, s, (a \o << z >>) \o b) = CarryAll(G, s, a \o << z >>) \o CarryAll(G, s, b)
       /\ CarryAll(G, s, b) \in Seq(ByteType)
  <2>1. G \in [PendingType -> Seq(ByteType)] /\ b \in Seq(PendingType)
    BY <1>2, <1>5
  <2> QED
    BY <1>12, <2>1, CarryElements
<1>16. CarryAll(G, s, a \o << z >>) = CarryAll(G, s, a) \o CarryAll(G, s, << z >>)
  <2>1. G \in [PendingType -> Seq(ByteType)] /\ a \in Seq(PendingType)
    BY <1>2, <1>5
  <2> QED
    BY <1>4, <2>1, CarryElements
<1>17. CarryAll(G, s, c \o b) = CarryAll(G, s, c) \o CarryAll(G, s, b)
  <2>1. G \in [PendingType -> Seq(ByteType)] /\ b \in Seq(PendingType) /\ c \in Seq(PendingType)
    BY <1>2, <1>5, <1>7
  <2> QED
    BY <2>1, CarryElements
<1>18. << >> \o Carry(G, s, z) = Carry(G, s, z) /\ << >> \o CarryAll(G, s, b) = CarryAll(G, s, b)
  BY <1>14, <1>15, ConcatEmptySeq
<1>19. pending = (a \o << z >>) \o b /\ p = c \o b
  BY <1>5, <1>6, <1>7, <1>8
<1>20. CarryAll(G, s, pending) = Carry(G, s, z) \o CarryAll(G, s, b)
  BY <1>13, <1>14, <1>15, <1>16, <1>18, <1>19
<1>21. CarryAll(G, s, p) = CarryAll(G, s, b)
  BY <1>13, <1>17, <1>18, <1>19
<1> QED
  BY <1>11, <1>14, <1>15, <1>20, <1>21 DEF G

\* The bytes a write sends out, and what that does to `left`.
LEMMA OutIs ==
    ASSUME DataInv, setup \in Setups, pipe = "OUT", NEW z \in Seq(ByteType), left' = Out(z)
    PROVE  /\ left' \in [Sources -> Int]
           /\ \A s \in Sources \ Carriers : left'[s] = left[s]
           /\ z = << >> => left' = left
           /\ z # << >> =>
                 /\ Len(z) \in Nat \ {0} /\ z[Len(z)] \in ByteType
                 /\ left' = [left EXCEPT ![z[Len(z)][1]] = z[Len(z)][2]]
<1>1. left \in [Sources -> Int] /\ Carriers = Users /\ Carriers \subseteq Sources
  BY DEF DataInv, Carriers, Sources
<1>2. CASE z = << >>
  BY <1>1, <1>2 DEF Out
<1>3. CASE z # << >>
  <2>1. Len(z) \in Nat \ {0}
    BY <1>3, EmptySeq
  <2>2. z[Len(z)] \in ByteType
    BY <2>1
  <2>3. Last(z) = z[Len(z)]
    BY DEF Last
  <2> DEFINE b == z[Len(z)]
  <2>4. b[1] \in Carriers /\ b[2] \in Int
    BY <2>2 DEF ByteType
  <2>5. left' = [left EXCEPT ![b[1]] = b[2]]
    BY <1>3, <2>3 DEF Out, Source, Number
  <2> HIDE DEF b
  <2>6. left' \in [Sources -> Int] /\ \A s \in Sources \ Carriers : left'[s] = left[s]
    BY <1>1, <2>4, <2>5
  <2> QED
    BY <1>3, <2>1, <2>2, <2>5, <2>6 DEF b
<1> QED
  BY <1>2, <1>3

LEMMA DeviceCompletesOK ==
    ASSUME IInv, DeviceCompletes
    PROVE  IInv'
<1>1. PICK i : FirstFlying(i) /\ pending' = [pending EXCEPT ![i].io = "done"] /\ DeviceMoves(pending[i].xfer)
  BY DEF DeviceCompletes
<1>2. /\ UNCHANGED <<setup, apcs, queued, finished, finishedTemp, lock, sem, call, pc, lost>>
      /\ UNCHANGED <<state, thread, failed, noWaiting, apcCount, ovls, clean>>
  BY DEF DeviceCompletes, threadVars, callVars
<1> DEFINE p == [pending EXCEPT ![i].io = "done"]
           x == pending[i].xfer
<1>3. Ends(p, i, "done")
  BY <1>1, EndsIs DEF IInv, ListInv, ListTypes
<1>4. pending' = p
  BY <1>1
<1> HIDE DEF p
<1>5. /\ p \in Seq(PendingType) /\ Len(p) = Len(pending)
      /\ \A j \in 1 .. Len(pending) : p[j].xfer = pending[j].xfer
      /\ \A j, k \in 1 .. Len(pending) : j < k /\ p[j].io = "flying" => p[k].io = "flying"
      /\ i \in 1 .. Len(pending)
  BY <1>3 DEF Ends
<1>6. /\ ListInv /\ ListTypes /\ NoRepeats /\ OnePlace /\ SomePlace /\ CallInv /\ DataInv
      /\ FlyingInv /\ HandInv /\ SemInv /\ OrderInv /\ ThreadInv /\ setup \in Setups
      /\ CallInv' /\ ListInv' /\ ListTypes' /\ SemInv'
      /\ \A c \in Users : Taken(c)' = Taken(c) /\ call'[c].taken = call[c].taken
      /\ \A s : Own(s)' = Own(s)
      /\ XfersOf(p) = XfersOf(pending) /\ AllApcs' = AllApcs
      /\ InFinished' = InFinished /\ InTemp' = InTemp /\ InPending' = InPending
  BY <1>2, <1>4, <1>5, IoFrame
<1>7. ThreadInv'
  BY <1>2, <1>6, ThreadKept
<1>8. HandInv'
  BY <1>2, <1>6, HandKept DEF HandInv
<1>9. x \in Xfers /\ x \in InPending /\ i \in DOMAIN pending /\ DOMAIN p = 1 .. Len(pending)
  <2>1. pending \in Seq(PendingType)
    BY <1>6 DEF ListTypes
  <2>2. i \in DOMAIN pending /\ pending[i] \in PendingType
    BY <1>5, <2>1
  <2> QED
    BY <1>5, <1>6, <2>2, PlacesAre DEF PendingType
<1>10. DeviceMoves(x) /\ x = pending[i].xfer
  BY <1>1
<1> HIDE DEF x
<1>11. /\ data \in [Xfers -> Seq(ByteType)] /\ \A y \in Xfers : Len(data[y]) <= MaxTransferSize
       /\ entered \in [Sources -> Int] /\ left \in [Sources -> Int] /\ Device \in Sources
       /\ pipe' = pipe /\ Carriers' = Carriers
  BY <1>2, <1>6, SetupKept DEF DataInv, Sources
<1>12. \A c \in Users : Len(call'[c].saved) <= MaxTransferSize
  BY <1>2, <1>6 DEF DataInv
\* no other pending transfer is this one
<1>13. \A j \in 1 .. Len(pending) : j # i => p[j] = pending[j] /\ pending[j].xfer \in Xfers \ {x}
  <2> TAKE j \in 1 .. Len(pending)
  <2> HAVE j # i
  <2>1. pending \in Seq(PendingType)
    BY <1>6 DEF ListTypes
  <2>2. /\ DOMAIN XfersOf(pending) = 1 .. Len(pending)
        /\ \A k \in 1 .. Len(pending) : XfersOf(pending)[k] = pending[k].xfer /\ pending[k].xfer \in Xfers
    BY <2>1, XfersAre
  <2>3. XfersOf(pending)[j] # XfersOf(pending)[i]
    BY <1>5, <1>6, <2>2 DEF NoRepeats, IsInjective
  <2> QED
    BY <1>3, <1>5, <1>10, <2>2, <2>3 DEF Ends
<1>14. (\A j, k \in DOMAIN pending : j < k /\ pending[j].io = "flying" => pending[k].io = "flying")'
  BY <1>4, <1>5, <1>9
<1>15. CASE pipe = "IN"
  <2>1. PICK n \in Nat :
           /\ n <= MaxTransferSize
           /\ data' = [data EXCEPT ![x] = Run(Device, entered[Device], entered[Device] + n)]
           /\ entered' = [entered EXCEPT ![Device] = @ + n] /\ left' = left
    BY <1>6, <1>9, <1>10, <1>15, MovesIs
  <2> DEFINE e == entered[Device]
             l == left[Device]
             r == Run(Device, e, e + n)
  <2>2. e \in Int /\ l \in Int /\ e + n \in Int /\ e <= e + n /\ (e + n) - e = n /\ Carriers = {Device}
        /\ Device \in Carriers
    BY <1>11, <1>15 DEF Carriers
  <2>3. r \in Seq(ByteType) /\ Len(r) = n
    <3> HIDE DEF e
    <3> QED
      BY <2>2, RunIs DEF ByteType
  <2>4. data' = [data EXCEPT ![x] = r] /\ entered' = [entered EXCEPT ![Device] = e + n]
    BY <2>1
  <2> HIDE DEF e, l, r
  <2>5. /\ data' \in [Xfers -> Seq(ByteType)] /\ data'[x] = r /\ \A z \in Xfers \ {x} : data'[z] = data[z]
        /\ \A y \in Xfers : Len(data'[y]) <= MaxTransferSize
    BY <1>9, <1>11, <2>1, <2>3, <2>4
  <2>6. /\ entered' \in [Sources -> Int] /\ entered'[Device] = e + n
        /\ \A s \in Sources \ {Device} : entered'[s] = entered[s]
    BY <1>11, <2>2, <2>4
  <2>7. DataInv'
    <3>1. \A s \in Sources \ Carriers : entered'[s] = left'[s]
      BY <1>6, <2>1, <2>2, <2>6 DEF DataInv
    <3> QED
      BY <1>2, <1>11, <1>12, <2>1, <2>5, <2>6, <3>1, SetupKept DEF DataInv
  <2>8. FlyingInv'
    <3>1. ASSUME clean, NEW j \in 1 .. Len(pending), p[j].io = "flying"
          PROVE  data'[p[j].xfer] = << >>
      <4>1. j # i
        BY <1>3, <3>1 DEF Ends
      <4>2. p[j] = pending[j] /\ pending[j].xfer \in Xfers \ {x}
        BY <1>13, <4>1
      <4>3. j \in DOMAIN pending /\ pending[j].io = "flying"
        BY <1>6, <3>1, <4>2 DEF ListTypes
      <4>4. data[pending[j].xfer] = << >>
        BY <1>6, <1>15, <3>1, <4>3 DEF FlyingInv
      <4> QED
        BY <2>5, <4>2, <4>4
    <3>2. (clean /\ pipe = "IN" => \A j \in DOMAIN pending : pending[j].io = "flying" => data[pending[j].xfer] = << >>)'
      BY <1>2, <1>4, <1>9, <3>1
    <3>3. pipe' # "OUT"
      BY <1>11, <1>15
    <3> QED
      BY <1>14, <3>2, <3>3 DEF FlyingInv
  <2>9. ASSUME clean, NEW s \in Sources
        PROVE  /\ OnTheWay(s)' = Run(s, left'[s], entered'[s])
               /\ left'[s] <= entered'[s]
    <3>1. OnTheWay(s) = Run(s, left[s], entered[s]) /\ left[s] <= entered[s]
      BY <1>6, <2>9 DEF OrderInv, InOrder, Run
    <3>2. OnTheWay(s) = (CarryAll(data, s, finished) \o CarryAll(data, s, finishedTemp))
                            \o CarryAll(data, s, XfersOf(pending))
      BY <1>6, <1>15, WayIn
    <3>3. OnTheWay(s)' = (CarryAll(data', s, finished') \o CarryAll(data', s, finishedTemp'))
                            \o CarryAll(data', s, XfersOf(pending'))
      BY <1>6, <1>11, <1>15, <2>7, WayInNext
    <3>4. finished' = finished /\ finishedTemp' = finishedTemp /\ XfersOf(pending') = XfersOf(pending)
      BY <1>2, <1>4, <1>6
    <3>5. finished \in Seq(Xfers) /\ finishedTemp \in Seq(Xfers) /\ XfersOf(pending) \in Seq(Xfers)
      BY <1>6, PlacesAre DEF ListTypes
    <3>6. CASE s = Device
      <4> DEFINE F == CarryAll(data, Device, finished)
                 T == CarryAll(data, Device, finishedTemp)
                 P == CarryAll(data, Device, XfersOf(pending))
      <4>1. /\ CarryAll(data', Device, XfersOf(pending)) = P \o r
            /\ CarryAll(data', Device, finished) = F
            /\ CarryAll(data', Device, finishedTemp) = T
        <5>1. data' \in [Xfers -> Seq(ByteType)] /\ data'[x] = r /\ \A z \in Xfers \ {x} : data'[z] = data[z]
          BY <2>5
        <5> QED
          BY <1>3, <1>6, <1>9, <1>10, <1>15, <2>3, <2>9, <5>1, ReadEnds
      <4>2. F \in Seq(ByteType) /\ T \in Seq(ByteType) /\ P \in Seq(ByteType)
        BY <1>11, <3>5, CarryIs
      <4>3. OnTheWay(s) = (F \o T) \o P /\ OnTheWay(s)' = (F \o T) \o (P \o r)
        BY <3>2, <3>3, <3>4, <3>6, <4>1
      <4> HIDE DEF F, T, P
      <4> DEFINE u == F \o T
      <4>4. u \in Seq(ByteType)
        BY <4>2, ConcatProperties
      <4>5. OnTheWay(s) = u \o P /\ OnTheWay(s)' = u \o (P \o r)
        BY <4>3
      <4> HIDE DEF u
      <4>6. (u \o P) \o r = u \o (P \o r)
        BY <2>3, <4>2, <4>4, ConcatAssociative, SMTT(40)
      <4>7. OnTheWay(s)' = Run(Device, l, e) \o r
        BY <3>1, <3>6, <4>5, <4>6 DEF l, e
      <4>8. l <= e
        BY <3>1, <3>6 DEF l, e
      <4>9. Run(Device, l, e) \o Run(Device, e, e + n) = Run(Device, l, e + n)
        BY <2>2, <4>8, RunJoin
      <4>10. left'[s] = l /\ entered'[s] = e + n
        BY <2>1, <2>6, <3>6 DEF l
      <4> QED
        <5>1. OnTheWay(s)' = Run(s, left'[s], entered'[s])
          BY <3>6, <4>7, <4>9, <4>10 DEF r
        <5>2. left'[s] <= entered'[s]
          BY <2>2, <4>8, <4>10
        <5> QED
          BY <5>1, <5>2
    <3>7. CASE s # Device
      <4>1. CarryAll(data', s, finished) = << >>
        BY <1>6, <1>15, <2>5, <3>5, <3>7, CarryIn
      <4>2. CarryAll(data', s, finishedTemp) = << >>
        BY <1>6, <1>15, <2>5, <3>5, <3>7, CarryIn
      <4>3. CarryAll(data', s, XfersOf(pending)) = << >>
        BY <1>6, <1>15, <2>5, <3>5, <3>7, CarryIn
      <4>4. CarryAll(data, s, finished) = << >>
        BY <1>6, <1>11, <1>15, <3>5, <3>7, CarryIn
      <4>5. CarryAll(data, s, finishedTemp) = << >>
        BY <1>6, <1>11, <1>15, <3>5, <3>7, CarryIn
      <4>6. CarryAll(data, s, XfersOf(pending)) = << >>
        BY <1>6, <1>11, <1>15, <3>5, <3>7, CarryIn
      <4>7. OnTheWay(s)' = OnTheWay(s)
        BY <3>2, <3>3, <3>4, <4>1, <4>2, <4>3, <4>4, <4>5, <4>6
      <4> QED
        BY <2>1, <2>6, <3>1, <3>7, <4>7
    <3> QED
      BY <3>6, <3>7
  <2>10. OrderInv'
    BY <1>2, <1>6, <2>9 DEF OrderInv, InOrder, Run
  <2> QED
    BY <1>6, <1>7, <1>8, <2>7, <2>8, <2>10 DEF IInv
<1>16. CASE pipe = "OUT"
  <2>1. left' = Out(data[x]) /\ data' = data /\ entered' = entered
    BY <1>6, <1>9, <1>10, <1>16, MovesIs
  <2> DEFINE z == data[x]
  <2>2. z \in Seq(ByteType)
    BY <1>9, <1>11
  <2>3. left' = Out(z)
    BY <2>1
  <2>4. \A s : Carry(data, s, x) = IF z # << >> /\ Source(Head(z)) = s THEN z ELSE << >>
    BY DEF Carry
  <2> HIDE DEF z
  <2>5. /\ left' \in [Sources -> Int]
        /\ \A s \in Sources \ Carriers : left'[s] = left[s]
        /\ z = << >> => left' = left
        /\ z # << >> =>
              /\ Len(z) \in Nat \ {0} /\ z[Len(z)] \in ByteType
              /\ left' = [left EXCEPT ![z[Len(z)][1]] = z[Len(z)][2]]
    BY <1>6, <1>16, <2>2, <2>3, OutIs
  <2>6. DataInv'
    <3>1. \A s \in Sources \ Carriers : entered'[s] = left'[s]
      BY <1>6, <2>1, <2>5 DEF DataInv
    <3> QED
      BY <1>2, <1>11, <1>12, <2>1, <2>5, <3>1, SetupKept DEF DataInv
  <2>7. FlyingInv'
    <3>1. (clean /\ pipe = "OUT" => \A c \in Users : \A y \in Taken(c) : data[y] # << >> => Source(Head(data[y])) = c)'
      <4>1. \A b : Source(b)' = Source(b)
        BY DEF Source
      <4> QED
        BY <1>2, <1>6, <1>11, <2>1, <4>1 DEF FlyingInv, Source
    <3>2. pipe' # "IN"
      BY <1>11, <1>16
    <3> QED
      BY <1>14, <3>1, <3>2 DEF FlyingInv
  <2>8. ASSUME NEW s
        PROVE  /\ OnTheWay(s) = Carry(data, s, x) \o OnTheWay(s)'
               /\ Carry(data, s, x) \in Seq(ByteType) /\ OnTheWay(s)' \in Seq(ByteType)
    <3> DEFINE P == CarryAll(FlyBytes(data), s, p)
               X == Carry(data, s, x)
               R == (CarryAll(data, s, queued) \o CarryAll(data, s, AllApcs)) \o CarryAll(data, s, Own(s))
    <3>1. OnTheWay(s) = CarryAll(FlyBytes(data), s, pending) \o R
      BY <1>6, <1>16, WayOut
    <3>2. OnTheWay(s)' = CarryAll(FlyBytes(data'), s, pending')
              \o ((CarryAll(data', s, queued') \o CarryAll(data', s, AllApcs')) \o CarryAll(data', s, Own(s)'))
      BY <1>2, <1>6, <1>11, <1>16, <2>6, WayOutNext
    <3>3. OnTheWay(s)' = P \o R
      BY <1>2, <1>4, <1>6, <2>1, <3>2
    <3>4. /\ CarryAll(FlyBytes(data), s, pending) = X \o P
          /\ X \in Seq(ByteType) /\ P \in Seq(ByteType)
      BY <1>3, <1>6, <1>9, <1>10, WriteEnds
    <3>5. R \in Seq(ByteType)
      <4>1. queued \in Seq(Xfers) /\ AllApcs \in Seq(Xfers) /\ Own(s) \in Seq(Xfers)
        BY <1>6, OwnIs, PlacesAre DEF ListTypes
      <4>2. /\ CarryAll(data, s, queued) \in Seq(ByteType) /\ CarryAll(data, s, AllApcs) \in Seq(ByteType)
            /\ CarryAll(data, s, Own(s)) \in Seq(ByteType)
        BY <1>11, <4>1, CarryIs
      <4>3. CarryAll(data, s, queued) \o CarryAll(data, s, AllApcs) \in Seq(ByteType)
        BY <4>2, ConcatProperties
      <4> QED
        BY <4>2, <4>3, ConcatProperties
    <3> HIDE DEF P, X, R
    <3>6. (X \o P) \o R = X \o (P \o R) /\ P \o R \in Seq(ByteType)
      BY <3>4, <3>5, ConcatAssociative, ConcatProperties
    <3>7. OnTheWay(s) = X \o OnTheWay(s)' /\ X \in Seq(ByteType) /\ OnTheWay(s)' \in Seq(ByteType)
      BY <3>1, <3>3, <3>4, <3>6
    <3> QED
      BY <3>7 DEF X
  <2>9. ASSUME clean, NEW s \in Sources
        PROVE  /\ OnTheWay(s)' = Run(s, left'[s], entered'[s])
               /\ left'[s] <= entered'[s]
    <3>1. OnTheWay(s) = Run(s, left[s], entered[s]) /\ left[s] <= entered[s]
      BY <1>6, <2>9 DEF OrderInv, InOrder, Run
    <3>2. /\ OnTheWay(s) = Carry(data, s, x) \o OnTheWay(s)'
          /\ Carry(data, s, x) \in Seq(ByteType) /\ OnTheWay(s)' \in Seq(ByteType)
      BY <2>8
    <3>3. CASE z # << >> /\ Source(Head(z)) = s
      <4>1. Carry(data, s, x) = z
        BY <2>4, <3>3
      <4>2. Head(z) \in ByteType
        BY <2>2, <3>3, HeadFirst
      <4>3. s \in Carriers
        BY <3>3, <4>2 DEF ByteType, Source
      <4> DEFINE v == OnTheWay(s)'
                 a == left[s]
                 e == entered[s]
      <4>4. Joins(z, v, Run(s, a, e)) /\ v \in Seq(ByteType) /\ a \in Int /\ e \in Int /\ a <= e
        <5>1. Joins(z, v, Run(s, a, e))
          BY <3>1, <3>2, <4>1, Zenon DEF Joins
        <5>2. v \in Seq(ByteType) /\ a <= e
          BY <3>1, <3>2, Zenon
        <5>3. a \in Int /\ e \in Int
          BY <1>11, <4>3
        <5> QED
          BY <5>1, <5>2, <5>3, Zenon
      <4> HIDE DEF v, a, e
      <4>5. z \in Seq(Carriers \X Int) /\ v \in Seq(Carriers \X Int)
        BY <2>2, <4>4 DEF ByteType
      <4>6. CutsRun(s, a, e, z, v)
        BY <4>3, <4>4, <4>5, RunCut
      <4>7. Len(z) + Len(v) = e - a /\ z = Run(s, a, a + Len(z)) /\ v = Run(s, a + Len(z), e)
        BY <4>6 DEF CutsRun
      <4>8. Len(z) \in Nat \ {0} /\ Len(v) \in Nat /\ Len(z) \in 1 .. (a + Len(z)) - a
        BY <2>5, <3>3, <4>4
      <4>9. z[Len(z)] = << s, a + Len(z) >>
        <5>1. a + Len(z) \in Int /\ a <= a + Len(z)
          BY <4>4, <4>8
        <5>2. Run(s, a, a + Len(z))[Len(z)] = << s, a + Len(z) >>
          BY <4>8 DEF Run
        <5> QED
          BY <4>7, <5>2
      <4>10. left'[s] = a + Len(z)
        BY <1>11, <2>5, <3>3, <4>9
      <4>11. entered'[s] = e /\ a + Len(z) <= e
        BY <2>1, <4>4, <4>7, <4>8 DEF e
      <4> QED
        BY <4>7, <4>10, <4>11 DEF v
    <3>4. CASE ~(z # << >> /\ Source(Head(z)) = s)
      <4>1. Carry(data, s, x) = << >>
        BY <2>4, <3>4
      <4>2. << >> \o OnTheWay(s)' = OnTheWay(s)'
        BY <3>2, ConcatEmptySeq
      <4>3. OnTheWay(s)' = OnTheWay(s)
        BY <3>2, <4>1, <4>2
      <4>4. left'[s] = left[s]
        <5>1. CASE z = << >>
          BY <2>5, <5>1
        <5>2. CASE z # << >>
          <6>13. Head(z) \in ByteType
            BY <2>2, <5>2, HeadFirst
          <6>14. PICK t \in Carriers : t = Source(Head(z))
            BY <6>13 DEF ByteType, Source
          <6>1. t # s
            BY <3>4, <5>2, <6>14
          <6>2. t \in Carriers /\ t \in Sources
            BY <1>16 DEF Carriers, Sources
          \* the last byte is of the source of the first
          <6>3. /\ OnTheWay(t) = Carry(data, t, x) \o OnTheWay(t)'
                /\ OnTheWay(t)' \in Seq(ByteType)
            BY <2>8
          <6>4. OnTheWay(t) = Run(t, left[t], entered[t]) /\ left[t] <= entered[t]
            BY <1>6, <2>9, <6>2 DEF OrderInv, InOrder, Run
          <6>5. Carry(data, t, x) = z
            BY <2>4, <5>2, <6>14
          <6> DEFINE v == OnTheWay(t)'
                     a == left[t]
                     e == entered[t]
          <6>6. Joins(z, v, Run(t, a, e)) /\ v \in Seq(ByteType) /\ a \in Int /\ e \in Int /\ a <= e
            <7>1. Joins(z, v, Run(t, a, e))
              BY <6>3, <6>4, <6>5, Zenon DEF Joins
            <7>2. v \in Seq(ByteType) /\ a <= e
              BY <6>3, <6>4, Zenon
            <7>3. a \in Int /\ e \in Int
              BY <1>11, <6>2
            <7> QED
              BY <7>1, <7>2, <7>3, Zenon
          <6> HIDE DEF v, a, e
          <6>7. z \in Seq(Carriers \X Int) /\ v \in Seq(Carriers \X Int)
            BY <2>2, <6>6 DEF ByteType
          <6>8. CutsRun(t, a, e, z, v)
            BY <6>2, <6>6, <6>7, RunCut
          <6>9. z = Run(t, a, a + Len(z)) /\ Len(z) \in Nat \ {0}
            BY <2>5, <5>2, <6>8 DEF CutsRun
          <6>10. Len(z) \in 1 .. (a + Len(z)) - a
            BY <6>6, <6>9
          <6>11. Run(t, a, a + Len(z))[Len(z)] = << t, a + Len(z) >>
            BY <6>10 DEF Run
          <6>12. z[Len(z)] = << t, a + Len(z) >>
            BY <6>9, <6>11
          <6> QED
            BY <1>11, <2>5, <5>2, <6>1, <6>12
        <5> QED
          BY <5>1, <5>2
      <4> QED
        BY <2>1, <3>1, <4>3, <4>4
    <3> QED
      BY <3>3, <3>4
  <2>10. OrderInv'
    BY <1>2, <1>6, <2>9 DEF OrderInv, InOrder, Run
  <2> QED
    BY <1>6, <1>7, <1>8, <2>6, <2>7, <2>10 DEF IInv
<1> QED
  BY <1>6, <1>15, <1>16, SetupIs

-----------------------------------------------------------------------------
(***************************************************************************)
(* The theorems.                                                           *)
(***************************************************************************)

LEMMA NextOK ==
    ASSUME IInv, Next
    PROVE  IInv'
<1>1. CASE Thread
  BY <1>1, ApcStepsOK, BeginOK, LoopOK, SubmitOK, SubmitFailsOK, WaitTimeoutOK, CompleteOK, SyncOK,
     DrainedOK, EndOK DEF Thread
<1>2. CASE Control
  BY <1>2, ControlOK
<1>3. CASE DeviceCompletes
  BY <1>3, DeviceCompletesOK
<1>4. CASE DeviceFails
  BY <1>4, DeviceFailsOK
<1>5. ASSUME NEW c \in Users, Call(c) \/ Continue(c) PROVE IInv'
  BY <1>5, CallOK, TakeSemOK, SemTimeoutOK, NoneReadyOK, TakeOK, UnlockOK, QueueTransferAPCOK,
     IncApcCountOK, AppendDirectOK, RestoreOK, UnlockRestoredOK DEF Continue
<1> QED
  BY <1>1, <1>2, <1>3, <1>4, <1>5 DEF Next

LEMMA StutterOK ==
    ASSUME IInv, UNCHANGED vars
    PROVE  IInv'
<1>1. /\ Quiet /\ apcs' = apcs
      /\ UNCHANGED <<state, thread, failed, noWaiting, apcCount, ovls, freed>>
  BY DEF vars, threadVars, lists, bytes, callVars, Quiet
<1>2. ThreadInv'
  BY <1>1 DEF Quiet, IInv, ThreadInv, FreedIsStopped, At
<1>3. HandInv'
  BY <1>1, HandKept DEF Quiet, IInv, HandInv
<1> QED
  BY <1>1, <1>2, <1>3, QuietThreadOK

\* The invariant holds of every execution of a stream.
THEOREM Inductive == Spec => []IInv
<1>1. IInv /\ [Next]_vars => IInv'
  BY NextOK, StutterOK
<1> QED
  BY <1>1, InitOK, PTL DEF Spec

\* Whatever callers, the thread, failures and the stops and restarts of the
\* stream do, no transfer is lost from sight or in two places, and SemReady
\* counts the finished transfers that wait for a caller.
THEOREM Consistent == Spec => []StreamConsistent
<1>1. IInv => StreamConsistent
  BY InvImplies
<1> QED
  BY <1>1, Inductive, PTL

\* The bytes of every source go through the stream in order and without a gap,
\* until a call or a transfer fails or a list is raced.
THEOREM Ordered == Spec => []InOrder
<1>1. IInv => InOrder
  BY InvImplies
<1> QED
  BY <1>1, Inductive, PTL

\* StmK_Free drops the references of a stream whose thread has ended, unless it
\* was ending by itself.
THEOREM Freed == Spec => []FreedIsStopped
<1>1. IInv => FreedIsStopped
  BY InvImplies
<1> QED
  BY <1>1, Inductive, PTL
=============================================================================
