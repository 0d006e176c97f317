---------------------------- MODULE OvlPool_proofs ----------------------------
(***************************************************************************)
(* Proofs about OvlPool: for any number of pools and of OverlappedK        *)
(* handles, if a pool is freed only when each of its elements was acquired *)
(* (~FreeUnused), its two lists share out its elements, each element and   *)
(* its handle name each other, AcquiredList is what the application holds, *)
(* and no OVERLAPPED with an untouched transfer in flight is released,     *)
(* but by an OvlK_Wait that could not wait for it or could not cancel it.  *)
(***************************************************************************)
EXTENDS OvlPool, SequenceTheorems, FiniteSetTheorems, TLAPS

-----------------------------------------------------------------------------
(***************************************************************************)
(* The inductive invariant.                                                *)
(***************************************************************************)

Own(p) == {<<pool[p].array, i>> : i \in 1 .. pool[p].count}

\* The two lists share out the elements of the pool.
Shares(p) ==
    LET acquired == pool[p].acquired
        released == pool[p].released
    IN /\ NoDuplicates(acquired) /\ NoDuplicates(released)
       /\ Contents(acquired) \cap Contents(released) = {}
       /\ Contents(acquired) \cup Contents(released) = Own(p)

\* An element and its handle name each other.
Linked(p) ==
    \A e \in Own(p) :
        /\ elHandle[e] = NoOvl => e \notin Contents(pool[p].acquired)
        /\ elHandle[e] # NoOvl =>
               /\ ovl[elHandle[e]].use /\ ovl[elHandle[e]].pool = p /\ ovl[elHandle[e]].link = e
               /\ ovl[elHandle[e]].isAcquired <=> e \in Contents(pool[p].acquired)
               /\ e \in Contents(pool[p].released) /\ ovl[elHandle[e]].io = "pending" =>
                      ovl[elHandle[e]].blind

\* What f gives for the elements of a list.
Mapped(s, f) == [i \in DOMAIN s |-> f[s[i]]]

Good(p) == IF pool[p].use
           THEN Shares(p) /\ Linked(p) /\ held[p] = Mapped(pool[p].acquired, elHandle)
           ELSE pool[p] = FreePool /\ held[p] = << >>

\* Every live pool has an array of its own; an element that is in none of them,
\* or in one not yet made, has no handle.
Arrays ==
    /\ \A p \in PoolSlots : pool[p].use => pool[p].array \in 1 .. inits
    /\ \A p, q \in PoolSlots : pool[p].use /\ pool[q].use /\ pool[p].array = pool[q].array => p = q
    /\ \A e \in Elements : e[1] > inits => elHandle[e] = NoOvl
    /\ \A p \in PoolSlots, e \in Elements :
           pool[p].use /\ e[1] = pool[p].array /\ elHandle[e] # NoOvl => e \in Own(p)

\* OvlK_Wait waits for a handle the application holds; at its second look the
\* transfer was cancelled.
Waiting ==
    wait.phase # "none" =>
        /\ \E p \in PoolSlots : pool[p].use /\ wait.o \in Contents(held[p])
        /\ wait.phase = "retry" => ovl[wait.o].io # "pending"

WaitType == [o : OvlSlots \cup {NoOvl}, flags : SUBSET {1, 2, 4, 8},
             phase : {"none", "wait", "cancel", "retry", "giveUp"}]

Types ==
    /\ inits \in 0 .. MaxInits
    /\ pool \in [PoolSlots -> PoolType]
    /\ elHandle \in [Elements -> OvlSlots \cup {NoOvl}]
    /\ ovl \in [OvlSlots -> OvlType]
    /\ usbRefs \in Int
    /\ wait \in WaitType
    /\ held \in [PoolSlots -> Seq(OvlSlots)]

IInv ==
    /\ Types /\ (\A p \in PoolSlots : Good(p)) /\ Arrays /\ NoUsbLeak /\ Waiting

-----------------------------------------------------------------------------
(***************************************************************************)
(* Lists without duplicates.                                               *)
(***************************************************************************)

LEMMA ContentsIn ==
    ASSUME NEW S, NEW s \in Seq(S)
    PROVE  Contents(s) \subseteq S /\ (\A i \in DOMAIN s : s[i] \in Contents(s))
           /\ (s # << >> => Head(s) \in Contents(s))
<1>1. \A i \in DOMAIN s : s[i] \in S
  BY LenProperties
<1>2. s # << >> => 1 \in DOMAIN s /\ Head(s) = s[1]
  BY LenProperties, EmptySeq
<1> QED
  BY <1>1, <1>2 DEF Contents

LEMMA ConcatLists ==
    ASSUME NEW S, NEW s \in Seq(S), NEW t \in Seq(S)
    PROVE  /\ s \o t \in Seq(S)
           /\ Contents(s \o t) = Contents(s) \cup Contents(t)
           /\ NoDuplicates(s \o t)
                  <=> /\ NoDuplicates(s) /\ NoDuplicates(t)
                      /\ Contents(s) \cap Contents(t) = {}
<1> DEFINE m == Len(s)
           n == Len(t)
           u == s \o t
<1>1. /\ m \in Nat /\ n \in Nat /\ DOMAIN s = 1 .. m /\ DOMAIN t = 1 .. n
      /\ u \in Seq(S) /\ DOMAIN u = 1 .. m + n
      /\ \A i \in 1 .. m : i \in DOMAIN u /\ u[i] = s[i]
      /\ \A i \in 1 .. n : m + i \in DOMAIN u /\ u[m + i] = t[i]
      /\ \A i \in 1 .. m + n : i \in 1 .. m \/ (i - m \in 1 .. n /\ i = m + (i - m))
  <2>1. m \in Nat /\ n \in Nat /\ DOMAIN s = 1 .. m /\ DOMAIN t = 1 .. n
    BY LenProperties
  <2>2. /\ u \in Seq(S) /\ Len(u) = m + n
        /\ \A i \in 1 .. m + n : u[i] = IF i <= m THEN s[i] ELSE t[i - m]
    BY ConcatProperties
  <2>3. DOMAIN u = 1 .. m + n
    BY <2>2, LenProperties
  <2> HIDE DEF m, n, u
  <2>4. ASSUME NEW i \in 1 .. n
        PROVE  m + i \in DOMAIN u /\ u[m + i] = t[i]
    <3>1. m + i \in 1 .. m + n /\ ~(m + i <= m) /\ (m + i) - m = i
      BY <2>1
    <3> QED
      BY <2>2, <2>3, <3>1
  <2>5. ASSUME NEW i \in 1 .. m
        PROVE  i \in DOMAIN u /\ u[i] = s[i]
    <3>1. i \in 1 .. m + n /\ i <= m
      BY <2>1
    <3> QED
      BY <2>2, <2>3, <3>1
  <2>6. \A i \in 1 .. m + n : i \in 1 .. m \/ (i - m \in 1 .. n /\ i = m + (i - m))
    BY <2>1
  <2> QED
    BY <2>1, <2>2, <2>3, <2>4, <2>5, <2>6
<1> HIDE DEF m, n, u
<1>2. Contents(u) = Contents(s) \cup Contents(t)
  <2>1. ASSUME NEW i \in DOMAIN u
        PROVE  u[i] \in Contents(s) \cup Contents(t)
    <3>1. CASE i \in 1 .. m
      BY <1>1, <3>1 DEF Contents
    <3>2. CASE i - m \in 1 .. n /\ i = m + (i - m)
      <4>1. u[i] = t[i - m]
        BY <1>1, <3>2
      <4> QED
        BY <1>1, <3>2, <4>1 DEF Contents
    <3> QED
      BY <1>1, <3>1, <3>2
  <2>2. ASSUME NEW i \in DOMAIN s
        PROVE  s[i] \in Contents(u)
    BY <1>1 DEF Contents
  <2>3. ASSUME NEW i \in DOMAIN t
        PROVE  t[i] \in Contents(u)
    BY <1>1 DEF Contents
  <2> QED
    BY <2>1, <2>2, <2>3 DEF Contents
<1>3. ASSUME NoDuplicates(u)
      PROVE  NoDuplicates(s) /\ NoDuplicates(t) /\ Contents(s) \cap Contents(t) = {}
  <2>1. NoDuplicates(s)
    BY <1>1, <1>3 DEF NoDuplicates
  <2>2. ASSUME NEW i \in 1 .. n, NEW j \in 1 .. n, t[i] = t[j]
        PROVE  i = j
    <3>1. m + i = m + j
      BY <1>1, <1>3, <2>2 DEF NoDuplicates
    <3> QED
      BY <1>1, <3>1
  <2>3. ASSUME NEW i \in 1 .. m, NEW j \in 1 .. n, s[i] = t[j]
        PROVE  FALSE
    <3>1. i = m + j
      BY <1>1, <1>3, <2>3 DEF NoDuplicates
    <3> QED
      BY <1>1, <3>1
  <2> QED
    BY <1>1, <2>1, <2>2, <2>3 DEF NoDuplicates, Contents
<1>4. ASSUME NoDuplicates(s), NoDuplicates(t), Contents(s) \cap Contents(t) = {},
             NEW i \in DOMAIN u, NEW j \in DOMAIN u, u[i] = u[j]
      PROVE  i = j
  <2>1. ASSUME NEW k \in 1 .. m, NEW l \in 1 .. n
        PROVE  s[k] # t[l]
    BY <1>1, <1>4 DEF Contents
  <2>2. CASE i \in 1 .. m /\ j \in 1 .. m
    BY <1>1, <1>4, <2>2 DEF NoDuplicates
  <2>3. CASE i \in 1 .. m /\ j - m \in 1 .. n /\ j = m + (j - m)
    <3>1. u[j] = t[j - m] /\ u[i] = s[i]
      BY <1>1, <2>3
    <3> QED
      BY <1>4, <2>1, <2>3, <3>1
  <2>4. CASE j \in 1 .. m /\ i - m \in 1 .. n /\ i = m + (i - m)
    <3>1. u[i] = t[i - m] /\ u[j] = s[j]
      BY <1>1, <2>4
    <3> QED
      BY <1>4, <2>1, <2>4, <3>1
  <2>5. CASE i - m \in 1 .. n /\ i = m + (i - m) /\ j - m \in 1 .. n /\ j = m + (j - m)
    <3>1. u[i] = t[i - m] /\ u[j] = t[j - m]
      BY <1>1, <2>5
    <3>2. i - m = j - m
      BY <1>1, <1>4, <2>5, <3>1 DEF NoDuplicates
    <3> QED
      BY <2>5, <3>2
  <2> QED
    BY <1>1, <2>2, <2>3, <2>4, <2>5
<1> QED
  BY <1>1, <1>2, <1>3, <1>4 DEF NoDuplicates, u

\* A list and one element more, at the head or at the tail.
LEMMA OneMore ==
    ASSUME NEW S, NEW s \in Seq(S), NEW x \in S, NoDuplicates(s), x \notin Contents(s)
    PROVE  /\ <<x>> \o s \in Seq(S) /\ NoDuplicates(<<x>> \o s)
           /\ Contents(<<x>> \o s) = Contents(s) \cup {x}
<1> DEFINE t == <<x>>
<1>1. t \in Seq(S) /\ NoDuplicates(t) /\ Contents(t) = {x}
  <2>1. t \in Seq(S) /\ DOMAIN t = {1} /\ t[1] = x
    OBVIOUS
  <2> QED
    BY <2>1 DEF NoDuplicates, Contents
<1> HIDE DEF t
<1>2. t \o s \in Seq(S) /\ NoDuplicates(t \o s) /\ Contents(t \o s) = Contents(s) \cup {x}
  BY <1>1, ConcatLists
<1> QED
  BY <1>2 DEF t

LEMMA OneLast ==
    ASSUME NEW S, NEW s \in Seq(S), NEW x \in S, NoDuplicates(s), x \notin Contents(s)
    PROVE  /\ Append(s, x) \in Seq(S) /\ NoDuplicates(Append(s, x))
           /\ Contents(Append(s, x)) = Contents(s) \cup {x}
<1> DEFINE t == <<x>>
<1>1. t \in Seq(S) /\ NoDuplicates(t) /\ Contents(t) = {x}
  <2>1. t \in Seq(S) /\ DOMAIN t = {1} /\ t[1] = x
    OBVIOUS
  <2> QED
    BY <2>1 DEF NoDuplicates, Contents
<1>2. Append(s, x) = s \o t
  BY AppendIsConcat
<1> HIDE DEF t
<1>3. s \o t \in Seq(S) /\ NoDuplicates(s \o t) /\ Contents(s \o t) = Contents(s) \cup {x}
  BY <1>1, ConcatLists
<1> QED
  BY <1>2, <1>3

\* DL_DELETE of an element that is in the list once.
LEMMA Unlinked ==
    ASSUME NEW S, NEW s \in Seq(S), NoDuplicates(s), NEW k \in DOMAIN s
    PROVE  LET w == Without(s, s[k])
           IN /\ w \in Seq(S) /\ Len(w) = Len(s) - 1 /\ DOMAIN w = 1 .. Len(s) - 1
              /\ \A i \in 1 .. Len(s) - 1 : w[i] = s[IF i < k THEN i ELSE i + 1]
<1> DEFINE n == Len(s)
           l == SubSeq(s, 1, k - 1)
           r == SubSeq(s, k + 1, n)
<1>1. n \in Nat /\ DOMAIN s = 1 .. n /\ k \in 1 .. n /\ \A i \in 1 .. n : s[i] \in S
  BY LenProperties
<1>2. Without(s, s[k]) = l \o r
  <2> DEFINE j == CHOOSE i \in DOMAIN s : s[i] = s[k]
  <2>1. j \in DOMAIN s /\ s[j] = s[k]
    OBVIOUS
  <2>2. j = k
    BY <2>1 DEF NoDuplicates
  <2> QED
    BY <2>2 DEF Without
<1>3. /\ l \in Seq(S) /\ Len(l) = k - 1 /\ \A i \in 1 .. k - 1 : l[i] = s[i]
  <2>1. 1 \in Int /\ k - 1 \in Int /\ \A i \in 1 .. k - 1 : s[i] \in S
    BY <1>1
  <2> HIDE DEF n
  <2>2. /\ l \in Seq(S) /\ Len(l) = IF 1 <= k - 1 THEN (k - 1) - 1 + 1 ELSE 0
        /\ \A i \in 1 .. (k - 1) - 1 + 1 : l[i] = s[1 + i - 1]
    BY <2>1, SubSeqProperties
  <2> HIDE DEF l
  <2>3. Len(l) = k - 1
    BY <1>1, <2>2
  <2>4. ASSUME NEW i \in 1 .. k - 1
        PROVE  l[i] = s[i]
    <3>1. i \in 1 .. (k - 1) - 1 + 1 /\ 1 + i - 1 = i
      BY <1>1
    <3> QED
      BY <2>2, <3>1
  <2> QED
    BY <2>2, <2>3, <2>4
<1>4. /\ r \in Seq(S) /\ Len(r) = n - k /\ \A i \in 1 .. n - k : r[i] = s[k + i]
  <2>1. k + 1 \in Int /\ n \in Int /\ \A i \in k + 1 .. n : s[i] \in S
    BY <1>1
  <2> HIDE DEF n
  <2>2. /\ r \in Seq(S) /\ Len(r) = IF k + 1 <= n THEN n - (k + 1) + 1 ELSE 0
        /\ \A i \in 1 .. n - (k + 1) + 1 : r[i] = s[(k + 1) + i - 1]
    BY <2>1, SubSeqProperties
  <2> HIDE DEF r
  <2>3. Len(r) = n - k
    BY <1>1, <2>2
  <2>4. ASSUME NEW i \in 1 .. n - k
        PROVE  r[i] = s[k + i]
    <3>1. i \in 1 .. n - (k + 1) + 1 /\ (k + 1) + i - 1 = k + i
      BY <1>1
    <3> QED
      BY <2>2, <3>1
  <2> QED
    BY <2>2, <2>3, <2>4
<1> HIDE DEF l, r, n
<1>5. /\ l \o r \in Seq(S) /\ Len(l \o r) = (k - 1) + (n - k)
      /\ \A i \in 1 .. (k - 1) + (n - k) : (l \o r)[i] = IF i <= k - 1 THEN l[i] ELSE r[i - (k - 1)]
  <2>1. /\ l \o r \in Seq(S) /\ Len(l \o r) = Len(l) + Len(r)
        /\ \A i \in 1 .. Len(l) + Len(r) :
              (l \o r)[i] = IF i <= Len(l) THEN l[i] ELSE r[i - Len(l)]
    BY <1>3, <1>4, ConcatProperties
  <2>2. Len(l) = k - 1 /\ Len(r) = n - k
    BY <1>3, <1>4
  <2> QED
    BY <2>1, <2>2
<1> DEFINE w == l \o r
<1>6. w \in Seq(S) /\ Len(w) = n - 1 /\ DOMAIN w = 1 .. n - 1
  <2>1. w \in Seq(S) /\ Len(w) = n - 1
    BY <1>1, <1>5
  <2> QED
    BY <2>1, LenProperties
<1>7. ASSUME NEW i \in 1 .. n - 1
      PROVE  w[i] = s[IF i < k THEN i ELSE i + 1]
  <2>1. w[i] = IF i <= k - 1 THEN l[i] ELSE r[i - (k - 1)]
    <3>1. i \in 1 .. (k - 1) + (n - k)
      BY <1>1
    <3> QED
      BY <1>5, <3>1
  <2>2. CASE i < k
    <3>1. i <= k - 1 /\ i \in 1 .. k - 1
      BY <1>1, <2>2
    <3> QED
      BY <1>3, <2>1, <2>2, <3>1
  <2>3. CASE ~(i < k)
    <3>1. ~(i <= k - 1) /\ i - (k - 1) \in 1 .. n - k /\ k + (i - (k - 1)) = i + 1
      BY <1>1, <2>3
    <3>2. r[i - (k - 1)] = s[i + 1]
      BY <1>4, <3>1
    <3> QED
      BY <2>1, <2>3, <3>1, <3>2
  <2> QED
    BY <2>2, <2>3
<1> HIDE DEF w
<1> QED
  BY <1>2, <1>6, <1>7 DEF n, w

LEMMA WithoutIs ==
    ASSUME NEW S, NEW s \in Seq(S), NoDuplicates(s), NEW x \in Contents(s)
    PROVE  /\ Without(s, x) \in Seq(S) /\ NoDuplicates(Without(s, x))
           /\ Contents(Without(s, x)) = Contents(s) \ {x}
<1>1. PICK k \in DOMAIN s : s[k] = x
  BY DEF Contents
<1> DEFINE n == Len(s)
           w == Without(s, x)
           up(i) == IF i < k THEN i ELSE i + 1
<1>2. n \in Nat /\ DOMAIN s = 1 .. n /\ k \in 1 .. n
  BY LenProperties
<1>3. w \in Seq(S) /\ DOMAIN w = 1 .. n - 1 /\ \A i \in 1 .. n - 1 : w[i] = s[up(i)]
  BY <1>1, Unlinked
<1> HIDE DEF w, n
<1>4. \A i \in 1 .. n - 1 : up(i) \in 1 .. n /\ up(i) # k
  BY <1>2
<1>5. \A i, j \in 1 .. n - 1 : up(i) = up(j) => i = j
  BY <1>2
<1>6. ASSUME NEW j \in 1 .. n, j # k
      PROVE  \E i \in 1 .. n - 1 : up(i) = j
  <2>1. CASE j < k
    BY <1>2, <2>1
  <2>2. CASE j > k
    <3>1. j - 1 \in 1 .. n - 1 /\ up(j - 1) = j
      BY <1>2, <2>2
    <3> QED
      BY <3>1
  <2> QED
    BY <1>2, <1>6, <2>1, <2>2
<1> HIDE DEF up
<1>7. NoDuplicates(w)
  BY <1>2, <1>3, <1>4, <1>5 DEF NoDuplicates
<1>8. ASSUME NEW i \in 1 .. n - 1
      PROVE  w[i] \in Contents(s) \ {x}
  <2>1. s[up(i)] # s[k]
    BY <1>2, <1>4 DEF NoDuplicates
  <2> QED
    BY <1>1, <1>2, <1>3, <1>4, <2>1 DEF Contents
<1>9. ASSUME NEW j \in 1 .. n, s[j] # x
      PROVE  s[j] \in Contents(w)
  <2>1. PICK i \in 1 .. n - 1 : up(i) = j
    BY <1>1, <1>6, <1>9
  <2> QED
    BY <1>3, <2>1 DEF Contents
<1>10. Contents(w) = Contents(s) \ {x}
  <2>1. Contents(w) \subseteq Contents(s) \ {x}
    BY <1>3, <1>8 DEF Contents
  <2>2. Contents(s) \ {x} \subseteq Contents(w)
    BY <1>2, <1>9 DEF Contents
  <2> QED
    BY <2>1, <2>2
<1> QED
  BY <1>3, <1>7, <1>10 DEF w

\* The list of what a function gives for its elements loses the same one.
LEMMA WithoutMapped ==
    ASSUME NEW S, NEW s \in Seq(S), NoDuplicates(s), NEW x \in Contents(s),
           NEW f,
           \A y, z \in Contents(s) : f[y] = f[z] => y = z
    PROVE  Without(Mapped(s, f), f[x]) = Mapped(Without(s, x), f)
<1>1. PICK k \in DOMAIN s : s[k] = x
  BY DEF Contents
<1> DEFINE n == Len(s)
           w == Without(s, x)
           up(i) == IF i < k THEN i ELSE i + 1
           g == [i \in DOMAIN s |-> f[s[i]]]
           T == {f[y] : y \in Contents(s)}
<1>2. n \in Nat /\ DOMAIN s = 1 .. n /\ k \in 1 .. n
  BY LenProperties
<1>3. w \in Seq(S) /\ DOMAIN w = 1 .. n - 1 /\ \A i \in 1 .. n - 1 : w[i] = s[up(i)]
  BY <1>1, Unlinked
<1> HIDE DEF w, n
<1>4. \A i \in 1 .. n - 1 : up(i) \in 1 .. n
  BY <1>2
<1>5. g \in Seq(T) /\ DOMAIN g = 1 .. n /\ Len(g) = n /\ \A i \in 1 .. n : g[i] = f[s[i]]
  <2>1. \A i \in 1 .. n : g[i] = f[s[i]] /\ f[s[i]] \in T
    BY <1>2 DEF Contents
  <2>2. g = [i \in 1 .. n |-> g[i]]
    BY <1>2
  <2> HIDE DEF g, T
  <2>3. g \in [1 .. n -> T]
    BY <2>1, <2>2
  <2>4. g \in Seq(T)
    BY <1>2, <2>3, SeqDef
  <2> QED
    BY <1>2, <2>1, <2>3, <2>4, LenProperties
<1> HIDE DEF g, T
<1>6. NoDuplicates(g)
  <2>1. SUFFICES ASSUME NEW i \in 1 .. n, NEW j \in 1 .. n, f[s[i]] = f[s[j]]
                 PROVE  i = j
    BY <1>5 DEF NoDuplicates
  <2>2. s[i] = s[j]
    BY <1>2, <2>1 DEF Contents
  <2> QED
    BY <1>2, <2>2 DEF NoDuplicates
<1> DEFINE v == Without(g, f[x])
<1>7. v \in Seq(T) /\ DOMAIN v = 1 .. n - 1 /\ \A i \in 1 .. n - 1 : v[i] = g[up(i)]
  <2>1. k \in DOMAIN g /\ g[k] = f[x]
    BY <1>1, <1>2, <1>5
  <2> HIDE DEF v, up
  <2>2. g \in Seq(T) /\ NoDuplicates(g) /\ k \in DOMAIN g
    BY <1>5, <1>6, <2>1
  <2>3. /\ Without(g, g[k]) \in Seq(T) /\ DOMAIN Without(g, g[k]) = 1 .. Len(g) - 1
        /\ \A i \in 1 .. Len(g) - 1 : Without(g, g[k])[i] = g[up(i)]
    BY ONLY <2>2, Unlinked DEF up
  <2>4. v = Without(g, g[k])
    BY <2>1 DEF v
  <2> QED
    BY <1>5, <2>3, <2>4
<1> HIDE DEF v, up
<1>8. \A i \in 1 .. n - 1 : v[i] = f[w[i]]
  BY <1>3, <1>4, <1>5, <1>7
<1>9. v = [i \in 1 .. n - 1 |-> v[i]]
  BY <1>7, LenProperties
<1>10. v = [i \in DOMAIN w |-> f[w[i]]]
  BY <1>3, <1>8, <1>9
<1> QED
  BY <1>10 DEF v, w, g, Mapped

LEMMA TailIs ==
    ASSUME NEW S, NEW s \in Seq(S), s # << >>, NoDuplicates(s)
    PROVE  /\ Tail(s) \in Seq(S) /\ NoDuplicates(Tail(s))
           /\ Head(s) \in Contents(s)
           /\ Contents(Tail(s)) = Contents(s) \ {Head(s)}
<1> DEFINE n == Len(s)
           t == Tail(s)
<1>1. n \in Nat \ {0} /\ DOMAIN s = 1 .. n /\ Head(s) = s[1] /\ 1 \in DOMAIN s
  <2>1. n \in Nat \ {0} /\ DOMAIN s = 1 .. n
    BY EmptySeq, LenProperties
  <2> QED
    BY <2>1
<1>2. t \in Seq(S) /\ DOMAIN t = 1 .. n - 1 /\ \A i \in 1 .. n - 1 : t[i] = s[i + 1]
  BY HeadTailProperties, LenProperties
<1> HIDE DEF t, n
<1>3. \A i \in 1 .. n - 1 : i + 1 \in 1 .. n /\ i + 1 # 1
  BY <1>1
<1>4. \A j \in 1 .. n : j # 1 => j - 1 \in 1 .. n - 1 /\ (j - 1) + 1 = j
  BY <1>1
<1>5. NoDuplicates(t)
  <2>1. SUFFICES ASSUME NEW i \in 1 .. n - 1, NEW j \in 1 .. n - 1, s[i + 1] = s[j + 1]
                 PROVE  i = j
    BY <1>2 DEF NoDuplicates
  <2>2. i + 1 = j + 1
    BY <1>1, <1>3, <2>1 DEF NoDuplicates
  <2> QED
    BY <1>1, <2>2
<1>6. Contents(t) = Contents(s) \ {s[1]}
  <2>1. ASSUME NEW i \in 1 .. n - 1
        PROVE  t[i] \in Contents(s) \ {s[1]}
    <3>1. s[i + 1] # s[1]
      BY <1>1, <1>3 DEF NoDuplicates
    <3> QED
      BY <1>1, <1>2, <1>3, <3>1 DEF Contents
  <2>2. ASSUME NEW j \in 1 .. n, s[j] # s[1]
        PROVE  s[j] \in Contents(t)
    <3>1. t[j - 1] = s[j] /\ j - 1 \in 1 .. n - 1
      BY <1>2, <1>4, <2>2
    <3> QED
      BY <1>2, <3>1 DEF Contents
  <2>3. Contents(t) \subseteq Contents(s) \ {s[1]}
    BY <1>2, <2>1 DEF Contents
  <2>4. Contents(s) \ {s[1]} \subseteq Contents(t)
    BY <1>1, <2>2 DEF Contents
  <2> QED
    BY <2>3, <2>4
<1>7. s[1] \in Contents(s)
  BY <1>1 DEF Contents
<1> QED
  BY <1>1, <1>2, <1>5, <1>6, <1>7 DEF t

LEMMA AppendMapped ==
    ASSUME NEW S, NEW s \in Seq(S), NEW x \in S, NEW f
    PROVE  Mapped(Append(s, x), f) = Append(Mapped(s, f), f[x])
<1> DEFINE n == Len(s)
           h == [i \in DOMAIN s |-> f[s[i]]]
           t == Append(s, x)
           u == Append(h, f[x])
           T == {f[y] : y \in Contents(s)} \cup {f[x]}
<1>1. n \in Nat /\ DOMAIN s = 1 .. n
  BY LenProperties
<1>2. t \in Seq(S) /\ DOMAIN t = 1 .. n + 1 /\ (\A i \in 1 .. n : t[i] = s[i]) /\ t[n + 1] = x
  <2>1. t \in Seq(S) /\ Len(t) = n + 1 /\ (\A i \in 1 .. n : t[i] = s[i]) /\ t[n + 1] = x
    BY AppendProperties
  <2> QED
    BY <2>1, LenProperties
<1>3. h \in Seq(T) /\ Len(h) = n /\ \A i \in 1 .. n : h[i] = f[s[i]]
  <2>1. \A i \in 1 .. n : h[i] = f[s[i]] /\ f[s[i]] \in T
    BY <1>1 DEF Contents
  <2>2. h = [i \in 1 .. n |-> h[i]]
    BY <1>1
  <2> HIDE DEF h, T
  <2>3. h \in [1 .. n -> T]
    BY <2>1, <2>2
  <2>4. h \in Seq(T)
    BY <1>1, <2>3, SeqDef
  <2> QED
    BY <1>1, <2>1, <2>3, <2>4, LenProperties
<1> f[x] \in T
  OBVIOUS
<1> HIDE DEF h, n, T
<1>4. u \in Seq(T) /\ DOMAIN u = 1 .. n + 1 /\ (\A i \in 1 .. n : u[i] = h[i]) /\ u[n + 1] = f[x]
  <2>1. u \in Seq(T) /\ Len(u) = n + 1 /\ (\A i \in 1 .. n : u[i] = h[i]) /\ u[n + 1] = f[x]
    BY <1>3, AppendProperties
  <2> QED
    BY <2>1, LenProperties
<1> HIDE DEF t, u
<1>5. \A i \in 1 .. n + 1 : u[i] = f[t[i]]
  <2>1. \A i \in 1 .. n + 1 : i \in 1 .. n \/ i = n + 1
    BY <1>1
  <2>2. \A i \in 1 .. n : u[i] = f[t[i]]
    BY <1>1, <1>2, <1>3, <1>4 DEF Contents
  <2> QED
    BY <1>2, <1>4, <2>1, <2>2
<1>6. u = [i \in 1 .. n + 1 |-> u[i]]
  BY <1>4, LenProperties
<1>7. u = [i \in DOMAIN t |-> f[t[i]]]
  BY <1>2, <1>5, <1>6
<1> QED
  BY <1>7 DEF t, u, h, Mapped

-----------------------------------------------------------------------------
(***************************************************************************)
(* What the invariant says of a pool.                                      *)
(***************************************************************************)

\* The types of what a pool has.
LEMMA PoolTypes ==
    ASSUME Types, NEW p \in PoolSlots
    PROVE  /\ pool[p] \in PoolType
           /\ pool[p].acquired \in Seq(Elements) /\ pool[p].released \in Seq(Elements)
           /\ pool[p].use \in BOOLEAN /\ pool[p].count \in 0 .. MaxCount
           /\ pool[p].array \in 0 .. MaxInits
           /\ held[p] \in Seq(OvlSlots)
BY DEF Types, PoolType

\* Elements of different pools differ, and handles of different elements.
LEMMA OwnApart ==
    ASSUME Arrays, NEW p \in PoolSlots, NEW q \in PoolSlots, p # q, pool[p].use, pool[q].use
    PROVE  Own(p) \cap Own(q) = {}
BY DEF Arrays, Own

LEMMA OwnElements ==
    ASSUME Types, NEW p \in PoolSlots, pool[p].use, Good(p)
    PROVE  Own(p) \subseteq Elements
<1>1. Contents(pool[p].acquired) \subseteq Elements /\ Contents(pool[p].released) \subseteq Elements
  BY PoolTypes, ContentsIn
<1> QED
  BY <1>1 DEF Good, Shares

\* A handle of the application is that of an element in AcquiredList.
LEMMA HeldHas ==
    ASSUME IInv, NEW p \in PoolSlots, NEW o \in Contents(held[p])
    PROVE  /\ pool[p].use /\ o \in OvlSlots /\ o # NoOvl
           /\ ovl[o].link \in Contents(pool[p].acquired) /\ ovl[o].link \in Own(p)
           /\ elHandle[ovl[o].link] = o
           /\ ovl[o].use /\ ovl[o].pool = p /\ ovl[o].isAcquired
<1>1. Types /\ Good(p)
  BY DEF IInv
<1>2. pool[p].use
  BY <1>1 DEF Good, Contents
<1>3. Shares(p) /\ Linked(p) /\ held[p] = Mapped(pool[p].acquired, elHandle)
  BY <1>1, <1>2 DEF Good
<1>4. PICK i \in DOMAIN held[p] : o = held[p][i]
  BY DEF Contents
<1> DEFINE e == pool[p].acquired[i]
<1>5. e \in Contents(pool[p].acquired) /\ o = elHandle[e]
  BY <1>3, <1>4 DEF Mapped, Contents
<1> HIDE DEF e
<1>6. e \in Own(p)
  BY <1>3, <1>5 DEF Shares
<1>7. o \in OvlSlots
  BY <1>1, <1>4, PoolTypes, ContentsIn
<1>8. o # NoOvl
  BY <1>7, SlotAssumption
<1>9. ovl[o].use /\ ovl[o].pool = p /\ ovl[o].link = e /\ ovl[o].isAcquired
  BY <1>3, <1>5, <1>6, <1>8 DEF Linked
<1> QED
  BY <1>2, <1>5, <1>6, <1>7, <1>8, <1>9

\* The handles of the elements in AcquiredList are handles, and differ.
LEMMA AcquiredHandles ==
    ASSUME IInv, NEW p \in PoolSlots, pool[p].use
    PROVE  /\ \A e \in Contents(pool[p].acquired) : elHandle[e] \in OvlSlots
           /\ \A e, g \in Own(p) : elHandle[e] = elHandle[g] /\ elHandle[e] # NoOvl => e = g
<1>1. Types /\ Good(p) /\ Shares(p) /\ Linked(p)
  BY DEF IInv, Good
<1>2. \A e \in Own(p) : elHandle[e] \in OvlSlots \cup {NoOvl}
  BY <1>1, OwnElements DEF Types
<1>3. \A e \in Contents(pool[p].acquired) : elHandle[e] \in OvlSlots
  BY <1>1, <1>2 DEF Shares, Linked
<1> QED
  BY <1>1, <1>3 DEF Linked

\* A pool keeps what it has if its elements and their handles do.
LEMMA Untouched ==
    ASSUME Types, NEW q \in PoolSlots, Good(q), pool'[q] = pool[q], held'[q] = held[q],
           pool[q].use =>
             \A e \in Own(q) :
               /\ elHandle'[e] = elHandle[e]
               /\ elHandle[e] # NoOvl =>
                    /\ ovl'[elHandle[e]].use = ovl[elHandle[e]].use
                    /\ ovl'[elHandle[e]].pool = ovl[elHandle[e]].pool
                    /\ ovl'[elHandle[e]].link = ovl[elHandle[e]].link
                    /\ ovl'[elHandle[e]].isAcquired = ovl[elHandle[e]].isAcquired
                    /\ ovl'[elHandle[e]].io = "pending" =>
                           \/ ovl[elHandle[e]].io = "pending"
                              /\ ovl'[elHandle[e]].blind = ovl[elHandle[e]].blind
                           \/ ovl[elHandle[e]].isAcquired
    PROVE  Good(q)'
<1>1. CASE ~pool[q].use
  BY <1>1 DEF Good
<1>2. CASE pool[q].use
  <2>1. Shares(q) /\ Linked(q) /\ held[q] = Mapped(pool[q].acquired, elHandle)
    BY <1>2 DEF Good
  <2>2. Own(q)' = Own(q)
    BY DEF Own
  <2>3. Shares(q)'
    BY <2>1, <2>2 DEF Shares
  <2>4. Linked(q)'
    BY <1>2, <2>1, <2>2 DEF Linked, Shares
  <2>5. \A i \in DOMAIN pool[q].acquired : elHandle'[pool[q].acquired[i]] = elHandle[pool[q].acquired[i]]
    BY <1>2, <2>1 DEF Shares, Contents
  <2>6. held'[q] = [i \in DOMAIN pool'[q].acquired |-> elHandle'[pool'[q].acquired[i]]]
    BY <2>1, <2>5 DEF Mapped
  <2> QED
    BY <1>2, <2>3, <2>4, <2>6 DEF Good, Mapped
<1> QED
  BY <1>1, <1>2, PoolTypes

-----------------------------------------------------------------------------
(***************************************************************************)
(* Steps that move no element.                                             *)
(***************************************************************************)

\* The flags of OvlK_Wait are bits.
LEMMA FlagsOK == \A f \in Flags : FlagBits(f) \in SUBSET {1, 2, 4, 8}
BY DEF Flags, FlagBits, ReleaseOnSuccess, ReleaseOnFail, CancelOnTimeout, ReleaseOnTimeout

\* A transfer of o starts, ends or is cancelled, or o is made ready for one.
LEMMA IoOK ==
    ASSUME IInv, NEW o \in OvlSlots, NEW r \in OvlType, ovl' = [ovl EXCEPT ![o] = r],
           r.use = ovl[o].use, r.pool = ovl[o].pool, r.link = ovl[o].link,
           r.isAcquired = ovl[o].isAcquired,
           r.io = "pending" => \/ ovl[o].io = "pending" /\ r.blind = ovl[o].blind
                               \/ ovl[o].isAcquired,
           UNCHANGED <<inits, pool, elHandle, usbRefs, held>>,
           wait' \in WaitType, Waiting'
    PROVE  IInv'
<1>1. Types /\ Arrays /\ NoUsbLeak
  BY DEF IInv
<1>2. Types'
  BY <1>1 DEF Types
<1>3. /\ \A h \in OvlSlots : h # o => ovl'[h] = ovl[h]
      /\ ovl'[o] = r
  BY <1>1 DEF Types
<1>4. ASSUME NEW q \in PoolSlots
      PROVE  Good(q)'
  <2>1. Good(q)
    BY DEF IInv
  <2>2. ASSUME pool[q].use, NEW e \in Own(q), elHandle[e] # NoOvl
        PROVE  elHandle[e] \in OvlSlots
    BY <1>1, <2>1, <2>2, OwnElements DEF Types
  <2>3. ASSUME pool[q].use, NEW e \in Own(q), elHandle[e] # NoOvl
        PROVE  /\ ovl'[elHandle[e]].use = ovl[elHandle[e]].use
               /\ ovl'[elHandle[e]].pool = ovl[elHandle[e]].pool
               /\ ovl'[elHandle[e]].link = ovl[elHandle[e]].link
               /\ ovl'[elHandle[e]].isAcquired = ovl[elHandle[e]].isAcquired
               /\ ovl'[elHandle[e]].io = "pending" =>
                      \/ ovl[elHandle[e]].io = "pending"
                         /\ ovl'[elHandle[e]].blind = ovl[elHandle[e]].blind
                      \/ ovl[elHandle[e]].isAcquired
    BY <1>3, <2>2, <2>3
  <2> QED
    BY <1>1, <2>1, <2>3, Untouched
<1>5. Arrays' /\ NoUsbLeak'
  BY <1>1 DEF Arrays, NoUsbLeak, Own
<1> QED
  BY <1>2, <1>4, <1>5 DEF IInv

\* Nothing changes but the wait.
LEMMA WaitOK ==
    ASSUME IInv, UNCHANGED <<inits, pool, elHandle, ovl, usbRefs, held>>,
           wait' \in WaitType, Waiting'
    PROVE  IInv'
<1>1. Types /\ Arrays /\ NoUsbLeak
  BY DEF IInv
<1>2. Types'
  BY <1>1 DEF Types
<1>3. ASSUME NEW q \in PoolSlots
      PROVE  Good(q)'
  BY <1>1, Untouched DEF IInv
<1>4. Arrays' /\ NoUsbLeak'
  BY <1>1 DEF Arrays, NoUsbLeak, Own
<1> QED
  BY <1>2, <1>3, <1>4 DEF IInv

LEMMA NoWaitOK ==
    /\ NoWait \in WaitType /\ NoWait.phase = "none"
    /\ (wait' = NoWait => wait' \in WaitType /\ Waiting')
<1>1. NoWait \in WaitType /\ NoWait.phase = "none"
  BY DEF NoWait, WaitType
<1> QED
  BY <1>1 DEF Waiting

-----------------------------------------------------------------------------
(***************************************************************************)
(* OvlK_Release.                                                           *)
(***************************************************************************)

LEMMA ReleaseOK ==
    ASSUME IInv, NEW p \in PoolSlots, NEW o \in Contents(held[p]), NEW b \in BOOLEAN,
           ovl[o].io = "pending" => b,
           Release(o, b), UNCHANGED <<inits, elHandle, usbRefs>>,
           wait' \in WaitType, wait'.phase = "none"
    PROVE  IInv'
<1>1. Types /\ Arrays /\ NoUsbLeak /\ Good(p)
  BY DEF IInv
<1> DEFINE e == ovl[o].link
           a == pool[p].acquired
           r == pool[p].released
<1>2. /\ pool[p].use /\ o \in OvlSlots /\ o # NoOvl
      /\ e \in Contents(a) /\ e \in Own(p) /\ elHandle[e] = o
      /\ ovl[o].use /\ ovl[o].pool = p /\ ovl[o].isAcquired
  BY HeldHas
<1>3. p # NoPool
  BY SlotAssumption
<1>4. /\ ovl' = [ovl EXCEPT ![o].isAcquired = FALSE, ![o].blind = b /\ ovl[o].io \in InFlight]
      /\ pool' = [pool EXCEPT ![p].acquired = Without(a, e), ![p].released = <<e>> \o r]
      /\ held' = [held EXCEPT ![p] = Without(held[p], o)]
  BY <1>2, <1>3 DEF Release
<1>5. Shares(p) /\ Linked(p) /\ held[p] = Mapped(a, elHandle)
  BY <1>1, <1>2 DEF Good
<1>6. a \in Seq(Elements) /\ r \in Seq(Elements) /\ held[p] \in Seq(OvlSlots) /\ e \in Elements
  BY <1>1, <1>2, PoolTypes, OwnElements
<1>7. /\ NoDuplicates(a) /\ NoDuplicates(r) /\ e \notin Contents(r)
      /\ Contents(a) \cap Contents(r) = {} /\ Contents(a) \cup Contents(r) = Own(p)
  BY <1>2, <1>5 DEF Shares
<1> HIDE DEF a, r
<1>8. /\ Without(a, e) \in Seq(Elements) /\ NoDuplicates(Without(a, e))
      /\ Contents(Without(a, e)) = Contents(a) \ {e}
  BY <1>2, <1>6, <1>7, WithoutIs
<1>9. /\ <<e>> \o r \in Seq(Elements) /\ NoDuplicates(<<e>> \o r)
      /\ Contents(<<e>> \o r) = Contents(r) \cup {e}
  BY <1>6, <1>7, OneMore
<1>10. /\ pool'[p].use = pool[p].use /\ pool'[p].acquired = Without(a, e) /\ pool'[p].released = <<e>> \o r
       /\ pool'[p].count = pool[p].count /\ pool'[p].array = pool[p].array
       /\ pool' \in [PoolSlots -> PoolType]
       /\ \A q \in PoolSlots : q # p => pool'[q] = pool[q]
  <2> DEFINE x == [pool[p] EXCEPT !.acquired = Without(a, e), !.released = <<e>> \o r]
  <2>1. pool' = [pool EXCEPT ![p] = x]
    BY <1>1, <1>4 DEF Types
  <2>2. /\ x \in PoolType /\ x.use = pool[p].use /\ x.count = pool[p].count
        /\ x.array = pool[p].array /\ x.acquired = Without(a, e) /\ x.released = <<e>> \o r
    BY <1>1, <1>8, <1>9 DEF Types, PoolType
  <2> HIDE DEF x
  <2> QED
    BY <1>1, <1>2, <2>1, <2>2 DEF Types
<1>11. /\ \A h \in OvlSlots : h # o => ovl'[h] = ovl[h]
       /\ ovl'[o].use /\ ovl'[o].pool = p /\ ovl'[o].link = e /\ ~ovl'[o].isAcquired
       /\ ovl'[o].io = "pending" => ovl'[o].blind
       /\ ovl' \in [OvlSlots -> OvlType]
  <2> DEFINE x == [ovl[o] EXCEPT !.isAcquired = FALSE, !.blind = b /\ ovl[o].io \in InFlight]
  <2>1. ovl[o] \in OvlType /\ ovl \in [OvlSlots -> OvlType]
    BY <1>1, <1>2 DEF Types
  <2>2. ovl' = [ovl EXCEPT ![o] = x]
    BY <1>4
  <2>3. /\ x \in OvlType /\ x.use = ovl[o].use /\ x.pool = ovl[o].pool /\ x.link = ovl[o].link
        /\ ~x.isAcquired /\ (x.io = "pending" => x.blind)
    BY <2>1 DEF OvlType, InFlight
  <2> HIDE DEF x
  <2>4. (\A h \in OvlSlots : h # o => ovl'[h] = ovl[h]) /\ ovl'[o] = x /\ ovl' \in [OvlSlots -> OvlType]
    BY <1>2, <2>1, <2>2, <2>3
  <2> QED
    BY <1>2, <2>3, <2>4
<1>12. held' \in [PoolSlots -> Seq(OvlSlots)] /\ held'[p] = Without(held[p], o)
       /\ \A q \in PoolSlots : q # p => held'[q] = held[q]
  <2>1. NoDuplicates(held[p])
    <3>1. DOMAIN held[p] = DOMAIN a /\ \A i \in DOMAIN a : held[p][i] = elHandle[a[i]]
      BY <1>5 DEF Mapped
    <3>2. \A i \in DOMAIN a : a[i] \in Own(p) /\ elHandle[a[i]] # NoOvl
      BY <1>2, <1>5, <1>7 DEF Contents, Linked, a
    <3>3. \A i, j \in DOMAIN a : elHandle[a[i]] = elHandle[a[j]] => a[i] = a[j]
      BY <1>2, <3>2, AcquiredHandles
    <3> QED
      BY <1>7, <3>1, <3>3 DEF NoDuplicates
  <2>2. Without(held[p], o) \in Seq(OvlSlots)
    BY <1>6, <2>1, WithoutIs
  <2> QED
    BY <1>1, <1>4, <2>2 DEF Types
<1>13. Types'
  BY <1>1, <1>10, <1>11, <1>12 DEF Types
<1>14. Own(p)' = Own(p)
  BY <1>10 DEF Own
<1>15. Good(p)'
  <2>1. Shares(p)'
    BY <1>2, <1>7, <1>8, <1>9, <1>10, <1>14 DEF Shares
  <2>2. Linked(p)'
    <3>1. ASSUME NEW g \in Own(p), g # e, elHandle[g] # NoOvl
          PROVE  elHandle[g] # o /\ elHandle[g] \in OvlSlots
      BY <1>1, <1>2, <3>1, AcquiredHandles, OwnElements DEF Types
    <3>2. ASSUME NEW g \in Own(p), g # e
          PROVE  /\ elHandle[g] = NoOvl => g \notin Contents(pool'[p].acquired)
                 /\ elHandle[g] # NoOvl =>
                    /\ ovl'[elHandle[g]].use /\ ovl'[elHandle[g]].pool = p
                    /\ ovl'[elHandle[g]].link = g
                    /\ ovl'[elHandle[g]].isAcquired <=> g \in Contents(pool'[p].acquired)
                    /\ g \in Contents(pool'[p].released) /\ ovl'[elHandle[g]].io = "pending" =>
                           ovl'[elHandle[g]].blind
      BY <1>5, <1>8, <1>9, <1>10, <1>11, <3>1, <3>2 DEF Linked, a, r
    <3>3. /\ elHandle[e] = o /\ ovl'[o].use /\ ovl'[o].pool = p /\ ovl'[o].link = e
          /\ ~ovl'[o].isAcquired /\ e \notin Contents(pool'[p].acquired)
          /\ ovl'[o].io = "pending" => ovl'[o].blind
      BY <1>2, <1>8, <1>10, <1>11
    <3> QED
      BY <1>2, <1>14, <3>2, <3>3 DEF Linked
  <2>3. held'[p] = Mapped(Without(a, e), elHandle)
    <3>1. \A y \in Contents(a) : elHandle[y] \in OvlSlots
      BY <1>2, AcquiredHandles DEF a
    <3>2. \A y, z \in Contents(a) : elHandle[y] = elHandle[z] => y = z
      <4>1. \A y \in Contents(a) : y \in Own(p) /\ elHandle[y] # NoOvl
        BY <1>7, <3>1, SlotAssumption
      <4> QED
        BY <1>2, <4>1, AcquiredHandles
    <3>3. a \in Seq(Elements) /\ NoDuplicates(a) /\ elHandle \in [Elements -> OvlSlots \cup {NoOvl}]
      BY <1>1, <1>6, <1>7 DEF Types
    <3>4. e \in Contents(a)
      BY <1>2
    <3> HIDE DEF e
    <3>5. Without(Mapped(a, elHandle), elHandle[e]) = Mapped(Without(a, e), elHandle)
      BY ONLY <3>2, <3>3, <3>4, WithoutMapped
    <3> QED
      BY <1>2, <1>5, <1>12, <3>5
  <2> QED
    BY <1>2, <1>10, <2>1, <2>2, <2>3 DEF Good
<1>16. ASSUME NEW q \in PoolSlots
       PROVE  Good(q)'
  <2>1. CASE q # p
    <3>1. Good(q) /\ pool'[q] = pool[q] /\ held'[q] = held[q]
      BY <1>10, <1>12, <2>1 DEF IInv
    <3>2. ASSUME pool[q].use, NEW g \in Own(q), elHandle[g] # NoOvl
          PROVE  elHandle[g] # o /\ elHandle[g] \in OvlSlots
      <4>1. elHandle[g] \in OvlSlots
        BY <1>1, <3>1, <3>2, OwnElements DEF Types
      <4>2. ovl[elHandle[g]].pool = q
        BY <3>1, <3>2 DEF Good, Linked
      <4> QED
        BY <1>2, <2>1, <4>1, <4>2
    <3>3. ASSUME pool[q].use, NEW g \in Own(q), elHandle[g] # NoOvl
          PROVE  ovl'[elHandle[g]] = ovl[elHandle[g]]
      BY <1>11, <3>2, <3>3
    <3>4. elHandle' = elHandle
      OBVIOUS
    <3>5. ASSUME pool[q].use, NEW g \in Own(q)
          PROVE  /\ elHandle'[g] = elHandle[g]
                 /\ elHandle[g] # NoOvl => ovl'[elHandle[g]] = ovl[elHandle[g]]
      BY <3>3, <3>4, <3>5
    <3> HIDE DEF e
    <3> QED
      BY <1>1, <3>1, <3>5, Untouched
  <2> QED
    BY <1>15, <2>1
<1>17. Arrays'
  <2>1. ASSUME NEW q \in PoolSlots
        PROVE  /\ pool'[q].use = pool[q].use /\ pool'[q].array = pool[q].array
               /\ pool'[q].count = pool[q].count
    BY <1>10
  <2>2. \A q \in PoolSlots : Own(q)' = Own(q)
    BY <2>1 DEF Own
  <2> QED
    BY <1>1, <2>1, <2>2 DEF Arrays
<1>18. NoUsbLeak'
  <2>1. {q \in PoolSlots : pool'[q].use} = {q \in PoolSlots : pool[q].use}
    BY <1>2, <1>10
  <2> QED
    BY <1>1, <2>1 DEF NoUsbLeak
<1>19. Waiting'
  BY <1>1, <1>11 DEF Waiting
<1> QED
  BY <1>13, <1>16, <1>17, <1>18, <1>19 DEF IInv

-----------------------------------------------------------------------------
(***************************************************************************)
(* The first state, OvlK_Init, OvlK_Acquire and OvlK_Free.                 *)
(***************************************************************************)

LEMMA FreePoolIs ==
    /\ FreePool \in PoolType /\ FreePool.use = FALSE
    /\ FreePool.acquired = << >> /\ FreePool.released = << >>
<1>1. << >> \in Seq(Elements) /\ 0 \in 0 .. MaxCount /\ 0 \in 0 .. MaxInits
  BY BoundAssumption
<1> QED
  BY <1>1 DEF FreePool, PoolType

LEMMA Empty ==
    /\ \A S : << >> \in Seq(S)
    /\ NoDuplicates(<< >>) /\ Contents(<< >>) = {}
    /\ \A f : Mapped(<< >>, f) = << >>
<1>1. DOMAIN << >> = {}
  OBVIOUS
<1>2. \A S : << >> \in Seq(S)
  OBVIOUS
<1>3. ASSUME NEW f
      PROVE  Mapped(<< >>, f) = << >>
  <2>1. [i \in DOMAIN << >> |-> f[<< >>[i]]] = << >>
    OBVIOUS
  <2> QED
    BY <2>1 DEF Mapped
<1> QED
  BY <1>1, <1>2, <1>3 DEF NoDuplicates, Contents

LEMMA InitOK == Init => IInv
<1> SUFFICES ASSUME Init
             PROVE  IInv
  OBVIOUS
<1>1. FreeOvl \in OvlType
  <2>1. <<1, 1>> \in Elements
    BY BoundAssumption DEF Elements
  <2> QED
    BY <2>1 DEF FreeOvl, OvlType
<1>2. Types
  <2>1. \A p \in PoolSlots : << >> \in Seq(OvlSlots)
    OBVIOUS
  <2>2. 0 \in 0 .. MaxInits
    BY BoundAssumption
  <2> QED
    BY <1>1, <2>1, <2>2, FreePoolIs, NoWaitOK DEF Init, Types
<1>3. \A p \in PoolSlots : Good(p)
  BY FreePoolIs DEF Good, Init
<1>4. Arrays
  BY FreePoolIs DEF Arrays, Init
<1>5. NoUsbLeak
  <2>1. {p \in PoolSlots : pool[p].use} = {}
    BY FreePoolIs DEF Init
  <2>2. Cardinality({}) = 0
    BY FS_EmptySet
  <2>3. usbRefs <= Cardinality({})
    BY <2>2 DEF Init
  <2> QED
    BY <2>1, <2>3 DEF NoUsbLeak
<1>6. Waiting
  BY NoWaitOK DEF Waiting, Init
<1> QED
  BY <1>2, <1>3, <1>4, <1>5, <1>6 DEF IInv

\* The live pools are finitely many.
LEMMA Live ==
    LET live == {p \in PoolSlots : pool[p].use}
    IN /\ IsFiniteSet(live) /\ Cardinality(live) \in Nat
       /\ \A p \in PoolSlots \ live : Cardinality(live \cup {p}) = Cardinality(live) + 1
       /\ \A p \in live : Cardinality(live \ {p}) = Cardinality(live) - 1
<1> DEFINE live == {p \in PoolSlots : pool[p].use}
<1>1. IsFiniteSet(live)
  BY SlotAssumption, FS_Subset
<1> HIDE DEF live
<1>2. Cardinality(live) \in Nat
  BY <1>1, FS_CardinalityType
<1>3. \A p \in PoolSlots \ live : Cardinality(live \cup {p}) = Cardinality(live) + 1
  BY <1>1, FS_AddElement
<1>4. \A p \in live : Cardinality(live \ {p}) = Cardinality(live) - 1
  BY <1>1, FS_RemoveElement
<1> QED
  BY <1>1, <1>2, <1>3, <1>4 DEF live

LEMMA OvlInitOK ==
    ASSUME IInv, NEW p \in PoolSlots, NEW n \in 1 .. MaxCount, OvlInit(p, n)
    PROVE  IInv'
<1> DEFINE a == inits + 1
           new == [i \in 1 .. n |-> <<a, i>>]
           r == << >> \o new
<1>1. Types /\ Arrays /\ NoUsbLeak /\ Good(p)
  BY DEF IInv
<1>2. pool[p] = FreePool /\ ~pool[p].use
  BY <1>1 DEF Good, OvlInit
<1>3. inits \in Nat /\ a \in 1 .. MaxInits /\ n \in Nat
  BY <1>1, BoundAssumption DEF OvlInit, Types
<1>4. /\ new \in Seq(Elements) /\ NoDuplicates(new)
      /\ Contents(new) = {<<a, i>> : i \in 1 .. n}
  <2>1. \A i \in 1 .. n : <<a, i>> \in Elements
    BY <1>3, BoundAssumption DEF Elements
  <2>2. DOMAIN new = 1 .. n /\ \A i \in 1 .. n : new[i] = <<a, i>>
    OBVIOUS
  <2>3. new \in [1 .. n -> Elements]
    BY <2>1
  <2>4. new \in Seq(Elements)
    BY <1>3, <2>3, SeqDef
  <2>5. NoDuplicates(new)
    BY <2>2 DEF NoDuplicates
  <2>6. Contents(new) = {<<a, i>> : i \in 1 .. n}
    BY <2>2 DEF Contents
  <2> QED
    BY <2>4, <2>5, <2>6
<1> HIDE DEF new
<1>5. r \in Seq(Elements) /\ NoDuplicates(r) /\ Contents(r) = {<<a, i>> : i \in 1 .. n}
  <2>1. << >> \in Seq(Elements) /\ NoDuplicates(<< >>) /\ Contents(<< >>) = {}
    BY Empty
  <2> QED
    BY <1>4, <2>1, ConcatLists
<1>6. /\ pool'[p].use /\ pool'[p].count = n /\ pool'[p].array = a
      /\ pool'[p].acquired = << >> /\ pool'[p].released = r
      /\ pool' \in [PoolSlots -> PoolType]
      /\ \A q \in PoolSlots : q # p => pool'[q] = pool[q]
  <2> DEFINE x == [pool[p] EXCEPT !.use = TRUE, !.count = n, !.array = a, !.released = r]
  <2>1. pool' = [pool EXCEPT ![p] = x]
    <3>1. pool' = [pool EXCEPT ![p].use = TRUE, ![p].count = n, ![p].array = a,
                               ![p].released = pool[p].released \o new]
      BY DEF OvlInit, new
    <3>2. pool[p].released \o new = r
      BY <1>2, FreePoolIs
    <3> HIDE DEF r, a
    <3> QED
      BY <1>1, <3>1, <3>2 DEF Types
  <2>2. pool \in [PoolSlots -> PoolType] /\ pool[p] \in PoolType /\ pool[p].acquired = << >>
    BY <1>1, <1>2, FreePoolIs DEF Types
  <2>3. n \in 0 .. MaxCount /\ a \in 0 .. MaxInits
    BY <1>3, BoundAssumption
  <2> HIDE DEF r, a
  <2>4. /\ x \in PoolType /\ x.use /\ x.count = n /\ x.array = a
        /\ x.acquired = << >> /\ x.released = r
    BY <1>5, <2>2, <2>3 DEF PoolType
  <2> HIDE DEF x
  <2> QED
    BY <2>1, <2>2, <2>4
<1> HIDE DEF r
<1>7. UNCHANGED <<elHandle, ovl, wait>> /\ inits' = a /\ usbRefs' = usbRefs + 1 /\ wait = NoWait
      /\ held' = [held EXCEPT ![p] = << >>]
  BY DEF OvlInit, Idle
<1>8. Types'
  <2>1. held' \in [PoolSlots -> Seq(OvlSlots)]
    BY <1>1, <1>7, Empty DEF Types
  <2>2. inits' \in 0 .. MaxInits /\ usbRefs' \in Int
    BY <1>1, <1>3, <1>7 DEF Types
  <2> QED
    BY <1>1, <1>6, <1>7, <2>1, <2>2 DEF Types
<1>9. Own(p)' = {<<a, i>> : i \in 1 .. n}
  BY <1>6 DEF Own
<1>10. \A e \in Elements : e[1] = a => elHandle[e] = NoOvl
  BY <1>1, <1>3 DEF Arrays
<1>11. Good(p)'
  <2>1. Shares(p)'
    BY <1>5, <1>6, <1>9, Empty DEF Shares
  <2>2. Linked(p)'
    <3>1. \A e \in Own(p)' : e \in Elements /\ e[1] = a
      BY <1>3, <1>9, BoundAssumption DEF Elements
    <3> QED
      BY <1>6, <1>7, <1>10, <3>1, Empty DEF Linked
  <2>3. held'[p] = Mapped(pool'[p].acquired, elHandle')
    BY <1>1, <1>6, <1>7, Empty DEF Types
  <2> QED
    BY <1>6, <2>1, <2>2, <2>3 DEF Good
<1>12. ASSUME NEW q \in PoolSlots
       PROVE  Good(q)'
  <2>1. CASE q # p
    <3>1. Good(q) /\ pool'[q] = pool[q] /\ held'[q] = held[q]
      BY <1>1, <1>6, <1>7, <2>1 DEF IInv, Types
    <3> QED
      BY <1>1, <1>7, <3>1, Untouched
  <2> QED
    BY <1>11, <2>1
<1>13. Arrays'
  <2>1. \A q \in PoolSlots : pool'[q].use => pool'[q].array \in 1 .. inits'
    BY <1>1, <1>3, <1>6, <1>7 DEF Arrays
  <2>2. \A q, s \in PoolSlots :
            pool'[q].use /\ pool'[s].use /\ pool'[q].array = pool'[s].array => q = s
    BY <1>1, <1>3, <1>6 DEF Arrays
  <2>3. \A e \in Elements : e[1] > inits' => elHandle'[e] = NoOvl
    BY <1>1, <1>3, <1>7 DEF Arrays, Elements
  <2>4. ASSUME NEW q \in PoolSlots, NEW e \in Elements,
               pool'[q].use, e[1] = pool'[q].array, elHandle'[e] # NoOvl
        PROVE  e \in Own(q)'
    <3>1. q # p
      BY <1>6, <1>7, <1>10, <2>4
    <3>2. pool'[q] = pool[q] /\ Own(q)' = Own(q)
      BY <1>6, <3>1 DEF Own
    <3> QED
      BY <1>1, <1>7, <2>4, <3>2 DEF Arrays
  <2> QED
    BY <2>1, <2>2, <2>3, <2>4 DEF Arrays
<1>14. NoUsbLeak'
  <2> DEFINE live == {q \in PoolSlots : pool[q].use}
  <2>1. {q \in PoolSlots : pool'[q].use} = live \cup {p}
    BY <1>2, <1>6
  <2>2. Cardinality(live \cup {p}) = Cardinality(live) + 1 /\ Cardinality(live) \in Nat
    BY <1>2, Live
  <2>3. usbRefs <= Cardinality(live) /\ usbRefs \in Int
    BY <1>1 DEF NoUsbLeak, Types
  <2> HIDE DEF live
  <2>4. usbRefs' <= Cardinality(live \cup {p})
    BY <1>7, <2>2, <2>3
  <2> QED
    BY <2>1, <2>4 DEF NoUsbLeak
<1>15. Waiting'
  BY <1>1, <1>7, NoWaitOK DEF Waiting
<1> QED
  BY <1>8, <1>12, <1>13, <1>14, <1>15 DEF IInv

LEMMA OvlInitFailsOK ==
    ASSUME IInv, NEW p \in PoolSlots, OvlInitFails(p)
    PROVE  IInv'
<1>1. Types /\ Arrays /\ NoUsbLeak /\ Waiting
  BY DEF IInv
<1>2. UNCHANGED <<pool, elHandle, ovl, wait, held>> /\ inits' = inits + 1 /\ usbRefs' = usbRefs - 1
      /\ inits < MaxInits
  BY DEF OvlInitFails
<1>3. inits \in Nat /\ usbRefs \in Int
  BY <1>1 DEF Types
<1>4. Types'
  BY <1>1, <1>2, <1>3, BoundAssumption DEF Types
<1>5. ASSUME NEW q \in PoolSlots
      PROVE  Good(q)'
  BY <1>1, <1>2, Untouched DEF IInv
<1>6. Arrays'
  <2>1. \A q \in PoolSlots : Own(q)' = Own(q)
    BY <1>2 DEF Own
  <2>2. \A i \in Int : i \in 1 .. inits => i \in 1 .. inits'
    BY <1>2, <1>3
  <2>3. \A e \in Elements : e[1] > inits' => e[1] > inits
    BY <1>2, <1>3 DEF Elements
  <2> QED
    BY <1>1, <1>2, <2>1, <2>2, <2>3 DEF Arrays
<1>7. NoUsbLeak'
  BY <1>1, <1>2, <1>3, Live DEF NoUsbLeak
<1>8. Waiting'
  BY <1>1, <1>2 DEF Waiting
<1> QED
  BY <1>4, <1>5, <1>6, <1>7, <1>8 DEF IInv

\* The new handle of OvlK_Acquire is a free slot, the old one is the element's:
\* either way no other element of a pool has it.
LEMMA OvlAcquireOK ==
    ASSUME IInv, NEW p \in PoolSlots, NEW new \in OvlSlots, OvlAcquire(p, new)
    PROVE  IInv'
<1> DEFINE a == pool[p].acquired
           r == pool[p].released
           e == Head(r)
           o == IF elHandle[e] = NoOvl THEN new ELSE elHandle[e]
           x == [use |-> IF elHandle[e] = NoOvl THEN TRUE ELSE ovl[o].use,
                 pool |-> p, link |-> e, isAcquired |-> TRUE, event |-> FALSE,
                 io |-> IF ovl[o].io \in InFlight THEN ovl[o].io ELSE "none", blind |-> FALSE]
<1>1. Types /\ Arrays /\ NoUsbLeak /\ Good(p)
  BY DEF IInv
<1>2. pool[p].use /\ r # << >> /\ wait = NoWait
  BY DEF OvlAcquire, Idle
<1>3. /\ elHandle[e] = NoOvl => ~ovl[new].use
      /\ elHandle' = [elHandle EXCEPT ![e] = o]
      /\ ovl' = [ovl EXCEPT ![o] = x]
      /\ pool' = [pool EXCEPT ![p].released = Tail(r), ![p].acquired = Append(a, e)]
      /\ held' = [held EXCEPT ![p] = Append(held[p], o)]
      /\ UNCHANGED <<inits, usbRefs, wait>>
  BY DEF OvlAcquire
<1>4. Shares(p) /\ Linked(p) /\ held[p] = Mapped(a, elHandle)
  BY <1>1, <1>2 DEF Good
<1>5. a \in Seq(Elements) /\ r \in Seq(Elements) /\ held[p] \in Seq(OvlSlots)
  BY <1>1, PoolTypes
<1>6. /\ NoDuplicates(a) /\ NoDuplicates(r)
      /\ Contents(a) \cap Contents(r) = {} /\ Contents(a) \cup Contents(r) = Own(p)
  BY <1>4 DEF Shares
<1>7. /\ Tail(r) \in Seq(Elements) /\ NoDuplicates(Tail(r)) /\ e \in Contents(r)
      /\ Contents(Tail(r)) = Contents(r) \ {e}
  <2> HIDE DEF r
  <2> QED
    BY <1>2, <1>5, <1>6, TailIs
<1> HIDE DEF e
<1>8. e \in Own(p) /\ e \notin Contents(a) /\ e \in Elements
  BY <1>1, <1>2, <1>6, <1>7, OwnElements
<1> HIDE DEF a, r
<1>9. /\ Append(a, e) \in Seq(Elements) /\ NoDuplicates(Append(a, e))
      /\ Contents(Append(a, e)) = Contents(a) \cup {e}
  <2>1. a \in Seq(Elements) /\ e \in Elements /\ NoDuplicates(a) /\ e \notin Contents(a)
    BY <1>5, <1>6, <1>8
  <2> HIDE DEF o, x
  <2> QED
    BY ONLY <2>1, OneLast
<1>10. o \in OvlSlots /\ o # NoOvl /\ x.use /\ x \in OvlType
  <2>1. elHandle[e] \in OvlSlots \cup {NoOvl}
    BY <1>1, <1>8 DEF Types
  <2>2. o \in OvlSlots
    BY <2>1
  <2>3. elHandle[e] # NoOvl => ovl[o].use
    BY <1>4, <1>8 DEF Linked
  <2>4. ovl[o] \in OvlType
    BY <1>1, <2>2 DEF Types
  <2> HIDE DEF o
  <2>5. x.use = TRUE
    BY <2>3
  <2>6. x \in OvlType
    BY <1>8, <2>4, <2>5 DEF OvlType, InFlight
  <2> QED
    BY <2>2, <2>5, <2>6, SlotAssumption
<1>11. ASSUME NEW q \in PoolSlots, pool[q].use, NEW g \in Own(q), g # e \/ q # p
       PROVE  elHandle[g] # o
  <2>1. Good(q) /\ Linked(q)
    BY <1>11 DEF IInv, Good
  <2>2. CASE elHandle[e] = NoOvl
    <3>1. o = new /\ ~ovl[new].use
      BY <1>3, <2>2
    <3>2. elHandle[g] # NoOvl => ovl[elHandle[g]].use
      BY <2>1 DEF Linked
    <3> QED
      BY <1>10, <3>1, <3>2
  <2>3. CASE elHandle[e] # NoOvl
    <3>1. o = elHandle[e] /\ ovl[o].pool = p /\ ovl[o].link = e
      BY <1>4, <1>8, <2>3 DEF Linked
    <3>2. elHandle[g] # NoOvl => ovl[elHandle[g]].pool = q /\ ovl[elHandle[g]].link = g
      BY <2>1 DEF Linked
    <3> QED
      BY <1>10, <1>11, <3>1, <3>2
  <2> QED
    BY <2>2, <2>3
<1>12. x.pool = p /\ x.link = e /\ x.isAcquired = TRUE /\ x.event = FALSE
  OBVIOUS
<1> HIDE DEF o, x
<1>13. /\ \A h \in OvlSlots : h # o => ovl'[h] = ovl[h]
       /\ ovl'[o] = x /\ ovl' \in [OvlSlots -> OvlType]
  BY <1>1, <1>3, <1>10 DEF Types
<1>14. /\ \A g \in Elements : g # e => elHandle'[g] = elHandle[g]
       /\ elHandle'[e] = o /\ elHandle' \in [Elements -> OvlSlots \cup {NoOvl}]
  BY <1>1, <1>3, <1>8, <1>10 DEF Types
<1>15. /\ pool'[p].use = pool[p].use /\ pool'[p].acquired = Append(a, e) /\ pool'[p].released = Tail(r)
       /\ pool'[p].count = pool[p].count /\ pool'[p].array = pool[p].array
       /\ pool' \in [PoolSlots -> PoolType]
       /\ \A q \in PoolSlots : q # p => pool'[q] = pool[q]
  <2> DEFINE y == [pool[p] EXCEPT !.released = Tail(r), !.acquired = Append(a, e)]
  <2>1. pool' = [pool EXCEPT ![p] = y]
    BY <1>1, <1>3 DEF Types
  <2>2. /\ y \in PoolType /\ y.use = pool[p].use /\ y.count = pool[p].count
        /\ y.array = pool[p].array /\ y.acquired = Append(a, e) /\ y.released = Tail(r)
    BY <1>1, <1>7, <1>9 DEF Types, PoolType
  <2> HIDE DEF y
  <2> QED
    BY <1>1, <1>2, <2>1, <2>2 DEF Types
<1>16. held' \in [PoolSlots -> Seq(OvlSlots)] /\ held'[p] = Append(held[p], o)
       /\ \A q \in PoolSlots : q # p => held'[q] = held[q]
  <2>1. Append(held[p], o) \in Seq(OvlSlots)
    BY <1>5, <1>10, AppendProperties
  <2> QED
    BY <1>1, <1>3, <2>1 DEF Types
<1>17. Types'
  BY <1>1, <1>3, <1>13, <1>14, <1>15, <1>16 DEF Types
<1>18. Own(p)' = Own(p)
  BY <1>15 DEF Own
<1>19. Good(p)'
  <2>1. Shares(p)'
    BY <1>6, <1>7, <1>8, <1>9, <1>15, <1>18 DEF Shares
  <2>2. Linked(p)'
    <3>1. ASSUME NEW g \in Own(p), g # e
          PROVE  /\ elHandle'[g] = elHandle[g]
                 /\ elHandle[g] # NoOvl => ovl'[elHandle[g]] = ovl[elHandle[g]]
      <4>1. g \in Elements /\ elHandle[g] # o
        BY <1>1, <1>2, <1>11, <3>1, OwnElements
      <4>2. elHandle[g] \in OvlSlots \cup {NoOvl}
        BY <1>1, <4>1 DEF Types
      <4> QED
        BY <1>13, <1>14, <3>1, <4>1, <4>2
    <3>2. ASSUME NEW g \in Own(p), g # e
          PROVE  /\ elHandle'[g] = NoOvl => g \notin Contents(pool'[p].acquired)
                 /\ elHandle'[g] # NoOvl =>
                    /\ ovl'[elHandle'[g]].use /\ ovl'[elHandle'[g]].pool = p
                    /\ ovl'[elHandle'[g]].link = g
                    /\ ovl'[elHandle'[g]].isAcquired <=> g \in Contents(pool'[p].acquired)
                    /\ g \in Contents(pool'[p].released) /\ ovl'[elHandle'[g]].io = "pending" =>
                           ovl'[elHandle'[g]].blind
      BY <1>4, <1>7, <1>9, <1>15, <3>1, <3>2 DEF Linked, a, r
    <3>3. /\ elHandle'[e] = o /\ o # NoOvl /\ ovl'[o].use /\ ovl'[o].pool = p /\ ovl'[o].link = e
          /\ ovl'[o].isAcquired /\ e \in Contents(pool'[p].acquired)
          /\ e \notin Contents(pool'[p].released)
      BY <1>7, <1>9, <1>10, <1>12, <1>13, <1>14, <1>15
    <3> QED
      BY <1>18, <3>2, <3>3 DEF Linked
  <2>3. held'[p] = Mapped(Append(a, e), elHandle')
    <3>1. \A g \in Contents(a) : elHandle'[g] = elHandle[g]
      BY <1>5, <1>8, <1>14, ContentsIn
    <3>2. a \in Seq(Elements) /\ e \in Elements
      BY <1>5, <1>8
    <3>3. Mapped(Append(a, e), elHandle') = Append(Mapped(a, elHandle'), elHandle'[e])
      BY ONLY <3>2, AppendMapped
    <3>4. Mapped(a, elHandle') = Mapped(a, elHandle)
      BY <3>1 DEF Mapped, Contents
    <3> QED
      BY <1>4, <1>14, <1>16, <3>3, <3>4
  <2> QED
    BY <1>2, <1>15, <2>1, <2>2, <2>3 DEF Good
<1>20. ASSUME NEW q \in PoolSlots
       PROVE  Good(q)'
  <2>1. CASE q # p
    <3>1. Good(q) /\ pool'[q] = pool[q] /\ held'[q] = held[q]
      BY <1>15, <1>16, <2>1 DEF IInv
    <3>2. ASSUME pool[q].use, NEW g \in Own(q)
          PROVE  /\ elHandle'[g] = elHandle[g]
                 /\ elHandle[g] # NoOvl => ovl'[elHandle[g]] = ovl[elHandle[g]]
      <4>1. g \in Elements /\ elHandle[g] # o
        BY <1>1, <1>11, <2>1, <3>1, <3>2, OwnElements
      <4>2. g # e
        BY <1>1, <1>2, <1>8, <2>1, <3>2, OwnApart
      <4>3. elHandle[g] \in OvlSlots \cup {NoOvl}
        BY <1>1, <4>1 DEF Types
      <4> QED
        BY <1>13, <1>14, <4>1, <4>2, <4>3
    <3> QED
      BY <1>1, <3>1, <3>2, Untouched
  <2> QED
    BY <1>19, <2>1
<1>21. Arrays'
  <2>1. ASSUME NEW q \in PoolSlots
        PROVE  /\ pool'[q].use = pool[q].use /\ pool'[q].array = pool[q].array
               /\ pool'[q].count = pool[q].count
    BY <1>15
  <2>2. \A q \in PoolSlots : Own(q)' = Own(q)
    BY <2>1 DEF Own
  <2>3. e[1] = pool[p].array /\ ~(e[1] > inits)
    <3>1. e[1] = pool[p].array
      BY <1>8 DEF Own
    <3> QED
      BY <1>1, <1>2, <3>1 DEF Arrays, Types
  <2>4. \A g \in Elements : g[1] > inits => elHandle'[g] = NoOvl
    BY <1>1, <1>14, <2>3 DEF Arrays
  <2>5. ASSUME NEW q \in PoolSlots, NEW g \in Elements,
               pool[q].use, g[1] = pool[q].array, elHandle'[g] # NoOvl
        PROVE  g \in Own(q)
    <3>1. CASE g = e
      BY <1>1, <1>2, <1>8, <2>3, <2>5, <3>1 DEF Arrays
    <3>2. CASE g # e
      BY <1>1, <1>14, <2>5, <3>2 DEF Arrays
    <3> QED
      BY <3>1, <3>2
  <2>6. /\ \A q \in PoolSlots : pool'[q].use => pool'[q].array \in 1 .. inits'
        /\ \A q, s \in PoolSlots :
               pool'[q].use /\ pool'[s].use /\ pool'[q].array = pool'[s].array => q = s
    BY <1>1, <1>3, <2>1 DEF Arrays
  <2>7. \A q \in PoolSlots, g \in Elements :
            pool'[q].use /\ g[1] = pool'[q].array /\ elHandle'[g] # NoOvl => g \in Own(q)'
    BY <2>1, <2>2, <2>5
  <2> QED
    BY <1>3, <2>4, <2>6, <2>7 DEF Arrays
<1>22. NoUsbLeak'
  <2>1. {q \in PoolSlots : pool'[q].use} = {q \in PoolSlots : pool[q].use}
    BY <1>2, <1>15
  <2> QED
    BY <1>1, <1>3, <2>1 DEF NoUsbLeak
<1>23. Waiting'
  BY <1>1, <1>2, <1>3, <1>12, <1>13, NoWaitOK DEF Waiting
<1> QED
  BY <1>17, <1>20, <1>21, <1>22, <1>23 DEF IInv

\* When each element was acquired the last handle clears the lists, so that the
\* slot is as a new one for the next OvlK_Init.
LEMMA OvlFreeOK ==
    ASSUME IInv, ~FreeUnused, NEW p \in PoolSlots, OvlFree(p)
    PROVE  IInv'
<1> DEFINE els == {e \in Elements : e[1] = pool[p].array /\ elHandle[e] # NoOvl}
           dead == {o \in OvlSlots : ovl[o].use /\ \E e \in els : elHandle[e] = o}
           left == pool[p].count - Cardinality(dead)
<1>1. Types /\ Arrays /\ NoUsbLeak /\ Good(p)
  BY DEF IInv
<1>2. /\ pool[p].use /\ wait = NoWait /\ left = 0
      /\ ovl' = [o \in OvlSlots |->
                    IF o \in dead THEN [ovl[o] EXCEPT !.use = FALSE, !.pool = NoPool]
                                  ELSE ovl[o]]
      /\ pool' = [pool EXCEPT ![p] =
                      IF left = 0 THEN FreePool ELSE [pool[p] EXCEPT !.use = FALSE, !.count = left]]
      /\ usbRefs' = usbRefs - 1
      /\ held' = [held EXCEPT ![p] = << >>]
      /\ UNCHANGED <<inits, elHandle, wait>>
  BY DEF OvlFree, Idle
<1> HIDE DEF left
<1>3. pool' = [pool EXCEPT ![p] = FreePool]
  BY <1>2
<1>4. /\ pool'[p] = FreePool /\ pool' \in [PoolSlots -> PoolType]
      /\ \A q \in PoolSlots : q # p => pool'[q] = pool[q]
  BY <1>1, <1>3, FreePoolIs DEF Types
<1>5. /\ held'[p] = << >> /\ held' \in [PoolSlots -> Seq(OvlSlots)]
      /\ \A q \in PoolSlots : q # p => held'[q] = held[q]
  BY <1>1, <1>2, Empty DEF Types
<1>6. ASSUME NEW o \in dead
      PROVE  o \in OvlSlots /\ ovl[o].pool = p
  <2>1. PICK e \in els : elHandle[e] = o
    BY <1>6
  <2>2. e \in Own(p)
    BY <1>1, <1>2, <2>1 DEF Arrays
  <2>3. Linked(p)
    BY <1>1, <1>2 DEF Good
  <2> QED
    BY <1>6, <2>1, <2>2, <2>3 DEF Linked
<1> HIDE DEF dead, els
<1>7. ASSUME NEW o \in OvlSlots
      PROVE  /\ ovl'[o] \in OvlType /\ ovl'[o].event = ovl[o].event /\ ovl'[o].io = ovl[o].io
             /\ ovl[o].pool # p => ovl'[o] = ovl[o]
  <2>1. ovl[o] \in OvlType
    BY <1>1 DEF Types
  <2>2. CASE o \in dead
    <3> DEFINE x == [ovl[o] EXCEPT !.use = FALSE, !.pool = NoPool]
    <3>1. x \in OvlType /\ x.event = ovl[o].event /\ x.io = ovl[o].io
      BY <2>1 DEF OvlType
    <3>2. ovl'[o] = x
      BY <1>2, <2>2
    <3> QED
      BY <1>6, <2>2, <3>1, <3>2
  <2>3. CASE o \notin dead
    BY <1>2, <2>1, <2>3
  <2> QED
    BY <2>2, <2>3
<1>8. Types'
  <2>1. ovl' \in [OvlSlots -> OvlType]
    BY <1>2, <1>7
  <2>2. usbRefs' = usbRefs - 1 /\ UNCHANGED <<inits, elHandle, wait>>
    BY <1>2
  <2> QED
    BY <1>1, <1>4, <1>5, <2>1, <2>2 DEF Types
<1>9. ASSUME NEW q \in PoolSlots
      PROVE  Good(q)'
  <2>1. CASE q = p
    BY <1>4, <1>5, <2>1, FreePoolIs DEF Good
  <2>2. CASE q # p
    <3>1. Good(q) /\ pool'[q] = pool[q] /\ held'[q] = held[q] /\ elHandle' = elHandle
      BY <1>2, <1>4, <1>5, <2>2 DEF IInv
    <3>2. ASSUME pool[q].use, NEW e \in Own(q), elHandle[e] # NoOvl
          PROVE  ovl'[elHandle[e]] = ovl[elHandle[e]]
      <4>1. elHandle[e] \in OvlSlots
        BY <1>1, <3>1, <3>2, OwnElements DEF Types
      <4>2. ovl[elHandle[e]].pool = q
        BY <3>1, <3>2 DEF Good, Linked
      <4> QED
        BY <1>7, <2>2, <4>1, <4>2
    <3> QED
      BY <1>1, <3>1, <3>2, Untouched
  <2> QED
    BY <2>1, <2>2
<1>10. Arrays'
  <2>1. \A q \in PoolSlots : pool'[q].use => pool'[q] = pool[q]
    BY <1>4, FreePoolIs
  <2>2. /\ \A q \in PoolSlots : pool'[q].use => pool'[q].array \in 1 .. inits'
        /\ \A q, s \in PoolSlots :
               pool'[q].use /\ pool'[s].use /\ pool'[q].array = pool'[s].array => q = s
        /\ \A e \in Elements : e[1] > inits' => elHandle'[e] = NoOvl
    BY <1>1, <1>2, <2>1 DEF Arrays
  <2>3. ASSUME NEW q \in PoolSlots, NEW e \in Elements,
               pool'[q].use, e[1] = pool'[q].array, elHandle'[e] # NoOvl
        PROVE  e \in Own(q)'
    <3>1. Own(q)' = Own(q)
      BY <2>1, <2>3 DEF Own
    <3>2. pool[q].use /\ e[1] = pool[q].array /\ elHandle[e] # NoOvl
      BY <1>2, <2>1, <2>3
    <3>3. e \in Own(q)
      BY <1>1, <3>2 DEF Arrays
    <3> QED
      BY <3>1, <3>3
  <2> QED
    BY <2>2, <2>3 DEF Arrays
<1>11. NoUsbLeak'
  <2> DEFINE live == {q \in PoolSlots : pool[q].use}
  <2>1. {q \in PoolSlots : pool'[q].use} = live \ {p}
    BY <1>4, FreePoolIs
  <2>2. Cardinality(live \ {p}) = Cardinality(live) - 1 /\ Cardinality(live) \in Nat
    BY <1>2, Live
  <2>3. usbRefs <= Cardinality(live) /\ usbRefs \in Int
    BY <1>1 DEF NoUsbLeak, Types
  <2> HIDE DEF live
  <2>4. usbRefs' = usbRefs - 1
    BY <1>2
  <2>5. usbRefs' <= Cardinality(live \ {p})
    BY <2>2, <2>3, <2>4
  <2> QED
    BY <2>1, <2>5 DEF NoUsbLeak
<1>12. Waiting'
  BY <1>1, <1>2, <1>7, NoWaitOK DEF Waiting
<1> QED
  BY <1>8, <1>9, <1>10, <1>11, <1>12 DEF IInv

-----------------------------------------------------------------------------
(***************************************************************************)
(* The transfers and OvlK_Wait.                                            *)
(***************************************************************************)

\* A handle that is held and has no transfer in flight may be released.
LEMMA OvlReleaseOK ==
    ASSUME IInv, NEW p \in PoolSlots, NEW o \in OvlSlots, OvlRelease(p, o)
    PROVE  IInv'
<1>1. /\ o \in Contents(held[p]) /\ ovl[o].io # "pending" /\ Release(o, FALSE)
      /\ UNCHANGED <<inits, elHandle, usbRefs, wait>> /\ wait = NoWait
  BY DEF OvlRelease, Idle, InFlight
<1>2. wait' \in WaitType /\ wait'.phase = "none"
  BY <1>1, NoWaitOK
<1> QED
  BY <1>1, <1>2, ReleaseOK

LEMMA ReUseSubmitOK ==
    ASSUME IInv, NEW p \in PoolSlots, NEW o \in OvlSlots, OvlReUse(p, o) \/ Submit(p, o)
    PROVE  IInv'
<1>1. /\ o \in Contents(held[p]) /\ wait = NoWait
      /\ UNCHANGED <<inits, pool, elHandle, usbRefs, wait, held>>
  BY DEF OvlReUse, Submit, Idle
<1>2. ovl[o].isAcquired /\ ovl[o] \in OvlType /\ ovl \in [OvlSlots -> OvlType]
  BY <1>1, HeldHas DEF IInv, Types
<1>3. wait' \in WaitType /\ Waiting'
  BY <1>1, NoWaitOK
<1> DEFINE r(io) == [ovl[o] EXCEPT !.event = FALSE, !.io = io]
<1>4. PICK io \in {"none", "pending"} : ovl' = [ovl EXCEPT ![o] = r(io)]
  BY DEF OvlReUse, Submit
<1>5. /\ r(io) \in OvlType /\ r(io).use = ovl[o].use /\ r(io).pool = ovl[o].pool
      /\ r(io).link = ovl[o].link /\ r(io).isAcquired = ovl[o].isAcquired
  BY <1>2, <1>4 DEF OvlType, InFlight
<1> HIDE DEF r
<1> QED
  BY <1>1, <1>2, <1>3, <1>4, <1>5, IoOK

\* A transfer may complete at any time, also while OvlK_Wait waits for it.
LEMMA IoDoneOK ==
    ASSUME IInv, NEW o \in OvlSlots, NEW result \in {"ok", "failed"}, IoDone(o, result)
    PROVE  IInv'
<1> DEFINE r == [ovl[o] EXCEPT !.io = result, !.event = TRUE, !.blind = FALSE]
<1>1. Types /\ Waiting /\ ovl[o] \in OvlType
  BY DEF IInv, Types
<1>2. ovl' = [ovl EXCEPT ![o] = r] /\ UNCHANGED <<inits, pool, elHandle, usbRefs, wait, held>>
  BY DEF IoDone
<1>3. /\ r \in OvlType /\ r.use = ovl[o].use /\ r.pool = ovl[o].pool
      /\ r.link = ovl[o].link /\ r.isAcquired = ovl[o].isAcquired
      /\ r.io = result /\ r.io # "pending" /\ r.io \notin InFlight
  BY <1>1 DEF OvlType, InFlight
<1> HIDE DEF r
<1>4. \A h \in OvlSlots : ovl'[h] = IF h = o THEN r ELSE ovl[h]
  BY <1>1, <1>2 DEF Types
<1>5. wait' \in WaitType /\ Waiting'
  <2>1. wait' \in WaitType
    BY <1>1, <1>2 DEF Types
  <2>2. CASE wait.phase # "none"
    <3>1. PICK p \in PoolSlots : pool[p].use /\ wait.o \in Contents(held[p])
      BY <1>1, <2>2 DEF Waiting
    <3>2. wait.o \in OvlSlots
      BY <3>1, HeldHas
    <3> QED
      BY <1>1, <1>2, <1>3, <1>4, <2>1, <2>2, <3>1, <3>2 DEF Waiting
  <2> QED
    BY <1>2, <2>1, <2>2 DEF Waiting
<1> QED
  BY <1>2, <1>3, <1>5, IoOK

LEMMA BeginWaitOK ==
    ASSUME IInv, NEW p \in PoolSlots, NEW o, NEW f \in Flags, BeginWait(p, o, FlagBits(f))
    PROVE  IInv'
<1>1. /\ o \in Contents(held[p]) /\ wait' = [o |-> o, flags |-> FlagBits(f), phase |-> "wait"]
      /\ UNCHANGED <<inits, pool, elHandle, ovl, usbRefs, held>>
  BY DEF BeginWait
<1>2. o \in OvlSlots /\ pool[p].use
  BY <1>1, HeldHas
<1>3. wait' \in WaitType /\ wait'.o = o /\ wait'.phase = "wait"
  BY <1>1, <1>2, FlagsOK DEF WaitType
<1>4. Waiting'
  BY <1>1, <1>2, <1>3 DEF Waiting
<1> QED
  BY <1>1, <1>3, <1>4, WaitOK

\* OvlK_Wait ends: the handle is released, or nothing but the wait changes.
LEMMA EndWaitOK ==
    ASSUME IInv, wait.phase # "none", NEW release \in BOOLEAN, NEW b \in BOOLEAN,
           release /\ ovl[wait.o].io = "pending" => b,
           EndWait(release, b)
    PROVE  IInv'
<1>1. PICK p \in PoolSlots : wait.o \in Contents(held[p])
  BY DEF IInv, Waiting
<1>2. UNCHANGED <<inits, elHandle, usbRefs>> /\ wait' = NoWait
  BY DEF EndWait
<1>3. wait' \in WaitType /\ wait'.phase = "none" /\ Waiting'
  BY <1>2, NoWaitOK
<1>4. CASE release
  BY <1>1, <1>2, <1>3, <1>4, ReleaseOK DEF EndWait
<1>5. CASE ~release
  BY <1>2, <1>3, <1>5, WaitOK DEF EndWait
<1> QED
  BY <1>4, <1>5

\* OvlK_Wait goes on with the transfer as it is, or cancelled.
LEMMA GoToOK ==
    ASSUME IInv, wait.phase # "none", NEW phase \in {"wait", "cancel", "retry", "giveUp"},
           NEW flags \in SUBSET {1, 2, 4, 8}, GoTo(phase, flags),
           NEW r \in OvlType, ovl' = [ovl EXCEPT ![wait.o] = r],
           r.use = ovl[wait.o].use, r.pool = ovl[wait.o].pool, r.link = ovl[wait.o].link,
           r.isAcquired = ovl[wait.o].isAcquired,
           phase = "retry" => r.io # "pending"
    PROVE  IInv'
<1>1. Types /\ Waiting
  BY DEF IInv
<1>2. PICK p \in PoolSlots : pool[p].use /\ wait.o \in Contents(held[p])
  BY <1>1 DEF Waiting
<1>3. wait.o \in OvlSlots /\ ovl[wait.o].isAcquired
  BY <1>2, HeldHas
<1>4. /\ wait' = [wait EXCEPT !.phase = phase, !.flags = flags]
      /\ UNCHANGED <<inits, pool, elHandle, usbRefs, held>>
  BY DEF GoTo
<1>5. wait' \in WaitType /\ wait'.o = wait.o /\ wait'.phase = phase
  BY <1>1, <1>4 DEF Types, WaitType
<1>6. ovl'[wait.o] = r
  BY <1>1, <1>3 DEF Types
<1>7. Waiting'
  BY <1>2, <1>4, <1>5, <1>6 DEF Waiting
<1> QED
  BY <1>3, <1>4, <1>5, <1>7, IoOK

\* A step of OvlK_Wait.
WaitStep ==
    \/ WaitSignalled \/ WaitAlerted \/ WaitFailed \/ WaitTimeout
    \/ WaitCancel \/ WaitCancelFails \/ WaitGiveUp \/ WaitCancelled

LEMMA WaitStepOK ==
    ASSUME IInv, WaitStep
    PROVE  IInv'
<1>1. wait.phase # "none"
  BY DEF WaitStep, WaitSignalled, WaitAlerted, WaitFailed, WaitTimeout, WaitCancel,
         WaitCancelFails, WaitGiveUp, WaitCancelled
<1>2. Types /\ Waiting
  BY DEF IInv
<1>3. PICK p \in PoolSlots : pool[p].use /\ wait.o \in Contents(held[p])
  BY <1>1, <1>2 DEF Waiting
<1>4. wait.o \in OvlSlots /\ ovl \in [OvlSlots -> OvlType] /\ ovl[wait.o] \in OvlType
  BY <1>2, <1>3, HeldHas DEF Types
<1>5. wait.flags \in SUBSET {1, 2, 4, 8} /\ wait.flags \ {CancelOnTimeout} \in SUBSET {1, 2, 4, 8}
  BY <1>2 DEF Types, WaitType
<1>6. CASE WaitSignalled
  <2>1. ovl[wait.o].io # "pending"
    BY <1>6 DEF WaitSignalled, InFlight
  <2> DEFINE f == (IF ovl[wait.o].io = "ok" THEN ReleaseOnSuccess ELSE ReleaseOnFail) \in wait.flags
  <2>2. EndWait(f, FALSE)
    BY <1>6, Zenon DEF WaitSignalled
  <2>3. f \in BOOLEAN
    OBVIOUS
  <2> HIDE DEF f
  <2> QED
    BY <1>1, <2>1, <2>2, <2>3, EndWaitOK
<1>7. CASE WaitAlerted
  <2>1. EndWait(FALSE, FALSE)
    BY <1>7 DEF WaitAlerted
  <2> QED
    BY <1>1, <2>1, EndWaitOK
<1>8. CASE WaitFailed
  <2> DEFINE f == ReleaseOnFail \in wait.flags
  <2>1. EndWait(f, TRUE)
    BY <1>8, Zenon DEF WaitFailed
  <2>2. f \in BOOLEAN
    OBVIOUS
  <2> HIDE DEF f
  <2> QED
    BY <1>1, <2>1, <2>2, EndWaitOK
<1>9. CASE WaitTimeout
  <2>1. CASE CancelOnTimeout \in wait.flags
    <3>1. GoTo("cancel", wait.flags) /\ ovl' = [ovl EXCEPT ![wait.o] = ovl[wait.o]]
      BY <1>4, <1>9, <2>1 DEF WaitTimeout
    <3> QED
      BY <1>1, <1>4, <1>5, <3>1, GoToOK
  <2>2. CASE CancelOnTimeout \notin wait.flags
    <3>1. EndWait(FALSE, FALSE)
      BY <1>9, <2>2 DEF WaitTimeout
    <3> QED
      BY <1>1, <3>1, EndWaitOK
  <2> QED
    BY <2>1, <2>2
<1>10. CASE WaitCancel
  <2> DEFINE r == [ovl[wait.o] EXCEPT !.io = "cancelling"]
  <2>1. ovl' = [ovl EXCEPT ![wait.o] = r] /\ GoTo("retry", wait.flags \ {CancelOnTimeout})
    BY <1>10 DEF WaitCancel
  <2>2. /\ r \in OvlType /\ r.use = ovl[wait.o].use /\ r.pool = ovl[wait.o].pool
        /\ r.link = ovl[wait.o].link /\ r.isAcquired = ovl[wait.o].isAcquired /\ r.io = "cancelling"
    BY <1>4 DEF OvlType, InFlight
  <2> HIDE DEF r
  <2> QED
    BY <1>1, <1>5, <2>1, <2>2, GoToOK
<1>11. CASE WaitCancelFails
  <2> DEFINE r == [ovl[wait.o] EXCEPT !.event = TRUE]
  <2>1. ovl' = [ovl EXCEPT ![wait.o] = r] /\ GoTo("giveUp", wait.flags)
    BY <1>11 DEF WaitCancelFails
  <2>2. /\ r \in OvlType /\ r.use = ovl[wait.o].use /\ r.pool = ovl[wait.o].pool
        /\ r.link = ovl[wait.o].link /\ r.isAcquired = ovl[wait.o].isAcquired
    BY <1>4 DEF OvlType
  <2> HIDE DEF r
  <2> QED
    BY <1>1, <1>5, <2>1, <2>2, GoToOK
<1>12. CASE WaitGiveUp
  <2> DEFINE f == wait.flags \cap ReleaseOnTimeout # {}
  <2>1. EndWait(f, TRUE)
    BY <1>12, Zenon DEF WaitGiveUp
  <2>2. f \in BOOLEAN
    OBVIOUS
  <2> HIDE DEF f
  <2> QED
    BY <1>1, <2>1, <2>2, EndWaitOK
<1>13. CASE WaitCancelled
  <2> DEFINE f == ReleaseOnFail \in wait.flags
  <2>1. ovl[wait.o].io # "pending"
    BY <1>2, <1>13 DEF WaitCancelled, Waiting
  <2>2. EndWait(f, FALSE)
    BY <1>13, Zenon DEF WaitCancelled
  <2>3. f \in BOOLEAN
    OBVIOUS
  <2> HIDE DEF f
  <2> QED
    BY <1>1, <2>1, <2>2, <2>3, EndWaitOK
<1> QED
  BY <1>6, <1>7, <1>8, <1>9, <1>10, <1>11, <1>12, <1>13 DEF WaitStep

-----------------------------------------------------------------------------
(***************************************************************************)
(* The theorems.                                                           *)
(***************************************************************************)

LEMMA NextOK ==
    ASSUME IInv, ~FreeUnused, [Next]_vars
    PROVE  IInv'
<1>1. ASSUME NEW p \in PoolSlots, NEW n \in 1 .. MaxCount, OvlInit(p, n)
      PROVE  IInv'
  BY <1>1, OvlInitOK
<1>2. ASSUME NEW p \in PoolSlots, OvlInitFails(p)
      PROVE  IInv'
  BY <1>2, OvlInitFailsOK
<1>3. ASSUME NEW p \in PoolSlots, OvlFree(p)
      PROVE  IInv'
  BY <1>3, OvlFreeOK
<1>4. ASSUME NEW p \in PoolSlots, NEW f \in Flags, BeginWaitOldest(p, FlagBits(f))
      PROVE  IInv'
  BY <1>4, BeginWaitOK DEF BeginWaitOldest
<1>5. ASSUME NEW p \in PoolSlots, NEW o \in OvlSlots,
             \/ OvlAcquire(p, o) \/ OvlRelease(p, o) \/ OvlReUse(p, o) \/ Submit(p, o)
             \/ \E f \in Flags : BeginWait(p, o, FlagBits(f))
      PROVE  IInv'
  <2>1. CASE OvlAcquire(p, o)
    BY <2>1, OvlAcquireOK
  <2>2. CASE OvlRelease(p, o)
    BY <2>2, OvlReleaseOK
  <2>3. CASE OvlReUse(p, o) \/ Submit(p, o)
    BY <2>3, ReUseSubmitOK
  <2>4. CASE \E f \in Flags : BeginWait(p, o, FlagBits(f))
    BY <2>4, BeginWaitOK
  <2> QED
    BY <1>5, <2>1, <2>2, <2>3, <2>4
<1>6. ASSUME NEW o \in OvlSlots, NEW result \in {"ok", "failed"}, IoDone(o, result)
      PROVE  IInv'
  BY <1>6, IoDoneOK
<1>7. CASE WaitStep
  BY <1>7, WaitStepOK
<1>8. CASE UNCHANGED vars
  <2>1. UNCHANGED <<inits, pool, elHandle, ovl, usbRefs, held>> /\ wait' = wait
    BY <1>8 DEF vars
  <2>2. wait' \in WaitType /\ Waiting'
    BY <2>1 DEF IInv, Types, Waiting
  <2> QED
    BY <2>1, <2>2, WaitOK
<1> QED
  BY <1>1, <1>2, <1>3, <1>4, <1>5, <1>6, <1>7, <1>8 DEF Next, WaitStep

LEMMA Inductive == ASSUME ~FreeUnused PROVE Spec => []IInv
<1>1. IInv /\ [Next]_vars => IInv'
  BY NextOK
<1> QED
  BY <1>1, InitOK, PTL DEF Spec

LEMMA IInvConsistent == IInv => PoolConsistent
<1> SUFFICES ASSUME IInv
             PROVE  PoolConsistent
  OBVIOUS
<1>1. Types /\ NoUsbLeak
  BY DEF IInv
<1>2. TypeOK
  BY <1>1 DEF Types, TypeOK, WaitType
<1>3. ASSUME NEW p \in PoolSlots, pool[p].use
      PROVE  /\ Shares(p) /\ Linked(p) /\ held[p] = Mapped(pool[p].acquired, elHandle)
             /\ NoDuplicates(pool[p].acquired \o pool[p].released)
             /\ Contents(pool[p].acquired \o pool[p].released) = Own(p)
  <2>1. Shares(p) /\ Linked(p) /\ held[p] = Mapped(pool[p].acquired, elHandle)
    BY <1>3 DEF IInv, Good
  <2>2. pool[p].acquired \in Seq(Elements) /\ pool[p].released \in Seq(Elements)
    BY <1>1, PoolTypes
  <2> QED
    BY <2>1, <2>2, ConcatLists DEF Shares
<1>4. PoolPartition
  BY <1>3 DEF PoolPartition, Own
<1>5. HandleLinks
  BY <1>3 DEF HandleLinks, Linked
<1>6. AcquiredInOrder
  BY <1>3 DEF AcquiredInOrder, Mapped
<1> QED
  BY <1>1, <1>2, <1>4, <1>5, <1>6 DEF PoolConsistent

LEMMA IInvNoReuse == IInv => NoReuseUncancelled
<1> SUFFICES ASSUME IInv, NEW p \in PoolSlots, pool[p].use, NEW e \in Contents(pool[p].released),
                    elHandle[e] # NoOvl, ovl[elHandle[e]].io = "pending"
             PROVE  ovl[elHandle[e]].blind
  BY DEF NoReuseUncancelled
<1>1. Shares(p) /\ Linked(p)
  BY DEF IInv, Good
<1> QED
  BY <1>1 DEF Shares, Linked

\* OvlK_Init, OvlK_Acquire, OvlK_Release, OvlK_Wait and OvlK_Free: whatever the
\* waits released, in whichever order, and whichever pool had the slots before,
\* AcquiredList and ReleasedList share out the pool's elements, each element and
\* its handle name each other, AcquiredList is what the application holds, oldest
\* first, and a pool that is gone keeps no device open.
THEOREM PoolsStayConsistent == ASSUME ~FreeUnused PROVE Spec => []PoolConsistent
BY Inductive, IInvConsistent, PTL

\* OvlK_Wait and OvlK_Release: whatever the wait flags are and whenever the
\* transfer completes, an OVERLAPPED goes back to a pool, to be acquired again,
\* while its transfer is in flight and was not cancelled, only by an OvlK_Wait
\* whose wait itself or whose CancelIoEx failed.
THEOREM NoReuseInFlight == ASSUME ~FreeUnused PROVE Spec => []NoReuseUncancelled
BY Inductive, IInvNoReuse, PTL

=============================================================================
