------------------------ MODULE InterfaceStack_proofs ------------------------
(***************************************************************************)
(* Proofs about InterfaceStack: for any number of threads, handles and     *)
(* devices, if a configuration is set while no other call is in progress   *)
(* on its device (ConfigAlone), handles and devices are counted exactly,   *)
(* the library's notes of claims are what the driver has, claims are those *)
(* of open files, and the setting by which pipes are looked up is the      *)
(* active one.                                                             *)
(***************************************************************************)
EXTENDS InterfaceStack, FiniteSetTheorems, TLAPS

-----------------------------------------------------------------------------
(***************************************************************************)
(* The inductive invariant.  Its parts are stated of the pools u and dv    *)
(* and the calls c, which are usb, dev and call in every state, and what   *)
(* they are in between when a call notes its answer and leaves.            *)
(***************************************************************************)

On(u, c, t) == u[c[t].h].dev
InCall(c) == {t \in Threads : c[t].at # "idle"}
Users(u, d) == {h \in Handles : u[h].ref > 0 /\ u[h].dev = d}
CallsTo(c, h) == {t \in InCall(c) : c[t].h = h}

UsbType == [ref : Nat, dev : Devs \cup {NoDev}, sel : Indexes]
SharedType == [id : Nat, alt : Alts, claimed : BOOLEAN]
DevType == [ref : Nat, stack : Stacks, count : Nat, shared : [Indexes -> SharedType]]
CallType == [op : {"none", "clone", "associated", "select", "claim", "release", "set", "get", "config"},
             at : Labels, h : Handles \cup {NoHandle}, i : Indexes, n : Nat, v : Nat]

PoolTypes(u, dv, c) ==
    u \in [Handles -> UsbType] /\ dv \in [Devs -> DevType] /\ c \in [Threads -> CallType]

OtherTypes ==
    /\ driver \in Drivers /\ active \in Configs
    /\ alt \in [Numbers -> Alts] /\ claimedBy \in [Numbers -> Devs \cup {NoDev}]
    /\ mine \subseteq Handles /\ lost \subseteq Handles /\ mine \cap lost = {}
    /\ known \in [Targets -> SUBSET Devs]
    /\ reconfigured \in BOOLEAN

\* A handle counts its owner and its calls, and has a device while it counts any.
HandleCounts(u, c, m) ==
    \A h \in Handles :
        /\ u[h].ref = Cardinality(CallsTo(c, h)) + (IF h \in m THEN 1 ELSE 0)
        /\ u[h].ref > 0 => u[h].dev \in Devs

\* A device counts its handles, less what a rebuild has taken.
DeviceCounts(u, dv, c) ==
    \A d \in Devs :
        /\ (\A t \in InCall(c) : On(u, c, t) = d => c[t].op # "config") => dv[d].ref = Cardinality(Users(u, d))
        /\ \A t \in InCall(c) : On(u, c, t) = d /\ c[t].op = "config" => dv[d].ref = Cardinality(Users(u, d)) - c[t].v

Rebuilds == {"configure", "dec1", "dec2", "build", "inc"}

\* What a call is about, by its kind and by how far it is.
CallKind(r) ==
    /\ r.h \in Handles
    /\ r.at = "make" => r.op \in {"clone", "associated"}
    /\ r.at = "ask" => r.op \in {"claim", "release", "set", "get"}
    /\ r.at = "note" => r.op \in {"select", "claim", "release", "set", "get"}
    /\ r.at \in Rebuilds <=> r.op = "config"
    /\ r.op \in {"claim", "release"} => r.n \in Targets /\ r.v \in {0, 1}
    /\ r.op \in {"set", "get"} => r.n \in Targets /\ (r.at = "note" \/ r.op = "set" => r.v \in Alts)
    /\ r.at \in {"configure", "dec1"} => r.v = 0
    /\ r.at = "dec2" => r.v = 1
    /\ r.at = "build" => r.v = 2
    /\ r.at = "inc" => r.v \in {1, 2}

\* What a call found is still so: what it looked up in the stack, the driver's
\* answer, and what a rebuild knows.
CallOn(r, x, d) ==
    /\ r.op \in {"claim", "release"} => r.i \in DOMAIN x.stack /\ x.stack[r.i] = r.n
    /\ r.op \in {"set", "get"} => x.shared[r.i].id = r.n
    /\ r.op \in {"associated", "select"} /\ ~reconfigured => r.i \in DOMAIN x.stack
    /\ r.op = "config" /\ r.at # "inc" => x.count \in Counts
    /\ r.op \in {"claim", "release"} /\ r.at = "note" /\ ~reconfigured =>
           ((r.op = "claim" /\ r.v = 1) <=> claimedBy[r.n] = d)
    /\ r.op \in {"set", "get"} /\ r.at = "note" /\ r.i \in DOMAIN x.stack /\ d \in known[r.n] =>
           r.v = alt[r.n]
    /\ r.at \in Rebuilds \ {"configure"} => reconfigured /\ \A n \in Targets : d \notin known[n]
    /\ r.at = "dec2" => x.ref = 1

CallsOK(u, dv, c) ==
    \A t \in InCall(c) :
        /\ CallKind(c[t]) /\ u[c[t].h].ref > 0 /\ c[t].h \notin lost
        /\ CallOn(c[t], dv[On(u, c, t)], On(u, c, t))

\* A rebuild is alone on its device; two calls through one file do not claim or
\* set the same interface.
Apart(u, c) ==
    \A s, t \in InCall(c) : On(u, c, s) = On(u, c, t) /\ s # t =>
        /\ c[s].op # "config"
        /\ c[s].op \in {"claim", "release"} /\ c[t].op \in {"claim", "release"} => c[s].n # c[t].n
        /\ c[s].op \in {"set", "get"} /\ c[t].op \in {"set", "get"} => c[s].n # c[t].n

\* The stacks, the interfaces in the shared records, the selected interfaces.
StacksOK(u, dv) ==
    /\ ~reconfigured =>
           /\ active = FirstConfig
           /\ \A d \in Devs : dv[d].stack \in {<< >>, Numbered(0, FirstConfig)} /\ dv[d].count \in Counts
    /\ \A d \in Devs : \A i \in DOMAIN dv[d].stack : dv[d].shared[i].id = dv[d].stack[i]
    /\ \A h \in Handles \ lost : u[h].ref > 0 /\ ~reconfigured => u[h].sel \in DOMAIN dv[u[h].dev].stack

\* The library's notes of claims, and the files that have claims.
ClaimsOK(u, dv, c) ==
    /\ \A d \in Devs : ~reconfigured => \A i \in DOMAIN dv[d].stack :
          \/ \E t \in InCall(c) : /\ On(u, c, t) = d /\ c[t].op \in {"claim", "release"}
                                  /\ c[t].i = i
          \/ dv[d].shared[i].claimed = (claimedBy[dv[d].stack[i]] = d)
    /\ \A n \in Numbers : claimedBy[n] # NoDev => Users(u, claimedBy[n]) # {}

\* The library's notes of settings, for the files that know them.
AltsOK(u, dv, c) ==
    /\ \A n \in Targets, d \in Devs : d \in known[n] => dv[d].ref > 0
    /\ \A d \in Devs : \A i \in DOMAIN dv[d].stack :
          dv[d].stack[i] \in Targets /\ d \in known[dv[d].stack[i]] =>
              \/ \E t \in InCall(c) : /\ On(u, c, t) = d /\ c[t].op \in {"set", "get"}
                                      /\ c[t].at = "note" /\ c[t].i = i
              \/ dv[d].shared[i].alt = alt[dv[d].stack[i]]

\* All but the counts of the handles, of the pools u and dv and the calls c.
Rest(u, dv, c) ==
    /\ DeviceCounts(u, dv, c) /\ CallsOK(u, dv, c) /\ Apart(u, c)
    /\ StacksOK(u, dv) /\ ClaimsOK(u, dv, c) /\ AltsOK(u, dv, c)

IInv ==
    /\ PoolTypes(usb, dev, call) /\ OtherTypes
    /\ HandleCounts(usb, call, mine \cup lost) /\ Rest(usb, dev, call)

-----------------------------------------------------------------------------
(***************************************************************************)
(* Configurations and counting.                                            *)
(***************************************************************************)

LEMMA ConfigFacts ==
    /\ 1 \in Indexes /\ 0 \in Alts /\ Alts \subseteq Nat /\ Targets \subseteq Numbers
    /\ \A c \in Configs : /\ c \in Seq(Nat) /\ 1 \in DOMAIN c /\ Len(c) \in Counts
                          /\ Range(c) \subseteq Numbers
                          /\ \A i, j \in DOMAIN c : c[i] = c[j] => i = j
    /\ FirstConfig \in Configs /\ 0 \in Counts /\ Counts \subseteq Nat
    /\ Numbers \subseteq Nat
<1>1. ASSUME NEW c \in Configs
      PROVE  /\ c \in Seq(Nat) /\ 1 \in DOMAIN c /\ Len(c) \in Counts /\ Len(c) \in Nat
             /\ Range(c) \subseteq Numbers /\ Range(c) \subseteq Nat
             /\ \A i, j \in DOMAIN c : c[i] = c[j] => i = j
  <2>1. c \in Seq(Nat) /\ c # << >> /\ IsInjective(c)
    BY ConfigAssumption
  <2>2. 1 \in DOMAIN c
    BY <2>1
  <2>3. Len(c) \in Counts /\ Len(c) \in Nat
    BY <2>1 DEF Counts
  <2>4. Range(c) \subseteq Numbers
    BY DEF Numbers
  <2>5. \A i \in DOMAIN c : c[i] \in Nat
    BY <2>1
  <2> QED
    BY <2>1, <2>2, <2>3, <2>4, <2>5 DEF IsInjective, Range
<1>2. FirstConfig \in Configs
  BY ConfigAssumption
<1>3. 0 \in Counts /\ Counts \subseteq Nat
  BY <1>1 DEF Counts
<1>4. 1 \in Indexes
  <2>1. 1 \in 1 .. 0 + Len(FirstConfig)
    BY <1>1, <1>2
  <2> QED
    BY <1>2, <1>3, <2>1 DEF Indexes
<1> QED
  BY <1>1, <1>2, <1>3, <1>4, ConfigAssumption DEF Numbers

\* A configuration whose interfaces are numbered from k on.
LEMMA NumberedIs ==
    ASSUME NEW k \in Counts, NEW c \in Configs, NEW s, s = Numbered(k, c)
    PROVE  /\ s \in Stacks /\ DOMAIN s \subseteq Indexes
           /\ \A i \in DOMAIN s : i - k \in DOMAIN c /\ s[i] = c[i - k] /\ s[i] \in Numbers
           /\ \A i, j \in DOMAIN s : s[i] = s[j] => i = j
           /\ k = 0 => 1 \in DOMAIN s
<1>1. k \in Nat /\ c \in Seq(Nat) /\ Range(c) \subseteq Numbers /\ 1 \in DOMAIN c /\ Len(c) \in Nat
      /\ \A i, j \in DOMAIN c : c[i] = c[j] => i = j
  BY ConfigFacts
<1>2. DOMAIN s = k + 1 .. k + Len(c) /\ \A i \in DOMAIN s : s[i] = c[i - k]
  BY DEF Numbered
<1>3. \A i \in DOMAIN s : i \in Int /\ i - k \in DOMAIN c
  BY <1>1, <1>2
<1>4. DOMAIN s \subseteq Indexes
  <2>1. DOMAIN s \subseteq 1 .. k + Len(c)
    BY <1>1, <1>2
  <2> DEFINE T == {1 .. m + Len(b) : m \in Counts, b \in Configs}
             r == 1 .. k + Len(c)
  <2>2. r \in T
    OBVIOUS
  <2>3. Indexes = UNION T
    BY DEF Indexes
  <2> HIDE DEF T, r
  <2>4. r \subseteq Indexes
    BY ONLY <2>2, <2>3
  <2> QED
    BY ONLY <2>1, <2>4 DEF r
<1>5. \A i \in DOMAIN s : s[i] \in Numbers
  BY <1>1, <1>2, <1>3 DEF Range
<1>6. ASSUME NEW i \in DOMAIN s, NEW j \in DOMAIN s, s[i] = s[j]
      PROVE  i = j
  <2>1. i - k = j - k
    BY <1>1, <1>2, <1>3, <1>6
  <2> QED
    BY <1>1, <1>3, <2>1
<1>7. k = 0 => 1 \in DOMAIN s
  BY <1>1, <1>2
<1>8. s \in Stacks
  BY DEF Stacks
<1> QED
  BY <1>2, <1>3, <1>4, <1>5, <1>6, <1>7, <1>8

\* The interfaces of a stack have indexes and numbers of their own.
LEMMA StackIs ==
    ASSUME NEW s \in Stacks
    PROVE  /\ DOMAIN s \subseteq Indexes /\ \A i \in DOMAIN s : s[i] \in Numbers
           /\ \A i, j \in DOMAIN s : s[i] = s[j] => i = j
<1>1. CASE s = << >>
  BY <1>1
<1>2. CASE s # << >>
  <2>1. PICK k \in Counts, c \in Configs : s = Numbered(k, c)
    BY <1>2 DEF Stacks
  <2> QED
    BY <2>1, NumberedIs
<1> QED
  BY <1>1, <1>2

\* What the calls to a handle are when a call enters or leaves.
LEMMA CallsFinite ==
    ASSUME NEW c, NEW h
    PROVE  /\ IsFiniteSet(CallsTo(c, h)) /\ Cardinality(CallsTo(c, h)) \in Nat
           /\ \A t \in CallsTo(c, h) : Cardinality(CallsTo(c, h) \ {t}) = Cardinality(CallsTo(c, h)) - 1
           /\ \A t : t \notin CallsTo(c, h) =>
                  Cardinality(CallsTo(c, h) \cup {t}) = Cardinality(CallsTo(c, h)) + 1
<1>1. IsFiniteSet(Threads) /\ CallsTo(c, h) \subseteq Threads
  BY ConfigAssumption DEF CallsTo, InCall
<1>2. IsFiniteSet(CallsTo(c, h))
  BY <1>1, FS_Subset
<1> QED
  BY <1>2, FS_CardinalityType, FS_AddElement, FS_RemoveElement

LEMMA UsersFinite ==
    ASSUME NEW u, NEW d
    PROVE  /\ IsFiniteSet(Users(u, d)) /\ Cardinality(Users(u, d)) \in Nat
           /\ (Cardinality(Users(u, d)) = 0 <=> Users(u, d) = {})
           /\ \A h \in Users(u, d) : Cardinality(Users(u, d) \ {h}) = Cardinality(Users(u, d)) - 1
           /\ \A h : h \notin Users(u, d) =>
                  Cardinality(Users(u, d) \cup {h}) = Cardinality(Users(u, d)) + 1
<1>1. IsFiniteSet(Handles) /\ Users(u, d) \subseteq Handles
  BY ConfigAssumption DEF Users
<1>2. IsFiniteSet(Users(u, d))
  BY <1>1, FS_Subset
<1> QED
  BY <1>2, FS_CardinalityType, FS_AddElement, FS_RemoveElement, FS_EmptySet

-----------------------------------------------------------------------------
(***************************************************************************)
(* PoolHandle_Dec_UsbK: a reference is given up.                           *)
(***************************************************************************)

LEMMA FreeTypes ==
    /\ FreeUsb \in UsbType /\ FreeUsb.ref = 0
    /\ FreeDev \in DevType /\ FreeDev.ref = 0 /\ FreeDev.stack = << >> /\ FreeDev.count = 0 /\ 0 \in Counts
    /\ FreeDev.shared \in [Indexes -> SharedType]
    /\ \A i \in Indexes : FreeDev.shared[i] = NoShared
    /\ Idle \in CallType /\ Idle.at = "idle"
<1>1. 1 \in Indexes /\ 0 \in Alts /\ 0 \in Counts /\ << >> \in Stacks
  BY ConfigFacts DEF Stacks
<1>2. NoShared \in SharedType
  BY <1>1 DEF NoShared, SharedType
<1>3. FreeUsb \in UsbType /\ FreeUsb.ref = 0
  BY <1>1 DEF FreeUsb, UsbType
<1>4. [i \in Indexes |-> NoShared] \in [Indexes -> SharedType]
  BY <1>2
<1>5. /\ FreeDev \in DevType /\ FreeDev.ref = 0 /\ FreeDev.stack = << >> /\ FreeDev.count = 0
      /\ FreeDev.shared = [i \in Indexes |-> NoShared]
  BY <1>1, <1>4 DEF FreeDev, DevType
<1>6. Idle \in CallType /\ Idle.at = "idle"
  BY <1>1 DEF Idle, CallType, Labels
<1> QED
  BY <1>1, <1>3, <1>4, <1>5, <1>6

\* What becomes of the handle h and its device d, which is closed with its last
\* handle.
Decremented(h, d, u, dv) ==
    /\ usb' \in [Handles -> UsbType] /\ dev' \in [Devs -> DevType]
    /\ claimedBy' \in [Numbers -> Devs \cup {NoDev}]
    /\ usb'[h].ref = u[h].ref - 1 /\ (usb'[h].ref > 0 => usb'[h].dev = d /\ usb'[h].sel = u[h].sel)
    /\ \A g \in Handles : g # h => usb'[g] = u[g]
    /\ \A e \in Devs : e # d => dev'[e] = dv[e] /\ Users(usb', e) = Users(u, e)
    /\ dev'[d].ref = Cardinality(Users(usb', d))
    /\ \/ /\ Users(usb', d) # {}
          /\ dev'[d].stack = dv[d].stack /\ dev'[d].count = dv[d].count /\ dev'[d].shared = dv[d].shared
          /\ claimedBy' = claimedBy
       \/ /\ Users(usb', d) = {} /\ dev'[d] = FreeDev
          /\ \A n \in Numbers : claimedBy'[n] = IF claimedBy[n] = d THEN NoDev ELSE claimedBy[n]

LEMMA DecIs ==
    ASSUME NEW u \in [Handles -> UsbType], NEW dv \in [Devs -> DevType], NEW h \in Handles,
           u[h].ref > 0, NEW d \in Devs, u[h].dev = d,
           dv[d].ref = Cardinality(Users(u, d)),
           claimedBy \in [Numbers -> Devs \cup {NoDev}],
           DecUsb(h, u, dv)
    PROVE  Decremented(h, d, u, dv)
<1>1. /\ u[h] \in UsbType /\ u[h].ref \in Nat \ {0} /\ h \in Users(u, d)
      /\ dv[d] \in DevType /\ dv[d].ref \in Nat
  BY DEF UsbType, DevType, Users
<1> DEFINE x == [u[h] EXCEPT !.ref = u[h].ref - 1]
<1>2. CASE u[h].ref # 1
  <2>1. usb' = [u EXCEPT ![h] = x] /\ dev' = dv
    BY <1>2 DEF DecUsb
  <2>2. x \in UsbType /\ x.ref = u[h].ref - 1 /\ x.dev = d /\ x.sel = u[h].sel /\ x.ref > 0
    BY <1>1, <1>2 DEF UsbType
  <2> HIDE DEF x
  <2>3. usb' \in [Handles -> UsbType] /\ usb'[h] = x /\ \A g \in Handles : g # h => usb'[g] = u[g]
    BY <2>1, <2>2
  <2>4. \A e : Users(usb', e) = Users(u, e)
    BY <2>2, <2>3 DEF Users
  <2>5. claimedBy' = claimedBy
    <3>1. claimedBy' = [n \in Numbers |-> claimedBy[n]]
      BY <1>2 DEF DecUsb
    <3> QED
      BY <3>1
  <2> QED
    BY <1>1, <2>1, <2>2, <2>3, <2>4, <2>5 DEF Decremented
<1>3. CASE u[h].ref = 1
  <2>1. usb' = [u EXCEPT ![h] = FreeUsb]
    BY <1>3 DEF DecUsb
  <2>2. /\ usb' \in [Handles -> UsbType] /\ usb'[h].ref = 0
        /\ \A g \in Handles : g # h => usb'[g] = u[g]
    BY <2>1, FreeTypes
  <2>3. /\ \A e \in Devs : e # d => Users(usb', e) = Users(u, e)
        /\ Users(usb', d) = Users(u, d) \ {h}
    BY <2>2 DEF Users
  <2>4. Cardinality(Users(usb', d)) = dv[d].ref - 1
    BY <1>1, <2>3, UsersFinite
  <2>5. CASE dv[d].ref = 1
    <3>1. dev' = [dv EXCEPT ![d] = FreeDev]
      BY <1>3, <2>5 DEF DecUsb
    <3>2. dev' \in [Devs -> DevType] /\ dev'[d] = FreeDev /\ \A e \in Devs : e # d => dev'[e] = dv[e]
      BY <3>1, FreeTypes
    <3>3. claimedBy' = [n \in Numbers |-> IF claimedBy[n] = d THEN NoDev ELSE claimedBy[n]]
      BY <1>3, <2>5 DEF DecUsb
    <3>4. claimedBy' \in [Numbers -> Devs \cup {NoDev}]
      BY <3>3
    <3>5. Users(usb', d) = {}
      BY <2>4, <2>5, UsersFinite
    <3> QED
      BY <1>3, <2>2, <2>3, <2>4, <2>5, <3>2, <3>3, <3>4, <3>5, FreeTypes DEF Decremented
  <2>6. CASE dv[d].ref # 1
    <3> DEFINE y == [dv[d] EXCEPT !.ref = dv[d].ref - 1]
    <3>1. dev' = [dv EXCEPT ![d] = y]
      BY <1>3, <2>6 DEF DecUsb
    <3>2. dv[d].ref - 1 \in Nat
      BY <2>4, UsersFinite
    <3>3. y \in DevType /\ y.ref = dv[d].ref - 1 /\ y.stack = dv[d].stack /\ y.count = dv[d].count /\ y.shared = dv[d].shared
      BY <1>1, <3>2 DEF DevType
    <3> HIDE DEF y
    <3>4. dev' \in [Devs -> DevType] /\ dev'[d] = y /\ \A e \in Devs : e # d => dev'[e] = dv[e]
      BY <3>1, <3>3
    <3>5. claimedBy' = claimedBy
      <4>1. claimedBy' = [n \in Numbers |-> claimedBy[n]]
        BY <1>3, <2>6 DEF DecUsb
      <4> QED
        BY <4>1
    <3>6. Users(usb', d) # {}
      BY <1>1, <2>4, <2>6, UsersFinite
    <3> QED
      BY <1>3, <2>2, <2>3, <2>4, <3>3, <3>4, <3>5, <3>6 DEF Decremented
  <2> QED
    BY <2>5, <2>6
<1> QED
  BY <1>2, <1>3

\* What is left when a call has left with its reference, or a handle was freed:
\* u, dv and the calls that remain are as the invariant says, but for that one
\* reference of h.
LEMMA DecOK ==
    ASSUME NEW u, NEW dv, NEW c, c = call', NEW h \in Handles, NEW m, m = mine' \cup lost,
           PoolTypes(u, dv, c), OtherTypes, mine' \subseteq Handles, mine' \cap lost = {},
           \A g \in Handles :
               /\ u[g].ref = Cardinality(CallsTo(c, g)) + (IF g \in m THEN 1 ELSE 0)
                             + (IF g = h THEN 1 ELSE 0)
               /\ u[g].ref > 0 => u[g].dev \in Devs,
           Rest(u, dv, c),
           \A t \in InCall(c) : On(u, c, t) = u[h].dev => c[t].op # "config",
           DecUsb(h, u, dv), Known(known),
           UNCHANGED <<driver, active, alt, lost, reconfigured>>
    PROVE  IInv'
<1> DEFINE d == u[h].dev
           gone == Users(usb', d) = {}
<1>1. /\ u \in [Handles -> UsbType] /\ dv \in [Devs -> DevType] /\ c \in [Threads -> CallType]
      /\ claimedBy \in [Numbers -> Devs \cup {NoDev}] /\ known \in [Targets -> SUBSET Devs]
  BY DEF PoolTypes, OtherTypes
<1>2. u[h].ref > 0 /\ d \in Devs
  <2>1. u[h].ref = Cardinality(CallsTo(c, h)) + (IF h \in m THEN 1 ELSE 0) + 1
    OBVIOUS
  <2>2. Cardinality(CallsTo(c, h)) \in Nat
    BY CallsFinite
  <2>3. u[h].ref > 0
    BY <2>1, <2>2
  <2> QED
    BY <2>3
<1>3. dv[d].ref = Cardinality(Users(u, d))
  BY <1>2 DEF Rest, DeviceCounts
<1>4. u[h].dev = d
  OBVIOUS
<1> HIDE DEF d, gone
<1>5. /\ usb' \in [Handles -> UsbType] /\ dev' \in [Devs -> DevType]
      /\ claimedBy' \in [Numbers -> Devs \cup {NoDev}]
      /\ usb'[h].ref = u[h].ref - 1 /\ (usb'[h].ref > 0 => usb'[h].dev = d /\ usb'[h].sel = u[h].sel)
      /\ \A g \in Handles : g # h => usb'[g] = u[g]
      /\ \A e \in Devs : e # d => dev'[e] = dv[e] /\ Users(usb', e) = Users(u, e)
      /\ dev'[d].ref = Cardinality(Users(usb', d))
      /\ \/ /\ ~gone
            /\ dev'[d].stack = dv[d].stack /\ dev'[d].count = dv[d].count /\ dev'[d].shared = dv[d].shared
            /\ claimedBy' = claimedBy
         \/ /\ gone /\ dev'[d] = FreeDev
            /\ \A n \in Numbers : claimedBy'[n] = IF claimedBy[n] = d THEN NoDev ELSE claimedBy[n]
  <2>1. DecUsb(h, u, dv)
    OBVIOUS
  <2>2. Decremented(h, d, u, dv)
    BY ONLY <1>1, <1>2, <1>3, <1>4, <2>1, h \in Handles, DecIs, Zenon
  <2> QED
    BY <2>2, Zenon DEF gone, Decremented
\* Whoever still counts is where it was.
<1>6. \A g \in Handles : usb'[g].ref > 0 =>
          /\ u[g].ref > 0 /\ usb'[g].dev = u[g].dev /\ usb'[g].sel = u[g].sel /\ u[g].dev \in Devs
  BY <1>2, <1>4, <1>5
<1>7. HandleCounts(usb, call, mine \cup lost)'
  <2>1. ASSUME NEW g \in Handles
        PROVE  usb'[g].ref = Cardinality(CallsTo(c, g)) + (IF g \in m THEN 1 ELSE 0)
    <3>1. u[g].ref = Cardinality(CallsTo(c, g)) + (IF g \in m THEN 1 ELSE 0) + (IF g = h THEN 1 ELSE 0)
      OBVIOUS
    <3>2. Cardinality(CallsTo(c, g)) \in Nat
      BY CallsFinite
    <3> QED
      BY <1>5, <3>1, <3>2
  <2> QED
    BY <1>6, <2>1 DEF HandleCounts
<1>8. ASSUME NEW t \in InCall(c)
      PROVE  /\ c[t].h \in Handles /\ usb'[c[t].h].ref > 0
             /\ On(usb', c, t) = On(u, c, t) /\ On(u, c, t) \in Devs
             /\ gone => On(u, c, t) # d
  <2>1. c[t].h \in Handles
    BY DEF Rest, CallsOK, CallKind
  <2>2. t \in CallsTo(c, c[t].h)
    BY DEF CallsTo
  <2>3. Cardinality(CallsTo(c, c[t].h)) > 0
    BY <2>2, CallsFinite, FS_EmptySet
  <2>4. usb'[c[t].h].ref > 0
    BY <1>7, <2>1, <2>3, CallsFinite DEF HandleCounts
  <2>5. On(usb', c, t) = On(u, c, t) /\ On(u, c, t) \in Devs
    BY <1>6, <2>1, <2>4 DEF On
  <2>6. c[t].h \in Users(usb', On(u, c, t))
    BY <2>1, <2>4, <2>5 DEF Users, On
  <2> QED
    BY <2>1, <2>4, <2>5, <2>6 DEF gone
\* A device that is not closed keeps its stack and its notes, its claims too.
<1>9. ASSUME NEW e \in Devs, e # d \/ ~gone
      PROVE  /\ dev'[e].stack = dv[e].stack /\ dev'[e].count = dv[e].count /\ dev'[e].shared = dv[e].shared
             /\ \A n \in Numbers : claimedBy'[n] = e <=> claimedBy[n] = e
  <2>1. e # NoDev
    BY ConfigAssumption
  <2> QED
    BY <1>5, <1>9, <2>1
<1>10. ASSUME NEW n \in Targets
       PROVE  known'[n] = {e \in known[n] : dev'[e].ref # 0}
  BY DEF Known
<1>11. PoolTypes(usb, dev, call)' /\ OtherTypes'
  <2>1. known' \in [Targets -> SUBSET Devs]
    <3>1. known' = [n \in Targets |-> {e \in known[n] : dev'[e].ref # 0}]
      BY DEF Known
    <3> QED
      BY <1>1, <3>1
  <2> QED
    BY <1>1, <1>5, <2>1 DEF PoolTypes, OtherTypes
<1>12. DeviceCounts(usb, dev, call)'
  <2>1. ASSUME NEW e \in Devs
        PROVE  /\ (\A t \in InCall(c) : On(usb', c, t) = e => c[t].op # "config")
                      => dev'[e].ref = Cardinality(Users(usb', e))
               /\ \A t \in InCall(c) : On(usb', c, t) = e /\ c[t].op = "config"
                      => dev'[e].ref = Cardinality(Users(usb', e)) - c[t].v
    <3>1. CASE e = d
      BY <1>4, <1>5, <1>8, <3>1
    <3>2. CASE e # d
      BY <1>5, <1>8, <3>2 DEF Rest, DeviceCounts
    <3> QED
      BY <3>1, <3>2
  <2> QED
    BY <2>1 DEF DeviceCounts
<1>13. CallsOK(usb, dev, call)'
  <2>1. ASSUME NEW t \in InCall(c)
        PROVE  CallOn(c[t], dev[On(u, c, t)], On(u, c, t))'
    <3> DEFINE e == On(u, c, t)
               r == c[t]
    <3>1. e \in Devs /\ (e # d \/ ~gone) /\ CallOn(r, dv[e], e) /\ CallKind(r)
      BY <1>8 DEF Rest, CallsOK
    <3>2. e = d => r.op # "config"
      BY <1>4
    <3> HIDE DEF e, r
    <3>3. dev'[e].stack = dv[e].stack /\ dev'[e].count = dv[e].count /\ dev'[e].shared = dv[e].shared
      BY <1>9, <3>1
    <3>4. r.at = "dec2" => dev'[e].ref = 1
      BY <1>5, <3>1, <3>2 DEF CallOn, CallKind, Rebuilds
    <3>5. r.n \in Targets => (claimedBy'[r.n] = e <=> claimedBy[r.n] = e)
      BY <1>9, <3>1, ConfigFacts
    <3>6. /\ \A n \in Targets : e \in known'[n] => e \in known[n]
          /\ alt' = alt /\ reconfigured' = reconfigured
      BY <1>10
    <3>7. CallOn(r, dev[e], e)'
      BY <3>1, <3>3, <3>4, <3>5, <3>6 DEF CallOn, CallKind, Rebuilds
    <3> QED
      BY <3>7 DEF e, r
  <2>2. ASSUME NEW t \in InCall(c)
        PROVE  /\ CallKind(c[t]) /\ usb'[c[t].h].ref > 0 /\ c[t].h \notin lost'
               /\ On(usb', c, t) = On(u, c, t)
    BY <1>8 DEF Rest, CallsOK
  <2> QED
    BY <2>1, <2>2 DEF CallsOK
<1>14. Apart(usb, call)'
  <2>1. \A t \in InCall(c) : On(usb', c, t) = On(u, c, t)
    BY <1>8
  <2> QED
    BY <2>1 DEF Rest, Apart
<1>15. FreeDev.stack = << >> /\ DOMAIN FreeDev.stack = {}
  BY FreeTypes
<1>16. ASSUME NEW e \in Devs
       PROVE  \/ dev'[e].stack = << >> /\ DOMAIN dev'[e].stack = {}
              \/ e # d \/ ~gone
  BY <1>5, <1>15
<1>17. StacksOK(usb, dev)'
  <2>1. ASSUME NEW e \in Devs, NEW i \in DOMAIN dev'[e].stack
        PROVE  dev'[e].shared[i].id = dev'[e].stack[i]
    BY <1>9, <1>16 DEF Rest, StacksOK
  <2>2. ASSUME ~reconfigured
        PROVE  /\ active = FirstConfig
               /\ \A e \in Devs : dev'[e].stack \in {<< >>, Numbered(0, FirstConfig)} /\ dev'[e].count \in Counts
    <3>1. ASSUME NEW e \in Devs
          PROVE  dev'[e].count \in Counts
      BY <1>5, <1>9, <2>2, FreeTypes DEF Rest, StacksOK
    <3> QED
      BY <1>9, <1>16, <2>2, <3>1 DEF Rest, StacksOK
  <2>3. ASSUME NEW g \in Handles \ lost, usb'[g].ref > 0, ~reconfigured
        PROVE  usb'[g].sel \in DOMAIN dev'[usb'[g].dev].stack
    <3>1. u[g].ref > 0 /\ usb'[g].dev = u[g].dev /\ usb'[g].sel = u[g].sel /\ u[g].dev \in Devs
      BY <1>6, <2>3
    <3>2. g \in Users(usb', u[g].dev)
      BY <2>3, <3>1 DEF Users
    <3>3. u[g].dev # d \/ ~gone
      BY <3>2 DEF gone
    <3>4. u[g].sel \in DOMAIN dv[u[g].dev].stack
      BY <2>3, <3>1 DEF Rest, StacksOK
    <3> QED
      BY <1>9, <3>1, <3>3, <3>4
  <2> QED
    BY <2>1, <2>2, <2>3 DEF StacksOK
<1>18. ClaimsOK(usb, dev, call)'
  <2>1. ASSUME NEW e \in Devs, ~reconfigured, NEW i \in DOMAIN dev'[e].stack
        PROVE  \/ \E t \in InCall(c) : /\ On(usb', c, t) = e /\ c[t].op \in {"claim", "release"}
                                       /\ c[t].i = i
               \/ dev'[e].shared[i].claimed = (claimedBy'[dev'[e].stack[i]] = e)
    <3>1. e # d \/ ~gone
      BY <1>16, <2>1
    <3>2. i \in DOMAIN dv[e].stack /\ dev'[e].stack[i] = dv[e].stack[i] /\ dev'[e].shared[i] = dv[e].shared[i]
      BY <1>9, <2>1, <3>1
    <3>3. dv[e].stack[i] \in Numbers
      <4>1. dv[e].stack \in Stacks
        BY <1>1 DEF DevType
      <4> QED
        BY <3>2, <4>1, StackIs
    <3>4. claimedBy'[dv[e].stack[i]] = e <=> claimedBy[dv[e].stack[i]] = e
      BY <1>9, <3>1, <3>3
    <3>5. CASE \E t \in InCall(c) : /\ On(u, c, t) = e /\ c[t].op \in {"claim", "release"}
                                    /\ c[t].i = i
      BY <1>8, <3>5
    <3>6. CASE dv[e].shared[i].claimed = (claimedBy[dv[e].stack[i]] = e)
      BY <3>2, <3>4, <3>6, Zenon
    <3> QED
      BY <2>1, <3>2, <3>5, <3>6 DEF Rest, ClaimsOK
  <2>2. ASSUME NEW n \in Numbers, claimedBy'[n] # NoDev
        PROVE  Users(usb', claimedBy'[n]) # {}
    <3>1. claimedBy'[n] = claimedBy[n] /\ claimedBy[n] \in Devs
      BY <1>1, <1>5, <2>2
    <3>2. CASE claimedBy[n] = d
      <4>1. ~gone
        BY <1>5, <2>2, <3>2
      <4> QED
        BY <3>1, <3>2, <4>1 DEF gone
    <3>3. CASE claimedBy[n] # d
      <4>1. Users(usb', claimedBy[n]) = Users(u, claimedBy[n])
        BY <1>5, <3>1, <3>3
      <4>2. Users(u, claimedBy[n]) # {}
        BY <2>2, <3>1 DEF Rest, ClaimsOK
      <4> QED
        BY <3>1, <4>1, <4>2
    <3> QED
      BY <3>2, <3>3
  <2> QED
    BY <2>1, <2>2 DEF ClaimsOK
<1>19. AltsOK(usb, dev, call)'
  <2>1. ASSUME NEW n \in Targets, NEW e \in Devs, e \in known'[n]
        PROVE  dev'[e].ref > 0
    <3>1. dev'[e].ref # 0
      BY <1>10, <2>1
    <3>2. dev'[e].ref \in Nat
      BY <1>5 DEF DevType
    <3> QED
      BY <3>1, <3>2
  <2>2. ASSUME NEW e \in Devs, NEW i \in DOMAIN dev'[e].stack,
               dev'[e].stack[i] \in Targets, e \in known'[dev'[e].stack[i]]
        PROVE  \/ \E t \in InCall(c) : /\ On(usb', c, t) = e /\ c[t].op \in {"set", "get"}
                                       /\ c[t].at = "note" /\ c[t].i = i
               \/ dev'[e].shared[i].alt = alt[dev'[e].stack[i]]
    <3>1. e # d \/ ~gone
      BY <1>16, <2>2
    <3>2. i \in DOMAIN dv[e].stack /\ dev'[e].stack[i] = dv[e].stack[i] /\ dev'[e].shared[i] = dv[e].shared[i]
      BY <1>9, <2>2, <3>1
    <3>3. e \in known[dv[e].stack[i]]
      BY <1>10, <2>2, <3>2
    <3> QED
      BY <1>8, <2>2, <3>2, <3>3 DEF Rest, AltsOK
  <2> QED
    BY <2>1, <2>2 DEF AltsOK
<1> QED
  BY <1>7, <1>11, <1>12, <1>13, <1>14, <1>17, <1>18, <1>19 DEF IInv, Rest

-----------------------------------------------------------------------------
(***************************************************************************)
(* The initial states, and a call that enters.                             *)
(***************************************************************************)

LEMMA InitOK == Init => IInv
<1> SUFFICES ASSUME Init
             PROVE  IInv
  OBVIOUS
<1>1. InCall(call) = {}
  BY DEF Init, InCall, Idle
<1>2. /\ \A h \in Handles : usb[h] = FreeUsb
      /\ \A d \in Devs : dev[d] = FreeDev
  BY DEF Init
<1>3. PoolTypes(usb, dev, call)
  BY FreeTypes DEF Init, PoolTypes
<1>4. OtherTypes
  BY ConfigFacts DEF Init, OtherTypes
<1>5. \A h \in Handles : CallsTo(call, h) = {} /\ usb[h].ref = 0
  BY <1>1, <1>2, FreeTypes DEF CallsTo
<1>6. HandleCounts(usb, call, mine \cup lost)
  <2>1. mine \cup lost = {} /\ Cardinality({}) = 0
    BY FS_EmptySet DEF Init
  <2> QED
    BY <1>5, <2>1 DEF HandleCounts
<1>7. \A d \in Devs : /\ Users(usb, d) = {} /\ dev[d].ref = 0 /\ DOMAIN dev[d].stack = {} /\ dev[d].stack = << >>
                      /\ dev[d].count \in Counts
  <2>1. DOMAIN FreeDev.stack = {}
    BY FreeTypes
  <2> QED
    BY <1>2, <1>5, <2>1, FreeTypes DEF Users
<1>8. DeviceCounts(usb, dev, call)
  BY <1>1, <1>7, FS_EmptySet DEF DeviceCounts
<1>9. CallsOK(usb, dev, call) /\ Apart(usb, call)
  BY <1>1 DEF CallsOK, Apart
<1>10. StacksOK(usb, dev)
  BY <1>5, <1>7 DEF StacksOK, Init
<1>11. ClaimsOK(usb, dev, call)
  BY <1>7 DEF ClaimsOK, Init
<1>12. AltsOK(usb, dev, call)
  BY <1>7 DEF AltsOK, Init
<1> QED
  BY <1>3, <1>4, <1>6, <1>8, <1>9, <1>10, <1>11, <1>12 DEF IInv, Rest

LEMMA CallsOnIs ==
    /\ Busy = InCall(call)
    /\ \A t : DevOf(t) = On(usb, call, t)
    /\ \A d : CallsOn(d) = {t \in InCall(call) : On(usb, call, t) = d}
BY DEF Busy, InCall, DevOf, On, CallsOn

\* A call that is about what it found, and that no call on its device disturbs.
LEMMA EnterOK ==
    ASSUME ConfigAlone, IInv, NEW t \in Threads, NEW h \in mine,
           NEW op, NEW at, NEW i, NEW n, NEW v, Enter(t, h, op, at, i, n, v),
           NEW d, d = usb[h].dev,
           NEW r, r = [op |-> op, at |-> at, h |-> h, i |-> i, n |-> n, v |-> v],
           r \in CallType, at \in {"make", "ask", "note", "configure"}, CallKind(r), CallOn(r, dev[d], d),
           op \in {"claim", "release"} => Undisturbed(d, n, {"claim", "release"}),
           op \in {"set", "get"} => Undisturbed(d, n, {"set", "get"})
    PROVE  IInv'
<1>1. /\ usb \in [Handles -> UsbType] /\ dev \in [Devs -> DevType] /\ call \in [Threads -> CallType]
      /\ h \in Handles /\ h \notin lost
  BY DEF IInv, PoolTypes, OtherTypes
<1>2. usb[h].ref \in Nat /\ usb[h].ref > 0 /\ d \in Devs /\ usb[h] \in UsbType
  <2>1. usb[h].ref = Cardinality(CallsTo(call, h)) + 1
    BY <1>1 DEF IInv, HandleCounts
  <2>2. usb[h].ref \in Nat /\ usb[h].ref > 0
    BY <2>1, CallsFinite
  <2> QED
    BY <1>1, <2>2 DEF IInv, HandleCounts
<1> DEFINE x == [usb[h] EXCEPT !.ref = usb[h].ref + 1]
<1>3. x \in UsbType /\ x.ref = usb[h].ref + 1 /\ x.dev = d /\ x.sel = usb[h].sel
  BY <1>2 DEF UsbType
<1>4. usb' = [usb EXCEPT ![h] = x]
  BY DEF Enter
<1> HIDE DEF x
<1>5. /\ usb' \in [Handles -> UsbType] /\ usb'[h].ref = usb[h].ref + 1
      /\ \A g \in Handles : /\ usb'[g].dev = usb[g].dev /\ usb'[g].sel = usb[g].sel
                            /\ usb'[g].ref > 0 <=> usb[g].ref > 0
                            /\ g # h => usb'[g].ref = usb[g].ref
  <2>1. usb'[h] = x /\ \A g \in Handles : g # h => usb'[g] = usb[g]
    BY <1>1, <1>4
  <2>2. usb' \in [Handles -> UsbType]
    BY <1>1, <1>3, <1>4
  <2> QED
    BY <1>2, <1>3, <2>1, <2>2
<1>6. /\ call[t].at = "idle" /\ t \notin InCall(call) /\ UNCHANGED <<dev, driverVars, history>>
      /\ call' = [call EXCEPT ![t] = r]
  BY DEF Enter, Idle, InCall
<1>7. /\ r.op = op /\ r.at = at /\ r.h = h /\ r.i = i /\ r.n = n /\ r.v = v
      /\ call' \in [Threads -> CallType] /\ call'[t] = r
      /\ \A s \in Threads : s # t => call'[s] = call[s]
  BY <1>1, <1>6
<1>8. InCall(call') = InCall(call) \cup {t}
  BY <1>7 DEF InCall
<1>9. /\ \A s \in InCall(call) : s # t /\ call'[s] = call[s] /\ On(usb', call', s) = On(usb, call, s)
                                 /\ usb'[call[s].h].ref > 0
      /\ On(usb', call', t) = d
  <2>1. \A s \in InCall(call) : s \in Threads /\ call[s].h \in Handles /\ usb[call[s].h].ref > 0
    BY DEF IInv, Rest, CallsOK, CallKind, InCall
  <2> QED
    BY <1>1, <1>5, <1>6, <1>7, <2>1 DEF On
<1>10. \A e : Users(usb', e) = Users(usb, e)
  BY <1>5 DEF Users
<1>11. HandleCounts(usb, call, mine \cup lost)'
  <2>1. \A g \in Handles : g # h => CallsTo(call', g) = CallsTo(call, g)
    BY <1>7, <1>8, <1>9 DEF CallsTo
  <2>2. CallsTo(call', h) = CallsTo(call, h) \cup {t} /\ t \notin CallsTo(call, h)
    BY <1>6, <1>7, <1>8, <1>9 DEF CallsTo
  <2>3. Cardinality(CallsTo(call', h)) = Cardinality(CallsTo(call, h)) + 1 /\ Cardinality(CallsTo(call, h)) \in Nat
    BY <2>2, CallsFinite
  <2>4. usb[h].ref = Cardinality(CallsTo(call, h)) + 1 /\ h \in mine' \cup lost'
    BY <1>1, <1>6 DEF IInv, HandleCounts, history
  <2>5. mine' \cup lost' = mine \cup lost
    BY <1>6 DEF history
  <2> QED
    BY <1>5, <2>1, <2>3, <2>4, <2>5 DEF IInv, HandleCounts
<1>12. /\ op = "config" => \A s \in InCall(call) : On(usb, call, s) # d
       /\ \A s \in InCall(call) : On(usb, call, s) = d => call[s].op # "config"
  BY CallsOnIs DEF Enter, MayCall
<1>13. DeviceCounts(usb, dev, call)'
  <2>1. op = "config" => v = 0
    BY <1>7 DEF CallKind, Rebuilds
  <2>2. ASSUME NEW e \in Devs
        PROVE  /\ (\A s \in InCall(call') : On(usb', call', s) = e => call'[s].op # "config")
                      => dev'[e].ref = Cardinality(Users(usb', e))
               /\ \A s \in InCall(call') : On(usb', call', s) = e /\ call'[s].op = "config"
                      => dev'[e].ref = Cardinality(Users(usb', e)) - call'[s].v
    <3>1. dev'[e] = dev[e] /\ Users(usb', e) = Users(usb, e)
      BY <1>6, <1>10
    <3>2. /\ (\A s \in InCall(call) : On(usb, call, s) = e => call[s].op # "config")
                 => dev[e].ref = Cardinality(Users(usb, e))
          /\ \A s \in InCall(call) : On(usb, call, s) = e /\ call[s].op = "config"
                 => dev[e].ref = Cardinality(Users(usb, e)) - call[s].v
      BY DEF IInv, Rest, DeviceCounts
    <3>3. Cardinality(Users(usb, e)) \in Nat
      BY UsersFinite
    <3>4. CASE op = "config" /\ e = d
      <4>1. dev[e].ref = Cardinality(Users(usb, e))
        BY <1>12, <3>2, <3>4
      <4>2. \A s \in InCall(call') : On(usb', call', s) = e => s = t
        BY <1>8, <1>9, <1>12, <3>4
      <4> QED
        BY <1>7, <2>1, <3>1, <3>3, <3>4, <4>1, <4>2
    <3>5. CASE ~(op = "config" /\ e = d)
      <4>1. (\A s \in InCall(call') : On(usb', call', s) = e => call'[s].op # "config")
               => \A s \in InCall(call) : On(usb, call, s) = e => call[s].op # "config"
        BY <1>8, <1>9
      <4>2. \A s \in InCall(call') : On(usb', call', s) = e /\ call'[s].op = "config" =>
                s \in InCall(call) /\ call'[s] = call[s] /\ On(usb, call, s) = e
        BY <1>7, <1>8, <1>9, <3>5
      <4> QED
        BY <3>1, <3>2, <4>1, <4>2
    <3> QED
      BY <3>4, <3>5
  <2> QED
    BY <2>2 DEF DeviceCounts
<1>14. CallsOK(usb, dev, call)'
  <2>1. ASSUME NEW s \in InCall(call)
        PROVE  /\ CallKind(call[s]) /\ call[s].h \notin lost
               /\ CallOn(call[s], dev[On(usb, call, s)], On(usb, call, s))
    BY DEF IInv, Rest, CallsOK
  <2>2. \A q, y, e : CallOn(q, y, e) => CallOn(q, y, e)'
    BY <1>6 DEF CallOn, driverVars, history
  <2>3. ASSUME NEW s \in InCall(call')
        PROVE  /\ CallKind(call'[s]) /\ usb'[call'[s].h].ref > 0 /\ call'[s].h \notin lost'
               /\ CallOn(call'[s], dev'[On(usb', call', s)], On(usb', call', s))
    <3>1. dev' = dev /\ lost' = lost
      BY <1>6 DEF history
    <3>2. CASE s = t
      BY <1>1, <1>2, <1>5, <1>7, <1>9, <3>1, <3>2
    <3>3. CASE s # t
      BY <1>8, <1>9, <2>1, <3>1, <3>3
    <3> QED
      BY <3>2, <3>3
  <2>4. ASSUME NEW s \in InCall(call')
        PROVE  CallOn(call[s], dev[On(usb, call, s)], On(usb, call, s))'
    BY <2>2, <2>3
  <2> QED
    BY <2>3, <2>4 DEF CallsOK
<1>15. Apart(usb, call)'
  <2>1. \A s \in InCall(call) : On(usb, call, s) = d =>
            /\ op \in {"claim", "release"} /\ call[s].op \in {"claim", "release"} => call[s].n # n
            /\ op \in {"set", "get"} /\ call[s].op \in {"set", "get"} => call[s].n # n
    BY CallsOnIs DEF Undisturbed
  <2> QED
    BY <1>7, <1>8, <1>9, <1>12, <2>1 DEF IInv, Rest, Apart
<1>16. StacksOK(usb, dev)'
  <2>1. StacksOK(usb, dev) /\ dev' = dev /\ active' = active /\ lost' = lost /\ reconfigured' = reconfigured
    BY <1>6 DEF IInv, Rest, driverVars, history
  <2>2. \A g \in Handles \ lost : usb'[g].ref > 0 /\ ~reconfigured => usb'[g].sel \in DOMAIN dev[usb'[g].dev].stack
    BY <1>5, <2>1 DEF StacksOK
  <2> QED
    BY <2>1, <2>2 DEF StacksOK
<1>17. ClaimsOK(usb, dev, call)'
  <2>1. dev' = dev /\ claimedBy' = claimedBy /\ reconfigured' = reconfigured
    BY <1>6 DEF driverVars, history
  <2>2. \A e, k : (\E s \in InCall(call) : /\ On(usb, call, s) = e /\ call[s].op \in {"claim", "release"}
                                          /\ call[s].i = k)
            => \E s \in InCall(call') : /\ On(usb', call', s) = e /\ call'[s].op \in {"claim", "release"}
                                       /\ call'[s].i = k
    BY <1>8, <1>9
  <2> QED
    BY <1>10, <2>1, <2>2 DEF IInv, Rest, ClaimsOK
<1>18. AltsOK(usb, dev, call)'
  <2>1. dev' = dev /\ alt' = alt /\ known' = known
    BY <1>6 DEF driverVars, history
  <2>2. \A e, k : (\E s \in InCall(call) : /\ On(usb, call, s) = e /\ call[s].op \in {"set", "get"}
                                          /\ call[s].at = "note" /\ call[s].i = k)
            => \E s \in InCall(call') : /\ On(usb', call', s) = e /\ call'[s].op \in {"set", "get"}
                                       /\ call'[s].at = "note" /\ call'[s].i = k
    BY <1>8, <1>9
  <2> QED
    BY <2>1, <2>2 DEF IInv, Rest, AltsOK
<1>19. PoolTypes(usb, dev, call)' /\ OtherTypes'
  BY <1>1, <1>5, <1>6, <1>7 DEF IInv, PoolTypes, OtherTypes, driverVars, history
<1> QED
  BY <1>11, <1>13, <1>14, <1>15, <1>16, <1>17, <1>18, <1>19 DEF IInv, Rest

LEMMA StackFacts ==
    ASSUME IInv, NEW d \in Devs
    PROVE  /\ dev[d] \in DevType /\ dev[d].stack \in Stacks /\ DOMAIN dev[d].stack \subseteq Indexes
           /\ dev[d].shared \in [Indexes -> SharedType]
           /\ \A i \in DOMAIN dev[d].stack : dev[d].stack[i] \in Numbers /\ dev[d].shared[i].id = dev[d].stack[i]
           /\ \A i, j \in DOMAIN dev[d].stack : dev[d].stack[i] = dev[d].stack[j] => i = j
<1>1. dev[d] \in DevType
  BY DEF IInv, PoolTypes
<1>2. dev[d].stack \in Stacks /\ dev[d].shared \in [Indexes -> SharedType]
  BY <1>1 DEF DevType
<1>3. \A i \in DOMAIN dev[d].stack : dev[d].shared[i].id = dev[d].stack[i]
  BY DEF IInv, Rest, StacksOK
<1> QED
  BY <1>1, <1>2, <1>3, StackIs

LEMMA HandleFacts ==
    ASSUME IInv, NEW h \in Handles, usb[h].ref > 0
    PROVE  /\ usb[h] \in UsbType /\ usb[h].dev \in Devs /\ usb[h].sel \in Indexes /\ usb[h].ref \in Nat
           /\ h \in Users(usb, usb[h].dev)
           /\ h \notin lost /\ ~reconfigured => usb[h].sel \in DOMAIN dev[usb[h].dev].stack
<1>1. usb[h] \in UsbType
  BY DEF IInv, PoolTypes
<1>2. usb[h].dev \in Devs
  BY DEF IInv, HandleCounts
<1>3. h \notin lost /\ ~reconfigured => usb[h].sel \in DOMAIN dev[usb[h].dev].stack
  BY DEF IInv, Rest, StacksOK
<1> QED
  BY <1>1, <1>2, <1>3 DEF UsbType, Users

LEMMA MineCounts ==
    ASSUME IInv, NEW h \in mine \cup lost
    PROVE  h \in Handles /\ usb[h].ref > 0 /\ (h \in mine => h \notin lost)
<1>1. h \in Handles /\ (h \in mine => h \notin lost)
  BY DEF IInv, OtherTypes
<1>2. usb[h].ref = Cardinality(CallsTo(call, h)) + 1
  BY <1>1 DEF IInv, HandleCounts
<1> QED
  BY <1>1, <1>2, CallsFinite

LEMMA BeginOK ==
    ASSUME ConfigAlone, IInv, NEW t \in Threads, NEW h \in mine, Begin(t, h)
    PROVE  IInv'
<1> DEFINE d == usb[h].dev
           x == dev[d]
<1>1. /\ h \in Handles /\ h \notin lost /\ d \in Devs /\ usb[h].sel \in Indexes
      /\ ~reconfigured => usb[h].sel \in DOMAIN x.stack
  BY MineCounts, HandleFacts
<1>2. /\ DOMAIN x.stack \subseteq Indexes
      /\ \A i \in DOMAIN x.stack : x.stack[i] \in Numbers /\ x.shared[i].id = x.stack[i]
  BY <1>1, StackFacts
<1>3. Found(h) = DOMAIN x.stack
  BY DEF Found
<1>4. 1 \in Indexes /\ Targets \subseteq Nat /\ Alts \subseteq Nat
  BY ConfigFacts
<1> HIDE DEF d, x
<1>5. ASSUME NEW op, NEW at, NEW i, NEW n, NEW v, Enter(t, h, op, at, i, n, v),
             op \in {"clone", "associated", "select", "claim", "release", "set", "get", "config"},
             at \in {"make", "ask", "note", "configure"}, i \in Indexes, n \in Nat, v \in Nat,
             CallKind([op |-> op, at |-> at, h |-> h, i |-> i, n |-> n, v |-> v]),
             CallOn([op |-> op, at |-> at, h |-> h, i |-> i, n |-> n, v |-> v], x, d),
             op \in {"claim", "release"} => Undisturbed(d, n, {"claim", "release"}),
             op \in {"set", "get"} => Undisturbed(d, n, {"set", "get"})
      PROVE  IInv'
  <2>1. [op |-> op, at |-> at, h |-> h, i |-> i, n |-> n, v |-> v] \in CallType
    BY <1>1, <1>5 DEF CallType, Labels
  <2> QED
    BY <1>1, <1>5, <2>1, EnterOK DEF d, x
<1>6. CASE BeginClone(t, h)
  <2>1. Enter(t, h, "clone", "make", 1, 0, 0)
    BY <1>6 DEF BeginClone
  <2>2. CallKind([op |-> "clone", at |-> "make", h |-> h, i |-> 1, n |-> 0, v |-> 0])
    BY <1>1 DEF CallKind, Rebuilds
  <2>3. CallOn([op |-> "clone", at |-> "make", h |-> h, i |-> 1, n |-> 0, v |-> 0], x, d)
    BY DEF CallOn, Rebuilds
  <2> QED
    BY <1>4, <1>5, <2>1, <2>2, <2>3
<1>7. ASSUME NEW k \in Indexes, BeginAssociated(t, h, k - 1)
      PROVE  IInv'
  <2> DEFINE i == usb[h].sel + 1 + (k - 1)
  <2>1. Enter(t, h, "associated", "make", i, 0, 0) /\ i \in DOMAIN x.stack
    BY <1>3, <1>7 DEF BeginAssociated
  <2> HIDE DEF i
  <2>2. CallKind([op |-> "associated", at |-> "make", h |-> h, i |-> i, n |-> 0, v |-> 0])
    BY <1>1 DEF CallKind, Rebuilds
  <2>3. CallOn([op |-> "associated", at |-> "make", h |-> h, i |-> i, n |-> 0, v |-> 0], x, d)
    BY <2>1 DEF CallOn, Rebuilds
  <2> QED
    BY <1>2, <1>5, <2>1, <2>2, <2>3
<1>8. ASSUME NEW i \in Indexes, BeginSelect(t, h, i)
      PROVE  IInv'
  <2>1. Enter(t, h, "select", "note", i, 0, 0) /\ i \in DOMAIN x.stack
    BY <1>3, <1>8 DEF BeginSelect
  <2>2. CallKind([op |-> "select", at |-> "note", h |-> h, i |-> i, n |-> 0, v |-> 0])
    BY <1>1 DEF CallKind, Rebuilds
  <2>3. CallOn([op |-> "select", at |-> "note", h |-> h, i |-> i, n |-> 0, v |-> 0], x, d)
    BY <2>1 DEF CallOn, Rebuilds
  <2> QED
    BY <1>5, <1>8, <2>1, <2>2, <2>3
<1>9. ASSUME NEW i \in Indexes, NEW op \in {"claim", "release"}, BeginClaim(t, h, i, op)
      PROVE  IInv'
  <2> DEFINE n == x.stack[i]
  <2>1. /\ Enter(t, h, op, "ask", i, n, 0) /\ i \in DOMAIN x.stack /\ n \in Targets
        /\ Undisturbed(d, n, {"claim", "release"})
    BY <1>3, <1>9 DEF BeginClaim, d, x
  <2>2. x.stack[i] = n
    OBVIOUS
  <2> HIDE DEF n
  <2>3. CallKind([op |-> op, at |-> "ask", h |-> h, i |-> i, n |-> n, v |-> 0])
    BY <1>1, <1>9, <2>1 DEF CallKind, Rebuilds
  <2>4. CallOn([op |-> op, at |-> "ask", h |-> h, i |-> i, n |-> n, v |-> 0], x, d)
    BY <1>9, <2>1, <2>2 DEF CallOn, Rebuilds
  <2>5. op \notin {"set", "get"}
    BY <1>9
  <2> QED
    BY <1>4, <1>5, <1>9, <2>1, <2>3, <2>4, <2>5
<1>10. ASSUME NEW i \in Indexes, NEW op \in {"set", "get"}, NEW v \in Alts, BeginAlt(t, h, i, op, v)
       PROVE  IInv'
  <2> DEFINE n == x.shared[i].id
  <2>1. /\ Enter(t, h, op, "ask", i, n, v) /\ n \in Targets
        /\ Undisturbed(d, n, {"set", "get"})
    BY <1>10 DEF BeginAlt, d, x
  <2>2. x.shared[i].id = n
    OBVIOUS
  <2> HIDE DEF n
  <2>3. CallKind([op |-> op, at |-> "ask", h |-> h, i |-> i, n |-> n, v |-> v])
    BY <1>1, <1>10, <2>1 DEF CallKind, Rebuilds
  <2>4. CallOn([op |-> op, at |-> "ask", h |-> h, i |-> i, n |-> n, v |-> v], x, d)
    BY <1>10, <2>1, <2>2 DEF CallOn, Rebuilds
  <2>5. op \notin {"claim", "release"}
    BY <1>10
  <2> QED
    BY <1>4, <1>5, <1>10, <2>1, <2>3, <2>4, <2>5
<1>11. CASE BeginConfig(t, h)
  <2>1. Enter(t, h, "config", "configure", 1, 0, 0)
    BY <1>11 DEF BeginConfig
  <2>2. CallKind([op |-> "config", at |-> "configure", h |-> h, i |-> 1, n |-> 0, v |-> 0])
    BY <1>1 DEF CallKind, Rebuilds
  <2>3. CallOn([op |-> "config", at |-> "configure", h |-> h, i |-> 1, n |-> 0, v |-> 0], x, d)
    <3>1. x.count \in Counts
      BY <1>1, <1>11 DEF BeginConfig, IInv, Rest, StacksOK, x
    <3> QED
      BY <3>1 DEF CallOn, Rebuilds
  <2> QED
    BY <1>4, <1>5, <2>1, <2>2, <2>3
<1>12. 0 \in Alts
  BY ConfigFacts
<1> QED
  BY <1>6, <1>7, <1>8, <1>9, <1>10, <1>11, <1>12 DEF Begin

-----------------------------------------------------------------------------
(***************************************************************************)
(* UsbStack_Init.                                                          *)
(***************************************************************************)

LEMMA WithStackIs ==
    ASSUME NEW r \in DevType, r.count \in Counts, NEW c \in Configs,
           NEW y, y = WithStack(r, c)
    PROVE  /\ y \in DevType /\ y.ref = r.ref /\ y.stack = Numbered(r.count, c) /\ y.count = r.count + Len(c)
           /\ \A i \in DOMAIN y.stack : y.shared[i].id = y.stack[i]
           /\ \A i \in Indexes : y.shared[i].claimed = r.shared[i].claimed /\ y.shared[i].alt = r.shared[i].alt
<1> SUFFICES ASSUME NEW s, s = Numbered(r.count, c)
             PROVE  /\ y \in DevType /\ y.ref = r.ref /\ y.stack = s /\ y.count = r.count + Len(c)
                    /\ \A i \in DOMAIN s : y.shared[i].id = s[i]
                    /\ \A i \in Indexes : y.shared[i].claimed = r.shared[i].claimed /\ y.shared[i].alt = r.shared[i].alt
  OBVIOUS
<1> DEFINE q(i) == IF i \in DOMAIN s THEN [r.shared[i] EXCEPT !.id = s[i]] ELSE r.shared[i]
           x == [i \in Indexes |-> q(i)]
<1>1. /\ r.shared \in [Indexes -> SharedType] /\ r.ref \in Nat /\ r.count \in Nat /\ r.count + Len(c) \in Nat
      /\ s \in Stacks /\ DOMAIN s \subseteq Indexes /\ \A i \in DOMAIN s : s[i] \in Nat
  <2>1. s \in Stacks /\ DOMAIN s \subseteq Indexes /\ \A i \in DOMAIN s : s[i] \in Numbers
    BY NumberedIs
  <2>2. Len(c) \in Nat /\ Numbers \subseteq Nat /\ Counts \subseteq Nat
    BY ConfigFacts
  <2>3. r.shared \in [Indexes -> SharedType] /\ r.ref \in Nat
    BY DEF DevType
  <2>4. r.count \in Nat
    BY ONLY <2>2, r.count \in Counts
  <2>5. r.count + Len(c) \in Nat
    BY ONLY <2>2, <2>4
  <2> QED
    BY ONLY <2>1, <2>2, <2>3, <2>4, <2>5
<1>2. y = [r EXCEPT !.stack = s, !.count = r.count + Len(c), !.shared = x]
  BY DEF WithStack
<1>3. ASSUME NEW i \in Indexes
      PROVE  /\ q(i) \in SharedType /\ (i \in DOMAIN s => q(i).id = s[i])
             /\ q(i).claimed = r.shared[i].claimed /\ q(i).alt = r.shared[i].alt
  <2>1. r.shared[i] \in SharedType /\ (i \in DOMAIN s => s[i] \in Nat)
    BY <1>1
  <2> QED
    BY <2>1 DEF SharedType
<1> HIDE DEF q
<1>4. x \in [Indexes -> SharedType] /\ \A i \in Indexes : x[i] = q(i)
  BY <1>3
<1> HIDE DEF x
<1>5. y \in DevType /\ y.ref = r.ref /\ y.stack = s /\ y.count = r.count + Len(c) /\ y.shared = x
  <2>1. /\ y.ref = r.ref /\ y.stack = s /\ y.count = r.count + Len(c) /\ y.shared = x
        /\ y = [ref |-> r.ref, stack |-> s, count |-> r.count + Len(c), shared |-> x]
    BY ONLY r \in DevType, <1>2 DEF DevType
  <2> QED
    BY ONLY <1>1, <1>4, <2>1 DEF DevType
<1> QED
  BY ONLY <1>1, <1>3, <1>4, <1>5

LEMMA CallFacts ==
    ASSUME IInv, NEW t \in InCall(call)
    PROVE  /\ t \in Threads /\ call[t] \in CallType /\ call[t].h \in Handles /\ call[t].h \notin lost
           /\ usb[call[t].h].ref > 0 /\ On(usb, call, t) \in Devs /\ call[t].h \in Users(usb, On(usb, call, t))
           /\ CallKind(call[t]) /\ CallOn(call[t], dev[On(usb, call, t)], On(usb, call, t))
<1>1. t \in Threads /\ call[t] \in CallType
  BY DEF IInv, PoolTypes, InCall
<1>2. /\ CallKind(call[t]) /\ usb[call[t].h].ref > 0 /\ call[t].h \notin lost
      /\ CallOn(call[t], dev[On(usb, call, t)], On(usb, call, t))
  BY DEF IInv, Rest, CallsOK
<1>3. call[t].h \in Handles
  BY <1>2 DEF CallKind
<1> QED
  BY <1>1, <1>2, <1>3, HandleFacts DEF On

\* A device file that is opened: a slot nobody uses has no calls and no claims.
LEMMA OpenOK ==
    ASSUME IInv, NEW h \in Handles, NEW d \in Devs, usb[h].ref = 0, Users(usb, d) = {},
           NEW x \in DevType, x.ref = 1, x.stack = Numbered(0, active) \/ x.stack = dev[d].stack,
           x.count \in Counts \/ x.count = dev[d].count,
           \A i \in DOMAIN x.stack : x.shared[i].id = x.stack[i],
           \A i \in DOMAIN x.stack : x.shared[i].claimed = FALSE \/ (x.stack = dev[d].stack /\ x.shared = dev[d].shared),
           usb' = [usb EXCEPT ![h] = [ref |-> 1, dev |-> d, sel |-> 1]],
           dev' = [dev EXCEPT ![d] = x],
           \/ mine' = mine \cup {h} /\ lost' = lost /\ x.stack = Numbered(0, active)
           \/ lost' = lost \cup {h} /\ mine' = mine,
           UNCHANGED <<driverVars, call, known, reconfigured>>
    PROVE  IInv'
<1>1. /\ usb \in [Handles -> UsbType] /\ dev \in [Devs -> DevType] /\ call' = call
      /\ call \in [Threads -> CallType] /\ active' = active /\ reconfigured' = reconfigured
      /\ alt' = alt /\ claimedBy' = claimedBy /\ known' = known /\ driver' = driver
  BY DEF IInv, PoolTypes, driverVars
<1> DEFINE y == [ref |-> 1, dev |-> d, sel |-> 1]
<1>2. y \in UsbType /\ y.ref = 1 /\ y.dev = d /\ y.sel = 1
  BY ConfigFacts DEF UsbType
<1> HIDE DEF y
<1>3. /\ usb' \in [Handles -> UsbType] /\ usb'[h].ref = 1 /\ usb'[h].dev = d /\ usb'[h].sel = 1
      /\ \A g \in Handles : g # h => usb'[g] = usb[g]
  BY <1>1, <1>2 DEF y
<1>4. dev' \in [Devs -> DevType] /\ dev'[d] = x /\ \A e \in Devs : e # d => dev'[e] = dev[e]
  BY <1>1
<1>5. ASSUME NEW t \in InCall(call)
      PROVE  /\ call[t].h # h /\ On(usb', call, t) = On(usb, call, t) /\ On(usb, call, t) \in Devs \ {d}
             /\ usb'[call[t].h] = usb[call[t].h]
  <2>1. call[t].h # h /\ On(usb, call, t) # d
    BY CallFacts
  <2> QED
    BY <1>3, <2>1, CallFacts DEF On
<1>6. dev[d].ref = 0
  <2>1. dev[d].ref = Cardinality(Users(usb, d))
    BY <1>5 DEF IInv, Rest, DeviceCounts
  <2> QED
    BY <2>1, UsersFinite
<1>7. /\ \A e \in Devs : e # d => Users(usb', e) = Users(usb, e)
      /\ Users(usb', d) = Users(usb, d) \cup {h} /\ h \notin Users(usb, d)
  BY <1>3 DEF Users
<1>8. Cardinality(Users(usb', d)) = 1
  <2>1. Cardinality(Users(usb, d)) = 0
    BY UsersFinite
  <2>2. Cardinality(Users(usb, d) \cup {h}) = Cardinality(Users(usb, d)) + 1
    BY ONLY <1>7, UsersFinite
  <2> QED
    BY ONLY <1>7, <2>1, <2>2
<1>9. h \notin mine \cup lost
  BY MineCounts
<1>10. OtherTypes'
  BY <1>1, <1>9 DEF IInv, OtherTypes
<1>11. HandleCounts(usb, call, mine \cup lost)'
  <2>1. CallsTo(call, h) = {}
    BY <1>5 DEF CallsTo
  <2>2. Cardinality(CallsTo(call, h)) = 0
    BY <2>1, FS_EmptySet
  <2>3. mine' \cup lost' = mine \cup lost \cup {h}
    OBVIOUS
  <2> QED
    BY <1>1, <1>3, <2>2, <2>3 DEF IInv, HandleCounts
<1>12. DeviceCounts(usb, dev, call)'
  <2>1. ASSUME NEW e \in Devs
        PROVE  /\ (\A s \in InCall(call) : On(usb', call, s) = e => call[s].op # "config")
                      => dev'[e].ref = Cardinality(Users(usb', e))
               /\ \A s \in InCall(call) : On(usb', call, s) = e /\ call[s].op = "config"
                      => dev'[e].ref = Cardinality(Users(usb', e)) - call[s].v
    <3>1. CASE e = d
      BY <1>4, <1>5, <1>8, <3>1
    <3>2. CASE e # d
      <4>1. /\ (\A s \in InCall(call) : On(usb, call, s) = e => call[s].op # "config")
                   => dev[e].ref = Cardinality(Users(usb, e))
            /\ \A s \in InCall(call) : On(usb, call, s) = e /\ call[s].op = "config"
                   => dev[e].ref = Cardinality(Users(usb, e)) - call[s].v
        BY DEF IInv, Rest, DeviceCounts
      <4>2. dev'[e] = dev[e] /\ Users(usb', e) = Users(usb, e)
        BY <1>4, <1>7, <3>2
      <4> QED
        BY ONLY <1>5, <4>1, <4>2
    <3> QED
      BY <3>1, <3>2
  <2> QED
    BY ONLY <1>1, <2>1 DEF DeviceCounts
<1>13. CallsOK(usb, dev, call)'
  <2>1. ASSUME NEW t \in InCall(call)
        PROVE  /\ CallKind(call[t]) /\ call[t].h \notin lost' /\ usb'[call[t].h].ref > 0
               /\ CallOn(call[t], dev'[On(usb', call, t)], On(usb', call, t))
    BY <1>4, <1>5, CallFacts
  <2>2. \A r, z, e : CallOn(r, z, e) => CallOn(r, z, e)'
    BY <1>1 DEF CallOn
  <2>3. ASSUME NEW t \in InCall(call')
        PROVE  CallOn(call[t], dev[On(usb, call, t)], On(usb, call, t))'
    BY <1>1, <2>1, <2>2
  <2> QED
    BY <1>1, <2>1, <2>3 DEF CallsOK
<1>14. Apart(usb, call)'
  BY <1>1, <1>5 DEF IInv, Rest, Apart
<1>15. StacksOK(usb, dev)'
  <2>1. \A e \in Devs : \A i \in DOMAIN dev'[e].stack : dev'[e].shared[i].id = dev'[e].stack[i]
    BY <1>4, StackFacts
  <2>2. ~reconfigured =>
            /\ active = FirstConfig
            /\ \A e \in Devs : dev'[e].stack \in {<< >>, Numbered(0, FirstConfig)} /\ dev'[e].count \in Counts
    BY <1>4 DEF IInv, Rest, StacksOK
  <2>3. ASSUME NEW g \in Handles \ lost', usb'[g].ref > 0, ~reconfigured
        PROVE  usb'[g].sel \in DOMAIN dev'[usb'[g].dev].stack
    <3>1. CASE g = h
      <4>1. x.stack = Numbered(0, active) /\ active \in Configs
        BY <2>3, <3>1 DEF IInv, OtherTypes
      <4>2. 1 \in DOMAIN x.stack
        BY <4>1, NumberedIs, ConfigFacts
      <4> QED
        BY <1>3, <1>4, <3>1, <4>2
    <3>2. CASE g # h
      <4>1. g \in Handles \ lost /\ usb'[g] = usb[g] /\ usb[g].ref > 0
        BY <1>3, <2>3, <3>2
      <4>2. usb[g].dev \in Devs /\ g \in Users(usb, usb[g].dev) /\ usb[g].sel \in DOMAIN dev[usb[g].dev].stack
        BY <2>3, <4>1, HandleFacts
      <4> QED
        BY <1>4, <4>1, <4>2
    <3> QED
      BY <3>1, <3>2
  <2> QED
    BY <1>1, <2>1, <2>2, <2>3 DEF StacksOK
<1>16. \A n \in Numbers : claimedBy[n] # d
  <2>1. d # NoDev
    BY ConfigAssumption
  <2> QED
    BY <2>1 DEF IInv, Rest, ClaimsOK
<1>17. ClaimsOK(usb, dev, call)'
  <2>1. ASSUME NEW e \in Devs, ~reconfigured, NEW i \in DOMAIN dev'[e].stack
        PROVE  \/ \E t \in InCall(call) : /\ On(usb', call, t) = e /\ call[t].op \in {"claim", "release"}
                                          /\ call[t].i = i
               \/ dev'[e].shared[i].claimed = (claimedBy[dev'[e].stack[i]] = e)
    <3>1. CASE e = d /\ x.shared[i].claimed = FALSE
      <4>1. x.stack[i] \in Numbers
        <5>1. x.stack \in Stacks
          BY DEF DevType
        <5> QED
          BY <1>4, <2>1, <3>1, <5>1, StackIs
      <4>2. (claimedBy[x.stack[i]] = d) = FALSE
        BY <1>16, <4>1
      <4> QED
        BY <1>4, <3>1, <4>2
    <3>2. CASE e = d /\ x.stack = dev[d].stack /\ x.shared = dev[d].shared
      BY <1>4, <1>5, <2>1, <3>2 DEF IInv, Rest, ClaimsOK
    <3>3. CASE e # d
      <4>1. dev'[e] = dev[e] /\ i \in DOMAIN dev[e].stack
        BY <1>4, <2>1, <3>3
      <4>2. \/ \E t \in InCall(call) : /\ On(usb, call, t) = e /\ call[t].op \in {"claim", "release"}
                                       /\ call[t].i = i
            \/ dev[e].shared[i].claimed = (claimedBy[dev[e].stack[i]] = e)
        BY <2>1, <4>1 DEF IInv, Rest, ClaimsOK
      <4> QED
        BY ONLY <1>5, <4>1, <4>2
    <3> QED
      BY <1>4, <2>1, <3>1, <3>2, <3>3
  <2>2. ASSUME NEW n \in Numbers, claimedBy[n] # NoDev
        PROVE  Users(usb', claimedBy[n]) # {}
    <3>1. Users(usb, claimedBy[n]) # {}
      BY <2>2 DEF IInv, Rest, ClaimsOK
    <3>2. claimedBy[n] \in Devs /\ claimedBy[n] # d
      BY <1>16, <2>2 DEF IInv, OtherTypes
    <3> QED
      BY ONLY <1>7, <3>1, <3>2
  <2> QED
    BY ONLY <1>1, <2>1, <2>2 DEF ClaimsOK
<1>18. AltsOK(usb, dev, call)'
  <2>1. \A n \in Targets : d \notin known[n]
    BY <1>6 DEF IInv, Rest, AltsOK
  <2>2. ASSUME NEW n \in Targets, NEW e \in Devs, e \in known[n]
        PROVE  dev'[e].ref > 0
    BY <1>4, <2>1, <2>2 DEF IInv, Rest, AltsOK
  <2>3. ASSUME NEW e \in Devs, NEW i \in DOMAIN dev'[e].stack,
               dev'[e].stack[i] \in Targets, e \in known[dev'[e].stack[i]]
        PROVE  \/ \E t \in InCall(call) : /\ On(usb', call, t) = e /\ call[t].op \in {"set", "get"}
                                          /\ call[t].at = "note" /\ call[t].i = i
               \/ dev'[e].shared[i].alt = alt[dev'[e].stack[i]]
    <3>1. e # d
      BY <2>1, <2>3
    <3>2. dev'[e] = dev[e] /\ i \in DOMAIN dev[e].stack
      BY <1>4, <2>3, <3>1
    <3>3. \/ \E t \in InCall(call) : /\ On(usb, call, t) = e /\ call[t].op \in {"set", "get"}
                                     /\ call[t].at = "note" /\ call[t].i = i
          \/ dev[e].shared[i].alt = alt[dev[e].stack[i]]
      BY <2>3, <3>2 DEF IInv, Rest, AltsOK
    <3> QED
      BY ONLY <1>5, <3>2, <3>3
  <2> QED
    BY ONLY <1>1, <2>2, <2>3 DEF AltsOK
<1>19. PoolTypes(usb, dev, call)'
  BY <1>1, <1>3, <1>4 DEF PoolTypes
<1> QED
  BY <1>10, <1>11, <1>12, <1>13, <1>14, <1>15, <1>17, <1>18, <1>19 DEF IInv, Rest

LEMMA InitHandleOK ==
    ASSUME IInv, NEW t \in Threads, NEW h \in Handles, NEW d \in Devs,
           InitHandle(t, h, d) \/ InitNoMemory(t, h, d)
    PROVE  IInv'
<1>1. usb[h].ref = 0 /\ Users(usb, d) = {}
  BY DEF InitHandle, InitNoMemory, MayOpen, FreeSlot, UsersOf, Users
<1>2. CASE InitHandle(t, h, d)
  <2> DEFINE f == [FreeDev EXCEPT !.ref = 1]
             x == WithStack(f, active)
  <2>1. f \in DevType /\ f.ref = 1 /\ f.count = 0 /\ f.shared = FreeDev.shared
    BY FreeTypes DEF DevType
  <2> HIDE DEF f
  <2>2. active \in Configs /\ 0 \in Counts /\ Counts \subseteq Nat /\ Len(active) \in Nat /\ Len(active) \in Counts
    BY ConfigFacts DEF IInv, OtherTypes
  <2>3. /\ x \in DevType /\ x.ref = 1 /\ x.stack = Numbered(0, active) /\ x.count = Len(active)
        /\ \A i \in DOMAIN x.stack : x.shared[i].id = x.stack[i]
        /\ \A i \in Indexes : x.shared[i].claimed = FreeDev.shared[i].claimed
    BY <2>1, <2>2, WithStackIs
  <2>8. x.stack \in Stacks /\ DOMAIN x.stack \subseteq Indexes
    BY <2>3, StackIs DEF DevType
  <2>4. \A i \in DOMAIN x.stack : x.shared[i].claimed = FALSE
    <3>1. \A i \in Indexes : FreeDev.shared[i].claimed = FALSE
      BY FreeTypes DEF NoShared
    <3> QED
      BY <2>3, <2>8, <3>1
  <2>5. dev' = [dev EXCEPT ![d] = x]
    BY <1>2 DEF InitHandle, f
  <2> HIDE DEF x
  <2>6. /\ usb' = [usb EXCEPT ![h] = [ref |-> 1, dev |-> d, sel |-> 1]]
        /\ mine' = mine \cup {h} /\ lost' = lost /\ UNCHANGED <<driverVars, call, known, reconfigured>>
    BY <1>2 DEF InitHandle
  <2>7. IInv /\ h \in Handles /\ d \in Devs
    OBVIOUS
  <2> QED
    BY ONLY <1>1, <2>2, <2>3, <2>4, <2>5, <2>6, <2>7, OpenOK
<1>3. CASE InitNoMemory(t, h, d)
  <2> DEFINE x == [dev[d] EXCEPT !.ref = 1]
  <2>1. dev[d] \in DevType /\ \A i \in DOMAIN dev[d].stack : dev[d].shared[i].id = dev[d].stack[i]
    BY StackFacts
  <2>2. x \in DevType /\ x.ref = 1 /\ x.stack = dev[d].stack /\ x.count = dev[d].count /\ x.shared = dev[d].shared
    BY <2>1 DEF DevType
  <2>3. dev' = [dev EXCEPT ![d] = x]
    BY <1>3 DEF InitNoMemory
  <2> HIDE DEF x
  <2>4. /\ usb' = [usb EXCEPT ![h] = [ref |-> 1, dev |-> d, sel |-> 1]]
        /\ lost' = lost \cup {h} /\ mine' = mine /\ UNCHANGED <<driverVars, call, known, reconfigured>>
    BY <1>3 DEF InitNoMemory
  <2>5. IInv /\ h \in Handles /\ d \in Devs
    OBVIOUS
  <2>6. /\ \A i \in DOMAIN x.stack : x.shared[i].id = x.stack[i]
        /\ x.stack = dev[d].stack /\ x.count = dev[d].count /\ x.shared = dev[d].shared
    BY <2>1, <2>2
  <2> QED
    BY ONLY <1>1, <2>2, <2>3, <2>4, <2>5, <2>6, OpenOK
<1> QED
  BY <1>2, <1>3

-----------------------------------------------------------------------------
(***************************************************************************)
(* Calls that leave.                                                       *)
(***************************************************************************)

\* The calls c that remain when t leaves: its reference is all that is to be
\* given up.
Remain(t, c) ==
    /\ c \in [Threads -> CallType] /\ InCall(c) = InCall(call) \ {t}
    /\ \A s \in InCall(c) : c[s] = call[s] /\ \A u : On(u, c, s) = On(u, call, s)
    /\ \A g \in Handles :
           /\ usb[g].ref = Cardinality(CallsTo(c, g)) + (IF g \in mine \cup lost THEN 1 ELSE 0)
                           + (IF g = call[t].h THEN 1 ELSE 0)
           /\ usb[g].ref > 0 => usb[g].dev \in Devs
    /\ CallsOK(usb, dev, c) /\ Apart(usb, c)
    /\ \A s \in InCall(c) : On(usb, c, s) = usb[call[t].h].dev => c[s].op # "config"

LEMMA Without ==
    ASSUME IInv, NEW t \in InCall(call), NEW c, c = [call EXCEPT ![t] = Idle]
    PROVE  Remain(t, c)
<1>1. call \in [Threads -> CallType] /\ t \in Threads
  BY DEF IInv, PoolTypes, InCall
<1>2. c \in [Threads -> CallType] /\ c[t].at = "idle" /\ \A s \in Threads : s # t => c[s] = call[s]
  BY <1>1, FreeTypes
<1>3. InCall(c) = InCall(call) \ {t}
  BY <1>2 DEF InCall
<1>4. \A s \in InCall(c) : c[s] = call[s] /\ \A u : On(u, c, s) = On(u, call, s)
  BY <1>2, <1>3 DEF On, InCall
<1>5. ASSUME NEW g \in Handles
      PROVE  /\ usb[g].ref = Cardinality(CallsTo(c, g)) + (IF g \in mine \cup lost THEN 1 ELSE 0)
                             + (IF g = call[t].h THEN 1 ELSE 0)
             /\ usb[g].ref > 0 => usb[g].dev \in Devs
  <2>1. /\ usb[g].ref = Cardinality(CallsTo(call, g)) + (IF g \in mine \cup lost THEN 1 ELSE 0)
        /\ usb[g].ref > 0 => usb[g].dev \in Devs
    BY DEF IInv, HandleCounts
  <2>2. CASE g = call[t].h
    <3>1. t \in CallsTo(call, g) /\ CallsTo(c, g) = CallsTo(call, g) \ {t}
      BY <1>3, <1>4, <2>2 DEF CallsTo
    <3>2. Cardinality(CallsTo(c, g)) = Cardinality(CallsTo(call, g)) - 1 /\ Cardinality(CallsTo(call, g)) \in Nat
      BY <3>1, CallsFinite
    <3> QED
      BY <2>1, <2>2, <3>2
  <2>3. CASE g # call[t].h
    <3>1. CallsTo(c, g) = CallsTo(call, g)
      BY <1>3, <1>4, <2>3 DEF CallsTo
    <3>2. Cardinality(CallsTo(call, g)) \in Nat
      BY CallsFinite
    <3> QED
      BY <2>1, <2>3, <3>1, <3>2
  <2> QED
    BY <2>2, <2>3
<1>6. CallsOK(usb, dev, c)
  <2>1. ASSUME NEW s \in InCall(c)
        PROVE  /\ CallKind(c[s]) /\ usb[c[s].h].ref > 0 /\ c[s].h \notin lost
               /\ CallOn(c[s], dev[On(usb, c, s)], On(usb, c, s))
    <3>1. s \in InCall(call) /\ c[s] = call[s] /\ On(usb, c, s) = On(usb, call, s)
      BY <1>3, <1>4
    <3> QED
      BY ONLY IInv, <3>1, CallFacts
  <2> QED
    BY <2>1 DEF CallsOK
<1>7. Apart(usb, c)
  <2>1. Apart(usb, call)
    BY DEF IInv, Rest
  <2>2. \A s \in InCall(c) : s \in InCall(call) /\ c[s] = call[s] /\ On(usb, c, s) = On(usb, call, s)
    BY <1>3, <1>4
  <2> QED
    BY ONLY <2>1, <2>2 DEF Apart
<1>8. ASSUME NEW s \in InCall(c), On(usb, c, s) = usb[call[t].h].dev
      PROVE  c[s].op # "config"
  <2>1. On(usb, call, s) = On(usb, call, t) /\ s # t /\ s \in InCall(call)
    BY <1>3, <1>4, <1>8 DEF On
  <2> QED
    BY <1>4, <2>1 DEF IInv, Rest, Apart
<1> QED
  BY ONLY <1>2, <1>3, <1>4, <1>5, <1>6, <1>7, <1>8 DEF Remain

LEMMA FreeOK ==
    ASSUME ConfigAlone, IInv, NEW t \in Threads, NEW h \in mine, Free(t, h)
    PROVE  IInv'
<1>1. h \in Handles /\ h \notin lost
  BY MineCounts
<1>2. \A s \in InCall(call) : On(usb, call, s) = usb[h].dev => call[s].op # "config"
  BY CallsOnIs DEF Free, MayCall
<1>3. mine' = mine \ {h} /\ call' = call /\ UNCHANGED <<driver, active, alt, lost, reconfigured>>
  BY DEF Free
<1>4. DecUsb(h, usb, dev) /\ Known(known)
  BY DEF Free
<1>5. PoolTypes(usb, dev, call) /\ OtherTypes /\ Rest(usb, dev, call)
  BY DEF IInv
<1>6. mine' \subseteq Handles /\ mine' \cap lost = {}
  BY <1>3, <1>5 DEF OtherTypes
<1> DEFINE m == mine' \cup lost
<1>7. ASSUME NEW g \in Handles
      PROVE  /\ usb[g].ref = Cardinality(CallsTo(call, g)) + (IF g \in m THEN 1 ELSE 0)
                             + (IF g = h THEN 1 ELSE 0)
             /\ usb[g].ref > 0 => usb[g].dev \in Devs
  <2>1. /\ usb[g].ref = Cardinality(CallsTo(call, g)) + (IF g \in mine \cup lost THEN 1 ELSE 0)
        /\ usb[g].ref > 0 => usb[g].dev \in Devs
    BY DEF IInv, HandleCounts
  <2>2. Cardinality(CallsTo(call, g)) \in Nat
    BY CallsFinite
  <2> QED
    BY <1>1, <1>3, <2>1, <2>2
<1> HIDE DEF m
<1>8. m = mine' \cup lost
  BY DEF m
<1> QED
  BY ONLY <1>1, <1>2, <1>3, <1>4, <1>5, <1>6, <1>7, <1>8, DecOK

\* A call that noted nothing and, if it sets the configuration, took nothing.
LEMMA LeaveOK ==
    ASSUME IInv, NEW t \in InCall(call), Leave(t, usb, dev), Known(known),
           UNCHANGED <<driver, active, alt, mine, lost, reconfigured>>,
           call[t].op \notin {"claim", "release"}, call[t].at # "note",
           call[t].op = "config" => call[t].v = 0
    PROVE  IInv'
<1> DEFINE h == call[t].h
           c == [call EXCEPT ![t] = Idle]
           m == mine' \cup lost
<1>1. h \in Handles
  BY CallFacts
<1>2. /\ c \in [Threads -> CallType] /\ InCall(c) = InCall(call) \ {t}
      /\ \A s \in InCall(c) : c[s] = call[s] /\ \A u : On(u, c, s) = On(u, call, s)
      /\ \A g \in Handles :
             /\ usb[g].ref = Cardinality(CallsTo(c, g)) + (IF g \in mine \cup lost THEN 1 ELSE 0)
                             + (IF g = call[t].h THEN 1 ELSE 0)
             /\ usb[g].ref > 0 => usb[g].dev \in Devs
      /\ CallsOK(usb, dev, c) /\ Apart(usb, c)
      /\ \A s \in InCall(c) : On(usb, c, s) = usb[call[t].h].dev => c[s].op # "config"
  BY Without DEF Remain
<1>3. call' = c
  BY DEF Leave
<1> HIDE DEF c
<1>4. DeviceCounts(usb, dev, c)
  <2>1. ASSUME NEW e \in Devs
        PROVE  /\ (\A s \in InCall(c) : On(usb, c, s) = e => c[s].op # "config")
                      => dev[e].ref = Cardinality(Users(usb, e))
               /\ \A s \in InCall(c) : On(usb, c, s) = e /\ c[s].op = "config"
                      => dev[e].ref = Cardinality(Users(usb, e)) - c[s].v
    <3>1. /\ (\A s \in InCall(call) : On(usb, call, s) = e => call[s].op # "config")
                 => dev[e].ref = Cardinality(Users(usb, e))
          /\ \A s \in InCall(call) : On(usb, call, s) = e /\ call[s].op = "config"
                 => dev[e].ref = Cardinality(Users(usb, e)) - call[s].v
      BY DEF IInv, Rest, DeviceCounts
    <3>2. Cardinality(Users(usb, e)) \in Nat
      BY UsersFinite
    <3> QED
      BY <1>2, <3>1, <3>2
  <2> QED
    BY <2>1 DEF DeviceCounts
<1>5. ClaimsOK(usb, dev, c)
  BY <1>2 DEF IInv, Rest, ClaimsOK
<1>6. AltsOK(usb, dev, c)
  BY <1>2 DEF IInv, Rest, AltsOK
<1>7. Rest(usb, dev, c)
  BY <1>2, <1>4, <1>5, <1>6 DEF IInv, Rest
<1>8. PoolTypes(usb, dev, c) /\ OtherTypes /\ mine' \subseteq Handles /\ mine' \cap lost = {}
  BY <1>2 DEF IInv, PoolTypes, OtherTypes
<1>9. m = mine \cup lost /\ m = mine' \cup lost
  OBVIOUS
<1>10. DecUsb(h, usb, dev) /\ Known(known) /\ UNCHANGED <<driver, active, alt, lost, reconfigured>>
  BY DEF Leave
<1>11. \A s \in InCall(c) : On(usb, c, s) = usb[h].dev => c[s].op # "config"
  BY <1>2
<1>12. \A g \in Handles :
             /\ usb[g].ref = Cardinality(CallsTo(c, g)) + (IF g \in m THEN 1 ELSE 0)
                             + (IF g = h THEN 1 ELSE 0)
             /\ usb[g].ref > 0 => usb[g].dev \in Devs
  BY <1>2
<1>13. c = call'
  BY <1>3
<1> HIDE DEF h, m
<1> QED
  BY ONLY <1>1, <1>7, <1>8, <1>9, <1>10, <1>11, <1>12, <1>13, DecOK

LEMMA FailsOK ==
    ASSUME IInv, NEW t \in Threads, MakeCloneFails(t) \/ AskAltFails(t) \/ ConfigureFails(t)
    PROVE  IInv'
<1>1. t \in InCall(call)
  BY DEF MakeCloneFails, AskAltFails, ConfigureFails, InCall
<1>2. CallKind(call[t])
  BY <1>1, CallFacts
<1>3. /\ Leave(t, usb, dev) /\ Known(known)
      /\ UNCHANGED <<driver, active, alt, mine, lost, reconfigured>>
  BY DEF MakeCloneFails, AskAltFails, ConfigureFails
<1>4. /\ call[t].op \notin {"claim", "release"} /\ call[t].at # "note"
      /\ call[t].op = "config" => call[t].v = 0
  BY <1>2 DEF MakeCloneFails, AskAltFails, ConfigureFails, CallKind, Rebuilds
<1> QED
  BY ONLY IInv, <1>1, <1>3, <1>4, LeaveOK

\* UsbStack_CloneHandle: the new handle is one user more of the device.
LEMMA MakeCloneOK ==
    ASSUME IInv, NEW t \in Threads, NEW new \in Handles, MakeClone(t, new)
    PROVE  IInv'
<1> DEFINE h == call[t].h
           d == On(usb, call, t)
           sel == IF call[t].op = "clone" THEN usb[h].sel ELSE call[t].i
           y == [ref |-> 1, dev |-> d, sel |-> sel]
           x == [dev[d] EXCEPT !.ref = dev[d].ref + 1]
           u == [usb EXCEPT ![new] = y]
           dv == [dev EXCEPT ![d] = x]
           c == [call EXCEPT ![t] = Idle]
           m == mine' \cup lost
<1>1. t \in InCall(call) /\ usb[new].ref = 0 /\ dev[d].ref \in Nat \ {0}
  <2>1. t \in InCall(call) /\ usb[new].ref = 0 /\ dev[d].ref >= 1
    BY CallsOnIs DEF MakeClone, InCall, FreeSlot
  <2>2. dev[d] \in DevType
    BY <2>1, CallFacts DEF IInv, PoolTypes
  <2> QED
    BY <2>1, <2>2 DEF DevType
<1>2. /\ h \in Handles /\ h \notin lost /\ usb[h].ref > 0 /\ d \in Devs /\ d = usb[h].dev
      /\ usb[h].sel \in Indexes /\ call[t].i \in Indexes /\ h # new
      /\ call[t].op \in {"clone", "associated"}
      /\ ~reconfigured => usb[h].sel \in DOMAIN dev[d].stack
      /\ call[t].op = "associated" /\ ~reconfigured => call[t].i \in DOMAIN dev[d].stack
  <2>1. /\ h \in Handles /\ h \notin lost /\ usb[h].ref > 0 /\ d \in Devs /\ d = usb[h].dev
        /\ CallKind(call[t]) /\ CallOn(call[t], dev[d], d) /\ call[t] \in CallType
    BY <1>1, CallFacts DEF On
  <2>2. call[t].op \in {"clone", "associated"}
    BY <2>1 DEF MakeClone, CallKind
  <2>3. usb[h].sel \in Indexes /\ (~reconfigured => usb[h].sel \in DOMAIN dev[d].stack)
    BY <2>1, HandleFacts
  <2>4. call[t].i \in Indexes
    BY ONLY <2>1 DEF CallType
  <2>5. call[t].op = "associated" /\ ~reconfigured => call[t].i \in DOMAIN dev[d].stack
    BY ONLY <2>1 DEF CallOn
  <2> QED
    BY ONLY <1>1, <2>1, <2>2, <2>3, <2>4, <2>5
<1>3. sel \in Indexes /\ (~reconfigured => sel \in DOMAIN dev[d].stack)
  BY <1>2
<1>4. /\ DecUsb(h, u, dv) /\ call' = c /\ mine' = mine \cup {new} /\ Known(known)
      /\ UNCHANGED <<driver, active, alt, lost, reconfigured>>
  BY CallsOnIs DEF MakeClone, Leave
<1> HIDE DEF sel
<1>5. y \in UsbType /\ y.ref = 1 /\ y.dev = d /\ y.sel = sel
  BY <1>2, <1>3 DEF UsbType
<1>6. dev[d] \in DevType /\ x \in DevType /\ x.ref = dev[d].ref + 1 /\ x.stack = dev[d].stack /\ x.count = dev[d].count /\ x.shared = dev[d].shared
  <2>1. dev[d] \in DevType
    BY <1>2, StackFacts
  <2> QED
    BY <1>1, <2>1 DEF DevType
<1> HIDE DEF y, x
<1>7. /\ u \in [Handles -> UsbType] /\ u[new] = y /\ \A g \in Handles : g # new => u[g] = usb[g]
      /\ dv \in [Devs -> DevType] /\ dv[d] = x /\ \A e \in Devs : e # d => dv[e] = dev[e]
  BY <1>2, <1>5, <1>6 DEF IInv, PoolTypes
<1> HIDE DEF u, dv
<1>8. /\ c \in [Threads -> CallType] /\ InCall(c) = InCall(call) \ {t}
      /\ \A s \in InCall(c) : c[s] = call[s] /\ On(u, c, s) = On(u, call, s) /\ On(usb, c, s) = On(usb, call, s)
      /\ \A g \in Handles :
             /\ usb[g].ref = Cardinality(CallsTo(c, g)) + (IF g \in mine \cup lost THEN 1 ELSE 0)
                             + (IF g = h THEN 1 ELSE 0)
             /\ usb[g].ref > 0 => usb[g].dev \in Devs
      /\ CallsOK(usb, dev, c) /\ Apart(usb, c)
      /\ \A s \in InCall(c) : On(usb, c, s) = usb[h].dev => c[s].op # "config"
  <2>1. call[t].h = h
    OBVIOUS
  <2>2. c = [call EXCEPT ![t] = Idle]
    OBVIOUS
  <2> HIDE DEF h, c
  <2>3. Remain(t, c)
    BY ONLY IInv, <1>1, <2>2, Without
  <2> QED
    BY ONLY <2>1, <2>3 DEF Remain
<1> HIDE DEF c
<1>9. ASSUME NEW s \in InCall(call)
      PROVE  /\ call[s].h \in Handles \ {new} /\ On(u, call, s) = On(usb, call, s) /\ On(usb, call, s) \in Devs
             /\ u[call[s].h] = usb[call[s].h]
  <2>1. call[s].h # new
    BY <1>1, CallFacts
  <2> QED
    BY ONLY IInv, <1>9, <1>7, <2>1, CallFacts DEF On
<1>10. /\ \A e \in Devs : e # d => Users(u, e) = Users(usb, e)
       /\ Users(u, d) = Users(usb, d) \cup {new} /\ new \notin Users(usb, d)
  BY <1>1, <1>5, <1>7 DEF Users
<1>11. Cardinality(Users(u, d)) = Cardinality(Users(usb, d)) + 1
  BY ONLY <1>10, UsersFinite
<1>12. \A g \in Handles :
             /\ u[g].ref = Cardinality(CallsTo(c, g)) + (IF g \in m THEN 1 ELSE 0)
                             + (IF g = h THEN 1 ELSE 0)
             /\ u[g].ref > 0 => u[g].dev \in Devs
  <2>1. new \notin mine \cup lost
    BY <1>1, MineCounts
  <2>2. m = mine \cup lost \cup {new}
    BY <1>4
  <2> HIDE DEF m
  <2>3. Cardinality(CallsTo(c, new)) = 0
    <3>1. CallsTo(c, new) = {}
      BY <1>8, <1>9 DEF CallsTo
    <3> QED
      BY ONLY <3>1, FS_EmptySet
  <2>4. ASSUME NEW g \in Handles
        PROVE  /\ u[g].ref = Cardinality(CallsTo(c, g)) + (IF g \in m THEN 1 ELSE 0)
                             + (IF g = h THEN 1 ELSE 0)
               /\ u[g].ref > 0 => u[g].dev \in Devs
    <3>1. CASE g = new
      BY ONLY <1>2, <1>5, <1>7, <2>2, <2>3, <3>1
    <3>2. CASE g # new
      BY ONLY <1>7, <1>8, <2>2, <2>4, <3>2
    <3> QED
      BY ONLY <3>1, <3>2
  <2> QED
    BY ONLY <2>4
<1>13. \A s \in InCall(c) : s \in InCall(call) /\ c[s] = call[s] /\ On(u, c, s) = On(usb, c, s)
                             /\ On(usb, c, s) = On(usb, call, s)
  BY ONLY <1>8, <1>9
<1>14. DeviceCounts(u, dv, c)
  <2>1. ASSUME NEW e \in Devs
        PROVE  /\ (\A s \in InCall(c) : On(u, c, s) = e => c[s].op # "config")
                      => dv[e].ref = Cardinality(Users(u, e))
               /\ \A s \in InCall(c) : On(u, c, s) = e /\ c[s].op = "config"
                      => dv[e].ref = Cardinality(Users(u, e)) - c[s].v
    <3>1. /\ (\A s \in InCall(call) : On(usb, call, s) = e => call[s].op # "config")
                 => dev[e].ref = Cardinality(Users(usb, e))
          /\ \A s \in InCall(call) : On(usb, call, s) = e /\ call[s].op = "config"
                 => dev[e].ref = Cardinality(Users(usb, e)) - call[s].v
      BY DEF IInv, Rest, DeviceCounts
    <3>2. CASE e = d
      <4>1. \A s \in InCall(call) : On(usb, call, s) = e => call[s].op # "config"
        BY ONLY <1>2, <1>8, <1>13, <3>2
      <4> QED
        BY ONLY <1>2, <1>6, <1>7, <1>8, <1>11, <1>13, <3>1, <3>2, <4>1
    <3>3. CASE e # d
      <4>1. dv[e] = dev[e] /\ Users(u, e) = Users(usb, e)
        BY ONLY <1>7, <1>10, <2>1, <3>3
      <4>2. (\A s \in InCall(c) : On(u, c, s) = e => c[s].op # "config")
               => \A s \in InCall(call) : On(usb, call, s) = e => call[s].op # "config"
        BY ONLY <1>2, <1>8, <1>13
      <4> QED
        BY ONLY <1>13, <3>1, <4>1, <4>2
    <3> QED
      BY ONLY <3>2, <3>3
  <2> QED
    BY ONLY <2>1 DEF DeviceCounts
<1>15. CallsOK(u, dv, c)
  <2>1. ASSUME NEW s \in InCall(c)
        PROVE  /\ CallKind(c[s]) /\ u[c[s].h].ref > 0 /\ c[s].h \notin lost
               /\ CallOn(c[s], dv[On(u, c, s)], On(u, c, s))
    <3> DEFINE e == On(usb, c, s)
               r == c[s]
    <3>1. /\ CallKind(r) /\ usb[r.h].ref > 0 /\ r.h \notin lost /\ CallOn(r, dev[e], e)
          /\ e \in Devs /\ On(u, c, s) = e /\ u[r.h] = usb[r.h]
      BY ONLY <2>1, <1>8, <1>9, <1>13 DEF CallsOK
    <3>2. e = d => r.op # "config"
      BY ONLY <1>2, <1>8, <2>1
    <3> HIDE DEF e, r
    <3>3. CallOn(r, dv[e], e)
      <4>1. dv[e].stack = dev[e].stack /\ dv[e].count = dev[e].count /\ dv[e].shared = dev[e].shared /\ (e # d => dv[e] = dev[e])
        BY ONLY <1>6, <1>7, <3>1
      <4> QED
        BY ONLY <3>1, <3>2, <4>1 DEF CallOn, CallKind, Rebuilds
    <3> QED
      BY <3>1, <3>3 DEF e, r
  <2> QED
    BY ONLY <2>1 DEF CallsOK
<1>16. Apart(u, c)
  BY ONLY <1>8, <1>13 DEF Apart
<1>17. ASSUME NEW e \in Devs
       PROVE  dv[e].stack = dev[e].stack /\ dv[e].count = dev[e].count /\ dv[e].shared = dev[e].shared
  BY ONLY <1>6, <1>7, <1>17
<1>18. StacksOK(u, dv)
  <2>1. StacksOK(usb, dev)
    BY DEF IInv, Rest
  <2>2. ASSUME NEW g \in Handles \ lost, u[g].ref > 0, ~reconfigured
        PROVE  u[g].sel \in DOMAIN dv[u[g].dev].stack
    <3>1. CASE g = new
      BY ONLY <1>2, <1>3, <1>5, <1>7, <1>17, <2>2, <3>1
    <3>2. CASE g # new
      <4>1. usb[g].dev \in Devs /\ u[g] = usb[g]
        BY ONLY <1>7, <1>8, <2>2, <3>2
      <4> QED
        BY ONLY <1>17, <2>1, <2>2, <4>1 DEF StacksOK
    <3> QED
      BY ONLY <3>1, <3>2
  <2> QED
    BY ONLY <1>17, <2>1, <2>2 DEF StacksOK
<1>19. ClaimsOK(u, dv, c)
  <2>1. ClaimsOK(usb, dev, call)
    BY DEF IInv, Rest
  <2>2. ASSUME NEW e \in Devs, ~reconfigured, NEW i \in DOMAIN dv[e].stack
        PROVE  \/ \E s \in InCall(c) : /\ On(u, c, s) = e /\ c[s].op \in {"claim", "release"}
                                       /\ c[s].i = i
               \/ dv[e].shared[i].claimed = (claimedBy[dv[e].stack[i]] = e)
    <3>1. \/ \E s \in InCall(call) : /\ On(usb, call, s) = e /\ call[s].op \in {"claim", "release"}
                                     /\ call[s].i = i
          \/ dev[e].shared[i].claimed = (claimedBy[dev[e].stack[i]] = e)
      BY ONLY <1>17, <2>1, <2>2 DEF ClaimsOK
    <3>2. \A s \in InCall(call) : call[s].op \in {"claim", "release"} => s \in InCall(c)
      BY ONLY <1>2, <1>8
    <3> QED
      BY ONLY <1>13, <1>17, <2>2, <3>1, <3>2
  <2>3. ASSUME NEW n \in Numbers, claimedBy[n] # NoDev
        PROVE  Users(u, claimedBy[n]) # {}
    <3>1. claimedBy[n] \in Devs /\ Users(usb, claimedBy[n]) # {}
      BY <2>1, <2>3 DEF ClaimsOK, IInv, OtherTypes
    <3> QED
      BY ONLY <1>10, <3>1
  <2> QED
    BY ONLY <2>2, <2>3 DEF ClaimsOK
<1>20. AltsOK(u, dv, c)
  <2>1. AltsOK(usb, dev, call)
    BY DEF IInv, Rest
  <2>2. ASSUME NEW n \in Targets, NEW e \in Devs, e \in known[n]
        PROVE  dv[e].ref > 0
    <3>1. dev[e].ref > 0
      BY ONLY <2>1, <2>2 DEF AltsOK
    <3> QED
      BY ONLY <1>1, <1>6, <1>7, <2>2, <3>1
  <2>3. ASSUME NEW e \in Devs, NEW i \in DOMAIN dv[e].stack,
               dv[e].stack[i] \in Targets, e \in known[dv[e].stack[i]]
        PROVE  \/ \E s \in InCall(c) : /\ On(u, c, s) = e /\ c[s].op \in {"set", "get"}
                                       /\ c[s].at = "note" /\ c[s].i = i
               \/ dv[e].shared[i].alt = alt[dv[e].stack[i]]
    <3>1. \/ \E s \in InCall(call) : /\ On(usb, call, s) = e /\ call[s].op \in {"set", "get"}
                                     /\ call[s].at = "note" /\ call[s].i = i
          \/ dev[e].shared[i].alt = alt[dev[e].stack[i]]
      BY ONLY <1>17, <2>1, <2>3 DEF AltsOK
    <3>2. \A s \in InCall(call) : call[s].op \in {"set", "get"} => s \in InCall(c)
      BY ONLY <1>2, <1>8
    <3> QED
      BY ONLY <1>13, <1>17, <2>3, <3>1, <3>2
  <2> QED
    BY ONLY <2>2, <2>3 DEF AltsOK
<1>21. Rest(u, dv, c)
  BY <1>14, <1>15, <1>16, <1>18, <1>19, <1>20 DEF Rest
<1>22. PoolTypes(u, dv, c) /\ OtherTypes /\ mine' \subseteq Handles /\ mine' \cap lost = {}
  <2>1. new \notin lost
    BY <1>1, MineCounts
  <2> QED
    BY <1>4, <1>7, <1>8, <2>1 DEF IInv, PoolTypes, OtherTypes
<1>23. m = mine' \cup lost /\ c = call'
  BY <1>4
<1>24. \A s \in InCall(c) : On(u, c, s) = u[h].dev => c[s].op # "config"
  BY ONLY <1>2, <1>7, <1>8, <1>13
<1> HIDE DEF h, m
<1> QED
  BY ONLY <1>2, <1>4, <1>12, <1>21, <1>22, <1>23, <1>24, DecOK
\* The devices but for the shared record i of d, which keeps its interface.
SameBut(dv, d, i) ==
    /\ dv \in [Devs -> DevType]
    /\ \A e \in Devs : dv[e].ref = dev[e].ref /\ dv[e].stack = dev[e].stack /\ dv[e].count = dev[e].count
    /\ \A e \in Devs : \A k \in Indexes :
           /\ dv[e].shared[k].id = dev[e].shared[k].id
           /\ e # d \/ k # i => dv[e].shared[k] = dev[e].shared[k]


\* The devices with the shared record s at i of d.
WithShared(d, i, s) == [dev EXCEPT ![d] = [dev[d] EXCEPT !.shared = [dev[d].shared EXCEPT ![i] = s]]]

LEMMA SharedSet ==
    ASSUME dev \in [Devs -> DevType], NEW d \in Devs, NEW i \in Indexes,
           NEW s \in SharedType, s.id = dev[d].shared[i].id
    PROVE  SameBut(WithShared(d, i, s), d, i) /\ WithShared(d, i, s)[d].shared[i] = s
<1> DEFINE sh == [dev[d].shared EXCEPT ![i] = s]
           x == [dev[d] EXCEPT !.shared = sh]
           dv == WithShared(d, i, s)
<1>1. dev[d] \in DevType /\ dev[d].shared \in [Indexes -> SharedType]
  BY DEF DevType
<1>2. sh \in [Indexes -> SharedType] /\ sh[i] = s /\ \A k \in Indexes : k # i => sh[k] = dev[d].shared[k]
  BY <1>1
<1>3. dv = [dev EXCEPT ![d] = x]
  BY DEF WithShared
<1> HIDE DEF sh
<1>4. x \in DevType /\ x.ref = dev[d].ref /\ x.stack = dev[d].stack /\ x.count = dev[d].count /\ x.shared = sh
  BY <1>1, <1>2 DEF DevType
<1> HIDE DEF x
<1>5. dv \in [Devs -> DevType] /\ dv[d] = x /\ \A e \in Devs : e # d => dv[e] = dev[e]
  BY <1>3, <1>4
<1> HIDE DEF dv
<1>6. ASSUME NEW e \in Devs
      PROVE  dv[e].ref = dev[e].ref /\ dv[e].stack = dev[e].stack /\ dv[e].count = dev[e].count
  BY ONLY <1>4, <1>5, <1>6
<1>7. ASSUME NEW e \in Devs, NEW k \in Indexes
      PROVE  /\ dv[e].shared[k].id = dev[e].shared[k].id
             /\ e # d \/ k # i => dv[e].shared[k] = dev[e].shared[k]
  <2>1. CASE e # d
    BY ONLY <1>5, <1>7, <2>1
  <2>2. CASE e = d
    <3>1. dv[e].shared = sh
      BY ONLY <1>4, <1>5, <2>2
    <3>2. k # i => sh[k] = dev[d].shared[k]
      BY ONLY <1>2, <1>7
    <3>3. sh[i].id = dev[d].shared[i].id
      BY <1>2
    <3> QED
      BY ONLY <2>2, <3>1, <3>2, <3>3
  <2> QED
    BY ONLY <2>1, <2>2
<1>8. SameBut(dv, d, i)
  BY ONLY <1>5, <1>6, <1>7 DEF SameBut
<1>9. dv[d].shared[i] = s
  BY ONLY <1>2, <1>4, <1>5
<1> QED
  BY <1>8, <1>9 DEF dv

\* The pools when the answer has been noted: only what the call of t is about
\* differs.
Noting(t, u, dv) ==
    LET h == call[t].h
        d == On(usb, call, t)
        i == call[t].i
    IN /\ u \in [Handles -> UsbType]
       /\ \A g \in Handles :
              /\ u[g].ref = usb[g].ref /\ u[g].dev = usb[g].dev
              /\ u[g].sel = usb[g].sel \/ (g = h /\ u[g].sel = i /\ (~reconfigured => i \in DOMAIN dev[d].stack))
       /\ SameBut(dv, d, i)
       /\ IF call[t].op \in {"claim", "release"}
          THEN dv[d].shared[i].claimed = (call[t].op = "claim" /\ call[t].v = 1)
          ELSE dv[d].shared[i].claimed = dev[d].shared[i].claimed
       /\ IF call[t].op \in {"set", "get"} THEN dv[d].shared[i].alt = call[t].v
          ELSE dv[d].shared[i].alt = dev[d].shared[i].alt

LEMMA NotingIs ==
    ASSUME IInv, NEW t \in InCall(call), call[t].at = "note"
    PROVE  Noting(t, Selects(t), Noted(t))
<1> DEFINE h == call[t].h
           d == On(usb, call, t)
           i == call[t].i
           r == call[t]
           b == (r.op = "claim" /\ r.v = 1)
           y == [usb[h] EXCEPT !.sel = i]
           dv == Noted(t)
<1>1. /\ h \in Handles /\ d \in Devs /\ d = usb[h].dev /\ i \in Indexes /\ b \in BOOLEAN /\ usb[h] \in UsbType
      /\ CallKind(r) /\ CallOn(r, dev[d], d) /\ usb \in [Handles -> UsbType] /\ dev \in [Devs -> DevType]
      /\ r.op \in {"select", "claim", "release", "set", "get"}
  BY CallFacts DEF IInv, PoolTypes, CallType, CallKind, On
<1>2. DevOf(t) = d
  BY DEF DevOf, On
<1>3. Selects(t) = IF r.op = "select" \/ b THEN [usb EXCEPT ![h] = y] ELSE usb
  BY DEF Selects
<1>4. r.op = "select" \/ b => (~reconfigured => i \in DOMAIN dev[d].stack)
  BY <1>1 DEF CallOn
<1>5. y \in UsbType /\ y.ref = usb[h].ref /\ y.dev = usb[h].dev /\ y.sel = i
  BY <1>1 DEF UsbType
<1> HIDE DEF y
<1>6. /\ Selects(t) \in [Handles -> UsbType]
      /\ \A g \in Handles :
             /\ Selects(t)[g].ref = usb[g].ref /\ Selects(t)[g].dev = usb[g].dev
             /\ Selects(t)[g].sel = usb[g].sel
                \/ (g = h /\ Selects(t)[g].sel = i /\ (~reconfigured => i \in DOMAIN dev[d].stack))
  <2>1. CASE r.op = "select" \/ b
    <3>1. Selects(t) = [usb EXCEPT ![h] = y]
      BY ONLY <1>3, <2>1
    <3> HIDE DEF h, d, i, r, b
    <3> QED
      BY ONLY <1>1, <1>4, <1>5, <2>1, <3>1
  <2>2. CASE ~(r.op = "select" \/ b)
    <3>1. Selects(t) = usb
      BY ONLY <1>3, <2>2
    <3> QED
      BY ONLY <1>1, <3>1
  <2> QED
    BY ONLY <2>1, <2>2
<1>7. /\ SameBut(dv, d, i)
      /\ IF r.op \in {"claim", "release"} THEN dv[d].shared[i].claimed = b
         ELSE dv[d].shared[i].claimed = dev[d].shared[i].claimed
      /\ IF r.op \in {"set", "get"} THEN dv[d].shared[i].alt = r.v
         ELSE dv[d].shared[i].alt = dev[d].shared[i].alt
  <2>1. CASE r.op = "select"
    <3>1. dv = dev
      BY <2>1 DEF Noted
    <3> HIDE DEF h, d, i, r, b, dv
    <3> QED
      BY ONLY <1>1, <2>1, <3>1 DEF SameBut
  <2>2. CASE r.op \in {"claim", "release"}
    <3> DEFINE s == [dev[d].shared[i] EXCEPT !.claimed = b]
    <3>1. dv = WithShared(d, i, s)
      BY <1>2, <2>2 DEF Noted, WithShared
    <3>2. dev[d].shared[i] \in SharedType /\ b \in BOOLEAN
      BY <1>1, <2>2 DEF DevType, CallKind
    <3> HIDE DEF h, d, i, r, b, dv
    <3>3. s \in SharedType /\ s.id = dev[d].shared[i].id /\ s.claimed = b /\ s.alt = dev[d].shared[i].alt
      BY ONLY <1>1, <3>2 DEF SharedType
    <3> HIDE DEF s
    <3>4. SameBut(WithShared(d, i, s), d, i) /\ WithShared(d, i, s)[d].shared[i] = s
      BY ONLY <1>1, <3>3, SharedSet
    <3> QED
      BY ONLY <2>2, <3>1, <3>3, <3>4
  <2>3. CASE r.op \in {"set", "get"}
    <3> DEFINE s == [dev[d].shared[i] EXCEPT !.alt = r.v]
    <3>1. dv = WithShared(d, i, s)
      BY <1>2, <2>3 DEF Noted, WithShared
    <3>2. dev[d].shared[i] \in SharedType /\ r.v \in Alts
      BY <1>1, <2>3 DEF DevType, CallKind
    <3> HIDE DEF h, d, i, r, b, dv
    <3>3. s \in SharedType /\ s.id = dev[d].shared[i].id /\ s.alt = r.v /\ s.claimed = dev[d].shared[i].claimed
      BY ONLY <1>1, <3>2 DEF SharedType
    <3> HIDE DEF s
    <3>4. SameBut(WithShared(d, i, s), d, i) /\ WithShared(d, i, s)[d].shared[i] = s
      BY ONLY <1>1, <3>3, SharedSet
    <3> QED
      BY ONLY <2>3, <3>1, <3>3, <3>4
  <2> QED
    BY ONLY <1>1, <2>1, <2>2, <2>3
<1> HIDE DEF dv, b
<1>8. /\ dv = Noted(t) /\ b = (call[t].op = "claim" /\ call[t].v = 1)
  BY DEF dv, b
<1> QED
  BY ONLY <1>6, <1>7, <1>8 DEF Noting

\* A call that notes its answer: the note is what the driver has.
LEMMA NoteOK ==
    ASSUME IInv, NEW t \in Threads, Note(t)
    PROVE  IInv'
<1> DEFINE h == call[t].h
           d == On(usb, call, t)
           i == call[t].i
           r == call[t]
           u == Selects(t)
           dv == Noted(t)
           c == [call EXCEPT ![t] = Idle]
           m == mine' \cup lost
<1>1. t \in InCall(call) /\ r.at = "note"
  BY DEF Note, InCall
<1>2. /\ h \in Handles /\ h \notin lost /\ d \in Devs /\ d = usb[h].dev /\ i \in Indexes
      /\ CallKind(r) /\ CallOn(r, dev[d], d) /\ r.op \in {"select", "claim", "release", "set", "get"}
  BY <1>1, CallFacts DEF CallType, CallKind, On
<1>3. /\ DecUsb(h, u, dv) /\ call' = c /\ Known(known)
      /\ UNCHANGED <<driver, active, alt, mine, lost, reconfigured>>
  BY DEF Note, Leave
<1>4. Noting(t, u, dv)
  BY <1>1, NotingIs
<1>5. /\ c \in [Threads -> CallType] /\ InCall(c) = InCall(call) \ {t}
      /\ \A s \in InCall(c) : c[s] = call[s] /\ \A w : On(w, c, s) = On(w, call, s)
      /\ \A g \in Handles :
             /\ usb[g].ref = Cardinality(CallsTo(c, g)) + (IF g \in mine \cup lost THEN 1 ELSE 0)
                             + (IF g = call[t].h THEN 1 ELSE 0)
             /\ usb[g].ref > 0 => usb[g].dev \in Devs
      /\ CallsOK(usb, dev, c) /\ Apart(usb, c)
      /\ \A s \in InCall(c) : On(usb, c, s) = usb[call[t].h].dev => c[s].op # "config"
  BY <1>1, Without DEF Remain
<1>6. m = mine \cup lost /\ m = mine' \cup lost
  BY <1>3
<1>7. call[t].h = h /\ call[t] = r /\ call[t].i = i /\ On(usb, call, t) = d
  OBVIOUS
<1> HIDE DEF h, d, i, r, u, dv, c, m
<1>8. /\ u \in [Handles -> UsbType] /\ dv \in [Devs -> DevType]
      /\ \A g \in Handles :
             /\ u[g].ref = usb[g].ref /\ u[g].dev = usb[g].dev
             /\ u[g].sel = usb[g].sel \/ (g = h /\ u[g].sel = i /\ (~reconfigured => i \in DOMAIN dev[d].stack))
      /\ \A e \in Devs : dv[e].ref = dev[e].ref /\ dv[e].stack = dev[e].stack /\ dv[e].count = dev[e].count
      /\ \A e \in Devs : \A k \in Indexes :
             /\ dv[e].shared[k].id = dev[e].shared[k].id
             /\ e # d \/ k # i => dv[e].shared[k] = dev[e].shared[k]
  BY ONLY <1>4, <1>7 DEF Noting, SameBut
<1>9. /\ r.op \in {"claim", "release"} => dv[d].shared[i].claimed = (r.op = "claim" /\ r.v = 1)
      /\ r.op \notin {"claim", "release"} => dv[d].shared[i].claimed = dev[d].shared[i].claimed
      /\ r.op \in {"set", "get"} => dv[d].shared[i].alt = r.v
      /\ r.op \notin {"set", "get"} => dv[d].shared[i].alt = dev[d].shared[i].alt
  BY ONLY <1>4, <1>7 DEF Noting
<1>10. \A e : Users(u, e) = Users(usb, e)
  BY ONLY <1>8 DEF Users
<1>11. ASSUME NEW s \in InCall(call)
       PROVE  On(u, call, s) = On(usb, call, s) /\ On(usb, call, s) \in Devs /\ call[s].i \in Indexes
              /\ call[s].h \in Handles
  <2>1. call[s].h \in Handles /\ On(usb, call, s) \in Devs /\ call[s] \in CallType
    BY ONLY IInv, <1>11, CallFacts
  <2> QED
    BY ONLY <1>8, <2>1 DEF On, CallType
<1>12. \A s \in InCall(c) : s \in InCall(call) /\ s # t /\ c[s] = call[s] /\ On(u, c, s) = On(usb, c, s)
                             /\ On(usb, c, s) = On(usb, call, s)
  BY ONLY <1>5, <1>11
<1>13. \A g \in Handles :
             /\ u[g].ref = Cardinality(CallsTo(c, g)) + (IF g \in m THEN 1 ELSE 0)
                             + (IF g = h THEN 1 ELSE 0)
             /\ u[g].ref > 0 => u[g].dev \in Devs
  BY ONLY <1>5, <1>6, <1>7, <1>8
<1>14. DeviceCounts(u, dv, c)
  <2>1. ASSUME NEW e \in Devs
        PROVE  /\ (\A s \in InCall(c) : On(u, c, s) = e => c[s].op # "config")
                      => dv[e].ref = Cardinality(Users(u, e))
               /\ \A s \in InCall(c) : On(u, c, s) = e /\ c[s].op = "config"
                      => dv[e].ref = Cardinality(Users(u, e)) - c[s].v
    <3>1. /\ (\A s \in InCall(call) : On(usb, call, s) = e => call[s].op # "config")
                 => dev[e].ref = Cardinality(Users(usb, e))
          /\ \A s \in InCall(call) : On(usb, call, s) = e /\ call[s].op = "config"
                 => dev[e].ref = Cardinality(Users(usb, e)) - call[s].v
      BY DEF IInv, Rest, DeviceCounts
    <3>2. dv[e].ref = dev[e].ref /\ Users(u, e) = Users(usb, e)
      BY ONLY <1>8, <1>10, <2>1
    <3>3. (\A s \in InCall(c) : On(u, c, s) = e => c[s].op # "config")
             => \A s \in InCall(call) : On(usb, call, s) = e => call[s].op # "config"
      BY ONLY <1>2, <1>5, <1>7, <1>12
    <3> QED
      BY ONLY <1>12, <3>1, <3>2, <3>3
  <2> QED
    BY ONLY <2>1 DEF DeviceCounts
<1>15. CallsOK(u, dv, c)
  <2>1. ASSUME NEW s \in InCall(c)
        PROVE  /\ CallKind(c[s]) /\ u[c[s].h].ref > 0 /\ c[s].h \notin lost
               /\ CallOn(c[s], dv[On(u, c, s)], On(u, c, s))
    <3> DEFINE e == On(usb, c, s)
               q == c[s]
    <3>1. /\ CallKind(q) /\ u[q.h].ref > 0 /\ q.h \notin lost /\ CallOn(q, dev[e], e)
          /\ e \in Devs /\ On(u, c, s) = e /\ q.i \in Indexes
      BY ONLY <2>1, <1>5, <1>8, <1>11, <1>12 DEF CallsOK
    <3> HIDE DEF e, q
    <3>2. CallOn(q, dv[e], e)
      <4>1. /\ dv[e].stack = dev[e].stack /\ dv[e].count = dev[e].count /\ dv[e].ref = dev[e].ref
            /\ dv[e].shared[q.i].id = dev[e].shared[q.i].id
        BY ONLY <1>8, <3>1
      <4> QED
        BY ONLY <3>1, <4>1 DEF CallOn
    <3> QED
      BY <3>1, <3>2 DEF e, q
  <2> QED
    BY ONLY <2>1 DEF CallsOK
<1>16. Apart(u, c)
  BY ONLY <1>5, <1>12 DEF Apart
<1>17. \A e \in Devs : DOMAIN dev[e].stack \subseteq Indexes
  BY StackFacts
<1>18. StacksOK(u, dv)
  <2>1. StacksOK(usb, dev)
    BY DEF IInv, Rest
  <2>2. ASSUME NEW g \in Handles \ lost, u[g].ref > 0, ~reconfigured
        PROVE  u[g].sel \in DOMAIN dv[u[g].dev].stack
    <3>1. usb[g].ref > 0 /\ u[g].dev = usb[g].dev /\ usb[g].dev \in Devs
      BY ONLY <1>5, <1>8, <2>2
    <3>2. usb[g].sel \in DOMAIN dev[usb[g].dev].stack
      BY ONLY <2>1, <2>2, <3>1 DEF StacksOK
    <3> QED
      BY ONLY <1>2, <1>8, <2>2, <3>1, <3>2
  <2>3. ASSUME NEW e \in Devs, NEW k \in DOMAIN dv[e].stack
        PROVE  dv[e].shared[k].id = dv[e].stack[k]
    <3>1. k \in DOMAIN dev[e].stack /\ k \in Indexes /\ dv[e].stack = dev[e].stack
      BY ONLY <1>8, <1>17, <2>3
    <3> QED
      BY ONLY <1>8, <2>1, <2>3, <3>1 DEF StacksOK
  <2> QED
    BY ONLY <1>8, <2>1, <2>2, <2>3 DEF StacksOK
<1>19. ClaimsOK(u, dv, c)
  <2>1. ClaimsOK(usb, dev, call)
    BY DEF IInv, Rest
  <2>2. ASSUME NEW e \in Devs, ~reconfigured, NEW k \in DOMAIN dv[e].stack
        PROVE  \/ \E s \in InCall(c) : /\ On(u, c, s) = e /\ c[s].op \in {"claim", "release"}
                                       /\ c[s].i = k
               \/ dv[e].shared[k].claimed = (claimedBy[dv[e].stack[k]] = e)
    <3>1. k \in DOMAIN dev[e].stack /\ k \in Indexes /\ dv[e].stack = dev[e].stack
      BY ONLY <1>8, <1>17, <2>2
    <3>2. \/ \E s \in InCall(call) : /\ On(usb, call, s) = e /\ call[s].op \in {"claim", "release"}
                                     /\ call[s].i = k
          \/ dev[e].shared[k].claimed = (claimedBy[dev[e].stack[k]] = e)
      BY ONLY <2>1, <2>2, <3>1 DEF ClaimsOK
    <3>3. CASE e = d /\ k = i /\ r.op \in {"claim", "release"}
      <4>1. /\ dv[e].stack[k] = r.n
            /\ (r.op = "claim" /\ r.v = 1) <=> claimedBy[r.n] = d
        BY ONLY <1>1, <1>2, <1>7, <2>2, <3>1, <3>3 DEF CallOn
      <4>2. dv[e].shared[k].claimed = (r.op = "claim" /\ r.v = 1)
        BY ONLY <1>9, <3>3
      <4>3. (claimedBy[dv[e].stack[k]] = e) <=> (r.op = "claim" /\ r.v = 1)
        BY ONLY <3>3, <4>1
      <4>4. dv[e].shared[k].claimed = (claimedBy[dv[e].stack[k]] = e)
        BY ONLY <4>2, <4>3
      <4> QED
        BY ONLY <4>4
    <3>4. CASE ~(e = d /\ k = i /\ r.op \in {"claim", "release"})
      <4>1. dv[e].shared[k].claimed = dev[e].shared[k].claimed
        BY ONLY <1>8, <1>9, <2>2, <3>1, <3>4
      <4>2. \A s \in InCall(call) : /\ On(usb, call, s) = e /\ call[s].op \in {"claim", "release"}
                                    /\ call[s].i = k
                => s \in InCall(c)
        BY ONLY <1>5, <1>7, <3>4
      <4> QED
        BY ONLY <1>12, <3>1, <3>2, <4>1, <4>2
    <3> QED
      BY ONLY <3>3, <3>4
  <2>3. \A n \in Numbers : claimedBy[n] # NoDev => Users(u, claimedBy[n]) # {}
    BY ONLY <1>10, <2>1 DEF ClaimsOK
  <2> QED
    BY ONLY <2>2, <2>3 DEF ClaimsOK
<1>20. AltsOK(u, dv, c)
  <2>1. AltsOK(usb, dev, call) /\ StacksOK(usb, dev)
    BY DEF IInv, Rest
  <2>2. \A n \in Targets, e \in Devs : e \in known[n] => dv[e].ref > 0
    BY ONLY <1>8, <2>1 DEF AltsOK
  <2>3. ASSUME NEW e \in Devs, NEW k \in DOMAIN dv[e].stack,
               dv[e].stack[k] \in Targets, e \in known[dv[e].stack[k]]
        PROVE  \/ \E s \in InCall(c) : /\ On(u, c, s) = e /\ c[s].op \in {"set", "get"}
                                       /\ c[s].at = "note" /\ c[s].i = k
               \/ dv[e].shared[k].alt = alt[dv[e].stack[k]]
    <3>1. k \in DOMAIN dev[e].stack /\ k \in Indexes /\ dv[e].stack = dev[e].stack
      BY ONLY <1>8, <1>17, <2>3
    <3>2. \/ \E s \in InCall(call) : /\ On(usb, call, s) = e /\ call[s].op \in {"set", "get"}
                                     /\ call[s].at = "note" /\ call[s].i = k
          \/ dev[e].shared[k].alt = alt[dev[e].stack[k]]
      BY ONLY <2>1, <2>3, <3>1 DEF AltsOK
    <3>3. CASE e = d /\ k = i /\ r.op \in {"set", "get"}
      <4>1. dev[e].stack[k] = r.n
        BY ONLY <1>2, <1>7, <2>1, <2>3, <3>1, <3>3 DEF CallOn, StacksOK
      <4>2. r.v = alt[r.n]
        BY ONLY <1>1, <1>2, <1>7, <2>3, <3>1, <3>3, <4>1 DEF CallOn
      <4>3. dv[e].shared[k].alt = r.v
        BY ONLY <1>9, <3>3
      <4> QED
        BY ONLY <3>1, <4>1, <4>2, <4>3
    <3>4. CASE ~(e = d /\ k = i /\ r.op \in {"set", "get"})
      <4>1. dv[e].shared[k].alt = dev[e].shared[k].alt
        BY ONLY <1>8, <1>9, <2>3, <3>1, <3>4
      <4>2. \A s \in InCall(call) : /\ On(usb, call, s) = e /\ call[s].op \in {"set", "get"}
                                    /\ call[s].i = k
                => s \in InCall(c)
        BY ONLY <1>5, <1>7, <3>4
      <4> QED
        BY ONLY <1>12, <3>1, <3>2, <4>1, <4>2
    <3> QED
      BY ONLY <3>3, <3>4
  <2> QED
    BY ONLY <2>2, <2>3 DEF AltsOK
<1>21. Rest(u, dv, c)
  BY ONLY <1>14, <1>15, <1>16, <1>18, <1>19, <1>20 DEF Rest
<1>22. PoolTypes(u, dv, c) /\ OtherTypes /\ mine' \subseteq Handles /\ mine' \cap lost = {}
  BY <1>3, <1>5, <1>8 DEF IInv, PoolTypes, OtherTypes
<1>23. c = call'
  BY <1>3
<1>24. \A s \in InCall(c) : On(u, c, s) = u[h].dev => c[s].op # "config"
  BY ONLY <1>2, <1>5, <1>7, <1>8, <1>12
<1> QED
  BY ONLY <1>2, <1>3, <1>6, <1>13, <1>21, <1>22, <1>23, <1>24, DecOK

\* UsbStack_Rebuild gives back what it took.
LEMMA RebuildIncOK ==
    ASSUME IInv, NEW t \in Threads, RebuildInc(t)
    PROVE  IInv'
<1> DEFINE h == call[t].h
           d == On(usb, call, t)
           r == call[t]
           x == [dev[d] EXCEPT !.ref = dev[d].ref + r.v]
           dv == [dev EXCEPT ![d] = x]
           c == [call EXCEPT ![t] = Idle]
           m == mine' \cup lost
<1>1. t \in InCall(call) /\ r.at = "inc"
  BY DEF RebuildInc, InCall
<1>2. /\ h \in Handles /\ h \notin lost /\ d \in Devs /\ d = usb[h].dev /\ r.op = "config" /\ r.v \in {1, 2}
      /\ h \in Users(usb, d) /\ dev[d] \in DevType
      /\ reconfigured /\ \A n \in Targets : d \notin known[n]
  <2>1. /\ h \in Handles /\ h \notin lost /\ d \in Devs /\ d = usb[h].dev /\ h \in Users(usb, d)
        /\ CallKind(r) /\ CallOn(r, dev[d], d)
    BY <1>1, CallFacts DEF On
  <2> QED
    BY <1>1, <2>1, StackFacts DEF CallKind, CallOn, Rebuilds
<1>3. /\ DecUsb(h, usb, dv) /\ call' = c /\ Known(known)
      /\ UNCHANGED <<driver, active, alt, mine, lost, reconfigured>>
  BY CallsOnIs DEF RebuildInc, Leave
<1>4. dev[d].ref = Cardinality(Users(usb, d)) - r.v
  BY <1>1, <1>2 DEF IInv, Rest, DeviceCounts
<1>5. /\ c \in [Threads -> CallType] /\ InCall(c) = InCall(call) \ {t}
      /\ \A s \in InCall(c) : c[s] = call[s] /\ \A w : On(w, c, s) = On(w, call, s)
      /\ \A g \in Handles :
             /\ usb[g].ref = Cardinality(CallsTo(c, g)) + (IF g \in mine \cup lost THEN 1 ELSE 0)
                             + (IF g = call[t].h THEN 1 ELSE 0)
             /\ usb[g].ref > 0 => usb[g].dev \in Devs
      /\ CallsOK(usb, dev, c) /\ Apart(usb, c)
      /\ \A s \in InCall(c) : On(usb, c, s) = usb[call[t].h].dev => c[s].op # "config"
  BY <1>1, Without DEF Remain
<1>6. m = mine \cup lost /\ m = mine' \cup lost
  BY <1>3
<1>7. call[t].h = h /\ call[t] = r /\ On(usb, call, t) = d
  OBVIOUS
<1>8. dev[d].ref + r.v \in Nat \ {0} /\ dev[d].ref + r.v = Cardinality(Users(usb, d))
  <2>1. Cardinality(Users(usb, d)) \in Nat \ {0}
    BY ONLY <1>2, UsersFinite
  <2> QED
    BY ONLY <1>2, <1>4, <2>1
<1>9. x \in DevType /\ x.ref = dev[d].ref + r.v /\ x.stack = dev[d].stack /\ x.count = dev[d].count /\ x.shared = dev[d].shared
  BY <1>2, <1>8 DEF DevType
<1> HIDE DEF x
<1>10. dv \in [Devs -> DevType] /\ dv[d] = x /\ \A e \in Devs : e # d => dv[e] = dev[e]
  BY <1>2, <1>9 DEF IInv, PoolTypes
<1> HIDE DEF h, d, r, dv, c, m
<1>11. ASSUME NEW e \in Devs
       PROVE  dv[e].stack = dev[e].stack /\ dv[e].count = dev[e].count /\ dv[e].shared = dev[e].shared
  BY ONLY <1>9, <1>10, <1>11
<1>12. \A s \in InCall(c) : s \in InCall(call) /\ s # t /\ c[s] = call[s]
                             /\ On(usb, c, s) = On(usb, call, s)
  BY ONLY <1>5
<1>13. \A s \in InCall(c) : On(usb, c, s) = d => c[s].op # "config"
  BY ONLY <1>2, <1>5, <1>7
<1>14. DeviceCounts(usb, dv, c)
  <2>1. ASSUME NEW e \in Devs
        PROVE  /\ (\A s \in InCall(c) : On(usb, c, s) = e => c[s].op # "config")
                      => dv[e].ref = Cardinality(Users(usb, e))
               /\ \A s \in InCall(c) : On(usb, c, s) = e /\ c[s].op = "config"
                      => dv[e].ref = Cardinality(Users(usb, e)) - c[s].v
    <3>1. /\ (\A s \in InCall(call) : On(usb, call, s) = e => call[s].op # "config")
                 => dev[e].ref = Cardinality(Users(usb, e))
          /\ \A s \in InCall(call) : On(usb, call, s) = e /\ call[s].op = "config"
                 => dev[e].ref = Cardinality(Users(usb, e)) - call[s].v
      BY DEF IInv, Rest, DeviceCounts
    <3>2. CASE e = d
      <4>1. dv[e].ref = Cardinality(Users(usb, e))
        BY ONLY <1>8, <1>9, <1>10, <3>2
      <4> QED
        BY ONLY <1>13, <3>2, <4>1
    <3>3. CASE e # d
      <4>1. dv[e] = dev[e]
        BY ONLY <1>10, <2>1, <3>3
      <4>2. (\A s \in InCall(c) : On(usb, c, s) = e => c[s].op # "config")
               => \A s \in InCall(call) : On(usb, call, s) = e => call[s].op # "config"
        BY ONLY <1>5, <1>7, <1>12, <3>3
      <4> QED
        BY ONLY <1>12, <3>1, <4>1, <4>2
    <3> QED
      BY ONLY <3>2, <3>3
  <2> QED
    BY ONLY <2>1 DEF DeviceCounts
<1>15. CallsOK(usb, dv, c)
  <2>1. ASSUME NEW s \in InCall(c)
        PROVE  /\ CallKind(c[s]) /\ usb[c[s].h].ref > 0 /\ c[s].h \notin lost
               /\ CallOn(c[s], dv[On(usb, c, s)], On(usb, c, s))
    <3> DEFINE e == On(usb, c, s)
               q == c[s]
    <3>1. e \in Devs
      BY ONLY IInv, <1>12, <2>1, CallFacts
    <3>2. CallKind(q) /\ usb[q.h].ref > 0 /\ q.h \notin lost /\ CallOn(q, dev[e], e)
      BY ONLY <2>1, <1>5 DEF CallsOK
    <3>3. e = d => q.op # "config"
      BY ONLY <1>13, <2>1
    <3> HIDE DEF e, q
    <3>4. dv[e].stack = dev[e].stack /\ dv[e].count = dev[e].count /\ dv[e].shared = dev[e].shared /\ (e # d => dv[e] = dev[e])
      BY ONLY <1>10, <1>11, <3>1
    <3>5. CallOn(q, dv[e], e)
      BY ONLY <3>2, <3>3, <3>4 DEF CallOn, CallKind, Rebuilds
    <3> QED
      BY <3>2, <3>5 DEF e, q
  <2> QED
    BY ONLY <2>1 DEF CallsOK
<1>16. StacksOK(usb, dv)
  <2>1. StacksOK(usb, dev)
    BY DEF IInv, Rest
  <2> QED
    BY ONLY <1>2, <1>11, <2>1 DEF StacksOK
<1>17. ClaimsOK(usb, dv, c)
  <2>1. ClaimsOK(usb, dev, call)
    BY DEF IInv, Rest
  <2> QED
    BY ONLY <1>2, <2>1 DEF ClaimsOK
<1>18. AltsOK(usb, dv, c)
  <2>1. AltsOK(usb, dev, call)
    BY DEF IInv, Rest
  <2>2. \A n \in Targets, e \in Devs : e \in known[n] => dv[e].ref > 0
    BY ONLY <1>2, <1>10, <2>1 DEF AltsOK
  <2>3. ASSUME NEW e \in Devs, NEW k \in DOMAIN dv[e].stack,
               dv[e].stack[k] \in Targets, e \in known[dv[e].stack[k]]
        PROVE  \/ \E s \in InCall(c) : /\ On(usb, c, s) = e /\ c[s].op \in {"set", "get"}
                                       /\ c[s].at = "note" /\ c[s].i = k
               \/ dv[e].shared[k].alt = alt[dv[e].stack[k]]
    <3>1. \/ \E s \in InCall(call) : /\ On(usb, call, s) = e /\ call[s].op \in {"set", "get"}
                                     /\ call[s].at = "note" /\ call[s].i = k
          \/ dev[e].shared[k].alt = alt[dev[e].stack[k]]
      BY ONLY <1>11, <2>1, <2>3 DEF AltsOK
    <3>2. \A s \in InCall(call) : call[s].op \in {"set", "get"} => s \in InCall(c)
      BY ONLY <1>2, <1>5, <1>7
    <3> QED
      BY ONLY <1>11, <1>12, <2>3, <3>1, <3>2
  <2> QED
    BY ONLY <2>2, <2>3 DEF AltsOK
<1>19. Rest(usb, dv, c)
  BY ONLY <1>5, <1>14, <1>15, <1>16, <1>17, <1>18 DEF Rest
<1>20. PoolTypes(usb, dv, c) /\ OtherTypes /\ mine' \subseteq Handles /\ mine' \cap lost = {}
  BY <1>3, <1>5, <1>10 DEF IInv, PoolTypes, OtherTypes
<1>21. c = call'
  BY <1>3
<1>22. /\ \A s \in InCall(c) : On(usb, c, s) = usb[h].dev => c[s].op # "config"
       /\ \A g \in Handles :
             /\ usb[g].ref = Cardinality(CallsTo(c, g)) + (IF g \in m THEN 1 ELSE 0)
                             + (IF g = h THEN 1 ELSE 0)
             /\ usb[g].ref > 0 => usb[g].dev \in Devs
  BY ONLY <1>5, <1>6, <1>7
<1> QED
  BY ONLY <1>2, <1>3, <1>6, <1>19, <1>20, <1>21, <1>22, DecOK

-----------------------------------------------------------------------------
(***************************************************************************)
(* Calls that go on: the driver's answers, and the steps of a rebuild.     *)
(***************************************************************************)

\* The calls, of which one is further than it was.
Goes(t, c) ==
    /\ c \in [Threads -> CallType] /\ InCall(c) = InCall(call)
    /\ \A s \in InCall(call) :
           /\ s # t => c[s] = call[s]
           /\ c[s].h = call[s].h /\ c[s].op = call[s].op /\ c[s].n = call[s].n /\ c[s].i = call[s].i

Moves(t, c, a, v) ==
    \/ c = [call EXCEPT ![t].at = a, ![t].v = v]
    \/ c = [call EXCEPT ![t].at = a] /\ v = call[t].v

LEMMA GoesIs ==
    ASSUME IInv, NEW t \in InCall(call), NEW a \in Labels, a # "idle", NEW v \in Nat, NEW c,
           Moves(t, c, a, v)
    PROVE  Goes(t, c) /\ c[t].at = a /\ c[t].v = v
<1> DEFINE r == [call[t] EXCEPT !.at = a, !.v = v]
<1>1. call[t] \in CallType /\ t \in Threads /\ call \in [Threads -> CallType]
  BY CallFacts DEF IInv, PoolTypes
<1>2. /\ r \in CallType /\ r.at = a /\ r.v = v /\ r.h = call[t].h /\ r.op = call[t].op
      /\ r.n = call[t].n /\ r.i = call[t].i
  BY <1>1 DEF CallType
<1>3. c = [call EXCEPT ![t] = r]
  <2>1. CASE c = [call EXCEPT ![t].at = a, ![t].v = v]
    <3> DEFINE p == [call[t] EXCEPT !.at = a]
               q == [call EXCEPT ![t] = p]
    <3>1. c = [q EXCEPT ![t] = [q[t] EXCEPT !.v = v]]
      BY <2>1
    <3>2. q[t] = p
      BY <1>1
    <3>3. [q[t] EXCEPT !.v = v] = r
      BY <1>1, <3>2 DEF CallType
    <3> QED
      BY <1>1, <3>1, <3>3
  <2>2. CASE c = [call EXCEPT ![t].at = a] /\ v = call[t].v
    <3>1. [call[t] EXCEPT !.at = a] = r
      BY <1>1, <2>2 DEF CallType
    <3> QED
      BY <2>2, <3>1
  <2> QED
    BY <2>1, <2>2 DEF Moves
<1> HIDE DEF r
<1>4. c \in [Threads -> CallType] /\ c[t] = r /\ \A s \in Threads : s # t => c[s] = call[s]
  BY <1>1, <1>2, <1>3
<1>5. InCall(c) = InCall(call)
  BY <1>1, <1>2, <1>4 DEF InCall
<1>6. \A s \in InCall(call) : s \in Threads
  BY DEF InCall
<1> QED
  BY ONLY <1>2, <1>4, <1>5, <1>6, a # "idle" DEF Goes

\* Where the calls are, who counts, and that they are apart, stays.
LEMMA GoesKeeps ==
    ASSUME IInv, NEW t \in InCall(call), NEW c, Goes(t, c)
    PROVE  /\ \A s \in InCall(c) : On(usb, c, s) = On(usb, call, s)
           /\ HandleCounts(usb, c, mine \cup lost) /\ Apart(usb, c)
<1>1. \A s \in InCall(c) : On(usb, c, s) = On(usb, call, s)
  BY DEF On, Goes
<1>2. \A h : CallsTo(c, h) = CallsTo(call, h)
  BY DEF CallsTo, Goes
<1>3. HandleCounts(usb, c, mine \cup lost)
  BY <1>2 DEF IInv, HandleCounts
<1>4. Apart(usb, call)
  BY DEF IInv, Rest
<1>5. Apart(usb, c)
  BY ONLY <1>1, <1>4, Goes(t, c) DEF Apart, Goes
<1> QED
  BY <1>1, <1>3, <1>5

\* What a call found, in the next state.
CallOnNext(r, x, d) ==
    /\ r.op \in {"claim", "release"} => r.i \in DOMAIN x.stack /\ x.stack[r.i] = r.n
    /\ r.op \in {"set", "get"} => x.shared[r.i].id = r.n
    /\ r.op \in {"associated", "select"} /\ ~reconfigured' => r.i \in DOMAIN x.stack
    /\ r.op = "config" /\ r.at # "inc" => x.count \in Counts
    /\ r.op \in {"claim", "release"} /\ r.at = "note" /\ ~reconfigured' =>
           ((r.op = "claim" /\ r.v = 1) <=> claimedBy'[r.n] = d)
    /\ r.op \in {"set", "get"} /\ r.at = "note" /\ r.i \in DOMAIN x.stack /\ d \in known'[r.n] =>
           r.v = alt'[r.n]
    /\ r.at \in Rebuilds \ {"configure"} => reconfigured' /\ \A n \in Targets : d \notin known'[n]
    /\ r.at = "dec2" => x.ref = 1

LEMMA CallsNext ==
    ASSUME NEW c, c = call', NEW u, u = usb', NEW dv, dv = dev', lost' = lost,
           \A s \in InCall(c) :
               /\ CallKind(c[s]) /\ u[c[s].h].ref > 0 /\ c[s].h \notin lost
               /\ CallOnNext(c[s], dv[On(u, c, s)], On(u, c, s))
    PROVE  CallsOK(usb, dev, call)'
BY DEF CallsOK, CallOn, CallOnNext

\* Interface_Claim and Interface_Release, for the file of the call.
LEMMA AskClaimOK ==
    ASSUME IInv, NEW t \in Threads, AskClaim(t), NEW c, c = call'
    PROVE  IInv'
<1> DEFINE d == On(usb, call, t)
           r == call[t]
           n == call[t].n
           i == call[t].i
<1>1. t \in InCall(call) /\ r.at = "ask" /\ r.op \in {"claim", "release"}
  BY DEF AskClaim, InCall
<1>2. /\ d \in Devs /\ r.h \in Users(usb, d) /\ n \in Targets /\ n \in Numbers
      /\ i \in DOMAIN dev[d].stack /\ dev[d].stack[i] = n
      /\ CallKind(r) /\ CallOn(r, dev[d], d) /\ d # NoDev
  <2>1. /\ d \in Devs /\ r.h \in Users(usb, d) /\ CallKind(r) /\ CallOn(r, dev[d], d)
    BY <1>1, CallFacts
  <2> QED
    BY <1>1, <2>1, ConfigFacts, ConfigAssumption DEF CallKind, CallOn
<1>3. PICK ok \in BOOLEAN :
          /\ IF r.op = "claim" THEN InterfaceClaim(d, n, ok) ELSE InterfaceRelease(d, n, ok)
          /\ call' = [call EXCEPT ![t].at = "note", ![t].v = IF ok THEN 1 ELSE 0]
  BY CallsOnIs DEF AskClaim
<1>4. UNCHANGED <<usb, dev, driver, active, alt, history>>
  BY DEF AskClaim
<1>5. claimedBy \in [Numbers -> Devs \cup {NoDev}]
  BY DEF IInv, OtherTypes
<1>6. /\ claimedBy' \in [Numbers -> Devs \cup {NoDev}]
      /\ \A m \in Numbers : m # n => claimedBy'[m] = claimedBy[m]
      /\ claimedBy'[n] = (IF ok THEN IF r.op = "claim" THEN d ELSE NoDev ELSE claimedBy[n])
      /\ ok <=> (Configured(n) /\ claimedBy[n] \in {NoDev, d})
  BY <1>1, <1>2, <1>3, <1>5 DEF InterfaceClaim, InterfaceRelease
<1>7. Goes(t, c) /\ c[t].at = "note" /\ c[t].v = (IF ok THEN 1 ELSE 0)
  <2> DEFINE v == IF ok THEN 1 ELSE 0
  <2>1. Moves(t, c, "note", v) /\ v \in Nat /\ "note" \in Labels
    BY <1>3 DEF Labels, Moves
  <2> HIDE DEF v
  <2>2. Goes(t, c) /\ c[t].at = "note" /\ c[t].v = v
    BY <1>1, <2>1, GoesIs
  <2> QED
    BY <2>2 DEF v
<1>8. /\ \A s \in InCall(c) : On(usb, c, s) = On(usb, call, s)
      /\ HandleCounts(usb, c, mine \cup lost) /\ Apart(usb, c)
  BY <1>1, <1>7, GoesKeeps
<1>9. /\ usb' = usb /\ dev' = dev /\ driver' = driver /\ active' = active /\ alt' = alt
      /\ mine' = mine /\ lost' = lost /\ known' = known /\ reconfigured' = reconfigured
  BY <1>4 DEF history
<1>10. ~reconfigured => Configured(n)
  <2>1. ~reconfigured => active = FirstConfig /\ dev[d].stack \in {<< >>, Numbered(0, FirstConfig)}
    BY <1>2 DEF IInv, Rest, StacksOK
  <2>2. ~reconfigured => \E j \in DOMAIN active : active[j] = n
    <3>1. CASE ~reconfigured /\ dev[d].stack = Numbered(0, FirstConfig)
      BY <1>2, <2>1, <3>1, NumberedIs, ConfigFacts
    <3> QED
      BY <1>2, <2>1, <3>1
  <2> QED
    BY <2>2 DEF Configured, Range
<1>11. \A e \in Devs, m \in Numbers : e # d \/ m # n => (claimedBy'[m] = e <=> claimedBy[m] = e)
  <2>1. \A e \in Devs : e # NoDev
    BY ConfigAssumption
  <2> HIDE DEF d, n
  <2>2. ok => claimedBy[n] \in {NoDev, d} /\ claimedBy'[n] \in {NoDev, d}
    BY ONLY <1>6
  <2>3. ~ok => claimedBy'[n] = claimedBy[n]
    BY ONLY <1>6
  <2> QED
    BY ONLY <1>6, <2>1, <2>2, <2>3
<1> HIDE DEF d, r, n, i
<1>12. call[t] = r /\ On(usb, call, t) = d /\ r.n = n /\ r.i = i /\ c = call'
  BY DEF d, r, n, i
<1>13. InCall(c) = InCall(call) /\ \A s \in InCall(call) : s # t => c[s] = call[s]
  BY ONLY <1>7 DEF Goes
<1>14. c[t].op = r.op /\ c[t].n = n /\ c[t].i = i /\ c[t].h = r.h
  BY ONLY <1>1, <1>7, <1>12 DEF Goes
<1>15. ASSUME NEW s \in InCall(c)
       PROVE  /\ CallKind(c[s]) /\ usb[c[s].h].ref > 0 /\ c[s].h \notin lost
              /\ CallOnNext(c[s], dev[On(usb, c, s)], On(usb, c, s))
  <2> DEFINE e == On(usb, call, s)
             q == c[s]
  <2>1. /\ CallKind(call[s]) /\ usb[call[s].h].ref > 0 /\ call[s].h \notin lost
        /\ CallOn(call[s], dev[e], e) /\ e \in Devs /\ s \in InCall(call)
    BY ONLY IInv, <1>13, <1>15, CallFacts
  <2>2. CASE s = t
    <3>1. CallKind(q)
      BY ONLY <1>1, <1>7, <1>12, <1>14, <2>1, <2>2 DEF CallKind, Rebuilds
    <3>2. usb[q.h].ref > 0 /\ q.h \notin lost
      BY ONLY <1>12, <1>14, <2>1, <2>2
    <3>3. /\ q.op = r.op /\ q.n = n /\ q.i = i /\ q.at = "note" /\ q.v = (IF ok THEN 1 ELSE 0) /\ e = d
          /\ q.op \notin {"set", "get", "associated", "select", "config"}
      BY ONLY <1>1, <1>7, <1>12, <1>14, <2>2
    <3>4. ~reconfigured => ((q.op = "claim" /\ q.v = 1) <=> claimedBy'[n] = d)
      <4>1. CASE ok
        BY ONLY <1>1, <1>2, <1>6, <3>3, <4>1
      <4>2. CASE ~ok
        BY ONLY <1>2, <1>6, <1>10, <3>3, <4>2
      <4> QED
        BY ONLY <4>1, <4>2
    <3> HIDE DEF q, e
    <3>5. CallOnNext(q, dev[e], e)
      BY ONLY <1>1, <1>2, <1>9, <3>3, <3>4 DEF CallOnNext, Rebuilds
    <3>6. On(usb, c, s) = e
      BY ONLY <1>8, <1>15 DEF e
    <3> QED
      BY ONLY <1>9, <1>12, <3>1, <3>2, <3>5, <3>6 DEF q
  <2>3. CASE s # t
    <3>1. q = call[s]
      BY ONLY <1>13, <2>1, <2>3
    <3>2. q.op \in {"claim", "release"} => q.n \in Numbers
      BY <2>1, <3>1, ConfigFacts DEF CallKind
    <3>3. q.op \in {"claim", "release"} /\ e = d => q.n # n
      <4>1. Apart(usb, call)
        BY DEF IInv, Rest
      <4> QED
        BY ONLY <1>1, <1>12, <2>1, <2>3, <3>1, <4>1 DEF Apart
    <3>4. q.op \in {"claim", "release"} => (claimedBy'[q.n] = e <=> claimedBy[q.n] = e)
      BY ONLY <1>11, <2>1, <3>2, <3>3
    <3>5. CallOn(q, dev[e], e)
      BY ONLY <2>1, <3>1
    <3> HIDE DEF q, e
    <3>6. CallOnNext(q, dev[e], e)
      BY ONLY <1>9, <3>4, <3>5 DEF CallOn, CallOnNext
    <3>7. On(usb, c, s) = e
      BY ONLY <1>8, <1>15 DEF e
    <3> QED
      BY ONLY <1>9, <1>12, <2>1, <3>1, <3>6, <3>7 DEF q
  <2> QED
    BY ONLY <2>2, <2>3
<1>16. CallsOK(usb, dev, call)'
  BY ONLY <1>9, <1>12, <1>15, CallsNext
<1>17. DeviceCounts(usb, dev, c)
  <2>1. DeviceCounts(usb, dev, call)
    BY DEF IInv, Rest
  <2>2. \A s \in InCall(call) : c[s].op = call[s].op /\ (call[s].op = "config" => c[s] = call[s])
    BY ONLY <1>1, <1>12, <1>13, <1>14
  <2> QED
    BY ONLY <1>8, <1>13, <2>1, <2>2 DEF DeviceCounts
<1>18. StacksOK(usb, dev)'
  BY ONLY <1>9, IInv DEF IInv, Rest, StacksOK
<1>19. ClaimsOK(usb, dev, call)'
  <2>1. ClaimsOK(usb, dev, call)
    BY DEF IInv, Rest
  <2>2. ASSUME NEW e \in Devs, ~reconfigured, NEW k \in DOMAIN dev[e].stack
        PROVE  \/ \E s \in InCall(c) : /\ On(usb, c, s) = e /\ c[s].op \in {"claim", "release"}
                                       /\ c[s].i = k
               \/ dev[e].shared[k].claimed = (claimedBy'[dev[e].stack[k]] = e)
    <3>1. \/ \E s \in InCall(call) : /\ On(usb, call, s) = e /\ call[s].op \in {"claim", "release"}
                                     /\ call[s].i = k
          \/ dev[e].shared[k].claimed = (claimedBy[dev[e].stack[k]] = e)
      BY ONLY <2>1, <2>2 DEF ClaimsOK
    <3>2. CASE e = d /\ k = i
      <4>1. On(usb, c, t) = e /\ c[t].op \in {"claim", "release"} /\ c[t].i = k /\ t \in InCall(c)
        BY ONLY <1>1, <1>8, <1>12, <1>13, <1>14, <3>2
      <4> QED
        BY ONLY <4>1
    <3>3. CASE ~(e = d /\ k = i)
      <4>1. dev[e].stack[k] \in Numbers /\ (e # d \/ dev[e].stack[k] # n)
        BY <1>2, <2>2, <3>3, StackFacts
      <4>2. (claimedBy'[dev[e].stack[k]] = e) = (claimedBy[dev[e].stack[k]] = e)
        BY ONLY <1>11, <2>2, <4>1
      <4>3. \A s \in InCall(call) : c[s].op = call[s].op /\ c[s].i = call[s].i
        BY ONLY <1>12, <1>13, <1>14
      <4> QED
        BY ONLY <1>8, <1>13, <3>1, <4>2, <4>3
    <3> QED
      BY ONLY <3>2, <3>3
  <2>3. ASSUME NEW m \in Numbers, claimedBy'[m] # NoDev
        PROVE  Users(usb, claimedBy'[m]) # {}
    <3>1. CASE claimedBy'[m] = d
      BY ONLY <1>2, <3>1
    <3>2. CASE claimedBy'[m] # d
      <4>1. claimedBy'[m] = claimedBy[m]
        BY ONLY <1>6, <2>3, <3>2
      <4> QED
        BY ONLY <2>1, <2>3, <4>1 DEF ClaimsOK
    <3> QED
      BY ONLY <3>1, <3>2
  <2> QED
    BY ONLY <1>9, <1>12, <2>2, <2>3 DEF ClaimsOK
<1>20. AltsOK(usb, dev, call)'
  <2>1. AltsOK(usb, dev, call)
    BY DEF IInv, Rest
  <2>2. \A s \in InCall(call) : call[s].op \in {"set", "get"} => c[s] = call[s]
    BY ONLY <1>1, <1>12, <1>13
  <2>3. AltsOK(usb, dev, c)
    BY ONLY <1>8, <1>13, <2>1, <2>2 DEF AltsOK
  <2> QED
    BY ONLY <1>9, <1>12, <2>3 DEF AltsOK
<1>21. PoolTypes(usb, dev, call)' /\ OtherTypes'
  <2>1. c \in [Threads -> CallType]
    BY ONLY <1>7 DEF Goes
  <2> QED
    BY ONLY IInv, <1>6, <1>9, <1>12, <2>1 DEF IInv, PoolTypes, OtherTypes
<1>22. HandleCounts(usb, call, mine \cup lost)' /\ Apart(usb, call)' /\ DeviceCounts(usb, dev, call)'
  BY ONLY <1>8, <1>9, <1>12, <1>17 DEF HandleCounts, Apart, DeviceCounts
<1> QED
  BY ONLY <1>16, <1>18, <1>19, <1>20, <1>21, <1>22 DEF IInv, Rest

\* Interface_SetAltSetting and Interface_GetAltSetting.
LEMMA AskAltOK ==
    ASSUME IInv, NEW t \in Threads, AskAlt(t), NEW c, c = call'
    PROVE  IInv'
<1> DEFINE d == On(usb, call, t)
           r == call[t]
           n == call[t].n
           i == call[t].i
           v == IF r.op = "set" THEN r.v ELSE alt[n]
           noted == IF i \in DOMAIN dev[d].stack THEN {d} ELSE {}
<1>1. t \in InCall(call) /\ r.at = "ask" /\ r.op \in {"set", "get"}
  BY DEF AskAlt, InCall
<1>2. /\ d \in Devs /\ r.h \in Users(usb, d) /\ n \in Targets /\ n \in Numbers
      /\ dev[d].shared[i].id = n
      /\ CallKind(r) /\ CallOn(r, dev[d], d) /\ v \in Alts /\ v \in Nat
  <2>1. /\ d \in Devs /\ r.h \in Users(usb, d) /\ CallKind(r) /\ CallOn(r, dev[d], d)
    BY <1>1, CallFacts
  <2>2. n \in Targets /\ n \in Numbers /\ dev[d].shared[i].id = n /\ (r.op = "set" => r.v \in Alts)
    BY <1>1, <2>1, ConfigFacts DEF CallKind, CallOn
  <2>3. v \in Alts
    BY <2>2 DEF IInv, OtherTypes
  <2> QED
    BY <2>1, <2>2, <2>3, ConfigFacts
<1>3. /\ alt' = [alt EXCEPT ![n] = v]
      /\ call' = [call EXCEPT ![t].at = "note", ![t].v = v]
      /\ known' = [m \in Targets |-> IF m # n THEN known[m]
                                     ELSE (IF v = alt[n] THEN known[n] ELSE {}) \cup noted]
      /\ UNCHANGED <<usb, dev, driver, active, claimedBy, mine, lost, reconfigured>>
  BY CallsOnIs DEF AskAlt, Found, On
<1>4. alt \in [Numbers -> Alts] /\ known \in [Targets -> SUBSET Devs]
  BY DEF IInv, OtherTypes
<1> HIDE DEF v
<1>5. Goes(t, c) /\ c[t].at = "note" /\ c[t].v = v
  <2>1. Moves(t, c, "note", v) /\ "note" \in Labels
    BY <1>3 DEF Labels, Moves
  <2> QED
    BY <1>1, <1>2, <2>1, GoesIs
<1>6. /\ \A s \in InCall(c) : On(usb, c, s) = On(usb, call, s)
      /\ HandleCounts(usb, c, mine \cup lost) /\ Apart(usb, c)
  BY <1>1, <1>5, GoesKeeps
<1>7. noted \subseteq {d} /\ (d \in noted <=> i \in DOMAIN dev[d].stack)
  OBVIOUS
<1> HIDE DEF d, r, n, i, noted
<1>8. call[t] = r /\ On(usb, call, t) = d /\ r.n = n /\ r.i = i /\ c = call'
  BY DEF d, r, n, i
<1>9. /\ usb' = usb /\ dev' = dev /\ driver' = driver /\ active' = active /\ claimedBy' = claimedBy
      /\ mine' = mine /\ lost' = lost /\ reconfigured' = reconfigured
  BY ONLY <1>3
<1>10. /\ alt' \in [Numbers -> Alts] /\ alt'[n] = v /\ \A m \in Numbers : m # n => alt'[m] = alt[m]
  BY ONLY <1>2, <1>3, <1>4
<1>11. /\ known' \in [Targets -> SUBSET Devs]
       /\ \A m \in Targets : m # n => known'[m] = known[m]
       /\ known'[n] = (IF v = alt[n] THEN known[n] ELSE {}) \cup noted
  BY ONLY <1>2, <1>3, <1>4, <1>7
\* Another file knows the setting only if it did and the setting stays.
<1>12. ASSUME NEW e \in Devs, NEW m \in Targets, e \in known'[m]
       PROVE  \/ e = d /\ m = n /\ i \in DOMAIN dev[d].stack
              \/ e \in known[m] /\ alt'[m] = alt[m]
  <2>1. CASE m # n
    BY <1>10, <1>11, <1>12, <2>1, ConfigFacts
  <2>2. CASE m = n
    BY ONLY <1>7, <1>10, <1>11, <1>12, <2>2
  <2> QED
    BY ONLY <2>1, <2>2
<1>13. InCall(c) = InCall(call) /\ \A s \in InCall(call) : s # t => c[s] = call[s]
  BY ONLY <1>5 DEF Goes
<1>14. c[t].op = r.op /\ c[t].n = n /\ c[t].i = i /\ c[t].h = r.h
  BY ONLY <1>1, <1>5, <1>8 DEF Goes
<1>15. Apart(usb, call)
  BY DEF IInv, Rest
<1>16. ASSUME NEW s \in InCall(c)
       PROVE  /\ CallKind(c[s]) /\ usb[c[s].h].ref > 0 /\ c[s].h \notin lost
              /\ CallOnNext(c[s], dev[On(usb, c, s)], On(usb, c, s))
  <2> DEFINE e == On(usb, call, s)
             q == c[s]
  <2>1. /\ CallKind(call[s]) /\ usb[call[s].h].ref > 0 /\ call[s].h \notin lost
        /\ CallOn(call[s], dev[e], e) /\ e \in Devs /\ s \in InCall(call)
    BY ONLY IInv, <1>13, <1>16, CallFacts
  <2>2. CASE s = t
    <3>1. CallKind(q)
      BY ONLY <1>1, <1>2, <1>5, <1>8, <1>14, <2>1, <2>2 DEF CallKind, Rebuilds
    <3>2. usb[q.h].ref > 0 /\ q.h \notin lost
      BY ONLY <1>8, <1>14, <2>1, <2>2
    <3>3. /\ q.op = r.op /\ q.n = n /\ q.i = i /\ q.at = "note" /\ q.v = v /\ e = d
          /\ q.op \notin {"claim", "release", "associated", "select", "config"}
      BY ONLY <1>1, <1>5, <1>8, <1>14, <2>2
    <3> HIDE DEF q, e
    <3>4. CallOnNext(q, dev[e], e)
      BY ONLY <1>2, <1>10, <3>3 DEF CallOnNext, Rebuilds
    <3>5. On(usb, c, s) = e
      BY ONLY <1>6, <1>16 DEF e
    <3> QED
      BY ONLY <3>1, <3>2, <3>4, <3>5 DEF q
  <2>3. CASE s # t
    <3>1. q = call[s]
      BY ONLY <1>13, <2>1, <2>3
    <3>2. /\ q.op \in {"set", "get"} => q.n \in Targets
          /\ q.at \in Rebuilds => q.op = "config"
      BY <2>1, <3>1 DEF CallKind
    <3>3. e = d => (q.op \in {"set", "get"} => q.n # n) /\ q.op # "config"
      BY ONLY <1>1, <1>8, <1>15, <2>1, <2>3, <3>1 DEF Apart
    <3>4. CallOn(q, dev[e], e)
      BY ONLY <2>1, <3>1
    <3> HIDE DEF q, e
    <3>5. \A m \in Targets : e \in known'[m] =>
              (e = d /\ m = n) \/ (e \in known[m] /\ alt'[m] = alt[m])
      BY ONLY <1>12, <2>1
    <3>6. CallOnNext(q, dev[e], e)
      BY ONLY <1>9, <3>2, <3>3, <3>4, <3>5 DEF CallOn, CallOnNext
    <3>7. On(usb, c, s) = e
      BY ONLY <1>6, <1>16 DEF e
    <3> QED
      BY ONLY <2>1, <3>1, <3>6, <3>7 DEF q
  <2> QED
    BY ONLY <2>2, <2>3
<1>17. CallsOK(usb, dev, call)'
  BY ONLY <1>8, <1>9, <1>16, CallsNext
<1>18. DeviceCounts(usb, dev, c)
  <2>1. DeviceCounts(usb, dev, call)
    BY DEF IInv, Rest
  <2>2. \A s \in InCall(call) : c[s].op = call[s].op /\ (call[s].op = "config" => c[s] = call[s])
    BY ONLY <1>1, <1>8, <1>13, <1>14
  <2> QED
    BY ONLY <1>6, <1>13, <2>1, <2>2 DEF DeviceCounts
<1>19. StacksOK(usb, dev)'
  BY ONLY <1>9, IInv DEF IInv, Rest, StacksOK
<1>20. ClaimsOK(usb, dev, call)'
  <2>1. ClaimsOK(usb, dev, call)
    BY DEF IInv, Rest
  <2>2. \A s \in InCall(call) : call[s].op \in {"claim", "release"} => c[s] = call[s]
    BY ONLY <1>1, <1>8, <1>13
  <2>3. ClaimsOK(usb, dev, c)
    BY ONLY <1>6, <1>13, <2>1, <2>2 DEF ClaimsOK
  <2> QED
    BY ONLY <1>8, <1>9, <2>3 DEF ClaimsOK
<1>21. AltsOK(usb, dev, call)'
  <2>1. AltsOK(usb, dev, call)
    BY DEF IInv, Rest
  <2>2. dev[d].ref > 0
    <3>1. dev[d].ref = Cardinality(Users(usb, d))
      <4>1. \A s \in InCall(call) : On(usb, call, s) = d => call[s].op # "config"
        BY ONLY <1>1, <1>8, <1>15 DEF Apart
      <4> QED
        BY <1>2, <4>1 DEF IInv, Rest, DeviceCounts
    <3> QED
      BY ONLY <1>2, <3>1, UsersFinite
  <2>3. ASSUME NEW m \in Targets, NEW e \in Devs, e \in known'[m]
        PROVE  dev[e].ref > 0
    BY ONLY <1>12, <2>1, <2>2, <2>3 DEF AltsOK
  <2>4. ASSUME NEW e \in Devs, NEW k \in DOMAIN dev[e].stack,
               dev[e].stack[k] \in Targets, e \in known'[dev[e].stack[k]]
        PROVE  \/ \E s \in InCall(c) : /\ On(usb, c, s) = e /\ c[s].op \in {"set", "get"}
                                       /\ c[s].at = "note" /\ c[s].i = k
               \/ dev[e].shared[k].alt = alt'[dev[e].stack[k]]
    <3>1. CASE e = d /\ dev[e].stack[k] = n /\ i \in DOMAIN dev[d].stack
      <4>1. k = i
        BY <1>2, <2>4, <3>1, StackFacts
      <4> QED
        BY ONLY <1>1, <1>5, <1>6, <1>8, <1>13, <1>14, <3>1, <4>1
    <3>2. CASE e \in known[dev[e].stack[k]] /\ alt'[dev[e].stack[k]] = alt[dev[e].stack[k]]
      <4>1. \/ \E s \in InCall(call) : /\ On(usb, call, s) = e /\ call[s].op \in {"set", "get"}
                                       /\ call[s].at = "note" /\ call[s].i = k
            \/ dev[e].shared[k].alt = alt[dev[e].stack[k]]
        BY ONLY <2>1, <2>4, <3>2 DEF AltsOK
      <4>2. \A s \in InCall(call) : call[s].at = "note" => c[s] = call[s]
        BY ONLY <1>1, <1>8, <1>13
      <4> QED
        BY ONLY <1>6, <1>13, <3>2, <4>1, <4>2
    <3> QED
      BY ONLY <1>12, <2>4, <3>1, <3>2
  <2> QED
    BY ONLY <1>8, <1>9, <2>3, <2>4 DEF AltsOK
<1>22. PoolTypes(usb, dev, call)' /\ OtherTypes'
  <2>1. c \in [Threads -> CallType]
    BY ONLY <1>5 DEF Goes
  <2> QED
    BY ONLY IInv, <1>8, <1>9, <1>10, <1>11, <2>1 DEF IInv, PoolTypes, OtherTypes
<1>23. HandleCounts(usb, call, mine \cup lost)' /\ Apart(usb, call)' /\ DeviceCounts(usb, dev, call)'
  BY ONLY <1>6, <1>8, <1>9, <1>18 DEF HandleCounts, Apart, DeviceCounts
<1> QED
  BY ONLY <1>17, <1>19, <1>20, <1>21, <1>22, <1>23 DEF IInv, Rest

\* A call that sets the configuration, alone on its device.
LEMMA ConfigFactsOf ==
    ASSUME IInv, NEW t \in InCall(call), call[t].op = "config", NEW d, d = On(usb, call, t)
    PROVE  /\ d \in Devs /\ CallKind(call[t]) /\ CallOn(call[t], dev[d], d)
           /\ \A s \in InCall(call) : s # t => On(usb, call, s) # d
           /\ dev[d].ref = Cardinality(Users(usb, d)) - call[t].v
           /\ call[t].h \in Handles /\ call[t].h \in Users(usb, d) /\ usb[call[t].h].ref > 0
           /\ call[t].h \notin lost /\ call[t] \in CallType
<1>1. /\ d \in Devs /\ CallKind(call[t]) /\ CallOn(call[t], dev[d], d)
      /\ call[t].h \in Handles /\ call[t].h \in Users(usb, d) /\ usb[call[t].h].ref > 0
      /\ call[t].h \notin lost /\ call[t] \in CallType
  BY CallFacts
<1>2. dev[d].ref = Cardinality(Users(usb, d)) - call[t].v
  BY <1>1 DEF IInv, Rest, DeviceCounts
<1>3. \A s \in InCall(call) : s # t => On(usb, call, s) # d
  BY DEF IInv, Rest, Apart
<1> QED
  BY ONLY <1>1, <1>2, <1>3

\* The configuration is another one; nobody knows a setting.
LEMMA ConfigureOK ==
    ASSUME IInv, NEW t \in Threads, NEW cfg \in Configs, Configure(t, cfg), NEW c, c = call'
    PROVE  IInv'
<1>1. t \in InCall(call) /\ call[t].at = "configure"
  BY DEF Configure, InCall
<1>2. call[t].op = "config" /\ CallKind(call[t]) /\ call[t].v = 0 /\ call[t] \in CallType
  <2>1. CallKind(call[t]) /\ call[t] \in CallType
    BY <1>1, CallFacts
  <2> QED
    BY <1>1, <2>1 DEF CallKind, Rebuilds
<1>3. /\ active' = cfg /\ alt' = [m \in Numbers |-> 0] /\ known' = [m \in Targets |-> {}]
      /\ reconfigured' = TRUE /\ call' = [call EXCEPT ![t].at = "dec1"]
      /\ UNCHANGED <<usb, dev, driver, claimedBy, mine, lost>>
  BY DEF Configure, At
<1>4. Goes(t, c) /\ c[t].at = "dec1" /\ c[t].v = call[t].v
  <2>1. Moves(t, c, "dec1", 0) /\ "dec1" \in Labels
    BY <1>2, <1>3 DEF Labels, Moves
  <2> QED
    BY <1>1, <1>2, <2>1, GoesIs
<1>5. /\ \A s \in InCall(c) : On(usb, c, s) = On(usb, call, s)
      /\ HandleCounts(usb, c, mine \cup lost) /\ Apart(usb, c)
  BY <1>1, <1>4, GoesKeeps
<1>6. /\ usb' = usb /\ dev' = dev /\ driver' = driver /\ claimedBy' = claimedBy
      /\ mine' = mine /\ lost' = lost /\ reconfigured' /\ active' \in Configs /\ c = call'
  BY <1>3
<1>7. \A m \in Targets : known'[m] = {}
  BY ONLY <1>3
<1>8. known' \in [Targets -> SUBSET Devs] /\ alt' \in [Numbers -> Alts]
  BY <1>3, ConfigFacts
<1>9. InCall(c) = InCall(call) /\ \A s \in InCall(call) :
          /\ s # t => c[s] = call[s]
          /\ c[s].op = call[s].op /\ c[s].i = call[s].i /\ c[s].n = call[s].n /\ c[s].h = call[s].h
  BY ONLY <1>4 DEF Goes
<1>10. ASSUME NEW s \in InCall(c)
       PROVE  /\ CallKind(c[s]) /\ usb[c[s].h].ref > 0 /\ c[s].h \notin lost
              /\ CallOnNext(c[s], dev[On(usb, c, s)], On(usb, c, s))
  <2> DEFINE e == On(usb, call, s)
             q == c[s]
  <2>1. /\ CallKind(call[s]) /\ usb[call[s].h].ref > 0 /\ call[s].h \notin lost
        /\ CallOn(call[s], dev[e], e) /\ s \in InCall(call)
    BY ONLY IInv, <1>9, <1>10, CallFacts
  <2>2. CallKind(q)
    BY ONLY <1>2, <1>4, <1>9, <2>1 DEF CallKind, Rebuilds
  <2>3. /\ q.op = call[s].op /\ q.i = call[s].i /\ q.n = call[s].n /\ q.h = call[s].h
        /\ q.at = "dec2" => call[s].at = "dec2"
        /\ q.at # "inc" => call[s].at # "inc"
        /\ q.op \in {"set", "get"} => q.n \in Targets
    BY ONLY <1>1, <1>4, <1>9, <2>1, <2>2 DEF CallKind
  <2>4. CallOn(call[s], dev[e], e)
    BY ONLY <2>1
  <2> HIDE DEF q, e
  <2>5. CallOnNext(q, dev[e], e)
    BY ONLY <1>6, <1>7, <2>3, <2>4 DEF CallOn, CallOnNext
  <2>6. On(usb, c, s) = e
    BY ONLY <1>5, <1>10 DEF e
  <2> QED
    BY ONLY <2>1, <2>2, <2>3, <2>5, <2>6 DEF q
<1>11. CallsOK(usb, dev, call)'
  BY ONLY <1>6, <1>10, CallsNext
<1>12. DeviceCounts(usb, dev, c)
  <2>1. DeviceCounts(usb, dev, call)
    BY DEF IInv, Rest
  <2>2. \A s \in InCall(call) : c[s].op = call[s].op /\ c[s].v = call[s].v
    BY ONLY <1>4, <1>9
  <2> QED
    BY ONLY <1>5, <1>9, <2>1, <2>2 DEF DeviceCounts
<1>13. StacksOK(usb, dev)'
  BY ONLY <1>6, IInv DEF IInv, Rest, StacksOK
<1>14. ClaimsOK(usb, dev, call)'
  BY ONLY <1>6, IInv DEF IInv, Rest, ClaimsOK
<1>15. AltsOK(usb, dev, call)'
  BY ONLY <1>7 DEF AltsOK
<1>16. PoolTypes(usb, dev, call)' /\ OtherTypes'
  <2>1. c \in [Threads -> CallType]
    BY ONLY <1>4 DEF Goes
  <2> QED
    BY ONLY IInv, <1>6, <1>8, <2>1 DEF IInv, PoolTypes, OtherTypes
<1>17. HandleCounts(usb, call, mine \cup lost)' /\ Apart(usb, call)' /\ DeviceCounts(usb, dev, call)'
  BY ONLY <1>5, <1>6, <1>12 DEF HandleCounts, Apart, DeviceCounts
<1> QED
  BY ONLY <1>11, <1>13, <1>14, <1>15, <1>16, <1>17 DEF IInv, Rest

\* What a rebuild leaves behind: its call c[t] and x, the device d so far.
Rebuilt(t, c, d, x) ==
    /\ CallKind(c[t]) /\ c[t].at \in Rebuilds \ {"configure"}
    /\ x.ref = Cardinality(Users(usb, d)) - c[t].v /\ (c[t].at = "dec2" => x.ref = 1)
    /\ (c[t].at # "inc" => x.count \in Counts)
    /\ \A i \in DOMAIN x.stack : x.shared[i].id = x.stack[i]

\* A step of a rebuild: only the device and what its call has taken change.
LEMMA RebuildOK ==
    ASSUME IInv, NEW t \in InCall(call), call[t].at \in {"dec1", "dec2", "build"},
           NEW d, d = On(usb, call, t),
           NEW c, c = call', Goes(t, c),
           NEW x \in DevType, dev' = [dev EXCEPT ![d] = x], Rebuilt(t, c, d, x),
           NEW u \in [Handles -> UsbType], u = usb',
           \A h \in Handles : u[h].ref = usb[h].ref /\ u[h].dev = usb[h].dev,
           UNCHANGED <<driverVars, history>>
    PROVE  IInv'
<1>1. call[t].op = "config" /\ call[t].at \in Rebuilds \ {"configure"}
  <2>1. CallKind(call[t])
    BY CallFacts
  <2> QED
    BY <2>1 DEF CallKind, Rebuilds
<1>2. /\ d \in Devs /\ CallOn(call[t], dev[d], d)
      /\ \A s \in InCall(call) : s # t => On(usb, call, s) # d
      /\ dev[d].ref = Cardinality(Users(usb, d)) - call[t].v
      /\ call[t].h \in Handles /\ usb[call[t].h].ref > 0 /\ call[t].h \notin lost
  BY <1>1, ConfigFactsOf
<1>3. reconfigured /\ \A n \in Targets : d \notin known[n]
  BY ONLY <1>1, <1>2 DEF CallOn
<1>4. /\ usb' = u /\ driver' = driver /\ active' = active /\ alt' = alt /\ claimedBy' = claimedBy
      /\ mine' = mine /\ lost' = lost /\ known' = known /\ reconfigured' = reconfigured /\ c = call'
  BY DEF driverVars, history
<1>5. dev' \in [Devs -> DevType] /\ dev'[d] = x /\ \A e \in Devs : e # d => dev'[e] = dev[e]
  <2>1. dev \in [Devs -> DevType]
    BY DEF IInv, PoolTypes
  <2> QED
    BY <1>2, <2>1
<1>6. /\ \A s \in InCall(c) : On(usb, c, s) = On(usb, call, s)
      /\ HandleCounts(usb, c, mine \cup lost) /\ Apart(usb, c)
  BY GoesKeeps
<1>7. InCall(c) = InCall(call) /\ \A s \in InCall(call) :
          /\ s # t => c[s] = call[s]
          /\ c[s].op = call[s].op /\ c[s].i = call[s].i /\ c[s].n = call[s].n /\ c[s].h = call[s].h
  BY DEF Goes
<1>8. \A s \in InCall(c) : s \in InCall(call) /\ On(u, c, s) = On(usb, call, s) /\ c[s].h \in Handles
  <2>1. \A s \in InCall(c) : c[s].h \in Handles
    BY <1>7, CallFacts
  <2>2. \A s \in InCall(c) : On(u, c, s) = On(usb, c, s)
    BY <2>1 DEF On
  <2> QED
    BY ONLY <1>6, <1>7, <2>1, <2>2
<1>9. \A e : Users(u, e) = Users(usb, e)
  BY DEF Users
<1>10. /\ CallKind(c[t]) /\ c[t].at \in Rebuilds \ {"configure"} /\ x.ref = Cardinality(Users(usb, d)) - c[t].v
       /\ (c[t].at = "dec2" => x.ref = 1) /\ (c[t].at # "inc" => x.count \in Counts)
       /\ \A i \in DOMAIN x.stack : x.shared[i].id = x.stack[i]
       /\ \A h \in Handles : u[h].ref = usb[h].ref /\ u[h].dev = usb[h].dev
       /\ On(usb, call, t) = d /\ t \in InCall(call) /\ c \in [Threads -> CallType]
       /\ u \in [Handles -> UsbType]
  BY DEF Goes, Rebuilt
<1>11. ASSUME NEW s \in InCall(c)
       PROVE  /\ CallKind(c[s]) /\ u[c[s].h].ref > 0 /\ c[s].h \notin lost
              /\ CallOnNext(c[s], dev'[On(u, c, s)], On(u, c, s))
  <2> DEFINE e == On(usb, call, s)
             q == c[s]
  <2>1. CASE s = t
    <3>1. q.op = "config" /\ e = d /\ q = c[t] /\ q.h = call[t].h
      BY ONLY <1>1, <1>7, <1>10, <2>1
    <3> HIDE DEF q, e
    <3>2. CallOnNext(q, x, d)
      BY ONLY <1>3, <1>4, <1>10, <3>1 DEF CallOnNext
    <3>3. On(u, c, s) = d
      BY ONLY <1>8, <1>11, <3>1 DEF e
    <3> QED
      BY ONLY <1>2, <1>5, <1>10, <3>1, <3>2, <3>3 DEF q
  <2>2. CASE s # t
    <3>1. /\ CallKind(q) /\ usb[q.h].ref > 0 /\ q.h \notin lost /\ CallOn(q, dev[e], e)
          /\ e \in Devs /\ e # d /\ q.h \in Handles
      <4>1. s \in InCall(call) /\ q = call[s] /\ e # d
        BY ONLY <1>2, <1>7, <1>11, <2>2
      <4>2. /\ CallKind(call[s]) /\ usb[call[s].h].ref > 0 /\ call[s].h \notin lost /\ e \in Devs
            /\ CallOn(call[s], dev[e], e) /\ call[s].h \in Handles
        BY ONLY IInv, <4>1, CallFacts
      <4> QED
        BY ONLY <4>1, <4>2
    <3> HIDE DEF q, e
    <3>2. CallOnNext(q, dev[e], e)
      BY ONLY <1>4, <3>1 DEF CallOn, CallOnNext
    <3>3. On(u, c, s) = e
      BY ONLY <1>8, <1>11 DEF e
    <3> QED
      BY ONLY <1>5, <1>10, <3>1, <3>2, <3>3 DEF q
  <2> QED
    BY ONLY <2>1, <2>2
<1>12. CallsOK(usb, dev, call)'
  <2> DEFINE w == dev'
  <2>1. \A s \in InCall(c) :
            /\ CallKind(c[s]) /\ u[c[s].h].ref > 0 /\ c[s].h \notin lost
            /\ CallOnNext(c[s], w[On(u, c, s)], On(u, c, s))
    BY ONLY <1>11
  <2>2. w = dev'
    OBVIOUS
  <2> HIDE DEF w
  <2> QED
    BY ONLY <1>4, <2>1, <2>2, CallsNext
<1>13. HandleCounts(usb, call, mine \cup lost)'
  <2>1. HandleCounts(u, c, mine \cup lost)
    BY ONLY <1>6, <1>10 DEF HandleCounts
  <2> QED
    BY ONLY <1>4, <2>1 DEF HandleCounts
<1>14. Apart(usb, call)'
  <2>1. Apart(u, c)
    BY ONLY <1>6, <1>8 DEF Apart
  <2> QED
    BY ONLY <1>4, <2>1 DEF Apart
<1>15. DeviceCounts(usb, dev, call)'
  <2>1. DeviceCounts(usb, dev, call)
    BY DEF IInv, Rest
  <2>2. ASSUME NEW e \in Devs
        PROVE  /\ (\A s \in InCall(c) : On(u, c, s) = e => c[s].op # "config")
                      => dev'[e].ref = Cardinality(Users(u, e))
               /\ \A s \in InCall(c) : On(u, c, s) = e /\ c[s].op = "config"
                      => dev'[e].ref = Cardinality(Users(u, e)) - c[s].v
    <3>1. CASE e = d
      <4>1. \A s \in InCall(c) : On(u, c, s) = e => s = t
        BY ONLY <1>2, <1>8, <3>1
      <4>2. On(u, c, t) = e /\ c[t].op = "config" /\ t \in InCall(c)
        BY ONLY <1>1, <1>7, <1>8, <1>10, <3>1
      <4>3. dev'[e].ref = Cardinality(Users(u, e)) - c[t].v
        BY ONLY <1>5, <1>9, <1>10, <3>1
      <4> QED
        BY ONLY <4>1, <4>2, <4>3
    <3>2. CASE e # d
      <4>1. dev'[e] = dev[e] /\ Users(u, e) = Users(usb, e)
        BY ONLY <1>5, <1>9, <2>2, <3>2
      <4>2. \A s \in InCall(call) : On(usb, call, s) = e => c[s] = call[s]
        BY ONLY <1>7, <1>10, <3>2
      <4> QED
        BY ONLY <1>7, <1>8, <2>1, <2>2, <4>1, <4>2 DEF DeviceCounts
    <3> QED
      BY ONLY <3>1, <3>2
  <2> QED
    BY ONLY <1>4, <2>2 DEF DeviceCounts
<1>16. StacksOK(usb, dev)'
  <2>1. StacksOK(usb, dev)
    BY DEF IInv, Rest
  <2> QED
    BY ONLY <1>3, <1>4, <1>5, <1>10, <2>1 DEF StacksOK
<1>17. ClaimsOK(usb, dev, call)'
  <2>1. ClaimsOK(usb, dev, call)
    BY DEF IInv, Rest
  <2> QED
    BY ONLY <1>3, <1>4, <1>9, <2>1 DEF ClaimsOK
<1>18. AltsOK(usb, dev, call)'
  <2>1. AltsOK(usb, dev, call)
    BY DEF IInv, Rest
  <2>2. \A n \in Targets, e \in Devs : e \in known[n] => dev'[e].ref > 0
    BY ONLY <1>3, <1>5, <2>1 DEF AltsOK
  <2>3. ASSUME NEW e \in Devs, NEW k \in DOMAIN dev'[e].stack,
               dev'[e].stack[k] \in Targets, e \in known[dev'[e].stack[k]]
        PROVE  \/ \E s \in InCall(c) : /\ On(u, c, s) = e /\ c[s].op \in {"set", "get"}
                                       /\ c[s].at = "note" /\ c[s].i = k
               \/ dev'[e].shared[k].alt = alt[dev'[e].stack[k]]
    <3>1. dev'[e] = dev[e]
      BY ONLY <1>3, <1>5, <2>3
    <3>2. \/ \E s \in InCall(call) : /\ On(usb, call, s) = e /\ call[s].op \in {"set", "get"}
                                     /\ call[s].at = "note" /\ call[s].i = k
          \/ dev[e].shared[k].alt = alt[dev[e].stack[k]]
      BY ONLY <2>1, <2>3, <3>1 DEF AltsOK
    <3>3. \A s \in InCall(call) : call[s].op \in {"set", "get"} => c[s] = call[s]
      BY ONLY <1>1, <1>7
    <3> QED
      BY ONLY <1>7, <1>8, <3>1, <3>2, <3>3
  <2> QED
    BY ONLY <1>4, <2>2, <2>3 DEF AltsOK
<1>19. PoolTypes(usb, dev, call)' /\ OtherTypes'
  BY ONLY IInv, <1>4, <1>5, <1>10 DEF IInv, PoolTypes, OtherTypes
<1> QED
  BY ONLY <1>12, <1>13, <1>14, <1>15, <1>16, <1>17, <1>18, <1>19 DEF IInv, Rest

\* A reference is taken from the device.
LEMMA RebuildDecOK ==
    ASSUME IInv, NEW t \in Threads, RebuildDec(t)
    PROVE  IInv'
<1> DEFINE d == On(usb, call, t)
           r == call[t]
           x == [dev[d] EXCEPT !.ref = dev[d].ref - 1]
           a == IF r.at = "dec1" /\ dev[d].ref = 2 THEN "dec2"
                ELSE IF r.at # "dec1" /\ dev[d].ref = 1 THEN "build" ELSE "inc"
           v == r.v + 1
<1>1. t \in InCall(call) /\ r.at \in {"dec1", "dec2"}
  BY DEF RebuildDec, InCall
<1>2. r.op = "config" /\ (r.at = "dec1" => r.v = 0) /\ (r.at = "dec2" => r.v = 1)
  <2>1. CallKind(r)
    BY <1>1, CallFacts
  <2> QED
    BY <1>1, <2>1 DEF CallKind, Rebuilds
<1>3. /\ d \in Devs /\ CallKind(r) /\ CallOn(r, dev[d], d) /\ r.h \in Users(usb, d)
      /\ dev[d].ref = Cardinality(Users(usb, d)) - r.v
  BY <1>1, <1>2, ConfigFactsOf
<1>4. dev[d].ref \in Nat \ {0} /\ Cardinality(Users(usb, d)) \in Nat
  <2>1. r.at = "dec2" => dev[d].ref = 1
    BY ONLY <1>3 DEF CallOn
  <2>2. Cardinality(Users(usb, d)) \in Nat \ {0}
    BY ONLY <1>3, UsersFinite
  <2> QED
    BY ONLY <1>1, <1>2, <1>3, <2>1, <2>2
<1>5. /\ dev[d] \in DevType /\ \A i \in DOMAIN dev[d].stack : dev[d].shared[i].id = dev[d].stack[i]
      /\ dev[d].ref = 1 \/ r.at = "dec1"
      /\ dev[d].count \in Counts
  BY <1>1, <1>2, <1>3, StackFacts DEF CallOn
<1>6. /\ dev' = [dev EXCEPT ![d] = x] /\ call' = [call EXCEPT ![t].at = a, ![t].v = v]
      /\ UNCHANGED <<usb, driverVars, history>>
  <2>1. /\ dev' = [dev EXCEPT ![d].ref = dev[d].ref - 1] /\ UNCHANGED <<usb, driverVars, history>>
        /\ call' = [call EXCEPT ![t].v = call[t].v + 1, ![t].at = a]
    BY CallsOnIs DEF RebuildDec, On
  <2>2. call \in [Threads -> CallType] /\ call[t] \in CallType
    BY DEF IInv, PoolTypes
  <2>3. dev' = [dev EXCEPT ![d] = x]
    BY <2>1
  <2>4. call' = [call EXCEPT ![t].at = a, ![t].v = v]
    <3>1. [[call[t] EXCEPT !.v = v] EXCEPT !.at = a] = [[call[t] EXCEPT !.at = a] EXCEPT !.v = v]
      BY <2>2 DEF CallType
    <3> QED
      BY <2>1, <2>2, <3>1
  <2> QED
    BY <2>1, <2>3, <2>4
<1>7. x \in DevType /\ x.ref = dev[d].ref - 1 /\ x.stack = dev[d].stack /\ x.count = dev[d].count /\ x.shared = dev[d].shared
  BY <1>4, <1>5 DEF DevType
<1> HIDE DEF x
<1>8. /\ a \in Labels /\ a # "idle" /\ a \in {"dec2", "build", "inc"}
      /\ a = "dec2" => r.at = "dec1" /\ dev[d].ref = 2
      /\ a = "build" => r.at = "dec2"
      /\ a = "inc" => r.at = "dec1"
      /\ v \in Nat /\ v = r.v + 1
  BY <1>1, <1>2, <1>5 DEF Labels
<1> HIDE DEF a, v
<1> SUFFICES ASSUME NEW c, c = call'
             PROVE  IInv'
  OBVIOUS
<1>9. Goes(t, c) /\ c[t].at = a /\ c[t].v = v
  <2>1. Moves(t, c, a, v)
    BY <1>6 DEF Moves
  <2> QED
    BY <1>1, <1>8, <2>1, GoesIs
<1> HIDE DEF d, r
<1>10. r = call[t] /\ d = On(usb, call, t)
  BY DEF r, d
<1>11. c[t].op = r.op /\ c[t].h = r.h /\ c[t].n = r.n /\ c[t].i = r.i
  BY ONLY <1>1, <1>9, <1>10 DEF Goes
<1>12. CallKind(c[t]) /\ c[t].at \in Rebuilds \ {"configure"}
  BY ONLY <1>2, <1>3, <1>8, <1>9, <1>11 DEF CallKind, Rebuilds
<1>13. x.ref = Cardinality(Users(usb, d)) - c[t].v /\ (c[t].at = "dec2" => x.ref = 1)
  BY ONLY <1>2, <1>3, <1>4, <1>7, <1>8, <1>9
<1>14. Rebuilt(t, c, d, x) /\ x \in DevType /\ call[t].at \in {"dec1", "dec2", "build"}
  <2>1. x.count \in Counts /\ \A i \in DOMAIN x.stack : x.shared[i].id = x.stack[i]
    BY ONLY <1>5, <1>7
  <2> QED
    BY ONLY <1>1, <1>7, <1>10, <1>12, <1>13, <2>1 DEF Rebuilt
<1>15. dev' = [dev EXCEPT ![d] = x] /\ UNCHANGED <<driverVars, history>>
  BY ONLY <1>6
<1>16. PICK u : u = usb'
  OBVIOUS
<1>17. u \in [Handles -> UsbType] /\ \A h \in Handles : u[h].ref = usb[h].ref /\ u[h].dev = usb[h].dev
  <2>1. u = usb /\ usb \in [Handles -> UsbType]
    BY <1>6, <1>16 DEF IInv, PoolTypes
  <2> QED
    BY ONLY <2>1
<1>18. c = call'
  OBVIOUS
<1> QED
  BY ONLY IInv, <1>1, <1>9, <1>10, <1>14, <1>15, <1>16, <1>17, <1>18, RebuildOK

\* The stack is built anew.
LEMMA RebuildStackOK ==
    ASSUME IInv, NEW t \in Threads, NEW read \in BOOLEAN, RebuildStack(t, read)
    PROVE  IInv'
<1> DEFINE d == On(usb, call, t)
           r == call[t]
           h == call[t].h
           y == [dev[d] EXCEPT !.stack = << >>]
           x == IF read THEN WithStack(y, active) ELSE y
           z == [usb[h] EXCEPT !.sel = 1]
           u == [usb EXCEPT ![h] = z]
<1>1. t \in InCall(call) /\ r.at = "build"
  BY DEF RebuildStack, InCall
<1>2. r.op = "config" /\ r.v = 2
  <2>1. CallKind(r)
    BY <1>1, CallFacts
  <2> QED
    BY <1>1, <2>1 DEF CallKind, Rebuilds
<1>3. /\ d \in Devs /\ CallKind(r) /\ CallOn(r, dev[d], d) /\ h \in Handles
      /\ dev[d].ref = Cardinality(Users(usb, d)) - r.v
  BY <1>1, <1>2, ConfigFactsOf
<1>4. dev[d] \in DevType /\ usb[h] \in UsbType /\ active \in Configs /\ usb \in [Handles -> UsbType]
  BY <1>3 DEF IInv, PoolTypes, OtherTypes
<1>5. /\ dev' = [dev EXCEPT ![d] = x] /\ usb' = u /\ call' = [call EXCEPT ![t].at = "inc"]
      /\ UNCHANGED <<driverVars, history>>
  BY CallsOnIs DEF RebuildStack, At, On
<1>6. y \in DevType /\ y.ref = dev[d].ref /\ y.stack = << >> /\ DOMAIN y.stack = {} /\ y.count \in Counts
  <2>1. dev[d].count \in Counts
    BY <1>1, <1>2, <1>3 DEF CallOn
  <2>2. << >> \in Stacks
    BY DEF Stacks
  <2> QED
    BY <1>4, <2>1, <2>2 DEF DevType
<1> HIDE DEF y
<1>7. x \in DevType /\ x.ref = dev[d].ref /\ \A i \in DOMAIN x.stack : x.shared[i].id = x.stack[i]
  <2>1. CASE read
    BY <1>4, <1>6, <2>1, WithStackIs
  <2>2. CASE ~read
    BY <1>6, <2>2
  <2> QED
    BY <2>1, <2>2
<1> HIDE DEF x
<1>8. z \in UsbType /\ z.ref = usb[h].ref /\ z.dev = usb[h].dev
  BY <1>4, ConfigFacts DEF UsbType
<1> HIDE DEF z
<1>9. u \in [Handles -> UsbType] /\ \A g \in Handles : u[g].ref = usb[g].ref /\ u[g].dev = usb[g].dev
  BY <1>3, <1>4, <1>8
<1> HIDE DEF u
<1> SUFFICES ASSUME NEW c, c = call'
             PROVE  IInv'
  OBVIOUS
<1>10. Goes(t, c) /\ c[t].at = "inc" /\ c[t].v = 2
  <2>1. Moves(t, c, "inc", 2) /\ "inc" \in Labels
    BY <1>2, <1>5 DEF Moves, Labels
  <2> QED
    BY <1>1, <2>1, GoesIs
<1> HIDE DEF d, r, h
<1>11. r = call[t] /\ d = On(usb, call, t)
  BY DEF r, d
<1>12. c[t].op = r.op /\ c[t].h = r.h /\ c[t].n = r.n /\ c[t].i = r.i
  BY ONLY <1>1, <1>10, <1>11 DEF Goes
<1>13. CallKind(c[t]) /\ c[t].at \in Rebuilds \ {"configure"} /\ c[t].at # "dec2"
  BY ONLY <1>2, <1>3, <1>10, <1>12 DEF CallKind, Rebuilds
<1>14. Rebuilt(t, c, d, x) /\ x \in DevType /\ call[t].at \in {"dec1", "dec2", "build"}
  <2>1. x.ref = Cardinality(Users(usb, d)) - c[t].v
    BY ONLY <1>2, <1>3, <1>7, <1>10, <1>11
  <2> QED
    BY ONLY <1>1, <1>7, <1>10, <1>11, <1>13, <2>1 DEF Rebuilt
<1>15. u = usb' /\ c = call'
  BY <1>5
<1>16. dev' = [dev EXCEPT ![d] = x] /\ UNCHANGED <<driverVars, history>>
  BY ONLY <1>5
<1> QED
  BY ONLY IInv, <1>1, <1>9, <1>10, <1>11, <1>14, <1>15, <1>16, RebuildOK

\* Nothing changes.
LEMMA StutterOK ==
    ASSUME IInv, UNCHANGED vars
    PROVE  IInv'
<1>1. /\ usb' = usb /\ dev' = dev /\ call' = call /\ driver' = driver /\ active' = active /\ alt' = alt
      /\ claimedBy' = claimedBy /\ mine' = mine /\ lost' = lost /\ known' = known
      /\ reconfigured' = reconfigured
  BY DEF vars, driverVars, history
<1>2. PoolTypes(usb, dev, call)' /\ OtherTypes' /\ HandleCounts(usb, call, mine \cup lost)'
  BY <1>1 DEF IInv, PoolTypes, OtherTypes, HandleCounts
<1>3. DeviceCounts(usb, dev, call)' /\ Apart(usb, call)' /\ StacksOK(usb, dev)'
  BY <1>1 DEF IInv, Rest, DeviceCounts, Apart, StacksOK
<1>4. ClaimsOK(usb, dev, call)' /\ AltsOK(usb, dev, call)'
  BY <1>1 DEF IInv, Rest, ClaimsOK, AltsOK
<1>5. CallsOK(usb, dev, call)'
  BY <1>1 DEF IInv, Rest, CallsOK, CallOn
<1> QED
  BY <1>2, <1>3, <1>4, <1>5 DEF IInv, Rest

LEMMA NextOK ==
    ASSUME ConfigAlone, IInv, Next
    PROVE  IInv'
<1>1. PICK t \in Threads :
          \/ \E h \in Handles, d \in Devs : InitHandle(t, h, d) \/ InitNoMemory(t, h, d)
          \/ \E h \in mine : Free(t, h) \/ Begin(t, h)
          \/ \E new \in Handles : MakeClone(t, new)
          \/ MakeCloneFails(t)
          \/ AskClaim(t) \/ AskAlt(t) \/ AskAltFails(t) \/ Note(t)
          \/ \E c \in Configs : Configure(t, c)
          \/ ConfigureFails(t) \/ RebuildDec(t)
          \/ \E read \in BOOLEAN : RebuildStack(t, read)
          \/ RebuildInc(t)
  BY DEF Next
<1>2. CASE \E h \in Handles, d \in Devs : InitHandle(t, h, d) \/ InitNoMemory(t, h, d)
  BY <1>2, InitHandleOK
<1>3. ASSUME NEW h \in mine, Free(t, h)
      PROVE  IInv'
  BY <1>3, FreeOK
<1>4. ASSUME NEW h \in mine, Begin(t, h)
      PROVE  IInv'
  BY <1>4, BeginOK
<1>5. ASSUME NEW new \in Handles, MakeClone(t, new)
      PROVE  IInv'
  BY <1>5, MakeCloneOK
<1>6. CASE MakeCloneFails(t) \/ AskAltFails(t) \/ ConfigureFails(t)
  BY <1>6, FailsOK
<1>7. CASE AskClaim(t)
  BY <1>7, AskClaimOK
<1>8. CASE AskAlt(t)
  BY <1>8, AskAltOK
<1>9. CASE Note(t)
  BY <1>9, NoteOK
<1>10. ASSUME NEW cfg \in Configs, Configure(t, cfg)
       PROVE  IInv'
  BY <1>10, ConfigureOK
<1>11. CASE RebuildDec(t)
  BY <1>11, RebuildDecOK
<1>12. ASSUME NEW read \in BOOLEAN, RebuildStack(t, read)
       PROVE  IInv'
  BY <1>12, RebuildStackOK
<1>13. CASE RebuildInc(t)
  BY <1>13, RebuildIncOK
<1> QED
  BY ONLY <1>1, <1>2, <1>3, <1>4, <1>5, <1>6, <1>7, <1>8, <1>9, <1>10, <1>11, <1>12, <1>13

LEMMA Inductive ==
    ASSUME ConfigAlone
    PROVE  Spec => []IInv
<1>1. IInv /\ [Next]_vars => IInv'
  BY NextOK, StutterOK
<1> QED
  BY <1>1, InitOK, PTL DEF Spec

-----------------------------------------------------------------------------
(***************************************************************************)
(* What follows.                                                           *)
(***************************************************************************)

\* A device's handles and the calls of a rebuild, as InterfaceStack names them.
LEMMA UsersAre ==
    /\ \A d : UsersOf(d) = Users(usb, d)
    /\ \A d : Rebuilding(d) = {t \in InCall(call) : On(usb, call, t) = d /\ call[t].op = "config"}
BY CallsOnIs DEF UsersOf, Users, Rebuilding

LEMMA CountsHold == IInv => RefsConsistent
<1> SUFFICES ASSUME IInv
             PROVE  RefsConsistent
  OBVIOUS
<1>1. TypeOK
  <2>1. usb \in [Handles -> UsbType] /\ dev \in [Devs -> DevType] /\ call \in [Threads -> CallType]
    BY DEF IInv, PoolTypes
  <2>2. \A d \in Devs : /\ dev[d].ref \in Nat /\ dev[d].stack \in Stacks /\ dev[d].count \in Nat
                        /\ dev[d].shared \in [Indexes -> SharedType]
    BY <2>1 DEF DevType
  <2>3. \A t \in Threads : call[t].at \in Labels /\ call[t].i \in Indexes
    BY <2>1 DEF CallType
  <2> QED
    BY <2>1, <2>2, <2>3 DEF IInv, OtherTypes, TypeOK, UsbType, SharedType
<1>2. RefsExact
  <2>1. ASSUME NEW h \in Handles
        PROVE  usb[h].ref = Cardinality({t \in Busy : call[t].h = h})
                            + (IF h \in mine \cup lost THEN 1 ELSE 0)
    <3>1. CallsTo(call, h) = {t \in Busy : call[t].h = h}
      BY CallsOnIs DEF CallsTo
    <3> QED
      BY <3>1 DEF IInv, HandleCounts
  <2>2. DeviceCounts(usb, dev, call)
    BY DEF IInv, Rest
  <2>3. ASSUME NEW d \in Devs, Rebuilding(d) = {}
        PROVE  dev[d].ref = Cardinality(UsersOf(d))
    BY <2>2, <2>3, UsersAre DEF DeviceCounts
  <2>4. ASSUME NEW d \in Devs, NEW t \in Rebuilding(d)
        PROVE  dev[d].ref = Cardinality(UsersOf(d)) - call[t].v
    BY <2>2, UsersAre DEF DeviceCounts
  <2> QED
    BY <2>1, <2>3, <2>4 DEF RefsExact
<1>3. SelectedExists
  <2>1. ASSUME NEW h \in mine, ~reconfigured
        PROVE  usb[h].sel \in Found(h)
    BY <2>1, MineCounts, HandleFacts DEF Found
  <2> QED
    BY <2>1 DEF SelectedExists
<1> QED
  BY <1>1, <1>2, <1>3 DEF RefsConsistent

LEMMA ClaimsHold == IInv => ClaimsExact
<1> SUFFICES ASSUME IInv
             PROVE  ClaimsExact
  OBVIOUS
<1>1. ClaimsOK(usb, dev, call)
  BY DEF IInv, Rest
<1>2. ClaimCacheExact
  BY <1>1, CallsOnIs DEF ClaimsOK, ClaimCacheExact
<1>3. ClaimsOfOpenFiles
  BY <1>1, UsersAre DEF ClaimsOK, ClaimsOfOpenFiles
<1> QED
  BY <1>2, <1>3 DEF ClaimsExact

LEMMA SettingsHold == IInv => AltCacheExact
<1> SUFFICES ASSUME IInv, NEW d \in Devs, NEW i \in DOMAIN dev[d].stack,
                    dev[d].stack[i] \in Targets, d \in known[dev[d].stack[i]],
                    dev[d].shared[i].alt # alt[dev[d].stack[i]]
             PROVE  \E t \in CallsOn(d) : call[t].op \in {"set", "get"} /\ call[t].n = dev[d].stack[i]
  BY DEF AltCacheExact
<1>1. PICK t \in InCall(call) : /\ On(usb, call, t) = d /\ call[t].op \in {"set", "get"}
                                /\ call[t].at = "note" /\ call[t].i = i
  BY DEF IInv, Rest, AltsOK
<1>2. dev[d].shared[i].id = call[t].n
  BY <1>1, CallFacts DEF CallOn
<1>3. dev[d].shared[i].id = dev[d].stack[i]
  BY StackFacts
<1> QED
  BY <1>1, <1>2, <1>3, CallsOnIs

\* Every UsbK handle counts its owner and the calls on it, every DevK object its
\* handles, less the references UsbStack_Rebuild has taken: through clones, frees
\* during calls, initialisations that ran out of memory and the rebuilding of the
\* stack no reference is lost or given up twice, so that k_Cleanup_DevK closes the
\* file with the last handle and never before; and the interface a handle has
\* selected exists until the configuration is changed.
THEOREM CountsAreExact ==
    ASSUME ConfigAlone
    PROVE  Spec => []RefsConsistent
<1>1. Spec => []IInv
  BY Inductive
<1> QED
  BY <1>1, CountsHold, PTL

\* The claims the library notes in the shared records are those the driver has
\* for the file, but while a claim or release of that interface is in progress,
\* and the driver has claims of open files only, whichever handle claimed, was
\* cloned or freed (Interface_Claim, Interface_Release, k_Cleanup_DevK).
THEOREM ClaimsAreExact ==
    ASSUME ConfigAlone
    PROVE  Spec => []ClaimsExact
<1>1. Spec => []IInv
  BY Inductive
<1> QED
  BY <1>1, ClaimsHold, PTL

\* The alternate setting the library noted for an interface, by which it looks
\* pipes up, is the driver's active one, while nobody else has changed that since
\* the file set or read it and no call of the file is about to note another.
THEOREM SettingIsActive ==
    ASSUME ConfigAlone
    PROVE  Spec => []AltCacheExact
<1>1. Spec => []IInv
  BY Inductive
<1> QED
  BY <1>1, SettingsHold, PTL
=============================================================================
