---------------------------- MODULE HotPlug_proofs ----------------------------
(***************************************************************************)
(* Proofs about HotPlug: for any number of application threads, devices,   *)
(* handles and slots, whatever fails, if the application does not call     *)
(* HotK_Init again after a start that failed or after HotK_FreeAll: the    *)
(* counts by which the monitor is made and destroyed are exact, what the   *)
(* hot thread works on outlives its use, and the handles that are reported *)
(* to are the application's.  HotK_Init may come before the last hot       *)
(* thread has ended: what such a thread takes from its successor is noted  *)
(* in upset, and it takes nothing else.                                    *)
(***************************************************************************)
EXTENDS HotPlug, SequenceTheorems, FiniteSetTheorems, TLAPS

-----------------------------------------------------------------------------
(***************************************************************************)
(* The inductive invariant.                                                *)
(***************************************************************************)

Opening == {"start", "resume", "waitWindow", "error", "sendInit", "initAnswer"}
Freeing == {"decLock", "sendFree", "freeAnswer"}
Closing == {"freeAll", "waitExit"}

\* A hot thread that has closed its window, or will have none.
Over == {"none", "quit", "leaving", "closing"}

\* What there is while the hot thread is where it is, and where the calls that
\* start and stop it may be.
ThreadInv ==
    /\ hwnd <=> thread = "loop"
    /\ upset \/ thread \in {"none", "closing"} \/ threadHandle
    /\ upset \/ thread = "none" \/ heap
    /\ active => \A h \in Handles : ~older[h].mine
    /\ ended \/ thread \in Over \/ hasList
    /\ hasList => thread = "loop" \/ \E a \in Apps : pc[a] \in {"resume", "waitWindow", "error"}
    /\ \A a \in Apps :
           /\ pc[a] = "start" => thread \in Over
           /\ pc[a] = "resume" => thread = "suspended"
           /\ pc[a] \in {"sendInit", "initAnswer", "freeAll"} => thread = "loop"
           /\ pc[a] = "waitExit" => thread = "loop" \/ thread \in Over
    /\ owned # {} /\ ~ended => thread = "loop"
    /\ ended \/ thread \in Over \/ owned # {} \/ \E a \in Apps : pc[a] # "idle"

\* Some handle is neither new nor being freed.
HasSteady == \E h \in owned : \A a \in Apps : arg[a] # h

\* A call and its handle.  The first HotK_Init, the last HotK_Free and
\* HotK_FreeAll are alone; other calls go on beside a steady handle.
CallInv ==
    /\ \A a \in Apps :
           /\ pc[a] = "idle" => arg[a] = NoHandle
           /\ pc[a] \in Opening => arg[a] \in used \ owned /\ ~ended
           /\ pc[a] \in Freeing => arg[a] \in owned /\ ~ended
           /\ pc[a] \in Closing => (arg[a] = NoHandle <=> ended) /\ (~ended => owned = {})
           /\ pc[a] \in {"start", "resume", "waitWindow", "error"} => owned = {}
    /\ \A a, b \in Apps :
           a # b /\ pc[a] # "idle" /\ pc[b] # "idle" =>
               arg[a] # arg[b] /\ HasSteady /\ arg[a] # NoHandle
    /\ owned \subseteq used
    /\ ended => owned = {} \/ \E a \in Apps : pc[a] # "idle"

\* The call that counted HotLockCount down to 0 frees the last handle.
LastInv ==
    \A a \in Apps :
        pc[a] \in {"sendFree", "freeAnswer"} =>
            IF lockCnt[a] = 0 THEN owned = {arg[a]} ELSE HasSteady

\* The label at which a call waits for the answer to a message.
WaitsAt(kind) == CASE kind = "init" -> "initAnswer"
                   [] kind = "free" -> "freeAnswer"
                   [] kind = "destroy" -> "waitExit"

\* Each message is that of a call that waits for its answer.
SentInv ==
    /\ sent # << >> => thread = "loop"
    /\ \A k \in DOMAIN sent :
           /\ sent[k].h = arg[sent[k].app]
           /\ result[sent[k].app] = "none"
           /\ pc[sent[k].app] = WaitsAt(sent[k].kind)
    /\ \A j, k \in DOMAIN sent : sent[j].app = sent[k].app => j = k

\* Handles the hot thread has freed and the call does not know yet, and handles
\* it has made and the application does not have yet.
Gone(h) == \E a \in Apps : pc[a] = "freeAnswer" /\ result[a] # "none" /\ arg[a] = h
Made(h) == \E a \in Apps : pc[a] = "initAnswer" /\ result[a] = "done" /\ arg[a] = h

\* A call gets the answer that was meant for it; Items are the handles the
\* application has, but for answers it has not seen.
AnswerInv ==
    /\ \A a \in Apps :
           /\ pc[a] = "initAnswer" => result[a] # "zero"
           /\ pc[a] = "freeAnswer" => result[a] \in {"none", "done"}
    /\ ~ended =>
           \A h \in Handles : h \in ItemSet <=> (h \in owned /\ ~Gone(h)) \/ Made(h)

\* The counts, with the bounds that hold when a call was lost.
Kept == owned \ {arg[a] : a \in In({"sendFree", "freeAnswer"})}
CountInv ==
    /\ ~ended => lockCount = Cardinality(Kept) + Cardinality(In(Opening))
    /\ lockCount <= Cardinality(used)
    /\ ~ended => initCount = Len(items)
    /\ Len(items) <= initCount
    /\ ~empty

OlderThreads == [at : ThreadStates, posted : Nat, removals : SUBSET Devices, mine : BOOLEAN]

\* What the hot thread's own state does not disturb.
coreVars == <<lockCount, initCount, hwnd, threadHandle, heap, older, active, upset,
              hasList, items,
              thread, sent, pc, arg, lockCnt, result, used, owned, ended, empty>>

CoreInv == ThreadInv /\ CallInv /\ LastInv /\ SentInv /\ AnswerInv /\ CountInv
IInv == TypeOK /\ CoreInv

-----------------------------------------------------------------------------
(***************************************************************************)
(* Facts about types, sequences and sets.                                  *)
(***************************************************************************)

Messages == [app : Apps, kind : {"init", "free", "destroy"}, h : Handles \cup {NoHandle}]
Events == [kind : {"arrival", "removal", "nodes"}, dev : Devices, named : BOOLEAN]
DeviceLists == [Devices -> [state : {"unlisted", "connected", "disconnected"},
                            flag : {"none", "unchanged", "added", "removed"}]]

\* The part of TypeOK about calls.
CallTypes ==
    /\ pc \in [Apps -> AppLabels] /\ arg \in [Apps -> Handles \cup {NoHandle}]
    /\ lockCnt \in [Apps -> 0 .. Cardinality(Handles)]
    /\ result \in [Apps -> {"none", "zero", "done", "failed"}]
    /\ used \subseteq Handles /\ owned \subseteq Handles
    /\ ended \in BOOLEAN /\ empty \in BOOLEAN
    /\ NoHandle \notin Handles

LEMMA TypesOfCalls == TypeOK => CallTypes
BY HandleAssumption DEF TypeOK, CallTypes

LEMMA FiniteParts ==
    ASSUME TypeOK
    PROVE  /\ Cardinality(Handles) \in Nat
           /\ IsFiniteSet(used) /\ Cardinality(used) \in Nat
           /\ Cardinality(used) <= Cardinality(Handles)
           /\ IsFiniteSet(owned) /\ IsFiniteSet(Kept) /\ Cardinality(Kept) \in Nat
           /\ \A S : IsFiniteSet(In(S)) /\ Cardinality(In(S)) \in Nat
<1>1. IsFiniteSet(Handles) /\ IsFiniteSet(Apps) /\ Cardinality(Handles) \in Nat
  BY HandleAssumption, FS_CardinalityType
<1>2. used \in SUBSET Handles /\ owned \in SUBSET Handles /\ Kept \in SUBSET owned
  BY DEF TypeOK, Kept
<1>3. IsFiniteSet(used) /\ Cardinality(used) <= Cardinality(Handles) /\ IsFiniteSet(owned)
  BY <1>1, <1>2, FS_Subset
<1>4. IsFiniteSet(Kept)
  BY <1>2, <1>3, FS_Subset
<1>5. \A S : In(S) \in SUBSET Apps
  BY DEF In
<1>6. \A S : IsFiniteSet(In(S))
  BY <1>1, <1>5, FS_Subset
<1> QED
  BY <1>1, <1>3, <1>4, <1>6, FS_CardinalityType

\* A handle is taken out of Items.
LEMMA WithoutIs ==
    ASSUME NEW s \in Seq(Handles), IsInjective(s), NEW h \in Range(s)
    PROVE  /\ Without(s, h) \in Seq(Handles) /\ IsInjective(Without(s, h))
           /\ Range(Without(s, h)) = Range(s) \ {h}
           /\ Len(Without(s, h)) = Len(s) - 1
<1>1. PICK k \in DOMAIN s : s[k] = h
  BY DEF Range
<1>2. \A j \in DOMAIN s : s[j] = h => j = k
  BY <1>1 DEF IsInjective
<1>3. (CHOOSE j \in DOMAIN s : s[j] = h) = k
  BY <1>1, <1>2
<1> DEFINE n == Len(s)
           a == SubSeq(s, 1, k - 1)
           b == SubSeq(s, k + 1, n)
           w == Without(s, h)
<1>4. n \in Nat /\ DOMAIN s = 1 .. n /\ k \in 1 .. n /\ \A i \in 1 .. n : s[i] \in Handles
  BY LenProperties, ElementOfSeq
<1>5. w = a \o b
  BY <1>3 DEF Without, RemoveAt
<1>6. a \in Seq(Handles) /\ Len(a) = k - 1 /\ \A i \in 1 .. k - 1 : a[i] = s[i]
  BY <1>4, SubSeqProperties
<1>7. b \in Seq(Handles) /\ Len(b) = n - k /\ \A i \in 1 .. n - k : b[i] = s[k + i]
  BY <1>4, SubSeqProperties
<1> HIDE DEF a, b, w
<1>8. /\ w \in Seq(Handles) /\ Len(w) = n - 1
      /\ \A i \in 1 .. n - 1 : w[i] = IF i < k THEN s[i] ELSE s[i + 1]
  <2>1. /\ a \o b \in Seq(Handles) /\ Len(a \o b) = Len(a) + Len(b)
        /\ \A i \in 1 .. Len(a) + Len(b) : (a \o b)[i] = IF i <= Len(a) THEN a[i] ELSE b[i - Len(a)]
    BY <1>6, <1>7, ConcatProperties
  <2>2. w \in Seq(Handles) /\ Len(w) = n - 1
    BY <1>4, <1>5, <1>6, <1>7, <2>1
  <2>3. ASSUME NEW i \in 1 .. n - 1, i < k PROVE w[i] = s[i]
    <3>1. i \in 1 .. Len(a) + Len(b) /\ i <= Len(a) /\ i \in 1 .. k - 1
      BY <1>4, <1>6, <1>7, <2>3
    <3> QED
      BY <1>5, <1>6, <2>1, <3>1
  <2>4. ASSUME NEW i \in 1 .. n - 1, ~(i < k) PROVE w[i] = s[i + 1]
    <3>1. /\ i \in 1 .. Len(a) + Len(b) /\ ~(i <= Len(a))
          /\ i - Len(a) \in 1 .. n - k /\ k + (i - Len(a)) = i + 1
      BY <1>4, <1>6, <1>7, <2>4
    <3> QED
      BY <1>5, <1>7, <2>1, <3>1
  <2> QED
    BY <2>2, <2>3, <2>4
<1>9. DOMAIN w = 1 .. n - 1
  BY <1>4, <1>8, LenProperties
<1>10. IsInjective(w)
  BY <1>4, <1>8, <1>9 DEF IsInjective
<1>11. Range(w) \subseteq Range(s) \ {h}
  <2>1. ASSUME NEW i \in 1 .. n - 1 PROVE w[i] \in Range(s) \ {h}
    <3>1. PICK j \in 1 .. n : w[i] = s[j] /\ j # k
      BY <1>4, <1>8
    <3> QED
      BY <1>2, <1>4, <3>1 DEF Range
  <2> QED
    BY <1>9, <2>1 DEF Range
<1>12. ASSUME NEW x \in Range(s) \ {h} PROVE x \in Range(w)
  <2>1. PICK i \in 1 .. n : s[i] = x /\ i # k
    BY <1>1, <1>4 DEF Range
  <2>2. CASE i < k
    BY <1>4, <1>8, <1>9, <2>1, <2>2 DEF Range
  <2>3. CASE i > k
    <3>1. i - 1 \in 1 .. n - 1 /\ ~(i - 1 < k) /\ (i - 1) + 1 = i
      BY <1>4, <2>1, <2>3
    <3> QED
      BY <1>8, <1>9, <2>1, <3>1 DEF Range
  <2> QED
    BY <1>4, <2>1, <2>2, <2>3
<1> QED
  BY <1>8, <1>10, <1>11, <1>12 DEF w

\* A new handle is put at the end of Items.
LEMMA AppendedIs ==
    ASSUME NEW s \in Seq(Handles), IsInjective(s), NEW h \in Handles, h \notin Range(s)
    PROVE  /\ Append(s, h) \in Seq(Handles) /\ IsInjective(Append(s, h))
           /\ Range(Append(s, h)) = Range(s) \cup {h}
           /\ Len(Append(s, h)) = Len(s) + 1
<1> DEFINE w == Append(s, h)
           n == Len(s)
<1>1. n \in Nat /\ DOMAIN s = 1 .. n
  BY LenProperties
<1>2. /\ w \in Seq(Handles) /\ Len(w) = n + 1 /\ w[n + 1] = h
      /\ \A i \in 1 .. n : w[i] = s[i]
  BY AppendProperties
<1>3. DOMAIN w = 1 .. n + 1
  BY <1>1, <1>2, LenProperties
<1> HIDE DEF w
<1>4. IsInjective(w)
  BY <1>1, <1>2, <1>3 DEF IsInjective, Range
<1>5. Range(w) = Range(s) \cup {h}
  BY <1>1, <1>2, <1>3 DEF Range
<1> QED
  BY <1>2, <1>4, <1>5 DEF w

\* There are at most as many items as handles.
LEMMA ItemsFit ==
    ASSUME NEW s \in Seq(Handles), IsInjective(s)
    PROVE  Len(s) \in Nat /\ Len(s) <= Cardinality(Handles)
<1>1. Len(s) \in Nat /\ s \in [1 .. Len(s) -> Handles]
  BY LenProperties
<1>2. s \in Injection(1 .. Len(s), Handles)
  BY <1>1 DEF IsInjective, Injection
<1>3. Cardinality(1 .. Len(s)) <= Cardinality(Handles)
  BY <1>2, FS_Injection, HandleAssumption
<1>4. Cardinality(1 .. Len(s)) = IF 1 > Len(s) THEN 0 ELSE Len(s) - 1 + 1
  BY <1>1, FS_Interval
<1>5. Cardinality(Handles) \in Nat
  BY HandleAssumption, FS_CardinalityType
<1> QED
  BY <1>1, <1>3, <1>4, <1>5

-----------------------------------------------------------------------------
(***************************************************************************)
(* Steps of the calls.                                                     *)
(***************************************************************************)

LEMMA SentTypes ==
    ASSUME TypeOK
    PROVE  /\ sent \in Seq(Messages)
           /\ \A k \in DOMAIN sent : /\ sent[k] \in Messages /\ sent[k].app \in Apps
                                    /\ sent[k].kind \in {"init", "free", "destroy"}
                                    /\ sent[k].h \in Handles \cup {NoHandle}
<1>1. sent \in Seq(Messages)
  BY DEF TypeOK, Messages
<1>2. \A k \in DOMAIN sent : sent[k] \in Messages
  BY <1>1, LenProperties, ElementOfSeq
<1>3. \A m \in Messages : /\ m.app \in Apps /\ m.kind \in {"init", "free", "destroy"}
                            /\ m.h \in Handles \cup {NoHandle}
  BY DEF Messages
<1> QED
  BY <1>1, <1>2, <1>3

\* Messages are not disturbed by a call that waits for no answer or has it.
LEMMA SentKept ==
    ASSUME IInv, NEW a \in Apps, sent' = sent, thread' = thread \/ sent = << >>,
           pc[a] \in {"initAnswer", "freeAnswer", "waitExit"} => result[a] # "none",
           \A b \in Apps \ {a} : pc'[b] = pc[b] /\ arg'[b] = arg[b] /\ result'[b] = result[b]
    PROVE  SentInv'
<1>1. SentInv
  BY DEF IInv, CoreInv
<1>2. \A k \in DOMAIN sent : sent[k].app \in Apps /\ sent[k].kind \in {"init", "free", "destroy"}
  BY SentTypes DEF IInv
<1>3. \A k \in DOMAIN sent : sent[k].app # a
  BY <1>1, <1>2 DEF SentInv, WaitsAt
<1> QED
  BY <1>1, <1>2, <1>3 DEF SentInv, WaitsAt

\* A call that waits for nothing sends a message to the window there is.
LEMMA SentAppended ==
    ASSUME IInv, NEW a \in Apps, NEW kind \in {"init", "free", "destroy"},
           Send(a, kind, WaitsAt(kind)), thread = "loop", thread' = thread,
           pc[a] \notin {"initAnswer", "freeAnswer", "waitExit"}
    PROVE  SentInv' /\ result' = [result EXCEPT ![a] = "none"]
<1>1. SentInv /\ CallTypes /\ hwnd
  BY TypesOfCalls DEF IInv, CoreInv, ThreadInv
<1> DEFINE m == [app |-> a, kind |-> kind, h |-> arg[a]]
<1>2. sent \in Seq(Messages) /\ m \in Messages
  BY <1>1 DEF IInv, TypeOK, Messages, CallTypes
<1>3. /\ sent' = Append(sent, m) /\ result' = [result EXCEPT ![a] = "none"]
      /\ pc' = [pc EXCEPT ![a] = WaitsAt(kind)] /\ arg' = arg
  BY <1>1 DEF Send, Go
<1>4. \A k \in DOMAIN sent : sent[k].app \in Apps /\ sent[k].kind \in {"init", "free", "destroy"}
  BY SentTypes DEF IInv
<1>5. \A k \in DOMAIN sent : sent[k].app # a
  BY <1>1, <1>4 DEF SentInv, WaitsAt
<1> DEFINE n == Len(sent)
<1>6. n \in Nat /\ DOMAIN sent = 1 .. n
  BY <1>2, LenProperties
<1>7. /\ sent' \in Seq(Messages) /\ Len(sent') = n + 1 /\ sent'[n + 1] = m
      /\ \A k \in 1 .. n : sent'[k] = sent[k]
  BY <1>2, <1>3, AppendProperties
<1>8. DOMAIN sent' = 1 .. n + 1
  BY <1>6, <1>7, LenProperties
<1> HIDE DEF m, n
<1>9. m.app = a /\ m.kind = kind /\ m.h = arg[a]
  BY DEF m
<1>10. \A k \in DOMAIN sent' : /\ sent'[k].h = arg'[sent'[k].app]
                               /\ result'[sent'[k].app] = "none"
                               /\ pc'[sent'[k].app] = WaitsAt(sent'[k].kind)
  <2>1. ASSUME NEW k \in 1 .. n
        PROVE  /\ sent'[k].h = arg'[sent'[k].app]
               /\ result'[sent'[k].app] = "none"
               /\ pc'[sent'[k].app] = WaitsAt(sent'[k].kind)
    BY <1>1, <1>3, <1>4, <1>5, <1>6, <1>7, <2>1 DEF SentInv, CallTypes
  <2>2. /\ sent'[n + 1].h = arg'[sent'[n + 1].app]
        /\ result'[sent'[n + 1].app] = "none"
        /\ pc'[sent'[n + 1].app] = WaitsAt(sent'[n + 1].kind)
    BY <1>1, <1>3, <1>7, <1>9 DEF CallTypes
  <2>3. \A k \in 1 .. n + 1 : k \in 1 .. n \/ k = n + 1
    BY <1>6
  <2> QED
    BY <1>8, <2>1, <2>2, <2>3
<1>11. \A j, k \in DOMAIN sent' : sent'[j].app = sent'[k].app => j = k
  <2>1. \A k \in 1 .. n + 1 : k \in 1 .. n \/ k = n + 1
    BY <1>6
  <2> QED
    BY <1>1, <1>5, <1>6, <1>7, <1>8, <1>9, <2>1 DEF SentInv
<1> QED
  BY <1>3, <1>10, <1>11 DEF SentInv

\* The calls that start and stop the monitor are alone.
LEMMA Alone ==
    ASSUME IInv, NEW a \in Apps,
           pc[a] \in {"start", "resume", "waitWindow", "error", "freeAll", "waitExit"}
    PROVE  \A b \in Apps \ {a} : pc[b] = "idle" /\ arg[b] = NoHandle
BY DEF IInv, CoreInv, CallInv, HasSteady, Closing

\* The caller of the first message waits for its answer.
LEMMA FirstMessage ==
    ASSUME IInv, sent # << >>
    PROVE  /\ Head(sent) \in Messages /\ Head(sent).app \in Apps /\ Head(sent) = sent[1]
           /\ 1 \in DOMAIN sent
           /\ Head(sent).kind \in {"init", "free", "destroy"}
           /\ Head(sent).h = arg[Head(sent).app]
           /\ pc[Head(sent).app] = WaitsAt(Head(sent).kind)
           /\ result[Head(sent).app] = "none"
           /\ thread = "loop"
<1>1. sent \in Seq(Messages) /\ SentInv
  BY DEF IInv, TypeOK, Messages, CoreInv
<1>2. Head(sent) \in Messages /\ Len(sent) # 0 /\ Len(sent) \in Nat /\ DOMAIN sent = 1 .. Len(sent)
  BY <1>1, HeadTailProperties, EmptySeq, LenProperties
<1>3. Head(sent) = sent[1] /\ 1 \in DOMAIN sent
  BY <1>1, <1>2
<1>4. Head(sent).app \in Apps /\ Head(sent).kind \in {"init", "free", "destroy"}
  BY <1>2 DEF Messages
<1> QED
  BY <1>1, <1>2, <1>3, <1>4 DEF SentInv

\* Nothing is sent while the monitor is being started.
LEMMA NothingSent ==
    ASSUME IInv, NEW a \in Apps, pc[a] \in {"start", "resume", "waitWindow", "error"}
    PROVE  sent = << >>
<1> SUFFICES ASSUME sent # << >> PROVE FALSE
  OBVIOUS
<1>1. /\ Head(sent).app \in Apps /\ Head(sent).kind \in {"init", "free", "destroy"}
      /\ pc[Head(sent).app] = WaitsAt(Head(sent).kind)
  BY FirstMessage
<1>2. pc[Head(sent).app] \in {"initAnswer", "freeAnswer", "waitExit"}
  BY <1>1 DEF WaitsAt
<1> QED
  BY <1>1, <1>2, Alone

\* A call may begin when there is no other, or beside a handle that is neither
\* new nor being freed, and is not the one the call is about.
LEMMA MayCallIs ==
    ASSUME IInv, NEW h, MayCall(h)
    PROVE  \/ \A b \in Apps : pc[b] = "idle" /\ arg[b] = NoHandle
           \/ /\ \E g \in owned \ {h} : \A b \in Apps : arg[b] # g
              /\ \A b \in Apps : pc[b] # "idle" => arg[b] # NoHandle
<1>1. CallTypes /\ CallInv
  BY TypesOfCalls DEF IInv, CoreInv
<1>2. CASE Calling = {}
  BY <1>1, <1>2 DEF Calling, CallInv
<1>3. CASE ~FreeingAll /\ Steady \ {h} # {}
  <2>1. PICK g \in owned \ {h} : g \notin {arg[b] : b \in Calling}
    BY <1>3 DEF Steady
  <2>2. \A b \in Apps : arg[b] # g
    BY <1>1, <2>1 DEF Calling, CallInv, CallTypes
  <2>3. \A b \in Apps : pc[b] # "idle" => arg[b] # NoHandle
    BY <1>3 DEF FreeingAll, Calling
  <2> QED
    BY <2>1, <2>2, <2>3
<1> QED
  BY <1>2, <1>3 DEF MayCall

\* No handle is left when HotLockCount is 0.
LEMMA LockCountZero ==
    ASSUME IInv, ~ended
    PROVE  /\ lockCount = 0 <=> Kept = {} /\ In(Opening) = {}
           /\ \A g \in owned : (\A b \in Apps : arg[b] # g) => g \in Kept
<1>1. lockCount = Cardinality(Kept) + Cardinality(In(Opening))
  BY DEF IInv, CoreInv, CountInv
<1>2. /\ Cardinality(Kept) \in Nat /\ Cardinality(In(Opening)) \in Nat
      /\ IsFiniteSet(Kept) /\ IsFiniteSet(In(Opening))
  BY FiniteParts DEF IInv
<1>3. Cardinality(Kept) = 0 <=> Kept = {}
  BY <1>2, FS_EmptySet
<1>4. Cardinality(In(Opening)) = 0 <=> In(Opening) = {}
  BY <1>2, FS_EmptySet
<1>5. lockCount = 0 <=> Kept = {} /\ In(Opening) = {}
  BY <1>1, <1>2, <1>3, <1>4
<1>6. \A g \in owned : (\A b \in Apps : arg[b] # g) => g \in Kept
  BY DEF Kept, In
<1> QED
  BY <1>5, <1>6

LEMMA BeginInitOK ==
    ASSUME IInv, ~CallsAfterEnd, NEW a \in Apps, NEW h \in Handles, BeginInit(a, h)
    PROVE  CoreInv'
<1>1. CallTypes /\ CoreInv
  BY TypesOfCalls DEF IInv
<1>2. /\ ~ended /\ h \notin used /\ MayCall(h)
      /\ pc[a] = "idle" /\ pc' = [pc EXCEPT ![a] = IF lockCount = 0 THEN "start" ELSE "sendInit"]
      /\ arg' = [arg EXCEPT ![a] = h] /\ UNCHANGED <<lockCnt, result>>
      /\ used' = used \cup {h} /\ lockCount' = lockCount + 1
      /\ UNCHANGED <<initCount, hwnd, threadHandle, heap, older, active, upset, hasList,
                     items, thread, sent,
                     owned, ended, empty>>
  BY DEF BeginInit, MayInit, Call, Go, devList, window, old
<1> DEFINE AllIdle == \A b \in Apps : pc[b] = "idle" /\ arg[b] = NoHandle
           Beside == \E g \in owned \ {h} : \A b \in Apps : arg[b] # g
<1>3. AllIdle \/ Beside
  BY <1>2, MayCallIs
<1>4. lockCount = 0 => owned = {} /\ thread \in Over /\ AllIdle
  <2> SUFFICES ASSUME lockCount = 0 PROVE owned = {} /\ thread \in Over /\ AllIdle
    OBVIOUS
  <2>1. Kept = {} /\ ~Beside
    BY <1>2, LockCountZero
  <2>2. AllIdle
    BY <1>3, <2>1
  <2>3. Kept = owned
    BY <2>2 DEF Kept, In
  <2> QED
    BY <1>1, <1>2, <2>1, <2>2, <2>3 DEF CoreInv, ThreadInv
<1>5. lockCount # 0 => owned # {} /\ thread = "loop"
  <2> SUFFICES ASSUME lockCount # 0 PROVE owned # {}
    BY <1>1, <1>2 DEF CoreInv, ThreadInv
  <2>1. CASE Beside
    BY <2>1
  <2>2. CASE AllIdle
    <3>1. In(Opening) = {}
      BY <2>2 DEF In, Opening
    <3>2. Kept # {}
      BY <1>2, <3>1, LockCountZero
    <3> QED
      BY <3>2 DEF Kept
  <2> QED
    BY <1>3, <2>1, <2>2
<1>6. h \notin owned /\ h # NoHandle
  BY <1>1, <1>2 DEF CoreInv, CallInv, CallTypes
<1>7. Beside => HasSteady'
  BY <1>1, <1>2, <1>6 DEF HasSteady, CallTypes
<1>8. ThreadInv'
  <2>1. CASE lockCount = 0
    BY <1>1, <1>2, <1>4, <2>1 DEF CoreInv, ThreadInv, CallTypes
  <2>2. CASE lockCount # 0
    BY <1>1, <1>2, <1>5, <2>2 DEF CoreInv, ThreadInv, CallTypes
  <2> QED
    BY <2>1, <2>2
<1>9. CallInv'
  <2>1. \A b \in Apps \ {a} : pc'[b] = pc[b] /\ arg'[b] = arg[b]
    BY <1>1, <1>2 DEF CallTypes
  <2>2. /\ arg'[a] = h /\ pc'[a] \in {"start", "sendInit"}
        /\ pc'[a] = "start" => owned = {}
    BY <1>1, <1>2, <1>4 DEF CallTypes
  <2>3. ASSUME NEW b \in Apps, NEW c \in Apps, b # c, pc'[b] # "idle", pc'[c] # "idle"
        PROVE  arg'[b] # arg'[c] /\ HasSteady' /\ arg'[b] # NoHandle
    <3>1. ~AllIdle
      BY <1>2, <2>1, <2>3
    <3>2. HasSteady'
      BY <1>3, <1>7, <3>1
    <3>3. \A e \in Apps \ {a} : arg[e] # h /\ (pc[e] # "idle" => arg[e] # NoHandle)
      <4>1. owned # {}
        BY <1>3, <3>1
      <4>2. \A e \in Apps : pc[e] # "idle" => arg[e] \in used
        BY <1>1, <1>2, <4>1 DEF CoreInv, CallInv, CallTypes, AppLabels, Opening, Freeing,
           Closing
      <4> QED
        BY <1>1, <1>2, <1>6, <4>2 DEF CoreInv, CallInv, CallTypes
    <3> QED
      BY <1>1, <1>6, <2>1, <2>2, <2>3, <3>2, <3>3 DEF CoreInv, CallInv
  <2> QED
    BY <1>1, <1>2, <1>6, <2>1, <2>2, <2>3 DEF CoreInv, CallInv, Opening, Freeing, Closing
<1>10. LastInv'
  <2>1. ASSUME NEW b \in Apps, pc'[b] \in {"sendFree", "freeAnswer"}
        PROVE  IF lockCnt'[b] = 0 THEN owned' = {arg'[b]} ELSE HasSteady'
    <3>1. b # a /\ pc[b] = pc'[b] /\ arg'[b] = arg[b]
      BY <1>1, <1>2, <2>1 DEF CallTypes
    <3>2. Beside
      BY <1>3, <2>1, <3>1
    <3> QED
      BY <1>1, <1>2, <1>7, <2>1, <3>1, <3>2 DEF CoreInv, LastInv
  <2> QED
    BY <2>1 DEF LastInv
<1>11. SentInv'
  BY <1>1, <1>2, SentKept DEF CallTypes
<1>12. AnswerInv'
  BY <1>1, <1>2 DEF CoreInv, CallTypes, AnswerInv, ItemSet, Gone, Made
<1>13. CountInv'
  <2>1. Kept' = Kept /\ In(Opening)' = In(Opening) \cup {a} /\ a \notin In(Opening)
    BY <1>1, <1>2 DEF CallTypes, Kept, In, Opening
  <2>2. Cardinality(In(Opening)') = Cardinality(In(Opening)) + 1
    BY <2>1, FiniteParts, FS_AddElement DEF IInv
  <2>3. Cardinality(used') = Cardinality(used) + 1
    BY <1>2, FiniteParts, FS_AddElement DEF IInv
  <2>4. /\ Cardinality(used) \in Nat /\ Cardinality(Kept) \in Nat
        /\ Cardinality(In(Opening)) \in Nat
    BY FiniteParts DEF IInv
  <2>5. lockCount = Cardinality(Kept) + Cardinality(In(Opening)) /\ lockCount <= Cardinality(used)
    BY <1>1, <1>2 DEF CoreInv, CountInv
  <2> QED
    BY <1>1, <1>2, <2>1, <2>2, <2>3, <2>4, <2>5 DEF CoreInv, CountInv
<1> QED
  BY <1>8, <1>9, <1>10, <1>11, <1>12, <1>13 DEF CoreInv

LEMMA BeginFreeOK ==
    ASSUME IInv, NEW a \in Apps, NEW h \in Handles, BeginFree(a, h)
    PROVE  CoreInv'
<1>1. CallTypes /\ CoreInv
  BY TypesOfCalls DEF IInv
<1>2. /\ h \in owned /\ (\A b \in Apps : arg[b] # h) /\ MayCall(h)
      /\ pc[a] = "idle" /\ pc' = [pc EXCEPT ![a] = "decLock"]
      /\ arg' = [arg EXCEPT ![a] = h] /\ UNCHANGED <<lockCnt, result>>
      /\ UNCHANGED <<lockCount, initCount, hwnd, threadHandle, heap, older, active, upset,
                     hasList, items, thread, sent,
                     used, owned, ended, empty>>
  BY DEF BeginFree, Call, Go, devList, window, old, history
<1> DEFINE AllIdle == \A b \in Apps : pc[b] = "idle" /\ arg[b] = NoHandle
           Beside == /\ \E g \in owned \ {h} : \A b \in Apps : arg[b] # g
                     /\ \A b \in Apps : pc[b] # "idle" => arg[b] # NoHandle
<1>3. AllIdle \/ Beside
  BY <1>2, MayCallIs
<1>4. Beside => HasSteady'
  BY <1>1, <1>2 DEF HasSteady, CallTypes
<1>5. ~ended
  <2>1. CASE AllIdle
    BY <1>1, <1>2, <2>1 DEF CoreInv, CallInv
  <2>2. CASE Beside
    BY <1>1, <1>2, <2>2 DEF CoreInv, CallInv, CallTypes, AppLabels, Opening, Freeing,
       Closing
  <2> QED
    BY <1>3, <2>1, <2>2
<1>6. h # NoHandle
  BY <1>1 DEF CallTypes
<1>7. \A b \in Apps \ {a} : pc'[b] = pc[b] /\ arg'[b] = arg[b]
  BY <1>1, <1>2 DEF CallTypes
<1>8. arg'[a] = h /\ pc'[a] = "decLock"
  BY <1>1, <1>2 DEF CallTypes
<1>9. ThreadInv'
  BY <1>1, <1>2, <1>7, <1>8 DEF CoreInv, ThreadInv
<1>10. CallInv'
  <2>1. ASSUME NEW b \in Apps, NEW c \in Apps, b # c, pc'[b] # "idle", pc'[c] # "idle"
        PROVE  arg'[b] # arg'[c] /\ HasSteady' /\ arg'[b] # NoHandle
    <3>1. Beside /\ HasSteady'
      BY <1>3, <1>4, <1>7, <2>1
    <3> QED
      BY <1>1, <1>2, <1>6, <1>7, <1>8, <2>1, <3>1 DEF CoreInv, CallInv
  <2> QED
    BY <1>1, <1>2, <1>5, <1>7, <1>8, <2>1 DEF CoreInv, CallInv, Opening, Freeing, Closing
<1>11. LastInv'
  <2>1. ASSUME NEW b \in Apps, pc'[b] \in {"sendFree", "freeAnswer"}
        PROVE  IF lockCnt'[b] = 0 THEN owned' = {arg'[b]} ELSE HasSteady'
    <3>1. b # a /\ pc[b] = pc'[b] /\ arg'[b] = arg[b]
      BY <1>7, <1>8, <2>1
    <3>2. HasSteady'
      BY <1>3, <1>4, <2>1, <3>1
    <3> QED
      BY <1>1, <1>2, <2>1, <3>1, <3>2 DEF CoreInv, LastInv
  <2> QED
    BY <2>1 DEF LastInv
<1>12. SentInv'
  BY <1>1, <1>2, SentKept DEF CallTypes
<1>13. AnswerInv'
  BY <1>1, <1>2 DEF CoreInv, CallTypes, AnswerInv, ItemSet, Gone, Made
<1>14. CountInv'
  <2>1. Kept' = Kept /\ In(Opening)' = In(Opening)
    BY <1>1, <1>2 DEF CallTypes, Kept, In, Opening
  <2> QED
    BY <1>1, <1>2, <2>1 DEF CoreInv, CountInv
<1> QED
  BY <1>9, <1>10, <1>11, <1>12, <1>13, <1>14 DEF CoreInv

LEMMA InitErrorOK ==
    ASSUME IInv, NEW a \in Apps, InitError(a)
    PROVE  CoreInv'
<1>1. CallTypes /\ CoreInv
  BY TypesOfCalls DEF IInv
<1>2. /\ pc[a] = "error" /\ owned' = {} /\ ended' /\ ~hasList'
      /\ \A b \in Apps : pc'[b] = "idle" /\ arg'[b] = NoHandle
      /\ UNCHANGED <<lockCount, initCount, hwnd, threadHandle, heap, older, active, upset,
                     items, thread, sent, used, empty>>
  BY <1>1, Alone DEF InitError, Return, Go, CoreInv, CallInv, CallTypes, window, old
<1>3. sent = << >>
  BY <1>2, NothingSent
<1>4. ThreadInv'
  BY <1>1, <1>2 DEF CoreInv, ThreadInv
<1>5. CallInv' /\ LastInv'
  BY <1>2 DEF CallInv, LastInv, Opening, Freeing, Closing
<1>6. SentInv'
  BY <1>2, <1>3 DEF SentInv
<1>7. AnswerInv'
  BY <1>2 DEF AnswerInv
<1>8. CountInv'
  BY <1>1, <1>2 DEF CoreInv, CountInv
<1> QED
  BY <1>4, <1>5, <1>6, <1>7, <1>8 DEF CoreInv

LEMMA InitAnswerOK ==
    ASSUME IInv, NEW a \in Apps, InitAnswer(a)
    PROVE  CoreInv'
<1>1. CallTypes /\ CoreInv
  BY TypesOfCalls DEF IInv
<1>2. /\ pc[a] = "initAnswer" /\ result[a] \in {"done", "failed"} /\ ~ended /\ thread = "loop"
      /\ arg[a] \in used \ owned /\ arg[a] # NoHandle /\ arg[a] \in Handles
  BY <1>1 DEF InitAnswer, CoreInv, CallTypes, AnswerInv, CallInv, ThreadInv, Opening
<1>3. /\ UNCHANGED <<initCount, hwnd, threadHandle, heap, older, active, upset, hasList,
                     items, thread, sent,
                     used, ended>>
      /\ ~empty'
  BY <1>1, <1>2 DEF InitAnswer, devList, window, old, CoreInv, CountInv
<1>4. /\ lockCount = Cardinality(Kept) + Cardinality(In(Opening))
      /\ Cardinality(Kept) \in Nat /\ Cardinality(In(Opening)) \in Nat
      /\ IsFiniteSet(Kept) /\ IsFiniteSet(In(Opening)) /\ Cardinality(used) \in Nat
      /\ lockCount <= Cardinality(used) /\ a \in In(Opening)
  BY <1>1, <1>2, FiniteParts DEF IInv, CoreInv, CountInv, In, Opening
<1>5. Cardinality(In(Opening) \ {a}) = Cardinality(In(Opening)) - 1
  BY <1>4, FS_RemoveElement
<1>6. CASE result[a] = "done"
  <2>1. /\ owned' = owned \cup {arg[a]} /\ lockCount' = lockCount
        /\ pc' = [pc EXCEPT ![a] = "idle"] /\ arg' = [arg EXCEPT ![a] = NoHandle]
        /\ lockCnt' = [lockCnt EXCEPT ![a] = 0] /\ result' = [result EXCEPT ![a] = "none"]
    BY <1>6 DEF InitAnswer, Return, Go
  <2>2. /\ \A b \in Apps \ {a} : /\ pc'[b] = pc[b] /\ arg'[b] = arg[b]
                                 /\ lockCnt'[b] = lockCnt[b] /\ result'[b] = result[b]
        /\ pc'[a] = "idle" /\ arg'[a] = NoHandle
    BY <1>1, <2>1 DEF CallTypes
  <2>3. \A b \in Apps \ {a} : arg[b] # arg[a]
    BY <1>1, <1>2 DEF CoreInv, CallInv
  <2>4. HasSteady'
    BY <1>2, <2>1, <2>2, <2>3 DEF HasSteady
  <2>5. ThreadInv'
    BY <1>1, <1>2, <1>3, <2>1, <2>2 DEF CoreInv, ThreadInv
  <2>6. CallInv'
    <3>1. \A b \in Apps \ {a} : pc[b] # "idle" => owned # {} /\ arg[b] # NoHandle
      BY <1>1, <1>2 DEF CoreInv, CallInv, HasSteady
    <3> QED
      BY <1>1, <1>2, <1>3, <2>1, <2>2, <2>3, <2>4, <3>1 DEF CoreInv, CallInv, Opening,
         Freeing, Closing
  <2>7. LastInv'
    <3>1. ASSUME NEW b \in Apps, pc'[b] \in {"sendFree", "freeAnswer"}
          PROVE  lockCnt'[b] # 0
      <4>1. b # a /\ HasSteady /\ pc[b] \in {"sendFree", "freeAnswer"}
        BY <1>1, <1>2, <2>2, <3>1 DEF CoreInv, CallInv
      <4> QED
        BY <1>1, <2>2, <4>1 DEF CoreInv, LastInv, HasSteady
    <3> QED
      BY <2>4, <3>1 DEF LastInv
  <2>8. SentInv'
    BY <1>2, <1>3, <2>2, SentKept
  <2>9. AnswerInv'
    <3>1. \A b \in Apps : /\ pc'[b] = "initAnswer" => result'[b] # "zero"
                          /\ pc'[b] = "freeAnswer" => result'[b] \in {"none", "done"}
      BY <1>1, <2>2 DEF CoreInv, AnswerInv
    <3>2. ASSUME NEW g \in Handles
          PROVE  (g \in owned /\ ~Gone(g)) \/ Made(g) <=> ((g \in owned /\ ~Gone(g)) \/ Made(g))'
      <4>1. CASE g = arg[a]
        <5>1. Made(g)
          BY <1>2, <1>6, <4>1 DEF Made
        <5>2. g \in owned' /\ ~Gone(g)'
          BY <1>2, <2>1, <2>2, <2>3, <4>1 DEF Gone
        <5> QED
          BY <5>1, <5>2
      <4>2. CASE g # arg[a]
        <5>1. g \in owned' <=> g \in owned
          BY <2>1, <4>2
        <5>2. Gone(g)' <=> Gone(g)
          BY <1>2, <2>2 DEF Gone
        <5>3. Made(g)' <=> Made(g)
          BY <1>2, <2>2, <4>2 DEF Made
        <5> QED
          BY <5>1, <5>2, <5>3
      <4> QED
        BY <4>1, <4>2
    <3>3. ItemSet' = ItemSet
      BY <1>3 DEF ItemSet
    <3> QED
      BY <1>1, <1>2, <1>3, <3>1, <3>2, <3>3 DEF CoreInv, AnswerInv
  <2>10. CountInv'
    <3>1. In(Opening)' = In(Opening) \ {a}
      BY <2>2 DEF In, Opening
    <3>2. Kept' = Kept \cup {arg[a]} /\ arg[a] \notin Kept
      BY <1>2, <2>1, <2>2, <2>3 DEF Kept, In
    <3>3. Cardinality(Kept') = Cardinality(Kept) + 1
      BY <1>4, <3>2, FS_AddElement
    <3> QED
      BY <1>1, <1>2, <1>3, <1>4, <1>5, <2>1, <3>1, <3>3 DEF CoreInv, CountInv
  <2> QED
    BY <2>5, <2>6, <2>7, <2>8, <2>9, <2>10 DEF CoreInv
<1>7. CASE result[a] = "failed"
  <2>1. /\ owned' = owned /\ lockCount' = lockCount - 1
        /\ \/ /\ lockCount = 1 /\ pc' = [pc EXCEPT ![a] = "freeAll"]
              /\ UNCHANGED <<arg, lockCnt, result>>
           \/ /\ lockCount # 1 /\ pc' = [pc EXCEPT ![a] = "idle"]
              /\ arg' = [arg EXCEPT ![a] = NoHandle]
              /\ lockCnt' = [lockCnt EXCEPT ![a] = 0] /\ result' = [result EXCEPT ![a] = "none"]
    BY <1>7 DEF InitAnswer, Return, Go
  <2>2. /\ \A b \in Apps \ {a} : /\ pc'[b] = pc[b] /\ arg'[b] = arg[b]
                                 /\ lockCnt'[b] = lockCnt[b] /\ result'[b] = result[b]
        /\ \/ pc'[a] = "freeAll" /\ arg'[a] = arg[a] /\ lockCount = 1
           \/ pc'[a] = "idle" /\ arg'[a] = NoHandle
    BY <1>1, <2>1 DEF CallTypes
  <2>3. lockCount = 1 => /\ owned = {}
                         /\ \A b \in Apps \ {a} : pc[b] = "idle"
    <3> SUFFICES ASSUME lockCount = 1 PROVE owned = {} /\ \A b \in Apps \ {a} : pc[b] = "idle"
      OBVIOUS
    <3>1. Cardinality(In(Opening) \ {a}) \in Nat
      BY <1>4, FS_RemoveElement, FS_CardinalityType
    <3>2. Cardinality(Kept) = 0
      BY <1>4, <1>5, <3>1
    <3>3. Kept = {}
      BY <1>4, <3>2, FS_EmptySet
    <3>4. ~HasSteady
      BY <1>2, <3>3, LockCountZero DEF HasSteady
    <3>5. \A b \in Apps \ {a} : pc[b] = "idle"
      BY <1>1, <1>2, <3>4 DEF CoreInv, CallInv
    <3>6. owned = {}
      BY <1>2, <3>3, <3>5 DEF Kept, In
    <3> QED
      BY <3>5, <3>6
  <2>4. HasSteady => HasSteady'
    <3>1. \A b \in Apps : arg'[b] \in {arg[b], NoHandle}
      BY <2>2
    <3> QED
      BY <1>1, <2>1, <3>1 DEF HasSteady, CallTypes
  <2>5. ThreadInv'
    <3>1. thread = "loop" /\ hwnd /\ thread' = thread /\ hwnd' = hwnd
      BY <1>1, <1>2, <1>3 DEF CoreInv, ThreadInv
    <3>2. \A b \in Apps : pc'[b] \in {"start", "resume"} => pc[b] = pc'[b]
      BY <2>2
    <3>3. ended \/ owned' # {} \/ \E b \in Apps : pc'[b] # "idle"
      <4>1. CASE lockCount = 1
        BY <2>1, <4>1, <1>1 DEF CallTypes
      <4>2. CASE owned = {} /\ \A b \in Apps \ {a} : pc[b] = "idle"
        <5>1. In(Opening) = {a} /\ Kept = {}
          BY <1>2, <4>2 DEF In, Opening, Kept
        <5>2. lockCount = 1
          BY <1>4, <5>1, FS_Singleton, FS_EmptySet
        <5> QED
          BY <4>1, <5>2
      <4> QED
        BY <2>1, <2>2, <4>1, <4>2
    <3> QED
      BY <1>1, <1>2, <1>3, <3>1, <3>2, <3>3 DEF CoreInv, ThreadInv, Over
  <2>6. CallInv'
    <3>1. ASSUME NEW b \in Apps, NEW c \in Apps, b # c, pc'[b] # "idle", pc'[c] # "idle"
          PROVE  arg'[b] # arg'[c] /\ HasSteady' /\ arg'[b] # NoHandle
      <4>1. pc[b] # "idle" /\ pc[c] # "idle" /\ b # a /\ c # a
        BY <2>2, <2>3, <3>1
      <4> QED
        BY <1>1, <2>2, <2>4, <3>1, <4>1 DEF CoreInv, CallInv
    <3>2. pc'[a] # "idle" => pc'[a] = "freeAll" /\ arg'[a] # NoHandle /\ owned = {}
      BY <1>2, <2>2, <2>3
    <3> QED
      BY <1>1, <1>2, <1>3, <2>1, <2>2, <3>1, <3>2 DEF CoreInv, CallInv, Opening, Freeing,
         Closing
  <2>7. LastInv'
    <3>1. ASSUME NEW b \in Apps, pc'[b] \in {"sendFree", "freeAnswer"}
          PROVE  IF lockCnt'[b] = 0 THEN owned' = {arg'[b]} ELSE HasSteady'
      BY <1>1, <2>1, <2>2, <2>4, <3>1 DEF CoreInv, LastInv
    <3> QED
      BY <3>1 DEF LastInv
  <2>8. SentInv'
    BY <1>2, <1>3, <2>2, SentKept
  <2>9. AnswerInv'
    <3>1. \A b \in Apps : /\ pc'[b] = "initAnswer" => result'[b] # "zero"
                          /\ pc'[b] = "freeAnswer" => result'[b] \in {"none", "done"}
      BY <1>1, <2>2 DEF CoreInv, AnswerInv
    <3>2. \A g \in Handles : (Gone(g)' <=> Gone(g)) /\ (Made(g)' <=> Made(g))
      BY <1>2, <1>7, <2>2 DEF Gone, Made
    <3>3. ItemSet' = ItemSet
      BY <1>3 DEF ItemSet
    <3> QED
      BY <1>1, <1>2, <1>3, <2>1, <3>1, <3>2, <3>3 DEF CoreInv, AnswerInv
  <2>10. CountInv'
    <3>1. In(Opening)' = In(Opening) \ {a}
      BY <2>2 DEF In, Opening
    <3>2. Kept' = Kept
      BY <1>2, <2>1, <2>2 DEF Kept, In
    <3> QED
      BY <1>1, <1>2, <1>3, <1>4, <1>5, <2>1, <3>1, <3>2 DEF CoreInv, CountInv
  <2> QED
    BY <2>5, <2>6, <2>7, <2>8, <2>9, <2>10 DEF CoreInv
<1> QED
  BY <1>2, <1>6, <1>7

LEMMA FreeDecLockOK ==
    ASSUME IInv, NEW a \in Apps, FreeDecLock(a)
    PROVE  CoreInv' /\ lockCount # 0
<1>1. CallTypes /\ CoreInv
  BY TypesOfCalls DEF IInv
<1>2. /\ pc[a] = "decLock" /\ ~ended /\ arg[a] \in owned /\ arg[a] # NoHandle
      /\ \A b \in Apps \ {a} : arg[b] # arg[a]
  BY <1>1 DEF FreeDecLock, CoreInv, CallInv, CallTypes, Freeing
<1>3. arg[a] \in Kept
  BY <1>2 DEF Kept, In
<1>4. /\ lockCount = Cardinality(Kept) + Cardinality(In(Opening))
      /\ Cardinality(Kept) \in Nat /\ Cardinality(In(Opening)) \in Nat
      /\ IsFiniteSet(Kept) /\ IsFiniteSet(In(Opening)) /\ Cardinality(used) \in Nat
      /\ lockCount <= Cardinality(used)
  BY <1>1, <1>2, FiniteParts DEF IInv, CoreInv, CountInv
<1>5. /\ Cardinality(Kept \ {arg[a]}) = Cardinality(Kept) - 1
      /\ IsFiniteSet(Kept \ {arg[a]}) /\ Cardinality(Kept \ {arg[a]}) \in Nat
  BY <1>3, <1>4, FS_RemoveElement, FS_CardinalityType
<1>6. lockCount # 0
  BY <1>4, <1>5
<1>7. /\ lockCount' = lockCount - 1 /\ lockCnt' = [lockCnt EXCEPT ![a] = lockCount - 1]
      /\ pc' = [pc EXCEPT ![a] = "sendFree"] /\ UNCHANGED <<arg, result>>
      /\ UNCHANGED <<initCount, hwnd, threadHandle, heap, older, active, upset, hasList,
                     items, thread, sent,
                     used, owned, ended, empty>>
  BY <1>6 DEF FreeDecLock, Go, devList, window, old, history
<1>8. /\ \A b \in Apps \ {a} : pc'[b] = pc[b] /\ lockCnt'[b] = lockCnt[b]
      /\ pc'[a] = "sendFree" /\ lockCnt'[a] = lockCount - 1
  BY <1>1, <1>7 DEF CallTypes
<1>9. HasSteady' <=> HasSteady
  BY <1>7 DEF HasSteady
<1>10. ThreadInv'
  <2>1. /\ \A b \in Apps : pc[b] \in {"resume", "waitWindow", "error"} => pc'[b] = pc[b]
        /\ \A b \in Apps : pc'[b] \in {"start", "resume", "sendInit", "initAnswer", "freeAll",
                                     "waitExit"} => pc'[b] = pc[b]
        /\ pc'[a] # "idle"
    BY <1>2, <1>8
  <2> QED
    BY <1>1, <1>7, <2>1 DEF CoreInv, ThreadInv
<1>11. CallInv'
  BY <1>1, <1>2, <1>7, <1>8, <1>9 DEF CoreInv, CallInv, Opening, Freeing, Closing
<1>12. LastInv'
  <2>1. CASE HasSteady
    <3>1. PICK g \in owned : \A b \in Apps : arg[b] # g
      BY <2>1 DEF HasSteady
    <3>2. g \in Kept \ {arg[a]}
      BY <1>2, <3>1, LockCountZero
    <3>3. Cardinality(Kept \ {arg[a]}) # 0
      BY <1>5, <3>2, FS_EmptySet
    <3>4. lockCount - 1 # 0
      BY <1>4, <1>5, <3>3
    <3> QED
      BY <1>1, <1>7, <1>8, <1>9, <2>1, <3>4 DEF CoreInv, LastInv, HasSteady
  <2>2. CASE ~HasSteady
    <3>1. \A b \in Apps \ {a} : pc[b] = "idle" /\ arg[b] = NoHandle
      BY <1>1, <1>2, <2>2 DEF CoreInv, CallInv
    <3>2. In(Opening) = {} /\ Kept = owned
      BY <1>2, <3>1 DEF In, Opening, Kept
    <3>3. owned = {arg[a]}
      BY <1>1, <1>2, <2>2, <3>1 DEF HasSteady, CallTypes
    <3>4. lockCount = 1
      <4>1. Cardinality(In(Opening)) = 0 /\ Cardinality(Kept) = 1
        BY <3>2, <3>3, FS_EmptySet, FS_Singleton
      <4> QED
        BY <1>4, <4>1
    <3> QED
      BY <1>7, <1>8, <3>1, <3>3, <3>4 DEF LastInv
  <2> QED
    BY <2>1, <2>2
<1>13. SentInv'
  BY <1>2, <1>7, <1>8, SentKept
<1>14. AnswerInv'
  BY <1>1, <1>2, <1>7, <1>8 DEF CoreInv, AnswerInv, ItemSet, Gone, Made
<1>15. CountInv'
  <2>1. In(Opening)' = In(Opening)
    BY <1>2, <1>8 DEF In, Opening
  <2>2. Kept' = Kept \ {arg[a]}
    BY <1>2, <1>7, <1>8 DEF Kept, In
  <2> QED
    BY <1>1, <1>2, <1>4, <1>5, <1>7, <2>1, <2>2 DEF CoreInv, CountInv
<1> QED
  BY <1>6, <1>10, <1>11, <1>12, <1>13, <1>14, <1>15 DEF CoreInv

LEMMA FreeAnswerOK ==
    ASSUME IInv, NEW a \in Apps, FreeAnswer(a)
    PROVE  CoreInv'
<1>1. CallTypes /\ CoreInv
  BY TypesOfCalls DEF IInv
<1>2. /\ pc[a] = "freeAnswer" /\ result[a] = "done" /\ ~ended /\ thread = "loop"
      /\ arg[a] \in owned /\ arg[a] # NoHandle /\ arg[a] \in Handles
      /\ \A b \in Apps \ {a} : arg[b] # arg[a]
  BY <1>1 DEF FreeAnswer, CoreInv, CallInv, AnswerInv, ThreadInv, CallTypes, Freeing
<1>3. /\ UNCHANGED <<lockCount, initCount, hwnd, threadHandle, heap, older, active, upset,
                     hasList, items, thread, sent,
                     used, ended, empty>>
      /\ owned' = owned \ {arg[a]}
      /\ \/ /\ lockCnt[a] = 0 /\ pc' = [pc EXCEPT ![a] = "freeAll"]
            /\ UNCHANGED <<arg, lockCnt, result>>
         \/ /\ lockCnt[a] # 0 /\ pc' = [pc EXCEPT ![a] = "idle"]
            /\ arg' = [arg EXCEPT ![a] = NoHandle]
            /\ lockCnt' = [lockCnt EXCEPT ![a] = 0] /\ result' = [result EXCEPT ![a] = "none"]
  BY <1>2 DEF FreeAnswer, Return, Go, devList, window, old
<1>4. /\ \A b \in Apps \ {a} : /\ pc'[b] = pc[b] /\ arg'[b] = arg[b]
                               /\ lockCnt'[b] = lockCnt[b] /\ result'[b] = result[b]
      /\ \/ pc'[a] = "freeAll" /\ arg'[a] = arg[a] /\ lockCnt[a] = 0
         \/ pc'[a] = "idle" /\ arg'[a] = NoHandle
  BY <1>1, <1>3 DEF CallTypes
<1>5. lockCnt[a] = 0 => /\ owned' = {}
                        /\ \A b \in Apps \ {a} : pc[b] = "idle"
  BY <1>1, <1>2, <1>3 DEF CoreInv, LastInv, CallInv, HasSteady
<1>6. HasSteady => HasSteady'
  <2>1. \A b \in Apps : arg'[b] \in {arg[b], NoHandle}
    BY <1>4
  <2> QED
    BY <1>1, <1>2, <1>3, <2>1 DEF HasSteady, CallTypes
<1>7. ThreadInv'
  <2>1. thread' = "loop" /\ hwnd' /\ hwnd /\ hasList'
    BY <1>1, <1>2, <1>3 DEF CoreInv, ThreadInv, Over
  <2>2. \A b \in Apps : pc'[b] \in {"start", "resume"} => pc[b] = pc'[b]
    BY <1>4
  <2>3. owned' # {} \/ \E b \in Apps : pc'[b] # "idle"
    <3>1. CASE lockCnt[a] = 0
      BY <1>1, <1>3, <3>1 DEF CallTypes
    <3>2. CASE lockCnt[a] # 0
      BY <1>1, <1>2, <1>3, <3>2 DEF CoreInv, LastInv, HasSteady
    <3> QED
      BY <3>1, <3>2
  <2> QED
    BY <1>1, <1>2, <1>3, <2>1, <2>2, <2>3 DEF CoreInv, ThreadInv, Over
<1>8. CallInv'
  <2>1. ASSUME NEW b \in Apps, NEW c \in Apps, b # c, pc'[b] # "idle", pc'[c] # "idle"
        PROVE  arg'[b] # arg'[c] /\ HasSteady' /\ arg'[b] # NoHandle
    <3>1. pc[b] # "idle" /\ pc[c] # "idle" /\ b # a /\ c # a
      BY <1>4, <1>5, <2>1
    <3> QED
      BY <1>1, <1>4, <1>6, <2>1, <3>1 DEF CoreInv, CallInv
  <2>2. pc'[a] # "idle" => pc'[a] = "freeAll" /\ arg'[a] # NoHandle /\ owned' = {}
    BY <1>2, <1>4, <1>5
  <2> QED
    BY <1>1, <1>2, <1>3, <1>4, <2>1, <2>2 DEF CoreInv, CallInv, Opening, Freeing, Closing
<1>9. LastInv'
  <2>1. ASSUME NEW b \in Apps, pc'[b] \in {"sendFree", "freeAnswer"}
        PROVE  lockCnt'[b] # 0 /\ HasSteady'
    <3>1. b # a /\ pc[b] \in {"sendFree", "freeAnswer"}
      BY <1>4, <2>1
    <3>2. HasSteady
      BY <1>1, <1>2, <3>1 DEF CoreInv, CallInv
    <3> QED
      BY <1>1, <1>4, <1>6, <3>1, <3>2 DEF CoreInv, LastInv, HasSteady
  <2> QED
    BY <2>1 DEF LastInv
<1>10. SentInv'
  BY <1>2, <1>3, <1>4, SentKept
<1>11. AnswerInv'
  <2>1. \A b \in Apps : /\ pc'[b] = "initAnswer" => result'[b] # "zero"
                        /\ pc'[b] = "freeAnswer" => result'[b] \in {"none", "done"}
    BY <1>1, <1>4 DEF CoreInv, AnswerInv
  <2>2. ASSUME NEW g \in Handles
        PROVE  (g \in owned /\ ~Gone(g)) \/ Made(g) <=> ((g \in owned /\ ~Gone(g)) \/ Made(g))'
    <3>1. Made(g)' <=> Made(g)
      BY <1>2, <1>4 DEF Made
    <3>2. CASE g = arg[a]
      <4>1. Gone(g) /\ g \notin owned'
        BY <1>2, <1>3, <3>2 DEF Gone
      <4> QED
        BY <3>1, <4>1
    <3>3. CASE g # arg[a]
      <4>1. (Gone(g)' <=> Gone(g)) /\ (g \in owned' <=> g \in owned)
        BY <1>2, <1>3, <1>4, <3>3 DEF Gone
      <4> QED
        BY <3>1, <4>1
    <3> QED
      BY <3>2, <3>3
  <2>3. ItemSet' = ItemSet
    BY <1>3 DEF ItemSet
  <2> QED
    BY <1>1, <1>2, <1>3, <2>1, <2>2, <2>3 DEF CoreInv, AnswerInv
<1>12. CountInv'
  <2>1. In(Opening)' = In(Opening)
    BY <1>2, <1>4 DEF In, Opening
  <2>2. Kept' = Kept
    BY <1>2, <1>3, <1>4 DEF Kept, In
  <2> QED
    BY <1>1, <1>3, <2>1, <2>2 DEF CoreInv, CountInv
<1> QED
  BY <1>7, <1>8, <1>9, <1>10, <1>11, <1>12 DEF CoreInv

LEMMA StartMonitorOK ==
    ASSUME IInv, NEW a \in Apps, StartMonitor(a)
    PROVE  CoreInv'
<1>1. CallTypes /\ CoreInv
  BY TypesOfCalls DEF IInv
<1>2. /\ pc[a] = "start" /\ pc' = [pc EXCEPT ![a] = "resume"]
      /\ thread \in Over /\ active' = FALSE
      /\ heap' = TRUE /\ hasList' = TRUE /\ threadHandle' = TRUE /\ thread' = "suspended"
      /\ UNCHANGED <<lockCount, initCount, hwnd, upset, items, sent, arg, lockCnt, result,
                     used,
                     owned, ended, empty>>
  BY <1>1 DEF StartMonitor, Go, history, CoreInv, ThreadInv
<1>3. pc'[a] = "resume" /\ \A b \in Apps \ {a} : pc'[b] = pc[b]
  BY <1>1, <1>2 DEF CallTypes
<1>4. \A b \in Apps \ {a} : pc[b] = "idle" /\ arg[b] = NoHandle
  BY <1>2, Alone
<1>5. ThreadInv'
  BY <1>1, <1>2, <1>3, <1>4 DEF CoreInv, ThreadInv, CallInv, Over
<1>6. CallInv'
  BY <1>1, <1>2, <1>3, <1>4 DEF CoreInv, CallInv, CallTypes, HasSteady, Opening, Freeing,
     Closing
<1>7. LastInv'
  BY <1>1, <1>2, <1>3, <1>4 DEF CoreInv, LastInv
<1>8. SentInv'
  BY <1>1, <1>2, <1>3, <1>4, NothingSent, SentKept DEF CallTypes
<1>9. AnswerInv'
  BY <1>1, <1>2, <1>3, <1>4 DEF CoreInv, AnswerInv, ItemSet, Gone, Made, CallTypes
<1>10. CountInv'
  <2>1. Kept' = Kept /\ In(Opening)' = In(Opening)
    BY <1>1, <1>2, <1>3, <1>4 DEF Kept, In, Opening
  <2> QED
    BY <1>1, <1>2, <2>1 DEF CoreInv, CountInv
<1> QED
  BY <1>5, <1>6, <1>7, <1>8, <1>9, <1>10 DEF CoreInv

LEMMA StartMonitorFailsOK ==
    ASSUME IInv, NEW a \in Apps, StartMonitorFails(a)
    PROVE  CoreInv'
<1>1. CallTypes /\ CoreInv
  BY TypesOfCalls DEF IInv
<1>2. /\ pc[a] = "start" /\ pc' = [pc EXCEPT ![a] = "error"]
      /\ thread \in Over /\ active' = FALSE
      /\ heap' = TRUE /\ hasList' \in {hasList, TRUE} /\ thread' = "none"
      /\ UNCHANGED <<lockCount, initCount, hwnd, upset, items, sent, arg, lockCnt, result,
                     used,
                     owned, ended, empty>>
  BY <1>1 DEF StartMonitorFails, Go, devList, history, CoreInv, ThreadInv
<1>3. pc'[a] = "error" /\ \A b \in Apps \ {a} : pc'[b] = pc[b]
  BY <1>1, <1>2 DEF CallTypes
<1>4. \A b \in Apps \ {a} : pc[b] = "idle" /\ arg[b] = NoHandle
  BY <1>2, Alone
<1>5. ThreadInv'
  BY <1>1, <1>2, <1>3, <1>4 DEF CoreInv, ThreadInv, CallInv, Over
<1>6. CallInv'
  BY <1>1, <1>2, <1>3, <1>4 DEF CoreInv, CallInv, CallTypes, HasSteady, Opening, Freeing,
     Closing
<1>7. LastInv'
  BY <1>1, <1>2, <1>3, <1>4 DEF CoreInv, LastInv
<1>8. SentInv'
  BY <1>1, <1>2, <1>3, <1>4, NothingSent, SentKept DEF CallTypes
<1>9. AnswerInv'
  BY <1>1, <1>2, <1>3, <1>4 DEF CoreInv, AnswerInv, ItemSet, Gone, Made, CallTypes
<1>10. CountInv'
  <2>1. Kept' = Kept /\ In(Opening)' = In(Opening)
    BY <1>1, <1>2, <1>3, <1>4 DEF Kept, In, Opening
  <2> QED
    BY <1>1, <1>2, <2>1 DEF CoreInv, CountInv
<1> QED
  BY <1>5, <1>6, <1>7, <1>8, <1>9, <1>10 DEF CoreInv

LEMMA ResumeMonitorOK ==
    ASSUME IInv, NEW a \in Apps, ResumeMonitor(a)
    PROVE  CoreInv'
<1>1. CallTypes /\ CoreInv
  BY TypesOfCalls DEF IInv
<1>2. /\ pc[a] = "resume" /\ pc' = [pc EXCEPT ![a] = "waitWindow"]
      /\ thread = "suspended" /\ thread' = "created" /\ threadHandle
      /\ UNCHANGED <<lockCount, initCount, hwnd, threadHandle, heap, older, active, upset,
                     hasList,
                     items, sent, arg, lockCnt, result, used, owned, ended, empty>>
  BY <1>1 DEF ResumeMonitor, Go, devList, window, old, history, CoreInv, ThreadInv
<1>3. pc'[a] = "waitWindow" /\ \A b \in Apps \ {a} : pc'[b] = pc[b]
  BY <1>1, <1>2 DEF CallTypes
<1>4. \A b \in Apps \ {a} : pc[b] = "idle" /\ arg[b] = NoHandle
  BY <1>2, Alone
<1>5. ThreadInv'
  BY <1>1, <1>2, <1>3, <1>4 DEF CoreInv, ThreadInv, CallInv, Over
<1>6. CallInv'
  BY <1>1, <1>2, <1>3, <1>4 DEF CoreInv, CallInv, CallTypes, HasSteady, Opening, Freeing,
     Closing
<1>7. LastInv'
  BY <1>1, <1>2, <1>3, <1>4 DEF CoreInv, LastInv
<1>8. SentInv'
  BY <1>1, <1>2, <1>3, <1>4, NothingSent, SentKept DEF CallTypes
<1>9. AnswerInv'
  BY <1>1, <1>2, <1>3, <1>4 DEF CoreInv, AnswerInv, ItemSet, Gone, Made, CallTypes
<1>10. CountInv'
  <2>1. Kept' = Kept /\ In(Opening)' = In(Opening)
    BY <1>1, <1>2, <1>3, <1>4 DEF Kept, In, Opening
  <2> QED
    BY <1>1, <1>2, <2>1 DEF CoreInv, CountInv
<1> QED
  BY <1>5, <1>6, <1>7, <1>8, <1>9, <1>10 DEF CoreInv

LEMMA ResumeMonitorFailsOK ==
    ASSUME IInv, NEW a \in Apps, ResumeMonitorFails(a)
    PROVE  CoreInv'
<1>1. CallTypes /\ CoreInv
  BY TypesOfCalls DEF IInv
<1>2. /\ pc[a] = "resume" /\ pc' = [pc EXCEPT ![a] = "error"]
      /\ thread = "suspended"
      /\ UNCHANGED <<lockCount, initCount, hwnd, threadHandle, heap, older, active, upset,
                     hasList,
                     items, thread, sent, arg, lockCnt, result, used, owned, ended, empty>>
  BY <1>1 DEF ResumeMonitorFails, Go, devList, window, old, history, CoreInv, ThreadInv
<1>3. pc'[a] = "error" /\ \A b \in Apps \ {a} : pc'[b] = pc[b]
  BY <1>1, <1>2 DEF CallTypes
<1>4. \A b \in Apps \ {a} : pc[b] = "idle" /\ arg[b] = NoHandle
  BY <1>2, Alone
<1>5. ThreadInv'
  BY <1>1, <1>2, <1>3, <1>4 DEF CoreInv, ThreadInv, CallInv, Over
<1>6. CallInv'
  BY <1>1, <1>2, <1>3, <1>4 DEF CoreInv, CallInv, CallTypes, HasSteady, Opening, Freeing,
     Closing
<1>7. LastInv'
  BY <1>1, <1>2, <1>3, <1>4 DEF CoreInv, LastInv
<1>8. SentInv'
  BY <1>1, <1>2, <1>3, <1>4, NothingSent, SentKept DEF CallTypes
<1>9. AnswerInv'
  BY <1>1, <1>2, <1>3, <1>4 DEF CoreInv, AnswerInv, ItemSet, Gone, Made, CallTypes
<1>10. CountInv'
  <2>1. Kept' = Kept /\ In(Opening)' = In(Opening)
    BY <1>1, <1>2, <1>3, <1>4 DEF Kept, In, Opening
  <2> QED
    BY <1>1, <1>2, <2>1 DEF CoreInv, CountInv
<1> QED
  BY <1>5, <1>6, <1>7, <1>8, <1>9, <1>10 DEF CoreInv

LEMMA WaitWindowOK ==
    ASSUME IInv, NEW a \in Apps, WaitWindow(a)
    PROVE  CoreInv'
<1>1. CallTypes /\ CoreInv
  BY TypesOfCalls DEF IInv
<1>2. PICK l \in {"sendInit", "error"} :
      /\ pc[a] = "waitWindow" /\ pc' = [pc EXCEPT ![a] = l]
      /\ l = "sendInit" => thread = "loop"
      /\ UNCHANGED <<lockCount, initCount, hwnd, threadHandle, heap, older, active, upset,
                     hasList,
                     items, thread, sent, arg, lockCnt, result, used, owned, ended, empty>>
  BY <1>1 DEF WaitWindow, Go, devList, window, old, history, CoreInv, ThreadInv
<1>3. pc'[a] = l /\ \A b \in Apps \ {a} : pc'[b] = pc[b]
  BY <1>1, <1>2 DEF CallTypes
<1>4. \A b \in Apps \ {a} : pc[b] = "idle" /\ arg[b] = NoHandle
  BY <1>2, Alone
<1>5. ThreadInv'
  BY <1>1, <1>2, <1>3, <1>4 DEF CoreInv, ThreadInv, CallInv
<1>6. CallInv'
  BY <1>1, <1>2, <1>3, <1>4 DEF CoreInv, CallInv, CallTypes, HasSteady, Opening, Freeing,
     Closing
<1>7. LastInv'
  BY <1>1, <1>2, <1>3, <1>4 DEF CoreInv, LastInv
<1>8. SentInv'
  BY <1>1, <1>2, <1>3, <1>4, NothingSent, SentKept DEF CallTypes
<1>9. AnswerInv'
  BY <1>1, <1>2, <1>3, <1>4 DEF CoreInv, AnswerInv, ItemSet, Gone, Made, CallTypes
<1>10. CountInv'
  <2>1. Kept' = Kept /\ In(Opening)' = In(Opening)
    BY <1>1, <1>2, <1>3, <1>4 DEF Kept, In, Opening
  <2> QED
    BY <1>1, <1>2, <2>1 DEF CoreInv, CountInv
<1> QED
  BY <1>5, <1>6, <1>7, <1>8, <1>9, <1>10 DEF CoreInv

LEMMA SendInitOK ==
    ASSUME IInv, NEW a \in Apps, SendInit(a)
    PROVE  CoreInv'
<1>1. CallTypes /\ CoreInv
  BY TypesOfCalls DEF IInv
<1>2. /\ pc[a] = "sendInit" /\ thread = "loop" /\ Send(a, "init", "initAnswer")
      /\ pc' = [pc EXCEPT ![a] = "initAnswer"]
      /\ UNCHANGED <<lockCount, initCount, hwnd, threadHandle, heap, older, active, upset,
                     hasList, items,
                     thread, arg, lockCnt, used, owned, ended, empty>>
  BY <1>1 DEF SendInit, Send, Go, devList, window, old, history, CoreInv, ThreadInv
<1>3. pc'[a] = "initAnswer" /\ \A b \in Apps \ {a} : pc'[b] = pc[b]
  BY <1>1, <1>2 DEF CallTypes
<1>4. SentInv' /\ result' = [result EXCEPT ![a] = "none"]
  <2>1. WaitsAt("init") = "initAnswer"
    BY DEF WaitsAt
  <2> QED
    BY <1>2, <2>1, SentAppended
<1>5. result'[a] = "none" /\ \A b \in Apps \ {a} : result'[b] = result[b]
  BY <1>1, <1>4 DEF CallTypes
<1>6. ThreadInv'
  BY <1>1, <1>2, <1>3, <1>5 DEF CoreInv, ThreadInv
<1>7. CallInv'
  BY <1>1, <1>2, <1>3, <1>5 DEF CoreInv, CallInv, CallTypes, HasSteady, Opening, Freeing,
     Closing
<1>8. LastInv'
  BY <1>1, <1>2, <1>3, <1>5 DEF CoreInv, LastInv, HasSteady
<1>9. AnswerInv'
  BY <1>1, <1>2, <1>3, <1>5 DEF CoreInv, AnswerInv, ItemSet, Gone, Made, CallTypes
<1>10. CountInv'
  <2>1. Kept' = Kept /\ In(Opening)' = In(Opening)
    BY <1>1, <1>2, <1>3, <1>5 DEF Kept, In, Opening
  <2> QED
    BY <1>1, <1>2, <2>1 DEF CoreInv, CountInv
<1> QED
  BY <1>4, <1>6, <1>7, <1>8, <1>9, <1>10 DEF CoreInv

LEMMA SendFreeOK ==
    ASSUME IInv, NEW a \in Apps, SendFree(a)
    PROVE  CoreInv'
<1>1. CallTypes /\ CoreInv
  BY TypesOfCalls DEF IInv
<1>2. /\ pc[a] = "sendFree" /\ thread = "loop" /\ Send(a, "free", "freeAnswer")
      /\ pc' = [pc EXCEPT ![a] = "freeAnswer"]
      /\ UNCHANGED <<lockCount, initCount, hwnd, threadHandle, heap, older, active, upset,
                     hasList, items,
                     thread, arg, lockCnt, used, owned, ended, empty>>
  BY <1>1 DEF SendFree, Send, Go, devList, window, old, history, CoreInv, ThreadInv,
     CallInv, Freeing
<1>3. pc'[a] = "freeAnswer" /\ \A b \in Apps \ {a} : pc'[b] = pc[b]
  BY <1>1, <1>2 DEF CallTypes
<1>4. SentInv' /\ result' = [result EXCEPT ![a] = "none"]
  <2>1. WaitsAt("free") = "freeAnswer"
    BY DEF WaitsAt
  <2> QED
    BY <1>2, <2>1, SentAppended
<1>5. result'[a] = "none" /\ \A b \in Apps \ {a} : result'[b] = result[b]
  BY <1>1, <1>4 DEF CallTypes
<1>6. ThreadInv'
  BY <1>1, <1>2, <1>3, <1>5 DEF CoreInv, ThreadInv
<1>7. CallInv'
  BY <1>1, <1>2, <1>3, <1>5 DEF CoreInv, CallInv, CallTypes, HasSteady, Opening, Freeing,
     Closing
<1>8. LastInv'
  BY <1>1, <1>2, <1>3, <1>5 DEF CoreInv, LastInv, HasSteady
<1>9. AnswerInv'
  BY <1>1, <1>2, <1>3, <1>5 DEF CoreInv, AnswerInv, ItemSet, Gone, Made, CallTypes
<1>10. CountInv'
  <2>1. Kept' = Kept /\ In(Opening)' = In(Opening)
    BY <1>1, <1>2, <1>3, <1>5 DEF Kept, In, Opening
  <2> QED
    BY <1>1, <1>2, <2>1 DEF CoreInv, CountInv
<1> QED
  BY <1>4, <1>6, <1>7, <1>8, <1>9, <1>10 DEF CoreInv

LEMMA SendDestroyOK ==
    ASSUME IInv, NEW a \in Apps, SendDestroy(a)
    PROVE  CoreInv'
<1>1. CallTypes /\ CoreInv
  BY TypesOfCalls DEF IInv
<1>2. /\ pc[a] = "freeAll" /\ thread = "loop" /\ Send(a, "destroy", "waitExit")
      /\ pc' = [pc EXCEPT ![a] = "waitExit"]
      /\ UNCHANGED <<lockCount, initCount, hwnd, threadHandle, heap, older, active, upset,
                     hasList, items,
                     thread, arg, lockCnt, used, owned, ended, empty>>
  BY <1>1 DEF SendDestroy, Send, Go, devList, window, old, history, CoreInv, ThreadInv
<1>3. pc'[a] = "waitExit" /\ \A b \in Apps \ {a} : pc'[b] = pc[b]
  BY <1>1, <1>2 DEF CallTypes
<1>4. SentInv' /\ result' = [result EXCEPT ![a] = "none"]
  <2>1. WaitsAt("destroy") = "waitExit"
    BY DEF WaitsAt
  <2> QED
    BY <1>2, <2>1, SentAppended
<1>5. result'[a] = "none" /\ \A b \in Apps \ {a} : result'[b] = result[b]
  BY <1>1, <1>4 DEF CallTypes
<1>6. \A b \in Apps \ {a} : pc[b] = "idle" /\ arg[b] = NoHandle
  BY <1>2, Alone
<1>7. ThreadInv'
  BY <1>1, <1>2, <1>3, <1>5, <1>6 DEF CoreInv, ThreadInv, CallInv
<1>8. CallInv'
  BY <1>1, <1>2, <1>3, <1>5, <1>6 DEF CoreInv, CallInv, CallTypes, HasSteady, Opening,
     Freeing, Closing
<1>9. LastInv'
  BY <1>1, <1>2, <1>3, <1>5, <1>6 DEF CoreInv, LastInv
<1>10. AnswerInv'
  BY <1>1, <1>2, <1>3, <1>5, <1>6 DEF CoreInv, AnswerInv, ItemSet, Gone, Made, CallTypes
<1>11. CountInv'
  <2>1. Kept' = Kept /\ In(Opening)' = In(Opening)
    BY <1>1, <1>2, <1>3, <1>5, <1>6 DEF Kept, In, Opening
  <2> QED
    BY <1>1, <1>2, <2>1 DEF CoreInv, CountInv
<1> QED
  BY <1>4, <1>7, <1>8, <1>9, <1>10, <1>11 DEF CoreInv

LEMMA WaitExitOK ==
    ASSUME IInv, NEW a \in Apps, WaitExit(a)
    PROVE  CoreInv'
<1>1. CallTypes /\ CoreInv
  BY TypesOfCalls DEF IInv
<1>2. /\ pc[a] = "waitExit" /\ result[a] # "none" /\ thread # "loop"
      /\ pc' = [pc EXCEPT ![a] = "idle"] /\ arg' = [arg EXCEPT ![a] = NoHandle]
      /\ owned' = IF arg[a] = NoHandle THEN {} ELSE owned
      /\ lockCnt' = [lockCnt EXCEPT ![a] = 0] /\ result' = [result EXCEPT ![a] = "none"]
      /\ UNCHANGED <<lockCount, initCount, hwnd, threadHandle, heap, older, active, upset,
                     hasList, items,
                     thread, sent, used, ended, empty>>
  BY <1>1 DEF WaitExit, Return, Go, devList, window, old, CoreInv, ThreadInv
<1>3. pc'[a] = "idle" /\ \A b \in Apps \ {a} : pc'[b] = pc[b]
  BY <1>1, <1>2 DEF CallTypes
<1>4. \A b \in Apps \ {a} : pc[b] = "idle" /\ arg[b] = NoHandle
  BY <1>2, Alone
<1>5. ThreadInv'
  BY <1>1, <1>2, <1>3, <1>4 DEF CoreInv, ThreadInv
<1>6. CallInv'
  BY <1>1, <1>2, <1>3, <1>4 DEF CoreInv, CallInv, CallTypes, HasSteady, Opening, Freeing,
     Closing
<1>7. LastInv'
  BY <1>1, <1>2, <1>3, <1>4 DEF CoreInv, LastInv, CallTypes
<1>8. SentInv'
  BY <1>1, <1>2, <1>3, <1>4, SentKept DEF CallTypes, CoreInv, SentInv, ThreadInv
<1>9. AnswerInv'
  BY <1>1, <1>2, <1>3, <1>4 DEF CoreInv, AnswerInv, ItemSet, Gone, Made, CallTypes, CallInv,
     Closing
<1>10. CountInv'
  <2>1. CASE arg[a] = NoHandle
    <3>1. ended'
      BY <1>1, <1>2, <2>1 DEF CoreInv, CallInv, Closing
    <3> QED
      BY <1>1, <1>2, <3>1 DEF CoreInv, CountInv
  <2>2. CASE arg[a] # NoHandle
    <3>1. Kept' = Kept /\ In(Opening)' = In(Opening)
      BY <1>1, <1>2, <1>3, <1>4, <2>2 DEF Kept, In, Opening
    <3> QED
      BY <1>1, <1>2, <3>1 DEF CoreInv, CountInv
  <2> QED
    BY <2>1, <2>2
<1> QED
  BY <1>5, <1>6, <1>7, <1>8, <1>9, <1>10 DEF CoreInv

LEMMA BeginFreeAllOK ==
    ASSUME IInv, NEW a \in Apps, BeginFreeAll(a)
    PROVE  CoreInv'
<1>1. CallTypes /\ CoreInv
  BY TypesOfCalls DEF IInv
<1>2. /\ \A b \in Apps : pc[b] = "idle" /\ arg[b] = NoHandle
      /\ pc' = [pc EXCEPT ![a] = "freeAll"] /\ arg' = [arg EXCEPT ![a] = NoHandle]
      /\ ended' = TRUE /\ thread = "loop"
      /\ UNCHANGED <<lockCount, initCount, hwnd, threadHandle, heap, older, active, upset,
                     hasList, items,
                     thread, sent, lockCnt, result, used, owned, empty>>
  BY <1>1 DEF BeginFreeAll, Calling, Call, Go, devList, window, old, CoreInv, ThreadInv,
     CallInv
<1>3. pc'[a] = "freeAll" /\ \A b \in Apps \ {a} : pc'[b] = pc[b]
  BY <1>1, <1>2 DEF CallTypes
<1>4. ThreadInv'
  BY <1>1, <1>2, <1>3 DEF CoreInv, ThreadInv
<1>5. CallInv'
  BY <1>1, <1>2, <1>3 DEF CoreInv, CallInv, CallTypes, HasSteady, Opening, Freeing, Closing
<1>6. LastInv'
  BY <1>1, <1>2, <1>3 DEF CoreInv, LastInv, HasSteady
<1>7. SentInv'
  BY <1>1, <1>2, <1>3, SentKept DEF CallTypes, CoreInv, SentInv, ThreadInv
<1>8. AnswerInv'
  BY <1>1, <1>2, <1>3 DEF CoreInv, AnswerInv, ItemSet, Gone, Made, CallTypes
<1>9. CountInv'
  BY <1>1, <1>2 DEF CoreInv, CountInv
<1> QED
  BY <1>4, <1>5, <1>6, <1>7, <1>8, <1>9 DEF CoreInv

-----------------------------------------------------------------------------
(***************************************************************************)
(* Steps of the hot thread.                                                *)
(***************************************************************************)

\* The others are not disturbed when a message is answered.
LEMMA SentTaken ==
    ASSUME IInv, sent # << >>, NEW value \in {"none", "zero", "done", "failed"},
           sent' = Tail(sent), pc' = pc, arg' = arg,
           result' = [result EXCEPT ![Head(sent).app] = value],
           thread' = "loop" \/ Tail(sent) = << >>
    PROVE  SentInv'
<1>1. sent \in Seq(Messages) /\ SentInv /\ CallTypes
  BY TypesOfCalls DEF IInv, TypeOK, Messages, CoreInv
<1>2. Head(sent) = sent[1] /\ 1 \in DOMAIN sent /\ Head(sent).app \in Apps
  BY FirstMessage
<1> DEFINE t == Tail(sent)
           n == Len(t)
<1>3. t \in Seq(Messages) /\ n = Len(sent) - 1 /\ \A i \in 1 .. n : t[i] = sent[i + 1]
  BY <1>1, HeadTailProperties
<1>4. n \in Nat /\ DOMAIN t = 1 .. n /\ DOMAIN sent = 1 .. n + 1
  BY <1>1, <1>3, LenProperties
<1>5. \A k \in DOMAIN sent : sent[k].app \in Apps
  BY SentTypes DEF IInv
<1> HIDE DEF t, n
<1>6. sent' = t
  BY DEF t
<1>7. ASSUME NEW k \in 1 .. n
      PROVE  /\ k + 1 \in DOMAIN sent /\ t[k] = sent[k + 1]
             /\ t[k].app # Head(sent).app /\ t[k].app \in Apps
  <2>1. k + 1 \in DOMAIN sent /\ t[k] = sent[k + 1] /\ k + 1 # 1
    BY <1>3, <1>4
  <2> QED
    BY <1>1, <1>2, <1>5, <2>1 DEF SentInv
<1>8. \A k \in DOMAIN t : /\ t[k].h = arg'[t[k].app] /\ result'[t[k].app] = "none"
                          /\ pc'[t[k].app] = WaitsAt(t[k].kind)
  <2> SUFFICES ASSUME NEW k \in 1 .. n
               PROVE  /\ t[k].h = arg'[t[k].app] /\ result'[t[k].app] = "none"
                      /\ pc'[t[k].app] = WaitsAt(t[k].kind)
    BY <1>4
  <2>1. /\ t[k].h = arg[t[k].app] /\ result[t[k].app] = "none"
        /\ pc[t[k].app] = WaitsAt(t[k].kind)
    BY <1>1, <1>7 DEF SentInv
  <2>2. result'[t[k].app] = result[t[k].app]
    BY <1>1, <1>2, <1>7 DEF CallTypes
  <2> QED
    BY <2>1, <2>2
<1>9. ASSUME NEW j \in DOMAIN t, NEW k \in DOMAIN t, t[j].app = t[k].app
      PROVE  j = k
  <2>1. j + 1 = k + 1
    BY <1>1, <1>4, <1>7, <1>9 DEF SentInv
  <2> QED
    BY <1>4, <2>1
<1> QED
  BY <1>6, <1>8, <1>9 DEF SentInv, t

LEMMA EnterThreadOK ==
    ASSUME IInv, EnterThread
    PROVE  CoreInv'
<1>1. /\ CallTypes /\ CoreInv /\ thread = "created" /\ thread' = "entered"
      /\ older' = [h \in Handles |-> [older[h] EXCEPT !.mine = FALSE]]
      /\ UNCHANGED <<lockCount, initCount, hwnd, threadHandle, heap, upset, hasList, items,
                     sent,
                     pc, arg, lockCnt, result, used, owned, ended, empty>>
  BY TypesOfCalls DEF IInv, EnterThread, devList, window, old, calls, history
<1>3. ThreadInv'
  <2>1. \A h \in Handles : ~older'[h].mine
    <3>1. \A h \in Handles : DOMAIN older[h] = {"at", "posted", "removals", "mine"}
      BY DEF IInv, TypeOK
    <3> QED
      BY <1>1, <3>1
  <2> QED
    BY <1>1, <2>1 DEF CoreInv, ThreadInv, Over
<1>4. CallInv' /\ LastInv'
  BY <1>1 DEF CoreInv, CallInv, LastInv, HasSteady
<1>5. SentInv'
  BY <1>1 DEF CoreInv, SentInv
<1>6. AnswerInv' /\ CountInv'
  BY <1>1 DEF CoreInv, AnswerInv, CountInv, ItemSet, Gone, Made, Kept, In
<1> QED
  BY <1>3, <1>4, <1>5, <1>6 DEF CoreInv

LEMMA CreateWindowOK ==
    ASSUME IInv, CreateWindow
    PROVE  CoreInv'
<1>1. /\ CallTypes /\ CoreInv /\ thread = "entered" /\ thread' = "loop"
      /\ hwnd' = TRUE
      /\ UNCHANGED <<lockCount, initCount, threadHandle, heap, older, active, upset,
                     hasList, items,
                     sent, pc, arg, lockCnt, result, used, owned, ended, empty>>
  BY TypesOfCalls DEF IInv, CreateWindow, devList, window, old, calls, history
<1>3. ThreadInv'
  BY <1>1 DEF CoreInv, ThreadInv, Over
<1>4. CallInv' /\ LastInv'
  BY <1>1 DEF CoreInv, CallInv, LastInv, HasSteady
<1>5. SentInv'
  BY <1>1 DEF CoreInv, SentInv
<1>6. AnswerInv' /\ CountInv'
  BY <1>1 DEF CoreInv, AnswerInv, CountInv, ItemSet, Gone, Made, Kept, In
<1> QED
  BY <1>3, <1>4, <1>5, <1>6 DEF CoreInv

LEMMA CreateWindowFailsOK ==
    ASSUME IInv, CreateWindowFails
    PROVE  CoreInv'
<1>1. /\ CallTypes /\ CoreInv /\ thread = "entered" /\ thread' = "leaving"
      /\ UNCHANGED <<lockCount, initCount, hwnd, threadHandle, heap, older, active, upset,
                     hasList,
                     items, sent, pc, arg, lockCnt, result, used, owned, ended, empty>>
  BY TypesOfCalls DEF IInv, CreateWindowFails, devList, window, old, calls, history
<1>3. ThreadInv'
  BY <1>1 DEF CoreInv, ThreadInv, Over
<1>4. CallInv' /\ LastInv'
  BY <1>1 DEF CoreInv, CallInv, LastInv, HasSteady
<1>5. SentInv'
  BY <1>1 DEF CoreInv, SentInv
<1>6. AnswerInv' /\ CountInv'
  BY <1>1 DEF CoreInv, AnswerInv, CountInv, ItemSet, Gone, Made, Kept, In
<1> QED
  BY <1>3, <1>4, <1>5, <1>6 DEF CoreInv

\* The thread goes on from its message loop to its end: no call needs it.
LEMMA ThreadEndsOK ==
    ASSUME IInv, Quit \/ Leave \/ End
    PROVE  CoreInv'
<1>1. CallTypes /\ CoreInv
  BY TypesOfCalls DEF IInv
<1>2. sent = << >> /\ sent' = << >> /\ thread \in {"quit", "leaving", "closing"}
  BY <1>1 DEF Quit, Leave, End, CoreInv, SentInv
<1>3. result' = result
  <2>1. CASE End
    BY <1>1, <1>2, <2>1 DEF End, CallTypes
  <2> QED
    BY <2>1 DEF Quit, Leave, calls
<1>4. /\ UNCHANGED <<lockCount, initCount, hwnd, older, active, upset, hasList, items,
                     pc, arg, lockCnt, used, owned, ended, empty>>
      /\ \/ /\ thread = "quit" /\ thread' = "leaving"
            /\ UNCHANGED <<threadHandle, heap>>
         \/ /\ thread = "leaving" /\ thread' = "closing" /\ threadHandle' = FALSE
            /\ UNCHANGED heap
         \/ /\ thread = "closing" /\ thread' = "none" /\ heap' = FALSE
            /\ UNCHANGED threadHandle
  BY DEF Quit, Leave, End, devList, window, old, calls, history
<1>5. ThreadInv'
  BY <1>1, <1>4 DEF CoreInv, ThreadInv, Over
<1>6. CallInv' /\ LastInv'
  BY <1>1, <1>3, <1>4 DEF CoreInv, CallInv, LastInv, HasSteady
<1>7. SentInv'
  BY <1>2 DEF SentInv
<1>8. AnswerInv' /\ CountInv'
  BY <1>1, <1>3, <1>4 DEF CoreInv, AnswerInv, CountInv, ItemSet, Gone, Made, Kept, In
<1> QED
  BY <1>5, <1>6, <1>7, <1>8 DEF CoreInv

LEMMA OnInitHandleOK ==
    ASSUME IInv, sent # << >>, OnInitHandle(Head(sent)),
           UNCHANGED <<lockCount, threadHandle, heap, old, world, used, owned, ended,
                       empty>>
    PROVE  CoreInv' /\ Head(sent).h \in Handles \ ItemSet /\ ~ended
<1> DEFINE a == Head(sent).app
           h == Head(sent).h
<1>1. CallTypes /\ CoreInv
  BY TypesOfCalls DEF IInv
<1>2. /\ a \in Apps /\ pc[a] = "initAnswer" /\ result[a] = "none" /\ h = arg[a]
      /\ thread = "loop"
  BY FirstMessage DEF OnInitHandle, WaitsAt
<1>3. /\ items' = Append(items, h) /\ initCount' = initCount + 1
      /\ sent' = Tail(sent) /\ result' = [result EXCEPT ![a] = "done"]
      /\ UNCHANGED <<lockCount, threadHandle, heap, older, active, upset, hwnd, hasList,
                     thread, pc, arg, lockCnt,
                     used, owned, ended, empty>>
  BY DEF OnInitHandle, Answer, devList, old
<1> HIDE DEF a, h
<1>4. ~ended /\ h \in used \ owned /\ h \in Handles /\ \A b \in Apps \ {a} : arg[b] # h
  <2>1. ~ended /\ h \in used \ owned /\ h \in Handles /\ h # NoHandle
    BY <1>1, <1>2 DEF CoreInv, CallInv, CallTypes, Opening
  <2>2. ASSUME NEW b \in Apps \ {a} PROVE arg[b] # h
    BY <1>1, <1>2, <2>1 DEF CoreInv, CallInv
  <2> QED
    BY <2>1, <2>2
<1>5. ~Made(h) /\ h \notin ItemSet
  BY <1>1, <1>2, <1>4 DEF Made, CoreInv, AnswerInv
<1>6. ItemSet' = ItemSet \cup {h} /\ Len(items') = Len(items) + 1
  BY <1>3, <1>4, <1>5, AppendedIs DEF ItemSet, IInv, TypeOK
<1>7. result'[a] = "done" /\ \A b \in Apps \ {a} : result'[b] = result[b]
  BY <1>1, <1>2, <1>3 DEF CallTypes
<1>8. ThreadInv' /\ CallInv' /\ LastInv'
  BY <1>1, <1>3 DEF CoreInv, ThreadInv, CallInv, LastInv, HasSteady
<1>9. SentInv'
  BY <1>2, <1>3, SentTaken DEF a
<1>10. AnswerInv'
  <2>1. \A b \in Apps : /\ pc'[b] = "initAnswer" => result'[b] # "zero"
                        /\ pc'[b] = "freeAnswer" => result'[b] \in {"none", "done"}
    BY <1>1, <1>2, <1>3, <1>7 DEF CoreInv, AnswerInv
  <2>2. ASSUME NEW g \in Handles
        PROVE  g \in ItemSet' <=> (g \in owned' /\ ~Gone(g)') \/ Made(g)'
    <3>1. CASE g = h
      BY <1>2, <1>3, <1>6, <1>7, <3>1 DEF Made
    <3>2. CASE g # h
      <4>1. (Made(g)' <=> Made(g)) /\ (Gone(g)' <=> Gone(g))
        BY <1>2, <1>3, <1>7, <3>2 DEF Made, Gone
      <4> QED
        BY <1>1, <1>3, <1>4, <1>6, <3>2, <4>1 DEF CoreInv, AnswerInv
    <3> QED
      BY <3>1, <3>2
  <2> QED
    BY <2>1, <2>2 DEF AnswerInv
<1>11. CountInv'
  <2>1. Kept' = Kept /\ In(Opening)' = In(Opening)
    BY <1>3 DEF Kept, In, Opening
  <2>2. Len(items) \in Nat /\ initCount \in Nat
    BY LenProperties, FiniteParts DEF IInv, TypeOK
  <2> QED
    BY <1>1, <1>3, <1>4, <1>6, <2>1, <2>2 DEF CoreInv, CountInv
<1> QED
  BY <1>4, <1>5, <1>8, <1>9, <1>10, <1>11 DEF CoreInv, h

LEMMA OnInitNoSlotOK ==
    ASSUME IInv, sent # << >>, OnInitNoSlot(Head(sent)),
           UNCHANGED <<lockCount, threadHandle, heap, old, world, used, owned, ended,
                       empty>>
    PROVE  CoreInv'
<1> DEFINE a == Head(sent).app
<1>1. CallTypes /\ CoreInv
  BY TypesOfCalls DEF IInv
<1>2. a \in Apps /\ pc[a] = "initAnswer" /\ result[a] = "none" /\ thread = "loop"
  BY FirstMessage DEF OnInitNoSlot, WaitsAt
<1>3. /\ sent' = Tail(sent) /\ result' = [result EXCEPT ![a] = "failed"]
      /\ UNCHANGED <<lockCount, initCount, threadHandle, heap, older, active, upset, hwnd,
                     hasList, items, thread,
                     pc, arg, lockCnt, used, owned, ended, empty>>
  BY DEF OnInitNoSlot, Answer, devList, window, old
<1>4. SentInv'
  BY <1>2, <1>3, SentTaken
<1> HIDE DEF a
<1>5. result'[a] = "failed" /\ \A b \in Apps \ {a} : result'[b] = result[b]
  BY <1>1, <1>2, <1>3 DEF CallTypes
<1>6. ThreadInv' /\ CallInv' /\ LastInv'
  BY <1>1, <1>3 DEF CoreInv, ThreadInv, CallInv, LastInv, HasSteady
<1>7. AnswerInv'
  <2>1. \A b \in Apps : /\ pc'[b] = "initAnswer" => result'[b] # "zero"
                        /\ pc'[b] = "freeAnswer" => result'[b] \in {"none", "done"}
    BY <1>1, <1>2, <1>3, <1>5 DEF CoreInv, AnswerInv
  <2>2. \A g \in Handles : (Made(g)' <=> Made(g)) /\ (Gone(g)' <=> Gone(g))
    BY <1>2, <1>3, <1>5 DEF Made, Gone
  <2> QED
    BY <1>1, <1>3, <2>1, <2>2 DEF CoreInv, AnswerInv, ItemSet
<1>8. CountInv'
  BY <1>1, <1>3 DEF CoreInv, CountInv, Kept, In
<1> QED
  BY <1>4, <1>6, <1>7, <1>8 DEF CoreInv

LEMMA OnFreeHandleOK ==
    ASSUME IInv, sent # << >>, OnFreeHandle(Head(sent)),
           UNCHANGED <<lockCount, threadHandle, heap, old, world, used, owned, ended,
                       empty>>
    PROVE  CoreInv' /\ Head(sent).h \in ItemSet
<1> DEFINE a == Head(sent).app
           h == Head(sent).h
<1>1. CallTypes /\ CoreInv
  BY TypesOfCalls DEF IInv
<1>2. /\ a \in Apps /\ pc[a] = "freeAnswer" /\ result[a] = "none" /\ h = arg[a]
      /\ thread = "loop"
  BY FirstMessage DEF OnFreeHandle, WaitsAt
<1>3. /\ items' = Without(items, h)
      /\ initCount' = IF h \in ItemSet THEN initCount - 1 ELSE initCount
      /\ sent' = Tail(sent)
      /\ result' = [result EXCEPT ![a] = IF h \in ItemSet THEN "done" ELSE "zero"]
      /\ UNCHANGED <<lockCount, threadHandle, heap, older, active, upset, hwnd, hasList,
                     thread, pc, arg, lockCnt,
                     used, owned, ended, empty>>
  BY DEF OnFreeHandle, Answer, devList, old
<1>4. SentInv'
  BY <1>2, <1>3, SentTaken DEF a
<1> HIDE DEF a, h
<1>5. ~ended /\ h \in owned /\ h \in Handles /\ \A b \in Apps \ {a} : arg[b] # h
  <2>1. ~ended /\ h \in owned /\ h \in Handles /\ h # NoHandle
    BY <1>1, <1>2 DEF CoreInv, CallInv, CallTypes, Freeing
  <2>2. ASSUME NEW b \in Apps \ {a} PROVE arg[b] # h
    BY <1>1, <1>2, <2>1 DEF CoreInv, CallInv
  <2> QED
    BY <2>1, <2>2
<1>6. ~Gone(h) /\ h \in ItemSet
  BY <1>1, <1>2, <1>5 DEF Gone, CoreInv, AnswerInv
<1>7. ItemSet' = ItemSet \ {h} /\ Len(items') = Len(items) - 1
  BY <1>3, <1>6, WithoutIs DEF ItemSet, IInv, TypeOK
<1>8. result'[a] = "done" /\ \A b \in Apps \ {a} : result'[b] = result[b]
  BY <1>1, <1>2, <1>3, <1>6 DEF CallTypes
<1>9. ThreadInv' /\ CallInv' /\ LastInv'
  BY <1>1, <1>3 DEF CoreInv, ThreadInv, CallInv, LastInv, HasSteady
<1>10. AnswerInv'
  <2>1. \A b \in Apps : /\ pc'[b] = "initAnswer" => result'[b] # "zero"
                        /\ pc'[b] = "freeAnswer" => result'[b] \in {"none", "done"}
    BY <1>1, <1>2, <1>3, <1>8 DEF CoreInv, AnswerInv
  <2>2. ASSUME NEW g \in Handles
        PROVE  g \in ItemSet' <=> (g \in owned' /\ ~Gone(g)') \/ Made(g)'
    <3>1. Made(g)' <=> Made(g)
      BY <1>2, <1>3, <1>8 DEF Made
    <3>2. CASE g = h
      <4>1. Gone(g)' /\ ~Made(g)
        BY <1>2, <1>3, <1>5, <1>8, <3>2 DEF Gone, Made
      <4> QED
        BY <1>7, <3>1, <3>2, <4>1
    <3>3. CASE g # h
      <4>1. Gone(g)' <=> Gone(g)
        BY <1>2, <1>3, <1>8, <3>3 DEF Gone
      <4> QED
        BY <1>1, <1>3, <1>5, <1>7, <3>1, <3>3, <4>1 DEF CoreInv, AnswerInv
    <3> QED
      BY <3>2, <3>3
  <2> QED
    BY <2>1, <2>2 DEF AnswerInv
<1>11. CountInv'
  <2>1. Kept' = Kept /\ In(Opening)' = In(Opening)
    BY <1>3 DEF Kept, In, Opening
  <2>2. Len(items) \in Nat /\ initCount \in Nat
    BY LenProperties, FiniteParts DEF IInv, TypeOK
  <2> QED
    BY <1>1, <1>3, <1>5, <1>6, <1>7, <2>1, <2>2 DEF CoreInv, CountInv
<1> QED
  BY <1>4, <1>6, <1>9, <1>10, <1>11 DEF CoreInv, h

LEMMA OnDestroyOK ==
    ASSUME IInv, sent # << >>, OnDestroy(Head(sent)),
           UNCHANGED <<lockCount, threadHandle, heap, old, world, used, owned, ended,
                       empty>>
    PROVE  CoreInv'
<1> DEFINE a == Head(sent).app
<1>1. CallTypes /\ CoreInv
  BY TypesOfCalls DEF IInv
<1>2. /\ a \in Apps /\ pc[a] = "waitExit" /\ result[a] = "none" /\ thread = "loop"
      /\ 1 \in DOMAIN sent /\ sent[1].app = a
  BY FirstMessage DEF OnDestroy, WaitsAt
<1>3. /\ items' = << >> /\ hasList' = FALSE /\ hwnd' = FALSE /\ thread' = "quit"
      /\ sent' = Tail(sent) /\ result' = [result EXCEPT ![a] = "done"]
      /\ UNCHANGED <<lockCount, initCount, threadHandle, heap, older, active, upset, pc,
                     arg,
                     lockCnt, used, owned, ended, empty>>
  BY DEF OnDestroy, Answer, old
<1>4. Tail(sent) = << >>
  <2>1. sent \in Seq(Messages) /\ SentInv
    BY <1>1 DEF IInv, TypeOK, Messages, CoreInv
  <2>2. \A k \in DOMAIN sent : sent[k].app \in Apps /\ sent[k].kind \in {"init", "free", "destroy"}
    BY SentTypes DEF IInv
  <2>3. \A b \in Apps \ {a} : pc[b] = "idle"
    BY <1>2, Alone
  <2>4. \A k \in DOMAIN sent : sent[k].app = a
    BY <2>1, <2>2, <2>3 DEF SentInv, WaitsAt
  <2>5. \A k \in DOMAIN sent : k = 1
    BY <1>2, <2>1, <2>4 DEF SentInv
  <2>6. Len(sent) \in Nat /\ DOMAIN sent = 1 .. Len(sent)
    BY <2>1, LenProperties
  <2>7. Len(sent) = 1
    <3>1. Len(sent) >= 2 => 2 \in DOMAIN sent
      BY <2>6
    <3> QED
      BY <1>2, <2>5, <2>6, <3>1
  <2>8. Tail(sent) \in Seq(Messages) /\ Len(Tail(sent)) = 0
    BY <2>1, <2>7, HeadTailProperties
  <2> QED
    BY <2>8, EmptySeq
<1>5. SentInv'
  BY <1>3, <1>4, SentTaken
<1> HIDE DEF a
<1>6. /\ \A b \in Apps \ {a} : pc[b] = "idle" /\ arg[b] = NoHandle
      /\ ~ended => owned = {}
  BY <1>1, <1>2, Alone DEF CoreInv, CallInv, Closing
<1>7. ThreadInv'
  BY <1>1, <1>2, <1>3, <1>6 DEF CoreInv, ThreadInv, Over
<1>8. CallInv' /\ LastInv'
  BY <1>1, <1>3 DEF CoreInv, CallInv, LastInv, HasSteady
<1>9. ~Made(NoHandle) /\ \A g : ~Made(g) /\ ~Gone(g)
  BY <1>2, <1>6 DEF Made, Gone
<1>10. \A g : ~Made(g)' /\ ~Gone(g)'
  BY <1>2, <1>3, <1>6 DEF Made, Gone
<1>11. ItemSet' = {} /\ Len(items') = 0
  BY <1>3 DEF ItemSet, Range
<1>12. AnswerInv'
  BY <1>2, <1>3, <1>6, <1>10, <1>11 DEF AnswerInv
<1>13. CountInv'
  <2>1. Kept' = Kept /\ In(Opening)' = In(Opening)
    BY <1>3 DEF Kept, In, Opening
  <2>2. ~ended => Len(items) = 0
    <3>1. ~ended => \A g \in Handles : g \notin ItemSet
      BY <1>1, <1>6, <1>9 DEF CoreInv, AnswerInv
    <3>2. items \in Seq(Handles) /\ ItemSet \subseteq Handles
      BY ElementOfSeq, LenProperties DEF IInv, TypeOK, ItemSet, Range
    <3>3. Len(items) # 0 => items[1] \in ItemSet
      BY <3>2, LenProperties DEF ItemSet, Range
    <3> QED
      BY <3>1, <3>2, <3>3
  <2>3. initCount \in Nat /\ Len(items) \in Nat
    BY LenProperties, FiniteParts DEF IInv, TypeOK
  <2> QED
    BY <1>1, <1>3, <1>11, <2>1, <2>2, <2>3 DEF CoreInv, CountInv
<1> QED
  BY <1>5, <1>7, <1>8, <1>12, <1>13 DEF CoreInv

LEMMA OlderThreadsKept ==
    ASSUME IInv, NEW h \in Handles, OlderStep(h)
    PROVE  /\ older' \in [Handles -> OlderThreads]
           /\ \A g \in Handles : older'[g].mine => older[g].mine
<1>1. older \in [Handles -> OlderThreads]
  BY DEF IInv, TypeOK, OlderThreads
<1>2. PICK r : older' = [older EXCEPT ![h] = r] /\ r \in OlderThreads /\ (r.mine => older[h].mine)
  <2>1. older[h] \in OlderThreads
    BY <1>1
  <2>2. CASE OlderPosted(h)
    <3> DEFINE r == [older[h] EXCEPT !.posted = @ - 1]
    <3>1. older' = [older EXCEPT ![h] = r] /\ older[h].posted > 0
      BY <2>2 DEF OlderPosted
    <3>2. r \in OlderThreads /\ r.mine = older[h].mine
      BY <2>1, <3>1 DEF OlderThreads
    <3> QED
      BY <3>1, <3>2
  <2>3. CASE OlderRemoval(h)
    <3>1. PICK d : older' = [older EXCEPT ![h].removals = @ \ {d}]
      BY <2>3 DEF OlderRemoval
    <3> DEFINE r == [older[h] EXCEPT !.removals = @ \ {d}]
    <3>2. r \in OlderThreads /\ r.mine = older[h].mine
      BY <2>1 DEF OlderThreads
    <3> QED
      BY <3>1, <3>2
  <2>4. CASE OlderQuit(h) \/ OlderLeave(h)
    <3>1. PICK l \in ThreadStates : older' = [older EXCEPT ![h].at = l]
      BY <2>4 DEF OlderQuit, OlderLeave, ThreadStates
    <3> DEFINE r == [older[h] EXCEPT !.at = l]
    <3>2. r \in OlderThreads /\ r.mine = older[h].mine
      BY <2>1 DEF OlderThreads
    <3> QED
      BY <3>1, <3>2
  <2>5. CASE OlderEnd(h)
    <3>1. NoThread \in OlderThreads /\ ~NoThread.mine
      BY DEF NoThread, OlderThreads, ThreadStates
    <3> QED
      BY <2>5, <3>1 DEF OlderEnd
  <2> QED
    BY <2>2, <2>3, <2>4, <2>5 DEF OlderStep
<1> QED
  BY <1>1, <1>2

\* A hot thread of an earlier start takes nothing away that is not noted.
LEMMA OlderStepOK ==
    ASSUME IInv, NEW h \in Handles, OlderStep(h)
    PROVE  CoreInv'
<1>1. CoreInv /\ older \in [Handles -> OlderThreads] /\ upset \in BOOLEAN /\ active \in BOOLEAN
  BY DEF IInv, TypeOK, OlderThreads
<1>2. UNCHANGED <<lockCount, initCount, hwnd, active, hasList, items, thread, sent, pc, arg,
                  lockCnt, result, used, owned, ended, empty>>
  BY DEF OlderStep, OlderPosted, OlderRemoval, OlderQuit, OlderLeave, OlderEnd, devList,
     window,
     calls, history
<1>3. \/ upset'
      \/ /\ ~upset /\ (heap => heap')
         /\ (threadHandle => threadHandle') \/ thread \in {"none", "closing"}
  <2>1. CASE OlderPosted(h) \/ OlderRemoval(h)
    BY <2>1 DEF OlderPosted, OlderRemoval
  <2>2. CASE OlderQuit(h)
    BY <2>2 DEF OlderQuit
  <2>3. CASE OlderLeave(h)
    BY <2>3 DEF OlderLeave
  <2>4. CASE OlderEnd(h)
    <3>1. ~older[h].mine => upset'
      BY <2>4 DEF OlderEnd
    <3>2. older[h].mine => ~active
      BY <1>1 DEF CoreInv, ThreadInv
    <3> QED
      BY <2>4, <3>1, <3>2 DEF OlderEnd
  <2> QED
    BY <2>1, <2>2, <2>3, <2>4 DEF OlderStep
<1>4. older' \in [Handles -> OlderThreads] /\ \A g \in Handles : older'[g].mine => older[g].mine
  BY <1>1, OlderThreadsKept
<1>5. ThreadInv'
  BY <1>1, <1>2, <1>3, <1>4 DEF CoreInv, ThreadInv
<1>6. CallInv' /\ LastInv'
  BY <1>1, <1>2 DEF CoreInv, CallInv, LastInv, HasSteady
<1>7. SentInv'
  BY <1>1, <1>2 DEF CoreInv, SentInv
<1>8. AnswerInv' /\ CountInv'
  BY <1>1, <1>2 DEF CoreInv, AnswerInv, CountInv, ItemSet, Gone, Made, Kept, In
<1> QED
  BY <1>5, <1>6, <1>7, <1>8 DEF CoreInv

\* The other steps leave all this alone.
LEMMA OtherStepsOK ==
    ASSUME IInv, UNCHANGED coreVars
    PROVE  CoreInv'
<1>1. CoreInv /\ UNCHANGED <<lockCount, initCount, hwnd, threadHandle, heap, older, active,
                             upset, hasList, items,
                             thread, sent, pc, arg, lockCnt, result, used, owned, ended, empty>>
  BY DEF IInv, coreVars
<1>2. ThreadInv' /\ CallInv' /\ LastInv'
  BY <1>1 DEF CoreInv, ThreadInv, CallInv, LastInv, HasSteady
<1>3. SentInv'
  BY <1>1 DEF CoreInv, SentInv
<1>4. AnswerInv' /\ CountInv'
  BY <1>1 DEF CoreInv, AnswerInv, CountInv, ItemSet, Gone, Made, Kept, In
<1> QED
  BY <1>2, <1>3, <1>4 DEF CoreInv

-----------------------------------------------------------------------------
(***************************************************************************)
(* The types, in parts.                                                    *)
(***************************************************************************)

FlagTypes ==
    /\ {hwnd, threadHandle, heap, active, hasList, ended, empty, upset} \subseteq BOOLEAN
    /\ thread \in ThreadStates
CountTypes ==
    lockCount \in 0 .. Cardinality(Handles) /\ initCount \in 0 .. Cardinality(Handles)
QueueTypes ==
    /\ items \in Seq(Handles) /\ IsInjective(items)
    /\ posted \in Seq(Handles) /\ sent \in Seq(Messages) /\ news \in Seq(Events)
ListTypes ==
    /\ list \in DeviceLists /\ broadcasts \subseteq Devices /\ timers \subseteq Timers
    /\ told \in [Followed -> SUBSET Devices]
OlderTypes == older \in [Handles -> OlderThreads]
WorldTypes ==
    present \subseteq Devices /\ missed \subseteq Devices /\ events \in 0 .. MaxEvents

LEMMA TypeParts ==
    TypeOK <=> /\ FlagTypes /\ CallTypes /\ CountTypes /\ QueueTypes /\ ListTypes
               /\ OlderTypes /\ WorldTypes
BY HandleAssumption
   DEF TypeOK, FlagTypes, CallTypes, CountTypes, QueueTypes, ListTypes, WorldTypes,
       OlderTypes, Messages, Events, DeviceLists, OlderThreads

\* Each new value of the device list is one.
LEMMA ListsAre ==
    /\ \A p : ListOf(p) \in DeviceLists
    /\ \A l \in DeviceLists : Cleared(l) \in DeviceLists
    /\ list \in DeviceLists => \A p : Synced(p) \in DeviceLists
    /\ EmptyList \in DeviceLists
    /\ \A l, d : l \in DeviceLists =>
           Removed(l, d) \in DeviceLists
<1> DEFINE States == {"unlisted", "connected", "disconnected"}
           Flags == {"none", "unchanged", "added", "removed"}
           Entries == [state : States, flag : Flags]
<1>1. DeviceLists = [Devices -> Entries]
  BY DEF DeviceLists
<1>2. \A s \in States, f \in Flags : [state |-> s, flag |-> f] \in Entries
  OBVIOUS
<1>3. Unlisted \in Entries
  BY <1>2 DEF Unlisted
<1>4. \A l \in DeviceLists, d \in Devices : l[d] \in Entries
  BY <1>1
<1>5. \A e \in Entries : [e EXCEPT !.flag = "unchanged"] \in Entries
  OBVIOUS
<1> HIDE DEF Entries
<1>6. \A p : ListOf(p) \in [Devices -> Entries]
  BY <1>2, <1>3 DEF ListOf
<1>7. \A l \in DeviceLists : Cleared(l) \in [Devices -> Entries]
  BY <1>4, <1>5 DEF Cleared
<1>8. list \in DeviceLists => \A p : Synced(p) \in [Devices -> Entries]
  <2> SUFFICES ASSUME NEW p, NEW d \in Devices
               PROVE  Synced(p)[d] \in Entries
    BY DEF Synced
  <2>1. Synced(p)[d] =
          CASE d \in present \cap p ->
                   [state |-> "connected",
                    flag |-> IF list[d].state = "connected" THEN "unchanged" ELSE "added"]
            [] d \notin present \cap p /\ list[d].state = "connected" ->
                   [state |-> "disconnected", flag |-> "removed"]
            [] d \notin present \cap p /\ list[d].state = "disconnected" ->
                   [state |-> "disconnected", flag |-> "unchanged"]
            [] OTHER -> Unlisted
    BY DEF Synced
  <2>2. CASE d \in present \cap p
    BY <1>2, <2>1, <2>2
  <2>3. CASE d \notin present \cap p
    BY <1>2, <1>3, <2>1, <2>3
  <2> QED
    BY <2>2, <2>3
<1>9. EmptyList \in [Devices -> Entries]
  BY <1>3 DEF EmptyList
<1>10. \A l, d : l \in [Devices -> Entries] =>
           Removed(l, d) \in [Devices -> Entries]
  BY <1>2 DEF Removed
<1> QED
  BY <1>1, <1>6, <1>7, <1>8, <1>9, <1>10

LEMMA FlagTypesKept ==
    ASSUME IInv, [Next]_vars
    PROVE  {hwnd, threadHandle, heap, active, upset, hasList}' \subseteq BOOLEAN
           /\ thread' \in ThreadStates
<1>1. FlagTypes
  BY TypeParts DEF IInv
<1>2. CASE \E a \in Apps : \/ \E h \in Handles : BeginInit(a, h) \/ BeginFree(a, h)
                           \/ BeginFreeAll(a) \/ AppStep(a)
  BY <1>1, <1>2 DEF FlagTypes, ThreadStates, old, BeginInit, BeginFree, BeginFreeAll,
     AppStep, StartMonitor,
     StartMonitorFails, ResumeMonitor, ResumeMonitorFails, WaitWindow, InitError, SendInit,
     InitAnswer, FreeDecLock, SendFree,
     FreeAnswer, SendDestroy, WaitExit, devList
<1>3. CASE HotStep
  BY <1>1, <1>3 DEF FlagTypes, ThreadStates, old, HotStep, EnterThread, CreateWindow,
     CreateWindowFails, HandleSent,
     HandlePosted, Timer, Quit, Leave, End, OnInitHandle, OnInitNoSlot, OnFreeHandle,
     OnDestroy, devList
<1>4. CASE DeviceChange \/ (\E d \in Devices, named \in BOOLEAN : Plug(d, named)) \/ UNCHANGED vars
  BY <1>1, <1>4 DEF FlagTypes, old, DeviceChange, Plug, vars, devList
<1>5. CASE \E h \in Handles : OlderStep(h)
  BY <1>1, <1>5 DEF FlagTypes, OlderStep, OlderPosted, OlderRemoval, OlderQuit, OlderLeave,
     OlderEnd, devList
<1> QED
  BY <1>2, <1>3, <1>4, <1>5 DEF Next

LEMMA CallTypesKept ==
    ASSUME IInv, [Next]_vars
    PROVE  CallTypes'
<1>1. CallTypes /\ CountTypes /\ 0 \in 0 .. Cardinality(Handles)
  BY TypeParts, FiniteParts DEF IInv
<1>2. ASSUME NEW a \in Apps, \/ \E h \in Handles : BeginInit(a, h) \/ BeginFree(a, h)
                             \/ BeginFreeAll(a)
      PROVE  CallTypes'
  <2>1. PICK h \in Handles \cup {NoHandle}, l \in AppLabels : Call(a, h, l)
    BY <1>2 DEF BeginInit, BeginFree, BeginFreeAll, AppLabels
  <2>2. /\ pc' \in [Apps -> AppLabels] /\ arg' \in [Apps -> Handles \cup {NoHandle}]
        /\ UNCHANGED <<lockCnt, result>>
    BY <1>1, <2>1 DEF CallTypes, Call, Go
  <2>3. used' \subseteq Handles /\ owned' = owned /\ ended' \in BOOLEAN /\ empty' = empty
    BY <1>1, <1>2 DEF CallTypes, BeginInit, BeginFree, BeginFreeAll, history
  <2> QED
    BY <1>1, <2>2, <2>3 DEF CallTypes
<1>3. ASSUME NEW a \in Apps, \/ StartMonitor(a) \/ StartMonitorFails(a) \/ ResumeMonitor(a)
                             \/ ResumeMonitorFails(a) \/ WaitWindow(a) \/ InitError(a)
      PROVE  CallTypes'
  <2>1. CASE InitError(a)
    <3>1. Return(a) /\ UNCHANGED <<used, owned, empty>> /\ ended' = TRUE
      BY <2>1 DEF InitError
    <3> QED
      BY <1>1, <3>1 DEF CallTypes, AppLabels, Return, Go
  <2>2. CASE \/ StartMonitor(a) \/ StartMonitorFails(a) \/ ResumeMonitor(a)
             \/ ResumeMonitorFails(a) \/ WaitWindow(a)
    <3>1. PICK l \in AppLabels : Go(a, l)
      BY <2>2 DEF StartMonitor, StartMonitorFails, ResumeMonitor, ResumeMonitorFails,
         WaitWindow, AppLabels
    <3>2. UNCHANGED <<arg, lockCnt, result, used, owned, ended, empty>>
      BY <2>2 DEF StartMonitor, StartMonitorFails, ResumeMonitor, ResumeMonitorFails,
         WaitWindow, history
    <3> QED
      BY <1>1, <3>1, <3>2 DEF CallTypes, Go
  <2> QED
    BY <1>3, <2>1, <2>2
<1>4. ASSUME NEW a \in Apps, SendInit(a) \/ SendFree(a) \/ SendDestroy(a)
      PROVE  CallTypes'
  BY <1>1, <1>4 DEF CallTypes, AppLabels, SendInit, SendFree, SendDestroy, Send, Go, history
<1>5. ASSUME NEW a \in Apps, InitAnswer(a) \/ FreeAnswer(a) \/ WaitExit(a)
      PROVE  CallTypes'
  <2>1. arg[a] = NoHandle \/ arg[a] \in Handles
    BY <1>1 DEF CallTypes
  <2>2. InitAnswer(a) => arg[a] \in Handles
    BY <1>1 DEF InitAnswer, IInv, CoreInv, CallInv, CallTypes, Opening
  <2>3. used' = used /\ owned' \subseteq Handles /\ ended' = ended /\ empty' \in BOOLEAN
    BY <1>1, <1>5, <2>1, <2>2 DEF CallTypes, InitAnswer, FreeAnswer, WaitExit
  <2>4. CASE Return(a)
    BY <1>1, <2>3, <2>4 DEF CallTypes, AppLabels, Return, Go
  <2>5. CASE Go(a, "freeAll") /\ UNCHANGED <<arg, lockCnt, result>>
    BY <1>1, <2>3, <2>5 DEF CallTypes, AppLabels, Go
  <2> QED
    BY <1>5, <2>4, <2>5 DEF InitAnswer, FreeAnswer, WaitExit
<1>6. ASSUME NEW a \in Apps, FreeDecLock(a)
      PROVE  CallTypes'
  <2>1. lockCount # 0
    BY <1>6, FreeDecLockOK
  <2>2. lockCount - 1 \in 0 .. Cardinality(Handles)
    BY <1>1, <2>1, FiniteParts DEF CountTypes, IInv
  <2> QED
    BY <1>1, <1>6, <2>1, <2>2 DEF CallTypes, AppLabels, FreeDecLock, Go, history
<1>7. CASE HandleSent
  <2>1. \E m, v : v \in {"done", "failed", "zero"} /\ Answer(m, v)
    BY <1>7 DEF HandleSent, OnInitHandle, OnInitNoSlot, OnFreeHandle, OnDestroy
  <2>2. UNCHANGED <<used, owned, ended, empty>>
    BY <1>7 DEF HandleSent
  <2> QED
    BY <1>1, <2>1, <2>2 DEF CallTypes, Answer
<1>8. CASE End
  BY <1>1, <1>8 DEF CallTypes, End, history
<1>9. CASE UNCHANGED <<calls, used, owned, ended, empty>>
  BY <1>1, <1>9 DEF CallTypes, calls
<1>10. CASE \/ EnterThread \/ CreateWindow \/ CreateWindowFails \/ HandlePosted \/ \E t \in Timers : Timer(t)
            \/ Quit \/ Leave \/ DeviceChange \/ \E h \in Handles : OlderStep(h)
            \/ (\E d \in Devices, named \in BOOLEAN : Plug(d, named)) \/ UNCHANGED vars
  BY <1>9, <1>10 DEF EnterThread, CreateWindow, CreateWindowFails, HandlePosted, Timer,
     Quit, Leave,
     DeviceChange, Plug, vars, history, OlderStep, OlderPosted, OlderRemoval, OlderQuit,
     OlderLeave, OlderEnd
<1> QED
  BY <1>2, <1>3, <1>4, <1>5, <1>6, <1>7, <1>8, <1>10 DEF Next, AppStep, HotStep

LEMMA ListTypesKept ==
    ASSUME IInv, [Next]_vars
    PROVE  ListTypes'
<1>1. ListTypes /\ QueueTypes
  BY TypeParts DEF IInv
<1>2. CASE UNCHANGED <<list, broadcasts, timers, told>>
  BY <1>1, <1>2 DEF ListTypes
<1>3. ASSUME NEW a \in Apps, \/ StartMonitor(a) \/ StartMonitorFails(a) \/ InitError(a)
      PROVE  ListTypes'
  BY <1>1, <1>3, ListsAre DEF ListTypes, StartMonitor, StartMonitorFails, InitError, window,
     history, devList, Retire
<1>4. CASE \E a \in Apps : \/ \E h \in Handles : BeginInit(a, h) \/ BeginFree(a, h)
                           \/ BeginFreeAll(a) \/ ResumeMonitor(a) \/ ResumeMonitorFails(a)
                           \/ WaitWindow(a) \/ SendInit(a) \/ InitAnswer(a)
                           \/ FreeDecLock(a) \/ SendFree(a) \/ FreeAnswer(a)
                           \/ SendDestroy(a) \/ WaitExit(a)
  BY <1>2, <1>4 DEF BeginInit, BeginFree, BeginFreeAll, ResumeMonitor, ResumeMonitorFails,
     WaitWindow, SendInit, InitAnswer,
     FreeDecLock, SendFree, FreeAnswer, SendDestroy, WaitExit, devList, window, old, history
<1>5. CASE \/ EnterThread \/ CreateWindow \/ CreateWindowFails \/ Quit \/ Leave
           \/ (\E d \in Devices, named \in BOOLEAN : Plug(d, named)) \/ UNCHANGED vars
  BY <1>2, <1>5 DEF EnterThread, CreateWindow, CreateWindowFails, Quit, Leave, Plug, vars,
     devList,
     window, history
<1>6. CASE End
  BY <1>1, <1>6 DEF ListTypes, End, devList, history
<1>7. CASE HandleSent
  <2> DEFINE m == Head(sent)
  <2>1. CASE OnInitHandle(m) \/ OnInitNoSlot(m)
    <3>1. \A n, l, h : RegistersFor(n, l, h) \subseteq Devices
      BY DEF RegistersFor
    <3> QED
      BY <1>1, <2>1, <3>1 DEF ListTypes, OnInitHandle, OnInitNoSlot, devList, window, old
  <2>2. CASE OnFreeHandle(m)
    BY <1>1, <2>2 DEF ListTypes, OnFreeHandle, devList
  <2>3. CASE OnDestroy(m)
    BY <1>1, <2>3, ListsAre DEF ListTypes, OnDestroy
  <2> QED
    BY <1>7, <2>1, <2>2, <2>3 DEF HandleSent
<1>8. CASE HandlePosted
  <2>1. list' \in DeviceLists
    BY <1>1, <1>8, ListsAre DEF ListTypes, HandlePosted
  <2> QED
    BY <1>1, <1>8, <2>1 DEF ListTypes, HandlePosted
<1>9. ASSUME NEW t \in Timers, Timer(t)
      PROVE  ListTypes'
  <2>1. list' \in DeviceLists
    <3>1. list \in DeviceLists /\ Synced(SyncPattern) \in DeviceLists
      BY <1>1, ListsAre DEF ListTypes
    <3> QED
      BY <1>9, <3>1, ListsAre DEF Timer
  <2>2. \A l : ToldAll(l) \in [Followed -> SUBSET Devices]
    BY <1>1 DEF ToldAll, ListTypes
  <2>3. told' \in [Followed -> SUBSET Devices]
    BY <1>9, <2>2 DEF Timer
  <2>4. broadcasts' \subseteq Devices
    <3>1. \A n, l, h : RegistersFor(n, l, h) \subseteq Devices
      BY DEF RegistersFor
    <3>2. UNION {RegistersFor(initCount, list', h) : h \in ItemSet} \subseteq Devices
      BY <3>1
    <3> QED
      BY <1>1, <1>9, <3>2 DEF Timer, ListTypes
  <2>5. timers' \subseteq Timers
    BY <1>1, <1>9 DEF Timer, ListTypes
  <2> QED
    BY <2>1, <2>3, <2>4, <2>5 DEF ListTypes
<1>10. CASE DeviceChange
  <2>1. list' \in DeviceLists
    BY <1>1, <1>10, ListsAre DEF ListTypes, DeviceChange
  <2>2. Head(news).kind \in {"arrival", "removal", "nodes"}
    <3>1. Head(news) \in Events
      BY <1>1, <1>10, HeadTailProperties DEF DeviceChange, QueueTypes
    <3> QED
      BY <3>1 DEF Events
  <2>3. TimerFor(Head(news)) \subseteq Timers
    BY <2>2 DEF TimerFor, Timers
  <2> QED
    BY <1>1, <1>10, <2>1, <2>3 DEF ListTypes, DeviceChange, history
<1>11. CASE \E h \in Handles : OlderStep(h)
  BY <1>1, <1>11, ListsAre DEF ListTypes, OlderStep, OlderPosted, OlderRemoval, OlderQuit,
     OlderLeave, OlderEnd, devList, window, history
<1> QED
  BY <1>3, <1>4, <1>5, <1>6, <1>7, <1>8, <1>9, <1>10, <1>11 DEF Next, AppStep, HotStep

LEMMA WorldTypesKept ==
    ASSUME IInv, [Next]_vars
    PROVE  WorldTypes'
<1>1. WorldTypes
  BY TypeParts DEF IInv
<1>2. CASE UNCHANGED <<present, missed, events>>
  BY <1>1, <1>2 DEF WorldTypes
<1>3. CASE \E a \in Apps : \/ \E h \in Handles : BeginFree(a, h)
                           \/ BeginFreeAll(a) \/ AppStep(a)
  BY <1>2, <1>3 DEF BeginFree, BeginFreeAll, AppStep, StartMonitor,
     StartMonitorFails, ResumeMonitor, ResumeMonitorFails, WaitWindow, InitError, SendInit,
     InitAnswer, FreeDecLock, SendFree, FreeAnswer, SendDestroy, WaitExit, world
<1>4. ASSUME NEW a \in Apps, NEW h \in Handles, BeginInit(a, h)
      PROVE  WorldTypes'
  BY <1>1, <1>4, BoundAssumption DEF WorldTypes, BeginInit, MayInit
<1>5. CASE HotStep
  BY <1>1, <1>5 DEF WorldTypes, HotStep, EnterThread, CreateWindow, CreateWindowFails,
     HandleSent,
     HandlePosted, Timer, Quit, Leave, End, world
<1>6. CASE DeviceChange \/ UNCHANGED vars
  BY <1>2, <1>6 DEF DeviceChange, vars, world
<1>7. ASSUME NEW d \in Devices, NEW named \in BOOLEAN, Plug(d, named)
      PROVE  WorldTypes'
  BY <1>1, <1>7, BoundAssumption DEF WorldTypes, Plug
<1>8. CASE \E h \in Handles : OlderStep(h)
  BY <1>2, <1>8 DEF OlderStep, OlderPosted, OlderRemoval, OlderQuit, OlderLeave, OlderEnd,
     world
<1> QED
  BY <1>3, <1>4, <1>5, <1>6, <1>7, <1>8 DEF Next

LEMMA OlderTypesKept ==
    ASSUME IInv, [Next]_vars
    PROVE  OlderTypes'
<1>1. older \in [Handles -> OlderThreads] /\ QueueTypes /\ FlagTypes /\ CallTypes
  BY TypeParts DEF IInv, OlderTypes
<1>2. CASE UNCHANGED older
  BY <1>1, <1>2 DEF OlderTypes
<1>3. ASSUME NEW a \in Apps, StartMonitor(a) \/ StartMonitorFails(a)
      PROVE  OlderTypes'
  <2>1. Len(posted) \in Nat
    BY <1>1, LenProperties DEF QueueTypes
  <2>2. \A S \in SUBSET Devices :
          [at |-> thread, posted |-> Len(posted), mine |-> TRUE, removals |-> S] \in OlderThreads
    BY <1>1, <2>1 DEF FlagTypes, OlderThreads
  <2>3. Retire(arg[a])
    BY <1>3 DEF StartMonitor, StartMonitorFails
  <2> QED
    BY <1>1, <2>2, <2>3 DEF Retire, OlderTypes
<1>4. CASE EnterThread
  <2>1. \A h \in Handles : [older[h] EXCEPT !.mine = FALSE] \in OlderThreads
    BY <1>1 DEF OlderThreads
  <2> QED
    BY <1>4, <2>1 DEF EnterThread, OlderTypes
<1>5. CASE \E h \in Handles : OlderStep(h)
  BY <1>5, OlderThreadsKept DEF OlderTypes
<1>6. CASE \E a \in Apps : \/ \E h \in Handles : BeginInit(a, h) \/ BeginFree(a, h)
                           \/ BeginFreeAll(a) \/ ResumeMonitor(a) \/ ResumeMonitorFails(a)
                           \/ WaitWindow(a) \/ InitError(a) \/ SendInit(a) \/ InitAnswer(a)
                           \/ FreeDecLock(a) \/ SendFree(a) \/ FreeAnswer(a)
                           \/ SendDestroy(a) \/ WaitExit(a)
  BY <1>2, <1>6 DEF BeginInit, BeginFree, BeginFreeAll, ResumeMonitor, ResumeMonitorFails,
     WaitWindow, InitError, SendInit, InitAnswer, FreeDecLock, SendFree, FreeAnswer,
     SendDestroy, WaitExit, old
<1>7. CASE \/ CreateWindow \/ CreateWindowFails \/ HandleSent \/ HandlePosted
           \/ (\E t \in Timers : Timer(t)) \/ Quit \/ Leave \/ End \/ DeviceChange
           \/ (\E d \in Devices, named \in BOOLEAN : Plug(d, named)) \/ UNCHANGED vars
  BY <1>2, <1>7 DEF CreateWindow, CreateWindowFails, HandleSent, HandlePosted, Timer, Quit,
     Leave, End, DeviceChange, Plug, vars, old
<1> QED
  BY <1>3, <1>4, <1>5, <1>6, <1>7 DEF Next, AppStep, HotStep

LEMMA QueueTypesKept ==
    ASSUME IInv, [Next]_vars
    PROVE  QueueTypes'
<1>1. QueueTypes /\ CallTypes
  BY TypeParts DEF IInv
<1>2. CASE UNCHANGED <<items, posted, sent, news>>
  BY <1>1, <1>2 DEF QueueTypes
<1>3. CASE \E a \in Apps : \/ \E h \in Handles : BeginInit(a, h) \/ BeginFree(a, h)
                           \/ BeginFreeAll(a) \/ ResumeMonitor(a) \/ ResumeMonitorFails(a)
                           \/ WaitWindow(a) \/ InitError(a) \/ InitAnswer(a)
                           \/ FreeDecLock(a) \/ FreeAnswer(a) \/ WaitExit(a)
  BY <1>2, <1>3 DEF BeginInit, BeginFree, BeginFreeAll, ResumeMonitor, ResumeMonitorFails,
     WaitWindow, InitError, InitAnswer, FreeDecLock, FreeAnswer, WaitExit, world, window
<1>4. ASSUME NEW a \in Apps, SendInit(a) \/ SendFree(a) \/ SendDestroy(a)
      PROVE  QueueTypes'
  <2>1. PICK kind \in {"init", "free", "destroy"} : \E l : Send(a, kind, l)
    BY <1>4 DEF SendInit, SendFree, SendDestroy
  <2>2. [app |-> a, kind |-> kind, h |-> arg[a]] \in Messages
    BY <1>1 DEF CallTypes, Messages
  <2>3. sent' \in Seq(Messages)
    BY <1>1, <2>1, <2>2, AppendProperties DEF Send, QueueTypes
  <2>4. UNCHANGED <<items, posted, news>>
    BY <1>4 DEF SendInit, SendFree, SendDestroy, window, world
  <2> QED
    BY <1>1, <2>3, <2>4 DEF QueueTypes
<1>5. CASE \/ EnterThread \/ CreateWindow \/ CreateWindowFails \/ Quit \/ Leave
           \/ (\E t \in Timers : Timer(t)) \/ UNCHANGED vars
  BY <1>2, <1>5 DEF EnterThread, CreateWindow, CreateWindowFails, Quit, Leave, Timer, vars,
     window, world
<1>6. CASE End
  BY <1>1, <1>6, EmptySeq DEF QueueTypes, End
<1>7. CASE HandleSent
  <2> DEFINE m == Head(sent)
  <2>1. sent # << >> /\ sent' = Tail(sent) /\ news' = news
    BY <1>7 DEF HandleSent, OnInitHandle, OnInitNoSlot, OnFreeHandle, OnDestroy, Answer,
       world
  <2>2. sent' \in Seq(Messages) /\ news' \in Seq(Events)
    BY <1>1, <2>1, HeadTailProperties DEF QueueTypes
  <2>3. UNCHANGED <<lockCount, threadHandle, heap, old, world, used, owned, ended, empty>>
    BY <1>7 DEF HandleSent
  <2> HIDE DEF m
  <2>4. CASE OnInitHandle(m)
    <3>1. m.h \in Handles \ ItemSet
      BY <2>1, <2>3, <2>4, OnInitHandleOK DEF m
    <3>2. items' \in Seq(Handles) /\ IsInjective(items')
      BY <1>1, <2>4, <3>1, AppendedIs DEF QueueTypes, ItemSet, OnInitHandle
    <3>3. posted' \in Seq(Handles)
      BY <1>1, <2>4, <3>1, AppendProperties DEF QueueTypes, OnInitHandle
    <3> QED
      BY <2>2, <3>2, <3>3 DEF QueueTypes
  <2>5. CASE OnInitNoSlot(m)
    BY <1>1, <2>2, <2>5 DEF QueueTypes, OnInitNoSlot, window
  <2>6. CASE OnFreeHandle(m)
    <3>1. m.h \in ItemSet
      BY <2>1, <2>3, <2>6, OnFreeHandleOK DEF m
    <3>2. items' \in Seq(Handles) /\ IsInjective(items')
      BY <1>1, <2>6, <3>1, WithoutIs DEF QueueTypes, ItemSet, OnFreeHandle
    <3> QED
      BY <1>1, <2>2, <2>6, <3>2 DEF QueueTypes, OnFreeHandle
  <2>7. CASE OnDestroy(m)
    <3>1. << >> \in Seq(Handles) /\ IsInjective(<< >>)
      BY EmptySeq DEF IsInjective
    <3> QED
      BY <1>1, <2>2, <2>7, <3>1 DEF QueueTypes, OnDestroy
  <2> QED
    BY <1>7, <2>4, <2>5, <2>6, <2>7 DEF HandleSent, m
<1>8. CASE HandlePosted
  BY <1>1, <1>8, HeadTailProperties DEF QueueTypes, HandlePosted, world
<1>9. CASE DeviceChange
  BY <1>1, <1>9, HeadTailProperties DEF QueueTypes, DeviceChange
<1>10. ASSUME NEW d \in Devices, NEW named \in BOOLEAN, Plug(d, named)
       PROVE  QueueTypes'
  <2>1. News(d, named) \in Seq(Events)
    <3> DEFINE first == [kind |-> IF d \in present THEN "removal" ELSE "arrival",
                         dev |-> d, named |-> named]
               nodes == << [kind |-> "nodes", dev |-> d, named |-> TRUE] >>
    <3>1. first \in Events /\ [kind |-> "nodes", dev |-> d, named |-> TRUE] \in Events
      BY DEF Events
    <3>2. << first >> \in Seq(Events) /\ nodes \in Seq(Events) /\ << >> \in Seq(Events)
      BY <3>1
    <3>3. << first >> \o nodes \in Seq(Events)
      BY <3>2, ConcatProperties
    <3>4. News(d, named) = CASE ~hwnd -> << >>
                             [] hwnd /\ d \notin broadcasts -> nodes
                             [] hwnd /\ d \in broadcasts -> << first >> \o nodes
      BY DEF News
    <3>5. hwnd \in BOOLEAN
      BY TypeParts DEF IInv, FlagTypes
    <3> HIDE DEF first, nodes
    <3> QED
      BY <3>2, <3>3, <3>4, <3>5
  <2>2. news' \in Seq(Events)
    BY <1>1, <1>10, <2>1, ConcatProperties DEF QueueTypes, Plug
  <2> QED
    BY <1>1, <1>10, <2>2 DEF QueueTypes, Plug, window
<1>11. ASSUME NEW a \in Apps, StartMonitor(a) \/ StartMonitorFails(a)
       PROVE  QueueTypes'
  BY <1>1, <1>11, EmptySeq DEF QueueTypes, StartMonitor, StartMonitorFails, Retire
<1>12. CASE \E h \in Handles : OlderStep(h)
  BY <1>2, <1>12 DEF OlderStep, OlderPosted, OlderRemoval, OlderQuit, OlderLeave, OlderEnd,
     window, world
<1> QED
  BY <1>3, <1>4, <1>5, <1>6, <1>7, <1>8, <1>9, <1>10, <1>11, <1>12 DEF Next, AppStep,
     HotStep

-----------------------------------------------------------------------------
(***************************************************************************)
(* The theorems.                                                           *)
(***************************************************************************)

LEMMA CoreKept ==
    ASSUME IInv, ~CallsAfterEnd, [Next]_vars
    PROVE  CoreInv'
<1>1. CASE \E a \in Apps : \E h \in Handles : BeginInit(a, h) \/ BeginFree(a, h)
  BY <1>1, BeginInitOK, BeginFreeOK
<1>2. CASE \E a \in Apps : BeginFreeAll(a)
  BY <1>2, BeginFreeAllOK
<1>3. CASE \E a \in Apps : AppStep(a)
  BY <1>3, StartMonitorOK, StartMonitorFailsOK, ResumeMonitorOK, ResumeMonitorFailsOK,
     WaitWindowOK, InitErrorOK, SendInitOK,
     InitAnswerOK, FreeDecLockOK, SendFreeOK, FreeAnswerOK, SendDestroyOK, WaitExitOK
     DEF AppStep
<1>4. CASE HandleSent
  BY <1>4, OnInitHandleOK, OnInitNoSlotOK, OnFreeHandleOK, OnDestroyOK DEF HandleSent
<1>5. CASE HandlePosted \/ \E t \in Timers : Timer(t)
  BY <1>5, OtherStepsOK DEF HandlePosted, Timer, calls, old, coreVars
<1>6. CASE EnterThread \/ CreateWindow \/ CreateWindowFails \/ Quit \/ Leave \/ End
  BY <1>6, EnterThreadOK, CreateWindowOK, CreateWindowFailsOK, ThreadEndsOK
<1>7. CASE DeviceChange \/ (\E d \in Devices, named \in BOOLEAN : Plug(d, named))
  BY <1>7, OtherStepsOK DEF DeviceChange, Plug, devList, window, old, calls, history,
     coreVars
<1>8. CASE UNCHANGED vars
  BY <1>8, OtherStepsOK DEF vars, devList, window, old, calls, history, coreVars
<1>9. CASE \E h \in Handles : OlderStep(h)
  BY <1>9, OlderStepOK
<1> QED
  BY <1>1, <1>2, <1>3, <1>4, <1>5, <1>6, <1>7, <1>8, <1>9 DEF Next, HotStep

\* The counts are bounded by the handles: HotLockCount by those given out or
\* about to be, HotInitCount by Items until the monitor is ended.
LEMMA CountTypesKept ==
    ASSUME IInv, ~CallsAfterEnd, [Next]_vars
    PROVE  CountTypes'
<1>1. CoreInv /\ CoreInv' /\ CountTypes /\ QueueTypes' /\ CallTypes /\ CallTypes'
  BY CoreKept, QueueTypesKept, CallTypesKept, TypeParts DEF IInv
<1>2. Cardinality(Handles) \in Nat /\ Cardinality(used') <= Cardinality(Handles)
      /\ Cardinality(used') \in Nat
  <2>1. IsFiniteSet(Handles) /\ used' \in SUBSET Handles
    BY <1>1, HandleAssumption DEF CallTypes
  <2>2. IsFiniteSet(used') /\ Cardinality(used') <= Cardinality(Handles)
    BY <2>1, FS_Subset
  <2> QED
    BY <2>1, <2>2, FS_CardinalityType
<1>3. lockCount \in Nat /\ initCount \in Nat /\ initCount <= Cardinality(Handles)
  BY <1>1, <1>2 DEF CountTypes
<1>4. lockCount' \in Nat
  <2>1. \A a \in Apps : pc[a] \in Opening => lockCount # 0
    BY LockCountZero DEF IInv, CoreInv, CallInv, In
  <2>2. CASE \E a \in Apps : \/ \E h \in Handles : BeginInit(a, h) \/ BeginFree(a, h)
                             \/ BeginFreeAll(a)
    BY <1>3, <2>2 DEF BeginInit, BeginFree, BeginFreeAll
  <2>3. ASSUME NEW a \in Apps, AppStep(a)
        PROVE  lockCount' \in Nat
    <3>1. CASE InitAnswer(a)
      BY <1>3, <2>1, <3>1 DEF InitAnswer, Opening
    <3>2. CASE FreeDecLock(a)
      BY <1>3, <3>2 DEF FreeDecLock
    <3>3. CASE UNCHANGED lockCount
      BY <1>3, <3>3
    <3> QED
      BY <2>3, <3>1, <3>2, <3>3 DEF AppStep, StartMonitor, StartMonitorFails,
         ResumeMonitor, ResumeMonitorFails, WaitWindow,
         InitError, SendInit, SendFree, FreeAnswer, SendDestroy, WaitExit
  <2>4. CASE HotStep
    BY <1>3, <2>4 DEF HotStep, EnterThread, CreateWindow, CreateWindowFails, HandleSent,
       HandlePosted,
       Timer, Quit, Leave, End
  <2>5. CASE DeviceChange \/ (\E d \in Devices, named \in BOOLEAN : Plug(d, named))
             \/ UNCHANGED vars
    BY <1>3, <2>5 DEF DeviceChange, Plug, vars
  <2>6. CASE \E h \in Handles : OlderStep(h)
    BY <1>3, <2>6 DEF OlderStep, OlderPosted, OlderRemoval, OlderQuit, OlderLeave, OlderEnd
  <2> QED
    BY <2>2, <2>3, <2>4, <2>5, <2>6 DEF Next
<1>5. lockCount' <= Cardinality(used')
  BY <1>1 DEF CoreInv, CountInv
<1>6. initCount' = initCount \/ ~ended'
  <2>1. CASE \E a \in Apps : \/ \E h \in Handles : BeginInit(a, h) \/ BeginFree(a, h)
                             \/ BeginFreeAll(a) \/ AppStep(a)
    BY <2>1 DEF BeginInit, BeginFree, BeginFreeAll, AppStep, StartMonitor,
       StartMonitorFails, ResumeMonitor, ResumeMonitorFails, WaitWindow, InitError,
       SendInit, InitAnswer, FreeDecLock,
       SendFree, FreeAnswer, SendDestroy, WaitExit
  <2>2. CASE HandleSent
    <3> DEFINE m == Head(sent)
    <3>1. sent # << >>
          /\ UNCHANGED <<lockCount, threadHandle, heap, old, world, used, owned, ended,
                         empty>>
      BY <2>2 DEF HandleSent
    <3>2. CASE OnInitHandle(m)
      BY <3>1, <3>2, OnInitHandleOK
    <3>3. CASE OnFreeHandle(m)
      <4>1. m.app \in Apps /\ pc[m.app] = "freeAnswer"
        BY <3>1, <3>3, FirstMessage DEF OnFreeHandle, WaitsAt
      <4> QED
        BY <1>1, <3>1, <4>1 DEF CoreInv, CallInv, Freeing
    <3>4. CASE OnInitNoSlot(m) \/ OnDestroy(m)
      BY <3>4 DEF OnInitNoSlot, OnDestroy
    <3> QED
      BY <2>2, <3>2, <3>3, <3>4 DEF HandleSent
  <2>3. CASE HotStep /\ ~HandleSent
    BY <2>3 DEF HotStep, EnterThread, CreateWindow, CreateWindowFails, HandlePosted, Timer,
       Quit, Leave, End
  <2>4. CASE DeviceChange \/ (\E d \in Devices, named \in BOOLEAN : Plug(d, named))
             \/ UNCHANGED vars
    BY <2>4 DEF DeviceChange, Plug, vars
  <2>5. CASE \E h \in Handles : OlderStep(h)
    BY <2>5 DEF OlderStep, OlderPosted, OlderRemoval, OlderQuit, OlderLeave, OlderEnd
  <2> QED
    BY <2>1, <2>2, <2>3, <2>4, <2>5 DEF Next
<1>7. ~ended' => initCount' \in Nat /\ initCount' <= Cardinality(Handles)
  BY <1>1, ItemsFit DEF CoreInv, CountInv, QueueTypes
<1> QED
  BY <1>2, <1>3, <1>4, <1>5, <1>6, <1>7 DEF CountTypes

LEMMA InitOK == Init => IInv
<1> SUFFICES ASSUME Init PROVE IInv
  OBVIOUS
<1>1. /\ \A a \in Apps : /\ pc[a] = "idle" /\ arg[a] = NoHandle /\ lockCnt[a] = 0
                         /\ result[a] = "none"
      /\ owned = {} /\ used = {} /\ sent = << >> /\ items = << >> /\ thread = "none"
  BY DEF Init
<1>2. Cardinality(Handles) \in Nat /\ 0 \in 0 .. Cardinality(Handles)
  BY HandleAssumption, FS_CardinalityType
<1>3. FlagTypes /\ CountTypes /\ WorldTypes /\ OlderTypes
  <2>1. FlagTypes /\ OlderTypes
    BY DEF Init, FlagTypes, OlderTypes, OlderThreads, ThreadStates, NoThread
  <2>2. CountTypes
    BY <1>2 DEF Init, CountTypes
  <2>3. WorldTypes
    BY BoundAssumption DEF Init, WorldTypes
  <2> QED
    BY <2>1, <2>2, <2>3
<1>4. CallTypes
  BY <1>2, HandleAssumption DEF Init, CallTypes, AppLabels
<1>5. QueueTypes
  BY EmptySeq DEF Init, QueueTypes, IsInjective
<1>6. ListTypes
  BY ListsAre DEF Init, ListTypes
<1>7. ThreadInv /\ CallInv /\ LastInv
  BY <1>1 DEF Init, ThreadInv, CallInv, LastInv, Opening, Freeing, Closing, Over
<1>8. SentInv /\ AnswerInv
  BY <1>1 DEF Init, SentInv, AnswerInv, Gone, Made, ItemSet, Range
<1>9. CountInv
  <2>1. Kept = {} /\ In(Opening) = {}
    BY <1>1 DEF Kept, In, Opening
  <2> QED
    BY <1>1, <2>1, FS_EmptySet DEF Init, CountInv
<1> QED
  BY <1>3, <1>4, <1>5, <1>6, <1>7, <1>8, <1>9, TypeParts DEF IInv, CoreInv

LEMMA IInvKept ==
    ASSUME IInv, ~CallsAfterEnd, [Next]_vars
    PROVE  IInv'
<1>1. /\ CoreInv' /\ CountTypes' /\ CallTypes' /\ QueueTypes' /\ ListTypes' /\ WorldTypes'
      /\ OlderTypes'
  BY CoreKept, CountTypesKept, CallTypesKept, QueueTypesKept, ListTypesKept, WorldTypesKept,
     OlderTypesKept
<1>2. FlagTypes'
  BY <1>1, FlagTypesKept DEF FlagTypes, CallTypes
<1>3. TypeOK'
  BY <1>1, <1>2, TypeParts, PTL
<1> QED
  BY <1>1, <1>3 DEF IInv

\* Where every theorem starts from.
THEOREM IInvAlways ==
    ASSUME ~CallsAfterEnd
    PROVE  Spec => []IInv
<1>1. IInv /\ [Next]_vars => IInv'
  BY IInvKept
<1> QED
  BY <1>1, InitOK, PTL DEF Spec

\* HotLockCount counts the handles the application has or asks for, and
\* HotInitCount those in Items, whatever fails or overlaps: the last HotK_Free
\* is the one that ends the monitor, and no other.
THEOREM CountsStayExact ==
    ASSUME ~CallsAfterEnd
    PROVE  Spec => []CountsExact
<1>1. IInv => CountsExact
  BY DEF IInv, CoreInv, CountInv, CountsExact, LockCountExact, InitCountExact, Kept, Opening
<1> QED
  BY <1>1, IInvAlways, PTL

\* While the application has a handle there is a window, a thread in its
\* message loop and a device list; and the heap its infos lie in, unless a hot
\* thread that was overtaken by this start has destroyed it.
THEOREM MonitorStaysIntact ==
    ASSUME ~CallsAfterEnd
    PROVE  Spec => []MonitorIntact
<1>1. IInv => MonitorIntact
  <2>1. IInv => MonitorWhileUsed
    BY DEF IInv, CoreInv, ThreadInv, MonitorWhileUsed, Over
  <2>2. IInv => HeapOutlivesList
    BY DEF IInv, CoreInv, ThreadInv, HeapOutlivesList
  <2> QED
    BY <2>1, <2>2 DEF MonitorIntact
<1> QED
  BY <1>1, IInvAlways, PTL

\* Devices are reported to the handles the application has, from the handling
\* of HotK_Init to that of HotK_Free, and to no other; and a HotK_Init that
\* returns TRUE gave a handle.
THEOREM HandlesStayServed ==
    ASSUME ~CallsAfterEnd
    PROVE  Spec => []HandlesServed
<1>1. IInv => HandlesServed
  <2> SUFFICES ASSUME IInv PROVE HandlesServed
    OBVIOUS
  <2>1. CallTypes /\ AnswerInv /\ CountInv
    BY TypesOfCalls DEF IInv, CoreInv
  <2>2. ItemSet \subseteq Handles
    BY LenProperties, ElementOfSeq DEF IInv, TypeOK, ItemSet, Range
  <2>3. ItemsAreOwned
    <3>1. ASSUME ~ended, NEW g \in owned, g \notin {arg[a] : a \in In({"freeAnswer"})}
          PROVE  g \in ItemSet
      BY <2>1, <3>1 DEF CallTypes, AnswerInv, Gone, In
    <3>2. ASSUME ~ended, NEW g \in ItemSet
          PROVE  g \in owned \cup {arg[a] : a \in In({"initAnswer"})}
      BY <2>1, <2>2, <3>2 DEF AnswerInv, Made, In
    <3> QED
      BY <3>1, <3>2 DEF ItemsAreOwned
  <2> QED
    BY <2>1, <2>3 DEF HandlesServed, InitGivesHandle, CountInv
<1> QED
  BY <1>1, IInvAlways, PTL

=============================================================================
