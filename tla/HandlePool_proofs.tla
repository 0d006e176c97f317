-------------------------- MODULE HandlePool_proofs --------------------------
(***************************************************************************)
(* Proofs about the handle pools and about the lists built from two of     *)
(* them.                                                                   *)
(*                                                                         *)
(* HandlePool, for every finite set of threads and every pool size: type   *)
(* correctness and the completeness of a scan that runs alone, and, when   *)
(* no call arrives late (LateCalls = FALSE), the exactness of the          *)
(* reference count, the safety of cleanup and that the pool implements     *)
(* HandleLifetime.                                                         *)
(*                                                                         *)
(* DeviceList, for every number of devices, lists and infos: the links of  *)
(* the lists, their cursors and the references of the infos, and what a    *)
(* sync reports of each device.                                            *)
(***************************************************************************)
EXTENDS HandlePool, DeviceList, SequenceTheorems, FiniteSetTheorems, WellFoundedInduction, TLAPS

\* Positions drawn from Index stay inside the pool.
LEMMA NextPosInSlots ==
    ASSUME index \in Slots
    PROVE  NextPos \in Slots
BY CountAssumption DEF NextPos, Slots

LEMMA TypeInit == Init => TypeOK
<1> SUFFICES ASSUME Init PROVE TypeOK
  OBVIOUS
<1>1. 0 \in Slots /\ HandleCount - 1 \in Slots
  BY CountAssumption DEF Slots
<1> QED
  BY <1>1 DEF Init, TypeOK, PCs, Ops

USE DEF PCs, Ops, AcquirePCs, IncPCs, DecPCs, DisposePCs

\* The part of the type invariant that control transfers touch.
ControlType ==
    pc \in [Threads -> PCs] /\ op \in [Threads -> Ops] /\ nested \in [Threads -> BOOLEAN]

LEMMA TransferType ==
    ASSUME ControlType, NEW t \in Threads,
           Finish(t) \/ AfterDec(t) \/ AfterInc(t)
             \/ \E label \in PCs : Goto(t, label) /\ UNCHANGED <<op, nested>>
    PROVE  ControlType'
<1>1. ASSUME NEW label \in PCs, Goto(t, label) PROVE pc' \in [Threads -> PCs]
  BY <1>1 DEF ControlType, Goto
<1>2. CASE Finish(t)
  BY <1>2, <1>1 DEF Finish, ControlType
<1>3. CASE AfterDec(t)
  BY <1>3, <1>2, <1>1 DEF AfterDec, ControlType
<1>4. CASE AfterInc(t)
  BY <1>4, <1>1 DEF AfterInc, ControlType
<1> QED
  BY <1>1, <1>2, <1>3, <1>4 DEF ControlType

LEMMA TypeStep == TypeOK /\ [Next]_vars => TypeOK'
<1> SUFFICES ASSUME TypeOK, [Next]_vars PROVE TypeOK'
  OBVIOUS
<1> DEFINE SlotType == /\ use \in [Slots -> BOOLEAN]
                       /\ ref \in [Slots -> Int]
                       /\ disposing \in [Slots -> Threads \cup {NoThread}]
                       /\ cleanup \in [Slots -> BOOLEAN]
                       /\ index \in Slots
           LocalType == /\ h \in [Threads -> Slots]
                        /\ start \in [Threads -> Slots]
                        /\ handles \in SUBSET Slots
                        /\ unseen \in [Threads -> SUBSET Slots]
                        /\ alone \in [Threads -> BOOLEAN]
<1>a. SlotType /\ LocalType /\ ControlType
  BY DEF TypeOK, ControlType
<1>b. SlotType' /\ LocalType' /\ ControlType' => TypeOK'
  BY DEF TypeOK, ControlType
<1>c. 0 \in Slots
  BY CountAssumption DEF Slots
<1> USE DEF slotVars
<1>1. ASSUME NEW t \in Threads, Step(t) PROVE SlotType' /\ LocalType' /\ ControlType'
  <2>1. CASE AcquireTry(t)
    <3>1. CASE use[h[t]]
      <4>1. AcquireNext(t)
        BY <2>1, <3>1 DEF AcquireTry
      <4>2. SlotType' /\ LocalType'
        BY <1>a, <2>1, <4>1, NextPosInSlots DEF AcquireTry, AcquireNext
      <4>3. ControlType'
        BY <1>a, <2>1, <4>1, TransferType DEF AcquireTry, AcquireNext
      <4> QED BY <4>2, <4>3
    <3>2. CASE ~use[h[t]]
      <4>1. \A u \in Threads : unseen[u] \ {h[t]} \in SUBSET Slots
        BY <1>a
      <4>2. SlotType' /\ LocalType'
        <5>1. /\ use' = [use EXCEPT ![h[t]] = TRUE]
              /\ unseen' = [u \in Threads |-> unseen[u] \ {h[t]}]
              /\ UNCHANGED <<ref, disposing, cleanup, index, h, start, handles, alone>>
          BY <2>1, <3>2 DEF AcquireTry
        <5>2. unseen' \in [Threads -> SUBSET Slots]
          BY <4>1, <5>1
        <5> QED BY <1>a, <5>1, <5>2
      <4>3. ControlType'
        BY <1>a, <2>1, <3>2, TransferType DEF AcquireTry
      <4> QED BY <4>2, <4>3
    <3> QED BY <3>1, <3>2
  <2>2. CASE AcquireSetRef(t)
    BY <1>a, <2>2, TransferType DEF AcquireSetRef
  <2>3. CASE AcquireSetDisposing(t)
    BY <1>a, <2>3, TransferType DEF AcquireSetDisposing
  <2>4. CASE AcquireReturn(t)
    BY <1>a, <1>c, <2>4, TransferType DEF AcquireReturn, EndScan
  <2>5. CASE AcquireFail(t)
    BY <1>a, <1>c, <2>5, TransferType DEF AcquireFail, EndScan
  <2>6. CASE IncCheckUse(t)
    BY <1>a, <2>6, TransferType DEF IncCheckUse
  <2>7. CASE IncCheckDisposing(t)
    BY <1>a, <2>7, TransferType DEF IncCheckDisposing
  <2>8. CASE IncRef(t)
    BY <1>a, <2>8, TransferType DEF IncRef
  <2>9. CASE IncUndo(t)
    BY <1>a, <2>9, TransferType DEF IncUndo
  <2>10. CASE EndBody(t)
    BY <1>a, <2>10, TransferType DEF EndBody
  <2>11. CASE DecCheckUse(t)
    BY <1>a, <2>11, TransferType DEF DecCheckUse
  <2>12. CASE DecCheckDisposing(t)
    BY <1>a, <2>12, TransferType DEF DecCheckDisposing
  <2>13. CASE DecRef(t)
    BY <1>a, <2>13, TransferType DEF DecRef
  <2>14. CASE SetDisposing(t)
    BY <1>a, <2>14, TransferType DEF SetDisposing
  <2>15. CASE CallCleanup(t)
    BY <1>a, <2>15 DEF CallCleanup, ControlType, Goto
  <2>16. CASE ClearCleanup(t)
    BY <1>a, <2>16, TransferType DEF ClearCleanup
  <2>17. CASE Release(t)
    BY <1>a, <2>17, TransferType DEF Release
  <2> QED BY <1>1, <2>1, <2>2, <2>3, <2>4, <2>5, <2>6, <2>7, <2>8, <2>9, <2>10,
             <2>11, <2>12, <2>13, <2>14, <2>15, <2>16, <2>17 DEF Step
<1>2. ASSUME NEW t \in Threads, BeginAcquire(t) PROVE SlotType' /\ LocalType' /\ ControlType'
  BY <1>a, <1>2, NextPosInSlots DEF BeginAcquire, ControlType, Goto
<1>3. ASSUME NEW t \in Threads, NEW s \in Slots,
             BeginUse(t, s) \/ BeginFree(t, s) \/ BeginDrop(t, s)
      PROVE  SlotType' /\ LocalType' /\ ControlType'
  BY <1>a, <1>3 DEF BeginUse, BeginFree, BeginDrop, MayFree, ControlType, Goto
<1>4. CASE UNCHANGED vars
  BY <1>4 DEF vars, TypeOK
<1> QED
  BY <1>b, <1>1, <1>2, <1>3, <1>4 DEF Next

\* Every reachable state is well typed, with or without late calls.
THEOREM TypeCorrect == Spec => []TypeOK
BY TypeInit, TypeStep, PTL DEF Spec

-----------------------------------------------------------------------------
(***************************************************************************)
(* What an exact count says about who is inside a slot                     *)
(***************************************************************************)
LEMMA HoldersFinite ==
    ASSUME NEW s PROVE IsFiniteSet(Holders(s)) /\ Cardinality(Holders(s)) \in Nat
<1>1. Holders(s) \subseteq Threads
  BY DEF Holders
<1> QED
  BY <1>1, ThreadsAssumption, FS_Subset, FS_CardinalityType

\* Count zero: no call inside, no owner.
LEMMA CountZero ==
    ASSUME RefExact, NEW s \in Slots, ref[s] = 0
    PROVE  ~Owned(s) /\ \A u \in Threads : ~Holds(u, s)
<1>1. Cardinality(Holders(s)) = 0 /\ ~Owned(s)
  BY HoldersFinite DEF RefExact
<1>2. Holders(s) = {}
  BY <1>1, HoldersFinite, FS_EmptySet
<1> QED
  BY <1>1, <1>2 DEF Holders

\* A call inside counts.
LEMMA HolderCounts ==
    ASSUME RefExact, NEW s \in Slots, NEW t \in Threads, Holds(t, s)
    PROVE  /\ ref[s] >= (IF Owned(s) THEN 2 ELSE 1)
           /\ ref[s] = 1 => ~Owned(s) /\ \A u \in Threads : Holds(u, s) => u = t
<1>1. t \in Holders(s)
  BY DEF Holders
<1>2. /\ IsFiniteSet(Holders(s) \ {t})
      /\ Cardinality(Holders(s) \ {t}) = Cardinality(Holders(s)) - 1
      /\ Cardinality(Holders(s) \ {t}) \in Nat
  BY <1>1, HoldersFinite, FS_RemoveElement, FS_CardinalityType
<1>3. ref[s] = Cardinality(Holders(s)) + (IF Owned(s) THEN 1 ELSE 0)
  BY DEF RefExact
<1>4. ref[s] >= (IF Owned(s) THEN 2 ELSE 1)
  BY <1>2, <1>3, HoldersFinite
<1>5. ASSUME ref[s] = 1, NEW u \in Threads, Holds(u, s) PROVE u = t
  <2>1. Cardinality(Holders(s) \ {t}) = 0
    BY <1>2, <1>3, <1>4, <1>5, HoldersFinite
  <2>2. Holders(s) \ {t} = {}
    BY <1>2, <2>1, FS_EmptySet
  <2> QED
    BY <1>5, <2>2 DEF Holders
<1> QED
  BY <1>4, <1>5

\* An owner counts.
LEMMA OwnerCounts ==
    ASSUME RefExact, NEW s \in Slots, Owned(s)
    PROVE  /\ ref[s] >= 1
           /\ ref[s] = 1 => \A u \in Threads : ~Holds(u, s)
<1>1. ref[s] = Cardinality(Holders(s)) + 1
  BY DEF RefExact
<1>2. ASSUME ref[s] = 1 PROVE Holders(s) = {}
  BY <1>1, <1>2, HoldersFinite, FS_EmptySet
<1> QED
  BY <1>1, <1>2, HoldersFinite DEF Holders

\* A slot in the pool has count zero.
LEMMA UnusedIsZero ==
    ASSUME IInv, NEW s \in Slots, ~use[s]
    PROVE  ref[s] = 0
<1>1. ~Owned(s) /\ \A u \in Threads : ~Holds(u, s)
  BY DEF IInv, ReferencedInv, Owned
<1>2. Holders(s) = {}
  BY <1>1 DEF Holders
<1> QED
  BY <1>1, <1>2, FS_EmptySet DEF IInv, RefExact

-----------------------------------------------------------------------------
(***************************************************************************)
(* How a step may change the count of a slot                               *)
(***************************************************************************)
\* The count stays exact when references and count move together.
LEMMA CountMoves ==
    ASSUME RefExact, NEW s \in Slots, NEW t \in Threads,
           \/ /\ \A u \in Threads : Holds(u, s)' <=> Holds(u, s)
              /\ Owned(s)' <=> Owned(s)
              /\ ref'[s] = ref[s]
           \/ /\ \A u \in Threads \ {t} : Holds(u, s)' <=> Holds(u, s)
              /\ Owned(s)' <=> Owned(s)
              /\ ~Holds(t, s) /\ Holds(t, s)' /\ ref'[s] = ref[s] + 1
           \/ /\ \A u \in Threads \ {t} : Holds(u, s)' <=> Holds(u, s)
              /\ Owned(s)' <=> Owned(s)
              /\ Holds(t, s) /\ ~Holds(t, s)' /\ ref'[s] = ref[s] - 1
           \/ /\ \A u \in Threads : Holds(u, s)' <=> Holds(u, s)
              /\ ~Owned(s) /\ Owned(s)' /\ ref'[s] = ref[s] + 1
           \/ /\ \A u \in Threads : Holds(u, s)' <=> Holds(u, s)
              /\ Owned(s) /\ ~Owned(s)' /\ ref'[s] = ref[s] - 1
    PROVE  ref'[s] = Cardinality(Holders(s)') + (IF Owned(s)' THEN 1 ELSE 0)
<1>1. ref[s] = Cardinality(Holders(s)) + (IF Owned(s) THEN 1 ELSE 0)
  BY DEF RefExact
<1>2. IsFiniteSet(Holders(s)) /\ Cardinality(Holders(s)) \in Nat
  BY HoldersFinite
<1>3. CASE \A u \in Threads : Holds(u, s)' <=> Holds(u, s)
  <2>1. Holders(s)' = Holders(s)
    BY <1>3 DEF Holders
  <2> QED BY <1>1, <1>2, <1>3, <2>1
<1>4. CASE /\ \A u \in Threads \ {t} : Holds(u, s)' <=> Holds(u, s)
           /\ Owned(s)' <=> Owned(s)
           /\ ~Holds(t, s) /\ Holds(t, s)' /\ ref'[s] = ref[s] + 1
  <2>1. Holders(s)' = Holders(s) \cup {t} /\ t \notin Holders(s)
    BY <1>4 DEF Holders
  <2>2. Cardinality(Holders(s)') = Cardinality(Holders(s)) + 1
    BY <1>2, <2>1, FS_AddElement
  <2> QED BY <1>1, <1>2, <1>4, <2>2
<1>5. CASE /\ \A u \in Threads \ {t} : Holds(u, s)' <=> Holds(u, s)
           /\ Owned(s)' <=> Owned(s)
           /\ Holds(t, s) /\ ~Holds(t, s)' /\ ref'[s] = ref[s] - 1
  <2>1. Holders(s)' = Holders(s) \ {t} /\ t \in Holders(s)
    BY <1>5 DEF Holders
  <2>2. Cardinality(Holders(s)') = Cardinality(Holders(s)) - 1
    BY <1>2, <2>1, FS_RemoveElement
  <2> QED BY <1>1, <1>2, <1>5, <2>2
<1> QED
  BY <1>3, <1>4, <1>5

\* A step that changes no slot and lets no thread set one up or dispose of one
\* that did not before.
LEMMA ZeroedKept ==
    ASSUME ZeroedInv, UNCHANGED <<use, ref, disposing>>,
           \A u \in Threads, s \in Slots :
               /\ Zeroed(u, s)' => Zeroed(u, s)
               /\ (Disposes(u, s) /\ pc[u] # "setDisposing")'
                      => Disposes(u, s) /\ pc[u] # "setDisposing"
    PROVE  ZeroedInv'
BY DEF ZeroedInv

\* A step that changes no slot, gives nobody a reference and no owner a step.
LEMMA ReferencedKept ==
    ASSUME ReferencedInv, UNCHANGED <<use, disposing, handles>>,
           \A u \in Threads, s \in Slots :
               /\ Holds(u, s)' => Holds(u, s)
               /\ OwnerStep(u, s)' => OwnerStep(u, s)
               /\ (OwnerStep(u, s) /\ pc[u] # "acqDisposing")'
                      => OwnerStep(u, s) /\ pc[u] # "acqDisposing"
    PROVE  ReferencedInv'
BY DEF ReferencedInv

LEMMA TryStep ==
    ASSUME IInv, NEW t \in Threads, AcquireTry(t), TypeOK'
    PROVE  IInv'
<1> USE DEF Goto, Entering, Holds, Disposes, Zeroed, OwnerStep, Owned
<1>1. ControlInv'
  BY DEF IInv, TypeOK, ControlInv, AcquireTry, AcquireNext
<1>2. EntryInv'
  BY DEF IInv, TypeOK, ControlInv, EntryInv, AcquireTry, AcquireNext
<1>3. ReferencedInv'
  BY SMTT(30) DEF IInv, TypeOK, ControlInv, ReferencedInv, AcquireTry, AcquireNext
<1>4. ZeroedInv'
  <2>1. CASE use[h[t]]
    <3>1. \A u \in Threads, s \in Slots : /\ Zeroed(u, s)' <=> Zeroed(u, s)
                                          /\ Disposes(u, s)' <=> Disposes(u, s)
      BY <2>1 DEF IInv, TypeOK, ControlInv, AcquireTry, AcquireNext
    <3>2. /\ UNCHANGED <<use, ref, disposing>>
          /\ \A u \in Threads : u # t => pc'[u] = pc[u]
          /\ \A s \in Slots : ~Disposes(t, s)
      BY <2>1 DEF IInv, TypeOK, ControlInv, AcquireTry, AcquireNext
    <3> HIDE DEF Zeroed, Disposes
    <3> QED
      BY <3>1, <3>2 DEF IInv, ZeroedInv
  <2>2. CASE ~use[h[t]]
    <3>1. ref[h[t]] = 0 /\ \A u \in Threads : ~Zeroed(u, h[t])
      BY <2>2, UnusedIsZero DEF IInv, TypeOK, ZeroedInv
    <3>2. \A u \in Threads, s \in Slots : Zeroed(u, s)' <=> Zeroed(u, s) \/ (u = t /\ s = h[t])
      BY <2>2 DEF IInv, TypeOK, ControlInv, AcquireTry
    <3>3. \A u \in Threads, s \in Slots : Disposes(u, s)' <=> Disposes(u, s)
      BY <2>2 DEF IInv, TypeOK, ControlInv, AcquireTry
    <3>4. /\ \A s \in Slots : s # h[t] => use'[s] = use[s]
          /\ use'[h[t]] /\ ref' = ref /\ disposing' = disposing
          /\ \A u \in Threads : u # t => pc'[u] = pc[u]
          /\ \A s \in Slots : ~Disposes(t, s)
      BY <2>2 DEF IInv, TypeOK, ControlInv, AcquireTry
    <3> HIDE DEF Zeroed, Disposes
    <3> QED
      BY <3>1, <3>2, <3>3, <3>4 DEF IInv, ZeroedInv
  <2> QED BY <2>1, <2>2
<1>5. RefExact'
  <2> SUFFICES ASSUME NEW s \in Slots
               PROVE  ref'[s] = Cardinality(Holders(s)') + (IF Owned(s)' THEN 1 ELSE 0)
    BY DEF RefExact
  <2>1. \A u \in Threads : Holds(u, s)' <=> Holds(u, s)
    BY DEF IInv, TypeOK, ControlInv, AcquireTry, AcquireNext
  <2>2. Owned(s)' <=> Owned(s)
    BY DEF IInv, TypeOK, ControlInv, AcquireTry, AcquireNext
  <2> QED
    BY <2>1, <2>2, CountMoves DEF IInv, AcquireTry
<1> QED
  BY <1>1, <1>2, <1>3, <1>4, <1>5 DEF IInv

LEMMA SetRefStep ==
    ASSUME IInv, NEW t \in Threads, AcquireSetRef(t), TypeOK'
    PROVE  IInv'
<1> USE DEF Goto, Entering, Holds, Disposes, Zeroed, OwnerStep, Owned
<1>a. pc[t] = "acqRef" /\ ~nested[t] /\ op[t] = "acquire" /\ h[t] \in Slots
  BY DEF IInv, TypeOK, ControlInv, AcquireSetRef
<1>b. /\ use[h[t]] /\ ref[h[t]] = 0
      /\ \A u \in Threads : Zeroed(u, h[t]) => u = t
  BY <1>a DEF IInv, ZeroedInv
<1>c. ~Owned(h[t]) /\ \A u \in Threads : ~Holds(u, h[t])
  BY <1>a, <1>b, CountZero DEF IInv
<1>d. /\ pc' = [pc EXCEPT ![t] = "acqDisposing"]
      /\ ref' = [ref EXCEPT ![h[t]] = 1]
      /\ UNCHANGED <<use, disposing, op, h, nested, handles>>
  BY DEF AcquireSetRef
<1>1. ControlInv'
  BY <1>a, <1>d DEF IInv, TypeOK, ControlInv
<1>2. EntryInv'
  BY <1>a, <1>d DEF IInv, TypeOK, ControlInv, EntryInv
<1>3. ReferencedInv'
  BY <1>a, <1>b, <1>c, <1>d DEF IInv, TypeOK, ControlInv, ReferencedInv
<1>4. ZeroedInv'
  BY <1>a, <1>b, <1>d DEF IInv, TypeOK, ControlInv, ZeroedInv
<1>5. RefExact'
  <2> SUFFICES ASSUME NEW s \in Slots
               PROVE  ref'[s] = Cardinality(Holders(s)') + (IF Owned(s)' THEN 1 ELSE 0)
    BY DEF RefExact
  <2>1. \A u \in Threads : Holds(u, s)' <=> Holds(u, s)
    BY <1>a, <1>d DEF IInv, TypeOK, ControlInv
  <2>2. CASE s = h[t]
    <3>1. OwnerStep(t, s)'
      BY <1>a, <1>d, <2>2 DEF IInv, TypeOK
    <3>2. ref'[s] = ref[s] + 1
      BY <1>a, <1>b, <1>d, <2>2 DEF IInv, TypeOK
    <3> QED
      BY <1>c, <2>1, <2>2, <3>1, <3>2, CountMoves DEF IInv
  <2>3. CASE s # h[t]
    <3>1. Owned(s)' <=> Owned(s)
      BY <1>a, <1>d, <2>3 DEF IInv, TypeOK
    <3>2. ref'[s] = ref[s]
      BY <1>d, <2>3 DEF IInv, TypeOK
    <3> QED
      BY <2>1, <3>1, <3>2, CountMoves DEF IInv
  <2> QED BY <2>2, <2>3
<1> QED
  BY <1>1, <1>2, <1>3, <1>4, <1>5 DEF IInv

LEMMA SetAcquiredStep ==
    ASSUME IInv, NEW t \in Threads, AcquireSetDisposing(t), TypeOK'
    PROVE  IInv'
<1> USE DEF Goto, Entering, Holds, Disposes, Zeroed, OwnerStep, Owned
<1>1. ControlInv'
  BY DEF IInv, TypeOK, ControlInv, AcquireSetDisposing, slotVars
<1>2. EntryInv'
  BY DEF IInv, TypeOK, ControlInv, EntryInv, AcquireSetDisposing, slotVars
<1>3. ReferencedInv'
  BY DEF IInv, TypeOK, ControlInv, ReferencedInv, AcquireSetDisposing, slotVars
<1>4. ZeroedInv'
  <2>1. OwnerStep(t, h[t]) /\ h[t] \in Slots
    BY DEF IInv, TypeOK, ControlInv, AcquireSetDisposing
  <2>2. ref[h[t]] # 0
    BY <2>1, OwnerCounts DEF IInv, TypeOK
  <2> QED
    BY <2>2 DEF IInv, TypeOK, ControlInv, ZeroedInv, AcquireSetDisposing
<1>5. RefExact'
  <2> SUFFICES ASSUME NEW s \in Slots
               PROVE  ref'[s] = Cardinality(Holders(s)') + (IF Owned(s)' THEN 1 ELSE 0)
    BY DEF RefExact
  <2>1. \A u \in Threads : Holds(u, s)' <=> Holds(u, s)
    BY DEF IInv, TypeOK, ControlInv, AcquireSetDisposing, slotVars
  <2>2. Owned(s)' <=> Owned(s)
    BY DEF IInv, TypeOK, ControlInv, AcquireSetDisposing, slotVars
  <2> QED
    BY <2>1, <2>2, CountMoves DEF IInv, AcquireSetDisposing, slotVars
<1> QED
  BY <1>1, <1>2, <1>3, <1>4, <1>5 DEF IInv

LEMMA ReturnStep ==
    ASSUME IInv, NEW t \in Threads, AcquireReturn(t), TypeOK'
    PROVE  IInv'
<1> USE DEF Goto, Entering, Holds, Disposes, Zeroed, OwnerStep, Owned
<1>1. ControlInv'
  BY DEF IInv, TypeOK, ControlInv, AcquireReturn, Finish, EndScan, slotVars
<1>2. EntryInv'
  BY DEF IInv, TypeOK, ControlInv, EntryInv, AcquireReturn, Finish, EndScan, slotVars
<1>3. ReferencedInv'
  BY DEF IInv, TypeOK, ControlInv, ReferencedInv, AcquireReturn, Finish, EndScan, slotVars
<1>4. ZeroedInv'
  BY DEF IInv, TypeOK, ControlInv, ZeroedInv, AcquireReturn, Finish, EndScan, slotVars
<1>5. RefExact'
  <2> SUFFICES ASSUME NEW s \in Slots
               PROVE  ref'[s] = Cardinality(Holders(s)') + (IF Owned(s)' THEN 1 ELSE 0)
    BY DEF RefExact
  <2>1. \A u \in Threads : Holds(u, s)' <=> Holds(u, s)
    BY DEF IInv, TypeOK, ControlInv, AcquireReturn, Finish, EndScan, slotVars
  <2>2. Owned(s)' <=> Owned(s)
    BY DEF IInv, TypeOK, ControlInv, AcquireReturn, Finish, EndScan, slotVars
  <2> QED
    BY <2>1, <2>2, CountMoves DEF IInv, AcquireReturn, Finish, EndScan, slotVars
<1> QED
  BY <1>1, <1>2, <1>3, <1>4, <1>5 DEF IInv

LEMMA FailStep ==
    ASSUME IInv, NEW t \in Threads, AcquireFail(t), TypeOK'
    PROVE  IInv'
<1> USE DEF Goto, Entering, Holds, Disposes, Zeroed, OwnerStep, Owned
<1>1. ControlInv'
  BY DEF IInv, TypeOK, ControlInv, AcquireFail, Finish, EndScan, slotVars
<1>2. EntryInv'
  BY DEF IInv, TypeOK, ControlInv, EntryInv, AcquireFail, Finish, EndScan, slotVars
<1>3. ReferencedInv'
  <2>1. /\ ReferencedInv /\ UNCHANGED <<use, disposing, handles>>
        /\ \A u \in Threads, s \in Slots :
               /\ Holds(u, s)' => Holds(u, s)
               /\ OwnerStep(u, s)' => OwnerStep(u, s)
               /\ (OwnerStep(u, s) /\ pc[u] # "acqDisposing")'
                      => OwnerStep(u, s) /\ pc[u] # "acqDisposing"
    BY DEF IInv, TypeOK, ControlInv, AcquireFail, Finish, EndScan, slotVars
  <2> QED
    BY <2>1, ReferencedKept
<1>4. ZeroedInv'
  <2>1. /\ ZeroedInv /\ UNCHANGED <<use, ref, disposing>>
        /\ \A u \in Threads, s \in Slots :
               /\ Zeroed(u, s)' => Zeroed(u, s)
               /\ (Disposes(u, s) /\ pc[u] # "setDisposing")'
                      => Disposes(u, s) /\ pc[u] # "setDisposing"
    BY DEF IInv, TypeOK, ControlInv, AcquireFail, Finish, EndScan, slotVars
  <2> QED
    BY <2>1, ZeroedKept
<1>5. RefExact'
  <2> SUFFICES ASSUME NEW s \in Slots
               PROVE  ref'[s] = Cardinality(Holders(s)') + (IF Owned(s)' THEN 1 ELSE 0)
    BY DEF RefExact
  <2>1. \A u \in Threads : Holds(u, s)' <=> Holds(u, s)
    BY DEF IInv, TypeOK, ControlInv, AcquireFail, Finish, EndScan, slotVars
  <2>2. Owned(s)' <=> Owned(s)
    BY DEF IInv, TypeOK, ControlInv, AcquireFail, Finish, EndScan, slotVars
  <2> QED
    BY <2>1, <2>2, CountMoves DEF IInv, AcquireFail, Finish, EndScan, slotVars
<1> QED
  BY <1>1, <1>2, <1>3, <1>4, <1>5 DEF IInv

LEMMA IncUseStep ==
    ASSUME IInv, NEW t \in Threads, IncCheckUse(t), TypeOK'
    PROVE  IInv'
<1> USE DEF Goto, Entering, Holds, Disposes, Zeroed, OwnerStep, Owned
<1>a. use[h[t]] /\ pc[t] = "incUse"
  BY DEF IInv, TypeOK, ControlInv, EntryInv, ReferencedInv, ZeroedInv, IncCheckUse
<1>b. /\ pc' = [pc EXCEPT ![t] = "incDisposing"]
      /\ UNCHANGED <<use, ref, disposing, op, h, nested, handles>>
  BY <1>a DEF IncCheckUse, slotVars
<1>1. ControlInv'
  BY <1>a, <1>b DEF IInv, TypeOK, ControlInv
<1>2. EntryInv'
  BY <1>a, <1>b DEF IInv, TypeOK, ControlInv, EntryInv
<1>3. ReferencedInv'
  BY <1>a, <1>b DEF IInv, TypeOK, ControlInv, ReferencedInv
<1>4. ZeroedInv'
  BY <1>a, <1>b DEF IInv, TypeOK, ControlInv, ZeroedInv
<1>5. RefExact'
  <2> SUFFICES ASSUME NEW s \in Slots
               PROVE  ref'[s] = Cardinality(Holders(s)') + (IF Owned(s)' THEN 1 ELSE 0)
    BY DEF RefExact
  <2>1. \A u \in Threads : Holds(u, s)' <=> Holds(u, s)
    BY <1>a, <1>b DEF IInv, TypeOK, ControlInv
  <2>2. Owned(s)' <=> Owned(s)
    BY <1>a, <1>b DEF IInv, TypeOK, ControlInv
  <2> QED
    BY <1>b, <2>1, <2>2, CountMoves DEF IInv
<1> QED
  BY <1>1, <1>2, <1>3, <1>4, <1>5 DEF IInv

LEMMA IncDisposingStep ==
    ASSUME IInv, NEW t \in Threads, IncCheckDisposing(t), TypeOK'
    PROVE  IInv'
<1> USE DEF Goto, Entering, Holds, Disposes, Zeroed, OwnerStep, Owned
<1>a. /\ pc[t] = "incDisposing"
      /\ disposing[h[t]] = IF nested[t] THEN t ELSE NoThread
  BY DEF IInv, TypeOK, ControlInv, EntryInv, ReferencedInv, ZeroedInv, IncCheckDisposing
<1>b. /\ pc' = [pc EXCEPT ![t] = IF nested[t] THEN "body" ELSE "incRef"]
      /\ UNCHANGED <<use, ref, disposing, op, h, nested, handles>>
  BY <1>a, ThreadsAssumption DEF IncCheckDisposing, AfterInc, slotVars
<1>1. ControlInv'
  BY <1>a, <1>b DEF IInv, TypeOK, ControlInv
<1>2. EntryInv'
  BY <1>a, <1>b DEF IInv, TypeOK, ControlInv, EntryInv
<1>3. ReferencedInv'
  BY <1>a, <1>b DEF IInv, TypeOK, ControlInv, ReferencedInv
<1>4. ZeroedInv'
  BY <1>a, <1>b DEF IInv, TypeOK, ControlInv, ZeroedInv
<1>5. RefExact'
  <2> SUFFICES ASSUME NEW s \in Slots
               PROVE  ref'[s] = Cardinality(Holders(s)') + (IF Owned(s)' THEN 1 ELSE 0)
    BY DEF RefExact
  <2>1. \A u \in Threads : Holds(u, s)' <=> Holds(u, s)
    BY <1>a, <1>b DEF IInv, TypeOK, ControlInv
  <2>2. Owned(s)' <=> Owned(s)
    BY <1>a, <1>b DEF IInv, TypeOK, ControlInv
  <2> QED
    BY <1>b, <2>1, <2>2, CountMoves DEF IInv
<1> QED
  BY <1>1, <1>2, <1>3, <1>4, <1>5 DEF IInv

LEMMA IncRefStep ==
    ASSUME IInv, NEW t \in Threads, IncRef(t), TypeOK'
    PROVE  IInv'
<1> USE DEF Goto, Entering, Holds, Disposes, Zeroed, OwnerStep, Owned
<1>a. pc[t] = "incRef" /\ ~nested[t] /\ op[t] \in {"use", "free"} /\ Owned(h[t])
  BY DEF IInv, TypeOK, ControlInv, EntryInv, IncRef
<1>b. ref[h[t]] \in Int /\ ref[h[t]] >= 1
  BY <1>a, OwnerCounts DEF IInv, TypeOK
<1>c. /\ pc' = [pc EXCEPT ![t] = IF op[t] = "free" THEN "decUse" ELSE "body"]
      /\ ref' = [ref EXCEPT ![h[t]] = ref[h[t]] + 1]
      /\ UNCHANGED <<use, disposing, op, h, nested, handles>>
  BY <1>a, <1>b DEF IncRef, AfterInc
<1>1. ControlInv'
  BY <1>a, <1>c DEF IInv, TypeOK, ControlInv
<1>2. EntryInv'
  BY <1>a, <1>c DEF IInv, TypeOK, ControlInv, EntryInv
<1>3. ReferencedInv'
  BY <1>a, <1>c DEF IInv, TypeOK, ControlInv, EntryInv, ReferencedInv
<1>4. ZeroedInv'
  BY <1>a, <1>b, <1>c DEF IInv, TypeOK, ControlInv, ZeroedInv
<1>5. RefExact'
  <2> SUFFICES ASSUME NEW s \in Slots
               PROVE  ref'[s] = Cardinality(Holders(s)') + (IF Owned(s)' THEN 1 ELSE 0)
    BY DEF RefExact
  <2>1. \A u \in Threads \ {t} : Holds(u, s)' <=> Holds(u, s)
    BY <1>a, <1>c DEF IInv, TypeOK, ControlInv
  <2>2. Owned(s)' <=> Owned(s)
    BY <1>a, <1>c DEF IInv, TypeOK, ControlInv
  <2>3. ~Holds(t, s) /\ (Holds(t, s)' <=> h[t] = s)
    BY <1>a, <1>c DEF IInv, TypeOK
  <2>4. ref'[s] = IF h[t] = s THEN ref[s] + 1 ELSE ref[s]
    BY <1>c DEF IInv, TypeOK
  <2> HIDE DEF Holds, Owned
  <2> QED
    BY <2>1, <2>2, <2>3, <2>4, CountMoves DEF IInv
<1> QED
  BY <1>1, <1>2, <1>3, <1>4, <1>5 DEF IInv

LEMMA IncUndoStep ==
    ASSUME IInv, NEW t \in Threads, IncUndo(t)
    PROVE  FALSE
BY DEF IInv, ControlInv, IncUndo

LEMMA BodyStep ==
    ASSUME IInv, NEW t \in Threads, EndBody(t), TypeOK'
    PROVE  IInv'
<1> USE DEF Goto, Entering, Holds, Disposes, Zeroed, OwnerStep, Owned
<1>1. ControlInv'
  BY DEF IInv, TypeOK, ControlInv, EndBody, slotVars
<1>2. EntryInv'
  BY DEF IInv, TypeOK, ControlInv, EntryInv, EndBody, slotVars
<1>3. ReferencedInv'
  <2>1. /\ ReferencedInv /\ UNCHANGED <<use, disposing, handles>>
        /\ \A u \in Threads, s \in Slots :
               /\ Holds(u, s)' => Holds(u, s)
               /\ OwnerStep(u, s)' => OwnerStep(u, s)
               /\ (OwnerStep(u, s) /\ pc[u] # "acqDisposing")'
                      => OwnerStep(u, s) /\ pc[u] # "acqDisposing"
    BY DEF IInv, TypeOK, ControlInv, EndBody, slotVars
  <2> QED
    BY <2>1, ReferencedKept
<1>4. ZeroedInv'
  <2>1. /\ ZeroedInv /\ UNCHANGED <<use, ref, disposing>>
        /\ \A u \in Threads, s \in Slots :
               /\ Zeroed(u, s)' => Zeroed(u, s)
               /\ (Disposes(u, s) /\ pc[u] # "setDisposing")'
                      => Disposes(u, s) /\ pc[u] # "setDisposing"
    BY DEF IInv, TypeOK, ControlInv, EndBody, slotVars
  <2> QED
    BY <2>1, ZeroedKept
<1>5. RefExact'
  <2> SUFFICES ASSUME NEW s \in Slots
               PROVE  ref'[s] = Cardinality(Holders(s)') + (IF Owned(s)' THEN 1 ELSE 0)
    BY DEF RefExact
  <2>1. \A u \in Threads : Holds(u, s)' <=> Holds(u, s)
    BY DEF IInv, TypeOK, ControlInv, EndBody, slotVars
  <2>2. Owned(s)' <=> Owned(s)
    BY DEF IInv, TypeOK, ControlInv, EndBody, slotVars
  <2> QED
    BY <2>1, <2>2, CountMoves DEF IInv, EndBody, slotVars
<1> QED
  BY <1>1, <1>2, <1>3, <1>4, <1>5 DEF IInv

LEMMA DecUseStep ==
    ASSUME IInv, NEW t \in Threads, DecCheckUse(t), TypeOK'
    PROVE  IInv'
<1> USE DEF Goto, Entering, Holds, Disposes, Zeroed, OwnerStep, Owned
<1>a. use[h[t]] /\ pc[t] = "decUse"
  <2>1. pc[t] = "decUse" /\ h[t] \in Slots
    BY DEF IInv, TypeOK, ControlInv, DecCheckUse
  <2>2. Holds(t, h[t]) \/ Zeroed(t, h[t]) \/ Owned(h[t])
    BY <2>1 DEF IInv, TypeOK, ControlInv
  <2> QED
    BY <2>1, <2>2 DEF IInv, ReferencedInv, ZeroedInv
<1>b. /\ pc' = [pc EXCEPT ![t] = "decDisposing"]
      /\ UNCHANGED <<use, ref, disposing, op, h, nested, handles>>
  BY <1>a DEF DecCheckUse, slotVars
<1>1. ControlInv'
  BY <1>a, <1>b DEF IInv, TypeOK, ControlInv
<1>2. EntryInv'
  BY <1>a, <1>b DEF IInv, TypeOK, ControlInv, EntryInv
<1>3. ReferencedInv'
  BY <1>a, <1>b DEF IInv, TypeOK, ControlInv, ReferencedInv
<1>4. ZeroedInv'
  BY <1>a, <1>b DEF IInv, TypeOK, ControlInv, ZeroedInv
<1>5. RefExact'
  <2> SUFFICES ASSUME NEW s \in Slots
               PROVE  ref'[s] = Cardinality(Holders(s)') + (IF Owned(s)' THEN 1 ELSE 0)
    BY DEF RefExact
  <2>1. \A u \in Threads : Holds(u, s)' <=> Holds(u, s)
    BY <1>a, <1>b DEF IInv, TypeOK, ControlInv
  <2>2. Owned(s)' <=> Owned(s)
    BY <1>a, <1>b DEF IInv, TypeOK, ControlInv
  <2> QED
    BY <1>b, <2>1, <2>2, CountMoves DEF IInv
<1> QED
  BY <1>1, <1>2, <1>3, <1>4, <1>5 DEF IInv

LEMMA DecDisposingStep ==
    ASSUME IInv, NEW t \in Threads, DecCheckDisposing(t), TypeOK'
    PROVE  IInv'
<1> USE DEF Goto, Entering, Holds, Disposes, Zeroed, OwnerStep, Owned
<1>a. /\ pc[t] = "decDisposing"
      /\ disposing[h[t]] = IF nested[t] THEN t ELSE NoThread
  <2>1. pc[t] = "decDisposing" /\ h[t] \in Slots
    BY DEF IInv, TypeOK, DecCheckDisposing
  <2>2. CASE nested[t]
    BY <2>1, <2>2 DEF IInv, ZeroedInv
  <2>3. CASE ~nested[t]
    <3>1. Holds(t, h[t]) \/ OwnerStep(t, h[t])
      BY <2>1, <2>3 DEF IInv, TypeOK, ControlInv
    <3> QED
      BY <2>1, <2>3, <3>1 DEF IInv, ReferencedInv
  <2> QED BY <2>1, <2>2, <2>3
<1>b. /\ pc' = [pc EXCEPT ![t] = IF nested[t] THEN "clearCleanup" ELSE "decRef"]
      /\ nested' = [nested EXCEPT ![t] = FALSE]
      /\ UNCHANGED <<use, ref, disposing, op, h, handles>>
  BY <1>a, ThreadsAssumption DEF IInv, TypeOK, DecCheckDisposing, AfterDec, Finish, slotVars
<1>1. ControlInv'
  BY <1>a, <1>b DEF IInv, TypeOK, ControlInv
<1>2. EntryInv'
  BY <1>a, <1>b DEF IInv, TypeOK, ControlInv, EntryInv
<1>3. ReferencedInv'
  BY <1>a, <1>b DEF IInv, TypeOK, ControlInv, ReferencedInv
<1>4. ZeroedInv'
  BY <1>a, <1>b DEF IInv, TypeOK, ControlInv, ZeroedInv
<1>5. RefExact'
  <2> SUFFICES ASSUME NEW s \in Slots
               PROVE  ref'[s] = Cardinality(Holders(s)') + (IF Owned(s)' THEN 1 ELSE 0)
    BY DEF RefExact
  <2>1. \A u \in Threads : Holds(u, s)' <=> Holds(u, s)
    BY <1>a, <1>b DEF IInv, TypeOK, ControlInv
  <2>2. Owned(s)' <=> Owned(s)
    BY <1>a, <1>b DEF IInv, TypeOK, ControlInv
  <2> QED
    BY <1>b, <2>1, <2>2, CountMoves DEF IInv
<1> QED
  BY <1>1, <1>2, <1>3, <1>4, <1>5 DEF IInv

LEMMA DecRefStep ==
    ASSUME IInv, NEW t \in Threads, DecRef(t), TypeOK'
    PROVE  IInv'
<1> USE DEF Goto, Entering, Holds, Disposes, Zeroed, OwnerStep, Owned
<1>a. pc[t] = "decRef" /\ ~nested[t] /\ op[t] \in {"use", "free", "drop"} /\ h[t] \in Slots
  BY DEF IInv, TypeOK, ControlInv, DecRef
<1>b. /\ op[t] \in {"use", "free"} => Holds(t, h[t])
      /\ op[t] \in {"free", "drop"} => OwnerStep(t, h[t]) /\ Owned(h[t])
  BY <1>a
<1>c. /\ ref[h[t]] \in Int /\ ref[h[t]] >= 1
      /\ ref[h[t]] = 1 => /\ op[t] # "free"
                          /\ op[t] = "use" => ~Owned(h[t])
                          /\ \A u \in Threads : Holds(u, h[t]) => u = t
  <2> HIDE DEF Holds, OwnerStep, Owned
  <2>1. ref[h[t]] \in Int
    BY <1>a DEF IInv, TypeOK
  <2>2. CASE op[t] \in {"use", "free"}
    BY <1>a, <1>b, <2>1, <2>2, HolderCounts DEF IInv
  <2>3. CASE op[t] = "drop"
    BY <1>a, <1>b, <2>1, <2>3, OwnerCounts DEF IInv
  <2> QED BY <1>a, <2>1, <2>2, <2>3
<1>d. \A u \in Threads : ~Zeroed(u, h[t])
  BY <1>a, <1>c DEF IInv, ZeroedInv
<1>e. /\ ref' = [ref EXCEPT ![h[t]] = ref[h[t]] - 1]
      /\ UNCHANGED <<use, disposing, h, nested, handles>>
      /\ \/ /\ ref[h[t]] = 1
            /\ pc' = [pc EXCEPT ![t] = "setDisposing"]
            /\ op' = op
         \/ /\ ref[h[t]] # 1
            /\ pc' = [pc EXCEPT ![t] = IF op[t] = "free" THEN "decUse" ELSE "idle"]
            /\ op' = [op EXCEPT ![t] = IF op[t] = "free" THEN "drop" ELSE "none"]
  BY <1>a, <1>c DEF DecRef, AfterDec, Finish
<1>1. ControlInv'
  BY <1>a, <1>c, <1>e DEF IInv, TypeOK, ControlInv
<1>2. EntryInv'
  BY <1>a, <1>e DEF IInv, TypeOK, ControlInv, EntryInv
<1>3. ReferencedInv'
  BY <1>a, <1>b, <1>c, <1>e DEF IInv, TypeOK, ControlInv, ReferencedInv
<1>4. ZeroedInv'
  <2>1. use[h[t]]
    BY <1>a, <1>b DEF IInv, ReferencedInv
  <2> QED
    BY <1>a, <1>c, <1>d, <1>e, <2>1 DEF IInv, TypeOK, ControlInv, ZeroedInv
<1>5. RefExact'
  <2> SUFFICES ASSUME NEW s \in Slots
               PROVE  ref'[s] = Cardinality(Holders(s)') + (IF Owned(s)' THEN 1 ELSE 0)
    BY DEF RefExact
  <2>1. \A u \in Threads \ {t} : /\ Holds(u, s)' <=> Holds(u, s)
                                 /\ OwnerStep(u, s)' <=> OwnerStep(u, s)
    BY <1>a, <1>e DEF IInv, TypeOK
  <2>2. CASE s # h[t]
    <3>1. ~Holds(t, s) /\ ~Holds(t, s)' /\ ~OwnerStep(t, s) /\ ~OwnerStep(t, s)'
      BY <2>2, <1>e DEF IInv, TypeOK
    <3>2. ref'[s] = ref[s] /\ handles' = handles
      BY <2>2, <1>e DEF IInv, TypeOK
    <3> HIDE DEF Holds, OwnerStep
    <3> QED
      BY <2>1, <3>1, <3>2, CountMoves DEF IInv
  <2>3. CASE s = h[t] /\ op[t] \in {"use", "free"}
    <3>1. Holds(t, s) /\ ~Holds(t, s)' /\ (OwnerStep(t, s)' <=> OwnerStep(t, s))
      BY <2>3, <1>a, <1>c, <1>e DEF IInv, TypeOK
    <3>2. ref'[s] = ref[s] - 1 /\ handles' = handles
      BY <2>3, <1>a, <1>e DEF IInv, TypeOK
    <3> HIDE DEF Holds, OwnerStep
    <3> QED
      BY <2>1, <3>1, <3>2, CountMoves DEF IInv
  <2>4. CASE s = h[t] /\ op[t] = "drop"
    <3>1. ~Holds(t, s) /\ ~Holds(t, s)' /\ ~OwnerStep(t, s)'
      BY <2>4, <1>a, <1>e DEF IInv, TypeOK
    <3>2. ref'[s] = ref[s] - 1 /\ handles' = handles
      BY <2>4, <1>a, <1>e DEF IInv, TypeOK
    <3>3. s \notin handles /\ \A u \in Threads \ {t} : ~OwnerStep(u, s)
      BY <2>4, <1>a, <1>b DEF IInv, ReferencedInv
    <3> HIDE DEF Holds, OwnerStep
    <3> QED
      BY <1>b, <2>1, <2>4, <3>1, <3>2, <3>3, CountMoves DEF IInv
  <2> QED BY <1>a, <2>2, <2>3, <2>4
<1> QED
  BY <1>1, <1>2, <1>3, <1>4, <1>5 DEF IInv

LEMMA SetDisposingStep ==
    ASSUME IInv, NEW t \in Threads, SetDisposing(t), TypeOK'
    PROVE  IInv'
<1> USE DEF Goto, Entering, Holds, Disposes, Zeroed, OwnerStep, Owned
<1>1. ControlInv'
  BY DEF IInv, TypeOK, ControlInv, SetDisposing, slotVars
<1>2. EntryInv'
  BY DEF IInv, TypeOK, ControlInv, EntryInv, SetDisposing, slotVars
<1>3. ReferencedInv'
  <2>1. Zeroed(t, h[t]) /\ h[t] \in Slots
    BY DEF IInv, TypeOK, SetDisposing
  <2>2. ~Owned(h[t]) /\ \A u \in Threads : ~Holds(u, h[t])
    BY <2>1, CountZero DEF IInv, ZeroedInv
  <2> QED
    BY <2>2 DEF IInv, TypeOK, ControlInv, ReferencedInv, SetDisposing
<1>4. ZeroedInv'
  BY DEF IInv, TypeOK, ControlInv, ZeroedInv, SetDisposing, slotVars
<1>5. RefExact'
  <2> SUFFICES ASSUME NEW s \in Slots
               PROVE  ref'[s] = Cardinality(Holders(s)') + (IF Owned(s)' THEN 1 ELSE 0)
    BY DEF RefExact
  <2>1. \A u \in Threads : Holds(u, s)' <=> Holds(u, s)
    BY DEF IInv, TypeOK, ControlInv, SetDisposing, slotVars
  <2>2. Owned(s)' <=> Owned(s)
    BY DEF IInv, TypeOK, ControlInv, SetDisposing, slotVars
  <2> QED
    BY <2>1, <2>2, CountMoves DEF IInv, SetDisposing, slotVars
<1> QED
  BY <1>1, <1>2, <1>3, <1>4, <1>5 DEF IInv

LEMMA CleanupStep ==
    ASSUME IInv, NEW t \in Threads, CallCleanup(t), TypeOK'
    PROVE  IInv'
<1> USE DEF Goto, Entering, Holds, Disposes, Zeroed, OwnerStep, Owned
<1>1. ControlInv'
  BY DEF IInv, TypeOK, ControlInv, CallCleanup, slotVars
<1>2. EntryInv'
  BY DEF IInv, TypeOK, ControlInv, EntryInv, CallCleanup, slotVars
<1>3. ReferencedInv'
  <2>1. /\ ReferencedInv /\ UNCHANGED <<use, disposing, handles>>
        /\ \A u \in Threads, s \in Slots :
               /\ Holds(u, s)' => Holds(u, s)
               /\ OwnerStep(u, s)' => OwnerStep(u, s)
               /\ (OwnerStep(u, s) /\ pc[u] # "acqDisposing")'
                      => OwnerStep(u, s) /\ pc[u] # "acqDisposing"
    BY DEF IInv, TypeOK, ControlInv, CallCleanup, slotVars
  <2> QED
    BY <2>1, ReferencedKept
<1>4. ZeroedInv'
  <2>1. /\ ZeroedInv /\ UNCHANGED <<use, ref, disposing>>
        /\ \A u \in Threads, s \in Slots :
               /\ Zeroed(u, s)' => Zeroed(u, s)
               /\ (Disposes(u, s) /\ pc[u] # "setDisposing")'
                      => Disposes(u, s) /\ pc[u] # "setDisposing"
    BY DEF IInv, TypeOK, ControlInv, CallCleanup, slotVars
  <2> QED
    BY <2>1, ZeroedKept
<1>5. RefExact'
  <2> SUFFICES ASSUME NEW s \in Slots
               PROVE  ref'[s] = Cardinality(Holders(s)') + (IF Owned(s)' THEN 1 ELSE 0)
    BY DEF RefExact
  <2>1. \A u \in Threads : Holds(u, s)' <=> Holds(u, s)
    BY DEF IInv, TypeOK, ControlInv, CallCleanup, slotVars
  <2>2. Owned(s)' <=> Owned(s)
    BY DEF IInv, TypeOK, ControlInv, CallCleanup, slotVars
  <2> QED
    BY <2>1, <2>2, CountMoves DEF IInv, CallCleanup, slotVars
<1> QED
  BY <1>1, <1>2, <1>3, <1>4, <1>5 DEF IInv

LEMMA ClearStep ==
    ASSUME IInv, NEW t \in Threads, ClearCleanup(t), TypeOK'
    PROVE  IInv'
<1> USE DEF Goto, Entering, Holds, Disposes, Zeroed, OwnerStep, Owned
<1>1. ControlInv'
  BY DEF IInv, TypeOK, ControlInv, ClearCleanup, slotVars
<1>2. EntryInv'
  BY DEF IInv, TypeOK, ControlInv, EntryInv, ClearCleanup, slotVars
<1>3. ReferencedInv'
  BY DEF IInv, TypeOK, ControlInv, ReferencedInv, ClearCleanup, slotVars
<1>4. ZeroedInv'
  BY DEF IInv, TypeOK, ControlInv, ZeroedInv, ClearCleanup, slotVars
<1>5. RefExact'
  <2> SUFFICES ASSUME NEW s \in Slots
               PROVE  ref'[s] = Cardinality(Holders(s)') + (IF Owned(s)' THEN 1 ELSE 0)
    BY DEF RefExact
  <2>1. \A u \in Threads : Holds(u, s)' <=> Holds(u, s)
    BY DEF IInv, TypeOK, ControlInv, ClearCleanup, slotVars
  <2>2. Owned(s)' <=> Owned(s)
    BY DEF IInv, TypeOK, ControlInv, ClearCleanup, slotVars
  <2> QED
    BY <2>1, <2>2, CountMoves DEF IInv, ClearCleanup, slotVars
<1> QED
  BY <1>1, <1>2, <1>3, <1>4, <1>5 DEF IInv

LEMMA ReleaseStep ==
    ASSUME IInv, NEW t \in Threads, Release(t), TypeOK'
    PROVE  IInv'
<1> USE DEF Goto, Entering, Holds, Disposes, Zeroed, OwnerStep, Owned
<1>1. ControlInv'
  BY DEF IInv, TypeOK, ControlInv, Release, AfterDec, Finish, slotVars
<1>2. EntryInv'
  BY DEF IInv, TypeOK, ControlInv, EntryInv, Release, AfterDec, Finish, slotVars
<1>3. ReferencedInv'
  <2>1. Zeroed(t, h[t]) /\ h[t] \in Slots
    BY DEF IInv, TypeOK, Release
  <2>2. ~Owned(h[t]) /\ \A u \in Threads : ~Holds(u, h[t])
    BY <2>1, CountZero DEF IInv, ZeroedInv
  <2> QED
    BY <2>2 DEF IInv, TypeOK, ControlInv, ReferencedInv, Release, AfterDec, Finish
<1>4. ZeroedInv'
  BY DEF IInv, TypeOK, ControlInv, ZeroedInv, Release, AfterDec, Finish, slotVars
<1>5. RefExact'
  <2> SUFFICES ASSUME NEW s \in Slots
               PROVE  ref'[s] = Cardinality(Holders(s)') + (IF Owned(s)' THEN 1 ELSE 0)
    BY DEF RefExact
  <2>1. \A u \in Threads : Holds(u, s)' <=> Holds(u, s)
    BY DEF IInv, TypeOK, ControlInv, Release, AfterDec, Finish, slotVars
  <2>2. Owned(s)' <=> Owned(s)
    BY DEF IInv, TypeOK, ControlInv, Release, AfterDec, Finish, slotVars
  <2> QED
    BY <2>1, <2>2, CountMoves DEF IInv, Release, AfterDec, Finish, slotVars
<1> QED
  BY <1>1, <1>2, <1>3, <1>4, <1>5 DEF IInv

LEMMA BeginAcquireStep ==
    ASSUME IInv, NEW t \in Threads, BeginAcquire(t), TypeOK'
    PROVE  IInv'
<1> USE DEF Goto, Entering, Holds, Disposes, Zeroed, OwnerStep, Owned
<1>1. ControlInv'
  BY DEF IInv, TypeOK, ControlInv, BeginAcquire, slotVars
<1>2. EntryInv'
  BY DEF IInv, TypeOK, ControlInv, EntryInv, BeginAcquire, slotVars
<1>3. ReferencedInv'
  BY DEF IInv, TypeOK, ControlInv, ReferencedInv, BeginAcquire, slotVars
<1>4. ZeroedInv'
  <2>1. /\ ZeroedInv /\ UNCHANGED <<use, ref, disposing>>
        /\ \A u \in Threads, s \in Slots :
               /\ Zeroed(u, s)' => Zeroed(u, s)
               /\ (Disposes(u, s) /\ pc[u] # "setDisposing")'
                      => Disposes(u, s) /\ pc[u] # "setDisposing"
    BY DEF IInv, TypeOK, ControlInv, BeginAcquire, slotVars
  <2> QED
    BY <2>1, ZeroedKept
<1>5. RefExact'
  <2> SUFFICES ASSUME NEW s \in Slots
               PROVE  ref'[s] = Cardinality(Holders(s)') + (IF Owned(s)' THEN 1 ELSE 0)
    BY DEF RefExact
  <2>1. \A u \in Threads : Holds(u, s)' <=> Holds(u, s)
    BY DEF IInv, TypeOK, ControlInv, BeginAcquire, slotVars
  <2>2. Owned(s)' <=> Owned(s)
    BY DEF IInv, TypeOK, ControlInv, BeginAcquire, slotVars
  <2> QED
    BY <2>1, <2>2, CountMoves DEF IInv, BeginAcquire, slotVars
<1> QED
  BY <1>1, <1>2, <1>3, <1>4, <1>5 DEF IInv

LEMMA BeginUseStep ==
    ASSUME IInv, ~LateCalls, NEW t \in Threads, NEW r \in Slots, BeginUse(t, r), TypeOK'
    PROVE  IInv'
<1> USE DEF Goto, Entering, Holds, Disposes, Zeroed, OwnerStep, Owned
<1>1. ControlInv'
  BY DEF IInv, TypeOK, ControlInv, BeginUse, slotVars
<1>2. EntryInv'
  BY DEF IInv, TypeOK, ControlInv, EntryInv, BeginUse, slotVars
<1>3. ReferencedInv'
  BY DEF IInv, TypeOK, ControlInv, ReferencedInv, BeginUse, slotVars
<1>4. ZeroedInv'
  <2>1. \A u \in Threads, s \in Slots : /\ Zeroed(u, s)' <=> Zeroed(u, s)
                                        /\ Disposes(u, s)' <=> Disposes(u, s)
    BY DEF IInv, TypeOK, ControlInv, BeginUse
  <2>2. /\ UNCHANGED <<use, ref, disposing>>
        /\ \A u \in Threads : u # t => pc'[u] = pc[u]
        /\ \A s \in Slots : ~Disposes(t, s)
    BY DEF IInv, TypeOK, ControlInv, BeginUse, slotVars
  <2> HIDE DEF Zeroed, Disposes
  <2> QED
    BY <2>1, <2>2 DEF IInv, ZeroedInv
<1>5. RefExact'
  <2> SUFFICES ASSUME NEW s \in Slots
               PROVE  ref'[s] = Cardinality(Holders(s)') + (IF Owned(s)' THEN 1 ELSE 0)
    BY DEF RefExact
  <2>1. \A u \in Threads : Holds(u, s)' <=> Holds(u, s)
    BY DEF IInv, TypeOK, ControlInv, BeginUse, slotVars
  <2>2. Owned(s)' <=> Owned(s)
    BY DEF IInv, TypeOK, ControlInv, BeginUse, slotVars
  <2> QED
    BY <2>1, <2>2, CountMoves DEF IInv, BeginUse, slotVars
<1> QED
  BY <1>1, <1>2, <1>3, <1>4, <1>5 DEF IInv

LEMMA BeginFreeStep ==
    ASSUME IInv, ~LateCalls, NEW t \in Threads, NEW r \in Slots, BeginFree(t, r), TypeOK'
    PROVE  IInv'
<1> USE DEF Goto, Entering, Holds, Disposes, Zeroed, OwnerStep, Owned
<1>1. ControlInv'
  BY DEF IInv, TypeOK, ControlInv, BeginFree, MayFree, slotVars
<1>2. EntryInv'
  BY DEF IInv, TypeOK, ControlInv, EntryInv, BeginFree, MayFree, slotVars
<1>3. ReferencedInv'
  BY DEF IInv, TypeOK, ControlInv, ReferencedInv, BeginFree, MayFree, slotVars
<1>4. ZeroedInv'
  <2>1. /\ ZeroedInv /\ UNCHANGED <<use, ref, disposing>>
        /\ \A u \in Threads, s \in Slots :
               /\ Zeroed(u, s)' => Zeroed(u, s)
               /\ (Disposes(u, s) /\ pc[u] # "setDisposing")'
                      => Disposes(u, s) /\ pc[u] # "setDisposing"
    BY DEF IInv, TypeOK, ControlInv, BeginFree, MayFree, slotVars
  <2> QED
    BY <2>1, ZeroedKept
<1>5. RefExact'
  <2> SUFFICES ASSUME NEW s \in Slots
               PROVE  ref'[s] = Cardinality(Holders(s)') + (IF Owned(s)' THEN 1 ELSE 0)
    BY DEF RefExact
  <2>1. \A u \in Threads : Holds(u, s)' <=> Holds(u, s)
    BY DEF IInv, TypeOK, ControlInv, BeginFree, MayFree, slotVars
  <2>2. Owned(s)' <=> Owned(s)
    BY DEF IInv, TypeOK, ControlInv, BeginFree, MayFree, slotVars
  <2> QED
    BY <2>1, <2>2, CountMoves DEF IInv, BeginFree, MayFree, slotVars
<1> QED
  BY <1>1, <1>2, <1>3, <1>4, <1>5 DEF IInv

LEMMA BeginDropStep ==
    ASSUME IInv, ~LateCalls, NEW t \in Threads, NEW r \in Slots, BeginDrop(t, r), TypeOK'
    PROVE  IInv'
<1> USE DEF Goto, Entering, Holds, Disposes, Zeroed, OwnerStep, Owned
<1>1. ControlInv'
  BY DEF IInv, TypeOK, ControlInv, BeginDrop, MayFree, slotVars
<1>2. EntryInv'
  BY DEF IInv, TypeOK, ControlInv, EntryInv, BeginDrop, MayFree, slotVars
<1>3. ReferencedInv'
  BY DEF IInv, TypeOK, ControlInv, ReferencedInv, BeginDrop, MayFree, slotVars
<1>4. ZeroedInv'
  <2>1. /\ ZeroedInv /\ UNCHANGED <<use, ref, disposing>>
        /\ \A u \in Threads, s \in Slots :
               /\ Zeroed(u, s)' => Zeroed(u, s)
               /\ (Disposes(u, s) /\ pc[u] # "setDisposing")'
                      => Disposes(u, s) /\ pc[u] # "setDisposing"
    BY DEF IInv, TypeOK, ControlInv, BeginDrop, MayFree, slotVars
  <2> QED
    BY <2>1, ZeroedKept
<1>5. RefExact'
  <2> SUFFICES ASSUME NEW s \in Slots
               PROVE  ref'[s] = Cardinality(Holders(s)') + (IF Owned(s)' THEN 1 ELSE 0)
    BY DEF RefExact
  <2>1. \A u \in Threads : Holds(u, s)' <=> Holds(u, s)
    BY DEF IInv, TypeOK, ControlInv, BeginDrop, MayFree, slotVars
  <2>2. Owned(s)' <=> Owned(s)
    BY DEF IInv, TypeOK, ControlInv, BeginDrop, MayFree, slotVars
  <2> QED
    BY <2>1, <2>2, CountMoves DEF IInv, BeginDrop, MayFree, slotVars
<1> QED
  BY <1>1, <1>2, <1>3, <1>4, <1>5 DEF IInv

-----------------------------------------------------------------------------
(***************************************************************************)
(* The theorems                                                            *)
(***************************************************************************)
LEMMA InvInit == Init => IInv
<1> SUFFICES ASSUME Init PROVE IInv
  OBVIOUS
<1>1. TypeOK
  BY TypeInit
<1>2. ControlInv /\ EntryInv /\ ReferencedInv /\ ZeroedInv
  BY DEF Init, ControlInv, EntryInv, ReferencedInv, ZeroedInv, Entering, Holds,
         OwnerStep, Zeroed, Disposes
<1>3. RefExact
  <2> SUFFICES ASSUME NEW s \in Slots
               PROVE  ref[s] = Cardinality(Holders(s)) + (IF Owned(s) THEN 1 ELSE 0)
    BY DEF RefExact
  <2>1. Holders(s) = {} /\ ~Owned(s) /\ ref[s] = 0
    BY DEF Init, Holders, Holds, Owned, OwnerStep
  <2> QED BY <2>1, FS_EmptySet
<1> QED
  BY <1>1, <1>2, <1>3 DEF IInv

LEMMA InvStep ==
    ASSUME ~LateCalls
    PROVE  IInv /\ [Next]_vars => IInv'
<1> SUFFICES ASSUME IInv, [Next]_vars PROVE IInv'
  OBVIOUS
<1>0. TypeOK'
  BY TypeStep DEF IInv
<1>1. ASSUME NEW t \in Threads, Step(t) PROVE IInv'
  BY <1>0, <1>1, TryStep, SetRefStep, SetAcquiredStep, ReturnStep, FailStep,
     IncUseStep, IncDisposingStep, IncRefStep, IncUndoStep, BodyStep, DecUseStep,
     DecDisposingStep, DecRefStep, SetDisposingStep, CleanupStep, ClearStep,
     ReleaseStep DEF Step
<1>2. ASSUME NEW t \in Threads, BeginAcquire(t) PROVE IInv'
  BY <1>0, <1>2, BeginAcquireStep
<1>3. ASSUME NEW t \in Threads, NEW s \in Slots,
             BeginUse(t, s) \/ BeginFree(t, s) \/ BeginDrop(t, s)
      PROVE  IInv'
  BY <1>0, <1>3, BeginUseStep, BeginFreeStep, BeginDropStep
<1>4. CASE UNCHANGED vars
  BY <1>4 DEF vars, IInv, TypeOK, ControlInv, EntryInv, ReferencedInv, ZeroedInv,
       RefExact, Entering, Holds, Holders, Owned, OwnerStep, Zeroed, Disposes
<1> QED
  BY <1>1, <1>2, <1>3, <1>4 DEF Next

\* The count of every slot is the number of calls inside it plus its owner's
\* reference, however many threads interleave in PoolHandle_Acquire, Inc and
\* Dec, as long as no call is still entering a handle that is being freed.
THEOREM CountIsExact ==
    ASSUME ~LateCalls
    PROVE  Spec => []RefExact
<1>1. IInv => RefExact
  BY DEF IInv
<1> QED
  BY <1>1, InvInit, InvStep, PTL DEF Spec

-----------------------------------------------------------------------------
LEMMA FreshInit == Init => FreshInv
BY DEF Init, FreshInv

LEMMA FreshStep == IInv /\ FreshInv /\ [Next]_vars => FreshInv'
<1> SUFFICES ASSUME IInv, FreshInv, [Next]_vars,
                    NEW u \in Threads, pc'[u] \in {"acqDisposing", "acqCleanup"}
             PROVE  ref'[h'[u]] = 1
  BY DEF FreshInv
<1> USE DEF Goto, slotVars
<1>1. ASSUME NEW t \in Threads, Step(t) PROVE ref'[h'[u]] = 1
  <2>1. CASE AcquireTry(t)
    BY <2>1 DEF AcquireTry, AcquireNext, IInv, TypeOK, FreshInv
  <2>2. CASE AcquireSetRef(t)
    <3>1. Zeroed(t, h[t]) /\ h[t] \in Slots
      BY <2>2 DEF AcquireSetRef, Zeroed, IInv, TypeOK
    <3>2. ref[h[t]] = 0
      BY <3>1 DEF IInv, ZeroedInv
    <3> QED
      BY <2>2, <3>2 DEF AcquireSetRef, IInv, TypeOK, FreshInv
  <2>3. CASE AcquireSetDisposing(t)
    BY <2>3 DEF AcquireSetDisposing, IInv, TypeOK, FreshInv
  <2>4. CASE AcquireReturn(t) \/ AcquireFail(t) \/ IncCheckUse(t) \/ EndBody(t) \/ DecCheckUse(t)
    BY <2>4 DEF AcquireReturn, AcquireFail, IncCheckUse, EndBody, DecCheckUse, Finish,
                AfterDec, IInv, TypeOK, FreshInv
  <2>5. CASE IncCheckDisposing(t) \/ DecCheckDisposing(t)
    BY <2>5 DEF IncCheckDisposing, DecCheckDisposing, Finish, AfterDec, AfterInc,
                IInv, TypeOK, FreshInv
  <2>6. CASE SetDisposing(t) \/ CallCleanup(t) \/ ClearCleanup(t) \/ Release(t)
    BY <2>6 DEF SetDisposing, CallCleanup, ClearCleanup, Release, AfterDec, Finish,
                IInv, TypeOK, FreshInv
  <2>7. CASE IncUndo(t)
    BY <2>7, IncUndoStep
  <2>8. CASE IncRef(t) \/ DecRef(t)
    <3>1. pc[u] \in {"acqDisposing", "acqCleanup"} /\ h'[u] = h[u] /\ u # t
      BY <2>8 DEF IncRef, DecRef, AfterInc, AfterDec, Finish, IInv, TypeOK
    <3>2. OwnerStep(u, h[u]) /\ h[u] \in Slots /\ ref[h[u]] = 1
      BY <3>1 DEF OwnerStep, IInv, TypeOK, ControlInv, FreshInv
    <3>3. \A v \in Threads : /\ ~Holds(v, h[u])
                             /\ OwnerStep(v, h[u]) => v = u
      <4>1. Owned(h[u])
        BY <3>2 DEF Owned
      <4> QED BY <3>2, <4>1, OwnerCounts DEF IInv, ReferencedInv
    <3>4. h[u] \notin handles
      BY <3>2 DEF IInv, ReferencedInv
    <3>5. h[t] # h[u]
      <4>1. CASE IncRef(t)
        BY <3>1, <3>2, <3>3, <3>4, <4>1 DEF IncRef, Entering, OwnerStep, IInv, TypeOK, ControlInv, EntryInv
      <4>2. CASE DecRef(t)
        BY <3>1, <3>3, <4>2 DEF DecRef, Holds, OwnerStep, IInv, TypeOK, ControlInv
      <4> QED BY <2>8, <4>1, <4>2
    <3> QED
      BY <2>8, <3>1, <3>2, <3>5 DEF IncRef, DecRef, IInv, TypeOK
  <2> QED BY <1>1, <2>1, <2>2, <2>3, <2>4, <2>5, <2>6, <2>7, <2>8 DEF Step
<1>2. ASSUME NEW t \in Threads, BeginAcquire(t) PROVE ref'[h'[u]] = 1
  BY <1>2 DEF BeginAcquire, IInv, TypeOK, FreshInv
<1>3. ASSUME NEW t \in Threads, NEW s \in Slots,
             BeginUse(t, s) \/ BeginFree(t, s) \/ BeginDrop(t, s)
      PROVE  ref'[h'[u]] = 1
  BY <1>3 DEF BeginUse, BeginFree, BeginDrop, MayFree, IInv, TypeOK, FreshInv
<1>4. CASE UNCHANGED vars
  BY <1>4 DEF vars, FreshInv
<1> QED
  BY <1>1, <1>2, <1>3, <1>4 DEF Next

LEMMA ReferencedSafe == IInv /\ FreshInv => NoCleanupWhileReferenced
<1> SUFFICES ASSUME IInv, FreshInv, NEW s \in Slots, NEW t \in Threads,
                    NEW u \in Threads, Holds(t, s)
             PROVE  /\ use[s]
                    /\ ~Disposes(u, s)
                    /\ ~(h[u] = s /\ pc[u] \in {"acqRef", "acqDisposing", "acqCleanup"})
  BY DEF NoCleanupWhileReferenced
<1>1. use[s]
  BY DEF IInv, ReferencedInv
<1>2. ref[s] # 0
  BY HolderCounts DEF IInv, TypeOK
<1>3. ~Zeroed(u, s)
  BY <1>2 DEF IInv, ZeroedInv
<1>4. ~(h[u] = s /\ pc[u] \in {"acqDisposing", "acqCleanup"})
  <2> SUFFICES ASSUME h[u] = s, pc[u] \in {"acqDisposing", "acqCleanup"} PROVE FALSE
    OBVIOUS
  <2>1. ref[s] = 1
    BY DEF FreshInv
  <2>2. OwnerStep(u, s)
    BY DEF OwnerStep, IInv, TypeOK, ControlInv
  <2>3. Owned(s)
    BY <2>2 DEF Owned
  <2> QED BY <2>1, <2>3, OwnerCounts DEF IInv
<1> QED
  BY <1>1, <1>3, <1>4 DEF Zeroed, Disposes

\* No cleanup callback runs, and no slot is set up for a new handle, while an
\* API call is inside the handle.
THEOREM CleanupIsSafe ==
    ASSUME ~LateCalls
    PROVE  Spec => []NoCleanupWhileReferenced
BY InvInit, InvStep, FreshInit, FreshStep, ReferencedSafe, PTL DEF Spec

LEMMA SingleDisposer == IInv => OneDisposer
<1> SUFFICES ASSUME IInv, NEW s \in Slots, NEW t \in Threads, NEW u \in Threads,
                    Disposes(t, s)
             PROVE  /\ Disposes(u, s) => t = u
                    /\ s \notin handles
                    /\ pc[t] # "setDisposing" => disposing[s] = t
  BY DEF OneDisposer
<1>1. Zeroed(t, s) /\ (Disposes(u, s) => Zeroed(u, s))
  BY DEF Zeroed, Disposes
<1>2. ~Owned(s)
  BY <1>1, CountZero DEF IInv, ZeroedInv
<1> QED
  BY <1>1, <1>2 DEF IInv, ZeroedInv, Owned

\* A handle is disposed of by one thread at a time, never while the
\* application still owns it.
THEOREM DisposedOnce ==
    ASSUME ~LateCalls
    PROVE  Spec => []OneDisposer
BY InvInit, InvStep, SingleDisposer, PTL DEF Spec

-----------------------------------------------------------------------------
(***************************************************************************)
(* The scan of POOLHANDLE_ACQUIRE.  A slot that was free all the time is   *)
(* free now, and a scan that draws alone from Index has it still ahead:    *)
(* between its position and startPos, around the pool.                     *)
(***************************************************************************)
Ahead(t, s) ==
    IF start[t] <= h[t] THEN s >= h[t] \/ s < start[t] ELSE h[t] <= s /\ s < start[t]

ScanInv ==
    \A t \in Threads :
        /\ \A s \in unseen[t] : ~use[s]
        /\ pc[t] = "acqTry" /\ alone[t] => index = h[t] /\ \A s \in unseen[t] : Ahead(t, s)
        /\ pc[t] = "acqFull" /\ alone[t] => unseen[t] = {}

\* Index goes round the pool.
LEMMA NextPosIs ==
    ASSUME index \in Slots
    PROVE  NextPos = IF index = HandleCount - 1 THEN 0 ELSE index + 1
BY CountAssumption DEF NextPos, Slots

\* A step that leaves the scans alone, or ends or begins none.
LEMMA ScanKept ==
    ASSUME TypeOK, ScanInv, NEW t \in Threads,
           \A s \in Slots : use'[s] => use[s],
           UNCHANGED <<index, start, unseen, alone>>,
           \A u \in Threads \ {t} : pc'[u] = pc[u] /\ h'[u] = h[u],
           pc'[t] \notin {"acqTry", "acqFull"}
    PROVE  ScanInv'
<1> SUFFICES ASSUME NEW u \in Threads
             PROVE  (/\ \A s \in unseen[u] : ~use[s]
                     /\ pc[u] = "acqTry" /\ alone[u] => index = h[u] /\ \A s \in unseen[u] : Ahead(u, s)
                     /\ pc[u] = "acqFull" /\ alone[u] => unseen[u] = {})'
  BY DEF ScanInv
<1>1. unseen[u] \subseteq Slots
  BY DEF TypeOK
<1>2. CASE u = t
  BY <1>1, <1>2 DEF ScanInv
<1>3. CASE u # t
  BY <1>1, <1>3 DEF ScanInv, Ahead
<1> QED
  BY <1>2, <1>3

\* The next position of a scan that goes on, and the end of one that has come
\* round.
LEMMA NextAhead ==
    ASSUME TypeOK, NEW t \in Threads, index = h[t], NEW s \in Slots, Ahead(t, s), s # h[t]
    PROVE  IF start[t] <= NextPos THEN s >= NextPos \/ s < start[t] ELSE NextPos <= s /\ s < start[t]
<1>1. index \in Slots /\ h[t] \in Slots /\ start[t] \in Slots
  BY DEF TypeOK
<1> QED
  BY <1>1, NextPosIs, CountAssumption DEF Ahead, Slots

LEMMA NextRound ==
    ASSUME TypeOK, NEW t \in Threads, index = h[t], NEW s \in Slots, Ahead(t, s), NextPos = start[t]
    PROVE  s = h[t]
<1>1. index \in Slots /\ h[t] \in Slots /\ start[t] \in Slots
  BY DEF TypeOK
<1> QED
  BY <1>1, NextPosIs, CountAssumption DEF Ahead, Slots

LEMMA ScanTryStep ==
    ASSUME TypeOK, ScanInv, NEW t \in Threads, AcquireTry(t)
    PROVE  ScanInv'
<1> SUFFICES ASSUME NEW u \in Threads
             PROVE  (/\ \A s \in unseen[u] : ~use[s]
                     /\ pc[u] = "acqTry" /\ alone[u] => index = h[u] /\ \A s \in unseen[u] : Ahead(u, s)
                     /\ pc[u] = "acqFull" /\ alone[u] => unseen[u] = {})'
  BY DEF ScanInv
<1>1. /\ h[t] \in Slots /\ unseen[u] \in SUBSET Slots /\ unseen \in [Threads -> SUBSET Slots]
      /\ pc \in [Threads -> PCs] /\ h \in [Threads -> Slots] /\ use \in [Slots -> BOOLEAN]
      /\ alone \in [Threads -> BOOLEAN]
  BY DEF TypeOK
<1>2. CASE ~use[h[t]]
  <2>1. /\ use' = [use EXCEPT ![h[t]] = TRUE] /\ unseen'[u] = unseen[u] \ {h[t]}
        /\ pc' = [pc EXCEPT ![t] = "acqRef"] /\ UNCHANGED <<index, h, alone, start>>
    BY <1>2 DEF AcquireTry, Goto
  <2>2. \A s \in unseen'[u] : ~use'[s]
    BY <1>1, <2>1 DEF ScanInv
  <2>3. pc'[u] \in {"acqTry", "acqFull"} => pc'[u] = pc[u]
    BY <1>1, <2>1
  <2> QED
    BY <1>1, <2>1, <2>2, <2>3 DEF ScanInv, Ahead
<1>3. CASE use[h[t]]
  <2>1. /\ index' = NextPos /\ h' = [h EXCEPT ![t] = NextPos]
        /\ pc' = [pc EXCEPT ![t] = IF NextPos = start[t] THEN "acqFull" ELSE "acqTry"]
        /\ alone'[u] <=> (u = t /\ alone[t])
        /\ UNCHANGED <<use, unseen, start>> /\ pc[t] = "acqTry"
    BY <1>3 DEF AcquireTry, AcquireNext, Goto
  <2>2. \A s \in unseen'[u] : ~use'[s]
    BY <2>1 DEF ScanInv
  <2>3. CASE u = t /\ alone[t]
    <3>1. index = h[t] /\ h[t] \notin unseen[t] /\ \A s \in unseen[t] : Ahead(t, s)
      BY <1>3, <2>1, <2>3 DEF ScanInv
    <3>2. CASE NextPos = start[t]
      <4>1. unseen[t] = {}
        BY <1>1, <2>3, <3>1, <3>2, NextRound
      <4>2. pc'[u] = "acqFull"
        BY <1>1, <2>1, <2>3, <3>2
      <4> QED
        BY <2>1, <2>2, <2>3, <4>1, <4>2
    <3>3. CASE NextPos # start[t]
      <4>1. pc'[u] = "acqTry" /\ h'[u] = NextPos /\ start'[u] = start[u]
        BY <1>1, <2>1, <2>3, <3>3
      <4>2. \A s \in unseen[t] : s \in Slots /\ s # h[t]
        BY <1>1, <2>3, <3>1
      <4>3. \A s \in unseen[t] :
                IF start[t] <= NextPos THEN s >= NextPos \/ s < start[t]
                                       ELSE NextPos <= s /\ s < start[t]
        BY <3>1, <4>2, NextAhead
      <4> QED
        BY <2>1, <2>2, <2>3, <4>1, <4>3 DEF Ahead
    <3> QED
      BY <3>2, <3>3
  <2>4. CASE ~(u = t /\ alone[t])
    BY <2>1, <2>2, <2>4
  <2> QED
    BY <2>3, <2>4
<1> QED
  BY <1>2, <1>3

LEMMA ScanBeginStep ==
    ASSUME TypeOK, ScanInv, NEW t \in Threads, BeginAcquire(t)
    PROVE  ScanInv'
<1> SUFFICES ASSUME NEW u \in Threads
             PROVE  (/\ \A s \in unseen[u] : ~use[s]
                     /\ pc[u] = "acqTry" /\ alone[u] => index = h[u] /\ \A s \in unseen[u] : Ahead(u, s)
                     /\ pc[u] = "acqFull" /\ alone[u] => unseen[u] = {})'
  BY DEF ScanInv
<1>1. /\ unseen \in [Threads -> SUBSET Slots] /\ pc \in [Threads -> PCs] /\ h \in [Threads -> Slots]
      /\ start \in [Threads -> Slots] /\ NextPos \in Slots
  BY NextPosInSlots DEF TypeOK
<1>2. CASE u = t
  <2>1. /\ index' = NextPos /\ h'[u] = NextPos /\ start'[u] = NextPos /\ pc'[u] = "acqTry"
        /\ unseen'[u] = {s \in Slots : ~use[s]} /\ use' = use
    BY <1>1, <1>2 DEF BeginAcquire, Goto
  <2>2. \A s \in unseen'[u] : ~use'[s] /\ s \in Nat /\ NextPos \in Nat
    BY <1>1, <2>1 DEF Slots
  <2> QED
    BY <2>1, <2>2 DEF Ahead
<1>3. CASE u # t
  <2>1. unseen'[u] = unseen[u] /\ ~alone'[u] /\ use' = use
    BY <1>1, <1>3 DEF BeginAcquire
  <2> QED
    BY <2>1 DEF ScanInv
<1> QED
  BY <1>2, <1>3

\* The end of a call of PoolHandle_Acquire, which forgets its scan.
LEMMA ScanEndStep ==
    ASSUME TypeOK, ScanInv, NEW t \in Threads, AcquireReturn(t) \/ AcquireFail(t)
    PROVE  ScanInv'
<1>1. /\ pc \in [Threads -> PCs] /\ start \in [Threads -> Slots] /\ unseen \in [Threads -> SUBSET Slots]
      /\ alone \in [Threads -> BOOLEAN]
  BY DEF TypeOK
<1>2. UNCHANGED <<use, index, h>> /\ Finish(t) /\ EndScan(t)
  BY DEF AcquireReturn, AcquireFail, slotVars
<1>3. unseen'[t] = {} /\ ~alone'[t]
  BY <1>1, <1>2 DEF EndScan
<1>4. \A u \in Threads \ {t} : pc'[u] = pc[u] /\ start'[u] = start[u] /\ unseen'[u] = unseen[u]
                              /\ (alone'[u] <=> alone[u])
  BY <1>1, <1>2 DEF EndScan, Finish, Goto
<1> QED
  BY <1>2, <1>3, <1>4 DEF ScanInv, Ahead

\* Every other step.
LEMMA ScanOtherStep ==
    ASSUME TypeOK, ScanInv, NEW t \in Threads,
           \/ AcquireSetRef(t) \/ AcquireSetDisposing(t)
           \/ IncCheckUse(t) \/ IncCheckDisposing(t) \/ IncRef(t) \/ IncUndo(t)
           \/ EndBody(t) \/ DecCheckUse(t) \/ DecCheckDisposing(t) \/ DecRef(t)
           \/ SetDisposing(t) \/ CallCleanup(t) \/ ClearCleanup(t) \/ Release(t)
           \/ \E s \in Slots : BeginUse(t, s) \/ BeginFree(t, s) \/ BeginDrop(t, s)
    PROVE  ScanInv'
<1>1. /\ pc \in [Threads -> PCs] /\ h \in [Threads -> Slots] /\ use \in [Slots -> BOOLEAN]
      /\ h[t] \in Slots
  BY DEF TypeOK
<1>2. \A s \in Slots : use'[s] => use[s]
  BY <1>1 DEF AcquireSetRef, AcquireSetDisposing, IncCheckUse, IncCheckDisposing, IncRef, IncUndo,
              EndBody, DecCheckUse, DecCheckDisposing, DecRef, SetDisposing, CallCleanup,
              ClearCleanup, Release, BeginUse, BeginFree, BeginDrop, slotVars
<1>3. UNCHANGED <<index, start, unseen, alone>>
  BY DEF AcquireSetRef, AcquireSetDisposing, IncCheckUse, IncCheckDisposing, IncRef, IncUndo,
         EndBody, DecCheckUse, DecCheckDisposing, DecRef, SetDisposing, CallCleanup,
         ClearCleanup, Release, BeginUse, BeginFree, BeginDrop, slotVars
<1>4. \A u \in Threads \ {t} : h'[u] = h[u]
  BY <1>1 DEF AcquireSetRef, AcquireSetDisposing, IncCheckUse, IncCheckDisposing, IncRef, IncUndo,
         EndBody, DecCheckUse, DecCheckDisposing, DecRef, SetDisposing, CallCleanup,
         ClearCleanup, Release, BeginUse, BeginFree, BeginDrop, slotVars
<1>5. \E label \in PCs \ {"acqTry", "acqFull"} : pc' = [pc EXCEPT ![t] = label]
  BY DEF AcquireSetRef, AcquireSetDisposing, IncCheckUse, IncCheckDisposing, IncRef, IncUndo,
         EndBody, DecCheckUse, DecCheckDisposing, DecRef, SetDisposing, CallCleanup,
         ClearCleanup, Release, BeginUse, BeginFree, BeginDrop, Goto, Finish, AfterInc, AfterDec
<1>6. pc'[t] \notin {"acqTry", "acqFull"} /\ \A u \in Threads \ {t} : pc'[u] = pc[u]
  BY <1>1, <1>5
<1> QED
  BY <1>2, <1>3, <1>4, <1>6, ScanKept

LEMMA ScanStep == TypeOK /\ ScanInv /\ [Next]_vars => ScanInv'
<1> SUFFICES ASSUME TypeOK, ScanInv, [Next]_vars PROVE ScanInv'
  OBVIOUS
<1>1. ASSUME NEW t \in Threads, Step(t) \/ BeginAcquire(t)
                 \/ \E s \in Slots : BeginUse(t, s) \/ BeginFree(t, s) \/ BeginDrop(t, s)
      PROVE  ScanInv'
  BY <1>1, ScanTryStep, ScanBeginStep, ScanEndStep, ScanOtherStep DEF Step
<1>2. CASE UNCHANGED vars
  BY <1>2 DEF vars, ScanInv, Ahead
<1> QED
  BY <1>1, <1>2 DEF Next

\* A thread that scans the pool alone reports ERROR_OUT_OF_STRUCTURES only if
\* every slot was in use at some time during its scan: the positions it draws
\* from Index (POOLHANDLE_ACQUIRE) go once round a pool of any size, wherever it
\* starts, and whatever handles are freed and late calls come meanwhile.
THEOREM SoloScanIsComplete == Spec => []SoloScanComplete
<1>1. Init => ScanInv
  BY DEF Init, ScanInv
<1>2. ScanInv => SoloScanComplete
  BY DEF ScanInv, SoloScanComplete
<1> QED
  BY <1>1, <1>2, TypeInit, TypeStep, ScanStep, PTL DEF Spec

-----------------------------------------------------------------------------
(***************************************************************************)
(* The pool implements HandleLifetime when no call arrives late.  Most     *)
(* steps of the pool change nothing HandleLifetime can see; the others are *)
(* one of its steps.                                                       *)
(***************************************************************************)
\* What HandleLifetime sees of slot s is the same after the step.
SameSlot(s) ==
    /\ use'[s] = use[s]
    /\ Owned(s)' <=> Owned(s)
    /\ \A u \in Threads : /\ SetsUp(u, s)' <=> SetsUp(u, s)
                          /\ Disposes(u, s)' <=> Disposes(u, s)
                          /\ Holds(u, s)' <=> Holds(u, s)

LEMMA SameSlotSame ==
    ASSUME NEW s \in Slots, SameSlot(s)
    PROVE  /\ SlotPhase(s)' = SlotPhase(s)
           /\ Holders(s)' = Holders(s)
           /\ Owned(s)' <=> Owned(s)
<1>1. (\E u \in Threads : SetsUp(u, s)') <=> (\E u \in Threads : SetsUp(u, s))
  BY DEF SameSlot
<1>2. (\E u \in Threads : Disposes(u, s)') <=> (\E u \in Threads : Disposes(u, s))
  BY DEF SameSlot
<1>3. SlotPhase(s)' = SlotPhase(s)
  BY <1>1, <1>2 DEF SlotPhase, SameSlot
<1>4. Holders(s)' = Holders(s)
  BY DEF Holders, SameSlot
<1> QED
  BY <1>3, <1>4 DEF SameSlot

LEMMA AllSameStutters ==
    ASSUME \A s \in Slots : SameSlot(s)
    PROVE  UNCHANGED Lifetime!lifeVars
<1>1. [s \in Slots |-> SlotPhase(s)]' = [s \in Slots |-> SlotPhase(s)]
  BY SameSlotSame
<1>2. {s \in Slots : Owned(s)}' = {s \in Slots : Owned(s)}
  BY SameSlotSame
<1>3. [s \in Slots |-> Holders(s)]' = [s \in Slots |-> Holders(s)]
  BY SameSlotSame
<1> QED
  BY <1>1, <1>2, <1>3 DEF Lifetime!lifeVars

-----------------------------------------------------------------------------
(***************************************************************************)
(* The steps that HandleLifetime does not see                              *)
(***************************************************************************)
\* The steps of the acquiring thread that neither take a slot nor open it.
LEMMA AcquireStutters ==
    ASSUME IInv, NEW t \in Threads,
           \/ AcquireTry(t) /\ use[h[t]]
           \/ AcquireSetDisposing(t) \/ AcquireReturn(t) \/ AcquireFail(t)
           \/ BeginAcquire(t)
    PROVE  \A s \in Slots : SameSlot(s)
<1> USE DEF SameSlot, SetsUp, Disposes, Holds, Owned, OwnerStep, Goto, slotVars
<1>1. CASE AcquireTry(t) /\ use[h[t]]
  BY <1>1 DEF AcquireTry, AcquireNext, IInv, TypeOK, ControlInv
<1>2. CASE AcquireSetDisposing(t)
  BY <1>2 DEF AcquireSetDisposing, IInv, TypeOK, ControlInv
<1>3. CASE AcquireReturn(t)
  BY <1>3 DEF AcquireReturn, Finish, IInv, TypeOK, ControlInv
<1>4. CASE AcquireFail(t)
  BY <1>4 DEF AcquireFail, Finish, IInv, TypeOK, ControlInv
<1>5. CASE BeginAcquire(t)
  BY <1>5 DEF BeginAcquire, IInv, TypeOK, ControlInv
<1> QED
  BY <1>1, <1>2, <1>3, <1>4, <1>5

\* The looks at Use and Disposing find what a reference, or the callback's
\* thread, guarantees; they and the call's own work change nothing visible.
LEMMA CallStutters ==
    ASSUME IInv, NEW t \in Threads,
           \/ IncCheckUse(t) \/ IncCheckDisposing(t) \/ EndBody(t)
           \/ DecCheckUse(t) \/ DecCheckDisposing(t)
    PROVE  \A s \in Slots : SameSlot(s)
<1>a. h[t] \in Slots
  BY DEF IInv, TypeOK
<1>b. ASSUME pc[t] \in {"incUse", "incDisposing", "decUse", "decDisposing"}
      PROVE  /\ use[h[t]]
             /\ ~nested[t] => disposing[h[t]] = NoThread
             /\ nested[t] => disposing[h[t]] = t
  <2>1. CASE nested[t]
    <3>1. Zeroed(t, h[t]) /\ Disposes(t, h[t]) /\ pc[t] # "setDisposing"
      BY <1>b, <2>1 DEF Zeroed, Disposes
    <3> QED BY <1>a, <2>1, <3>1 DEF IInv, ZeroedInv
  <2>2. CASE ~nested[t]
    <3>1. CASE pc[t] \in {"incUse", "incDisposing"}
      <4>1. Entering(t, h[t])
        BY <2>2, <3>1 DEF Entering
      <4>2. CASE h[t] \in handles
        BY <1>a, <2>2, <4>2 DEF IInv, ReferencedInv
      <4>3. CASE op[t] = "free"
        <5>1. OwnerStep(t, h[t]) /\ pc[t] # "acqDisposing"
          BY <2>2, <3>1, <4>3 DEF OwnerStep
        <5> QED BY <1>a, <2>2, <5>1 DEF IInv, ReferencedInv
      <4> QED BY <1>a, <4>1, <4>2, <4>3 DEF IInv, EntryInv
    <3>2. CASE pc[t] \in {"decUse", "decDisposing"}
      <4>1. Holds(t, h[t]) \/ OwnerStep(t, h[t])
        BY <2>2, <3>2 DEF Holds, OwnerStep, IInv, TypeOK, ControlInv
      <4> QED BY <1>a, <2>2, <3>2, <4>1 DEF IInv, ReferencedInv
    <3> QED BY <1>b, <3>1, <3>2
  <2> QED BY <2>1, <2>2 DEF IInv, TypeOK
<1>c. t # NoThread
  BY ThreadsAssumption
<1> USE DEF SameSlot, SetsUp, Disposes, Holds, Owned, OwnerStep, Goto, slotVars
<1>1. CASE IncCheckUse(t)
  BY <1>1, <1>b DEF IncCheckUse, IInv, TypeOK, ControlInv
<1>2. CASE IncCheckDisposing(t)
  BY <1>2, <1>b, <1>c DEF IncCheckDisposing, AfterInc, IInv, TypeOK, ControlInv
<1>3. CASE EndBody(t)
  BY <1>3 DEF EndBody, IInv, TypeOK, ControlInv
<1>4. CASE DecCheckUse(t)
  BY <1>4, <1>b DEF DecCheckUse, IInv, TypeOK, ControlInv
<1>5. CASE DecCheckDisposing(t)
  BY <1>5, <1>b, <1>c DEF DecCheckDisposing, AfterDec, Finish, IInv, TypeOK, ControlInv
<1> QED
  BY <1>1, <1>2, <1>3, <1>4, <1>5

\* The steps of a disposal before its last, and the beginnings of calls.
LEMMA OtherStutters ==
    ASSUME IInv, NEW t \in Threads, NEW r \in Slots,
           \/ SetDisposing(t) \/ CallCleanup(t) \/ ClearCleanup(t)
           \/ BeginUse(t, r) \/ BeginFree(t, r) \/ BeginDrop(t, r)
    PROVE  \A s \in Slots : SameSlot(s)
<1> USE DEF SameSlot, SetsUp, Disposes, Holds, Owned, OwnerStep, Goto, slotVars
<1>1. CASE SetDisposing(t)
  BY <1>1 DEF SetDisposing, IInv, TypeOK, ControlInv
<1>2. CASE CallCleanup(t)
  BY <1>2 DEF CallCleanup, IInv, TypeOK, ControlInv
<1>3. CASE ClearCleanup(t)
  BY <1>3 DEF ClearCleanup, IInv, TypeOK, ControlInv
<1>4. CASE BeginUse(t, r)
  BY <1>4 DEF BeginUse, IInv, TypeOK, ControlInv
<1>5. CASE BeginFree(t, r)
  BY <1>5 DEF BeginFree, MayFree, IInv, TypeOK, ControlInv
<1>6. CASE BeginDrop(t, r)
  BY <1>6 DEF BeginDrop, MayFree, IInv, TypeOK, ControlInv
<1> QED
  BY <1>1, <1>2, <1>3, <1>4, <1>5, <1>6

-----------------------------------------------------------------------------
(***************************************************************************)
(* The steps it sees                                                       *)
(***************************************************************************)
\* When only slot r changes, the whole mapped state is known from r.
LEMMA OneSlotMoves ==
    ASSUME NEW r \in Slots, \A s \in Slots \ {r} : SameSlot(s)
    PROVE  /\ [s \in Slots |-> SlotPhase(s)]' =
                  [[s \in Slots |-> SlotPhase(s)] EXCEPT ![r] = SlotPhase(r)']
           /\ {s \in Slots : Owned(s)}' =
                  IF Owned(r)' THEN {s \in Slots : Owned(s)} \cup {r}
                  ELSE {s \in Slots : Owned(s)} \ {r}
           /\ [s \in Slots |-> Holders(s)]' =
                  [[s \in Slots |-> Holders(s)] EXCEPT ![r] = Holders(r)']
<1>1. \A s \in Slots \ {r} : /\ SlotPhase(s)' = SlotPhase(s)
                             /\ Holders(s)' = Holders(s)
                             /\ Owned(s)' <=> Owned(s)
  BY SameSlotSame
<1> QED
  BY <1>1

\* The slot POOLHANDLE_ACQUIRE takes was free.
LEMMA TryClaims ==
    ASSUME IInv, NEW t \in Threads, NEW r \in Slots, h[t] = r,
           AcquireTry(t), ~use[r]
    PROVE  Lifetime!Claim(r)
<1>1. \A s \in Slots \ {r} : SameSlot(s)
  BY DEF SameSlot, SetsUp, Disposes, Holds, Owned, OwnerStep, Goto, AcquireTry,
         IInv, TypeOK, ControlInv
<1>2. /\ Owned(r)' <=> Owned(r)
      /\ \A u \in Threads : Holds(u, r)' <=> Holds(u, r)
  BY DEF Holds, Owned, OwnerStep, Goto, AcquireTry, IInv, TypeOK, ControlInv
<1>3. ~use[r] /\ use'[r] /\ SetsUp(t, r)'
  BY DEF SetsUp, Goto, AcquireTry, IInv, TypeOK
<1>4. SlotPhase(r) = "absent" /\ SlotPhase(r)' = "setup"
  BY <1>3 DEF SlotPhase
<1>5. Holders(r)' = Holders(r)
  BY <1>2 DEF Holders
<1>6. /\ [s \in Slots |-> SlotPhase(s)]' =
             [[s \in Slots |-> SlotPhase(s)] EXCEPT ![r] = "setup"]
      /\ {s \in Slots : Owned(s)}' = {s \in Slots : Owned(s)}
      /\ [s \in Slots |-> Holders(s)]' = [s \in Slots |-> Holders(s)]
  <2>1. /\ [s \in Slots |-> SlotPhase(s)]' =
               [[s \in Slots |-> SlotPhase(s)] EXCEPT ![r] = SlotPhase(r)']
        /\ {s \in Slots : Owned(s)}' =
               IF Owned(r)' THEN {s \in Slots : Owned(s)} \cup {r}
               ELSE {s \in Slots : Owned(s)} \ {r}
        /\ [s \in Slots |-> Holders(s)]' =
               [[s \in Slots |-> Holders(s)] EXCEPT ![r] = Holders(r)']
    BY <1>1, OneSlotMoves
  <2>2. {s \in Slots : Owned(s)}' = {s \in Slots : Owned(s)}
    BY <1>2, <2>1
  <2>3. [s \in Slots |-> Holders(s)]' = [s \in Slots |-> Holders(s)]
    BY <1>5, <2>1
  <2> QED
    BY <1>4, <2>1, <2>2, <2>3
<1>7. [s \in Slots |-> SlotPhase(s)][r] = "absent"
  BY <1>4
<1> QED
  BY <1>6, <1>7 DEF Lifetime!Claim

\* Its Init_Handle_ObjK gives the handle to its owner.
LEMMA SetRefOpens ==
    ASSUME IInv, NEW t \in Threads, NEW r \in Slots, h[t] = r, AcquireSetRef(t)
    PROVE  Lifetime!Open(r)
<1>b. Zeroed(t, r) /\ SetsUp(t, r) /\ use[r]
  BY DEF AcquireSetRef, Zeroed, SetsUp, IInv, ZeroedInv
<1>c. ~Owned(r) /\ \A u \in Threads : (Zeroed(u, r) => u = t) /\ ~Holds(u, r)
  BY <1>b, CountZero DEF IInv, ZeroedInv
<1>1. \A s \in Slots \ {r} : SameSlot(s)
  BY DEF SameSlot, SetsUp, Disposes, Holds, Owned, OwnerStep, Goto, AcquireSetRef,
         IInv, TypeOK, ControlInv
<1>2. /\ Owned(r)' /\ use'[r]
      /\ \A u \in Threads : Holds(u, r)' <=> Holds(u, r)
  BY <1>b DEF Holds, Owned, OwnerStep, Goto, AcquireSetRef, IInv, TypeOK, ControlInv
<1>3. \A u \in Threads : ~SetsUp(u, r)' /\ ~Disposes(u, r)'
  BY <1>c DEF Zeroed, SetsUp, Disposes, Goto, AcquireSetRef, IInv, TypeOK, ControlInv
<1>4. SlotPhase(r) = "setup" /\ SlotPhase(r)' = "live"
  BY <1>b, <1>2, <1>3 DEF SlotPhase
<1>5. Holders(r)' = Holders(r)
  BY <1>2 DEF Holders
<1> QED
  BY <1>1, <1>2, <1>4, <1>5, OneSlotMoves DEF Lifetime!Open

\* A slot with a reference is live.
LEMMA CountedIsLive ==
    ASSUME IInv, NEW r \in Slots, ref[r] # 0, use[r]
    PROVE  /\ SlotPhase(r) = "live"
           /\ \A u \in Threads : ~SetsUp(u, r) /\ ~Disposes(u, r)
<1>1. \A u \in Threads : ~Zeroed(u, r)
  BY DEF IInv, ZeroedInv
<1>2. \A u \in Threads : ~SetsUp(u, r) /\ ~Disposes(u, r)
  BY <1>1 DEF Zeroed, SetsUp, Disposes
<1> QED
  BY <1>2 DEF SlotPhase

\* The increment of PoolHandle_Inc lets a call into a handle that still has
\* its owner.
LEMMA IncEnters ==
    ASSUME IInv, NEW t \in Threads, NEW r \in Slots, h[t] = r, IncRef(t)
    PROVE  Lifetime!Enter(t, r)
<1>a. pc[t] = "incRef" /\ ~nested[t] /\ op[t] \in {"use", "free"}
  BY DEF IncRef, IInv, TypeOK, ControlInv
<1>b. Owned(r) /\ use[r]
  <2>1. Entering(t, r)
    BY <1>a DEF Entering
  <2>2. CASE r \in handles
    BY <1>a, <2>2 DEF Owned, IInv, ReferencedInv
  <2>3. CASE op[t] = "free"
    <3>1. OwnerStep(t, r)
      BY <1>a, <2>3 DEF OwnerStep
    <3> QED BY <1>a, <3>1 DEF Owned, IInv, ReferencedInv
  <2> QED BY <1>a, <2>1, <2>2, <2>3 DEF IInv, EntryInv
<1>c. ref[r] >= 1 /\ ref[r] \in Int
  BY <1>a, <1>b, OwnerCounts DEF IInv, TypeOK
<1>d. SlotPhase(r) = "live" /\ \A u \in Threads : ~SetsUp(u, r) /\ ~Disposes(u, r)
  BY <1>a, <1>b, <1>c, CountedIsLive
<1>e. /\ pc' = [pc EXCEPT ![t] = IF op[t] = "free" THEN "decUse" ELSE "body"]
      /\ UNCHANGED <<use, op, h, nested, handles>>
  BY <1>a, <1>c DEF IncRef, AfterInc, Goto
<1>1. \A s \in Slots \ {r} : SameSlot(s)
  BY <1>a, <1>e DEF SameSlot, SetsUp, Disposes, Holds, Owned, OwnerStep, IInv, TypeOK, ControlInv
<1>2. /\ Owned(r)' /\ use'[r]
      /\ \A u \in Threads : /\ Holds(u, r)' <=> Holds(u, r) \/ u = t
                            /\ ~SetsUp(u, r)' /\ ~Disposes(u, r)'
  BY <1>a, <1>b, <1>d, <1>e DEF SetsUp, Disposes, Holds, Owned, OwnerStep, IInv, TypeOK, ControlInv
<1>3. SlotPhase(r)' = SlotPhase(r)
  BY <1>d, <1>2 DEF SlotPhase
<1>4. Holders(r)' = Holders(r) \cup {t}
  BY <1>2 DEF Holders
<1>5. /\ [s \in Slots |-> SlotPhase(s)]' = [s \in Slots |-> SlotPhase(s)]
      /\ {s \in Slots : Owned(s)}' = {s \in Slots : Owned(s)}
      /\ [s \in Slots |-> Holders(s)]' =
             [[s \in Slots |-> Holders(s)] EXCEPT ![r] = @ \cup {t}]
  <2>1. [s \in Slots |-> Holders(s)][r] = Holders(r)
    OBVIOUS
  <2>2. [s \in Slots |-> Holders(s)]' =
            [[s \in Slots |-> Holders(s)] EXCEPT ![r] = Holders(r) \cup {t}]
    BY <1>1, <1>4, OneSlotMoves
  <2>3. [s \in Slots |-> SlotPhase(s)]' = [s \in Slots |-> SlotPhase(s)]
    BY <1>1, <1>3, OneSlotMoves
  <2>4. {s \in Slots : Owned(s)}' = {s \in Slots : Owned(s)}
    BY <1>b, <1>1, <1>2, OneSlotMoves
  <2> QED BY <2>1, <2>2, <2>3, <2>4
<1>6. [s \in Slots |-> SlotPhase(s)][r] = "live" /\ r \in {s \in Slots : Owned(s)}
  BY <1>b, <1>d
<1> QED
  BY <1>5, <1>6 DEF Lifetime!Enter

\* What the decrement of PoolHandle_Dec leaves behind: the handle is disposed
\* of by this thread if the count is now zero, and live otherwise.
LEMMA DecRefPhase ==
    ASSUME IInv, NEW t \in Threads, NEW r \in Slots, h[t] = r, DecRef(t)
    PROVE  /\ pc[t] = "decRef" /\ ~nested[t] /\ op[t] \in {"use", "free", "drop"}
           /\ op[t] \in {"use", "free"} => Holds(t, r)
           /\ op[t] \in {"free", "drop"} => OwnerStep(t, r)
           /\ ref[r] \in Int /\ ref[r] >= 1
           /\ ref[r] = 1 => op[t] # "free"
           /\ UNCHANGED <<use, disposing, h, nested, handles>>
           /\ \/ /\ ref[r] = 1
                 /\ pc' = [pc EXCEPT ![t] = "setDisposing"]
                 /\ op' = op
              \/ /\ ref[r] # 1
                 /\ pc' = [pc EXCEPT ![t] = IF op[t] = "free" THEN "decUse" ELSE "idle"]
                 /\ op' = [op EXCEPT ![t] = IF op[t] = "free" THEN "drop" ELSE "none"]
           /\ SlotPhase(r) = "live"
           /\ SlotPhase(r)' = IF ref[r] = 1 THEN "dead" ELSE "live"
           /\ \A s \in Slots \ {r} : SameSlot(s)
<1>a. pc[t] = "decRef" /\ ~nested[t] /\ op[t] \in {"use", "free", "drop"}
  BY DEF IInv, TypeOK, ControlInv, DecRef
<1>b. /\ op[t] \in {"use", "free"} => Holds(t, r)
      /\ op[t] \in {"free", "drop"} => OwnerStep(t, r) /\ Owned(r)
  BY <1>a DEF Holds, OwnerStep, Owned
<1>c. /\ ref[r] \in Int /\ ref[r] >= 1
      /\ ref[r] = 1 => op[t] # "free"
  <2>1. ref[r] \in Int
    BY DEF IInv, TypeOK
  <2>2. CASE op[t] \in {"use", "free"}
    BY <1>a, <1>b, <2>1, <2>2, HolderCounts DEF IInv
  <2>3. CASE op[t] = "drop"
    BY <1>a, <1>b, <2>1, <2>3, OwnerCounts DEF IInv
  <2> QED BY <1>a, <2>1, <2>2, <2>3
<1>d. use[r]
  BY <1>a, <1>b DEF IInv, ReferencedInv
<1>e. SlotPhase(r) = "live" /\ \A u \in Threads : ~SetsUp(u, r) /\ ~Disposes(u, r)
  BY <1>c, <1>d, CountedIsLive
<1>f. /\ UNCHANGED <<use, disposing, h, nested, handles>>
      /\ \/ /\ ref[r] = 1
            /\ pc' = [pc EXCEPT ![t] = "setDisposing"]
            /\ op' = op
         \/ /\ ref[r] # 1
            /\ pc' = [pc EXCEPT ![t] = IF op[t] = "free" THEN "decUse" ELSE "idle"]
            /\ op' = [op EXCEPT ![t] = IF op[t] = "free" THEN "drop" ELSE "none"]
  BY <1>a, <1>c DEF DecRef, AfterDec, Finish, Goto
<1>1. \A s \in Slots \ {r} : SameSlot(s)
  BY <1>a, <1>f DEF SameSlot, SetsUp, Disposes, Holds, Owned, OwnerStep, IInv, TypeOK, ControlInv
<1>2. SlotPhase(r)' = IF ref[r] = 1 THEN "dead" ELSE "live"
  <2>1. /\ use'[r]
        /\ \A u \in Threads : ~SetsUp(u, r)'
        /\ \A u \in Threads : Disposes(u, r)' <=> (u = t /\ ref[r] = 1)
    BY <1>a, <1>d, <1>e, <1>f DEF SetsUp, Disposes, IInv, TypeOK
  <2> QED BY <2>1 DEF SlotPhase
<1> QED
  BY <1>a, <1>b, <1>c, <1>e, <1>f, <1>1, <1>2

\* A count of one is the reference the decrementing thread holds.
LEMMA LastReference ==
    ASSUME IInv, NEW t \in Threads, NEW r \in Slots, Holds(t, r)
    PROVE  ref[r] = 1 <=> ~Owned(r) /\ Holders(r) = {t}
<1>1. t \in Holders(r) /\ Holders(r) \subseteq Threads
  BY DEF Holders
<1>2. ASSUME ref[r] = 1 PROVE ~Owned(r) /\ Holders(r) = {t}
  BY <1>1, <1>2, HolderCounts DEF IInv, Holders
<1>3. ASSUME ~Owned(r), Holders(r) = {t} PROVE ref[r] = 1
  <2>0. ref[r] = Cardinality(Holders(r)) + (IF Owned(r) THEN 1 ELSE 0)
    BY DEF IInv, RefExact
  <2>a. Cardinality(Holders(r)) = 1
    BY <1>3, FS_Singleton
  <2> QED BY <1>3, <2>0, <2>a
<1> QED
  BY <1>2, <1>3

LEMMA LastOwner ==
    ASSUME IInv, NEW r \in Slots, Owned(r)
    PROVE  ref[r] = 1 <=> Holders(r) = {}
<1>1. ref[r] = Cardinality(Holders(r)) + 1
  BY DEF IInv, RefExact
<1> QED
  BY <1>1, HoldersFinite, FS_EmptySet

\* A call leaves with the decrement of its PoolHandle_Dec.
LEMMA DecLeaves ==
    ASSUME IInv, NEW t \in Threads, NEW r \in Slots, h[t] = r, DecRef(t),
           op[t] \in {"use", "free"}
    PROVE  Lifetime!Leave(t, r)
<1>a. pc[t] = "decRef" /\ ~nested[t] /\ Holds(t, r)
  BY DecRefPhase
<1>1. ref[r] = 1 <=> ~Owned(r) /\ Holders(r) = {t}
  BY <1>a, LastReference
<1>2. \A u \in Threads : Holds(u, r)' <=> Holds(u, r) /\ u # t
  BY <1>a, DecRefPhase DEF Holds, IInv, TypeOK
<1>3. Holders(r)' = Holders(r) \ {t} /\ t \in Holders(r)
  BY <1>a, <1>2 DEF Holders
<1>4. Owned(r)' <=> Owned(r)
  BY <1>a, DecRefPhase DEF Owned, OwnerStep, IInv, TypeOK
<1>5. /\ [s \in Slots |-> SlotPhase(s)]' =
             [[s \in Slots |-> SlotPhase(s)] EXCEPT
                 ![r] = IF ~Owned(r) /\ Holders(r) = {t} THEN "dead" ELSE @]
      /\ {s \in Slots : Owned(s)}' = {s \in Slots : Owned(s)}
      /\ [s \in Slots |-> Holders(s)]' =
             [[s \in Slots |-> Holders(s)] EXCEPT ![r] = @ \ {t}]
  <2>1. /\ SlotPhase(r)' = IF ~Owned(r) /\ Holders(r) = {t} THEN "dead" ELSE SlotPhase(r)
        /\ \A s \in Slots \ {r} : SameSlot(s)
    BY <1>1, DecRefPhase
  <2>2. /\ [s \in Slots |-> Holders(s)][r] = Holders(r)
        /\ [s \in Slots |-> SlotPhase(s)][r] = SlotPhase(r)
    OBVIOUS
  <2>3. [s \in Slots |-> SlotPhase(s)]' =
            [[s \in Slots |-> SlotPhase(s)] EXCEPT
                ![r] = IF ~Owned(r) /\ Holders(r) = {t} THEN "dead" ELSE SlotPhase(r)]
    BY <2>1, OneSlotMoves
  <2>4. [s \in Slots |-> Holders(s)]' =
            [[s \in Slots |-> Holders(s)] EXCEPT ![r] = Holders(r) \ {t}]
    BY <1>3, <2>1, OneSlotMoves
  <2>5. {s \in Slots : Owned(s)}' = {s \in Slots : Owned(s)}
    BY <1>4, <2>1, OneSlotMoves
  <2> QED BY <2>2, <2>3, <2>4, <2>5
<1>6. /\ t \in [s \in Slots |-> Holders(s)][r]
      /\ r \in {s \in Slots : Owned(s)} <=> Owned(r)
      /\ [s \in Slots |-> Holders(s)][r] = Holders(r)
  BY <1>3
<1> QED
  BY <1>5, <1>6 DEF Lifetime!Leave

\* The owner's reference goes with the last decrement of a Free.
LEMMA DropAbandons ==
    ASSUME IInv, NEW t \in Threads, NEW r \in Slots, h[t] = r, DecRef(t),
           op[t] = "drop"
    PROVE  Lifetime!Abandon(r)
<1>a. pc[t] = "decRef" /\ ~nested[t] /\ OwnerStep(t, r) /\ Owned(r)
  BY DecRefPhase DEF Owned
<1>1. ref[r] = 1 <=> Holders(r) = {}
  BY <1>a, LastOwner
<1>2. \A u \in Threads : Holds(u, r)' <=> Holds(u, r)
  BY <1>a, DecRefPhase DEF Holds, IInv, TypeOK
<1>3. Holders(r)' = Holders(r)
  BY <1>2 DEF Holders
<1>4. ~Owned(r)'
  <2>1. r \notin handles /\ \A u \in Threads : OwnerStep(u, r) => u = t
    BY <1>a DEF IInv, ReferencedInv
  <2> QED
    BY <1>a, <2>1, DecRefPhase DEF Owned, OwnerStep, IInv, TypeOK
<1>5. /\ [s \in Slots |-> SlotPhase(s)]' =
             [[s \in Slots |-> SlotPhase(s)] EXCEPT
                 ![r] = IF Holders(r) = {} THEN "dead" ELSE @]
      /\ {s \in Slots : Owned(s)}' = {s \in Slots : Owned(s)} \ {r}
      /\ [s \in Slots |-> Holders(s)]' = [s \in Slots |-> Holders(s)]
  <2>1. /\ SlotPhase(r)' = IF Holders(r) = {} THEN "dead" ELSE SlotPhase(r)
        /\ \A s \in Slots \ {r} : SameSlot(s)
    BY <1>1, DecRefPhase
  <2> QED BY <1>3, <1>4, <2>1, OneSlotMoves
<1>6. /\ r \in {s \in Slots : Owned(s)}
      /\ [s \in Slots |-> SlotPhase(s)][r] = "live"
      /\ [s \in Slots |-> Holders(s)][r] = Holders(r)
  BY <1>a, DecRefPhase
<1> QED
  BY <1>5, <1>6 DEF Lifetime!Abandon

\* The disposing thread gives the slot back.
LEMMA ReleaseRecycles ==
    ASSUME IInv, NEW t \in Threads, NEW r \in Slots, h[t] = r, Release(t)
    PROVE  Lifetime!Recycle(r)
<1>a. Zeroed(t, r) /\ Disposes(t, r) /\ ~nested[t] /\ op[t] # "free" /\ op[t] # "acquire"
  BY DEF Release, Zeroed, Disposes, IInv, TypeOK, ControlInv
<1>b. use[r] /\ \A u \in Threads : Zeroed(u, r) => u = t
  BY <1>a DEF IInv, ZeroedInv
<1>c. SlotPhase(r) = "dead"
  <2>1. \A u \in Threads : ~SetsUp(u, r)
    BY <1>a, <1>b DEF SetsUp, Zeroed, Release
  <2> QED BY <1>a, <1>b, <2>1 DEF SlotPhase
<1>1. /\ use' = [use EXCEPT ![r] = FALSE]
      /\ pc' = [pc EXCEPT ![t] = "idle"]
      /\ op' = [op EXCEPT ![t] = "none"]
      /\ UNCHANGED <<ref, disposing, h, nested, handles>>
  BY <1>a DEF Release, AfterDec, Finish, Goto
<1>2. \A s \in Slots \ {r} : SameSlot(s)
  BY <1>a, <1>1 DEF SameSlot, SetsUp, Disposes, Holds, Owned, OwnerStep, Release,
                    IInv, TypeOK, ControlInv
<1>3. /\ Owned(r)' <=> Owned(r)
      /\ \A u \in Threads : Holds(u, r)' <=> Holds(u, r)
  BY <1>a, <1>1 DEF Holds, Owned, OwnerStep, Release, IInv, TypeOK, ControlInv
<1>4. SlotPhase(r)' = "absent"
  BY <1>1 DEF SlotPhase, IInv, TypeOK
<1>5. Holders(r)' = Holders(r)
  BY <1>3 DEF Holders
<1> QED
  BY <1>c, <1>2, <1>3, <1>4, <1>5, OneSlotMoves DEF Lifetime!Recycle

-----------------------------------------------------------------------------
LEMMA LifetimeInit == Init => Lifetime!Init
<1> SUFFICES ASSUME Init PROVE Lifetime!Init
  OBVIOUS
<1>1. \A s \in Slots : SlotPhase(s) = "absent" /\ Holders(s) = {} /\ ~Owned(s)
  BY DEF Init, SlotPhase, Holders, Holds, Owned, OwnerStep
<1> QED
  BY <1>1 DEF Lifetime!Init

LEMMA LifetimeStep == IInv /\ [Next]_vars => [Lifetime!Next]_(Lifetime!lifeVars)
<1> SUFFICES ASSUME IInv, [Next]_vars PROVE Lifetime!Next \/ UNCHANGED Lifetime!lifeVars
  OBVIOUS
<1> USE DEF Lifetime!Next
<1>1. ASSUME NEW t \in Threads, Step(t) PROVE Lifetime!Next \/ UNCHANGED Lifetime!lifeVars
  <2>a. h[t] \in Slots
    BY DEF IInv, TypeOK
  <2>1. CASE AcquireTry(t)
    BY <2>a, <2>1, TryClaims, AcquireStutters, AllSameStutters
  <2>2. CASE AcquireSetRef(t)
    BY <2>a, <2>2, SetRefOpens
  <2>3. CASE AcquireSetDisposing(t) \/ AcquireReturn(t) \/ AcquireFail(t)
    BY <2>3, AcquireStutters, AllSameStutters
  <2>4. CASE \/ IncCheckUse(t) \/ IncCheckDisposing(t) \/ EndBody(t)
             \/ DecCheckUse(t) \/ DecCheckDisposing(t)
    BY <2>4, CallStutters, AllSameStutters
  <2>5. CASE IncRef(t)
    BY <2>a, <2>5, IncEnters
  <2>6. CASE IncUndo(t)
    BY <2>6 DEF IncUndo, IInv, ControlInv
  <2>7. CASE DecRef(t)
    <3>1. op[t] \in {"use", "free", "drop"}
      BY <2>a, <2>7, DecRefPhase
    <3> QED BY <2>a, <2>7, <3>1, DecLeaves, DropAbandons
  <2>8. CASE SetDisposing(t) \/ CallCleanup(t) \/ ClearCleanup(t)
    BY <2>a, <2>8, OtherStutters, AllSameStutters
  <2>9. CASE Release(t)
    BY <2>a, <2>9, ReleaseRecycles
  <2> QED
    BY <1>1, <2>1, <2>2, <2>3, <2>4, <2>5, <2>6, <2>7, <2>8, <2>9 DEF Step
<1>2. ASSUME NEW t \in Threads, BeginAcquire(t)
      PROVE  Lifetime!Next \/ UNCHANGED Lifetime!lifeVars
  BY <1>2, AcquireStutters, AllSameStutters
<1>3. ASSUME NEW t \in Threads, NEW s \in Slots,
             BeginUse(t, s) \/ BeginFree(t, s) \/ BeginDrop(t, s)
      PROVE  Lifetime!Next \/ UNCHANGED Lifetime!lifeVars
  BY <1>3, OtherStutters, AllSameStutters
<1>4. CASE UNCHANGED vars
  <2>1. \A s \in Slots : SameSlot(s)
    BY <1>4 DEF vars, SameSlot, SetsUp, Disposes, Holds, Owned, OwnerStep
  <2> QED BY <2>1, AllSameStutters
<1> QED
  BY <1>1, <1>2, <1>3, <1>4 DEF Next

\* The nine pools of the library keep the promise of HandleLifetime: a handle
\* dies exactly when the last of its owner and the calls inside it lets go,
\* and its slot is reused only after that.
THEOREM PoolImplementsLifetime ==
    ASSUME ~LateCalls
    PROVE  Spec => ImplementsLifetime
BY InvInit, InvStep, LifetimeInit, LifetimeStep, PTL
   DEF Spec, ImplementsLifetime, Lifetime!Spec

-----------------------------------------------------------------------------
(***************************************************************************)
(*                             DEVICE LISTS                                *)
(***************************************************************************)

-----------------------------------------------------------------------------
(***************************************************************************)
(* Loops: functions that are computed round by round, and induction over   *)
(* the rounds.                                                             *)
(***************************************************************************)

\* Every set of numbers has a smallest one: the form in which induction over
\* the rounds of a loop is used.
LEMMA Smallest ==
    ASSUME NEW S \in SUBSET Nat, S # {}
    PROVE  \E n \in S : \A m \in S : n <= m
<1> DEFINE R == OpToRel(<, Nat)
<1>1. IsWellFoundedOn(R, Nat)
  BY NatLessThanWellFounded
<1>2. PICK n \in S : \A m \in S : <<m, n>> \notin R
  BY <1>1, WFMin
<1>3. \A m \in S : ~(m < n)
  BY <1>2 DEF OpToRel
<1> QED
  BY <1>3

\* Induction up to N, for the set of numbers of which something holds.
LEMMA UpTo ==
    ASSUME NEW N \in Nat, NEW S, 0 \in S, \A i \in 1 .. N : i - 1 \in S => i \in S
    PROVE  \A i \in 0 .. N : i \in S
<1> DEFINE Bad == (0 .. N) \ S
<1> SUFFICES ASSUME Bad # {} PROVE FALSE
  OBVIOUS
<1>1. Bad \in SUBSET Nat
  OBVIOUS
<1>2. PICK n \in Bad : \A m \in Bad : n <= m
  <2> HIDE DEF Bad
  <2> QED
    BY <1>1, Smallest
<1>3. n \in 1 .. N
  BY <1>2
<1>4. n - 1 \in S
  BY <1>2, <1>3
<1> QED
  BY <1>2, <1>3, <1>4

\* A loop of N rounds that starts with b computes a function.
Rounds(f, N, b, step) ==
    f = [i \in 0 .. N |-> IF i = 0 THEN b ELSE step[i][f[i - 1]]]

LEMMA LoopExists ==
    ASSUME NEW N \in Nat, NEW V, NEW b \in V, NEW step \in [1 .. N -> [V -> V]]
    PROVE  \E f \in [0 .. N -> V] : Rounds(f, N, b, step)
<1> DEFINE Runs(f, n) ==
               f \in [0 .. n -> V] /\ \A i \in 0 .. n : f[i] = IF i = 0 THEN b ELSE step[i][f[i - 1]]
           Good == {n \in 0 .. N : \E f : Runs(f, n)}
<1> HIDE DEF Runs
<1>1. 0 \in Good
  <2>1. Runs([i \in 0 .. 0 |-> b], 0)
    BY DEF Runs
  <2> QED
    BY <2>1
<1>2. ASSUME NEW n \in 1 .. N, n - 1 \in Good PROVE n \in Good
  <2>1. PICK f : Runs(f, n - 1)
    BY <1>2
  <2> DEFINE g == [i \in 0 .. n |-> IF i = n THEN step[n][f[n - 1]] ELSE f[i]]
  <2>2. f[n - 1] \in V /\ step[n] \in [V -> V]
    BY <2>1 DEF Runs
  <2>3. \A i \in 0 .. n : g[i] \in V
    BY <2>1, <2>2 DEF Runs
  <2>4. \A i \in 0 .. n : g[i] = IF i = 0 THEN b ELSE step[i][g[i - 1]]
    BY <2>1 DEF Runs
  <2>5. Runs(g, n)
    BY <2>3, <2>4 DEF Runs
  <2> HIDE DEF g
  <2> QED
    BY <2>5
<1>3. N \in Good
  <2> HIDE DEF Good
  <2>1. \A i \in 0 .. N : i \in Good
    BY <1>1, <1>2, UpTo
  <2> QED
    BY <2>1
<1>4. PICK f : Runs(f, N)
  BY <1>3
<1>5. f = [i \in 0 .. N |-> IF i = 0 THEN b ELSE step[i][f[i - 1]]]
  <2> DEFINE g == [i \in 0 .. N |-> IF i = 0 THEN b ELSE step[i][f[i - 1]]]
  <2>1. f \in [0 .. N -> V] /\ \A i \in 0 .. N : f[i] = g[i]
    BY <1>4 DEF Runs
  <2>2. g \in [0 .. N -> V]
    BY <2>1
  <2> HIDE DEF g
  <2>3. f = g
    BY <2>1, <2>2
  <2> QED
    BY <2>3 DEF g
<1> QED
  BY <1>4, <1>5 DEF Rounds, Runs

\* A loop whose round n leads from V[n - 1] to V[n].
LEMMA LoopKeeps ==
    ASSUME NEW N \in Nat, NEW V, NEW b \in V[0], NEW step,
           \A n \in 1 .. N : \A a \in V[n - 1] : step[n][a] \in V[n]
    PROVE  \E f : Rounds(f, N, b, step) /\ \A n \in 0 .. N : f[n] \in V[n]
<1> DEFINE U == UNION {V[n] : n \in 0 .. N}
           safe == [n \in 1 .. N |-> [a \in U |-> IF a \in V[n - 1] THEN step[n][a] ELSE a]]
<1>1. b \in U /\ \A n \in 0 .. N : \A a \in V[n] : a \in U
  OBVIOUS
<1> HIDE DEF U
<1>2. safe \in [1 .. N -> [U -> U]]
  BY <1>1
<1>3. PICK f \in [0 .. N -> U] : Rounds(f, N, b, safe)
  <2> HIDE DEF safe
  <2> QED
    BY <1>1, <1>2, LoopExists
<1>4. f[0] = b /\ \A n \in 1 .. N : f[n] = safe[n][f[n - 1]]
  <2>1. \A n \in 0 .. N : f[n] = IF n = 0 THEN b ELSE safe[n][f[n - 1]]
    <3> HIDE DEF safe
    <3> QED
      BY <1>3 DEF Rounds
  <2> HIDE DEF safe
  <2> QED
    BY <2>1
<1>5. ASSUME NEW n \in 1 .. N, f[n - 1] \in V[n - 1] PROVE f[n] = step[n][f[n - 1]]
  <2>1. n - 1 \in 0 .. N
    OBVIOUS
  <2>2. f[n - 1] \in U
    BY <1>1, <1>5, <2>1
  <2>3. f[n] = safe[n][f[n - 1]]
    BY <1>4
  <2> QED
    BY <1>5, <2>2, <2>3
<1>6. \A n \in 0 .. N : f[n] \in V[n]
  <2> DEFINE Good == {n \in 0 .. N : f[n] \in V[n]}
  <2>1. 0 \in Good /\ \A n \in 1 .. N : n - 1 \in Good => n \in Good
    BY <1>4, <1>5
  <2> HIDE DEF Good
  <2>2. \A n \in 0 .. N : n \in Good
    BY <2>1, UpTo
  <2> QED
    BY <2>2 DEF Good
<1>7. f = [n \in 0 .. N |-> IF n = 0 THEN b ELSE step[n][f[n - 1]]]
  <2> DEFINE g == [n \in 0 .. N |-> IF n = 0 THEN b ELSE step[n][f[n - 1]]]
  <2>1. \A n \in 0 .. N : f[n] = g[n]
    <3>1. \A n \in 0 .. N : n # 0 => n \in 1 .. N /\ n - 1 \in 0 .. N
      OBVIOUS
    <3> QED
      BY <1>4, <1>5, <1>6, <3>1
  <2>2. DOMAIN f = 0 .. N /\ f = [n \in 0 .. N |-> f[n]]
    BY <1>3
  <2> QED
    BY <2>1, <2>2
<1> QED
  BY <1>6, <1>7 DEF Rounds

\* A list of numbers up to M without repetitions has at most M elements.
LEMMA OnceFits ==
    ASSUME NEW M \in Nat, NEW s \in Seq(1 .. M), IsInjective(s)
    PROVE  Len(s) <= M
<1> DEFINE n == Len(s)
<1>1. n \in Nat /\ s \in [1 .. n -> 1 .. M] /\ DOMAIN s = 1 .. n
  OBVIOUS
<1>2. IsFiniteSet(1 .. n) /\ Cardinality(1 .. n) = n
  <2> HIDE DEF n
  <2> QED
    BY <1>1, FS_Interval
<1>3. IsFiniteSet(1 .. M) /\ Cardinality(1 .. M) = M
  BY FS_Interval
<1> HIDE DEF n
<1>4. CASE M < n
  <2>1. PICK i \in 1 .. n, j \in 1 .. n : i # j /\ s[i] = s[j]
    BY <1>1, <1>2, <1>3, <1>4, FS_PigeonHole
  <2> QED
    BY <1>1, <2>1 DEF IsInjective
<1>5. CASE ~(M < n)
  BY <1>1, <1>5 DEF n
<1> QED
  BY <1>4, <1>5
-----------------------------------------------------------------------------
(***************************************************************************)
(* Device lists: types, and what the inductive invariant says of mem.      *)
(***************************************************************************)

\* An info while its references are being counted.
InfoT == [use : BOOLEAN, ref : Int, next : Infos \cup {NoInfo},
          prev : Infos \cup {NoInfo}, owner : Lists \cup {NoList},
          dev : Devices \cup {NoDevice}, conn : BOOLEAN, flags : SUBSET SyncFlags]
MemT == [list : [Lists -> ListType], info : [Infos -> InfoT]]

\* The links of the infos s[1] to s[n].
Links(m, s, n) ==
    \A k \in 1 .. n :
        /\ k = n => m.info[s[k]].next = NoInfo
        /\ k # n => m.info[s[k]].next = s[k + 1]
        /\ k = 1 => m.info[s[k]].prev = s[n]
        /\ k # 1 => m.info[s[k]].prev = s[k - 1]

\* The chain of list l is the sequence s.
IsList(m, l, s) ==
    /\ s \in Seq(Infos) /\ IsInjective(s)
    /\ Len(s) = 0 => m.list[l].head = NoInfo
    /\ Len(s) # 0 => m.list[l].head = s[1]
    /\ Links(m, s, Len(s))

Attached(m, l) == {i \in Infos : m.info[i].owner = l}

\* The infos that are nobody's but the application's.
Loose(m) == {i \in Infos : m.info[i].use /\ m.info[i].owner = NoList}

RefsOK(m) ==
    \A i \in Infos :
        /\ m.info[i].ref = IF ~m.info[i].use THEN 0
                           ELSE IF m.info[i].owner = NoList THEN 1 ELSE 2
        /\ ~m.info[i].use => m.info[i].owner = NoList
        /\ m.info[i].owner # NoList => m.list[m.info[i].owner].use

Linked(m) ==
    \A l \in Lists : m.list[l].use => \E s : IsList(m, l, s) /\ Range(s) = Attached(m, l)

\* mem is in order, and the infos on no list are those of H.
Sound(m, H) == m \in MemT /\ H = Loose(m) /\ RefsOK(m) /\ Linked(m)

\* The cursor of list l is on the list, or known to have been left behind.
Cursor(m, l) ==
    m.list[l].use /\ m.list[l].current # NoInfo /\ ~m.list[l].stray
        => m.info[m.list[l].current].owner = l

ListIInv ==
    /\ present \subseteq Devices
    /\ Sound(mem, mine)
    /\ \A l \in Lists : Cursor(mem, l)

LEMMA Numbers ==
    /\ NumInfos \in Nat \ {0} /\ NumLists \in Nat \ {0} /\ NumDevices \in Nat \ {0}
    /\ NoInfo \notin Infos /\ NoList \notin Lists /\ NoDevice \notin Devices
    /\ Infos \subseteq Nat /\ Lists \subseteq Nat /\ Devices \subseteq Nat
BY NumAssumption DEF Infos, Lists, Devices, NoInfo, NoList, NoDevice

\* Only the links of the elements of a list and its head matter.
LEMMA ListKept ==
    ASSUME NEW m, NEW a, NEW l, NEW s, IsList(m, l, s),
           a.list[l].head = m.list[l].head,
           \A j \in Range(s) : a.info[j].next = m.info[j].next /\ a.info[j].prev = m.info[j].prev
    PROVE  IsList(a, l, s)
<1>1. s \in Seq(Infos) /\ \A k \in 1 .. Len(s) : s[k] \in Range(s)
  BY DEF IsList, Range
<1> DEFINE n == Len(s)
<1>2. Links(m, s, n)
  BY DEF IsList
<1> HIDE DEF n
<1>3. Links(a, s, n)
  BY <1>1, <1>2 DEF Links, n
<1> QED
  BY <1>3 DEF IsList, n

-----------------------------------------------------------------------------
(***************************************************************************)
(* What the operations do to an info and to a list.                        *)
(***************************************************************************)

\* Nothing but links has changed from m to a.
SameInfo(m, a, j) ==
    /\ a.info[j].use = m.info[j].use /\ a.info[j].dev = m.info[j].dev
    /\ a.info[j].conn = m.info[j].conn /\ a.info[j].flags = m.info[j].flags
\* The list is the same but for its head, and its cursor no less stray.
SameList(m, a, k) ==
    /\ a.list[k].use = m.list[k].use /\ a.list[k].current = m.list[k].current
    /\ m.list[k].stray => a.list[k].stray

\* A field that says who has the info is the same too.
SameHold(m, a, j) ==
    SameInfo(m, a, j) /\ a.info[j].owner = m.info[j].owner /\ a.info[j].ref = m.info[j].ref

\* The fields of mem have their types.
LEMMA FieldsAre ==
    ASSUME NEW m \in MemT
    PROVE  /\ \A i \in Infos :
                  /\ m.info[i] \in InfoT
                  /\ m.info[i].next \in Infos \cup {NoInfo} /\ m.info[i].prev \in Infos \cup {NoInfo}
                  /\ m.info[i].owner \in Lists \cup {NoList} /\ m.info[i].ref \in Int
           /\ \A l \in Lists :
                  /\ m.list[l] \in ListType
                  /\ m.list[l].head \in Infos \cup {NoInfo} /\ m.list[l].use \in BOOLEAN
BY DEF MemT, InfoT, ListType

\* The edits that the operations are made of.
PutInfo(m, i, r) == [m EXCEPT !.info[i] = r]
PutList(m, l, r) == [m EXCEPT !.list[l] = r]
PutNext(m, i, x) == [m EXCEPT !.info[i].next = x]
PutPrev(m, i, x) == [m EXCEPT !.info[i].prev = x]
PutOwner(m, i, l) == [m EXCEPT !.info[i].owner = l]
PutRef(m, i, n) == [m EXCEPT !.info[i].ref = n]
PutHead(m, l, x) == [m EXCEPT !.list[l].head = x]
PutStray(m, l, x) == [m EXCEPT !.list[l].stray = x]

\* What each of them does.
InfoPut(m, a, i, r) ==
    a \in MemT /\ a.list = m.list /\ \A j \in Infos : a.info[j] = IF j = i THEN r ELSE m.info[j]
ListPut(m, a, l, r) ==
    a \in MemT /\ a.info = m.info /\ \A k \in Lists : a.list[k] = IF k = l THEN r ELSE m.list[k]
NextPut(m, a, i, x) ==
    /\ a \in MemT /\ a.list = m.list
    /\ \A j \in Infos : /\ SameHold(m, a, j) /\ a.info[j].prev = m.info[j].prev
                        /\ a.info[j].next = IF j = i THEN x ELSE m.info[j].next
PrevPut(m, a, i, x) ==
    /\ a \in MemT /\ a.list = m.list
    /\ \A j \in Infos : /\ SameHold(m, a, j) /\ a.info[j].next = m.info[j].next
                        /\ a.info[j].prev = IF j = i THEN x ELSE m.info[j].prev
HeadPut(m, a, l, x) ==
    /\ a \in MemT /\ a.info = m.info
    /\ \A k \in Lists : /\ SameList(m, a, k)
                        /\ a.list[k].head = IF k = l THEN x ELSE m.list[k].head
OwnerPut(m, a, i, l) ==
    /\ a \in MemT /\ a.list = m.list
    /\ \A j \in Infos : /\ SameInfo(m, a, j) /\ a.info[j].ref = m.info[j].ref
                        /\ a.info[j].next = m.info[j].next /\ a.info[j].prev = m.info[j].prev
                        /\ a.info[j].owner = IF j = i THEN l ELSE m.info[j].owner
RefPut(m, a, i, l) ==
    /\ a \in MemT /\ a.list = m.list
    /\ \A j \in Infos : /\ SameInfo(m, a, j) /\ a.info[j].owner = m.info[j].owner
                        /\ a.info[j].next = m.info[j].next /\ a.info[j].prev = m.info[j].prev
                        /\ a.info[j].ref = IF j = i THEN l ELSE m.info[j].ref

\* One info or one list is changed.
LEMMA EditInfo ==
    ASSUME NEW m \in MemT, NEW i \in Infos, NEW r \in InfoT
    PROVE  InfoPut(m, PutInfo(m, i, r), i, r)
BY DEF MemT, PutInfo, InfoPut

LEMMA EditList ==
    ASSUME NEW m \in MemT, NEW l \in Lists, NEW r \in ListType
    PROVE  ListPut(m, PutList(m, l, r), l, r)
BY DEF MemT, PutList, ListPut

LEMMA SetNext ==
    ASSUME NEW m \in MemT, NEW i \in Infos \cup {NoInfo}, NEW x \in Infos \cup {NoInfo}
    PROVE  NextPut(m, PutNext(m, i, x), i, x)
<1> DEFINE a == PutNext(m, i, x)
           r == [m.info[i] EXCEPT !.next = x]
<1>1. CASE i \in Infos
  <2>1. m.info[i] \in InfoT
    BY <1>1, FieldsAre
  <2>2. /\ r \in InfoT /\ r.next = x /\ r.prev = m.info[i].prev
        /\ r.use = m.info[i].use /\ r.dev = m.info[i].dev /\ r.conn = m.info[i].conn
        /\ r.flags = m.info[i].flags /\ r.owner = m.info[i].owner /\ r.ref = m.info[i].ref
    BY <2>1 DEF InfoT
  <2>3. a = PutInfo(m, i, r)
    BY DEF PutInfo, PutNext
  <2> HIDE DEF r, a
  <2>4. InfoPut(m, a, i, r)
    BY <1>1, <2>2, <2>3, EditInfo
  <2>5. \A j \in Infos : /\ SameHold(m, a, j) /\ a.info[j].prev = m.info[j].prev
                         /\ a.info[j].next = IF j = i THEN x ELSE m.info[j].next
    BY <2>2, <2>4 DEF InfoPut, SameHold, SameInfo
  <2> QED
    BY <2>4, <2>5 DEF a, InfoPut, NextPut
<1>2. CASE i \notin Infos
  <2>1. a = m
    BY <1>2 DEF MemT, PutNext
  <2> HIDE DEF a
  <2> QED
    BY <1>2, <2>1 DEF a, NextPut, SameHold, SameInfo
<1> QED
  BY <1>1, <1>2

LEMMA SetPrev ==
    ASSUME NEW m \in MemT, NEW i \in Infos \cup {NoInfo}, NEW x \in Infos \cup {NoInfo}
    PROVE  PrevPut(m, PutPrev(m, i, x), i, x)
<1> DEFINE a == PutPrev(m, i, x)
           r == [m.info[i] EXCEPT !.prev = x]
<1>1. CASE i \in Infos
  <2>1. m.info[i] \in InfoT
    BY <1>1, FieldsAre
  <2>2. /\ r \in InfoT /\ r.prev = x /\ r.next = m.info[i].next
        /\ r.use = m.info[i].use /\ r.dev = m.info[i].dev /\ r.conn = m.info[i].conn
        /\ r.flags = m.info[i].flags /\ r.owner = m.info[i].owner /\ r.ref = m.info[i].ref
    BY <2>1 DEF InfoT
  <2>3. a = PutInfo(m, i, r)
    BY DEF PutInfo, PutPrev
  <2> HIDE DEF r, a
  <2>4. InfoPut(m, a, i, r)
    BY <1>1, <2>2, <2>3, EditInfo
  <2>5. \A j \in Infos : /\ SameHold(m, a, j) /\ a.info[j].next = m.info[j].next
                         /\ a.info[j].prev = IF j = i THEN x ELSE m.info[j].prev
    BY <2>2, <2>4 DEF InfoPut, SameHold, SameInfo
  <2> QED
    BY <2>4, <2>5 DEF a, InfoPut, PrevPut
<1>2. CASE i \notin Infos
  <2>1. a = m
    BY <1>2 DEF MemT, PutPrev
  <2> HIDE DEF a
  <2> QED
    BY <1>2, <2>1 DEF a, PrevPut, SameHold, SameInfo
<1> QED
  BY <1>1, <1>2

LEMMA SetHead ==
    ASSUME NEW m \in MemT, NEW l \in Lists, NEW x \in Infos \cup {NoInfo}
    PROVE  HeadPut(m, PutHead(m, l, x), l, x)
<1> DEFINE a == PutHead(m, l, x)
           r == [m.list[l] EXCEPT !.head = x]
<1>1. m.list[l] \in ListType
  BY FieldsAre
<1>2. /\ r \in ListType /\ r.head = x /\ r.use = m.list[l].use
      /\ r.current = m.list[l].current /\ r.stray = m.list[l].stray
  BY <1>1 DEF ListType
<1>3. a = PutList(m, l, r)
  BY DEF PutList, PutHead
<1> HIDE DEF r, a
<1>4. ListPut(m, a, l, r)
  BY <1>2, <1>3, EditList
<1>5. \A k \in Lists : SameList(m, a, k) /\ a.list[k].head = IF k = l THEN x ELSE m.list[k].head
  BY <1>2, <1>4 DEF ListPut, SameList
<1> QED
  BY <1>4, <1>5 DEF a, ListPut, HeadPut

LEMMA SetStray ==
    ASSUME NEW m \in MemT, NEW l \in Lists, NEW x \in BOOLEAN, m.list[l].stray => x
    PROVE  /\ HeadPut(m, PutStray(m, l, x), l, m.list[l].head)
           /\ x => PutStray(m, l, x).list[l].stray
<1> DEFINE a == PutStray(m, l, x)
           r == [m.list[l] EXCEPT !.stray = x]
<1>1. m.list[l] \in ListType
  BY FieldsAre
<1>2. /\ r \in ListType /\ r.head = m.list[l].head /\ r.use = m.list[l].use
      /\ r.current = m.list[l].current /\ (x => r.stray) /\ (m.list[l].stray => r.stray)
  BY <1>1 DEF ListType
<1>3. a = PutList(m, l, r)
  BY DEF PutList, PutStray
<1> HIDE DEF r, a
<1>4. ListPut(m, a, l, r)
  BY <1>2, <1>3, EditList
<1>5. \A k \in Lists :
          SameList(m, a, k) /\ a.list[k].head = IF k = l THEN m.list[l].head ELSE m.list[k].head
  BY <1>2, <1>4 DEF ListPut, SameList
<1>6. x => a.list[l].stray
  BY <1>2, <1>4 DEF ListPut
<1> QED
  BY <1>4, <1>5, <1>6 DEF a, ListPut, HeadPut

LEMMA SetOwner ==
    ASSUME NEW m \in MemT, NEW i \in Infos, NEW l \in Lists \cup {NoList}
    PROVE  OwnerPut(m, PutOwner(m, i, l), i, l)
<1> DEFINE a == PutOwner(m, i, l)
           r == [m.info[i] EXCEPT !.owner = l]
<1>1. m.info[i] \in InfoT
  BY FieldsAre
<1>2. /\ r \in InfoT /\ r.next = m.info[i].next /\ r.prev = m.info[i].prev
      /\ r.use = m.info[i].use /\ r.dev = m.info[i].dev /\ r.conn = m.info[i].conn
      /\ r.flags = m.info[i].flags /\ r.owner = l /\ r.ref = m.info[i].ref
  BY <1>1 DEF InfoT
<1>3. a = PutInfo(m, i, r)
  BY DEF PutInfo, PutOwner
<1> HIDE DEF r, a
<1>4. InfoPut(m, a, i, r)
  BY <1>2, <1>3, EditInfo
<1>5. \A j \in Infos : /\ SameInfo(m, a, j) /\ a.info[j].ref = m.info[j].ref
                       /\ a.info[j].next = m.info[j].next /\ a.info[j].prev = m.info[j].prev
                       /\ a.info[j].owner = IF j = i THEN l ELSE m.info[j].owner
  BY <1>2, <1>4 DEF InfoPut, SameInfo
<1> QED
  BY <1>4, <1>5 DEF a, InfoPut, OwnerPut

LEMMA SetRef ==
    ASSUME NEW m \in MemT, NEW i \in Infos, NEW l \in Int
    PROVE  RefPut(m, PutRef(m, i, l), i, l)
<1> DEFINE a == PutRef(m, i, l)
           r == [m.info[i] EXCEPT !.ref = l]
<1>1. m.info[i] \in InfoT
  BY FieldsAre
<1>2. /\ r \in InfoT /\ r.next = m.info[i].next /\ r.prev = m.info[i].prev
      /\ r.use = m.info[i].use /\ r.dev = m.info[i].dev /\ r.conn = m.info[i].conn
      /\ r.flags = m.info[i].flags /\ r.ref = l /\ r.owner = m.info[i].owner
  BY <1>1 DEF InfoT
<1>3. a = PutInfo(m, i, r)
  BY DEF PutInfo, PutRef
<1> HIDE DEF r, a
<1>4. InfoPut(m, a, i, r)
  BY <1>2, <1>3, EditInfo
<1>5. \A j \in Infos : /\ SameInfo(m, a, j) /\ a.info[j].owner = m.info[j].owner
                       /\ a.info[j].next = m.info[j].next /\ a.info[j].prev = m.info[j].prev
                       /\ a.info[j].ref = IF j = i THEN l ELSE m.info[j].ref
  BY <1>2, <1>4 DEF InfoPut, SameInfo
<1> QED
  BY <1>4, <1>5 DEF a, InfoPut, RefPut

\* The info i has been appended to the list l, whose first and last elements
\* were head and last.
Appended(m, a, l, i, head, last) ==
    /\ a \in MemT
    /\ \A k \in Lists :
           /\ SameList(m, a, k)
           /\ a.list[k].head = IF k = l /\ head = NoInfo THEN i ELSE m.list[k].head
    /\ \A j \in Infos :
           /\ SameInfo(m, a, j)
           /\ a.info[j].owner = IF j = i THEN l ELSE m.info[j].owner
           /\ a.info[j].ref = IF j = i THEN m.info[j].ref + 1 ELSE m.info[j].ref
    /\ (head # NoInfo => head # i /\ last # i) =>
           \A j \in Infos :
               /\ a.info[j].next = IF j = i THEN NoInfo
                                   ELSE IF head # NoInfo /\ j = last THEN i
                                   ELSE m.info[j].next
               /\ a.info[j].prev = IF j = i THEN IF head = NoInfo THEN i ELSE last
                                   ELSE IF j = head THEN i
                                   ELSE m.info[j].prev

LEMMA AttachDoes ==
    ASSUME NEW m \in MemT, NEW l \in Lists, NEW i \in Infos, m.info[i].owner = NoList
    PROVE  Appended(m, Attach(m, l, i), l, i, m.list[l].head, m.info[m.list[l].head].prev)
<1> DEFINE head == m.list[l].head
           last == m.info[head].prev
           b1 == PutOwner(m, i, l)
           n == m.info[i].ref + 1
           b == PutRef(b1, i, n)
           a == Attach(m, l, i)
<1>1. OwnerPut(m, b1, i, l) /\ b1 \in MemT
  <2>1. OwnerPut(m, b1, i, l)
    BY SetOwner
  <2> HIDE DEF b1
  <2> QED
    BY <2>1 DEF OwnerPut
<1>2. b = [m EXCEPT !.info[i].owner = l, !.info[i].ref = @ + 1]
  <2>1. b1.info[i].ref = m.info[i].ref
    BY <1>1 DEF OwnerPut
  <2>2. b = PutRef(b1, i, b1.info[i].ref + 1)
    BY <2>1
  <2>3. [PutOwner(m, i, l) EXCEPT !.info[i].ref = @ + 1]
           = [m EXCEPT !.info[i].owner = l, !.info[i].ref = @ + 1]
    BY DEF PutOwner
  <2> QED
    BY <2>2, <2>3 DEF PutRef
<1>3. a = DL_APPEND(b, l, i)
  <2> HIDE DEF b
  <2> QED
    BY <1>2 DEF Attach
<1>4. head \in Infos \cup {NoInfo} /\ (head # NoInfo => last \in Infos \cup {NoInfo})
      /\ n \in Int /\ NoInfo \notin Infos
  <2>1. head \in Infos \cup {NoInfo} /\ m.info[i].ref \in Int
    BY FieldsAre
  <2>2. ASSUME NEW e \in Infos PROVE m.info[e].prev \in Infos \cup {NoInfo}
    BY FieldsAre
  <2>3. head # NoInfo => last \in Infos \cup {NoInfo}
    <3> HIDE DEF head
    <3> QED
      BY <2>1, <2>2
  <2> QED
    BY <2>1, <2>3, Numbers
<1> HIDE DEF b1, n
<1>5. RefPut(b1, b, i, n)
  BY <1>1, <1>4, SetRef
<1> HIDE DEF b
<1>6. /\ b \in MemT /\ b.list = m.list
      /\ \A j \in Infos : /\ SameInfo(m, b, j) /\ b.info[j].owner = IF j = i THEN l ELSE m.info[j].owner
                          /\ b.info[j].next = m.info[j].next /\ b.info[j].prev = m.info[j].prev
                          /\ b.info[j].ref = IF j = i THEN m.info[j].ref + 1 ELSE m.info[j].ref
  BY <1>1, <1>5 DEF SameInfo, OwnerPut, RefPut, n
<1>7. b.list[l].head = head /\ (head # NoInfo => b.info[head].prev = last)
  BY <1>4, <1>6
<1>8. CASE head = NoInfo
  <2> DEFINE c1 == PutHead(b, l, i)
             c2 == PutPrev(c1, i, i)
  <2>1. a = [b EXCEPT !.list[l].head = i, !.info[i].prev = i, !.info[i].next = NoInfo]
    BY <1>3, <1>7, <1>8 DEF DL_APPEND
  <2>2. a = PutNext(c2, i, NoInfo)
    BY <2>1 DEF PutHead, PutPrev, PutNext
  <2>3. HeadPut(b, c1, l, i)
    BY <1>6, SetHead
  <2> HIDE DEF c1
  <2>4. c1 \in MemT
    BY <2>3 DEF HeadPut
  <2>5. PrevPut(c1, c2, i, i)
    BY <2>4, SetPrev
  <2> HIDE DEF c2
  <2>6. c2 \in MemT
    BY <2>5 DEF PrevPut
  <2>7. NextPut(c2, a, i, NoInfo)
    BY <2>2, <2>6, SetNext
  <2> HIDE DEF a
  <2>8. a \in MemT /\ a.list = c1.list
    BY <2>5, <2>7 DEF NextPut, PrevPut
  <2>9. \A k \in Lists : SameList(m, a, k) /\ a.list[k].head = IF k = l THEN i ELSE m.list[k].head
    BY <1>6, <2>3, <2>8 DEF SameList, HeadPut
  <2>10. ASSUME NEW j \in Infos
         PROVE  /\ SameInfo(m, a, j)
                /\ a.info[j].owner = IF j = i THEN l ELSE m.info[j].owner
                /\ a.info[j].ref = IF j = i THEN m.info[j].ref + 1 ELSE m.info[j].ref
                /\ a.info[j].next = IF j = i THEN NoInfo ELSE m.info[j].next
                /\ a.info[j].prev = IF j = i THEN i ELSE m.info[j].prev
    BY <1>6, <2>3, <2>5, <2>7 DEF SameInfo, SameHold, HeadPut, PrevPut, NextPut
  <2>11. \A j \in Infos : j # head
    BY <1>4, <1>8
  <2> HIDE DEF head, last
  <2>12. Appended(m, a, l, i, head, last)
    BY <1>8, <2>8, <2>9, <2>10, <2>11, SMTT(30) DEF Appended
  <2> QED
    BY <2>12 DEF head, last, a
<1>9. CASE head # NoInfo
  <2> DEFINE c1 == PutPrev(b, i, last)
             c2 == PutNext(c1, last, i)
             c3 == PutPrev(c2, head, i)
  <2>1. a = [b EXCEPT !.info[i].prev = last, !.info[last].next = i, !.info[head].prev = i,
                      !.info[i].next = NoInfo]
    BY <1>3, <1>7, <1>9, ZenonT(40) DEF DL_APPEND
  <2>2. a = PutNext(c3, i, NoInfo)
    BY <2>1 DEF PutNext, PutPrev
  <2>3. head \in Infos /\ last \in Infos \cup {NoInfo}
    BY <1>4, <1>9
  <2> HIDE DEF head, last
  <2>4. PrevPut(b, c1, i, last)
    BY <1>6, <2>3, SetPrev
  <2> HIDE DEF c1
  <2>5. c1 \in MemT /\ c1.list = b.list
    BY <2>4 DEF PrevPut
  <2>6. NextPut(c1, c2, last, i)
    BY <2>3, <2>5, SetNext
  <2> HIDE DEF c2
  <2>7. c2 \in MemT /\ c2.list = b.list
    BY <2>5, <2>6 DEF NextPut
  <2>8. PrevPut(c2, c3, head, i)
    BY <2>3, <2>7, SetPrev
  <2> HIDE DEF c3
  <2>9. c3 \in MemT /\ c3.list = b.list
    BY <2>7, <2>8 DEF PrevPut
  <2>10. NextPut(c3, a, i, NoInfo)
    BY <2>2, <2>9, SetNext
  <2> HIDE DEF a
  <2>11. a \in MemT /\ a.list = m.list
    BY <1>6, <2>9, <2>10 DEF NextPut
  <2>12. \A k \in Lists : SameList(m, a, k) /\ a.list[k].head = m.list[k].head
    BY <2>11 DEF SameList
  <2>13. ASSUME NEW j \in Infos
         PROVE  /\ SameHold(b, a, j)
                /\ a.info[j].next = IF j = i THEN NoInfo ELSE IF j = last THEN i ELSE b.info[j].next
                /\ a.info[j].prev = IF j = head THEN i ELSE IF j = i THEN last ELSE b.info[j].prev
    <3>1. SameHold(b, c1, j) /\ c1.info[j].next = b.info[j].next
          /\ c1.info[j].prev = IF j = i THEN last ELSE b.info[j].prev
      BY <2>4 DEF PrevPut
    <3>2. SameHold(c1, c2, j) /\ c2.info[j].prev = c1.info[j].prev
          /\ c2.info[j].next = IF j = last THEN i ELSE c1.info[j].next
      BY <2>6 DEF NextPut
    <3>3. SameHold(c2, c3, j) /\ c3.info[j].next = c2.info[j].next
          /\ c3.info[j].prev = IF j = head THEN i ELSE c2.info[j].prev
      BY <2>8 DEF PrevPut
    <3>4. SameHold(c3, a, j) /\ a.info[j].prev = c3.info[j].prev
          /\ a.info[j].next = IF j = i THEN NoInfo ELSE c3.info[j].next
      BY <2>10 DEF NextPut
    <3>5. SameHold(b, a, j)
      BY <3>1, <3>2, <3>3, <3>4 DEF SameHold, SameInfo
    <3> QED
      BY <3>1, <3>2, <3>3, <3>4, <3>5
  <2>14. ASSUME NEW j \in Infos
         PROVE  /\ SameInfo(m, a, j)
                /\ a.info[j].owner = IF j = i THEN l ELSE m.info[j].owner
                /\ a.info[j].ref = IF j = i THEN m.info[j].ref + 1 ELSE m.info[j].ref
    BY <1>6, <2>13 DEF SameInfo, SameHold
  <2>15. ASSUME NEW j \in Infos, head # i, last # i
         PROVE  /\ a.info[j].next = IF j = i THEN NoInfo ELSE IF j = last THEN i ELSE m.info[j].next
                /\ a.info[j].prev = IF j = i THEN last ELSE IF j = head THEN i ELSE m.info[j].prev
    BY <1>6, <2>13, <2>15
  <2>16. Appended(m, a, l, i, head, last)
    BY <1>9, <2>11, <2>12, <2>14, <2>15 DEF Appended
  <2> QED
    BY <2>16 DEF head, last, a
<1> QED
  BY <1>8, <1>9

\* The info i has been taken out of the links of the list l, whose first element
\* was head, from between prev and next.
Unlinked(b, a, l, i, head, prev, next) ==
    /\ a \in MemT
    /\ \A k \in Lists :
           /\ SameList(b, a, k)
           /\ a.list[k].head = IF k # l THEN b.list[k].head
                               ELSE IF prev = i THEN NoInfo
                               ELSE IF i = head THEN next ELSE head
    /\ \A j \in Infos \ {i} :
           /\ SameHold(b, a, j)
           /\ a.info[j].next = IF prev # i /\ i # head /\ j = prev THEN next ELSE b.info[j].next
           /\ a.info[j].prev = IF prev # i /\ j = IF i = head \/ next # NoInfo THEN next ELSE head
                               THEN prev ELSE b.info[j].prev

LEMMA DeleteDoes ==
    ASSUME NEW b \in MemT, NEW l \in Lists, NEW i \in Infos
    PROVE  /\ Unlinked(b, DL_DELETE(b, l, i), l, i, b.list[l].head, b.info[i].prev, b.info[i].next)
           /\ SameHold(b, DL_DELETE(b, l, i), i)
<1> DEFINE head == b.list[l].head
           prev == b.info[i].prev
           next == b.info[i].next
           a == DL_DELETE(b, l, i)
<1>1. head \in Infos \cup {NoInfo} /\ prev \in Infos \cup {NoInfo} /\ next \in Infos \cup {NoInfo}
  BY FieldsAre
<1>2. CASE prev = i
  <2>1. a = PutHead(b, l, NoInfo)
    BY <1>2 DEF DL_DELETE, PutHead
  <2>2. HeadPut(b, a, l, NoInfo)
    BY <2>1, SetHead
  <2> HIDE DEF a, head, next, prev
  <2>3. \A j \in Infos : SameHold(b, a, j) /\ a.info[j].next = b.info[j].next /\ a.info[j].prev = b.info[j].prev
    BY <2>2 DEF HeadPut, SameHold, SameInfo
  <2>4. a \in MemT /\ \A k \in Lists : SameList(b, a, k) /\ a.list[k].head = IF k = l THEN NoInfo ELSE b.list[k].head
    BY <2>2 DEF HeadPut
  <2>5. Unlinked(b, a, l, i, head, prev, next)
    BY <1>2, <2>3, <2>4 DEF Unlinked
  <2> QED
    BY <2>3, <2>5 DEF a, head, prev, next
<1>3. CASE prev # i /\ i = head
  <2> DEFINE c == PutPrev(b, next, prev)
  <2>1. a = [b EXCEPT !.info[next].prev = prev, !.list[l].head = next]
    BY <1>3 DEF DL_DELETE
  <2>2. a = PutHead(c, l, next)
    BY <2>1 DEF PutHead, PutPrev
  <2> HIDE DEF head, prev, next
  <2>3. PrevPut(b, c, next, prev)
    BY <1>1, SetPrev
  <2> HIDE DEF c
  <2>4. c \in MemT /\ c.list = b.list
    BY <2>3 DEF PrevPut
  <2>5. HeadPut(c, a, l, next)
    BY <1>1, <2>2, <2>4, SetHead
  <2> HIDE DEF a
  <2>6. a \in MemT /\ a.info = c.info
        /\ \A k \in Lists : SameList(b, a, k) /\ a.list[k].head = IF k = l THEN next ELSE b.list[k].head
    BY <2>4, <2>5 DEF HeadPut, SameList
  <2>7. \A j \in Infos : /\ SameHold(b, a, j) /\ a.info[j].next = b.info[j].next
                         /\ a.info[j].prev = IF j = next THEN prev ELSE b.info[j].prev
    BY <2>3, <2>6 DEF PrevPut, SameHold, SameInfo
  <2>8. Unlinked(b, a, l, i, head, prev, next)
    BY <1>3, <2>6, <2>7 DEF Unlinked
  <2> QED
    BY <2>7, <2>8 DEF a, head, prev, next
<1>4. CASE prev # i /\ i # head
  <2> DEFINE c == PutNext(b, prev, next)
             after == IF next # NoInfo THEN next ELSE head
  <2>1. a = PutPrev(c, after, prev)
    BY <1>4 DEF DL_DELETE, PutNext, PutPrev
  <2> HIDE DEF head, prev, next
  <2>2. NextPut(b, c, prev, next)
    BY <1>1, SetNext
  <2> HIDE DEF c
  <2>3. c \in MemT /\ c.list = b.list /\ after \in Infos \cup {NoInfo}
    BY <1>1, <2>2 DEF NextPut
  <2> HIDE DEF after
  <2>4. PrevPut(c, a, after, prev)
    BY <1>1, <2>1, <2>3, SetPrev
  <2> HIDE DEF a
  <2>5. a \in MemT /\ a.list = b.list
    BY <2>3, <2>4 DEF PrevPut
  <2>6. \A j \in Infos : /\ SameHold(b, a, j)
                         /\ a.info[j].next = IF j = prev THEN next ELSE b.info[j].next
                         /\ a.info[j].prev = IF j = after THEN prev ELSE b.info[j].prev
    BY <2>2, <2>4 DEF NextPut, PrevPut, SameHold, SameInfo
  <2>7. \A k \in Lists : SameList(b, a, k) /\ a.list[k].head = IF k = l THEN head ELSE b.list[k].head
    BY <2>5 DEF SameList, head
  <2>8. Unlinked(b, a, l, i, head, prev, next)
    BY <1>4, <2>5, <2>6, <2>7 DEF Unlinked, after
  <2> QED
    BY <2>6, <2>8 DEF a, head, prev, next
<1> QED
  BY <1>2, <1>3, <1>4

\* DecInfo gives up one reference, the last one with the slot.
LEMMA DecDoes ==
    ASSUME NEW m \in MemT, NEW i \in Infos
    PROVE  InfoPut(m, DecInfo(m, i), i,
                   IF m.info[i].ref = 1 THEN FreeInfoSlot ELSE [m.info[i] EXCEPT !.ref = @ - 1])
<1> DEFINE r == [m.info[i] EXCEPT !.ref = @ - 1]
<1>1. FreeInfoSlot \in InfoT
  BY Numbers DEF FreeInfoSlot, InfoT, NoInfo, NoList, NoDevice
<1>2. r \in InfoT
  BY FieldsAre DEF InfoT
<1>3. CASE m.info[i].ref = 1
  <2>1. DecInfo(m, i) = PutInfo(m, i, FreeInfoSlot)
    BY <1>3 DEF DecInfo, PutInfo
  <2> QED
    BY <1>1, <1>3, <2>1, EditInfo
<1>4. CASE m.info[i].ref # 1
  <2>1. DecInfo(m, i) = PutInfo(m, i, r)
    BY <1>4 DEF DecInfo, PutInfo
  <2> HIDE DEF r
  <2>2. InfoPut(m, DecInfo(m, i), i, r)
    BY <1>2, <2>1, EditInfo
  <2> QED
    BY <1>4, <2>2 DEF r
<1> QED
  BY <1>3, <1>4

LEMMA DetachDoes ==
    ASSUME NEW m \in MemT, NEW l \in Lists, NEW i \in Infos, m.info[i].owner = l
    PROVE  /\ Unlinked(m, Detach(m, l, i), l, i, m.list[l].head, m.info[i].prev, m.info[i].next)
           /\ m.info[i].ref = 2 => /\ SameInfo(m, Detach(m, l, i), i)
                                   /\ Detach(m, l, i).info[i].owner = NoList
                                   /\ Detach(m, l, i).info[i].ref = 1
           /\ m.list[l].current = i => Detach(m, l, i).list[l].stray
<1> DEFINE o == PutOwner(m, i, NoList)
           x == m.list[l].stray \/ m.list[l].current = i
           b == PutStray(o, l, x)
           c == DL_DELETE(b, l, i)
           a == Detach(m, l, i)
           head == m.list[l].head
           prev == m.info[i].prev
           next == m.info[i].next
           r == IF c.info[i].ref = 1 THEN FreeInfoSlot ELSE [c.info[i] EXCEPT !.ref = @ - 1]
<1>0. OwnerPut(m, o, i, NoList)
  BY SetOwner
<1>2. a = DecInfo(c, i)
  BY DEF Detach, PutOwner, PutStray
<1> HIDE DEF o
<1>1. o \in MemT /\ o.list = m.list /\ x \in BOOLEAN /\ (o.list[l].stray => x)
  BY <1>0, FieldsAre DEF OwnerPut, ListType
<1>11. HeadPut(o, b, l, o.list[l].head) /\ (x => b.list[l].stray)
  <2> HIDE DEF x
  <2> QED
    BY <1>1, SetStray
<1> HIDE DEF b
<1>3. /\ b \in MemT /\ b.list[l].head = head
      /\ b.info[i].prev = prev /\ b.info[i].next = next
      /\ b.info[i].owner = NoList /\ b.info[i].ref = m.info[i].ref /\ SameInfo(m, b, i)
  BY <1>0, <1>1, <1>11 DEF OwnerPut, HeadPut, SameInfo
<1> HIDE DEF head, prev, next
<1>4. Unlinked(b, c, l, i, head, prev, next) /\ SameHold(b, c, i)
  BY <1>3, DeleteDoes
<1> HIDE DEF c
<1>5. c \in MemT
  BY <1>4 DEF Unlinked
<1>6. InfoPut(c, a, i, r)
  BY <1>2, <1>5, DecDoes
<1> HIDE DEF a
<1>7. a \in MemT /\ a.list = c.list /\ \A j \in Infos \ {i} : a.info[j] = c.info[j]
  BY <1>6 DEF InfoPut
<1>8. \A k \in Lists : /\ SameList(m, a, k)
                       /\ a.list[k].head = IF k # l THEN m.list[k].head
                                           ELSE IF prev = i THEN NoInfo
                                           ELSE IF i = head THEN next ELSE head
  <2>1. \A k \in Lists : SameList(m, b, k) /\ b.list[k].head = m.list[k].head
    BY <1>1, <1>11 DEF HeadPut, SameList
  <2> QED
    BY <1>4, <1>7, <2>1 DEF Unlinked, SameList
<1>9. ASSUME NEW j \in Infos \ {i}
      PROVE  /\ SameHold(m, a, j)
             /\ a.info[j].next = IF prev # i /\ i # head /\ j = prev THEN next ELSE m.info[j].next
             /\ a.info[j].prev = IF prev # i /\ j = IF i = head \/ next # NoInfo THEN next ELSE head
                                 THEN prev ELSE m.info[j].prev
  <2>1. /\ SameHold(m, b, j) /\ b.info[j].next = m.info[j].next /\ b.info[j].prev = m.info[j].prev
    BY <1>0, <1>11 DEF OwnerPut, HeadPut, SameHold, SameInfo
  <2>2. /\ SameHold(b, c, j)
        /\ c.info[j].next = IF prev # i /\ i # head /\ j = prev THEN next ELSE b.info[j].next
        /\ c.info[j].prev = IF prev # i /\ j = IF i = head \/ next # NoInfo THEN next ELSE head
                            THEN prev ELSE b.info[j].prev
    BY <1>4 DEF Unlinked
  <2>3. a.info[j] = c.info[j]
    BY <1>7
  <2> QED
    BY <2>1, <2>2, <2>3 DEF SameHold, SameInfo
<1>10. ASSUME m.info[i].ref = 2
       PROVE  SameInfo(m, a, i) /\ a.info[i].owner = NoList /\ a.info[i].ref = 1
  <2>1. c.info[i] \in InfoT /\ c.info[i].ref = 2 /\ c.info[i].owner = NoList
    BY <1>3, <1>4, <1>5, <1>10, FieldsAre DEF SameHold
  <2>2. SameInfo(m, c, i)
    BY <1>3, <1>4 DEF SameInfo, SameHold
  <2>3. a.info[i] = [c.info[i] EXCEPT !.ref = @ - 1]
    BY <1>6, <2>1 DEF InfoPut
  <2> QED
    BY <2>1, <2>2, <2>3 DEF SameInfo, InfoT
<1>12. Unlinked(m, a, l, i, head, prev, next)
  BY <1>7, <1>8, <1>9 DEF Unlinked
<1>13. m.list[l].current = i => a.list[l].stray
  BY <1>4, <1>7, <1>11 DEF Unlinked, SameList
<1> QED
  BY <1>10, <1>12, <1>13 DEF a, head, prev, next

-----------------------------------------------------------------------------
(***************************************************************************)
(* Chains: what DL_FOREACH meets, and what an info appended or removed     *)
(* makes of it.                                                            *)
(***************************************************************************)
LEMMA AppendIs ==
    ASSUME NEW s \in Seq(Infos), IsInjective(s), NEW i \in Infos, i \notin Range(s)
    PROVE  /\ Append(s, i) \in Seq(Infos) /\ IsInjective(Append(s, i))
           /\ Range(Append(s, i)) = Range(s) \cup {i}
           /\ Len(Append(s, i)) = Len(s) + 1
           /\ Append(s, i)[Len(s) + 1] = i
           /\ \A k \in 1 .. Len(s) : Append(s, i)[k] = s[k] /\ s[k] # i
<1> DEFINE n == Len(s)
           t == Append(s, i)
<1>1. /\ n \in Nat /\ t \in Seq(Infos) /\ Len(t) = n + 1 /\ t[n + 1] = i
      /\ \A k \in 1 .. n : t[k] = s[k]
  OBVIOUS
<1>2. DOMAIN s = 1 .. n /\ DOMAIN t = 1 .. n + 1
  BY <1>1
<1> HIDE DEF n, t
<1>3. \A k \in 1 .. n : s[k] # i
  BY <1>2 DEF Range
<1>4. IsInjective(t)
  BY <1>1, <1>2, <1>3 DEF IsInjective
<1>5. \A k \in 1 .. n + 1 : k \in 1 .. n \/ k = n + 1
  BY <1>1
<1>6. Range(t) = Range(s) \cup {i}
  <2>1. ASSUME NEW x \in Range(t) PROVE x \in Range(s) \cup {i}
    BY <1>1, <1>2, <1>5, <2>1 DEF Range
  <2>2. ASSUME NEW x \in Range(s) PROVE x \in Range(t)
    BY <1>1, <1>2, <2>2 DEF Range
  <2>3. i \in Range(t)
    BY <1>1, <1>2 DEF Range
  <2> QED
    BY <2>1, <2>2, <2>3
<1> QED
  BY <1>1, <1>3, <1>4, <1>6 DEF n, t

\* s without its element at p.
Cut(s, p) == [k \in 1 .. Len(s) - 1 |-> IF k < p THEN s[k] ELSE s[k + 1]]

LEMMA CutIs ==
    ASSUME NEW s \in Seq(Infos), IsInjective(s), NEW p \in 1 .. Len(s)
    PROVE  /\ Cut(s, p) \in Seq(Infos) /\ IsInjective(Cut(s, p))
           /\ Range(Cut(s, p)) = Range(s) \ {s[p]}
           /\ Len(Cut(s, p)) = Len(s) - 1
<1> DEFINE n == Len(s)
           r == Cut(s, p)
<1>1. n \in Nat \ {0} /\ DOMAIN s = 1 .. n /\ p \in 1 .. n
  OBVIOUS
<1>2. \A k \in 1 .. n : s[k] \in Infos
  OBVIOUS
<1> HIDE DEF n
<1>3. /\ n - 1 \in Nat
      /\ \A k \in 1 .. n - 1 : k \in 1 .. n /\ k + 1 \in 1 .. n
  BY <1>1
<1>4. r = [k \in 1 .. n - 1 |-> IF k < p THEN s[k] ELSE s[k + 1]]
  BY DEF Cut, n
<1>5. r \in Seq(Infos) /\ Len(r) = n - 1 /\ DOMAIN r = 1 .. n - 1
  BY <1>2, <1>3, <1>4
<1>6. \A k \in 1 .. n - 1 : r[k] = IF k < p THEN s[k] ELSE s[k + 1]
  BY <1>4
<1> HIDE DEF r
<1>7. IsInjective(r)
  <2> SUFFICES ASSUME NEW k \in 1 .. n - 1, NEW j \in 1 .. n - 1, r[k] = r[j] PROVE k = j
    BY <1>5 DEF IsInjective
  <2>1. \A x, y \in 1 .. n : s[x] = s[y] => x = y
    BY <1>1 DEF IsInjective
  <2> DEFINE x == IF k < p THEN k ELSE k + 1
             y == IF j < p THEN j ELSE j + 1
  <2>2. x \in 1 .. n /\ y \in 1 .. n /\ s[x] = s[y]
    BY <1>3, <1>6
  <2>3. x = y
    BY <2>1, <2>2
  <2> QED
    BY <1>1, <2>3
<1>8. ASSUME NEW x \in Range(r) PROVE x \in Range(s) \ {s[p]}
  <2>1. PICK k \in 1 .. n - 1 : x = r[k]
    BY <1>5, <1>8 DEF Range
  <2> DEFINE j == IF k < p THEN k ELSE k + 1
  <2>2. j \in 1 .. n /\ j # p /\ x = s[j]
    BY <1>1, <1>3, <1>6, <2>1
  <2> HIDE DEF j
  <2> QED
    BY <1>1, <2>2 DEF Range, IsInjective
<1>9. ASSUME NEW x \in Range(s) \ {s[p]} PROVE x \in Range(r)
  <2>1. PICK j \in 1 .. n : x = s[j] /\ j # p
    BY <1>1, <1>9 DEF Range
  <2> DEFINE k == IF j < p THEN j ELSE j - 1
  <2>2. k \in 1 .. n - 1 /\ r[k] = x
    BY <1>1, <1>6, <2>1
  <2> HIDE DEF k
  <2> QED
    BY <1>5, <2>2 DEF Range
<1> QED
  BY <1>5, <1>7, <1>8, <1>9 DEF n, r

LEMMA AttachedList ==
    ASSUME NEW m \in MemT, NEW l \in Lists, NEW i \in Infos, m.info[i].owner = NoList,
           NEW s, IsList(m, l, s), i \notin Range(s)
    PROVE  /\ IsList(Attach(m, l, i), l, Append(s, i))
           /\ \A k \in Lists \ {l} : \A t :
                  IsList(m, k, t) /\ Range(s) \cap Range(t) = {} /\ i \notin Range(t)
                      => IsList(Attach(m, l, i), k, t)
<1> DEFINE a == Attach(m, l, i)
           n == Len(s)
           t == Append(s, i)
           head == m.list[l].head
           last == m.info[head].prev
<1>1. /\ n \in Nat /\ DOMAIN s = 1 .. n
      /\ \A k \in 1 .. n : s[k] \in Infos /\ s[k] \in Range(s) /\ s[k] # i
  BY DEF IsList, Range
<1>2. \A j, k \in 1 .. n : s[j] = s[k] => j = k
  BY <1>1 DEF IsList, IsInjective
<1>3. /\ n = 0 => head = NoInfo
      /\ n # 0 => head = s[1]
  BY DEF IsList
<1>4. Links(m, s, n)
  BY DEF IsList
<1>5. Appended(m, a, l, i, head, last)
  BY AttachDoes
<1>6. /\ t \in Seq(Infos) /\ IsInjective(t) /\ Len(t) = n + 1 /\ t[n + 1] = i
      /\ \A k \in 1 .. n : t[k] = s[k]
  BY AppendIs DEF IsList
<1> HIDE DEF a, n, t
<1>7. n # 0 => last = s[n]
  BY <1>1, <1>3, <1>4 DEF Links
<1> HIDE DEF head, last
<1>8. head = NoInfo <=> n = 0
  BY <1>1, <1>3, Numbers
<1>9. n # 0 => head # i /\ last # i
  BY <1>1, <1>3, <1>7
<1>10. /\ \A k \in Lists : a.list[k].head = IF k = l /\ n = 0 THEN i ELSE m.list[k].head
       /\ \A j \in Infos :
              /\ a.info[j].next = IF j = i THEN NoInfo
                                  ELSE IF n # 0 /\ j = last THEN i ELSE m.info[j].next
              /\ a.info[j].prev = IF j = i THEN IF n = 0 THEN i ELSE last
                                  ELSE IF j = head THEN i ELSE m.info[j].prev
  BY <1>5, <1>8, <1>9 DEF Appended
<1>11. a.list[l].head = t[1]
  BY <1>1, <1>3, <1>6, <1>10 DEF head
<1>12. ASSUME NEW k \in 1 .. n + 1
       PROVE  /\ k = n + 1 => a.info[t[k]].next = NoInfo
              /\ k # n + 1 => a.info[t[k]].next = t[k + 1]
              /\ k = 1 => a.info[t[k]].prev = t[n + 1]
              /\ k # 1 => a.info[t[k]].prev = t[k - 1]
  <2>1. CASE k = n + 1
    <3>1. t[k] = i /\ a.info[i].next = NoInfo /\ a.info[i].prev = IF n = 0 THEN i ELSE last
      BY <1>6, <1>10, <2>1
    <3>2. k = 1 <=> n = 0
      BY <1>1, <2>1
    <3>3. k # 1 => t[k - 1] = s[n]
      BY <1>1, <1>6, <2>1
    <3> QED
      BY <1>6, <1>7, <2>1, <3>1, <3>2, <3>3
  <2>2. CASE k \in 1 .. n
    <3>1. t[k] = s[k] /\ s[k] \in Infos /\ s[k] # i /\ n # 0
      BY <1>1, <1>6, <2>2
    <3>2. s[k] = last <=> k = n
      BY <1>1, <1>2, <1>7, <2>2
    <3>3. s[k] = head <=> k = 1
      BY <1>1, <1>2, <1>3, <2>2
    <3>4. /\ k = n => a.info[s[k]].next = i
          /\ k # n => a.info[s[k]].next = s[k + 1]
          /\ k = 1 => a.info[s[k]].prev = i
          /\ k # 1 => a.info[s[k]].prev = s[k - 1]
      BY <1>4, <1>10, <2>2, <3>1, <3>2, <3>3 DEF Links
    <3>5. /\ k = n => t[k + 1] = i
          /\ k # n => t[k + 1] = s[k + 1]
          /\ k # 1 => t[k - 1] = s[k - 1]
          /\ k # n + 1 /\ t[n + 1] = i
      BY <1>1, <1>6, <2>2
    <3> QED
      BY <3>1, <3>4, <3>5
  <2> QED
    BY <1>1, <2>1, <2>2
<1>13. IsList(a, l, t)
  <2>1. Links(a, t, n + 1)
    BY <1>12 DEF Links
  <2> QED
    BY <1>1, <1>6, <1>11, <2>1 DEF IsList
<1>14. ASSUME NEW k \in Lists \ {l}, NEW u, IsList(m, k, u), Range(s) \cap Range(u) = {},
              i \notin Range(u)
       PROVE  IsList(a, k, u)
  <2>1. \A j \in Range(u) : j \in Infos
    BY <1>14 DEF IsList, Range
  <2>2. n # 0 => head \in Range(s) /\ last \in Range(s)
    BY <1>1, <1>3, <1>7
  <2>3. \A j \in Range(u) : j # i /\ j # head /\ (n # 0 => j # last)
    BY <1>3, <1>14, <2>1, <2>2, Numbers
  <2>4. \A j \in Range(u) : a.info[j].next = m.info[j].next /\ a.info[j].prev = m.info[j].prev
    BY <1>10, <2>1, <2>3
  <2>5. a.list[k].head = m.list[k].head
    BY <1>10, <1>14
  <2> QED
    BY <1>14, <2>4, <2>5, ListKept
<1> QED
  BY <1>13, <1>14 DEF a, t

LEMMA DetachedList ==
    ASSUME NEW m \in MemT, NEW l \in Lists,
           NEW s, IsList(m, l, s), NEW p \in 1 .. Len(s), m.info[s[p]].owner = l
    PROVE  /\ IsList(Detach(m, l, s[p]), l, Cut(s, p))
           /\ \A k \in Lists \ {l} : \A t :
                  IsList(m, k, t) /\ Range(s) \cap Range(t) = {}
                      => IsList(Detach(m, l, s[p]), k, t)
<1> DEFINE n == Len(s)
           i == s[p]
           a == Detach(m, l, i)
           t == Cut(s, p)
           head == m.list[l].head
           prev == m.info[i].prev
           next == m.info[i].next
<1>1. /\ n \in Nat \ {0} /\ DOMAIN s = 1 .. n /\ p \in 1 .. n
      /\ \A k \in 1 .. n : s[k] \in Infos /\ s[k] \in Range(s) /\ s[k] # NoInfo
  BY Numbers DEF IsList, Range
<1>2. \A j, k \in 1 .. n : s[j] = s[k] => j = k
  BY <1>1 DEF IsList, IsInjective
<1>3. Links(m, s, n) /\ head = s[1]
  BY <1>1 DEF IsList
<1>4. Unlinked(m, a, l, i, head, prev, next)
  BY <1>1, DetachDoes
<1>5. t \in Seq(Infos) /\ IsInjective(t) /\ Len(t) = n - 1
  BY CutIs DEF IsList
<1>6. \A k \in 1 .. n - 1 : t[k] = IF k < p THEN s[k] ELSE s[k + 1]
  BY DEF Cut
<1> HIDE DEF a, n, t
<1>7. /\ p = n => next = NoInfo
      /\ p # n => next = s[p + 1]
      /\ p = 1 => prev = s[n]
      /\ p # 1 => prev = s[p - 1]
  BY <1>1, <1>3 DEF Links
<1>8. p \in 1 .. n /\ (p # n => p + 1 \in 1 .. n) /\ (p # 1 => p - 1 \in 1 .. n) /\ 1 \in 1 .. n /\ n \in 1 .. n
  BY <1>1
<1> HIDE DEF head, prev, next
<1>9. prev = i <=> n = 1
  BY <1>1, <1>2, <1>7, <1>8
<1>10. i = head <=> p = 1
  BY <1>2, <1>3, <1>8
<1>11. next = NoInfo <=> p = n
  BY <1>1, <1>7, <1>8
<1> DEFINE q == IF p = n THEN 1 ELSE p + 1
<1>12. n # 1 => s[q] = IF i = head \/ next # NoInfo THEN next ELSE head
  BY <1>1, <1>3, <1>7, <1>10, <1>11
<1> HIDE DEF i
<1>13. /\ a.list[l].head = IF n = 1 THEN NoInfo ELSE IF p = 1 THEN next ELSE head
       /\ \A k \in Lists \ {l} : a.list[k].head = m.list[k].head
       /\ \A j \in Infos \ {i} :
              /\ a.info[j].next = IF n # 1 /\ p # 1 /\ j = prev THEN next ELSE m.info[j].next
              /\ a.info[j].prev = IF n # 1 /\ j = s[q] THEN prev ELSE m.info[j].prev
  BY <1>4, <1>9, <1>10, <1>12 DEF Unlinked
<1>14. /\ n - 1 = 0 => a.list[l].head = NoInfo
       /\ n - 1 # 0 => a.list[l].head = t[1]
  <2>1. CASE n = 1
    BY <1>13, <2>1
  <2>2. CASE n # 1
    <3>1. 1 \in 1 .. n - 1 /\ (1 < p <=> p # 1) /\ (p = 1 => p # n)
      BY <1>1, <2>2
    <3>2. t[1] = IF p # 1 THEN s[1] ELSE s[2]
      BY <1>6, <3>1
    <3>3. p = 1 => next = s[2]
      BY <1>7, <3>1
    <3> QED
      BY <1>1, <1>3, <1>13, <2>2, <3>2, <3>3
  <2> QED
    BY <2>1, <2>2
<1>15. ASSUME NEW k \in 1 .. n - 1
       PROVE  /\ k = n - 1 => a.info[t[k]].next = NoInfo
              /\ k # n - 1 => a.info[t[k]].next = t[k + 1]
              /\ k = 1 => a.info[t[k]].prev = t[n - 1]
              /\ k # 1 => a.info[t[k]].prev = t[k - 1]
  <2> DEFINE x == IF k < p THEN k ELSE k + 1
  <2>1. n # 1 /\ x \in 1 .. n /\ x # p /\ t[k] = s[x] /\ (k < p => x = k) /\ (~(k < p) => x = k + 1)
        /\ k \in Int /\ p \in Int /\ n \in Int
    BY <1>1, <1>6
  <2> HIDE DEF x
  <2>2. s[x] \in Infos \ {i} /\ q \in 1 .. n
    BY <1>1, <1>2, <1>8, <2>1 DEF i
  <2>3. p # 1 /\ s[x] = prev <=> x = p - 1
    BY <1>1, <1>2, <1>7, <1>8, <2>1
  <2>4. s[x] = s[q] <=> x = q
    BY <1>2, <2>1, <2>2
  <2>5. /\ x = p - 1 => a.info[s[x]].next = next
        /\ x # p - 1 => a.info[s[x]].next = m.info[s[x]].next
        /\ x = q => a.info[s[x]].prev = prev
        /\ x # q => a.info[s[x]].prev = m.info[s[x]].prev
    <3> HIDE DEF q
    <3> QED
      BY <1>13, <2>1, <2>2, <2>3, <2>4
  <2>6. /\ x = n => m.info[s[x]].next = NoInfo
        /\ x # n => m.info[s[x]].next = s[x + 1]
        /\ x = 1 => m.info[s[x]].prev = s[n]
        /\ x # 1 => m.info[s[x]].prev = s[x - 1]
    BY <1>3, <2>1 DEF Links
  <2>7. \A y \in 1 .. n - 1 : /\ y < p => t[y] = s[y]
                              /\ ~(y < p) => t[y] = s[y + 1]
    BY <1>6
  <2>8. /\ k = n - 1 => a.info[s[x]].next = NoInfo
        /\ k # n - 1 => a.info[s[x]].next = t[k + 1]
    <3>1. CASE x = p - 1
      <4>1. k = p - 1 /\ a.info[s[x]].next = next
        BY <2>1, <2>5, <3>1
      <4>2. k = n - 1 => p = n
        BY <2>1, <4>1
      <4>3. k # n - 1 => p # n /\ k + 1 \in 1 .. n - 1 /\ ~(k + 1 < p) /\ (k + 1) + 1 = p + 1
        BY <1>1, <2>1, <4>1
      <4>4. k # n - 1 => t[k + 1] = s[p + 1]
        BY <2>7, <4>3
      <4> QED
        BY <1>7, <4>1, <4>2, <4>3, <4>4
    <3>2. CASE x # p - 1
      <4>1. k = n - 1 <=> x = n
        BY <1>1, <2>1, <3>2
      <4>2. k # n - 1 => k + 1 \in 1 .. n - 1
        BY <2>1
      <4>3. k # n - 1 => t[k + 1] = s[x + 1]
        <5>1. CASE k < p
          <6>1. x = k /\ k + 1 < p
            BY <1>1, <2>1, <3>2, <5>1
          <6> QED
            BY <2>7, <4>2, <6>1
        <5>2. CASE ~(k < p)
          <6>1. x = k + 1 /\ ~(k + 1 < p)
            BY <1>1, <2>1, <3>2, <5>2
          <6> QED
            BY <2>7, <4>2, <6>1
        <5> QED
          BY <5>1, <5>2
      <4> QED
        BY <2>5, <2>6, <3>2, <4>1, <4>3
    <3> QED
      BY <3>1, <3>2
  <2>9. /\ k = 1 => a.info[s[x]].prev = t[n - 1]
        /\ k # 1 => a.info[s[x]].prev = t[k - 1]
    <3>1. n - 1 \in 1 .. n - 1 /\ (p = n => n - 1 < p) /\ (p # n => ~(n - 1 < p)) /\ (n - 1) + 1 = n
      BY <1>1, <2>1
    <3>2. /\ p = n => t[n - 1] = s[n - 1]
          /\ p # n => t[n - 1] = s[n]
      BY <2>7, <3>1
    <3>3. k # 1 => k - 1 \in 1 .. n - 1 /\ (k - 1) + 1 = k
      BY <2>1
    <3>4. CASE x = q
      <4>1. a.info[s[x]].prev = prev
        BY <2>5, <3>4
      <4>2. CASE p = n
        <5>1. x = 1 /\ k = 1 /\ p # 1
          BY <2>1, <3>4, <4>2
        <5> QED
          BY <1>7, <3>2, <4>1, <4>2, <5>1
      <4>3. CASE p # n
        <5>1. x = p + 1
          BY <3>4, <4>3
        <5>2. k = p
          BY <2>1, <5>1
        <5>3. k # 1 => k - 1 < p
          BY <2>1, <5>2
        <5>4. k # 1 => t[k - 1] = s[p - 1]
          BY <2>7, <3>3, <5>2, <5>3
        <5> QED
          BY <1>7, <3>2, <4>1, <4>3, <5>2, <5>4
      <4> QED
        BY <4>2, <4>3
    <3>5. CASE x # q
      <4>1. x = 1 => k = 1 /\ p # n
        BY <1>1, <2>1, <3>5
      <4>2. k = 1 => x = 1
        BY <1>1, <2>1, <3>5
      <4>3. k # 1 => t[k - 1] = s[x - 1]
        <5>1. CASE k < p
          <6>1. x = k /\ k - 1 < p
            BY <2>1, <5>1
          <6> QED
            BY <2>7, <3>3, <6>1
        <5>2. CASE ~(k < p)
          <6>1. x = k + 1 /\ ~(k - 1 < p)
            BY <1>1, <2>1, <3>5, <5>2
          <6>2. x - 1 = k
            BY <2>1, <6>1
          <6> QED
            BY <2>7, <3>3, <6>1, <6>2
        <5> QED
          BY <5>1, <5>2
      <4> QED
        BY <2>5, <2>6, <3>2, <3>5, <4>1, <4>2, <4>3
    <3> QED
      BY <3>4, <3>5
  <2> QED
    BY <2>1, <2>8, <2>9
<1>16. IsList(a, l, t)
  <2>1. Links(a, t, n - 1)
    BY <1>15 DEF Links
  <2> QED
    BY <1>5, <1>14, <2>1 DEF IsList
<1>17. ASSUME NEW k \in Lists \ {l}, NEW u, IsList(m, k, u), Range(s) \cap Range(u) = {}
       PROVE  IsList(a, k, u)
  <2>1. \A j \in Range(u) : j \in Infos
    BY <1>17 DEF IsList, Range
  <2>2. i \in Range(s) /\ prev \in Range(s) /\ s[q] \in Range(s)
    BY <1>1, <1>7, <1>8 DEF i
  <2>3. \A j \in Range(u) : j # i /\ j # prev /\ j # s[q]
    BY <1>17, <2>2
  <2>4. \A j \in Range(u) : a.info[j].next = m.info[j].next /\ a.info[j].prev = m.info[j].prev
    BY <1>13, <2>1, <2>3
  <2> QED
    BY <1>13, <1>17, <2>4, ListKept
<1> QED
  BY <1>16, <1>17 DEF a, t, i

-----------------------------------------------------------------------------
(***************************************************************************)
(* What each operation on one info leaves in order.                        *)
(***************************************************************************)

\* All but the cursors and infos of the lists T stays where it is.
Keeps(m, a, T) ==
    /\ \A k \in Lists \ T : SameList(m, a, k)
    /\ \A j \in Infos : m.info[j].owner \in Lists \ T => a.info[j].owner = m.info[j].owner

\* Infos that are not on list l are untouched, those on it stay or are let go.
Spares(m, a, l) ==
    \A j \in Infos : IF m.info[j].owner = l THEN a.info[j].owner \in {l, NoList}
                     ELSE a.info[j].owner = m.info[j].owner /\ SameInfo(m, a, j)

\* The lists are as they were, but for their chains.
SameLists(m, a) == \A k \in Lists : SameList(m, a, k)

\* i is the only info whose list may be another one, the list x.
Moved(m, a, i, x) == \A j \in Infos : a.info[j].owner = IF j = i THEN x ELSE m.info[j].owner

LEMMA KeepsTogether ==
    ASSUME NEW T, NEW m, NEW a, NEW b, Keeps(m, a, T), Keeps(a, b, T)
    PROVE  Keeps(m, b, T)
BY DEF Keeps, SameList

\* Two lists in use have no info in common.
LEMMA Apart ==
    ASSUME NEW m, NEW l \in Lists, NEW k \in Lists, l # k
    PROVE  Attached(m, l) \cap Attached(m, k) = {}
BY DEF Attached

\* An info that is on no list is given other contents.
LEMMA OffList ==
    ASSUME NEW m, NEW H, Sound(m, H), NEW i \in Infos, m.info[i].owner = NoList,
           NEW r \in InfoT, r.owner = NoList, NEW G,
           \/ r.use /\ r.ref = 1 /\ G = H \cup {i}
           \/ ~r.use /\ r.ref = 0 /\ G = H \ {i}
    PROVE  Sound(PutInfo(m, i, r), G) /\ InfoPut(m, PutInfo(m, i, r), i, r)
<1> DEFINE a == PutInfo(m, i, r)
<1>1. m \in MemT /\ H = Loose(m) /\ RefsOK(m) /\ Linked(m)
  BY DEF Sound
<1>21. InfoPut(m, a, i, r)
  BY <1>1, EditInfo
<1> HIDE DEF a
<1>2. a \in MemT /\ a.list = m.list /\ \A j \in Infos : a.info[j] = IF j = i THEN r ELSE m.info[j]
  BY <1>21 DEF InfoPut
<1>3. r.use \in BOOLEAN
  BY DEF InfoT
<1>4. Loose(a) = G
  BY <1>1, <1>2, <1>3 DEF Loose
<1>5. RefsOK(a)
  BY <1>1, <1>2, <1>3 DEF RefsOK
<1>6. Linked(a)
  <2> SUFFICES ASSUME NEW k \in Lists, a.list[k].use
               PROVE  \E s : IsList(a, k, s) /\ Range(s) = Attached(a, k)
    BY DEF Linked
  <2>1. PICK s : IsList(m, k, s) /\ Range(s) = Attached(m, k)
    BY <1>1, <1>2 DEF Linked
  <2>2. Attached(a, k) = Attached(m, k)
    BY <1>2, Numbers DEF Attached
  <2>3. \A j \in Range(s) : j \in Infos /\ j # i
    BY <2>1, Numbers DEF Attached
  <2>4. IsList(a, k, s)
    BY <1>2, <2>1, <2>3, ListKept
  <2> QED
    BY <2>1, <2>2, <2>4
<1> QED
  BY <1>21, <1>2, <1>4, <1>5, <1>6 DEF Sound, a

\* a differs from m in what its infos say of their devices only.
Paints(m, a) ==
    /\ a \in MemT /\ a.list = m.list
    /\ \A j \in Infos :
           /\ a.info[j].use = m.info[j].use /\ a.info[j].ref = m.info[j].ref
           /\ a.info[j].next = m.info[j].next /\ a.info[j].prev = m.info[j].prev
           /\ a.info[j].owner = m.info[j].owner

LEMMA PaintedIs ==
    ASSUME NEW m, NEW H, Sound(m, H), NEW a, Paints(m, a)
    PROVE  Sound(a, H)
<1>1. m \in MemT /\ H = Loose(m) /\ RefsOK(m) /\ Linked(m)
  BY DEF Sound
<1>2. Loose(a) = H
  BY <1>1 DEF Loose, Paints
<1>3. RefsOK(a)
  BY <1>1 DEF RefsOK, Paints
<1>4. Linked(a)
  <2> SUFFICES ASSUME NEW k \in Lists, a.list[k].use
               PROVE  \E s : IsList(a, k, s) /\ Range(s) = Attached(a, k)
    BY DEF Linked
  <2>1. PICK s : IsList(m, k, s) /\ Range(s) = Attached(m, k)
    BY <1>1 DEF Linked, Paints
  <2>2. Attached(a, k) = Attached(m, k)
    BY DEF Attached, Paints
  <2>3. \A j \in Range(s) : j \in Infos
    BY <2>1 DEF Attached
  <2>4. IsList(a, k, s)
    BY <2>1, <2>3, ListKept DEF Paints
  <2> QED
    BY <2>1, <2>2, <2>4
<1> QED
  BY <1>2, <1>3, <1>4 DEF Sound, Paints

PutFlags(m, i, f) == [m EXCEPT !.info[i].flags = f]
PutConn(m, i, c, f) == [m EXCEPT !.info[i].conn = c, !.info[i].flags = f]

LEMMA PaintsOne ==
    ASSUME NEW m \in MemT, NEW i \in Infos, NEW c \in BOOLEAN, NEW f \in SUBSET SyncFlags
    PROVE  Paints(m, m) /\ Paints(m, PutFlags(m, i, f)) /\ Paints(m, PutConn(m, i, c, f))
<1>1. Paints(m, m)
  BY DEF Paints
<1>2. ASSUME NEW r, r = [m.info[i] EXCEPT !.flags = f] \/ r = [m.info[i] EXCEPT !.conn = c, !.flags = f]
      PROVE  Paints(m, [m EXCEPT !.info[i] = r])
  <2> DEFINE a == PutInfo(m, i, r)
  <2>1. m.info[i] \in InfoT
    BY DEF MemT
  <2>2. /\ r \in InfoT /\ r.use = m.info[i].use /\ r.ref = m.info[i].ref /\ r.next = m.info[i].next
        /\ r.prev = m.info[i].prev /\ r.owner = m.info[i].owner
    BY <1>2, <2>1 DEF InfoT
  <2>3. InfoPut(m, a, i, r)
    BY <2>2, EditInfo
  <2> HIDE DEF a
  <2>4. Paints(m, a)
    BY <2>2, <2>3 DEF Paints, InfoPut
  <2> QED
    BY <2>4 DEF a, PutInfo
<1>3. [m EXCEPT !.info[i].flags = f] = [m EXCEPT !.info[i] = [m.info[i] EXCEPT !.flags = f]]
  BY DEF MemT, InfoT
<1>4. [m EXCEPT !.info[i].conn = c, !.info[i].flags = f]
         = [m EXCEPT !.info[i] = [m.info[i] EXCEPT !.conn = c, !.flags = f]]
  BY DEF MemT, InfoT
<1> QED
  BY <1>1, <1>2, <1>3, <1>4 DEF PutFlags, PutConn

LEMMA AttachOK ==
    ASSUME NEW m, NEW H, Sound(m, H), NEW l \in Lists, m.list[l].use, NEW i \in H
    PROVE  /\ Sound(Attach(m, l, i), H \ {i})
           /\ SameLists(m, Attach(m, l, i)) /\ Moved(m, Attach(m, l, i), i, l)
           /\ \A j \in Infos : SameInfo(m, Attach(m, l, i), j)
<1> DEFINE a == Attach(m, l, i)
<1>1. m \in MemT /\ H = Loose(m) /\ RefsOK(m) /\ Linked(m)
  BY DEF Sound
<1>2. i \in Infos /\ m.info[i].use /\ m.info[i].owner = NoList
  BY <1>1 DEF Loose
<1>3. m.info[i].ref = 1
  BY <1>1, <1>2 DEF RefsOK
<1>4. /\ a \in MemT
      /\ \A k \in Lists : SameList(m, a, k)
      /\ \A j \in Infos :
             /\ SameInfo(m, a, j)
             /\ a.info[j].owner = IF j = i THEN l ELSE m.info[j].owner
             /\ a.info[j].ref = IF j = i THEN m.info[j].ref + 1 ELSE m.info[j].ref
  <2>1. Appended(m, a, l, i, m.list[l].head, m.info[m.list[l].head].prev)
    BY <1>1, <1>2, AttachDoes
  <2> HIDE DEF a
  <2> QED
    BY <2>1 DEF Appended
<1>5. PICK s : IsList(m, l, s) /\ Range(s) = Attached(m, l)
  BY <1>1 DEF Linked
<1>6. i \notin Range(s)
  BY <1>2, <1>5, Numbers DEF Attached
<1>7. /\ IsList(a, l, Append(s, i))
      /\ \A k \in Lists \ {l} : \A t :
             IsList(m, k, t) /\ Range(s) \cap Range(t) = {} /\ i \notin Range(t) => IsList(a, k, t)
  BY <1>1, <1>2, <1>5, <1>6, AttachedList
<1> HIDE DEF a
<1>8. Loose(a) = H \ {i}
  BY <1>1, <1>2, <1>4, Numbers DEF Loose, SameInfo
<1>9. RefsOK(a)
  <2>1. \A k \in Lists : a.list[k].use = m.list[k].use
    BY <1>4 DEF SameList
  <2>2. ASSUME NEW j \in Infos
        PROVE  /\ a.info[j].ref = IF ~a.info[j].use THEN 0 ELSE IF a.info[j].owner = NoList THEN 1 ELSE 2
               /\ ~a.info[j].use => a.info[j].owner = NoList
               /\ a.info[j].owner # NoList => a.list[a.info[j].owner].use
    <3>1. CASE j = i
      <4>1. a.info[j].use /\ a.info[j].owner = l /\ a.info[j].ref = 2
        BY <1>2, <1>3, <1>4, <3>1 DEF SameInfo
      <4> QED
        BY <2>1, <4>1, Numbers
    <3>2. CASE j # i
      <4>1. /\ a.info[j].use = m.info[j].use /\ a.info[j].owner = m.info[j].owner
            /\ a.info[j].ref = m.info[j].ref /\ m.info[j].owner \in Lists \cup {NoList}
        BY <1>1, <1>4, <3>2, FieldsAre DEF SameInfo
      <4> QED
        BY <1>1, <2>1, <4>1 DEF RefsOK
    <3> QED
      BY <3>1, <3>2
  <2> QED
    BY <2>2 DEF RefsOK
<1>10. Linked(a)
  <2> SUFFICES ASSUME NEW k \in Lists, a.list[k].use
               PROVE  \E t : IsList(a, k, t) /\ Range(t) = Attached(a, k)
    BY DEF Linked
  <2>1. CASE k = l
    <3>1. Attached(a, l) = Attached(m, l) \cup {i}
      BY <1>2, <1>4 DEF Attached
    <3>2. Range(Append(s, i)) = Range(s) \cup {i}
      BY <1>2, <1>5, <1>6, AppendIs DEF IsList
    <3> QED
      BY <1>5, <1>7, <2>1, <3>1, <3>2
  <2>2. CASE k # l
    <3>1. PICK t : IsList(m, k, t) /\ Range(t) = Attached(m, k)
      BY <1>1, <1>4 DEF Linked, SameList
    <3>2. Attached(a, k) = Attached(m, k) /\ i \notin Attached(m, k)
      BY <1>2, <1>4, <2>2, Numbers DEF Attached
    <3>3. Range(s) \cap Range(t) = {}
      BY <1>5, <2>2, <3>1, Apart
    <3>4. IsList(a, k, t)
      BY <1>7, <2>2, <3>1, <3>2, <3>3
    <3> QED
      BY <3>1, <3>2, <3>4
  <2> QED
    BY <2>1, <2>2
<1> QED
  BY <1>4, <1>8, <1>9, <1>10 DEF Sound, SameLists, Moved, a

LEMMA DetachOK ==
    ASSUME NEW m, NEW H, Sound(m, H), NEW l \in Lists, NEW i \in Infos, m.info[i].owner = l
    PROVE  /\ Sound(Detach(m, l, i), H \cup {i}) /\ i \notin H
           /\ SameLists(m, Detach(m, l, i)) /\ Moved(m, Detach(m, l, i), i, NoList)
           /\ \A j \in Infos : SameInfo(m, Detach(m, l, i), j)
           /\ m.list[l].current = i => Detach(m, l, i).list[l].stray
<1> DEFINE a == Detach(m, l, i)
<1>1. m \in MemT /\ H = Loose(m) /\ RefsOK(m) /\ Linked(m)
  BY DEF Sound
<1>2. m.info[i].use /\ m.info[i].ref = 2 /\ m.list[l].use /\ l # NoList
  BY <1>1, Numbers DEF RefsOK
<1>3. PICK s : IsList(m, l, s) /\ Range(s) = Attached(m, l)
  BY <1>1, <1>2 DEF Linked
<1>4. PICK p \in 1 .. Len(s) : s[p] = i
  <2>1. i \in Range(s) /\ s \in Seq(Infos)
    BY <1>3 DEF Attached, IsList
  <2> QED
    BY <2>1 DEF Range
<1>5. /\ a \in MemT
      /\ \A k \in Lists : SameList(m, a, k)
      /\ \A j \in Infos \ {i} :
             /\ SameInfo(m, a, j)
             /\ a.info[j].owner = m.info[j].owner /\ a.info[j].ref = m.info[j].ref
      /\ SameInfo(m, a, i) /\ a.info[i].owner = NoList /\ a.info[i].ref = 1
      /\ m.list[l].current = i => a.list[l].stray
  <2>1. /\ Unlinked(m, a, l, i, m.list[l].head, m.info[i].prev, m.info[i].next)
        /\ SameInfo(m, a, i) /\ a.info[i].owner = NoList /\ a.info[i].ref = 1
        /\ m.list[l].current = i => a.list[l].stray
    BY <1>1, <1>2, DetachDoes
  <2> HIDE DEF a
  <2> QED
    BY <2>1 DEF Unlinked, SameHold
<1>6. /\ IsList(a, l, Cut(s, p))
      /\ \A k \in Lists \ {l} : \A t :
             IsList(m, k, t) /\ Range(s) \cap Range(t) = {} => IsList(a, k, t)
  BY <1>1, <1>3, <1>4, DetachedList
<1> HIDE DEF a
<1>7. Loose(a) = H \cup {i} /\ i \notin H
  BY <1>1, <1>2, <1>5 DEF Loose, SameInfo
<1>8. RefsOK(a)
  <2>1. \A k \in Lists : a.list[k].use = m.list[k].use
    BY <1>5 DEF SameList
  <2>2. ASSUME NEW j \in Infos
        PROVE  /\ a.info[j].ref = IF ~a.info[j].use THEN 0 ELSE IF a.info[j].owner = NoList THEN 1 ELSE 2
               /\ ~a.info[j].use => a.info[j].owner = NoList
               /\ a.info[j].owner # NoList => a.list[a.info[j].owner].use
    <3>1. CASE j = i
      BY <1>2, <1>5, <3>1 DEF SameInfo
    <3>2. CASE j # i
      <4>1. /\ a.info[j].use = m.info[j].use /\ a.info[j].owner = m.info[j].owner
            /\ a.info[j].ref = m.info[j].ref /\ m.info[j].owner \in Lists \cup {NoList}
        BY <1>1, <1>5, <3>2, FieldsAre DEF SameInfo
      <4> QED
        BY <1>1, <2>1, <4>1 DEF RefsOK
    <3> QED
      BY <3>1, <3>2
  <2> QED
    BY <2>2 DEF RefsOK
<1>9. Linked(a)
  <2> SUFFICES ASSUME NEW k \in Lists, a.list[k].use
               PROVE  \E t : IsList(a, k, t) /\ Range(t) = Attached(a, k)
    BY DEF Linked
  <2>1. CASE k = l
    <3>1. Attached(a, l) = Attached(m, l) \ {i}
      BY <1>2, <1>5 DEF Attached
    <3>2. Range(Cut(s, p)) = Range(s) \ {i}
      BY <1>3, <1>4, CutIs DEF IsList
    <3> QED
      BY <1>3, <1>6, <2>1, <3>1, <3>2
  <2>2. CASE k # l
    <3>1. PICK t : IsList(m, k, t) /\ Range(t) = Attached(m, k)
      BY <1>1, <1>5 DEF Linked, SameList
    <3>2. Attached(a, k) = Attached(m, k)
      BY <1>5, <2>2, Numbers DEF Attached
    <3>3. Range(s) \cap Range(t) = {}
      BY <1>3, <2>2, <3>1, Apart
    <3>4. IsList(a, k, t)
      BY <1>6, <2>2, <3>1, <3>3
    <3> QED
      BY <3>1, <3>2, <3>4
  <2> QED
    BY <2>1, <2>2
<1> QED
  BY <1>5, <1>7, <1>8, <1>9 DEF Sound, SameLists, Moved, a

LEMMA FreeInfoOK ==
    ASSUME NEW m, NEW H, Sound(m, H), NEW i \in H
    PROVE  /\ Sound(FreeInfo(m, i), H \ {i})
           /\ SameLists(m, FreeInfo(m, i)) /\ Moved(m, FreeInfo(m, i), i, NoList)
           /\ \A j \in Infos \ {i} : SameInfo(m, FreeInfo(m, i), j)
<1>1. i \in Infos /\ m.info[i].use /\ m.info[i].owner = NoList
  BY DEF Sound, Loose
<1>2. m.info[i].ref = 1
  BY <1>1 DEF Sound, RefsOK
<1>3. FreeInfo(m, i) = PutInfo(m, i, FreeInfoSlot)
  BY <1>1, <1>2 DEF FreeInfo, DecInfo, PutInfo
<1>4. /\ FreeInfoSlot \in InfoT /\ FreeInfoSlot.owner = NoList /\ ~FreeInfoSlot.use
      /\ FreeInfoSlot.ref = 0
  BY Numbers DEF FreeInfoSlot, InfoT, NoInfo, NoList, NoDevice
<1> DEFINE a == FreeInfo(m, i)
<1>5. Sound(a, H \ {i}) /\ InfoPut(m, a, i, FreeInfoSlot)
  BY <1>1, <1>3, <1>4, OffList
<1> HIDE DEF a
<1>6. SameLists(m, a) /\ Moved(m, a, i, NoList) /\ \A j \in Infos \ {i} : SameInfo(m, a, j)
  BY <1>4, <1>5 DEF SameLists, SameList, SameInfo, Moved, InfoPut
<1> QED
  BY <1>5, <1>6 DEF a

\* What a call copies into a new info.
IsPublic(p) == p.dev \in Devices \cup {NoDevice} /\ p.conn \in BOOLEAN /\ p.flags \in SUBSET SyncFlags

\* m with the info i for a device, and the others as they were.
Allocated(m, a, i, dev, conn) ==
    /\ a.info[i].dev = dev /\ a.info[i].conn = conn
    /\ \A j \in Infos \ {i} : SameInfo(m, a, j)

LEMMA AllocOK ==
    ASSUME NEW m, NEW H, Sound(m, H), NEW i \in Infos, ~m.info[i].use, NEW p, IsPublic(p)
    PROVE  /\ Sound(AllocInfo(m, i, p), H \cup {i}) /\ i \notin H
           /\ SameLists(m, AllocInfo(m, i, p)) /\ Moved(m, AllocInfo(m, i, p), i, NoList)
           /\ Allocated(m, AllocInfo(m, i, p), i, p.dev, p.conn)
<1> DEFINE r1 == [FreeInfoSlot EXCEPT !.use = TRUE]
           r2 == [r1 EXCEPT !.ref = 1]
           r3 == [r2 EXCEPT !.dev = p.dev]
           r4 == [r3 EXCEPT !.conn = p.conn]
           r == [r4 EXCEPT !.flags = p.flags]
<1>1. m.info[i].owner = NoList /\ i \notin H
  BY DEF Sound, RefsOK, Loose
<1>3. AllocInfo(m, i, p) = PutInfo(m, i, r)
  BY DEF AllocInfo, PutInfo
<1>2. r \in InfoT /\ r.owner = NoList /\ r.use /\ r.ref = 1 /\ r.dev = p.dev /\ r.conn = p.conn
  <2>1. r1 \in InfoT /\ r1.owner = NoList /\ r1.use
    <3>1. FreeInfoSlot \in InfoT /\ FreeInfoSlot.owner = NoList
      BY Numbers DEF FreeInfoSlot, InfoT, NoInfo, NoList, NoDevice
    <3> QED
      BY <3>1 DEF InfoT
  <2> HIDE DEF r1
  <2>2. r2 \in InfoT /\ r2.owner = NoList /\ r2.use /\ r2.ref = 1
    BY <2>1 DEF InfoT
  <2> HIDE DEF r2
  <2>3. r3 \in InfoT /\ r3.owner = NoList /\ r3.use /\ r3.ref = 1 /\ r3.dev = p.dev
    BY <2>2 DEF InfoT, IsPublic
  <2> HIDE DEF r3
  <2>4. r4 \in InfoT /\ r4.owner = NoList /\ r4.use /\ r4.ref = 1 /\ r4.dev = p.dev /\ r4.conn = p.conn
    BY <2>3 DEF InfoT, IsPublic
  <2> HIDE DEF r4
  <2> QED
    BY <2>4 DEF InfoT, IsPublic
<1> DEFINE a == AllocInfo(m, i, p)
<1> HIDE DEF r
<1>4. Sound(a, H \cup {i}) /\ InfoPut(m, a, i, r)
  BY <1>1, <1>2, <1>3, OffList
<1> HIDE DEF a
<1>5. /\ SameLists(m, a) /\ Moved(m, a, i, NoList)
      /\ Allocated(m, a, i, p.dev, p.conn)
  BY <1>2, <1>4 DEF SameLists, SameList, SameInfo, Moved, InfoPut, Allocated
<1> QED
  BY <1>1, <1>4, <1>5 DEF a

\* l_Build_AddElement is l_Alloc_DevInfo and LstK_AttachInfo.
LEMMA AddElementIs ==
    ASSUME NEW m, NEW H, Sound(m, H), NEW i \in Infos, ~m.info[i].use, NEW l \in Lists,
           NEW d \in Devices
    PROVE  LET p == [dev |-> d, conn |-> d \in present, flags |-> {}]
           IN  IsPublic(p) /\ AddElement(m, l, i, d) = Attach(AllocInfo(m, i, p), l, i)
<1> DEFINE p == [dev |-> d, conn |-> d \in present, flags |-> {}]
           born == AllocInfo(m, i, p)
<1>1. IsPublic(p)
  BY DEF IsPublic
<1>2. AddElement(m, l, i, d) = DL_APPEND([born EXCEPT !.info[i].ref = 2, !.info[i].owner = l], l, i)
  BY DEF AddElement
<1> HIDE DEF p
<1>3. born \in MemT /\ born.info[i].owner = NoList /\ born.info[i].ref = 1
  <2>1. Sound(born, H \cup {i})
    BY <1>1, AllocOK
  <2> HIDE DEF born
  <2>2. born.info[i].use /\ born.info[i].owner = NoList
    BY <2>1 DEF Sound, Loose
  <2> QED
    BY <2>1, <2>2 DEF Sound, RefsOK
<1> HIDE DEF born
<1>4. Attach(born, l, i) = DL_APPEND([born EXCEPT !.info[i].owner = l, !.info[i].ref = @ + 1], l, i)
  BY <1>3 DEF Attach
<1>5. [born EXCEPT !.info[i].ref = 2, !.info[i].owner = l]
         = [born EXCEPT !.info[i].owner = l, !.info[i].ref = @ + 1]
  <2>1. born.info[i] \in InfoT
    BY <1>3, FieldsAre
  <2>2. [born.info[i] EXCEPT !.ref = 2, !.owner = l] = [born.info[i] EXCEPT !.owner = l, !.ref = @ + 1]
    <3> DEFINE x == born.info[i]
               y1 == [x EXCEPT !.ref = 2]
               y == [y1 EXCEPT !.owner = l]
               z1 == [x EXCEPT !.owner = l]
               z == [z1 EXCEPT !.ref = x.ref + 1]
    <3>1. x \in InfoT /\ x.ref = 1
      BY <1>3, <2>1
    <3> HIDE DEF x
    <3>2. /\ y \in InfoT /\ y.ref = 2 /\ y.owner = l /\ y.use = x.use /\ y.next = x.next
          /\ y.prev = x.prev /\ y.dev = x.dev /\ y.conn = x.conn /\ y.flags = x.flags
      <4>1. /\ y1 \in InfoT /\ y1.ref = 2 /\ y1.use = x.use /\ y1.next = x.next
            /\ y1.prev = x.prev /\ y1.dev = x.dev /\ y1.conn = x.conn /\ y1.flags = x.flags
        BY <3>1 DEF InfoT
      <4> HIDE DEF y1
      <4> QED
        BY <4>1 DEF InfoT
    <3>3. /\ z \in InfoT /\ z.ref = 2 /\ z.owner = l /\ z.use = x.use /\ z.next = x.next
          /\ z.prev = x.prev /\ z.dev = x.dev /\ z.conn = x.conn /\ z.flags = x.flags
      <4>1. /\ z1 \in InfoT /\ z1.owner = l /\ z1.use = x.use /\ z1.next = x.next
            /\ z1.prev = x.prev /\ z1.dev = x.dev /\ z1.conn = x.conn /\ z1.flags = x.flags
        BY <3>1 DEF InfoT
      <4> HIDE DEF z1
      <4> QED
        BY <3>1, <4>1 DEF InfoT
    <3> HIDE DEF y, z
    <3>4. y = z
      BY <3>2, <3>3 DEF InfoT
    <3> QED
      BY <3>4 DEF x, y, z
  <2>3. [born EXCEPT !.info[i] = [born.info[i] EXCEPT !.ref = 2, !.owner = l]]
           = [born EXCEPT !.info[i].ref = 2, !.info[i].owner = l]
    BY <1>3 DEF MemT
  <2>4. [born EXCEPT !.info[i] = [born.info[i] EXCEPT !.owner = l, !.ref = @ + 1]]
           = [born EXCEPT !.info[i].owner = l, !.info[i].ref = @ + 1]
    BY <1>3 DEF MemT
  <2> QED
    BY <2>2, <2>3, <2>4
<1> QED
  BY <1>1, <1>2, <1>4, <1>5 DEF born, p

LEMMA AcquireListOK ==
    ASSUME NEW m, NEW H, Sound(m, H), NEW l \in Lists, ~m.list[l].use
    PROVE  /\ Sound(AcquireList(m, l), H) /\ Keeps(m, AcquireList(m, l), {l})
           /\ AcquireList(m, l).info = m.info /\ Attached(AcquireList(m, l), l) = {}
           /\ AcquireList(m, l).list[l].use /\ AcquireList(m, l).list[l].current = NoInfo
<1> DEFINE r == [FreeListSlot EXCEPT !.use = TRUE]
           a == AcquireList(m, l)
<1>1. m \in MemT /\ H = Loose(m) /\ RefsOK(m) /\ Linked(m)
  BY DEF Sound
<1>2. r \in ListType /\ r.use = TRUE /\ r.head = NoInfo /\ r.current = NoInfo
  BY DEF FreeListSlot, ListType
<1>3. a = PutList(m, l, r)
  BY DEF AcquireList, PutList
<1> HIDE DEF r, a
<1>4. a \in MemT /\ a.info = m.info /\ \A k \in Lists : a.list[k] = IF k = l THEN r ELSE m.list[k]
  <2>1. ListPut(m, a, l, r)
    BY <1>1, <1>2, <1>3, EditList
  <2> QED
    BY <2>1 DEF ListPut
<1>5. Loose(a) = H
  BY <1>1, <1>4 DEF Loose
<1>6. RefsOK(a)
  <2>1. \A k \in Lists : m.list[k].use => a.list[k].use
    BY <1>2, <1>4
  <2>2. \A j \in Infos : m.info[j].owner \in Lists \cup {NoList}
    BY <1>1, FieldsAre
  <2> QED
    BY <1>1, <1>4, <2>1, <2>2 DEF RefsOK
<1>7. Attached(a, l) = {}
  <2>1. ASSUME NEW j \in Infos, m.info[j].owner = l PROVE FALSE
    <3>1. l # NoList
      BY Numbers
    <3> QED
      BY <1>1, <2>1, <3>1 DEF RefsOK
  <2> QED
    BY <1>4, <2>1 DEF Attached
<1>8. Linked(a)
  <2> SUFFICES ASSUME NEW k \in Lists, a.list[k].use
               PROVE  \E t : IsList(a, k, t) /\ Range(t) = Attached(a, k)
    BY DEF Linked
  <2>1. CASE k = l
    <3>1. << >> \in Seq(Infos) /\ Len(<< >>) = 0 /\ IsInjective(<< >>) /\ Range(<< >>) = {}
      BY DEF IsInjective, Range
    <3>2. IsList(a, l, << >>)
      BY <1>2, <1>4, <3>1 DEF IsList, Links
    <3> QED
      BY <1>7, <2>1, <3>1, <3>2
  <2>2. CASE k # l
    <3>1. PICK t : IsList(m, k, t) /\ Range(t) = Attached(m, k)
      BY <1>1, <1>4, <2>2 DEF Linked
    <3>2. Attached(a, k) = Attached(m, k)
      BY <1>4 DEF Attached
    <3>3. IsList(a, k, t)
      BY <1>4, <2>2, <3>1, ListKept
    <3> QED
      BY <3>1, <3>2, <3>3
  <2> QED
    BY <2>1, <2>2
<1>9. Keeps(m, a, {l})
  BY <1>4 DEF Keeps, SameList
<1> QED
  BY <1>2, <1>4, <1>5, <1>6, <1>7, <1>8, <1>9 DEF Sound, a

PutUse(m, l) == [m EXCEPT !.list[l].use = FALSE]

\* A list without infos is given back.
LEMMA ReleaseOK ==
    ASSUME NEW m, NEW H, Sound(m, H), NEW l \in Lists, Attached(m, l) = {}
    PROVE  /\ Sound(PutUse(m, l), H) /\ Keeps(m, PutUse(m, l), {l}) /\ ~PutUse(m, l).list[l].use
           /\ PutUse(m, l).info = m.info
<1> DEFINE a == PutUse(m, l)
           r == [m.list[l] EXCEPT !.use = FALSE]
<1>1. m \in MemT /\ H = Loose(m) /\ RefsOK(m) /\ Linked(m)
  BY DEF Sound
<1>21. r \in ListType /\ r.use = FALSE
  BY <1>1, FieldsAre DEF ListType
<1>22. a = PutList(m, l, r)
  BY DEF PutUse, PutList
<1> HIDE DEF r, a
<1>2. a \in MemT /\ a.info = m.info /\ \A k \in Lists : a.list[k] = IF k = l THEN r ELSE m.list[k]
  <2>1. ListPut(m, a, l, r)
    BY <1>1, <1>21, <1>22, EditList
  <2> QED
    BY <2>1 DEF ListPut
<1>3. ~a.list[l].use
  BY <1>2, <1>21
<1>4. Loose(a) = H
  BY <1>1, <1>2 DEF Loose
<1>5. RefsOK(a)
  <2>1. \A k \in Lists \ {l} : m.list[k].use => a.list[k].use
    BY <1>2
  <2>2. \A j \in Infos : m.info[j].owner \in (Lists \ {l}) \cup {NoList}
    BY <1>1, FieldsAre DEF Attached
  <2> QED
    BY <1>1, <1>2, <2>1, <2>2 DEF RefsOK
<1>6. Linked(a)
  <2> SUFFICES ASSUME NEW k \in Lists, a.list[k].use
               PROVE  \E t : IsList(a, k, t) /\ Range(t) = Attached(a, k)
    BY DEF Linked
  <2>1. k # l
    BY <1>3
  <2>2. PICK t : IsList(m, k, t) /\ Range(t) = Attached(m, k)
    BY <1>1, <1>2, <2>1 DEF Linked
  <2>3. Attached(a, k) = Attached(m, k)
    BY <1>2 DEF Attached
  <2>4. IsList(a, k, t)
    BY <1>2, <2>1, <2>2, ListKept
  <2> QED
    BY <2>2, <2>3, <2>4
<1>7. Keeps(m, a, {l})
  BY <1>2 DEF Keeps, SameList
<1> QED
  BY <1>2, <1>3, <1>4, <1>5, <1>6, <1>7 DEF Sound, a

-----------------------------------------------------------------------------
(***************************************************************************)
(* What DL_FOREACH and DL_SEARCH find.                                     *)
(***************************************************************************)

\* The first n elements of s, or all.
Opening(s, n) == IF n < Len(s) THEN SubSeq(s, 1, n) ELSE s

\* One step along the links.
Further(m, l, t) ==
    LET nxt == IF t = << >> THEN m.list[l].head ELSE m.info[Last(t)].next
    IN IF nxt = NoInfo THEN t ELSE Append(t, nxt)

LEMMA OpeningIs ==
    ASSUME NEW s \in Seq(Infos), NEW n \in Nat
    PROVE  /\ n = 0 => Opening(s, n) = << >>
           /\ n >= Len(s) => Opening(s, n) = s
           /\ n # 0 /\ n < Len(s) =>
                  Opening(s, n) # << >> /\ Last(Opening(s, n)) = s[n]
           /\ n < Len(s) => Append(Opening(s, n), s[n + 1]) = Opening(s, n + 1)
<1>1. Len(s) \in Nat /\ (Len(s) = 0 => s = << >>)
  OBVIOUS
<1>2. CASE n >= Len(s)
  BY <1>1, <1>2 DEF Opening
<1>3. CASE n < Len(s)
  <2> DEFINE t == SubSeq(s, 1, n)
  <2>1. /\ t \in Seq(Infos) /\ Len(t) = n /\ \A k \in 1 .. n : t[k] = s[k]
    BY <1>1, <1>3
  <2>2. t = Opening(s, n)
    BY <1>3 DEF Opening
  <2> HIDE DEF t
  <2>3. n = 0 => t = << >>
    BY <2>1
  <2>4. n # 0 => t # << >> /\ Last(t) = s[n]
    BY <2>1 DEF Last
  <2>5. Append(t, s[n + 1]) = Opening(s, n + 1)
    <3> DEFINE u == Append(t, s[n + 1])
    <3>1. s[n + 1] \in Infos
      BY <1>1, <1>3
    <3>2. u \in Seq(Infos) /\ Len(u) = n + 1 /\ \A k \in 1 .. n + 1 : u[k] = s[k]
      BY <2>1, <3>1
    <3> HIDE DEF u
    <3> DEFINE v == Opening(s, n + 1)
    <3>3. v \in Seq(Infos) /\ Len(v) = n + 1 /\ \A k \in 1 .. n + 1 : v[k] = s[k]
      BY <1>1, <1>3 DEF Opening
    <3> HIDE DEF v
    <3>4. u = v
      BY <3>2, <3>3, SeqEqual
    <3> QED
      BY <3>4 DEF u, v
  <2> QED
    BY <1>1, <1>3, <2>2, <2>3, <2>4, <2>5
<1> QED
  BY <1>1, <1>2, <1>3

LEMMA FurtherIs ==
    ASSUME NEW m, NEW l, NEW s, IsList(m, l, s), NEW n \in Nat
    PROVE  Further(m, l, Opening(s, n)) = Opening(s, n + 1)
<1>1. s \in Seq(Infos) /\ Len(s) \in Nat /\ (Len(s) = 0 <=> s = << >>)
  BY DEF IsList
<1>2. \A k \in 1 .. Len(s) : s[k] \in Infos /\ s[k] # NoInfo
  BY <1>1, Numbers
<1>3. CASE n >= Len(s)
  <2>1. Opening(s, n) = s /\ Opening(s, n + 1) = s
    BY <1>1, <1>3, OpeningIs
  <2>2. CASE s = << >>
    BY <2>1, <2>2 DEF Further, IsList
  <2>3. CASE s # << >>
    <3>1. Len(s) \in 1 .. Len(s)
      BY <1>1, <2>3
    <3>2. m.info[Last(s)].next = NoInfo
      <4>1. Links(m, s, Len(s))
        BY DEF IsList
      <4> QED
        BY <3>1, <4>1 DEF Links, Last
    <3> QED
      BY <2>1, <2>3, <3>2 DEF Further
  <2> QED
    BY <2>2, <2>3
<1>4. CASE n < Len(s)
  <2>1. n + 1 \in 1 .. Len(s) /\ s # << >>
    BY <1>1, <1>4
  <2>2. Append(Opening(s, n), s[n + 1]) = Opening(s, n + 1)
    BY <1>1, <1>4, OpeningIs
  <2>3. CASE n = 0
    <3>1. Opening(s, n) = << >>
      BY <1>1, <2>3, OpeningIs
    <3>2. m.list[l].head = s[n + 1]
      BY <2>1, <2>3 DEF IsList
    <3> QED
      BY <1>2, <2>1, <2>2, <3>1, <3>2 DEF Further
  <2>4. CASE n # 0
    <3>1. Opening(s, n) # << >> /\ Last(Opening(s, n)) = s[n]
      BY <1>1, <1>4, <2>4, OpeningIs
    <3>2. n \in 1 .. Len(s) /\ n # Len(s)
      BY <1>1, <1>4, <2>4
    <3>3. m.info[s[n]].next = s[n + 1]
      <4>1. Links(m, s, Len(s))
        BY DEF IsList
      <4> QED
        BY <3>2, <4>1 DEF Links
    <3> QED
      BY <1>2, <2>1, <2>2, <3>1, <3>3 DEF Further
  <2> QED
    BY <2>3, <2>4
<1> QED
  BY <1>1, <1>3, <1>4

\* DL_FOREACH meets the list's infos in their order.
LEMMA ChainIs ==
    ASSUME NEW m, NEW l, NEW s, IsList(m, l, s)
    PROVE  Chain(m, l) = s
<1> DEFINE N == NumInfos
           round(f) == [n \in 0 .. N |-> Further(m, l, IF n = 0 THEN << >> ELSE f[n - 1])]
           upto == CHOOSE f : f = round(f)
           g == [n \in 0 .. N |-> Opening(s, n + 1)]
<1>1. Chain(m, l) = upto[N]
  BY DEF Chain, Further
<1>2. N \in Nat /\ s \in Seq(Infos) /\ Len(s) <= N
  BY Numbers, OnceFits DEF IsList, Infos
<1>3. Opening(s, 0) = << >>
  BY <1>2, OpeningIs
<1>4. \A n \in 0 .. N : n = 0 \/ (n - 1 \in 0 .. N /\ (n - 1) + 1 = n)
  BY <1>2
<1>5. g = round(g)
  <2>1. ASSUME NEW n \in 0 .. N
        PROVE  Opening(s, n + 1) = Further(m, l, IF n = 0 THEN << >> ELSE g[n - 1])
    <3>1. n \in Nat /\ Further(m, l, Opening(s, n)) = Opening(s, n + 1)
      BY FurtherIs
    <3>2. (IF n = 0 THEN << >> ELSE g[n - 1]) = Opening(s, n)
      BY <1>3, <1>4
    <3> HIDE DEF g
    <3> QED
      BY <3>1, <3>2
  <2> QED
    BY <2>1, Zenon
<1>6. upto = round(upto)
  <2> HIDE DEF round, g
  <2> QED
    BY <1>5
<1> HIDE DEF upto
<1>7. \A n \in 0 .. N : upto[n] = Further(m, l, IF n = 0 THEN << >> ELSE upto[n - 1])
  <2>1. \A n \in 0 .. N : round(upto)[n] = Further(m, l, IF n = 0 THEN << >> ELSE upto[n - 1])
    BY Zenon
  <2> HIDE DEF round
  <2> QED
    BY <1>6, <2>1, Zenon
<1> DEFINE Good == {n \in 0 .. N : upto[n] = Opening(s, n + 1)}
<1>8. 0 \in Good
  BY <1>2, <1>3, <1>7, FurtherIs, SMTT(30)
<1>9. ASSUME NEW n \in 1 .. N, n - 1 \in Good PROVE n \in Good
  <2>1. n \in 0 .. N /\ n # 0 /\ n \in Nat /\ (n - 1) + 1 = n
    BY <1>2
  <2>2. upto[n - 1] = Opening(s, n)
    BY <1>9, <2>1
  <2>3. upto[n] = Further(m, l, Opening(s, n))
    BY <1>7, <2>1, <2>2
  <2> QED
    BY <2>1, <2>3, FurtherIs
<1>10. N \in Good
  <2> HIDE DEF Good
  <2>1. \A n \in 0 .. N : n \in Good
    BY <1>2, <1>8, <1>9, UpTo
  <2> QED
    BY <1>2, <2>1
<1>11. upto[N] = s
  BY <1>2, <1>10, OpeningIs
<1> QED
  BY <1>1, <1>11

\* The chain of a list in use.
LEMMA ChainOf ==
    ASSUME NEW m, NEW H, Sound(m, H), NEW l \in Lists, m.list[l].use
    PROVE  IsList(m, l, Chain(m, l)) /\ ChainSet(m, l) = Attached(m, l)
           /\ Chain(m, l) \in Seq(Infos) /\ Range(Chain(m, l)) = Attached(m, l)
<1>1. PICK s : IsList(m, l, s) /\ Range(s) = Attached(m, l)
  BY DEF Sound, Linked
<1>2. Chain(m, l) = s
  BY <1>1, ChainIs
<1> QED
  BY <1>1, <1>2 DEF IsList, ChainSet

LEMMA LowestIs ==
    ASSUME NEW S \in SUBSET Nat, S # {}
    PROVE  Lowest(S) \in S
BY Smallest DEF Lowest

LEMMA SearchIs ==
    ASSUME NEW m, NEW s \in Seq(Infos), NEW d
    PROVE  Search(m, s, d) \in Infos \cup {NoInfo}
<1> DEFINE hits == {k \in DOMAIN s : m.info[s[k]].dev = d}
<1>1. hits \in SUBSET (1 .. Len(s)) /\ Len(s) \in Nat
  OBVIOUS
<1>2. Search(m, s, d) = IF hits = {} THEN NoInfo ELSE s[Lowest(hits)]
  BY DEF Search
<1> HIDE DEF hits
<1>3. hits \in SUBSET Nat
  BY <1>1
<1>4. hits # {} => s[Lowest(hits)] \in Infos
  <2>1. hits # {} => Lowest(hits) \in 1 .. Len(s)
    BY <1>1, <1>3, LowestIs
  <2>2. \A k \in 1 .. Len(s) : s[k] \in Infos
    OBVIOUS
  <2> QED
    BY <2>1, <2>2
<1> QED
  BY <1>2, <1>4

LEMMA SearchFinds ==
    ASSUME NEW m, NEW H, Sound(m, H), NEW l \in Lists, m.list[l].use, NEW d
    PROVE  LET there == Search(m, Chain(m, l), d)
           IN  \/ there = NoInfo /\ \A j \in Attached(m, l) : m.info[j].dev # d
               \/ there # NoInfo /\ there \in Attached(m, l) /\ m.info[there].dev = d
<1> DEFINE s == Chain(m, l)
           hits == {k \in DOMAIN s : m.info[s[k]].dev = d}
<1>1. s \in Seq(Infos) /\ Range(s) = Attached(m, l)
  BY ChainOf
<1>2. Search(m, s, d) = IF hits = {} THEN NoInfo ELSE s[Lowest(hits)]
  BY DEF Search
<1> HIDE DEF s
<1>3. /\ DOMAIN s = 1 .. Len(s) /\ Len(s) \in Nat
      /\ \A k \in DOMAIN s : s[k] \in Attached(m, l)
      /\ \A j \in Attached(m, l) : \E k \in DOMAIN s : s[k] = j
  BY <1>1 DEF Range
<1>4. CASE hits = {}
  BY <1>2, <1>3, <1>4 DEF s
<1>5. CASE hits # {}
  <2>1. hits \in SUBSET Nat
    BY <1>3
  <2> HIDE DEF hits
  <2>2. Lowest(hits) \in hits
    BY <1>5, <2>1, LowestIs
  <2>3. Lowest(hits) \in DOMAIN s /\ m.info[s[Lowest(hits)]].dev = d
    BY <2>2 DEF hits
  <2>4. s[Lowest(hits)] \in Attached(m, l) /\ s[Lowest(hits)] # NoInfo
    BY <1>3, <2>3, Numbers DEF Attached
  <2> QED
    BY <1>2, <1>5, <2>3, <2>4 DEF s
<1> QED
  BY <1>4, <1>5


-----------------------------------------------------------------------------
(***************************************************************************)
(* The loops over a chain.                                                 *)
(***************************************************************************)
LEMMA MovedKeeps ==
    ASSUME NEW m, NEW a, NEW T, NEW i, NEW x, SameLists(m, a), Moved(m, a, i, x),
           m.info[i].owner \notin Lists \ T
    PROVE  Keeps(m, a, T)
BY DEF SameLists, Moved, Keeps

LEMMA SameListsTogether ==
    ASSUME NEW m, NEW a, NEW b, SameLists(m, a), SameLists(a, b)
    PROVE  SameLists(m, b)
BY DEF SameLists, SameList

LEMMA NothingMoved ==
    ASSUME NEW m, NEW T
    PROVE  Keeps(m, m, T) /\ SameLists(m, m)
BY DEF Keeps, SameLists, SameList

\* The types alone survive the calls of l_DevEnum_Free_All.
LEMMA FreeOneTyped ==
    ASSUME NEW m \in MemT, NEW l \in Lists, NEW i \in Infos
    PROVE  FreeInfo(Detach(m, l, i), i) \in MemT
<1>1. Detach(m, l, i) \in MemT
  <2>1. CASE m.info[i].owner = l
    <3>1. Unlinked(m, Detach(m, l, i), l, i, m.list[l].head, m.info[i].prev, m.info[i].next)
      BY <2>1, DetachDoes
    <3> QED
      BY <3>1 DEF Unlinked
  <2>2. CASE m.info[i].owner # l
    BY <2>2 DEF Detach
  <2> QED
    BY <2>1, <2>2
<1> DEFINE a == Detach(m, l, i)
<1> HIDE DEF a
<1>2. a \in MemT
  BY <1>1 DEF a
<1>3. DecInfo(a, i) \in MemT
  <2> DEFINE r == IF a.info[i].ref = 1 THEN FreeInfoSlot ELSE [a.info[i] EXCEPT !.ref = @ - 1]
  <2>1. InfoPut(a, DecInfo(a, i), i, r)
    BY <1>2, DecDoes
  <2> QED
    BY <2>1 DEF InfoPut
<1>4. FreeInfo(a, i) \in MemT
  BY <1>2, <1>3 DEF FreeInfo
<1> QED
  BY <1>4 DEF a

\* An info of list l is detached and freed.
LEMMA FreeOneOK ==
    ASSUME NEW m, NEW H, Sound(m, H), NEW l \in Lists, NEW i \in Infos, m.info[i].owner = l
    PROVE  LET a == FreeInfo(Detach(m, l, i), i)
           IN  /\ Sound(a, H) /\ SameLists(m, a) /\ Moved(m, a, i, NoList)
               /\ \A j \in Infos \ {i} : SameInfo(m, a, j)
<1> DEFINE b == Detach(m, l, i)
           a == FreeInfo(b, i)
<1>1. /\ Sound(b, H \cup {i}) /\ i \notin H /\ SameLists(m, b) /\ Moved(m, b, i, NoList)
      /\ \A j \in Infos : SameInfo(m, b, j)
  BY DetachOK
<1> HIDE DEF b
<1>2. /\ Sound(a, (H \cup {i}) \ {i}) /\ SameLists(b, a) /\ Moved(b, a, i, NoList)
      /\ \A j \in Infos \ {i} : SameInfo(b, a, j)
  BY <1>1, FreeInfoOK
<1> HIDE DEF a
<1>3. (H \cup {i}) \ {i} = H
  BY <1>1
<1>4. Moved(m, a, i, NoList) /\ \A j \in Infos \ {i} : SameInfo(m, a, j)
  BY <1>1, <1>2 DEF Moved, SameInfo
<1>5. Sound(a, H) /\ SameLists(m, a)
  BY <1>1, <1>2, <1>3, SameListsTogether
<1> QED
  BY <1>4, <1>5 DEF a, b

LEMMA FreeListOK ==
    ASSUME NEW m, NEW H, Sound(m, H), NEW l \in Lists, m.list[l].use
    PROVE  /\ Sound(FreeList(m, l), H) /\ Keeps(m, FreeList(m, l), {l})
           /\ ~FreeList(m, l).list[l].use
           /\ Spares(m, FreeList(m, l), l) /\ Attached(FreeList(m, l), l) = {}
<1> DEFINE s == Chain(m, l)
           N == Len(s)
           free(a, i) == FreeInfo(Detach(a, l, i), i)
           step == [n \in 1 .. N |-> [a \in MemT |-> free(a, s[n])]]
           round(f) == [n \in 0 .. N |-> IF n = 0 THEN m ELSE free(f[n - 1], s[n])]
           upto == CHOOSE f : f = round(f)
<1>1. FreeList(m, l) = PutUse(upto[N], l)
  BY DEF FreeList, ForEach, PutUse
<1>2. /\ N \in Nat /\ m \in MemT
      /\ \A n \in 1 .. N : s[n] \in Infos
      /\ Attached(m, l) = {s[k] : k \in 1 .. N}
      /\ \A j, k \in 1 .. N : s[j] = s[k] => j = k
  <2>1. IsList(m, l, s) /\ s \in Seq(Infos) /\ Range(s) = Attached(m, l)
    BY ChainOf
  <2> HIDE DEF s
  <2>2. N \in Nat /\ DOMAIN s = 1 .. N /\ IsInjective(s) /\ \A n \in 1 .. N : s[n] \in Infos
    BY <2>1 DEF IsList
  <2> QED
    BY <2>1, <2>2 DEF Sound, Range, IsInjective
<1> HIDE DEF s, N
<1>3. \A a \in MemT : \A i \in Infos : free(a, i) \in MemT
  BY FreeOneTyped
<1> HIDE DEF free
<1>4. step \in [1 .. N -> [MemT -> MemT]]
  BY <1>2, <1>3
<1>5. PICK f \in [0 .. N -> MemT] : Rounds(f, N, m, step)
  <2> HIDE DEF step
  <2> QED
    BY <1>2, <1>4, LoopExists
<1>6. f = round(f)
  <2>1. \A n \in 1 .. N : f[n - 1] \in MemT /\ step[n][f[n - 1]] = free(f[n - 1], s[n])
    <3>1. ASSUME NEW n \in 1 .. N
          PROVE  f[n - 1] \in MemT /\ step[n][f[n - 1]] = free(f[n - 1], s[n])
      <4>1. n - 1 \in 0 .. N
        BY <1>2
      <4>2. f[n - 1] \in MemT
        BY <4>1
      <4> QED
        BY <4>2
    <3> QED
      BY <3>1
  <2>2. \A n \in 0 .. N : n # 0 => n \in 1 .. N
    BY <1>2
  <2> HIDE DEF step
  <2>3. f = [n \in 0 .. N |-> IF n = 0 THEN m ELSE step[n][f[n - 1]]]
    BY <1>5 DEF Rounds
  <2> QED
    BY <2>1, <2>2, <2>3
<1>7. upto = round(upto)
  <2> HIDE DEF round
  <2> QED
    BY <1>6
<1> HIDE DEF upto
<1>8. upto[0] = m /\ \A n \in 1 .. N : upto[n] = free(upto[n - 1], s[n])
  <2>1. \A n \in 0 .. N : upto[n] = IF n = 0 THEN m ELSE free(upto[n - 1], s[n])
    BY <1>7
  <2> QED
    BY <1>2, <2>1
<1> DEFINE Good == {n \in 0 .. N : /\ Sound(upto[n], H) /\ Keeps(m, upto[n], {l}) /\ Spares(m, upto[n], l)
                                   /\ Attached(upto[n], l) = {s[k] : k \in n + 1 .. N}}
<1>9. 0 \in Good
  <2>1. Spares(m, m, l)
    BY DEF Spares, SameInfo
  <2> QED
    BY <1>2, <1>8, <2>1, NothingMoved
<1>10. ASSUME NEW n \in 1 .. N, n - 1 \in Good PROVE n \in Good
  <2> DEFINE a == upto[n - 1]
             c == upto[n]
             i == s[n]
  <2>1. /\ Sound(a, H) /\ Keeps(m, a, {l}) /\ Attached(a, l) = {s[k] : k \in n .. N}
        /\ Spares(m, a, l)
        /\ i \in Infos /\ n \in n .. N /\ n \in 0 .. N
    BY <1>2, <1>10
  <2>2. a.info[i].owner = l
    BY <2>1 DEF Attached
  <2>3. c = FreeInfo(Detach(a, l, i), i)
    BY <1>8 DEF free
  <2> HIDE DEF a, c, i
  <2>4. /\ Sound(c, H) /\ SameLists(a, c) /\ Moved(a, c, i, NoList)
        /\ \A j \in Infos \ {i} : SameInfo(a, c, j)
    BY <2>1, <2>2, <2>3, FreeOneOK
  <2>5. Keeps(a, c, {l})
    BY <2>2, <2>4, MovedKeeps
  <2>6. Attached(c, l) = Attached(a, l) \ {i}
    BY <2>4, Numbers DEF Attached, Moved
  <2>7. {s[k] : k \in n .. N} \ {i} = {s[k] : k \in n + 1 .. N}
    BY <1>2 DEF i
  <2>8. Keeps(m, c, {l})
    BY <2>1, <2>5, KeepsTogether
  <2>9. Spares(m, c, l)
    BY <2>1, <2>2, <2>4, Numbers DEF Spares, Moved, SameInfo
  <2> QED
    BY <2>1, <2>4, <2>6, <2>7, <2>8, <2>9 DEF c
<1>11. N \in Good
  <2> HIDE DEF Good
  <2>1. \A n \in 0 .. N : n \in Good
    BY <1>2, <1>9, <1>10, UpTo
  <2> QED
    BY <1>2, <2>1
<1> DEFINE e == upto[N]
<1>12. Sound(e, H) /\ Keeps(m, e, {l}) /\ Attached(e, l) = {} /\ Spares(m, e, l)
  BY <1>2, <1>11
<1> HIDE DEF e
<1>13. /\ Sound(PutUse(e, l), H) /\ Keeps(e, PutUse(e, l), {l}) /\ ~PutUse(e, l).list[l].use
       /\ PutUse(e, l).info = e.info
  BY <1>12, ReleaseOK
<1>14. Keeps(m, PutUse(e, l), {l})
  BY <1>12, <1>13, KeepsTogether
<1>15. Spares(m, PutUse(e, l), l) /\ Attached(PutUse(e, l), l) = {}
  BY <1>12, <1>13 DEF Spares, SameInfo, Attached
<1> QED
  BY <1>1, <1>13, <1>14, <1>15 DEF e

\* A new info is filled in and attached to list l.
LEMMA AddOneOK ==
    ASSUME NEW m, NEW H, Sound(m, H), NEW i \in Infos, ~m.info[i].use, NEW p, IsPublic(p),
           NEW l \in Lists, m.list[l].use
    PROVE  LET a == Attach(AllocInfo(m, i, p), l, i)
           IN  /\ Sound(a, H) /\ SameLists(m, a) /\ Keeps(m, a, {l}) /\ Moved(m, a, i, l)
               /\ a.info[i].dev = p.dev /\ a.info[i].conn = p.conn
               /\ \A j \in Infos \ {i} : SameInfo(m, a, j)
<1> DEFINE b == AllocInfo(m, i, p)
           a == Attach(b, l, i)
<1>1. Sound(b, H \cup {i}) /\ i \notin H /\ SameLists(m, b) /\ Moved(m, b, i, NoList)
  BY AllocOK
<1>10. Allocated(m, b, i, p.dev, p.conn)
  BY AllocOK
<1> HIDE DEF b
<1>2. b.list[l].use
  BY <1>1 DEF SameLists, SameList
<1>3. /\ Sound(a, (H \cup {i}) \ {i}) /\ SameLists(b, a) /\ Moved(b, a, i, l)
      /\ \A j \in Infos : SameInfo(b, a, j)
  BY <1>1, <1>2, AttachOK
<1> HIDE DEF a
<1>4. (H \cup {i}) \ {i} = H
  BY <1>1
<1>5. m.info[i].owner = NoList
  BY DEF Sound, RefsOK
<1>6. Moved(m, a, i, l)
  BY <1>1, <1>3 DEF Moved
<1>7. SameLists(m, a)
  BY <1>1, <1>3, SameListsTogether
<1>9. /\ a.info[i].dev = p.dev /\ a.info[i].conn = p.conn
      /\ \A j \in Infos \ {i} : SameInfo(m, a, j)
  BY <1>3, <1>10 DEF SameInfo, Allocated
<1>8. Keeps(m, a, {l})
  BY <1>5, <1>6, <1>7, MovedKeeps, Numbers
<1> QED
  BY <1>3, <1>4, <1>6, <1>7, <1>8, <1>9 DEF a, b

\* What list l is while a call fills it.
Filling(m, H, l) ==
    {a \in MemT : /\ Sound(a, H) /\ Keeps(m, a, {l})
                  /\ a.list[l].use /\ a.list[l].current = NoInfo}

LEMMA FillOne ==
    ASSUME NEW m, NEW H, NEW l \in Lists, NEW a \in Filling(m, H, l), FreeInfos(a) # {},
           NEW p, IsPublic(p)
    PROVE  LET i == Lowest(FreeInfos(a))
               c == Attach(AllocInfo(a, i, p), l, i)
           IN  /\ c \in Filling(m, H, l)
               /\ i \in Infos /\ a.info[i].owner = NoList /\ Moved(a, c, i, l)
               /\ c.info[i].dev = p.dev /\ c.info[i].conn = p.conn
               /\ \A j \in Infos \ {i} : SameInfo(a, c, j)
<1> DEFINE i == Lowest(FreeInfos(a))
           c == Attach(AllocInfo(a, i, p), l, i)
<1>1. Sound(a, H) /\ Keeps(m, a, {l}) /\ a.list[l].use /\ a.list[l].current = NoInfo
  BY DEF Filling
<1>2. i \in FreeInfos(a)
  BY LowestIs, Numbers DEF FreeInfos
<1>3. i \in Infos /\ ~a.info[i].use /\ a.info[i].owner = NoList
  BY <1>1, <1>2 DEF FreeInfos, Sound, RefsOK
<1> HIDE DEF i
<1>4. /\ Sound(c, H) /\ SameLists(a, c) /\ Keeps(a, c, {l}) /\ Moved(a, c, i, l)
      /\ c.info[i].dev = p.dev /\ c.info[i].conn = p.conn
      /\ \A j \in Infos \ {i} : SameInfo(a, c, j)
  BY <1>1, <1>3, AddOneOK
<1> HIDE DEF c
<1>5. Keeps(m, c, {l})
  BY <1>1, <1>4, KeepsTogether
<1>6. c.list[l].use /\ c.list[l].current = NoInfo
  BY <1>1, <1>4 DEF SameLists, SameList
<1>7. c \in Filling(m, H, l)
  BY <1>4, <1>5, <1>6 DEF Filling, Sound
<1> QED
  BY <1>3, <1>4, <1>7 DEF c, i

\* A round of l_DevEnum_Clone_All.
CloneOne(m, l, a, i) ==
    IF FreeInfos(a) = {} THEN a
    ELSE LET new == Lowest(FreeInfos(a))
         IN Attach(AllocInfo(a, new, m.info[i]), l, new)

LEMMA CloneOK ==
    ASSUME NEW m, NEW H, Sound(m, H), NEW from \in Lists, m.list[from].use,
           NEW l \in Lists, m.list[l].use, m.list[l].current = NoInfo
    PROVE  CloneInto(m, from, l) \in Filling(m, H, l)
<1> DEFINE s == Chain(m, from)
           N == Len(s)
           V == Filling(m, H, l)
           step == [n \in 1 .. N |-> [a \in V |-> CloneOne(m, l, a, s[n])]]
           round(f) == [n \in 0 .. N |-> IF n = 0 THEN m ELSE CloneOne(m, l, f[n - 1], s[n])]
           upto == CHOOSE f : f = round(f)
<1>1. CloneInto(m, from, l) = upto[N]
  BY DEF CloneInto, ForEach, CloneOne
<1>2. N \in Nat /\ m \in V /\ \A n \in 1 .. N : s[n] \in Infos
  <2>1. s \in Seq(Infos)
    BY ChainOf
  <2> HIDE DEF s
  <2> QED
    BY <2>1, NothingMoved DEF Filling, Sound
<1> HIDE DEF s, N
<1>3. ASSUME NEW a \in V, NEW i \in Infos PROVE CloneOne(m, l, a, i) \in V
  <2>1. IsPublic(m.info[i])
    <3>1. m.info[i] \in InfoT
      BY FieldsAre DEF Sound
    <3> QED
      BY <3>1 DEF InfoT, IsPublic
  <2>2. CASE FreeInfos(a) = {}
    BY <2>2 DEF CloneOne
  <2>3. CASE FreeInfos(a) # {}
    BY <2>1, <2>3, FillOne DEF CloneOne
  <2> QED
    BY <2>2, <2>3
<1> HIDE DEF V
<1>4. step \in [1 .. N -> [V -> V]]
  BY <1>2, <1>3
<1>5. PICK f \in [0 .. N -> V] : Rounds(f, N, m, step)
  <2> HIDE DEF step
  <2> QED
    BY <1>2, <1>4, LoopExists
<1>6. f = round(f)
  <2>1. ASSUME NEW n \in 1 .. N
        PROVE  f[n - 1] \in V /\ step[n][f[n - 1]] = CloneOne(m, l, f[n - 1], s[n])
    <3>1. n - 1 \in 0 .. N
      BY <1>2
    <3>2. f[n - 1] \in V
      BY <3>1
    <3> QED
      BY <3>2
  <2>2. \A n \in 0 .. N : n # 0 => n \in 1 .. N
    BY <1>2
  <2> HIDE DEF step
  <2>3. f = [n \in 0 .. N |-> IF n = 0 THEN m ELSE step[n][f[n - 1]]]
    BY <1>5 DEF Rounds
  <2> QED
    BY <2>1, <2>2, <2>3
<1>7. upto = round(upto)
  <2> HIDE DEF round
  <2> QED
    BY <1>6
<1> HIDE DEF upto
<1>8. upto[0] = m /\ \A n \in 1 .. N : upto[n] = CloneOne(m, l, upto[n - 1], s[n])
  <2>1. \A n \in 0 .. N : upto[n] = IF n = 0 THEN m ELSE CloneOne(m, l, upto[n - 1], s[n])
    BY <1>7
  <2> QED
    BY <1>2, <2>1
<1> DEFINE Good == {n \in 0 .. N : upto[n] \in V}
<1>9. 0 \in Good /\ \A n \in 1 .. N : n - 1 \in Good => n \in Good
  BY <1>2, <1>3, <1>8
<1>10. N \in Good
  <2> HIDE DEF Good
  <2>1. \A n \in 0 .. N : n \in Good
    BY <1>2, <1>9, UpTo
  <2> QED
    BY <1>2, <2>1
<1> QED
  BY <1>1, <1>10 DEF V

\* A round of l_EnumKey_Guids.
InitOne(l, disconnected, pattern, a, d) ==
    IF ~IsListed(d, disconnected, pattern) THEN a
    ELSE IF a.ok /\ FreeInfos(a.mem) # {}
    THEN [ok |-> TRUE, mem |-> AddElement(a.mem, l, Lowest(FreeInfos(a.mem)), d)]
    ELSE [a EXCEPT !.ok = FALSE]

\* No two infos of list l are about one device.
Distinct(m, l) ==
    \A i, j \in Attached(m, l) : m.info[i].dev = m.info[j].dev => i = j

\* List l has an info for each of the devices D, nothing else has changed.
Filled(m, a, l, D) ==
    /\ \A j \in Infos : a.info[j].owner # l =>
           a.info[j].owner = m.info[j].owner /\ SameInfo(m, a, j)
    /\ \A j \in Attached(a, l) :
           a.info[j].dev \in D /\ a.info[j].conn = (a.info[j].dev \in present)
    /\ \A d \in D : \E j \in Attached(a, l) : a.info[j].dev = d
    /\ Distinct(a, l)

LEMMA FilledOne ==
    ASSUME NEW m, NEW a, NEW l \in Lists, NEW D, Filled(m, a, l, D), NEW d, d \notin D, NEW c,
           NEW i \in Infos, a.info[i].owner = NoList, Moved(a, c, i, l),
           c.info[i].dev = d, c.info[i].conn = (d \in present),
           \A j \in Infos \ {i} : SameInfo(a, c, j)
    PROVE  Filled(m, c, l, D \cup {d})
<1>1. Attached(c, l) = Attached(a, l) \cup {i} /\ i \notin Attached(a, l)
  BY Numbers DEF Attached, Moved
<1>2. \A j \in Attached(a, l) : /\ j \in Infos \ {i}
                                /\ c.info[j].dev = a.info[j].dev /\ c.info[j].conn = a.info[j].conn
  BY <1>1 DEF Attached, SameInfo
<1>3. \A j \in Infos : c.info[j].owner # l =>
          c.info[j].owner = m.info[j].owner /\ SameInfo(m, c, j)
  BY DEF Filled, Moved, SameInfo
<1>4. \A j \in Attached(c, l) :
          c.info[j].dev \in D \cup {d} /\ c.info[j].conn = (c.info[j].dev \in present)
  BY <1>1, <1>2 DEF Filled
<1>5. \A e \in D \cup {d} : \E j \in Attached(c, l) : c.info[j].dev = e
  BY <1>1, <1>2 DEF Filled
<1>6. Distinct(c, l)
  BY <1>1, <1>2 DEF Filled, Distinct
<1> QED
  BY <1>3, <1>4, <1>5, <1>6 DEF Filled

LEMMA InitOK ==
    ASSUME NEW m, NEW H, Sound(m, H), NEW l \in Lists, ~m.list[l].use,
           NEW disconnected, NEW pattern
    PROVE  LET init == InitInternal(m, l, disconnected, pattern)
           IN  /\ Sound(init.mem, H) /\ Keeps(m, init.mem, {l})
               /\ init.ok =>
                      /\ init.mem.list[l].use
                      /\ Filled(m, init.mem, l, {d \in Devices : IsListed(d, disconnected, pattern)})
               /\ init.mem.list[l].use => init.mem.list[l].current = NoInfo
<1> DEFINE b == AcquireList(m, l)
           s == [d \in Devices |-> d]
           N == Len(s)
           W == Filling(m, H, l)
           due(n) == {d \in 1 .. n : IsListed(d, disconnected, pattern)}
           V == [n \in 0 .. N |-> {a \in [ok : BOOLEAN, mem : W] : a.ok => Filled(m, a.mem, l, due(n))}]
           begun == [ok |-> TRUE, mem |-> b]
           Body(a, d) == InitOne(l, disconnected, pattern, a, d)
           step == [n \in 1 .. N |-> [a \in V[n - 1] |-> Body(a, s[n])]]
           round(f) == [n \in 0 .. N |-> IF n = 0 THEN begun ELSE Body(f[n - 1], s[n])]
           upto == CHOOSE f : f = round(f)
           init == InitInternal(m, l, disconnected, pattern)
<1>1. init = IF upto[N].ok THEN upto[N] ELSE [ok |-> FALSE, mem |-> FreeList(upto[N].mem, l)]
  BY DEF InitInternal, ForEach, InitOne
<1>2. N \in Nat /\ Devices = 1 .. N /\ \A n \in 1 .. N : s[n] = n
  <2>1. s \in Seq(Devices) /\ DOMAIN s = Devices
    BY NumAssumption DEF Devices
  <2>2. DOMAIN s = 1 .. N /\ N \in Nat
    <3> HIDE DEF s
    <3> QED
      BY <2>1
  <2> QED
    BY <2>1, <2>2
<1> HIDE DEF s, N
<1>21. \A n \in 1 .. N : n - 1 \in 0 .. N /\ n \in 0 .. N /\ n \in Devices
  BY <1>2
<1> HIDE DEF W, due, V
<1>22. \A n \in 0 .. N : V[n] = {a \in [ok : BOOLEAN, mem : W] : a.ok => Filled(m, a.mem, l, due(n))}
  BY DEF V
<1>3. begun \in V[0]
  <2>1. /\ Sound(b, H) /\ Keeps(m, b, {l}) /\ b.list[l].use /\ b.list[l].current = NoInfo
        /\ b.info = m.info /\ Attached(b, l) = {}
    BY AcquireListOK
  <2> HIDE DEF b
  <2>2. b \in W
    BY <2>1 DEF W, Filling, Sound
  <2>3. due(0) = {}
    BY DEF due
  <2>4. Filled(m, b, l, {})
    BY <2>1 DEF Filled, Distinct, SameInfo
  <2>5. begun \in [ok : BOOLEAN, mem : W] /\ begun.mem = b
    BY <2>2
  <2>6. V[0] = {a \in [ok : BOOLEAN, mem : W] : a.ok => Filled(m, a.mem, l, {})}
    BY <1>2, <1>22, <2>3
  <2> HIDE DEF begun
  <2> QED
    BY <2>4, <2>5, <2>6
<1> HIDE DEF begun
<1>4. ASSUME NEW n \in 1 .. N, NEW a \in V[n - 1] PROVE Body(a, s[n]) \in V[n]
  <2> DEFINE d == n
  <2>1. /\ a \in [ok : BOOLEAN, mem : W] /\ s[n] = d /\ d \in Devices
        /\ a.ok => Filled(m, a.mem, l, due(n - 1))
    BY <1>2, <1>21, <1>22
  <2>2. due(n) = IF IsListed(d, disconnected, pattern) THEN due(n - 1) \cup {d} ELSE due(n - 1)
    <3>1. 1 .. n = (1 .. n - 1) \cup {d}
      BY <1>2
    <3> QED
      BY <3>1 DEF due
  <2>3. d \notin due(n - 1)
    BY <1>2 DEF due
  <2> HIDE DEF d
  <2>4. CASE ~IsListed(d, disconnected, pattern)
    BY <1>21, <1>22, <2>1, <2>2, <2>4 DEF InitOne
  <2>5. CASE IsListed(d, disconnected, pattern) /\ a.ok /\ FreeInfos(a.mem) # {}
    <3> DEFINE i == Lowest(FreeInfos(a.mem))
               p == [dev |-> d, conn |-> d \in present, flags |-> {}]
               c == AddElement(a.mem, l, i, d)
    <3>1. i \in Infos /\ ~a.mem.info[i].use
      <4>1. i \in FreeInfos(a.mem)
        BY <2>5, LowestIs, Numbers DEF FreeInfos
      <4> QED
        BY <4>1 DEF FreeInfos
    <3>2. IsPublic(p) /\ c = Attach(AllocInfo(a.mem, i, p), l, i)
      <4>1. Sound(a.mem, H)
        BY <2>1 DEF W, Filling
      <4> QED
        BY <2>1, <3>1, <4>1, AddElementIs
    <3>3. p.dev = d /\ p.conn = (d \in present)
      OBVIOUS
    <3>4. /\ c \in W /\ i \in Infos /\ a.mem.info[i].owner = NoList /\ Moved(a.mem, c, i, l)
          /\ c.info[i].dev = d /\ c.info[i].conn = (d \in present)
          /\ \A j \in Infos \ {i} : SameInfo(a.mem, c, j)
      <4> HIDE DEF p
      <4> QED
        BY <2>1, <2>5, <3>2, <3>3, FillOne DEF W
    <3>5. Body(a, s[n]) = [ok |-> TRUE, mem |-> c]
      BY <2>1, <2>5 DEF InitOne
    <3> HIDE DEF c, i, p
    <3>6. Filled(m, c, l, due(n))
      BY <2>1, <2>2, <2>3, <2>5, <3>4, FilledOne
    <3> QED
      BY <1>21, <1>22, <3>4, <3>5, <3>6
  <2>6. CASE IsListed(d, disconnected, pattern) /\ ~(a.ok /\ FreeInfos(a.mem) # {})
    <3>1. [a EXCEPT !.ok = FALSE] \in [ok : BOOLEAN, mem : W] /\ ~[a EXCEPT !.ok = FALSE].ok
      BY <2>1
    <3>2. Body(a, s[n]) = [a EXCEPT !.ok = FALSE]
      BY <2>1, <2>6 DEF InitOne
    <3> QED
      BY <1>21, <1>22, <3>1, <3>2
  <2> QED
    BY <2>4, <2>5, <2>6
<1> HIDE DEF Body
<1>5. \A n \in 1 .. N : \A a \in V[n - 1] : step[n][a] = Body(a, s[n]) /\ step[n][a] \in V[n]
  BY <1>4
<1>6. PICK f : Rounds(f, N, begun, step) /\ \A n \in 0 .. N : f[n] \in V[n]
  <2> HIDE DEF step
  <2> QED
    BY <1>2, <1>3, <1>5, LoopKeeps
<1>7. f = round(f)
  <2>1. \A n \in 0 .. N : n # 0 => step[n][f[n - 1]] = Body(f[n - 1], s[n])
    <3>1. \A n \in 0 .. N : n # 0 => n \in 1 .. N
      BY <1>2
    <3> HIDE DEF step
    <3> QED
      BY <1>5, <1>6, <1>21, <3>1
  <2> HIDE DEF step
  <2>2. f = [n \in 0 .. N |-> IF n = 0 THEN begun ELSE step[n][f[n - 1]]]
    BY <1>6 DEF Rounds
  <2> QED
    BY <2>1, <2>2
<1>8. upto = round(upto)
  <2> HIDE DEF round
  <2> QED
    BY <1>7
<1> HIDE DEF upto
<1>9. upto[0] = begun /\ \A n \in 1 .. N : upto[n] = Body(upto[n - 1], s[n])
  <2>1. \A n \in 0 .. N : upto[n] = IF n = 0 THEN begun ELSE Body(upto[n - 1], s[n])
    BY <1>8
  <2> QED
    BY <1>2, <2>1
<1> DEFINE Good == {n \in 0 .. N : upto[n] \in V[n]}
<1>10. 0 \in Good /\ \A n \in 1 .. N : n - 1 \in Good => n \in Good
  BY <1>2, <1>3, <1>4, <1>9
<1>11. N \in Good
  <2> HIDE DEF Good
  <2>1. \A n \in 0 .. N : n \in Good
    BY <1>2, <1>10, UpTo
  <2> QED
    BY <1>2, <2>1
<1> DEFINE built == upto[N]
<1>12. built \in V[N]
  BY <1>11
<1> HIDE DEF built
<1>13. /\ Sound(built.mem, H) /\ Keeps(m, built.mem, {l})
       /\ built.mem.list[l].use /\ built.mem.list[l].current = NoInfo
       /\ built.ok => Filled(m, built.mem, l, due(N))
  <2>1. N \in 0 .. N
    BY <1>2
  <2>2. built \in [ok : BOOLEAN, mem : W] /\ (built.ok => Filled(m, built.mem, l, due(N)))
    BY <1>12, <1>22, <2>1
  <2>3. built.mem \in W
    BY <2>2
  <2> QED
    BY <2>2, <2>3 DEF W, Filling
<1>131. due(N) = {d \in Devices : IsListed(d, disconnected, pattern)}
  BY <1>2 DEF due
<1>14. CASE built.ok
  <2>1. init = built
    BY <1>1, <1>14 DEF built
  <2> HIDE DEF init
  <2> QED
    BY <1>13, <1>131, <2>1 DEF init
<1>15. CASE ~built.ok
  <2> DEFINE c == FreeList(built.mem, l)
  <2>1. init = [ok |-> FALSE, mem |-> c]
    BY <1>1, <1>15 DEF built
  <2>2. Sound(c, H) /\ Keeps(built.mem, c, {l}) /\ ~c.list[l].use
    BY <1>13, FreeListOK
  <2> HIDE DEF c
  <2>3. Keeps(m, c, {l})
    BY <1>13, <2>2, KeepsTogether
  <2> HIDE DEF init
  <2>4. init.mem = c /\ ~init.ok
    BY <2>1
  <2> QED
    BY <2>2, <2>3, <2>4 DEF init
<1> QED
  BY <1>14, <1>15


-----------------------------------------------------------------------------
(***************************************************************************)
(* LstK_Sync.                                                              *)
(***************************************************************************)
LEMMA PaintsTogether ==
    ASSUME NEW m, NEW a, NEW b, Paints(m, a), Paints(a, b)
    PROVE  Paints(m, b)
BY DEF Paints

LEMMA PreparedPaints ==
    ASSUME NEW m \in MemT, NEW master
    PROVE  /\ Paints(m, Prepared(m, master))
           /\ \A i \in Infos :
                  LET r == Prepared(m, master).info[i]
                  IN  /\ r.dev = m.info[i].dev /\ r.conn = m.info[i].conn
                      /\ i \in ChainSet(m, master) => r.flags = {}
<1> DEFINE listed == ChainSet(m, master)
           clear(i) == [m.info[i] EXCEPT !.flags = IF i \in listed THEN {} ELSE @]
           t == [i \in Infos |-> clear(i)]
           a == Prepared(m, master)
<1>1. a = [m EXCEPT !.info = t]
  BY DEF Prepared
<1> HIDE DEF listed
<1>2. ASSUME NEW i \in Infos
      PROVE  /\ clear(i) \in InfoT
             /\ clear(i).use = m.info[i].use /\ clear(i).ref = m.info[i].ref
             /\ clear(i).next = m.info[i].next /\ clear(i).prev = m.info[i].prev
             /\ clear(i).owner = m.info[i].owner
             /\ clear(i).dev = m.info[i].dev /\ clear(i).conn = m.info[i].conn
             /\ i \in listed => clear(i).flags = {}
  <2>1. m.info[i] \in InfoT
    BY FieldsAre
  <2> DEFINE g == IF i \in listed THEN {} ELSE m.info[i].flags
  <2>2. g \in SUBSET SyncFlags /\ (i \in listed => g = {})
    BY <2>1 DEF InfoT
  <2>3. clear(i) = [m.info[i] EXCEPT !.flags = g]
    OBVIOUS
  <2> HIDE DEF g, clear
  <2> QED
    BY <2>1, <2>2, <2>3 DEF InfoT
<1> HIDE DEF clear
<1>3. t \in [Infos -> InfoT] /\ \A i \in Infos : t[i] = clear(i)
  BY <1>2
<1> HIDE DEF t
<1>4. a \in MemT /\ a.list = m.list /\ a.info = t
  BY <1>1, <1>3 DEF MemT
<1> HIDE DEF a
<1> QED
  BY <1>2, <1>3, <1>4 DEF Paints, a, listed

\* What becomes of the info i that is painted, and of no other.
Painted(m, a, i, conn, flags) ==
    /\ a.info[i].dev = m.info[i].dev /\ a.info[i].conn = conn /\ a.info[i].flags = flags
    /\ \A j \in Infos \ {i} : SameInfo(m, a, j)

LEMMA PaintedThis ==
    ASSUME NEW m \in MemT, NEW i \in Infos, NEW c \in BOOLEAN, NEW f \in SUBSET SyncFlags, NEW a,
           (a = PutFlags(m, i, f) /\ c = m.info[i].conn) \/ a = PutConn(m, i, c, f)
    PROVE  Painted(m, a, i, c, f)
<1>1. m.info[i] \in InfoT
  BY FieldsAre
<1>2. CASE a = PutFlags(m, i, f) /\ c = m.info[i].conn
  BY <1>1, <1>2 DEF PutFlags, MemT, InfoT, SameInfo, Painted
<1>3. CASE a = PutConn(m, i, c, f)
  BY <1>1, <1>3 DEF PutConn, MemT, InfoT, SameInfo, Painted
<1> QED
  BY <1>2, <1>3

\* What a sync reports of a device that has come or gone.
Change(conn, mask) == {"connect change", IF conn THEN "added" ELSE "removed"} \cap mask

LEMMA SyncBothIs ==
    ASSUME NEW m \in MemT, NEW i \in Infos, NEW conn \in BOOLEAN, NEW mask \in SUBSET SyncFlags
    PROVE  LET c == SyncBoth(m, i, conn, mask)
               f == IF m.info[i].conn = conn THEN {"unchanged"}
                                             ELSE m.info[i].flags \cup Change(conn, mask)
           IN  Paints(m, c) /\ Painted(m, c, i, conn, f)
<1> DEFINE change == Change(conn, mask)
           f == m.info[i].flags \cup change
           c == SyncBoth(m, i, conn, mask)
<1>1. m.info[i] \in InfoT /\ {"unchanged"} \in SUBSET SyncFlags /\ change \in SUBSET SyncFlags
  BY FieldsAre DEF SyncFlags, Change
<1>2. f \in SUBSET SyncFlags
  BY <1>1 DEF InfoT
<1>3. CASE m.info[i].conn = conn
  <2>1. c = PutFlags(m, i, {"unchanged"})
    BY <1>3 DEF SyncBoth, PutFlags
  <2> HIDE DEF c
  <2>2. Painted(m, c, i, conn, {"unchanged"})
    BY <1>1, <1>3, <2>1, PaintedThis
  <2>3. Paints(m, c)
    BY <1>1, <2>1, PaintsOne
  <2> QED
    BY <1>3, <2>2, <2>3 DEF c
<1>4. CASE m.info[i].conn # conn
  <2>1. c = [m EXCEPT !.info[i].conn = conn, !.info[i].flags = @ \cup change]
    BY <1>4 DEF SyncBoth, Change
  <2> HIDE DEF change, c
  <2>2. [m EXCEPT !.info[i].conn = conn, !.info[i].flags = @ \cup change]
           = [m EXCEPT !.info[i].conn = conn, !.info[i].flags = f]
    <3>1. [m.info[i] EXCEPT !.conn = conn].flags = m.info[i].flags
      BY <1>1 DEF InfoT
    <3> QED
      BY <3>1 DEF MemT
  <2>3. c = PutConn(m, i, conn, f)
    BY <2>1, <2>2 DEF PutConn
  <2> HIDE DEF f
  <2>4. Painted(m, c, i, conn, f)
    BY <1>2, <2>3, PaintedThis
  <2>5. Paints(m, c)
    BY <1>2, <2>3, PaintsOne
  <2> QED
    BY <1>4, <2>4, <2>5 DEF c, f, change
<1> QED
  BY <1>3, <1>4

\* What the lists are while a sync with the list slave runs.  No info that was
\* on a list is ever on none, and the slave's cursor is no worse than it was.
Syncing(m, H, slave) ==
    {a \in MemT : /\ Sound(a, H) /\ Keeps(m, a, {slave}) /\ SameLists(m, a)
                  /\ Cursor(m, slave) => Cursor(a, slave)
                  /\ \A j \in Infos : m.info[j].owner # NoList => a.info[j].owner # NoList}

LEMMA SyncingPaints ==
    ASSUME NEW m, NEW H, NEW slave \in Lists, NEW a \in Syncing(m, H, slave), NEW b, Paints(a, b)
    PROVE  b \in Syncing(m, H, slave)
<1>1. Sound(a, H) /\ Keeps(m, a, {slave}) /\ SameLists(m, a)
      /\ (Cursor(m, slave) => Cursor(a, slave)) /\ a \in MemT
      /\ \A j \in Infos : m.info[j].owner # NoList => a.info[j].owner # NoList
  BY DEF Syncing
<1>2. Sound(b, H)
  BY <1>1, PaintedIs
<1>3. Keeps(m, b, {slave})
  BY <1>1 DEF Keeps, Paints, SameList
<1>4. SameLists(m, b)
  BY <1>1 DEF SameLists, Paints, SameList
<1>5. Cursor(a, slave) => Cursor(b, slave)
  <2>1. a.list[slave].current \in Infos \cup {NoInfo} /\ b.list[slave] = a.list[slave]
    BY <1>1, FieldsAre DEF Paints, ListType
  <2> QED
    BY <2>1 DEF Cursor, Paints
<1> QED
  BY <1>1, <1>2, <1>3, <1>4, <1>5 DEF Syncing, Paints

\* An info of the slave that l_DevEnum_Sync_Slave moves to the master.
LEMMA TakenOver ==
    ASSUME NEW a, NEW H, Sound(a, H), NEW master \in Lists, a.list[master].use,
           NEW slave \in Lists, NEW i \in Infos, a.info[i].owner = slave
    PROVE  LET d == Attach(Detach(a, slave, i), master, i)
           IN  /\ Sound(d, H) /\ SameLists(a, d) /\ Moved(a, d, i, master)
               /\ \A j \in Infos : SameInfo(a, d, j)
               /\ Cursor(a, slave) => Cursor(d, slave)
<1> DEFINE b == Detach(a, slave, i)
<1>1. /\ Sound(b, H \cup {i}) /\ i \notin H /\ SameLists(a, b) /\ Moved(a, b, i, NoList)
      /\ \A j \in Infos : SameInfo(a, b, j)
      /\ a.list[slave].current = i => b.list[slave].stray
  BY DetachOK
<1> HIDE DEF b
<1>2. b.list[master].use /\ i \in H \cup {i}
  BY <1>1 DEF SameLists, SameList
<1> DEFINE d == Attach(b, master, i)
<1>3. /\ Sound(d, (H \cup {i}) \ {i}) /\ SameLists(b, d) /\ Moved(b, d, i, master)
      /\ \A j \in Infos : SameInfo(b, d, j)
  BY <1>1, <1>2, AttachOK
<1> HIDE DEF d
<1>4. (H \cup {i}) \ {i} = H
  BY <1>1
<1>5. Moved(a, d, i, master) /\ \A j \in Infos : SameInfo(a, d, j)
  BY <1>1, <1>3 DEF Moved, SameInfo
<1>6. SameLists(a, d)
  BY <1>1, <1>3, SameListsTogether
<1>7. ASSUME Cursor(a, slave), ~d.list[slave].stray
      PROVE  Cursor(d, slave)
  <2>1. a.list[slave].current \in Infos \cup {NoInfo} /\ a.list[slave].current # i
        /\ ~a.list[slave].stray /\ d.list[slave].current = a.list[slave].current
        /\ d.list[slave].use = a.list[slave].use
    BY <1>1, <1>3, <1>6, <1>7, FieldsAre DEF SameLists, SameList, ListType, Sound
  <2> QED
    BY <1>5, <1>7, <2>1 DEF Cursor, Moved
<1>8. Cursor(a, slave) => Cursor(d, slave)
  BY <1>7 DEF Cursor
<1> QED
  BY <1>3, <1>4, <1>5, <1>6, <1>8 DEF d, b

LEMMA SyncSlaveOK ==
    ASSUME NEW m, NEW H, NEW master \in Lists, m.list[master].use, NEW slave \in Lists,
           NEW a \in Syncing(m, H, slave), NEW mask \in SUBSET SyncFlags,
           NEW i \in Infos, m.info[i].owner # NoList
    PROVE  Sync_Slave(a, master, slave, mask, i) \in Syncing(m, H, slave)
<1> DEFINE there == Search(a, Chain(a, master), a.info[i].dev)
           moved == Attach(Detach(a, slave, i), master, i)
           f == IF a.info[i].conn THEN {"added"} ELSE {"unchanged"}
           c == Sync_Slave(a, master, slave, mask, i)
<1>1. Sound(a, H) /\ Keeps(m, a, {slave}) /\ SameLists(m, a) /\ a \in MemT
      /\ (Cursor(m, slave) => Cursor(a, slave))
      /\ \A j \in Infos : m.info[j].owner # NoList => a.info[j].owner # NoList
  BY DEF Syncing
<1>2. a.list[master].use
  BY <1>1 DEF SameLists, SameList
<1>3. there \in Infos \cup {NoInfo}
  <2>1. Chain(a, master) \in Seq(Infos)
    BY <1>1, <1>2, ChainOf
  <2> QED
    BY <2>1, SearchIs
<1>4. c = CASE there # NoInfo ->
                   IF a.info[there].flags # {} THEN a ELSE SyncBoth(a, there, a.info[i].conn, mask)
            [] there = NoInfo /\ "added" \in mask -> PutFlags(moved, i, f)
            [] OTHER -> a
  BY DEF Sync_Slave, PutFlags
<1>5. f \in SUBSET SyncFlags /\ a.info[i].conn \in BOOLEAN
  BY <1>1, FieldsAre DEF SyncFlags, InfoT
<1> HIDE DEF there, c, f
<1>6. moved \in Syncing(m, H, slave)
  <2>1. CASE a.info[i].owner = slave
    <3> DEFINE d == moved
    <3>1. /\ Sound(d, H) /\ SameLists(a, d) /\ Moved(a, d, i, master)
          /\ Cursor(a, slave) => Cursor(d, slave)
      BY <1>1, <1>2, <2>1, TakenOver
    <3> HIDE DEF d
    <3>2. SameLists(m, d)
      BY <1>1, <3>1, SameListsTogether
    <3>3. Keeps(a, d, {slave})
      BY <2>1, <3>1, MovedKeeps
    <3>4. Keeps(m, d, {slave})
      BY <1>1, <3>3, KeepsTogether
    <3>5. \A j \in Infos : m.info[j].owner # NoList => d.info[j].owner # NoList
      BY <1>1, <3>1, Numbers DEF Moved
    <3>6. d \in Syncing(m, H, slave)
      BY <1>1, <3>1, <3>2, <3>4, <3>5 DEF Syncing, Sound
    <3> QED
      BY <3>6 DEF d
  <2>2. CASE a.info[i].owner # slave
    <3>1. Detach(a, slave, i) = a
      BY <2>2 DEF Detach
    <3>2. Attach(a, master, i) = a
      BY <1>1 DEF Attach
    <3> QED
      BY <3>1, <3>2
  <2> QED
    BY <2>1, <2>2
<1> HIDE DEF moved
<1>7. CASE there # NoInfo
  <2>1. there \in Infos
    BY <1>3, <1>7
  <2>2. Paints(a, SyncBoth(a, there, a.info[i].conn, mask))
    BY <1>1, <1>5, <2>1, SyncBothIs
  <2>3. SyncBoth(a, there, a.info[i].conn, mask) \in Syncing(m, H, slave)
    BY <2>2, SyncingPaints
  <2> QED
    BY <1>4, <1>7, <2>3 DEF c
<1>8. CASE there = NoInfo /\ "added" \in mask
  <2>1. moved \in MemT
    BY <1>6 DEF Syncing
  <2>2. Paints(moved, PutFlags(moved, i, f))
    BY <1>5, <2>1, PaintsOne
  <2>3. PutFlags(moved, i, f) \in Syncing(m, H, slave)
    BY <1>6, <2>2, SyncingPaints
  <2> QED
    BY <1>4, <1>8, <2>3 DEF c
<1>9. CASE there = NoInfo /\ "added" \notin mask
  BY <1>4, <1>9 DEF c
<1> QED
  BY <1>7, <1>8, <1>9

LEMMA SyncMasterOK ==
    ASSUME NEW m, NEW H, NEW slave \in Lists, m.list[slave].use,
           NEW a \in Syncing(m, H, slave), NEW mask \in SUBSET SyncFlags, NEW i \in Infos
    PROVE  Sync_Master(a, slave, mask, i) \in Syncing(m, H, slave)
<1> DEFINE there == Search(a, Chain(a, slave), a.info[i].dev)
           removed == {"removed"} \cap mask
           f == IF removed = {} THEN {"unchanged"} ELSE removed
           c == Sync_Master(a, slave, mask, i)
<1>1. Sound(a, H) /\ SameLists(m, a) /\ a \in MemT
  BY DEF Syncing
<1>2. a.list[slave].use
  BY <1>1 DEF SameLists, SameList
<1>3. there \in Infos \cup {NoInfo}
  <2>1. Chain(a, slave) \in Seq(Infos)
    BY <1>1, <1>2, ChainOf
  <2> QED
    BY <2>1, SearchIs
<1>4. c = CASE a.info[i].flags # {} -> a
            [] a.info[i].flags = {} /\ there # NoInfo -> SyncBoth(a, i, a.info[there].conn, mask)
            [] a.info[i].flags = {} /\ there = NoInfo /\ a.info[i].conn ->
                   PutConn(a, i, FALSE, f)
            [] OTHER -> PutFlags(a, i, {"unchanged"})
  BY DEF Sync_Master, PutFlags, PutConn
<1>5. f \in SUBSET SyncFlags /\ {"unchanged"} \in SUBSET SyncFlags
  BY DEF SyncFlags
<1> HIDE DEF there, c, f
<1>6. Paints(a, c)
  <2>1. CASE a.info[i].flags # {}
    BY <1>1, <1>4, <2>1, PaintsOne
  <2>2. CASE a.info[i].flags = {} /\ there # NoInfo
    <3>1. there \in Infos
      BY <1>3, <2>2
    <3>2. a.info[there].conn \in BOOLEAN
      BY <1>1, <3>1, FieldsAre DEF InfoT
    <3>3. Paints(a, SyncBoth(a, i, a.info[there].conn, mask))
      BY <1>1, <3>2, SyncBothIs
    <3> QED
      BY <1>4, <2>2, <3>3
  <2>3. CASE a.info[i].flags = {} /\ there = NoInfo /\ a.info[i].conn
    <3>1. Paints(a, PutConn(a, i, FALSE, f))
      BY <1>1, <1>5, PaintsOne
    <3> QED
      BY <1>4, <2>3, <3>1
  <2>4. CASE a.info[i].flags = {} /\ there = NoInfo /\ ~a.info[i].conn
    <3>1. Paints(a, PutFlags(a, i, {"unchanged"}))
      BY <1>1, <1>5, PaintsOne
    <3> QED
      BY <1>4, <2>4, <3>1
  <2> QED
    BY <2>1, <2>2, <2>3, <2>4
<1> QED
  BY <1>6, SyncingPaints DEF c

\* The two passes of a sync, over the chain it has found.
SlavePass(master, slave, mask, b, s) ==
    ForEach(LAMBDA a, i : Sync_Slave(a, master, slave, mask, i), b, s)
MasterPass(slave, mask, b, s) == ForEach(LAMBDA a, i : Sync_Master(a, slave, mask, i), b, s)

\* A pass whose round n leads from V[n - 1] to V[n] ends in V[N].
LEMMA SlavePassKeeps ==
    ASSUME NEW master, NEW slave, NEW mask, NEW s, NEW N \in Nat, Len(s) = N,
           NEW V, NEW b \in V[0],
           \A n \in 1 .. N : \A a \in V[n - 1] : Sync_Slave(a, master, slave, mask, s[n]) \in V[n]
    PROVE  SlavePass(master, slave, mask, b, s) \in V[N]
<1> DEFINE Body(a, i) == Sync_Slave(a, master, slave, mask, i)
           step == [n \in 1 .. N |-> [a \in V[n - 1] |-> Body(a, s[n])]]
           round(f) == [n \in 0 .. N |-> IF n = 0 THEN b ELSE Body(f[n - 1], s[n])]
           upto == CHOOSE f : f = round(f)
<1>1. SlavePass(master, slave, mask, b, s) = upto[N]
  BY DEF SlavePass, ForEach
<1> HIDE DEF Body
<1>2. \A n \in 1 .. N : \A a \in V[n - 1] : step[n][a] = Body(a, s[n]) /\ step[n][a] \in V[n]
  BY DEF Body
<1>3. PICK f : Rounds(f, N, b, step) /\ \A n \in 0 .. N : f[n] \in V[n]
  <2> HIDE DEF step
  <2> QED
    BY <1>2, LoopKeeps
<1>4. f = round(f)
  <2>1. \A n \in 0 .. N : n # 0 => step[n][f[n - 1]] = Body(f[n - 1], s[n])
    <3>1. \A n \in 0 .. N : n # 0 => n \in 1 .. N /\ n - 1 \in 0 .. N
      OBVIOUS
    <3> HIDE DEF step
    <3> QED
      BY <1>2, <1>3, <3>1
  <2> HIDE DEF step
  <2>2. f = [n \in 0 .. N |-> IF n = 0 THEN b ELSE step[n][f[n - 1]]]
    BY <1>3 DEF Rounds
  <2> QED
    BY <2>1, <2>2
<1>5. upto = round(upto)
  <2> HIDE DEF round
  <2> QED
    BY <1>4
<1> HIDE DEF upto
<1>6. upto[0] = b /\ \A n \in 1 .. N : upto[n] = Body(upto[n - 1], s[n])
  <2>1. \A n \in 0 .. N : upto[n] = IF n = 0 THEN b ELSE Body(upto[n - 1], s[n])
    BY <1>5
  <2> QED
    BY <2>1
<1> DEFINE Good == {n \in 0 .. N : upto[n] \in V[n]}
<1>7. 0 \in Good /\ \A n \in 1 .. N : n - 1 \in Good => n \in Good
  BY <1>6 DEF Body
<1> HIDE DEF Good
<1>8. N \in Good
  <2>1. \A n \in 0 .. N : n \in Good
    BY <1>7, UpTo
  <2> QED
    BY <2>1
<1> QED
  BY <1>1, <1>8 DEF Good

LEMMA MasterPassKeeps ==
    ASSUME NEW slave, NEW mask, NEW s, NEW N \in Nat, Len(s) = N,
           NEW V, NEW b \in V[0],
           \A n \in 1 .. N : \A a \in V[n - 1] : Sync_Master(a, slave, mask, s[n]) \in V[n]
    PROVE  MasterPass(slave, mask, b, s) \in V[N]
<1> DEFINE Body(a, i) == Sync_Master(a, slave, mask, i)
           step == [n \in 1 .. N |-> [a \in V[n - 1] |-> Body(a, s[n])]]
           round(f) == [n \in 0 .. N |-> IF n = 0 THEN b ELSE Body(f[n - 1], s[n])]
           upto == CHOOSE f : f = round(f)
<1>1. MasterPass(slave, mask, b, s) = upto[N]
  BY DEF MasterPass, ForEach
<1> HIDE DEF Body
<1>2. \A n \in 1 .. N : \A a \in V[n - 1] : step[n][a] = Body(a, s[n]) /\ step[n][a] \in V[n]
  BY DEF Body
<1>3. PICK f : Rounds(f, N, b, step) /\ \A n \in 0 .. N : f[n] \in V[n]
  <2> HIDE DEF step
  <2> QED
    BY <1>2, LoopKeeps
<1>4. f = round(f)
  <2>1. \A n \in 0 .. N : n # 0 => step[n][f[n - 1]] = Body(f[n - 1], s[n])
    <3>1. \A n \in 0 .. N : n # 0 => n \in 1 .. N /\ n - 1 \in 0 .. N
      OBVIOUS
    <3> HIDE DEF step
    <3> QED
      BY <1>2, <1>3, <3>1
  <2> HIDE DEF step
  <2>2. f = [n \in 0 .. N |-> IF n = 0 THEN b ELSE step[n][f[n - 1]]]
    BY <1>3 DEF Rounds
  <2> QED
    BY <2>1, <2>2
<1>5. upto = round(upto)
  <2> HIDE DEF round
  <2> QED
    BY <1>4
<1> HIDE DEF upto
<1>6. upto[0] = b /\ \A n \in 1 .. N : upto[n] = Body(upto[n - 1], s[n])
  <2>1. \A n \in 0 .. N : upto[n] = IF n = 0 THEN b ELSE Body(upto[n - 1], s[n])
    BY <1>5
  <2> QED
    BY <2>1
<1> DEFINE Good == {n \in 0 .. N : upto[n] \in V[n]}
<1>7. 0 \in Good /\ \A n \in 1 .. N : n - 1 \in Good => n \in Good
  BY <1>6 DEF Body
<1> HIDE DEF Good
<1>8. N \in Good
  <2>1. \A n \in 0 .. N : n \in Good
    BY <1>7, UpTo
  <2> QED
    BY <2>1
<1> QED
  BY <1>1, <1>8 DEF Good

LEMMA ChainElements ==
    ASSUME NEW m, NEW H, Sound(m, H), NEW l \in Lists, m.list[l].use
    PROVE  LET s == Chain(m, l)
           IN  /\ Len(s) \in Nat /\ Attached(m, l) = {s[k] : k \in 1 .. Len(s)}
               /\ \A n \in 1 .. Len(s) : s[n] \in Infos /\ s[n] \in Attached(m, l)
               /\ \A j, k \in 1 .. Len(s) : s[j] = s[k] => j = k
<1> DEFINE s == Chain(m, l)
<1>1. IsList(m, l, s) /\ s \in Seq(Infos) /\ Range(s) = Attached(m, l)
  BY ChainOf
<1> HIDE DEF s
<1>2. Len(s) \in Nat /\ DOMAIN s = 1 .. Len(s) /\ IsInjective(s) /\ \A n \in 1 .. Len(s) : s[n] \in Infos
  BY <1>1 DEF IsList
<1>3. /\ Len(s) \in Nat /\ Attached(m, l) = {s[k] : k \in 1 .. Len(s)}
      /\ \A n \in 1 .. Len(s) : s[n] \in Infos /\ s[n] \in Attached(m, l)
      /\ \A j, k \in 1 .. Len(s) : s[j] = s[k] => j = k
  BY <1>1, <1>2 DEF Range, IsInjective
<1> QED
  BY <1>3 DEF s

LEMMA SlavePassOK ==
    ASSUME NEW m, NEW H, NEW master \in Lists, m.list[master].use, NEW slave \in Lists,
           NEW b \in Syncing(m, H, slave), b.list[slave].use, NEW mask \in SUBSET SyncFlags,
           \A j \in Attached(b, slave) : m.info[j].owner # NoList
    PROVE  SlavePass(master, slave, mask, b, Chain(b, slave))
               \in Syncing(m, H, slave)
<1> DEFINE s == Chain(b, slave)
           N == Len(s)
           S == Syncing(m, H, slave)
           V == [n \in 0 .. N |-> S]
<1>1. N \in Nat /\ \A n \in 1 .. N : s[n] \in Infos /\ m.info[s[n]].owner # NoList
  <2>1. Sound(b, H)
    BY DEF Syncing
  <2> QED
    BY <2>1, ChainElements
<1> HIDE DEF s
<1>2. \A n \in 1 .. N : \A a \in S : Sync_Slave(a, master, slave, mask, s[n]) \in S
  BY <1>1, SyncSlaveOK
<1> HIDE DEF S, N
<1>3. /\ \A n \in 0 .. N : V[n] = S
      /\ \A n \in 1 .. N : V[n - 1] = S /\ V[n] = S
  BY <1>1
<1>4. N \in Nat /\ Len(s) = N /\ b \in V[0]
  BY <1>1, <1>3 DEF N, S
<1> HIDE DEF V
<1>5. \A n \in 1 .. N : \A a \in V[n - 1] : Sync_Slave(a, master, slave, mask, s[n]) \in V[n]
  BY <1>2, <1>3
<1>6. V[N] = S
  BY <1>3, <1>4
<1>7. SlavePass(master, slave, mask, b, s) \in V[N]
  BY <1>4, <1>5, SlavePassKeeps
<1> QED
  BY <1>6, <1>7 DEF s, S

LEMMA MasterPassOK ==
    ASSUME NEW m, NEW H, NEW master \in Lists, NEW slave \in Lists, m.list[slave].use,
           NEW b \in Syncing(m, H, slave), b.list[master].use, NEW mask \in SUBSET SyncFlags
    PROVE  MasterPass(slave, mask, b, Chain(b, master))
               \in Syncing(m, H, slave)
<1> DEFINE s == Chain(b, master)
           N == Len(s)
           S == Syncing(m, H, slave)
           V == [n \in 0 .. N |-> S]
<1>1. N \in Nat /\ \A n \in 1 .. N : s[n] \in Infos
  <2>1. Sound(b, H)
    BY DEF Syncing
  <2> QED
    BY <2>1, ChainElements
<1> HIDE DEF s
<1>2. \A n \in 1 .. N : \A a \in S : Sync_Master(a, slave, mask, s[n]) \in S
  BY <1>1, SyncMasterOK
<1> HIDE DEF S, N
<1>3. /\ \A n \in 0 .. N : V[n] = S
      /\ \A n \in 1 .. N : V[n - 1] = S /\ V[n] = S
  BY <1>1
<1>4. N \in Nat /\ Len(s) = N /\ b \in V[0]
  BY <1>1, <1>3 DEF N, S
<1> HIDE DEF V
<1>5. \A n \in 1 .. N : \A a \in V[n - 1] : Sync_Master(a, slave, mask, s[n]) \in V[n]
  BY <1>2, <1>3
<1>6. V[N] = S
  BY <1>3, <1>4
<1>7. MasterPass(slave, mask, b, s) \in V[N]
  BY <1>4, <1>5, MasterPassKeeps
<1> QED
  BY <1>6, <1>7 DEF s, S

LEMMA SyncOK ==
    ASSUME NEW m, NEW H, Sound(m, H), NEW master \in Lists, m.list[master].use,
           NEW slave \in Lists, m.list[slave].use, NEW given \in SUBSET SyncFlags
    PROVE  SyncLists(m, master, slave, given) \in Syncing(m, H, slave)
<1> DEFINE mask == EffectiveMask(given)
           b == Prepared(m, master)
           merged == SlavePass(master, slave, mask, b, Chain(b, slave))
<1>1. SyncLists(m, master, slave, given)
         = MasterPass(slave, mask, merged, Chain(merged, master))
  BY DEF SyncLists, SlavePass, MasterPass
<1>2. mask \in SUBSET SyncFlags
  BY DEF EffectiveMask
<1>3. Paints(m, b)
  BY PreparedPaints DEF Sound
<1> HIDE DEF mask, b
<1>4. m \in Syncing(m, H, slave)
  BY NothingMoved DEF Syncing, Sound
<1>5. b \in Syncing(m, H, slave)
  BY <1>3, <1>4, SyncingPaints
<1>6. b.list[slave].use /\ \A j \in Attached(b, slave) : m.info[j].owner # NoList
  BY <1>3, Numbers DEF Paints, Attached
<1>7. merged \in Syncing(m, H, slave)
  BY <1>2, <1>5, <1>6, SlavePassOK
<1> HIDE DEF merged
<1>8. merged.list[master].use
  BY <1>7 DEF Syncing, SameLists, SameList
<1> QED
  BY <1>1, <1>2, <1>7, <1>8, MasterPassOK

-----------------------------------------------------------------------------
(***************************************************************************)
(* What a sync tells.                                                      *)
(***************************************************************************)

\* D has an info about the device of j.
Twin(p, D, j) == \E i \in D : p.info[i].dev = p.info[j].dev

\* The infos among D that go over to list l, which has none about their devices.
New(p, l, mask, D) == {i \in D : "added" \in mask /\ ~Twin(p, Attached(p, l), i)}

SaysAsBefore(p, a, j) == a.info[j].conn = p.info[j].conn /\ a.info[j].flags = p.info[j].flags

\* What the slave pass has made of p when it is done with the infos D of list s.
SlaveDone(p, H, l, s, mask, D) ==
    {a \in Syncing(p, H, s) :
        /\ \A j \in Infos :
               /\ a.info[j].dev = p.info[j].dev
               /\ a.info[j].owner = IF j \in New(p, l, mask, D) THEN l ELSE p.info[j].owner
        /\ \A j \in New(p, l, mask, D) :
               /\ a.info[j].conn = p.info[j].conn
               /\ a.info[j].flags = IF p.info[j].conn THEN {"added"} ELSE {"unchanged"}
        /\ \A j \in Attached(p, l) : \A i \in D : p.info[i].dev = p.info[j].dev =>
               /\ a.info[j].conn = p.info[i].conn
               /\ a.info[j].flags = IF p.info[j].conn = p.info[i].conn THEN {"unchanged"}
                                    ELSE Change(p.info[i].conn, mask)
        /\ \A j \in Infos :
               j \notin New(p, l, mask, D) /\ (j \in Attached(p, l) => ~Twin(p, D, j))
                   => SaysAsBefore(p, a, j)}

LEMMA SlaveRound ==
    ASSUME NEW p, NEW H, Sound(p, H), NEW l \in Lists, p.list[l].use,
           NEW s \in Lists, p.list[s].use, NEW mask \in SUBSET SyncFlags,
           Distinct(p, l), Distinct(p, s), \A j \in Attached(p, l) : p.info[j].flags = {},
           NEW D \in SUBSET Attached(p, s), NEW i \in Attached(p, s) \ D,
           NEW a \in SlaveDone(p, H, l, s, mask, D)
    PROVE  Sync_Slave(a, l, s, mask, i) \in SlaveDone(p, H, l, s, mask, D \cup {i})
<1> DEFINE K == New(p, l, mask, D)
           K2 == New(p, l, mask, D \cup {i})
           there == Search(a, Chain(a, l), a.info[i].dev)
           moved == Attach(Detach(a, s, i), l, i)
           f == IF a.info[i].conn THEN {"added"} ELSE {"unchanged"}
           c == Sync_Slave(a, l, s, mask, i)
<1>1. /\ a \in Syncing(p, H, s) /\ Sound(a, H) /\ a \in MemT /\ a.list[l].use
      /\ \A j \in Infos : /\ a.info[j].dev = p.info[j].dev
                          /\ a.info[j].owner = IF j \in K THEN l ELSE p.info[j].owner
      /\ \A j \in K : /\ a.info[j].conn = p.info[j].conn
                      /\ a.info[j].flags = IF p.info[j].conn THEN {"added"} ELSE {"unchanged"}
      /\ \A j \in Attached(p, l) : \A e \in D : p.info[e].dev = p.info[j].dev =>
             /\ a.info[j].conn = p.info[e].conn
             /\ a.info[j].flags = IF p.info[j].conn = p.info[e].conn THEN {"unchanged"}
                                  ELSE Change(p.info[e].conn, mask)
      /\ \A j \in Infos : j \notin K /\ (j \in Attached(p, l) => ~Twin(p, D, j)) => SaysAsBefore(p, a, j)
  BY DEF SlaveDone, Syncing, SameLists, SameList
<1>2. \A j \in Attached(p, s) : j \in Infos /\ p.info[j].owner = s
  BY DEF Attached
<1>3. \A e \in D : p.info[e].dev # p.info[i].dev
  BY DEF Distinct
<1>4. i \in Infos /\ i \notin K /\ p.info[i].owner = s /\ a.info[i].owner = s /\ SaysAsBefore(p, a, i)
  <2>1. i \in Infos /\ p.info[i].owner = s /\ i \notin K
    BY <1>2 DEF New
  <2>2. ~Twin(p, D, i)
    BY <1>3 DEF Twin
  <2> HIDE DEF K
  <2> QED
    BY <1>1, <2>1, <2>2
<1>5. Attached(a, l) = Attached(p, l) \cup K /\ K \subseteq D
  <2>1. K \subseteq D /\ D \subseteq Infos
    BY <1>2 DEF New
  <2> HIDE DEF K
  <2> QED
    BY <1>1, <2>1 DEF Attached
<1>6. \/ there = NoInfo /\ \A j \in Attached(a, l) : a.info[j].dev # a.info[i].dev
      \/ there # NoInfo /\ there \in Attached(a, l) /\ a.info[there].dev = a.info[i].dev
  <2>1. Sound(a, H) /\ a.list[l].use
    BY <1>1
  <2> QED
    BY <2>1, SearchFinds
<1>7. c \in Syncing(p, H, s)
  BY <1>1, <1>4, SyncSlaveOK, Numbers
<1>8. c = CASE there # NoInfo ->
                   IF a.info[there].flags # {} THEN a ELSE SyncBoth(a, there, a.info[i].conn, mask)
            [] there = NoInfo /\ "added" \in mask -> PutFlags(moved, i, f)
            [] OTHER -> a
  BY DEF Sync_Slave, PutFlags
<1>9. \A j \in Attached(p, l) : j \in Infos
  BY DEF Attached
<1>10. p.info[i].conn \in BOOLEAN /\ f \in SUBSET SyncFlags
  <2>1. p \in MemT
    BY DEF Sound
  <2> QED
    BY <1>4, <2>1, FieldsAre DEF InfoT, SyncFlags
<1>11. K2 = IF "added" \in mask /\ ~Twin(p, Attached(p, l), i) THEN K \cup {i} ELSE K
  BY DEF New
<1> HIDE DEF there, moved, f, c, K, K2
<1>12. CASE there # NoInfo
  <2>1. there \in Attached(p, l) /\ there \in Infos /\ p.info[there].dev = p.info[i].dev
    <3>1. there \in Attached(a, l) /\ a.info[there].dev = a.info[i].dev
      BY <1>6, <1>12
    <3>2. there \in Infos
      BY <3>1 DEF Attached
    <3>3. p.info[there].dev = p.info[i].dev
      BY <1>1, <1>4, <3>1, <3>2
    <3>4. there \notin K
      BY <1>3, <1>5, <3>3
    <3> QED
      BY <1>5, <3>1, <3>2, <3>3, <3>4
  <2>2. there \notin K
    BY <2>1 DEF K, New, Twin
  <2>3. SaysAsBefore(p, a, there) /\ p.info[there].flags = {}
    BY <1>1, <1>3, <2>1, <2>2 DEF Twin
  <2>4. c = SyncBoth(a, there, p.info[i].conn, mask)
    BY <1>4, <1>8, <1>12, <2>3 DEF SaysAsBefore
  <2>5. K2 = K
    BY <1>11, <2>1 DEF Twin
  <2>6. /\ Paints(a, c) /\ c.info[there].dev = a.info[there].dev /\ c.info[there].conn = p.info[i].conn
        /\ c.info[there].flags = IF p.info[there].conn = p.info[i].conn THEN {"unchanged"}
                                 ELSE Change(p.info[i].conn, mask)
        /\ \A j \in Infos \ {there} : SameInfo(a, c, j)
    <3> DEFINE g == IF a.info[there].conn = p.info[i].conn THEN {"unchanged"}
                    ELSE a.info[there].flags \cup Change(p.info[i].conn, mask)
    <3>1. Paints(a, c) /\ Painted(a, c, there, p.info[i].conn, g)
      <4>1. a \in MemT /\ there \in Infos /\ p.info[i].conn \in BOOLEAN
        BY <1>1, <1>10, <2>1
      <4> QED
        BY <2>4, <4>1, SyncBothIs
    <3>2. a.info[there].conn = p.info[there].conn /\ a.info[there].flags = {}
      BY <2>3 DEF SaysAsBefore
    <3> QED
      BY <3>1, <3>2 DEF Painted
  <2>7. \A j \in Infos : /\ c.info[j].dev = p.info[j].dev
                         /\ c.info[j].owner = IF j \in K2 THEN l ELSE p.info[j].owner
    BY <1>1, <2>1, <2>5, <2>6 DEF Paints, SameInfo
  <2>8. \A j \in K2 : /\ c.info[j].conn = p.info[j].conn
                      /\ c.info[j].flags = IF p.info[j].conn THEN {"added"} ELSE {"unchanged"}
    BY <1>1, <1>2, <1>5, <2>2, <2>5, <2>6 DEF SameInfo
  <2>9. ASSUME NEW j \in Attached(p, l), NEW e \in D \cup {i}, p.info[e].dev = p.info[j].dev
        PROVE  /\ c.info[j].conn = p.info[e].conn
               /\ c.info[j].flags = IF p.info[j].conn = p.info[e].conn THEN {"unchanged"}
                                    ELSE Change(p.info[e].conn, mask)
    <3>1. CASE e = i
      <4>1. j = there
        BY <2>1, <2>9, <3>1 DEF Distinct
      <4> QED
        BY <2>6, <3>1, <4>1
    <3>2. CASE e # i
      <4>1. e \in D /\ j # there /\ j \in Infos
        BY <1>3, <1>9, <2>1, <2>9, <3>2
      <4> QED
        BY <1>1, <2>6, <2>9, <4>1 DEF SameInfo
    <3> QED
      BY <3>1, <3>2
  <2>10. ASSUME NEW j \in Infos, j \notin K2, (j \in Attached(p, l) => ~Twin(p, D \cup {i}, j))
         PROVE  SaysAsBefore(p, c, j)
    <3>1. j # there
      BY <2>1, <2>10 DEF Twin
    <3>2. SaysAsBefore(p, a, j)
      BY <1>1, <2>5, <2>10 DEF Twin
    <3> QED
      BY <2>6, <3>1, <3>2 DEF SaysAsBefore, SameInfo
  <2> QED
    BY <1>7, <2>7, <2>8, <2>9, <2>10 DEF SlaveDone, c, K2
<1>13. CASE there = NoInfo
  <2>1. \A j \in Attached(p, l) : p.info[j].dev # p.info[i].dev
    BY <1>1, <1>4, <1>5, <1>6, <1>9, <1>13
  <2>2. \A j \in Attached(p, l) : Twin(p, D \cup {i}, j) => Twin(p, D, j)
    BY <2>1 DEF Twin
  <2>3. CASE "added" \in mask
    <3>1. K2 = K \cup {i}
      BY <1>11, <2>1, <2>3 DEF Twin
    <3>2. Sound(moved, H) /\ Moved(a, moved, i, l) /\ \A j \in Infos : SameInfo(a, moved, j)
      BY <1>1, <1>4, TakenOver DEF moved
    <3>3. c = PutFlags(moved, i, f)
      BY <1>8, <1>13, <2>3
    <3>4. moved \in MemT /\ moved.info[i].conn \in BOOLEAN
      BY <1>4, <3>2, FieldsAre DEF Sound, InfoT
    <3>5. Paints(moved, c) /\ c.info[i].flags = f /\ c.info[i].conn = moved.info[i].conn
          /\ c.info[i].dev = moved.info[i].dev /\ \A j \in Infos \ {i} : SameInfo(moved, c, j)
      BY <1>4, <1>10, <3>3, <3>4, PaintsOne, PaintedThis DEF Painted
    <3>6. /\ c.info[i].conn = p.info[i].conn
          /\ c.info[i].flags = IF p.info[i].conn THEN {"added"} ELSE {"unchanged"}
      BY <1>4, <3>2, <3>5 DEF SameInfo, SaysAsBefore, f
    <3>7. \A j \in Infos \ {i} : SameInfo(a, c, j)
      BY <3>2, <3>5 DEF SameInfo
    <3>8. \A j \in Infos : /\ c.info[j].dev = p.info[j].dev
                           /\ c.info[j].owner = IF j \in K2 THEN l ELSE p.info[j].owner
      BY <1>1, <1>4, <3>1, <3>2, <3>5 DEF Paints, SameInfo, Moved
    <3>9. \A j \in K2 : /\ c.info[j].conn = p.info[j].conn
                        /\ c.info[j].flags = IF p.info[j].conn THEN {"added"} ELSE {"unchanged"}
      BY <1>1, <1>2, <1>4, <1>5, <3>1, <3>6, <3>7 DEF SameInfo
    <3>10. ASSUME NEW j \in Attached(p, l), NEW e \in D \cup {i}, p.info[e].dev = p.info[j].dev
           PROVE  /\ c.info[j].conn = p.info[e].conn
                  /\ c.info[j].flags = IF p.info[j].conn = p.info[e].conn THEN {"unchanged"}
                                       ELSE Change(p.info[e].conn, mask)
      <4>1. e \in D /\ j # i /\ j \in Infos
        BY <1>9, <2>1, <3>10
      <4> QED
        BY <1>1, <3>7, <3>10, <4>1 DEF SameInfo
    <3>11. ASSUME NEW j \in Infos, j \notin K2, (j \in Attached(p, l) => ~Twin(p, D \cup {i}, j))
           PROVE  SaysAsBefore(p, c, j)
      <4>1. SaysAsBefore(p, a, j) /\ j # i
        BY <1>1, <3>1, <3>11 DEF Twin
      <4> QED
        BY <3>7, <4>1 DEF SaysAsBefore, SameInfo
    <3> QED
      BY <1>7, <3>8, <3>9, <3>10, <3>11 DEF SlaveDone, c, K2
  <2>4. CASE "added" \notin mask
    <3>1. K2 = K /\ c = a
      BY <1>8, <1>11, <1>13, <2>4
    <3>2. ASSUME NEW j \in Attached(p, l), NEW e \in D \cup {i}, p.info[e].dev = p.info[j].dev
          PROVE  e \in D
      BY <2>1, <3>2
    <3>3. \A j \in Infos : j \notin K2 /\ (j \in Attached(p, l) => ~Twin(p, D \cup {i}, j))
                               => SaysAsBefore(p, c, j)
      BY <1>1, <3>1 DEF Twin
    <3>4. \A j \in Attached(p, l) : \A e \in D \cup {i} : p.info[e].dev = p.info[j].dev =>
              /\ c.info[j].conn = p.info[e].conn
              /\ c.info[j].flags = IF p.info[j].conn = p.info[e].conn THEN {"unchanged"}
                                   ELSE Change(p.info[e].conn, mask)
      BY <1>1, <3>1, <3>2
    <3>5. /\ \A j \in Infos : /\ c.info[j].dev = p.info[j].dev
                              /\ c.info[j].owner = IF j \in K2 THEN l ELSE p.info[j].owner
          /\ \A j \in K2 : /\ c.info[j].conn = p.info[j].conn
                           /\ c.info[j].flags = IF p.info[j].conn THEN {"added"} ELSE {"unchanged"}
      BY <1>1, <3>1
    <3> QED
      BY <1>7, <3>3, <3>4, <3>5 DEF SlaveDone, c, K2
  <2> QED
    BY <2>3, <2>4
<1> QED
  BY <1>12, <1>13

\* Where an info of l has not been dealt with, its twin on s says the same.
Agree(q, l, s) ==
    \A j \in Attached(q, l) : \A i \in Attached(q, s) :
        q.info[j].flags = {} /\ q.info[i].dev = q.info[j].dev => q.info[i].conn = q.info[j].conn

\* What the master pass has made of q when it is done with the infos D.
MasterDone(q, H, s, mask, D) ==
    {a \in Syncing(q, H, s) :
        /\ \A j \in Infos : a.info[j].dev = q.info[j].dev /\ a.info[j].owner = q.info[j].owner
        /\ \A j \in Infos : j \notin D \/ q.info[j].flags # {} => SaysAsBefore(q, a, j)
        /\ \A j \in D : q.info[j].flags = {} =>
               IF Twin(q, Attached(q, s), j)
               THEN a.info[j].conn = q.info[j].conn /\ a.info[j].flags = {"unchanged"}
               ELSE /\ ~a.info[j].conn
                    /\ a.info[j].flags = IF q.info[j].conn /\ "removed" \in mask
                                         THEN {"removed"} ELSE {"unchanged"}}

LEMMA MasterRound ==
    ASSUME NEW q, NEW H, Sound(q, H), NEW l \in Lists, NEW s \in Lists, q.list[s].use,
           NEW mask \in SUBSET SyncFlags, Agree(q, l, s),
           NEW D \in SUBSET Attached(q, l), NEW i \in Attached(q, l) \ D,
           NEW a \in MasterDone(q, H, s, mask, D)
    PROVE  Sync_Master(a, s, mask, i) \in MasterDone(q, H, s, mask, D \cup {i})
<1> DEFINE there == Search(a, Chain(a, s), a.info[i].dev)
           removed == {"removed"} \cap mask
           f == IF removed = {} THEN {"unchanged"} ELSE removed
           c == Sync_Master(a, s, mask, i)
<1>1. /\ a \in Syncing(q, H, s) /\ Sound(a, H) /\ a \in MemT /\ a.list[s].use
      /\ \A j \in Infos : a.info[j].dev = q.info[j].dev /\ a.info[j].owner = q.info[j].owner
      /\ \A j \in Infos : j \notin D \/ q.info[j].flags # {} => SaysAsBefore(q, a, j)
      /\ \A j \in D : q.info[j].flags = {} =>
             IF Twin(q, Attached(q, s), j)
             THEN a.info[j].conn = q.info[j].conn /\ a.info[j].flags = {"unchanged"}
             ELSE /\ ~a.info[j].conn
                  /\ a.info[j].flags = IF q.info[j].conn /\ "removed" \in mask
                                       THEN {"removed"} ELSE {"unchanged"}
  BY DEF MasterDone, Syncing, SameLists, SameList
<1>2. i \in Infos /\ SaysAsBefore(q, a, i) /\ D \subseteq Infos
  BY <1>1 DEF Attached
<1>3. Attached(a, s) = Attached(q, s)
  BY <1>1 DEF Attached
<1>4. \/ there = NoInfo /\ \A j \in Attached(a, s) : a.info[j].dev # a.info[i].dev
      \/ there # NoInfo /\ there \in Attached(a, s) /\ a.info[there].dev = a.info[i].dev
  BY <1>1, SearchFinds
<1>5. c \in Syncing(q, H, s)
  BY <1>1, <1>2, SyncMasterOK
<1>6. c = CASE a.info[i].flags # {} -> a
            [] a.info[i].flags = {} /\ there # NoInfo -> SyncBoth(a, i, a.info[there].conn, mask)
            [] a.info[i].flags = {} /\ there = NoInfo /\ a.info[i].conn -> PutConn(a, i, FALSE, f)
            [] OTHER -> PutFlags(a, i, {"unchanged"})
  BY DEF Sync_Master, PutFlags, PutConn
<1>7. f \in SUBSET SyncFlags /\ {"unchanged"} \in SUBSET SyncFlags
      /\ f = IF "removed" \in mask THEN {"removed"} ELSE {"unchanged"}
  BY DEF SyncFlags
<1>8. a.info[i].conn \in BOOLEAN
  BY <1>1, <1>2, FieldsAre DEF InfoT
<1>9. ASSUME Paints(a, c), c.info[i].dev = a.info[i].dev, \A j \in Infos \ {i} : SameInfo(a, c, j),
             q.info[i].flags = {},
             IF Twin(q, Attached(q, s), i)
             THEN c.info[i].conn = q.info[i].conn /\ c.info[i].flags = {"unchanged"}
             ELSE /\ ~c.info[i].conn
                  /\ c.info[i].flags = IF q.info[i].conn /\ "removed" \in mask
                                       THEN {"removed"} ELSE {"unchanged"}
      PROVE  c \in MasterDone(q, H, s, mask, D \cup {i})
  <2> HIDE DEF c
  <2>1. \A j \in Infos : c.info[j].dev = q.info[j].dev /\ c.info[j].owner = q.info[j].owner
    BY <1>1, <1>2, <1>9 DEF Paints, SameInfo
  <2>2. \A j \in Infos : j \notin D \cup {i} \/ q.info[j].flags # {} => SaysAsBefore(q, c, j)
    BY <1>1, <1>9 DEF SaysAsBefore, SameInfo
  <2>3. ASSUME NEW j \in D, q.info[j].flags = {}
        PROVE  IF Twin(q, Attached(q, s), j)
               THEN c.info[j].conn = q.info[j].conn /\ c.info[j].flags = {"unchanged"}
               ELSE /\ ~c.info[j].conn
                    /\ c.info[j].flags = IF q.info[j].conn /\ "removed" \in mask
                                         THEN {"removed"} ELSE {"unchanged"}
    <3>1. c.info[j].conn = a.info[j].conn /\ c.info[j].flags = a.info[j].flags
      BY <1>2, <1>9 DEF SameInfo
    <3> QED
      BY <1>1, <2>3, <3>1
  <2> QED
    BY <1>5, <1>9, <2>1, <2>2, <2>3 DEF MasterDone
<1> HIDE DEF there, f, c
<1>10. CASE a.info[i].flags # {}
  <2>1. c = a /\ q.info[i].flags # {}
    BY <1>2, <1>6, <1>10 DEF SaysAsBefore
  <2> QED
    BY <1>1, <1>2, <2>1 DEF MasterDone, c
<1>11. CASE a.info[i].flags = {} /\ there # NoInfo
  <2>1. there \in Infos /\ there \in Attached(q, s) /\ q.info[there].dev = q.info[i].dev
    BY <1>1, <1>2, <1>3, <1>4, <1>11 DEF Attached
  <2>2. Twin(q, Attached(q, s), there) /\ Twin(q, Attached(q, s), i)
    BY <2>1 DEF Twin
  <2>3. a.info[there].conn = q.info[there].conn
    BY <1>1, <2>1, <2>2 DEF SaysAsBefore
  <2>4. q.info[i].flags = {} /\ q.info[there].conn = q.info[i].conn
    BY <1>2, <1>11, <2>1 DEF Agree, SaysAsBefore
  <2>5. c = SyncBoth(a, i, a.info[i].conn, mask)
    BY <1>2, <1>6, <1>11, <2>3, <2>4 DEF SaysAsBefore
  <2>6. /\ Paints(a, c) /\ c.info[i].dev = a.info[i].dev /\ c.info[i].conn = a.info[i].conn
        /\ c.info[i].flags = {"unchanged"} /\ \A j \in Infos \ {i} : SameInfo(a, c, j)
    <3> DEFINE g == IF a.info[i].conn = a.info[i].conn THEN {"unchanged"}
                    ELSE a.info[i].flags \cup Change(a.info[i].conn, mask)
    <3>1. Paints(a, c) /\ Painted(a, c, i, a.info[i].conn, g)
      <4>1. a \in MemT /\ i \in Infos
        BY <1>1, <1>2
      <4> QED
        BY <1>8, <2>5, <4>1, SyncBothIs
    <3> QED
      BY <3>1 DEF Painted
  <2> QED
    BY <1>2, <1>9, <2>2, <2>4, <2>6 DEF SaysAsBefore, c
<1>12. CASE a.info[i].flags = {} /\ there = NoInfo
  <2>1. ~Twin(q, Attached(q, s), i)
    BY <1>1, <1>2, <1>3, <1>4, <1>12 DEF Twin, Attached
  <2>2. /\ Paints(a, c) /\ c.info[i].dev = a.info[i].dev /\ ~c.info[i].conn
        /\ c.info[i].flags = IF a.info[i].conn THEN f ELSE {"unchanged"}
        /\ \A j \in Infos \ {i} : SameInfo(a, c, j)
    <3>1. CASE a.info[i].conn
      <4>1. c = PutConn(a, i, FALSE, f)
        BY <1>6, <1>12, <3>1
      <4>2. Paints(a, c)
        BY <1>1, <1>2, <1>7, <4>1, PaintsOne
      <4>3. Painted(a, c, i, FALSE, f)
        <5>1. a \in MemT /\ i \in Infos /\ f \in SUBSET SyncFlags /\ FALSE \in BOOLEAN
          BY <1>1, <1>2, <1>7
        <5> QED
          BY <4>1, <5>1, PaintedThis
      <4> QED
        BY <3>1, <4>2, <4>3 DEF Painted
    <3>2. CASE ~a.info[i].conn
      <4>1. c = PutFlags(a, i, {"unchanged"})
        BY <1>6, <1>12, <3>2
      <4> QED
        BY <1>1, <1>2, <1>7, <1>8, <3>2, <4>1, PaintsOne, PaintedThis DEF Painted
    <3> QED
      BY <3>1, <3>2
  <2> QED
    BY <1>2, <1>7, <1>9, <1>12, <2>1, <2>2 DEF SaysAsBefore, c
<1> QED
  BY <1>10, <1>11, <1>12


LEMMA SlavePassIs ==
    ASSUME NEW p, NEW H, Sound(p, H), NEW l \in Lists, p.list[l].use,
           NEW s \in Lists, p.list[s].use, NEW mask \in SUBSET SyncFlags,
           Distinct(p, l), Distinct(p, s), \A j \in Attached(p, l) : p.info[j].flags = {}
    PROVE  SlavePass(l, s, mask, p, Chain(p, s)) \in SlaveDone(p, H, l, s, mask, Attached(p, s))
<1> DEFINE t == Chain(p, s)
           N == Len(t)
           D(n) == {t[k] : k \in 1 .. n}
           Done(X) == SlaveDone(p, H, l, s, mask, X)
           V == [n \in 0 .. N |-> Done(D(n))]
<1>1. /\ N \in Nat /\ Attached(p, s) = D(N) /\ \A n \in 1 .. N : t[n] \in Attached(p, s)
      /\ \A j, k \in 1 .. N : t[j] = t[k] => j = k
  BY ChainElements
<1> HIDE DEF t
<1>2. ASSUME NEW n \in 1 .. N
      PROVE  /\ D(n - 1) \in SUBSET Attached(p, s) /\ t[n] \in Attached(p, s) \ D(n - 1)
             /\ D(n) = D(n - 1) \cup {t[n]} /\ n - 1 \in 0 .. N /\ n \in 0 .. N
  <2> HIDE DEF N
  <2>1. \A k \in 1 .. n - 1 : k \in 1 .. N /\ k # n
    BY <1>1
  <2>2. \A k \in 1 .. n : k \in 1 .. n - 1 \/ k = n
    BY <1>1
  <2>3. 1 .. n - 1 \subseteq 1 .. n /\ n \in 1 .. n
    BY <1>1
  <2>4. D(n) = D(n - 1) \cup {t[n]}
    BY <2>2, <2>3
  <2> QED
    BY <1>1, <2>1, <2>4
<1>3. p \in Done({})
  <2>1. p \in Syncing(p, H, s)
    BY NothingMoved DEF Syncing, Sound
  <2>2. New(p, l, mask, {}) = {}
    BY DEF New
  <2> QED
    BY <2>1, <2>2 DEF SlaveDone, SaysAsBefore
<1>4. D(0) = {}
  OBVIOUS
<1> HIDE DEF D, Done
<1>5. \A n \in 0 .. N : V[n] = Done(D(n))
  OBVIOUS
<1> HIDE DEF V
<1>6. 0 \in 0 .. N /\ N \in 0 .. N /\ Len(t) = N
  BY <1>1
<1> HIDE DEF N
<1>7. \A n \in 1 .. N : \A a \in V[n - 1] : Sync_Slave(a, l, s, mask, t[n]) \in V[n]
  <2> SUFFICES ASSUME NEW n \in 1 .. N, NEW a \in V[n - 1]
               PROVE  Sync_Slave(a, l, s, mask, t[n]) \in V[n]
    OBVIOUS
  <2>1. a \in Done(D(n - 1)) /\ V[n] = Done(D(n - 1) \cup {t[n]})
    BY <1>2, <1>5
  <2> DEFINE X == D(n - 1)
             i == t[n]
  <2>2. X \in SUBSET Attached(p, s) /\ i \in Attached(p, s) \ X
    BY <1>2
  <2> HIDE DEF X, i
  <2>3. a \in SlaveDone(p, H, l, s, mask, X)
    BY <2>1 DEF X, Done
  <2>4. Sync_Slave(a, l, s, mask, i) \in SlaveDone(p, H, l, s, mask, X \cup {i})
    BY <2>2, <2>3, SlaveRound
  <2> QED
    BY <2>1, <2>4 DEF X, i, Done
<1>8. p \in V[0]
  BY <1>3, <1>4, <1>5, <1>6
<1>9. SlavePass(l, s, mask, p, t) \in V[N]
  BY <1>1, <1>6, <1>7, <1>8, SlavePassKeeps
<1>10. V[N] = Done(Attached(p, s))
  BY <1>1, <1>5, <1>6
<1> QED
  BY <1>9, <1>10 DEF t, Done

LEMMA MasterPassIs ==
    ASSUME NEW q, NEW H, Sound(q, H), NEW l \in Lists, q.list[l].use,
           NEW s \in Lists, q.list[s].use, NEW mask \in SUBSET SyncFlags, Agree(q, l, s)
    PROVE  MasterPass(s, mask, q, Chain(q, l)) \in MasterDone(q, H, s, mask, Attached(q, l))
<1> DEFINE t == Chain(q, l)
           N == Len(t)
           D(n) == {t[k] : k \in 1 .. n}
           Done(X) == MasterDone(q, H, s, mask, X)
           V == [n \in 0 .. N |-> Done(D(n))]
<1>1. /\ N \in Nat /\ Attached(q, l) = D(N) /\ \A n \in 1 .. N : t[n] \in Attached(q, l)
      /\ \A j, k \in 1 .. N : t[j] = t[k] => j = k
  BY ChainElements
<1> HIDE DEF t
<1>2. ASSUME NEW n \in 1 .. N
      PROVE  /\ D(n - 1) \in SUBSET Attached(q, l) /\ t[n] \in Attached(q, l) \ D(n - 1)
             /\ D(n) = D(n - 1) \cup {t[n]} /\ n - 1 \in 0 .. N /\ n \in 0 .. N
  <2> HIDE DEF N
  <2>1. \A k \in 1 .. n - 1 : k \in 1 .. N /\ k # n
    BY <1>1
  <2>2. \A k \in 1 .. n : k \in 1 .. n - 1 \/ k = n
    BY <1>1
  <2>3. 1 .. n - 1 \subseteq 1 .. n /\ n \in 1 .. n
    BY <1>1
  <2>4. D(n) = D(n - 1) \cup {t[n]}
    BY <2>2, <2>3
  <2> QED
    BY <1>1, <2>1, <2>4
<1>3. q \in Done({})
  <2>1. q \in Syncing(q, H, s)
    BY NothingMoved DEF Syncing, Sound
  <2> QED
    BY <2>1 DEF MasterDone, SaysAsBefore
<1>4. D(0) = {}
  OBVIOUS
<1> HIDE DEF D, Done
<1>5. \A n \in 0 .. N : V[n] = Done(D(n))
  OBVIOUS
<1> HIDE DEF V
<1>6. 0 \in 0 .. N /\ N \in 0 .. N /\ Len(t) = N
  BY <1>1
<1> HIDE DEF N
<1>7. \A n \in 1 .. N : \A a \in V[n - 1] : Sync_Master(a, s, mask, t[n]) \in V[n]
  <2> SUFFICES ASSUME NEW n \in 1 .. N, NEW a \in V[n - 1]
               PROVE  Sync_Master(a, s, mask, t[n]) \in V[n]
    OBVIOUS
  <2>1. a \in Done(D(n - 1)) /\ V[n] = Done(D(n - 1) \cup {t[n]})
    BY <1>2, <1>5
  <2> DEFINE X == D(n - 1)
             i == t[n]
  <2>2. X \in SUBSET Attached(q, l) /\ i \in Attached(q, l) \ X
    BY <1>2
  <2> HIDE DEF X, i
  <2>3. a \in MasterDone(q, H, s, mask, X)
    BY <2>1 DEF X, Done
  <2>4. Sync_Master(a, s, mask, i) \in MasterDone(q, H, s, mask, X \cup {i})
    BY <2>2, <2>3, MasterRound
  <2> QED
    BY <2>1, <2>4 DEF X, i, Done
<1>8. q \in V[0]
  BY <1>3, <1>4, <1>5, <1>6
<1>9. MasterPass(s, mask, q, t) \in V[N]
  BY <1>1, <1>6, <1>7, <1>8, MasterPassKeeps
<1>10. V[N] = Done(Attached(q, l))
  BY <1>1, <1>5, <1>6
<1> QED
  BY <1>9, <1>10 DEF t, Done

\* What a sync of list l with list s makes of m.
Synced(m, r, l, s, mask) ==
    /\ \A j \in Infos :
           /\ r.info[j].dev = m.info[j].dev
           /\ r.info[j].owner = IF j \in New(m, l, mask, Attached(m, s)) THEN l ELSE m.info[j].owner
    /\ \A j \in New(m, l, mask, Attached(m, s)) :
           /\ r.info[j].conn = m.info[j].conn
           /\ r.info[j].flags = IF m.info[j].conn THEN {"added"} ELSE {"unchanged"}
    /\ \A j \in Attached(m, l) : \A i \in Attached(m, s) : m.info[i].dev = m.info[j].dev =>
           /\ r.info[j].conn = m.info[i].conn
           /\ r.info[j].flags =
                  IF m.info[j].conn = m.info[i].conn \/ Change(m.info[i].conn, mask) = {}
                  THEN {"unchanged"} ELSE Change(m.info[i].conn, mask)
    /\ \A j \in Attached(m, l) : ~Twin(m, Attached(m, s), j) =>
           /\ ~r.info[j].conn
           /\ r.info[j].flags = IF m.info[j].conn /\ "removed" \in mask
                                THEN {"removed"} ELSE {"unchanged"}

\* The two passes one after the other.
LEMMA PassesSay ==
    ASSUME NEW p, NEW H, NEW l \in Lists, NEW s \in Lists, NEW mask, Distinct(p, l),
           \A j \in Attached(p, l) : p.info[j].flags = {},
           NEW q \in SlaveDone(p, H, l, s, mask, Attached(p, s))
    PROVE  /\ Agree(q, l, s)
           /\ \A r \in MasterDone(q, H, s, mask, Attached(q, l)) : Synced(p, r, l, s, mask)
<1> DEFINE S == Attached(p, s)
           K == New(p, l, mask, S)
<1>1. /\ \A j \in Infos : /\ q.info[j].dev = p.info[j].dev
                          /\ q.info[j].owner = IF j \in K THEN l ELSE p.info[j].owner
      /\ \A j \in K : /\ q.info[j].conn = p.info[j].conn
                      /\ q.info[j].flags = IF p.info[j].conn THEN {"added"} ELSE {"unchanged"}
      /\ \A j \in Attached(p, l) : \A i \in S : p.info[i].dev = p.info[j].dev =>
             /\ q.info[j].conn = p.info[i].conn
             /\ q.info[j].flags = IF p.info[j].conn = p.info[i].conn THEN {"unchanged"}
                                  ELSE Change(p.info[i].conn, mask)
      /\ \A j \in Infos : j \notin K /\ (j \in Attached(p, l) => ~Twin(p, S, j)) => SaysAsBefore(p, q, j)
  BY DEF SlaveDone
<1>2. /\ K \subseteq S /\ S \subseteq Infos /\ Attached(p, l) \subseteq Infos
      /\ \A i \in K : \A j \in Attached(p, l) : p.info[j].dev # p.info[i].dev
  BY DEF New, Twin, Attached
<1>3. K \cap Attached(p, l) = {}
  BY <1>2
<1> HIDE DEF K
<1>4. Attached(q, l) = Attached(p, l) \cup K
  BY <1>1, <1>2 DEF Attached
<1>5. Attached(q, s) \subseteq S
  BY <1>1, <1>2 DEF Attached
<1>6. \A i \in S \ K : i \in Attached(q, s)
  BY <1>1 DEF Attached
<1> HIDE DEF S
<1>7. \A i \in S : q.info[i].conn = p.info[i].conn
  <2> SUFFICES ASSUME NEW i \in S PROVE q.info[i].conn = p.info[i].conn
    OBVIOUS
  <2>1. CASE i \in Attached(p, l)
    BY <1>1, <2>1
  <2>2. CASE i \notin Attached(p, l) /\ i \notin K
    BY <1>1, <1>2, <2>2 DEF SaysAsBefore
  <2> QED
    BY <1>1, <2>1, <2>2
<1>8. ASSUME NEW j \in Attached(q, l), q.info[j].flags = {}
      PROVE  j \in Attached(p, l) \ K
  BY <1>1, <1>3, <1>4, <1>8
<1>9. Agree(q, l, s)
  <2> SUFFICES ASSUME NEW j \in Attached(q, l), NEW i \in Attached(q, s),
                      q.info[j].flags = {}, q.info[i].dev = q.info[j].dev
               PROVE  q.info[i].conn = q.info[j].conn
    BY DEF Agree
  <2>1. j \in Attached(p, l) /\ i \in S /\ i \in Infos /\ j \in Infos
    BY <1>2, <1>5, <1>8
  <2>2. p.info[i].dev = p.info[j].dev
    BY <1>1, <2>1
  <2> QED
    BY <1>1, <1>7, <2>1, <2>2
<1>10. ASSUME NEW r \in MasterDone(q, H, s, mask, Attached(q, l))
       PROVE  Synced(p, r, l, s, mask)
  <2>1. /\ \A j \in Infos : r.info[j].dev = q.info[j].dev /\ r.info[j].owner = q.info[j].owner
        /\ \A j \in Infos : q.info[j].flags # {} => SaysAsBefore(q, r, j)
        /\ \A j \in Attached(q, l) : q.info[j].flags = {} =>
               IF Twin(q, Attached(q, s), j)
               THEN r.info[j].conn = q.info[j].conn /\ r.info[j].flags = {"unchanged"}
               ELSE /\ ~r.info[j].conn
                    /\ r.info[j].flags = IF q.info[j].conn /\ "removed" \in mask
                                         THEN {"removed"} ELSE {"unchanged"}
    BY DEF MasterDone
  <2>2. \A j \in Infos : /\ r.info[j].dev = p.info[j].dev
                         /\ r.info[j].owner = IF j \in K THEN l ELSE p.info[j].owner
    BY <1>1, <2>1
  <2>3. \A j \in K : /\ r.info[j].conn = p.info[j].conn
                     /\ r.info[j].flags = IF p.info[j].conn THEN {"added"} ELSE {"unchanged"}
    <3> SUFFICES ASSUME NEW j \in K
                 PROVE  /\ r.info[j].conn = p.info[j].conn
                        /\ r.info[j].flags = IF p.info[j].conn THEN {"added"} ELSE {"unchanged"}
      OBVIOUS
    <3>1. j \in Infos /\ q.info[j].flags # {}
      BY <1>1, <1>2
    <3>2. SaysAsBefore(q, r, j)
      BY <2>1, <3>1
    <3> QED
      BY <1>1, <3>2 DEF SaysAsBefore
  <2>4. ASSUME NEW j \in Attached(p, l), NEW i \in S, p.info[i].dev = p.info[j].dev
        PROVE  /\ r.info[j].conn = p.info[i].conn
               /\ r.info[j].flags =
                      IF p.info[j].conn = p.info[i].conn \/ Change(p.info[i].conn, mask) = {}
                      THEN {"unchanged"} ELSE Change(p.info[i].conn, mask)
    <3>1. /\ q.info[j].conn = p.info[i].conn
          /\ q.info[j].flags = IF p.info[j].conn = p.info[i].conn THEN {"unchanged"}
                               ELSE Change(p.info[i].conn, mask)
      BY <1>1, <2>4
    <3>2. j \in Infos /\ j \in Attached(q, l) /\ i \in Infos
      BY <1>2, <1>4
    <3>3. CASE q.info[j].flags # {}
      <4>1. r.info[j].conn = q.info[j].conn /\ r.info[j].flags = q.info[j].flags
        BY <2>1, <3>2, <3>3 DEF SaysAsBefore
      <4> QED
        BY <3>1, <3>3, <4>1
    <3>4. CASE q.info[j].flags = {}
      <4>1. i \notin K
        BY <1>2, <2>4
      <4>2. i \in Attached(q, s) /\ q.info[i].dev = q.info[j].dev
        BY <1>1, <1>6, <2>4, <3>2, <4>1
      <4>3. Twin(q, Attached(q, s), j)
        BY <4>2 DEF Twin
      <4>4. r.info[j].conn = q.info[j].conn /\ r.info[j].flags = {"unchanged"}
        BY <2>1, <3>2, <3>4, <4>3
      <4> QED
        BY <3>1, <3>4, <4>4
    <3> QED
      BY <3>3, <3>4
  <2>5. ASSUME NEW j \in Attached(p, l), ~Twin(p, S, j)
        PROVE  /\ ~r.info[j].conn
               /\ r.info[j].flags = IF p.info[j].conn /\ "removed" \in mask
                                    THEN {"removed"} ELSE {"unchanged"}
    <3>1. j \in Infos /\ j \notin K /\ j \in Attached(q, l)
      BY <1>2, <1>3, <1>4
    <3>2. q.info[j].conn = p.info[j].conn /\ q.info[j].flags = {}
      BY <1>1, <2>5, <3>1 DEF SaysAsBefore
    <3>3. ~Twin(q, Attached(q, s), j)
      BY <1>1, <1>2, <1>5, <2>5, <3>1 DEF Twin
    <3> QED
      BY <2>1, <3>1, <3>2, <3>3
  <2> QED
    BY <2>2, <2>3, <2>4, <2>5 DEF Synced, K, S
<1> QED
  BY <1>9, <1>10

\* A sync of two lists that name no device twice does what Synced says.
LEMMA SyncSays ==
    ASSUME NEW m, NEW H, Sound(m, H), NEW l \in Lists, m.list[l].use,
           NEW s \in Lists, m.list[s].use, NEW given \in SUBSET SyncFlags,
           Distinct(m, l), Distinct(m, s)
    PROVE  Synced(m, SyncLists(m, l, s, given), l, s, EffectiveMask(given))
<1> DEFINE mask == EffectiveMask(given)
           p == Prepared(m, l)
           q == SlavePass(l, s, mask, p, Chain(p, s))
           r == MasterPass(s, mask, q, Chain(q, l))
<1>1. SyncLists(m, l, s, given) = r
  BY DEF SyncLists, SlavePass, MasterPass
<1>2. mask \in SUBSET SyncFlags
  BY DEF EffectiveMask
<1>3. /\ Paints(m, p)
      /\ \A i \in Infos : /\ p.info[i].dev = m.info[i].dev /\ p.info[i].conn = m.info[i].conn
                          /\ i \in ChainSet(m, l) => p.info[i].flags = {}
  BY PreparedPaints DEF Sound
<1>4. ChainSet(m, l) = Attached(m, l)
  BY ChainOf
<1> HIDE DEF mask, p
<1>5. Sound(p, H) /\ p.list[l].use /\ p.list[s].use
  BY <1>3, PaintedIs DEF Paints
<1>6. Attached(p, l) = Attached(m, l) /\ Attached(p, s) = Attached(m, s)
      /\ Attached(m, l) \subseteq Infos /\ Attached(m, s) \subseteq Infos
  BY <1>3 DEF Paints, Attached
<1>7. Distinct(p, l) /\ Distinct(p, s) /\ \A j \in Attached(p, l) : p.info[j].flags = {}
  BY <1>3, <1>4, <1>6 DEF Distinct
<1>8. q \in SlaveDone(p, H, l, s, mask, Attached(p, s))
  BY <1>2, <1>5, <1>7, SlavePassIs
<1> HIDE DEF q
<1>9. Sound(q, H) /\ q.list[l].use /\ q.list[s].use
  BY <1>5, <1>8 DEF SlaveDone, Syncing, SameLists, SameList
<1>10. Agree(q, l, s) /\ \A x \in MasterDone(q, H, s, mask, Attached(q, l)) : Synced(p, x, l, s, mask)
  BY <1>7, <1>8, PassesSay
<1>11. r \in MasterDone(q, H, s, mask, Attached(q, l))
  BY <1>2, <1>9, <1>10, MasterPassIs
<1> HIDE DEF r
<1>12. Synced(p, r, l, s, mask)
  BY <1>10, <1>11
<1>13. \A j \in Infos : p.info[j].owner = m.info[j].owner
  BY <1>3 DEF Paints
<1>14. New(p, l, mask, Attached(p, s)) = New(m, l, mask, Attached(m, s))
  BY <1>3, <1>6 DEF New, Twin
<1>15. \A j \in Attached(m, l) : Twin(p, Attached(p, s), j) <=> Twin(m, Attached(m, s), j)
  BY <1>3, <1>6 DEF Twin
<1>16. New(m, l, mask, Attached(m, s)) \subseteq Infos
  BY <1>6 DEF New
<1> DEFINE K == New(m, l, mask, Attached(m, s))
<1>17. Synced(m, r, l, s, mask)
  <2>1. /\ \A j \in Infos : /\ r.info[j].dev = p.info[j].dev
                            /\ r.info[j].owner = IF j \in K THEN l ELSE p.info[j].owner
        /\ \A j \in K : /\ r.info[j].conn = p.info[j].conn
                        /\ r.info[j].flags = IF p.info[j].conn THEN {"added"} ELSE {"unchanged"}
    BY <1>12, <1>14 DEF Synced
  <2>2. /\ \A j \in Attached(p, l) : \A i \in Attached(p, s) : p.info[i].dev = p.info[j].dev =>
               /\ r.info[j].conn = p.info[i].conn
               /\ r.info[j].flags =
                      IF p.info[j].conn = p.info[i].conn \/ Change(p.info[i].conn, mask) = {}
                      THEN {"unchanged"} ELSE Change(p.info[i].conn, mask)
        /\ \A j \in Attached(p, l) : ~Twin(p, Attached(p, s), j) =>
               /\ ~r.info[j].conn
               /\ r.info[j].flags = IF p.info[j].conn /\ "removed" \in mask
                                    THEN {"removed"} ELSE {"unchanged"}
    BY <1>12 DEF Synced
  <2> HIDE DEF K
  <2>3. /\ \A j \in Infos : /\ r.info[j].dev = m.info[j].dev
                            /\ r.info[j].owner = IF j \in K THEN l ELSE m.info[j].owner
        /\ \A j \in K : /\ r.info[j].conn = m.info[j].conn
                        /\ r.info[j].flags = IF m.info[j].conn THEN {"added"} ELSE {"unchanged"}
    BY <1>3, <1>13, <1>16, <2>1 DEF K
  <2>4. ASSUME NEW j \in Attached(m, l), NEW i \in Attached(m, s), m.info[i].dev = m.info[j].dev
        PROVE  /\ r.info[j].conn = m.info[i].conn
               /\ r.info[j].flags =
                      IF m.info[j].conn = m.info[i].conn \/ Change(m.info[i].conn, mask) = {}
                      THEN {"unchanged"} ELSE Change(m.info[i].conn, mask)
    <3>1. /\ p.info[i].dev = m.info[i].dev /\ p.info[i].conn = m.info[i].conn
          /\ p.info[j].dev = m.info[j].dev /\ p.info[j].conn = m.info[j].conn
      BY <1>3, <1>6
    <3> QED
      BY <1>6, <2>2, <2>4, <3>1
  <2>5. ASSUME NEW j \in Attached(m, l), ~Twin(m, Attached(m, s), j)
        PROVE  /\ ~r.info[j].conn
               /\ r.info[j].flags = IF m.info[j].conn /\ "removed" \in mask
                                    THEN {"removed"} ELSE {"unchanged"}
    <3>1. p.info[j].conn = m.info[j].conn
      BY <1>3, <1>6
    <3> QED
      BY <1>6, <1>15, <2>2, <2>5, <3>1
  <2> QED
    BY <2>3, <2>4, <2>5 DEF Synced, K
<1> QED
  BY <1>1, <1>17 DEF mask

\* DistinctDevices, of what is attached to the list.
LEMMA DistinctIs ==
    ASSUME NEW m, NEW H, Sound(m, H), NEW l \in Lists, m.list[l].use
    PROVE  DistinctDevices(m, l) <=> Distinct(m, l)
<1> DEFINE s == Chain(m, l)
           d == [k \in DOMAIN s |-> m.info[s[k]].dev]
<1>1. /\ Len(s) \in Nat /\ Attached(m, l) = {s[k] : k \in 1 .. Len(s)}
      /\ \A j, k \in 1 .. Len(s) : s[j] = s[k] => j = k
  BY ChainElements
<1>2. DOMAIN s = 1 .. Len(s)
  <2>1. s \in Seq(Infos)
    BY ChainOf
  <2> HIDE DEF s
  <2> QED
    BY <2>1
<1>3. DistinctDevices(m, l) <=> IsInjective(d)
  BY DEF DistinctDevices
<1> HIDE DEF s
<1>4. IsInjective(d) <=> \A j, k \in 1 .. Len(s) : m.info[s[j]].dev = m.info[s[k]].dev => j = k
  BY <1>2 DEF IsInjective
<1>5. (\A j, k \in 1 .. Len(s) : m.info[s[j]].dev = m.info[s[k]].dev => j = k) <=> Distinct(m, l)
  BY <1>1 DEF Distinct
<1> QED
  BY <1>3, <1>4, <1>5

-----------------------------------------------------------------------------
(***************************************************************************)
(* The invariant.                                                          *)
(***************************************************************************)
LEMMA ListInitially == ListInit => ListIInv
<1> SUFFICES ASSUME ListInit PROVE ListIInv
  OBVIOUS
<1>1. /\ \A l \in Lists : mem.list[l] = FreeListSlot
      /\ \A i \in Infos : mem.info[i] = FreeInfoSlot
  BY DEF ListInit
<1>2. /\ FreeListSlot \in ListType /\ ~FreeListSlot.use
      /\ FreeInfoSlot \in InfoT /\ ~FreeInfoSlot.use /\ FreeInfoSlot.ref = 0
      /\ FreeInfoSlot.owner = NoList
  BY Numbers DEF FreeListSlot, ListType, FreeInfoSlot, InfoT, NoInfo, NoList, NoDevice
<1>3. mem \in MemT
  <2> HIDE DEF FreeListSlot, FreeInfoSlot
  <2>1. mem = [list |-> [l \in Lists |-> FreeListSlot], info |-> [i \in Infos |-> FreeInfoSlot]]
    BY DEF ListInit
  <2> QED
    BY <1>2, <2>1 DEF MemT
<1>4. mine = Loose(mem)
  BY <1>1, <1>2 DEF ListInit, Loose
<1>5. RefsOK(mem)
  BY <1>1, <1>2 DEF RefsOK
<1>6. Linked(mem) /\ \A l \in Lists : Cursor(mem, l)
  BY <1>1, <1>2 DEF Linked, Cursor
<1>7. present \subseteq Devices
  BY DEF ListInit
<1> QED
  BY <1>3, <1>4, <1>5, <1>6, <1>7 DEF ListIInv, Sound

\* A call leaves the cursors of the lists outside T alone.
LEMMA CursorKept ==
    ASSUME NEW m \in MemT, NEW a, NEW T, Keeps(m, a, T), NEW l \in Lists \ T, Cursor(m, l)
    PROVE  Cursor(a, l)
<1>1. m.list[l].current \in Infos \cup {NoInfo}
  BY FieldsAre DEF ListType
<1> QED
  BY <1>1 DEF Keeps, SameList, Cursor

LEMMA CallKeeps ==
    ASSUME ListIInv, UNCHANGED present, Sound(mem', mine'), NEW T, Keeps(mem, mem', T),
           \A l \in Lists \cap T : Cursor(mem', l)
    PROVE  ListIInv'
<1>1. \A l \in Lists \ T : Cursor(mem', l)
  BY CursorKept DEF ListIInv, Sound
<1>2. \A l \in Lists : Cursor(mem', l)
  BY <1>1
<1> QED
  BY <1>2 DEF ListIInv

LEMMA PlugStep == ASSUME ListIInv, NEW d \in Devices, Plug(d) PROVE ListIInv'
<1>1. present' \subseteq Devices /\ mem' = mem /\ mine' = mine
  BY DEF Plug, ListIInv
<1> QED
  BY <1>1 DEF ListIInv

\* The slot a new list takes.
LEMMA FreeSlot ==
    ASSUME NEW m, FreeLists(m) # {}
    PROVE  Lowest(FreeLists(m)) \in Lists /\ ~m.list[Lowest(FreeLists(m))].use
<1>1. Lowest(FreeLists(m)) \in FreeLists(m)
  BY LowestIs, Numbers DEF FreeLists
<1> QED
  BY <1>1 DEF FreeLists

LEMMA LstInitStep ==
    ASSUME ListIInv, NEW b \in BOOLEAN, NEW p \in Patterns, LstInit(b, p)
    PROVE  ListIInv'
<1> DEFINE l == Lowest(FreeLists(mem))
           init == InitInternal(mem, l, b, p)
<1>1. FreeLists(mem) # {} /\ mem' = init.mem /\ UNCHANGED <<present, mine>>
  BY DEF LstInit
<1>2. l \in Lists /\ ~mem.list[l].use /\ Sound(mem, mine)
  BY <1>1, FreeSlot DEF ListIInv
<1> HIDE DEF l
<1>3. /\ Sound(init.mem, mine) /\ Keeps(mem, init.mem, {l})
      /\ init.mem.list[l].use => init.mem.list[l].current = NoInfo
  BY <1>2, InitOK
<1> HIDE DEF init
<1>4. Cursor(mem', l)
  BY <1>1, <1>3 DEF Cursor
<1>5. Sound(mem', mine') /\ Keeps(mem, mem', {l}) /\ UNCHANGED present
  BY <1>1, <1>3
<1>6. \A k \in Lists \cap {l} : Cursor(mem', k)
  BY <1>4
<1> QED
  BY <1>5, <1>6, CallKeeps

LEMMA LstFreeStep == ASSUME ListIInv, NEW l \in Lists, LstFree(l) PROVE ListIInv'
<1>1. mem.list[l].use /\ mem' = FreeList(mem, l) /\ UNCHANGED <<present, mine>> /\ Sound(mem, mine)
  BY DEF LstFree, ListIInv
<1>2. Sound(mem', mine') /\ Keeps(mem, mem', {l}) /\ ~mem'.list[l].use
  BY <1>1, FreeListOK
<1>3. \A k \in Lists \cap {l} : Cursor(mem', k)
  BY <1>2 DEF Cursor
<1> QED
  BY <1>1, <1>2, <1>3, CallKeeps

LEMMA LstCloneStep == ASSUME ListIInv, NEW from \in Lists, LstClone(from) PROVE ListIInv'
<1> DEFINE l == Lowest(FreeLists(mem))
           b == AcquireList(mem, l)
<1>1. /\ mem.list[from].use /\ FreeLists(mem) # {} /\ mem' = CloneInto(b, from, l)
      /\ UNCHANGED <<present, mine>>
  BY DEF LstClone
<1>2. l \in Lists /\ ~mem.list[l].use /\ Sound(mem, mine)
  BY <1>1, FreeSlot DEF ListIInv
<1> HIDE DEF l
<1>3. Sound(b, mine) /\ Keeps(mem, b, {l}) /\ b.list[l].use /\ b.list[l].current = NoInfo
  BY <1>2, AcquireListOK
<1> HIDE DEF b
<1>4. b.list[from].use
  BY <1>1, <1>2, <1>3 DEF Keeps, SameList
<1>5. mem' \in Filling(b, mine, l)
  BY <1>1, <1>2, <1>3, <1>4, CloneOK
<1>6. Sound(mem', mine') /\ Keeps(b, mem', {l}) /\ mem'.list[l].current = NoInfo
  BY <1>1, <1>5 DEF Filling
<1>7. Keeps(mem, mem', {l})
  BY <1>3, <1>6, KeepsTogether
<1>8. \A k \in Lists \cap {l} : Cursor(mem', k)
  BY <1>6 DEF Cursor
<1> QED
  BY <1>1, <1>6, <1>7, <1>8, CallKeeps

LEMMA MasksAre == \A k \in Masks : k \in SUBSET SyncFlags
BY SetAssumption

LEMMA LstSyncStep ==
    ASSUME ListIInv, NEW master \in Lists, NEW slave \in Lists, NEW mask \in Masks,
           LstSync(master, slave, mask)
    PROVE  ListIInv'
<1>1. /\ mem.list[master].use /\ mem.list[slave].use
      /\ mem' = SyncLists(mem, master, slave, mask) /\ UNCHANGED <<present, mine>>
      /\ Sound(mem, mine) /\ Cursor(mem, slave) /\ mask \in SUBSET SyncFlags
  BY MasksAre DEF LstSync, ListIInv
<1>2. mem' \in Syncing(mem, mine, slave)
  BY <1>1, SyncOK
<1>3. Sound(mem', mine') /\ Keeps(mem, mem', {slave}) /\ Cursor(mem', slave)
  BY <1>1, <1>2 DEF Syncing
<1>4. \A k \in Lists \cap {slave} : Cursor(mem', k)
  BY <1>3
<1> QED
  BY <1>1, <1>3, <1>4, CallKeeps

LEMMA LstSyncPresentStep ==
    ASSUME ListIInv, NEW master \in Lists, NEW mask \in Masks, NEW p \in Patterns,
           LstSyncPresent(master, mask, p)
    PROVE  ListIInv'
<1> DEFINE l == Lowest(FreeLists(mem))
           init == InitInternal(mem, l, FALSE, p)
<1>1. /\ mem.list[master].use /\ FreeLists(mem) # {} /\ UNCHANGED <<present, mine>>
      /\ mem' = IF init.ok THEN FreeList(SyncLists(init.mem, master, l, mask), l) ELSE init.mem
  BY DEF LstSyncPresent
<1>2. l \in Lists /\ ~mem.list[l].use /\ Sound(mem, mine) /\ mask \in SUBSET SyncFlags
  BY <1>1, FreeSlot, MasksAre DEF ListIInv
<1> HIDE DEF l
<1>3. /\ Sound(init.mem, mine) /\ Keeps(mem, init.mem, {l})
      /\ init.ok => init.mem.list[l].use
      /\ init.mem.list[l].use => init.mem.list[l].current = NoInfo
  BY <1>2, InitOK
<1> DEFINE b == init.mem
<1>4. b.list[master].use
  <2>1. master \in Lists \ {l}
    BY <1>1, <1>2
  <2> HIDE DEF init
  <2> QED
    BY <1>1, <1>3, <2>1 DEF Keeps, SameList
<1> HIDE DEF init
<1>5. CASE init.ok
  <2> DEFINE c == SyncLists(b, master, l, mask)
  <2>1. c \in Syncing(b, mine, l)
    BY <1>2, <1>3, <1>4, <1>5, SyncOK
  <2> HIDE DEF c
  <2>2. Sound(c, mine) /\ Keeps(b, c, {l}) /\ c.list[l].use
    BY <1>2, <1>3, <1>5, <2>1 DEF Syncing, SameLists, SameList
  <2>3. mem' = FreeList(c, l)
    BY <1>1, <1>5 DEF c
  <2>4. Sound(mem', mine) /\ Keeps(c, mem', {l}) /\ ~mem'.list[l].use
    BY <1>2, <2>2, <2>3, FreeListOK
  <2>5. Keeps(mem, c, {l})
    BY <1>3, <2>2, KeepsTogether
  <2>6. Keeps(mem, mem', {l})
    BY <2>4, <2>5, KeepsTogether
  <2>7. \A k \in Lists \cap {l} : Cursor(mem', k)
    BY <2>4 DEF Cursor
  <2>8. Sound(mem', mine')
    BY <1>1, <2>4
  <2> QED
    BY <1>1, <2>6, <2>7, <2>8, CallKeeps
<1>6. CASE ~init.ok
  <2>1. mem' = b
    BY <1>1, <1>6
  <2> HIDE DEF b
  <2>2. Sound(mem', mine') /\ Keeps(mem, mem', {l})
    BY <1>1, <1>3, <2>1 DEF b
  <2>3. \A k \in Lists \cap {l} : Cursor(mem', k)
    BY <1>3, <2>1 DEF Cursor, b
  <2> QED
    BY <1>1, <2>2, <2>3, CallKeeps
<1> QED
  BY <1>5, <1>6

LEMMA LstCloneInfoStep == ASSUME ListIInv, NEW i \in Infos, LstCloneInfo(i) PROVE ListIInv'
<1> DEFINE new == Lowest(FreeInfos(mem))
           p == mem.info[i]
<1>1. /\ FreeInfos(mem) # {} /\ mem' = AllocInfo(mem, new, p) /\ mine' = mine \cup {new}
      /\ UNCHANGED present /\ Sound(mem, mine) /\ mem \in MemT
  BY DEF LstCloneInfo, ListIInv, Sound
<1>2. new \in Infos /\ ~mem.info[new].use
  <2>1. new \in FreeInfos(mem)
    BY <1>1, LowestIs, Numbers DEF FreeInfos
  <2> QED
    BY <2>1 DEF FreeInfos
<1> HIDE DEF new
<1>3. IsPublic(p)
  <2>1. p \in InfoT
    BY <1>1, FieldsAre
  <2> QED
    BY <2>1 DEF InfoT, IsPublic
<1> HIDE DEF p
<1>4. Sound(mem', mine') /\ SameLists(mem, mem') /\ Moved(mem, mem', new, NoList)
  BY <1>1, <1>2, <1>3, AllocOK
<1>5. mem.info[new].owner = NoList
  BY <1>1, <1>2 DEF Sound, RefsOK
<1>6. Keeps(mem, mem', {})
  BY <1>4, <1>5, MovedKeeps, Numbers
<1> QED
  BY <1>1, <1>4, <1>6, CallKeeps

LEMMA LstDetachInfoStep ==
    ASSUME ListIInv, NEW l \in Lists, NEW i \in Infos, LstDetachInfo(l, i)
    PROVE  ListIInv'
<1>1. /\ mem.info[i].owner = l /\ mem' = Detach(mem, l, i)
      /\ mine' = mine \cup {i} /\ UNCHANGED present /\ Sound(mem, mine) /\ mem \in MemT
      /\ Cursor(mem, l)
  BY DEF LstDetachInfo, ListIInv, Sound
<1>2. /\ Sound(mem', mine') /\ SameLists(mem, mem') /\ Moved(mem, mem', i, NoList)
      /\ mem.list[l].current = i => mem'.list[l].stray
  BY <1>1, DetachOK
<1>3. Keeps(mem, mem', {l})
  BY <1>1, <1>2, MovedKeeps
<1>4. mem.list[l].current \in Infos \cup {NoInfo}
  BY <1>1, FieldsAre DEF ListType
<1>5. \A k \in Lists \cap {l} : Cursor(mem', k)
  BY <1>1, <1>2, <1>4 DEF Cursor, SameLists, SameList, Moved
<1> QED
  BY <1>1, <1>2, <1>3, <1>5, CallKeeps

LEMMA LstAttachInfoStep ==
    ASSUME ListIInv, NEW l \in Lists, NEW i \in Infos, LstAttachInfo(l, i)
    PROVE  ListIInv'
<1>1. /\ mem.list[l].use /\ i \in mine /\ mem' = Attach(mem, l, i)
      /\ mine' = mine \ {i} /\ UNCHANGED present /\ Sound(mem, mine)
  BY DEF LstAttachInfo, ListIInv
<1>2. Sound(mem', mine') /\ SameLists(mem, mem') /\ Moved(mem, mem', i, l)
  BY <1>1, AttachOK
<1>3. mem.info[i].owner = NoList
  BY <1>1 DEF Sound, Loose
<1>4. Keeps(mem, mem', {})
  BY <1>2, <1>3, MovedKeeps, Numbers
<1> QED
  BY <1>1, <1>2, <1>4, CallKeeps

LEMMA LstFreeInfoStep == ASSUME ListIInv, NEW i \in Infos, LstFreeInfo(i) PROVE ListIInv'
<1>1. /\ mem.info[i].use /\ mem' = FreeInfo(mem, i) /\ mine' = mine \ {i} /\ UNCHANGED present
      /\ Sound(mem, mine)
  BY DEF LstFreeInfo, ListIInv
<1>2. CASE mem.info[i].owner = NoList
  <2>1. i \in mine
    BY <1>1, <1>2 DEF Sound, Loose
  <2>2. Sound(mem', mine') /\ SameLists(mem, mem') /\ Moved(mem, mem', i, NoList)
    BY <1>1, <2>1, FreeInfoOK
  <2>3. Keeps(mem, mem', {})
    BY <1>2, <2>2, MovedKeeps, Numbers
  <2> QED
    BY <1>1, <2>2, <2>3, CallKeeps
<1>3. CASE mem.info[i].owner # NoList
  <2>1. mem' = mem
    BY <1>1, <1>3 DEF FreeInfo
  <2>2. mine' = mine
    BY <1>1, <1>3 DEF Sound, Loose
  <2> QED
    BY <1>1, <2>1, <2>2 DEF ListIInv
<1> QED
  BY <1>2, <1>3

\* The cursor of list l is put on an info of the list, or on none, or it strays.
LEMMA CursorSet ==
    ASSUME ListIInv, NEW l \in Lists, NEW x \in Infos \cup {NoInfo}, NEW y \in BOOLEAN,
           mem' = [mem EXCEPT !.list[l].current = x, !.list[l].stray = y],
           UNCHANGED <<present, mine>>,
           x # NoInfo /\ ~y => mem.info[x].owner = l
    PROVE  ListIInv'
<1> DEFINE r == [mem.list[l] EXCEPT !.current = x, !.stray = y]
<1>1. mem \in MemT /\ mine = Loose(mem) /\ RefsOK(mem) /\ Linked(mem)
  BY DEF ListIInv, Sound
<1>2. /\ r \in ListType /\ r.use = mem.list[l].use /\ r.head = mem.list[l].head
      /\ r.current = x /\ r.stray = y
  <2>1. mem.list[l] \in ListType
    BY <1>1, FieldsAre
  <2> QED
    BY <2>1 DEF ListType
<1>3. mem' = PutList(mem, l, r)
  BY <1>1 DEF PutList, MemT
<1> HIDE DEF r
<1>4. ListPut(mem, mem', l, r)
  BY <1>1, <1>2, <1>3, EditList
<1>5. /\ mem' \in MemT /\ mem'.info = mem.info
      /\ \A k \in Lists : mem'.list[k] = IF k = l THEN r ELSE mem.list[k]
  BY <1>4 DEF ListPut
<1>6. \A k \in Lists : mem'.list[k].use = mem.list[k].use /\ mem'.list[k].head = mem.list[k].head
  BY <1>2, <1>5
<1>7. Loose(mem') = mine'
  BY <1>1, <1>5 DEF Loose
<1>8. RefsOK(mem')
  <2>1. \A j \in Infos : mem.info[j].owner \in Lists \cup {NoList}
    BY <1>1, FieldsAre
  <2> QED
    BY <1>1, <1>5, <1>6, <2>1 DEF RefsOK
<1>9. Linked(mem')
  <2> SUFFICES ASSUME NEW k \in Lists, mem'.list[k].use
               PROVE  \E s : IsList(mem', k, s) /\ Range(s) = Attached(mem', k)
    BY DEF Linked
  <2>1. PICK s : IsList(mem, k, s) /\ Range(s) = Attached(mem, k)
    BY <1>1, <1>6 DEF Linked
  <2>2. Attached(mem', k) = Attached(mem, k)
    BY <1>5 DEF Attached
  <2>3. IsList(mem', k, s)
    BY <1>5, <1>6, <2>1, ListKept
  <2> QED
    BY <2>1, <2>2, <2>3
<1>10. Sound(mem', mine')
  BY <1>5, <1>7, <1>8, <1>9 DEF Sound
<1>11. Keeps(mem, mem', {l})
  BY <1>5 DEF Keeps, SameList
<1>12. \A k \in Lists \cap {l} : Cursor(mem', k)
  BY <1>2, <1>5 DEF Cursor
<1> QED
  BY <1>10, <1>11, <1>12, CallKeeps

LEMMA MoveNextStep == ASSUME ListIInv, NEW l \in Lists, MoveNext(l) PROVE ListIInv'
<1> DEFINE c == mem.list[l].current
           x == IF c = NoInfo THEN mem.list[l].head ELSE mem.info[c].next
           y == mem.list[l].stray /\ x # NoInfo
<1>1. /\ mem.list[l].use /\ mem' = [mem EXCEPT !.list[l].current = x, !.list[l].stray = y]
      /\ UNCHANGED <<present, mine>> /\ Sound(mem, mine) /\ Cursor(mem, l)
  BY DEF MoveNext, ListIInv
<1>2. PICK s : IsList(mem, l, s) /\ Range(s) = Attached(mem, l)
  BY <1>1 DEF Sound, Linked
<1> DEFINE N == Len(s)
<1>3. /\ N \in Nat /\ DOMAIN s = 1 .. N /\ \A k \in 1 .. N : s[k] \in Infos /\ s[k] \in Range(s)
      /\ \A j \in Range(s) : \E k \in 1 .. N : s[k] = j
  BY <1>2 DEF IsList, Range
<1>4. /\ N = 0 => mem.list[l].head = NoInfo
      /\ N # 0 => mem.list[l].head = s[1]
      /\ Links(mem, s, N)
  BY <1>2 DEF IsList
<1> HIDE DEF N
<1>5. c \in Infos \cup {NoInfo} /\ y \in BOOLEAN
  BY <1>1, FieldsAre, SMTT(30) DEF ListType, Sound
<1>7. x \in Infos \cup {NoInfo}
  BY <1>1, <1>5, FieldsAre DEF Sound
<1>6. ~mem.list[l].stray /\ x # NoInfo => mem.info[x].owner = l
  <2> SUFFICES ASSUME ~mem.list[l].stray, x # NoInfo PROVE mem.info[x].owner = l
    OBVIOUS
  <2>1. ASSUME NEW k \in 1 .. N PROVE s[k] \in Infos /\ mem.info[s[k]].owner = l
    BY <1>2, <1>3, SMTT(30) DEF Attached
  <2>2. CASE c = NoInfo
    <3>1. CASE N = 0
      BY <1>4, <2>2, <3>1
    <3>2. CASE N # 0
      <4>1. 1 \in 1 .. N /\ x = s[1]
        BY <1>3, <1>4, <2>2, <3>2
      <4> HIDE DEF x
      <4> QED
        BY <2>1, <4>1
    <3> QED
      BY <3>1, <3>2
  <2>3. CASE c # NoInfo
    <3>1. c \in Range(s)
      BY <1>1, <1>2, <1>5, <2>3 DEF Cursor, Attached
    <3>2. PICK k \in 1 .. N : s[k] = c
      BY <1>3, <3>1
    <3>3. x = IF k = N THEN NoInfo ELSE s[k + 1]
      BY <1>4, <2>3, <3>2 DEF Links
    <3>4. k # N => k + 1 \in 1 .. N
      BY <1>3
    <3> HIDE DEF x
    <3> QED
      BY <2>1, <3>3, <3>4
  <2> QED
    BY <2>2, <2>3
<1>8. x # NoInfo /\ ~y => mem.info[x].owner = l
  BY <1>6
<1> HIDE DEF x, y
<1> QED
  BY <1>1, <1>5, <1>7, <1>8, CursorSet

LEMMA MoveResetStep == ASSUME ListIInv, NEW l \in Lists, MoveReset(l) PROVE ListIInv'
<1>1. /\ mem' = [mem EXCEPT !.list[l].current = NoInfo, !.list[l].stray = FALSE]
      /\ UNCHANGED <<present, mine>>
  BY DEF MoveReset
<1> QED
  BY <1>1, CursorSet

\* No call on a list breaks it, and neither does a device that comes or goes.
LEMMA ListStepKeeps == ListIInv /\ [ListNext]_listVars => ListIInv'
<1> SUFFICES ASSUME ListIInv, [ListNext]_listVars PROVE ListIInv'
  OBVIOUS
<1>1. CASE UNCHANGED listVars
  BY <1>1 DEF ListIInv, listVars
<1>2. CASE ListStep
  <2>1. ASSUME NEW d \in Devices, Plug(d) PROVE ListIInv'
    BY <2>1, PlugStep
  <2>2. ASSUME NEW p \in Patterns, NEW b \in BOOLEAN, LstInit(b, p) PROVE ListIInv'
    BY <2>2, LstInitStep
  <2>3. ASSUME NEW p \in Patterns, NEW l \in Lists, NEW k \in Masks, LstSyncPresent(l, k, p)
        PROVE  ListIInv'
    BY <2>3, LstSyncPresentStep
  <2>4. ASSUME NEW l \in Lists, LstFree(l) \/ LstClone(l) \/ MoveNext(l) \/ MoveReset(l)
        PROVE  ListIInv'
    BY <2>4, LstFreeStep, LstCloneStep, MoveNextStep, MoveResetStep
  <2>5. ASSUME NEW l \in Lists, NEW s \in Lists, NEW k \in Masks, LstSync(l, s, k) PROVE ListIInv'
    BY <2>5, LstSyncStep
  <2>6. ASSUME NEW l \in Lists, NEW i \in Infos, LstDetachInfo(l, i) \/ LstAttachInfo(l, i)
        PROVE  ListIInv'
    BY <2>6, LstDetachInfoStep, LstAttachInfoStep
  <2>7. ASSUME NEW i \in Infos, LstCloneInfo(i) \/ LstFreeInfo(i) PROVE ListIInv'
    BY <2>7, LstCloneInfoStep, LstFreeInfoStep
  <2> QED
    BY <1>2, <2>1, <2>2, <2>3, <2>4, <2>5, <2>6, <2>7 DEF ListStep
<1> QED
  BY <1>1, <1>2 DEF ListNext

LEMMA ListAlways == ListSpec => []ListIInv
<1> QED
  BY ListInitially, ListStepKeeps, PTL DEF ListSpec

LEMMA ListInvMeans == ListIInv => ListsConsistent /\ InfosCounted
<1> SUFFICES ASSUME ListIInv PROVE ListsConsistent /\ InfosCounted
  OBVIOUS
<1>1. Sound(mem, mine) /\ mem \in MemT /\ mine = Loose(mem) /\ RefsOK(mem) /\ present \subseteq Devices
      /\ \A l \in Lists : Cursor(mem, l)
  BY DEF ListIInv, Sound
<1>2. ListTypeOK
  <2>1. ASSUME NEW i \in Infos PROVE mem.info[i] \in InfoType
    <3>1. mem.info[i] \in InfoT /\ mem.info[i].ref \in 0 .. 2
      BY <1>1, FieldsAre DEF RefsOK
    <3> QED
      BY <3>1 DEF InfoT, InfoType
  <2>2. mem.info \in [Infos -> InfoType] /\ mem.list \in [Lists -> ListType]
    BY <1>1, <2>1 DEF MemT
  <2>3. mem = [list |-> mem.list, info |-> mem.info]
    BY <1>1 DEF MemT
  <2>4. mem \in [list : [Lists -> ListType], info : [Infos -> InfoType]]
    BY <2>2, <2>3
  <2> QED
    BY <1>1, <2>4 DEF ListTypeOK, Loose
<1>3. WellLinked
  <2> SUFFICES ASSUME NEW l \in Lists, mem.list[l].use
               PROVE  LET s == Chain(mem, l)
                      IN /\ IsInjective(s)
                         /\ Range(s) = {i \in Infos : mem.info[i].owner = l}
                         /\ \A k \in DOMAIN s :
                                mem.info[s[k]].prev = IF k = 1 THEN Last(s) ELSE s[k - 1]
                         /\ s # << >> => mem.info[Last(s)].next = NoInfo
    BY DEF WellLinked
  <2> DEFINE s == Chain(mem, l)
             N == Len(s)
  <2>1. IsList(mem, l, s) /\ Range(s) = Attached(mem, l)
    BY <1>1, ChainOf
  <2> HIDE DEF s
  <2>2. IsInjective(s) /\ N \in Nat /\ DOMAIN s = 1 .. N /\ Last(s) = s[N] /\ (s # << >> => N # 0)
    BY <2>1 DEF IsList, Last
  <2>3. Links(mem, s, N)
    BY <2>1 DEF IsList
  <2> HIDE DEF N
  <2>4. \A k \in 1 .. N : mem.info[s[k]].prev = IF k = 1 THEN s[N] ELSE s[k - 1]
    BY <2>3 DEF Links
  <2>5. N # 0 => mem.info[s[N]].next = NoInfo
    BY <2>2, <2>3 DEF Links
  <2> QED
    BY <2>1, <2>2, <2>4, <2>5 DEF Attached, s
<1>4. CursorOnList
  <2> SUFFICES ASSUME NEW l \in Lists, mem.list[l].use, mem.list[l].current # NoInfo,
                      ~mem.list[l].stray
               PROVE  mem.list[l].current \in ChainSet(mem, l)
    BY DEF CursorOnList
  <2>1. ChainSet(mem, l) = Attached(mem, l)
    BY <1>1, ChainOf
  <2>2. mem.list[l].current \in Infos
    BY <1>1, FieldsAre DEF ListType
  <2> QED
    BY <1>1, <2>1, <2>2 DEF Cursor, Attached
<1>5. InfoRefExact
  BY <1>1 DEF InfoRefExact, RefsOK
<1>6. NoInfoLeak
  BY <1>1 DEF NoInfoLeak, RefsOK, Loose
<1> QED
  BY <1>2, <1>3, <1>4, <1>5, <1>6 DEF ListsConsistent, InfosCounted

\* Whatever was appended, removed, moved by a sync or given up half-way, every
\* list can be walked in both directions and from its cursor, and holds exactly
\* the infos that name it.
THEOREM ListsAreConsistent == ListSpec => []ListsConsistent
<1> QED
  BY ListAlways, ListInvMeans, PTL

\* Every info has one reference for its owner and one for its list, and is held
\* by a list in use or by the application: the pool gets each back, once.
THEOREM InfosAreCounted == ListSpec => []InfosCounted
<1> QED
  BY ListAlways, ListInvMeans, PTL

\* SyncHonoursMask and SyncTellsNews, of one step.
MaskHonoured ==
    \A l, s \in Lists, k \in Masks :
        LstSync(l, s, k) /\ DistinctDevices(mem, l) /\ DistinctDevices(mem, s) =>
            \A i \in ChainSet(mem', l) :
                LET f == mem'.info[i].flags
                IN f = {"unchanged"} \/ (f # {} /\ f \subseteq EffectiveMask(k) \ {"unchanged"})

NewsTold ==
    \A l \in Lists, p \in Patterns :
        LstSyncPresent(l, {}, p) /\ DistinctDevices(mem, l)
          /\ InitInternal(mem, Lowest(FreeLists(mem)), FALSE, p).ok =>
            LET before == Connected(mem, l)
                after == present \cap p
            IN /\ Connected(mem', l) = after
               /\ Reported(mem', l, "added") = after \ before
               /\ Reported(mem', l, "removed") = before \ after
               /\ DistinctDevices(mem', l)

LEMMA AnswersFit ==
    ASSUME NEW m, NEW r, NEW l \in Lists, NEW s \in Lists, NEW mask \in SUBSET SyncFlags,
           Synced(m, r, l, s, mask), NEW i \in Attached(r, l)
    PROVE  LET f == r.info[i].flags
           IN  f = {"unchanged"} \/ (f # {} /\ f \subseteq mask \ {"unchanged"})
<1> DEFINE f == r.info[i].flags
           Fits(x) == x = {"unchanged"} \/ (x # {} /\ x \subseteq mask \ {"unchanged"})
<1>1. i \in New(m, l, mask, Attached(m, s)) \/ i \in Attached(m, l)
  BY DEF Synced, Attached
<1>2. CASE i \in New(m, l, mask, Attached(m, s))
  <2>1. "added" \in mask
    BY <1>2 DEF New
  <2>2. f = {"added"} \/ f = {"unchanged"}
    BY <1>2 DEF Synced
  <2> QED
    BY <2>1, <2>2
<1>3. CASE i \in Attached(m, l) /\ Twin(m, Attached(m, s), i)
  <2>1. PICK e \in Attached(m, s) : m.info[e].dev = m.info[i].dev
    BY <1>3 DEF Twin
  <2>2. f = {"unchanged"} \/ (f = Change(m.info[e].conn, mask) /\ f # {})
    BY <1>3, <2>1 DEF Synced
  <2>3. Change(m.info[e].conn, mask) \subseteq mask \ {"unchanged"}
    BY DEF Change
  <2> HIDE DEF f
  <2> QED
    BY <2>2, <2>3 DEF f
<1>4. CASE i \in Attached(m, l) /\ ~Twin(m, Attached(m, s), i)
  <2>1. f = {"unchanged"} \/ (f = {"removed"} /\ "removed" \in mask)
    BY <1>4 DEF Synced
  <2> QED
    BY <2>1
<1> QED
  BY <1>1, <1>2, <1>3, <1>4

LEMMA HonoursOK == ASSUME ListIInv PROVE MaskHonoured
<1> SUFFICES ASSUME NEW l \in Lists, NEW s \in Lists, NEW k \in Masks, LstSync(l, s, k),
                    DistinctDevices(mem, l), DistinctDevices(mem, s), NEW i \in ChainSet(mem', l)
             PROVE  LET f == mem'.info[i].flags
                    IN f = {"unchanged"} \/ (f # {} /\ f \subseteq EffectiveMask(k) \ {"unchanged"})
  BY DEF MaskHonoured
<1>1. /\ mem.list[l].use /\ mem.list[s].use /\ mem' = SyncLists(mem, l, s, k)
      /\ Sound(mem, mine) /\ k \in SUBSET SyncFlags
  BY MasksAre DEF LstSync, ListIInv
<1>2. Distinct(mem, l) /\ Distinct(mem, s)
  BY <1>1, DistinctIs
<1>3. Synced(mem, mem', l, s, EffectiveMask(k))
  BY <1>1, <1>2, SyncSays
<1>4. mem' \in Syncing(mem, mine, s)
  BY <1>1, SyncOK
<1>5. Sound(mem', mine) /\ mem'.list[l].use
  BY <1>1, <1>4 DEF Syncing, SameLists, SameList
<1>6. i \in Attached(mem', l)
  BY <1>5, ChainOf
<1>7. EffectiveMask(k) \in SUBSET SyncFlags
  BY <1>1 DEF EffectiveMask
<1> QED
  BY <1>3, <1>6, <1>7, AnswersFit

\* What the sync of list l of m with a list of the devices D makes known.
LEMMA NewsAre ==
    ASSUME NEW m, NEW r, NEW l \in Lists, NEW s \in Lists, NEW D,
           Synced(m, r, l, s, SyncFlags), Distinct(m, l), Distinct(m, s),
           \A j \in Infos : m.info[j].conn \in BOOLEAN,
           \A i \in Attached(m, s) : m.info[i].dev \in D /\ m.info[i].conn = TRUE,
           \A d \in D : \E i \in Attached(m, s) : m.info[i].dev = d
    PROVE  LET before == {m.info[i].dev : i \in {j \in Attached(m, l) : m.info[j].conn}}
           IN  /\ {r.info[i].dev : i \in {j \in Attached(r, l) : r.info[j].conn}} = D
               /\ {r.info[i].dev : i \in {j \in Attached(r, l) : "added" \in r.info[j].flags}}
                      = D \ before
               /\ {r.info[i].dev : i \in {j \in Attached(r, l) : "removed" \in r.info[j].flags}}
                      = before \ D
               /\ Distinct(r, l)
<1> DEFINE S == Attached(m, s)
           L == Attached(m, l)
           K == New(m, l, SyncFlags, S)
           before == {m.info[i].dev : i \in {j \in L : m.info[j].conn}}
<1>1. /\ \A j \in Infos : /\ r.info[j].dev = m.info[j].dev
                          /\ r.info[j].owner = IF j \in K THEN l ELSE m.info[j].owner
      /\ \A j \in K : r.info[j].flags = IF m.info[j].conn THEN {"added"} ELSE {"unchanged"}
      /\ \A j \in K : r.info[j].conn = m.info[j].conn
  BY DEF Synced
<1>2. \A j \in L : \A i \in S : m.info[i].dev = m.info[j].dev =>
          /\ r.info[j].conn = m.info[i].conn
          /\ r.info[j].flags =
                 IF m.info[j].conn = m.info[i].conn \/ Change(m.info[i].conn, SyncFlags) = {}
                 THEN {"unchanged"} ELSE Change(m.info[i].conn, SyncFlags)
  BY DEF Synced
<1>3. \A j \in L : ~Twin(m, S, j) =>
          /\ ~r.info[j].conn
          /\ r.info[j].flags = IF m.info[j].conn /\ "removed" \in SyncFlags
                               THEN {"removed"} ELSE {"unchanged"}
  BY DEF Synced
<1>4. /\ \A i : i \in K <=> i \in S /\ ~Twin(m, L, i)
      /\ K \subseteq Infos /\ L \subseteq Infos /\ S \subseteq Infos
      /\ "removed" \in SyncFlags
  BY DEF New, SyncFlags, Attached
<1> HIDE DEF K
<1>5. Attached(r, l) = L \cup K
  <2>1. K \subseteq Infos
    BY <1>4
  <2> QED
    BY <1>1, <2>1 DEF Attached
<1> HIDE DEF S, L
<1>6. \A j \in L : Twin(m, S, j) <=> m.info[j].dev \in D
  BY DEF Twin, S
<1>7. ASSUME NEW j \in K
      PROVE  /\ j \in Infos /\ r.info[j].dev = m.info[j].dev /\ r.info[j].conn = TRUE
             /\ r.info[j].flags = {"added"} /\ m.info[j].dev \in D /\ m.info[j].dev \notin before
             /\ \A i \in L : m.info[i].dev # m.info[j].dev
  <2>1. j \in S /\ j \in Infos /\ ~Twin(m, L, j)
    BY <1>4
  <2>2. \A i \in L : m.info[i].dev # m.info[j].dev
    BY <2>1 DEF Twin
  <2>3. m.info[j].dev \in D /\ m.info[j].conn = TRUE
    BY <2>1 DEF S
  <2>4. r.info[j].conn = TRUE /\ r.info[j].flags = {"added"}
    BY <1>1, <2>3
  <2> QED
    BY <1>1, <2>1, <2>2, <2>3, <2>4
<1>8. ASSUME NEW j \in L
      PROVE  /\ j \in Infos /\ r.info[j].dev = m.info[j].dev
             /\ r.info[j].conn <=> m.info[j].dev \in D
             /\ "added" \in r.info[j].flags <=> m.info[j].dev \in D /\ ~m.info[j].conn
             /\ "removed" \in r.info[j].flags <=> m.info[j].dev \notin D /\ m.info[j].conn
  <2>1. j \in Infos /\ r.info[j].dev = m.info[j].dev /\ m.info[j].conn \in BOOLEAN
    BY <1>1, <1>4
  <2>2. CASE m.info[j].dev \in D
    <3>1. PICK i \in S : m.info[i].dev = m.info[j].dev
      BY <2>2 DEF S
    <3>2. m.info[i].conn = TRUE
      BY DEF S
    <3>3. r.info[j].conn = TRUE
      BY <1>2, <3>1, <3>2
    <3> DEFINE come == Change(m.info[i].conn, SyncFlags)
    <3>4. "added" \in come /\ "removed" \notin come
      BY <3>2 DEF Change, SyncFlags
    <3> HIDE DEF come
    <3>7. r.info[j].flags = IF m.info[j].conn = m.info[i].conn \/ come = {} THEN {"unchanged"} ELSE come
      BY <1>2, <3>1 DEF come
    <3>8. r.info[j].flags = IF m.info[j].conn THEN {"unchanged"} ELSE come
      BY <2>1, <3>2, <3>4, <3>7
    <3>5. "added" \in r.info[j].flags <=> ~m.info[j].conn
      BY <3>4, <3>8
    <3>6. "removed" \notin r.info[j].flags
      BY <3>4, <3>8
    <3> QED
      BY <2>1, <2>2, <3>3, <3>5, <3>6
  <2>3. CASE m.info[j].dev \notin D
    <3>1. ~Twin(m, S, j)
      BY <1>6, <2>3
    <3>2. ~r.info[j].conn /\ r.info[j].flags = IF m.info[j].conn THEN {"removed"} ELSE {"unchanged"}
      BY <1>3, <1>4, <3>1
    <3> QED
      BY <2>1, <2>3, <3>2
  <2> QED
    BY <2>2, <2>3
<1>9. \A j \in L : m.info[j].conn <=> m.info[j].dev \in before
  BY DEF Distinct, L
<1>10. \A d \in D : (\E j \in L : m.info[j].dev = d) \/ (\E j \in K : m.info[j].dev = d)
  <2> SUFFICES ASSUME NEW d \in D, ~\E j \in L : m.info[j].dev = d
               PROVE  \E j \in K : m.info[j].dev = d
    OBVIOUS
  <2>1. PICK i \in S : m.info[i].dev = d
    BY DEF S
  <2>2. ~Twin(m, L, i)
    BY <2>1 DEF Twin
  <2> QED
    BY <1>4, <2>1, <2>2
<1>11. \A d \in before : \E j \in L : m.info[j].dev = d
  OBVIOUS
<1> HIDE DEF before
<1> DEFINE A == L \cup K
<1>12. \A j \in A :
           /\ r.info[j].dev = m.info[j].dev
           /\ r.info[j].conn <=> m.info[j].dev \in D
           /\ "added" \in r.info[j].flags <=> m.info[j].dev \in D \ before
           /\ "removed" \in r.info[j].flags <=> m.info[j].dev \in before \ D
  <2>1. ASSUME NEW j \in K
        PROVE  /\ r.info[j].dev = m.info[j].dev
               /\ r.info[j].conn <=> m.info[j].dev \in D
               /\ "added" \in r.info[j].flags <=> m.info[j].dev \in D \ before
               /\ "removed" \in r.info[j].flags <=> m.info[j].dev \in before \ D
    <3>1. m.info[j].dev \in D /\ m.info[j].dev \notin before /\ r.info[j].conn = TRUE
      BY <1>7
    <3>4. r.info[j].flags = {"added"}
      BY <1>7
    <3>2. "added" \in r.info[j].flags /\ "removed" \notin r.info[j].flags
      BY <3>4
    <3>3. r.info[j].dev = m.info[j].dev
      BY <1>7
    <3> QED
      BY <3>1, <3>2, <3>3
  <2>2. \A j \in L :
            /\ r.info[j].dev = m.info[j].dev
            /\ r.info[j].conn <=> m.info[j].dev \in D
            /\ "added" \in r.info[j].flags <=> m.info[j].dev \in D \ before
            /\ "removed" \in r.info[j].flags <=> m.info[j].dev \in before \ D
    BY <1>8, <1>9
  <2> QED
    BY <2>1, <2>2
<1>13. \A d \in D \cup before : \E j \in A : m.info[j].dev = d
  BY <1>10, <1>11
<1>14. Attached(r, l) = A
  BY <1>5
<1>15. \A i, j \in K : m.info[i].dev = m.info[j].dev => i = j
  BY <1>4 DEF Distinct, S
<1>16. \A i, j \in L : m.info[i].dev = m.info[j].dev => i = j
  BY DEF Distinct, L
<1>20. \A i, j \in A : m.info[i].dev = m.info[j].dev => i = j
  <2>1. \A i \in L : \A j \in K : m.info[i].dev # m.info[j].dev
    BY <1>7
  <2> QED
    BY <1>15, <1>16, <2>1
<1> HIDE DEF A
<1>17. Distinct(r, l)
  BY <1>12, <1>14, <1>20 DEF Distinct
<1>18. {r.info[i].dev : i \in {j \in A : r.info[j].conn}} = D
  BY <1>12, <1>13
<1>19. {r.info[i].dev : i \in {j \in A : "added" \in r.info[j].flags}} = D \ before
  BY <1>12, <1>13
<1>21. {r.info[i].dev : i \in {j \in A : "removed" \in r.info[j].flags}} = before \ D
  BY <1>12, <1>13
<1> QED
  BY <1>14, <1>17, <1>18, <1>19, <1>21 DEF before, L

LEMMA TellsOK == ASSUME ListIInv PROVE NewsTold
<1> SUFFICES ASSUME NEW l \in Lists, NEW p \in Patterns, LstSyncPresent(l, {}, p),
                    DistinctDevices(mem, l),
                    InitInternal(mem, Lowest(FreeLists(mem)), FALSE, p).ok
             PROVE  LET before == Connected(mem, l)
                        after == present \cap p
                    IN /\ Connected(mem', l) = after
                       /\ Reported(mem', l, "added") = after \ before
                       /\ Reported(mem', l, "removed") = before \ after
                       /\ DistinctDevices(mem', l)
  BY DEF NewsTold
<1> DEFINE s == Lowest(FreeLists(mem))
           init == InitInternal(mem, s, FALSE, p)
           b == init.mem
           c == SyncLists(b, l, s, {})
           D == present \cap p
<1>1. mem.list[l].use /\ FreeLists(mem) # {} /\ mem' = FreeList(c, s)
  BY DEF LstSyncPresent
<1>2. s \in Lists /\ ~mem.list[s].use /\ Sound(mem, mine) /\ present \subseteq Devices
  BY <1>1, FreeSlot DEF ListIInv
<1>3. init.ok
  OBVIOUS
<1> HIDE DEF s
<1>4. /\ Sound(b, mine) /\ Keeps(mem, b, {s}) /\ b.list[s].use
      /\ Filled(mem, b, s, {d \in Devices : IsListed(d, FALSE, p)})
  BY <1>2, <1>3, InitOK
<1>5. {d \in Devices : IsListed(d, FALSE, p)} = D
  BY <1>2 DEF IsListed
<1> HIDE DEF init
<1>6. l # s /\ l \in Lists \ {s}
  BY <1>1, <1>2
<1>7. Filled(mem, b, s, D)
  BY <1>4, <1>5
<1> HIDE DEF b
<1>8. b.list[l].use
  BY <1>1, <1>4, <1>6 DEF Keeps, SameList
<1>9. /\ Attached(b, l) = Attached(mem, l)
      /\ \A j \in Attached(mem, l) : SameInfo(mem, b, j)
  <2>1. \A j \in Infos : mem.info[j].owner = l => b.info[j].owner = l
    BY <1>4, <1>6 DEF Keeps
  <2>2. \A j \in Infos : b.info[j].owner = l => mem.info[j].owner = l /\ SameInfo(mem, b, j)
    BY <1>6, <1>7 DEF Filled
  <2> QED
    BY <2>1, <2>2 DEF Attached
<1>10. Distinct(b, l) /\ Distinct(b, s)
  <2>1. Distinct(mem, l)
    BY <1>1, <1>2, DistinctIs
  <2> QED
    BY <1>7, <1>9, <2>1 DEF Distinct, Filled, SameInfo
<1>11. {} \in SUBSET SyncFlags /\ EffectiveMask({}) = SyncFlags
  BY DEF EffectiveMask
<1>12. Synced(b, c, l, s, SyncFlags)
  BY <1>2, <1>4, <1>8, <1>10, <1>11, SyncSays
<1>13. c \in Syncing(b, mine, s)
  BY <1>2, <1>4, <1>8, <1>11, SyncOK
<1> HIDE DEF c
<1>14. Sound(c, mine) /\ c.list[l].use /\ c.list[s].use
  BY <1>2, <1>4, <1>8, <1>13 DEF Syncing, SameLists, SameList
<1>15. /\ Sound(mem', mine) /\ Keeps(c, mem', {s})
       /\ Spares(c, mem', s) /\ Attached(mem', s) = {}
  BY <1>1, <1>2, <1>14, FreeListOK
<1>16. mem'.list[l].use
  BY <1>6, <1>14, <1>15 DEF Keeps, SameList
<1>17. Attached(mem', l) = Attached(c, l) /\ \A j \in Attached(c, l) : SameInfo(c, mem', j)
  BY <1>6, <1>15, Numbers DEF Attached, Spares
<1>18. /\ \A i \in Attached(b, s) : b.info[i].dev \in D /\ b.info[i].conn = TRUE
       /\ \A d \in D : \E i \in Attached(b, s) : b.info[i].dev = d
       /\ \A j \in Infos : b.info[j].conn \in BOOLEAN
  <2>1. \A j \in Infos : b.info[j].conn \in BOOLEAN
    BY <1>4, FieldsAre DEF Sound, InfoT
  <2> QED
    BY <1>7, <2>1 DEF Filled
<1> HIDE DEF D
<1> DEFINE before == {b.info[i].dev : i \in {j \in Attached(b, l) : b.info[j].conn}}
<1>19. /\ {c.info[i].dev : i \in {j \in Attached(c, l) : c.info[j].conn}} = D
       /\ {c.info[i].dev : i \in {j \in Attached(c, l) : "added" \in c.info[j].flags}} = D \ before
       /\ {c.info[i].dev : i \in {j \in Attached(c, l) : "removed" \in c.info[j].flags}} = before \ D
       /\ Distinct(c, l)
  BY <1>2, <1>10, <1>12, <1>18, NewsAre
<1>20. Connected(mem, l) = before
  <2>1. Connected(mem, l) = {mem.info[i].dev : i \in {j \in Attached(mem, l) : mem.info[j].conn}}
    BY <1>1, <1>2, ChainOf DEF Connected
  <2> QED
    BY <1>9, <2>1 DEF SameInfo
<1>21. ChainSet(mem', l) = Attached(c, l)
  BY <1>15, <1>16, <1>17, ChainOf
<1>22. Connected(mem', l) = D
  BY <1>17, <1>19, <1>21 DEF Connected, SameInfo
<1>23. /\ Reported(mem', l, "added") = D \ before
       /\ Reported(mem', l, "removed") = before \ D
  BY <1>17, <1>19, <1>21 DEF Reported, SameInfo
<1>24. Distinct(mem', l)
  BY <1>17, <1>19 DEF Distinct, SameInfo
<1>25. DistinctDevices(mem', l)
  BY <1>15, <1>16, <1>24, DistinctIs
<1> QED
  BY <1>20, <1>22, <1>23, <1>25 DEF D

\* Whatever was attached, cloned or synced before, a sync of lists that name no
\* device twice gives every info of the list an answer, and none the caller has
\* masked out.
THEOREM MaskIsHonoured == ListSpec => SyncHonoursMask
<1>1. ListIInv => MaskHonoured
  BY HonoursOK
<1> QED
  BY <1>1, ListAlways, PTL DEF SyncHonoursMask, MaskHonoured

\* Whatever has come and gone since the last sync, a sync with the devices
\* present reports exactly what is news to the list, and each device once.
THEOREM NewsAreTold == ListSpec => SyncTellsNews
<1>1. ListIInv => NewsTold
  BY TellsOK
<1> QED
  BY <1>1, ListAlways, PTL DEF SyncTellsNews, NewsTold

=============================================================================
