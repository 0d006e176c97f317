----------------------------- MODULE HandlePool -----------------------------
(***************************************************************************)
(* The fixed-size handle pools of lusbk_handles.c.  Every public handle of *)
(* libusbK.dll (HotK, LstK, LstInfoK, UsbK, DevK, OvlK, OvlPoolK, StmK,    *)
(* IsochK) is a slot of such a pool; the nine pools run the same code, the *)
(* FN_POOLHANDLE macro, so one module models each of them.                 *)
(*                                                                         *)
(* One step is one access to memory that other threads share: a read of    *)
(* Count.Use or Disposing, one Interlocked operation, one plain store, in  *)
(* program order.                                                          *)
(***************************************************************************)
EXTENDS Integers, FiniteSets

CONSTANTS
    Threads,        \* threads of the process that call the library
    NoThread,       \* Disposing = 0
    HandleCount,    \* ALLK_HANDLE_COUNT of the pool
    LateCalls       \* may a call on a handle still be entering the library
                    \* (before its InterlockedIncrement) when another thread
                    \* starts to free the handle?

ASSUME ThreadsAssumption == IsFiniteSet(Threads) /\ NoThread \notin Threads
ASSUME CountAssumption == HandleCount \in Nat \ {0}
ASSUME LateCallsAssumption == LateCalls \in BOOLEAN

Slots == 0 .. HandleCount - 1

VARIABLES
    use,        \* Base.Count.Use = SPINLOCK_HELD
    ref,        \* Base.Count.Ref
    disposing,  \* Base.Disposing
    cleanup,    \* Base.Evt.Cleanup # NULL
    index,      \* AllK-><section>.Index, modulo the pool size
    pc,         \* the next shared access of each thread
    op,         \* the API call the thread is in
    h,          \* the slot that call works on
    start,      \* startPos of POOLHANDLE_ACQUIRE
    nested,     \* the thread is in a call made by the Cleanup callback
    handles,    \* handles the application owns: returned, not yet freed
    unseen,     \* history: slots free throughout the thread's pool scan
    alone       \* history: no other thread moved Index during that scan

slotVars == <<use, ref, disposing, cleanup, index>>
threadVars == <<pc, op, h, start, nested>>
vars == <<use, ref, disposing, cleanup, index, pc, op, h, start, nested,
          handles, unseen, alone>>

(***************************************************************************)
(* Calls.  "use" is any function bracketed by PoolHandle_Inc and           *)
(* PoolHandle_Dec (or an object, such as an overlapped pool, that keeps    *)
(* its reference on a UsbK handle until it is cleaned up); "free" is       *)
(* LstK_Free, OvlK_Free, StmK_Free: Inc, Dec, Dec; "drop" is the last Dec  *)
(* of these, and all of UsbK_Free and IsochK_Free.                         *)
(***************************************************************************)
Ops == {"none", "acquire", "use", "free", "drop"}

AcquirePCs == {"acqTry", "acqRef", "acqDisposing", "acqCleanup", "acqFull"}
IncPCs == {"incUse", "incDisposing", "incRef", "incUndo"}
DecPCs == {"decUse", "decDisposing", "decRef"}
DisposePCs == {"setDisposing", "callCleanup", "clearCleanup", "release"}
PCs == {"idle", "body"} \cup AcquirePCs \cup IncPCs \cup DecPCs \cup DisposePCs

\* t is between the first and the last access of PoolHandle_Inc's entry on s.
Entering(t, s) ==
    h[t] = s /\ ~nested[t] /\ pc[t] \in {"incUse", "incDisposing", "incRef"}

\* t has counted a reference of its own on s and has not given it back.
Holds(t, s) ==
    /\ h[t] = s
    /\ ~nested[t]
    /\ op[t] \in {"use", "free"}
    /\ pc[t] \in {"body"} \cup DecPCs

\* t runs the code that PoolHandle_Dec runs when the count reaches zero.
Disposes(t, s) == h[t] = s /\ (nested[t] \/ pc[t] \in DisposePCs)

Init ==
    /\ use = [s \in Slots |-> FALSE]
    /\ ref = [s \in Slots |-> 0]
    /\ disposing = [s \in Slots |-> NoThread]
    /\ cleanup = [s \in Slots |-> FALSE]
    /\ index = HandleCount - 1      \* AllK->...Index = -1
    /\ pc = [t \in Threads |-> "idle"]
    /\ op = [t \in Threads |-> "none"]
    /\ h = [t \in Threads |-> 0]
    /\ start = [t \in Threads |-> 0]
    /\ nested = [t \in Threads |-> FALSE]
    /\ handles = {}
    /\ unseen = [t \in Threads |-> {}]
    /\ alone = [t \in Threads |-> FALSE]

Goto(t, label) == pc' = [pc EXCEPT ![t] = label]

\* Control after the current PoolHandle function gave its caller a result
\* that ends the call: the callback's call returns to the callback, the Inc;
\* Dec of a Free goes on with its last Dec, anything else is finished.
Finish(t) ==
    IF nested[t]
    THEN /\ Goto(t, "clearCleanup")
         /\ nested' = [nested EXCEPT ![t] = FALSE]
         /\ UNCHANGED op
    ELSE /\ Goto(t, "idle")
         /\ op' = [op EXCEPT ![t] = "none"]
         /\ UNCHANGED nested

\* Control after PoolHandle_Dec returned, whatever it returned.
AfterDec(t) ==
    IF op[t] = "free" /\ ~nested[t]
    THEN /\ Goto(t, "decUse")
         /\ op' = [op EXCEPT ![t] = "drop"]
         /\ UNCHANGED nested
    ELSE Finish(t)

\* Control after PoolHandle_Inc returned TRUE.
AfterInc(t) ==
    /\ Goto(t, IF op[t] = "free" /\ ~nested[t] THEN "decUse" ELSE "body")
    /\ UNCHANGED <<op, nested>>

\* The locals of POOLHANDLE_ACQUIRE, and the history of its scan, end with it.
EndScan(t) ==
    /\ start' = [start EXCEPT ![t] = 0]
    /\ unseen' = [unseen EXCEPT ![t] = {}]
    /\ alone' = [alone EXCEPT ![t] = FALSE]

-----------------------------------------------------------------------------
(***************************************************************************)
(* POOLHANDLE_ACQUIRE and PoolHandle_Acquire                               *)
(***************************************************************************)
\* mutant: the count is not reduced to a position of the pool
NextPosNoModulo == index + 1

NextPos == (index + 1) % HandleCount

\* startPos = nextPos = IncLock(Index) % count
BeginAcquire(t) ==
    /\ pc[t] = "idle"
    /\ index' = NextPos
    /\ op' = [op EXCEPT ![t] = "acquire"]
    /\ h' = [h EXCEPT ![t] = NextPos]
    /\ start' = [start EXCEPT ![t] = NextPos]
    /\ unseen' = [unseen EXCEPT ![t] = {s \in Slots : ~use[s]}]
    /\ alone' = [u \in Threads |-> u = t]
    /\ Goto(t, "acqTry")
    /\ UNCHANGED <<use, ref, disposing, cleanup, nested, handles>>

\* mutant: the scan stops one position before startPos
AcquireNextShort(t) ==
    /\ index' = NextPos
    /\ h' = [h EXCEPT ![t] = NextPos]
    /\ Goto(t, IF (NextPos + 1) % HandleCount = start[t] THEN "acqFull" ELSE "acqTry")
    /\ alone' = [u \in Threads |-> u = t /\ alone[t]]
    /\ UNCHANGED <<use, unseen>>

\* The position after a failed try; back at startPos the pool counts as full.
AcquireNext(t) ==
    /\ index' = NextPos
    /\ h' = [h EXCEPT ![t] = NextPos]
    /\ Goto(t, IF NextPos = start[t] THEN "acqFull" ELSE "acqTry")
    /\ alone' = [u \in Threads |-> u = t /\ alone[t]]
    /\ UNCHANGED <<use, unseen>>

\* mSpin_Try_Acquire(&Base.Count.Use).  The IncLock(Index) that follows a
\* failed exchange is folded into the same step: nothing but Index, which only
\* this loop touches, is accessed in between.
AcquireTry(t) ==
    /\ pc[t] = "acqTry"
    /\ IF use[h[t]]
       THEN AcquireNext(t)
       ELSE /\ use' = [use EXCEPT ![h[t]] = TRUE]
            /\ unseen' = [u \in Threads |-> unseen[u] \ {h[t]}]
            /\ Goto(t, "acqRef")
            /\ UNCHANGED <<index, h, alone>>
    /\ UNCHANGED <<ref, disposing, cleanup, op, start, nested, handles>>

\* mutant: the owner's reference is not counted
AcquireSetRefZero(t) ==
    /\ pc[t] = "acqRef"
    /\ cleanup' = [cleanup EXCEPT ![h[t]] = FALSE]
    /\ ref' = [ref EXCEPT ![h[t]] = 0]
    /\ Goto(t, "acqDisposing")
    /\ UNCHANGED <<use, disposing, index, op, h, start, nested, handles, unseen, alone>>

\* Init_Handle_ObjK: Evt.Cleanup = NULL; Count.Ref = 1
AcquireSetRef(t) ==
    /\ pc[t] = "acqRef"
    /\ cleanup' = [cleanup EXCEPT ![h[t]] = FALSE]
    /\ ref' = [ref EXCEPT ![h[t]] = 1]
    /\ Goto(t, "acqDisposing")
    /\ UNCHANGED <<use, disposing, index, op, h, start, nested, handles, unseen, alone>>

\* Init_Handle_ObjK: Disposing = 0
AcquireSetDisposing(t) ==
    /\ pc[t] = "acqDisposing"
    /\ disposing' = [disposing EXCEPT ![h[t]] = NoThread]
    /\ Goto(t, "acqCleanup")
    /\ UNCHANGED <<use, ref, cleanup, index, op, h, start, nested, handles, unseen, alone>>

\* next->Base.Evt.Cleanup = EvtCleanup; the handle is returned.  HotK acquires
\* its handles with a NULL callback.
AcquireReturn(t) ==
    /\ pc[t] = "acqCleanup"
    /\ \E hasCallback \in BOOLEAN :
           cleanup' = [cleanup EXCEPT ![h[t]] = hasCallback]
    /\ handles' = handles \cup {h[t]}
    /\ Finish(t)
    /\ EndScan(t)
    /\ UNCHANGED <<use, ref, disposing, index, h>>

\* ERROR_OUT_OF_STRUCTURES
AcquireFail(t) ==
    /\ pc[t] = "acqFull"
    /\ Finish(t)
    /\ EndScan(t)
    /\ UNCHANGED <<slotVars, h, handles>>

-----------------------------------------------------------------------------
(***************************************************************************)
(* PoolHandle_Inc (and IncEx)                                              *)
(***************************************************************************)
IncCheckUse(t) ==
    /\ pc[t] = "incUse"
    /\ IF use[h[t]]
       THEN Goto(t, "incDisposing") /\ UNCHANGED <<op, nested>>
       ELSE Finish(t)
    /\ UNCHANGED <<slotVars, h, start, handles, unseen, alone>>

\* A handle being disposed may be used by the disposing thread, uncounted.
IncCheckDisposing(t) ==
    /\ pc[t] = "incDisposing"
    /\ CASE disposing[h[t]] = NoThread -> Goto(t, "incRef") /\ UNCHANGED <<op, nested>>
         [] disposing[h[t]] = t -> AfterInc(t)
         [] OTHER -> Finish(t)
    /\ UNCHANGED <<slotVars, h, start, handles, unseen, alone>>

\* InterlockedIncrement(&Ref) > 1
IncRef(t) ==
    /\ pc[t] = "incRef"
    /\ ref' = [ref EXCEPT ![h[t]] = @ + 1]
    /\ IF ref[h[t]] + 1 > 1
       THEN AfterInc(t)
       ELSE Goto(t, "incUndo") /\ UNCHANGED <<op, nested>>
    /\ UNCHANGED <<use, disposing, cleanup, index, h, start, handles, unseen, alone>>

IncUndo(t) ==
    /\ pc[t] = "incUndo"
    /\ ref' = [ref EXCEPT ![h[t]] = @ - 1]
    /\ Finish(t)
    /\ UNCHANGED <<use, disposing, cleanup, index, h, start, handles, unseen, alone>>

-----------------------------------------------------------------------------
(***************************************************************************)
(* PoolHandle_Dec                                                          *)
(***************************************************************************)
DecCheckUse(t) ==
    /\ pc[t] = "decUse"
    /\ IF use[h[t]]
       THEN Goto(t, "decDisposing") /\ UNCHANGED <<op, nested>>
       ELSE AfterDec(t)
    /\ UNCHANGED <<slotVars, h, start, handles, unseen, alone>>

DecCheckDisposing(t) ==
    /\ pc[t] = "decDisposing"
    /\ IF disposing[h[t]] = NoThread
       THEN Goto(t, "decRef") /\ UNCHANGED <<op, nested>>
       ELSE AfterDec(t)
    /\ UNCHANGED <<slotVars, h, start, handles, unseen, alone>>

\* mutant: the value before the decrement is tested (InterlockedExchangeAdd)
DecRefOldValue(t) ==
    /\ pc[t] = "decRef"
    /\ ref' = [ref EXCEPT ![h[t]] = @ - 1]
    /\ IF ref[h[t]] - 1 <= 1
       THEN Goto(t, "setDisposing") /\ UNCHANGED <<op, nested>>
       ELSE AfterDec(t)
    /\ UNCHANGED <<use, disposing, cleanup, index, h, start, handles, unseen, alone>>

\* InterlockedDecrement(&Ref): zero disposes, anything else returns.
DecRef(t) ==
    /\ pc[t] = "decRef"
    /\ ref' = [ref EXCEPT ![h[t]] = @ - 1]
    /\ IF ref[h[t]] - 1 = 0
       THEN Goto(t, "setDisposing") /\ UNCHANGED <<op, nested>>
       ELSE AfterDec(t)
    /\ UNCHANGED <<use, disposing, cleanup, index, h, start, handles, unseen, alone>>

\* Disposing = GetCurrentThreadId()
SetDisposing(t) ==
    /\ pc[t] = "setDisposing"
    /\ disposing' = [disposing EXCEPT ![h[t]] = t]
    /\ Goto(t, "callCleanup")
    /\ UNCHANGED <<use, ref, cleanup, index, op, h, start, nested, handles, unseen, alone>>

\* Evt.Cleanup(PoolHandle), unless it is NULL.  The callback may use the
\* handle it cleans up: it runs a call of its own on it before it returns.
CallCleanup(t) ==
    /\ pc[t] = "callCleanup"
    /\ IF cleanup[h[t]]
       THEN \E callsBack \in BOOLEAN :
               /\ Goto(t, IF callsBack THEN "incUse" ELSE "clearCleanup")
               /\ nested' = [nested EXCEPT ![t] = callsBack]
       ELSE Goto(t, "release") /\ UNCHANGED nested
    /\ UNCHANGED <<slotVars, op, h, start, handles, unseen, alone>>

\* Evt.Cleanup = NULL
ClearCleanup(t) ==
    /\ pc[t] = "clearCleanup"
    /\ cleanup' = [cleanup EXCEPT ![h[t]] = FALSE]
    /\ Goto(t, "release")
    /\ UNCHANGED <<use, ref, disposing, index, op, h, start, nested, handles, unseen, alone>>

\* mutant: the slot is not given back
ReleaseKeepsUse(t) ==
    /\ pc[t] = "release"
    /\ AfterDec(t)
    /\ UNCHANGED <<use, ref, disposing, cleanup, index, h, start, handles, unseen, alone>>

\* mSpin_Release(&Base.Count.Use)
Release(t) ==
    /\ pc[t] = "release"
    /\ use' = [use EXCEPT ![h[t]] = FALSE]
    /\ AfterDec(t)
    /\ UNCHANGED <<ref, disposing, cleanup, index, h, start, handles, unseen, alone>>

-----------------------------------------------------------------------------
(***************************************************************************)
(* The application                                                         *)
(***************************************************************************)
\* It calls a function on a handle it owns.
BeginUse(t, s) ==
    /\ pc[t] = "idle"
    /\ s \in handles
    /\ op' = [op EXCEPT ![t] = "use"]
    /\ h' = [h EXCEPT ![t] = s]
    /\ Goto(t, "incUse")
    /\ UNCHANGED <<slotVars, start, nested, handles, unseen, alone>>

\* The function's work between Inc and Dec.
EndBody(t) ==
    /\ pc[t] = "body"
    /\ Goto(t, "decUse")
    /\ UNCHANGED <<slotVars, op, h, start, nested, handles, unseen, alone>>

\* It frees a handle it owns, once.  Calls that already hold a reference may
\* be running; calls that are still entering only if LateCalls.
MayFree(t, s) ==
    /\ pc[t] = "idle"
    /\ s \in handles
    /\ LateCalls \/ \A u \in Threads : ~Entering(u, s)

\* LstK_Free, OvlK_Free, StmK_Free: Inc, Dec, Dec
BeginFree(t, s) ==
    /\ MayFree(t, s)
    /\ handles' = handles \ {s}
    /\ op' = [op EXCEPT ![t] = "free"]
    /\ h' = [h EXCEPT ![t] = s]
    /\ Goto(t, "incUse")
    /\ UNCHANGED <<slotVars, start, nested, unseen, alone>>

\* UsbK_Free, IsochK_Free: Dec
BeginDrop(t, s) ==
    /\ MayFree(t, s)
    /\ handles' = handles \ {s}
    /\ op' = [op EXCEPT ![t] = "drop"]
    /\ h' = [h EXCEPT ![t] = s]
    /\ Goto(t, "decUse")
    /\ UNCHANGED <<slotVars, start, nested, unseen, alone>>

-----------------------------------------------------------------------------
\* The steps a thread takes by itself once it is in a call.
Step(t) ==
    \/ AcquireTry(t) \/ AcquireSetRef(t) \/ AcquireSetDisposing(t)
    \/ AcquireReturn(t) \/ AcquireFail(t)
    \/ IncCheckUse(t) \/ IncCheckDisposing(t) \/ IncRef(t) \/ IncUndo(t)
    \/ EndBody(t)
    \/ DecCheckUse(t) \/ DecCheckDisposing(t) \/ DecRef(t)
    \/ SetDisposing(t) \/ CallCleanup(t) \/ ClearCleanup(t) \/ Release(t)

Next ==
    \E t \in Threads :
        \/ Step(t)
        \/ BeginAcquire(t)
        \/ \E s \in Slots : BeginUse(t, s) \/ BeginFree(t, s) \/ BeginDrop(t, s)

Spec == Init /\ [][Next]_vars

\* Every thread that is in a call is scheduled again and again.
Fairness == \A t \in Threads : WF_vars(Step(t))
FairSpec == Spec /\ Fairness
-----------------------------------------------------------------------------
(***************************************************************************)
(* Properties                                                              *)
(***************************************************************************)
\* The reference of the application itself on s: from Ref = 1 in
\* PoolHandle_Acquire to the InterlockedDecrement of the last Dec of a Free.
OwnerStep(t, s) ==
    /\ h[t] = s
    /\ ~nested[t]
    /\ \/ op[t] = "acquire" /\ pc[t] \in {"acqDisposing", "acqCleanup"}
       \/ op[t] = "free"
       \/ op[t] = "drop" /\ pc[t] \in DecPCs
Owned(s) == s \in handles \/ \E t \in Threads : OwnerStep(t, s)

Holders(s) == {t \in Threads : Holds(t, s)}

\* Type correctness of the pool and of the threads that run its code.
TypeOK ==
    /\ use \in [Slots -> BOOLEAN]
    /\ ref \in [Slots -> Int]
    /\ disposing \in [Slots -> Threads \cup {NoThread}]
    /\ cleanup \in [Slots -> BOOLEAN]
    /\ index \in Slots
    /\ pc \in [Threads -> PCs]
    /\ op \in [Threads -> Ops]
    /\ h \in [Threads -> Slots]
    /\ start \in [Threads -> Slots]
    /\ nested \in [Threads -> BOOLEAN]
    /\ handles \in SUBSET Slots
    /\ unseen \in [Threads -> SUBSET Slots]
    /\ alone \in [Threads -> BOOLEAN]

\* Count.Ref of every slot, used or not, is the number of API calls inside it
\* plus one for its owner: the count PoolHandle_Inc and PoolHandle_Dec act on
\* is never off by a lost, doubled or misdirected increment.  A slot given
\* back therefore has count zero, which POOLHANDLE_LIB_EXIT_CHECK looks for.
RefExact ==
    \A s \in Slots :
        ref[s] = Cardinality(Holders(s)) + (IF Owned(s) THEN 1 ELSE 0)

\* While an API call is inside a handle (its PoolHandle_Inc returned TRUE),
\* nobody runs the handle's cleanup, and nobody re-initialises its slot for a
\* new handle.
NoCleanupWhileReferenced ==
    \A s \in Slots, t, u \in Threads :
        Holds(t, s) => /\ use[s]
                       /\ ~Disposes(u, s)
                       /\ ~(h[u] = s /\ pc[u] \in {"acqRef", "acqDisposing", "acqCleanup"})

\* A handle is cleaned up by one thread only, which is the one Disposing names
\* from the moment its callback runs: a call made by the callback is the only
\* one that may use the handle.
OneDisposer ==
    \A s \in Slots, t, u \in Threads :
        Disposes(t, s) =>
            /\ Disposes(u, s) => t = u
            /\ s \notin handles
            /\ pc[t] # "setDisposing" => disposing[s] = t

\* PoolHandle_Acquire reports ERROR_OUT_OF_STRUCTURES only if every slot was
\* in use at some time during its scan, as long as no other scan of the same
\* pool draws from Index meanwhile.
SoloScanComplete ==
    \A t \in Threads : pc[t] = "acqFull" /\ alone[t] => unseen[t] = {}

\* Once the application has freed a handle and the calls inside it have
\* returned, its slot goes back to the pool: no order of the last Dec's leaves
\* a slot in use forever.
FreedSlotReturns ==
    \A s \in Slots : (use[s] /\ s \notin handles) ~> (~use[s] \/ s \in handles)

(***************************************************************************)
(* The inductive invariant behind RefExact, when calls do not arrive late. *)
(***************************************************************************)
\* What a thread may be doing at each program counter.
ControlInv ==
    \A t \in Threads :
        /\ op[t] = "none" <=> pc[t] = "idle"
        /\ op[t] = "acquire" <=> pc[t] \in AcquirePCs
        /\ op[t] = "free" => ~nested[t] /\ pc[t] \in IncPCs \cup DecPCs
        /\ op[t] = "drop" /\ ~nested[t] => pc[t] \in DecPCs \cup DisposePCs
        /\ pc[t] # "incUndo"
        /\ nested[t] => pc[t] \in {"incUse", "incDisposing", "body",
                                   "decUse", "decDisposing"}

\* t has just taken slot s, and nobody has given it a count yet, or t disposes
\* of it: the slot is in use and its count is zero.
Zeroed(t, s) == h[t] = s /\ (pc[t] = "acqRef" \/ Disposes(t, s))

\* Only calls on a handle the application owns, and the call that frees it,
\* are on their way into the slot.
EntryInv ==
    \A t \in Threads, s \in Slots :
        Entering(t, s) => op[t] = "free" \/ s \in handles

\* A slot somebody has a reference on is in use and is not being disposed of.
ReferencedInv ==
    \A s \in Slots :
        /\ s \in handles => use[s] /\ disposing[s] = NoThread
        /\ \A t \in Threads :
              /\ Holds(t, s) => use[s] /\ disposing[s] = NoThread
              /\ OwnerStep(t, s) =>
                    /\ use[s]
                    /\ s \notin handles
                    /\ pc[t] # "acqDisposing" => disposing[s] = NoThread
                    /\ \A u \in Threads : OwnerStep(u, s) => u = t

\* A slot that is being set up or disposed of belongs to one thread.
ZeroedInv ==
    \A s \in Slots, t \in Threads :
        Zeroed(t, s) =>
            /\ use[s]
            /\ ref[s] = 0
            /\ \A u \in Threads : Zeroed(u, s) => u = t
            /\ Disposes(t, s) /\ pc[t] # "setDisposing" => disposing[s] = t

\* A handle that is still being set up has only its owner's reference.
FreshInv ==
    \A t \in Threads :
        pc[t] \in {"acqDisposing", "acqCleanup"} => ref[h[t]] = 1

\* FreshInv is kept apart: it is inductive relative to IInv.
IInv == TypeOK /\ ControlInv /\ EntryInv /\ ReferencedInv /\ ZeroedInv /\ RefExact

-----------------------------------------------------------------------------
(***************************************************************************)
(* The pool implements HandleLifetime, when calls do not arrive late.      *)
(***************************************************************************)
\* t runs POOLHANDLE_ACQUIRE on the slot it has just taken.
SetsUp(t, s) == h[t] = s /\ pc[t] = "acqRef"

SlotPhase(s) ==
    IF ~use[s] THEN "absent"
    ELSE IF \E t \in Threads : SetsUp(t, s) THEN "setup"
    ELSE IF \E t \in Threads : Disposes(t, s) THEN "dead"
    ELSE "live"

Lifetime == INSTANCE HandleLifetime WITH
    phase <- [s \in Slots |-> SlotPhase(s)],
    owned <- {s \in Slots : Owned(s)},
    inside <- [s \in Slots |-> Holders(s)]

\* Seen from outside, a slot dies in the very step in which the last of its
\* owner and the calls inside gives up its reference: no call enters, and no
\* thread starts the cleanup or the reuse of a slot, in any other order.
ImplementsLifetime == Lifetime!Spec
=============================================================================
