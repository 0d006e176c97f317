------------------------------ MODULE OvlPool -------------------------------
(***************************************************************************)
(* Overlapped pools (lusbk_overlapped.c).  A pool owns an array of         *)
(* elements; each is in its AcquiredList or in its ReleasedList and gets   *)
(* an OverlappedK handle, a slot of the OvlK handle pool, when it is first *)
(* acquired.                                                               *)
(*                                                                         *)
(* The lists have no lock: a pool is for one application thread, so a call *)
(* is one step, except OvlK_Wait, during which transfers complete.         *)
(* Handles come from PoolHandle_Acquire (module HandlePool): any slot that *)
(* is not in use.  The linked lists of lusbk_linked_list.h are sequences.  *)
(***************************************************************************)
EXTENDS Integers, Sequences, FiniteSets

CONSTANTS
    PoolSlots,      \* slots of the OvlPoolK handle pool
    OvlSlots,       \* slots of the OvlK handle pool
    NoOvl,          \* a NULL KOVL_HANDLE
    NoPool,         \* a NULL pool pointer
    MaxCount,       \* bound on MaxOverlappedCount
    MaxInits,       \* bound on the number of OvlK_Init calls
    FreeUnused,     \* may a pool be freed before each element was acquired?
    SlowCancel,     \* may a cancelled transfer still be pending when OvlK_Wait
                    \* looks at it again?
    AllocFails      \* may Mem_Alloc fail?

ASSUME SlotAssumption ==
    /\ IsFiniteSet(PoolSlots) /\ IsFiniteSet(OvlSlots)
    /\ NoOvl \notin OvlSlots /\ NoPool \notin PoolSlots
ASSUME BoundAssumption == {MaxCount, MaxInits} \subseteq Nat \ {0}
ASSUME SwitchAssumption == {FreeUnused, SlowCancel, AllocFails} \subseteq BOOLEAN

VARIABLES
    inits,      \* OvlK_Init calls so far; numbers the arrays
    pool,       \* the pool handles
    elHandle,   \* KOVL_EL.Handle of every element
    ovl,        \* the OverlappedK handles; blind is history: the last release was
                \* by OvlK_Wait after an error that leaves the transfer alone, and
                \* the transfer has not ended since
    usbRefs,    \* references on the UsbK handle of the pools, beside its owner's
    wait,       \* the OvlK_Wait under way, or NoWait
    held        \* history: handles the application has of a pool, oldest first

vars == <<inits, pool, elHandle, ovl, usbRefs, wait, held>>

Elements == (1 .. MaxInits) \X (1 .. MaxCount)

\* The bits of KOVL_WAIT_FLAG; RELEASE_ON_TIMEOUT is 0x0C, CANCEL included.
ReleaseOnSuccess == 1
ReleaseOnFail == 2
CancelOnTimeout == 4
ReleaseOnTimeout == {4, 8}
Flags == (SUBSET {ReleaseOnSuccess, ReleaseOnFail}) \X {{}, {CancelOnTimeout}, ReleaseOnTimeout}
FlagBits(f) == f[1] \cup f[2]

NoWait == [o |-> NoOvl, flags |-> {}, phase |-> "none"]
InFlight == {"pending", "cancelling"}

FreePool == [use |-> FALSE, count |-> 0, array |-> 0, acquired |-> << >>, released |-> << >>]
FreeOvl == [use |-> FALSE, pool |-> NoPool, link |-> <<1, 1>>, isAcquired |-> FALSE,
            event |-> FALSE, io |-> "none", blind |-> FALSE]

Init ==
    /\ inits = 0
    /\ pool = [p \in PoolSlots |-> FreePool]
    /\ elHandle = [e \in Elements |-> NoOvl]
    /\ ovl = [o \in OvlSlots |-> FreeOvl]
    /\ usbRefs = 0
    /\ wait = NoWait
    /\ held = [p \in PoolSlots |-> << >>]

Contents(s) == {s[i] : i \in DOMAIN s}

\* DL_DELETE: x is unlinked.
Without(s, x) ==
    LET k == CHOOSE i \in DOMAIN s : s[i] = x
    IN SubSeq(s, 1, k - 1) \o SubSeq(s, k + 1, Len(s))

Idle == wait = NoWait

-----------------------------------------------------------------------------

\* OvlK_Init.  Init_Handle_OvlPoolK resets neither the lists nor the counts of
\* the slot; the new elements are appended to the list that is there.
OvlInit(p, n) ==
    /\ Idle
    /\ inits < MaxInits
    /\ ~pool[p].use
    /\ inits' = inits + 1
    /\ pool' = [pool EXCEPT ![p].use = TRUE, ![p].count = n, ![p].array = inits + 1,
                            ![p].released = @ \o [i \in 1 .. n |-> <<inits + 1, i>>]]
    /\ usbRefs' = usbRefs + 1
    /\ held' = [held EXCEPT ![p] = << >>]
    /\ UNCHANGED <<elHandle, ovl, wait>>

\* The Error path of OvlK_Init: the reference on the UsbK handle is given back,
\* and given back again by Cleanup_OvlPoolK.
OvlInitFails(p) ==
    /\ Idle
    /\ AllocFails
    /\ inits < MaxInits
    /\ ~pool[p].use
    /\ inits' = inits + 1
    /\ usbRefs' = usbRefs - 1
    /\ UNCHANGED <<pool, elHandle, ovl, wait, held>>

\* Mutants: MasterLink keeps what the slot had; DL_PREPEND for DL_APPEND.
OvlAcquireOldLink(p, new) ==
    /\ Idle
    /\ pool[p].use /\ pool[p].released # << >>
    /\ LET e == Head(pool[p].released)
           o == IF elHandle[e] = NoOvl THEN new ELSE elHandle[e]
       IN  /\ elHandle[e] = NoOvl => ~ovl[new].use
           /\ elHandle' = [elHandle EXCEPT ![e] = o]
           /\ ovl' = [ovl EXCEPT ![o].use = TRUE, ![o].pool = p, ![o].isAcquired = TRUE,
                                 ![o].event = FALSE, ![o].io = "none"]
           /\ pool' = [pool EXCEPT ![p].released = Tail(@), ![p].acquired = Append(@, e)]
           /\ held' = [held EXCEPT ![p] = Append(@, o)]
    /\ UNCHANGED <<inits, usbRefs, wait>>

OvlAcquirePrepend(p, new) ==
    /\ Idle
    /\ pool[p].use /\ pool[p].released # << >>
    /\ LET e == Head(pool[p].released)
           o == IF elHandle[e] = NoOvl THEN new ELSE elHandle[e]
       IN  /\ elHandle[e] = NoOvl => ~ovl[new].use
           /\ elHandle' = [elHandle EXCEPT ![e] = o]
           /\ ovl' = [ovl EXCEPT ![o] = [@ EXCEPT !.use = TRUE, !.pool = p, !.link = e,
                          !.isAcquired = TRUE, !.event = FALSE, !.io = "none"]]
           /\ pool' = [pool EXCEPT ![p].released = Tail(@), ![p].acquired = <<e>> \o @]
           /\ held' = [held EXCEPT ![p] = Append(@, o)]
    /\ UNCHANGED <<inits, usbRefs, wait>>

\* OvlK_Acquire: the head of ReleasedList, with a new handle if it has none.
OvlAcquire(p, new) ==
    /\ Idle
    /\ pool[p].use /\ pool[p].released # << >>
    /\ LET e == Head(pool[p].released)
           o == IF elHandle[e] = NoOvl THEN new ELSE elHandle[e]
       IN  /\ elHandle[e] = NoOvl => ~ovl[new].use
           /\ elHandle' = [elHandle EXCEPT ![e] = o]
           /\ ovl' = [ovl EXCEPT ![o] =
                  [use |-> IF elHandle[e] = NoOvl THEN TRUE ELSE @.use,
                   pool |-> p, link |-> e, isAcquired |-> TRUE, event |-> FALSE,
                   io |-> IF @.io \in InFlight THEN @.io ELSE "none", blind |-> FALSE]]
           /\ pool' = [pool EXCEPT ![p].released = Tail(@), ![p].acquired = Append(@, e)]
           /\ held' = [held EXCEPT ![p] = Append(@, o)]
    /\ UNCHANGED <<inits, usbRefs, wait>>

\* Mutant: the IsAcquired test is dropped, and the element not deleted from
\* AcquiredList.
ReleaseKeepsAcquired(o, blind) ==
    /\ ovl' = [ovl EXCEPT ![o].isAcquired = FALSE,
                          ![o].blind = blind /\ ovl[o].io \in InFlight]
    /\ pool' = [pool EXCEPT ![ovl[o].pool].released = <<ovl[o].link>> \o @]
    /\ held' = [held EXCEPT ![ovl[o].pool] = Without(@, o)]

\* OvlK_Release on o, which may be called by OvlK_Wait.
Release(o, blind) ==
    IF ovl[o].use /\ ovl[o].pool # NoPool /\ ovl[o].isAcquired
    THEN LET p == ovl[o].pool
             e == ovl[o].link
         IN  /\ ovl' = [ovl EXCEPT ![o].isAcquired = FALSE,
                                   ![o].blind = blind /\ ovl[o].io \in InFlight]
             /\ pool' = [pool EXCEPT ![p].acquired = Without(@, e), ![p].released = <<e>> \o @]
             /\ held' = [held EXCEPT ![p] = Without(@, o)]
    ELSE UNCHANGED <<ovl, pool, held>>

\* The application must not release a handle that is in use.
OvlRelease(p, o) ==
    /\ Idle
    /\ o \in Contents(held[p])
    /\ ovl[o].io \notin InFlight
    /\ Release(o, FALSE)
    /\ UNCHANGED <<inits, elHandle, usbRefs, wait>>

\* OvlK_ReUse
OvlReUse(p, o) ==
    /\ Idle
    /\ o \in Contents(held[p]) /\ ovl[o].use
    /\ ovl[o].io \notin InFlight
    /\ ovl' = [ovl EXCEPT ![o].event = FALSE, ![o].io = "none"]
    /\ UNCHANGED <<inits, pool, elHandle, usbRefs, wait, held>>

\* Mutant: Cleanup_OvlPoolK without PoolHandle_Dec_UsbK.
OvlFreeKeepsUsb(p) ==
    /\ Idle
    /\ pool[p].use
    /\ \A o \in Contents(held[p]) : ovl[o].io \notin InFlight
    /\ ovl' = [o \in OvlSlots |-> IF ovl[o].pool = p THEN FreeOvl ELSE ovl[o]]
    /\ pool' = [pool EXCEPT ![p] = FreePool]
    /\ held' = [held EXCEPT ![p] = << >>]
    /\ UNCHANGED <<inits, elHandle, usbRefs, wait>>

\* OvlK_Free, when no handle of the pool is in use: Cleanup_OvlPoolK gives up
\* the handle of every element of MasterArray that has one, and Cleanup_OvlK
\* of the last of MasterListCount clears the lists.
OvlFree(p) ==
    /\ Idle
    /\ pool[p].use
    /\ \A o \in Contents(held[p]) : ovl[o].io \notin InFlight
    /\ LET els == {e \in Elements : e[1] = pool[p].array /\ elHandle[e] # NoOvl}
           dead == {o \in OvlSlots : ovl[o].use /\ \E e \in els : elHandle[e] = o}
           left == pool[p].count - Cardinality(dead)
       IN  /\ FreeUnused \/ left = 0
           /\ ovl' = [o \in OvlSlots |->
                         IF o \in dead THEN [ovl[o] EXCEPT !.use = FALSE, !.pool = NoPool]
                                       ELSE ovl[o]]
           /\ pool' = [pool EXCEPT ![p] =
                           IF left = 0 THEN FreePool
                           ELSE [@ EXCEPT !.use = FALSE, !.count = left]]
    /\ usbRefs' = usbRefs - 1
    /\ held' = [held EXCEPT ![p] = << >>]
    /\ UNCHANGED <<inits, elHandle, wait>>

-----------------------------------------------------------------------------
\* The application starts a transfer with an OverlappedK it acquired.
Submit(p, o) ==
    /\ Idle
    /\ o \in Contents(held[p]) /\ ovl[o].use
    /\ ovl[o].io = "none"
    /\ ovl' = [ovl EXCEPT ![o].io = "pending", ![o].event = FALSE]
    /\ UNCHANGED <<inits, pool, elHandle, usbRefs, wait, held>>

\* The driver completes a transfer.
IoDone(o, result) ==
    /\ ovl[o].io \in InFlight
    /\ ovl' = [ovl EXCEPT ![o].io = result, ![o].event = TRUE, ![o].blind = FALSE]
    /\ UNCHANGED <<inits, pool, elHandle, usbRefs, wait, held>>

-----------------------------------------------------------------------------
\* OvlK_Wait on a handle of the application; OvlK_WaitOrCancel and
\* OvlK_WaitAndRelease are the calls with the flags {4} and {1, 2, 4, 8}.
BeginWait(p, o, flags) ==
    /\ Idle
    /\ o \in Contents(held[p]) /\ ovl[o].use
    /\ ovl[o].io # "none"
    /\ wait' = [o |-> o, flags |-> flags, phase |-> "wait"]
    /\ UNCHANGED <<inits, pool, elHandle, ovl, usbRefs, held>>

\* OvlK_WaitOldest: the head of AcquiredList.
BeginWaitOldest(p, flags) ==
    /\ pool[p].use /\ pool[p].acquired # << >>
    /\ BeginWait(p, elHandle[Head(pool[p].acquired)], flags)

\* OvlK_Wait returns, after OvlK_Release if `release'.
EndWait(release, blind) ==
    /\ IF release THEN Release(wait.o, blind) ELSE UNCHANGED <<ovl, pool, held>>
    /\ wait' = NoWait
    /\ UNCHANGED <<inits, elHandle, usbRefs>>

GoTo(phase, flags) ==
    /\ wait' = [wait EXCEPT !.phase = phase, !.flags = flags]
    /\ UNCHANGED <<inits, pool, elHandle, usbRefs, held>>

\* The event is signalled and GetOverlappedResult has an answer.
WaitSignalled ==
    /\ wait.phase \in {"wait", "retry"}
    /\ ovl[wait.o].event /\ ovl[wait.o].io \notin InFlight
    /\ EndWait((IF ovl[wait.o].io = "ok" THEN ReleaseOnSuccess ELSE ReleaseOnFail) \in wait.flags,
               FALSE)

\* KOVL_WAIT_FLAG_ALERTABLE: an APC of the thread ends the wait with no action.
WaitAlerted ==
    /\ wait.phase = "wait"
    /\ EndWait(FALSE, FALSE)

\* WAIT_FAILED, as for an event that CreateEventA in o_Reuse could not make, or
\* any other result: OvlK_Wait takes the I/O for failed, and does not look at it.
WaitFailed ==
    /\ wait.phase \in {"wait", "retry"}
    /\ EndWait(ReleaseOnFail \in wait.flags, TRUE)

\* Mutant: KOVL_WAIT_FLAG_RELEASE_ON_TIMEOUT is looked at before the transfer is
\* cancelled.
WaitTimeoutReleases ==
    /\ wait.phase = "wait"
    /\ ~ovl[wait.o].event \/ ovl[wait.o].io \in InFlight
    /\ EndWait(wait.flags \cap ReleaseOnTimeout # {}, FALSE)

\* The time-out interval expires, or GetOverlappedResult says that the transfer
\* is not complete: cancel, or give up.  The interval has ended, so the transfer
\* may complete before it is cancelled.
WaitTimeout ==
    /\ wait.phase = "wait"
    /\ ~ovl[wait.o].event \/ ovl[wait.o].io \in InFlight
    /\ IF CancelOnTimeout \in wait.flags
       THEN GoTo("cancel", wait.flags) /\ UNCHANGED ovl
       ELSE EndWait(FALSE, FALSE)

\* CancelIoEx or CancelIo succeeds: the transfer will end, and is looked at again.
WaitCancel ==
    /\ wait.phase = "cancel"
    /\ ovl[wait.o].io \in InFlight
    /\ ovl' = [ovl EXCEPT ![wait.o].io = "cancelling"]
    /\ GoTo("retry", wait.flags \ {CancelOnTimeout})

\* It fails: the transfer has completed by now (ERROR_NOT_FOUND), or runs on after
\* some other error.  The event is set in either case.
WaitCancelFails ==
    /\ wait.phase = "cancel"
    /\ ovl' = [ovl EXCEPT ![wait.o].event = TRUE]
    /\ GoTo("giveUp", wait.flags)

\* The bits of RELEASE_ON_TIMEOUT are those of CANCEL_ON_TIMEOUT and one more, so
\* the test holds after every cancel that failed.
WaitGiveUp ==
    /\ wait.phase = "giveUp"
    /\ EndWait(wait.flags \cap ReleaseOnTimeout # {}, TRUE)

\* The second look, with a time-out of 0: WAIT_TIMEOUT becomes ERROR_CANCELLED.
WaitCancelled ==
    /\ wait.phase = "retry"
    /\ ~ovl[wait.o].event
    /\ SlowCancel
    /\ EndWait(ReleaseOnFail \in wait.flags, FALSE)

Next ==
    \/ \E p \in PoolSlots : \/ \E n \in 1 .. MaxCount : OvlInit(p, n)
                            \/ OvlInitFails(p)
                            \/ OvlFree(p)
                            \/ \E f \in Flags : BeginWaitOldest(p, FlagBits(f))
    \/ \E p \in PoolSlots, o \in OvlSlots :
           \/ OvlAcquire(p, o) \/ OvlRelease(p, o) \/ OvlReUse(p, o) \/ Submit(p, o)
           \/ \E f \in Flags : BeginWait(p, o, FlagBits(f))
    \/ \E o \in OvlSlots, result \in {"ok", "failed"} : IoDone(o, result)
    \/ WaitSignalled \/ WaitAlerted \/ WaitFailed \/ WaitTimeout
    \/ WaitCancel \/ WaitCancelFails \/ WaitGiveUp \/ WaitCancelled

Spec == Init /\ [][Next]_vars

-----------------------------------------------------------------------------
PoolType == [use : BOOLEAN, count : 0 .. MaxCount, array : 0 .. MaxInits,
             acquired : Seq(Elements), released : Seq(Elements)]
OvlType == [use : BOOLEAN, pool : PoolSlots \cup {NoPool}, link : Elements,
            isAcquired : BOOLEAN, event : BOOLEAN,
            io : {"none", "ok", "failed"} \cup InFlight, blind : BOOLEAN]

\* Every variable has its type; no list holds an element outside its array.
TypeOK ==
    /\ inits \in 0 .. MaxInits
    /\ \A p \in PoolSlots : pool[p] \in PoolType
    /\ elHandle \in [Elements -> OvlSlots \cup {NoOvl}]
    /\ ovl \in [OvlSlots -> OvlType]
    /\ usbRefs \in Int
    /\ wait.o \in OvlSlots \cup {NoOvl}
    /\ wait.phase \in {"none", "wait", "cancel", "retry", "giveUp"}
    /\ \A p \in PoolSlots : held[p] \in Seq(OvlSlots)

NoDuplicates(s) == \A i, j \in DOMAIN s : s[i] = s[j] => i = j

\* AcquiredList and ReleasedList of a live pool together hold every element of
\* its own MasterArray exactly once and nothing else: neither a slot that was
\* used before nor OvlK_Wait's many releases lose or duplicate an element.
PoolPartition ==
    \A p \in PoolSlots : pool[p].use =>
        /\ NoDuplicates(pool[p].acquired \o pool[p].released)
        /\ Contents(pool[p].acquired \o pool[p].released)
               = {<<pool[p].array, i>> : i \in 1 .. pool[p].count}

\* The handle of an element in a list of a live pool is a live slot of the OvlK
\* pool that points back at the element and the pool, and IsAcquired tells the
\* list; so no two elements, of one pool or of two, share a handle.
HandleLinks ==
    \A p \in PoolSlots : pool[p].use =>
        \A e \in Contents(pool[p].acquired \o pool[p].released) :
            LET o == elHandle[e]
            IN  IF o = NoOvl THEN e \notin Contents(pool[p].acquired)
                ELSE /\ ovl[o].use /\ ovl[o].pool = p /\ ovl[o].link = e
                     /\ ovl[o].isAcquired <=> e \in Contents(pool[p].acquired)

\* AcquiredList is what the application holds, oldest first: OvlK_WaitOldest
\* waits for the handle that was acquired longest ago.
AcquiredInOrder ==
    \A p \in PoolSlots : pool[p].use =>
        held[p] = [i \in DOMAIN pool[p].acquired |-> elHandle[pool[p].acquired[i]]]

\* A pool has at most one reference on its UsbK handle, and none after its
\* clean-up: no pool keeps a device open after it was freed.
NoUsbLeak == usbRefs <= Cardinality({p \in PoolSlots : pool[p].use})

\* Whatever the waits released, in whichever order, and whichever pool had the
\* slots before: the two lists share out the pool's elements, each element and
\* its handle name each other, AcquiredList is what the application holds, and
\* a pool that is gone keeps no device open.
PoolConsistent ==
    TypeOK /\ PoolPartition /\ HandleLinks /\ AcquiredInOrder /\ NoUsbLeak

\* OvlK_Wait: an OVERLAPPED goes back to a pool when its transfer has ended or
\* was cancelled.  Whatever the wait flags are, and whenever the transfer completes
\* during the wait, one with an untouched transfer in flight is in a ReleasedList,
\* where the next OvlK_Acquire would hand it out again, only if the last wait for
\* it could not be waited for or could not cancel.
NoReuseUncancelled ==
    \A p \in PoolSlots : pool[p].use =>
        \A e \in Contents(pool[p].released) :
            LET o == elHandle[e]
            IN  o # NoOvl /\ ovl[o].io = "pending" => ovl[o].blind

=============================================================================
