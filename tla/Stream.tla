------------------------------- MODULE Stream -------------------------------
(***************************************************************************)
(* A pipe stream of the user library (lusbk_queued_stream.c): StmK_Start,  *)
(* StmK_Stop, StmK_Free, StmK_Read and StmK_Write, and the stream's own    *)
(* thread, which submits the queued transfers, waits for them and hands    *)
(* them back.                                                              *)
(*                                                                         *)
(* A transfer goes Queued -> pendingList -> Finished (through FinishedTemp *)
(* when a caller has the Finished list locked), and a caller sends it back *)
(* to Queued with a user APC, or by itself while no thread runs.  On an IN *)
(* pipe it carries bytes from the device to StmK_Read, on an OUT pipe      *)
(* bytes from StmK_Write to the device.  Every byte is <<source, number>>, *)
(* numbered as its source (the device, or a caller) hands it in.           *)
(*                                                                         *)
(* The list of free OVERLAPPEDs keeps its links (prev, next): a completed  *)
(* OVERLAPPED is unlinked a second time (line 366), and what that does     *)
(* depends on links it has kept since it was unlinked for its submission.  *)
(***************************************************************************)
EXTENDS Integers, Sequences, FiniteSets, SequencesExt, Functions

CONSTANTS
    Users,                  \* threads that call StmK_Read or StmK_Write
    MaxPendingIO,           \* StmK_Init: number of OVERLAPPEDs
    MaxTransferSize,        \* StmK_Init: bytes in a transfer
    Setups,                 \* the streams and applications there are, see below
    MaxLength,              \* bound on the Length of a call
    MaxBytes                \* bound on the bytes the device sends, or the callers write

ASSUME InitAssumption ==    \* StmK_Init refuses other values
    MaxPendingIO \in Nat \ {0} /\ MaxTransferSize \in Nat \ {0}
ASSUME BoundAssumption == {MaxLength, MaxBytes} \subseteq Nat
\* A setup is the direction of PipeID, MaxPendingTransfers and Flags of
\* StmK_Init; may transfers, their submission and callbacks fail; the users
\* that make calls; and a bound on the calls of StmK_Start.
ASSUME SetupAssumption ==
    Setups \subseteq [pipe : {"IN", "OUT"}, transfers : {n \in Nat : n >= MaxPendingIO},
                      flags : SUBSET {"USE_TIMEOUT", "NO_PARTIAL_XFERS"},
                      failures : BOOLEAN, users : SUBSET Users, starts : Nat]

VARIABLES
    setup,          \* constant: the member of Setups
    state,          \* Thread.State
    thread,         \* where the stream thread is; "none" when there is none
    failed,         \* exitCode # ERROR_SUCCESS: the thread ends by itself
    noWaiting,      \* NoWaiting
    apcs,           \* user APCs of the thread: a transfer list, << >> for a stop
    apcCount,       \* APCTransferQueueCount
    queued, pending, finished, finishedTemp,    \* the four lists
    data,           \* bytes of each transfer: Public.Buffer, TransferLength
    ovls,           \* ovlList: head and the links of every OVERLAPPED
    lock,           \* owner of List.FinishedLock
    sem,            \* count of SemReady
    pc,             \* where each caller is
    call,           \* locals of StmK_Read and StmK_Write
    starts,         \* calls of StmK_Start
    freed,          \* StmK_Free has dropped the handle
    entered, left,  \* last byte of each source that went in, and came out
    lost,           \* history: transfers no list of the stream holds any more
    clean           \* history: no transfer or call has failed or been raced

threadVars == <<state, thread, failed, noWaiting, apcs, apcCount>>
lists == <<queued, pending, finished, finishedTemp>>
bytes == <<data, entered, left>>
callVars == <<pc, call, starts, freed>>
vars == <<setup, threadVars, lists, bytes, ovls, lock, sem, callVars, lost, clean>>

MaxPendingTransfers == setup.transfers
Xfers == 1 .. MaxPendingTransfers
Ovls == 1 .. MaxPendingIO
NULL == 0
Device == "device"
Controller == "controller"      \* the application thread that starts and stops
Sources == Users \cup {Device}
Free == "free"
NoCall == [taken |-> << >>, fails |-> FALSE, backup |-> NULL, saved |-> << >>]

ASSUME UserAssumption ==
    IsFiniteSet(Users) /\ {Device, Controller, Free} \cap Users = {}

Smaller(a, b) == IF a < b THEN a ELSE b
pipe == setup.pipe
HasSem == "USE_TIMEOUT" \in setup.flags
\* ReleaseSemaphore and a wait that took a count.
SemPlus(n) == IF HasSem THEN sem + n ELSE sem
-----------------------------------------------------------------------------
(* The list macros on ovlList (lusbk_linked_list.h).                       *)

EmptyOvls == [head |-> NULL, prev |-> [o \in Ovls |-> NULL],
              next |-> [o \in Ovls |-> NULL]]

DL_APPEND(l, o) ==
    IF l.head = NULL
    THEN [head |-> o, prev |-> [l.prev EXCEPT ![o] = o],
          next |-> [l.next EXCEPT ![o] = NULL]]
    ELSE LET tail == l.prev[l.head]
         IN  [head |-> l.head,
              prev |-> [l.prev EXCEPT ![o] = tail, ![l.head] = o],
              next |-> [[l.next EXCEPT ![tail] = o] EXCEPT ![o] = NULL]]

DL_PREPEND(l, o) ==
    [head |-> o,
     prev |-> IF l.head = NULL THEN [l.prev EXCEPT ![o] = o]
              ELSE [l.prev EXCEPT ![o] = l.prev[l.head], ![l.head] = o],
     next |-> [l.next EXCEPT ![o] = l.head]]

\* Unlinks o, whether or not o is in the list.
DL_DELETE(l, o) ==
    IF l.prev[o] = o THEN [l EXCEPT !.head = NULL]
    ELSE IF o = l.head
    THEN [l EXCEPT !.prev[l.next[o]] = l.prev[o], !.head = l.next[o]]
    ELSE LET following == IF l.next[o] # NULL THEN l.next[o] ELSE l.head
         IN  [l EXCEPT !.next[l.prev[o]] = l.next[o], !.prev[following] = l.prev[o]]
-----------------------------------------------------------------------------
(* StmK_Init leaves the stream stopped, its transfers queued (IN) or ready *)
(* for the writer (OUT).                                                   *)

Init ==
    /\ setup \in Setups
    /\ state = "STOPPED" /\ thread = "none" /\ failed = FALSE /\ noWaiting = FALSE
    /\ apcs = << >> /\ apcCount = 0
    /\ LET all == [i \in Xfers |-> i]
       IN  /\ queued = IF pipe = "IN" THEN all ELSE << >>
           /\ finished = IF pipe = "OUT" THEN all ELSE << >>
    /\ pending = << >> /\ finishedTemp = << >>
    /\ data = [x \in Xfers |-> << >>]
    /\ ovls = EmptyOvls /\ lock = Free
    /\ sem = IF HasSem /\ pipe = "OUT" THEN MaxPendingTransfers ELSE 0
    /\ pc = [c \in Users \cup {Controller} |-> "idle"]
    /\ call = [c \in Users |-> NoCall]
    /\ starts = 0 /\ freed = FALSE
    /\ entered = [s \in Sources |-> 0] /\ left = [s \in Sources |-> 0]
    /\ lost = {} /\ clean = TRUE

Goto(c, where) == pc' = [pc EXCEPT ![c] = where]
At(c, where) == pc[c] = where

BytesOf(list) == FlattenSeq([i \in DOMAIN list |-> data[list[i]]])
Prefix(list, n) == SubSeq(list, 1, n)
Suffix(list, n) == SubSeq(list, Len(list) - n + 1, Len(list))
Source(b) == b[1]
Number(b) == b[2]
\* `left` once these bytes of one source are out.
Out(bs) == IF bs = << >> THEN left
           ELSE [left EXCEPT ![Source(Last(bs))] = Number(Last(bs))]
-----------------------------------------------------------------------------
(* StmK_Read and StmK_Write.                                               *)

\* mStm_SpinLockForTransferRequest starts with SemReady, or with a look at
\* Finished, before it takes the lock.
Call(c) ==
    /\ At(c, "idle") /\ c \in setup.users /\ ~freed
    /\ state \in {"STOPPED", "STARTED"}
    /\ HasSem \/ finished # << >>
    /\ Goto(c, IF HasSem THEN "sem" ELSE "lock")
    /\ UNCHANGED <<setup, threadVars, lists, bytes, ovls, lock, sem, call, starts, freed,
                   lost, clean>>

\* Every way a call returns.
Return(c) == Goto(c, "idle") /\ call' = [call EXCEPT ![c] = NoCall]

TakeSem(c) ==
    /\ At(c, "sem") /\ sem > 0
    /\ sem' = sem - 1 /\ Goto(c, "lock")
    /\ UNCHANGED <<setup, threadVars, lists, bytes, ovls, lock, call, starts, freed,
                   lost, clean>>

SemTimeout(c) ==
    /\ At(c, "sem") /\ sem = 0
    /\ Return(c)
    /\ UNCHANGED <<setup, threadVars, lists, bytes, ovls, lock, sem, starts, freed,
                   lost, clean>>

\* Another caller has emptied the list.
NoneReady(c) ==
    /\ At(c, "lock") /\ lock = Free /\ finished = << >>
    /\ sem' = SemPlus(1) /\ Return(c)
    /\ UNCHANGED <<setup, threadVars, lists, bytes, ovls, lock, starts, freed, lost, clean>>

\* The elements of Finished the loop looks at: until n bytes are served, and
\* each after the first only with a count of the semaphore.
Looked(n) ==
    LET limit == IF HasSem THEN Smaller(sem + 1, Len(finished)) ELSE Len(finished)
        Room(m) == IF pipe = "IN" THEN Len(BytesOf(Prefix(finished, m))) ELSE m * MaxTransferSize
        enough == {m \in 1 .. limit : Room(m) >= n}
    IN  IF enough = {} THEN limit ELSE Min(enough)

\* What the loop leaves in the call's locals; `fails` is the outcome of
\* mStm_CheckPartialTransfer, `split` a transfer read in part.
Locals(taken, missing, split) ==
    [taken |-> taken, fails |-> missing > 0 /\ "NO_PARTIAL_XFERS" \in setup.flags,
     backup |-> split, saved |-> IF split = NULL THEN << >> ELSE data[split]]

\* The loop of StmK_Read, with the lock held.  A transfer with bytes left over
\* stays at the head of Finished.
TakeBytes(c, n) ==
    LET m == Looked(n)
        ready == BytesOf(Prefix(finished, m))
        got == Prefix(ready, Smaller(n, Len(ready)))
        rest == Suffix(ready, Len(ready) - Len(got))
        whole == IF rest = << >> THEN m ELSE m - 1
        split == IF rest = << >> THEN NULL ELSE finished[m]
    IN  /\ finished' = Suffix(finished, Len(finished) - whole)
        /\ sem' = SemPlus(1 - whole)
        /\ data' = IF split = NULL THEN data ELSE [data EXCEPT ![split] = rest]
        /\ call' = [call EXCEPT ![c] = Locals(Prefix(finished, whole), n - Len(got),
                                              IF whole = 0 THEN NULL ELSE split)]
        /\ left' = Out(got)
        /\ UNCHANGED entered

Written == MapThenSumSet(LAMBDA u : entered[u], Users)

\* The loop of StmK_Write: the next transfers are filled with the caller's bytes.
PutBytes(c, n) ==
    LET m == Looked(n)
        given == Smaller(n, m * MaxTransferSize)
        Piece(i) == [j \in 1 .. Smaller(MaxTransferSize, given - (i - 1) * MaxTransferSize)
                        |-> <<c, entered[c] + (i - 1) * MaxTransferSize + j>>]
        taken == Prefix(finished, m)
    IN  /\ Written + n <= MaxBytes
        /\ finished' = Suffix(finished, Len(finished) - m)
        /\ sem' = SemPlus(1 - m)
        /\ data' = [x \in Xfers |-> IF x \in Range(taken)
                                    THEN Piece(CHOOSE i \in 1 .. m : taken[i] = x) ELSE data[x]]
        /\ call' = [call EXCEPT ![c] = Locals(taken, n - given, NULL)]
        /\ entered' = [entered EXCEPT ![c] = @ + given]
        /\ UNCHANGED left

Take(c) ==
    /\ At(c, "lock") /\ lock = Free /\ finished # << >>
    /\ \E n \in 1 .. MaxLength : IF pipe = "IN" THEN TakeBytes(c, n) ELSE PutBytes(c, n)
    /\ lock' = c /\ Goto(c, "taken")
    /\ UNCHANGED <<setup, threadVars, queued, pending, finishedTemp, ovls, starts, freed,
                   lost, clean>>

\* mSpin_Release, mStm_CheckPartialTransfer, and the test of Thread.State in
\* mStm_QueueTransferList.
Unlock(c) ==
    /\ At(c, "taken")
    /\ lock' = Free
    /\ Goto(c, IF call[c].fails THEN "error"
               ELSE IF call[c].taken # << >> /\ state = "STARTED" THEN "apc" ELSE "append")
    /\ UNCHANGED <<setup, threadVars, lists, bytes, ovls, sem, call, starts, freed, lost, clean>>

\* A transfer that has been read holds nothing of interest any more.
Recycle(list) ==
    data' = IF pipe = "IN" THEN [x \in Xfers |-> IF x \in Range(list) THEN << >> ELSE data[x]]
            ELSE data

\* QueueUserAPC fails when the thread has ended.
QueueTransferAPC(c) ==
    /\ At(c, "apc")
    /\ IF thread # "none"
       THEN /\ apcs' = Append(apcs, call[c].taken) /\ Recycle(call[c].taken)
            /\ call' = [call EXCEPT ![c] = NoCall] /\ Goto(c, "inc")
       ELSE UNCHANGED <<apcs, data, call>> /\ Goto(c, "error")
    /\ UNCHANGED <<setup, state, thread, failed, noWaiting, apcCount, lists, entered, left, ovls,
                   lock, sem, starts, freed, lost, clean>>

IncApcCount(c) ==
    /\ At(c, "inc")
    /\ apcCount' = apcCount + 1 /\ Return(c)
    /\ UNCHANGED <<setup, state, thread, failed, noWaiting, apcs, lists, bytes, ovls, lock, sem,
                   starts, freed, lost, clean>>

\* Nothing protects Queued here: a thread that is starting or stopping, or
\* another caller, may be using it, and then the elements can be lost.
AppendDirect(c) ==
    LET taken == call[c].taken
        raced == taken # << >> /\ (thread # "none" \/ \E d \in Users \ {c} : At(d, "append"))
    IN  /\ At(c, "append")
        /\ \/ queued' = queued \o taken /\ UNCHANGED lost
           \/ raced /\ UNCHANGED queued /\ lost' = lost \cup Range(taken)
        /\ clean' = (clean /\ ~raced)
        /\ Recycle(taken) /\ Return(c)
        /\ UNCHANGED <<setup, threadVars, pending, finished, finishedTemp, entered, left, ovls,
                       lock, sem, starts, freed>>

\* The Error: label.  The transfers go back one by one to the head of Finished.
Restore(c) ==
    LET k == call[c]
    IN  /\ At(c, "error") /\ lock = Free
        /\ finished' = Reverse(k.taken) \o finished
        /\ data' = IF k.backup # NULL THEN [data EXCEPT ![k.backup] = k.saved] ELSE data
        /\ sem' = SemPlus(Len(k.taken))
        /\ clean' = FALSE
        /\ lock' = c /\ Goto(c, "restored") /\ call' = [call EXCEPT ![c] = NoCall]
        /\ UNCHANGED <<setup, threadVars, queued, pending, finishedTemp, entered, left, ovls,
                       starts, freed, lost>>

UnlockRestored(c) ==
    /\ At(c, "restored")
    /\ lock' = Free /\ Return(c)
    /\ UNCHANGED <<setup, threadVars, lists, bytes, ovls, sem, starts, freed, lost, clean>>
-----------------------------------------------------------------------------
(* StmK_Start, StmK_Stop and StmK_Free, by one application thread.         *)

\* Stm_Create_Thread and ResumeThread are part of the step: the caller of
\* StmK_Start does nothing the others see in between.
StmK_Start ==
    /\ At(Controller, "idle") /\ ~freed /\ starts < setup.starts
    /\ state = "STOPPED" /\ thread = "none"
    /\ state' = "STARTING" /\ thread' = "begin"
    /\ starts' = starts + 1 /\ Goto(Controller, "starting")
    /\ UNCHANGED <<setup, failed, noWaiting, apcs, apcCount, lists, bytes, ovls, lock, sem,
                   call, freed, lost, clean>>

Started ==
    /\ At(Controller, "starting") /\ state = "STARTED"
    /\ Goto(Controller, "idle")
    /\ UNCHANGED <<setup, threadVars, lists, bytes, ovls, lock, sem, call, starts, freed,
                   lost, clean>>

\* Stm_StopInternal, for StmK_Stop or for StmK_Free, after which the
\* application makes no call on the stream.
StopInternal ==
    /\ At(Controller, "idle") /\ ~freed
    /\ state = "STARTED"
    /\ state' = "STOPPING" /\ Goto(Controller, "stopapc")
    /\ freed' \in BOOLEAN
    /\ UNCHANGED <<setup, thread, failed, noWaiting, apcs, apcCount, lists, bytes, ovls, lock,
                   sem, call, starts, lost, clean>>

\* Stm_StopInternal has returned, to StmK_Stop or to StmK_Free.
StopReturns == Goto(Controller, IF freed THEN "freed" ELSE "idle")

\* mutant: no APC wakes the thread
StopSilently ==
    /\ At(Controller, "stopapc")
    /\ IF thread = "none" THEN StopReturns /\ UNCHANGED apcs
       ELSE Goto(Controller, "stopping") /\ UNCHANGED apcs
    /\ UNCHANGED <<setup, state, thread, failed, noWaiting, apcCount, lists, bytes, ovls, lock,
                   sem, call, starts, freed, lost, clean>>

\* QueueUserAPC(Stm_StopAPC) fails when the thread has ended already.
QueueStopAPC ==
    /\ At(Controller, "stopapc")
    /\ IF thread = "none" THEN StopReturns /\ UNCHANGED apcs
       ELSE Goto(Controller, "stopping") /\ apcs' = Append(apcs, << >>)
    /\ UNCHANGED <<setup, state, thread, failed, noWaiting, apcCount, lists, bytes, ovls, lock,
                   sem, call, starts, freed, lost, clean>>

\* mutant: nobody waits for the thread to end
StoppedEarly ==
    /\ At(Controller, "stopping")
    /\ StopReturns
    /\ UNCHANGED <<setup, threadVars, lists, bytes, ovls, lock, sem, call, starts, freed,
                   lost, clean>>

Stopped ==
    /\ At(Controller, "stopping") /\ state = "STOPPED"
    /\ StopReturns
    /\ UNCHANGED <<setup, threadVars, lists, bytes, ovls, lock, sem, call, starts, freed,
                   lost, clean>>

\* StmK_Free of a stream that Stm_StopInternal does not find started: it goes
\* on and drops the references.
FreeUnstarted ==
    /\ At(Controller, "idle") /\ ~freed /\ state # "STARTED"
    /\ freed' = TRUE /\ Goto(Controller, "freed")
    /\ UNCHANGED <<setup, threadVars, lists, bytes, ovls, lock, sem, call, starts, lost, clean>>

Control == StmK_Start \/ Started \/ StopInternal \/ QueueStopAPC \/ Stopped \/ FreeUnstarted
-----------------------------------------------------------------------------
(* The stream thread: Stm_ThreadProc.                                      *)

\* An alertable wait runs every APC that is queued.
RunApcs ==
    /\ queued' = queued \o FlattenSeq(apcs)
    /\ apcCount' = apcCount - Cardinality({i \in DOMAIN apcs : apcs[i] # << >>})
    /\ apcs' = << >>

\* mutant: the semaphore gets no count for FinishedTemp
SynchronizeUncounted(more) ==
    /\ finished' = finished \o finishedTemp \o more
    /\ sem' = SemPlus(Len(more))
    /\ finishedTemp' = << >>

\* mutant: FinishedTemp comes after the transfer that has just ended
SynchronizeLate(more) ==
    /\ finished' = finished \o more \o finishedTemp
    /\ sem' = SemPlus(Len(finishedTemp \o more))
    /\ finishedTemp' = << >>

\* Stm_SynchronizeFinishedList, with the lock free: FinishedTemp and then the
\* transfers of `more` go to Finished.
SynchronizeFinishedList(more) ==
    /\ finished' = finished \o finishedTemp \o more
    /\ sem' = SemPlus(Len(finishedTemp \o more))
    /\ finishedTemp' = << >>

\* APCs queued before the thread runs are run as it begins.
BeginApcs ==
    /\ thread = "begin" /\ apcs # << >>
    /\ RunApcs
    /\ UNCHANGED <<setup, state, thread, failed, noWaiting, pending, finished, finishedTemp,
                   bytes, ovls, lock, sem, callVars, lost, clean>>

\* Where the loop goes on with these lists: to submit a transfer
\* (Stm_Thread_ProcessQueued), to wait for one, or to sleep when none is
\* pending (Stm_Thread_ProcessPending).
NextPlace(free, waiting, submitted) ==
    IF free.head # NULL /\ waiting # << >> THEN "queued"
    ELSE IF submitted # << >> THEN "pending" ELSE "sleep"

\* Stm_Thread_Alloc_Ovl.
AllOvls ==
    LET upto[o \in 0 .. MaxPendingIO] ==
            IF o = 0 THEN EmptyOvls ELSE DL_APPEND(upto[o - 1], o)
    IN upto[MaxPendingIO]

\* The Done: label.
GoDone == state' = "STOPPING" /\ thread' = "sync"

Begin ==
    /\ thread = "begin" /\ apcs = << >>
    /\ \/ thread' = "loop" /\ state' = "STARTED" /\ ovls' = AllOvls /\ UNCHANGED failed
       \/ setup.failures /\ GoDone /\ failed' = TRUE /\ UNCHANGED ovls
    /\ UNCHANGED <<setup, noWaiting, apcs, apcCount, lists, bytes, lock, sem, callVars,
                   lost, clean>>

\* The loop's condition, and the attempt to empty FinishedTemp.
Loop ==
    /\ thread = "loop"
    /\ IF state # "STARTED" \/ failed
       THEN GoDone /\ UNCHANGED <<finished, finishedTemp, sem>>
       ELSE /\ thread' = NextPlace(ovls, queued, pending)
            /\ IF finishedTemp # << >> /\ lock = Free THEN SynchronizeFinishedList(<< >>)
               ELSE UNCHANGED <<finished, finishedTemp, sem>>
            /\ UNCHANGED state
    /\ UNCHANGED <<setup, failed, noWaiting, apcs, apcCount, queued, pending, bytes,
                   ovls, lock, callVars, lost, clean>>

\* Stm_Thread_ProcessQueued.  A read's TransferLength is reset to the buffer's size.
Submit ==
    LET o == ovls.head
    IN  /\ thread = "queued"
        /\ queued' = Tail(queued)
        /\ ovls' = DL_DELETE(ovls, o)
        /\ pending' = Append(pending, [xfer |-> Head(queued), ovl |-> o, io |-> "flying"])
        /\ data' = IF pipe = "IN" THEN [data EXCEPT ![Head(queued)] = << >>] ELSE data
        /\ thread' = NextPlace(ovls', queued', pending')
        /\ UNCHANGED <<setup, state, failed, noWaiting, apcs, apcCount, finished, finishedTemp,
                       entered, left, lock, sem, callVars, lost, clean>>

\* mutant: the transfer is not put back
SubmitFailsAway ==
    /\ setup.failures /\ thread = "queued"
    /\ ovls' = DL_PREPEND(DL_DELETE(ovls, ovls.head), ovls.head)
    /\ queued' = Tail(queued) /\ failed' = TRUE /\ GoDone
    /\ UNCHANGED <<setup, noWaiting, apcs, apcCount, pending, finished, finishedTemp, bytes,
                   lock, sem, callVars, lost, clean>>

SubmitFails ==
    /\ setup.failures /\ thread = "queued"
    /\ ovls' = DL_PREPEND(DL_DELETE(ovls, ovls.head), ovls.head)
    /\ failed' = TRUE /\ GoDone
    /\ UNCHANGED <<setup, noWaiting, apcs, apcCount, lists, bytes, lock, sem, callVars,
                   lost, clean>>

\* The end of an alertable wait by an APC.
WakeUp ==
    /\ apcs # << >>
    /\ \/ thread \in {"sleep", "pending"} /\ thread' = "loop"
       \/ thread = "drainpending" /\ ~noWaiting /\ thread' = "drain"
       \/ thread = "drain" /\ pending = << >> /\ apcCount > 0 /\ UNCHANGED thread
    /\ RunApcs
    /\ UNCHANGED <<setup, state, failed, noWaiting, pending, finished, finishedTemp, bytes,
                   ovls, lock, sem, callVars, lost, clean>>

\* WAIT_TIMEOUT: at once while FinishedTemp waits, after TimeoutCancelMS in the
\* thread's last phase, and then CancelIo ends what is still in flight.
WaitTimeout ==
    /\ pending # << >> /\ Head(pending).io = "flying"
    /\ \/ /\ thread = "pending" /\ finishedTemp # << >>
          /\ thread' = "loop" /\ UNCHANGED <<noWaiting, pending, clean>>
       \/ /\ thread = "drainpending"
          /\ thread' = "drain" /\ noWaiting' = TRUE /\ clean' = (clean /\ pipe = "IN")
          /\ pending' = [i \in DOMAIN pending |->
                            IF pending[i].io = "flying" THEN [pending[i] EXCEPT !.io = "cancelled"]
                            ELSE pending[i]]
    /\ UNCHANGED <<setup, state, failed, apcs, apcCount, queued, finished, finishedTemp, bytes,
                   ovls, lock, sem, callVars, lost>>

\* The transfer goes to Finished, or to FinishedTemp while a caller has the lock.
Finish(x) ==
    /\ IF lock = Free THEN SynchronizeFinishedList(<<x>>)
       ELSE finishedTemp' = Append(finishedTemp, x) /\ UNCHANGED <<finished, sem>>
    /\ data' = IF pipe = "OUT" THEN [data EXCEPT ![x] = << >>] ELSE data
    /\ UNCHANGED queued

\* BeforeComplete answered KSTM_COMPLETE_RESULT_INVALID.
Requeue(x) ==
    /\ setup.failures
    /\ queued' = Append(queued, x)
    /\ UNCHANGED <<finished, finishedTemp, sem, data>>

\* Stm_Thread_ProcessPending once the oldest transfer has ended.  The transfer's
\* error, or a callback's answer, ends the thread's main loop.
Complete ==
    LET e == Head(pending)
    IN  /\ thread \in {"pending", "drainpending"} /\ pending # << >> /\ e.io # "flying"
        /\ pending' = Tail(pending)
        /\ ovls' = DL_APPEND(DL_DELETE(ovls, e.ovl), e.ovl)
        /\ \/ Finish(e.xfer) /\ UNCHANGED clean
           \/ Requeue(e.xfer) /\ clean' = FALSE
        /\ IF thread = "pending"
           THEN thread' = "loop" /\ failed' \in (IF setup.failures THEN BOOLEAN ELSE {FALSE})
           ELSE thread' = "drain" /\ UNCHANGED failed
        /\ UNCHANGED <<setup, state, noWaiting, apcs, apcCount, entered, left, lock, callVars,
                       lost>>

Sync ==
    /\ thread = "sync" /\ lock = Free
    /\ SynchronizeFinishedList(<< >>)
    /\ thread' = "drain"
    /\ UNCHANGED <<setup, state, failed, noWaiting, apcs, apcCount, queued, pending, bytes,
                   ovls, lock, callVars, lost, clean>>

\* SleepEx(0, TRUE) before the next pending transfer is waited for.
DrainNext ==
    /\ thread = "drain" /\ pending # << >>
    /\ RunApcs /\ thread' = "drainpending"
    /\ UNCHANGED <<setup, state, failed, noWaiting, pending, finished, finishedTemp, bytes,
                   ovls, lock, sem, callVars, lost, clean>>

Drained ==
    /\ thread = "drain" /\ pending = << >> /\ apcCount <= 0
    /\ thread' = "ending"
    /\ UNCHANGED <<setup, state, failed, noWaiting, apcs, apcCount, lists, bytes, ovls, lock,
                   sem, callVars, lost, clean>>

\* The thread ends; an APC that is still queued is never run.
End ==
    LET dropped == Range(FlattenSeq(apcs))
    IN  /\ thread = "ending"
        /\ state' = "STOPPED" /\ thread' = "none" /\ apcs' = << >> /\ ovls' = EmptyOvls
        /\ lost' = lost \cup dropped
        /\ clean' = (clean /\ (pipe = "OUT" => dropped = {}))
        /\ failed' = FALSE /\ noWaiting' = FALSE
        /\ UNCHANGED <<setup, apcCount, lists, bytes, lock, sem, callVars>>

Thread ==
    \/ BeginApcs
    \/ Begin
    \/ Loop
    \/ Submit
    \/ SubmitFails
    \/ WakeUp
    \/ WaitTimeout
    \/ Complete
    \/ Sync
    \/ DrainNext
    \/ Drained
    \/ End
-----------------------------------------------------------------------------
(* The device and the driver, as the stream uses them (external): the      *)
(* transfers of a pipe end in the order they were submitted.               *)

FirstFlying(i) ==
    /\ i \in DOMAIN pending /\ pending[i].io = "flying"
    /\ \A j \in 1 .. i - 1 : pending[j].io # "flying"

DeviceMoves(x) ==
    \/ /\ pipe = "IN"
       /\ \E n \in 0 .. Smaller(MaxTransferSize, MaxBytes - entered[Device]) :
             /\ data' = [data EXCEPT ![x] = [k \in 1 .. n |-> <<Device, entered[Device] + k>>]]
             /\ entered' = [entered EXCEPT ![Device] = @ + n]
       /\ UNCHANGED left
    \/ /\ pipe = "OUT"
       /\ left' = Out(data[x])
       /\ UNCHANGED <<data, entered>>

DeviceCompletes ==
    \E i \in DOMAIN pending :
       /\ FirstFlying(i)
       /\ pending' = [pending EXCEPT ![i].io = "done"]
       /\ DeviceMoves(pending[i].xfer)
       /\ UNCHANGED <<setup, threadVars, queued, finished, finishedTemp, ovls, lock, sem,
                      callVars, lost, clean>>

DeviceFails ==
    \E i \in DOMAIN pending :
       /\ setup.failures /\ FirstFlying(i)
       /\ pending' = [pending EXCEPT ![i].io = "failed"] /\ clean' = FALSE
       /\ UNCHANGED <<setup, threadVars, queued, finished, finishedTemp, bytes, ovls, lock, sem,
                      callVars, lost>>
-----------------------------------------------------------------------------
Continue(c) ==
    \/ TakeSem(c) \/ SemTimeout(c) \/ NoneReady(c) \/ Take(c) \/ Unlock(c)
    \/ QueueTransferAPC(c) \/ IncApcCount(c) \/ AppendDirect(c) \/ Restore(c)
    \/ UnlockRestored(c)

Next ==
    \/ Thread
    \/ Control
    \/ DeviceCompletes
    \/ DeviceFails
    \/ \E c \in Users : Call(c) \/ Continue(c)

Spec == Init /\ [][Next]_vars

\* The scheduler runs the stream thread, the thread that stops it, and a caller
\* that holds the lock or has yet to count its APC; timeouts expire.
Release(c) == Unlock(c) \/ UnlockRestored(c) \/ IncApcCount(c)

FairSpec ==
    /\ Spec
    /\ WF_vars(Thread)
    /\ WF_vars(QueueStopAPC \/ Stopped)
    /\ WF_vars(\E c \in Users : Release(c))
-----------------------------------------------------------------------------
(* Properties.                                                             *)

ListOf(S) == UNION {[1 .. n -> S] : n \in 0 .. MaxPendingTransfers}

\* Every variable has its type, and a caller is in the lock exactly between
\* mSpin_Acquire and mSpin_Release.
TypeOK ==
    /\ setup \in Setups
    /\ state \in {"STOPPED", "STARTED", "STARTING", "STOPPING"}
    /\ thread \in {"none", "begin", "loop", "queued", "pending", "sleep", "sync",
                   "drain", "drainpending", "ending"}
    /\ failed \in BOOLEAN /\ noWaiting \in BOOLEAN /\ apcCount \in Int
    /\ \A l \in {queued, finished, finishedTemp} \cup Range(apcs) : l \in ListOf(Xfers)
    /\ \A i \in DOMAIN pending :
          pending[i] \in [xfer : Xfers, ovl : Ovls, io : {"flying", "done", "failed", "cancelled"}]
    /\ \A x \in Xfers : Len(data[x]) <= MaxTransferSize
    /\ ovls.head \in Ovls \cup {NULL}
    /\ \A o \in Ovls : {ovls.prev[o], ovls.next[o]} \subseteq 0 .. MaxPendingIO
    /\ sem \in 0 .. MaxPendingTransfers
    /\ lock \in Users \cup {Free}
    /\ \A c \in Users : (lock = c) <=> pc[c] \in {"taken", "restored"}

XfersOf(l) == [i \in DOMAIN l |-> l[i].xfer]
\* Every transfer the stream itself knows of, wherever it is.
Listed == queued \o XfersOf(pending) \o finished \o finishedTemp \o FlattenSeq(apcs)
Taken(c) == Range(call[c].taken)

\* Whatever callers, the thread and its stops do, every transfer is in one
\* list, one APC or one call, unless it is one of the lost ones.
TransferConserved ==
    LET taken == UNION {Taken(c) : c \in Users}
    IN  /\ IsInjective(Listed) /\ \A c \in Users : IsInjective(call[c].taken)
        /\ \A c, d \in Users : c # d => Taken(c) \cap Taken(d) = {}
        /\ Range(Listed) \cap taken = {} /\ (Range(Listed) \cup taken) \cap lost = {}
        /\ Range(Listed) \cup taken \cup lost = Xfers

\* The semaphore counts the finished transfers that no caller has claimed.
SemExact ==
    HasSem => sem + Cardinality({c \in Users : At(c, "lock")}) = Len(finished)

\* No transfer is lost or in two places, and the semaphore counts those that
\* wait for a caller, across FinishedTemp, partial reads and failed claims.
StreamConsistent == TypeOK /\ TransferConserved /\ SemExact

\* The bytes transfer x carries for source s.
Carried(s, x) == IF data[x] # << >> /\ Source(Head(data[x])) = s THEN data[x] ELSE << >>
CarriedBy(s, list) == FlattenSeq([i \in DOMAIN list |-> Carried(s, list[i])])
Flying(s) == FlattenSeq([i \in DOMAIN pending |->
                            IF pending[i].io = "flying" THEN Carried(s, pending[i].xfer) ELSE << >>])

\* The bytes of source s on their way through the stream, oldest first.
OnTheWay(s) ==
    IF pipe = "IN" THEN CarriedBy(s, finished \o finishedTemp \o XfersOf(pending))
    ELSE Flying(s) \o CarriedBy(s, queued \o FlattenSeq(apcs)
                                       \o IF s \in Users THEN call[s].taken ELSE << >>)

\* StmK_Read hands out the device's bytes, and the device gets each writer's,
\* in order and without a gap, across FinishedTemp, partial reads, short
\* transfers, stops and restarts, as long as no call or transfer has failed.
InOrder ==
    clean => \A s \in Sources :
        OnTheWay(s) = [i \in 1 .. entered[s] - left[s] |-> <<s, left[s] + i>>]

\* StmK_Free: the stream is stopped before its resources are freed, unless the
\* thread was ending by itself.
FreedIsStopped == At(Controller, "freed") /\ ~failed => thread = "none"

\* StmK_Stop returns, unless a transfer has been lost.
StopEnds == At(Controller, "stopping") ~> (~At(Controller, "stopping") \/ lost # {})
=============================================================================
