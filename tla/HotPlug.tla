------------------------------- MODULE HotPlug -------------------------------
(***************************************************************************)
(* Hot-plug monitoring (lusbk_hot_plug.c).  The first HotK_Init of the     *)
(* process builds a list of the devices present and starts the hot thread, *)
(* which creates a window and serves messages: those HotK_Init and         *)
(* HotK_Free send (and wait for), those it posts to itself, device events  *)
(* of the system, and its timers.  The last HotK_Free destroys the window, *)
(* and the thread ends; a HotK_Init that follows may start the next one    *)
(* before it has.                                                          *)
(*                                                                         *)
(* A message is handled in one step, and so is what a call does between    *)
(* two accesses to state others write: the counters, Hwnd, ThreadHandle    *)
(* and the queue.  The device list is that of module DeviceList, reduced   *)
(* to what a sync leaves in it: whether a device is listed, Connected, and *)
(* its SyncFlags.  Callbacks make no HotK calls.                           *)
(***************************************************************************)
EXTENDS Integers, Sequences, FiniteSets, SequencesExt

CONSTANTS
    Apps,           \* application threads
    Devices,        \* device interfaces, one device instance each
    Handles,        \* HotK handles, each given out once
    Pattern,        \* PatternMatch of each handle: the devices it selects
    PlugAll,        \* handles with KHOT_FLAG_PLUG_ALL_ON_INIT
    PassDupe,       \* handles with KHOT_FLAG_PASS_DUPE_INSTANCE
    NoHandle,       \* no handle
    MaxItems,       \* slots of the HotK pool
    MaxEvents,      \* bound on events
    StartFails,     \* may the device list or the hot thread fail to be made?
    WindowFails,    \* may the window fail to be made?
    CallsAfterEnd   \* does the application call HotK_Init again after a start
                    \* that failed or after HotK_FreeAll?

ASSUME HandleAssumption ==
    /\ IsFiniteSet(Apps) /\ IsFiniteSet(Handles) /\ NoHandle \notin Handles
    /\ Pattern \in [Handles -> SUBSET Devices]
    /\ PlugAll \subseteq Handles /\ PassDupe \subseteq Handles
ASSUME BoundAssumption == MaxItems \in Nat \ {0} /\ MaxEvents \in Nat
ASSUME SwitchAssumption ==
    {StartFails, WindowFails, CallsAfterEnd} \subseteq BOOLEAN

VARIABLES
    lockCount,      \* HotLockCount
    initCount,      \* HotInitCount
    hwnd,           \* Hwnd # NULL
    threadHandle,   \* ThreadHandle # NULL
    heap,           \* does the heap of the latest start exist?
    active,         \* does ActiveHeap name it?
    hasList,        \* DeviceList # NULL
    list,           \* the master device list
    items,          \* Items: the handles, oldest first
    broadcasts,     \* devices whose interface is registered in BroadcastList
    timers,         \* timers of the window that are set
    posted,         \* handles of posted WM_USER_NOTIFY_HOT_HANDLE messages
    thread,         \* what the hot thread is doing
    older,          \* hot threads of earlier starts that have not ended, by the
                    \* handle of the HotK_Init that found them
    sent,           \* messages sent to the window and not yet handled
    news,           \* device events the system has not yet delivered
    pc, arg, lockCnt, result,   \* of each application thread
    present,        \* devices that are plugged in
    missed,         \* history: devices that came or went between the making of
                    \* the list and of the window
    events,         \* arrivals and removals so far, and calls of HotK_Init that
                    \* did not wait for the end of the last hot thread
    used,           \* handles given out so far, or about to be
    owned,          \* history: handles the application has and has not freed
    told,           \* history: devices last reported as added to each handle of
                    \* Followed
    ended,          \* history: a start failed or HotK_FreeAll was called
    empty,          \* history: a HotK_Init returned TRUE without a handle
    upset           \* history: an older hot thread has touched what belongs to a
                    \* later start

devList == <<hasList, list>>
window == <<items, broadcasts, timers, posted>>
old == <<older, active, upset>>
calls == <<pc, arg, lockCnt, result>>
world == <<present, missed, events, news>>
history == <<used, owned, told, ended, empty>>
vars == <<lockCount, initCount, hwnd, threadHandle, heap, old, devList, window, thread,
          sent, calls, world, history>>

Timers == {"arrival", "nodes", "removal"}

\* Handles that are to hear of every device there is.
Followed == PlugAll \cap PassDupe

NoThread == [at |-> "none", posted |-> 0, removals |-> {}, mine |-> FALSE]

Unlisted == [state |-> "unlisted", flag |-> "none"]
EmptyList == [d \in Devices |-> Unlisted]

Init ==
    /\ lockCount = 0 /\ initCount = 0
    /\ hwnd = FALSE /\ threadHandle = FALSE /\ heap = FALSE
    /\ older = [h \in Handles |-> NoThread] /\ active = FALSE /\ upset = FALSE
    /\ hasList = FALSE /\ list = EmptyList
    /\ items = << >> /\ broadcasts = {} /\ timers = {} /\ posted = << >>
    /\ thread = "none" /\ sent = << >> /\ news = << >>
    /\ pc = [a \in Apps |-> "idle"]
    /\ arg = [a \in Apps |-> NoHandle]
    /\ lockCnt = [a \in Apps |-> 0]
    /\ result = [a \in Apps |-> "none"]
    /\ present \in SUBSET Devices /\ missed = {} /\ events = 0
    /\ used = {} /\ owned = {} /\ told = [h \in Followed |-> {}]
    /\ ended = FALSE /\ empty = FALSE

ItemSet == Range(items)

-----------------------------------------------------------------------------
(***************************************************************************)
(* The device list and the notifications.                                  *)
(***************************************************************************)

\* LstK_InitInternal: the devices present that the pattern selects.
ListOf(pattern) ==
    [d \in Devices |-> IF d \in present \cap pattern
                       THEN [state |-> "connected", flag |-> "none"] ELSE Unlisted]

\* LstK_Sync with a new list of the devices present that the pattern selects.
Synced(pattern) ==
    [d \in Devices |->
        CASE d \in present \cap pattern ->
                 [state |-> "connected",
                  flag |-> IF list[d].state = "connected" THEN "unchanged" ELSE "added"]
          [] d \notin present \cap pattern /\ list[d].state = "connected" ->
                 [state |-> "disconnected", flag |-> "removed"]
          [] d \notin present \cap pattern /\ list[d].state = "disconnected" ->
                 [state |-> "disconnected", flag |-> "unchanged"]
          [] OTHER -> Unlisted]

\* With one handle a sync is narrowed to its pattern.
SyncPattern == IF initCount = 1 /\ items # << >> THEN Pattern[items[1]] ELSE Devices

\* h_DevEnum_ClearSyncResults.
Cleared(l) == [d \in Devices |-> IF l[d].state = "unlisted" THEN l[d]
                                 ELSE [l[d] EXCEPT !.flag = "unchanged"]]

\* h_DevEnum_UpdateForRemoval.
Removed(l, d) == IF l[d].state = "connected"
                 THEN [l EXCEPT ![d] = [state |-> "disconnected", flag |-> "removed"]] ELSE l

\* h_IsHotMatch, with HotInitCount = n.
IsHotMatch(n, h, d) == n = 1 \/ d \in Pattern[h]

\* h_DevEnum_PlugWaiters: the handles told of device d.  The first match
\* consumes it; later ones hear of it if they pass duplicates.
Receivers(d, hs) ==
    LET matches == SelectSeq(hs, LAMBDA h : IsHotMatch(initCount, h, d))
    IN {matches[k] : k \in {j \in DOMAIN matches : j = 1 \/ matches[j] \in PassDupe}}

\* h_NotifyWaiters(NULL): told after the flags of list l have been reported.
ToldAll(l) ==
    [h \in Followed |->
        LET flagged(f) == {d \in Devices : l[d].flag = f /\ h \in Receivers(d, items)}
        IN (told[h] \cup flagged("added")) \ flagged("removed")]

\* h_RegisterForBroadcast(h): interfaces of the listed devices that h matches.
RegistersFor(n, l, h) == {d \in Devices : l[d].state # "unlisted" /\ IsHotMatch(n, h, d)}

-----------------------------------------------------------------------------
(***************************************************************************)
(* Application threads.                                                    *)
(***************************************************************************)

\* What the application sees to: a call that may start or stop the monitor is
\* alone, others run while some handle is neither new nor being freed.  It cannot
\* see to the end of the last hot thread; a start that comes before counts as
\* one of the events, of which there are at most MaxEvents.
Calling == {a \in Apps : pc[a] # "idle"}
Steady == owned \ {arg[a] : a \in Calling}
FreeingAll == \E a \in Calling : arg[a] = NoHandle
MayCall(h) == Calling = {} \/ (~FreeingAll /\ Steady \ {h} # {})
Overtakes == owned = {} /\ thread # "none"
MayInit(h) ==
    /\ MayCall(h)
    /\ CallsAfterEnd \/ ~ended
    /\ Overtakes => events < MaxEvents

Go(a, label) == pc' = [pc EXCEPT ![a] = label]
Call(a, h, label) ==
    /\ pc[a] = "idle"
    /\ Go(a, label)
    /\ arg' = [arg EXCEPT ![a] = h]
    /\ UNCHANGED <<lockCnt, result>>
Return(a) ==
    /\ Go(a, "idle")
    /\ arg' = [arg EXCEPT ![a] = NoHandle]
    /\ lockCnt' = [lockCnt EXCEPT ![a] = 0]
    /\ result' = [result EXCEPT ![a] = "none"]

\* SendMessage: a message to the window, for whose answer the caller waits; to
\* no window it fails at once, with 0.
Send(a, kind, answered) ==
    /\ sent' = IF hwnd THEN Append(sent, [app |-> a, kind |-> kind, h |-> arg[a]]) ELSE sent
    /\ result' = [result EXCEPT ![a] = IF hwnd THEN "none" ELSE "zero"]
    /\ Go(a, answered)
    /\ UNCHANGED <<arg, lockCnt>>

\* HotK_Init takes the lock count.
BeginInit(a, h) ==
    /\ h \notin used /\ MayInit(h)
    /\ Call(a, h, IF lockCount = 0 THEN "start" ELSE "sendInit")
    /\ used' = used \cup {h}
    /\ lockCount' = lockCount + 1
    /\ events' = IF Overtakes THEN events + 1 ELSE events
    /\ UNCHANGED <<initCount, hwnd, threadHandle, heap, old, devList, window, thread, sent,
                   present, missed, news, owned, told, ended, empty>>

\* What the last hot thread still has to do is its own affair from now on: the
\* handles it posted messages for are freed, the window knows its timers no more.
Retire(h) ==
    /\ older' = IF thread = "none" THEN older ELSE
          [older EXCEPT ![h] =
              [at |-> thread, posted |-> Len(posted), mine |-> TRUE,
               removals |-> {d \in Devices : \E k \in DOMAIN news :
                                news[k].dev = d /\ news[k].kind = "removal" /\ news[k].named}]]
    /\ timers' = {} /\ posted' = << >> /\ news' = << >>

\* The first HotK_Init creates the heap, the device list and the thread,
\* suspended.  That the last hot thread has ended is not looked at.
StartMonitor(a) ==
    /\ pc[a] = "start"
    /\ Retire(arg[a])
    /\ heap' = TRUE /\ active' = FALSE
    /\ hasList' = TRUE
    /\ list' = ListOf(Pattern[arg[a]])
    /\ threadHandle' = TRUE
    /\ thread' = "suspended"
    /\ Go(a, "resume")
    /\ UNCHANGED <<lockCount, initCount, hwnd, upset, items, broadcasts, sent, arg, lockCnt,
                   result, present, missed, events, history>>

\* The list or the thread cannot be made.
StartMonitorFails(a) ==
    /\ pc[a] = "start" /\ StartFails
    /\ Retire(arg[a])
    /\ heap' = TRUE /\ active' = FALSE
    /\ thread' = "none"
    /\ Go(a, "error")
    /\ \/ UNCHANGED <<devList, threadHandle>>
       \/ hasList' = TRUE /\ list' = ListOf(Pattern[arg[a]]) /\ threadHandle' = FALSE
    /\ UNCHANGED <<lockCount, initCount, hwnd, upset, items, broadcasts, sent, arg, lockCnt,
                   result, present, missed, events, history>>

\* ResumeThread(ThreadHandle).
ResumeMonitor(a) ==
    /\ pc[a] = "resume" /\ threadHandle
    /\ thread' = "created"
    /\ Go(a, "waitWindow")
    /\ UNCHANGED <<lockCount, initCount, hwnd, threadHandle, heap, old, devList, window, sent,
                   arg, lockCnt, result, world, history>>

ResumeMonitorFails(a) ==
    /\ pc[a] = "resume" /\ (StartFails \/ ~threadHandle)
    /\ Go(a, "error")
    /\ UNCHANGED <<lockCount, initCount, hwnd, threadHandle, heap, old, devList, window, thread,
                   sent, arg, lockCnt, result, world, history>>

\* Mutant: the call does not wait for the window.
WaitWindowNot(a) ==
    /\ pc[a] = "waitWindow"
    /\ Go(a, "sendInit")
    /\ UNCHANGED <<lockCount, initCount, hwnd, threadHandle, heap, old, devList, window, thread,
                   sent, arg, lockCnt, result, world, history>>

\* h_Wait_Hwnd(FALSE) ends with a window, or when there is no thread any more; a
\* window seen at once is enough, ThreadHandle is looked at after waiting only.
WaitWindow(a) ==
    /\ pc[a] = "waitWindow"
    /\ \/ hwnd /\ Go(a, "sendInit")
       \/ ~threadHandle /\ Go(a, "error")
    /\ UNCHANGED <<lockCount, initCount, hwnd, threadHandle, heap, old, devList, window, thread,
                   sent, arg, lockCnt, result, world, history>>

\* The error label frees the list; HotLockCount stays as it is.
InitError(a) ==
    /\ pc[a] = "error"
    /\ hasList' = FALSE /\ list' = EmptyList
    /\ ended' = TRUE
    /\ Return(a)
    /\ UNCHANGED <<lockCount, initCount, hwnd, threadHandle, heap, old, window, thread, sent,
                   world, used, owned, told, empty>>

SendInit(a) ==
    /\ pc[a] = "sendInit"
    /\ Send(a, "init", "initAnswer")
    /\ UNCHANGED <<lockCount, initCount, hwnd, threadHandle, heap, old, devList, window, thread,
                   world, history>>

\* Mutant: the lock count of a failed HotK_Init is kept.
InitAnswerKeepsLock(a) ==
    /\ pc[a] = "initAnswer" /\ result[a] # "none"
    /\ owned' = IF result[a] = "done" THEN owned \cup {arg[a]} ELSE owned
    /\ empty' = (empty \/ result[a] = "zero")
    /\ Return(a)
    /\ UNCHANGED <<lockCount, initCount, hwnd, threadHandle, heap, old, devList, window, thread,
                   sent, world, used, told, ended>>

\* Mutant: a failed HotK_Init closes the monitor, whoever uses it.
InitAnswerCloses(a) ==
    /\ pc[a] = "initAnswer" /\ result[a] # "none"
    /\ owned' = IF result[a] = "done" THEN owned \cup {arg[a]} ELSE owned
    /\ empty' = (empty \/ result[a] = "zero")
    /\ lockCount' = IF result[a] = "failed" THEN lockCount - 1 ELSE lockCount
    /\ IF result[a] = "failed"
       THEN Go(a, "freeAll") /\ UNCHANGED <<arg, lockCnt, result>>
       ELSE Return(a)
    /\ UNCHANGED <<initCount, hwnd, threadHandle, heap, old, devList, window, thread, sent,
                   world, used, told, ended>>

\* ERROR_SUCCESS is 0: an answer that never came is a success without a handle.
InitAnswer(a) ==
    /\ pc[a] = "initAnswer" /\ result[a] # "none"
    /\ owned' = IF result[a] = "done" THEN owned \cup {arg[a]} ELSE owned
    /\ empty' = (empty \/ result[a] = "zero")
    /\ lockCount' = IF result[a] = "failed" THEN lockCount - 1 ELSE lockCount
    /\ IF result[a] = "failed" /\ lockCount = 1
       THEN Go(a, "freeAll") /\ UNCHANGED <<arg, lockCnt, result>>
       ELSE Return(a)
    /\ UNCHANGED <<initCount, hwnd, threadHandle, heap, old, devList, window, thread, sent,
                   world, used, told, ended>>

\* HotK_Free: without a window nothing happens.
BeginFree(a, h) ==
    /\ h \in owned /\ \A b \in Apps : arg[b] # h
    /\ MayCall(h)
    /\ hwnd
    /\ Call(a, h, "decLock")
    /\ UNCHANGED <<lockCount, initCount, hwnd, threadHandle, heap, old, devList, window, thread,
                   sent, world, history>>

\* DecLock(HotLockCount); below 0 it is taken back and the handle not freed.
FreeDecLock(a) ==
    /\ pc[a] = "decLock"
    /\ IF lockCount = 0 THEN Return(a) /\ UNCHANGED lockCount
       ELSE /\ lockCount' = lockCount - 1
            /\ lockCnt' = [lockCnt EXCEPT ![a] = lockCount - 1]
            /\ Go(a, "sendFree")
            /\ UNCHANGED <<arg, result>>
    /\ UNCHANGED <<initCount, hwnd, threadHandle, heap, old, devList, window, thread, sent,
                   world, history>>

SendFree(a) ==
    /\ pc[a] = "sendFree"
    /\ Send(a, "free", "freeAnswer")
    /\ UNCHANGED <<lockCount, initCount, hwnd, threadHandle, heap, old, devList, window, thread,
                   world, history>>

\* The last handle takes the monitor with it.
FreeAnswer(a) ==
    /\ pc[a] = "freeAnswer" /\ result[a] # "none"
    /\ owned' = IF result[a] = "done" THEN owned \ {arg[a]} ELSE owned
    /\ IF result[a] = "done" /\ lockCnt[a] = 0
       THEN Go(a, "freeAll") /\ UNCHANGED <<arg, lockCnt, result>>
       ELSE Return(a)
    /\ UNCHANGED <<lockCount, initCount, hwnd, threadHandle, heap, old, devList, window, thread,
                   sent, world, used, told, ended, empty>>

\* The application calls HotK_FreeAll, which counts nothing down.
BeginFreeAll(a) ==
    /\ Calling = {} /\ hwnd
    /\ Call(a, NoHandle, "freeAll")
    /\ ended' = TRUE
    /\ UNCHANGED <<lockCount, initCount, hwnd, threadHandle, heap, old, devList, window, thread,
                   sent, world, used, owned, told, empty>>

SendDestroy(a) ==
    /\ pc[a] = "freeAll"
    /\ Send(a, "destroy", "waitExit")
    /\ UNCHANGED <<lockCount, initCount, hwnd, threadHandle, heap, old, devList, window, thread,
                   world, history>>

\* h_Wait_Hwnd(TRUE).
WaitExit(a) ==
    /\ pc[a] = "waitExit" /\ result[a] # "none"
    /\ ~hwnd
    /\ owned' = IF arg[a] = NoHandle THEN {} ELSE owned
    /\ Return(a)
    /\ UNCHANGED <<lockCount, initCount, hwnd, threadHandle, heap, old, devList, window, thread,
                   sent, world, used, told, ended, empty>>

AppStep(a) ==
    \/ StartMonitor(a) \/ StartMonitorFails(a) \/ ResumeMonitor(a) \/ ResumeMonitorFails(a)
    \/ WaitWindow(a) \/ InitError(a) \/ SendInit(a) \/ InitAnswer(a)
    \/ FreeDecLock(a) \/ SendFree(a) \/ FreeAnswer(a)
    \/ SendDestroy(a) \/ WaitExit(a)

-----------------------------------------------------------------------------
(***************************************************************************)
(* The hot thread.                                                         *)
(***************************************************************************)

\* h_ThreadProc: ActiveHeap names the heap of this start, for all threads.
EnterThread ==
    /\ thread = "created"
    /\ thread' = "entered"
    /\ active' = TRUE
    /\ older' = [h \in Handles |-> [older[h] EXCEPT !.mine = FALSE]]
    /\ UNCHANGED <<lockCount, initCount, hwnd, threadHandle, heap, upset, devList, window, sent,
                   calls, world, history>>

\* The rest up to the message loop.
CreateWindow ==
    /\ thread = "entered"
    /\ hwnd' = TRUE
    /\ thread' = "loop"
    /\ UNCHANGED <<lockCount, initCount, threadHandle, heap, old, devList, window, sent, calls,
                   world, history>>

CreateWindowFails ==
    /\ thread = "entered" /\ WindowFails
    /\ thread' = "leaving"
    /\ UNCHANGED <<lockCount, initCount, hwnd, threadHandle, heap, old, devList, window, sent,
                   calls, world, history>>

Serving == thread \in {"loop", "quit"}

\* The message m is taken from the queue and answered.
Answer(m, value) ==
    /\ sent' = Tail(sent)
    /\ result' = [result EXCEPT ![m.app] = value]
    /\ UNCHANGED <<pc, arg, lockCnt>>

\* Mutant: the handle is not put into Items.
OnInitHandleUnlisted(m) ==
    /\ m.kind = "init" /\ Len(items) < MaxItems
    /\ initCount' = initCount + 1
    /\ broadcasts' = broadcasts \cup RegistersFor(initCount + 1, list, m.h)
    /\ posted' = IF m.h \in PlugAll THEN Append(posted, m.h) ELSE posted
    /\ Answer(m, "done")
    /\ UNCHANGED <<items, timers, hwnd, devList, thread, told>>

\* Mutant: nothing is registered for the new handle.
OnInitHandleUnregistered(m) ==
    /\ m.kind = "init" /\ Len(items) < MaxItems
    /\ items' = Append(items, m.h)
    /\ initCount' = initCount + 1
    /\ posted' = IF m.h \in PlugAll THEN Append(posted, m.h) ELSE posted
    /\ Answer(m, "done")
    /\ UNCHANGED <<broadcasts, timers, hwnd, devList, thread, told>>

\* WM_USER_INIT_HOT_HANDLE.
OnInitHandle(m) ==
    /\ m.kind = "init" /\ Len(items) < MaxItems
    /\ items' = Append(items, m.h)
    /\ initCount' = initCount + 1
    /\ broadcasts' = broadcasts \cup RegistersFor(initCount + 1, list, m.h)
    /\ posted' = IF m.h \in PlugAll THEN Append(posted, m.h) ELSE posted
    /\ Answer(m, "done")
    /\ UNCHANGED <<timers, hwnd, devList, thread, told>>

\* No HotK slot is left.
OnInitNoSlot(m) ==
    /\ m.kind = "init" /\ Len(items) >= MaxItems
    /\ Answer(m, "failed")
    /\ UNCHANGED <<initCount, window, hwnd, devList, thread, told>>

\* Cleanup_HotK: the handle is taken out of Items, if it is there.
Without(s, h) ==
    IF h \in Range(s) THEN RemoveAt(s, CHOOSE k \in DOMAIN s : s[k] = h) ELSE s

\* Mutant: HotInitCount is not counted down.
OnFreeHandleKeepsCount(m) ==
    /\ m.kind = "free" /\ m.h \in ItemSet
    /\ items' = Without(items, m.h)
    /\ Answer(m, "done")
    /\ UNCHANGED <<initCount, broadcasts, timers, posted, hwnd, devList, thread, told>>

\* WM_USER_FREE_HOT_HANDLE; of a handle that is no longer live, FALSE.
OnFreeHandle(m) ==
    /\ m.kind = "free"
    /\ initCount' = IF m.h \in ItemSet THEN initCount - 1 ELSE initCount
    /\ items' = Without(items, m.h)
    /\ Answer(m, IF m.h \in ItemSet THEN "done" ELSE "zero")
    /\ told' = [h \in Followed |-> IF h = m.h THEN {} ELSE told[h]]
    /\ UNCHANGED <<broadcasts, timers, posted, hwnd, devList, thread>>

\* Mutant: Hwnd is not reset.
OnDestroyKeepsHwnd(m) ==
    /\ m.kind = "destroy"
    /\ items' = << >> /\ broadcasts' = {}
    /\ hasList' = FALSE /\ list' = EmptyList
    /\ thread' = "quit"
    /\ Answer(m, "done")
    /\ UNCHANGED <<initCount, timers, posted, hwnd, told>>

\* Mutant: the device list is kept.
OnDestroyKeepsList(m) ==
    /\ m.kind = "destroy"
    /\ items' = << >> /\ broadcasts' = {}
    /\ hwnd' = FALSE
    /\ thread' = "quit"
    /\ Answer(m, "done")
    /\ UNCHANGED <<initCount, timers, posted, devList, told>>

\* WM_DESTROY: HotInitCount keeps counting the handles it frees.
OnDestroy(m) ==
    /\ m.kind = "destroy"
    /\ items' = << >> /\ broadcasts' = {}
    /\ hasList' = FALSE /\ list' = EmptyList
    /\ hwnd' = FALSE
    /\ thread' = "quit"
    /\ Answer(m, "done")
    /\ told' = [h \in Followed |-> {}]
    /\ UNCHANGED <<initCount, timers, posted>>

HandleSent ==
    /\ Serving /\ sent # << >>
    /\ LET m == Head(sent)
       IN OnInitHandle(m) \/ OnInitNoSlot(m) \/ OnFreeHandle(m) \/ OnDestroy(m)
    /\ UNCHANGED <<lockCount, threadHandle, heap, old, world, used, owned, ended, empty>>

\* Mutant: devices are reported to the new handle as they are flagged.
HandlePostedFlagged ==
    /\ Serving /\ sent = << >> /\ posted # << >>
    /\ posted' = Tail(posted)
    /\ told' = [h \in Followed |->
                   told[h] \cup {d \in Devices : /\ h = Head(posted) /\ h \in ItemSet
                                               /\ list[d].flag = "added"}]
    /\ list' = Cleared(list)
    /\ UNCHANGED <<lockCount, initCount, hwnd, threadHandle, heap, old, hasList, items, broadcasts,
                   timers, thread, sent, calls, world, used, owned, ended, empty>>

\* WM_USER_NOTIFY_HOT_HANDLE: the connected devices the new handle matches are
\* reported to it as added, if it is still there; what was flagged for other
\* handles is forgotten.
HandlePosted ==
    /\ Serving /\ sent = << >> /\ posted # << >>
    /\ posted' = Tail(posted)
    /\ told' = [h \in Followed |->
                   told[h] \cup {d \in Devices : /\ h = Head(posted) /\ h \in ItemSet
                                               /\ list[d].state = "connected"
                                               /\ IsHotMatch(initCount, h, d)}]
    /\ list' = Cleared(list)
    /\ UNCHANGED <<lockCount, initCount, hwnd, threadHandle, heap, old, hasList, items, broadcasts,
                   timers, thread, sent, calls, world, used, owned, ended, empty>>

\* Mutant: a change of the device nodes is left to the other messages.
TimerForIgnoresNodes(e) ==
    CASE e.kind = "arrival" -> {"arrival"}
      [] e.kind = "removal" -> IF e.named THEN {"removal"} ELSE {"arrival"}
      [] e.kind = "nodes" -> {}

\* The timer a WM_DEVICECHANGE message sets.
TimerFor(e) ==
    CASE e.kind = "arrival" -> {"arrival"}
      [] e.kind = "removal" -> IF e.named THEN {"removal"} ELSE {"arrival"}
      [] e.kind = "nodes" -> {"nodes"}

\* WM_DEVICECHANGE.  A removal that names its device is noted in the list at
\* once (h_DevEnum_UpdateForRemoval) and reported when the timer expires.
DeviceChange ==
    /\ thread = "loop" /\ news # << >>
    /\ LET e == Head(news)
       IN /\ timers' = timers \cup TimerFor(e)
          /\ list' = IF e.kind = "removal" /\ e.named THEN Removed(list, e.dev) ELSE list
    /\ news' = Tail(news)
    /\ UNCHANGED <<lockCount, initCount, hwnd, threadHandle, heap, old, hasList, items, broadcasts,
                   posted, thread, sent, calls, present, missed, events, history>>

\* WM_TIMER comes when there is no other message.  A timer that follows an
\* arrival syncs the list; one that follows a change of the device nodes also
\* registers for the interfaces of new devices.
Timer(t) ==
    /\ thread = "loop" /\ sent = << >> /\ posted = << >> /\ t \in timers
    /\ timers' = timers \ {t}
    /\ LET synced == IF t = "removal" \/ ~hasList THEN list ELSE Synced(SyncPattern)
       IN /\ told' = ToldAll(synced)
          /\ list' = Cleared(synced)
    /\ missed' = IF t = "removal" THEN missed ELSE {}
    /\ broadcasts' = IF t = "nodes"
                     THEN broadcasts \cup UNION {RegistersFor(initCount, list', h) : h \in ItemSet}
                     ELSE broadcasts
    /\ UNCHANGED <<lockCount, initCount, hwnd, threadHandle, heap, old, hasList, items, posted,
                   thread, sent, calls, present, events, news, used, owned, ended, empty>>

\* WM_QUIT comes after the messages sent and posted.
Quit ==
    /\ thread = "quit" /\ sent = << >> /\ posted = << >>
    /\ thread' = "leaving"
    /\ UNCHANGED <<lockCount, initCount, hwnd, threadHandle, heap, old, devList, window, sent,
                   calls, world, history>>

Leave ==
    /\ thread = "leaving"
    /\ threadHandle' = FALSE
    /\ thread' = "closing"
    /\ UNCHANGED <<lockCount, initCount, hwnd, heap, old, devList, window, sent, calls, world,
                   history>>

\* The thread ends, its window with it: whoever still waits for an answer gets 0.
End ==
    /\ thread = "closing"
    /\ heap' = FALSE
    /\ thread' = "none"
    /\ timers' = {} /\ posted' = << >> /\ sent' = << >> /\ news' = << >>
    /\ result' = [a \in Apps |-> IF \E k \in DOMAIN sent : sent[k].app = a THEN "zero"
                                                                          ELSE result[a]]
    /\ UNCHANGED <<lockCount, initCount, hwnd, threadHandle, old, devList, items, broadcasts,
                   pc, arg, lockCnt, present, missed, events, history>>

HotStep ==
    \/ EnterThread \/ CreateWindow \/ CreateWindowFails
    \/ HandleSent \/ HandlePosted \/ \E t \in Timers : Timer(t)
    \/ Quit \/ Leave \/ End

-----------------------------------------------------------------------------
(***************************************************************************)
(* A hot thread that has not ended when the next one is started goes on to *)
(* its end, on the state that is the next one's by now.  What a thread does*)
(* with a destroyed heap is undefined; the model notes it, in upset, and   *)
(* goes on as if nothing had happened.                                     *)
(***************************************************************************)

\* WM_USER_NOTIFY_HOT_HANDLE of a handle that is freed.
OlderPosted(h) ==
    /\ older[h].at = "quit" /\ older[h].posted > 0
    /\ older' = [older EXCEPT ![h].posted = @ - 1]
    /\ list' = Cleared(list)
    /\ upset' = (upset \/ hasList)
    /\ UNCHANGED <<lockCount, initCount, hwnd, threadHandle, heap, active, hasList, window,
                   thread, sent, calls, world, history>>

\* DBT_DEVICEREMOVECOMPLETE.
OlderRemoval(h) ==
    /\ older[h].at = "quit"
    /\ \E d \in older[h].removals :
          /\ older' = [older EXCEPT ![h].removals = @ \ {d}]
          /\ list' = Removed(list, d)
    /\ upset' = (upset \/ hasList)
    /\ UNCHANGED <<lockCount, initCount, hwnd, threadHandle, heap, active, hasList, window,
                   thread, sent, calls, world, history>>

OlderQuit(h) ==
    /\ older[h].at = "quit" /\ older[h].posted = 0
    /\ older' = [older EXCEPT ![h].at = "leaving"]
    /\ UNCHANGED <<lockCount, initCount, hwnd, threadHandle, heap, active, upset, devList,
                   window, thread, sent, calls, world, history>>

\* ThreadHandle = NULL, whosever it is.
OlderLeave(h) ==
    /\ older[h].at = "leaving"
    /\ older' = [older EXCEPT ![h].at = "closing"]
    /\ threadHandle' = FALSE
    /\ upset' = (upset \/ thread \notin {"none", "closing"})
    /\ UNCHANGED <<lockCount, initCount, hwnd, heap, active, devList, window, thread, sent,
                   calls, world, history>>

\* HeapDestroy(ActiveHeap): the heap of the thread that entered last.
OlderEnd(h) ==
    /\ older[h].at = "closing"
    /\ older' = [older EXCEPT ![h] = NoThread]
    /\ heap' = (heap /\ ~active)
    /\ upset' = (upset \/ ~older[h].mine)
    /\ UNCHANGED <<lockCount, initCount, hwnd, threadHandle, active, devList, window, thread,
                   sent, calls, world, history>>

OlderStep(h) ==
    OlderPosted(h) \/ OlderRemoval(h) \/ OlderQuit(h) \/ OlderLeave(h) \/ OlderEnd(h)

-----------------------------------------------------------------------------
(***************************************************************************)
(* Devices come and go; the system tells the window of the interfaces it   *)
(* is registered for, and of any change of the device nodes.               *)
(***************************************************************************)
\* What the window is told when d comes or goes; a removal may come without
\* the name of its device.
News(d, named) ==
    LET nodes == << [kind |-> "nodes", dev |-> d, named |-> TRUE] >>
    IN CASE ~hwnd -> << >>
         [] hwnd /\ d \notin broadcasts -> nodes
         [] hwnd /\ d \in broadcasts ->
                << [kind |-> IF d \in present THEN "removal" ELSE "arrival",
                    dev |-> d, named |-> named] >> \o nodes

Plug(d, named) ==
    /\ events < MaxEvents
    /\ named \/ (hwnd /\ d \in present \cap broadcasts)
    /\ events' = events + 1
    /\ present' = IF d \in present THEN present \ {d} ELSE present \cup {d}
    /\ missed' = IF hasList /\ ~hwnd THEN missed \cup {d} ELSE missed
    /\ news' = news \o News(d, named)
    /\ UNCHANGED <<lockCount, initCount, hwnd, threadHandle, heap, old, devList, window, thread,
                   sent, calls, history>>

Next ==
    \/ \E a \in Apps :
          \/ \E h \in Handles : BeginInit(a, h) \/ BeginFree(a, h)
          \/ BeginFreeAll(a) \/ AppStep(a)
    \/ HotStep \/ DeviceChange
    \/ \E h \in Handles : OlderStep(h)
    \/ \E d \in Devices, named \in BOOLEAN : Plug(d, named)

\* The scheduler runs threads in a call and the hot threads; the system delivers
\* its messages and timers expire.  Nobody has to call or to plug in anything.
Fairness ==
    /\ \A a \in Apps : WF_vars(AppStep(a))
    /\ WF_vars(HotStep)
    /\ \A h \in Handles : WF_vars(OlderStep(h))
    /\ WF_vars(DeviceChange)

Spec == Init /\ [][Next]_vars /\ Fairness

-----------------------------------------------------------------------------
(***************************************************************************)
(* Properties.                                                             *)
(***************************************************************************)

AppLabels == {"idle", "start", "resume", "waitWindow", "error", "sendInit", "initAnswer", "decLock",
              "sendFree", "freeAnswer", "freeAll", "waitExit"}
ThreadStates == {"none", "suspended", "created", "entered", "loop", "quit", "leaving", "closing"}

\* The state has its type.
TypeOK ==
    /\ lockCount \in 0 .. Cardinality(Handles) /\ initCount \in 0 .. Cardinality(Handles)
    /\ {hwnd, threadHandle, heap, active, hasList, ended, empty, upset} \subseteq BOOLEAN
    /\ list \in [Devices -> [state : {"unlisted", "connected", "disconnected"},
                             flag : {"none", "unchanged", "added", "removed"}]]
    /\ items \in Seq(Handles) /\ IsInjective(items)
    /\ broadcasts \subseteq Devices /\ timers \subseteq Timers
    /\ posted \in Seq(Handles)
    /\ thread \in ThreadStates
    /\ older \in [Handles -> [at : ThreadStates, posted : Nat, removals : SUBSET Devices,
                              mine : BOOLEAN]]
    /\ sent \in Seq([app : Apps, kind : {"init", "free", "destroy"}, h : Handles \cup {NoHandle}])
    /\ news \in Seq([kind : {"arrival", "removal", "nodes"}, dev : Devices, named : BOOLEAN])
    /\ pc \in [Apps -> AppLabels] /\ arg \in [Apps -> Handles \cup {NoHandle}]
    /\ lockCnt \in [Apps -> 0 .. Cardinality(Handles)]
    /\ result \in [Apps -> {"none", "zero", "done", "failed"}]
    /\ {present, missed} \subseteq SUBSET Devices /\ events \in 0 .. MaxEvents
    /\ {used, owned} \subseteq SUBSET Handles
    /\ told \in [Followed -> SUBSET Devices]

In(labels) == {a \in Apps : pc[a] \in labels}

\* HotLockCount counts the handles the application has, those it is asking for
\* and not those it has begun to free, whatever failed or overlapped.
LockCountExact ==
    ~ended /\ ~empty =>
        lockCount = Cardinality(owned \ {arg[a] : a \in In({"sendFree", "freeAnswer"})})
                    + Cardinality(In({"start", "resume", "waitWindow", "error", "sendInit",
                                      "initAnswer"}))

\* HotInitCount is the number of handles in Items.
InitCountExact == ~ended => initCount = Len(items)

\* The two counts by which the monitor is made and destroyed tell the truth,
\* whatever failed or overlapped.
CountsExact == TypeOK /\ LockCountExact /\ InitCountExact

\* While the application has a handle that works, there is a window with a
\* thread that serves it, and the list; and the heap and the thread's handle,
\* unless an older hot thread took them, which a HotK_Init does not wait for.
MonitorWhileUsed ==
    owned # {} /\ ~ended => /\ hwnd /\ thread = "loop" /\ hasList
                            /\ (threadHandle /\ heap) \/ upset

\* The infos of the device list lie in the hot heap, which is not destroyed
\* while the list exists.  The exceptions are the error path of HotK_Init: if
\* the window cannot be made, the thread destroys the heap and the caller then
\* frees the list; and an older hot thread.
HeapOutlivesList ==
    hasList => heap \/ upset \/ \E a \in Apps : pc[a] \in {"waitWindow", "error"}

\* Nothing the hot thread works on goes away under a handle or under the list,
\* but by a hot thread that a HotK_Free left behind and a HotK_Init overtook.
MonitorIntact == MonitorWhileUsed /\ HeapOutlivesList

\* A handle is reported to from the handling of its HotK_Init to that of its
\* HotK_Free; in particular no callback comes after HotK_Free has returned.
ItemsAreOwned ==
    ~ended =>
        /\ owned \ {arg[a] : a \in In({"freeAnswer"})} \subseteq ItemSet
        /\ ItemSet \subseteq owned \cup {arg[a] : a \in In({"initAnswer"})}

\* A HotK_Init that returns TRUE has set its handle.
InitGivesHandle == ~empty

\* The handles the application was given are the ones that are reported to.
HandlesServed == ItemsAreOwned /\ InitGivesHandle

\* Every call returns: no caller waits for a window, an answer or a thread that
\* will not come.
CallsReturn == \A a \in Apps : pc[a] # "idle" ~> pc[a] = "idle"

Common == {d \in Devices : \A h \in Handles : d \in Pattern[h]}

\* However arrivals, removals and timers mix, the list ends up with what is
\* plugged in, for the devices every handle selects, with nothing left to
\* report, and the window registered for those devices; only what happened
\* while the window was being made may be missed, and nothing is said once an
\* older hot thread has touched the list.
ListConverges ==
    <>[](hwnd /\ ~upset => \A d \in Common \ missed :
                    /\ (list[d].state = "connected") <=> (d \in present)
                    /\ list[d].flag \notin {"added", "removed"}
                    /\ items # << >> /\ d \in present => d \in broadcasts)

\* A handle that asked for the devices present, and for duplicates, ends up
\* having been told of every device that is there.
ArrivalsAreTold ==
    <>[](hwnd /\ ~upset => \A h \in ItemSet \cap Followed :
                    (Common \cap present) \ missed \subseteq told[h])

=============================================================================
