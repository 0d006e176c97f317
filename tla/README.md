# Verification of libusbK

TLA+ models of libusbK, the Windows USB library and its kernel driver
(`src/libusbK`), with TLC configurations that check them on small instances
and proofs that hold for every instance: of the handle pools, among them that
they implement the abstract lifetime of a handle, of overlapped pools, of bulk
and isochronous transfers, of a pipe and its queue, and of the handles, claims
and settings of a device. Line numbers
refer to the sources under `src/libusbK/src` unless a path is given; the exact
correspondence of definitions and lines is `map` in `PROJECT.json`.

## 1. The system

An application links `libusbK.dll`. The DLL hands out handles from fixed
pools, enumerates devices, and turns API calls into control codes for a driver:
libusbK.sys, whose source is in `sys/`, or WinUSB or libusb0.sys through the
same function table. libusbK.sys is a KMDF driver. Its default queue receives
every request and either handles it or forwards it to the queue of a pipe,
which presents it to a transfer function.

    application
      | API calls, any thread             callbacks, events
    libusbK.dll
      | handle pools <- lists, overlapped pools, streams, hot plug, isochronous
      | DeviceIoControl, overlapped
    libusbK.sys
      | default queue (parallel) -> pipe queue (sequential, or parallel for RAW_IO)
      |                          -> policies, reset, flush, alternate settings
      | stage requests, completion routines
    USB stack

### Components

| Component | State | Operations | What is hard | What makes it correct |
|---|---|---|---|---|
| Handle pools (`lusbk_handles.[ch]`) | per slot `Use`, `Ref`, `Disposing`, `Evt.Cleanup`; per pool `Index` | Acquire, Inc, Dec | any threads, no lock, cleanup calls back | counts exact, cleaned up once and never under a call, slots come back |
| Overlapped pools (`lusbk_overlapped.c`) | `MasterArray`, `AcquiredList`, `ReleasedList`, handle and link of each element | OvlK_Init, Acquire, Release, Wait..., ReUse, Free | completion races time-out and cancel; slots are reused | each element in one list, handle links consistent, no OVERLAPPED reused in flight |
| Bulk reads (`sys/drv_xfer_bulk.c`) | `Xfer`, overrun buffer and range, reset flags of the queue | request, stage completion, flush, suspend and resume | lengths around a packet, policies, errors between stages | the byte stream is delivered exactly |
| Bulk writes | `Xfer`, `Zlps` | request, stage completion | partial failure, terminating packet | wire equals buffer, writes end |
| Pipes and queues (`sys/drv_pipe.c`, `drv_queue_*.c`, `drv_policy.c`, `drv_interface.c`) | `IsValid`, `IsQueueDirty`, `Queue`, policies, I/O target | forward, RAW_IO, flush, reset, SET_INTERFACE | parallel handlers without a lock; a purge that waits | a valid pipe works, the queue fits the policy, no deleted queue is used, purges end |
| Device, PnP, power (`sys/drv_device.c`) | interfaces, pipes, power state | configure, D0 entry and exit, reset | requests that survive a suspend | pipes restored, no request lost |
| Control and isochronous transfers (`sys/drv_xfer_control.c`, `drv_xfer_iso.c`) | stage progress, frame numbers | request, stage completion | latency, frame arithmetic | packets in order, buffers respected |
| Streams (`lusbk_queued_stream.c`) | lists Finished, Queued, Pending; thread state; APC count; semaphore | Init, Start, Read, Write, Stop, Free | APCs, a thread, blocking callers | data in order, every transfer in one list, stop ends |
| Hot plug (`lusbk_hot_plug.c`) | notifier window, `HotLockCount`, `HotInitCount`, handle list | HotK_Init, Free, FreeAll, messages | messages across threads | one window while there are users, every arrival reported |
| Device lists (`lusbk_device_list.c`) | list of device infos with references | Init, Sync, Attach, Detach, Free | infos shared by lists | an info lives as long as a list has it |
| Interface stack (`lusbk_stack_collection.c`, `lusbk_bknd_libusbk.c`) | handles, devices, notes of claims and settings shared by clones | Init, clone, claim, release, select, set, configure | shared between handles, noted after the driver answered | references exact, notes agree with the driver |
| Isochronous handles (`lusbk_usb_iso*.c`) | packets of a context | Init, Calc, Set, Read, Write | arithmetic of offsets | packets partition the buffer |
| Backends, ioctl, wrapper | none beside the handles | one control code each | - | arguments checked |
| Driver entry, registry, request checks, debug output | start-up values | - | - | - |
| kBench, kList, installer, bindings, firmware | - | - | - | users of the library or third-party |

What is hard to test in this code is listed, each at its line, under `hazards`
in `PROJECT.json`.

## 2. Modules

| Module | Part | Used by |
|---|---|---|
| `HandleLifetime` | what a handle pool promises | `HandlePool` |
| `HandlePool` | one handle pool and the threads that use it | `MCHandlePool`, `HandlePool_proofs` |
| `HandlePool_proofs` | theorems about `HandlePool`, that it implements `HandleLifetime`, and about `DeviceList` | |
| `OvlPool` | overlapped pools over the pool of OverlappedK handles | `MCOvlPool`, `OvlPool_proofs` |
| `OvlPool_proofs` | theorems about `OvlPool` | |
| `BulkPipe` | what the next two have in common: the sizes and the context of a bulk pipe | `BulkRead`, `BulkWrite` |
| `BulkRead` | reads from a bulk or interrupt pipe | `BulkRead_proofs` |
| `BulkWrite` | writes to a bulk or interrupt pipe | `BulkRead_proofs` |
| `BulkRead_proofs` | theorems about `BulkRead` and `BulkWrite` | |
| `IsoXfer` | isochronous transfers of one pipe | `IsoXfer_proofs` |
| `IsoXfer_proofs` | theorems about `IsoXfer` | |
| `PipeQueue` | one pipe, its queue and the handlers that share it | `MCPipeQueue`, `PipeQueue_proofs` |
| `PipeQueue_proofs` | theorems about `PipeQueue` | |
| `InterfaceStack` | UsbK handles, the device they share and the driver's claims and settings | `MCInterfaceStack`, `InterfaceStack_proofs` |
| `InterfaceStack_proofs` | theorems about `InterfaceStack` | |
| `DeviceList` | device lists and the infos on them | `MCDeviceList`, `HandlePool_proofs` |
| `HotPlug` | hot-plug handles, the hot thread and its window | `MCHotPlug`, `HotPlug_proofs` |
| `HotPlug_proofs` | theorems about `HotPlug` | |
| `Stream` | one pipe stream, its thread, its callers and the application thread that starts and stops it | `MCStream`, `Stream_proofs` |
| `Stream_proofs` | theorems about `Stream` | |

The `MC` modules only add symmetry sets and the values of constants that a
configuration cannot write: the streams a run begins with, the uses of a pipe,
patterns and configurations; `MCPipeQueue` also assumes `HandlersApart` of its
uses, which the theorems about `PipeQueue` need.

### HandleLifetime

A slot is absent, being set up, live or dead; a live slot has an owner or not,
and calls inside it. It dies in the step in which the last of owner and calls
goes, and only a dead slot comes back. The pool modules above `HandlePool`
(`DeviceList`, `InterfaceStack`, `OvlPool`) use handles this way: a count that
reaches 0 cleans up in the same step.

### HandlePool

`use`, `ref`, `disposing` and `cleanup` are the members of `KOBJ_BASE` of each
slot, `index` is `AllK->...Index` modulo the size of the pool. A thread runs
one API call at a time: it acquires a handle, uses one (Inc, body, Dec), frees
one the way `LstK_Free` does (Inc, Dec, Dec) or the way `UsbK_Free` does (Dec).
Each read or interlocked write of a shared word is one step (`AcquireTry`,
`IncCheckUse`, `IncCheckDisposing`, `IncRef`, `IncUndo`, `DecRef`, ...), so
every interleaving the C code has is a behaviour. The cleanup callback may call
back into the pool with the handle it cleans up, as a callback set with
`LibK_SetCleanupCallback` may; `nested` marks that call. `handles` is the set of handles the application
may use. `LateCalls` says whether it may free a handle while another thread's
call on it has not passed `PoolHandle_Inc` yet.

`unseen` and `alone` are history variables of a pool scan: the slots that were
free during the whole of it, and whether another scan drew positions meanwhile.

### OvlPool

Lists are sequences, the elements of an array are pairs (number of the
`OvlK_Init` call, position). The list functions have no lock and are meant for
one thread, so a call is one step; only `OvlK_Wait` is several, because the
system completes and cancels transfers meanwhile: `BeginWait`, then
`WaitSignalled`, `WaitAlerted`, `WaitTimeout` or `WaitFailed` (WAIT_FAILED or
another result), `WaitCancel` or `WaitCancelFails` (CancelIoEx or CancelIo),
then `WaitGiveUp`, or the second look, which may find the transfer
still on its way (`WaitCancelled`). The two errors,
`WaitFailed` and `WaitCancelFails`, leave a transfer alone that may be in flight,
and go on to the tests of the release flags all the same; `blind` is the history
of an OVERLAPPED released so, until its transfer ends. What an application
does that acquires such an OVERLAPPED and submits it again while the first
transfer is in flight is beyond the model: `Submit` wants one that is not.
A slot is reused as the code
reuses it: `Init_Handle_OvlPoolK` resets nothing, so `OvlInit` appends to
whatever list the slot has. `FreeUnused`, `SlowCancel` and `AllocFails` switch
three cases on: a pool freed before each element was acquired once, a cancelled
transfer that is still pending at the second look, and Mem_Alloc failing.

### BulkRead and BulkWrite

The queue is sequential, so there is at most one request; its stages complete
asynchronously. The device's bytes are numbered in the order it sends them, and
buffers hold those numbers, so losing, repeating or reordering a byte shows.
`overOfs` and `overBuf` are the overrun range and buffer; `stage` is the
request the USB stack has. A stage succeeds in full, ends with a short packet
or fails after whole packets. `FlushPipe`, `RefreshQueue`, `PipeReset`,
`OnD0Exit` and `OnResume` are what other handlers do to the state of the queue.
Any stage may fail, also the one into the overrun buffer, whose range the code
has set by then: `unfilled` is the history of a range that no stage has filled,
`junk` the number of bytes the last read was given out of such a range, at its
front, and `Genuine` the others, those the device sent.
In `BulkWrite`, `wire` is what the device has received of the request. A pipe is
an IN pipe or an OUT pipe, so `BulkPipe` has the variables of either
once; the definitions that differ for writes have names with Write or Out.

### PipeQueue

The handlers of the default queue are processes: `call[c].at` is the next
access of the shared `PIPE_CONTEXT` that the handler makes, `call[c].q` and
`call[c].raw` are its local variables. A call that forwards its transfer goes
on as the request, waiting in the queue and then presented to the driver.
`wdf` holds the queue objects of the framework, modelled from what the driver
asks of them: a purge cancels waiting requests and calls `Queue_OnStop`, which
only a sequential queue has, and waits; forwarding to a purged queue fails; a
sequential queue presents one request at a time. `use`, chosen at the start
among `Uses`, says how the application uses the pipe: `ops`, the operations it
calls, `exclusive`, those it does not let overlap, and `failures`, the WDF calls
that may fail.

### IsoXfer

`queue` holds the queue context of the pipe (IsFreshPipeReset, NextFrameNumber
and the two reset marks), `policy` the policies a request copies. A transfer is
its packets' offsets and its length. `Send` is what the three submit functions
share: reset, frame number, submission, each of which may fail. A completed read
is a filling of its packets; `ClosedHoles` is the loop of XferIsoRdComplete that
moves every packet down. The queue is parallel but its callbacks are
synchronised by the queue (`sys/drv_pipe.c:300`), so a submission is one step,
with two transfers in flight, completions, cancellations, resets and policy
changes between. `lastEnd`, `sent` and `got` are history: when the last transfer
ends by the endpoint's interval, the frames of the transfer just sent, the read
just completed.

### DeviceList

A list is a slot with a head and a cursor; the infos carry next, prev, their
list, reference count and SyncFlags, as in the C structures, and the list macros
are modelled on the links. A list is for one thread, so a call is one step.
LstK_Sync is the two passes of the code, first over the slave, then over the
master, both skipping infos that have flags. Pools run out of slots at any info
of any operation. A sync moves infos whatever the cursor of the slave is on:
`stray` is the history of a cursor whose info was taken from under it.
LstK_MoveNext follows the links the info has by then, into another list or to
the end; an application that goes on with a current info that was freed (its
list refused it for want of memory, or the sync's own list was freed) reads
freed memory, which the model does not follow. `mine` are the infos the application keeps off the lists. A
loop over a list (`ForEach`) is a function of the number of rounds, over the list
as it was before the loop: DL_FOREACH_SAFE has read next before the body unlinks
the info, and no loop extends the list it walks.

### HotPlug

Application threads (`pc`, `arg`, `lockCnt`, `result`) and the hot thread
(`thread`) interleave at every access of HotLockCount, Hwnd, ThreadHandle and
the message queue. SendMessage appends to `sent` and waits for `result`; the hot
thread handles messages that were sent before those it posted to itself
(`posted`), those before timers, and WM_QUIT last. `news` are device events
under way. The start is in the code's steps: `StartMonitor` makes heap, list and
suspended thread, `ResumeMonitor` resumes it, `WaitWindow` is h_Wait_Hwnd, and
the thread sets ActiveHeap when it enters (`EnterThread`, `active`). HotK_Free
waits for the window to go (`lusbk_hot_plug.c:205-217`, `787`), not for the
thread, which still has to set ThreadHandle to NULL and to destroy ActiveHeap
(`:692-693`). A HotK_Init may come before that (`Overtakes`): what is left
of the thread is then in `older`, and its steps (`OlderStep`) act on what is the
next one's: messages on the list, ThreadHandle, and the heap ActiveHeap
names by then. `upset` is the history of that. What a thread does after its heap is destroyed
is undefined; the model goes on as if the heap had not been touched.
`list` is what a device list looks like after LstK_Sync, whose code
is module `DeviceList`. `told` is history: the arrivals reported to each handle
that asked for the devices present and for duplicates.

### InterfaceStack

`usb` and `dev` are the slots of the two pools, a device with its stack and its
SharedInterfaces; `claimedBy` and `alt` are what the driver keeps for all files.
A call enters, asks the driver and notes the answer in separate steps, so others
come between. `UsbStack_Rebuild` takes its two references and gives them back
one step at a time. A device's slot is taken while it has handles (`UsersOf`),
also when a rebuild has its last references: what the pool tests is the slot's
`Use`, not its `Ref` (`lusbk_handles.c:50`). A record's `count` is InterfaceCount,
which UsbStack_Clear does not reset: the interfaces of a rebuilt stack have the
indexes that follow (`Numbered`), and their notes the entries of
SharedInterfaces at these indexes.

### Stream

A transfer is a number in one of the lists `queued`, `pending`, `finished`,
`finishedTemp`, in an APC of `apcs`, or among the locals `call[c]` of a call.
The stream thread (`Thread`), every caller of StmK_Read or StmK_Write
(`Call`, `Continue`), the application thread that starts, stops and frees the
stream (`Control`) and the device are processes. `thread` and `pc` say where
each is; a step is what a process does between two points at which another can
see or change its state: a wait, the lock of the Finished list, a read or
write of `Thread.State`, a call of QueueUserAPC, a count of the semaphore.
So QueueUserAPC and the count of the APC (`QueueTransferAPC`, `IncApcCount`),
the state change of a stop and its APC (`StopInternal`, `QueueStopAPC`), and
the locked loop and the hand-over after it (`Take`, `Unlock`, ...) are
separate, in the code's order. An APC runs where the code waits alertably
(`WakeUp`, `DrainNext`).

Bytes are pairs of a source, the device or a caller, and a number, so `InOrder`
can say that the bytes in the stream are exactly those that went in and have
not come out, in order. `data` holds the bytes of each transfer. The list of
free OVERLAPPEDs is kept with the links of its elements and the list macros of
`lusbk_linked_list.h`, because a completed OVERLAPPED is unlinked twice.
`setup` never changes: the direction, size and flags of StmK_Init, whether
things may fail, who calls and how often the stream is started. `clean` becomes
false when a transfer or call fails or races with a thread, and on an OUT pipe
when a stop cancels transfers or drops an APC; `lost` collects the transfers no
list holds any more.

## 3. Runs

Passing runs (the named parts of a property are in brackets):

| Run | Instance | Shows |
|---|---|---|
| `handle_pool` | 3 threads, 1 slot, no late calls, fair | `RefExact`, `NoCleanupWhileReferenced`, `FreedSlotReturns`, `ImplementsLifetime` |
| `handle_pool_scan` | 2 threads, 2 slots, late calls | `TypeOK`, `SoloScanComplete` |
| `bulk_read` | packets of 2, transfers of 5, reads of up to 6, 5 bytes, five policies | `BuffersKept` (`TypeOK`, `BufferBounds`), `StreamExact`, `ShortReadHasReason`, `StallFailsOnce` |
| `bulk_write` | packets of 2, transfers of 3, writes of up to 7, fair | `BufferOnWire` (`WriteTypeOK`, `WriteExact`), `WriteEnds` |
| `iso_xfer` | packets of 2, interval 2, both speeds, transfers of 5 and 17 bytes, two in flight | `TransfersWellFormed` (`TypeOK`, `PacketsFillBuffer`), `FramesContiguous`, `ReadInOrder`, `StartsAhead` |
| `ovl_pool` | 2 pools, 3 OverlappedK slots, arrays of 1 or 2, 2 inits | `PoolConsistent` (`TypeOK`, `PoolPartition`, `HandleLinks`, `AcquiredInOrder`, `NoUsbLeak`), `NoReuseUncancelled` |
| `pipe_queue` | 3 requests; all operations, not overlapping, queue creation and selection failing; or transfers overlapping one flush or reset at a time, restarts failing; fair | `QueueConsistent` (`TypeOK`, `QueueMatchesPolicy`, `RebuildWhileStopped`), `OneStagedTransfer`, `NoUseAfterDelete`, `PipeServes` (`ValidMeansReady`, `NoStrandedRequest`), `PurgeEnds` |
| `interface_stack` | 2 threads, 3 handles, 2 files, 2 configurations, 2 settings | `RefsConsistent` (`TypeOK`, `RefsExact`, `SelectedExists`), `ClaimsExact` (`ClaimCacheExact`, `ClaimsOfOpenFiles`), `AltCacheExact` |
| `device_list` | 2 devices, 2 lists, 4 infos, 7 calls or device changes | `ListsConsistent` (`TypeOK`, `WellLinked`, `CursorOnList`), `InfosCounted` (`InfoRefExact`, `NoInfoLeak`), `SyncTellsNews`, `SyncHonoursMask` |
| `hot_plug` | 2 threads, 3 handles, 2 slots, 1 device, 2 events, start and window failing, fair | `CountsExact` (`TypeOK`, `LockCountExact`, `InitCountExact`), `MonitorIntact` (`MonitorWhileUsed`, `HeapOutlivesList`), `HandlesServed` (`ItemsAreOwned`, `InitGivesHandle`), `CallsReturn`, `ListConverges`, `ArrivalsAreTold` |
| `stream` | five streams with 2 or 3 transfers of 2 bytes and MaxPendingIO 2 (see Bounds), fair | `StreamConsistent` (`TypeOK`, `TransferConserved`, `SemExact`), `InOrder`, `FreedIsStopped`, `StopEnds` |

A run in which the code disagrees with its own documentation:

| Run | Property | What TLC finds |
|---|---|---|
| `bulk_write_zlp` | `ZlpEveryWrite` | `Zlps.Sent` is never reset: only the first write of a queue is terminated. |

Every property of a passing run is also checked against a mutant of the
modelled code, defined next to the definition it replaces (marked "mutant");
TLC finds the property violated there.

### Bounds

- What happens to a slot does not depend on the other slots, except for the
  scan: one slot and three threads in `handle_pool` (two callers leaving a
  handle a third one frees, and a slot that is reused), two slots and two
  threads in `handle_pool_scan` (a pool that is full, a scan that wraps). The
  proofs hold for every number of both. Symmetry over threads is used for
  invariants only.
- A packet of 2 bytes has a part of a packet; transfers of 5 bytes that are not a
  multiple of the packet force `stageLength - stageLength % MaxPacket`; reads of
  up to 6 bytes take several stages and a last one through the overrun buffer.
  The stream of 5 bytes is what bounds the run: the state then only changes by
  requests that get nothing.
- Two arrays of up to two elements over three handle slots: a slot of the pool
  of pools is reused once, and two pools compete for handles.
- Three requests: one presented, one waiting and one handler at work, or two
  transfers and one handler. Queue objects are numbered; there are always more
  numbers than requests can hold, so a new queue never reuses one in use.
- The streams of `stream` (`MCSetups`): two writers on one start of the thread,
  without and with the semaphore; one reader that wants all or nothing; one
  reader across a stop and a second start; one writer with the semaphore, NO_PARTIAL_XFERS,
  every failure and a second start. MaxPendingIO 2 lets two transfers be in
  flight, a third waits; 2 bytes of stream and 2 bytes in a transfer give whole,
  split and empty transfers, and an order to get wrong.
- Isochronous: packets of 2 bytes, 5 bytes a part of a packet more than two, 17
  bytes more than the limit of a full-speed transfer and just one packet more than a high-speed
  frame. The limits 1024 and 256 become 16 and 3, the latency is one frame.
  Two transfers in flight let a completion, stall or reset meet the next
  submission.
- Two devices, one of which the filter driver has, two list and four info
  slots: a list and its clone, or a list and a sync's own list, fill the pool.
  Seven steps allow plug, init, sync, unplug, sync, sync with another mask.
- Hot plug: three handles over two slots, so a handle too many is asked for;
  one matches with its pattern only the device, two everything; a device that
  comes and goes. Handles are given out once, so a posted notification for a handle that was freed
  finds no other handle in its slot. A HotK_Init that does not wait for the end
  of the last hot thread counts as an event, so a run has two arrivals or
  removals, two such starts, or one of each. `OneCaller` in `MCHotPlug` lets one
  particular thread of those that are idle make the next call, for idle threads
  are alike; it takes no step away that fairness asks for.
- Interfaces: two configurations in which interface 2 is the second and the
  first, so that an index that is stale means another interface or none. With
  libusb0.sys, where the configuration can change, one file with two handles.

### Fairness

- `HandlePool!Fairness`: a thread inside an API call is scheduled again (the
  code never waits for another thread there). Threads need not begin calls.
- `HotPlug!Fairness`: threads inside a call and the hot thread run, overtaken
  ones too, timers expire (they are steps of the hot thread) and the system delivers device
  events. Nobody has to call or plug in anything.
- `BulkWrite!WriteFairness`: the USB stack completes every stage it has, with any
  status.
- `PipeQueue!Fairness`: handlers run; a request that was cancelled, or sent to
  a stopped target, is completed. The device need not answer anything else.

- `Stream!FairSpec`: the stream thread runs, waits end when what they wait for
  has come, and TimeoutCancelMS expires; the thread inside a stop runs; a caller
  that has the lock releases it and one that queued an APC counts it, which no
  call waits for. The device need not complete anything, and callers need not call.

Deadlock is checked except where the application may be done: in `stream`
everything may have been stopped and freed, in `ovl_pool`, `hot_plug` and
`device_list` the number of inits, handles or calls is bounded, and in
`interface_stack` memory may have run out (`lost`) with all handles taken.

### What holds only for calls that do not overlap

The default queue is parallel and its handlers share `PIPE_CONTEXT` without a
lock, so the properties of `pipe_queue` are stated for an application that
serialises its calls (`exclusive` = all operations), or, for `ValidMeansReady`,
`NoStrandedRequest` and `PurgeEnds`, lets transfers overlap flushes and resets.
With other values of the constants TLC finds these behaviours, worth knowing
for a multi-threaded application; they can be reproduced by changing
`MCUses` in `MCPipeQueue`:

- `exclusive = {}` and RAW_IO changes: a transfer between the dirty mark and the
  store of the policy (`sys/drv_policy.c:584`, `660`) rebuilds the queue for the
  old policy: `QueueMatchesPolicy` fails.
- Two transfers that find the queue dirty rebuild it at once: `RebuildWhileStopped`
  fails (`sys/drv_queue_default.c:73`). Two that copied RawIO=FALSE before a
  change are sent to the parallel queue: `OneStagedTransfer` fails (`:105`).
- Two overlapping flushes: the slower one stops what the faster one started,
  and `ValidMeansReady` fails (`sys/drv_pipe.c:163`).
- Without overlap, but with failing restarts and failing SET_INTERFACE: a pipe
  is marked valid with its I/O target stopped (`sys/drv_interface.c:81`).
- With RAW_IO the purge waits for requests nobody cancels: `PurgeEnds` fails
  (`sys/drv_pipe.c:168`), which is why `PurgeEnds` is about sequential queues.

And in the DLL:

- Two overlapping scans of a pool can both skip a position, so one reports a
  full pool while a slot is free (`lusbk_handles.c:58`); `SoloScanComplete` is
  about scans that do not overlap.
- With `LateCalls`, that is when a handle may be freed while another thread's
  call on it has not passed `PoolHandle_Inc`, two such calls break
  `NoCleanupWhileReferenced`: the second increments a count that is 0 already,
  sees 2 and works inside a handle that is being cleaned up
  (`lusbk_handles.c:82`). They break `FreedSlotReturns` too. The application
  has to stop using a handle before it frees it.
- `OvlK_Wait` releases an OVERLAPPED whose cancelled transfer has not ended if
  RELEASE_ON_FAIL is set (`lusbk_overlapped.c:325`), and does not release after
  RELEASE_ON_TIMEOUT if CancelIoEx comes in time (`:303`). If the wait or the
  cancel fails it releases a transfer that was not even cancelled (`:316`, `330`):
  `NoReuseUncancelled` excepts these (`blind`), and says that there is no other way.
- The Error path of `OvlK_Init` gives up the reference on the UsbK handle twice
  (`lusbk_overlapped.c:181-184` and `Cleanup_OvlPoolK`).

- `LibK_GetContext` and `LibK_SetContext` take no reference
  (`lusbk_usb.c:377`), so the slot may belong to another handle by then.
- A list belongs to one thread: LstK_DetachInfo and LstK_AttachInfo decide with
  an interlocked exchange but change the links without a lock
  (`lusbk_device_list.c:1366`, `1404`).
- HotK_Free counts HotLockCount down before its message is handled: a last free
  that overlaps an init destroys the window the init is about to use
  (`lusbk_hot_plug.c:772`, `720`). `HotPlug!MayCall` lets calls overlap only
  while some handle is neither new nor being freed.
- UsbK_SetConfiguration with other calls on the device (`ConfigAlone = FALSE`),
  and two claims, or settings, of one interface through one file: the notes are
  written after the driver answered and may come in the other order
  (`InterfaceStack!Undisturbed`).

### Known deviations

Behaviours the models have, or would have with one constant changed, that
disagree with what the documentation or the surrounding code suggests. Where a
constant is named, each can be seen by changing it.

- `HotPlug`: a HotK_Init right after the last HotK_Free
  may find the old hot thread before its last two statements
  (`lusbk_hot_plug.c:692-693`), which then set the new ThreadHandle to NULL, so
  that the start fails or a wait for the window gives up, and destroy the new heap
  with the device list in it. `MonitorIntact` excepts this (`upset`); window, thread and list stay.
- `BulkRead`: mXfer_SubmitNextRead sets OverOfs before
  the stage into the overrun buffer is sent (`sys/drv_xfer_bulk.c:79`), and when
  that stage fails or times out it is not cleared (`:342`), although
  `sys/drv_private.h:291-293` calls it a valid range of bytes left over from a
  previous read; the next read delivers bytes that never came: `junk = 0` fails.
- `OvlPool`: the test of RELEASE_ON_TIMEOUT holds with CANCEL_ON_TIMEOUT alone,
  so a CancelIoEx that fails releases the handle (`lusbk_overlapped.c:316`),
  against `../includes/libusbk.h:2400` ("cancel it, but do not release"). A wait
  that fails is taken for a transfer that "failed and will never complete"
  (`:329`), and RELEASE_ON_FAIL releases it in flight.
- `PipeQueue`: Pipe_InitContext requires that "IoTarget must be stopped"
  (`sys/drv_pipe.c:378`). Pipe_RefreshQueue (`:137`, `144`) and SET_INTERFACE
  stop the pipe without its target, and RESET_DEVICE does not stop a pipe that
  is not valid. `RebuildWhileStopped` asks for it of a flush.
- `DeviceList`: a sync takes infos that are news from under the slave's cursor
  (`lusbk_device_list.c:355-357`); the cursor then walks on in the master list.
  `CursorOnList` excepts it (`stray`).
- `OvlPool`, `FreeUnused = TRUE`: a pool freed before each element was acquired
  once leaves its lists to the next pool in the slot (`lusbk_overlapped.c:40-53`),
  which hands out freed handles; `PoolPartition` fails.
- `Stream`, MaxPendingIO 4: unlinking a completed OVERLAPPED a second time
  (`lusbk_queued_stream.c:366`) makes a ring of the free list with an OVERLAPPED
  in it that is in flight, so more transfers than MaxPendingIO
  (`../includes/libusbk.h:4684`) are submitted. With up to three OVERLAPPEDs one
  is lost to the list now and then but none is shared.
- `HotPlug`, `CallsAfterEnd = TRUE`: the error path of HotK_Init leaves
  HotLockCount raised (`lusbk_hot_plug.c:757`), and HotK_FreeAll counts nothing
  down; the next HotK_Init does not start the monitor, sends its message to no
  window and returns TRUE without a handle. `InitGivesHandle` fails.
- When the window cannot be made the hot thread destroys the heap
  (`lusbk_hot_plug.c:693`) before the caller frees the list that lies in it
  (`:757`); `HeapOutlivesList` excepts this caller.
- WM_USER_NOTIFY_HOT_HANDLE clears the flags of the whole list
  (`lusbk_hot_plug.c:429`, `195-203`), so a removal that was flagged and not yet
  reported is not reported to anybody; the list itself stays right.
- UsbStack_Rebuild succeeds only if exactly two references are left
  (`lusbk_stack_collection.c:387-398`), that is with exactly one other handle on
  the device; without one the device count goes to 0 and below, it fails and the
  configuration stays changed with the old stack. `../includes/libusbk.h:3222-3223`
  suggests the opposite.
- After a rebuild the interfaces are numbered on from the old InterfaceCount
  (`lusbk_stack_collection.c:113`), so index 0, which the rebuild selects
  (`:402`), is not the index of any, nor is what other handles had selected.
  `memset` clears the size of a pointer (`:403`), so notes of
  claims and settings of the old configuration remain, at the old indexes. `ClaimCacheExact` and `SelectedExists` are about the
  time before, `AltCacheExact` about settings that were set or read since.
- UsbStack_Init without memory for the stack returns without giving its
  references up (`lusbk_stack_collection.c:237`): `lost`.
- The note of an alternate setting starts at 0 whatever the device is in; it is
  right once the handle's file has set or read it (`known`).
- Full-speed intervals of 3 and of 5 and more have table entries
  (`sys/drv_xfer_iso.c:31-39`) that differ from 2^(bInterval-1); `Duration` uses
  the table at full speed, so `FramesContiguous` does not judge it.
- A failed frame-number fetch clears IsFreshPipeReset and leaves NextFrameNumber
  0 (`sys/drv_xfer_iso.c:76-82`): the next transfer is given frame 0. `lastEnd`
  is -1 then, and `StartsAhead` is about the step that follows the reset.
- ISO_NUM_FIXED_PACKETS is checked with a rounded quotient
  (`sys/drv_xfer_iso.c:678`), so packets of one byte more than the endpoint
  takes pass; `PacketsFillBuffer` excepts them.
- With nothing pending the stream thread sleeps although FinishedTemp holds
  transfers (`lusbk_queued_stream.c:521`), against the comment of line 508.

What the properties of `Stream` except, all of which TLC finds if the exception
is taken out:

- A transfer is lost (`lost`) when the stream thread ends between
  QueueUserAPC and the count of the APC (`lusbk_queued_stream.c:36`, `41`); the
  count then stays 1, and a stop of the next thread never ends (`:559`).
- A caller that saw the thread not started appends to Queued by itself, without
  a lock; if a thread has started meanwhile, or another caller does the same,
  that is a data race (`:43-51`), given both outcomes and `clean` cleared.
- The error path of a read puts its transfers back at the head of Finished one
  by one, which reverses them (`:931`).
- StmK_Free ignores that Stm_StopInternal failed (`:754`), so it frees a stream
  whose thread is about to end after a failure; `FreedIsStopped` excepts
  `failed`.
- StmK_Start spins for ever when the thread fails at once (`:786`).
  No property is claimed here.

## 4. Proofs

`HandlePool_proofs` proves, for every finite set of threads and every pool size:

- `TypeCorrect`: `Spec => []TypeOK`, late calls included;
- `SoloScanIsComplete`: `Spec => []SoloScanComplete`, late calls included;
- `CountIsExact`: `~LateCalls => (Spec => []RefExact)`;
- `CleanupIsSafe`: `~LateCalls => (Spec => []NoCleanupWhileReferenced)`;
- `DisposedOnce`: `~LateCalls => (Spec => []OneDisposer)`; no run checks it, for
  `RefExact` and `ImplementsLifetime` cover it on the instance.

They assume that the set of threads is finite, `NoThread` is not a thread and
the pool is not empty (the ASSUMEs of `HandlePool`).

`RefExact` is not inductive: whether a decrement reaches 0, and whether the
thread that gets there may dispose of the slot, depends on who is where. `IInv`
(at the end of `HandlePool`) adds four parts to it and to `TypeOK`:
`ControlInv`, what a thread may be doing at each program counter; `EntryInv`,
only calls on a handle the application still has, and the call that frees it,
are on their way in; `ReferencedInv`, a slot somebody has a reference on is in
use and not being disposed of, and it has one owner; `ZeroedInv`, a slot that
is being set up or disposed of has count 0 and belongs to one thread. The count
is the cardinality of the set of holders plus the owner's one, so each action's
lemma (`IncRefStep`, `DecRefStep`, ...) shows how that set changes and uses the
library's theorems on cardinalities. `FreshInv`, a handle that is still being
set up has only its owner's reference, is inductive relative to `IInv` and is
what `NoCleanupWhileReferenced` needs beside it.

`SoloScanComplete` looks at a scan's end only. `ScanInv` says what holds on the
way there: a slot that was free throughout the scan is free now; while the scan
draws alone, each such slot is still ahead of it (`Ahead`: between its position
and startPos, around the pool); and none is left when it reports a full pool. A
step that does not end the scan keeps them ahead, and one that comes round to
startPos has passed them all.

`HandlePool_proofs` also proves `PoolImplementsLifetime`: `~LateCalls` implies
that `Spec` implements `HandleLifetime!Spec` under the refinement mapping at the
end of `HandlePool`. A slot's phase is read off its words and the threads at
work on it (`SlotPhase`), `owned` is the history of handles not given up, and
`inside` the threads that hold a reference. Every action of the pool is one of
seven steps of the abstract specification or a stutter; that a decrement that
does not reach 0 leaves the slot alive, and one that does leaves it dead, is
what `IInv` and the cardinality lemmas are needed for.

Its second part proves, for any number of devices, lists and infos, any pattern
and any mask,

- `ListsAreConsistent`: `ListSpec => []ListsConsistent`;
- `InfosAreCounted`: `ListSpec => []InfosCounted`;
- `NewsAreTold`: `ListSpec => SyncTellsNews`;
- `MaskIsHonoured`: `ListSpec => SyncHonoursMask`.

They assume that there is at least one device, list and info (`NumAssumption`),
and what patterns and masks are (`SetAssumption`). `WellLinked` speaks of the chain
that a walk finds, which says nothing of a list in the middle of a change. `ListIInv`
says instead that there is a sequence without duplicates whose neighbours name
each other, whose first is the head and whose last is head.prev, and whose
elements are the infos that name the list as owner (`Linked`); that an info's
reference count follows from its slot being used and its having an owner
(`RefsOK`); that the infos off every list are `mine` (`Loose`); and that a cursor
is on its list unless it is stray (`Cursor`). What DL_APPEND and DL_DELETE do to that
sequence is one lemma each; a lemma shows that the walk finds the sequence. Each
operation (Attach, Detach, FreeInfo, AllocInfo, ...) then has a lemma that says
what it does to owners and to what is loose and that the rest of `Sound` is kept, and each
loop (FreeList, CloneInto, InitInternal, both passes of SyncLists) keeps an
invariant over its rounds, by first-order induction over a set of numbers
(`Smallest`). A loop that runs out of infos ends in a state for which the same
holds.

The two properties of a sync are action properties that follow from `ListIInv`,
but not from the invariant of its loops: they need what each pass has done to
every info when it is done with the infos D of the list it walks (`SlaveDone`,
`MasterDone`). The slave pass changes the list the searches of its later rounds
look at, so `SlaveRound` shows that an info that went over is never taken for
the twin of a later one; and what the master pass finds unflagged is a device
whose change the mask hid or one the slave list does not have (`Agree`,
`PassesSay`). `SyncSays` puts the passes together: for any two lists that name no
device twice, also a list with itself, `Synced` gives connection state, owner and
flags of every info. `NewsAreTold` adds what the list built for the sync holds
(`Filled`) and that freeing it touches no info that went over (`Spares`).

`BulkRead_proofs` proves, for packets, transfers and reads of every size,

- `ReadStaysInBuffers`: `Spec => []BuffersKept`;
- `ShortReadsExcused`: `Spec => []ShortReadHasReason`;
- `HaltFailsOneRead`: `Spec => []StallFailsOnce`;
- `StreamIsKept`: `Spec => []StreamExact`, whichever stages fail; what a read is
  given out of a range that no stage filled (`junk`) is told apart.

Here too the missing part is what a stage is (`StageInv`): it reads into the
user's buffer while nothing is left over, or a whole packet into the overrun
buffer, and then BufferLength is all the request still wants. For the stall,
`StallInv` adds that a failure is remembered until the pipe has been reset, and
that a read with AutoClearStall has seen to that before its first stage. For the
stream, `Exact` says of any sequence of bytes what `StreamExact` says of all of
them; one lemma says that it survives the bytes of a new stage, one that it
survives dropping the overrun buffer, and the actions only move bytes between
what was delivered, the request and the overrun buffer.

`BulkRead_proofs` also extends `BulkWrite` and proves `WireIsBuffer`:
`WriteSpec => []BufferOnWire` for packets, transfers and requests of every size,
from the three ASSUMEs of `BulkPipe`.
`BufferOnWire` is not inductive, for it does not say what a stage is; `WriteStageInv`
adds that the USB stack has a stage exactly while the queue has a request, that
the stage starts at Transferred and has the length mXfer_SubmitNextWrite gives
it, and that nothing is left once a zero-length packet was sent. The one fact
about sequences is `SentContinued`: a stage appended to what was sent continues
it.

`IsoXfer_proofs` proves, for every packet size, length, number of packets and
interval,

- `PacketsFit`: `Spec => []TransfersWellFormed`;
- `NoGapNoOverlap`: `Spec => []FramesContiguous`;
- `FirstStartsAhead`: `Spec => StartsAhead`, an action property;
- `ReadsInOrder`: `Spec => []ReadInOrder`.

They assume `IsoAssumption`: among other things that the limit on packets at
high speed is a multiple of 8, as the code's 1024 is (`sys/drv_xfer_iso.c:539`),
or a read could end in the middle of a frame. The proof has a lemma for each way
in which packets are laid out (`ReadPackets`, `WriteOffset`, the
application's offsets) with the division and remainder each needs; the induction
over time only adds that a frame number that is used as it is was left by the
transfer sent last (`Chain`). `ReadsInOrder` is an
induction over the rounds of the loop that closes the holes: `Packed` says that
after i rounds the data of the first i packets is at the start of the buffer, that
the packets not reached yet are where the device put them, and that nothing was
moved as long as no packet was short; `PacketMoved` keeps it over a round,
although the two areas of a move may overlap. The library's induction theorems
take an operator, so the induction is first-order: `Smallest` and `UpTo` are about
sets of numbers, `LoopExists` shows that a function computed round by round
exists, and `Flattened` gives the rounds of `FlattenSeq`, which the property uses.

`PipeQueue_proofs` proves, for any finite set of calls and any set of uses that
satisfies `HandlersApart`, that `Spec` implies `[]QueueConsistent`
(`QueueIsConsistent`), `[]OneStagedTransfer` (`OneStagedAtATime`),
`[]NoUseAfterDelete` (`NoDeletedQueueUsed`) and `[]PipeServes` (`RestServes`).
`HandlersApart` says that no two handlers overlap and a stopped pipe can be
restarted (`Serial`), or that any number of transfers overlap one flush or reset
at a time (`Transfers`); the uses of the run satisfy it, and section 3 lists
what goes wrong without it. The invariant follows the
handlers' program: at most one of them is a mover (`OneMover`), `Phase` says
what that one finds at each place of Pipe_Stop, Pipe_InitContext and Pipe_Start,
and with no mover the pipe is `Up` or `Down`. Each place's lemma hands the
assertion on to the next place. `RequestsOK` and `CopyOK` say that requests
are in the pipe's queue and were sent under its policy.

`OvlPool_proofs` proves, for any number of pools, OverlappedK slots and
elements, `PoolsStayConsistent`: `~FreeUnused => (Spec => []PoolConsistent)`, and
`NoReuseInFlight`: `~FreeUnused => (Spec => []NoReuseUncancelled)`. They assume
that the bounds on elements and inits are positive (`BoundAssumption`). The invariant has for
each pool that its two lists have no duplicates and share out its elements
(`Shares`), that elements and handles name each other and a released element's
transfer is not pending unless it is `blind` (`Linked`), and that what the
application holds is the image of the acquired list; that every pool's array is
its own, although a freed slot's handles and elements stay where they are
(`Arrays`); and that OvlK_Wait waits for a handle the application has, and knows
at its second look that the transfer is not pending any more (`Waiting`). Why a
pool that inherits lists breaks it (`FreeUnused`) is among the known deviations.

`InterfaceStack_proofs` proves, for any number of threads, handles, devices and
configurations, with `ConfigAlone` as hypothesis (UsbK_SetConfiguration does not
overlap other calls on its device),

- `CountsAreExact`: `Spec => []RefsConsistent`;
- `ClaimsAreExact`: `Spec => []ClaimsExact`;
- `SettingIsActive`: `Spec => []AltCacheExact`.

They assume that threads and handles are finitely many and what a configuration
is (`ConfigAssumption`). What the properties leave out is what a call knows while it is
between its steps: `CallKind` and `CallOn` say of each call that the interface
it looked up is still the one it is about, that the answer it carries is still
the driver's, and how many references a rebuild has taken; `Apart`, that a
rebuild is alone on its device and no two calls of one file are about one
claim or setting. The invariant is stated of pools and calls given as
parameters, because a call notes its answer and leaves in one step: `Rest` holds
of the pools with the answer noted, and `DecOK`, the lemma about
PoolHandle_Dec that every leaving call and UsbK_Free cite, takes it from there to the next state.

`HotPlug_proofs` proves, for any number of threads, devices, handles and slots,
with `~CallsAfterEnd` as hypothesis (the application does not call HotK_Init
again after a start that failed or after HotK_FreeAll; the known deviations say
what happens if it does), but also when a start overtakes the end of the last
hot thread,

- `CountsStayExact`: `Spec => []CountsExact`;
- `MonitorStaysIntact`: `Spec => []MonitorIntact`;
- `HandlesStayServed`: `Spec => []HandlesServed`.

They assume that threads and handles are finitely many. The thread that makes
the window, or that destroys it, may fail at any step that can fail in the code.
What makes the properties hold is who may be at work at the same time, so the
invariant says of each place of the hot thread what exists then and where the
calls are that start and stop it (`ThreadInv`), heap and thread handle unless
`upset`, which it ties to the threads that were overtaken; that the first HotK_Init, the
last HotK_Free and HotK_FreeAll are alone, and that every other call goes on
beside a handle nobody is freeing (`CallInv`); that a call that counted
HotLockCount down to 0 frees the last handle (`LastInv`); that each message in
the window's queue is that of a call that waits for its answer (`SentInv`); that
the list holds the application's handles, but for those whose caller has not
seen the answer yet (`AnswerInv`); and that both counts are cardinalities of sets
of handles (`CountInv`). There is one lemma for each action and each of these parts it can
disturb; `WithoutIs` and `AppendedIs` say what a removal and an addition do to
the elements of a list without duplicates.

`Stream_proofs` proves, for any finite set of callers, any number of transfers
and OVERLAPPEDs and every stream of `Setups`,

- `Consistent`: `Spec => []StreamConsistent`;
- `Ordered`: `Spec => []InOrder`;
- `Freed`: `Spec => []FreedIsStopped`.

They assume that the callers are finitely many and are neither the device nor
the application thread (`UserAssumption`). Nothing is assumed of what fails or
races: the exceptions are those the properties state (`lost`, `clean`,
`failed`). The invariant has one part for each thing the steps rely on.
`ThreadInv` says that the thread ends by itself only after a failure and that
the application thread knows whether it runs; `HandInv`, that the links of the
free OVERLAPPEDs stay links whatever the second DL_DELETE does, and that no APC
waits for a thread that has ended; `CallInv`, that the lock's owner is the
one call inside it and that a call has locals only while it works on a transfer;
`ListInv` (`NoRepeats`, `OnePlace`, `SomePlace`), that every transfer is in
one place, list by list, where `TransferConserved` says it of their
concatenation; `SemInv`, that the semaphore's count and the callers on their way
to the lock make up the Finished list; `DataInv`, what a transfer carries and
how much. `InOrder` also needs `FlyingInv`: transfers end in the order in which
they were submitted, a read has no bytes before it has ended, and what a caller
is about to queue is its own. The last two hold only while `clean`, for a failed
claim (`Restore`) writes back bytes to a transfer that another caller may
have claimed, emptied and queued again.

Each action has one lemma, and what an action does to the lists is the work of a
few others: `OnTheWay` is a concatenation of what each transfer carries, so that
moving a transfer from the end of one list to the head of the next moves its bytes
(`MovesHead`), a transfer of another source carries none, and the bytes a call
puts in or takes out extend or cut the run from `left` to `entered`
(`CutsRun`). The loop of a call over its transfers is followed round by round
(`Piece`), again with first-order induction over a set of numbers.

Only checked by TLC: the liveness properties, for the prover does not handle
fairness.

## 5. Not modelled

- Control transfers and raw bulk transfers beyond their place in a queue: each is
  one request without state of its own.
- The handles of isochronous packets in the DLL (`lusbk_usb_iso*.c`): arithmetic
  on arrays of one caller. What the driver does with the packets is `IsoXfer`.
- Power policies, PnP start and removal: settings and callbacks of the framework.
- Broadcasts of power events to hot-plug handles, and devices with several
  interfaces of one device instance.
- The WinUSB and libusb0 backends, which have the calls of the libusbK backend
  without its notes.
- Time: a time-out may happen whenever the wait or the stage is pending.
- In `Stream`: a CancelIo that fails or takes effect late (it ends everything in
  flight), a NULL TransferredLength, the checks of parameters, a thread that
  cannot be created (it leaves the stream as it was).
- Contents of descriptors, registry values and log messages.
- The framework and the USB stack, apart from what the modelled code asks of them.
- Tools, installer, bindings, examples and firmware.

## 6. Plan

1. `PipePolicies`: all policies of Policy_SetPipe with their lost updates
   (`sys/drv_policy.c:537`); PnP and power composed with `PipeQueue`.
2. `IsochK`: the life of a packet-array handle (`lusbk_usb_isoch.c:105` gives up
   its handle before it has set its UsbK handle).
