----------------------------- MODULE PipeQueue ------------------------------
(***************************************************************************)
(* The life of one bulk or interrupt pipe in the kernel driver: its        *)
(* PIPE_CONTEXT (drv_pipe.c), the WDF queue it owns, and the handlers of   *)
(* the default queue that use it: transfers that are forwarded to the pipe *)
(* queue (drv_queue_default.c), SET_PIPE_POLICY for RAW_IO (drv_policy.c), *)
(* FLUSH_PIPE, RESET_DEVICE (drv_device.c) and SET_INTERFACE               *)
(* (drv_interface.c).                                                      *)
(*                                                                         *)
(* The default queue is parallel and the handlers take no lock, so they    *)
(* interleave at each access of the shared context.  A call that forwards  *)
(* a transfer goes on as the request: waiting in a queue, then presented   *)
(* to the driver, until it is completed.                                   *)
(***************************************************************************)
EXTENDS Integers, FiniteSets

CONSTANTS
    Calls,      \* I/O requests that the driver can have at a time
    Uses        \* ways in which an application uses the pipe, records of
                \* ops: the operations it uses
                \* exclusive: those it never lets overlap each other
                \* failures: WDF calls that may fail: "create" a queue, "start"
                \*    the I/O target, "select" an alternate setting

AllOps == {"forward", "raw_on", "raw_off", "flush", "reset", "alt"}

ASSUME CallAssumption == IsFiniteSet(Calls)
ASSUME UseAssumption == \A u \in Uses :
    /\ u.ops \subseteq AllOps /\ u.exclusive \subseteq u.ops
    /\ u.failures \subseteq {"create", "start", "select"}

\* The uses whose handlers stay apart.  Serial: no two handlers overlap, and a
\* pipe that is stopped can be started again.  Transfers: any number of transfers
\* overlap one flush or reset.
Serial(u) == u.exclusive = u.ops /\ "start" \notin u.failures
Transfers(u) == /\ u.ops \subseteq {"forward", "flush", "reset"}
                /\ u.exclusive = u.ops \ {"forward"}
HandlersApart == \A u \in Uses : Serial(u) \/ Transfers(u)

VARIABLES
    isValid,    \* PIPE_CONTEXT.IsValid
    dirty,      \* PIPE_CONTEXT.IsQueueDirty
    rawIO,      \* PIPE_CONTEXT.Policies.RawIO
    queue,      \* PIPE_CONTEXT.Queue: a queue, or NoQueue
    configured, \* the pipe is one of the interface's current alternate setting
    target,     \* the I/O target of the pipe is started
    wdf,        \* the WDF queue objects
    call,       \* the calls, and the requests they forward
    use         \* how the application uses the pipe

pipeVars == <<isValid, dirty, rawIO, queue, configured, target>>
moving == <<pipeVars, wdf, call>>
vars == <<moving, use>>

NoQueue == 0
Queues == 1 .. 2 * Cardinality(Calls) + 2
QueueStates == {"deleted", "running", "purged"}

Places == {"idle", "waiting", "presented",
           "check", "dirty", "context", "policies", "send",
           "p_check", "p_dirty", "p_store",
           "s_test", "s_clear", "s_purge", "s_wait", "s_target", "s_drain", "select",
           "t_test", "i_dirty", "i_clear", "i_delete", "i_create", "i_target",
           "i_start", "i_valid"}

\* q: the queue handle in a local variable, or the queue the request is in.
\* raw: the RawIO policy in a local variable, or the request's copy.
NoCall == [op |-> "none", at |-> "idle", q |-> NoQueue, raw |-> FALSE, cancelled |-> FALSE]

\* The pipe after Device_Configure
Init ==
    /\ isValid = TRUE
    /\ dirty = FALSE
    /\ rawIO = FALSE
    /\ queue = 1
    /\ configured = TRUE
    /\ target = TRUE
    /\ wdf = [q \in Queues |-> [state |-> IF q = 1 THEN "running" ELSE "deleted",
                                parallel |-> FALSE]]
    /\ call = [c \in Calls |-> NoCall]
    /\ use \in Uses

At(c, place) == call[c].at = place
Goto(c, place) == call' = [call EXCEPT ![c].at = place]
End(c) == call' = [call EXCEPT ![c] = NoCall]
InQueue(c, q) == call[c].at \in {"waiting", "presented"} /\ call[c].q = q
Handling(c) == call[c].at \notin {"idle", "waiting", "presented"}

\* A queue object nobody has a handle of.
Fresh(q) == q # queue /\ \A c \in Calls : call[c].q # q

\* What the default queue's handler of each operation starts with.
Entry(op) == CASE op = "forward" -> "check"
               [] op \in {"raw_on", "raw_off"} -> "p_check"
               [] op = "flush" -> "check"
               [] op \in {"reset", "alt"} -> "s_test"

\* DefaultQueue_OnIoControl, DefaultQueue_OnRead and DefaultQueue_OnWrite
BeginCall(c, op) ==
    /\ At(c, "idle")
    /\ op \in use.exclusive =>
           \A d \in Calls : Handling(d) => call[d].op \notin use.exclusive
    /\ op = "reset" => configured
    /\ call' = [call EXCEPT ![c] = [NoCall EXCEPT !.op = op,
                   !.at = IF op = "alt" /\ ~configured THEN "select" ELSE Entry(op)]]
    /\ UNCHANGED <<pipeVars, wdf>>

-----------------------------------------------------------------------------
\* mRequest_InitAndForwardToQueue (and the same test of FLUSH_PIPE)
ForwardCheck(c) ==
    /\ At(c, "check")
    /\ IF isValid /\ queue # NoQueue
       THEN Goto(c, IF call[c].op = "flush" THEN "s_test" ELSE "dirty")
       ELSE End(c)
    /\ UNCHANGED <<pipeVars, wdf>>

ForwardDirty(c) ==
    /\ At(c, "dirty")
    /\ Goto(c, IF dirty THEN "s_test" ELSE "context")
    /\ UNCHANGED <<pipeVars, wdf>>

ForwardContext(c) ==
    /\ At(c, "context")
    /\ call' = [call EXCEPT ![c].at = "policies", ![c].q = queue]
    /\ UNCHANGED <<pipeVars, wdf>>

ForwardPolicies(c) ==
    /\ At(c, "policies")
    /\ call' = [call EXCEPT ![c].at = "send", ![c].raw = rawIO]
    /\ UNCHANGED <<pipeVars, wdf>>

\* Mutant: the request is forwarded to the queue of the saved context.
ForwardSendSaved(c) ==
    /\ At(c, "send")
    /\ call' = [call EXCEPT ![c].at = "waiting"]
    /\ UNCHANGED <<pipeVars, wdf>>

\* WdfRequestForwardToIoQueue fails on a queue that is purged.
ForwardSend(c) ==
    /\ At(c, "send")
    /\ IF queue # NoQueue /\ wdf[queue].state = "running"
       THEN call' = [call EXCEPT ![c].at = "waiting", ![c].q = queue]
       ELSE End(c)
    /\ UNCHANGED <<pipeVars, wdf>>

-----------------------------------------------------------------------------
\* Policy_SetPipe(RAW_IO): the queue is marked dirty before the policy, a local
\* copy until then, is stored.
PolicyCheck(c) ==
    /\ At(c, "p_check")
    /\ IF isValid THEN call' = [call EXCEPT ![c].at = "p_dirty", ![c].raw = rawIO] ELSE End(c)
    /\ UNCHANGED <<pipeVars, wdf>>

\* Mutant: the queue is not marked dirty when RAW_IO is switched off.
PolicyDirtyOnOnly(c) ==
    /\ At(c, "p_dirty")
    /\ dirty' = (dirty \/ (call[c].op = "raw_on" /\ ~call[c].raw))
    /\ Goto(c, "p_store")
    /\ UNCHANGED <<isValid, rawIO, queue, configured, target, wdf>>

PolicyDirty(c) ==
    /\ At(c, "p_dirty")
    /\ dirty' = (dirty \/ call[c].raw # (call[c].op = "raw_on"))
    /\ Goto(c, "p_store")
    /\ UNCHANGED <<isValid, rawIO, queue, configured, target, wdf>>

PolicyStore(c) ==
    /\ At(c, "p_store")
    /\ rawIO' = (call[c].op = "raw_on")
    /\ End(c)
    /\ UNCHANGED <<isValid, dirty, queue, configured, target, wdf>>

-----------------------------------------------------------------------------
\* Pipe_Stop.  RESET_DEVICE and SET_INTERFACE go on if it fails.
AfterStop(op) == IF op = "alt" THEN "select" ELSE "t_test"

StopTest(c) ==
    /\ At(c, "s_test")
    /\ IF isValid THEN Goto(c, "s_clear")
       ELSE IF call[c].op \in {"reset", "alt"} THEN Goto(c, AfterStop(call[c].op))
       ELSE End(c)
    /\ UNCHANGED <<pipeVars, wdf>>

\* Mutant: the context stays marked valid.
StopClearSkipped(c) ==
    /\ At(c, "s_clear")
    /\ Goto(c, "s_purge")
    /\ UNCHANGED <<pipeVars, wdf>>

StopClear(c) ==
    /\ At(c, "s_clear")
    /\ isValid' = FALSE
    /\ Goto(c, "s_purge")
    /\ UNCHANGED <<dirty, rawIO, queue, configured, target, wdf>>

\* Mutant: WdfIoQueuePurge, which does not wait.
StopPurgeAsync(c) ==
    /\ At(c, "s_purge")
    /\ IF queue = NoQueue THEN UNCHANGED wdf
       ELSE wdf' = [wdf EXCEPT ![queue].state = "purged"]
    /\ Goto(c, "s_target")
    /\ UNCHANGED pipeVars

\* Mutant: Queue_OnStop ignores WdfRequestStopActionPurge.
StopPurgeNoCancel(c) ==
    /\ At(c, "s_purge")
    /\ IF queue = NoQueue
       THEN Goto(c, "s_target") /\ UNCHANGED wdf
       ELSE /\ wdf' = [wdf EXCEPT ![queue].state = "purged"]
            /\ call' = [d \in Calls |->
                  IF d = c THEN [call[c] EXCEPT !.at = "s_wait", !.q = queue]
                  ELSE IF InQueue(d, queue) /\ call[d].at = "waiting" THEN NoCall
                  ELSE call[d]]
    /\ UNCHANGED pipeVars

\* WdfIoQueuePurgeSynchronously cancels what waits in the queue and calls
\* EvtIoStop for what was presented; only a sequential queue has one
\* (Queue_OnStop, which cancels the sent request).
StopPurge(c) ==
    /\ At(c, "s_purge")
    /\ IF queue = NoQueue \/ wdf[queue].state = "deleted"
       THEN Goto(c, "s_target") /\ UNCHANGED wdf
       ELSE /\ wdf' = [wdf EXCEPT ![queue].state = "purged"]
            /\ call' = [d \in Calls |->
                  IF d = c THEN [call[c] EXCEPT !.at = "s_wait", !.q = queue]
                  ELSE IF InQueue(d, queue) /\ call[d].at = "waiting" THEN NoCall
                  ELSE IF InQueue(d, queue) /\ ~wdf[queue].parallel
                       THEN [call[d] EXCEPT !.cancelled = TRUE]
                  ELSE call[d]]
    /\ UNCHANGED pipeVars

StopWait(c) ==
    /\ At(c, "s_wait")
    /\ \A d \in Calls : ~InQueue(d, call[c].q)
    /\ Goto(c, "s_target")
    /\ UNCHANGED <<pipeVars, wdf>>

\* PipeStop cancels what was sent to the pipe and waits for it.
StopTarget(c) ==
    /\ At(c, "s_target")
    /\ IF call[c].op \in {"flush", "reset"}
       THEN /\ target' = FALSE
            /\ call' = [d \in Calls |->
                  IF d = c THEN [call[c] EXCEPT !.at = "s_drain"]
                  ELSE IF At(d, "presented") THEN [call[d] EXCEPT !.cancelled = TRUE]
                  ELSE call[d]]
       ELSE Goto(c, AfterStop(call[c].op)) /\ UNCHANGED target
    /\ UNCHANGED <<isValid, dirty, rawIO, queue, configured, wdf>>

StopDrain(c) ==
    /\ At(c, "s_drain")
    /\ \A d \in Calls : ~(At(d, "presented") /\ call[d].cancelled)
    /\ Goto(c, AfterStop(call[c].op))
    /\ UNCHANGED <<pipeVars, wdf>>

-----------------------------------------------------------------------------
\* Pipe_Start and Pipe_InitContext
StartTest(c) ==
    /\ At(c, "t_test")
    /\ IF isValid THEN End(c)
       ELSE call' = [call EXCEPT ![c].at = "i_dirty", ![c].q = queue]
    /\ UNCHANGED <<pipeVars, wdf>>

InitDirty(c) ==
    /\ At(c, "i_dirty")
    /\ Goto(c, IF call[c].q = NoQueue \/ dirty THEN "i_clear" ELSE "i_target")
    /\ UNCHANGED <<pipeVars, wdf>>

InitClear(c) ==
    /\ At(c, "i_clear")
    /\ dirty' = FALSE
    /\ Goto(c, IF call[c].q = NoQueue THEN "i_create" ELSE "i_delete")
    /\ UNCHANGED <<isValid, rawIO, queue, configured, target, wdf>>

InitDelete(c) ==
    /\ At(c, "i_delete")
    /\ wdf' = [wdf EXCEPT ![call[c].q].state = "deleted"]
    /\ Goto(c, "i_create")
    /\ UNCHANGED pipeVars

\* Mutants: the queue is created for the opposite policy; Queue is not cleared
\* when the creation fails.
InitCreateSequential(c) ==
    /\ At(c, "i_create")
    /\ LET new == CHOOSE q \in Queues : Fresh(q)
       IN  /\ wdf' = [wdf EXCEPT ![new] = [state |-> "running", parallel |-> ~rawIO]]
           /\ queue' = new
           /\ call' = [call EXCEPT ![c].at = "i_target", ![c].q = new]
    /\ UNCHANGED <<isValid, dirty, rawIO, configured, target>>

InitCreateKeepsOld(c) ==
    /\ At(c, "i_create")
    /\ \/ LET new == CHOOSE q \in Queues : Fresh(q)
          IN  /\ wdf' = [wdf EXCEPT ![new] = [state |-> "running", parallel |-> rawIO]]
              /\ queue' = new
              /\ call' = [call EXCEPT ![c].at = "i_target", ![c].q = new]
       \/ /\ End(c)
          /\ UNCHANGED <<wdf, queue>>
    /\ UNCHANGED <<isValid, dirty, rawIO, configured, target>>

\* Pipe_InitQueueConfig and Pipe_InitQueue, which may fail
InitCreate(c) ==
    /\ At(c, "i_create")
    /\ \/ LET new == CHOOSE q \in Queues : Fresh(q)
          IN  /\ wdf' = [wdf EXCEPT ![new] = [state |-> "running", parallel |-> rawIO]]
              /\ queue' = new
              /\ call' = [call EXCEPT ![c].at = "i_target", ![c].q = new]
              /\ UNCHANGED isValid
       \/ /\ "create" \in use.failures
          /\ queue' = NoQueue
          /\ isValid' = FALSE
          /\ End(c)
          /\ UNCHANGED wdf
    /\ UNCHANGED <<dirty, rawIO, configured, target>>

\* PipeStart, which may fail
InitTarget(c) ==
    /\ At(c, "i_target")
    /\ \/ /\ target' = (target \/ call[c].op \in {"flush", "reset"})
          /\ Goto(c, "i_start")
          /\ UNCHANGED isValid
       \/ /\ "start" \in use.failures /\ call[c].op \in {"flush", "reset"}
          /\ isValid' = FALSE
          /\ End(c)
          /\ UNCHANGED target
    /\ UNCHANGED <<dirty, rawIO, queue, configured, wdf>>

InitStart(c) ==
    /\ At(c, "i_start")
    /\ wdf' = [wdf EXCEPT ![call[c].q].state = IF @ = "deleted" THEN @ ELSE "running"]
    /\ Goto(c, "i_valid")
    /\ UNCHANGED pipeVars

InitValid(c) ==
    /\ At(c, "i_valid")
    /\ isValid' = TRUE
    /\ IF call[c].op = "forward" THEN Goto(c, "context") ELSE End(c)
    /\ UNCHANGED <<dirty, rawIO, queue, configured, target, wdf>>

-----------------------------------------------------------------------------
\* Interface_SetAltSetting, the setting selected or not; a setting may lack the
\* pipe.  Interface_DeletePipesAndQueues deletes the queue.
SelectSetting(c) ==
    /\ At(c, "select")
    /\ \/ /\ "select" \in use.failures
          /\ IF configured THEN Goto(c, "t_test") ELSE End(c)
          /\ UNCHANGED <<queue, configured, target, wdf>>
       \/ \E has \in BOOLEAN :
             LET deletes == configured /\ ~isValid /\ queue # NoQueue
             IN  /\ configured' = has
                 /\ target' = TRUE
                 /\ queue' = IF deletes THEN NoQueue ELSE queue
                 /\ wdf' = IF deletes THEN [wdf EXCEPT ![queue].state = "deleted"] ELSE wdf
                 /\ IF has THEN Goto(c, "t_test") ELSE End(c)
    /\ UNCHANGED <<isValid, dirty, rawIO>>

-----------------------------------------------------------------------------
\* The framework presents a request: a sequential queue one at a time.
Present(c) ==
    /\ At(c, "waiting")
    /\ wdf[call[c].q].state = "running"
    /\ wdf[call[c].q].parallel \/ \A d \in Calls : ~(At(d, "presented") /\ InQueue(d, call[c].q))
    /\ Goto(c, "presented")
    /\ UNCHANGED <<pipeVars, wdf>>

\* The transfer ends: the device answered, or it was cancelled, or the I/O
\* target does not take it.
Complete(c) ==
    /\ At(c, "presented")
    /\ End(c)
    /\ UNCHANGED <<pipeVars, wdf>>

Handler(c) ==
    \/ ForwardCheck(c) \/ ForwardDirty(c) \/ ForwardContext(c) \/ ForwardPolicies(c)
    \/ ForwardSend(c)
    \/ PolicyCheck(c) \/ PolicyDirty(c) \/ PolicyStore(c)
    \/ StopTest(c) \/ StopClear(c) \/ StopPurge(c) \/ StopWait(c) \/ StopTarget(c)
    \/ StopDrain(c)
    \/ StartTest(c) \/ InitDirty(c) \/ InitClear(c) \/ InitDelete(c) \/ InitCreate(c)
    \/ InitTarget(c) \/ InitStart(c) \/ InitValid(c)
    \/ SelectSetting(c)

Next ==
    /\ UNCHANGED use
    /\ \E c \in Calls :
        \/ \E op \in use.ops : BeginCall(c, op)
        \/ Handler(c) \/ Present(c) \/ Complete(c)

Spec == Init /\ [][Next]_vars

\* Handlers run, queues present, and the USB stack completes what is cancelled
\* or cannot be sent; a device need not answer.
Unanswered(c) == call[c].cancelled \/ ~target
Fairness == \A c \in Calls :
    /\ WF_moving(Handler(c))
    /\ WF_moving(Unanswered(c) /\ Complete(c))
FairSpec == Spec /\ Fairness

-----------------------------------------------------------------------------
\* Every variable has its type.
TypeOK ==
    /\ {isValid, dirty, rawIO, configured, target} \subseteq BOOLEAN
    /\ queue \in Queues \cup {NoQueue}
    /\ wdf \in [Queues -> [state : QueueStates, parallel : BOOLEAN]]
    /\ use \in Uses
    /\ call \in [Calls -> [op : AllOps \cup {"none"}, at : Places,
                           q : Queues \cup {NoQueue}, raw : BOOLEAN, cancelled : BOOLEAN]]

Quiet == \A c \in Calls : ~Handling(c)

\* A pipe whose queue is not marked dirty has the queue its RAW_IO policy asks
\* for: a policy change is never forgotten.
QueueMatchesPolicy ==
    Quiet /\ isValid /\ ~dirty => wdf[queue].parallel = rawIO

\* What the comment "PRE REQUIREMENTS" asks for when Pipe_InitContext starts:
\* "IsValid == FALSE" and "Queue(if any) must be stopped", so a forward, flush or
\* reset that finds the pipe being rebuilt does not meet a queue that still runs.
\* "IoTarget must be stopped" the code sees to only when it stops the target too:
\* a refresh of the queue and SET_INTERFACE leave it started, and so does a reset
\* that finds the pipe invalid.
RebuildWhileStopped ==
    \A c \in Calls :
        /\ call[c].at \in {"i_dirty", "i_clear", "i_delete", "i_create", "i_target"} => ~isValid
        /\ call[c].at = "i_dirty" /\ call[c].q # NoQueue => wdf[call[c].q].state = "purged"
        /\ call[c].at = "i_dirty" /\ call[c].op = "flush" => ~target

\* The queue and the marks on it tell the truth: it is the one the policy asks
\* for, or it is marked dirty, and it is rebuilt only while the pipe is invalid
\* and nothing runs in it.
QueueConsistent == TypeOK /\ QueueMatchesPolicy /\ RebuildWhileStopped

\* "it is only used when the queue type is sequential": Xfer_ReadBulk and
\* Xfer_WriteBulk keep their progress in the context of the queue, so no two
\* of them may be at work on one queue.
OneStagedTransfer ==
    \A c, d \in Calls :
        /\ c # d /\ At(c, "presented") /\ At(d, "presented")
        /\ call[c].q = call[d].q
        => call[c].raw \/ call[d].raw

\* No handler uses the handle of a queue that was deleted, and no request is
\* in one.
NoUseAfterDelete ==
    \A c \in Calls :
        /\ call[c].at \in {"context", "send"} =>
               queue # NoQueue /\ wdf[queue].state # "deleted"
        /\ call[c].at \in {"i_delete", "i_start", "waiting", "presented"} =>
               wdf[call[c].q].state # "deleted"

\* "On return the pipe and queue are started and the context is marked valid
\* again": when no handler is at work, a valid pipe has a running queue and a
\* started I/O target, so that a transfer can be sent.  The target is left
\* stopped if a reset cannot create the queue: the next SET_INTERFACE makes the
\* pipe valid without starting it.
ValidMeansReady ==
    Quiet /\ isValid => /\ queue # NoQueue /\ wdf[queue].state = "running"
                        /\ target \/ "create" \in use.failures
                        /\ configured

\* A request that was forwarded is not stranded: when no handler is at work it
\* waits only in a running queue, also if it was forwarded during a purge or
\* the pipe could not be started again after it.
NoStrandedRequest ==
    Quiet => \A c \in Calls : At(c, "waiting") => wdf[call[c].q].state = "running"

\* When the handlers have come to rest, however flushes, transfers and resets
\* met, the pipe serves: what is valid runs, and nobody waits in a dead queue.
PipeServes == ValidMeansReady /\ NoStrandedRequest

\* "stop queue, cancel any outstanding requests": the purge of a queue ends
\* even if the device never answers, unless the queue is parallel, for such a
\* queue has no EvtIoStop that would cancel what was presented.
PurgeEnds ==
    \A c \in Calls :
        At(c, "s_wait") /\ ~wdf[call[c].q].parallel ~> ~At(c, "s_wait")
=============================================================================
