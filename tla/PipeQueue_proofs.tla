--------------------------- MODULE PipeQueue_proofs ---------------------------
(***************************************************************************)
(* Proofs about PipeQueue: for any number of calls, if the application     *)
(* keeps its handlers apart (HandlersApart: no two handlers overlap, or    *)
(* transfers overlap one flush or reset), the queue of the pipe is the one *)
(* its RAW_IO policy asks for and is rebuilt only while the pipe is        *)
(* stopped and empty, no handler uses a queue that was deleted, one staged *)
(* transfer at a time is in the driver, and a pipe at rest serves.         *)
(*                                                                         *)
(* The argument: at most one handler at a time, the mover, stops and       *)
(* starts the pipe, and Phase says what it finds at each of its places.    *)
(* Between two movers the pipe is Up, or Down with nobody in its queue.    *)
(***************************************************************************)
EXTENDS PipeQueue, FiniteSetTheorems, TLAPS

-----------------------------------------------------------------------------
(***************************************************************************)
(* The inductive invariant.                                                *)
(***************************************************************************)

\* The handlers that do not overlap: all in a serial use, flushes and resets else.
Active(r) == r.at \notin {"idle", "waiting", "presented"} /\ r.op \in use.exclusive
Mover(c) == Active(call[c])

InSome(c) == call[c].at \in {"waiting", "presented"}

\* The pipe's places of a handler, and those where it replaces the queue.
Stopping == {"s_test", "s_clear", "s_purge", "s_wait", "s_target"}
Replacing == {"i_clear", "i_delete", "i_create"}
Working == Stopping \cup Replacing \cup {"t_test", "i_dirty", "i_target", "i_start", "i_valid"}
Sending == {"dirty", "context", "policies", "send", "waiting", "presented"}

\* A call, or the request it forwards, is where its operation can be; while
\* transfers overlap the others the queue is never replaced.
Fits(r) ==
    /\ r.at = "idle" <=> r.op = "none"
    /\ r.at \in Sending => r.op = "forward"
    /\ r.at = "check" => r.op \in {"forward", "flush"}
    /\ r.at \in {"p_check", "p_dirty", "p_store"} => r.op \in {"raw_on", "raw_off"}
    /\ r.at \in Working => r.op \in {"forward", "flush", "reset", "alt"}
    /\ r.at = "s_drain" => r.op \in {"flush", "reset"}
    /\ r.at = "select" => r.op = "alt"
    /\ r.op # "none" => r.op \in use.ops
    /\ ~Serial(use) => r.at \notin Replacing /\ (r.op = "forward" => r.at \in Sending \cup {"check"})

PlacesOK == \A c \in Calls : Fits(call[c])

OneMover == \A c, d \in Calls : Mover(c) /\ Mover(d) => c = d

\* With overlapping transfers the pipe has one sequential queue for good.
OneQueue ==
    ~Serial(use) => /\ queue # NoQueue /\ ~dirty /\ ~rawIO /\ configured
                    /\ wdf[queue].state # "deleted" /\ ~wdf[queue].parallel

\* Every request is in the pipe's queue, which was made for the policy the
\* request was sent under.
RequestsOK ==
    \A c \in Calls :
        /\ InSome(c) =>
              /\ queue # NoQueue /\ wdf[queue].state # "deleted" /\ call[c].q = queue
              /\ call[c].raw = wdf[queue].parallel
        /\ At(c, "waiting") => wdf[queue].state = "running"
        /\ \A d \in Calls : c # d /\ At(c, "presented") /\ At(d, "presented") =>
              wdf[queue].parallel

\* Nobody is in the queue.
Drained == \A d \in Calls : ~InSome(d)

Matches == queue # NoQueue /\ (~dirty => wdf[queue].parallel = rawIO)
TargetOK == target \/ "create" \in use.failures

\* The pipe serves, or it is stopped.
Up == isValid /\ Matches /\ wdf[queue].state = "running" /\ configured /\ TargetOK
Down == ~isValid /\ Drained /\ (queue # NoQueue => wdf[queue].state = "purged" /\ Matches)
Rest == Up \/ (Down /\ (Serial(use) => TargetOK))

\* The target, while the handler of op starts the pipe.
Starting(op) == op \in {"flush", "reset"} \/ TargetOK

\* What a mover finds at each place.
Phase(c) ==
    LET at == call[c].at
        op == call[c].op
        q == call[c].q
    IN /\ at \in {"check", "p_check"} => Rest
       /\ at = "dirty" => Up
       /\ at \in {"context", "policies", "send"} => Up /\ ~dirty
       /\ at = "p_dirty" => Up /\ call[c].raw = rawIO
       /\ at = "p_store" => /\ isValid /\ queue # NoQueue /\ wdf[queue].state = "running"
                            /\ configured /\ TargetOK
                            /\ ~dirty => wdf[queue].parallel = (op = "raw_on")
       /\ at = "s_test" => Rest /\ (op \in {"reset", "alt"} => configured)
       /\ at = "s_clear" => Up
       /\ at = "s_purge" => /\ ~isValid /\ Matches /\ wdf[queue].state = "running"
                            /\ configured /\ TargetOK
       /\ at = "s_wait" => /\ ~isValid /\ Matches /\ wdf[queue].state = "purged" /\ q = queue
                           /\ configured /\ TargetOK /\ \A d \in Calls : ~At(d, "waiting")
       /\ at = "s_target" => Down /\ configured /\ TargetOK
       /\ at = "s_drain" => Down /\ configured /\ ~target
       /\ at = "select" => Down /\ TargetOK
       /\ at = "t_test" => Down /\ configured /\ Starting(op) /\ (op = "flush" => ~target)
       /\ at = "i_dirty" => /\ Down /\ configured /\ Starting(op) /\ q = queue
                            /\ op = "flush" => ~target
       /\ at = "i_clear" => /\ Down /\ configured /\ Starting(op) /\ q = queue
                            /\ queue = NoQueue \/ dirty
       /\ at = "i_delete" => /\ ~isValid /\ Drained /\ configured /\ Starting(op) /\ ~dirty
                             /\ queue # NoQueue /\ wdf[queue].state = "purged" /\ q = queue
       /\ at = "i_create" => ~isValid /\ Drained /\ configured /\ Starting(op) /\ ~dirty
       /\ at \in {"i_target", "i_start"} =>
              /\ ~isValid /\ Drained /\ configured /\ ~dirty /\ Matches /\ q = queue
              /\ IF at = "i_start" THEN TargetOK ELSE Starting(op)
              /\ wdf[queue].state = "purged" \/ (Serial(use) /\ wdf[queue].state = "running")
       /\ at = "i_valid" => /\ ~isValid /\ configured /\ ~dirty /\ Matches
                            /\ wdf[queue].state = "running" /\ TargetOK

\* A transfer that is about to be sent copied the policy its queue is made for.
CopyOK == \A c \in Calls : At(c, "send") => call[c].raw = rawIO

Moving == \A c \in Calls : Mover(c) => Phase(c)
Resting == (\A c \in Calls : ~Mover(c)) => Rest

CallType == [op : AllOps \cup {"none"}, at : Places, q : Queues \cup {NoQueue},
             raw : BOOLEAN, cancelled : BOOLEAN]

PipeTypes ==
    /\ isValid \in BOOLEAN /\ dirty \in BOOLEAN /\ rawIO \in BOOLEAN
    /\ configured \in BOOLEAN /\ target \in BOOLEAN
    /\ queue \in Queues \cup {NoQueue}
    /\ wdf \in [Queues -> [state : QueueStates, parallel : BOOLEAN]]
    /\ use \in Uses

Types == PipeTypes /\ call \in [Calls -> CallType]

IInv ==
    /\ Types /\ PlacesOK /\ OneMover /\ OneQueue /\ RequestsOK /\ CopyOK
    /\ Moving /\ Resting

-----------------------------------------------------------------------------
(***************************************************************************)
(* The properties follow.                                                  *)
(***************************************************************************)

LEMMA TypesOK == Types <=> TypeOK
<1> USE DEF Types, PipeTypes, TypeOK, CallType
<1>1. (isValid \in BOOLEAN /\ dirty \in BOOLEAN /\ rawIO \in BOOLEAN
       /\ configured \in BOOLEAN /\ target \in BOOLEAN)
      <=> {isValid, dirty, rawIO, configured, target} \subseteq BOOLEAN
  BY Zenon
<1> QED
  BY <1>1, Zenon

\* While transfers overlap, every handler but theirs is a mover; else all are.
LEMMA MoverAt ==
    ASSUME HandlersApart, IInv, NEW c \in Calls, Handling(c),
           Serial(use) \/ call[c].op # "forward"
    PROVE  Mover(c)
<1>1. call[c].op \in use.ops
  BY DEF IInv, PlacesOK, Fits, Handling
<1>2. Serial(use) \/ Transfers(use)
  BY DEF HandlersApart, IInv, Types, PipeTypes
<1> QED
  BY <1>1, <1>2 DEF Serial, Transfers, Mover, Active, Handling

LEMMA InvImplies ==
    ASSUME HandlersApart, IInv
    PROVE  QueueConsistent /\ OneStagedTransfer /\ NoUseAfterDelete /\ PipeServes
<1>1. TypeOK /\ PlacesOK /\ OneQueue /\ RequestsOK /\ Moving /\ Resting
  BY TypesOK DEF IInv
<1>2. Quiet => Rest
  BY <1>1 DEF Quiet, Resting, Mover, Active, Handling
<1>3. ASSUME NEW c \in Calls,
             call[c].at \in {"i_dirty", "i_clear", "i_delete", "i_create", "i_target", "i_start"}
      PROVE  Phase(c)
  <2>1. Handling(c) /\ call[c].at \in Working
    BY <1>3 DEF Handling, Working, Replacing
  <2>2. Serial(use) \/ call[c].op # "forward"
    BY <1>1, <2>1 DEF PlacesOK, Fits, Sending, Working, Stopping, Replacing
  <2> QED
    BY <1>1, <2>1, <2>2, MoverAt DEF Moving
<1>4. ASSUME NEW c \in Calls, call[c].at \in {"context", "send"}
      PROVE  queue # NoQueue /\ wdf[queue].state # "deleted"
  <2>1. CASE Serial(use)
    <3>1. Handling(c)
      BY <1>4 DEF Handling
    <3>2. Phase(c)
      BY <1>1, <2>1, <3>1, MoverAt DEF Moving
    <3> QED
      BY <1>4, <3>2 DEF Phase, Up, Matches
  <2>2. CASE ~Serial(use)
    BY <1>1, <2>2 DEF OneQueue
  <2> QED
    BY <2>1, <2>2
<1>5. QueueMatchesPolicy
  BY <1>2 DEF QueueMatchesPolicy, Rest, Up, Down, Matches
<1>6. RebuildWhileStopped
  <2>1. ASSUME NEW c \in Calls,
               call[c].at \in {"i_dirty", "i_clear", "i_delete", "i_create", "i_target"}
        PROVE  ~isValid
    BY <1>3, <2>1 DEF Phase, Down
  <2>2. ASSUME NEW c \in Calls, call[c].at = "i_dirty", call[c].q # NoQueue
        PROVE  wdf[call[c].q].state = "purged"
    BY <1>3, <2>2 DEF Phase, Down
  <2>3. ASSUME NEW c \in Calls, call[c].at = "i_dirty", call[c].op = "flush"
        PROVE  ~target
    BY <1>3, <2>3 DEF Phase
  <2> QED
    BY <2>1, <2>2, <2>3 DEF RebuildWhileStopped
<1>7. OneStagedTransfer
  BY <1>1 DEF OneStagedTransfer, RequestsOK, InSome, At
<1>8. NoUseAfterDelete
  <2>1. ASSUME NEW c \in Calls, call[c].at \in {"i_delete", "i_start"}
        PROVE  wdf[call[c].q].state # "deleted"
    BY <1>3, <2>1 DEF Phase
  <2>2. ASSUME NEW c \in Calls, call[c].at \in {"waiting", "presented"}
        PROVE  wdf[call[c].q].state # "deleted"
    BY <1>1, <2>2 DEF RequestsOK, InSome
  <2> QED
    BY <1>4, <2>1, <2>2 DEF NoUseAfterDelete
<1>9. ValidMeansReady
  BY <1>2 DEF ValidMeansReady, Rest, Up, Down, Matches, TargetOK
<1>10. NoStrandedRequest
  BY <1>1 DEF NoStrandedRequest, RequestsOK, InSome, At
<1> QED
  BY <1>1, <1>5, <1>6, <1>7, <1>8, <1>9, <1>10 DEF QueueConsistent, PipeServes

-----------------------------------------------------------------------------
(***************************************************************************)
(* How the steps compose: one call moves, the others stay.                 *)
(***************************************************************************)

\* A queue object is left for InitCreate: the calls have handles of as many as
\* there are calls at most.
LEMMA FreshExists == \E q \in Queues : Fresh(q)
<1> DEFINE n == Cardinality(Calls)
           f == [c \in Calls |-> call[c].q]
           T == {f[c] : c \in Calls}
<1>1. n \in Nat /\ IsFiniteSet(Calls)
  BY CallAssumption, FS_CardinalityType
<1>2. IsFiniteSet(T) /\ Cardinality(T) <= n
  <2>1. f = [c \in Calls |-> f[c]]
    OBVIOUS
  <2> HIDE DEF f
  <2>2. f \in Surjection(Calls, T)
    BY <2>1 DEF Surjection
  <2> HIDE DEF T
  <2> QED
    BY <1>1, <2>2, FS_Surjection
<1>3. IsFiniteSet(T \cup {queue}) /\ Cardinality(T \cup {queue}) <= n + 1
  <2>1. Cardinality(T) \in Nat
    BY <1>2, FS_CardinalityType
  <2> HIDE DEF T, n
  <2>2. /\ IsFiniteSet(T \cup {queue})
        /\ \/ Cardinality(T \cup {queue}) = Cardinality(T)
           \/ Cardinality(T \cup {queue}) = Cardinality(T) + 1
    BY <1>2, FS_AddElement, Zenon
  <2> QED
    BY <1>1, <1>2, <2>1, <2>2
<1>4. Cardinality(Queues) = 2 * n + 2
  <2> DEFINE m == 2 * n + 2
  <2>1. m \in Nat /\ 1 <= m
    BY <1>1
  <2>2. Queues = 1 .. m
    BY DEF Queues
  <2> HIDE DEF m
  <2>3. Cardinality(1 .. m) = m
    BY <2>1, FS_Interval
  <2> QED
    BY <2>2, <2>3 DEF m
<1>5. ~(Queues \subseteq T \cup {queue})
  <2> HIDE DEF T, n
  <2>1. SUFFICES ASSUME Queues \in SUBSET (T \cup {queue}) PROVE FALSE
    OBVIOUS
  <2>2. Cardinality(Queues) <= Cardinality(T \cup {queue})
    BY <1>3, <2>1, FS_Subset
  <2>3. Cardinality(T \cup {queue}) \in Nat
    BY <1>3, FS_CardinalityType
  <2> QED
    BY <1>1, <1>3, <1>4, <2>2, <2>3
<1> QED
  BY <1>5 DEF Fresh

\* A handler that meets no other mover makes a step.
LEMMA Step ==
    ASSUME HandlersApart, IInv, NEW c \in Calls, \A d \in Calls : Mover(d) => d = c,
           NEW r \in CallType, call' = [call EXCEPT ![c] = r], use' = use,
           PipeTypes', OneQueue', Fits(r), r.at # "presented",
           r.at = "waiting" => /\ UNCHANGED <<queue, wdf>>
                               /\ queue # NoQueue /\ wdf[queue].state = "running"
                               /\ r.q = queue /\ r.raw = wdf[queue].parallel,
           Drained \/ UNCHANGED <<queue, wdf>>,
           Serial(use) \/ rawIO' = rawIO,
           r.at = "send" => r.raw = rawIO',
           Active(r) => Phase(c)',
           ~Active(r) => Rest'
    PROVE  IInv'
<1>1. Types /\ PlacesOK /\ OneMover /\ RequestsOK /\ CopyOK
  BY DEF IInv
<1>2. /\ call'[c] = r /\ \A d \in Calls : d # c => call'[d] = call[d]
      /\ call' \in [Calls -> CallType]
  BY <1>1 DEF Types
<1>3. \A d \in Calls : Mover(d)' => d = c
  BY <1>2 DEF Mover, Active
<1>4. Mover(c)' <=> Active(r)
  BY <1>2 DEF Mover, Active
<1>5. Types'
  BY <1>2 DEF Types
<1>6. PlacesOK'
  <2>1. \A d \in Calls : Fits(call'[d])
    BY <1>1, <1>2 DEF PlacesOK
  <2> QED
    BY <2>1 DEF PlacesOK, Fits
<1>7. OneMover'
  BY <1>3 DEF OneMover
<1>8. RequestsOK'
  <2>1. CASE UNCHANGED <<queue, wdf>>
    BY <1>1, <1>2, <2>1 DEF RequestsOK, InSome, At
  <2>2. CASE Drained /\ r.at # "waiting"
    BY <1>2, <2>2 DEF RequestsOK, Drained, InSome, At
  <2> QED
    BY <2>1, <2>2
<1>9. CopyOK'
  <2>1. SUFFICES ASSUME NEW d \in Calls, d # c, At(d, "send")
                 PROVE  call[d].raw = rawIO'
    BY <1>2 DEF CopyOK, At
  <2>2. Handling(d)
    BY <2>1 DEF Handling, At
  <2>3. ~Serial(use)
    BY <2>1, <2>2, MoverAt
  <2> QED
    BY <1>1, <2>1, <2>3 DEF CopyOK
<1>10. Moving'
  BY <1>3, <1>4 DEF Moving
<1>11. Resting'
  BY <1>4 DEF Resting
<1> QED
  BY <1>5, <1>6, <1>7, <1>8, <1>9, <1>10, <1>11 DEF IInv

\* A request, or the handler of a transfer that may overlap others, makes a step.
LEMMA Pass ==
    ASSUME HandlersApart, IInv, NEW c \in Calls, ~Mover(c),
           NEW r \in CallType, call' = [call EXCEPT ![c] = r],
           UNCHANGED <<isValid, dirty, rawIO, queue, configured, target, wdf, use>>,
           Fits(r), ~Active(r),
           r.at \in {"waiting", "presented"} =>
               /\ queue # NoQueue /\ wdf[queue].state = "running"
               /\ r.q = queue /\ r.raw = wdf[queue].parallel,
           r.at = "waiting" => ~Serial(use),
           r.at = "presented" => /\ InSome(c)
                                 /\ \/ wdf[queue].parallel
                                    \/ \A d \in Calls : ~At(d, "presented"),
           r.at = "send" => r.raw = rawIO
    PROVE  IInv'
<1>1. Types /\ PlacesOK /\ OneMover /\ OneQueue /\ RequestsOK /\ CopyOK /\ Moving /\ Resting
  BY DEF IInv
<1>2. /\ call'[c] = r /\ \A d \in Calls : d # c => call'[d] = call[d]
      /\ call' \in [Calls -> CallType]
  BY <1>1 DEF Types
<1>3. \A d \in Calls : /\ Mover(d)' <=> Mover(d)
                       /\ Mover(d) => d # c /\ call'[d] = call[d]
  BY <1>2 DEF Mover, Active
<1>4. Types'
  BY <1>1, <1>2 DEF Types, PipeTypes
<1>5. PlacesOK'
  <2>1. \A d \in Calls : Fits(call'[d])
    BY <1>1, <1>2 DEF PlacesOK
  <2> QED
    BY <2>1 DEF PlacesOK, Fits
<1>6. OneMover'
  BY <1>1, <1>3 DEF OneMover
<1>7. OneQueue'
  BY <1>1 DEF OneQueue
<1>8. RequestsOK'
  BY <1>1, <1>2 DEF RequestsOK, InSome, At
<1>9. CopyOK'
  BY <1>1, <1>2 DEF CopyOK, At
<1>10. Drained => Drained' \/ (~Serial(use) /\ queue # NoQueue /\ wdf[queue].state = "running")
  BY <1>2 DEF Drained, InSome
<1>11. Down => Down'
  BY <1>10 DEF Down, Matches
<1>12. Rest => Rest'
  BY <1>11 DEF Rest, Up, Matches, TargetOK
<1>13. Resting'
  BY <1>1, <1>3, <1>12 DEF Resting
<1>14. ASSUME NEW d \in Calls, Mover(d)
       PROVE  Phase(d)'
  <2>1. Phase(d) /\ call'[d] = call[d]
    BY <1>1, <1>3, <1>14 DEF Moving
  <2>2. ~Serial(use) => call[d].at \notin Replacing
    BY <1>1, <1>14 DEF PlacesOK, Fits
  <2>3. Up => Up'
    BY DEF Up, Matches, TargetOK
  <2>4. ASSUME wdf[queue].state = "purged", \A e \in Calls : ~At(e, "waiting")
        PROVE  \A e \in Calls : ~At(e, "waiting")'
    BY <1>2, <2>4 DEF At
  <2> QED
    BY <1>10, <1>11, <1>12, <2>1, <2>2, <2>3, <2>4 DEF Phase, Replacing, Matches, TargetOK, Starting
<1>15. Moving'
  BY <1>3, <1>14 DEF Moving
<1> QED
  BY <1>4, <1>5, <1>6, <1>7, <1>8, <1>9, <1>13, <1>15 DEF IInv

-----------------------------------------------------------------------------
(***************************************************************************)
(* The moves of a handler.                                                 *)
(***************************************************************************)

LEMMA GotoIs ==
    ASSUME Types, NEW c \in Calls, NEW place \in Places, Goto(c, place)
    PROVE  /\ call' = [call EXCEPT ![c] = call'[c]] /\ call'[c] \in CallType
           /\ call'[c].at = place /\ call'[c].op = call[c].op
           /\ call'[c].q = call[c].q /\ call'[c].raw = call[c].raw
BY DEF Types, CallType, Goto

LEMMA EndIs ==
    ASSUME Types, NEW c \in Calls, End(c)
    PROVE  /\ call' = [call EXCEPT ![c] = NoCall] /\ call'[c] = NoCall
           /\ NoCall \in CallType /\ NoCall.at = "idle" /\ NoCall.op = "none"
           /\ Fits(NoCall) /\ ~Active(NoCall)
BY DEF Types, CallType, End, NoCall, Fits, Active, Sending, Working, Stopping, Replacing, Places

\* What the state is for a handler other than that of an overlapping transfer.
LEMMA AtPlace ==
    ASSUME HandlersApart, IInv, NEW c \in Calls,
           Handling(c), Serial(use) \/ call[c].at \notin Sending \cup {"check"}
    PROVE  /\ Mover(c) /\ Phase(c) /\ \A d \in Calls : Mover(d) => d = c
           /\ Types /\ OneQueue /\ Fits(call[c])
<1>1. Serial(use) \/ call[c].op # "forward"
  BY DEF IInv, PlacesOK, Fits
<1>2. Mover(c)
  BY <1>1, MoverAt
<1> QED
  BY <1>2 DEF IInv, Moving, OneMover, PlacesOK

\* The handler that moves is at none of the places of a request.
LEMMA DrainedKept ==
    ASSUME Types, NEW c \in Calls, NEW r, call' = [call EXCEPT ![c] = r],
           r.at \notin {"waiting", "presented"}
    PROVE  /\ Drained => Drained'
           /\ (\A d \in Calls : ~At(d, "waiting")) => (\A d \in Calls : ~At(d, "waiting"))'
<1>1. call'[c] = r /\ \A d \in Calls : d # c => call'[d] = call[d]
  BY DEF Types
<1> QED
  BY <1>1 DEF Drained, InSome, At

LEMMA StepGo ==
    ASSUME HandlersApart, IInv, NEW c \in Calls, Mover(c), use' = use,
           call' = [call EXCEPT ![c] = call'[c]], call'[c] \in CallType,
           call'[c].op = call[c].op, call'[c].at \notin {"idle", "waiting", "presented"},
           PipeTypes', OneQueue', Fits(call'[c]),
           Drained \/ UNCHANGED <<queue, wdf>>,
           Serial(use) \/ rawIO' = rawIO,
           call'[c].at = "send" => call'[c].raw = rawIO',
           Phase(c)'
    PROVE  IInv'
<1>1. \A d \in Calls : Mover(d) => d = c
  BY DEF IInv, OneMover
<1>2. Active(call'[c])
  BY DEF Mover, Active
<1> DEFINE r == call'[c]
<1>3. /\ r \in CallType /\ call' = [call EXCEPT ![c] = r] /\ Fits(r) /\ Active(r)
      /\ r.at # "presented" /\ r.at # "waiting" /\ (r.at = "send" => r.raw = rawIO')
  BY <1>2
<1> HIDE DEF r
<1> QED
  BY <1>1, <1>3, Step

LEMMA StepEnd ==
    ASSUME HandlersApart, IInv, NEW c \in Calls, Mover(c), use' = use, End(c),
           PipeTypes', OneQueue',
           Drained \/ UNCHANGED <<queue, wdf>>,
           Serial(use) \/ rawIO' = rawIO,
           Rest'
    PROVE  IInv'
<1>1. \A d \in Calls : Mover(d) => d = c
  BY DEF IInv, OneMover
<1>2. /\ call' = [call EXCEPT ![c] = NoCall] /\ NoCall \in CallType /\ NoCall.at = "idle"
      /\ Fits(NoCall) /\ ~Active(NoCall)
  BY EndIs DEF IInv
<1> QED
  BY <1>1, <1>2, Step

\* Steps that read the pipe's context only.
Reads == UNCHANGED <<isValid, dirty, rawIO, queue, configured, target, wdf, use>>

LEMMA Kept ==
    ASSUME Types, OneQueue, Reads
    PROVE  /\ PipeTypes' /\ OneQueue' /\ TargetOK' = TargetOK /\ (Up => Up')
           /\ (Drained => Drained') => (Down => Down') /\ (Rest => Rest')
<1>1. PipeTypes' /\ OneQueue'
  BY DEF Types, PipeTypes, OneQueue, Reads
<1>2. TargetOK' = TargetOK
  BY DEF TargetOK, Reads
<1>3. Up => Up'
  BY <1>2 DEF Up, Matches, Reads
<1>4. (Drained => Drained') => (Down => Down')
  BY DEF Down, Matches, Reads
<1> QED
  BY <1>1, <1>2, <1>3, <1>4 DEF Rest, Reads

LEMMA ReadGo ==
    ASSUME HandlersApart, IInv, NEW c \in Calls, Mover(c), Reads,
           call' = [call EXCEPT ![c] = call'[c]], call'[c] \in CallType,
           call'[c].op = call[c].op, call'[c].at \notin {"idle", "waiting", "presented"},
           Fits(call'[c]), call'[c].at = "send" => call'[c].raw = rawIO,
           Phase(c)'
    PROVE  IInv'
BY StepGo, Kept DEF Reads, IInv

LEMMA ReadEnd ==
    ASSUME HandlersApart, IInv, NEW c \in Calls, Mover(c), Reads, End(c), Rest
    PROVE  IInv'
<1>1. Types /\ OneQueue
  BY DEF IInv
<1>2. Drained => Drained'
  BY <1>1, EndIs, DrainedKept
<1>3. Rest' /\ PipeTypes' /\ OneQueue'
  BY <1>1, <1>2, Kept
<1> QED
  BY <1>3, StepEnd DEF Reads

-----------------------------------------------------------------------------
(***************************************************************************)
(* The actions.                                                            *)
(***************************************************************************)
\* Pipe_Stop, the steps that only look.
LEMMA StopTestOK ==
    ASSUME HandlersApart, IInv, NEW c \in Calls, use' = use, StopTest(c)
    PROVE  IInv'
<1>1. At(c, "s_test") /\ Handling(c) /\ Reads
  BY DEF StopTest, At, Handling, Reads, pipeVars
<1>2. Mover(c) /\ Phase(c) /\ Types /\ OneQueue /\ Fits(call[c])
  BY <1>1, AtPlace DEF At, Sending
<1>3. Rest /\ (call[c].op \in {"reset", "alt"} => configured)
  BY <1>1, <1>2 DEF Phase, At
<1>4. call[c].op \in {"forward", "flush", "reset", "alt"}
  BY <1>1, <1>2 DEF Fits, At, Working, Stopping
<1>5. CASE isValid
  <2>1. Goto(c, "s_clear") /\ Up
    BY <1>3, <1>5 DEF StopTest, Rest, Down
  <2>2. /\ call' = [call EXCEPT ![c] = call'[c]] /\ call'[c] \in CallType
        /\ call'[c].at = "s_clear" /\ call'[c].op = call[c].op
    BY <1>2, <2>1, GotoIs DEF Places
  <2>3. Fits(call'[c])
    BY <1>1, <1>2, <2>2 DEF Fits, At, Sending, Working, Stopping, Replacing
  <2>4. Phase(c)'
    BY <1>1, <1>2, <2>1, <2>2, Kept DEF Phase
  <2> QED
    BY <1>1, <1>2, <2>2, <2>3, <2>4, ReadGo
<1>6. CASE ~isValid /\ call[c].op \in {"reset", "alt"}
  <2> DEFINE place == AfterStop(call[c].op)
  <2>1. Goto(c, place) /\ place = IF call[c].op = "alt" THEN "select" ELSE "t_test"
    BY <1>6 DEF StopTest, AfterStop
  <2>2. Down /\ configured /\ (Serial(use) => TargetOK)
    BY <1>3, <1>6 DEF Rest, Up
  <2> HIDE DEF place
  <2>3. /\ call' = [call EXCEPT ![c] = call'[c]] /\ call'[c] \in CallType
        /\ call'[c].at = place /\ call'[c].op = call[c].op
    BY <1>2, <2>1, GotoIs DEF Places
  <2>4. Down' /\ configured' /\ TargetOK' = TargetOK
    BY <1>1, <1>2, <2>1, <2>2, <2>3, DrainedKept, Kept DEF Reads
  <2>5. Fits(call'[c])
    BY <1>1, <1>2, <2>1, <2>3 DEF Fits, At, Sending, Working, Stopping, Replacing
  <2>6. Serial(use) \/ call[c].op = "reset"
    BY <1>2, <1>6 DEF IInv, HandlersApart, Types, PipeTypes, Transfers, Fits
  <2>7. Phase(c)'
    BY <1>1, <1>6, <2>1, <2>2, <2>3, <2>4, <2>6 DEF Phase, Starting, Reads
  <2> QED
    BY <1>1, <1>2, <2>1, <2>3, <2>5, <2>7, ReadGo
<1>7. CASE ~isValid /\ call[c].op \notin {"reset", "alt"}
  BY <1>1, <1>2, <1>3, <1>7, ReadEnd DEF StopTest
<1> QED
  BY <1>5, <1>6, <1>7

LEMMA StopClearOK ==
    ASSUME HandlersApart, IInv, NEW c \in Calls, use' = use, StopClear(c)
    PROVE  IInv'
<1>1. /\ At(c, "s_clear") /\ Handling(c) /\ Goto(c, "s_purge") /\ isValid' = FALSE
      /\ UNCHANGED <<dirty, rawIO, queue, configured, target, wdf>>
  BY DEF StopClear, At, Handling
<1>2. Mover(c) /\ Phase(c) /\ Types /\ OneQueue /\ Fits(call[c])
  BY <1>1, AtPlace DEF At, Sending
<1>3. Up
  BY <1>1, <1>2 DEF Phase, At
<1>4. /\ call' = [call EXCEPT ![c] = call'[c]] /\ call'[c] \in CallType
      /\ call'[c].at = "s_purge" /\ call'[c].op = call[c].op
  BY <1>1, <1>2, GotoIs DEF Places
<1>5. Fits(call'[c])
  BY <1>1, <1>2, <1>4 DEF Fits, At, Sending, Working, Stopping, Replacing
<1>6. PipeTypes' /\ OneQueue'
  BY <1>1, <1>2 DEF Types, PipeTypes, OneQueue
<1>7. Phase(c)'
  BY <1>1, <1>3, <1>4 DEF Phase, Up, Matches, TargetOK
<1> QED
  BY <1>1, <1>2, <1>4, <1>5, <1>6, <1>7, StepGo

LEMMA StopWaitOK ==
    ASSUME HandlersApart, IInv, NEW c \in Calls, use' = use, StopWait(c)
    PROVE  IInv'
<1>1. /\ At(c, "s_wait") /\ Handling(c) /\ Reads /\ Goto(c, "s_target")
      /\ \A d \in Calls : ~InQueue(d, call[c].q)
  BY DEF StopWait, At, Handling, Reads, pipeVars
<1>2. Mover(c) /\ Phase(c) /\ Types /\ OneQueue /\ Fits(call[c])
  BY <1>1, AtPlace DEF At, Sending
<1>3. /\ ~isValid /\ Matches /\ wdf[queue].state = "purged" /\ call[c].q = queue
      /\ configured /\ TargetOK
  BY <1>1, <1>2 DEF Phase, At
<1>4. Drained
  BY <1>1, <1>3 DEF IInv, RequestsOK, Drained, InSome, InQueue
<1>5. Down
  BY <1>3, <1>4 DEF Down
<1>6. /\ call' = [call EXCEPT ![c] = call'[c]] /\ call'[c] \in CallType
      /\ call'[c].at = "s_target" /\ call'[c].op = call[c].op
  BY <1>1, <1>2, GotoIs DEF Places
<1>7. Fits(call'[c])
  BY <1>1, <1>2, <1>6 DEF Fits, At, Sending, Working, Stopping, Replacing
<1>8. Down' /\ configured' /\ TargetOK'
  BY <1>1, <1>2, <1>3, <1>5, <1>6, DrainedKept, Kept DEF Reads
<1>9. Phase(c)'
  BY <1>6, <1>8 DEF Phase
<1> QED
  BY <1>1, <1>2, <1>6, <1>7, <1>9, ReadGo

LEMMA StopTargetOK ==
    ASSUME HandlersApart, IInv, NEW c \in Calls, use' = use, StopTarget(c)
    PROVE  IInv'
<1>1. /\ At(c, "s_target") /\ Handling(c)
      /\ UNCHANGED <<isValid, dirty, rawIO, queue, configured, wdf>>
  BY DEF StopTarget, At, Handling
<1>2. Mover(c) /\ Phase(c) /\ Types /\ OneQueue /\ Fits(call[c])
  BY <1>1, AtPlace DEF At, Sending
<1>3. Down /\ configured /\ TargetOK
  BY <1>1, <1>2 DEF Phase, At
<1>4. call[c].op \in {"forward", "flush", "reset", "alt"}
  BY <1>1, <1>2 DEF Fits, At, Working, Stopping
<1> DEFINE place == IF call[c].op \in {"flush", "reset"} THEN "s_drain" ELSE AfterStop(call[c].op)
<1>5. /\ Goto(c, place)
      /\ target' = (target /\ call[c].op \notin {"flush", "reset"})
  <2>1. CASE call[c].op \in {"flush", "reset"}
    <3>1. /\ target' = FALSE
          /\ call' = [d \in Calls |->
                IF d = c THEN [call[c] EXCEPT !.at = "s_drain"]
                ELSE IF At(d, "presented") THEN [call[d] EXCEPT !.cancelled = TRUE]
                ELSE call[d]]
      BY <2>1 DEF StopTarget
    <3>2. \A d \in Calls : ~At(d, "presented")
      BY <1>3 DEF Down, Drained, InSome, At
    <3>3. call' = [call EXCEPT ![c].at = "s_drain"]
      BY <1>2, <3>1, <3>2 DEF Types
    <3> QED
      BY <2>1, <3>1, <3>3 DEF Goto
  <2>2. CASE call[c].op \notin {"flush", "reset"}
    <3>1. target' = target /\ target \in BOOLEAN
      BY <1>2, <2>2 DEF StopTarget, Types, PipeTypes
    <3> QED
      BY <2>2, <3>1 DEF StopTarget
  <2> QED
    BY <2>1, <2>2
<1>6. place \in {"s_drain", "select", "t_test"} /\ (place = "s_drain" <=> call[c].op \in {"flush", "reset"})
      /\ (place = "select" <=> call[c].op = "alt")
  BY <1>4 DEF AfterStop
<1> HIDE DEF place
<1>7. /\ call' = [call EXCEPT ![c] = call'[c]] /\ call'[c] \in CallType
      /\ call'[c].at = place /\ call'[c].op = call[c].op
  BY <1>2, <1>5, <1>6, GotoIs DEF Places
<1>8. Fits(call'[c])
  BY <1>1, <1>2, <1>4, <1>6, <1>7 DEF Fits, At, Sending, Working, Stopping, Replacing
<1>9. PipeTypes' /\ OneQueue'
  BY <1>1, <1>2, <1>5 DEF Types, PipeTypes, OneQueue
<1>10. Down' /\ configured' /\ (place # "s_drain" => TargetOK')
  <2>1. Drained'
    BY <1>2, <1>3, <1>6, <1>7, DrainedKept DEF Down
  <2>2. Down'
    BY <1>1, <1>3, <2>1 DEF Down, Matches
  <2> QED
    BY <1>1, <1>3, <1>5, <1>6, <2>2 DEF TargetOK
<1>11. Phase(c)'
  BY <1>4, <1>5, <1>6, <1>7, <1>10 DEF Phase, Starting
<1> QED
  BY <1>1, <1>2, <1>6, <1>7, <1>8, <1>9, <1>11, StepGo

LEMMA StopDrainOK ==
    ASSUME HandlersApart, IInv, NEW c \in Calls, use' = use, StopDrain(c)
    PROVE  IInv'
<1>1. /\ At(c, "s_drain") /\ Handling(c) /\ Reads /\ Goto(c, AfterStop(call[c].op))
  BY DEF StopDrain, At, Handling, Reads, pipeVars
<1>2. Mover(c) /\ Phase(c) /\ Types /\ OneQueue /\ Fits(call[c])
  BY <1>1, AtPlace DEF At, Sending
<1>3. Down /\ configured /\ ~target /\ call[c].op \in {"flush", "reset"}
  BY <1>1, <1>2 DEF Phase, At, Fits
<1>4. /\ call' = [call EXCEPT ![c] = call'[c]] /\ call'[c] \in CallType
      /\ call'[c].at = "t_test" /\ call'[c].op = call[c].op
  <2>1. AfterStop(call[c].op) = "t_test"
    BY <1>3 DEF AfterStop
  <2> QED
    BY <1>1, <1>2, <2>1, GotoIs DEF Places
<1>5. Fits(call'[c])
  BY <1>1, <1>2, <1>3, <1>4 DEF Fits, At, Sending, Working, Stopping, Replacing
<1>6. Down' /\ configured'
  BY <1>1, <1>2, <1>3, <1>4, DrainedKept, Kept DEF Reads
<1>7. Phase(c)'
  BY <1>1, <1>3, <1>4, <1>6 DEF Phase, Starting, Reads
<1> QED
  BY <1>1, <1>2, <1>4, <1>5, <1>7, ReadGo

\* The purge takes the waiting requests away and cancels the presented ones.
LEMMA StopPurgeOK ==
    ASSUME HandlersApart, IInv, NEW c \in Calls, use' = use, StopPurge(c)
    PROVE  IInv'
<1>1. At(c, "s_purge") /\ Handling(c) /\ UNCHANGED pipeVars
  BY DEF StopPurge, At, Handling
<1>2. /\ Mover(c) /\ Phase(c) /\ Types /\ OneQueue /\ Fits(call[c])
      /\ \A d \in Calls : Mover(d) => d = c
  BY <1>1, AtPlace DEF At, Sending
<1>3. ~isValid /\ Matches /\ wdf[queue].state = "running" /\ configured /\ TargetOK
  BY <1>1, <1>2 DEF Phase, At
<1>4. PlacesOK /\ RequestsOK /\ CopyOK
  BY DEF IInv
<1> DEFINE r == [call[c] EXCEPT !.at = "s_wait", !.q = queue]
<1>5. /\ wdf' = [wdf EXCEPT ![queue].state = "purged"]
      /\ call' = [d \in Calls |->
            IF d = c THEN r
            ELSE IF InQueue(d, queue) /\ call[d].at = "waiting" THEN NoCall
            ELSE IF InQueue(d, queue) /\ ~wdf[queue].parallel
                 THEN [call[d] EXCEPT !.cancelled = TRUE]
            ELSE call[d]]
  BY <1>3 DEF StopPurge, Matches
<1>6. /\ queue \in Queues /\ wdf' \in [Queues -> [state : QueueStates, parallel : BOOLEAN]]
      /\ wdf'[queue].state = "purged" /\ wdf'[queue].parallel = wdf[queue].parallel
  BY <1>2, <1>3, <1>5 DEF Types, PipeTypes, Matches, QueueStates
<1>7. /\ r \in CallType /\ r.at = "s_wait" /\ r.op = call[c].op /\ r.q = queue
      /\ call'[c] = r /\ Fits(r)
  <2>1. /\ r \in CallType /\ r.at = "s_wait" /\ r.op = call[c].op /\ r.q = queue
    <3>1. "s_wait" \in Places
      BY DEF Places
    <3> QED
      BY <1>2, <1>6, <3>1 DEF Types, CallType
  <2>2. call'[c] = r
    BY <1>5
  <2> HIDE DEF r
  <2>3. Fits(r)
    BY <1>1, <1>2, <2>1 DEF Fits, At, Sending, Working, Stopping, Replacing
  <2> QED
    BY <2>1, <2>2, <2>3
<1>8. ASSUME NEW d \in Calls, d # c
      PROVE  /\ call'[d] \in CallType
             /\ \/ call'[d] = NoCall /\ At(d, "waiting")
                \/ /\ call'[d].at = call[d].at /\ call'[d].op = call[d].op
                   /\ call'[d].q = call[d].q /\ call'[d].raw = call[d].raw
                   /\ ~At(d, "waiting")
  <2>1. At(d, "waiting") => InQueue(d, queue)
    BY <1>4 DEF RequestsOK, InSome, InQueue, At
  <2>2. NoCall \in CallType /\ call[d] \in CallType
    BY <1>2 DEF Types, CallType, NoCall, Places
  <2>3. CASE At(d, "waiting")
    BY <1>5, <1>8, <2>1, <2>2, <2>3 DEF At
  <2>4. CASE ~At(d, "waiting")
    <3>1. call'[d] = IF InQueue(d, queue) /\ ~wdf[queue].parallel
                     THEN [call[d] EXCEPT !.cancelled = TRUE] ELSE call[d]
      BY <1>5, <1>8, <2>4 DEF At
    <3>2. /\ [call[d] EXCEPT !.cancelled = TRUE] \in CallType
          /\ [call[d] EXCEPT !.cancelled = TRUE].at = call[d].at
          /\ [call[d] EXCEPT !.cancelled = TRUE].op = call[d].op
          /\ [call[d] EXCEPT !.cancelled = TRUE].q = call[d].q
          /\ [call[d] EXCEPT !.cancelled = TRUE].raw = call[d].raw
      BY <2>2 DEF CallType
    <3> QED
      BY <2>2, <2>4, <3>1, <3>2
  <2> QED
    BY <2>3, <2>4
<1> HIDE DEF r
<1>9. NoCall.at = "idle" /\ NoCall.op = "none"
  BY DEF NoCall
<1>10. Types'
  <2>1. call' \in [Calls -> CallType]
    BY <1>5, <1>7, <1>8
  <2>2. PipeTypes'
    BY <1>1, <1>2, <1>6 DEF Types, PipeTypes, pipeVars
  <2> QED
    BY <2>1, <2>2 DEF Types
<1>11. PlacesOK'
  <2>1. Fits(NoCall)
    BY <1>9 DEF Fits, Sending, Working, Stopping, Replacing
  <2>2. ASSUME NEW d \in Calls PROVE Fits(call'[d])
    <3>1. CASE d = c
      BY <1>7, <3>1
    <3>2. CASE d # c
      <4>1. Fits(call[d])
        BY <1>4 DEF PlacesOK
      <4> QED
        BY <1>8, <2>1, <3>2, <4>1 DEF Fits
    <3> QED
      BY <3>1, <3>2
  <2> QED
    BY <2>2 DEF PlacesOK, Fits
<1>12. \A d \in Calls : Mover(d)' => d = c
  BY <1>2, <1>8, <1>9 DEF Mover, Active
<1>13. Mover(c)'
  BY <1>2, <1>7 DEF Mover, Active
<1>14. OneQueue'
  BY <1>1, <1>2, <1>6 DEF OneQueue, pipeVars
<1>15. RequestsOK'
  <2>1. \A d \in Calls : InSome(d)' => /\ d # c /\ InSome(d) /\ ~At(d, "waiting")'
                                       /\ call'[d].q = call[d].q /\ call'[d].raw = call[d].raw
                                       /\ (At(d, "presented")' => At(d, "presented"))
    BY <1>7, <1>8, <1>9 DEF InSome, At
  <2>2. \A d \in Calls : At(d, "presented")' => InSome(d)'
    BY DEF InSome, At
  <2>3. \A d \in Calls : At(d, "waiting")' => InSome(d)'
    BY DEF InSome, At
  <2> QED
    BY <1>1, <1>4, <1>6, <2>1, <2>2, <2>3 DEF RequestsOK, pipeVars
<1>16. CopyOK'
  BY <1>1, <1>4, <1>7, <1>8, <1>9 DEF CopyOK, At, pipeVars
<1>17. Phase(c)'
  <2>1. \A d \in Calls : ~At(d, "waiting")'
    BY <1>7, <1>8, <1>9 DEF At
  <2>2. Matches' /\ TargetOK'
    BY <1>1, <1>3, <1>6 DEF Matches, TargetOK, pipeVars
  <2> QED
    BY <1>1, <1>3, <1>6, <1>7, <2>1, <2>2 DEF Phase, pipeVars
<1> QED
  BY <1>10, <1>11, <1>12, <1>13, <1>14, <1>15, <1>16, <1>17
     DEF IInv, OneMover, Moving, Resting

\* Policy_SetPipe(RAW_IO).
LEMMA PolicyCheckOK ==
    ASSUME HandlersApart, IInv, NEW c \in Calls, use' = use, PolicyCheck(c)
    PROVE  IInv'
<1>1. At(c, "p_check") /\ Handling(c) /\ Reads
  BY DEF PolicyCheck, At, Handling, Reads, pipeVars
<1>2. Mover(c) /\ Phase(c) /\ Types /\ OneQueue /\ Fits(call[c])
  BY <1>1, AtPlace DEF At, Sending
<1>3. Rest
  BY <1>1, <1>2 DEF Phase, At
<1>4. CASE isValid
  <2>1. call' = [call EXCEPT ![c].at = "p_dirty", ![c].raw = rawIO] /\ Up
    BY <1>3, <1>4 DEF PolicyCheck, Rest, Down
  <2>2. /\ call' = [call EXCEPT ![c] = call'[c]] /\ call'[c] \in CallType
        /\ call'[c].at = "p_dirty" /\ call'[c].op = call[c].op /\ call'[c].raw = rawIO
    <3>1. "p_dirty" \in Places
      BY DEF Places
    <3> QED
      BY <1>2, <2>1, <3>1 DEF Types, CallType, PipeTypes
  <2>3. Fits(call'[c])
    BY <1>1, <1>2, <2>2 DEF Fits, At, Sending, Working, Stopping, Replacing
  <2>4. Phase(c)'
    BY <1>1, <1>2, <2>1, <2>2, Kept DEF Phase, Reads
  <2> QED
    BY <1>1, <1>2, <2>2, <2>3, <2>4, ReadGo
<1>5. CASE ~isValid
  BY <1>1, <1>2, <1>3, <1>5, ReadEnd DEF PolicyCheck
<1> QED
  BY <1>4, <1>5

\* RAW_IO is changed by serial uses only.
LEMMA SerialAt ==
    ASSUME HandlersApart, IInv, NEW c \in Calls,
           call[c].at \in {"p_check", "p_dirty", "p_store", "select"} \cup Replacing
    PROVE  Serial(use)
<1>1. Fits(call[c]) /\ (Serial(use) \/ Transfers(use))
  BY DEF IInv, PlacesOK, HandlersApart, Types, PipeTypes
<1> QED
  BY <1>1 DEF Fits, Transfers, Replacing

LEMMA PolicyDirtyOK ==
    ASSUME HandlersApart, IInv, NEW c \in Calls, use' = use, PolicyDirty(c)
    PROVE  IInv'
<1>1. /\ At(c, "p_dirty") /\ Handling(c) /\ Goto(c, "p_store")
      /\ dirty' = (dirty \/ call[c].raw # (call[c].op = "raw_on"))
      /\ UNCHANGED <<isValid, rawIO, queue, configured, target, wdf>>
  BY DEF PolicyDirty, At, Handling
<1>2. Mover(c) /\ Phase(c) /\ Types /\ OneQueue /\ Fits(call[c]) /\ Serial(use)
  BY <1>1, AtPlace, SerialAt DEF At, Sending
<1>3. Up /\ call[c].raw = rawIO
  BY <1>1, <1>2 DEF Phase, At
<1>4. /\ call' = [call EXCEPT ![c] = call'[c]] /\ call'[c] \in CallType
      /\ call'[c].at = "p_store" /\ call'[c].op = call[c].op
  BY <1>1, <1>2, GotoIs DEF Places
<1>5. Fits(call'[c])
  BY <1>1, <1>2, <1>4 DEF Fits, At, Sending, Working, Stopping, Replacing
<1>6. dirty' \in BOOLEAN
  BY <1>1 DEF Types, PipeTypes
<1>7. PipeTypes' /\ OneQueue'
  BY <1>1, <1>2, <1>6 DEF Types, PipeTypes, OneQueue
<1>8. ~dirty' => ~dirty /\ rawIO = (call[c].op = "raw_on")
  BY <1>1, <1>3
<1>9. ~dirty' => wdf'[queue].parallel = (call'[c].op = "raw_on")
  BY <1>1, <1>3, <1>4, <1>8 DEF Up, Matches
<1>10. Phase(c)'
  BY <1>1, <1>3, <1>4, <1>9 DEF Phase, Up, Matches, TargetOK
<1> QED
  BY <1>1, <1>2, <1>4, <1>5, <1>7, <1>10, StepGo

LEMMA PolicyStoreOK ==
    ASSUME HandlersApart, IInv, NEW c \in Calls, use' = use, PolicyStore(c)
    PROVE  IInv'
<1>1. /\ At(c, "p_store") /\ Handling(c) /\ End(c) /\ rawIO' = (call[c].op = "raw_on")
      /\ UNCHANGED <<isValid, dirty, queue, configured, target, wdf>>
  BY DEF PolicyStore, At, Handling
<1>2. Mover(c) /\ Phase(c) /\ Types /\ OneQueue /\ Fits(call[c]) /\ Serial(use)
  BY <1>1, AtPlace, SerialAt DEF At, Sending
<1>3. /\ isValid /\ queue # NoQueue /\ wdf[queue].state = "running" /\ configured /\ TargetOK
      /\ ~dirty => wdf[queue].parallel = (call[c].op = "raw_on")
  BY <1>1, <1>2 DEF Phase, At
<1>4. PipeTypes' /\ OneQueue'
  <2>1. rawIO' \in BOOLEAN
    BY <1>1
  <2> QED
    BY <1>1, <1>2, <2>1 DEF Types, PipeTypes, OneQueue
<1>5. ~dirty' => wdf'[queue'].parallel = rawIO'
  BY <1>1, <1>3
<1>6. Rest'
  BY <1>1, <1>3, <1>5 DEF Rest, Up, Matches, TargetOK
<1> QED
  BY <1>1, <1>2, <1>4, <1>6, StepEnd

\* Pipe_Start and Pipe_InitContext.
LEMMA StartTestOK ==
    ASSUME HandlersApart, IInv, NEW c \in Calls, use' = use, StartTest(c)
    PROVE  IInv'
<1>1. At(c, "t_test") /\ Handling(c) /\ Reads
  BY DEF StartTest, At, Handling, Reads, pipeVars
<1>2. Mover(c) /\ Phase(c) /\ Types /\ OneQueue /\ Fits(call[c])
  BY <1>1, AtPlace DEF At, Sending
<1>3. Down /\ configured /\ Starting(call[c].op) /\ (call[c].op = "flush" => ~target)
  BY <1>1, <1>2 DEF Phase, At
<1>4. call' = [call EXCEPT ![c].at = "i_dirty", ![c].q = queue]
  BY <1>3 DEF StartTest, Down
<1>5. /\ call' = [call EXCEPT ![c] = call'[c]] /\ call'[c] \in CallType
      /\ call'[c].at = "i_dirty" /\ call'[c].op = call[c].op /\ call'[c].q = queue
  <2>1. "i_dirty" \in Places
    BY DEF Places
  <2> QED
    BY <1>2, <1>4, <2>1 DEF Types, CallType, PipeTypes
<1>6. Fits(call'[c])
  BY <1>1, <1>2, <1>5 DEF Fits, At, Sending, Working, Stopping, Replacing
<1>7. Down' /\ configured' /\ TargetOK' = TargetOK
  BY <1>1, <1>2, <1>3, <1>5, DrainedKept, Kept DEF Reads
<1>8. Phase(c)'
  BY <1>1, <1>3, <1>5, <1>7 DEF Phase, Starting, Reads
<1> QED
  BY <1>1, <1>2, <1>5, <1>6, <1>8, ReadGo

LEMMA InitDirtyOK ==
    ASSUME HandlersApart, IInv, NEW c \in Calls, use' = use, InitDirty(c)
    PROVE  IInv'
<1> DEFINE place == IF call[c].q = NoQueue \/ dirty THEN "i_clear" ELSE "i_target"
<1>1. At(c, "i_dirty") /\ Handling(c) /\ Reads /\ Goto(c, place)
  BY DEF InitDirty, At, Handling, Reads, pipeVars
<1>2. Mover(c) /\ Phase(c) /\ Types /\ OneQueue /\ Fits(call[c])
  BY <1>1, AtPlace DEF At, Sending
<1>3. Down /\ configured /\ Starting(call[c].op) /\ call[c].q = queue
  BY <1>1, <1>2 DEF Phase, At
<1>4. /\ place \in {"i_clear", "i_target"}
      /\ place = "i_clear" => Serial(use) /\ (queue = NoQueue \/ dirty)
      /\ place = "i_target" => queue # NoQueue /\ ~dirty
  BY <1>2, <1>3 DEF OneQueue
<1> HIDE DEF place
<1>5. /\ call' = [call EXCEPT ![c] = call'[c]] /\ call'[c] \in CallType
      /\ call'[c].at = place /\ call'[c].op = call[c].op /\ call'[c].q = queue
  BY <1>1, <1>2, <1>3, <1>4, GotoIs DEF Places
<1>6. Fits(call'[c])
  BY <1>1, <1>2, <1>4, <1>5 DEF Fits, At, Sending, Working, Stopping, Replacing
<1>7. Down' /\ configured' /\ TargetOK' = TargetOK
  BY <1>1, <1>2, <1>3, <1>4, <1>5, DrainedKept, Kept DEF Reads
<1>8. Phase(c)'
  <2>1. CASE place = "i_clear"
    BY <1>1, <1>3, <1>4, <1>5, <1>7, <2>1 DEF Phase, Starting, Reads
  <2>2. CASE place = "i_target"
    BY <1>1, <1>3, <1>4, <1>5, <1>7, <2>2 DEF Phase, Starting, Reads, Down
  <2> QED
    BY <1>4, <2>1, <2>2
<1> QED
  BY <1>1, <1>2, <1>4, <1>5, <1>6, <1>8, ReadGo

LEMMA InitClearOK ==
    ASSUME HandlersApart, IInv, NEW c \in Calls, use' = use, InitClear(c)
    PROVE  IInv'
<1> DEFINE place == IF call[c].q = NoQueue THEN "i_create" ELSE "i_delete"
<1>1. /\ At(c, "i_clear") /\ Handling(c) /\ Goto(c, place) /\ dirty' = FALSE
      /\ UNCHANGED <<isValid, rawIO, queue, configured, target, wdf>>
  BY DEF InitClear, At, Handling
<1>2. Mover(c) /\ Phase(c) /\ Types /\ OneQueue /\ Fits(call[c]) /\ Serial(use)
  BY <1>1, AtPlace, SerialAt DEF At, Sending, Replacing
<1>3. Down /\ configured /\ Starting(call[c].op) /\ call[c].q = queue
  BY <1>1, <1>2 DEF Phase, At
<1>4. place \in {"i_create", "i_delete"} /\ (place = "i_delete" => queue # NoQueue)
  BY <1>3
<1> HIDE DEF place
<1>5. /\ call' = [call EXCEPT ![c] = call'[c]] /\ call'[c] \in CallType
      /\ call'[c].at = place /\ call'[c].op = call[c].op /\ call'[c].q = queue
  BY <1>1, <1>2, <1>3, <1>4, GotoIs DEF Places
<1>6. Fits(call'[c])
  BY <1>1, <1>2, <1>4, <1>5 DEF Fits, At, Sending, Working, Stopping, Replacing
<1>7. PipeTypes' /\ OneQueue'
  BY <1>1, <1>2 DEF Types, PipeTypes, OneQueue
<1>8. Drained'
  BY <1>2, <1>3, <1>4, <1>5, DrainedKept DEF Down
<1>9. Phase(c)'
  BY <1>1, <1>3, <1>4, <1>5, <1>8 DEF Phase, Starting, TargetOK, Down
<1> QED
  BY <1>1, <1>2, <1>4, <1>5, <1>6, <1>7, <1>9, StepGo

LEMMA InitDeleteOK ==
    ASSUME HandlersApart, IInv, NEW c \in Calls, use' = use, InitDelete(c)
    PROVE  IInv'
<1>1. /\ At(c, "i_delete") /\ Handling(c) /\ Goto(c, "i_create") /\ UNCHANGED pipeVars
      /\ wdf' = [wdf EXCEPT ![call[c].q].state = "deleted"]
  BY DEF InitDelete, At, Handling
<1>2. Mover(c) /\ Phase(c) /\ Types /\ OneQueue /\ Fits(call[c]) /\ Serial(use)
  BY <1>1, AtPlace, SerialAt DEF At, Sending, Replacing
<1>3. ~isValid /\ Drained /\ configured /\ Starting(call[c].op) /\ ~dirty
  BY <1>1, <1>2 DEF Phase, At
<1>4. /\ call' = [call EXCEPT ![c] = call'[c]] /\ call'[c] \in CallType
      /\ call'[c].at = "i_create" /\ call'[c].op = call[c].op
  BY <1>1, <1>2, GotoIs DEF Places
<1>5. Fits(call'[c])
  BY <1>1, <1>2, <1>4 DEF Fits, At, Sending, Working, Stopping, Replacing
<1>6. PipeTypes' /\ OneQueue'
  BY <1>1, <1>2 DEF Types, PipeTypes, OneQueue, pipeVars, QueueStates
<1>7. Drained'
  BY <1>2, <1>3, <1>4, DrainedKept
<1>8. Phase(c)'
  BY <1>1, <1>3, <1>4, <1>7 DEF Phase, Starting, TargetOK, pipeVars
<1> QED
  BY <1>1, <1>2, <1>3, <1>4, <1>5, <1>6, <1>8, StepGo DEF pipeVars

LEMMA InitCreateOK ==
    ASSUME HandlersApart, IInv, NEW c \in Calls, use' = use, InitCreate(c)
    PROVE  IInv'
<1>1. /\ At(c, "i_create") /\ Handling(c)
      /\ UNCHANGED <<dirty, rawIO, configured, target>>
  BY DEF InitCreate, At, Handling
<1>2. Mover(c) /\ Phase(c) /\ Types /\ OneQueue /\ Fits(call[c]) /\ Serial(use)
  BY <1>1, AtPlace, SerialAt DEF At, Sending, Replacing
<1>3. ~isValid /\ Drained /\ configured /\ Starting(call[c].op) /\ ~dirty
  BY <1>1, <1>2 DEF Phase, At
<1> DEFINE new == CHOOSE q \in Queues : Fresh(q)
<1>4. new \in Queues
  BY FreshExists
<1> HIDE DEF new
<1>5. CASE /\ wdf' = [wdf EXCEPT ![new] = [state |-> "running", parallel |-> rawIO]]
           /\ queue' = new
           /\ call' = [call EXCEPT ![c].at = "i_target", ![c].q = new]
           /\ UNCHANGED isValid
  <2>1. new # NoQueue
    BY <1>4 DEF Queues, NoQueue
  <2>2. /\ call' = [call EXCEPT ![c] = call'[c]] /\ call'[c] \in CallType
        /\ call'[c].at = "i_target" /\ call'[c].op = call[c].op /\ call'[c].q = queue'
    <3>1. "i_target" \in Places
      BY DEF Places
    <3> QED
      BY <1>2, <1>4, <1>5, <3>1 DEF Types, CallType, PipeTypes
  <2>3. Fits(call'[c])
    BY <1>1, <1>2, <2>2 DEF Fits, At, Sending, Working, Stopping, Replacing
  <2>4. PipeTypes' /\ OneQueue'
    BY <1>1, <1>2, <1>4, <1>5 DEF Types, PipeTypes, OneQueue, QueueStates
  <2>5. Drained'
    BY <1>2, <1>3, <2>2, DrainedKept
  <2>6. wdf'[queue'].state = "running" /\ wdf'[queue'].parallel = rawIO'
    BY <1>1, <1>2, <1>4, <1>5 DEF Types, PipeTypes
  <2>7. Phase(c)'
    BY <1>1, <1>2, <1>3, <1>5, <2>1, <2>2, <2>5, <2>6 DEF Phase, Starting, TargetOK, Matches
  <2> QED
    BY <1>2, <1>3, <2>2, <2>3, <2>4, <2>7, StepGo
<1>6. CASE /\ "create" \in use.failures /\ queue' = NoQueue /\ isValid' = FALSE
           /\ End(c) /\ UNCHANGED wdf
  <2>1. PipeTypes' /\ OneQueue'
    BY <1>1, <1>2, <1>6 DEF Types, PipeTypes, OneQueue
  <2>2. Drained'
    BY <1>2, <1>3, EndIs, DrainedKept, <1>6
  <2>3. Rest'
    BY <1>6, <2>2 DEF Rest, Down, TargetOK
  <2> QED
    BY <1>2, <1>3, <1>6, <2>1, <2>3, StepEnd
<1> QED
  BY <1>5, <1>6 DEF InitCreate, new

LEMMA InitTargetOK ==
    ASSUME HandlersApart, IInv, NEW c \in Calls, use' = use, InitTarget(c)
    PROVE  IInv'
<1>1. /\ At(c, "i_target") /\ Handling(c)
      /\ UNCHANGED <<dirty, rawIO, queue, configured, wdf>>
  BY DEF InitTarget, At, Handling
<1>2. Mover(c) /\ Phase(c) /\ Types /\ OneQueue /\ Fits(call[c])
  BY <1>1, AtPlace DEF At, Sending
<1>3. /\ ~isValid /\ Drained /\ configured /\ ~dirty /\ Matches /\ call[c].q = queue
      /\ Starting(call[c].op)
      /\ wdf[queue].state = "purged" \/ (Serial(use) /\ wdf[queue].state = "running")
  BY <1>1, <1>2 DEF Phase, At
<1>4. CASE /\ target' = (target \/ call[c].op \in {"flush", "reset"})
           /\ Goto(c, "i_start") /\ UNCHANGED isValid
  <2>1. /\ call' = [call EXCEPT ![c] = call'[c]] /\ call'[c] \in CallType
        /\ call'[c].at = "i_start" /\ call'[c].op = call[c].op /\ call'[c].q = queue
    BY <1>2, <1>3, <1>4, GotoIs DEF Places
  <2>2. Fits(call'[c])
    BY <1>1, <1>2, <2>1 DEF Fits, At, Sending, Working, Stopping, Replacing
  <2>3. target' \in BOOLEAN
    BY <1>4
  <2>4. PipeTypes' /\ OneQueue'
    BY <1>1, <1>2, <1>4, <2>3 DEF Types, PipeTypes, OneQueue
  <2>5. Drained'
    BY <1>2, <1>3, <2>1, DrainedKept
  <2>6. TargetOK'
    BY <1>3, <1>4 DEF Starting, TargetOK
  <2>7. Phase(c)'
    BY <1>1, <1>3, <1>4, <2>1, <2>5, <2>6 DEF Phase, Matches
  <2> QED
    BY <1>1, <1>2, <2>1, <2>2, <2>4, <2>7, StepGo
<1>5. CASE /\ "start" \in use.failures /\ isValid' = FALSE /\ End(c) /\ UNCHANGED target
  <2>1. PipeTypes' /\ OneQueue'
    BY <1>1, <1>2, <1>5 DEF Types, PipeTypes, OneQueue
  <2>2. Drained'
    BY <1>2, <1>3, <1>5, EndIs, DrainedKept
  <2>3. ~Serial(use)
    BY <1>5 DEF Serial
  <2>4. Rest'
    BY <1>1, <1>3, <1>5, <2>2, <2>3 DEF Rest, Down, Matches
  <2> QED
    BY <1>1, <1>2, <1>5, <2>1, <2>4, StepEnd
<1> QED
  BY <1>4, <1>5 DEF InitTarget

LEMMA InitStartOK ==
    ASSUME HandlersApart, IInv, NEW c \in Calls, use' = use, InitStart(c)
    PROVE  IInv'
<1>1. /\ At(c, "i_start") /\ Handling(c) /\ Goto(c, "i_valid") /\ UNCHANGED pipeVars
      /\ wdf' = [wdf EXCEPT ![call[c].q].state = IF @ = "deleted" THEN @ ELSE "running"]
  BY DEF InitStart, At, Handling
<1>2. Mover(c) /\ Phase(c) /\ Types /\ OneQueue /\ Fits(call[c])
  BY <1>1, AtPlace DEF At, Sending
<1>3. /\ ~isValid /\ Drained /\ configured /\ ~dirty /\ Matches /\ call[c].q = queue /\ TargetOK
      /\ wdf[queue].state = "purged" \/ wdf[queue].state = "running"
  BY <1>1, <1>2 DEF Phase, At
<1>4. /\ call' = [call EXCEPT ![c] = call'[c]] /\ call'[c] \in CallType
      /\ call'[c].at = "i_valid" /\ call'[c].op = call[c].op
  BY <1>1, <1>2, GotoIs DEF Places
<1>5. Fits(call'[c])
  BY <1>1, <1>2, <1>4 DEF Fits, At, Sending, Working, Stopping, Replacing
<1>6. /\ queue \in Queues
      /\ wdf' = [wdf EXCEPT ![queue].state = "running"]
  BY <1>1, <1>2, <1>3 DEF Types, PipeTypes, Matches
<1>7. /\ wdf' \in [Queues -> [state : QueueStates, parallel : BOOLEAN]]
      /\ wdf'[queue].state = "running" /\ wdf'[queue].parallel = wdf[queue].parallel
  BY <1>2, <1>6 DEF Types, PipeTypes, QueueStates
<1>8. PipeTypes' /\ OneQueue'
  BY <1>1, <1>2, <1>7 DEF Types, PipeTypes, OneQueue, pipeVars
<1>9. Phase(c)'
  BY <1>1, <1>3, <1>4, <1>7 DEF Phase, Matches, TargetOK, pipeVars
<1> QED
  BY <1>1, <1>2, <1>3, <1>4, <1>5, <1>8, <1>9, StepGo DEF pipeVars

LEMMA InitValidOK ==
    ASSUME HandlersApart, IInv, NEW c \in Calls, use' = use, InitValid(c)
    PROVE  IInv'
<1>1. /\ At(c, "i_valid") /\ Handling(c) /\ isValid' = TRUE
      /\ UNCHANGED <<dirty, rawIO, queue, configured, target, wdf>>
  BY DEF InitValid, At, Handling
<1>2. Mover(c) /\ Phase(c) /\ Types /\ OneQueue /\ Fits(call[c])
  BY <1>1, AtPlace DEF At, Sending
<1>3. configured /\ ~dirty /\ Matches /\ wdf[queue].state = "running" /\ TargetOK
  BY <1>1, <1>2 DEF Phase, At
<1>4. PipeTypes' /\ OneQueue'
  BY <1>1, <1>2 DEF Types, PipeTypes, OneQueue
<1>5. Up' /\ ~dirty'
  BY <1>1, <1>3 DEF Up, Matches, TargetOK
<1>6. CASE call[c].op = "forward"
  <2>1. /\ call' = [call EXCEPT ![c] = call'[c]] /\ call'[c] \in CallType
        /\ call'[c].at = "context" /\ call'[c].op = call[c].op
    BY <1>2, <1>6, GotoIs DEF InitValid, Places
  <2>2. Fits(call'[c])
    BY <1>1, <1>2, <1>6, <2>1 DEF Fits, At, Sending, Working, Stopping, Replacing
  <2>3. Phase(c)'
    BY <1>5, <2>1 DEF Phase
  <2> QED
    BY <1>1, <1>2, <1>4, <2>1, <2>2, <2>3, StepGo
<1>7. CASE call[c].op # "forward"
  <2>1. End(c)
    BY <1>7 DEF InitValid
  <2> QED
    BY <1>1, <1>2, <1>4, <1>5, <2>1, StepEnd DEF Rest
<1> QED
  BY <1>6, <1>7

\* Interface_SetAltSetting.
LEMMA SelectSettingOK ==
    ASSUME HandlersApart, IInv, NEW c \in Calls, use' = use, SelectSetting(c)
    PROVE  IInv'
<1>1. At(c, "select") /\ Handling(c) /\ UNCHANGED <<isValid, dirty, rawIO>>
  BY DEF SelectSetting, At, Handling
<1>2. Mover(c) /\ Phase(c) /\ Types /\ OneQueue /\ Fits(call[c]) /\ Serial(use)
  BY <1>1, AtPlace, SerialAt DEF At, Sending
<1>3. Down /\ TargetOK /\ call[c].op = "alt"
  BY <1>1, <1>2 DEF Phase, At, Fits
<1>4. ASSUME PipeTypes', ~isValid', TargetOK', Goto(c, "t_test"), configured',
             queue' # NoQueue => wdf'[queue'].state = "purged" /\ Matches'
      PROVE  IInv'
  <2>1. /\ call' = [call EXCEPT ![c] = call'[c]] /\ call'[c] \in CallType
        /\ call'[c].at = "t_test" /\ call'[c].op = call[c].op
    BY <1>2, <1>4, GotoIs DEF Places
  <2>2. Fits(call'[c])
    BY <1>1, <1>2, <2>1 DEF Fits, At, Sending, Working, Stopping, Replacing
  <2>3. Drained'
    BY <1>2, <1>3, <2>1, DrainedKept DEF Down
  <2>4. Phase(c)'
    BY <1>3, <1>4, <2>1, <2>3 DEF Phase, Starting, Down
  <2>5. OneQueue' /\ Drained
    BY <1>2, <1>3 DEF OneQueue, Down
  <2> QED
    BY <1>2, <1>4, <2>1, <2>2, <2>4, <2>5, StepGo
<1>5. ASSUME PipeTypes', ~isValid', TargetOK', End(c),
             queue' # NoQueue => wdf'[queue'].state = "purged" /\ Matches'
      PROVE  IInv'
  <2>1. Drained'
    BY <1>2, <1>3, <1>5, EndIs, DrainedKept DEF Down
  <2>2. Rest'
    BY <1>5, <2>1 DEF Rest, Down
  <2>3. OneQueue' /\ Drained
    BY <1>2, <1>3 DEF OneQueue, Down
  <2> QED
    BY <1>2, <1>5, <2>2, <2>3, StepEnd
<1>6. CASE UNCHANGED <<queue, configured, target, wdf>>
  <2>1. PipeTypes' /\ ~isValid' /\ TargetOK'
    BY <1>1, <1>2, <1>3, <1>6 DEF Types, PipeTypes, TargetOK, Down
  <2>2. queue' # NoQueue => wdf'[queue'].state = "purged" /\ Matches'
    BY <1>1, <1>3, <1>6 DEF Down, Matches
  <2>3. (Goto(c, "t_test") /\ configured') \/ End(c)
    BY <1>6 DEF SelectSetting
  <2> QED
    BY <1>4, <1>5, <2>1, <2>2, <2>3
<1>7. ASSUME NEW has \in BOOLEAN, configured' = has, target' = TRUE,
             IF has THEN Goto(c, "t_test") ELSE End(c),
             \/ queue' = NoQueue /\ queue # NoQueue
                /\ wdf' = [wdf EXCEPT ![queue].state = "deleted"]
             \/ queue' = queue /\ wdf' = wdf
      PROVE  IInv'
  <2>1. PipeTypes'
    BY <1>1, <1>2, <1>7 DEF Types, PipeTypes, QueueStates
  <2>2. ~isValid' /\ TargetOK'
    BY <1>1, <1>3, <1>7 DEF TargetOK, Down
  <2>3. queue' # NoQueue => wdf'[queue'].state = "purged" /\ Matches'
    BY <1>1, <1>3, <1>7 DEF Down, Matches
  <2> QED
    BY <1>4, <1>5, <1>7, <2>1, <2>2, <2>3
<1> QED
  <2>1. CASE \E has \in BOOLEAN :
              LET deletes == configured /\ ~isValid /\ queue # NoQueue
              IN  /\ configured' = has
                  /\ target' = TRUE
                  /\ queue' = IF deletes THEN NoQueue ELSE queue
                  /\ wdf' = IF deletes THEN [wdf EXCEPT ![queue].state = "deleted"] ELSE wdf
                  /\ IF has THEN Goto(c, "t_test") ELSE End(c)
    BY <1>7, <2>1
  <2> QED
    BY <1>6, <2>1 DEF SelectSetting

\* mRequest_InitAndForwardToQueue.  The handler of a transfer that may overlap
\* others is no mover.
LEMMA Overlaps ==
    ASSUME HandlersApart, IInv, ~Serial(use)
    PROVE  /\ "forward" \notin use.exclusive
           /\ \A c \in Calls : call[c].op = "forward" => ~Mover(c)
BY DEF HandlersApart, IInv, Types, PipeTypes, Transfers, Mover, Active

LEMMA PassGo ==
    ASSUME HandlersApart, IInv, NEW c \in Calls, ~Serial(use), Reads,
           call[c].op = "forward",
           call' = [call EXCEPT ![c] = call'[c]], call'[c] \in CallType,
           call'[c].op = "forward", call'[c].at \in {"dirty", "context", "policies", "send"},
           call'[c].at = "send" => call'[c].raw = rawIO
    PROVE  IInv'
<1>1. ~Mover(c) /\ ~Active(call'[c])
  BY Overlaps DEF Active
<1>2. Fits(call'[c])
  <2>1. "forward" \in use.ops
    BY DEF IInv, PlacesOK, Fits
  <2> QED
    BY <2>1 DEF Fits, Sending, Working, Stopping, Replacing
<1> DEFINE r == call'[c]
<1>3. /\ r \in CallType /\ call' = [call EXCEPT ![c] = r] /\ Fits(r) /\ ~Active(r)
      /\ r.at \notin {"waiting", "presented"} /\ (r.at = "send" => r.raw = rawIO)
  BY <1>1, <1>2
<1> HIDE DEF r
<1> QED
  BY <1>1, <1>3, Pass DEF Reads

LEMMA PassEnd ==
    ASSUME HandlersApart, IInv, NEW c \in Calls, ~Mover(c), Reads, End(c)
    PROVE  IInv'
<1>1. /\ call' = [call EXCEPT ![c] = NoCall] /\ NoCall \in CallType /\ NoCall.at = "idle"
      /\ Fits(NoCall) /\ ~Active(NoCall)
  BY EndIs DEF IInv
<1> QED
  BY <1>1, Pass DEF Reads

LEMMA ForwardCheckOK ==
    ASSUME HandlersApart, IInv, NEW c \in Calls, use' = use, ForwardCheck(c)
    PROVE  IInv'
<1> DEFINE place == IF call[c].op = "flush" THEN "s_test" ELSE "dirty"
<1>1. At(c, "check") /\ Handling(c) /\ Reads
  BY DEF ForwardCheck, At, Handling, Reads, pipeVars
<1>2. Types /\ OneQueue /\ Fits(call[c]) /\ call[c].op \in {"forward", "flush"}
  BY <1>1 DEF IInv, PlacesOK, Fits, At
<1>3. ASSUME Goto(c, place)
      PROVE  /\ call' = [call EXCEPT ![c] = call'[c]] /\ call'[c] \in CallType
             /\ call'[c].at = place /\ call'[c].op = call[c].op /\ place \in {"s_test", "dirty"}
  <2>1. place \in {"s_test", "dirty"}
    OBVIOUS
  <2> HIDE DEF place
  <2> QED
    BY <1>2, <1>3, <2>1, GotoIs DEF Places
<1>4. CASE Serial(use) \/ call[c].op = "flush"
  <2>1. Mover(c) /\ Phase(c)
    BY <1>1, <1>4, MoverAt DEF IInv, Moving
  <2>2. Rest
    BY <1>1, <2>1 DEF Phase, At
  <2>3. CASE isValid /\ queue # NoQueue
    <3>1. Goto(c, place) /\ Up
      BY <2>2, <2>3 DEF ForwardCheck, Rest, Down
    <3>2. /\ call' = [call EXCEPT ![c] = call'[c]] /\ call'[c] \in CallType
          /\ call'[c].at = place /\ call'[c].op = call[c].op
      BY <1>3, <3>1
    <3>3. Fits(call'[c])
      BY <1>1, <1>2, <1>4, <3>2 DEF Fits, At, Sending, Working, Stopping, Replacing
    <3>4. Up' /\ Rest'
      BY <1>1, <1>2, <3>1, Kept DEF Rest
    <3>5. Phase(c)'
      BY <1>2, <3>2, <3>4 DEF Phase
    <3> QED
      BY <1>1, <1>2, <2>1, <3>2, <3>3, <3>5, ReadGo
  <2>4. CASE ~(isValid /\ queue # NoQueue)
    BY <1>1, <2>1, <2>2, <2>4, ReadEnd DEF ForwardCheck
  <2> QED
    BY <2>3, <2>4
<1>5. CASE ~Serial(use) /\ call[c].op = "forward"
  <2>1. CASE Goto(c, place)
    BY <1>1, <1>3, <1>5, <2>1, PassGo
  <2>2. CASE End(c)
    BY <1>1, <1>5, <2>2, Overlaps, PassEnd
  <2> QED
    BY <2>1, <2>2 DEF ForwardCheck
<1> QED
  BY <1>2, <1>4, <1>5

LEMMA ForwardDirtyOK ==
    ASSUME HandlersApart, IInv, NEW c \in Calls, use' = use, ForwardDirty(c)
    PROVE  IInv'
<1> DEFINE place == IF dirty THEN "s_test" ELSE "context"
<1>1. At(c, "dirty") /\ Handling(c) /\ Reads /\ Goto(c, place)
  BY DEF ForwardDirty, At, Handling, Reads, pipeVars
<1>2. Types /\ OneQueue /\ Fits(call[c]) /\ call[c].op = "forward"
  BY <1>1 DEF IInv, PlacesOK, Fits, At, Sending
<1>3. /\ place \in {"s_test", "context"} /\ (place = "s_test" => Serial(use))
      /\ place = "context" => ~dirty
  BY <1>2 DEF OneQueue
<1> HIDE DEF place
<1>4. /\ call' = [call EXCEPT ![c] = call'[c]] /\ call'[c] \in CallType
      /\ call'[c].at = place /\ call'[c].op = call[c].op
  BY <1>1, <1>2, <1>3, GotoIs DEF Places
<1>5. CASE Serial(use)
  <2>1. Mover(c) /\ Phase(c)
    BY <1>1, <1>5, MoverAt DEF IInv, Moving
  <2>2. Up
    BY <1>1, <2>1 DEF Phase, At
  <2>3. Up' /\ Rest'
    BY <1>1, <1>2, <2>2, Kept DEF Rest
  <2>4. Fits(call'[c])
    BY <1>1, <1>2, <1>3, <1>4, <1>5 DEF Fits, At, Sending, Working, Stopping, Replacing
  <2>5. Phase(c)'
    BY <1>1, <1>2, <1>3, <1>4, <2>3 DEF Phase, Reads
  <2> QED
    BY <1>1, <1>3, <1>4, <2>1, <2>4, <2>5, ReadGo
<1>6. CASE ~Serial(use)
  BY <1>1, <1>2, <1>3, <1>4, <1>6, PassGo
<1> QED
  BY <1>5, <1>6

LEMMA ForwardContextOK ==
    ASSUME HandlersApart, IInv, NEW c \in Calls, use' = use, ForwardContext(c)
    PROVE  IInv'
<1>1. /\ At(c, "context") /\ Handling(c) /\ Reads
      /\ call' = [call EXCEPT ![c].at = "policies", ![c].q = queue]
  BY DEF ForwardContext, At, Handling, Reads, pipeVars
<1>2. Types /\ OneQueue /\ Fits(call[c]) /\ call[c].op = "forward"
  BY <1>1 DEF IInv, PlacesOK, Fits, At, Sending
<1>3. /\ call' = [call EXCEPT ![c] = call'[c]] /\ call'[c] \in CallType
      /\ call'[c].at = "policies" /\ call'[c].op = call[c].op
  <2>1. "policies" \in Places
    BY DEF Places
  <2> QED
    BY <1>1, <1>2, <2>1 DEF Types, CallType, PipeTypes
<1>4. CASE Serial(use)
  <2>1. Mover(c) /\ Phase(c)
    BY <1>1, <1>4, MoverAt DEF IInv, Moving
  <2>2. Up /\ ~dirty
    BY <1>1, <2>1 DEF Phase, At
  <2>3. Up' /\ ~dirty'
    BY <1>1, <1>2, <2>2, Kept DEF Reads
  <2>4. Fits(call'[c])
    BY <1>1, <1>2, <1>3, <1>4 DEF Fits, At, Sending, Working, Stopping, Replacing
  <2>5. Phase(c)'
    BY <1>3, <2>3 DEF Phase
  <2> QED
    BY <1>1, <1>3, <2>1, <2>4, <2>5, ReadGo
<1>5. CASE ~Serial(use)
  BY <1>1, <1>2, <1>3, <1>5, PassGo
<1> QED
  BY <1>4, <1>5

LEMMA ForwardPoliciesOK ==
    ASSUME HandlersApart, IInv, NEW c \in Calls, use' = use, ForwardPolicies(c)
    PROVE  IInv'
<1>1. /\ At(c, "policies") /\ Handling(c) /\ Reads
      /\ call' = [call EXCEPT ![c].at = "send", ![c].raw = rawIO]
  BY DEF ForwardPolicies, At, Handling, Reads, pipeVars
<1>2. Types /\ OneQueue /\ Fits(call[c]) /\ call[c].op = "forward"
  BY <1>1 DEF IInv, PlacesOK, Fits, At, Sending
<1>3. /\ call' = [call EXCEPT ![c] = call'[c]] /\ call'[c] \in CallType
      /\ call'[c].at = "send" /\ call'[c].op = call[c].op /\ call'[c].raw = rawIO
  <2>1. "send" \in Places
    BY DEF Places
  <2> QED
    BY <1>1, <1>2, <2>1 DEF Types, CallType, PipeTypes
<1>4. CASE Serial(use)
  <2>1. Mover(c) /\ Phase(c)
    BY <1>1, <1>4, MoverAt DEF IInv, Moving
  <2>2. Up /\ ~dirty
    BY <1>1, <2>1 DEF Phase, At
  <2>3. Up' /\ ~dirty'
    BY <1>1, <1>2, <2>2, Kept DEF Reads
  <2>4. Fits(call'[c])
    BY <1>1, <1>2, <1>3, <1>4 DEF Fits, At, Sending, Working, Stopping, Replacing
  <2>5. Phase(c)'
    BY <1>3, <2>3 DEF Phase
  <2> QED
    BY <1>1, <1>3, <2>1, <2>4, <2>5, ReadGo
<1>5. CASE ~Serial(use)
  BY <1>1, <1>2, <1>3, <1>5, PassGo
<1> QED
  BY <1>4, <1>5

LEMMA ForwardSendOK ==
    ASSUME HandlersApart, IInv, NEW c \in Calls, use' = use, ForwardSend(c)
    PROVE  IInv'
<1>1. At(c, "send") /\ Handling(c) /\ Reads
  BY DEF ForwardSend, At, Handling, Reads, pipeVars
<1>2. /\ Types /\ OneQueue /\ Fits(call[c]) /\ call[c].op = "forward"
      /\ call[c].raw = rawIO
  BY <1>1 DEF IInv, PlacesOK, CopyOK, Fits, At, Sending
<1> DEFINE r == [call[c] EXCEPT !.at = "waiting", !.q = queue]
<1>3. /\ r.at = "waiting" /\ r.op = "forward" /\ r.q = queue /\ r.raw = rawIO /\ r \in CallType
  <2>1. "waiting" \in Places
    BY DEF Places
  <2> QED
    BY <1>2, <2>1 DEF Types, CallType, PipeTypes
<1>4. Fits(r) /\ ~Active(r)
  <2> HIDE DEF r
  <2> QED
    BY <1>1, <1>2, <1>3 DEF Fits, Active, At, Sending, Working, Stopping, Replacing
<1>5. CASE Serial(use)
  <2>1. Mover(c) /\ Phase(c) /\ \A d \in Calls : Mover(d) => d = c
    BY <1>1, <1>5, MoverAt DEF IInv, Moving, OneMover
  <2>2. Up /\ ~dirty
    BY <1>1, <2>1 DEF Phase, At
  <2>3. queue # NoQueue /\ wdf[queue].state = "running" /\ wdf[queue].parallel = rawIO
    BY <2>2 DEF Up, Matches
  <2>4. call' = [call EXCEPT ![c] = r]
    BY <1>2, <2>3 DEF ForwardSend, Types, CallType
  <2>5. PipeTypes' /\ OneQueue' /\ Rest'
    BY <1>1, <1>2, <2>2, Kept DEF Rest
  <2> HIDE DEF r
  <2> QED
    BY <1>1, <1>3, <1>4, <2>1, <2>3, <2>4, <2>5, Step DEF Reads
<1>6. CASE ~Serial(use)
  <2>1. queue # NoQueue /\ wdf[queue].parallel = rawIO /\ ~Mover(c)
    <3>1. rawIO = FALSE /\ wdf[queue].parallel = FALSE /\ queue # NoQueue
      BY <1>2, <1>6 DEF OneQueue, Types, PipeTypes
    <3> QED
      BY <1>2, <1>6, <3>1, Overlaps
  <2>2. CASE wdf[queue].state = "running"
    <3>1. call' = [call EXCEPT ![c] = r]
      BY <1>2, <2>1, <2>2 DEF ForwardSend, Types, CallType
    <3> HIDE DEF r
    <3> QED
      BY <1>1, <1>3, <1>4, <1>6, <2>1, <2>2, <3>1, Pass DEF Reads
  <2>3. CASE wdf[queue].state # "running"
    BY <1>1, <2>1, <2>3, PassEnd DEF ForwardSend
  <2> QED
    BY <2>2, <2>3
<1> QED
  BY <1>5, <1>6

-----------------------------------------------------------------------------
\* The framework's steps on a request, which is no handler.
LEMMA PresentOK ==
    ASSUME HandlersApart, IInv, NEW c \in Calls, use' = use, Present(c)
    PROVE  IInv'
<1>1. At(c, "waiting") /\ Reads /\ ~Mover(c)
  BY DEF Present, At, Reads, pipeVars, Mover, Active
<1>2. Types /\ Fits(call[c]) /\ RequestsOK
  BY DEF IInv, PlacesOK
<1>3. /\ InSome(c) /\ queue # NoQueue /\ call[c].q = queue /\ wdf[queue].state = "running"
      /\ call[c].raw = wdf[queue].parallel
  BY <1>1, <1>2 DEF RequestsOK, InSome, At
<1>4. wdf[queue].parallel \/ \A d \in Calls : ~At(d, "presented")
  BY <1>2, <1>3 DEF Present, InQueue, RequestsOK, InSome, At
<1>5. /\ call' = [call EXCEPT ![c] = call'[c]] /\ call'[c] \in CallType
      /\ call'[c].at = "presented" /\ call'[c].op = call[c].op
      /\ call'[c].q = queue /\ call'[c].raw = wdf[queue].parallel
  BY <1>2, <1>3, GotoIs DEF Present, Places
<1> DEFINE r == call'[c]
<1>6. Fits(r) /\ ~Active(r)
  BY <1>1, <1>2, <1>5 DEF Fits, Active, At, Sending, Working, Stopping, Replacing
<1>7. /\ r \in CallType /\ call' = [call EXCEPT ![c] = r] /\ r.at = "presented"
      /\ r.q = queue /\ r.raw = wdf[queue].parallel
  BY <1>5
<1> HIDE DEF r
<1> QED
  BY <1>1, <1>3, <1>4, <1>6, <1>7, Pass DEF Reads

LEMMA CompleteOK ==
    ASSUME HandlersApart, IInv, NEW c \in Calls, use' = use, Complete(c)
    PROVE  IInv'
<1>1. Reads /\ ~Mover(c) /\ End(c)
  BY DEF Complete, At, Reads, pipeVars, Mover, Active
<1> QED
  BY <1>1, PassEnd

\* A call begins only where it overlaps no handler that it must not overlap.
LEMMA BeginCallOK ==
    ASSUME HandlersApart, IInv, NEW c \in Calls, NEW op \in use.ops, use' = use,
           BeginCall(c, op)
    PROVE  IInv'
<1> DEFINE place == IF op = "alt" /\ ~configured THEN "select" ELSE Entry(op)
           r == [NoCall EXCEPT !.op = op, !.at = place]
<1>1. /\ At(c, "idle") /\ Reads /\ ~Mover(c) /\ call' = [call EXCEPT ![c] = r]
      /\ op = "reset" => configured
      /\ op \in use.exclusive => \A d \in Calls : Handling(d) => call[d].op \notin use.exclusive
  BY DEF BeginCall, At, Reads, pipeVars, Mover, Active
<1>2. Types /\ OneQueue /\ Resting /\ (Serial(use) \/ Transfers(use)) /\ op \in AllOps
  BY UseAssumption DEF IInv, Types, PipeTypes, HandlersApart
<1>3. /\ op = "forward" => place = "check"
      /\ op \in {"raw_on", "raw_off"} => place = "p_check"
      /\ op = "flush" => place = "check"
      /\ op = "reset" => place = "s_test"
      /\ op = "alt" /\ configured => place = "s_test"
      /\ op = "alt" /\ ~configured => place = "select"
  BY DEF Entry
<1> HIDE DEF place
<1>4. place \in {"check", "p_check", "s_test", "select"} /\ op # "none"
  BY <1>2, <1>3 DEF AllOps
<1>5. r \in CallType /\ r.op = op /\ r.at = place
  BY <1>2, <1>4 DEF CallType, NoCall, Places
<1> HIDE DEF r
<1>6. Fits(r)
  BY <1>2, <1>3, <1>4, <1>5 DEF Fits, Sending, Working, Stopping, Replacing, AllOps
<1>7. CASE op \in use.exclusive
  <2>1. \A d \in Calls : ~Mover(d)
    BY <1>1, <1>7 DEF Mover, Active, Handling
  <2>2. Rest
    BY <1>2, <2>1 DEF Resting
  <2>3. /\ Drained => Drained'
        /\ call'[c] = r
    BY <1>1, <1>2, <1>4, <1>5, DrainedKept DEF Types
  <2>4. PipeTypes' /\ OneQueue' /\ Rest' /\ (Down => Down') /\ TargetOK' = TargetOK
    BY <1>1, <1>2, <2>2, <2>3, Kept
  <2>5. place = "select" => Down /\ TargetOK
    <3>1. op = "alt" => Serial(use)
      BY <1>2 DEF Transfers
    <3> QED
      BY <1>2, <1>3, <2>2, <3>1 DEF Rest, Up, AllOps
  <2>6. place = "s_test" /\ op \in {"reset", "alt"} => configured'
    BY <1>1, <1>3 DEF Reads
  <2>7. Phase(c)'
    BY <1>4, <1>5, <2>3, <2>4, <2>5, <2>6 DEF Phase
  <2>8. Active(r)
    BY <1>4, <1>5, <1>7 DEF Active
  <2> QED
    BY <1>1, <1>4, <1>5, <1>6, <2>1, <2>4, <2>7, <2>8, Step DEF Reads
<1>8. CASE op \notin use.exclusive
  <2>1. ~Serial(use)
    BY <1>8 DEF Serial
  <2>2. op = "forward"
    BY <1>2, <1>8, <2>1 DEF Transfers
  <2>3. ~Active(r)
    BY <1>5, <1>8 DEF Active
  <2> QED
    BY <1>1, <1>3, <1>4, <1>5, <1>6, <2>2, <2>3, Pass DEF Reads
<1> QED
  BY <1>7, <1>8

-----------------------------------------------------------------------------
(***************************************************************************)
(* The invariant is inductive.                                             *)
(***************************************************************************)

LEMMA InitOK == Init => IInv
<1> SUFFICES ASSUME Init PROVE IInv
  OBVIOUS
<1> USE DEF Init
<1>1. 1 \in Queues /\ 1 # NoQueue
  <2>1. Cardinality(Calls) \in Nat
    BY CallAssumption, FS_CardinalityType
  <2> QED
    BY <2>1 DEF Queues, NoQueue
<1>2. /\ \A c \in Calls : call[c] = NoCall
      /\ NoCall.at = "idle" /\ NoCall.op = "none" /\ NoCall \in CallType
      /\ Fits(NoCall) /\ ~Active(NoCall)
  BY DEF NoCall, CallType, Places, Fits, Active, Sending, Working, Stopping, Replacing
<1>3. Types
  BY <1>1, <1>2 DEF Types, PipeTypes, QueueStates
<1>4. Up
  BY <1>1 DEF Up, Matches, TargetOK
<1>5. OneQueue
  BY <1>1 DEF OneQueue
<1>6. PlacesOK /\ OneMover /\ RequestsOK /\ CopyOK /\ Moving
  BY <1>2 DEF PlacesOK, OneMover, RequestsOK, CopyOK, Moving, Mover, InSome, At
<1> QED
  BY <1>3, <1>4, <1>5, <1>6 DEF IInv, Resting, Rest

LEMMA StutterOK ==
    ASSUME HandlersApart, IInv, UNCHANGED vars
    PROVE  IInv'
<1> USE DEF vars, moving, pipeVars
<1>1. Types' /\ PlacesOK' /\ OneMover' /\ OneQueue'
  BY DEF IInv, Types, PipeTypes, PlacesOK, Fits, OneMover, OneQueue, Mover, Active
<1>2. RequestsOK' /\ CopyOK'
  BY DEF IInv, RequestsOK, CopyOK, InSome, At
<1>3. /\ Drained' <=> Drained
      /\ Matches' <=> Matches
      /\ TargetOK' = TargetOK
      /\ \A c \in Calls : Mover(c)' <=> Mover(c)
  BY DEF Drained, InSome, Matches, TargetOK, Mover, Active
<1>4. (Up => Up') /\ (Down => Down')
  BY <1>3 DEF Up, Down
<1>5. Rest => Rest'
  BY <1>3, <1>4 DEF Rest
<1>6. ASSUME NEW c \in Calls, Phase(c)
      PROVE  Phase(c)'
  BY <1>3, <1>4, <1>5, <1>6 DEF Phase, At, Starting
<1> QED
  BY <1>1, <1>2, <1>3, <1>5, <1>6 DEF IInv, Moving, Resting

LEMMA HandlerOK ==
    ASSUME HandlersApart, IInv, NEW c \in Calls, use' = use, Handler(c)
    PROVE  IInv'
BY ForwardCheckOK, ForwardDirtyOK, ForwardContextOK, ForwardPoliciesOK, ForwardSendOK,
   PolicyCheckOK, PolicyDirtyOK, PolicyStoreOK,
   StopTestOK, StopClearOK, StopPurgeOK, StopWaitOK, StopTargetOK, StopDrainOK,
   StartTestOK, InitDirtyOK, InitClearOK, InitDeleteOK, InitCreateOK,
   InitTargetOK, InitStartOK, InitValidOK, SelectSettingOK
   DEF Handler

LEMMA NextOK ==
    ASSUME HandlersApart, IInv, [Next]_vars
    PROVE  IInv'
<1>1. CASE Next
  <2>1. use' = use
    BY <1>1 DEF Next
  <2>2. PICK c \in Calls : \/ \E op \in use.ops : BeginCall(c, op)
                           \/ Handler(c) \/ Present(c) \/ Complete(c)
    BY <1>1 DEF Next
  <2> QED
    BY <2>1, <2>2, BeginCallOK, HandlerOK, PresentOK, CompleteOK
<1>2. CASE UNCHANGED vars
  BY <1>2, StutterOK
<1> QED
  BY <1>1, <1>2

LEMMA Inductive == ASSUME HandlersApart PROVE Spec => []IInv
<1>1. IInv /\ [Next]_vars => IInv'
  BY NextOK
<1> QED
  BY <1>1, InitOK, PTL DEF Spec

-----------------------------------------------------------------------------
(***************************************************************************)
(* The theorems.                                                           *)
(***************************************************************************)

\* A change of RAW_IO is never forgotten, and Pipe_InitContext replaces the queue
\* only while the context is invalid and the old queue is purged, as its PRE
\* REQUIREMENTS comment asks: for any number of calls whose handlers stay apart.
THEOREM QueueIsConsistent == ASSUME HandlersApart PROVE Spec => []QueueConsistent
<1>1. IInv => QueueConsistent
  BY InvImplies
<1> QED
  BY <1>1, Inductive, PTL

\* Xfer_ReadBulk and Xfer_WriteBulk, which keep their progress in the context of
\* the queue, work on one staged transfer at a time.
THEOREM OneStagedAtATime == ASSUME HandlersApart PROVE Spec => []OneStagedTransfer
<1>1. IInv => OneStagedTransfer
  BY InvImplies
<1> QED
  BY <1>1, Inductive, PTL

\* Pipe_InitContext, Pipe_Start and the forwarding of a transfer never use the
\* handle of a queue that was deleted, and no request is lost in one.
THEOREM NoDeletedQueueUsed == ASSUME HandlersApart PROVE Spec => []NoUseAfterDelete
<1>1. IInv => NoUseAfterDelete
  BY InvImplies
<1> QED
  BY <1>1, Inductive, PTL

\* After Pipe_Stop and Pipe_Start, whatever failed in between, a pipe that is
\* marked valid has a running queue, and no forwarded request is stranded.
THEOREM RestServes == ASSUME HandlersApart PROVE Spec => []PipeServes
<1>1. IInv => PipeServes
  BY InvImplies
<1> QED
  BY <1>1, Inductive, PTL
=============================================================================
