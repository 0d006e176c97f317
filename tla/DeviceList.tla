----------------------------- MODULE DeviceList -----------------------------
(***************************************************************************)
(* Device lists (lusbk_device_list.c).  A list is a slot of the LstK       *)
(* handle pool that heads a doubly linked chain of device infos, slots of  *)
(* the LstInfoK pool.  An info has one reference for its owner and one     *)
(* while it is attached to a list.  LstK_Sync brings a list up to date     *)
(* with the devices that are plugged in and flags what changed.            *)
(*                                                                         *)
(* The chains have no lock: a list is for one thread at a time, so a call  *)
(* is one step.  A call takes a reference on each handle it uses and gives *)
(* it back (module HandlePool); inside one step these leave no trace.      *)
(***************************************************************************)
EXTENDS Integers, Sequences, FiniteSets, SequencesExt

CONSTANTS
    NumDevices,     \* device interfaces the registry knows
    Filters,        \* those of the libusb0 filter driver
    NumLists,       \* slots of the LstK pool
    NumInfos,       \* slots of the LstInfoK pool
    Patterns,       \* pattern matches: the sets of devices they select
    Masks,          \* SyncFlags given to LstK_Sync
    MaxMine,        \* bound on the infos the application keeps off the lists
    MaxSteps        \* bound on calls and device changes

ASSUME NumAssumption == {NumDevices, NumLists, NumInfos} \subseteq Nat \ {0}
ASSUME BoundAssumption == MaxMine \in Nat /\ MaxSteps \in Nat

Devices == 1 .. NumDevices      \* named by symbolic link
Lists == 1 .. NumLists
Infos == 1 .. NumInfos
NoList == 0
NoInfo == 0
NoDevice == 0

SyncFlags == {"unchanged", "added", "removed", "connect change"}

ASSUME SetAssumption ==
    /\ Filters \subseteq Devices
    /\ Patterns \subseteq SUBSET Devices
    /\ Masks \subseteq SUBSET SyncFlags

VARIABLES
    present,    \* devices that are plugged in and started
    mem,        \* the two pools: mem.list and mem.info
    mine,       \* history: infos the application owns outside of every list
    steps       \* calls and device changes so far, for the bound

listVars == <<present, mem, mine, steps>>

\* stray is history: LstK_DetachInfo took the info under the cursor off the list.
FreeListSlot == [use |-> FALSE, head |-> NoInfo, current |-> NoInfo, stray |-> FALSE]
FreeInfoSlot == [use |-> FALSE, ref |-> 0, next |-> NoInfo, prev |-> NoInfo,
                 owner |-> NoList, dev |-> NoDevice, conn |-> FALSE, flags |-> {}]

ListInit ==
    /\ present = {}
    /\ mem = [list |-> [l \in Lists |-> FreeListSlot],
              info |-> [i \in Infos |-> FreeInfoSlot]]
    /\ mine = {}
    /\ steps = 0

-----------------------------------------------------------------------------
(***************************************************************************)
(* The chains (lusbk_linked_list.h).  head.prev is the last element and    *)
(* last.next is NULL.                                                      *)
(***************************************************************************)

\* DL_FOREACH(_SAFE): the infos of list l from its head along next.  The bound
\* is never reached on a chain that ends.
Chain(m, l) ==
    LET upto[n \in 0 .. NumInfos] ==
            LET s == IF n = 0 THEN << >> ELSE upto[n - 1]
                nxt == IF s = << >> THEN m.list[l].head ELSE m.info[Last(s)].next
            IN IF nxt = NoInfo THEN s ELSE Append(s, nxt)
    IN upto[NumInfos]

ChainSet(m, l) == Range(Chain(m, l))

\* A loop over the elements of s as they are before it.
ForEach(Do(_, _), a, s) ==
    LET upto[n \in 0 .. Len(s)] == IF n = 0 THEN a ELSE Do(upto[n - 1], s[n])
    IN upto[Len(s)]

\* Mutant: the head's link to the last element is forgotten.
DL_APPENDKeepsLast(m, l, i) ==
    LET head == m.list[l].head
        last == m.info[head].prev
    IN IF head = NoInfo
       THEN [m EXCEPT !.list[l].head = i, !.info[i].prev = i, !.info[i].next = NoInfo]
       ELSE [m EXCEPT !.info[i].prev = last, !.info[last].next = i, !.info[i].next = NoInfo]

DL_APPEND(m, l, i) ==
    LET head == m.list[l].head
        last == m.info[head].prev
    IN IF head = NoInfo
       THEN [m EXCEPT !.list[l].head = i,
                      !.info[i].prev = i,
                      !.info[i].next = NoInfo]
       ELSE [m EXCEPT !.info[i].prev = last,
                      !.info[last].next = i,
                      !.info[head].prev = i,
                      !.info[i].next = NoInfo]

\* The removed element keeps its own links.
DL_DELETE(m, l, i) ==
    LET head == m.list[l].head
        prev == m.info[i].prev
        next == m.info[i].next
    IN CASE prev = i -> [m EXCEPT !.list[l].head = NoInfo]
         [] prev # i /\ i = head ->
                [m EXCEPT !.info[next].prev = prev, !.list[l].head = next]
         [] OTHER ->
                [m EXCEPT !.info[prev].next = next,
                          !.info[IF next # NoInfo THEN next ELSE head].prev = prev]

Lowest(S) == CHOOSE x \in S : \A y \in S : x <= y

\* DL_SEARCH for the device d in the chain s: the first info that describes it,
\* or NoInfo.
Search(m, s, d) ==
    LET hits == {k \in DOMAIN s : m.info[s[k]].dev = d}
    IN IF hits = {} THEN NoInfo ELSE s[Lowest(hits)]

-----------------------------------------------------------------------------
(***************************************************************************)
(* The operations, as functions on mem.                                    *)
(***************************************************************************)

\* The slots PoolHandle_Acquire can take; which one makes no difference.
FreeLists(m) == {l \in Lists : ~m.list[l].use}
FreeInfos(m) == {i \in Infos : ~m.info[i].use}

\* Mutant: Init_Handle_LstK forgets the cursor of the list that had the slot.
AcquireListKeepsCurrent(m, l) ==
    [m EXCEPT !.list[l] = [FreeListSlot EXCEPT !.use = TRUE, !.current = m.list[l].current]]

\* PoolHandle_Acquire_LstK with Init_Handle_LstK.
AcquireList(m, l) == [m EXCEPT !.list[l] = [FreeListSlot EXCEPT !.use = TRUE]]

\* PoolHandle_Dec_LstInfoK with Cleanup_DevInfo.
DecInfo(m, i) ==
    IF m.info[i].ref = 1 THEN [m EXCEPT !.info[i] = FreeInfoSlot]
                         ELSE [m EXCEPT !.info[i].ref = @ - 1]

\* LstK_DetachInfo leaves the cursor where it is.
Detach(m, l, i) ==
    IF m.info[i].owner # l THEN m
    ELSE DecInfo(DL_DELETE([m EXCEPT !.info[i].owner = NoList,
                                     !.list[l].stray = @ \/ m.list[l].current = i], l, i), i)

\* Mutant: the reference for the list is not kept.
AttachNoRef(m, l, i) ==
    IF m.info[i].owner # NoList THEN m ELSE DL_APPEND([m EXCEPT !.info[i].owner = l], l, i)

Attach(m, l, i) ==
    IF m.info[i].owner # NoList THEN m
    ELSE DL_APPEND([m EXCEPT !.info[i].owner = l, !.info[i].ref = @ + 1], l, i)

FreeInfo(m, i) == IF m.info[i].owner = NoList THEN DecInfo(m, i) ELSE m

\* Mutant: l_DevEnum_Free_All only detaches.
FreeListDetachOnly(m, l) ==
    LET emptied == ForEach(LAMBDA a, i : Detach(a, l, i), m, Chain(m, l))
    IN [emptied EXCEPT !.list[l].use = FALSE]

\* The last reference on a list: Cleanup_DeviceList frees every info.
FreeList(m, l) ==
    LET emptied == ForEach(LAMBDA a, i : FreeInfo(Detach(a, l, i), i), m, Chain(m, l))
    IN [emptied EXCEPT !.list[l].use = FALSE]

\* l_Alloc_DevInfo and a copy of Public.
AllocInfo(m, i, public) ==
    [m EXCEPT !.info[i] = [FreeInfoSlot EXCEPT !.use = TRUE, !.ref = 1, !.dev = public.dev,
                                               !.conn = public.conn, !.flags = public.flags]]

\* l_DevEnum_Clone_All for the list from, into list l; stops at the first info
\* there is no slot for, which nobody hears of.
CloneInto(m, from, l) ==
    ForEach(LAMBDA a, i :
                IF FreeInfos(a) = {} THEN a
                ELSE LET new == Lowest(FreeInfos(a))
                     IN Attach(AllocInfo(a, new, m.info[i]), l, new),
            m, Chain(m, from))

\* l_EnumKey_Guids lists device d.  Without KLST_FLAG_INCLUDE_DISCONNECT only
\* connected ones; filter devices never otherwise.
IsListed(d, disconnected, pattern) ==
    d \in pattern /\ (d \in present \/ (disconnected /\ d \notin Filters))

\* l_Build_AddElement: the info is born attached.
AddElement(m, l, i, d) ==
    LET born == AllocInfo(m, i, [dev |-> d, conn |-> d \in present, flags |-> {}])
    IN DL_APPEND([born EXCEPT !.info[i].ref = 2, !.info[i].owner = l], l, i)

\* LstK_InitInternal into the free slot l, in the order of the registry; without
\* a slot for every info the enumeration fails and what it has built is freed.
InitInternal(m, l, disconnected, pattern) ==
    LET built == ForEach(LAMBDA a, d :
                             IF ~IsListed(d, disconnected, pattern) THEN a
                             ELSE IF a.ok /\ FreeInfos(a.mem) # {}
                             THEN [ok |-> TRUE,
                                   mem |-> AddElement(a.mem, l, Lowest(FreeInfos(a.mem)), d)]
                             ELSE [a EXCEPT !.ok = FALSE],
                         [ok |-> TRUE, mem |-> AcquireList(m, l)], [d \in Devices |-> d])
    IN IF built.ok THEN built ELSE [ok |-> FALSE, mem |-> FreeList(built.mem, l)]

\* What both directions of the sync do for a device both lists have.
SyncBoth(m, i, conn, mask) ==
    LET change == {"connect change", IF conn THEN "added" ELSE "removed"} \cap mask
    IN IF m.info[i].conn = conn THEN [m EXCEPT !.info[i].flags = {"unchanged"}]
       ELSE [m EXCEPT !.info[i].conn = conn, !.info[i].flags = @ \cup change]

\* l_DevEnum_Sync_Slave for the slave's info i.
Sync_Slave(m, master, slave, mask, i) ==
    LET there == Search(m, Chain(m, master), m.info[i].dev)
        moved == Attach(Detach(m, slave, i), master, i)
    IN CASE there # NoInfo ->
                IF m.info[there].flags # {} THEN m
                ELSE SyncBoth(m, there, m.info[i].conn, mask)
         [] there = NoInfo /\ "added" \in mask ->
                [moved EXCEPT !.info[i].flags =
                    IF m.info[i].conn THEN {"added"} ELSE {"unchanged"}]
         [] OTHER -> m

\* Mutant: a device that is gone is flagged again at every sync.
Sync_MasterKeepsConnected(m, slave, mask, i) ==
    LET there == Search(m, Chain(m, slave), m.info[i].dev)
        removed == {"removed"} \cap mask
    IN CASE m.info[i].flags # {} -> m
         [] m.info[i].flags = {} /\ there # NoInfo -> SyncBoth(m, i, m.info[there].conn, mask)
         [] m.info[i].flags = {} /\ there = NoInfo /\ m.info[i].conn ->
                [m EXCEPT !.info[i].flags = IF removed = {} THEN {"unchanged"} ELSE removed]
         [] OTHER -> [m EXCEPT !.info[i].flags = {"unchanged"}]

\* l_DevEnum_Sync_Master for the master's info i: only those the slave pass has
\* not dealt with.
Sync_Master(m, slave, mask, i) ==
    LET there == Search(m, Chain(m, slave), m.info[i].dev)
        removed == {"removed"} \cap mask
    IN CASE m.info[i].flags # {} -> m
         [] m.info[i].flags = {} /\ there # NoInfo -> SyncBoth(m, i, m.info[there].conn, mask)
         [] m.info[i].flags = {} /\ there = NoInfo /\ m.info[i].conn ->
                [m EXCEPT !.info[i].conn = FALSE,
                          !.info[i].flags = IF removed = {} THEN {"unchanged"} ELSE removed]
         [] OTHER -> [m EXCEPT !.info[i].flags = {"unchanged"}]

EffectiveMask(mask) == IF mask = {} THEN SyncFlags ELSE mask

\* SyncPrep: the flags of the last sync are cleared.
Prepared(m, master) ==
    LET listed == ChainSet(m, master)
    IN [m EXCEPT !.info = [i \in Infos |-> [m.info[i] EXCEPT !.flags = IF i \in listed THEN {} ELSE @]]]

\* Mutant: the flags of the last sync are not cleared first.
SyncListsNoPrep(m, master, slave, given) ==
    LET mask == EffectiveMask(given)
        merged == ForEach(LAMBDA a, i : Sync_Slave(a, master, slave, mask, i), m, Chain(m, slave))
    IN ForEach(LAMBDA a, i : Sync_Master(a, slave, mask, i), merged, Chain(merged, master))

\* LstK_Sync between two lists: SyncPrep, then the slave, then the master.
SyncLists(m, master, slave, given) ==
    LET mask == EffectiveMask(given)
        prepared == Prepared(m, master)
        merged == ForEach(LAMBDA a, i : Sync_Slave(a, master, slave, mask, i),
                          prepared, Chain(prepared, slave))
    IN ForEach(LAMBDA a, i : Sync_Master(a, slave, mask, i), merged, Chain(merged, master))

-----------------------------------------------------------------------------
(***************************************************************************)
(* Actions.                                                                *)
(***************************************************************************)

\* A device is plugged in or pulled out.
Plug(d) ==
    /\ present' = IF d \in present THEN present \ {d} ELSE present \cup {d}
    /\ UNCHANGED <<mem, mine>>

\* LstK_Init, LstK_InitEx.
LstInit(disconnected, pattern) ==
    /\ FreeLists(mem) # {}
    /\ mem' = InitInternal(mem, Lowest(FreeLists(mem)), disconnected, pattern).mem
    /\ UNCHANGED <<present, mine>>

LstFree(l) ==
    /\ mem.list[l].use
    /\ mem' = FreeList(mem, l)
    /\ UNCHANGED <<present, mine>>

\* The copy gets a list slot and, as far as they go, slots for its infos; it
\* is never brought to life with PoolHandle_Live.
LstClone(l) ==
    /\ mem.list[l].use
    /\ FreeLists(mem) # {}
    /\ LET new == Lowest(FreeLists(mem))
       IN mem' = CloneInto(AcquireList(mem, new), l, new)
    /\ UNCHANGED <<present, mine>>

\* LstK_Sync with a list of the caller's.
LstSync(master, slave, mask) ==
    /\ mem.list[master].use /\ mem.list[slave].use
    /\ mem' = SyncLists(mem, master, slave, mask)
    /\ UNCHANGED <<present, mine>>

\* LstK_Sync with a list of the devices present that it builds and frees
\* itself; when that list cannot be built nothing changes.
LstSyncPresent(master, mask, pattern) ==
    /\ mem.list[master].use
    /\ FreeLists(mem) # {}
    /\ LET slave == Lowest(FreeLists(mem))
           init == InitInternal(mem, slave, FALSE, pattern)
       IN mem' = IF init.ok THEN FreeList(SyncLists(init.mem, master, slave, mask), slave)
                            ELSE init.mem
    /\ UNCHANGED <<present, mine>>

\* LstK_CloneInfo: the copy is attached to no list.
LstCloneInfo(i) ==
    /\ mem.info[i].use
    /\ FreeInfos(mem) # {}
    /\ LET new == Lowest(FreeInfos(mem))
       IN /\ Cardinality(mine) < MaxMine
          /\ mem' = AllocInfo(mem, new, mem.info[i])
          /\ mine' = mine \cup {new}
    /\ UNCHANGED present

LstDetachInfo(l, i) ==
    /\ mem.list[l].use /\ mem.info[i].use
    /\ Cardinality(mine) < MaxMine
    /\ mem.info[i].owner = l
    /\ mem' = Detach(mem, l, i)
    /\ mine' = mine \cup {i}
    /\ UNCHANGED present

LstAttachInfo(l, i) ==
    /\ mem.list[l].use
    /\ i \in mine
    /\ mem' = Attach(mem, l, i)
    /\ mine' = mine \ {i}
    /\ UNCHANGED present

LstFreeInfo(i) ==
    /\ mem.info[i].use
    /\ mem' = FreeInfo(mem, i)
    /\ mine' = mine \ {i}
    /\ UNCHANGED present

\* The cursor passes the end to NULL, from where it starts again.  A stray one
\* goes where the links of its info lead; if that info was freed since, they are
\* read from memory that is no longer its own, which is not followed.
MoveNext(l) ==
    LET current == mem.list[l].current
        next == IF current = NoInfo THEN mem.list[l].head ELSE mem.info[current].next
    IN /\ mem.list[l].use
       /\ current # NoInfo => mem.info[current].use
       /\ mem' = [mem EXCEPT !.list[l].current = next,
                             !.list[l].stray = @ /\ next # NoInfo]
       /\ UNCHANGED <<present, mine>>

MoveReset(l) ==
    /\ mem.list[l].use
    /\ mem' = [mem EXCEPT !.list[l].current = NoInfo, !.list[l].stray = FALSE]
    /\ UNCHANGED <<present, mine>>

ListStep ==
    \/ \E d \in Devices : Plug(d)
    \/ \E p \in Patterns :
          \/ \E b \in BOOLEAN : LstInit(b, p)
          \/ \E l \in Lists, k \in Masks : LstSyncPresent(l, k, p)
    \/ \E l \in Lists :
          \/ LstFree(l) \/ LstClone(l) \/ MoveNext(l) \/ MoveReset(l)
          \/ \E s \in Lists, k \in Masks : LstSync(l, s, k)
          \/ \E i \in Infos : LstDetachInfo(l, i) \/ LstAttachInfo(l, i)
    \/ \E i \in Infos : LstCloneInfo(i) \/ LstFreeInfo(i)

ListNext == steps < MaxSteps /\ steps' = steps + 1 /\ ListStep

ListSpec == ListInit /\ [][ListNext]_listVars

-----------------------------------------------------------------------------
(***************************************************************************)
(* Properties.                                                             *)
(***************************************************************************)

ListType == [use : BOOLEAN, head : Infos \cup {NoInfo}, current : Infos \cup {NoInfo},
             stray : BOOLEAN]
InfoType == [use : BOOLEAN, ref : 0 .. 2, next : Infos \cup {NoInfo},
             prev : Infos \cup {NoInfo}, owner : Lists \cup {NoList},
             dev : Devices \cup {NoDevice}, conn : BOOLEAN, flags : SUBSET SyncFlags]

\* The state has its type; no info ever has more than two references.
ListTypeOK ==
    /\ present \subseteq Devices
    /\ mem \in [list : [Lists -> ListType], info : [Infos -> InfoType]]
    /\ mine \subseteq Infos

\* Whatever was appended, removed, moved by a sync or given up half-way, every
\* list's chain ends, holds exactly the infos whose DevListHandle names the
\* list, and can be walked backwards to its last element.
WellLinked ==
    \A l \in Lists :
        mem.list[l].use =>
            LET s == Chain(mem, l)
            IN /\ IsInjective(s)
               /\ Range(s) = {i \in Infos : mem.info[i].owner = l}
               /\ \A k \in DOMAIN s :
                      mem.info[s[k]].prev = IF k = 1 THEN Last(s) ELSE s[k - 1]
               /\ s # << >> => mem.info[Last(s)].next = NoInfo

\* A list's cursor points at an info of the list, whichever list had the slot
\* before and whatever the list was the master of, until LstK_DetachInfo, for the
\* application or for a sync that moves the info to its master, takes the info
\* under the cursor away, and MoveReset or the end of the walk resets it.
CursorOnList ==
    \A l \in Lists :
        mem.list[l].use /\ mem.list[l].current # NoInfo /\ ~mem.list[l].stray
            => mem.list[l].current \in ChainSet(mem, l)

\* Whatever was appended, removed, moved by a sync or given up half-way, the
\* lists can be walked in both directions and from their cursors.
ListsConsistent == ListTypeOK /\ WellLinked /\ CursorOnList

\* An info has a reference for its owner and one for the list it is attached to.
InfoRefExact ==
    \A i \in Infos :
        mem.info[i].ref = IF ~mem.info[i].use THEN 0
                          ELSE IF mem.info[i].owner = NoList THEN 1 ELSE 2

\* No info is left behind by a failed, partial or temporary list: each one is
\* on a list in use or in the application's hands.
NoInfoLeak ==
    \A i \in Infos :
        mem.info[i].use =>
            IF mem.info[i].owner = NoList THEN i \in mine
            ELSE i \notin mine /\ mem.list[mem.info[i].owner].use

\* Every info is counted for who holds it and held by somebody, also when the
\* slots ran out in the middle of a list: so it goes back to the pool, once.
InfosCounted == InfoRefExact /\ NoInfoLeak

\* Devices the list l takes for connected, and those its flags report.
Connected(m, l) == {m.info[i].dev : i \in {j \in ChainSet(m, l) : m.info[j].conn}}
Reported(m, l, f) == {m.info[i].dev : i \in {j \in ChainSet(m, l) : f \in m.info[j].flags}}
DistinctDevices(m, l) == IsInjective([k \in DOMAIN Chain(m, l) |-> m.info[Chain(m, l)[k]].dev])

\* After a sync of all flags with the devices present the list knows which of
\* the selected devices are connected, and ADDED and REMOVED are reported for
\* exactly those for which that is news, each once: a device that is already
\* known to be gone is not removed again.
SyncTellsNews ==
    [][\A l \in Lists, p \in Patterns :
          LstSyncPresent(l, {}, p) /\ DistinctDevices(mem, l)
            /\ InitInternal(mem, Lowest(FreeLists(mem)), FALSE, p).ok =>
              LET before == Connected(mem, l)
                  after == present \cap p
              IN /\ Connected(mem', l) = after
                 /\ Reported(mem', l, "added") = after \ before
                 /\ Reported(mem', l, "removed") = before \ after
                 /\ DistinctDevices(mem', l)]_listVars

\* A sync of lists that name no device twice reports nothing its caller has
\* masked out, and gives every info of the list an answer: changes, or
\* UNCHANGED and nothing else.
SyncHonoursMask ==
    [][\A l, s \in Lists, k \in Masks :
          LstSync(l, s, k) /\ DistinctDevices(mem, l) /\ DistinctDevices(mem, s) =>
              \A i \in ChainSet(mem', l) :
                  LET f == mem'.info[i].flags
                  IN f = {"unchanged"} \/ (f # {} /\ f \subseteq EffectiveMask(k) \ {"unchanged"})]_listVars

=============================================================================
