---------------------------- MODULE InterfaceStack ----------------------------
(***************************************************************************)
(* Usb handles, the device they share, and the driver behind it            *)
(* (lusbk_stack_collection.c, lusbk_bknd_libusbk.c, sys/drv_interface.c).  *)
(*                                                                         *)
(* UsbK_Init opens a device file and gives out a UsbK handle on a new DevK *)
(* object, which holds the interface stack read from the configuration     *)
(* descriptor and what the library remembers of every interface: whether   *)
(* it was claimed and its alternate setting.  Clones share the DevK and    *)
(* have a selected interface of their own.  The driver keeps, for all      *)
(* device files, who claimed an interface and the setting that is active.  *)
(*                                                                         *)
(* A call enters (Inc on its handle, and it looks its interface up), asks  *)
(* the driver, then notes the answer in the shared record and leaves (Dec).*)
(* The slots' own protocol is module HandlePool's: here a Dec that frees   *)
(* the last reference cleans up in the same step.  The Move iterator and   *)
(* the pipe cache are left out.  With libusbK.sys SetConfiguration changes *)
(* nothing, and only libusb0.sys takes part in it; that driver is          *)
(* external.                                                               *)
(***************************************************************************)
EXTENDS Integers, Sequences, FiniteSets, SequencesExt

CONSTANTS
    Threads,        \* application threads
    Handles,        \* slots of the UsbK pool
    Devs,           \* slots of the DevK pool, each with the file it opened
    Drivers,        \* drivers the device may have: "libusbK", "libusb0"
    Configs,        \* configurations of the device: interface numbers in order
    FirstConfig,    \* the one it is in when it is plugged in
    Alts,           \* alternate settings of every interface
    Targets,        \* bound: the interfaces that are claimed and set
    NoHandle, NoDev,
    MaxLost,        \* bound on the handles lost for want of memory
    ConfigAlone     \* is UsbK_SetConfiguration the only call in progress on
                    \* its device?

Numbers == UNION {Range(c) : c \in Configs}

\* An interface's index goes on from the InterfaceCount before it, which is that
\* of a configuration when the stack is built a second time.
Counts == {0} \cup {Len(c) : c \in Configs}
Indexes == UNION {1 .. k + Len(c) : k \in Counts, c \in Configs}

ASSUME ConfigAssumption ==
    /\ FirstConfig \in Configs /\ \A c \in Configs : c \in Seq(Nat) /\ c # << >> /\ IsInjective(c)
    /\ 0 \in Alts /\ Alts \subseteq Nat /\ Targets \subseteq Numbers
    /\ Drivers \subseteq {"libusbK", "libusb0"} /\ ConfigAlone \in BOOLEAN
    /\ MaxLost \in Nat
    /\ IsFiniteSet(Threads) /\ IsFiniteSet(Handles)
    /\ NoHandle \notin Handles /\ NoDev \notin Devs

VARIABLES
    usb,            \* UsbK slots: Ref, Device, Selected_SharedInterface_Index
    dev,            \* DevK slots: Ref, InterfaceList (the interface number by
                    \* index), InterfaceCount and SharedInterfaces
    driver,         \* the driver of the device
    active,         \* the configuration the device is in
    alt,            \* driver: the alternate setting of each interface
    claimedBy,      \* driver: the file that claimed each interface
    call,           \* what each thread is doing
    mine,           \* history: handles the application has and has not freed
    lost,           \* history: handles of a UsbK_Init that ran out of memory
    known,          \* history: devices that set or read the setting of an
                    \* interface since it last changed
    reconfigured    \* history: has the configuration been changed?

driverVars == <<driver, active, alt, claimedBy>>
history == <<mine, lost, known, reconfigured>>
vars == <<usb, dev, driverVars, call, history>>

\* A record of SharedInterfaces; all of them are zero when the DevK is made.
NoShared == [id |-> 0, alt |-> 0, claimed |-> FALSE]
FreeUsb == [ref |-> 0, dev |-> NoDev, sel |-> 1]
FreeDev == [ref |-> 0, stack |-> << >>, count |-> 0, shared |-> [i \in Indexes |-> NoShared]]
Idle == [op |-> "none", at |-> "idle", h |-> NoHandle, i |-> 1, n |-> 0, v |-> 0]

Init ==
    /\ usb = [h \in Handles |-> FreeUsb]
    /\ dev = [d \in Devs |-> FreeDev]
    /\ driver \in Drivers
    /\ active = FirstConfig
    /\ alt = [n \in Numbers |-> 0]
    /\ claimedBy = [n \in Numbers |-> NoDev]
    /\ call = [t \in Threads |-> Idle]
    /\ mine = {} /\ lost = {}
    /\ known = [n \in Targets |-> {}]
    /\ reconfigured = FALSE

Busy == {t \in Threads : call[t].at # "idle"}
DevOf(t) == usb[call[t].h].dev
CallsOn(d) == {t \in Busy : DevOf(t) = d}

\* A configuration is set without other calls on the device; and two calls
\* through one file do not claim, or set, the same interface at once.
MayCall(d, op) ==
    ConfigAlone => /\ op = "config" => CallsOn(d) = {}
                   /\ \A t \in CallsOn(d) : call[t].op # "config"
Undisturbed(d, n, ops) == \A t \in CallsOn(d) : call[t].op \in ops => call[t].n # n

\* The interfaces of configuration c, numbered from k on.
Numbered(k, c) == [i \in k + 1 .. k + Len(c) |-> c[i - k]]

\* u_Init_Config: the stack of configuration c.  UsbStack_Clear leaves
\* InterfaceCount as it is, so a stack that is built anew is numbered on from the
\* old one.  Of the shared records only ID and Index are written.
WithStack(r, c) ==
    LET list == Numbered(r.count, c)
    IN [r EXCEPT !.stack = list, !.count = @ + Len(c),
                 !.shared = [i \in Indexes |-> IF i \in DOMAIN list THEN [r.shared[i] EXCEPT !.id = list[i]]
                                                                    ELSE r.shared[i]]]

-----------------------------------------------------------------------------
(***************************************************************************)
(* Handles.                                                                *)
(***************************************************************************)

\* A slot of the DevK pool is in use while it has handles, also when a rebuild
\* has taken all of its references.
UsersOf(d) == {h \in Handles : usb[h].ref > 0 /\ usb[h].dev = d}

\* A free slot of the UsbK pool.  Bound: where the configuration can change, one
\* file with at most two handles is open at a time.
FreeSlot(h) ==
    /\ usb[h].ref = 0
    /\ driver = "libusb0" => Cardinality({g \in Handles : usb[g].ref > 0}) < 2
MayOpen(h, d) ==
    /\ FreeSlot(h) /\ UsersOf(d) = {}
    /\ driver = "libusb0" => \A e \in Devs : UsersOf(e) = {}

\* UsbStack_Init with a device of its own: file, configuration and stack.
InitHandle(t, h, d) ==
    /\ call[t] = Idle /\ MayOpen(h, d)
    /\ usb' = [usb EXCEPT ![h] = [ref |-> 1, dev |-> d, sel |-> 1]]
    /\ dev' = [dev EXCEPT ![d] = WithStack([FreeDev EXCEPT !.ref = 1], active)]
    /\ mine' = mine \cup {h}
    /\ UNCHANGED <<driverVars, call, lost, known, reconfigured>>

\* There is no memory for the stack: UsbStack_Init returns without a Dec.
InitNoMemory(t, h, d) ==
    /\ call[t] = Idle /\ MayOpen(h, d)
    /\ usb' = [usb EXCEPT ![h] = [ref |-> 1, dev |-> d, sel |-> 1]]
    /\ dev' = [dev EXCEPT ![d].ref = 1]
    /\ Cardinality(lost) < MaxLost /\ lost' = lost \cup {h}
    /\ UNCHANGED <<driverVars, call, mine, known, reconfigured>>

\* Mutant: the file is closed but its claims are kept.
DecUsbKeepsClaims(h, u, dv) ==
    LET d == u[h].dev
        last == u[h].ref = 1
    IN /\ usb' = IF last THEN [u EXCEPT ![h] = FreeUsb] ELSE [u EXCEPT ![h].ref = @ - 1]
       /\ dev' = IF ~last THEN dv
                 ELSE IF dv[d].ref = 1 THEN [dv EXCEPT ![d] = FreeDev]
                 ELSE [dv EXCEPT ![d].ref = @ - 1]
       /\ UNCHANGED claimedBy

\* PoolHandle_Dec_UsbK(h), from the pools u and dv: the last reference gives up
\* the one on the device (k_Cleanup_UsbK), whose last one closes the file
\* (k_Cleanup_DevK), for which the driver releases what the file claimed.
DecUsb(h, u, dv) ==
    LET d == u[h].dev
        last == u[h].ref = 1
        closes == last /\ dv[d].ref = 1
    IN /\ usb' = IF last THEN [u EXCEPT ![h] = FreeUsb] ELSE [u EXCEPT ![h].ref = @ - 1]
       /\ dev' = IF ~last THEN dv
                 ELSE IF closes THEN [dv EXCEPT ![d] = FreeDev]
                 ELSE [dv EXCEPT ![d].ref = @ - 1]
       /\ claimedBy' = [n \in Numbers |-> IF closes /\ claimedBy[n] = d THEN NoDev
                                                                        ELSE claimedBy[n]]

\* What is forgotten when files are closed.
Known(k) == known' = [n \in Targets |-> {d \in k[n] : dev'[d].ref # 0}]

\* UsbK_Free; calls on the handle may still be in progress.
Free(t, h) ==
    /\ call[t] = Idle /\ h \in mine
    /\ MayCall(usb[h].dev, "free")
    /\ mine' = mine \ {h}
    /\ DecUsb(h, usb, dev)
    /\ Known(known)
    /\ UNCHANGED <<driver, active, alt, call, lost, reconfigured>>

\* Every other call: Inc on its handle, and the interface it is about, if any.
Enter(t, h, op, at, i, n, v) ==
    /\ call[t] = Idle /\ h \in mine
    /\ MayCall(usb[h].dev, op)
    /\ usb' = [usb EXCEPT ![h].ref = @ + 1]
    /\ call' = [call EXCEPT ![t] = [op |-> op, at |-> at, h |-> h, i |-> i, n |-> n, v |-> v]]
    /\ UNCHANGED <<dev, driverVars, history>>

\* The call of t leaves, with the pools u and dv so far.
Leave(t, u, dv) ==
    /\ DecUsb(call[t].h, u, dv)
    /\ call' = [call EXCEPT ![t] = Idle]

\* The interfaces the stack of handle h has.
Found(h) == DOMAIN dev[usb[h].dev].stack

BeginClone(t, h) == Enter(t, h, "clone", "make", 1, 0, 0)

\* UsbStack_GetAssociatedInterface: the (v+1)th interface after the selected one.
BeginAssociated(t, h, v) ==
    /\ usb[h].sel + 1 + v \in Found(h)
    /\ Enter(t, h, "associated", "make", usb[h].sel + 1 + v, 0, 0)

\* Mutant: the clone takes no reference on the device.
MakeCloneUncounted(t, new) ==
    LET h == call[t].h
        sel == IF call[t].op = "clone" THEN usb[h].sel ELSE call[t].i
    IN /\ call[t].at = "make" /\ FreeSlot(new)
       /\ dev[DevOf(t)].ref >= 1
       /\ Leave(t, [usb EXCEPT ![new] = [ref |-> 1, dev |-> DevOf(t), sel |-> sel]],
                dev)
       /\ mine' = mine \cup {new}
       /\ Known(known)
       /\ UNCHANGED <<driver, active, alt, lost, reconfigured>>

\* UsbStack_CloneHandle: a slot, a reference on the device, and the interface
\* selected in the source by now, or the associated one.
MakeClone(t, new) ==
    LET h == call[t].h
        sel == IF call[t].op = "clone" THEN usb[h].sel ELSE call[t].i
    IN /\ call[t].at = "make" /\ FreeSlot(new)
       /\ dev[DevOf(t)].ref >= 1
       /\ Leave(t, [usb EXCEPT ![new] = [ref |-> 1, dev |-> DevOf(t), sel |-> sel]],
                [dev EXCEPT ![DevOf(t)].ref = @ + 1])
       /\ mine' = mine \cup {new}
       /\ Known(known)
       /\ UNCHANGED <<driver, active, alt, lost, reconfigured>>

\* No slot is left, or the device cannot be referenced while it is rebuilt.
MakeCloneFails(t) ==
    /\ call[t].at = "make"
    /\ (\A new \in Handles : ~FreeSlot(new)) \/ dev[DevOf(t)].ref < 1
    /\ Leave(t, usb, dev)
    /\ Known(known)
    /\ UNCHANGED <<driver, active, alt, mine, lost, reconfigured>>

-----------------------------------------------------------------------------
(***************************************************************************)
(* Interfaces: selecting, claiming, alternate settings.                    *)
(***************************************************************************)

BeginSelect(t, h, i) == i \in Found(h) /\ Enter(t, h, "select", "note", i, 0, 0)

BeginClaim(t, h, i, op) ==
    LET n == dev[usb[h].dev].stack[i]
    IN /\ i \in Found(h) /\ n \in Targets
       /\ Undisturbed(usb[h].dev, n, {"claim", "release"})
       /\ Enter(t, h, op, "ask", i, n, 0)

\* The interface by number or index, or the selected one.
BeginAlt(t, h, i, op, v) ==
    LET n == dev[usb[h].dev].shared[i].id
    IN /\ i \in Found(h) \cup {usb[h].sel} /\ n \in Targets
       /\ Undisturbed(usb[h].dev, n, {"set", "get"})
       /\ Enter(t, h, op, "ask", i, n, v)

Configured(n) == n \in Range(active)
At(t, label) == call' = [call EXCEPT ![t].at = label]

\* Mutant: an interface another file claimed is taken over.
InterfaceClaimSteals(d, n, ok) ==
    /\ ok = Configured(n)
    /\ claimedBy' = IF ok THEN [claimedBy EXCEPT ![n] = d] ELSE claimedBy

\* Interface_Claim by the file of d.
InterfaceClaim(d, n, ok) ==
    /\ ok = (Configured(n) /\ claimedBy[n] \in {NoDev, d})
    /\ claimedBy' = IF ok THEN [claimedBy EXCEPT ![n] = d] ELSE claimedBy

\* Interface_Release by the file of d.
InterfaceRelease(d, n, ok) ==
    /\ ok = (Configured(n) /\ claimedBy[n] \in {NoDev, d})
    /\ claimedBy' = IF ok THEN [claimedBy EXCEPT ![n] = NoDev] ELSE claimedBy

AskClaim(t) ==
    /\ call[t].at = "ask" /\ call[t].op \in {"claim", "release"}
    /\ \E ok \in BOOLEAN :
          /\ IF call[t].op = "claim" THEN InterfaceClaim(DevOf(t), call[t].n, ok)
                                     ELSE InterfaceRelease(DevOf(t), call[t].n, ok)
          /\ call' = [call EXCEPT ![t].at = "note", ![t].v = IF ok THEN 1 ELSE 0]
    /\ UNCHANGED <<usb, dev, driver, active, alt, history>>

\* Interface_SetAltSetting or Interface_GetAltSetting.
AskAlt(t) ==
    LET n == call[t].n
        v == IF call[t].op = "set" THEN call[t].v ELSE alt[n]
        noted == IF call[t].i \in Found(call[t].h) THEN {DevOf(t)} ELSE {}
    IN /\ call[t].at = "ask" /\ call[t].op \in {"set", "get"}
       /\ Configured(n)
       /\ alt' = [alt EXCEPT ![n] = v]
       /\ call' = [call EXCEPT ![t].at = "note", ![t].v = v]
       /\ known' = [m \in Targets |-> IF m # n THEN known[m]
                                      ELSE (IF v = alt[n] THEN known[n] ELSE {}) \cup noted]
       /\ UNCHANGED <<usb, dev, driver, active, claimedBy, mine, lost, reconfigured>>

\* The driver does not know the interface, or cannot select the setting.
AskAltFails(t) ==
    /\ call[t].at = "ask" /\ call[t].op \in {"set", "get"}
    /\ call[t].op = "get" => ~Configured(call[t].n)
    /\ Leave(t, usb, dev)
    /\ Known(known)
    /\ UNCHANGED <<driver, active, alt, mine, lost, reconfigured>>

\* Mutant: the answer is noted for the interface that is selected by now.
NotedInSelected(t) ==
    LET i == usb[call[t].h].sel
    IN CASE call[t].op \in {"claim", "release"} ->
                [dev EXCEPT ![DevOf(t)].shared[i].claimed = (call[t].op = "claim" /\ call[t].v = 1)]
         [] call[t].op \in {"set", "get"} -> [dev EXCEPT ![DevOf(t)].shared[i].alt = call[t].v]
         [] OTHER -> dev

\* The shared record of the interface the call is about.
Noted(t) ==
    LET i == call[t].i
    IN CASE call[t].op \in {"claim", "release"} ->
                [dev EXCEPT ![DevOf(t)].shared[i].claimed = (call[t].op = "claim" /\ call[t].v = 1)]
         [] call[t].op \in {"set", "get"} -> [dev EXCEPT ![DevOf(t)].shared[i].alt = call[t].v]
         [] OTHER -> dev

\* Mutant: a claim selects the interface after it.
SelectsNext(t) ==
    IF call[t].op = "select" \/ (call[t].op = "claim" /\ call[t].v = 1)
    THEN [usb EXCEPT ![call[t].h].sel = call[t].i + 1]
    ELSE usb

\* A claim that succeeded also selects the interface.
Selects(t) ==
    IF call[t].op = "select" \/ (call[t].op = "claim" /\ call[t].v = 1)
    THEN [usb EXCEPT ![call[t].h].sel = call[t].i]
    ELSE usb

Note(t) ==
    /\ call[t].at = "note"
    /\ Leave(t, Selects(t), Noted(t))
    /\ Known(known)
    /\ UNCHANGED <<driver, active, alt, mine, lost, reconfigured>>

-----------------------------------------------------------------------------
(***************************************************************************)
(* UsbK_SetConfiguration with libusb0.sys.                                 *)
(***************************************************************************)

\* Bound: once.
BeginConfig(t, h) ==
    /\ driver = "libusb0" /\ ~reconfigured
    /\ Enter(t, h, "config", "configure", 1, 0, 0)

\* The driver sets the configuration; every interface has its setting 0 again.
Configure(t, c) ==
    /\ call[t].at = "configure"
    /\ active' = c
    /\ alt' = [n \in Numbers |-> 0]
    /\ known' = [n \in Targets |-> {}]
    /\ reconfigured' = TRUE
    /\ At(t, "dec1")
    /\ UNCHANGED <<usb, dev, driver, claimedBy, mine, lost>>

ConfigureFails(t) ==
    /\ call[t].at = "configure"
    /\ Leave(t, usb, dev)
    /\ Known(known)
    /\ UNCHANGED <<driver, active, alt, mine, lost, reconfigured>>

\* UsbStack_Rebuild takes two references from the device: the first has to
\* leave one, the second none.
RebuildDec(t) ==
    LET d == DevOf(t)
        first == call[t].at = "dec1"
    IN /\ call[t].at \in {"dec1", "dec2"}
       /\ dev' = [dev EXCEPT ![d].ref = @ - 1]
       /\ call' = [call EXCEPT ![t].v = @ + 1,
                               ![t].at = IF first /\ dev[d].ref = 2 THEN "dec2"
                                         ELSE IF ~first /\ dev[d].ref = 1 THEN "build"
                                         ELSE "inc"]
       /\ UNCHANGED <<usb, driverVars, history>>

\* The stack is cleared and built anew, if the configuration can be read.  Index 0
\* is selected, which is no interface's now.
RebuildStack(t, read) ==
    LET d == DevOf(t)
        cleared == [dev[d] EXCEPT !.stack = << >>]
    IN /\ call[t].at = "build"
       /\ dev' = [dev EXCEPT ![d] = IF read THEN WithStack(cleared, active) ELSE cleared]
       /\ usb' = [usb EXCEPT ![call[t].h].sel = 1]
       /\ At(t, "inc")
       /\ UNCHANGED <<driverVars, history>>

\* The references are given back, whatever happened.
RebuildInc(t) ==
    LET d == DevOf(t)
    IN /\ call[t].at = "inc"
       /\ Leave(t, usb, [dev EXCEPT ![d].ref = @ + call[t].v])
       /\ Known(known)
       /\ UNCHANGED <<driver, active, alt, mine, lost, reconfigured>>

-----------------------------------------------------------------------------
Begin(t, h) ==
    \/ BeginClone(t, h)
    \/ \E i \in Indexes :
          \/ BeginAssociated(t, h, i - 1) \/ BeginSelect(t, h, i)
          \/ \E op \in {"claim", "release"} : BeginClaim(t, h, i, op)
          \/ BeginAlt(t, h, i, "get", 0)
          \/ \E v \in Alts : BeginAlt(t, h, i, "set", v)
    \/ BeginConfig(t, h)

Next == \E t \in Threads :
    \/ \E h \in Handles, d \in Devs : InitHandle(t, h, d) \/ InitNoMemory(t, h, d)
    \/ \E h \in mine : Free(t, h) \/ Begin(t, h)
    \/ \E new \in Handles : MakeClone(t, new)
    \/ MakeCloneFails(t)
    \/ AskClaim(t) \/ AskAlt(t) \/ AskAltFails(t) \/ Note(t)
    \/ \E c \in Configs : Configure(t, c)
    \/ ConfigureFails(t) \/ RebuildDec(t)
    \/ \E read \in BOOLEAN : RebuildStack(t, read)
    \/ RebuildInc(t)

Spec == Init /\ [][Next]_vars

-----------------------------------------------------------------------------
(***************************************************************************)
(* Properties.                                                             *)
(***************************************************************************)

\* What InterfaceList may be.
Stacks == {<< >>} \cup {Numbered(k, c) : k \in Counts, c \in Configs}

Labels == {"idle", "make", "ask", "note", "configure", "dec1", "dec2", "build", "inc"}

\* The state has its type.
TypeOK ==
    /\ usb \in [Handles -> [ref : Nat, dev : Devs \cup {NoDev}, sel : Indexes]]
    /\ \A d \in Devs : /\ dev[d].ref \in Nat
                       /\ dev[d].stack \in Stacks /\ dev[d].count \in Nat
                       /\ dev[d].shared \in [Indexes -> [id : Nat, alt : Alts, claimed : BOOLEAN]]
    /\ driver \in Drivers /\ active \in Configs
    /\ alt \in [Numbers -> Alts] /\ claimedBy \in [Numbers -> Devs \cup {NoDev}]
    /\ \A t \in Threads : call[t].at \in Labels /\ call[t].i \in Indexes
    /\ mine \subseteq Handles /\ lost \subseteq Handles /\ known \in [Targets -> SUBSET Devs]
    /\ reconfigured \in BOOLEAN

Rebuilding(d) == {t \in CallsOn(d) : call[t].op = "config"}

\* A handle counts its owner and the calls on it; a device counts its handles,
\* less what a rebuild (one at a time) has taken.  So it is closed with its last
\* handle, after the last call on that.
RefsExact ==
    /\ \A h \in Handles :
          usb[h].ref = Cardinality({t \in Busy : call[t].h = h})
                       + (IF h \in mine \cup lost THEN 1 ELSE 0)
    /\ \A d \in Devs :
          /\ Rebuilding(d) = {} => dev[d].ref = Cardinality(UsersOf(d))
          /\ \A t \in Rebuilding(d) : dev[d].ref = Cardinality(UsersOf(d)) - call[t].v

\* Until the configuration is changed, the interface a handle has selected
\* exists (every transfer looks its pipe up there).  After a rebuild the
\* interfaces are numbered on, and the index that a handle has selected is no
\* interface's until it selects another.
SelectedExists ==
    \A h \in mine : ~reconfigured => usb[h].sel \in Found(h)

\* Handles and devices are counted exactly, through clones, frees during calls
\* and a rebuild, and what a handle has selected is there to be used.
RefsConsistent == TypeOK /\ RefsExact /\ SelectedExists

\* Outside claims and releases of an interface the library's note of the claim
\* is what the driver has: never is the claim of another file taken for one's
\* own, never is one's own forgotten.
ClaimCacheExact ==
    \A d \in Devs : ~reconfigured => \A i \in DOMAIN dev[d].stack :
        \/ \E t \in CallsOn(d) : call[t].op \in {"claim", "release"} /\ call[t].i = i
        \/ dev[d].shared[i].claimed = (claimedBy[dev[d].stack[i]] = d)

\* The driver keeps claims for files that are open only: one that is left behind
\* would keep every other file from the interface.
ClaimsOfOpenFiles ==
    \A n \in Numbers : claimedBy[n] # NoDev => UsersOf(claimedBy[n]) # {}

\* Claims are the files' and the library's note of them is right, whichever
\* handle claimed, was cloned or freed, and in whichever order.
ClaimsExact == ClaimCacheExact /\ ClaimsOfOpenFiles

\* As long as nobody else has changed the setting since d set or read it, and no
\* call of d is about to, the setting by which pipes are looked up is the active
\* one.
AltCacheExact ==
    \A d \in Devs : \A i \in DOMAIN dev[d].stack :
        LET n == dev[d].stack[i]
        IN \/ n \notin Targets \/ d \notin known[n]
           \/ \E t \in CallsOn(d) : call[t].op \in {"set", "get"} /\ call[t].n = n
           \/ dev[d].shared[i].alt = alt[n]
=============================================================================
