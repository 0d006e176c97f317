--------------------------- MODULE HandleLifetime ---------------------------
(***************************************************************************)
(* What a handle pool of lusbk_handles.c promises, without its spin locks, *)
(* counters and scans: a slot is claimed and opened for one owner; calls   *)
(* come in only while the owner keeps it; with the last of owner and calls *)
(* it is dead, in the same instant, and only a dead slot goes back to the  *)
(* pool.  HandlePool implements this specification.                        *)
(***************************************************************************)
CONSTANTS
    Threads,    \* threads of the process
    Slots       \* handles of the pool

VARIABLES
    phase,      \* of each slot
    owned,      \* slots whose owner has not given up its reference
    inside      \* the threads whose calls are inside each slot

lifeVars == <<phase, owned, inside>>

Phases == {"absent", "setup", "live", "dead"}

Init ==
    /\ phase = [s \in Slots |-> "absent"]
    /\ owned = {}
    /\ inside = [s \in Slots |-> {}]

\* An unused slot is reserved for a new handle ...
Claim(s) ==
    /\ phase[s] = "absent"
    /\ phase' = [phase EXCEPT ![s] = "setup"]
    /\ UNCHANGED <<owned, inside>>

\* ... and gets its owner.
Open(s) ==
    /\ phase[s] = "setup"
    /\ phase' = [phase EXCEPT ![s] = "live"]
    /\ owned' = owned \cup {s}
    /\ UNCHANGED inside

Enter(t, s) ==
    /\ phase[s] = "live"
    /\ s \in owned
    /\ inside' = [inside EXCEPT ![s] = @ \cup {t}]
    /\ UNCHANGED <<phase, owned>>

\* A call leaves; the last one out of a slot without owner leaves it dead.
Leave(t, s) ==
    /\ t \in inside[s]
    /\ inside' = [inside EXCEPT ![s] = @ \ {t}]
    /\ phase' = [phase EXCEPT ![s] =
                    IF s \notin owned /\ inside[s] = {t} THEN "dead" ELSE @]
    /\ UNCHANGED owned

\* The owner gives up its reference; without calls inside that is the end.
Abandon(s) ==
    /\ s \in owned
    /\ phase[s] = "live"
    /\ owned' = owned \ {s}
    /\ phase' = [phase EXCEPT ![s] = IF inside[s] = {} THEN "dead" ELSE @]
    /\ UNCHANGED inside

\* The slot was cleaned up and goes back to the pool.
Recycle(s) ==
    /\ phase[s] = "dead"
    /\ phase' = [phase EXCEPT ![s] = "absent"]
    /\ UNCHANGED <<owned, inside>>

Next ==
    \E s \in Slots :
        \/ Claim(s) \/ Open(s) \/ Abandon(s) \/ Recycle(s)
        \/ \E t \in Threads : Enter(t, s) \/ Leave(t, s)

Spec == Init /\ [][Next]_lifeVars
=============================================================================
