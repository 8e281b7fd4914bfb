--------------------------- MODULE PoolAssignment ---------------------------
(***************************************************************************)
(* What the power library promises to the controllers about pools, without *)
(* lists, locks, loops or sysfs: every CPU belongs to exactly one pool, it *)
(* changes pool in one step, one of the two pools is always the shared     *)
(* pool, and a pool leaves the host only while no CPU belongs to it.  An   *)
(* operation on many CPUs is a series of such steps that may stop early;   *)
(* a CPU whose move failed has not moved.                                  *)
(***************************************************************************)
CONSTANTS CPUs, PoolObjs

VARIABLES
    owner,   \* the pool of every CPU
    listed,  \* the exclusive pools of the host
    created  \* every exclusive pool there has been: callers may still hold them

vars == <<owner, listed, created>>

Init ==
    /\ owner = [c \in CPUs |-> "reserved"]
    /\ listed = {}
    /\ created = {}

Transfer(c, p) ==
    /\ p \in {"reserved", "shared"} \cup created
    /\ owner[c] # p
    /\ owner[c] = "shared" \/ p = "shared"
    /\ owner' = [owner EXCEPT ![c] = p]
    /\ UNCHANGED <<listed, created>>

Create(p) ==
    /\ p \notin created
    /\ created' = created \cup {p}
    /\ listed' = listed \cup {p}
    /\ UNCHANGED owner

Remove(p) ==
    /\ p \in listed
    /\ \A c \in CPUs : owner[c] # p
    /\ listed' = listed \ {p}
    /\ UNCHANGED <<owner, created>>

Next ==
    \/ \E c \in CPUs, p \in {"reserved", "shared"} \cup PoolObjs : Transfer(c, p)
    \/ \E p \in PoolObjs : Create(p) \/ Remove(p)

Spec == Init /\ [][Next]_vars

=============================================================================
