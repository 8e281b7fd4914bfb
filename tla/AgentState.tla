----------------------------- MODULE AgentState -----------------------------
(***************************************************************************)
(* What the reconcilers of one node agent share: the power library, whose  *)
(* calls are atomic here (PowerLibrary shows that they may be, see its     *)
(* refinement of PoolAssignment), the agent's view of the cluster          *)
(* (informer caches), the parts of PowerNodeState and of the Node that the *)
(* reconcilers write, and the work queues.                                 *)
(*                                                                         *)
(* A pool is known by its name.  The reconcilers look pools up by name and *)
(* use them at once, but for one loop (see UpdatePseudo).                  *)
(***************************************************************************)
EXTENDS Integers, Sequences, FiniteSets

CONSTANTS
    CPUs,            \* ids of the online CPUs
    ProfileNames,    \* names of PowerProfiles, and of their exclusive pools
    SharedProfiles,  \* PowerProfiles with spec.shared when the agent starts
    Switchable,      \* PowerProfiles whose spec.shared users may change
    ConfigNames,     \* PowerNodeConfigs; numbers, the oldest is the least
    ConfigSpecs,     \* [shared: profile, reserved: set of entries]
    Pods,            \* pods of this node that request power profiles
    podSpec,         \* per pod, the sequence of [profile, cpus] of its containers
    MaxVersion,      \* bound: versions of a PowerProfile
    MaxEdits,        \* bound: changes made by users, kubelet and restarts
    Faults,          \* which trouble a behaviour may have, some of FaultKinds
    MayUnmatch,      \* node labels may stop matching a profile's selector
    Prompt           \* a pod's object outlives the reconcile of its end

reserved == "reserved"
shared == "shared"
NoProfile == [name |-> "nil", ver |-> 0]
NoSpec == [shared |-> "nil", reserved |-> {}]
NoConfig == 0
NoEntry == [cpus |-> {}, bad |-> {}, recorded |-> FALSE]

\* Entries of reservedCPUs: [pool: its pseudo-pool's name, cores, profile].
\* The CRD requires the profile, so the branch without one is left out.
Entries == UNION {s.reserved : s \in ConfigSpecs}
PseudoPools == {e.pool : e \in Entries}
Pools == {reserved, shared} \cup ProfileNames \cup PseudoPools
containersOf(p) == {podSpec[p][i] : i \in DOMAIN podSpec[p]}
cpusOf(p) == UNION {k.cpus : k \in containersOf(p)}

FaultKinds == {"none", "sysfs", "requests", "restarts", "lag"}

ASSUME FaultsAssumption == Faults \subseteq FaultKinds
ASSUME SharedAssumption == SharedProfiles \subseteq ProfileNames /\ Switchable \subseteq ProfileNames
ASSUME AgesAssumption == ConfigNames \subseteq Nat \ {NoConfig}
\* A pseudo-pool is named after its cores, and the entries of a config are disjoint
\* (validateReservedCPUDisjoint).
ASSUME EntriesAssumption ==
    /\ \A s \in ConfigSpecs : \A e, g \in s.reserved : e # g => e.cores \cap g.cores = {}
    /\ \A e, g \in Entries : e.pool = g.pool <=> e.cores = g.cores
    /\ PseudoPools \cap (ProfileNames \cup {reserved, shared}) = {}
ASSUME SpecsAssumption ==
    /\ \A s \in ConfigSpecs : s.shared \in ProfileNames
    /\ \A e \in Entries : e.cores \subseteq CPUs /\ e.profile \in ProfileNames
\* Pools go by their names here: no profile is called like one of the two fixed pools.
ASSUME NamesAssumption == {reserved, shared, "nil"} \cap ProfileNames = {} /\ "nil" \notin Pods
\* kubelet gives a CPU to one container.
ASSUME PodsAssumption ==
    \A p \in Pods :
        /\ podSpec[p] \in Seq([profile: ProfileNames, cpus: SUBSET CPUs])
        /\ \A i, j \in DOMAIN podSpec[p] : i # j => podSpec[p][i].cpus \cap podSpec[p][j].cpus = {}
ASSUME BoundsAssumption == MaxVersion \in Nat \ {0} /\ MaxEdits \in Nat
\* reservedCPUs are the kubelet's reservedSystemCPUs (README): no pod gets one.
ASSUME ReservedSystemCPUs ==
    \A e \in Entries, p \in Pods : e.cores \cap cpusOf(p) = {}

VARIABLES
    \* the power library
    owner,          \* the pool of every CPU
    exclusive,      \* names of the exclusive pools
    prof,           \* the profile of every pool: a PowerProfile and its version
    \* the cluster
    cr,             \* PowerProfiles: [ver, state, shared], state is one of CRStates
    configs,        \* PowerNodeConfigs that match the node: spec or NoSpec
    phase,          \* pods: "none", "running", "done" (being deleted or succeeded), "gone"
    switched,       \* history: profiles whose spec.shared was changed
    edits,          \* changes made so far
    faults,         \* the trouble of this behaviour
    seen,           \* with lag, PowerNodeState in the informer cache: [active, entry]
    \* what the agent reports
    active,         \* PowerNodeState: name of the active PowerNodeConfig
    sharedStatus,   \* PowerNodeState: CPUs of the shared pool
    entry,          \* PowerNodeState: per pod, its CPUs and the containers with errors
    profStatus,     \* PowerNodeState: "none", "ok" or "error" for every profile
    extRes,         \* Node: profiles offered as extended resources
    \* work queues
    profQueue, cfgQueue, podQueue

CRStates == {"absent", "unmatched", "invalid", "valid"}

library == <<owner, exclusive, prof>>
cluster == <<cr, configs, phase, switched, edits, faults, seen>>
report == <<active, sharedStatus, entry, profStatus, extRes>>
queues == <<profQueue, cfgQueue, podQueue>>
stateVars == <<library, cluster, report, queues>>

SysfsFails == faults = "sysfs"        \* writes to sysfs may fail
RequestsFail == faults = "requests"   \* requests to the API server and kubelet may fail

\* PowerNodeState is read from the informer cache, which may lag behind what the
\* agent itself has written; in the other behaviours it has every write at once.
latest == [active |-> active, entry |-> entry]
cached == IF faults = "lag" THEN seen ELSE latest
Behind == faults = "lag" /\ seen # latest

cpusIn(p) == {c \in CPUs : owner[c] = p}
listedPseudo == exclusive \cap PseudoPools
someConfig == \E n \in ConfigNames : configs[n] # NoSpec

\* validateProfileAvailabilityOnNode
ProfileAvailable(f) == cr[f].state \in {"valid", "invalid"} /\ f \in exclusive

(***************************************************************************)
(* Library calls.  A call that fails has dealt with some CPUs of its list. *)
(***************************************************************************)
Moved(S, p) == [c \in CPUs |-> IF c \in S THEN p ELSE owner[c]]
Movable(c, p) == owner[c] = p \/ shared \in {owner[c], p}

MoveCPUs(S, p) ==
    /\ \A c \in S : Movable(c, p)
    /\ owner' = Moved(S, p)

MoveCPUsFails(S, p) ==
    \E D \in SUBSET S :
        /\ D # S
        /\ SysfsFails \/ \E c \in S \ D : ~Movable(c, p)
        /\ \A c \in D : Movable(c, p)
        /\ owner' = Moved(D, p)

\* The profile is replaced before the first CPU is written.
SetPowerProfile(p, f) == prof' = [prof EXCEPT ![p] = f]
SetPowerProfileFails(p, f) == SysfsFails /\ cpusIn(p) # {} /\ SetPowerProfile(p, f)

AddExclusivePool(p) ==
    /\ exclusive' = exclusive \cup {p}
    /\ prof' = [prof EXCEPT ![p] = NoProfile]

RemovePool(p) ==
    /\ MoveCPUs(cpusIn(p), shared)
    /\ exclusive' = exclusive \ {p}
    /\ prof' = [prof EXCEPT ![p] = NoProfile]
RemovePoolFails(p) == MoveCPUsFails(cpusIn(p), shared) /\ UNCHANGED <<exclusive, prof>>

\* The agent starts: the profiles are there, configs may be; every object is new
\* to the agent and queued.
InitState ==
    /\ owner = [c \in CPUs |-> reserved]
    /\ exclusive = {}
    /\ prof = [p \in Pools |-> NoProfile]
    /\ cr = [f \in ProfileNames |-> [ver |-> 1, state |-> "valid", shared |-> f \in SharedProfiles]]
    /\ configs \in [ConfigNames -> ConfigSpecs \cup {NoSpec}]
    /\ phase = [p \in Pods |-> "none"]
    /\ switched = {} /\ edits = 0 /\ faults \in Faults
    /\ active = NoConfig
    /\ sharedStatus = {}
    /\ entry = [p \in Pods |-> NoEntry]
    /\ seen = latest
    /\ profStatus = [f \in ProfileNames |-> "none"]
    /\ extRes = {}
    /\ profQueue = ProfileNames
    /\ cfgQueue = someConfig
    /\ podQueue = {}

=============================================================================
