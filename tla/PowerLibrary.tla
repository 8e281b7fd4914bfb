---------------------------- MODULE PowerLibrary ----------------------------
(***************************************************************************)
(* The pool side of the power library (internal/power: host.go, pool.go,   *)
(* cpu.go).  One Host owns a reserved pool, a shared pool and a list of    *)
(* exclusive pools; every CPU points at its pool and every pool lists its  *)
(* CPUs.  The exported operations take the host mutex, walk over a list of *)
(* CPUs and, for each of them, change the membership and write the         *)
(* profile of the pool to sysfs; any of those writes may fail, which ends  *)
(* the operation where it stands.                                          *)
(*                                                                         *)
(* Goroutines (the controllers) are Threads.  A CPU list is a set: the     *)
(* order of a slice only decides in which order CPUs are visited, and the  *)
(* walk takes any order where the code follows a slice and ascending ids   *)
(* where it follows the host's CPU list.                                   *)
(***************************************************************************)
EXTENDS Integers

CONSTANTS
    CPUs,       \* ids of the online CPUs
    PoolObjs,   \* exclusive pool objects (pointers) that can be allocated
    PoolNames,  \* names of exclusive pools
    Profiles,   \* Profile objects
    CpuLists,   \* CPU lists that callers pass
    Threads     \* goroutines that call the library

reservedPool == "reserved"
sharedPool == "shared"
nilProfile == "nil"    \* no profile: the defaults read at start-up
Mixed == "mixed"       \* sysfs values that no single profile prescribes
NoName == "unnamed"    \* name of a pool object that is not allocated yet
NoThread == "none"     \* owner of the mutex when it is free
NoCPU == -1            \* no doSetPool in progress

ASSUME CPUsAssumption == CPUs \subseteq Nat
ASSUME ListsAssumption == CpuLists \subseteq SUBSET CPUs
ASSUME PoolsAssumption == {reservedPool, sharedPool} \cap PoolObjs = {}
ASSUME ThreadsAssumption == NoThread \notin Threads
ASSUME NamesAssumption == NoName \notin PoolNames

Pools == {reservedPool, sharedPool} \cup PoolObjs
isExclusive(p) == p \in PoolObjs

VARIABLES
    hostMutex,       \* hostImpl.hostMutex: the thread that holds it
    cpuPool,         \* cpuImpl.pool of every CPU
    members,         \* poolImpl.cpus of every pool
    powerProfile,    \* poolImpl.powerProfile of every pool
    exclusivePools,  \* hostImpl.exclusivePools
    poolName,        \* poolImpl.name of every exclusive pool object
    hw,              \* the profile whose values sysfs holds, per CPU
    pc,              \* where every thread is in a call
    req,             \* the call a thread makes
    todo,            \* CPUs the loop of the call has not visited
    moving,          \* the CPU doSetPool is moving
    origPool,        \* origPool of doSetPool
    unapplied        \* history: CPUs no consolidate has completed for since
                     \* start-up or since an error left them behind

libVars == <<cpuPool, members, powerProfile, exclusivePools, poolName, hw>>
callVars == <<hostMutex, pc, req, todo, moving, origPool>>
vars == <<libVars, callVars, unapplied>>

(***************************************************************************)
(* Calls.  reservedPool.SetPowerProfile, reservedPool.Remove and           *)
(* sharedPool.Remove only return an error, ManyByIDs returns one for an    *)
(* unknown id before anything changes and AddExclusivePool returns one for *)
(* a name in use: none of these leaves a trace in the state.               *)
(***************************************************************************)
MoveRequests ==
    [op: {"MoveCPUIDs", "SetCPUIDs"}, pool: Pools, cpus: CpuLists, profile: {nilProfile}]
ProfileRequests ==
    [op: {"SetPowerProfile"}, pool: Pools \ {reservedPool}, cpus: {{}},
     profile: Profiles \cup {nilProfile}]
RemoveRequests ==
    [op: {"Remove"}, pool: PoolObjs, cpus: {{}}, profile: {nilProfile}]
Requests == MoveRequests \cup ProfileRequests \cup RemoveRequests
NoRequest ==
    [op |-> "SetPowerProfile", pool |-> sharedPool, cpus |-> {}, profile |-> nilProfile]

\* Pools that a caller can hold a pointer to: a removed pool stays one.
createdPools == {p \in PoolObjs : poolName[p] # NoName}
Allocated == {reservedPool, sharedPool} \cup createdPools

Inside(t) == pc[t] \in {"running", "moving", "failed"}

Init ==
    /\ hostMutex = NoThread
    /\ cpuPool = [c \in CPUs |-> reservedPool]
    /\ members = [p \in Pools |-> IF p = reservedPool THEN CPUs ELSE {}]
    /\ powerProfile = [p \in Pools |-> nilProfile]
    /\ exclusivePools = {}
    /\ poolName = [p \in PoolObjs |-> NoName]
    /\ hw = [c \in CPUs |-> Mixed]
    /\ pc = [t \in Threads |-> "idle"]
    /\ req = [t \in Threads |-> NoRequest]
    /\ todo = [t \in Threads |-> {}]
    /\ moving = [t \in Threads |-> NoCPU]
    /\ origPool = [t \in Threads |-> reservedPool]
    /\ unapplied = CPUs

(***************************************************************************)
(* Entering and leaving a call                                             *)
(***************************************************************************)
Call(t, r) ==
    /\ pc[t] = "idle"
    /\ r.pool \in Allocated
    /\ pc' = [pc EXCEPT ![t] = "waiting"]
    /\ req' = [req EXCEPT ![t] = r]
    /\ UNCHANGED <<hostMutex, todo, moving, origPool, libVars, unapplied>>

\* Mutant of LoopCpus: counts one id too many.
LoopCpus_OffByOne(r) ==
    IF r.op = "MoveCPUIDs" THEN r.cpus
    ELSE IF r.op = "SetPowerProfile" THEN members[r.pool]
    ELSE CPUs \cup {c + 1 : c \in CPUs}

\* The CPUs the loop of a call walks over.
LoopCpus(r) ==
    IF r.op = "MoveCPUIDs" THEN r.cpus
    ELSE IF r.op = "SetPowerProfile" THEN members[r.pool]
    ELSE CPUs

\* Mutant of Lock: an entry point that does not wait for the mutex.
Lock_NoWait(t) ==
    /\ pc[t] = "waiting"
    /\ hostMutex' = t
    /\ pc' = [pc EXCEPT ![t] = "running"]
    /\ todo' = [todo EXCEPT ![t] = LoopCpus(req[t])]
    /\ powerProfile' = IF req[t].op = "SetPowerProfile"
                       THEN [powerProfile EXCEPT ![req[t].pool] = req[t].profile]
                       ELSE powerProfile
    /\ UNCHANGED <<req, moving, origPool, cpuPool, members, exclusivePools, poolName, hw, unapplied>>

\* lockHostMutex, and what comes before the loop: SetPowerProfile has
\* replaced the profile of the pool before the first CPU is touched.
Lock(t) ==
    /\ pc[t] = "waiting"
    /\ hostMutex = NoThread
    /\ hostMutex' = t
    /\ pc' = [pc EXCEPT ![t] = "running"]
    /\ todo' = [todo EXCEPT ![t] = LoopCpus(req[t])]
    /\ powerProfile' = IF req[t].op = "SetPowerProfile"
                       THEN [powerProfile EXCEPT ![req[t].pool] = req[t].profile]
                       ELSE powerProfile
    /\ UNCHANGED <<req, moving, origPool, cpuPool, members, exclusivePools, poolName, hw, unapplied>>

\* Mutant of Return: no deferred unlock, the error returns keep the mutex.
Return_LockedOnError(t) ==
    /\ \/ pc[t] = "failed"
       \/ pc[t] = "running" /\ todo[t] = {}
    /\ exclusivePools' = IF req[t].op = "Remove" /\ pc[t] = "running"
                         THEN exclusivePools \ {req[t].pool}
                         ELSE exclusivePools
    /\ hostMutex' = IF pc[t] = "failed" THEN hostMutex ELSE NoThread
    /\ pc' = [pc EXCEPT ![t] = "idle"]
    /\ req' = [req EXCEPT ![t] = NoRequest]
    /\ todo' = [todo EXCEPT ![t] = {}]
    /\ UNCHANGED <<moving, origPool, cpuPool, members, powerProfile, poolName, hw, unapplied>>

\* Remove unlists the pool once setCpus has emptied it.  The deferred unlock
\* runs on every way out.
Return(t) ==
    /\ \/ pc[t] = "failed"
       \/ pc[t] = "running" /\ todo[t] = {}
    /\ exclusivePools' = IF req[t].op = "Remove" /\ pc[t] = "running"
                         THEN exclusivePools \ {req[t].pool}
                         ELSE exclusivePools
    /\ hostMutex' = NoThread
    /\ pc' = [pc EXCEPT ![t] = "idle"]
    /\ req' = [req EXCEPT ![t] = NoRequest]
    /\ todo' = [todo EXCEPT ![t] = {}]
    /\ UNCHANGED <<moving, origPool, cpuPool, members, powerProfile, poolName, hw, unapplied>>

AddExclusivePool(n, p) ==
    /\ hostMutex = NoThread
    /\ \A q \in exclusivePools : poolName[q] # n
    /\ poolName[p] = NoName
    /\ poolName' = [poolName EXCEPT ![p] = n]
    /\ exclusivePools' = exclusivePools \cup {p}
    /\ UNCHANGED <<callVars, cpuPool, members, powerProfile, hw, unapplied>>

(***************************************************************************)
(* The loops over CPUs                                                     *)
(***************************************************************************)

\* setCpus walks the host's CPU list, which is in ascending order.
Visits(t, c) ==
    /\ pc[t] = "running"
    /\ c \in todo[t]
    /\ req[t].op \in {"SetCPUIDs", "Remove"} => \A d \in todo[t] : c <= d

\* Mutant of Target: setCpus adds the CPUs of the list and keeps the others.
Target_KeepsUnwanted(r, c) ==
    IF r.op = "MoveCPUIDs" \/ c \in r.cpus THEN r.pool ELSE cpuPool[c]

\* Where moveCpus and the three setCpus send a CPU.  A CPU that the pool does
\* not want goes from shared to reserved, from any other pool to shared.
Target(r, c) ==
    IF r.op = "MoveCPUIDs" \/ c \in r.cpus THEN r.pool
    ELSE IF cpuPool[c] # r.pool THEN cpuPool[c]
    ELSE IF r.pool = sharedPool THEN reservedPool
    ELSE sharedPool

\* The errors of setPool: cases 3, 7 and 9 of its table.
Forbidden(cur, tgt) ==
    \/ cur = reservedPool /\ isExclusive(tgt)
    \/ isExclusive(cur) /\ isExclusive(tgt) /\ cur # tgt
    \/ isExclusive(cur) /\ tgt = reservedPool

SkipCpu(t, c) ==
    /\ Visits(t, c)
    /\ req[t].op # "SetPowerProfile"
    /\ Target(req[t], c) = cpuPool[c]
    /\ todo' = [todo EXCEPT ![t] = @ \ {c}]
    /\ UNCHANGED <<hostMutex, pc, req, moving, origPool, libVars, unapplied>>

RejectCpu(t, c) ==
    /\ Visits(t, c)
    /\ req[t].op # "SetPowerProfile"
    /\ Forbidden(cpuPool[c], Target(req[t], c))
    /\ pc' = [pc EXCEPT ![t] = "failed"]
    /\ UNCHANGED <<hostMutex, req, todo, moving, origPool, libVars, unapplied>>

\* Mutant of BeginMove: setPool without the checks of its table.
BeginMove_AnyPools(t, c) ==
    /\ Visits(t, c)
    /\ req[t].op # "SetPowerProfile"
    /\ LET cur == cpuPool[c]
           tgt == Target(req[t], c)
       IN  /\ cur # tgt
           /\ cpuPool' = [cpuPool EXCEPT ![c] = tgt]
           /\ members' = [members EXCEPT ![cur] = @ \ {c}]
           /\ origPool' = [origPool EXCEPT ![t] = cur]
    /\ moving' = [moving EXCEPT ![t] = c]
    /\ pc' = [pc EXCEPT ![t] = "moving"]
    /\ UNCHANGED <<hostMutex, req, todo, powerProfile, exclusivePools, poolName, hw, unapplied>>

\* doSetPool up to consolidate: the CPU points at the new pool and is in no list.
BeginMove(t, c) ==
    /\ Visits(t, c)
    /\ req[t].op # "SetPowerProfile"
    /\ LET cur == cpuPool[c]
           tgt == Target(req[t], c)
       IN  /\ cur # tgt
           /\ sharedPool \in {cur, tgt}
           /\ cpuPool' = [cpuPool EXCEPT ![c] = tgt]
           /\ members' = [members EXCEPT ![cur] = @ \ {c}]
           /\ origPool' = [origPool EXCEPT ![t] = cur]
    /\ moving' = [moving EXCEPT ![t] = c]
    /\ pc' = [pc EXCEPT ![t] = "moving"]
    /\ UNCHANGED <<hostMutex, req, todo, powerProfile, exclusivePools, poolName, hw, unapplied>>

(***************************************************************************)
(* consolidate writes the governor, the EPP and the frequencies of the     *)
(* pool's profile, then its C-states, and stops at the first error.        *)
(***************************************************************************)
Consolidated(c) ==
    /\ hw' = [hw EXCEPT ![c] = powerProfile[cpuPool[c]]]
    /\ unapplied' = unapplied \ {c}

ConsolidateFailed(c, left) ==
    /\ hw' = [hw EXCEPT ![c] = Mixed]
    /\ unapplied' = unapplied \cup left

\* Mutant of FinishMove: consolidate ran while the CPU still pointed at its old pool.
FinishMove_OldProfile(t) ==
    LET c == moving[t] IN
    /\ pc[t] = "moving"
    /\ hw' = [hw EXCEPT ![c] = powerProfile[origPool[t]]]
    /\ unapplied' = unapplied \ {c}
    /\ members' = [members EXCEPT ![cpuPool[c]] = @ \cup {c}]
    /\ pc' = [pc EXCEPT ![t] = "running"]
    /\ todo' = [todo EXCEPT ![t] = @ \ {c}]
    /\ moving' = [moving EXCEPT ![t] = NoCPU]
    /\ origPool' = [origPool EXCEPT ![t] = reservedPool]
    /\ UNCHANGED <<hostMutex, req, cpuPool, powerProfile, exclusivePools, poolName>>

\* The rest of doSetPool after a consolidate without error.
FinishMove(t) ==
    LET c == moving[t] IN
    /\ pc[t] = "moving"
    /\ Consolidated(c)
    /\ members' = [members EXCEPT ![cpuPool[c]] = @ \cup {c}]
    /\ pc' = [pc EXCEPT ![t] = "running"]
    /\ todo' = [todo EXCEPT ![t] = @ \ {c}]
    /\ moving' = [moving EXCEPT ![t] = NoCPU]
    /\ origPool' = [origPool EXCEPT ![t] = reservedPool]
    /\ UNCHANGED <<hostMutex, req, cpuPool, powerProfile, exclusivePools, poolName>>

\* Mutant of RevertMove: the CPU is not put back into the list of its old pool.
RevertMove_NotListed(t) ==
    LET c == moving[t] IN
    /\ pc[t] = "moving"
    /\ ConsolidateFailed(c, {c})
    /\ cpuPool' = [cpuPool EXCEPT ![c] = origPool[t]]
    /\ pc' = [pc EXCEPT ![t] = "failed"]
    /\ moving' = [moving EXCEPT ![t] = NoCPU]
    /\ origPool' = [origPool EXCEPT ![t] = reservedPool]
    /\ UNCHANGED <<hostMutex, req, todo, members, powerProfile, exclusivePools, poolName>>

\* The rest of doSetPool after an error of consolidate: the CPU goes back to
\* its old pool, sysfs keeps what was written.
RevertMove(t) ==
    LET c == moving[t] IN
    /\ pc[t] = "moving"
    /\ ConsolidateFailed(c, {c})
    /\ cpuPool' = [cpuPool EXCEPT ![c] = origPool[t]]
    /\ members' = [members EXCEPT ![origPool[t]] = @ \cup {c}]
    /\ pc' = [pc EXCEPT ![t] = "failed"]
    /\ moving' = [moving EXCEPT ![t] = NoCPU]
    /\ origPool' = [origPool EXCEPT ![t] = reservedPool]
    /\ UNCHANGED <<hostMutex, req, todo, powerProfile, exclusivePools, poolName>>

\* One iteration of the loop of SetPowerProfile.
ApplyProfile(t, c) ==
    /\ Visits(t, c)
    /\ req[t].op = "SetPowerProfile"
    /\ Consolidated(c)
    /\ todo' = [todo EXCEPT ![t] = @ \ {c}]
    /\ UNCHANGED <<hostMutex, pc, req, moving, origPool, cpuPool, members, powerProfile,
                   exclusivePools, poolName>>

ApplyProfileFails(t, c) ==
    /\ Visits(t, c)
    /\ req[t].op = "SetPowerProfile"
    /\ ConsolidateFailed(c, todo[t])
    /\ pc' = [pc EXCEPT ![t] = "failed"]
    /\ UNCHANGED <<hostMutex, req, todo, moving, origPool, cpuPool, members, powerProfile,
                   exclusivePools, poolName>>

\* The steps a call takes once it holds the mutex.
Work(t) ==
    \/ Return(t)
    \/ FinishMove(t) \/ RevertMove(t)
    \/ \E c \in CPUs :
          \/ SkipCpu(t, c) \/ RejectCpu(t, c) \/ BeginMove(t, c)
          \/ ApplyProfile(t, c) \/ ApplyProfileFails(t, c)

Next ==
    \/ \E t \in Threads :
          \/ \E r \in Requests : Call(t, r)
          \/ Lock(t)
          \/ Work(t)
    \/ \E n \in PoolNames, p \in PoolObjs : AddExclusivePool(n, p)

Spec == Init /\ [][Next]_vars

\* A goroutine inside a call is scheduled, and Go's mutex hands itself to a
\* waiter that has starved for a millisecond.
Fairness == \A t \in Threads : WF_vars(Work(t)) /\ SF_vars(Lock(t))
FairSpec == Spec /\ Fairness

-----------------------------------------------------------------------------
TypeOK ==
    /\ hostMutex \in Threads \cup {NoThread}
    /\ cpuPool \in [CPUs -> Pools]
    /\ members \in [Pools -> SUBSET CPUs]
    /\ powerProfile \in [Pools -> Profiles \cup {nilProfile}]
    /\ exclusivePools \subseteq PoolObjs
    /\ poolName \in [PoolObjs -> PoolNames \cup {NoName}]
    /\ hw \in [CPUs -> Profiles \cup {nilProfile, Mixed}]
    /\ pc \in [Threads -> {"idle", "waiting", "running", "moving", "failed"}]
    /\ req \in [Threads -> Requests]
    /\ todo \in [Threads -> SUBSET CPUs]
    /\ moving \in [Threads -> CPUs \cup {NoCPU}]
    /\ origPool \in [Threads -> Pools]
    /\ unapplied \subseteq CPUs

\* c is between the two halves of doSetPool.
InMove(c) == \E t \in Threads : pc[t] = "moving" /\ moving[t] = c

\* c waits for its turn in a SetPowerProfile that is under way.
InProfileUpdate(c) ==
    \E t \in Threads : pc[t] = "running" /\ req[t].op = "SetPowerProfile" /\ c \in todo[t]

\* A call is in its critical section exactly when it owns the host mutex
\* (rules 1 and 2 of CONCURRENCY.md).
MutexOwned == \A t \in Threads : Inside(t) <=> hostMutex = t

\* cpuImpl.pool and poolImpl.cpus agree: each CPU is listed by the pool it
\* points at and by no other, and by none while doSetPool carries it.  This is
\* what makes the "cpu is not in pool" error of CPUList.remove unreachable,
\* through interleaved calls and writes that fail half-way.
MembershipAgrees ==
    \A c \in CPUs, p \in Pools : c \in members[p] <=> cpuPool[c] = p /\ ~InMove(c)

\* Outside the operation that is changing it, sysfs holds the profile of the
\* pool a CPU is in, except for the CPUs an error left behind (or that no
\* operation has touched since start-up).
HardwareFollowsPool ==
    \A c \in CPUs \ unapplied :
        InMove(c) \/ InProfileUpdate(c) \/ hw[c] = powerProfile[cpuPool[c]]

\* What a call that returns no error has achieved when it unlocks: SetCPUIDs
\* made the membership exactly the list, MoveCPUIDs brought in every CPU of the
\* list, Remove emptied the pool, SetPowerProfile reached every CPU of the pool.
CallDelivers ==
    \A t \in Threads :
        pc[t] = "running" /\ todo[t] = {} =>
            LET r == req[t] IN
            /\ r.op = "SetCPUIDs" => members[r.pool] = r.cpus
            /\ r.op = "MoveCPUIDs" => r.cpus \subseteq members[r.pool]
            /\ r.op = "Remove" => members[r.pool] = {}
            /\ r.op = "SetPowerProfile" => \A c \in members[r.pool] : hw[c] = r.profile

\* Every call returns: the loops end, every exit unlocks, and no case of
\* setPool is missing (its final panic is never reached).
CallsReturn == \A t \in Threads : pc[t] # "idle" ~> pc[t] = "idle"

-----------------------------------------------------------------------------
(***************************************************************************)
(* PowerLibrary implements PoolAssignment: a CPU still belongs to its old  *)
(* pool while doSetPool carries it.                                        *)
(***************************************************************************)
committedPool ==
    [c \in CPUs |->
        IF hostMutex # NoThread /\ pc[hostMutex] = "moving" /\ moving[hostMutex] = c
        THEN origPool[hostMutex]
        ELSE cpuPool[c]]

Assignment == INSTANCE PoolAssignment
                WITH owner <- committedPool, listed <- exclusivePools, created <- createdPools

\* To its callers the library behaves as PoolAssignment: locked multi-CPU
\* operations, their partial failures and the roll-back of doSetPool included.
ImplementsAssignment == Assignment!Spec

-----------------------------------------------------------------------------
(***************************************************************************)
(* The inductive invariant behind the properties above.                    *)
(***************************************************************************)

\* doSetPool runs for a CPU the loop is visiting, never within SetPowerProfile.
MoveInLoop ==
    \A t \in Threads :
        pc[t] = "moving" => moving[t] \in todo[t] /\ req[t].op # "SetPowerProfile"

\* The CPUs the loop has dealt with; the one in doSetPool points at its new pool.
Reached(t, c) == c \notin todo[t] \/ (pc[t] = "moving" /\ c = moving[t])

\* What the loop of a call has achieved for those CPUs.
Delivers(t) ==
    LET r == req[t] IN
    /\ r.op = "MoveCPUIDs" => \A c \in r.cpus : Reached(t, c) => cpuPool[c] = r.pool
    /\ r.op \in {"SetCPUIDs", "Remove"} =>
          \A c \in CPUs : Reached(t, c) => (cpuPool[c] = r.pool <=> c \in r.cpus)
    /\ r.op = "SetPowerProfile" =>
          /\ powerProfile[r.pool] = r.profile
          /\ \A c \in members[r.pool] : Reached(t, c) => hw[c] = r.profile

\* doSetPool only starts between the shared and another pool.
MoveLegal ==
    \A t \in Threads :
        pc[t] = "moving" =>
            /\ origPool[t] # cpuPool[moving[t]]
            /\ sharedPool \in {origPool[t], cpuPool[moving[t]]}

\* No pointer leads to a pool object that does not exist.
PoolsExist ==
    /\ \A t \in Threads : req[t].pool \in Allocated /\ origPool[t] \in Allocated
    /\ \A c \in CPUs : cpuPool[c] \in Allocated

LoopDelivers == \A t \in Threads : pc[t] \in {"running", "moving"} => Delivers(t)

IInv ==
    /\ TypeOK
    /\ MoveInLoop
    /\ MutexOwned
    /\ MembershipAgrees
    /\ HardwareFollowsPool
    /\ LoopDelivers
    /\ MoveLegal
    /\ PoolsExist

=============================================================================
