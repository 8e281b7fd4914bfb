------------------------------ MODULE NodeAgent ------------------------------
(***************************************************************************)
(* One node agent: the three reconcilers that share the power library, the *)
(* users and kubelet that change what they reconcile, and restarts of the  *)
(* agent, which forget the library and the queues but not PowerNodeState.  *)
(***************************************************************************)
EXTENDS ProfileController, NodeConfigController, PodController

workers == <<pro, cfg, pod, podState, missed>>
vars == <<stateVars, workers>>

Init ==
    /\ InitState
    /\ pro = proIdle
    /\ cfg = cfgIdle
    /\ pod = podIdle
    /\ podState = {} /\ missed = {}

(***************************************************************************)
(* Users, within what the admission webhooks let through                   *)
(***************************************************************************)
Edit == edits < MaxEdits /\ edits' = edits + 1 /\ UNCHANGED <<faults, seen>>

\* Pods that succeeded or failed do not count.  One that is being deleted does while it
\* still runs, which only forbids deletions that are possible here.
referenced(f) ==
    \/ \E n \in present : \/ configs[n].shared = f
                          \/ \E e \in configs[n].reserved : e.profile = f
    \/ \E p \in Pods : phase[p] = "running" /\ \E k \in containersOf(p) : k.profile = f

\* The profile of the shared pool of a config stays a shared one.
mayShare(f, s) ==
    /\ s # cr[f].shared => f \in Switchable
    /\ cr[f].state # "absent" /\ cr[f].shared /\ ~s => \A n \in present : configs[n].shared # f

\* Create or update a PowerProfile; its spec may be one the library refuses, and
\* spec.shared may change.
ApplyProfile(f, state, s) ==
    /\ Edit
    /\ cr[f].state # "unmatched"
    /\ cr[f].ver < MaxVersion
    /\ state \in {"valid", "invalid"} /\ mayShare(f, s)
    /\ cr' = [cr EXCEPT ![f] = [ver |-> @.ver + 1, state |-> state, shared |-> s]]
    /\ switched' = IF s = cr[f].shared THEN switched ELSE switched \cup {f}
    /\ profQueue' = profQueue \cup {f}
    /\ UNCHANGED <<library, configs, phase, report, cfgQueue, podQueue, workers>>

DeleteProfile(f) ==
    /\ Edit
    /\ cr[f].state # "absent" /\ ~referenced(f)
    /\ cr' = [cr EXCEPT ![f].state = "absent"]
    /\ profQueue' = profQueue \cup {f}
    /\ UNCHANGED <<library, configs, phase, switched, report, cfgQueue, podQueue, workers>>

\* The labels of the node change: every profile and a config are reconciled.
Relabel(f) ==
    /\ MayUnmatch /\ Edit
    /\ cr[f].state \in {"valid", "unmatched"}
    /\ cr' = [cr EXCEPT ![f].state = IF @ = "valid" THEN "unmatched" ELSE "valid"]
    /\ profQueue' = profQueue \cup {g \in ProfileNames : cr[g].state # "absent"}
    /\ cfgQueue' = (cfgQueue \/ someConfig)
    /\ UNCHANGED <<library, configs, phase, switched, report, podQueue, workers>>

\* A config that matches the node appears or changes: a user applied it, or the
\* labels of the node changed (the webhook refuses a second config for a node, a
\* change of labels does not).
ApplyConfig(n, s) ==
    /\ Edit
    /\ configs[n] # s
    /\ \A f \in {s.shared} \cup {e.profile : e \in s.reserved} : cr[f].state # "absent"
    /\ cr[s.shared].shared
    /\ configs' = [configs EXCEPT ![n] = s]
    /\ cfgQueue' = TRUE
    /\ UNCHANGED <<library, cr, phase, switched, report, profQueue, podQueue, workers>>

\* A config is deleted, or stops matching the node.
DeleteConfig(n) ==
    /\ Edit
    /\ configs[n] # NoSpec
    /\ configs' = [configs EXCEPT ![n] = NoSpec]
    /\ cfgQueue' = TRUE
    /\ UNCHANGED <<library, cr, phase, switched, report, profQueue, podQueue, workers>>

(***************************************************************************)
(* Scheduler, kubelet, and the API server with its watch events            *)
(***************************************************************************)

\* A pod starts where its profiles are offered, on CPUs no other pod has.
StartPod(p) ==
    /\ Edit
    /\ phase[p] = "none"
    /\ \A k \in containersOf(p) : k.profile \in extRes
    /\ \A q \in Pods \ {p} :
          phase[q] = "running" \/ (Prompt /\ phase[q] = "done") => cpusOf(p) \cap cpusOf(q) = {}
    /\ phase' = [phase EXCEPT ![p] = "running"]
    /\ podQueue' = podQueue \cup {p}
    /\ UNCHANGED <<library, cr, configs, switched, report, profQueue, cfgQueue, workers>>

\* Any update of the status of a pod is an event.
TouchPod(p) ==
    /\ Edit
    /\ phase[p] = "running" /\ p \notin podQueue
    /\ podQueue' = podQueue \cup {p}
    /\ UNCHANGED <<library, cr, configs, phase, switched, report, profQueue, cfgQueue, workers>>

\* The pod gets a deletion timestamp or succeeds.
StopPod(p) ==
    /\ Edit
    /\ phase[p] = "running"
    /\ phase' = [phase EXCEPT ![p] = "done"]
    /\ podQueue' = podQueue \cup {p}
    /\ UNCHANGED <<library, cr, configs, switched, report, profQueue, cfgQueue, workers>>

RemovePod(p) ==
    /\ phase[p] = "done"
    /\ Prompt => p \notin podQueue /\ pod.key # p
    /\ phase' = [phase EXCEPT ![p] = "gone"]
    /\ podQueue' = podQueue \cup {p}
    /\ UNCHANGED <<library, cr, configs, switched, edits, faults, seen, report, profQueue, cfgQueue, workers>>

\* Mutant of Restart: the pods that run are not reconciled again.
Restart_NoPods ==
    /\ faults = "restarts" /\ Edit
    /\ owner' = [c \in CPUs |-> reserved]
    /\ exclusive' = {}
    /\ prof' = [p \in Pools |-> NoProfile]
    /\ profQueue' = {f \in ProfileNames : cr[f].state # "absent"}
    /\ cfgQueue' = someConfig
    /\ podQueue' = {}
    /\ pro' = proIdle /\ cfg' = cfgIdle /\ pod' = podIdle /\ podState' = {}
    /\ UNCHANGED <<cr, configs, phase, switched, report, missed>>

\* The agent restarts: initHost again, and every object is queued.
Restart ==
    /\ faults = "restarts" /\ Edit
    /\ owner' = [c \in CPUs |-> reserved]
    /\ exclusive' = {}
    /\ prof' = [p \in Pools |-> NoProfile]
    /\ profQueue' = {f \in ProfileNames : cr[f].state # "absent"}
    /\ cfgQueue' = someConfig
    /\ podQueue' = {p \in Pods : phase[p] \in {"running", "done"}}
    /\ pro' = proIdle /\ cfg' = cfgIdle /\ pod' = podIdle /\ podState' = {}
    /\ UNCHANGED <<cr, configs, phase, switched, report, missed>>

\* The informer cache gets what was written; changed entries wake the config reconciler.
CatchUp ==
    /\ Behind
    /\ seen' = latest
    /\ cfgQueue' = (cfgQueue \/ (seen.entry # entry /\ someConfig))
    /\ UNCHANGED <<library, cr, configs, phase, switched, edits, faults, report, profQueue, podQueue, workers>>

Environment ==
    \/ \E f \in ProfileNames : \/ \E t \in CRStates, s \in BOOLEAN : ApplyProfile(f, t, s)
                               \/ DeleteProfile(f) \/ Relabel(f)
    \/ \E n \in ConfigNames : \/ \E s \in ConfigSpecs : ApplyConfig(n, s)
                              \/ DeleteConfig(n)
    \/ \E p \in Pods : StartPod(p) \/ TouchPod(p) \/ StopPod(p) \/ RemovePod(p)
    \/ Restart \/ CatchUp

RunProfile == ProfileStep /\ UNCHANGED <<cfg, pod, podState, missed>>
RunConfig == ConfigStep /\ UNCHANGED <<pro, pod, podState, missed>>
RunPod == PodStep /\ UNCHANGED <<pro, cfg>>

\* Nothing is queued, no reconcile is under way and the cache is up to date: nothing
\* will happen until somebody changes something.
Quiescent ==
    /\ profQueue = {} /\ ~cfgQueue /\ podQueue = {} /\ ~Behind
    /\ pro.pc = "idle" /\ cfg.pc = "idle" /\ pod.pc = "idle"

\* The workers wait for an event.
Wait == Quiescent /\ UNCHANGED vars

Next == RunProfile \/ RunConfig \/ RunPod \/ Environment \/ Wait

Spec == Init /\ [][Next]_vars

\* Each reconciler has a worker goroutine that is scheduled again and again; the
\* informer gets every write in the end.
Fairness == WF_vars(RunProfile) /\ WF_vars(RunConfig) /\ WF_vars(RunPod) /\ WF_vars(CatchUp)
FairSpec == Spec /\ Fairness

-----------------------------------------------------------------------------
ProfileValues == [name: ProfileNames, ver: 1..MaxVersion] \cup {NoProfile}

TypeOK ==
    /\ owner \in [CPUs -> Pools]
    /\ exclusive \subseteq ProfileNames \cup PseudoPools
    /\ prof \in [Pools -> ProfileValues]
    /\ cr \in [ProfileNames -> [ver: 1..MaxVersion, state: CRStates, shared: BOOLEAN]]
    /\ switched \subseteq Switchable
    /\ configs \in [ConfigNames -> ConfigSpecs \cup {NoSpec}]
    /\ phase \in [Pods -> {"none", "running", "done", "gone"}]
    /\ edits \in 0..MaxEdits /\ faults \in Faults
    /\ active \in ConfigNames \cup {NoConfig}
    /\ sharedStatus \subseteq CPUs
    /\ entry \in [Pods -> [cpus: SUBSET CPUs, bad: SUBSET Nat, recorded: BOOLEAN]]
    /\ \A p \in Pods : entry[p].cpus \subseteq cpusOf(p) /\ entry[p].bad \subseteq DOMAIN podSpec[p]
    /\ seen \in [active: ConfigNames \cup {NoConfig},
                 entry: [Pods -> [cpus: SUBSET CPUs, bad: SUBSET Nat, recorded: BOOLEAN]]]
    /\ \A p \in Pods : seen.entry[p].cpus \subseteq cpusOf(p)
    /\ profStatus \in [ProfileNames -> {"none", "ok", "error"}]
    /\ extRes \subseteq ProfileNames
    /\ profQueue \subseteq ProfileNames /\ podQueue \subseteq Pods /\ cfgQueue \in BOOLEAN
    /\ podState \subseteq Pods /\ missed \subseteq Pods

profileOf(p, c) == (CHOOSE k \in containersOf(p) : c \in k.cpus).profile
user(c) == {p \in Pods : phase[p] = "running" /\ c \in cpusOf(p)}

\* When the agent rests with a config in force, every CPU is where the cluster
\* wants it: the CPUs of a running pod in the pool of their profile, the CPUs of
\* an entry of reservedCPUs in its pool, and no other CPU in a reserved pool.
\* Whatever the three reconcilers interleaved, and whatever failed and was
\* retried on the way.
CpusSettled ==
    Quiescent /\ present # {} =>
        LET entries == configs[selected].reserved IN
        \A c \in CPUs :
            /\ \A p \in user(c) : owner[c] = profileOf(p, c)
            /\ \A e \in entries : c \in e.cores => owner[c] = e.pool
            /\ owner[c] \in PseudoPools => \E e \in entries : c \in e.cores
            /\ owner[c] # reserved

\* When the agent rests and no config is left, the pools it built are taken down
\* (cleanupPowerNodeConfigPools) and PowerNodeState says so.  Whether there is
\* anything to take down is read from that status: not so if its write failed, or if
\* the deletion came while the agent was down.  It is read in the informer cache: if the
\* write had not come back there (lag), the pools stay, and so does the name.
PoolsTakenDown ==
    Quiescent /\ present = {} /\ faults \in {"none", "sysfs", "lag"} =>
        /\ active = NoConfig => listedPseudo = {} /\ sharedStatus = {}
        /\ faults # "lag" => active = NoConfig

\* What is offered is what the flag says; but a profile that once was not shared keeps
\* the resources it had when it becomes shared (Reconcile returns before them).
Offered(f) ==
    /\ ~cr[f].shared => f \in extRes
    /\ cr[f].shared => f \notin extRes \/ f \in switched

\* When the agent rests, the pool of every profile that applies to the node has
\* the latest version of it, is offered as a resource unless shared, and is
\* reported; the resource may be left over where spec.shared was changed.
ProfilesApplied ==
    Quiescent =>
        \A f \in ProfileNames : cr[f].state = "valid" =>
            /\ f \in exclusive
            /\ prof[f] = [name |-> f, ver |-> cr[f].ver]
            /\ Offered(f)
            /\ profStatus[f] = "ok"

\* When the agent rests, a profile that does not match the node is neither offered as a
\* resource nor reported, whatever was retried; nor is one that was deleted, unless that
\* was while the agent was down.  The resource of a deleted profile whose spec.shared was
\* changed before may stay: deleting the profile of the shared pool does not withdraw it.
ProfilesWithdrawn ==
    Quiescent =>
        \A f \in ProfileNames :
            /\ cr[f].state = "unmatched" => f \notin extRes /\ profStatus[f] = "none"
            /\ cr[f].state = "absent" /\ faults # "restarts" =>
                  (f \in extRes => f \in switched) /\ profStatus[f] = "none"

\* When the agent rests, PowerNodeState names the config in force and lists the
\* CPUs of the shared pool, which pods change behind the config reconciler's back.
\* (After a restart a pod takes its CPUs again and its unchanged entry wakes nobody;
\* nor does one whose entry could not be written before it ended, or an entry that
\* comes and goes before the informer has seen it.)
SharedStatusFresh ==
    Quiescent /\ present # {} =>
        active = selected /\ (faults \in {"none", "sysfs"} => sharedStatus = cpusIn(shared))

\* When the agent rests, the shared pool and the special reserved pools have the
\* latest version of the profile that the config in force gives them.
SharedProfileCurrent ==
    Quiescent /\ present # {} =>
        LET s == configs[selected] IN
        /\ prof[shared] = [name |-> s.shared, ver |-> cr[s.shared].ver]
        /\ \A e \in s.reserved : prof[e.pool] = [name |-> e.profile, ver |-> cr[e.profile].ver]

\* When the agent rests, the CPUs of a pod that ended are in no profile's pool,
\* unless another pod has them.  handlePodDeletion goes by the entry in the informer
\* cache: only a pod whose end is handled before its entry is there (lag) keeps them.
EndedPodsReleaseCpus ==
    Quiescent =>
        \A p \in Pods : phase[p] \in {"done", "gone"} =>
            \A c \in cpusOf(p) : owner[c] \in ProfileNames =>
                user(c) # {} \/ \E q \in missed : c \in cpusOf(q)

\* A CPU in the pool a running pod asked for stays there while the pod runs,
\* whatever the other reconcilers do.
PodsKeepCpus ==
    [][Restart \/ \A p \in Pods : \A c \in cpusOf(p) :
          phase[p] = "running" /\ owner[c] = profileOf(p, c)
              => owner'[c] = owner[c] \/ phase'[p] # "running"]_vars

\* With a config in force and valid profiles, the agent comes to rest.  (A CPU that lag
\* leaves in the pool of a profile keeps a pod with another profile waiting.)
Settles ==
    (present # {} /\ faults # "lag" /\ \A f \in ProfileNames : cr[f].state = "valid")
        ~> (Quiescent \/ present = {} \/ \E f \in ProfileNames : cr[f].state # "valid")

(***************************************************************************)
(* The inductive invariants of the proofs.  Each part says what the code   *)
(* relies on at a point of a reconcile without checking it.                *)
(***************************************************************************)
applyPCs == {"read", "set", "clear", "remove", "entries", "create", "core", "tune", "fill", "drop",
             "fallback", "status"}
entryPCs == {"create", "core", "tune", "fill", "drop", "fallback"}

ProTyped ==
    /\ pro \in [pc: {"idle", "invalid", "pool", "first", "shared", "setShared", "pseudo", "resource",
                     "status", "failed", "clearShared", "dropPool", "unresource", "unstatus"},
                key: ProfileNames \cup {"nil"}, val: ProfileValues, shared: BOOLEAN, rest: SUBSET PseudoPools,
                err: BOOLEAN]
    /\ IF pro.pc = "idle" THEN pro = proIdle ELSE pro.key \in ProfileNames /\ pro.val.name = pro.key
CfgTyped ==
    /\ cfg \in [pc: {"idle", "cleanup", "forget"} \cup applyPCs, name: ConfigNames \cup {NoConfig},
                spec: ConfigSpecs \cup {NoSpec}, rest: {cfg.rest},
                cur: Entries \cup {NoEntrySpec}, val: ProfileValues, moved: SUBSET CPUs, err: BOOLEAN]
    /\ cfg.pc = "idle" => cfg = cfgIdle
    /\ cfg.pc \in applyPCs => cfg.name \in ConfigNames /\ cfg.spec \in ConfigSpecs
    /\ cfg.pc \in {"remove", "cleanup"} => cfg.rest \subseteq PseudoPools
    /\ cfg.pc \in {"entries"} \cup entryPCs => cfg.rest \subseteq cfg.spec.reserved
    /\ cfg.pc \in entryPCs => cfg.cur \in cfg.spec.reserved \ cfg.rest
PodTyped ==
    /\ pod \in [pc: {"idle", "check", "move", "release", "forget"}, key: Pods \cup {"nil"},
                todo: SUBSET Nat, found: SUBSET CPUs, bad: SUBSET Nat, retry: BOOLEAN]
    /\ pod.pc = "idle" => pod = podIdle
    /\ pod.pc # "idle" =>
          /\ pod.key \in Pods
          /\ pod.todo \cup pod.bad \subseteq DOMAIN podSpec[pod.key]
          /\ pod.found \subseteq cpusOf(pod.key)
    /\ pod.pc = "move" => pod.todo # {}
Typed == TypeOK /\ ProTyped /\ CfgTyped /\ PodTyped

\* Profiles of shared pools are not offered to pods; the pool of a profile has that
\* profile, the shared pool one for shared pools.  A profile whose flag was changed may
\* be both.
sharedOnce == SharedProfiles \cup switched
ProfilesKeptApart ==
    /\ \A f \in ProfileNames \ switched : cr[f].shared <=> f \in SharedProfiles
    /\ extRes \cap SharedProfiles \subseteq switched
    /\ \A f \in ProfileNames : prof[f].name \in {f, "nil"}
    /\ prof[shared].name \in sharedOnce \cup {"nil"}
    /\ pro.pc # "idle" /\ pro.key \notin switched => (pro.shared <=> pro.key \in SharedProfiles)
    /\ pro.pc \in {"setShared", "clearShared", "dropPool"} => pro.key \in sharedOnce
    /\ cfg.pc \in applyPCs => cfg.spec.shared \in sharedOnce
    /\ cfg.pc = "set" => cfg.val.name \in {cfg.spec.shared, "nil"}

\* A profile that is neither queued nor being reconciled is applied or withdrawn.
Applied(f) ==
    /\ f \in exclusive
    /\ prof[f] = [name |-> f, ver |-> cr[f].ver]
    /\ Offered(f)
    /\ profStatus[f] = "ok"
mustWithdraw(f) == cr[f].state = "unmatched" \/ (cr[f].state = "absent" /\ faults # "restarts")
leftOver(f) == f \in extRes /\ f \in switched /\ cr[f].state = "absent"
Withdrawn(f) == (f \notin extRes \/ leftOver(f)) /\ profStatus[f] = "none"
ProfilesFollow ==
    \A f \in ProfileNames \ profQueue : pro.key # f =>
        /\ cr[f].state = "valid" => Applied(f)
        /\ mustWithdraw(f) => Withdrawn(f)

\* The reconcile of a profile that was not queued again goes by what the profile is
\* now, and has done the part behind its program counter.
ReconcileFollows ==
    LET f == pro.key IN
    /\ pro.pc # "failed" => ~pro.err
    /\ pro.pc # "idle" /\ f \notin profQueue =>
        /\ pro.val = [name |-> f, ver |-> cr[f].ver] /\ pro.shared = cr[f].shared
        /\ pro.pc = "invalid" => cr[f].state = "invalid"
        /\ pro.pc \in {"pool", "first", "shared", "setShared", "pseudo", "resource", "status"} =>
              cr[f].state = "valid"
        /\ pro.pc \in {"first", "shared", "setShared", "pseudo", "resource", "status"} => f \in exclusive
        /\ pro.pc \in {"shared", "setShared", "pseudo", "resource", "status"} => prof[f] = pro.val
        /\ pro.pc = "status" => Offered(f)
        /\ pro.pc \in {"unresource", "unstatus"} => cr[f].state \in {"absent", "unmatched"}
        /\ pro.pc \in {"clearShared", "dropPool"} => cr[f].state = "absent"
        /\ pro.pc = "unstatus" => f \notin extRes \/ leftOver(f)

\* A reconcile of the configs that was not called for again works for one that is
\* there; at rest PowerNodeState names it, or says that there is none.
ActiveFollows ==
    ~cfgQueue =>
        /\ cfg.pc \in applyPCs => cfg.name \in present /\ cfg.spec = configs[cfg.name]
        /\ cfg.pc \in {"cleanup", "forget"} => present = {}
        /\ cfg.pc = "idle" /\ present # {} => active \in present
        /\ cfg.pc = "idle" /\ present = {} /\ faults \notin {"restarts", "lag"} => active = NoConfig

\* While PowerNodeState says that no config is active, there are no reserved pools but
\* those that the reconcile under way will report.
PoolsReported ==
    faults \in {"none", "sysfs", "lag"} =>
        /\ cfg.pc = "cleanup" /\ active = NoConfig => listedPseudo = {}
        /\ active = NoConfig => sharedStatus = {}
        /\ active = NoConfig /\ cfg.pc \in {"idle", "read", "set", "clear"} => listedPseudo = {}
        /\ cfg.pc = "cleanup" => listedPseudo \subseteq cfg.rest
        /\ cfg.pc = "forget" => listedPseudo = {}

\* The profiles pods ask for keep their flag.
PodsUnswitched == \A p \in Pods : \A k \in containersOf(p) : k.profile \notin Switchable

\* Pods that run or are being ended have CPUs of their own, and profiles that no shared
\* pool has; the CPUs that are given back are those of a pod that ended.
mayBeShared == SharedProfiles \cup Switchable
PodsApart ==
    /\ \A p \in Pods : phase[p] \in {"running", "done"} =>
          \A k \in containersOf(p) : k.profile \notin mayBeShared
    /\ \A p, q \in Pods : p # q /\ phase[p] \in {"running", "done"} /\ phase[q] \in {"running", "done"} =>
          cpusOf(p) \cap cpusOf(q) = {}
    /\ pod.pc \in {"release", "forget"} => phase[pod.key] = "done"

\* CPUs are in the pool of a profile only if a pod may have them, and in a reserved pool
\* only while it is listed.
OwnersListed ==
    /\ \A c \in CPUs : owner[c] \in ProfileNames => \E p \in Pods : c \in cpusOf(p)
    /\ \A c \in CPUs : owner[c] \in PseudoPools => owner[c] \in exclusive
    /\ cfg.pc \in {"core", "tune", "fill", "drop"} => cfg.cur.pool \in exclusive

\* The entries E, and only they, have their cores; nothing else is reserved.
Reserved(E) ==
    /\ \A e \in E : \A c \in e.cores : owner[c] = e.pool
    /\ \A c \in CPUs : owner[c] \in PseudoPools => \E e \in E : c \in e.cores
    /\ \A c \in CPUs : owner[c] # reserved

\* What the reconcile of a config has done so far, unless it met an error.
entriesDone == cfg.spec.reserved \ (cfg.rest \cup IF cfg.pc \in entryPCs THEN {cfg.cur} ELSE {})
EntriesSoFar ==
    /\ cfg.pc = "remove" =>
          /\ \A c \in CPUs : owner[c] \in PseudoPools => owner[c] \in cfg.rest
          /\ \A c \in CPUs : owner[c] # reserved
    /\ cfg.pc \in {"entries", "status"} \cup entryPCs /\ ~cfg.err => Reserved(entriesDone)
    /\ cfg.pc \in {"drop", "fallback"} => cfg.err
    /\ cfg.pc = "status" /\ ~cfg.err => cfg.rest = {}
    /\ cfg.pc = "idle" /\ ~cfgQueue /\ present # {} => Reserved(configs[active].reserved)

\* The CPUs of a running pod are in their pools unless the pod is queued or being
\* reconciled; then those of the containers behind are, unless it will be retried.
Placed(p, i) == \A c \in podSpec[p][i].cpus : owner[c] = podSpec[p][i].profile
PodsPlaced ==
    \A p \in Pods : phase[p] = "running" /\ p \notin podQueue =>
        /\ pod.key # p => \A i \in DOMAIN podSpec[p] : Placed(p, i)
        /\ pod.key = p /\ ~pod.retry => \A i \in DOMAIN podSpec[p] \ pod.todo : Placed(p, i)

\* What the pod reconciler relies on: the pod it works on is there, one that ends
\* meanwhile is queued, and what it gives back is what was recorded, but for lag.
PodKnown ==
    /\ pod.pc # "idle" => phase[pod.key] \in {"running", "done"}
    /\ pod.pc \in {"check", "move"} /\ phase[pod.key] = "done" => pod.key \in podQueue
    /\ pod.pc = "release" => pod.found = entry[pod.key].cpus \/ faults = "lag"
    /\ \A c \in CPUs : owner[c] \notin mayBeShared
    /\ \A p \in Pods : entry[p].recorded \/ entry[p] = NoEntry
    /\ \A p \in Pods : phase[p] = "none" => ~entry[p].recorded

\* A pod that is recorded without an error has its CPUs, unless restarts, requests that
\* fail or a cache that lags are the trouble.
calm == faults \in {"none", "sysfs"}
EntriesTell ==
    calm =>
        /\ pod.pc \in {"check", "move"} =>
              /\ pod.retry <=> pod.bad # {}
              /\ phase[pod.key] = "running" /\ ~pod.retry =>
                    \A i \in DOMAIN podSpec[pod.key] \ pod.todo : Placed(pod.key, i)
        /\ \A p \in Pods : phase[p] = "running" /\ entry[p].recorded /\ entry[p].bad = {} =>
              \A i \in DOMAIN podSpec[p] : Placed(p, i)

\* Pods of one container, which is moved and recorded in one go.
OneContainer == \A p \in Pods : \A i, j \in DOMAIN podSpec[p] : i = j

\* The list of the shared CPUs is right but for CPUs of pods whose entry is about to
\* change, which wakes the config reconciler.
WillReport(p) ==
    \/ /\ entry[p].recorded /\ phase[p] \in {"running", "done"}
       /\ p \in podQueue \/ pod.key = p
       /\ entry[p].bad # {} \/ phase[p] = "done"
    \/ ~entry[p].recorded /\ pod.key = p /\ pod.pc = "check" /\ pod.todo = {}
SharedFollows ==
    calm /\ ~cfgQueue /\ cfg.pc = "idle" /\ present # {} =>
        \A c \in CPUs : \/ c \in sharedStatus <=> owner[c] = shared
                        \/ \E p \in Pods : c \in cpusOf(p) /\ WillReport(p)

\* The CPUs of the containers left are about to be recorded; as long as the labels of the
\* node match and the pod runs, their profiles stay.
TodoFound ==
    pod.pc \in {"check", "move"} =>
        \A i \in pod.todo : /\ podSpec[pod.key][i].cpus \subseteq pod.found
                            /\ ~MayUnmatch /\ phase[pod.key] = "running" =>
                                  ProfileAvailable(podSpec[pod.key][i].profile)

\* A CPU in the pool of a profile has a pod that will give it back, or one that missed it.
Held(p, i, c) ==
    /\ phase[p] \in {"running", "done"}
    /\ c \in podSpec[p][i].cpus /\ owner[c] = podSpec[p][i].profile
    /\ phase[p] = "running" => ProfileAvailable(podSpec[p][i].profile)
    /\ c \in entry[p].cpus \/ (pod.key = p /\ pod.pc = "check" /\ pod.todo = {})
    /\ pod.key = p => pod.pc \in {"check", "move", "release"} /\ c \in pod.found
    /\ phase[p] = "done" => p \in podQueue \/ (pod.key = p /\ pod.pc = "release")
CpusHeld ==
    (calm \/ faults = "lag") /\ ~MayUnmatch =>
        \A c \in CPUs : owner[c] \in ProfileNames =>
            \/ \E p \in Pods : \E i \in DOMAIN podSpec[p] : Held(p, i, c)
            \/ \E q \in missed : c \in cpusOf(q)

=============================================================================
