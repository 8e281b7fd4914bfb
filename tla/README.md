# A TLA+ model of the cluster power manager

The cluster power manager tunes the CPUs of Kubernetes nodes. Users write
PowerProfiles (frequencies, governor, C-states) and PowerNodeConfigs (which
profile the shared CPUs and the reserved CPUs of a node use), pods ask for a
profile as an extended resource, and an agent on every node moves CPUs between
pools and writes sysfs; Uncores set the frequencies of packages and dies, and a
PowerConfig says on which nodes the agent runs. The modules here model the power library
of the agent with the values it writes, the reconcilers of the agent and of the operator,
and the frequency scaling of DPDK pods. TLC checks them on small instances, and TLAPS proves
their safety properties for every value of the constants: any number of CPUs, pools,
profiles, pods, goroutines, dies or configs.

## 1. The system

| Part | State it keeps | Operations |
|---|---|---|
| Power library (`internal/power`: host, pool, cpu) | one host mutex; a reserved pool, a shared pool and named exclusive pools; `cpu.pool` and `pool.cpus`; a profile per pool; sysfs | `MoveCPUIDs`, `SetCPUIDs`, `SetPowerProfile`, `Remove`, `AddExclusivePool` |
| PowerProfile controller | none; library, Node capacity, PowerNodeState | Reconcile: pool of the profile, shared and special reserved pools that use it, extended resources, status; deletion |
| PowerNodeConfig controller | none; library, PowerNodeState | select the config in force, validate, rebuild the shared and the reserved pools, status; cleanup |
| Pod controller | `State.GuaranteedPods`; library, PowerNodeState | move a pod's CPUs to the pool of their profile, record them; give them back when the pod ends; DPDK telemetry and CPU scaling |
| Node agent process | work queues, informer caches | starts the library and the controllers |
| Admission webhooks | none | refuse profiles and configs that are inconsistent or still referenced |
| Scaling manager, workers, updater | a worker per CPU | adjust a frequency to the reported usage |
| DPDK telemetry client | connections, metrics per CPU | connect, read, reconnect, close |
| P-states, C-states, profile validation | limits read at start-up | compute and write values |
| Uncore library, topology, uncore controller | frequencies of dies, packages, host | set, override, reset |
| PowerConfig controller | the agent image, the PowerNodeStates it created | deploy the agent's DaemonSet |
| Pod resources client, cpuset, util | none | gRPC and conversions |

The controllers run as goroutines of one process. They share the library (under
its mutex, one call at a time) and talk to each other through the API server: the
config reconciler is woken by the entries the pod reconciler writes, and a pod
waits until the config reconciler has filled the shared pool.

What is hard here: several reconcilers change the same pools between each other's
library calls; every sysfs write and every request can fail, after which the whole
reconcile is repeated over what it left half done; a decision is read in one call and
used in another; a restart forgets the library and keeps PowerNodeState; goroutines
that scale CPUs and read sockets are started, changed and stopped by two others.
`PROJECT.json` lists these hazards line by line.

What makes each part correct:

* library: a CPU is in exactly one list, the one it points at; sysfs follows the
  pool; a call without error did what it was asked; every call returns;
* controllers: at rest, pods and reserved CPUs are in their pools, applied profiles
  have a pool with their latest version, deleted ones are withdrawn, and
  PowerNodeState is true; while it runs, a pod keeps its CPUs; the agent does come to
  rest;
* scaling: no worker is out of reach, a CPU has at most one, workers and metrics belong to
  the pod that runs, a frequency moves towards the usage asked for, whoever stops a
  goroutine returns;
* values: what was validated can be applied, a CPU that was set up has what the profile
  means on its type, within its range, and CPUs are offered for applied profiles only;
* uncore: every die has what the most specific setting of the Uncore in force asks for,
  and the limits of the hardware when there is none;
* PowerConfig: one config stays and is completely deployed, or nothing is left of any.

## 2. Modules

| Module | Models |
|---|---|
| `PoolAssignment` | what the library promises: CPUs belong to one pool, move one at a time through the shared pool, a pool is unlisted only when empty |
| `PowerLibrary` | `host.go`, `pool.go`, `cpu.go`: goroutines that lock, loop over CPUs, move, write, fail, roll back, unlock |
| `PowerLibraryProofs` | the inductive invariant and the safety theorems of `PowerLibrary` |
| `PowerLibraryRefinement` | the theorem that `PowerLibrary` implements `PoolAssignment` |
| `AgentState` | what the reconcilers share: library (a call is one step), objects of the cluster, PowerNodeState, queues |
| `ProfileController`, `NodeConfigController`, `PodController` | one reconciler each: a worker with a program counter |
| `NodeAgent` | the three reconcilers together with users, kubelet and restarts; the properties |
| `CpuScaling` | `internal/scaling` and its callers: worker and connection goroutines, the DPDK part of the pod reconciler, the shutdown |
| `CpuSettings` | `p_states.go`, `c_states.go`, `power_profile.go`: validation, the values for each type of CPU, the order of the writes; the number of CPUs offered |
| `Uncore` | `uncore.go`, `topology.go`: settings of host, packages and dies, and the dies' files |
| `UncoreController` | `uncore_controller.go` over `Uncore`: select, reset, apply, report, with users and faults |
| `PowerConfigController` | `powerconfig_controller.go`: the operator's reconciler, its caches and requests |
| `NodeAgentProofs`, `CpuScalingProofs`, `CpuSettingsProofs`, `UncoreProofs`, `PowerConfigProofs` | the safety theorems of `NodeAgent`, `CpuScaling`, `CpuSettings`, `UncoreController` and `PowerConfigController` |
| `MCPowerLibrary`, `MCNodeAgent`, `MCCpuScaling`, `MCCpuSettings`, `MCUncore`, `MCPowerConfig` | instances for TLC |

Definitions named `X_Something` after "Mutant of X" are deliberately wrong variants of
`X`. No specification uses them; put in the place of `X` they break the property they
are listed with in `PROJECT.json`, which shows that the property depends on that code.

### PowerLibrary

A thread is idle, or waits for the mutex, or is inside a call. `Call` picks a request,
`Lock` takes the mutex and does what precedes the loop, the loop visits one CPU per
step, `Return` is the deferred unlock. `doSetPool` is two steps, because
`consolidate` runs between removing the CPU from one list and adding it to the other:
`BeginMove`, then `FinishMove` or, when a write failed, `RevertMove`. Pool objects
are pointers: a pool that was removed can still be called. Values are abstracted to
the profile they come from (`hw`); a half-written CPU is `Mixed`. `unapplied` is a
history variable: CPUs that an error left behind.

A CPU list is a set. Loops over a caller's slice may take any order; loops over the
host's CPUs go upwards, as in the code.

### The reconcilers

Every library call and every API request of a `Reconcile` is a step, so that the other
reconcilers run between them; the reads from a cache before the first such call are part
of the first step. A worker is a record with the program counter and the local
variables that survive a call. A work queue is a set: back-off and rate limiting
make the order arbitrary. Each controller has one worker (`MaxConcurrentReconciles`
is not set). An error, or `RequeueAfter`, puts the key back.

PowerNodeState is written by requests and read from the informer cache, in
`getActiveResourceName` and at the beginning of `handlePodDeletion`. In behaviours with
"lag" the cache (`seen`) gets the agent's writes in a step of its own, `CatchUp`, which is also
when a changed entry wakes the config reconciler; in the others it has them at once
(`cached`). `missed` is a history variable: the pods whose end was handled while the cache
did not have the CPUs they were recorded with.

`spec.shared` is a part of the profile (`cr[f].shared`), and users change it within what
`ValidateUpdate` lets through, for the profiles in the constant `Switchable`. `switched` is
a history variable: the profiles for which they have. A reconcile of a profile that has become
shared returns before the extended resource, and the branch of the deletion for the profile of
the shared pool does not look for one; both are in the model.

A library call is one step. That is justified by the library's own theorems: calls
hold the host mutex from beginning to end (`MutexSafe`), and one that returns without
error has its full effect (`CallsDeliver`); one that fails moved some of its CPUs by
allowed transfers and nothing else (`LibraryRefinesAssignment`), which is
`MoveCPUsFails`.

The deferred function of the PowerProfile reconciler writes `err`; calls whose `err` is
declared in an inner scope do not set it, and `FailWith(FALSE)` says so.

### CpuScaling

Four kinds of processes: the pod reconciler (`rec`), the shutdown of the agent
(`shut`), a goroutine per worker and one per telemetry connection. `workers` is the
manager's map from CPUs to workers, `worker` the objects behind it, so that one that is not
in the map any more, or not yet, is still there. A worker waits in the select of
`runLoop` or is inside `Update`; `Sample` reads the usage, `GetCurrentCPUFrequency` the
frequency, then `Hold` or `Apply` ends the update. `next` holds options that `UpdateOpts` stored
while the loop uses the ones it loaded; the load at the top of the loop is part of the step
that ends `Update`. A connection dials, reads or is done.

Sample and cool-down periods are abstracted: a timer may fire at any time, and a select
whose cases are both ready takes either. A missing metric and a metric with an error are both
`NoUsage`, for which `Update` does the same. A poll yields any usage or none for every
watched CPU; the cycle counters are not modelled. A failed read of the
frequency, a failed write and a broken socket may happen at every step. The frequency that a
CPU reports is measured: `freq` is what was written, a reading is any of `Readings`, outside the
limits too.

All pods use one profile, whose policy users set and change (the CRD refuses to remove
one) and which they may make shared: a new policy wakes the pods unless the profile is shared
then (`unaware` are the running pods that such a change passes by). What to stop when a pod
ends is read from PowerNodeState in the cache (`seen`, brought up to date by `CatchUp`): without
`cpuPools` in it neither the connection nor the workers are looked for, without the pod's entry
no worker is. Writing an entry may fail. `lost` and `unclosed` are history variables: the pods
whose workers, or whose connection, nobody stopped when they ended. A PowerNodeState that does
not exist yet has the same effect as one without `cpuPools`. kubelet reuses CPUs after the end of
the pod was reconciled and is in the cache (as with `Prompt` below). Not in this module: the
moves of CPUs between pools, which `PodController` has; CPUs the library does not know; a
shutdown that takes longer than the manager's grace period.

`PoliciesAssumption` excludes a target usage of 0, which the CRD allows: the quotient
in `Update` is then infinite or not a number, and Go does not define the integer it is
converted to. The limits of a new frequency are those of the hardware, not the
P-states of the profile.

### CpuSettings

One pool and its CPUs, to which profiles are given one after the other. `UseProfile` is
the reconcile up to `SetPowerProfile`; `Consolidate` is `consolidate` of one CPU,
`ConsolidateRefuses` the same when the frequencies are not in the CPU's range, and
`ConsolidateFails` when one of its writes fails: `afterWrites` says what the files hold
after n of them. A value is a number of MHz, a percentage, or digits without the "%", which
the CRD's pattern lets through. The properties say again what a profile means, about the
result and not along the code: `meansMin` asks for the least frequency that far up the
range, the code scales and rounds. `spec` is what the user wrote, `profile` what
`NewPowerProfile` made of it.

Two CPUs of one type or of two, with whole and with fractional MHz, with and without EPP. To
write nothing to a sysfs file changes nothing (a profile with an empty governor). That the
driver itself refuses a minimum above the maximum is covered by the writes that may fail.

### Uncore and UncoreController

A place is a path: the host, a package, a die. `uncore` holds what is asked of each,
`sysfs` what each die has. `SetUncore` of a place stores; `writeMax` and `writeMin` then write
the two files of each die below it, one at a time, and a failed write (`writeFails`) or a
restart of the agent may come at any of them. `initUncore` reads the limits of die 0 of package
0 and takes them for those of every die; dies with limits of their own are not told apart.
A reconcile selects an Uncore (`Begin`), sets every place back (`Reset`), makes the calls
of the spec (`Apply`), each call with its writes (`Write`), and reports (`Report`), or resets and clears the status. The spec is
the one read at the beginning; users change Uncores at any step. `seen` is the active name
as the informer cache has it.

### PowerConfigController

Every request is a step, and so are the two reads at the beginning, the list of PowerConfigs
and the config itself, because the cache may change between them. `seen`, `seenDaemonSet` and
`seenStates` are the caches; the observation of a change of a PowerConfig is what queues it.
`timers` are the reconciles due in five seconds, `nodeList` the operator's memory of
nodes, `image` the one its environment names, which a restart may change. A name may be used
again after its PowerConfig was deleted; `born` stands for the uid that tells them apart.

Watch and list are over all namespaces. The reconcile of a PowerConfig that is not in the
operator's (`Elsewhere`) ends with an error and is retried (`WrongNamespace`), but it counts in
the list. An empty selector matches every node; an operator without an image in its
environment keeps that of the manifest or of the DaemonSet there is (`nodeAgent`). The manifest
has no node selector. `stray` is a history variable: a config of another namespace has been listed.

### Faults

In `NodeAgent`, `UncoreController` and `PowerConfigController` the variable `faults` is
chosen once, from the constant `Faults`: a behaviour has no trouble, or one kind of it, any
number of times. "sysfs": writes fail; "requests": requests to the API server or to kubelet
fail; "lag": the informer cache follows the process's own writes with a delay; "restarts": the process
starts again at any point. Where a property holds for some of them only it says so, and
section 3 lists what happens in the others.

### The environment

`ApplyProfile` (with `mayShare`), `DeleteProfile`, `ApplyConfig` and `DeleteConfig` are what the
webhooks let through; `Relabel` changes which profiles match the node. `StartPod`, `StopPod` and
`RemovePod` stand for the scheduler and kubelet: CPUs of a running pod are exclusive,
and reserved CPUs are never given to pods (the repository's README requires
reservedCPUs to be kubelet's reservedSystemCPUs; assumption `ReservedSystemCPUs`).
`Prompt` says that the object of a pod outlives the reconcile of its end, and that
kubelet does not reuse its CPUs before it. `Restart` forgets the library, the queues and
the workers; PowerNodeState and the Node stay.

### What is left out

In `NodeAgent` the informer caches of profiles, configs, pods and the node are taken to be up
to date (that of PowerNodeState is not); a read from a cache does not fail. The loop over the
special reserved pools of a profile update holds pool objects, which are names here. Error texts and labels are not modelled. The pods of
`NodeAgent` have no DPDK telemetry and no scaling (`CpuScaling` has). The list of
exclusive pools is a set: in the code it is a slice that `configureReservedPools`
ranges over without the mutex while other goroutines change it, which would need a
model of slices. The branch of `createReservedPool` for an entry without a profile is
left out, because the CRD requires the profile.

Not modelled at all: the pod resources client (its answers and failures are inputs of
`PodController`); the parsing and printing of CPU lists (`pkg/cpuset`, `pkg/util`), pure
conversions where the models have sets; API types and generated code; the discovery of
features and of the topology at start-up; node selectors that conflict, which the webhooks
refuse with the API objects at hand; flags and probes of the two processes.

## 3. Runs

| Run | Instance | What it shows |
|---|---|---|
| `concurrent` | 2 CPUs, 1 pool object, 1 profile, 2 goroutines, fair | mutex, membership, hardware, what a call delivers and the refinement of `PoolAssignment`, with any write failing, and that every call returns. Two goroutines suffice for every pair of calls to overlap |
| `pods` | 2 CPUs, 2 pods on the same CPU, 4 changes, a cache that may lag, fair workers | pods come and go while the config is deleted and applied again: CPUs settle, pods keep theirs, ended pods give theirs back, PowerNodeState follows, and the agent comes to rest |
| `profiles` | 2 configs, 3 versions, 3 changes, relabelling, spec.shared of "base" switched, restarts | updated, invalid, switched, deleted and unmatched profiles are applied and withdrawn; the status follows a change of the config in force; a restarted agent rebuilds the pools |
| `faults` | 3 changes, failing writes, failing requests or a cache that lags | retries repair every half-done library call, the teardown of the pools included, every lost write to the API server and every failed question to kubelet |
| `scaling` | 2 pods on one CPU one after the other, 2 workers alive at once, 2 policies, frequencies 1 to 3 and a reading of 4, 3 changes, shutdown | workers, connections, metrics and targets belong to the pod that runs; frequencies move towards the target |
| `stops` | the same with 1 policy and 1 frequency, fair goroutines | whoever waits for a goroutine returns |
| `uncore` | 3 dies in 2 packages, 2 Uncores of 4 specs, 2 changes, every kind of fault, fair worker | dies follow the most specific setting or are reset, limits hold as far as two files per die can, the reconciler comes to rest |
| `config` | 2 PowerConfigs and one in another namespace, 2 selectors (one empty), 1 node, 1 profile, with and without an image, 3 changes, every kind of fault, fair operator | one config is completely deployed in the end, or nothing is left |
| `values` | 3 machines of 2 CPUs, 38 specs, 2 profiles one after the other, 1 failed write | the values that arrive on each type of CPU |
| `leak`, `stale_profile`, `first_config` | smallest instances | the three disagreements below |

The largest runs have about 5 million (`faults`) and 6 million states (`profiles`); each takes
two to four minutes with two workers. Only `scaling` uses symmetry, of the worker objects.

The reserved CPU of the configs is 0, the pods use 1; "base" is the shared profile and
"perf" the one pods ask for. In `faults` the reserved entry uses either of them.
Three changes are enough for one object to change while another one is being reconciled and a
third event arrives; the retries and failures are not bounded (in `values` one write fails). Two pods, one config and four changes make CPU reuse possible (a pod starts, ends, the other starts)
with the config deleted or applied again on the way. A behaviour has one kind of trouble because together they exceed several million
states. Three versions of a profile let "base" become exclusive, be offered, become shared again
and then be left with its resource. In `scaling` the second pod meets what the first one left on the
CPU, and the third change is one of the policy. In `uncore` one package has two dies and
the other one, so that a setting of a package reaches some dies and not others, and the specs
give frequencies to all three levels, to one, to places and in ranges the node does not have,
and to none. In `config` a third change can bring back a name that was deleted while the
other config is being reconciled, or delete the one in the other namespace. In `values` a second profile meets what the first one, or
a write that failed, left on the CPUs; a third would meet nothing else.

`TypeOK` of `CpuSettings`, `UncoreController` and `PowerConfigController` says what their
variables are; it is proved and not among the properties of a run.

Most properties of the agent are about rest (`Quiescent`: no queue entry, no reconcile
under way). They would be empty if the agent never came to rest, which is what
`Settles` excludes; and each of them is broken by its mutant. `PodsKeepCpus` is about
every step.

Fairness. A library call makes progress once it has the mutex, and Go's mutex hands
itself to a waiter that has starved (strong fairness of `Lock`). Each controller's
worker is a goroutine that runs while its queue is not empty (weak fairness of
`RunProfile`, `RunConfig`, `RunPod`). In `CpuScaling` the reconciler, the shutdown and
the workers are scheduled (weak fairness), and a loop whose context is done leaves it after
finitely many rounds: both cases of its select can only be ready together when a timer
fires at that moment, and Go then picks one at random (strong fairness of `ExitLoop` and
`LeaveLoops`). In `UncoreController` and `PowerConfigController` the reconciler's worker makes
progress, and in the latter the caches and the timer too (weak fairness); users, failures and restarts are never
forced. The liveness properties are about behaviours without failing writes and requests: one
that fails forever is retried forever. `UncoreSettles` is about Uncores that ask for what the
node has, since an error is retried for as long as it lasts. The informers deliver what was
written (weak fairness of `CatchUp`). `Settles` is stated for valid profiles and without lag, after
which a CPU that was not given back keeps a pod of another profile waiting: a
config or pod whose profile is missing, and an invalid profile, are retried for as long as
that lasts.

### Disagreements between the code and what it says

* `leak`. The CPUs of a pod are recorded after all its containers were moved. When
  the CPUs of a later container are not in the shared pool the reconcile returns
  without recording the earlier ones; if the pod ends then, nothing gives them back. Nor
  does anything wake the config reconciler, and the CPU list of the shared pool that
  PowerNodeState shows stays outdated.
* `stale_profile`. The config reconciler reads a profile from its pool in one library
  call and sets it on the shared pool in another. A profile update in between
  updates the pool, finds that the shared pool does not use the profile yet, and leaves the
  shared pool to get the old version.
* `first_config`. With two PowerConfigs the one that is reconciled is deleted. Every
  reconciled config comes back after five seconds, so the first one goes when its turn is before
  that of the second, and possibly both go; the repository's README says that the controller
  deletes those created after the first.

The model shows more of the kind, which are excluded from the passing runs by their
constants or by the properties they check; most are listed with the hazards:

* after a restart a pod takes its CPUs out of the shared pool again, its entry in
  PowerNodeState is unchanged, nobody is woken, and the CPU list of the shared pool
  stays outdated (`SharedStatusFresh` speaks of the CPU list only without restarts and failing requests);
* a profile deleted while the agent is down stays reported (`ProfilesWithdrawn`
  excepts it);
* when the first status write of a config fails, or has not come back to the cache, and the
  config is deleted, its pools are not taken down (`PoolsTakenDown` is not about failing requests, and
  with lag only about a status that names no config);
* a pod that ends while its reconcile writes its entry is handled against a cache without the
  entry: its CPUs stay in the exclusive pool and its workers run on (`missed`, `lost`);
* a profile that becomes shared keeps its extended resource, and so does the profile of the
  shared pool that was exclusive before, when it is deleted (`switched` in `ProfilesApplied`
  and `ProfilesWithdrawn`). A pod that asks for the resource left over is set up like any other, but its
  CPUs go when the profile is deleted in the moment before the pod starts (hypothesis
  `PodsUnswitched`);
* a policy that changes together with the flag, or while the profile is shared, does not
  reach pods that run (`unaware` in `PodsScaled`);
* a pod that is reconciled again while the labels of the node do not match its profile is
  recorded anew, without the CPUs it has; when it ends then, nothing gives them back (the
  hypothesis `~MayUnmatch` of `EndedPodsRelease`);
* a status write of the pod reconciler that fails before the pod ends has the same
  effect as `leak` (`EndedPodsReleaseCpus` is checked in `pods` only);
* without `Prompt`, a release that failed and is retried takes the CPUs from a new
  pod of the same profile (`CpusSettled`);
* a `SetPowerProfile` on a new, a shared or a special reserved pool that fails is
  retried, but PowerNodeState shows no error, because its `err` shadows the one the
  deferred status write uses (`FailWith(FALSE)` in `ProfileController`);
* a pod that ends before its entry was written, or before PowerNodeState has `cpuPools`, leaves
  its workers, or also its connection, running (the pods in `lost` and `unclosed`);
* a deleted profile that the shared pool does not use keeps its (empty) pool;
* a profile without a governor or an EPP leaves those of the profile before on the CPUs
  (`SettingsMatch` is about named ones), although validation takes a missing governor for
  powersave;
* on a machine whose minimum is no whole MHz, a profile with only a maximum in MHz gets a
  minimum below it and is refused by every CPU; so are digits in quotes (the two
  exceptions of `AcceptedApplies`);
* on hybrid CPUs a minimum in MHz above all frequencies of one type is written as it is
  and ends above the maximum, and so is a maximum below all of them, which ends below the
  minimum (the two exceptions of `InRange`); a capacity of less than one CPU offers all CPUs,
  and a number above the CPUs there are is offered (`OfferedWhenApplied`);
* an Uncore that is deleted before its status write succeeded, was in the cache, or while the
  agent is down is never reset (`DiesReset`); an Uncore without frequencies passes the
  webhook, is refused before the reset and leaves the dies as they were;
* the two files of a die are written maximum first: going down, the minimum is above the maximum
  until the second write, and after a crash between them until the next reconcile; when the last
  Uncore is deleted before the agent is back there is none (`LimitsHeld` names the cases);
* a PowerConfig in another namespace is never deployed, but counts: while it is there every
  config of the operator's namespace is deleted, and the deletion of the last one takes nothing down
  (`Converges`, `stray` in `TornDown`);
* a PowerNodeState or DaemonSet that the cache does not have yet survives the teardown, and
  all of them when the last PowerConfig is deleted while the operator is down (`TornDown`); an
  error right after a PowerNodeState was created leaves it without NodeInfo for good.

## 4. Proofs

Every safety property that a passing run checks is also a theorem, for all values of the
constants that the assumptions below admit.

| Module | Theorems |
|---|---|
| `PowerLibraryProofs` | `TypeCorrect`, `MutexSafe`, `MembershipSafe`, `HardwareSafe`, `CallsDeliver` |
| `PowerLibraryRefinement` | `LibraryRefinesAssignment`: `PowerLibrary` implements `PoolAssignment` under `committedPool`, by which a CPU belongs to its old pool until `doSetPool` is done |
| `NodeAgentProofs` | `AgentTypeSafety`, `ProfilesAreApplied`, `ProfilesAreWithdrawn`, `PoolsAreTakenDown`, `RunningPodsKeepCpus`, `CpusAreSettled`, `SharedStatusIsFresh`, `EndedPodsRelease` |
| `CpuScalingProofs` | `TypeSafety`, `WorkersReachable`, `SingleWorker`, `LiveUsage`, `RunningPodsScaled`, `EndedPodsReleased`, `TargetsInForce`, `DirectionKept` |
| `CpuSettingsProofs` | `SettingsTypeSafety`, `FrequenciesInRange`, `ProfilesMeanTheSame`, `AcceptedIsApplied`, `OffersApplied` |
| `UncoreProofs` | `UncoreTypeSafety`, `UncoreLimits`, `UncoreConfigured`, `UncoreReset` |
| `PowerConfigProofs` | `ConfigTypeSafety`, `ConfigsReconciled`, `EverythingTakenDown` |

None of the properties is inductive by itself. Each module states what has to be added, in
named parts; TLC checked each of them on instances of the runs, as far as these meet the
hypotheses, before it was proved.
The proofs have one lemma or step for each action, and most have frame lemmas that say which
parts a step cannot disturb.

### PowerLibrary

Assumptions: CPU ids are naturals, the lists passed are sets of CPUs, pool objects
differ from the two fixed pools, thread and pool names from the null values.

`IInv` adds what the code relies on
silently: `MoveInLoop` (`doSetPool` only runs for the CPU the loop visits, and never
in `SetPowerProfile`), `LoopDelivers` (what the loop has done for the CPUs behind it),
`MoveLegal` (it only starts between the shared pool and another) and `PoolsExist`.
`MutexOwned` carries the rest: at most one thread is inside (`Alone`), so no other
thread disturbs what the loop has done, and a CPU in flight is the owner's
(`InMoveOfOwner`). `HardwareFollowsPool` needs `MembershipAgrees`, because
`SetPowerProfile` changes the profile of a pool and then visits the CPUs its list
names. `CallDelivers` follows from `LoopDelivers` when nothing is left to visit. The
refinement needs `PoolsExist` (a CPU moves to a pool that was created),
`MoveLegal` (it moves through the shared pool) and `LoopDelivers` (Remove unlists an
empty pool).

### NodeAgent

Assumptions (`AgentState`): entries of a config are disjoint sets of CPUs, as the webhook
demands, and their pools are named after them and unlike profiles; specs, configs and pods name
profiles and CPUs there are; a CPU of a pod belongs to one of its containers; reserved CPUs
go to no pod (`ReservedSystemCPUs`); no profile is called like a fixed pool. The four theorems about
pods also take `Prompt`, the assumption about kubelet that their runs make, and `PodsUnswitched`: the
profiles pods ask for are not in `Switchable`.

The invariants are proved on top of each other:

* `Typed`: besides `TypeOK`, what the local variables of a reconcile are at each of its
  steps, as far as later steps read them;
* `ProfilesKeptApart`: the pool of a profile has that profile or none, the shared pool one that is
  or was shared, and such a profile is offered only if its flag was changed. Without it one reconcile could
  undo what another profile's did. With it, `ReconcileFollows` (a reconcile of a profile that is not
  queued again goes by what the profile is now) gives `ProfilesFollow`, of which
  `ProfilesApplied` and `ProfilesWithdrawn` are the case of rest. `leftOver` says which resources
  nothing is on its way to withdraw: those of deleted profiles whose flag was changed;
* `ActiveFollows` and `PoolsReported`, for the reconcile of the configs and for the pools it
  has not reported yet, give `PoolsTakenDown`; with lag a reconcile may find no name in the cache and
  end, so that `ActiveFollows` says nothing of the name then and `PoolsReported` is what is left;
* `PodsApart`: CPUs of pods that run or are being ended are their own. This gives
  `PodsKeepCpus`: CPUs leave the pool of a profile only when an ended pod gives its own back, or
  with the pool of a profile that is or may become shared, which no pod has;
* `OwnersListed` (a reserved CPU is in a pool that is listed, so the removal of the listed
  pools reaches it) and `EntriesSoFar` (the entries a reconcile has passed have their cores,
  and nothing else is reserved) for the reserved half of `CpusSettled`; `PodsPlaced` (containers
  a reconcile has passed have their CPUs) for the half of the pods;
* `PodKnown`, `EntriesTell` (a pod recorded without an error has its CPUs) and
  `SharedFollows` (the reported list is right but for CPUs of pods whose entry is about to change,
  which wakes the config reconciler) for `SharedStatusFresh`;
* `TodoFound` and `CpusHeld` (every CPU in a profile's pool has a pod whose entry names it, or is
  about to, or a pod in `missed`) for `EndedPodsReleaseCpus`.

`SharedStatusIsFresh` and `EndedPodsRelease` assume pods of one container (`OneContainer`), and
the latter that labels keep matching and that requests and the agent do not fail (writes may, and
the cache may lag). These
are the limits of the code and not of the proofs: section 3 says what happens beyond them.

### CpuScaling

Assumptions: usages are percentages, readings are naturals, policies are in the ranges of the CRD with a target of at
least 1, the range of frequencies is not empty, `NoWorker` is no worker.

The reconciler and the shutdown both take workers out of the manager's map and then wait for
their goroutines to end.
`ManagedRuns` (a worker in the map runs and nobody waits for its end), `CallersHold` (a worker
outside the map is held by one caller) and `WorkersInReach` give `NoOrphans` and
`OneWorkerPerCpu`. `ClosingAlone` and `ConnectionsOwned` say who may end a connection, for
`UsageIsLive`. `CpusHandedOver` (whoever had the CPUs of a running pod is out of the way),
`ScaledSoFar` and `EndedReconciled` give `PodsScaled`; `WorkersAccountedFor` (every worker has
a pod that runs, or whose end will be reconciled, or that was lost) gives
`EndedPodsUnscaled`. `TargetInForce` needs `OneWorkerPerCpu`, because a second worker of the CPU would
replace the frequency, and that new options come without a target (`WorkersReadOnce`).
`ScalesTowardsTarget` rests on facts about the quotient in `Update`, and on that a frequency is read
only for a usage outside the band.

### CpuSettings

Assumptions: finitely many CPUs and at least one, frequencies in units of a fraction of a MHz, a range of at
least one MHz for each CPU, values of the three kinds the CRD lets through.

Most of the module is arithmetic: lemmas bound a percentage scaled to a range, say how rounding up
to a whole MHz relates to the least frequency that far up the range, and that what was
validated for the system is in order on each type of CPU. `Accepted` relates the profile to its spec,
`Consolidated` says that to write a CPU again would change nothing, `Progress` that no CPU
is left out, `LimitsKept` is the part of `InRange` that single writes keep. `AcceptedApplies`
is part of the invariant, because a CPU that was refused stays as it was.

### Uncore and PowerConfig

`UncoreProofs` assumes that the hardware's lower limit is positive, a multiple of the step and
not above the upper one, and that specs are what the webhook admits. `SettingsOrdered` and
`HalfWritten` (a die between its two writes has the maximum it is asked to have, so that the second
write puts it in order) give `LimitsHeld`. `ResetSoFar` (places behind the reset ask for nothing, dies are reset after
their package and packages after the host), `AppliedSoFar` (exactly the calls made so far have
settings, every die follows them), `ReadsCurrent` (what was read still holds, or the
reconcile runs again) and `NothingLeft` give `DiesConfigured` and `DiesReset`.

`PowerConfigProofs` assumes only that names, selectors and images are not the null values.
`NeverLetGo` speaks of configs by their uid, so that a name used again is no exception;
`ReadsAnnounced` says that what a reconcile has read holds or is queued again,
`CachesFollow` and `DeployedIsSeen` relate what is deployed to the caches the teardown goes by.

### What the attempts showed

* `InRange` without its second exception is false: a maximum in MHz can be below one type's range.
  TLC had no such spec; it has now.
* `InRange` needs a range of one MHz or more for each CPU (`HardwareAssumption`): below that, rounding to
  whole MHz puts a minimum above the maximum.
* `PodsKeepCpus` and what is built on it fail for a pod whose profile may become shared, which no
  run had: the theorems now take `PodsUnswitched`.
* `SharedStatusFresh` and `EndedPodsReleaseCpus` fail for pods of two containers, and the latter
  when labels change: the instances of the runs excluded both, and the theorems now name them.

### Only model-checked

`CallsReturn`, `Settles`, `StopsReturn`, `UncoreSettles` and `Converges`: liveness under fairness
is outside what the prover supports. `leak`, `stale_profile` and `first_config` are counterexamples. That the one-step
library calls of `AgentState` stand for those of `PowerLibrary` is argued in section 2 and not
a theorem.

## 5. Plan

In this order:

1. `EndedPodsReleaseCpus` and `SharedStatusFresh` from weaker hypotheses: several containers whose
   CPUs are all in the shared pool when the pod starts;
2. that a call of `AgentState` is what `PoolAssignment` allows, which would make the argument of
   section 2 a theorem;
3. the list of exclusive pools as a slice with its unlocked readers, and the moves of CPUs
   between pools in `CpuScaling`.
