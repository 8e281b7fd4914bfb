--------------------------- MODULE PodController ---------------------------
(***************************************************************************)
(* The pod reconciler (powerpod_controller.go): one worker that moves the  *)
(* CPUs kubelet gave to the containers of a pod into the exclusive pool of *)
(* their profile, records them in PowerNodeState, and moves the recorded   *)
(* CPUs back to the shared pool when the pod ends.  DPDK telemetry and     *)
(* scaling are not part of this module: both clients are nil.              *)
(***************************************************************************)
EXTENDS AgentState, FiniteSetsExt

VARIABLES
    pod,      \* the worker: [pc, key, todo (containers left), found (CPUs to record),
              \*              bad (containers to record with an error), retry]
    podState, \* State.GuaranteedPods: pods the agent keeps track of
    missed    \* history: pods whose end was handled without their entry, or with an old one

podIdle == [pc |-> "idle", key |-> "nil", todo |-> {}, found |-> {}, bad |-> {}, retry |-> FALSE]

PodDone == pod' = podIdle /\ UNCHANGED podQueue
PodRequeue == pod' = podIdle /\ podQueue' = podQueue \cup {pod.key}

\* Mutant of WakesConfig: nobody watches the exclusive entries.
WakesConfig_Never(p, e) == FALSE

\* A change of the exclusive entries of PowerNodeState wakes the PowerNodeConfig
\* reconciler, if there is a config to reconcile.  A cache that lags sees it later.
WakesConfig(p, e) == faults # "lag" /\ entry[p] # e /\ someConfig

\* The entry of a pod is applied under a field manager of its own.
applyExclusiveStatus(p, e) ==
    /\ entry' = [entry EXCEPT ![p] = e]
    /\ cfgQueue' = (cfgQueue \/ WakesConfig(p, e))

\* Pods are told apart by name and namespace, which are unique here.
UpdateStateGuaranteedPods(p) == podState' = podState \cup {p}
DeletePodFromState(p) == podState' = podState \ {p}

\* A pod that is no longer there: only the internal state is cleaned.
PodNotFound(p) ==
    /\ pod.pc = "idle" /\ p \in podQueue /\ phase[p] = "gone"
    /\ podQueue' = podQueue \ {p}
    /\ DeletePodFromState(p)
    /\ UNCHANGED <<library, cluster, report, profQueue, cfgQueue, pod, missed>>

\* getPowerProfileRequestsFromContainers: a container whose profile is not
\* available is recorded with an error and without CPUs; one whose CPUs the pod
\* resources client cannot tell is left out.  Both are retried.
PodBegin(p) ==
    /\ pod.pc = "idle" /\ p \in podQueue /\ phase[p] = "running"
    /\ podQueue' = podQueue \ {p}
    /\ LET all == DOMAIN podSpec[p]
           available == {i \in all : ProfileAvailable(podSpec[p][i].profile)}
       IN  \E known \in IF RequestsFail THEN SUBSET available ELSE {available} :
             pod' = [pc |-> "check", key |-> p, todo |-> known,
                     found |-> UNION {podSpec[p][i].cpus : i \in known},
                     bad |-> all \ available,
                     retry |-> known # all]
    /\ UNCHANGED <<library, cluster, report, profQueue, cfgQueue, podState, missed>>

\* The loop takes the containers in their order.
turn == Min(pod.todo)
remaining == pod.todo \ {turn}
container == podSpec[pod.key][turn]
areCPUsInSharedPool(S) == S \subseteq cpusIn(shared)
coresToAdd == {c \in container.cpus : owner[c] # container.profile}

\* Mutant of FailedContainer: the error goes to the next container.
FailedContainer_OffByOne ==
    [pod EXCEPT !.pc = "check", !.todo = remaining, !.bad = @ \cup {turn + 1}, !.retry = TRUE]

\* The error of a container is kept for the status and for the retry.
FailedContainer ==
    [pod EXCEPT !.pc = "check", !.todo = remaining, !.bad = @ \cup {turn}, !.retry = TRUE]

\* Mutant of CheckContainer: goes on without the CPUs that are not in the shared pool.
CheckContainer_NoWait ==
    /\ pod.pc = "check" /\ pod.todo # {}
    /\ UNCHANGED podQueue
    /\ pod' = IF container.profile \notin exclusive THEN FailedContainer
              ELSE IF coresToAdd # {} /\ areCPUsInSharedPool(coresToAdd)
              THEN [pod EXCEPT !.pc = "move"]
              ELSE [pod EXCEPT !.todo = remaining]
    /\ UNCHANGED <<library, cluster, report, profQueue, cfgQueue, podState, missed>>

\* The pool of the profile, the CPUs it has, and whether the missing ones are
\* all in the shared pool.  If they are not, the reconcile ends and waits.
CheckContainer ==
    /\ pod.pc = "check" /\ pod.todo # {}
    /\ IF container.profile \notin exclusive
       THEN pod' = FailedContainer /\ UNCHANGED podQueue
       ELSE IF coresToAdd = {}
       THEN pod' = [pod EXCEPT !.todo = remaining] /\ UNCHANGED podQueue
       ELSE IF areCPUsInSharedPool(coresToAdd)
       THEN pod' = [pod EXCEPT !.pc = "move"] /\ UNCHANGED podQueue
       ELSE PodRequeue
    /\ UNCHANGED <<library, cluster, report, profQueue, cfgQueue, podState, missed>>

\* coresToAdd was computed before the check; nobody else fills the pool.  An error
\* is kept for the status and the loop goes on.
MoveContainer ==
    /\ pod.pc = "move"
    /\ UNCHANGED podQueue
    /\ \/ /\ MoveCPUs(coresToAdd, container.profile)
          /\ pod' = [pod EXCEPT !.pc = "check", !.todo = remaining]
       \/ /\ MoveCPUsFails(coresToAdd, container.profile)
          /\ pod' = FailedContainer
    /\ UNCHANGED <<exclusive, prof, cluster, report, profQueue, cfgQueue, podState, missed>>

\* addPowerNodeStatusExclusiveEntry, then the internal state.
RecordPod ==
    /\ pod.pc = "check" /\ pod.todo = {}
    /\ \/ /\ applyExclusiveStatus(pod.key, [cpus |-> pod.found, bad |-> pod.bad, recorded |-> TRUE])
          /\ UpdateStateGuaranteedPods(pod.key)
          /\ IF pod.retry THEN PodRequeue ELSE PodDone
       \/ RequestsFail /\ PodRequeue /\ UNCHANGED <<entry, cfgQueue, podState>>
    /\ UNCHANGED <<library, cluster, active, sharedStatus, profStatus, extRes, profQueue, missed>>

(***************************************************************************)
(* handlePodDeletion: the entry of the pod says which CPUs to give back.   *)
(***************************************************************************)

\* Mutant of PodEnded: the entry is gone before its CPUs are read.
PodEnded_NoCpus(p) ==
    /\ pod.pc = "idle" /\ p \in podQueue /\ phase[p] = "done"
    /\ podQueue' = podQueue \ {p}
    /\ DeletePodFromState(p)
    /\ pod' = [pod EXCEPT !.pc = "release", !.key = p]
    /\ UNCHANGED <<library, cluster, report, profQueue, cfgQueue, missed>>

\* The entry is read from the cache, which may not have it yet.
PodEnded(p) ==
    /\ pod.pc = "idle" /\ p \in podQueue /\ phase[p] = "done"
    /\ podQueue' = podQueue \ {p}
    /\ DeletePodFromState(p)
    /\ pod' = [pod EXCEPT !.pc = "release", !.key = p, !.found = cached.entry[p].cpus]
    /\ missed' = IF cached.entry[p].cpus = entry[p].cpus THEN missed ELSE missed \cup {p}
    /\ UNCHANGED <<library, cluster, report, profQueue, cfgQueue>>

ReleaseCpus ==
    /\ pod.pc = "release"
    /\ \/ /\ MoveCPUs(pod.found, shared)
          /\ pod' = [pod EXCEPT !.pc = "forget", !.found = {}]
          /\ UNCHANGED podQueue
       \/ MoveCPUsFails(pod.found, shared) /\ PodRequeue
    /\ UNCHANGED <<exclusive, prof, cluster, report, profQueue, cfgQueue, podState, missed>>

ForgetPod ==
    /\ pod.pc = "forget"
    /\ \/ applyExclusiveStatus(pod.key, NoEntry) /\ PodDone
       \/ RequestsFail /\ PodRequeue /\ UNCHANGED <<entry, cfgQueue>>
    /\ UNCHANGED <<library, cluster, active, sharedStatus, profStatus, extRes, profQueue, podState, missed>>

PodStep ==
    \/ \E p \in Pods : PodNotFound(p) \/ PodBegin(p) \/ PodEnded(p)
    \/ CheckContainer \/ MoveContainer \/ RecordPod
    \/ ReleaseCpus \/ ForgetPod

=============================================================================
