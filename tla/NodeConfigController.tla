------------------------ MODULE NodeConfigController ------------------------
(***************************************************************************)
(* The PowerNodeConfig reconciler (powernodeconfig_controller.go): one     *)
(* worker that selects the config in force and rebuilds the shared pool    *)
(* and the pseudo-reserved pools, or takes them down when no config is     *)
(* left.  Every library call and every API request is a step of its own.   *)
(***************************************************************************)
EXTENDS AgentState, FiniteSetsExt

VARIABLE cfg  \* the worker: [pc, name, spec, rest, cur (entry), val (profile), moved, err]

NoEntrySpec == [pool |-> "nil", cores |-> {}, profile |-> "nil"]
cfgIdle == [pc |-> "idle", name |-> NoConfig, spec |-> NoSpec, rest |-> {}, cur |-> NoEntrySpec,
            val |-> NoProfile, moved |-> {}, err |-> FALSE]

Finish(again) == cfg' = cfgIdle /\ cfgQueue' = (cfgQueue \/ again)
Continue(w) == cfg' = w /\ UNCHANGED cfgQueue
ContinueAt(l) == Continue([cfg EXCEPT !.pc = l])

\* Mutant of GiveUp: the error is not returned.
GiveUp_NoRetry == Continue([cfg EXCEPT !.pc = "status"])

\* Errors of configureReservedPools end it; the status is written all the same.
GiveUp == Continue([cfg EXCEPT !.pc = "status", !.err = TRUE])

\* selectActiveOrOldest, by the name that getActiveResourceName finds in the cache.
present == {n \in ConfigNames : configs[n] # NoSpec}
selected == IF cached.active \in present THEN cached.active ELSE Min(present)

\* validatePowerNodeConfigProfiles; the webhook has seen to it that the entries
\* are disjoint.
ValidConfig(s) ==
    /\ cr[s.shared].shared
    /\ \A f \in {s.shared} \cup {e.profile : e \in s.reserved} : ProfileAvailable(f)

BeginApply ==
    /\ cfg.pc = "idle" /\ cfgQueue
    /\ present # {}
    /\ ValidConfig(configs[selected])
    /\ cfgQueue' = FALSE
    /\ cfg' = [cfg EXCEPT !.pc = "read", !.name = selected, !.spec = configs[selected]]
    /\ UNCHANGED <<library, cluster, report, profQueue, podQueue>>

updatePowerNodeStatusPools(n, S) == active' = n /\ sharedStatus' = S

\* A config that fails validation is reported, under its name, and retried.
RefuseConfig ==
    /\ cfg.pc = "idle" /\ cfgQueue
    /\ present # {}
    /\ ~ValidConfig(configs[selected])
    /\ \/ updatePowerNodeStatusPools(selected, {})
       \/ RequestsFail /\ UNCHANGED <<active, sharedStatus>>
    /\ UNCHANGED <<library, cluster, entry, profStatus, extRes, queues, cfg>>

NothingToApply ==
    /\ cfg.pc = "idle" /\ cfgQueue
    /\ present = {} /\ cached.active = NoConfig
    /\ cfgQueue' = FALSE
    /\ UNCHANGED <<library, cluster, report, profQueue, podQueue, cfg>>

(***************************************************************************)
(* configureSharedPool                                                     *)
(***************************************************************************)
ReadSharedProfile ==
    /\ cfg.pc = "read"
    /\ IF cfg.spec.shared \in exclusive /\ prof[cfg.spec.shared] # NoProfile
       THEN Continue([cfg EXCEPT !.pc = "set", !.val = prof[cfg.spec.shared]])
       ELSE Finish(TRUE)
    /\ UNCHANGED <<library, cluster, report, profQueue, podQueue>>

SetSharedProfile ==
    /\ cfg.pc = "set"
    /\ \/ SetPowerProfile(shared, cfg.val) /\ ContinueAt("clear")
       \/ SetPowerProfileFails(shared, cfg.val) /\ Finish(TRUE)
    /\ UNCHANGED <<owner, exclusive, cluster, report, profQueue, podQueue>>

\* Mutant of ClearReserved: every CPU goes to the shared pool.
ClearReserved_AllCpus ==
    /\ cfg.pc = "clear"
    /\ \/ /\ MoveCPUs(CPUs, shared)
          /\ Continue([cfg EXCEPT !.pc = "remove", !.rest = listedPseudo, !.val = NoProfile])
       \/ MoveCPUsFails(CPUs, shared) /\ Finish(TRUE)
    /\ UNCHANGED <<exclusive, prof, cluster, report, profQueue, podQueue>>

\* SetCPUIDs({}) on the reserved pool, then the pseudo-reserved pools to remove.
ClearReserved ==
    /\ cfg.pc = "clear"
    /\ \/ /\ MoveCPUs(cpusIn(reserved), shared)
          /\ Continue([cfg EXCEPT !.pc = "remove", !.rest = listedPseudo, !.val = NoProfile])
       \/ MoveCPUsFails(cpusIn(reserved), shared) /\ Finish(TRUE)
    /\ UNCHANGED <<exclusive, prof, cluster, report, profQueue, podQueue>>

(***************************************************************************)
(* configureReservedPools                                                  *)
(***************************************************************************)
RemoveOld(q) ==
    /\ cfg.pc = "remove" /\ q \in cfg.rest
    /\ \/ RemovePool(q) /\ Continue([cfg EXCEPT !.rest = @ \ {q}])
       \/ RemovePoolFails(q) /\ GiveUp
    /\ UNCHANGED <<cluster, report, profQueue, podQueue>>

RemovedAll ==
    /\ cfg.pc = "remove" /\ cfg.rest = {}
    /\ Continue([cfg EXCEPT !.pc = "entries", !.rest = cfg.spec.reserved])
    /\ UNCHANGED <<library, cluster, report, profQueue, podQueue>>

\* One entry of reservedCPUs: its cores go to the shared pool first.
BeginEntry(e) ==
    /\ cfg.pc = "entries" /\ e \in cfg.rest
    /\ \/ /\ MoveCPUs(e.cores, shared)
          /\ Continue([cfg EXCEPT !.pc = "create", !.cur = e, !.rest = @ \ {e}])
       \/ MoveCPUsFails(e.cores, shared) /\ GiveUp
    /\ UNCHANGED <<exclusive, prof, cluster, report, profQueue, podQueue>>

\* createReservedPool: AddExclusivePool, the profile of the pool of that name,
\* SetPowerProfile (the pool is empty: nothing to write), SetCPUIDs.
CreateReserved ==
    /\ cfg.pc = "create"
    /\ \/ /\ cfg.cur.pool \notin exclusive
          /\ AddExclusivePool(cfg.cur.pool)
          /\ ContinueAt("core")
       \/ /\ cfg.cur.pool \in exclusive
          /\ Continue([cfg EXCEPT !.pc = "fallback", !.err = TRUE])
          /\ UNCHANGED <<exclusive, prof>>
    /\ UNCHANGED <<owner, cluster, report, profQueue, podQueue>>

ReadCoreProfile ==
    /\ cfg.pc = "core"
    /\ IF cfg.cur.profile \in exclusive
       THEN Continue([cfg EXCEPT !.pc = "tune", !.val = prof[cfg.cur.profile]])
       ELSE Continue([cfg EXCEPT !.pc = "drop", !.err = TRUE])
    /\ UNCHANGED <<library, cluster, report, profQueue, podQueue>>

TuneReserved ==
    /\ cfg.pc = "tune"
    /\ SetPowerProfile(cfg.cur.pool, cfg.val)
    /\ Continue([cfg EXCEPT !.pc = "fill", !.val = NoProfile])
    /\ UNCHANGED <<owner, exclusive, cluster, report, profQueue, podQueue>>

FillReserved ==
    /\ cfg.pc = "fill"
    /\ \/ /\ MoveCPUs(cfg.cur.cores, cfg.cur.pool)
          /\ Continue([cfg EXCEPT !.pc = "entries", !.cur = NoEntrySpec])
       \/ /\ MoveCPUsFails(cfg.cur.cores, cfg.cur.pool)
          /\ Continue([cfg EXCEPT !.pc = "drop", !.err = TRUE])
    /\ UNCHANGED <<exclusive, prof, cluster, report, profQueue, podQueue>>

\* The error of this Remove is ignored.
DropReserved ==
    /\ cfg.pc = "drop"
    /\ RemovePool(cfg.cur.pool) \/ RemovePoolFails(cfg.cur.pool)
    /\ ContinueAt("fallback")
    /\ UNCHANGED <<cluster, report, profQueue, podQueue>>

FallBack ==
    /\ cfg.pc = "fallback"
    /\ \/ /\ MoveCPUs(cfg.cur.cores, reserved)
          /\ Continue([cfg EXCEPT !.pc = "entries", !.cur = NoEntrySpec])
       \/ MoveCPUsFails(cfg.cur.cores, reserved) /\ GiveUp
    /\ UNCHANGED <<exclusive, prof, cluster, report, profQueue, podQueue>>

EntriesDone ==
    /\ cfg.pc = "entries" /\ cfg.rest = {}
    /\ ContinueAt("status")
    /\ UNCHANGED <<library, cluster, report, profQueue, podQueue>>

\* Mutants of ReportPools: the name of the config is only written when none was
\* active; the write wakes its own reconciler.
ReportPools_KeepsName ==
    /\ cfg.pc = "status"
    /\ \/ /\ updatePowerNodeStatusPools(IF active = NoConfig THEN cfg.name ELSE active, cpusIn(shared))
          /\ Finish(cfg.err)
       \/ RequestsFail /\ UNCHANGED <<active, sharedStatus>> /\ Finish(TRUE)
    /\ UNCHANGED <<library, cluster, entry, profStatus, extRes, profQueue, podQueue>>
ReportPools_WakesItself ==
    /\ cfg.pc = "status"
    /\ \/ updatePowerNodeStatusPools(cfg.name, cpusIn(shared)) /\ Finish(TRUE)
       \/ RequestsFail /\ UNCHANGED <<active, sharedStatus>> /\ Finish(TRUE)
    /\ UNCHANGED <<library, cluster, entry, profStatus, extRes, profQueue, podQueue>>

\* updatePowerNodeStatusPools; errors of the reserved pools are returned after it.
ReportPools ==
    /\ cfg.pc = "status"
    /\ \/ updatePowerNodeStatusPools(cfg.name, cpusIn(shared)) /\ Finish(cfg.err)
       \/ RequestsFail /\ UNCHANGED <<active, sharedStatus>> /\ Finish(TRUE)
    /\ UNCHANGED <<library, cluster, entry, profStatus, extRes, profQueue, podQueue>>

(***************************************************************************)
(* cleanupPowerNodeConfigPools                                             *)
(***************************************************************************)

BeginCleanup ==
    /\ cfg.pc = "idle" /\ cfgQueue
    /\ present = {} /\ cached.active # NoConfig
    /\ cfgQueue' = FALSE
    /\ cfg' = [cfg EXCEPT !.pc = "cleanup", !.moved = cpusIn(shared), !.rest = listedPseudo]
    /\ UNCHANGED <<library, cluster, report, profQueue, podQueue>>

CleanupPseudo(q) ==
    /\ cfg.pc = "cleanup" /\ q \in cfg.rest
    /\ \/ RemovePool(q) /\ Continue([cfg EXCEPT !.rest = @ \ {q}, !.moved = @ \cup cpusIn(q)])
       \/ RemovePoolFails(q) /\ Finish(TRUE)
    /\ UNCHANGED <<cluster, report, profQueue, podQueue>>

\* Mutant of MoveBack: an error ends the reconcile for good.
MoveBack_NoRetry ==
    /\ cfg.pc = "cleanup" /\ cfg.rest = {}
    /\ \/ MoveCPUs(cfg.moved, reserved) /\ Continue([cfg EXCEPT !.pc = "forget", !.moved = {}])
       \/ MoveCPUsFails(cfg.moved, reserved) /\ Finish(FALSE)
    /\ UNCHANGED <<exclusive, prof, cluster, report, profQueue, podQueue>>

MoveBack ==
    /\ cfg.pc = "cleanup" /\ cfg.rest = {}
    /\ \/ MoveCPUs(cfg.moved, reserved) /\ Continue([cfg EXCEPT !.pc = "forget", !.moved = {}])
       \/ MoveCPUsFails(cfg.moved, reserved) /\ Finish(TRUE)
    /\ UNCHANGED <<exclusive, prof, cluster, report, profQueue, podQueue>>

ForgetPools ==
    /\ cfg.pc = "forget"
    /\ \/ active' = NoConfig /\ sharedStatus' = {} /\ Finish(FALSE)
       \/ RequestsFail /\ UNCHANGED <<active, sharedStatus>> /\ Finish(TRUE)
    /\ UNCHANGED <<library, cluster, entry, profStatus, extRes, profQueue, podQueue>>

ConfigStep ==
    \/ BeginApply \/ RefuseConfig \/ NothingToApply
    \/ ReadSharedProfile \/ SetSharedProfile \/ ClearReserved
    \/ \E q \in PseudoPools : RemoveOld(q) \/ CleanupPseudo(q)
    \/ RemovedAll
    \/ \E e \in Entries : BeginEntry(e)
    \/ CreateReserved \/ ReadCoreProfile \/ TuneReserved \/ FillReserved
    \/ DropReserved \/ FallBack \/ EntriesDone \/ ReportPools
    \/ BeginCleanup \/ MoveBack \/ ForgetPools

=============================================================================
