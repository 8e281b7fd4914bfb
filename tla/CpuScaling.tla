----------------------------- MODULE CpuScaling -----------------------------
(***************************************************************************)
(* Dynamic frequency scaling of DPDK pods (internal/scaling): the scaling  *)
(* manager with one worker goroutine per CPU, the telemetry client with    *)
(* one connection goroutine per pod, and the two callers of both: the pod  *)
(* reconciler (one worker) and the shutdown of the agent.                  *)
(*                                                                         *)
(* All pods here ask for one profile, whose cpuScalingPolicy and shared    *)
(* flag users change.                                                      *)
(* Sample and cool-down periods are abstracted: a timer fires at any time. *)
(***************************************************************************)
EXTENDS Integers, FiniteSets

CONSTANTS
    Pods,         \* pods with a DPDK container
    podCpus,      \* the CPUs of that container, per pod
    Workers,      \* worker objects that can be alive at once
    Policies,     \* [target, allowedUsage, allowedFreq, scale, fallback]; usages, the
                  \* scale and the fallback in percent
    Usages,       \* usage percentages that telemetry reports
    Readings,     \* what scaling_cur_freq may say: measured, so any frequency, set or not
    HWMin, HWMax, \* frequencies of the hardware
    MaxEdits      \* bound: changes made by users and kubelet

NoPolicy == [target |-> 0, allowedUsage |-> 0, allowedFreq |-> 0, scale |-> 0, fallback |-> 0]
NoWorker == "nil"
NoUsage == -1             \* GetUsagePercent returns an error
FrequencyNotYetSet == -1
NoReading == -1           \* GetCurrentCPUFrequency returns an error
CPUs == UNION {podCpus[p] : p \in Pods}
\* GetAbsMinMax: the limits a CPU reports
Frequencies == HWMin..HWMax

ASSUME WorkersAssumption == NoWorker \notin Workers
ASSUME FrequencyAssumption == HWMin \in Nat /\ HWMax \in Nat /\ HWMin <= HWMax
ASSUME UsagesAssumption == Usages \subseteq 0..100
ASSUME ReadingsAssumption == Readings \subseteq Nat
\* The ranges of the CRD, which also allows a target of 0: the quotient of Update is
\* infinite then.
ASSUME PoliciesAssumption ==
    Policies \subseteq [target: 1..100, allowedUsage: 0..50, allowedFreq: Nat, scale: 10..200,
                        fallback: 0..100]

VARIABLES
    policy,    \* cpuScalingPolicy of the profile
    shared,    \* its shared flag
    phase,     \* pods: "none", "running", "done"
    recorded,  \* pods with an entry in PowerNodeState
    queue,     \* work queue of the pod reconciler
    pools,     \* status.cpuPools is in PowerNodeState: a pod or a config was written
    seen,      \* [pools, pods] of PowerNodeState in the informer cache of the reconciler
    unaware,   \* history: pods a policy change passed by
    lost,      \* history: pods whose workers nobody stopped when they ended
    unclosed,  \* history: pods whose connection nobody closed when they ended
    edits,
    rec,       \* the pod reconciler: [pc, pod, pol, rest (CPUs), cur (worker)]
    shut,      \* the shutdown: [pc, rest, cur, pods]
    workers,   \* cpuScalingManagerImpl.workers: a worker or NoWorker per CPU
    worker,    \* worker objects: [pc, cpu, opts (loaded), next (stored since), stop,
               \* seen (usage), read (frequency)]
    conns,     \* dpdkTelemetryClientImpl.connections: pods with a connection
    conn,      \* connection objects, one per pod: [pc, stop]
    usage,     \* dpdkTelemetryClientImpl.deltaUsage: per CPU
    freq       \* scaling_setspeed of every CPU

profileVars == <<policy, shared>>
clusterVars == <<profileVars, phase, edits>>
entryVars == <<recorded, pools, seen, unaware, lost, unclosed>>
scalingVars == <<workers, worker>>
telemetryVars == <<conns, conn, usage>>
vars == <<clusterVars, entryVars, queue, rec, shut, scalingVars, telemetryVars, freq>>

NoOpts == [policy |-> NoPolicy, current |-> FrequencyNotYetSet]
NoObject == [pc |-> "none", cpu |-> -1, opts |-> NoOpts, next |-> NoOpts, stop |-> FALSE,
             seen |-> NoUsage, read |-> NoReading]
recIdle == [pc |-> "idle", pod |-> "nil", pol |-> NoPolicy, rest |-> {}, cur |-> NoWorker]

Init ==
    /\ policy \in Policies \cup {NoPolicy} /\ shared = FALSE
    /\ phase = [p \in Pods |-> "none"]
    /\ recorded = {} /\ pools \in BOOLEAN
    /\ seen = [pools |-> pools, pods |-> {}]
    /\ unaware = {} /\ lost = {} /\ unclosed = {}
    /\ queue = {}
    /\ edits = 0
    /\ rec = recIdle
    /\ shut = [pc |-> "no", rest |-> {}, cur |-> NoWorker, pods |-> {}]
    /\ workers = [c \in CPUs |-> NoWorker]
    /\ worker = [w \in Workers |-> NoObject]
    /\ conns = {}
    /\ conn = [p \in Pods |-> [pc |-> "none", stop |-> FALSE]]
    /\ usage = [c \in CPUs |-> NoUsage]
    /\ freq = [c \in CPUs |-> HWMin]

(***************************************************************************)
(* Users and kubelet                                                       *)
(***************************************************************************)
Edit == edits < MaxEdits /\ edits' = edits + 1 /\ shut.pc = "no"

\* The CRD lets users set and change a policy, and refuses to remove one
\* (x-kubernetes-validations of PowerProfileSpec); the webhook lets them make the
\* profile shared, and exclusive again when no PowerNodeConfig uses it.  A new policy
\* has every pod of the node that uses the profile reconciled again, unless the profile
\* is shared now.
ChangePolicy(o, s) ==
    /\ Edit
    /\ <<o, s>> # <<policy, shared>>
    /\ policy' = o /\ shared' = s
    /\ \/ o = policy /\ UNCHANGED <<queue, unaware>>
       \/ /\ o # policy /\ ~s
          /\ queue' = queue \cup {p \in Pods : phase[p] # "none"}
          /\ unaware' = {}
       \/ /\ o # policy /\ s
          /\ UNCHANGED queue
          /\ unaware' = {p \in Pods : phase[p] = "running"}
    /\ UNCHANGED <<phase, recorded, pools, seen, lost, unclosed, rec, shut, scalingVars,
                   telemetryVars, freq>>

\* kubelet gives out the CPUs of an ended pod once its end has been reconciled and the
\* cache shows it.
StartPod(p) ==
    /\ Edit
    /\ phase[p] = "none"
    /\ \A q \in Pods \ {p} :
          podCpus[p] \cap podCpus[q] # {} =>
              \/ phase[q] = "none"
              \/ phase[q] = "done" /\ q \notin queue /\ rec.pod # q /\ q \notin seen.pods
    /\ phase' = [phase EXCEPT ![p] = "running"]
    /\ queue' = queue \cup {p}
    /\ UNCHANGED <<profileVars, entryVars, rec, shut, scalingVars, telemetryVars, freq>>

StopPod(p) ==
    /\ Edit
    /\ phase[p] = "running"
    /\ phase' = [phase EXCEPT ![p] = "done"]
    /\ queue' = queue \cup {p}
    /\ UNCHANGED <<profileVars, entryVars, rec, shut, scalingVars, telemetryVars, freq>>

(***************************************************************************)
(* Worker goroutines: runLoop and Update                                   *)
(***************************************************************************)
Running(w) == worker[w].pc \in {"select", "update", "set"}

\* generateCPUScalingOpts: new options forget the target that is set.
NewOpts(o) == [policy |-> o, current |-> FrequencyNotYetSet]
FallbackFreq(o) == HWMin + ((HWMax - HWMin) * o.fallback) \div 100

\* Mutant of NextFrequency: the quotient upside down.
NextFrequency_Inverse(f, u, o) ==
    LET n == (f * (100 * u + (o.target - u) * o.scale)) \div (100 * u) IN
    IF n < HWMin THEN HWMin ELSE IF n > HWMax THEN HWMax ELSE n

\* Mutant of NextFrequency: no upper limit.
NextFrequency_NoLimit(f, u, o) ==
    LET n == (f * (100 * o.target + (u - o.target) * o.scale)) \div (100 * o.target) IN
    IF n < HWMin THEN HWMin ELSE n

\* f * (1 + (u / target - 1) * scale), cut off to an integer, within the limits.
NextFrequency(f, u, o) ==
    LET n == (f * (100 * o.target + (u - o.target) * o.scale)) \div (100 * o.target) IN
    IF n < HWMin THEN HWMin ELSE IF n > HWMax THEN HWMax ELSE n

frequencyInAllowedDifference(f, s) ==
    /\ s.current # FrequencyNotYetSet
    /\ f \in (s.current - s.policy.allowedFreq)..(s.current + s.policy.allowedFreq)

\* Update is over; the loop loads the options stored last before it waits again.
Loop(w, opts) ==
    worker' = [worker EXCEPT ![w].pc = "select", ![w].seen = NoUsage, ![w].read = NoReading,
                             ![w].next = NoOpts,
                             ![w].opts = IF worker[w].next = NoOpts THEN opts ELSE worker[w].next]

ExitLoop(w) ==
    /\ worker[w].pc = "select" /\ worker[w].stop
    /\ worker' = [worker EXCEPT ![w].pc = "done"]
    /\ UNCHANGED <<clusterVars, entryVars, queue, rec, shut, workers, telemetryVars, freq>>

\* The timer fires; a select with both cases ready takes either.
Sample(w) ==
    /\ worker[w].pc = "select"
    /\ LET u == usage[worker[w].cpu] IN
       worker' = [worker EXCEPT ![w].pc = IF u = NoUsage THEN "set" ELSE "update", ![w].seen = u]
    /\ UNCHANGED <<clusterVars, entryVars, queue, rec, shut, workers, telemetryVars, freq>>

inBand(u, o) == u \in (o.target - o.allowedUsage)..(o.target + o.allowedUsage)

\* A usage out of the allowed band.  The frequency is measured: it need not be the one
\* that was set, nor within the limits.
GetCurrentCPUFrequency(w) ==
    /\ worker[w].pc = "update" /\ ~inBand(worker[w].seen, worker[w].opts.policy)
    /\ \E m \in Readings \cup {NoReading} :
          worker' = [worker EXCEPT ![w].pc = "set", ![w].read = m]
    /\ UNCHANGED <<clusterVars, entryVars, queue, rec, shut, workers, telemetryVars, freq>>

\* The frequency Update asks for: the fallback without a usage or when the
\* current frequency cannot be read.
Wanted(w) ==
    LET r == worker[w] IN
    IF r.seen = NoUsage \/ r.read = NoReading THEN FallbackFreq(r.opts.policy)
    ELSE NextFrequency(r.read, r.seen, r.opts.policy)

\* Usage in the allowed band, or a frequency close to the target that is set.
Hold(w) ==
    LET s == worker[w].opts IN
    /\ \/ worker[w].pc = "update" /\ inBand(worker[w].seen, s.policy)
       \/ worker[w].pc = "set" /\ frequencyInAllowedDifference(Wanted(w), s)
    /\ Loop(w, s)
    /\ UNCHANGED <<clusterVars, entryVars, queue, rec, shut, workers, telemetryVars, freq>>

SetCPUFrequency(c, f) == freq' = [freq EXCEPT ![c] = f]

\* Mutant of Apply: a write that fails replaces the target.
Apply_Unchecked(w) ==
    LET s == worker[w].opts
        f == Wanted(w)
    IN  /\ worker[w].pc = "set" /\ ~frequencyInAllowedDifference(f, s)
        /\ SetCPUFrequency(worker[w].cpu, f) \/ UNCHANGED freq
        /\ Loop(w, [s EXCEPT !.current = f])
        /\ UNCHANGED <<clusterVars, entryVars, queue, rec, shut, workers, telemetryVars>>

\* When the write fails the target is not replaced.
Apply(w) ==
    LET s == worker[w].opts
        f == Wanted(w)
    IN  /\ worker[w].pc = "set" /\ ~frequencyInAllowedDifference(f, s)
        /\ \/ SetCPUFrequency(worker[w].cpu, f) /\ Loop(w, [s EXCEPT !.current = f])
           \/ UNCHANGED freq /\ Loop(w, s)
        /\ UNCHANGED <<clusterVars, entryVars, queue, rec, shut, workers, telemetryVars>>

WorkerStep(w) == ExitLoop(w) \/ Sample(w) \/ GetCurrentCPUFrequency(w) \/ Hold(w) \/ Apply(w)

(***************************************************************************)
(* Connection goroutines: connect, connectLoop, ioLoop, handleUsage        *)
(***************************************************************************)
Cleared(p) == [c \in CPUs |-> IF c \in podCpus[p] THEN NoUsage ELSE usage[c]]

\* The socket accepts; a failed attempt changes nothing.
Connect(p) ==
    /\ conn[p].pc = "dialing"
    /\ conn' = [conn EXCEPT ![p].pc = "reading"]
    /\ UNCHANGED <<clusterVars, entryVars, queue, rec, shut, scalingVars, conns, usage, freq>>

\* handleUsage: a percentage or an error for every watched CPU.
Poll(p) ==
    /\ conn[p].pc = "reading"
    /\ \E r \in [podCpus[p] -> Usages \cup {NoUsage}] :
          usage' = [c \in CPUs |-> IF c \in podCpus[p] THEN r[c] ELSE usage[c]]
    /\ UNCHANGED <<clusterVars, entryVars, queue, rec, shut, scalingVars, conns, conn, freq>>

\* An error of the socket: the metrics are cleared and the loop connects again.
Disconnect(p) ==
    /\ conn[p].pc = "reading"
    /\ conn' = [conn EXCEPT ![p].pc = "dialing"]
    /\ usage' = Cleared(p)
    /\ UNCHANGED <<clusterVars, entryVars, queue, rec, shut, scalingVars, conns, freq>>

\* The context is done: ioLoop ends without an error, connectLoop ends the goroutine.
LeaveLoops(p) ==
    /\ conn[p].pc \in {"reading", "dialing"} /\ conn[p].stop
    /\ conn' = [conn EXCEPT ![p].pc = "done"]
    /\ UNCHANGED <<clusterVars, entryVars, queue, rec, shut, scalingVars, conns, usage, freq>>

ConnStep(p) == Connect(p) \/ Poll(p) \/ Disconnect(p) \/ LeaveLoops(p)

(***************************************************************************)
(* The pod reconciler: the DPDK part of Reconcile.  The moves of CPUs that *)
(* come before it are modelled in PodController.                           *)
(***************************************************************************)
others == <<clusterVars, shut>>

\* Reads the profile; without a policy there is nothing to set up.
BeginPod(p) ==
    /\ rec.pc = "idle" /\ p \in queue /\ phase[p] = "running" /\ shut.pc = "no"
    /\ queue' = queue \ {p}
    /\ rec' = [rec EXCEPT !.pc = IF policy = NoPolicy THEN "record" ELSE "ensure",
                          !.pod = p, !.pol = policy]
    /\ unaware' = unaware \ {p}
    /\ UNCHANGED <<others, recorded, pools, seen, lost, unclosed, scalingVars, telemetryVars, freq>>

EnsureConnection ==
    /\ rec.pc = "ensure"
    /\ conns' = conns \cup {rec.pod}
    /\ conn' = IF rec.pod \in conns THEN conn ELSE [conn EXCEPT ![rec.pod].pc = "dialing"]
    /\ rec' = [rec EXCEPT !.pc = "add", !.rest = podCpus[rec.pod]]
    /\ UNCHANGED <<others, entryVars, queue, scalingVars, usage, freq>>

\* Mutant of AddCPUScaling: the worker of the CPU keeps the options it has.
AddCPUScaling_KeepsOpts(c) ==
    /\ rec.pc = "add" /\ c \in rec.rest
    /\ rec' = [rec EXCEPT !.rest = @ \ {c}]
    /\ IF workers[c] # NoWorker THEN UNCHANGED scalingVars
       ELSE \E w \in Workers :
              /\ worker[w].pc = "none"
              /\ worker' = [worker EXCEPT ![w] =
                    [NoObject EXCEPT !.pc = "select", !.cpu = c, !.opts = NewOpts(rec.pol)]]
              /\ workers' = [workers EXCEPT ![c] = w]
    /\ UNCHANGED <<others, entryVars, queue, telemetryVars, freq>>

\* Mutant of AddCPUScaling: always starts a worker.
AddCPUScaling_AlwaysStarts(c) ==
    /\ rec.pc = "add" /\ c \in rec.rest
    /\ \E w \in Workers :
          /\ worker[w].pc = "none"
          /\ worker' = [worker EXCEPT ![w] =
                [NoObject EXCEPT !.pc = "select", !.cpu = c, !.opts = NewOpts(rec.pol)]]
          /\ rec' = [rec EXCEPT !.pc = "store", !.cur = w]
    /\ UNCHANGED <<others, entryVars, queue, workers, telemetryVars, freq>>

\* Load; a worker there is gets new options, or else the CPU needs one.
AddCPUScaling(c) ==
    /\ rec.pc = "add" /\ c \in rec.rest
    /\ IF workers[c] # NoWorker
       THEN /\ worker' = [worker EXCEPT ![workers[c]].next = NewOpts(rec.pol)]
            /\ rec' = [rec EXCEPT !.rest = @ \ {c}]
       ELSE \E w \in Workers :
              /\ worker[w].pc = "none"
              /\ worker' = [worker EXCEPT ![w] =
                    [NoObject EXCEPT !.pc = "select", !.cpu = c, !.opts = NewOpts(rec.pol)]]
              /\ rec' = [rec EXCEPT !.pc = "store", !.cur = w]
    /\ UNCHANGED <<others, entryVars, queue, workers, telemetryVars, freq>>

\* The new worker runs already when it is stored.
StoreWorker ==
    /\ rec.pc = "store"
    /\ workers' = [workers EXCEPT ![worker[rec.cur].cpu] = rec.cur]
    /\ rec' = [rec EXCEPT !.pc = "add", !.rest = @ \ {worker[rec.cur].cpu}, !.cur = NoWorker]
    /\ UNCHANGED <<others, entryVars, queue, worker, telemetryVars, freq>>

\* The entry in PowerNodeState; an error of the write is retried.
RecordPod ==
    /\ rec.pc = "record" \/ (rec.pc = "add" /\ rec.rest = {})
    /\ \/ recorded' = recorded \cup {rec.pod} /\ pools' = TRUE /\ UNCHANGED queue
       \/ UNCHANGED <<recorded, pools>> /\ queue' = queue \cup {rec.pod}
    /\ rec' = recIdle
    /\ UNCHANGED <<others, seen, unaware, lost, unclosed, scalingVars, telemetryVars, freq>>

\* An update of PowerNodeState gets to the cache.
CatchUp ==
    /\ seen # [pools |-> pools, pods |-> recorded]
    /\ seen' = [pools |-> pools, pods |-> recorded]
    /\ UNCHANGED <<clusterVars, recorded, pools, unaware, lost, unclosed, queue, rec, shut,
                   scalingVars, telemetryVars, freq>>

(***************************************************************************)
(* The DPDK part of handlePodDeletion                                      *)
(***************************************************************************)

\* The running pods on a CPU.
user(c) == {p \in Pods : phase[p] = "running" /\ c \in podCpus[p]}

\* A pod whose end is looked at without an entry, while workers scale its CPUs.
Forgotten(p) ==
    {q \in {p} \ seen.pods : \E c \in podCpus[q] : workers[c] # NoWorker /\ user(c) = {}}

forgetting(p) ==
    /\ lost' = (lost \ ({p} \cap seen.pods)) \cup Forgotten(p)
    /\ unclosed' = IF seen.pools THEN unclosed \ {p} ELSE unclosed \cup ({p} \cap conns)
    /\ UNCHANGED <<recorded, pools, seen, unaware>>

\* Mutant of BeginEnd: looks for the CPUs after the entry is gone.
BeginEnd_NoCpus(p) ==
    /\ rec.pc = "idle" /\ p \in queue /\ phase[p] = "done" /\ shut.pc = "no"
    /\ queue' = queue \ {p}
    /\ rec' = [rec EXCEPT !.pc = IF seen.pools THEN "close" ELSE "remove", !.pod = p]
    /\ forgetting(p)
    /\ UNCHANGED <<others, scalingVars, telemetryVars, freq>>

\* The entry of the pod in the cache names the CPUs; without a PowerNodeState or pools
\* in it neither the connection nor the workers are looked for.
BeginEnd(p) ==
    /\ rec.pc = "idle" /\ p \in queue /\ phase[p] = "done" /\ shut.pc = "no"
    /\ queue' = queue \ {p}
    /\ rec' = [rec EXCEPT !.pc = IF seen.pools THEN "close" ELSE "remove", !.pod = p,
                          !.rest = IF p \in seen.pods THEN podCpus[p] ELSE {}]
    /\ forgetting(p)
    /\ UNCHANGED <<others, scalingVars, telemetryVars, freq>>

CloseConnection ==
    /\ rec.pc = "close"
    /\ conns' = conns \ {rec.pod}
    /\ IF rec.pod \in conns
       THEN /\ conn' = [conn EXCEPT ![rec.pod].stop = TRUE]
            /\ rec' = [rec EXCEPT !.pc = "closing"]
       ELSE /\ UNCHANGED conn
            /\ rec' = [rec EXCEPT !.pc = "remove"]
    /\ UNCHANGED <<others, entryVars, queue, scalingVars, usage, freq>>

\* Mutant of ClearMetrics: does not wait for the goroutine.
ClearMetrics_NoWait ==
    /\ rec.pc = "closing"
    /\ usage' = Cleared(rec.pod)
    /\ rec' = [rec EXCEPT !.pc = "remove"]
    /\ UNCHANGED <<others, entryVars, queue, scalingVars, conns, conn, freq>>

\* close: the goroutine has ended, then its metrics go.
ClearMetrics ==
    /\ rec.pc = "closing" /\ conn[rec.pod].pc = "done"
    /\ usage' = Cleared(rec.pod)
    /\ rec' = [rec EXCEPT !.pc = "remove"]
    /\ UNCHANGED <<others, entryVars, queue, scalingVars, conns, conn, freq>>

\* Mutant of RemoveCPUScaling: waits for the goroutine without cancelling its context.
RemoveCPUScaling_NoCancel(c) ==
    /\ rec.pc = "remove" /\ c \in rec.rest
    /\ workers' = [workers EXCEPT ![c] = NoWorker]
    /\ rec' = IF workers[c] = NoWorker THEN [rec EXCEPT !.rest = @ \ {c}]
              ELSE [rec EXCEPT !.pc = "stopping", !.rest = @ \ {c}, !.cur = workers[c]]
    /\ UNCHANGED <<others, entryVars, queue, worker, telemetryVars, freq>>

RemoveCPUScaling(c) ==
    /\ rec.pc = "remove" /\ c \in rec.rest
    /\ IF workers[c] = NoWorker
       THEN /\ rec' = [rec EXCEPT !.rest = @ \ {c}]
            /\ UNCHANGED scalingVars
       ELSE /\ rec' = [rec EXCEPT !.pc = "stopping", !.rest = @ \ {c}, !.cur = workers[c]]
            /\ worker' = [worker EXCEPT ![workers[c]].stop = TRUE]
            /\ workers' = [workers EXCEPT ![c] = NoWorker]
    /\ UNCHANGED <<others, entryVars, queue, telemetryVars, freq>>

\* Mutant of StopWorker: cancels the context and goes on.
StopWorker_NoWait ==
    /\ rec.pc = "stopping"
    /\ rec' = [rec EXCEPT !.pc = "remove", !.cur = NoWorker]
    /\ UNCHANGED <<others, entryVars, queue, scalingVars, telemetryVars, freq>>

\* Stop returns when the goroutine has ended.
StopWorker ==
    /\ rec.pc = "stopping" /\ worker[rec.cur].pc = "done"
    /\ worker' = [worker EXCEPT ![rec.cur] = NoObject]
    /\ rec' = [rec EXCEPT !.pc = "remove", !.cur = NoWorker]
    /\ UNCHANGED <<others, entryVars, queue, workers, telemetryVars, freq>>

\* removePowerNodeStatusExclusiveEntry; an error of the write is retried.
ForgetPod ==
    /\ rec.pc = "remove" /\ rec.rest = {}
    /\ \/ recorded' = recorded \ {rec.pod} /\ pools' = TRUE /\ UNCHANGED queue
       \/ UNCHANGED <<recorded, pools>> /\ queue' = queue \cup {rec.pod}
    /\ rec' = recIdle
    /\ UNCHANGED <<others, seen, unaware, lost, unclosed, scalingVars, telemetryVars, freq>>

RecStep ==
    \/ \E p \in Pods : BeginPod(p) \/ BeginEnd(p)
    \/ EnsureConnection \/ StoreWorker \/ RecordPod
    \/ \E c \in CPUs : AddCPUScaling(c) \/ RemoveCPUScaling(c)
    \/ CloseConnection \/ ClearMetrics \/ StopWorker \/ ForgetPod

(***************************************************************************)
(* Shutdown: Start stops the workers it finds while a reconcile may still  *)
(* be under way; when both have ended main closes the telemetry client.    *)
(***************************************************************************)
callers == <<clusterVars, entryVars, queue, rec>>

Signal ==
    /\ shut.pc = "no"
    /\ shut' = [shut EXCEPT !.pc = "stop", !.rest = {c \in CPUs : workers[c] # NoWorker}]
    /\ UNCHANGED <<callers, scalingVars, telemetryVars, freq>>

StopManaged(c) ==
    /\ shut.pc = "stop" /\ c \in shut.rest
    /\ IF workers[c] = NoWorker
       THEN /\ shut' = [shut EXCEPT !.rest = @ \ {c}]
            /\ UNCHANGED scalingVars
       ELSE /\ shut' = [shut EXCEPT !.pc = "wait", !.rest = @ \ {c}, !.cur = workers[c]]
            /\ worker' = [worker EXCEPT ![workers[c]].stop = TRUE]
            /\ workers' = [workers EXCEPT ![c] = NoWorker]
    /\ UNCHANGED <<callers, telemetryVars, freq>>

StopManagedWait ==
    /\ shut.pc = "wait" /\ worker[shut.cur].pc = "done"
    /\ worker' = [worker EXCEPT ![shut.cur] = NoObject]
    /\ shut' = [shut EXCEPT !.pc = "stop", !.cur = NoWorker]
    /\ UNCHANGED <<callers, workers, telemetryVars, freq>>

ManagerReturns ==
    /\ shut.pc = "stop" /\ shut.rest = {} /\ rec.pc = "idle"
    /\ shut' = [shut EXCEPT !.pc = "close", !.pods = conns]
    /\ UNCHANGED <<callers, scalingVars, telemetryVars, freq>>

\* Close, one connection after the other: cancel, wait, clear, delete.
CancelOne(p) ==
    /\ shut.pc = "close" /\ p \in shut.pods
    /\ \A q \in shut.pods : ~conn[q].stop
    /\ conn' = [conn EXCEPT ![p].stop = TRUE]
    /\ UNCHANGED <<callers, shut, scalingVars, conns, usage, freq>>

CloseOne(p) ==
    /\ shut.pc = "close" /\ p \in shut.pods /\ conn[p].pc = "done"
    /\ usage' = Cleared(p)
    /\ conns' = conns \ {p}
    /\ shut' = [shut EXCEPT !.pods = @ \ {p}]
    /\ UNCHANGED <<callers, scalingVars, conn, freq>>

Exit ==
    /\ shut.pc = "close" /\ shut.pods = {}
    /\ shut' = [shut EXCEPT !.pc = "exited"]
    /\ UNCHANGED <<callers, scalingVars, telemetryVars, freq>>

ShutStep ==
    \/ \E c \in CPUs : StopManaged(c)
    \/ \E p \in Pods : CancelOne(p) \/ CloseOne(p)
    \/ StopManagedWait \/ ManagerReturns \/ Exit

Quiet == queue = {} /\ rec.pc = "idle" /\ shut.pc = "no"

\* Nothing is left to do, or the process has ended.
Rest == Quiet /\ UNCHANGED vars
Ended == shut.pc = "exited" /\ UNCHANGED vars

Live == shut.pc # "exited"

Next ==
    \/ Live /\ \E w \in Workers : WorkerStep(w)
    \/ Live /\ \E p \in Pods : ConnStep(p)
    \/ RecStep \/ ShutStep \/ Signal
    \/ Live /\ CatchUp
    \/ \E o \in Policies \cup {policy}, s \in BOOLEAN : ChangePolicy(o, s)
    \/ \E p \in Pods : StartPod(p) \/ StopPod(p)
    \/ Rest \/ Ended

Spec == Init /\ [][Next]_vars

\* Goroutines are scheduled; a loop whose context is done leaves it at one of its
\* next selects, whose other case needs a timer that has just been set.
Fairness ==
    /\ WF_vars(RecStep)
    /\ WF_vars(ShutStep)
    /\ \A w \in Workers : WF_vars(WorkerStep(w)) /\ SF_vars(ExitLoop(w))
    /\ \A p \in Pods : SF_vars(LeaveLoops(p))
FairSpec == Spec /\ Fairness

-----------------------------------------------------------------------------
OptsType == [policy: Policies \cup {NoPolicy}, current: Frequencies \cup {FrequencyNotYetSet}]
WorkerType ==
    [pc: {"none", "select", "update", "set", "done"}, cpu: CPUs \cup {-1}, opts: OptsType,
     next: OptsType, stop: BOOLEAN, seen: Usages \cup {NoUsage}, read: Readings \cup {NoReading}]
ConnType == [pc: {"none", "dialing", "reading", "done"}, stop: BOOLEAN]
RecStates == {"idle", "record", "ensure", "add", "store", "close", "closing", "remove", "stopping"}
RecType ==
    [pc: RecStates, pod: Pods \cup {"nil"}, pol: Policies \cup {NoPolicy}, rest: SUBSET CPUs,
     cur: Workers \cup {NoWorker}]
ShutType ==
    [pc: {"no", "stop", "wait", "close", "exited"}, rest: SUBSET CPUs,
     cur: Workers \cup {NoWorker}, pods: SUBSET Pods]

TypeOK ==
    /\ policy \in Policies \cup {NoPolicy} /\ shared \in BOOLEAN
    /\ phase \in [Pods -> {"none", "running", "done"}]
    /\ recorded \subseteq Pods /\ queue \subseteq Pods
    /\ pools \in BOOLEAN /\ seen \in [pools: BOOLEAN, pods: SUBSET Pods]
    /\ unaware \subseteq Pods /\ lost \subseteq Pods /\ unclosed \subseteq Pods
    /\ rec \in RecType /\ shut \in ShutType
    /\ workers \in [CPUs -> Workers \cup {NoWorker}]
    /\ worker \in [Workers -> WorkerType]
    /\ conns \subseteq Pods
    /\ conn \in [Pods -> ConnType]
    /\ usage \in [CPUs -> Usages \cup {NoUsage}]
    /\ freq \in [CPUs -> Frequencies]

\* A goroutine that may still write a frequency is never out of reach: the manager
\* has it under its CPU, or a caller is storing it or waits in Stop for its end.
\* So when RemoveCPUScaling returns nobody touches the CPU any more.
NoOrphans ==
    \A w \in Workers : Running(w) => w \in {workers[worker[w].cpu], rec.cur, shut.cur}

\* Until the agent shuts down, no two workers drive one CPU.
OneWorkerPerCpu ==
    shut.pc = "no" =>
        \A v, w \in Workers : Running(v) /\ Running(w) /\ worker[v].cpu = worker[w].cpu => v = w

scaledPolicy(c) ==
    LET w == worker[workers[c]] IN IF w.next = NoOpts THEN w.opts.policy ELSE w.next.policy

\* When the reconciler rests and the profile has a policy, the CPUs of every running
\* pod have a worker with that policy, and the pod a connection; except for the pods
\* that ran when the policy changed of a profile that is shared, whom nothing wakes.
PodsScaled ==
    Quiet /\ policy # NoPolicy =>
        \A p \in Pods : phase[p] = "running" /\ p \notin unaware =>
            /\ p \in conns
            /\ \A c \in podCpus[p] : workers[c] # NoWorker /\ scaledPolicy(c) = policy

\* When the reconciler rests, an ended pod has no connection and no worker: except for
\* a connection when PowerNodeState had no pools in the cache as its end was looked at,
\* and for workers when it did not have the pod's entry.
EndedPodsUnscaled ==
    Quiet =>
        \A p \in Pods : phase[p] = "done" =>
            /\ p \in conns => p \in unclosed
            /\ \A c \in podCpus[p] : workers[c] # NoWorker =>
                  user(c) # {} \/ \E q \in lost : c \in podCpus[q]

\* A usage that workers act on comes from a connection that is being read, or that is
\* just being closed; what an ended pod or a lost socket reported is gone.
UsageIsLive ==
    \A c \in CPUs : usage[c] # NoUsage =>
        \E p \in Pods :
            /\ c \in podCpus[p]
            /\ \/ conn[p].pc = "reading"
               \/ conn[p].pc = "done" /\ ((rec.pc = "closing" /\ rec.pod = p) \/ p \in shut.pods)

\* What Update compares a new frequency with is the frequency that is set: until the
\* shutdown, through new options, failed writes and the workers of one CPU after the
\* other, no write is left out because of a target that is not in force.
TargetInForce ==
    shut.pc = "no" =>
        \A w \in Workers : Running(w) /\ worker[w].opts.current # FrequencyNotYetSet =>
            worker[w].opts.current = freq[worker[w].cpu]

\* With a usage and a reading, a write takes the CPU from the frequency that was read
\* towards the usage that was asked for, as far as the limits allow; it sets the
\* fallback otherwise.
ScalesTowardsTarget ==
    [][\A w \in Workers :
          LET c == worker[w].cpu
              o == worker[w].opts.policy
              u == worker[w].seen
              m == worker[w].read
          IN  worker[w].pc = "set" /\ worker'[w].pc # "set" /\ freq'[c] # freq[c] =>
                  IF u = NoUsage \/ m = NoReading THEN freq'[c] = FallbackFreq(o)
                  ELSE \/ u > o.target /\ (freq'[c] >= m \/ freq'[c] = HWMax)
                       \/ u < o.target /\ (freq'[c] <= m \/ freq'[c] = HWMin)]_vars

\* The reconcile of a pod that ended, which waits in Stop and in close for goroutines
\* that may sleep, sample or poll, ends; so does the shutdown, which waits for the
\* reconcile under way and for all of them.
StopsReturn ==
    /\ rec.pc \in {"close", "closing", "remove", "stopping"} ~> rec.pc = "idle"
    /\ shut.pc # "no" ~> shut.pc = "exited"


-----------------------------------------------------------------------------
(***************************************************************************)
(* The inductive invariant behind the invariants above: what the callers   *)
(* hold while they are between two steps, and who answers for every worker *)
(* and every connection.                                                   *)
(***************************************************************************)
Setup == {"record", "ensure", "add", "store"}
Ending == {"close", "closing", "remove", "stopping"}

\* A reconcile under way is about a pod and CPUs of that pod, with a policy while it
\* sets one up.
ReconcileKnowsPod ==
    /\ rec.pc = "idle" => rec.rest = {}
    /\ rec.pc # "idle" => rec.pod \in Pods /\ rec.rest \subseteq podCpus[rec.pod]
    /\ rec.pc \in {"ensure", "add", "store"} => rec.pol \in Policies
    /\ rec.pc \in Ending => phase[rec.pod] = "done"
    /\ rec.pc \in Setup =>
          phase[rec.pod] = "running" \/ (phase[rec.pod] = "done" /\ rec.pod \in queue)

\* A worker the manager has runs, for its CPU, and nobody waits for its end.
ManagedRuns ==
    \A c \in CPUs : workers[c] # NoWorker =>
        /\ worker[workers[c]].cpu = c /\ Running(workers[c]) /\ ~worker[workers[c]].stop
        /\ workers[c] \notin {rec.cur, shut.cur}

\* The workers that callers hold: not in the manager's map, and no two callers have one.
CallersHold ==
    /\ rec.pc \in {"store", "stopping"} <=> rec.cur # NoWorker
    /\ shut.pc = "wait" <=> shut.cur # NoWorker
    /\ \A w \in {rec.cur, shut.cur} \ {NoWorker} : worker[w].pc # "none"
    /\ rec.cur # NoWorker => rec.cur # shut.cur /\ workers[worker[rec.cur].cpu] = NoWorker
    /\ rec.pc = "store" =>
          /\ Running(rec.cur) /\ ~worker[rec.cur].stop
          /\ worker[rec.cur].cpu \in rec.rest
          /\ worker[rec.cur].opts.policy = rec.pol /\ worker[rec.cur].next = NoOpts

\* Every worker that was started has its CPU and a policy, and is in reach.
WorkersInReach ==
    \A w \in Workers : worker[w].pc # "none" =>
        /\ worker[w].cpu \in CPUs /\ worker[w].opts.policy \in Policies
        /\ worker[w].next = NoOpts \/ worker[w].next.policy \in Policies
        /\ w \in {workers[worker[w].cpu], rec.cur, shut.cur}

\* When main closes the telemetry client no reconcile is under way.
ClosingAlone ==
    /\ shut.pc \in {"close", "exited"} => rec.pc = "idle"
    /\ shut.pods # {} => shut.pc = "close"

\* A goroutine reads for a connection the client has or is closing; it is told to end
\* only by the one that waits for it, and the pod's next connection is not.
ConnectionsOwned ==
    /\ \A p \in Pods : conn[p].pc \in {"dialing", "reading"} =>
          /\ p \in conns \/ (rec.pc = "closing" /\ rec.pod = p)
          /\ conn[p].stop => (rec.pc = "closing" /\ rec.pod = p) \/ p \in shut.pods
    /\ \A p \in Pods : conn[p].stop => phase[p] = "done" \/ shut.pc \in {"close", "exited"}
    /\ rec.pc \in Setup => ~conn[rec.pod].stop

\* The pods a running pod shares CPUs with are out of the way: not started, or ended
\* and reconciled, so that a further reconcile of them finds no entry.
CpusHandedOver ==
    \A p, q \in Pods : p # q /\ phase[p] = "running" /\ podCpus[p] \cap podCpus[q] # {} =>
        \/ phase[q] = "none"
        \/ /\ phase[q] = "done" /\ q \notin recorded \cup seen.pods
           /\ rec.pc # "idle" /\ rec.pod = q => rec.rest = {} /\ rec.pc \in {"close", "closing", "remove"}

\* An ended pod that is not queued has been forgotten or is being so.
EndedReconciled ==
    shut.pc = "no" => \A p \in Pods : phase[p] = "done" /\ p \notin queue =>
        /\ p \in recorded => rec.pc \in Ending /\ rec.pod = p
        /\ p \in conns => p \in unclosed \/ (rec.pc = "close" /\ rec.pod = p)

Scaled(c) == workers[c] # NoWorker /\ scaledPolicy(c) = policy

\* A running pod that is not queued is scaled with the policy of the profile, as far as
\* the reconcile under way, if it is about this pod, has got.
ScaledSoFar ==
    shut.pc = "no" /\ policy # NoPolicy =>
        \A p \in Pods : phase[p] = "running" /\ p \notin queue \cup unaware =>
            IF rec.pc # "idle" /\ rec.pod = p
            THEN /\ rec.pc \in {"ensure", "add", "store"} /\ rec.pol = policy
                 /\ rec.pc \in {"add", "store"} =>
                       p \in conns /\ \A c \in podCpus[p] \ rec.rest : Scaled(c)
            ELSE p \in conns /\ \A c \in podCpus[p] : Scaled(c)

\* Every worker of the manager has a pod that runs, or whose end will be or is being
\* reconciled, or that was lost.
WorkersAccountedFor ==
    shut.pc = "no" => \A c \in CPUs : workers[c] # NoWorker =>
        \E p \in Pods :
            /\ c \in podCpus[p]
            /\ \/ phase[p] = "running" \/ p \in lost
               \/ phase[p] = "done" /\ p \in queue
               \/ rec.pc \in Ending /\ rec.pod = p /\ c \in rec.rest

\* What a worker has read is what its step needs; options stored for it have no target.
WorkersReadOnce ==
    \A w \in Workers :
        /\ worker[w].next.current = FrequencyNotYetSet
        /\ worker[w].pc = "update" => worker[w].seen # NoUsage
        /\ worker[w].pc = "set" /\ worker[w].seen # NoUsage /\ worker[w].read # NoReading =>
              ~inBand(worker[w].seen, worker[w].opts.policy)

IInv ==
    /\ TypeOK /\ ReconcileKnowsPod /\ ManagedRuns /\ CallersHold /\ WorkersInReach
    /\ ClosingAlone /\ ConnectionsOwned /\ UsageIsLive
    /\ CpusHandedOver /\ EndedReconciled /\ ScaledSoFar /\ WorkersAccountedFor
    /\ WorkersReadOnce /\ TargetInForce

=============================================================================
