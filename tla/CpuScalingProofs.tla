-------------------------- MODULE CpuScalingProofs --------------------------
(***************************************************************************)
(* CpuScaling for every number of pods, CPUs and workers, every set of     *)
(* policies and every range of frequencies.                                *)
(***************************************************************************)
EXTENDS CpuScaling, TLAPS

USE WorkersAssumption

-----------------------------------------------------------------------------
(***************************************************************************)
(* Arithmetic of the updater                                               *)
(***************************************************************************)

\* A part of a range, in percent, is within the range.
LEMMA PercentOfRange ==
    ASSUME NEW d \in Nat, NEW k \in 0..100
    PROVE  (d * k) \div 100 \in 0..d
<1> DEFINE a == d * k
<1>1. a \in Int /\ a >= 0 /\ a <= d * 100
  OBVIOUS
<1> HIDE DEF a
<1>2. a \div 100 \in 0..d
  BY <1>1
<1> QED
  BY <1>2 DEF a

\* What the integer division does, as far as comparisons go.
LEMMA DivBounds ==
    ASSUME NEW a \in Int, NEW f \in Int, NEW b \in Nat \ {0}
    PROVE  /\ a \div b \in Int
           /\ a >= f * b => a \div b >= f
           /\ a <= f * b => a \div b <= f
<1>1. a \div b \in Int /\ a = b * (a \div b) + (a % b) /\ a % b \in 0..(b - 1)
  OBVIOUS
<1> DEFINE q == a \div b
           r == a % b
<1>2. q \in Int /\ r \in 0..(b - 1) /\ a = b * q + r
  BY <1>1
<1> HIDE DEF q, r
<1>3. ASSUME a >= f * b, q < f PROVE FALSE
  <2>1. q + 1 <= f
    BY <1>2, <1>3
  <2>2. b * (q + 1) <= b * f
    BY <2>1, <1>2
  <2>3. b * (q + 1) = b * q + b
    BY <1>2
  <2> QED
    BY <1>2, <1>3, <2>2, <2>3
<1>4. ASSUME a <= f * b, q > f PROVE FALSE
  <2>1. b * (f + 1) <= b * q
    BY <1>2, <1>4
  <2>2. b * (f + 1) = b * f + b
    OBVIOUS
  <2> QED
    BY <1>2, <1>4, <2>1, <2>2
<1> QED
  BY <1>2, <1>3, <1>4 DEF q

LEMMA FallbackInLimits ==
    ASSUME NEW o \in Policies
    PROVE  FallbackFreq(o) \in Frequencies
<1>1. HWMin \in Nat /\ HWMax - HWMin \in Nat /\ o.fallback \in 0..100
  BY FrequencyAssumption, PoliciesAssumption
<1>2. ((HWMax - HWMin) * o.fallback) \div 100 \in 0..(HWMax - HWMin)
  BY <1>1, PercentOfRange
<1> QED
  BY <1>1, <1>2, FrequencyAssumption DEF FallbackFreq, Frequencies

\* The next frequency is within the limits and, as far as they allow, on the side of
\* the measured one that the usage calls for.
LEMMA NextFrequencyMoves ==
    ASSUME NEW f \in Nat, NEW u \in Usages, NEW o \in Policies
    PROVE  /\ NextFrequency(f, u, o) \in Frequencies
           /\ u > o.target => NextFrequency(f, u, o) >= f \/ NextFrequency(f, u, o) = HWMax
           /\ u < o.target => NextFrequency(f, u, o) <= f \/ NextFrequency(f, u, o) = HWMin
<1> DEFINE t == o.target
           s == o.scale
           a == f * (100 * t + (u - t) * s)
           n == a \div (100 * t)
<1>1. t \in 1..100 /\ s \in 10..200 /\ u \in 0..100 /\ HWMin \in Nat /\ HWMax \in Nat
  BY FrequencyAssumption, UsagesAssumption, PoliciesAssumption
<1> HIDE DEF t, s
<1>2. (u - t) * s \in Int
  BY <1>1
<1>3. a \in Int /\ 100 * t \in Nat \ {0}
  BY <1>1, <1>2
<1>4. u > t => a >= f * (100 * t)
  <2> HAVE u > t
  <2>1. (u - t) * s >= 0
    BY <1>1
  <2> QED
    BY <1>1, <1>2, <2>1
<1>5. u < t => a <= f * (100 * t)
  <2> HAVE u < t
  <2>1. (u - t) * s <= 0
    BY <1>1
  <2> QED
    BY <1>1, <1>2, <2>1
<1> HIDE DEF a
<1>6. n \in Int /\ (u > t => n >= f) /\ (u < t => n <= f)
  BY <1>1, <1>3, <1>4, <1>5, DivBounds
<1> HIDE DEF n
<1>7. NextFrequency(f, u, o) = IF n < HWMin THEN HWMin ELSE IF n > HWMax THEN HWMax ELSE n
  BY DEF NextFrequency, n, a, t, s
<1> QED
  BY <1>1, <1>6, <1>7, FrequencyAssumption DEF Frequencies, t

-----------------------------------------------------------------------------
(***************************************************************************)
(* What the goroutines leave alone.  Steps of workers and of connections   *)
(* are many; the invariants need to know little of them.                   *)
(***************************************************************************)
LEMMA NoPolicyIsNone == NoPolicy \notin Policies
  BY PoliciesAssumption DEF NoPolicy

\* The policy a worker will follow: that of the options stored last.
effective(r) == IF r.next = NoOpts THEN r.opts.policy ELSE r.next.policy

\* The worker a loop ends with.
LEMMA LoopEffect ==
    ASSUME TypeOK, NEW w \in Workers, NEW opts \in OptsType, Loop(w, opts),
           opts.policy = worker[w].opts.policy
    PROVE  /\ worker' \in [Workers -> WorkerType]
           /\ \A v \in Workers : v # w => worker'[v] = worker[v]
           /\ worker'[w].cpu = worker[w].cpu /\ worker'[w].stop = worker[w].stop
           /\ worker'[w].pc = "select" /\ worker'[w].read = NoReading
           /\ effective(worker'[w]) = effective(worker[w])
           /\ worker'[w].next = NoOpts
           /\ worker'[w].opts = IF worker[w].next = NoOpts THEN opts ELSE worker[w].next
<1>1. worker[w] \in WorkerType /\ NoOpts \in OptsType /\ NoUsage \in Usages \cup {NoUsage}
  BY DEF TypeOK, NoOpts, OptsType
<1> DEFINE r == worker[w]
           new == IF r.next = NoOpts THEN opts ELSE r.next
           end == [r EXCEPT !.pc = "select", !.seen = NoUsage, !.read = NoReading,
                            !.next = NoOpts, !.opts = new]
<1>2. new \in OptsType
  BY <1>1 DEF WorkerType
<1>3. worker' = [worker EXCEPT ![w] = end]
  BY DEF Loop, TypeOK
<1>4. worker'[w] = end
  BY <1>3 DEF TypeOK
<1>5. worker'[w] \in WorkerType
  BY <1>1, <1>2, <1>4 DEF WorkerType
<1> QED
  BY <1>1, <1>2, <1>3, <1>4, <1>5 DEF TypeOK, WorkerType, effective

\* A worker in its loop stays in reach: it keeps its CPU, ends only when told to, and
\* follows the options stored last; the frequencies stay within the limits.
LEMMA WorkerEffect ==
    ASSUME TypeOK, WorkersInReach, NEW w \in Workers, WorkerStep(w)
    PROVE  /\ worker' \in [Workers -> WorkerType] /\ freq' \in [CPUs -> Frequencies]
           /\ \A v \in Workers : v # w => worker'[v] = worker[v]
           /\ worker'[w].cpu = worker[w].cpu /\ worker'[w].stop = worker[w].stop
           /\ worker[w].pc \in {"select", "update", "set"}
           /\ \/ worker'[w].pc \in {"select", "update", "set"}
              \/ worker'[w].pc = "done" /\ worker[w].stop
           /\ effective(worker'[w]) = effective(worker[w])
           /\ \/ worker'[w].next = worker[w].next /\ worker'[w].opts = worker[w].opts
              \/ worker'[w].next = NoOpts
           /\ UNCHANGED <<clusterVars, entryVars, queue, rec, shut, workers, telemetryVars>>
<1>1. worker[w] \in WorkerType /\ worker \in [Workers -> WorkerType] /\ freq \in [CPUs -> Frequencies]
  BY DEF TypeOK
<1>2. worker[w].opts \in OptsType /\ worker[w].seen \in Usages \cup {NoUsage}
  BY <1>1 DEF WorkerType
<1>3. CASE ExitLoop(w)
  <2>1. worker'[w] = [worker[w] EXCEPT !.pc = "done"]
    BY <1>1, <1>3 DEF ExitLoop
  <2>2. worker'[w] \in WorkerType
    BY <1>1, <2>1 DEF WorkerType
  <2> QED
    BY <1>1, <1>3, <2>1, <2>2 DEF ExitLoop, WorkerType, effective
<1>4. CASE Sample(w)
  <2>1. worker[w].cpu \in CPUs
    BY <1>4 DEF WorkersInReach, Sample
  <2>2. usage[worker[w].cpu] \in Usages \cup {NoUsage}
    BY <2>1 DEF TypeOK
  <2>3. worker'[w] = [worker[w] EXCEPT !.pc = IF usage[worker[w].cpu] = NoUsage THEN "set" ELSE "update",
                                       !.seen = usage[worker[w].cpu]]
    BY <1>1, <1>4 DEF Sample
  <2>4. worker'[w] \in WorkerType
    BY <1>1, <2>2, <2>3 DEF WorkerType
  <2> QED
    BY <1>1, <1>4, <2>3, <2>4 DEF Sample, WorkerType, effective
<1>m. CASE GetCurrentCPUFrequency(w)
  <2>1. PICK m \in Readings \cup {NoReading} : worker' = [worker EXCEPT ![w].pc = "set", ![w].read = m]
    BY <1>m DEF GetCurrentCPUFrequency
  <2>2. worker'[w] = [worker[w] EXCEPT !.pc = "set", !.read = m]
    BY <1>1, <2>1
  <2>3. worker'[w] \in WorkerType
    BY <1>1, <2>2 DEF WorkerType
  <2> QED
    BY <1>1, <1>m, <2>1, <2>2, <2>3 DEF GetCurrentCPUFrequency, WorkerType, effective
<1>5. CASE Hold(w)
  <2>1. Loop(w, worker[w].opts) /\ worker[w].pc \in {"update", "set"}
    BY <1>5 DEF Hold
  <2> QED
    BY <1>1, <1>2, <1>5, <2>1, LoopEffect DEF Hold
<1>6. ASSUME Apply(w)
      PROVE  /\ freq' \in [CPUs -> Frequencies]
             /\ \E opts \in OptsType : opts.policy = worker[w].opts.policy /\ Loop(w, opts)
  <2> DEFINE s == worker[w].opts
             f == Wanted(w)
  <2>1. worker[w].cpu \in CPUs /\ s.policy \in Policies
    BY <1>6 DEF WorkersInReach, Apply
  <2>2. f \in Frequencies
    <3>1. CASE f = FallbackFreq(s.policy)
      BY <2>1, <3>1, FallbackInLimits
    <3>2. CASE f # FallbackFreq(s.policy)
      <4>1. /\ worker[w].seen \in Usages /\ worker[w].read \in Readings
            /\ f = NextFrequency(worker[w].read, worker[w].seen, s.policy)
        BY <1>1, <1>2, <1>6, <3>2 DEF Wanted, WorkerType
      <4> QED
        BY <2>1, <4>1, NextFrequencyMoves, ReadingsAssumption
    <3> QED
      BY <3>1, <3>2
  <2> HIDE DEF f
  <2>3. [s EXCEPT !.current = f] \in OptsType /\ [s EXCEPT !.current = f].policy = s.policy
    BY <1>2, <2>2 DEF OptsType
  <2>4. CASE SetCPUFrequency(worker[w].cpu, f) /\ Loop(w, [s EXCEPT !.current = f])
    <3>1. freq' \in [CPUs -> Frequencies]
      BY <1>1, <2>2, <2>4 DEF SetCPUFrequency
    <3> QED
      BY <2>3, <2>4, <3>1
  <2>5. CASE UNCHANGED freq /\ Loop(w, s)
    BY <1>1, <1>2, <2>5
  <2> QED
    BY <1>6, <2>4, <2>5 DEF Apply, f
<1>7. ASSUME Apply(w)
      PROVE  worker[w].pc = "set" /\ UNCHANGED <<clusterVars, entryVars, queue, rec, shut, workers, telemetryVars>>
  BY <1>7 DEF Apply
<1>8. CASE Apply(w)
  <2>1. PICK opts \in OptsType : opts.policy = worker[w].opts.policy /\ Loop(w, opts)
    BY <1>6, <1>8
  <2> QED
    BY <1>6, <1>7, <1>8, <2>1, LoopEffect
<1> QED
  BY <1>3, <1>4, <1>m, <1>5, <1>8 DEF WorkerStep

\* A connection goroutine touches its own connection and the usage of its CPUs.
LEMMA ConnEffect ==
    ASSUME TypeOK, NEW p \in Pods, ConnStep(p)
    PROVE  /\ conn' \in [Pods -> ConnType]
           /\ usage' \in [CPUs -> Usages \cup {NoUsage}]
           /\ \A q \in Pods : q # p => conn'[q] = conn[q]
           /\ conn'[p].stop = conn[p].stop
           /\ conn[p].pc \in {"dialing", "reading"}
           /\ \/ conn'[p].pc \in {"dialing", "reading"}
              \/ conn'[p].pc = "done" /\ conn[p].stop
           /\ UNCHANGED <<clusterVars, entryVars, queue, rec, shut, scalingVars, conns, freq>>
<1> USE DEF ConnType
<1>1. CASE Connect(p)
  BY <1>1 DEF Connect, TypeOK
<1>2. CASE Poll(p)
  <2>1. PICK r \in [podCpus[p] -> Usages \cup {NoUsage}] :
            usage' = [c \in CPUs |-> IF c \in podCpus[p] THEN r[c] ELSE usage[c]]
    BY <1>2 DEF Poll
  <2>2. usage' \in [CPUs -> Usages \cup {NoUsage}]
    BY <2>1 DEF TypeOK
  <2> QED
    BY <1>2, <2>2 DEF Poll, TypeOK
<1>3. CASE Disconnect(p)
  BY <1>3 DEF Disconnect, Cleared, TypeOK
<1>4. CASE LeaveLoops(p)
  BY <1>4 DEF LeaveLoops, TypeOK
<1> QED
  BY <1>1, <1>2, <1>3, <1>4 DEF ConnStep

-----------------------------------------------------------------------------
(***************************************************************************)
(* One lemma per part of the inductive invariant, one step per action.     *)
(***************************************************************************)
LEMMA InitIInv == Init => IInv
<1> SUFFICES ASSUME Init PROVE IInv
  OBVIOUS
<1>1. NoOpts \in OptsType /\ HWMin \in Frequencies
  BY FrequencyAssumption DEF NoOpts, OptsType, Frequencies
<1>2. NoObject \in WorkerType /\ NoObject.pc = "none"
  BY <1>1 DEF NoObject, WorkerType
<1>3. TypeOK
  BY <1>1, <1>2 DEF Init, TypeOK, ConnType, recIdle, RecStates, RecType, ShutType
<1>4. ReconcileKnowsPod
  BY DEF Init, recIdle, ReconcileKnowsPod, Setup, Ending
<1>5. ManagedRuns /\ CallersHold /\ WorkersInReach
  BY <1>2 DEF Init, recIdle, ManagedRuns, CallersHold, WorkersInReach, Running
<1>6. ClosingAlone /\ ConnectionsOwned /\ UsageIsLive
  BY DEF Init, recIdle, ClosingAlone, ConnectionsOwned, UsageIsLive, Setup
<1>7. CpusHandedOver /\ EndedReconciled /\ ScaledSoFar /\ WorkersAccountedFor
  BY DEF Init, CpusHandedOver, EndedReconciled, ScaledSoFar, WorkersAccountedFor
<1>8. WorkersReadOnce /\ TargetInForce
  BY <1>2 DEF Init, WorkersReadOnce, TargetInForce, Running, NoObject, NoOpts
<1> QED
  BY <1>3, <1>4, <1>5, <1>6, <1>7, <1>8 DEF IInv

LEMMA CpusOfPods == \A p \in Pods : podCpus[p] \subseteq CPUs
  BY DEF CPUs

\* Stop cancels the context of a worker, close that of a connection.
LEMMA StoppedType ==
    /\ \A r \in WorkerType : [r EXCEPT !.stop = TRUE] \in WorkerType
    /\ \A k \in ConnType : [k EXCEPT !.stop = TRUE] \in ConnType
<1>1. ASSUME NEW r \in WorkerType PROVE [r EXCEPT !.stop = TRUE] \in WorkerType
  BY DEF WorkerType
<1>2. ASSUME NEW k \in ConnType PROVE [k EXCEPT !.stop = TRUE] \in ConnType
  BY DEF ConnType
<1> QED
  BY <1>1, <1>2

LEMMA RecStepType ==
    ASSUME TypeOK, ReconcileKnowsPod, CallersHold, WorkersInReach, RecStep
    PROVE  rec' \in RecType
<1>1. /\ rec \in RecType /\ recIdle \in RecType
      /\ workers \in [CPUs -> Workers \cup {NoWorker}] /\ policy \in Policies \cup {NoPolicy}
  BY DEF TypeOK, recIdle, RecType, RecStates
<1>2. rec.pc # "idle" => rec.pod \in Pods
  BY DEF ReconcileKnowsPod
<1>3. ASSUME NEW p \in Pods, BeginPod(p) \/ BeginEnd(p) PROVE rec' \in RecType
  BY <1>1, <1>3, CpusOfPods DEF BeginPod, BeginEnd, RecType, RecStates
<1>4. CASE EnsureConnection \/ CloseConnection \/ ClearMetrics
  <2>1. CASE EnsureConnection
    BY <1>1, <1>2, <2>1, CpusOfPods DEF EnsureConnection, RecType, RecStates
  <2>2. CASE CloseConnection
    BY <1>1, <1>2, <2>2, CpusOfPods DEF CloseConnection, RecType, RecStates
  <2>3. CASE ClearMetrics
    BY <1>1, <1>2, <2>3, CpusOfPods DEF ClearMetrics, RecType, RecStates
  <2> QED
    BY <1>4, <2>1, <2>2, <2>3
<1>5. CASE StoreWorker \/ StopWorker
  <2>1. CASE StoreWorker
    BY <1>1, <2>1 DEF StoreWorker, RecType, RecStates
  <2>2. CASE StopWorker
    BY <1>1, <2>2 DEF StopWorker, RecType, RecStates
  <2> QED
    BY <1>5, <2>1, <2>2
<1>6. CASE RecordPod \/ ForgetPod
  BY <1>1, <1>6 DEF RecordPod, ForgetPod
<1>7. ASSUME NEW c \in CPUs, AddCPUScaling(c) PROVE rec' \in RecType
  <2>1. CASE workers[c] # NoWorker
    BY <1>1, <1>7, <2>1 DEF AddCPUScaling, RecType, RecStates
  <2>2. CASE workers[c] = NoWorker
    <3>1. PICK w \in Workers : rec' = [rec EXCEPT !.pc = "store", !.cur = w]
      BY <1>7, <2>2 DEF AddCPUScaling
    <3> QED
      BY <1>1, <3>1 DEF RecType, RecStates
  <2> QED
    BY <2>1, <2>2
<1>8. ASSUME NEW c \in CPUs, RemoveCPUScaling(c) PROVE rec' \in RecType
  <2>1. CASE workers[c] = NoWorker
    BY <1>1, <1>8, <2>1 DEF RemoveCPUScaling, RecType
  <2>2. CASE workers[c] # NoWorker
    <3>1. rec' = [rec EXCEPT !.pc = "stopping", !.rest = rec.rest \ {c}, !.cur = workers[c]]
      BY <1>8, <2>2 DEF RemoveCPUScaling
    <3> QED
      BY <1>1, <3>1 DEF RecType, RecStates
  <2> QED
    BY <2>1, <2>2
<1> QED
  BY <1>3, <1>4, <1>5, <1>6, <1>7, <1>8 DEF RecStep

LEMMA ShutStepType ==
    ASSUME TypeOK, ShutStep \/ Signal
    PROVE  shut' \in ShutType
<1>1. /\ shut \in ShutType /\ conns \subseteq Pods
      /\ workers \in [CPUs -> Workers \cup {NoWorker}]
  BY DEF TypeOK
<1>2. ASSUME NEW c \in CPUs, StopManaged(c) PROVE shut' \in ShutType
  <2>1. CASE workers[c] = NoWorker
    BY <1>1, <1>2, <2>1 DEF StopManaged, ShutType
  <2>2. CASE workers[c] # NoWorker
    <3>1. shut' = [shut EXCEPT !.pc = "wait", !.rest = shut.rest \ {c}, !.cur = workers[c]]
      BY <1>2, <2>2 DEF StopManaged
    <3> QED
      BY <1>1, <3>1 DEF ShutType
  <2> QED
    BY <2>1, <2>2
<1>3. ASSUME NEW p \in Pods, CancelOne(p) \/ CloseOne(p) PROVE shut' \in ShutType
  BY <1>1, <1>3 DEF CancelOne, CloseOne, ShutType
<1>4. CASE StopManagedWait \/ ManagerReturns \/ Exit \/ Signal
  BY <1>1, <1>4 DEF StopManagedWait, ManagerReturns, Exit, Signal, ShutType
<1> QED
  BY <1>2, <1>3, <1>4 DEF ShutStep

LEMMA NextTypeOK ==
    ASSUME TypeOK, ReconcileKnowsPod, CallersHold, WorkersInReach, [Next]_vars
    PROVE  TypeOK'
<1> USE DEF TypeOK, profileVars
<1>a. RecStep => rec' \in RecType
  BY RecStepType
<1>b. ShutStep \/ Signal => shut' \in ShutType
  BY ShutStepType
<1>c. rec.pc # "idle" => rec.pod \in Pods
  BY DEF ReconcileKnowsPod
<1>1. ASSUME NEW w \in Workers, WorkerStep(w) PROVE TypeOK'
  BY <1>1, WorkerEffect DEF clusterVars, entryVars, telemetryVars
<1>2. ASSUME NEW p \in Pods, ConnStep(p) PROVE TypeOK'
  BY <1>2, ConnEffect DEF clusterVars, entryVars, scalingVars
<1>3. ASSUME NEW p \in Pods, BeginPod(p) PROVE TypeOK'
  BY <1>3, <1>a DEF RecStep, BeginPod, others, clusterVars, profileVars, scalingVars, telemetryVars
<1>4. ASSUME NEW p \in Pods, BeginEnd(p) PROVE TypeOK'
  BY <1>4, <1>a DEF RecStep, BeginEnd, forgetting, Forgotten, others, clusterVars, scalingVars, telemetryVars
<1>5. CASE EnsureConnection
  BY <1>5, <1>a, <1>c DEF ConnType, RecStep, EnsureConnection, others, clusterVars, entryVars, scalingVars
<1>6. CASE StoreWorker
  <2>1. rec.cur \in Workers /\ worker[rec.cur].cpu \in CPUs
    BY <1>6 DEF StoreWorker, CallersHold, WorkersInReach, Running, RecType
  <2> QED
    BY <1>6, <2>1, <1>a DEF RecStep, StoreWorker, others, clusterVars, entryVars, telemetryVars
<1>7. CASE RecordPod
  BY <1>7, <1>a, <1>c DEF RecStep, RecordPod, others, clusterVars, scalingVars, telemetryVars
<1>8. ASSUME NEW c \in CPUs, AddCPUScaling(c) PROVE TypeOK'
  <2>1. rec.pol \in Policies
    BY <1>8 DEF AddCPUScaling, ReconcileKnowsPod
  <2>2. NewOpts(rec.pol) \in OptsType /\ NoOpts \in OptsType
    BY <2>1 DEF NewOpts, NoOpts, OptsType
  <2>3. CASE workers[c] # NoWorker
    <3>1. workers[c] \in Workers
      BY <2>3
    <3>2. [worker[workers[c]] EXCEPT !.next = NewOpts(rec.pol)] \in WorkerType
      BY <2>2, <3>1 DEF WorkerType
    <3>3. worker' \in [Workers -> WorkerType]
      BY <1>8, <2>3, <3>1, <3>2 DEF AddCPUScaling
    <3> QED
      BY <1>8, <2>3, <3>3, <1>a DEF RecStep, AddCPUScaling, others, clusterVars, entryVars, telemetryVars
  <2>4. CASE workers[c] = NoWorker
    <3>1. [NoObject EXCEPT !.pc = "select", !.cpu = c, !.opts = NewOpts(rec.pol)] \in WorkerType
      BY <2>2 DEF NoObject, WorkerType
    <3> QED
      BY <1>8, <2>4, <3>1, <1>a DEF RecStep, AddCPUScaling, others, clusterVars, entryVars, telemetryVars
  <2> QED
    BY <2>3, <2>4
<1>9. ASSUME NEW c \in CPUs, RemoveCPUScaling(c) PROVE TypeOK'
  <2>1. CASE workers[c] # NoWorker
    <3>1. workers[c] \in Workers
      BY <2>1
    <3>2. [worker[workers[c]] EXCEPT !.stop = TRUE] \in WorkerType
      BY <3>1, StoppedType
    <3>3. /\ worker' = [worker EXCEPT ![workers[c]] = [worker[workers[c]] EXCEPT !.stop = TRUE]]
          /\ workers' = [workers EXCEPT ![c] = NoWorker]
      BY <1>9, <2>1 DEF RemoveCPUScaling
    <3>4. worker' \in [Workers -> WorkerType]
      BY <3>1, <3>2, <3>3
    <3>5. workers' \in [CPUs -> Workers \cup {NoWorker}]
      BY <3>3
    <3> QED
      BY <1>9, <3>4, <3>5, <1>a DEF RecStep, RemoveCPUScaling, others, clusterVars, entryVars, telemetryVars
  <2>2. CASE workers[c] = NoWorker
    BY <1>9, <2>2, <1>a DEF RecStep, RemoveCPUScaling, others, clusterVars, entryVars, scalingVars, telemetryVars
  <2> QED
    BY <2>1, <2>2
<1>10. CASE CloseConnection
  BY <1>10, <1>a, <1>c, StoppedType DEF RecStep, CloseConnection, others, clusterVars, entryVars, scalingVars
<1>11. CASE ClearMetrics
  BY <1>11, <1>a DEF RecStep, ClearMetrics, Cleared, others, clusterVars, entryVars, scalingVars
<1>12. NoObject \in WorkerType
  BY DEF NoObject, WorkerType, NoOpts, OptsType
<1>13. CASE StopWorker
  BY <1>12, <1>13, <1>a DEF RecStep, StopWorker, others, clusterVars, entryVars, telemetryVars
<1>14. CASE ForgetPod
  BY <1>14, <1>a, <1>c DEF RecStep, ForgetPod, others, clusterVars, scalingVars, telemetryVars
<1>15. ASSUME NEW c \in CPUs, StopManaged(c) PROVE TypeOK'
  <2>1. CASE workers[c] # NoWorker
    <3>1. workers[c] \in Workers
      BY <2>1
    <3>2. [worker[workers[c]] EXCEPT !.stop = TRUE] \in WorkerType
      BY <3>1, StoppedType
    <3>3. /\ worker' = [worker EXCEPT ![workers[c]] = [worker[workers[c]] EXCEPT !.stop = TRUE]]
          /\ workers' = [workers EXCEPT ![c] = NoWorker]
      BY <1>15, <2>1 DEF StopManaged
    <3>4. worker' \in [Workers -> WorkerType]
      BY <3>1, <3>2, <3>3
    <3>5. workers' \in [CPUs -> Workers \cup {NoWorker}]
      BY <3>3
    <3> QED
      BY <1>15, <3>4, <3>5, <1>b DEF ShutStep, StopManaged, callers, clusterVars, entryVars, telemetryVars
  <2>2. CASE workers[c] = NoWorker
    BY <1>15, <2>2, <1>b DEF ShutStep, StopManaged, callers, clusterVars, entryVars, scalingVars, telemetryVars
  <2> QED
    BY <2>1, <2>2
<1>16. ASSUME NEW p \in Pods, CancelOne(p) PROVE TypeOK'
  BY <1>16, <1>b, StoppedType DEF ShutStep, CancelOne, callers, clusterVars, entryVars, scalingVars
<1>17. ASSUME NEW p \in Pods, CloseOne(p) PROVE TypeOK'
  BY <1>17, <1>b DEF ShutStep, CloseOne, Cleared, callers, clusterVars, entryVars, scalingVars
<1>18. CASE StopManagedWait
  BY <1>12, <1>18, <1>b DEF ShutStep, StopManagedWait, callers, clusterVars, entryVars, telemetryVars
<1>19. CASE ManagerReturns \/ Exit \/ Signal
  BY <1>19, <1>b DEF ShutStep, ManagerReturns, Exit, Signal, callers, clusterVars, entryVars, scalingVars, telemetryVars
<1>20. ASSUME NEW o \in Policies \cup {policy}, NEW s \in BOOLEAN, ChangePolicy(o, s) PROVE TypeOK'
  BY <1>20 DEF ChangePolicy, entryVars, scalingVars, telemetryVars
<1>21. ASSUME NEW p \in Pods, StartPod(p) \/ StopPod(p) PROVE TypeOK'
  BY <1>21 DEF StartPod, StopPod, entryVars, scalingVars, telemetryVars
<1>up. CASE CatchUp
  BY <1>up DEF CatchUp, clusterVars, entryVars, scalingVars, telemetryVars
<1>22. CASE UNCHANGED vars
  BY <1>22 DEF vars, clusterVars, entryVars, scalingVars, telemetryVars
<1> QED
  BY <1>1, <1>2, <1>3, <1>4, <1>5, <1>6, <1>7, <1>8, <1>9, <1>10, <1>11, <1>13, <1>14, <1>15,
     <1>16, <1>17, <1>18, <1>19, <1>20, <1>21, <1>22, <1>up DEF Next, RecStep, ShutStep, Rest, Ended

LEMMA NextReconcileKnowsPod ==
    ASSUME TypeOK, ReconcileKnowsPod, [Next]_vars
    PROVE  ReconcileKnowsPod'
<1> USE DEF ReconcileKnowsPod, Setup, Ending
<1>1. /\ rec \in RecType /\ phase \in [Pods -> {"none", "running", "done"}]
      /\ policy \in Policies \cup {NoPolicy}
  BY DEF TypeOK
<1>2. CASE UNCHANGED <<rec, phase, queue>>
  BY <1>2
<1>3. ASSUME NEW p \in Pods, BeginPod(p) PROVE ReconcileKnowsPod'
  BY <1>1, <1>3 DEF BeginPod, others, clusterVars, RecType
<1>4. ASSUME NEW p \in Pods, BeginEnd(p) PROVE ReconcileKnowsPod'
  BY <1>1, <1>4 DEF BeginEnd, others, clusterVars, RecType
<1>5. CASE EnsureConnection
  BY <1>1, <1>5 DEF EnsureConnection, others, clusterVars, RecType
<1>6. CASE StoreWorker
  BY <1>1, <1>6 DEF StoreWorker, others, clusterVars, RecType
<1>7. CASE RecordPod \/ ForgetPod
  BY <1>1, <1>7 DEF RecordPod, ForgetPod, recIdle
<1>8. ASSUME NEW c \in CPUs, AddCPUScaling(c) PROVE ReconcileKnowsPod'
  BY <1>1, <1>8 DEF AddCPUScaling, others, clusterVars, RecType
<1>9. ASSUME NEW c \in CPUs, RemoveCPUScaling(c) PROVE ReconcileKnowsPod'
  <2>1. /\ rec.pc = "remove" /\ rec'.pc \in {"remove", "stopping"} /\ rec'.pod = rec.pod
        /\ rec'.rest = rec.rest \ {c} /\ UNCHANGED <<phase, queue>>
    BY <1>1, <1>9 DEF RemoveCPUScaling, others, clusterVars, RecType
  <2> QED
    BY <1>1, <2>1
<1>10. CASE CloseConnection \/ ClearMetrics \/ StopWorker
  <2>1. CASE CloseConnection
    BY <1>1, <2>1 DEF CloseConnection, others, clusterVars, RecType
  <2>2. CASE ClearMetrics
    BY <1>1, <2>2 DEF ClearMetrics, others, clusterVars, RecType
  <2>3. CASE StopWorker
    BY <1>1, <2>3 DEF StopWorker, others, clusterVars, RecType
  <2> QED
    BY <1>10, <2>1, <2>2, <2>3
<1>11. ASSUME NEW o \in Policies \cup {policy}, NEW s \in BOOLEAN, ChangePolicy(o, s) PROVE ReconcileKnowsPod'
  BY <1>1, <1>11 DEF ChangePolicy
<1>12. ASSUME NEW p \in Pods, StartPod(p) \/ StopPod(p) PROVE ReconcileKnowsPod'
  BY <1>1, <1>12 DEF StartPod, StopPod
<1>13. ASSUME NEW w \in Workers, WorkerStep(w) PROVE ReconcileKnowsPod'
  BY <1>2, <1>13 DEF WorkerStep, ExitLoop, Sample, GetCurrentCPUFrequency, Hold, Apply, clusterVars
<1>14. ASSUME NEW p \in Pods, ConnStep(p) PROVE ReconcileKnowsPod'
  BY <1>2, <1>14 DEF ConnStep, Connect, Poll, Disconnect, LeaveLoops, clusterVars
<1>15. CASE ShutStep \/ Signal
  BY <1>2, <1>15 DEF ShutStep, Signal, StopManaged, CancelOne, CloseOne, StopManagedWait,
     ManagerReturns, Exit, callers, clusterVars
<1>up. CASE CatchUp
  BY <1>2, <1>up DEF CatchUp, clusterVars
<1>16. CASE UNCHANGED vars
  BY <1>2, <1>16 DEF vars, clusterVars
<1> QED
  BY <1>3, <1>4, <1>5, <1>6, <1>7, <1>8, <1>9, <1>10, <1>11, <1>12, <1>13, <1>14, <1>15, <1>16, <1>up
     DEF Next, RecStep, Rest, Ended

LEMMA NextManagedRuns ==
    ASSUME TypeOK, ManagedRuns, CallersHold, WorkersInReach, [Next]_vars
    PROVE  ManagedRuns'
<1> USE DEF ManagedRuns, Running
<1>1. /\ rec \in RecType /\ shut \in ShutType /\ worker \in [Workers -> WorkerType]
      /\ workers \in [CPUs -> Workers \cup {NoWorker}]
  BY DEF TypeOK
<1>2. CASE UNCHANGED <<rec, shut, workers, worker>>
  BY <1>2
<1>3. ASSUME NEW w \in Workers, WorkerStep(w) PROVE ManagedRuns'
  BY <1>1, <1>3, WorkerEffect
<1>4. CASE UNCHANGED <<rec, shut>> /\ UNCHANGED scalingVars
  BY <1>2, <1>4 DEF scalingVars
<1>5. CASE UNCHANGED <<shut, scalingVars>> /\ rec'.cur = rec.cur
  BY <1>5 DEF scalingVars
<1>6. ASSUME NEW p \in Pods, BeginPod(p) \/ BeginEnd(p) PROVE ManagedRuns'
  <2>1. UNCHANGED <<shut, scalingVars>> /\ rec'.cur = rec.cur
    <3>1. CASE BeginPod(p)
      BY <1>1, <3>1 DEF BeginPod, others, RecType
    <3>2. CASE BeginEnd(p)
      BY <1>1, <3>2 DEF BeginEnd, others, RecType
    <3> QED
      BY <1>6, <3>1, <3>2
  <2> QED
    BY <1>5, <2>1
<1>7. CASE EnsureConnection \/ CloseConnection \/ ClearMetrics
  <2>1. CASE EnsureConnection
    BY <1>1, <1>5, <2>1 DEF EnsureConnection, others, RecType
  <2>2. CASE CloseConnection
    BY <1>1, <1>5, <2>2 DEF CloseConnection, others, RecType
  <2>3. CASE ClearMetrics
    BY <1>1, <1>5, <2>3 DEF ClearMetrics, others, RecType
  <2> QED
    BY <1>7, <2>1, <2>2, <2>3
<1>8. CASE RecordPod \/ ForgetPod
  BY <1>1, <1>8 DEF RecordPod, ForgetPod, recIdle, others, scalingVars
<1>9. CASE StoreWorker
  <2>1. rec.cur \in Workers /\ rec.cur # shut.cur /\ worker[rec.cur].cpu \in CPUs
    BY <1>1, <1>9 DEF StoreWorker, CallersHold, WorkersInReach, RecType
  <2>2. rec'.cur = NoWorker /\ UNCHANGED <<shut, worker>>
    BY <1>1, <1>9 DEF StoreWorker, others, RecType
  <2>3. workers' = [workers EXCEPT ![worker[rec.cur].cpu] = rec.cur]
    BY <1>9 DEF StoreWorker
  <2>4. Running(rec.cur) /\ ~worker[rec.cur].stop
    BY <1>9 DEF StoreWorker, CallersHold
  <2> QED
    BY <1>1, <2>1, <2>2, <2>3, <2>4
<1>10. ASSUME NEW c \in CPUs, AddCPUScaling(c) PROVE ManagedRuns'
  <2>1. UNCHANGED <<shut, workers>>
    BY <1>10 DEF AddCPUScaling, others
  <2>2. CASE workers[c] # NoWorker
    <3>1. workers[c] \in Workers /\ rec'.cur = rec.cur
          /\ worker' = [worker EXCEPT ![workers[c]].next = NewOpts(rec.pol)]
      BY <1>1, <1>10, <2>2 DEF AddCPUScaling, RecType
    <3>2. \A v \in Workers : /\ worker'[v].pc = worker[v].pc /\ worker'[v].cpu = worker[v].cpu
                             /\ worker'[v].stop = worker[v].stop
      BY <1>1, <3>1 DEF WorkerType
    <3> QED
      BY <1>1, <2>1, <3>1, <3>2
  <2>3. CASE workers[c] = NoWorker
    <3>1. PICK w \in Workers :
              /\ worker[w].pc = "none"
              /\ rec' = [rec EXCEPT !.pc = "store", !.cur = w]
              /\ worker' = [worker EXCEPT ![w] =
                    [NoObject EXCEPT !.pc = "select", !.cpu = c, !.opts = NewOpts(rec.pol)]]
      BY <1>10, <2>3 DEF AddCPUScaling
    <3>2. \A d \in CPUs : workers[d] # w
      BY <3>1
    <3>3. rec'.cur = w /\ \A v \in Workers \ {w} : worker'[v] = worker[v]
      BY <1>1, <3>1 DEF RecType
    <3> QED
      BY <1>1, <2>1, <3>2, <3>3
  <2> QED
    BY <2>2, <2>3
<1>11. ASSUME NEW c \in CPUs, workers[c] # NoWorker,
              worker' = [worker EXCEPT ![workers[c]].stop = TRUE],
              workers' = [workers EXCEPT ![c] = NoWorker],
              \/ rec'.cur = workers[c] /\ shut' = shut
              \/ shut'.cur = workers[c] /\ rec' = rec
       PROVE  ManagedRuns'
  <2>1. workers[c] \in Workers /\ worker[workers[c]].cpu = c
    BY <1>1, <1>11
  <2>2. \A v \in Workers \ {workers[c]} : worker'[v] = worker[v]
    BY <1>1, <1>11
  <2>3. \A d \in CPUs : workers'[d] # NoWorker => workers'[d] = workers[d] /\ workers[d] # workers[c]
    BY <1>1, <1>11, <2>1
  <2> QED
    BY <1>1, <1>11, <2>2, <2>3
<1>12. ASSUME NEW c \in CPUs, RemoveCPUScaling(c) PROVE ManagedRuns'
  <2>1. CASE workers[c] = NoWorker
    BY <1>1, <1>5, <1>12, <2>1 DEF RemoveCPUScaling, others, RecType
  <2>2. CASE workers[c] # NoWorker
    BY <1>1, <1>11, <1>12, <2>2 DEF RemoveCPUScaling, others, RecType
  <2> QED
    BY <2>1, <2>2
<1>13. ASSUME NEW c \in CPUs, StopManaged(c) PROVE ManagedRuns'
  <2>1. CASE workers[c] = NoWorker
    BY <1>1, <1>13, <2>1 DEF StopManaged, callers, scalingVars, ShutType
  <2>2. CASE workers[c] # NoWorker
    BY <1>1, <1>11, <1>13, <2>2 DEF StopManaged, callers, ShutType
  <2> QED
    BY <2>1, <2>2
<1>14. CASE StopWorker
  BY <1>1, <1>14 DEF StopWorker, CallersHold, others, RecType
<1>15. CASE StopManagedWait
  BY <1>1, <1>15 DEF StopManagedWait, CallersHold, callers, ShutType
<1>16. CASE ManagerReturns \/ Exit \/ Signal
  <2>1. UNCHANGED <<rec, scalingVars>> /\ shut'.cur = shut.cur
    BY <1>1, <1>16 DEF ManagerReturns, Exit, Signal, callers, ShutType
  <2> QED
    BY <2>1 DEF scalingVars
<1>17. ASSUME NEW p \in Pods, CancelOne(p) \/ CloseOne(p) PROVE ManagedRuns'
  BY <1>1, <1>17 DEF CancelOne, CloseOne, callers, scalingVars, ShutType
<1>18. ASSUME NEW p \in Pods, ConnStep(p) PROVE ManagedRuns'
  BY <1>4, <1>18 DEF ConnStep, Connect, Poll, Disconnect, LeaveLoops
<1>19. ASSUME NEW o \in Policies \cup {policy}, NEW s \in BOOLEAN, ChangePolicy(o, s) PROVE ManagedRuns'
  BY <1>4, <1>19 DEF ChangePolicy
<1>20. ASSUME NEW p \in Pods, StartPod(p) \/ StopPod(p) PROVE ManagedRuns'
  BY <1>4, <1>20 DEF StartPod, StopPod
<1>up. CASE CatchUp
  BY <1>4, <1>up DEF CatchUp
<1>21. CASE UNCHANGED vars
  BY <1>4, <1>21 DEF vars
<1> QED
  BY <1>3, <1>6, <1>7, <1>8, <1>9, <1>10, <1>12, <1>13, <1>14, <1>15, <1>16, <1>17, <1>18, <1>19,
     <1>20, <1>21, <1>up DEF Next, RecStep, ShutStep, Rest, Ended

LEMMA NextCallersHold ==
    ASSUME TypeOK, ReconcileKnowsPod, ManagedRuns, CallersHold, WorkersInReach, [Next]_vars
    PROVE  CallersHold'
<1> USE DEF CallersHold, Running
<1>1. /\ rec \in RecType /\ shut \in ShutType /\ worker \in [Workers -> WorkerType]
      /\ workers \in [CPUs -> Workers \cup {NoWorker}]
      /\ rec.cur \in Workers \cup {NoWorker} /\ shut.cur \in Workers \cup {NoWorker}
  BY DEF TypeOK, RecType, ShutType
<1>2. CASE UNCHANGED <<rec, shut, scalingVars>>
  BY <1>2 DEF scalingVars
<1>3. ASSUME NEW w \in Workers, WorkerStep(w) PROVE CallersHold'
  <2>1. UNCHANGED <<rec, shut, workers>>
    BY <1>3, WorkerEffect
  <2>2. \A v \in Workers : worker'[v].cpu = worker[v].cpu /\ (worker[v].pc # "none" => worker'[v].pc # "none")
    BY <1>3, WorkerEffect
  <2>3. rec.pc = "store" =>
          /\ Running(rec.cur)' /\ ~worker'[rec.cur].stop /\ worker'[rec.cur].cpu = worker[rec.cur].cpu
          /\ worker'[rec.cur].opts.policy = rec.pol /\ worker'[rec.cur].next = NoOpts
    BY <1>1, <1>3, <2>1, WorkerEffect DEF effective
  <2> QED
    BY <1>1, <2>1, <2>2, <2>3
<1>4. CASE /\ UNCHANGED <<shut, scalingVars>> /\ rec'.cur = rec.cur
           /\ rec.pc \notin {"store", "stopping"} /\ rec'.pc \notin {"store", "stopping"}
  BY <1>4 DEF scalingVars
<1>5. ASSUME NEW p \in Pods, BeginPod(p) \/ BeginEnd(p) PROVE CallersHold'
  BY <1>1, <1>4, <1>5 DEF BeginPod, BeginEnd, others, RecType
<1>6. CASE EnsureConnection \/ CloseConnection \/ ClearMetrics
  BY <1>1, <1>4, <1>6 DEF EnsureConnection, CloseConnection, ClearMetrics, others, RecType
<1>7. CASE RecordPod \/ ForgetPod
  BY <1>1, <1>4, <1>7 DEF RecordPod, ForgetPod, recIdle, others
<1>8. CASE StoreWorker
  BY <1>1, <1>8 DEF StoreWorker, others, RecType
<1>9. ASSUME NEW c \in CPUs, AddCPUScaling(c) PROVE CallersHold'
  <2>1. UNCHANGED <<shut, workers>> /\ rec.pc = "add" /\ c \in rec.rest /\ rec.cur = NoWorker
    BY <1>9 DEF AddCPUScaling, others
  <2>2. CASE workers[c] # NoWorker
    <3>1. workers[c] \in Workers /\ rec'.cur = rec.cur /\ rec'.pc = "add"
          /\ worker' = [worker EXCEPT ![workers[c]].next = NewOpts(rec.pol)]
      BY <1>1, <1>9, <2>2 DEF AddCPUScaling, RecType
    <3>2. \A v \in Workers : worker'[v].pc = worker[v].pc
      BY <1>1, <3>1 DEF WorkerType
    <3> QED
      BY <1>1, <2>1, <3>1, <3>2
  <2>3. CASE workers[c] = NoWorker
    <3> DEFINE new == [NoObject EXCEPT !.pc = "select", !.cpu = c, !.opts = NewOpts(rec.pol)]
    <3>1. PICK w \in Workers :
              /\ worker[w].pc = "none"
              /\ rec' = [rec EXCEPT !.pc = "store", !.cur = w]
              /\ worker' = [worker EXCEPT ![w] = new]
      BY <1>9, <2>3 DEF AddCPUScaling
    <3>2. /\ new.pc = "select" /\ new.cpu = c /\ ~new.stop /\ new.next = NoOpts
          /\ new.opts.policy = rec.pol
      BY DEF NoObject, NewOpts
    <3>3. rec'.cur = w /\ rec'.pc = "store" /\ rec'.rest = rec.rest /\ rec'.pol = rec.pol
      BY <1>1, <3>1 DEF RecType
    <3>4. worker'[w] = new /\ \A v \in Workers \ {w} : worker'[v] = worker[v]
      BY <1>1, <3>1
    <3>5. w # shut.cur /\ w # NoWorker
      BY <1>1, <3>1
    <3> HIDE DEF new
    <3> QED
      BY <1>1, <2>1, <2>3, <3>2, <3>3, <3>4, <3>5
  <2> QED
    BY <2>2, <2>3
<1>10. ASSUME NEW c \in CPUs, RemoveCPUScaling(c) PROVE CallersHold'
  <2>1. CASE workers[c] = NoWorker
    BY <1>1, <1>4, <1>10, <2>1 DEF RemoveCPUScaling, others, RecType
  <2>2. CASE workers[c] # NoWorker
    <3>1. workers[c] \in Workers /\ worker[workers[c]].cpu = c /\ worker[workers[c]].pc # "none"
          /\ workers[c] # shut.cur
      BY <1>1, <2>2 DEF ManagedRuns
    <3>2. /\ rec'.pc = "stopping" /\ rec'.cur = workers[c] /\ UNCHANGED shut
          /\ worker' = [worker EXCEPT ![workers[c]].stop = TRUE]
          /\ workers' = [workers EXCEPT ![c] = NoWorker]
      BY <1>1, <1>10, <2>2 DEF RemoveCPUScaling, others, RecType
    <3>3. \A v \in Workers : worker'[v].pc = worker[v].pc /\ worker'[v].cpu = worker[v].cpu
      BY <1>1, <3>1, <3>2 DEF WorkerType
    <3> QED
      BY <1>1, <3>1, <3>2, <3>3
  <2> QED
    BY <2>1, <2>2
<1>11. ASSUME NEW c \in CPUs, StopManaged(c) PROVE CallersHold'
  <2>1. UNCHANGED rec /\ shut.pc = "stop" /\ shut.cur = NoWorker
    BY <1>11 DEF StopManaged, callers
  <2>2. CASE workers[c] = NoWorker
    BY <1>1, <1>11, <2>1, <2>2 DEF StopManaged, scalingVars, ShutType
  <2>3. CASE workers[c] # NoWorker
    <3>1. workers[c] \in Workers /\ worker[workers[c]].pc # "none" /\ workers[c] # rec.cur
      BY <1>1, <2>3 DEF ManagedRuns
    <3>2. /\ shut'.pc = "wait" /\ shut'.cur = workers[c]
          /\ worker' = [worker EXCEPT ![workers[c]].stop = TRUE]
          /\ workers' = [workers EXCEPT ![c] = NoWorker]
      BY <1>1, <1>11, <2>3 DEF StopManaged, ShutType
    <3>3. /\ \A v \in Workers : worker'[v].pc = worker[v].pc
          /\ \A v \in Workers \ {workers[c]} : worker'[v] = worker[v]
      BY <1>1, <3>1, <3>2 DEF WorkerType
    <3>4. rec.cur # NoWorker => workers'[worker[rec.cur].cpu] = NoWorker
      BY <1>1, <3>2 DEF WorkersInReach
    <3> QED
      BY <1>1, <2>1, <3>1, <3>2, <3>3, <3>4
  <2> QED
    BY <2>2, <2>3
<1>12. CASE StopWorker
  BY <1>1, <1>12 DEF StopWorker, others, RecType
<1>13. CASE StopManagedWait
  BY <1>1, <1>13 DEF StopManagedWait, callers, ShutType
<1>14. CASE ManagerReturns \/ Exit \/ Signal
  BY <1>1, <1>14 DEF ManagerReturns, Exit, Signal, callers, scalingVars, ShutType
<1>15. ASSUME NEW p \in Pods, CancelOne(p) \/ CloseOne(p) PROVE CallersHold'
  BY <1>1, <1>15 DEF CancelOne, CloseOne, callers, scalingVars, ShutType
<1>16. ASSUME NEW p \in Pods, ConnStep(p) PROVE CallersHold'
  BY <1>2, <1>16 DEF ConnStep, Connect, Poll, Disconnect, LeaveLoops
<1>17. ASSUME NEW o \in Policies \cup {policy}, NEW s \in BOOLEAN, ChangePolicy(o, s) PROVE CallersHold'
  BY <1>2, <1>17 DEF ChangePolicy
<1>18. ASSUME NEW p \in Pods, StartPod(p) \/ StopPod(p) PROVE CallersHold'
  BY <1>2, <1>18 DEF StartPod, StopPod
<1>up. CASE CatchUp
  BY <1>2, <1>up DEF CatchUp
<1>19. CASE UNCHANGED vars
  BY <1>2, <1>19 DEF vars
<1> QED
  BY <1>3, <1>5, <1>6, <1>7, <1>8, <1>9, <1>10, <1>11, <1>12, <1>13, <1>14, <1>15, <1>16, <1>17,
     <1>18, <1>19, <1>up DEF Next, RecStep, ShutStep, Rest, Ended

LEMMA NextWorkersInReach ==
    ASSUME TypeOK, ReconcileKnowsPod, ManagedRuns, CallersHold, WorkersInReach, [Next]_vars
    PROVE  WorkersInReach'
<1> USE DEF WorkersInReach
<1>1. /\ rec \in RecType /\ shut \in ShutType /\ worker \in [Workers -> WorkerType]
      /\ workers \in [CPUs -> Workers \cup {NoWorker}]
      /\ rec.cur \in Workers \cup {NoWorker} /\ shut.cur \in Workers \cup {NoWorker}
  BY DEF TypeOK, RecType, ShutType
<1>2. CASE UNCHANGED scalingVars /\ rec'.cur = rec.cur /\ shut'.cur = shut.cur
  BY <1>2 DEF scalingVars
<1>3. ASSUME NEW w \in Workers, WorkerStep(w) PROVE WorkersInReach'
  BY <1>1, <1>3, WorkerEffect DEF effective
<1>4. ASSUME NEW p \in Pods, BeginPod(p) \/ BeginEnd(p) PROVE WorkersInReach'
  BY <1>1, <1>2, <1>4 DEF BeginPod, BeginEnd, others, RecType
<1>5. CASE EnsureConnection \/ CloseConnection \/ ClearMetrics
  BY <1>1, <1>2, <1>5 DEF EnsureConnection, CloseConnection, ClearMetrics, others, RecType
<1>6. CASE RecordPod \/ ForgetPod
  BY <1>1, <1>2, <1>6 DEF RecordPod, ForgetPod, recIdle, others, CallersHold
<1>7. CASE StoreWorker
  <2>1. rec.cur \in Workers /\ worker[rec.cur].pc # "none" /\ workers[worker[rec.cur].cpu] = NoWorker
    BY <1>1, <1>7 DEF StoreWorker, CallersHold
  <2> QED
    BY <1>1, <1>7, <2>1 DEF StoreWorker, others
<1>8. ASSUME NEW c \in CPUs, AddCPUScaling(c) PROVE WorkersInReach'
  <2>1. UNCHANGED <<shut, workers>> /\ rec.cur = NoWorker /\ rec.pol \in Policies
    BY <1>8 DEF AddCPUScaling, others, CallersHold, ReconcileKnowsPod
  <2>2. NewOpts(rec.pol).policy \in Policies
    BY <2>1 DEF NewOpts
  <2>3. CASE workers[c] # NoWorker
    <3>1. workers[c] \in Workers /\ rec'.cur = rec.cur
          /\ worker' = [worker EXCEPT ![workers[c]].next = NewOpts(rec.pol)]
      BY <1>1, <1>8, <2>3 DEF AddCPUScaling, RecType
    <3>2. \A v \in Workers : /\ worker'[v].pc = worker[v].pc /\ worker'[v].cpu = worker[v].cpu
                             /\ worker'[v].opts = worker[v].opts
                             /\ worker'[v].next \in {worker[v].next, NewOpts(rec.pol)}
      BY <1>1, <3>1 DEF WorkerType
    <3> QED
      BY <1>1, <2>1, <2>2, <3>1, <3>2
  <2>4. CASE workers[c] = NoWorker
    <3> DEFINE new == [NoObject EXCEPT !.pc = "select", !.cpu = c, !.opts = NewOpts(rec.pol)]
    <3>1. PICK w \in Workers :
              /\ rec' = [rec EXCEPT !.pc = "store", !.cur = w]
              /\ worker' = [worker EXCEPT ![w] = new]
      BY <1>8, <2>4 DEF AddCPUScaling
    <3>2. new.cpu = c /\ new.next = NoOpts /\ new.opts = NewOpts(rec.pol)
      BY DEF NoObject
    <3>3. rec'.cur = w /\ worker'[w] = new /\ \A v \in Workers \ {w} : worker'[v] = worker[v]
      BY <1>1, <3>1 DEF RecType
    <3> HIDE DEF new
    <3> QED
      BY <1>1, <2>1, <2>2, <3>2, <3>3
  <2> QED
    BY <2>3, <2>4
<1>9. ASSUME NEW c \in CPUs, workers[c] # NoWorker,
             worker' = [worker EXCEPT ![workers[c]].stop = TRUE],
             workers' = [workers EXCEPT ![c] = NoWorker],
             \/ rec.cur = NoWorker /\ rec'.cur = workers[c] /\ shut' = shut
             \/ shut.cur = NoWorker /\ shut'.cur = workers[c] /\ rec' = rec
      PROVE  WorkersInReach'
  <2>1. workers[c] \in Workers /\ worker[workers[c]].cpu = c
    BY <1>1, <1>9 DEF ManagedRuns
  <2>2. \A v \in Workers : /\ worker'[v].pc = worker[v].pc /\ worker'[v].cpu = worker[v].cpu
                           /\ worker'[v].opts = worker[v].opts /\ worker'[v].next = worker[v].next
    BY <1>1, <1>9, <2>1 DEF WorkerType
  <2>3. \A v \in Workers : worker[v].pc # "none" =>
            v \in {workers'[worker[v].cpu], rec'.cur, shut'.cur}
    BY <1>1, <1>9, <2>1
  <2> QED
    BY <2>2, <2>3
<1>10. ASSUME NEW c \in CPUs, RemoveCPUScaling(c) PROVE WorkersInReach'
  <2>1. CASE workers[c] = NoWorker
    BY <1>1, <1>2, <1>10, <2>1 DEF RemoveCPUScaling, others, RecType
  <2>2. CASE workers[c] # NoWorker
    BY <1>1, <1>9, <1>10, <2>2 DEF RemoveCPUScaling, others, RecType, CallersHold
  <2> QED
    BY <2>1, <2>2
<1>11. ASSUME NEW c \in CPUs, StopManaged(c) PROVE WorkersInReach'
  <2>1. CASE workers[c] = NoWorker
    BY <1>1, <1>2, <1>11, <2>1 DEF StopManaged, callers, ShutType
  <2>2. CASE workers[c] # NoWorker
    BY <1>1, <1>9, <1>11, <2>2 DEF StopManaged, callers, ShutType, CallersHold
  <2> QED
    BY <2>1, <2>2
<1>12. NoObject.pc = "none"
  BY DEF NoObject
<1>13. CASE StopWorker
  BY <1>1, <1>12, <1>13 DEF StopWorker, others, RecType, CallersHold
<1>14. CASE StopManagedWait
  BY <1>1, <1>12, <1>14 DEF StopManagedWait, callers, ShutType, CallersHold
<1>15. CASE ManagerReturns \/ Exit \/ Signal
  BY <1>1, <1>2, <1>15 DEF ManagerReturns, Exit, Signal, callers, ShutType
<1>16. ASSUME NEW p \in Pods, CancelOne(p) \/ CloseOne(p) PROVE WorkersInReach'
  BY <1>1, <1>2, <1>16 DEF CancelOne, CloseOne, callers, ShutType
<1>17. ASSUME NEW p \in Pods, ConnStep(p) PROVE WorkersInReach'
  BY <1>2, <1>17 DEF ConnStep, Connect, Poll, Disconnect, LeaveLoops
<1>18. ASSUME NEW o \in Policies \cup {policy}, NEW s \in BOOLEAN, ChangePolicy(o, s) PROVE WorkersInReach'
  BY <1>2, <1>18 DEF ChangePolicy
<1>19. ASSUME NEW p \in Pods, StartPod(p) \/ StopPod(p) PROVE WorkersInReach'
  BY <1>2, <1>19 DEF StartPod, StopPod
<1>up. CASE CatchUp
  BY <1>2, <1>up DEF CatchUp
<1>20. CASE UNCHANGED vars
  BY <1>2, <1>20 DEF vars
<1> QED
  BY <1>3, <1>4, <1>5, <1>6, <1>7, <1>8, <1>10, <1>11, <1>13, <1>14, <1>15, <1>16, <1>17, <1>18,
     <1>19, <1>20, <1>up DEF Next, RecStep, ShutStep, Rest, Ended

LEMMA NextClosingAlone ==
    ASSUME TypeOK, ClosingAlone, [Next]_vars
    PROVE  ClosingAlone'
<1> USE DEF ClosingAlone
<1>1. rec \in RecType /\ shut \in ShutType
  BY DEF TypeOK
<1>2. CASE UNCHANGED <<rec, shut>>
  BY <1>2
<1>3. CASE UNCHANGED shut /\ (rec.pc # "idle" \/ shut.pc = "no" \/ rec'.pc = "idle")
  BY <1>3
<1>4. CASE RecStep
  BY <1>3, <1>4 DEF RecStep, BeginPod, BeginEnd, EnsureConnection, StoreWorker, RecordPod,
     AddCPUScaling, RemoveCPUScaling, CloseConnection, ClearMetrics, StopWorker, ForgetPod, others
<1>5. ASSUME NEW c \in CPUs, StopManaged(c) PROVE ClosingAlone'
  BY <1>1, <1>5 DEF StopManaged, callers, ShutType
<1>6. ASSUME NEW p \in Pods, CancelOne(p) \/ CloseOne(p) PROVE ClosingAlone'
  BY <1>1, <1>6 DEF CancelOne, CloseOne, callers, ShutType
<1>7. CASE StopManagedWait \/ ManagerReturns \/ Exit \/ Signal
  BY <1>1, <1>7 DEF StopManagedWait, ManagerReturns, Exit, Signal, callers, ShutType
<1>8. ASSUME NEW w \in Workers, WorkerStep(w) PROVE ClosingAlone'
  BY <1>2, <1>8 DEF WorkerStep, ExitLoop, Sample, GetCurrentCPUFrequency, Hold, Apply
<1>9. ASSUME NEW p \in Pods, ConnStep(p) PROVE ClosingAlone'
  BY <1>2, <1>9 DEF ConnStep, Connect, Poll, Disconnect, LeaveLoops
<1>10. ASSUME NEW o \in Policies \cup {policy}, NEW s \in BOOLEAN, ChangePolicy(o, s) PROVE ClosingAlone'
  BY <1>2, <1>10 DEF ChangePolicy
<1>11. ASSUME NEW p \in Pods, StartPod(p) \/ StopPod(p) PROVE ClosingAlone'
  BY <1>2, <1>11 DEF StartPod, StopPod
<1>up. CASE CatchUp
  BY <1>2, <1>up DEF CatchUp
<1>12. CASE UNCHANGED vars
  BY <1>2, <1>12 DEF vars
<1> QED
  BY <1>4, <1>5, <1>6, <1>7, <1>8, <1>9, <1>10, <1>11, <1>12, <1>up DEF Next, ShutStep, Rest, Ended

LEMMA NextConnectionsOwned ==
    ASSUME TypeOK, ReconcileKnowsPod, ClosingAlone, ConnectionsOwned, [Next]_vars
    PROVE  ConnectionsOwned'
<1> USE DEF ConnectionsOwned, Setup
<1>1. /\ rec \in RecType /\ shut \in ShutType /\ conn \in [Pods -> ConnType]
      /\ phase \in [Pods -> {"none", "running", "done"}]
  BY DEF TypeOK
<1>2. CASE UNCHANGED <<phase, conns, conn, rec>> /\ shut'.pods = shut.pods
           /\ (shut.pc \in {"close", "exited"} => shut'.pc \in {"close", "exited"})
  BY <1>2
<1>3. CASE /\ UNCHANGED <<phase, conns, conn, shut>>
           /\ rec.pc # "closing" /\ rec'.pc # "closing"
           /\ rec'.pc \in Setup => rec.pc \in Setup /\ rec'.pod = rec.pod
  BY <1>3
<1>4. ASSUME NEW p \in Pods, BeginPod(p) PROVE ConnectionsOwned'
  BY <1>1, <1>4 DEF BeginPod, others, clusterVars, telemetryVars, RecType
<1>5. ASSUME NEW p \in Pods, BeginEnd(p) PROVE ConnectionsOwned'
  BY <1>1, <1>3, <1>5 DEF BeginEnd, others, clusterVars, telemetryVars, RecType
<1>6. CASE EnsureConnection
  <2>1. rec.pod \in Pods /\ rec.pc = "ensure" /\ shut.pods = {} /\ ~conn[rec.pod].stop
    BY <1>6 DEF EnsureConnection, ReconcileKnowsPod, ClosingAlone
  <2>2. /\ conns' = conns \cup {rec.pod} /\ UNCHANGED <<phase, shut>>
        /\ rec'.pc = "add" /\ rec'.pod = rec.pod
    BY <1>1, <1>6 DEF EnsureConnection, others, clusterVars, RecType
  <2>3. /\ \A p \in Pods \ {rec.pod} : conn'[p] = conn[p]
        /\ \A p \in Pods : conn'[p].stop = conn[p].stop
    BY <1>1, <1>6, <2>1 DEF EnsureConnection, ConnType
  <2> QED
    BY <1>1, <2>1, <2>2, <2>3
<1>7. CASE StoreWorker \/ RecordPod
  <2>1. CASE StoreWorker
    BY <1>1, <1>3, <2>1 DEF StoreWorker, others, clusterVars, telemetryVars, RecType
  <2>2. CASE RecordPod
    BY <1>3, <2>2 DEF RecordPod, recIdle, others, clusterVars, telemetryVars
  <2> QED
    BY <1>7, <2>1, <2>2
<1>8. ASSUME NEW c \in CPUs, AddCPUScaling(c) PROVE ConnectionsOwned'
  BY <1>1, <1>3, <1>8 DEF AddCPUScaling, others, clusterVars, telemetryVars, RecType
<1>9. ASSUME NEW c \in CPUs, RemoveCPUScaling(c) PROVE ConnectionsOwned'
  BY <1>1, <1>3, <1>9 DEF RemoveCPUScaling, others, clusterVars, telemetryVars, RecType
<1>10. CASE StopWorker \/ ForgetPod
  <2>1. CASE StopWorker
    BY <1>1, <1>3, <2>1 DEF StopWorker, others, clusterVars, telemetryVars, RecType
  <2>2. CASE ForgetPod
    BY <1>3, <2>2 DEF ForgetPod, recIdle, others, clusterVars, telemetryVars
  <2> QED
    BY <1>10, <2>1, <2>2
<1>11. CASE CloseConnection
  <2>1. rec.pod \in Pods /\ rec.pc = "close" /\ phase[rec.pod] = "done"
    BY <1>11 DEF CloseConnection, ReconcileKnowsPod, Ending
  <2>2. CASE rec.pod \in conns
    <3>1. /\ rec'.pc = "closing" /\ rec'.pod = rec.pod /\ conns' = conns \ {rec.pod}
          /\ UNCHANGED <<phase, shut>>
      BY <1>1, <1>11, <2>2 DEF CloseConnection, others, clusterVars, RecType
    <3>2. \A p \in Pods \ {rec.pod} : conn'[p] = conn[p]
      BY <1>1, <1>11, <2>1, <2>2 DEF CloseConnection
    <3> QED
      BY <1>1, <2>1, <3>1, <3>2
  <2>3. CASE rec.pod \notin conns
    BY <1>1, <1>3, <1>11, <2>1, <2>3 DEF CloseConnection, others, clusterVars, RecType
  <2> QED
    BY <2>2, <2>3
<1>12. CASE ClearMetrics
  BY <1>1, <1>12 DEF ClearMetrics, others, clusterVars, RecType
<1>13. ASSUME NEW p \in Pods, ConnStep(p) PROVE ConnectionsOwned'
  BY <1>1, <1>13, ConnEffect DEF ReconcileKnowsPod, clusterVars
<1>14. ASSUME NEW p \in Pods, CancelOne(p) PROVE ConnectionsOwned'
  <2>1. UNCHANGED <<phase, conns, rec, shut>> /\ rec.pc = "idle" /\ p \in shut.pods /\ shut.pc = "close"
    BY <1>14 DEF CancelOne, ClosingAlone, callers, clusterVars
  <2>2. /\ \A q \in Pods \ {p} : conn'[q] = conn[q]
        /\ conn'[p].pc = conn[p].pc
    BY <1>1, <1>14 DEF CancelOne, ConnType
  <2> QED
    BY <1>1, <2>1, <2>2
<1>15. ASSUME NEW p \in Pods, CloseOne(p) PROVE ConnectionsOwned'
  BY <1>1, <1>15 DEF CloseOne, callers, clusterVars, ShutType
<1>16. ASSUME NEW c \in CPUs, StopManaged(c) PROVE ConnectionsOwned'
  BY <1>1, <1>2, <1>16 DEF StopManaged, callers, clusterVars, telemetryVars, ShutType
<1>17. CASE StopManagedWait \/ Exit \/ Signal
  BY <1>1, <1>2, <1>17 DEF StopManagedWait, Exit, Signal, callers, clusterVars, telemetryVars, ShutType
<1>18. CASE ManagerReturns
  BY <1>1, <1>18 DEF ManagerReturns, ClosingAlone, callers, clusterVars, telemetryVars, ShutType
<1>19. ASSUME NEW w \in Workers, WorkerStep(w) PROVE ConnectionsOwned'
  BY <1>2, <1>19 DEF WorkerStep, ExitLoop, Sample, GetCurrentCPUFrequency, Hold, Apply, clusterVars, telemetryVars
<1>20. ASSUME NEW o \in Policies \cup {policy}, NEW s \in BOOLEAN, ChangePolicy(o, s) PROVE ConnectionsOwned'
  BY <1>2, <1>20 DEF ChangePolicy, telemetryVars
<1>21. ASSUME NEW p \in Pods, StartPod(p) \/ StopPod(p) PROVE ConnectionsOwned'
  BY <1>1, <1>21 DEF StartPod, StopPod, telemetryVars
<1>up. CASE CatchUp
  BY <1>2, <1>up DEF CatchUp, clusterVars, telemetryVars
<1>22. CASE UNCHANGED vars
  BY <1>2, <1>22 DEF vars, clusterVars, telemetryVars
<1> QED
  BY <1>4, <1>5, <1>6, <1>7, <1>8, <1>9, <1>10, <1>11, <1>12, <1>13, <1>14, <1>15, <1>16, <1>17,
     <1>18, <1>19, <1>20, <1>21, <1>22, <1>up DEF Next, RecStep, ShutStep, Rest, Ended

LEMMA NextUsageIsLive ==
    ASSUME TypeOK, ReconcileKnowsPod, ClosingAlone, ConnectionsOwned, UsageIsLive, [Next]_vars
    PROVE  UsageIsLive'
<1> USE DEF UsageIsLive
<1>1. /\ rec \in RecType /\ shut \in ShutType /\ conn \in [Pods -> ConnType]
      /\ usage \in [CPUs -> Usages \cup {NoUsage}]
  BY DEF TypeOK
<1>2. CASE /\ UNCHANGED <<conn, usage>> /\ shut'.pods = shut.pods
           /\ rec' = rec \/ rec.pc # "closing"
  BY <1>2
<1>3. ASSUME NEW p \in Pods, BeginPod(p) \/ BeginEnd(p) PROVE UsageIsLive'
  BY <1>2, <1>3 DEF BeginPod, BeginEnd, others, telemetryVars
<1>4. CASE StoreWorker \/ RecordPod \/ StopWorker \/ ForgetPod
  BY <1>2, <1>4 DEF StoreWorker, RecordPod, StopWorker, ForgetPod, others, telemetryVars
<1>5. ASSUME NEW c \in CPUs, AddCPUScaling(c) \/ RemoveCPUScaling(c) PROVE UsageIsLive'
  BY <1>2, <1>5 DEF AddCPUScaling, RemoveCPUScaling, others, telemetryVars
<1>6. CASE EnsureConnection
  <2>1. rec.pod \in Pods /\ rec.pc = "ensure" /\ shut.pods = {} /\ UNCHANGED <<usage, shut>>
    BY <1>6 DEF EnsureConnection, ReconcileKnowsPod, ClosingAlone, others
  <2>2. \A p \in Pods : conn[p].pc = "reading" => conn'[p] = conn[p]
    BY <1>1, <1>6, <2>1 DEF EnsureConnection, ConnectionsOwned
  <2> QED
    BY <1>1, <2>1, <2>2
<1>7. CASE CloseConnection
  <2>1. rec.pod \in Pods /\ rec.pc = "close" /\ shut.pods = {} /\ UNCHANGED <<usage, shut>>
    BY <1>7 DEF CloseConnection, ReconcileKnowsPod, ClosingAlone, others
  <2>2. \A p \in Pods : conn'[p].pc = conn[p].pc
    BY <1>1, <1>7, <2>1 DEF CloseConnection, ConnType
  <2> QED
    BY <1>1, <2>1, <2>2
<1>8. CASE ClearMetrics
  <2>1. /\ rec.pod \in Pods /\ rec.pc = "closing" /\ UNCHANGED <<conn, shut>>
        /\ \A c \in CPUs : usage'[c] = IF c \in podCpus[rec.pod] THEN NoUsage ELSE usage[c]
    BY <1>8 DEF ClearMetrics, ReconcileKnowsPod, others, Cleared
  <2> QED
    BY <1>1, <2>1
<1>9. ASSUME NEW p \in Pods, Connect(p) PROVE UsageIsLive'
  BY <1>1, <1>9 DEF Connect, ConnType
<1>10. ASSUME NEW p \in Pods, Poll(p) PROVE UsageIsLive'
  <2>1. /\ UNCHANGED <<conn, rec, shut>> /\ conn[p].pc = "reading"
        /\ \A c \in CPUs \ podCpus[p] : usage'[c] = usage[c]
    BY <1>1, <1>10 DEF Poll
  <2> QED
    BY <2>1
<1>11. ASSUME NEW p \in Pods, Disconnect(p) PROVE UsageIsLive'
  <2>1. /\ UNCHANGED <<rec, shut>> /\ conn[p].pc = "reading"
        /\ \A c \in CPUs : usage'[c] = IF c \in podCpus[p] THEN NoUsage ELSE usage[c]
        /\ \A q \in Pods \ {p} : conn'[q] = conn[q]
    BY <1>1, <1>11 DEF Disconnect, Cleared
  <2> QED
    BY <1>1, <2>1
<1>12. ASSUME NEW p \in Pods, LeaveLoops(p) PROVE UsageIsLive'
  <2>1. /\ UNCHANGED <<rec, shut, usage>> /\ conn'[p].pc = "done"
        /\ \A q \in Pods \ {p} : conn'[q] = conn[q]
    BY <1>1, <1>12 DEF LeaveLoops, ConnType
  <2>2. (rec.pc = "closing" /\ rec.pod = p) \/ p \in shut.pods
    BY <1>12 DEF LeaveLoops, ConnectionsOwned
  <2> QED
    BY <1>1, <2>1, <2>2
<1>13. ASSUME NEW p \in Pods, CancelOne(p) PROVE UsageIsLive'
  BY <1>1, <1>13 DEF CancelOne, callers, ConnType
<1>14. ASSUME NEW p \in Pods, CloseOne(p) PROVE UsageIsLive'
  <2>1. /\ UNCHANGED <<rec, conn>> /\ shut'.pods = shut.pods \ {p}
        /\ \A c \in CPUs : usage'[c] = IF c \in podCpus[p] THEN NoUsage ELSE usage[c]
    BY <1>1, <1>14 DEF CloseOne, Cleared, callers, ShutType
  <2> QED
    BY <1>1, <2>1
<1>15. ASSUME NEW c \in CPUs, StopManaged(c) PROVE UsageIsLive'
  BY <1>1, <1>2, <1>15 DEF StopManaged, callers, telemetryVars, ShutType
<1>16. CASE StopManagedWait \/ Exit \/ Signal
  BY <1>1, <1>2, <1>16 DEF StopManagedWait, Exit, Signal, callers, telemetryVars, ShutType
<1>17. CASE ManagerReturns
  BY <1>1, <1>17 DEF ManagerReturns, ClosingAlone, callers, telemetryVars, ShutType
<1>18. ASSUME NEW w \in Workers, WorkerStep(w) PROVE UsageIsLive'
  BY <1>2, <1>18 DEF WorkerStep, ExitLoop, Sample, GetCurrentCPUFrequency, Hold, Apply, telemetryVars
<1>19. ASSUME NEW o \in Policies \cup {policy}, NEW s \in BOOLEAN, ChangePolicy(o, s) PROVE UsageIsLive'
  BY <1>2, <1>19 DEF ChangePolicy, telemetryVars
<1>20. ASSUME NEW p \in Pods, StartPod(p) \/ StopPod(p) PROVE UsageIsLive'
  BY <1>2, <1>20 DEF StartPod, StopPod, telemetryVars
<1>up. CASE CatchUp
  BY <1>2, <1>up DEF CatchUp, telemetryVars
<1>21. CASE UNCHANGED vars
  BY <1>2, <1>21 DEF vars, telemetryVars
<1> QED
  BY <1>3, <1>4, <1>5, <1>6, <1>7, <1>8, <1>9, <1>10, <1>11, <1>12, <1>13, <1>14, <1>15, <1>16,
     <1>17, <1>18, <1>19, <1>20, <1>21, <1>up DEF Next, RecStep, ShutStep, ConnStep, Rest, Ended

LEMMA NextCpusHandedOver ==
    ASSUME TypeOK, ReconcileKnowsPod, CpusHandedOver, EndedReconciled, [Next]_vars
    PROVE  CpusHandedOver'
<1> USE DEF CpusHandedOver
<1>1. /\ rec \in RecType /\ phase \in [Pods -> {"none", "running", "done"}]
      /\ rec.pc # "idle" => rec.pod \in Pods
  BY DEF TypeOK, ReconcileKnowsPod
<1>2. CASE UNCHANGED <<phase, recorded, seen, rec>>
  BY <1>2
<1>3. CASE /\ UNCHANGED <<phase, recorded, seen>> /\ rec.pc # "idle" /\ rec'.pod = rec.pod
           /\ \/ rec.pc \in {"ensure", "add", "store", "stopping"}
              \/ rec.rest = {} /\ rec'.rest = {} /\ rec'.pc \in {"close", "closing", "remove"}
              \/ rec.rest # {}
  BY <1>1, <1>3
<1>4. ASSUME NEW p \in Pods, BeginPod(p) PROVE CpusHandedOver'
  BY <1>1, <1>4 DEF BeginPod, others, clusterVars, entryVars, RecType
<1>5. ASSUME NEW p \in Pods, BeginEnd(p) PROVE CpusHandedOver'
  BY <1>1, <1>5 DEF BeginEnd, forgetting, others, clusterVars, RecType
<1>6. CASE EnsureConnection \/ StoreWorker \/ StopWorker
  BY <1>1, <1>3, <1>6 DEF EnsureConnection, StoreWorker, StopWorker, others, clusterVars, entryVars, RecType
<1>7. CASE CloseConnection \/ ClearMetrics
  BY <1>1, <1>3, <1>7 DEF CloseConnection, ClearMetrics, others, clusterVars, entryVars, RecType
<1>8. ASSUME NEW c \in CPUs, AddCPUScaling(c) PROVE CpusHandedOver'
  BY <1>1, <1>3, <1>8 DEF AddCPUScaling, others, clusterVars, entryVars, RecType
<1>9. ASSUME NEW c \in CPUs, RemoveCPUScaling(c) PROVE CpusHandedOver'
  BY <1>1, <1>3, <1>9 DEF RemoveCPUScaling, others, clusterVars, entryVars, RecType
<1>10. CASE RecordPod
  BY <1>1, <1>10 DEF RecordPod, recIdle, others, clusterVars
<1>11. CASE ForgetPod
  BY <1>1, <1>11 DEF ForgetPod, recIdle, others, clusterVars
<1>12. ASSUME NEW p \in Pods, StartPod(p) PROVE CpusHandedOver'
  <2>1. /\ phase[p] = "none" /\ shut.pc = "no"
        /\ phase' = [phase EXCEPT ![p] = "running"] /\ UNCHANGED <<recorded, seen, rec>>
    BY <1>12 DEF StartPod, Edit, entryVars
  <2>2. \A q \in Pods \ {p} : podCpus[p] \cap podCpus[q] # {} =>
           \/ phase[q] = "none"
           \/ phase[q] = "done" /\ q \notin recorded \cup seen.pods /\ rec.pod # q
    BY <1>12, <2>1 DEF StartPod, EndedReconciled
  <2>3. \A q \in Pods : podCpus[p] \cap podCpus[q] = podCpus[q] \cap podCpus[p]
    OBVIOUS
  <2>4. \A q \in Pods \ {p} : phase'[q] = phase[q]
    BY <1>1, <2>1
  <2> QED
    BY <1>1, <2>1, <2>2, <2>3, <2>4
<1>13. ASSUME NEW p \in Pods, StopPod(p) PROVE CpusHandedOver'
  BY <1>1, <1>13 DEF StopPod, entryVars
<1>14. ASSUME NEW w \in Workers, WorkerStep(w) PROVE CpusHandedOver'
  BY <1>2, <1>14 DEF WorkerStep, ExitLoop, Sample, GetCurrentCPUFrequency, Hold, Apply, clusterVars, entryVars
<1>15. ASSUME NEW p \in Pods, ConnStep(p) PROVE CpusHandedOver'
  BY <1>2, <1>15 DEF ConnStep, Connect, Poll, Disconnect, LeaveLoops, clusterVars, entryVars
<1>16. CASE ShutStep \/ Signal
  BY <1>2, <1>16 DEF ShutStep, Signal, StopManaged, CancelOne, CloseOne, StopManagedWait,
     ManagerReturns, Exit, callers, clusterVars, entryVars
<1>17. ASSUME NEW o \in Policies \cup {policy}, NEW s \in BOOLEAN, ChangePolicy(o, s) PROVE CpusHandedOver'
  BY <1>2, <1>17 DEF ChangePolicy, entryVars
<1>up. CASE CatchUp
  BY <1>up DEF CatchUp, clusterVars
<1>18. CASE UNCHANGED vars
  BY <1>2, <1>18 DEF vars, clusterVars, entryVars
<1> QED
  BY <1>4, <1>5, <1>6, <1>7, <1>8, <1>9, <1>10, <1>11, <1>12, <1>13, <1>14, <1>15, <1>16, <1>17,
     <1>18, <1>up DEF Next, RecStep, Rest, Ended

LEMMA NextEndedReconciled ==
    ASSUME TypeOK, ReconcileKnowsPod, EndedReconciled, [Next]_vars
    PROVE  EndedReconciled'
<1> USE DEF EndedReconciled, Ending
<1>1. /\ rec \in RecType /\ shut \in ShutType /\ phase \in [Pods -> {"none", "running", "done"}]
      /\ rec.pc # "idle" => rec.pod \in Pods
  BY DEF TypeOK, ReconcileKnowsPod
<1>2. CASE UNCHANGED <<phase, queue, recorded, unclosed, rec, conns, shut>>
  BY <1>2
<1>3. CASE /\ UNCHANGED <<phase, queue, recorded, unclosed, conns, shut>> /\ rec'.pod = rec.pod
           /\ \/ rec.pc \notin Ending
              \/ rec'.pc \in Ending /\ rec.pc # "close"
  BY <1>3
<1>4. ASSUME NEW p \in Pods, BeginPod(p) \/ BeginEnd(p) PROVE EndedReconciled'
  <2>1. CASE BeginPod(p)
    BY <1>1, <2>1 DEF BeginPod, others, clusterVars, telemetryVars, RecType
  <2>2. CASE BeginEnd(p)
    BY <1>1, <2>2 DEF BeginEnd, forgetting, others, clusterVars, telemetryVars, RecType
  <2> QED
    BY <1>4, <2>1, <2>2
<1>5. CASE EnsureConnection
  <2>1. phase[rec.pod] = "running" \/ (phase[rec.pod] = "done" /\ rec.pod \in queue)
    BY <1>5 DEF EnsureConnection, ReconcileKnowsPod, Setup
  <2> QED
    BY <1>1, <1>5, <2>1 DEF EnsureConnection, others, clusterVars, entryVars, RecType
<1>6. CASE StoreWorker \/ ClearMetrics \/ StopWorker
  BY <1>1, <1>3, <1>6 DEF StoreWorker, ClearMetrics, StopWorker, others, clusterVars, entryVars,
     telemetryVars, RecType
<1>7. ASSUME NEW c \in CPUs, AddCPUScaling(c) PROVE EndedReconciled'
  BY <1>1, <1>3, <1>7 DEF AddCPUScaling, others, clusterVars, entryVars, telemetryVars, RecType
<1>8. ASSUME NEW c \in CPUs, RemoveCPUScaling(c) PROVE EndedReconciled'
  BY <1>1, <1>3, <1>8 DEF RemoveCPUScaling, others, clusterVars, entryVars, telemetryVars, RecType
<1>9. CASE RecordPod
  <2>1. phase[rec.pod] = "running" \/ (phase[rec.pod] = "done" /\ rec.pod \in queue)
    BY <1>9 DEF RecordPod, ReconcileKnowsPod, Setup
  <2> QED
    BY <1>1, <1>9, <2>1 DEF RecordPod, recIdle, others, clusterVars, telemetryVars
<1>10. CASE ForgetPod
  BY <1>1, <1>10 DEF ForgetPod, recIdle, others, clusterVars, telemetryVars
<1>11. CASE CloseConnection
  BY <1>1, <1>11 DEF CloseConnection, others, clusterVars, entryVars, RecType
<1>12. CASE shut'.pc # "no"
  BY <1>12
<1>13. ASSUME NEW c \in CPUs, StopManaged(c) PROVE EndedReconciled'
  BY <1>1, <1>12, <1>13 DEF StopManaged, ShutType
<1>14. ASSUME NEW p \in Pods, CancelOne(p) \/ CloseOne(p) PROVE EndedReconciled'
  BY <1>1, <1>12, <1>14 DEF CancelOne, CloseOne, ShutType
<1>15. CASE StopManagedWait \/ ManagerReturns \/ Exit \/ Signal
  BY <1>1, <1>12, <1>15 DEF StopManagedWait, ManagerReturns, Exit, Signal, ShutType
<1>16. ASSUME NEW w \in Workers, WorkerStep(w) PROVE EndedReconciled'
  BY <1>2, <1>16 DEF WorkerStep, ExitLoop, Sample, GetCurrentCPUFrequency, Hold, Apply, clusterVars, entryVars, telemetryVars
<1>17. ASSUME NEW p \in Pods, ConnStep(p) PROVE EndedReconciled'
  BY <1>2, <1>17 DEF ConnStep, Connect, Poll, Disconnect, LeaveLoops, clusterVars, entryVars
<1>18. ASSUME NEW o \in Policies \cup {policy}, NEW s \in BOOLEAN, ChangePolicy(o, s) PROVE EndedReconciled'
  BY <1>18 DEF ChangePolicy, entryVars, telemetryVars
<1>19. ASSUME NEW p \in Pods, StartPod(p) \/ StopPod(p) PROVE EndedReconciled'
  BY <1>1, <1>19 DEF StartPod, StopPod, entryVars, telemetryVars
<1>up. CASE CatchUp
  BY <1>2, <1>up DEF CatchUp, clusterVars, entryVars, telemetryVars
<1>20. CASE UNCHANGED vars
  BY <1>2, <1>20 DEF vars, clusterVars, entryVars, telemetryVars
<1> QED
  BY <1>4, <1>5, <1>6, <1>7, <1>8, <1>9, <1>10, <1>11, <1>13, <1>14, <1>15, <1>16, <1>17, <1>18,
     <1>19, <1>20, <1>up DEF Next, RecStep, ShutStep, Rest, Ended

\* The reconcile of another pod leaves the CPUs of a running pod alone.
LEMMA NotItsCpu ==
    ASSUME TypeOK, ReconcileKnowsPod, CpusHandedOver, NEW p \in Pods, phase[p] = "running",
           rec.pc # "idle", rec.pod # p, NEW c \in rec.rest
    PROVE  c \notin podCpus[p]
<1>1. rec.pod \in Pods /\ c \in podCpus[rec.pod]
  BY DEF ReconcileKnowsPod
<1> SUFFICES ASSUME c \in podCpus[p] PROVE FALSE
  OBVIOUS
<1>2. podCpus[p] \cap podCpus[rec.pod] # {}
  BY <1>1
<1>3. phase[rec.pod] = "none"
  BY <1>1, <1>2 DEF CpusHandedOver
<1>4. rec.pc \notin Ending \cup Setup
  BY <1>3 DEF ReconcileKnowsPod
<1> QED
  BY <1>4 DEF TypeOK, RecType, RecStates, Ending, Setup

LEMMA NextScaledSoFar ==
    ASSUME TypeOK, ReconcileKnowsPod, ManagedRuns, CallersHold, WorkersInReach,
           CpusHandedOver, ScaledSoFar, [Next]_vars
    PROVE  ScaledSoFar'
<1> USE DEF ScaledSoFar
<1>1. /\ rec \in RecType /\ shut \in ShutType /\ phase \in [Pods -> {"none", "running", "done"}]
      /\ worker \in [Workers -> WorkerType] /\ workers \in [CPUs -> Workers \cup {NoWorker}]
      /\ rec.pc # "idle" => rec.pod \in Pods
      /\ rec.cur \in Workers \cup {NoWorker}
      /\ \A p \in Pods : podCpus[p] \subseteq CPUs
  BY CpusOfPods DEF TypeOK, ReconcileKnowsPod, RecType
\* Scaled looks at the policies of the manager's workers only.
<1>2. ASSUME UNCHANGED policy, NEW c, workers'[c] = workers[c],
             workers[c] # NoWorker => effective(worker'[workers[c]]) = effective(worker[workers[c]])
      PROVE  Scaled(c)' <=> Scaled(c)
  BY <1>2 DEF Scaled, scaledPolicy, effective
<1>3. ASSUME UNCHANGED <<policy, scalingVars>> PROVE \A c : Scaled(c)' <=> Scaled(c)
  BY <1>2, <1>3 DEF scalingVars
<1>4. CASE UNCHANGED <<policy, phase, queue, unaware, conns, rec, shut, scalingVars>>
  BY <1>3, <1>4
<1>5. ASSUME NEW w \in Workers, WorkerStep(w) PROVE ScaledSoFar'
  <2>1. UNCHANGED <<policy, phase, queue, unaware, conns, rec, shut, workers>>
    BY <1>5, WorkerEffect DEF clusterVars, profileVars, entryVars, profileVars, entryVars, telemetryVars
  <2>2. \A c \in CPUs : Scaled(c)' <=> Scaled(c)
    BY <1>1, <1>2, <1>5, <2>1, WorkerEffect
  <2> QED
    BY <1>1, <2>1, <2>2
<1>6. ASSUME NEW p \in Pods, BeginPod(p) PROVE ScaledSoFar'
  <2>1. /\ UNCHANGED <<policy, phase, conns, shut, scalingVars>> /\ queue' = queue \ {p}
        /\ unaware' = unaware \ {p}
        /\ rec.pc = "idle" /\ rec'.pod = p /\ rec'.pol = policy
        /\ policy # NoPolicy => rec'.pc = "ensure"
    BY <1>1, <1>6 DEF BeginPod, others, clusterVars, profileVars, entryVars, telemetryVars, RecType
  <2> QED
    BY <1>3, <2>1
<1>7. ASSUME NEW p \in Pods, BeginEnd(p) PROVE ScaledSoFar'
  <2>1. /\ UNCHANGED <<policy, phase, unaware, conns, shut, scalingVars>> /\ queue' = queue \ {p}
        /\ rec.pc = "idle" /\ rec'.pod = p /\ phase[p] = "done"
    BY <1>1, <1>7 DEF BeginEnd, forgetting, others, clusterVars, profileVars, entryVars, telemetryVars, RecType
  <2> QED
    BY <1>3, <2>1
<1>8. CASE EnsureConnection
  <2>1. /\ UNCHANGED <<policy, phase, queue, unaware, shut, scalingVars>> /\ conns' = conns \cup {rec.pod}
        /\ rec.pc = "ensure" /\ rec'.pc = "add" /\ rec'.pod = rec.pod /\ rec'.pol = rec.pol
        /\ rec'.rest = podCpus[rec.pod]
    BY <1>1, <1>8 DEF EnsureConnection, others, clusterVars, profileVars, entryVars, RecType
  <2> QED
    BY <1>3, <2>1
<1>9. CASE StoreWorker
  <2>1. rec.pc = "store" /\ rec.cur \in Workers /\ worker[rec.cur].cpu \in CPUs
    BY <1>1, <1>9 DEF StoreWorker, CallersHold, WorkersInReach
  <2>2. PICK d \in CPUs : d = worker[rec.cur].cpu
    BY <2>1
  <2>3. /\ UNCHANGED <<policy, phase, queue, unaware, conns, shut, worker>>
        /\ rec'.pc = "add" /\ rec'.pod = rec.pod /\ rec'.pol = rec.pol /\ rec'.rest = rec.rest \ {d}
        /\ workers' = [workers EXCEPT ![d] = rec.cur]
    BY <1>1, <1>9, <2>2 DEF StoreWorker, others, clusterVars, profileVars, entryVars, telemetryVars, RecType
  <2>4. /\ workers[d] = NoWorker
        /\ worker[rec.cur].next = NoOpts /\ worker[rec.cur].opts.policy = rec.pol
    BY <2>1, <2>2 DEF CallersHold
  <2>5. \A c \in CPUs \ {d} : Scaled(c)' <=> Scaled(c)
    BY <1>1, <1>2, <2>3
  <2>6. ~Scaled(d) /\ (rec.pol = policy => Scaled(d)')
    BY <1>1, <2>1, <2>3, <2>4 DEF Scaled, scaledPolicy
  <2> QED
    BY <1>1, <2>1, <2>3, <2>5, <2>6
<1>10. CASE RecordPod
  <2>1. /\ UNCHANGED <<policy, phase, unaware, conns, shut, scalingVars>>
        /\ queue' = queue \/ queue' = queue \cup {rec.pod}
        /\ rec.pc = "record" \/ (rec.pc = "add" /\ rec.rest = {})
        /\ rec'.pc = "idle"
    BY <1>10 DEF RecordPod, recIdle, others, clusterVars, profileVars, entryVars, telemetryVars
  <2> QED
    BY <1>3, <2>1
<1>11. ASSUME NEW c \in CPUs, AddCPUScaling(c) PROVE ScaledSoFar'
  <2>1. /\ UNCHANGED <<policy, phase, queue, unaware, conns, shut, workers>> /\ rec.pc = "add" /\ c \in rec.rest
        /\ rec.pol \in Policies
    BY <1>11 DEF AddCPUScaling, others, clusterVars, profileVars, entryVars, telemetryVars, ReconcileKnowsPod
  <2>2. CASE workers[c] # NoWorker
    <3>1. /\ workers[c] \in Workers /\ worker' = [worker EXCEPT ![workers[c]].next = NewOpts(rec.pol)]
          /\ rec'.pc = "add" /\ rec'.pod = rec.pod /\ rec'.pol = rec.pol /\ rec'.rest = rec.rest \ {c}
      BY <1>1, <1>11, <2>2 DEF AddCPUScaling, RecType
    <3>2. worker'[workers[c]].next = NewOpts(rec.pol)
      BY <1>1, <3>1 DEF WorkerType
    <3>3. NewOpts(rec.pol) # NoOpts /\ NewOpts(rec.pol).policy = rec.pol
      BY <2>1, NoPolicyIsNone DEF NewOpts, NoOpts
    <3>4. rec.pol = policy => Scaled(c)'
      BY <2>1, <2>2, <3>2, <3>3 DEF Scaled, scaledPolicy
    <3>5. \A b \in CPUs \ {c} : workers[b] = NoWorker \/ workers[b] # workers[c]
      BY <2>2 DEF ManagedRuns
    <3>6. \A b \in CPUs \ {c} : Scaled(b)' <=> Scaled(b)
      BY <1>1, <1>2, <2>1, <3>1, <3>5
    <3>7. \A p \in Pods : phase[p] = "running" /\ rec.pod # p => c \notin podCpus[p]
      BY <2>1, NotItsCpu
    <3> QED
      BY <1>1, <2>1, <3>1, <3>4, <3>6, <3>7
  <2>3. CASE workers[c] = NoWorker
    <3>1. PICK w \in Workers :
              /\ worker[w].pc = "none" /\ rec' = [rec EXCEPT !.pc = "store", !.cur = w]
              /\ worker' = [worker EXCEPT ![w] =
                    [NoObject EXCEPT !.pc = "select", !.cpu = c, !.opts = NewOpts(rec.pol)]]
      BY <1>11, <2>3 DEF AddCPUScaling
    <3>2. \A b \in CPUs : workers[b] # w
      BY <3>1 DEF ManagedRuns, Running
    <3>3. \A b \in CPUs : Scaled(b)' <=> Scaled(b)
      BY <1>1, <1>2, <2>1, <3>1, <3>2
    <3>4. rec'.pc = "store" /\ rec'.pod = rec.pod /\ rec'.pol = rec.pol /\ rec'.rest = rec.rest
      BY <1>1, <3>1 DEF RecType
    <3> QED
      BY <1>1, <2>1, <3>3, <3>4
  <2> QED
    BY <2>2, <2>3
<1>12. ASSUME NEW c \in CPUs, RemoveCPUScaling(c) PROVE ScaledSoFar'
  <2>1. /\ UNCHANGED <<policy, phase, queue, unaware, conns, shut>> /\ rec.pc = "remove" /\ c \in rec.rest
        /\ rec'.pod = rec.pod /\ phase[rec.pod] = "done"
    BY <1>1, <1>12 DEF RemoveCPUScaling, others, clusterVars, profileVars, entryVars, telemetryVars, ReconcileKnowsPod, Ending, RecType
  <2>2. \A p \in Pods : phase[p] = "running" => p # rec.pod /\ c \notin podCpus[p]
    BY <2>1, NotItsCpu
  <2>3. \A b \in CPUs \ {c} : Scaled(b)' <=> Scaled(b)
    <3>1. CASE workers[c] = NoWorker
      BY <1>3, <1>12, <2>1, <3>1 DEF RemoveCPUScaling
    <3>2. CASE workers[c] # NoWorker
      <4>1. \A b \in CPUs \ {c} : workers[b] = NoWorker \/ workers[b] # workers[c]
        BY <3>2 DEF ManagedRuns
      <4>2. /\ worker' = [worker EXCEPT ![workers[c]].stop = TRUE]
            /\ workers' = [workers EXCEPT ![c] = NoWorker]
        BY <1>12, <3>2 DEF RemoveCPUScaling
      <4> QED
        BY <1>1, <1>2, <2>1, <4>1, <4>2
    <3> QED
      BY <3>1, <3>2
  <2> QED
    BY <1>1, <2>1, <2>2, <2>3
<1>13. CASE CloseConnection \/ ClearMetrics
  <2>1. /\ UNCHANGED <<policy, phase, queue, unaware, shut, scalingVars>> /\ conns \ {rec.pod} \subseteq conns'
        /\ rec.pc # "idle" /\ rec'.pod = rec.pod /\ phase[rec.pod] = "done"
    BY <1>1, <1>13 DEF CloseConnection, ClearMetrics, others, clusterVars, profileVars, entryVars, ReconcileKnowsPod, Ending, RecType
  <2> QED
    BY <1>3, <2>1
<1>14. CASE StopWorker
  <2>1. /\ UNCHANGED <<policy, phase, queue, unaware, conns, shut, workers>> /\ rec.pc = "stopping"
        /\ rec'.pod = rec.pod /\ phase[rec.pod] = "done" /\ rec.cur \in Workers
        /\ worker' = [worker EXCEPT ![rec.cur] = NoObject]
    BY <1>1, <1>14 DEF StopWorker, others, clusterVars, profileVars, entryVars, telemetryVars, ReconcileKnowsPod, CallersHold,
       Ending, RecType
  <2>2. \A b \in CPUs : workers[b] = NoWorker \/ workers[b] # rec.cur
    BY DEF ManagedRuns
  <2>3. \A b \in CPUs : Scaled(b)' <=> Scaled(b)
    BY <1>1, <1>2, <2>1, <2>2
  <2> QED
    BY <1>1, <2>1, <2>3
<1>15. CASE ForgetPod
  <2>1. /\ UNCHANGED <<policy, phase, unaware, conns, shut, scalingVars>> /\ queue \subseteq queue'
        /\ rec.pc = "remove" /\ phase[rec.pod] = "done" /\ rec'.pc = "idle"
    BY <1>15 DEF ForgetPod, recIdle, others, clusterVars, profileVars, entryVars, telemetryVars, ReconcileKnowsPod, Ending
  <2> QED
    BY <1>3, <2>1
<1>16. CASE shut'.pc # "no"
  BY <1>16
<1>17. ASSUME NEW c \in CPUs, StopManaged(c) PROVE ScaledSoFar'
  BY <1>1, <1>16, <1>17 DEF StopManaged, ShutType
<1>18. ASSUME NEW p \in Pods, CancelOne(p) \/ CloseOne(p) PROVE ScaledSoFar'
  BY <1>1, <1>16, <1>18 DEF CancelOne, CloseOne, ShutType
<1>19. CASE StopManagedWait \/ ManagerReturns \/ Exit \/ Signal
  BY <1>1, <1>16, <1>19 DEF StopManagedWait, ManagerReturns, Exit, Signal, ShutType
<1>20. ASSUME NEW p \in Pods, ConnStep(p) PROVE ScaledSoFar'
  BY <1>4, <1>20 DEF ConnStep, Connect, Poll, Disconnect, LeaveLoops, clusterVars, profileVars, entryVars
<1>21. ASSUME NEW o \in Policies \cup {policy}, NEW s \in BOOLEAN, ChangePolicy(o, s) PROVE ScaledSoFar'
  <2>1. UNCHANGED <<phase, conns, rec, shut, scalingVars>> /\ policy' = o
    BY <1>21 DEF ChangePolicy, telemetryVars
  <2>2. CASE o = policy /\ UNCHANGED <<queue, unaware>>
    BY <1>4, <2>1, <2>2
  <2>3. CASE \/ queue' = queue \cup {p \in Pods : phase[p] # "none"}
             \/ unaware' = {p \in Pods : phase[p] = "running"}
    BY <2>1, <2>3
  <2> QED
    BY <1>21, <2>2, <2>3 DEF ChangePolicy
<1>22. ASSUME NEW p \in Pods, StartPod(p) \/ StopPod(p) PROVE ScaledSoFar'
  <2>1. /\ UNCHANGED <<policy, unaware, conns, shut, rec, scalingVars>> /\ queue' = queue \cup {p}
        /\ \A q \in Pods \ {p} : phase'[q] = phase[q]
    BY <1>1, <1>22 DEF StartPod, StopPod, profileVars, entryVars, telemetryVars
  <2> QED
    BY <1>3, <2>1
<1>up. CASE CatchUp
  BY <1>4, <1>up DEF CatchUp, clusterVars, profileVars, entryVars, telemetryVars
<1>23. CASE UNCHANGED vars
  BY <1>4, <1>23 DEF vars, clusterVars, profileVars, entryVars, telemetryVars
<1> QED
  BY <1>5, <1>6, <1>7, <1>8, <1>9, <1>10, <1>11, <1>12, <1>13, <1>14, <1>15, <1>17, <1>18, <1>19,
     <1>20, <1>21, <1>22, <1>23, <1>up DEF Next, RecStep, ShutStep, Rest, Ended

LEMMA NextWorkersAccountedFor ==
    ASSUME TypeOK, ReconcileKnowsPod, CallersHold, WorkersInReach, WorkersAccountedFor, [Next]_vars
    PROVE  WorkersAccountedFor'
<1> USE DEF WorkersAccountedFor, Ending
<1>1. /\ rec \in RecType /\ shut \in ShutType /\ phase \in [Pods -> {"none", "running", "done"}]
      /\ workers \in [CPUs -> Workers \cup {NoWorker}]
      /\ rec.pc # "idle" => rec.pod \in Pods
  BY DEF TypeOK, ReconcileKnowsPod
<1>2. CASE UNCHANGED <<phase, lost, queue, rec, shut, workers>>
  BY <1>2
\* Steps of a reconcile that give up no CPU and no place in the queue.
<1>3. CASE /\ UNCHANGED <<phase, lost, shut, workers>> /\ queue \subseteq queue'
           /\ \/ rec.pc \notin Ending
              \/ rec.rest = {}
              \/ rec'.pc \in Ending /\ rec'.pod = rec.pod /\ rec'.rest = rec.rest
  BY <1>3
<1>4. ASSUME NEW p \in Pods, BeginPod(p) PROVE WorkersAccountedFor'
  BY <1>1, <1>4 DEF BeginPod, others, clusterVars, entryVars, scalingVars
<1>5. ASSUME NEW p \in Pods, BeginEnd(p) PROVE WorkersAccountedFor'
  <2>1. /\ UNCHANGED <<phase, shut, workers>> /\ queue' = queue \ {p} /\ rec.pc = "idle"
        /\ rec'.pc \in Ending /\ rec'.pod = p /\ rec'.rest = IF p \in seen.pods THEN podCpus[p] ELSE {}
        /\ lost' = (lost \ ({p} \cap seen.pods)) \cup Forgotten(p)
    BY <1>1, <1>5 DEF BeginEnd, forgetting, others, clusterVars, scalingVars, RecType
  <2>2. ASSUME NEW c \in CPUs, workers[c] # NoWorker, c \in podCpus[p], p \notin seen.pods
        PROVE  p \in lost' \/ \E q \in Pods : phase[q] = "running" /\ c \in podCpus[q]
    BY <2>1, <2>2 DEF Forgotten, user
  <2> QED
    BY <2>1, <2>2
<1>6. CASE EnsureConnection
  BY <1>3, <1>6 DEF EnsureConnection, others, clusterVars, entryVars, scalingVars
<1>7. CASE StoreWorker
  <2>1. PICK d : d = worker[rec.cur].cpu
    OBVIOUS
  <2>2. /\ d \in podCpus[rec.pod] /\ rec.pod \in Pods
        /\ phase[rec.pod] = "running" \/ (phase[rec.pod] = "done" /\ rec.pod \in queue)
    BY <1>7, <2>1 DEF StoreWorker, CallersHold, ReconcileKnowsPod, Setup
  <2>3. /\ UNCHANGED <<phase, lost, queue, shut>> /\ rec.pc = "store"
        /\ workers' = [workers EXCEPT ![d] = rec.cur]
    BY <1>7, <2>1 DEF StoreWorker, others, clusterVars, entryVars
  <2> QED
    BY <1>1, <2>2, <2>3
<1>8. CASE RecordPod
  BY <1>3, <1>8 DEF RecordPod, others, clusterVars, scalingVars
<1>9. ASSUME NEW c \in CPUs, AddCPUScaling(c) PROVE WorkersAccountedFor'
  BY <1>3, <1>9 DEF AddCPUScaling, others, clusterVars, entryVars
<1>10. ASSUME NEW c \in CPUs, RemoveCPUScaling(c) PROVE WorkersAccountedFor'
  <2>1. /\ UNCHANGED <<phase, lost, queue, shut>> /\ rec'.pod = rec.pod /\ rec'.pc \in Ending
        /\ rec'.rest = rec.rest \ {c}
    BY <1>1, <1>10 DEF RemoveCPUScaling, others, clusterVars, entryVars, RecType
  <2>2. workers' = [workers EXCEPT ![c] = NoWorker]
    BY <1>1, <1>10 DEF RemoveCPUScaling, scalingVars
  <2> QED
    BY <1>1, <2>1, <2>2
<1>11. CASE CloseConnection \/ ClearMetrics
  BY <1>1, <1>3, <1>11 DEF CloseConnection, ClearMetrics, others, clusterVars, entryVars, scalingVars, RecType
<1>12. CASE StopWorker
  BY <1>1, <1>3, <1>12 DEF StopWorker, others, clusterVars, entryVars, RecType
<1>13. CASE ForgetPod
  BY <1>3, <1>13 DEF ForgetPod, others, clusterVars, scalingVars
<1>14. CASE shut'.pc # "no"
  BY <1>14
<1>15. ASSUME NEW c \in CPUs, StopManaged(c) PROVE WorkersAccountedFor'
  BY <1>1, <1>14, <1>15 DEF StopManaged, ShutType
<1>16. ASSUME NEW p \in Pods, CancelOne(p) \/ CloseOne(p) PROVE WorkersAccountedFor'
  BY <1>1, <1>14, <1>16 DEF CancelOne, CloseOne, ShutType
<1>17. CASE StopManagedWait \/ ManagerReturns \/ Exit \/ Signal
  BY <1>1, <1>14, <1>17 DEF StopManagedWait, ManagerReturns, Exit, Signal, ShutType
<1>18. ASSUME NEW w \in Workers, WorkerStep(w) PROVE WorkersAccountedFor'
  BY <1>2, <1>18 DEF WorkerStep, ExitLoop, Sample, GetCurrentCPUFrequency, Hold, Apply, clusterVars, entryVars
<1>19. ASSUME NEW p \in Pods, ConnStep(p) PROVE WorkersAccountedFor'
  BY <1>2, <1>19 DEF ConnStep, Connect, Poll, Disconnect, LeaveLoops, clusterVars, entryVars, scalingVars
<1>20. ASSUME NEW o \in Policies \cup {policy}, NEW s \in BOOLEAN, ChangePolicy(o, s) PROVE WorkersAccountedFor'
  BY <1>20 DEF ChangePolicy, entryVars, scalingVars
<1>21. ASSUME NEW p \in Pods, StartPod(p) \/ StopPod(p) PROVE WorkersAccountedFor'
  BY <1>1, <1>21 DEF StartPod, StopPod, entryVars, scalingVars
<1>up. CASE CatchUp
  BY <1>2, <1>up DEF CatchUp, clusterVars, entryVars, scalingVars
<1>22. CASE UNCHANGED vars
  BY <1>2, <1>22 DEF vars, clusterVars, entryVars, scalingVars
<1> QED
  BY <1>4, <1>5, <1>6, <1>7, <1>8, <1>9, <1>10, <1>11, <1>12, <1>13, <1>15, <1>16, <1>17, <1>18,
     <1>19, <1>20, <1>21, <1>22, <1>up DEF Next, RecStep, ShutStep, Rest, Ended

LEMMA OneWorker ==
    ASSUME CallersHold, WorkersInReach
    PROVE  OneWorkerPerCpu
<1> SUFFICES ASSUME shut.pc = "no", NEW v \in Workers, NEW w \in Workers,
                    Running(v), Running(w), worker[v].cpu = worker[w].cpu
             PROVE  v = w
  BY DEF OneWorkerPerCpu
<1>1. shut.cur = NoWorker
  BY DEF CallersHold
<1>2. \A x \in {v, w} : x \in {workers[worker[v].cpu], rec.cur}
  BY <1>1 DEF WorkersInReach, Running
<1>3. rec.cur \in {v, w} => workers[worker[v].cpu] = NoWorker
  BY DEF CallersHold
<1> QED
  BY <1>2, <1>3

\* What the steps of others do to a worker: nothing, or they start it, store options
\* for it, tell it to end or take it back.
Untouched(r, n) ==
    \/ n.pc = "none" /\ n.next = NoOpts
    \/ n.pc = "select" /\ n.next = NoOpts /\ n.opts.current = FrequencyNotYetSet
    \/ /\ n.pc = r.pc /\ n.cpu = r.cpu /\ n.opts = r.opts /\ n.seen = r.seen /\ n.read = r.read
       /\ n.next = r.next \/ n.next.current = FrequencyNotYetSet

LEMMA WorkersFromOutside ==
    ASSUME TypeOK, CallersHold, [Next]_vars, \A w \in Workers : ~WorkerStep(w)
    PROVE  /\ UNCHANGED freq /\ (shut'.pc = "no" => shut.pc = "no")
           /\ \A v \in Workers : Untouched(worker[v], worker'[v])
<1> DEFINE Goal == /\ UNCHANGED freq /\ (shut'.pc = "no" => shut.pc = "no")
                   /\ \A v \in Workers : Untouched(worker[v], worker'[v])
<1>1. /\ worker \in [Workers -> WorkerType] /\ workers \in [CPUs -> Workers \cup {NoWorker}]
      /\ shut \in ShutType /\ rec.cur \in Workers \cup {NoWorker} /\ shut.cur \in Workers \cup {NoWorker}
  BY DEF TypeOK, RecType, ShutType
<1>2. NoObject.pc = "none" /\ NoObject.next = NoOpts
  BY DEF NoObject
<1>3. CASE UNCHANGED <<worker, freq>> /\ (shut'.pc = "no" => shut.pc = "no")
  BY <1>3 DEF Untouched
<1>4. ASSUME NEW c \in CPUs, workers[c] # NoWorker, worker' = [worker EXCEPT ![workers[c]].stop = TRUE]
      PROVE  \A v \in Workers : Untouched(worker[v], worker'[v])
  BY <1>1, <1>4 DEF WorkerType, Untouched
<1>5. ASSUME NEW w \in Workers, worker' = [worker EXCEPT ![w] = NoObject]
      PROVE  \A v \in Workers : Untouched(worker[v], worker'[v])
  BY <1>1, <1>2, <1>5 DEF Untouched
<1>6. ASSUME NEW c \in CPUs, RemoveCPUScaling(c) PROVE Goal
  <2>1. UNCHANGED <<freq, shut>>
    BY <1>6 DEF RemoveCPUScaling, others
  <2>2. CASE workers[c] = NoWorker
    BY <1>3, <1>6, <2>1, <2>2 DEF RemoveCPUScaling, scalingVars
  <2>3. CASE workers[c] # NoWorker
    BY <1>4, <1>6, <2>1, <2>3 DEF RemoveCPUScaling
  <2> QED
    BY <2>2, <2>3
<1>7. ASSUME NEW c \in CPUs, AddCPUScaling(c) PROVE Goal
  <2>1. UNCHANGED <<freq, shut>>
    BY <1>7 DEF AddCPUScaling, others
  <2>2. CASE workers[c] # NoWorker
    <3>1. workers[c] \in Workers /\ worker' = [worker EXCEPT ![workers[c]].next = NewOpts(rec.pol)]
      BY <1>1, <1>7, <2>2 DEF AddCPUScaling
    <3>2. NewOpts(rec.pol).current = FrequencyNotYetSet
      BY DEF NewOpts
    <3>3. \A v \in Workers : Untouched(worker[v], worker'[v])
      BY <1>1, <3>1, <3>2 DEF WorkerType, Untouched
    <3> QED
      BY <2>1, <3>3
  <2>3. CASE workers[c] = NoWorker
    <3> DEFINE new == [NoObject EXCEPT !.pc = "select", !.cpu = c, !.opts = NewOpts(rec.pol)]
    <3>1. PICK w \in Workers : worker' = [worker EXCEPT ![w] = new]
      BY <1>7, <2>3 DEF AddCPUScaling
    <3>2. new.pc = "select" /\ new.next = NoOpts /\ new.opts.current = FrequencyNotYetSet
      BY DEF NoObject, NewOpts
    <3> HIDE DEF new
    <3>3. \A v \in Workers : Untouched(worker[v], worker'[v])
      BY <1>1, <3>1, <3>2 DEF Untouched
    <3> QED
      BY <2>1, <3>3
  <2> QED
    BY <2>2, <2>3
<1>8. ASSUME StopWorker PROVE Goal
  <2>1. rec.cur \in Workers
    BY <1>1, <1>8 DEF StopWorker, CallersHold
  <2> QED
    BY <1>5, <1>8, <2>1 DEF StopWorker, others
<1>9. ASSUME StopManagedWait PROVE Goal
  <2>1. shut.cur \in Workers /\ shut.pc = "wait" /\ shut'.pc = "stop"
    BY <1>1, <1>9 DEF StopManagedWait, CallersHold, ShutType
  <2> QED
    BY <1>5, <1>9, <2>1 DEF StopManagedWait
<1>10. ASSUME NEW c \in CPUs, StopManaged(c) PROVE Goal
  <2>1. UNCHANGED freq /\ shut'.pc # "no"
    BY <1>1, <1>10 DEF StopManaged, ShutType
  <2>2. CASE workers[c] = NoWorker
    BY <1>3, <1>10, <2>1, <2>2 DEF StopManaged, scalingVars
  <2>3. CASE workers[c] # NoWorker
    BY <1>4, <1>10, <2>1, <2>3 DEF StopManaged
  <2> QED
    BY <2>2, <2>3
<1>11. ASSUME NEW p \in Pods, BeginPod(p) \/ BeginEnd(p) PROVE Goal
  BY <1>3, <1>11 DEF BeginPod, BeginEnd, others, scalingVars
<1>12. ASSUME EnsureConnection \/ StoreWorker \/ RecordPod \/ CloseConnection \/ ClearMetrics \/ ForgetPod PROVE Goal
  BY <1>3, <1>12 DEF EnsureConnection, StoreWorker, RecordPod, CloseConnection, ClearMetrics, ForgetPod,
     others, scalingVars
<1>13. ASSUME ManagerReturns \/ Exit \/ Signal PROVE Goal
  BY <1>1, <1>3, <1>13 DEF ManagerReturns, Exit, Signal, scalingVars, ShutType
<1>14. ASSUME NEW p \in Pods, CancelOne(p) \/ CloseOne(p) PROVE Goal
  BY <1>1, <1>3, <1>14 DEF CancelOne, CloseOne, scalingVars, ShutType
<1>15. ASSUME NEW p \in Pods, ConnStep(p) PROVE Goal
  BY <1>3, <1>15 DEF ConnStep, Connect, Poll, Disconnect, LeaveLoops, scalingVars
<1>16. ASSUME NEW o \in Policies \cup {policy}, NEW s \in BOOLEAN, ChangePolicy(o, s) PROVE Goal
  BY <1>3, <1>16 DEF ChangePolicy, scalingVars
<1>17. ASSUME NEW p \in Pods, StartPod(p) \/ StopPod(p) PROVE Goal
  BY <1>3, <1>17 DEF StartPod, StopPod, scalingVars
<1>18. ASSUME CatchUp \/ UNCHANGED vars PROVE Goal
  BY <1>3, <1>18 DEF CatchUp, vars, scalingVars
<1> HIDE DEF Goal
<1>r. ASSUME RecStep PROVE Goal
  BY <1>r, <1>6, <1>7, <1>8, <1>11, <1>12 DEF RecStep
<1>s. ASSUME ShutStep \/ Signal PROVE Goal
  BY <1>s, <1>9, <1>10, <1>13, <1>14 DEF ShutStep
<1>19. Goal
  BY <1>r, <1>s, <1>15, <1>16, <1>17, <1>18 DEF Next, Rest, Ended
<1> QED
  BY <1>19 DEF Goal

LEMMA NextWorkersReadOnce ==
    ASSUME TypeOK, CallersHold, WorkersInReach, WorkersReadOnce, [Next]_vars
    PROVE  WorkersReadOnce'
<1> DEFINE Good(r) == /\ r.next.current = FrequencyNotYetSet
                      /\ r.pc = "update" => r.seen # NoUsage
                      /\ r.pc = "set" /\ r.seen # NoUsage /\ r.read # NoReading =>
                            ~inBand(r.seen, r.opts.policy)
<1>1. /\ worker \in [Workers -> WorkerType] /\ NoOpts.current = FrequencyNotYetSet
      /\ \A w \in Workers : Good(worker[w])
  BY DEF TypeOK, NoOpts, WorkersReadOnce
<1>2. CASE \A w \in Workers : ~WorkerStep(w)
  <2>1. \A v \in Workers : Untouched(worker[v], worker'[v])
    BY <1>2, WorkersFromOutside
  <2>2. \A v \in Workers : Good(worker'[v])
    BY <1>1, <2>1 DEF Untouched
  <2> QED
    BY <2>2 DEF WorkersReadOnce
<1>3. ASSUME NEW w \in Workers, WorkerStep(w) PROVE WorkersReadOnce'
  <2>1. /\ worker' \in [Workers -> WorkerType]
        /\ \A v \in Workers : v # w => worker'[v] = worker[v]
    BY <1>3, WorkerEffect
  <2>2. CASE ExitLoop(w)
    BY <1>1, <2>1, <2>2 DEF ExitLoop, WorkersReadOnce, WorkerType
  <2>3. CASE Sample(w)
    <3>1. worker[w].pc = "select" /\ worker[w].cpu \in CPUs
      BY <2>3 DEF Sample, WorkersInReach
    <3>2. worker'[w] = [worker[w] EXCEPT !.pc = IF usage[worker[w].cpu] = NoUsage THEN "set" ELSE "update",
                                         !.seen = usage[worker[w].cpu]]
      BY <1>1, <2>3 DEF Sample
    <3>3. Good(worker'[w])
      BY <1>1, <3>1, <3>2 DEF WorkerType
    <3> QED
      BY <1>1, <2>1, <3>3 DEF WorkersReadOnce
  <2>4. CASE GetCurrentCPUFrequency(w)
    <3>1. PICK m \in Readings \cup {NoReading} : worker' = [worker EXCEPT ![w].pc = "set", ![w].read = m]
      BY <2>4 DEF GetCurrentCPUFrequency
    <3>2. worker'[w] = [worker[w] EXCEPT !.pc = "set", !.read = m]
      BY <1>1, <3>1
    <3>3. ~inBand(worker[w].seen, worker[w].opts.policy)
      BY <2>4 DEF GetCurrentCPUFrequency
    <3>4. Good(worker'[w])
      BY <1>1, <3>2, <3>3 DEF WorkerType
    <3> QED
      BY <1>1, <2>1, <3>4 DEF WorkersReadOnce
  <2>5. CASE Hold(w) \/ Apply(w)
    <3>1. PICK o : Loop(w, o)
      BY <2>5 DEF Hold, Apply
    <3>2. worker'[w].pc = "select" /\ worker'[w].next = NoOpts
      BY <1>1, <3>1 DEF Loop, WorkerType
    <3> QED
      BY <1>1, <2>1, <3>2 DEF WorkersReadOnce
  <2> QED
    BY <1>3, <2>2, <2>3, <2>4, <2>5 DEF WorkerStep
<1> QED
  BY <1>2, <1>3

LEMMA NextTargetInForce ==
    ASSUME TypeOK, CallersHold, WorkersInReach, WorkersReadOnce, TargetInForce, [Next]_vars
    PROVE  TargetInForce'
<1> USE DEF TargetInForce, Running
<1>1. worker \in [Workers -> WorkerType] /\ freq \in [CPUs -> Frequencies]
  BY DEF TypeOK
<1>2. CASE \A w \in Workers : ~WorkerStep(w)
  <2>1. /\ UNCHANGED freq /\ (shut'.pc = "no" => shut.pc = "no")
        /\ \A v \in Workers : Untouched(worker[v], worker'[v])
    BY <1>2, WorkersFromOutside
  <2> QED
    BY <2>1 DEF Untouched
<1>3. ASSUME NEW w \in Workers, WorkerStep(w), shut.pc = "no" PROVE TargetInForce'
  <2>1. /\ \A v \in Workers : v # w => worker'[v] = worker[v]
        /\ worker'[w].cpu = worker[w].cpu /\ Running(w)
    BY <1>3, WorkerEffect
  <2>2. worker[w].cpu \in CPUs
    BY <2>1 DEF WorkersInReach
  <2>3. \A v \in Workers : v # w /\ Running(v) => worker[v].cpu # worker[w].cpu
    BY <1>3, <2>1, OneWorker DEF OneWorkerPerCpu
  <2>4. CASE ExitLoop(w) \/ Sample(w) \/ GetCurrentCPUFrequency(w)
    <3>1. UNCHANGED freq /\ worker'[w].opts = worker[w].opts
      BY <1>1, <2>4 DEF ExitLoop, Sample, GetCurrentCPUFrequency, WorkerType
    <3> QED
      BY <1>3, <2>1, <3>1
  <2>5. ASSUME NEW o, Loop(w, o)
        PROVE  worker'[w].opts = o \/ worker'[w].opts.current = FrequencyNotYetSet
    BY <1>1, <2>5 DEF Loop, WorkerType, WorkersReadOnce
  <2>6. CASE UNCHANGED freq /\ Loop(w, worker[w].opts)
    BY <1>3, <2>1, <2>5, <2>6
  <2>7. ASSUME NEW f, SetCPUFrequency(worker[w].cpu, f), Loop(w, [worker[w].opts EXCEPT !.current = f])
        PROVE  TargetInForce'
    <3>1. freq'[worker[w].cpu] = f /\ \A c \in CPUs \ {worker[w].cpu} : freq'[c] = freq[c]
      BY <1>1, <2>2, <2>7 DEF SetCPUFrequency
    <3>2. [worker[w].opts EXCEPT !.current = f].current = f
      BY <1>1 DEF WorkerType, OptsType
    <3>3. worker'[w].opts.current \in {f, FrequencyNotYetSet}
      BY <2>5, <2>7, <3>2
    <3>4. \A v \in Workers : v # w /\ Running(v) => freq'[worker[v].cpu] = freq[worker[v].cpu]
      BY <2>3, <3>1 DEF WorkersInReach
    <3> QED
      BY <1>3, <2>1, <3>1, <3>3, <3>4
  <2>8. CASE Hold(w)
    BY <2>6, <2>8 DEF Hold
  <2>9. CASE Apply(w)
    BY <2>6, <2>7, <2>9 DEF Apply
  <2> QED
    BY <1>3, <2>4, <2>8, <2>9 DEF WorkerStep
<1>4. ASSUME NEW w \in Workers, WorkerStep(w) PROVE shut' = shut
  BY <1>4, WorkerEffect
<1> QED
  BY <1>2, <1>3, <1>4

-----------------------------------------------------------------------------
(***************************************************************************)
(* The theorems                                                            *)
(***************************************************************************)
LEMMA NextIInv == IInv /\ [Next]_vars => IInv'
  BY NextTypeOK, NextReconcileKnowsPod, NextManagedRuns, NextCallersHold, NextWorkersInReach,
     NextClosingAlone, NextConnectionsOwned, NextUsageIsLive, NextCpusHandedOver,
     NextEndedReconciled, NextScaledSoFar, NextWorkersAccountedFor, NextWorkersReadOnce,
     NextTargetInForce DEF IInv

LEMMA AlwaysIInv == Spec => []IInv
  BY InitIInv, NextIInv, PTL DEF Spec

\* The scaling manager, its workers and the telemetry client only ever hold values of
\* their types; the frequencies that workers write stay within the limits of the CPU.
THEOREM TypeSafety == Spec => []TypeOK
<1>1. IInv => TypeOK
  BY DEF IInv
<1> QED
  BY <1>1, AlwaysIInv, PTL

\* No worker goroutine is ever out of reach of the manager and of those that stop it,
\* however reconciles, shutdown and workers interleave.
THEOREM WorkersReachable == Spec => []NoOrphans
<1>1. IInv => NoOrphans
  BY DEF IInv, WorkersInReach, NoOrphans, Running
<1> QED
  BY <1>1, AlwaysIInv, PTL

\* Until the agent shuts down no CPU is driven by two workers, not even while one is
\* being stopped or has not been stored yet.
THEOREM SingleWorker == Spec => []OneWorkerPerCpu
<1>1. IInv => OneWorkerPerCpu
  BY OneWorker DEF IInv
<1> QED
  BY <1>1, AlwaysIInv, PTL

\* A usage that workers act on always comes from a goroutine that is reading or has
\* just been told to end.
THEOREM LiveUsage == Spec => []UsageIsLive
<1>1. IInv => UsageIsLive
  BY DEF IInv
<1> QED
  BY <1>1, AlwaysIInv, PTL

\* When the reconciler rests, every running pod is scaled with the profile's policy,
\* unless it ran when the policy changed of a profile that is shared.
THEOREM RunningPodsScaled == Spec => []PodsScaled
<1>1. IInv => PodsScaled
  BY DEF IInv, ScaledSoFar, Scaled, PodsScaled, Quiet
<1> QED
  BY <1>1, AlwaysIInv, PTL

\* When the reconciler rests, an ended pod has left no connection unless the cached
\* PowerNodeState had no pools, and no worker unless it did not have the pod's entry.
THEOREM EndedPodsReleased == Spec => []EndedPodsUnscaled
<1>1. IInv => EndedPodsUnscaled
  <2> SUFFICES ASSUME IInv, Quiet, NEW p \in Pods, phase[p] = "done"
               PROVE  /\ p \in conns => p \in unclosed
                      /\ \A c \in podCpus[p] : workers[c] # NoWorker =>
                            user(c) # {} \/ \E q \in lost : c \in podCpus[q]
    BY DEF EndedPodsUnscaled
  <2>1. p \in conns => p \in unclosed
    BY DEF IInv, EndedReconciled, Quiet
  <2>2. ASSUME NEW c \in podCpus[p], workers[c] # NoWorker
        PROVE  user(c) # {} \/ \E q \in lost : c \in podCpus[q]
    <3>1. c \in CPUs
      BY CpusOfPods
    <3>2. PICK q \in Pods : c \in podCpus[q] /\ (phase[q] = "running" \/ q \in lost)
      BY <2>2, <3>1 DEF IInv, WorkersAccountedFor, Quiet, Ending
    <3> QED
      BY <3>2 DEF user
  <2> QED
    BY <2>1, <2>2
<1> QED
  BY <1>1, AlwaysIInv, PTL

\* Until the shutdown the target that a worker compares new frequencies with is the
\* frequency its CPU was set to, whatever failed and whoever had the CPU before.
THEOREM TargetsInForce == Spec => []TargetInForce
<1>1. IInv => TargetInForce
  BY DEF IInv
<1> QED
  BY <1>1, AlwaysIInv, PTL

\* A worker that changes a frequency goes from the measured one, which need not be the
\* one it set, up when its CPU is used more than the target and down when it is used
\* less, or to the limit on that side; without a usage or a reading it falls back.
THEOREM DirectionKept == Spec => ScalesTowardsTarget
<1> DEFINE Moves(r, f) ==
        LET o == r.opts.policy
            u == r.seen
            m == r.read
        IN  IF u = NoUsage \/ m = NoReading THEN f = FallbackFreq(o)
            ELSE \/ u > o.target /\ (f >= m \/ f = HWMax)
                 \/ u < o.target /\ (f <= m \/ f = HWMin)
           Towards ==
        \A w \in Workers :
          LET c == worker[w].cpu
              o == worker[w].opts.policy
              u == worker[w].seen
              m == worker[w].read
          IN  worker[w].pc = "set" /\ worker'[w].pc # "set" /\ freq'[c] # freq[c] =>
                  IF u = NoUsage \/ m = NoReading THEN freq'[c] = FallbackFreq(o)
                  ELSE \/ u > o.target /\ (freq'[c] >= m \/ freq'[c] = HWMax)
                       \/ u < o.target /\ (freq'[c] <= m \/ freq'[c] = HWMin)
<1>1. ASSUME IInv, [Next]_vars PROVE [Towards]_vars
  <2>1. CASE UNCHANGED freq
    BY <2>1
  <2>2. ASSUME NEW v \in Workers, Apply(v) PROVE Towards
    <3>1. TypeOK /\ WorkersInReach /\ WorkersReadOnce /\ WorkerStep(v)
      BY <1>1, <2>2 DEF IInv, WorkerStep
    <3>2. \A w \in Workers : w # v => worker'[w] = worker[w]
      BY <3>1, WorkerEffect
    <3>3. /\ worker[v].cpu \in CPUs /\ worker[v].opts.policy \in Policies
          /\ worker[v].seen \in Usages \cup {NoUsage} /\ worker[v].read \in Readings \cup {NoReading}
          /\ freq \in [CPUs -> Frequencies]
      BY <2>2, <3>1 DEF WorkersInReach, Apply, TypeOK, WorkerType
    <3>4. freq'[worker[v].cpu] = freq[worker[v].cpu] \/ freq'[worker[v].cpu] = Wanted(v)
      BY <2>2, <3>3 DEF Apply, SetCPUFrequency
    <3>5. Moves(worker[v], Wanted(v))
      <4> DEFINE o == worker[v].opts.policy
                 u == worker[v].seen
                 m == worker[v].read
      <4>1. CASE u = NoUsage \/ m = NoReading
        BY <4>1 DEF Wanted
      <4>2. CASE u # NoUsage /\ m # NoReading
        <5>1. u \in Usages /\ m \in Nat /\ o \in Policies /\ Wanted(v) = NextFrequency(m, u, o)
          BY <3>3, <4>2, ReadingsAssumption DEF Wanted
        <5>2. ~inBand(u, o)
          BY <2>2, <3>1, <4>2 DEF WorkersReadOnce, Apply
        <5> HIDE DEF o, u, m
        <5>3. u \in Nat /\ o.target \in Nat /\ o.allowedUsage \in Nat
          BY <5>1, UsagesAssumption, PoliciesAssumption
        <5>4. u > o.target \/ u < o.target
          BY <5>2, <5>3 DEF inBand
        <5>5. \/ u > o.target /\ (Wanted(v) >= m \/ Wanted(v) = HWMax)
              \/ u < o.target /\ (Wanted(v) <= m \/ Wanted(v) = HWMin)
          BY <5>1, <5>4, NextFrequencyMoves
        <5> QED
          BY <4>2, <5>5 DEF o, u, m
      <4> QED
        BY <4>1, <4>2
    <3> QED
      BY <3>2, <3>4, <3>5
  <2>3. CASE UNCHANGED vars
    BY <2>3
  <2>4. ASSUME NEW w \in Workers, WorkerStep(w) PROVE Towards
    BY <2>1, <2>2, <2>4 DEF WorkerStep, ExitLoop, Sample, GetCurrentCPUFrequency, Hold
  <2>5. CASE \A w \in Workers : ~WorkerStep(w)
    BY <1>1, <2>1, <2>5, WorkersFromOutside DEF IInv
  <2> HIDE DEF Towards
  <2> QED
    BY <2>3, <2>4, <2>5
<1> QED
  BY <1>1, AlwaysIInv, PTL DEF Spec, ScalesTowardsTarget

=============================================================================
