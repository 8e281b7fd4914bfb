----------------------- MODULE PowerLibraryRefinement -----------------------
(***************************************************************************)
(* PowerLibrary implements PoolAssignment for every number of CPUs, pools, *)
(* profiles and threads.                                                   *)
(***************************************************************************)
EXTENDS PowerLibraryProofs

USE ThreadsAssumption, NamesAssumption, PoolsAssumption

-----------------------------------------------------------------------------
\* The abstract state, seen by a thread inside and seen with the mutex free.
LEMMA CommittedInside ==
    ASSUME TypeOK, MutexOwned, NEW t \in Threads, Inside(t), NEW c \in CPUs
    PROVE  committedPool[c] =
               IF pc[t] = "moving" /\ moving[t] = c THEN origPool[t] ELSE cpuPool[c]
  BY DEF MutexOwned, committedPool

\* What a step changes decides what happens to the abstract pool of a CPU.
LEMMA CommittedFrame ==
    ASSUME \A c \in CPUs : committedPool'[c] = committedPool[c]
    PROVE  committedPool' = committedPool
  BY DEF committedPool

\* Steps of the library that move no CPU and change no list are stutters.
LEMMA StutterFrame ==
    ASSUME UNCHANGED <<exclusivePools, poolName>>, committedPool' = committedPool
    PROVE  UNCHANGED Assignment!vars
  BY DEF Assignment!vars, createdPools

-----------------------------------------------------------------------------
LEMMA InitRefines == Init => Assignment!Init
<1> SUFFICES ASSUME Init PROVE Assignment!Init
  OBVIOUS
<1>1. committedPool = [c \in CPUs |-> reservedPool]
  BY DEF Init, committedPool
<1>2. createdPools = {}
  BY DEF Init, createdPools
<1> QED
  BY <1>1, <1>2 DEF Init, Assignment!Init, reservedPool

\* Every step is a Transfer, a Create, a Remove or a stutter.
LEMMA NextRefines ==
    ASSUME IInv, TypeOK', MutexOwned', [Next]_vars
    PROVE  [Assignment!Next]_(Assignment!vars)
<1> USE BasicPools DEF IInv
<1>1. ASSUME NEW t \in Threads, NEW r \in Requests, Call(t, r)
      PROVE  UNCHANGED Assignment!vars
  <2>1. committedPool' = committedPool
    BY <1>1 DEF Call, libVars, committedPool, MutexOwned, Inside, TypeOK
  <2> QED
    BY <1>1, <2>1, StutterFrame DEF Call, libVars
<1>2. ASSUME NEW t \in Threads, Lock(t) PROVE UNCHANGED Assignment!vars
  <2>1. committedPool' = committedPool
    BY <1>2 DEF Lock, committedPool, TypeOK
  <2> QED
    BY <1>2, <2>1, StutterFrame DEF Lock
<1>3. ASSUME NEW t \in Threads, Return(t) PROVE [Assignment!Next]_(Assignment!vars)
  <2>1. Inside(t) /\ pc[t] # "moving"
    BY <1>3 DEF Return, Inside
  <2>2. \A c \in CPUs : committedPool[c] = cpuPool[c]
    BY <2>1, CommittedInside
  <2>3. committedPool' = committedPool
    BY <1>3, <2>2, CommittedFrame DEF Return, committedPool
  <2>4. CASE ~(req[t].op = "Remove" /\ pc[t] = "running" /\ req[t].pool \in exclusivePools)
    BY <1>3, <2>3, <2>4, StutterFrame DEF Return, TypeOK
  <2>5. CASE req[t].op = "Remove" /\ pc[t] = "running" /\ req[t].pool \in exclusivePools
    <3>1. req[t].pool \in PoolObjs /\ req[t].cpus = {}
      BY <2>5, RequestFields DEF TypeOK
    <3>2. \A c \in CPUs : cpuPool[c] # req[t].pool
      BY <1>3, <2>5, <3>1 DEF Return, LoopDelivers, Delivers, Reached
    <3>3. Assignment!Remove(req[t].pool)
      BY <1>3, <2>2, <2>3, <2>5, <3>2 DEF Return, Assignment!Remove, createdPools
    <3> QED
      BY <3>1, <3>3 DEF Assignment!Next
  <2> QED
    BY <2>4, <2>5
<1>4. ASSUME NEW n \in PoolNames, NEW p \in PoolObjs, AddExclusivePool(n, p)
      PROVE  Assignment!Next
  <2>1. committedPool' = committedPool
    BY <1>4 DEF AddExclusivePool, callVars, committedPool
  <2>2. createdPools' = createdPools \cup {p} /\ p \notin createdPools
    BY <1>4 DEF AddExclusivePool, createdPools, TypeOK
  <2>3. Assignment!Create(p)
    BY <1>4, <2>1, <2>2 DEF AddExclusivePool, Assignment!Create
  <2> QED
    BY <2>3 DEF Assignment!Next
<1>5. ASSUME NEW t \in Threads, NEW c \in CPUs, SkipCpu(t, c) PROVE UNCHANGED Assignment!vars
  <2>1. committedPool' = committedPool
    BY <1>5 DEF SkipCpu, libVars, committedPool
  <2> QED
    BY <1>5, <2>1, StutterFrame DEF SkipCpu, libVars
<1>6. ASSUME NEW t \in Threads, NEW c \in CPUs, RejectCpu(t, c) PROVE UNCHANGED Assignment!vars
  <2>1. Inside(t) /\ Inside(t)' /\ pc[t] # "moving" /\ pc'[t] # "moving"
    BY <1>6 DEF RejectCpu, Visits, Inside, TypeOK
  <2>2. committedPool' = committedPool
    BY <1>6, <2>1, CommittedInside, CommittedFrame
       DEF RejectCpu, libVars, committedPool, MutexOwned
  <2> QED
    BY <1>6, <2>2, StutterFrame DEF RejectCpu, libVars
<1>7. ASSUME NEW t \in Threads, NEW c \in CPUs, BeginMove(t, c) PROVE UNCHANGED Assignment!vars
  <2>1. Inside(t) /\ pc[t] = "running" /\ hostMutex = t /\ t # NoThread
    BY <1>7 DEF BeginMove, Visits, Inside, MutexOwned
  <2>2. hostMutex' = t /\ pc'[t] = "moving" /\ moving'[t] = c /\ origPool'[t] = cpuPool[c]
    BY <1>7, <2>1 DEF BeginMove, TypeOK
  <2>3. \A d \in CPUs \ {c} : cpuPool'[d] = cpuPool[d]
    BY <1>7 DEF BeginMove, TypeOK
  <2>4. committedPool' = committedPool
    BY <2>1, <2>2, <2>3, CommittedFrame DEF committedPool
  <2> QED
    BY <1>7, <2>4, StutterFrame DEF BeginMove
<1>8. ASSUME NEW t \in Threads, FinishMove(t) PROVE Assignment!Next
  <2> DEFINE c == moving[t]
  <2>1. pc[t] = "moving" /\ hostMutex = t /\ t # NoThread /\ c \in CPUs
    BY <1>8 DEF FinishMove, Inside, MutexOwned, MoveInLoop, TypeOK
  <2>2. hostMutex' = t /\ pc'[t] = "running" /\ cpuPool' = cpuPool
    BY <1>8, <2>1 DEF FinishMove, TypeOK
  <2>3. committedPool[c] = origPool[t]
    BY <2>1 DEF committedPool
  <2>4. committedPool' = [committedPool EXCEPT ![c] = cpuPool[c]]
    BY <2>1, <2>2 DEF committedPool
  <2>5. /\ origPool[t] # cpuPool[c]
        /\ origPool[t] = sharedPool \/ cpuPool[c] = sharedPool
    BY <2>1 DEF MoveLegal
  <2>6. cpuPool[c] \in {"reserved", "shared"} \cup createdPools
    BY <2>1 DEF PoolsExist, Allocated, reservedPool, sharedPool
  <2>7. UNCHANGED <<exclusivePools, createdPools>>
    BY <1>8 DEF FinishMove, createdPools
  <2>8. Assignment!Transfer(c, cpuPool[c])
    BY <2>3, <2>4, <2>5, <2>6, <2>7 DEF Assignment!Transfer, sharedPool
  <2>9. cpuPool[c] \in {"reserved", "shared"} \cup PoolObjs
    BY <2>6 DEF createdPools
  <2> QED
    BY <2>1, <2>8, <2>9 DEF Assignment!Next
<1>9. ASSUME NEW t \in Threads, RevertMove(t) PROVE UNCHANGED Assignment!vars
  <2>1. pc[t] = "moving" /\ hostMutex = t /\ t # NoThread /\ moving[t] \in CPUs
    BY <1>9 DEF RevertMove, Inside, MutexOwned, MoveInLoop, TypeOK
  <2>2. hostMutex' = t /\ pc'[t] = "failed"
    BY <1>9, <2>1 DEF RevertMove, TypeOK
  <2>3. cpuPool' = [cpuPool EXCEPT ![moving[t]] = origPool[t]]
    BY <1>9 DEF RevertMove
  <2>4. \A d \in CPUs : committedPool'[d] = committedPool[d]
    BY <2>1, <2>2, <2>3 DEF committedPool, TypeOK
  <2> QED
    BY <1>9, <2>4, CommittedFrame, StutterFrame DEF RevertMove
<1>10. ASSUME NEW t \in Threads, NEW c \in CPUs, ApplyProfile(t, c)
       PROVE  UNCHANGED Assignment!vars
  <2>1. committedPool' = committedPool
    BY <1>10 DEF ApplyProfile, committedPool
  <2> QED
    BY <1>10, <2>1, StutterFrame DEF ApplyProfile
<1>11. ASSUME NEW t \in Threads, NEW c \in CPUs, ApplyProfileFails(t, c)
       PROVE  UNCHANGED Assignment!vars
  <2>1. pc[t] = "running" /\ pc'[t] = "failed" /\ hostMutex = t /\ hostMutex' = t
    BY <1>11 DEF ApplyProfileFails, Visits, Inside, MutexOwned, TypeOK
  <2>2. \A d \in CPUs : committedPool'[d] = committedPool[d]
    BY <1>11, <2>1 DEF ApplyProfileFails, committedPool
  <2> QED
    BY <1>11, <2>2, CommittedFrame, StutterFrame DEF ApplyProfileFails
<1>12. CASE UNCHANGED vars
  <2>1. committedPool' = committedPool
    BY <1>12 DEF vars, libVars, callVars, committedPool
  <2> QED
    BY <1>12, <2>1, StutterFrame DEF vars, libVars
<1> QED
  BY <1>1, <1>2, <1>3, <1>4, <1>5, <1>6, <1>7, <1>8, <1>9, <1>10, <1>11, <1>12
     DEF Next, Work

\* To the controllers the library is PoolAssignment: each CPU in one pool, moved
\* in one step between shared and another pool, whatever calls interleave and
\* wherever consolidate fails and doSetPool rolls back.
THEOREM LibraryRefinesAssignment == Spec => ImplementsAssignment
<1>1. IInv => TypeOK /\ MutexOwned
  BY DEF IInv
<1> QED
  BY <1>1, Inductive, InitRefines, NextRefines, PTL DEF Spec, ImplementsAssignment, Assignment!Spec

=============================================================================
