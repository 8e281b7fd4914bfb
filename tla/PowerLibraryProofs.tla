------------------------- MODULE PowerLibraryProofs -------------------------
(***************************************************************************)
(* PowerLibrary for every number of CPUs, pools, profiles and threads.     *)
(***************************************************************************)
EXTENDS PowerLibrary, TLAPS

USE CPUsAssumption, ListsAssumption, PoolsAssumption, ThreadsAssumption, NamesAssumption

-----------------------------------------------------------------------------
\* A request names a pool, CPUs of the host and a profile.
LEMMA RequestFields ==
    ASSUME NEW r \in Requests
    PROVE  /\ r.op \in {"MoveCPUIDs", "SetCPUIDs", "SetPowerProfile", "Remove"}
           /\ r.pool \in Pools
           /\ r.cpus \subseteq CPUs
           /\ r.profile \in Profiles \cup {nilProfile}
           /\ r.op = "Remove" => r.cpus = {} /\ r.pool \in PoolObjs
           /\ r.op = "SetPowerProfile" => r.pool # reservedPool
  BY DEF Requests, MoveRequests, ProfileRequests, RemoveRequests, Pools, reservedPool, sharedPool

LEMMA NoRequestIsRequest == NoRequest \in Requests
  BY DEF NoRequest, Requests, ProfileRequests, Pools, reservedPool, sharedPool

\* moveCpus and setCpus only send a CPU to a pool of the host.
LEMMA TargetIsPool ==
    ASSUME TypeOK, NEW r \in Requests, NEW c \in CPUs
    PROVE  Target(r, c) \in Pools
  BY RequestFields DEF TypeOK, Target, Pools

LEMMA BasicPools == reservedPool \in Pools /\ sharedPool \in Pools /\ reservedPool # sharedPool
  BY DEF Pools, reservedPool, sharedPool

-----------------------------------------------------------------------------
(***************************************************************************)
(* One lemma per part of the inductive invariant, one step per action.     *)
(***************************************************************************)
LEMMA InitIInv == Init => IInv
<1> SUFFICES ASSUME Init PROVE IInv
  OBVIOUS
<1>1. TypeOK
  BY NoRequestIsRequest, BasicPools DEF Init, TypeOK
<1>2. \A t \in Threads : pc[t] = "idle"
  BY DEF Init
<1>3. MoveInLoop /\ LoopDelivers
  BY <1>2 DEF MoveInLoop, LoopDelivers
<1>4. MutexOwned
  BY <1>2 DEF Init, MutexOwned, Inside
<1>5. MembershipAgrees
  BY <1>2, BasicPools DEF Init, MembershipAgrees, InMove
<1>6. HardwareFollowsPool
  BY DEF Init, HardwareFollowsPool
<1>7. MoveLegal
  BY <1>2 DEF MoveLegal
<1>8. PoolsExist
  BY BasicPools DEF Init, PoolsExist, Allocated, NoRequest
<1> QED
  BY <1>1, <1>3, <1>4, <1>5, <1>6, <1>7, <1>8 DEF IInv

\* Types are kept by every step; doSetPool needs to be inside a loop for this.
LEMMA NextTypeOK ==
    ASSUME TypeOK, MoveInLoop, [Next]_vars
    PROVE  TypeOK'
<1> USE BasicPools
<1>1. ASSUME NEW t \in Threads, NEW r \in Requests, Call(t, r) PROVE TypeOK'
  BY <1>1 DEF TypeOK, Call, libVars
<1>2. ASSUME NEW t \in Threads, Lock(t) PROVE TypeOK'
  <2>1. req[t] \in Requests
    BY DEF TypeOK
  <2>2. LoopCpus(req[t]) \subseteq CPUs
    BY <2>1, RequestFields DEF TypeOK, LoopCpus
  <2> QED
    BY <1>2, <2>1, <2>2, RequestFields DEF TypeOK, Lock
<1>3. ASSUME NEW t \in Threads, Return(t) PROVE TypeOK'
  BY <1>3, NoRequestIsRequest DEF TypeOK, Return
<1>4. ASSUME NEW n \in PoolNames, NEW p \in PoolObjs, AddExclusivePool(n, p) PROVE TypeOK'
  BY <1>4 DEF TypeOK, AddExclusivePool, callVars
<1>5. ASSUME NEW t \in Threads, NEW c \in CPUs, SkipCpu(t, c) PROVE TypeOK'
  BY <1>5 DEF TypeOK, SkipCpu, libVars
<1>6. ASSUME NEW t \in Threads, NEW c \in CPUs, RejectCpu(t, c) PROVE TypeOK'
  BY <1>6 DEF TypeOK, RejectCpu, libVars
<1>7. ASSUME NEW t \in Threads, NEW c \in CPUs, BeginMove(t, c) PROVE TypeOK'
  <2>1. Target(req[t], c) \in Pools
    BY TargetIsPool DEF TypeOK
  <2> QED
    BY <1>7, <2>1 DEF TypeOK, BeginMove
<1>8. ASSUME NEW t \in Threads, FinishMove(t) PROVE TypeOK'
  <2>1. moving[t] \in CPUs
    BY <1>8 DEF TypeOK, MoveInLoop, FinishMove
  <2> QED
    BY <1>8, <2>1, ZenonT(40) DEF TypeOK, FinishMove, Consolidated
<1>9. ASSUME NEW t \in Threads, RevertMove(t) PROVE TypeOK'
  <2>1. moving[t] \in CPUs
    BY <1>9 DEF TypeOK, MoveInLoop, RevertMove
  <2> QED
    BY <1>9, <2>1, ZenonT(40) DEF TypeOK, RevertMove, ConsolidateFailed
<1>10. ASSUME NEW t \in Threads, NEW c \in CPUs, ApplyProfile(t, c) PROVE TypeOK'
  BY <1>10 DEF TypeOK, ApplyProfile, Consolidated
<1>11. ASSUME NEW t \in Threads, NEW c \in CPUs, ApplyProfileFails(t, c) PROVE TypeOK'
  BY <1>11 DEF TypeOK, ApplyProfileFails, ConsolidateFailed
<1>12. CASE UNCHANGED vars
  BY <1>12 DEF TypeOK, vars, libVars, callVars
<1> QED
  BY <1>1, <1>2, <1>3, <1>4, <1>5, <1>6, <1>7, <1>8, <1>9, <1>10, <1>11, <1>12
     DEF Next, Work

LEMMA NextMoveInLoop ==
    ASSUME TypeOK, MoveInLoop, [Next]_vars
    PROVE  MoveInLoop'
<1> USE DEF MoveInLoop, TypeOK
<1>1. ASSUME NEW t \in Threads, NEW r \in Requests, Call(t, r) PROVE MoveInLoop'
  BY <1>1 DEF Call
<1>2. ASSUME NEW t \in Threads, Lock(t) PROVE MoveInLoop'
  BY <1>2 DEF Lock
<1>3. ASSUME NEW t \in Threads, Return(t) PROVE MoveInLoop'
  BY <1>3 DEF Return
<1>4. ASSUME NEW n \in PoolNames, NEW p \in PoolObjs, AddExclusivePool(n, p) PROVE MoveInLoop'
  BY <1>4 DEF AddExclusivePool, callVars
<1>5. ASSUME NEW t \in Threads, NEW c \in CPUs, SkipCpu(t, c) PROVE MoveInLoop'
  BY <1>5 DEF SkipCpu, Visits
<1>6. ASSUME NEW t \in Threads, NEW c \in CPUs, RejectCpu(t, c) PROVE MoveInLoop'
  BY <1>6 DEF RejectCpu
<1>7. ASSUME NEW t \in Threads, NEW c \in CPUs, BeginMove(t, c) PROVE MoveInLoop'
  BY <1>7 DEF BeginMove, Visits
<1>8. ASSUME NEW t \in Threads, FinishMove(t) PROVE MoveInLoop'
  BY <1>8 DEF FinishMove
<1>9. ASSUME NEW t \in Threads, RevertMove(t) PROVE MoveInLoop'
  BY <1>9 DEF RevertMove
<1>10. ASSUME NEW t \in Threads, NEW c \in CPUs, ApplyProfile(t, c) PROVE MoveInLoop'
  BY <1>10 DEF ApplyProfile, Visits
<1>11. ASSUME NEW t \in Threads, NEW c \in CPUs, ApplyProfileFails(t, c) PROVE MoveInLoop'
  BY <1>11 DEF ApplyProfileFails
<1>12. CASE UNCHANGED vars
  BY <1>12 DEF vars, callVars
<1> QED
  BY <1>1, <1>2, <1>3, <1>4, <1>5, <1>6, <1>7, <1>8, <1>9, <1>10, <1>11, <1>12
     DEF Next, Work

\* Only the owner of the mutex leaves the critical section, only a thread that
\* finds the mutex free enters it.
LEMMA NextMutexOwned ==
    ASSUME TypeOK, MutexOwned, [Next]_vars
    PROVE  MutexOwned'
<1> USE DEF MutexOwned, Inside, TypeOK
<1>1. ASSUME NEW t \in Threads, NEW r \in Requests, Call(t, r) PROVE MutexOwned'
  BY <1>1 DEF Call
<1>2. ASSUME NEW t \in Threads, Lock(t) PROVE MutexOwned'
  BY <1>2 DEF Lock
<1>3. ASSUME NEW t \in Threads, Return(t) PROVE MutexOwned'
  BY <1>3 DEF Return
<1>4. ASSUME NEW n \in PoolNames, NEW p \in PoolObjs, AddExclusivePool(n, p) PROVE MutexOwned'
  BY <1>4 DEF AddExclusivePool, callVars
<1>5. ASSUME NEW t \in Threads, NEW c \in CPUs, SkipCpu(t, c) PROVE MutexOwned'
  BY <1>5 DEF SkipCpu
<1>6. ASSUME NEW t \in Threads, NEW c \in CPUs, RejectCpu(t, c) PROVE MutexOwned'
  BY <1>6 DEF RejectCpu, Visits
<1>7. ASSUME NEW t \in Threads, NEW c \in CPUs, BeginMove(t, c) PROVE MutexOwned'
  BY <1>7 DEF BeginMove, Visits
<1>8. ASSUME NEW t \in Threads, FinishMove(t) PROVE MutexOwned'
  BY <1>8 DEF FinishMove
<1>9. ASSUME NEW t \in Threads, RevertMove(t) PROVE MutexOwned'
  BY <1>9 DEF RevertMove
<1>10. ASSUME NEW t \in Threads, NEW c \in CPUs, ApplyProfile(t, c) PROVE MutexOwned'
  BY <1>10 DEF ApplyProfile
<1>11. ASSUME NEW t \in Threads, NEW c \in CPUs, ApplyProfileFails(t, c) PROVE MutexOwned'
  BY <1>11 DEF ApplyProfileFails, Visits
<1>12. CASE UNCHANGED vars
  BY <1>12 DEF vars, callVars
<1> QED
  BY <1>1, <1>2, <1>3, <1>4, <1>5, <1>6, <1>7, <1>8, <1>9, <1>10, <1>11, <1>12
     DEF Next, Work

\* While t is inside, every other thread is outside.
LEMMA Alone ==
    ASSUME TypeOK, MutexOwned, NEW t \in Threads, Inside(t), NEW s \in Threads, s # t
    PROVE  ~Inside(s)
  BY DEF MutexOwned, TypeOK

\* With the mutex free, nobody is inside.
LEMMA NobodyInside ==
    ASSUME MutexOwned, hostMutex = NoThread, NEW s \in Threads
    PROVE  ~Inside(s)
  BY DEF MutexOwned

\* The CPU in doSetPool is the one the owner of the mutex moves.
LEMMA InMoveOfOwner ==
    ASSUME TypeOK, MutexOwned, NEW t \in Threads, Inside(t), NEW c
    PROVE  InMove(c) <=> pc[t] = "moving" /\ moving[t] = c
  BY Alone DEF InMove, Inside

-----------------------------------------------------------------------------
\* Steps that leave the pointers, the lists and the move under way alone keep
\* the agreement between pointers and lists.
LEMMA MembershipFrame ==
    ASSUME MembershipAgrees, UNCHANGED <<cpuPool, members>>,
           \A c \in CPUs : InMove(c)' <=> InMove(c)
    PROVE  MembershipAgrees'
  BY DEF MembershipAgrees

LEMMA NextMembershipAgrees ==
    ASSUME IInv, [Next]_vars
    PROVE  MembershipAgrees'
<1> USE DEF IInv
<1> USE BasicPools
<1>1. ASSUME NEW t \in Threads, NEW r \in Requests, Call(t, r) PROVE MembershipAgrees'
  <2>1. \A c \in CPUs : InMove(c)' <=> InMove(c)
    BY <1>1 DEF Call, InMove, TypeOK
  <2> QED
    BY <1>1, <2>1, MembershipFrame DEF Call, libVars
<1>2. ASSUME NEW t \in Threads, Lock(t) PROVE MembershipAgrees'
  <2>1. \A c \in CPUs : InMove(c)' <=> InMove(c)
    BY <1>2 DEF Lock, InMove, TypeOK
  <2> QED
    BY <1>2, <2>1, MembershipFrame DEF Lock
<1>3. ASSUME NEW t \in Threads, Return(t) PROVE MembershipAgrees'
  <2>1. \A c \in CPUs : InMove(c)' <=> InMove(c)
    BY <1>3 DEF Return, InMove, TypeOK
  <2> QED
    BY <1>3, <2>1, MembershipFrame DEF Return
<1>4. ASSUME NEW n \in PoolNames, NEW p \in PoolObjs, AddExclusivePool(n, p)
      PROVE  MembershipAgrees'
  <2>1. \A c \in CPUs : InMove(c)' <=> InMove(c)
    BY <1>4 DEF AddExclusivePool, callVars, InMove
  <2> QED
    BY <1>4, <2>1, MembershipFrame DEF AddExclusivePool
<1>5. ASSUME NEW t \in Threads, NEW c \in CPUs, SkipCpu(t, c) PROVE MembershipAgrees'
  <2>1. \A d \in CPUs : InMove(d)' <=> InMove(d)
    BY <1>5 DEF SkipCpu, InMove
  <2> QED
    BY <1>5, <2>1, MembershipFrame DEF SkipCpu, libVars
<1>6. ASSUME NEW t \in Threads, NEW c \in CPUs, RejectCpu(t, c) PROVE MembershipAgrees'
  <2>1. \A d \in CPUs : InMove(d)' <=> InMove(d)
    BY <1>6 DEF RejectCpu, Visits, InMove, TypeOK
  <2> QED
    BY <1>6, <2>1, MembershipFrame DEF RejectCpu, libVars
<1>7. ASSUME NEW t \in Threads, NEW c \in CPUs, BeginMove(t, c) PROVE MembershipAgrees'
  <2>1. Inside(t) /\ Inside(t)'
    BY <1>7 DEF BeginMove, Visits, Inside, TypeOK
  <2>2. \A d \in CPUs : ~InMove(d)
    BY <1>7, <2>1, InMoveOfOwner DEF BeginMove, Visits
  <2>3. \A d \in CPUs : InMove(d)' <=> d = c
    <3>1. \A s \in Threads \ {t} : pc'[s] # "moving"
      BY <1>7, <2>1, Alone DEF BeginMove, Inside, TypeOK
    <3> QED
      BY <1>7, <3>1 DEF BeginMove, InMove, TypeOK
  <2>4. Target(req[t], c) \in Pools
    BY TargetIsPool DEF TypeOK
  <2> QED
    BY <1>7, <2>2, <2>3, <2>4 DEF BeginMove, MembershipAgrees, TypeOK
<1>8. ASSUME NEW t \in Threads, FinishMove(t) PROVE MembershipAgrees'
  <2>1. Inside(t)
    BY <1>8 DEF FinishMove, Inside
  <2>2. moving[t] \in CPUs
    BY <1>8 DEF FinishMove, MoveInLoop, TypeOK
  <2>3. \A d \in CPUs : InMove(d) <=> d = moving[t]
    BY <1>8, <2>1, InMoveOfOwner DEF FinishMove
  <2>4. \A d \in CPUs : ~InMove(d)'
    BY <1>8, <2>1, Alone DEF FinishMove, InMove, Inside, TypeOK
  <2> QED
    BY <1>8, <2>2, <2>3, <2>4 DEF FinishMove, MembershipAgrees, TypeOK
<1>9. ASSUME NEW t \in Threads, RevertMove(t) PROVE MembershipAgrees'
  <2>1. Inside(t)
    BY <1>9 DEF RevertMove, Inside
  <2>2. moving[t] \in CPUs /\ origPool[t] \in Pools
    BY <1>9 DEF RevertMove, MoveInLoop, TypeOK
  <2>3. \A d \in CPUs : InMove(d) <=> d = moving[t]
    BY <1>9, <2>1, InMoveOfOwner DEF RevertMove
  <2>4. \A d \in CPUs : ~InMove(d)'
    BY <1>9, <2>1, Alone DEF RevertMove, InMove, Inside, TypeOK
  <2> QED
    BY <1>9, <2>2, <2>3, <2>4 DEF RevertMove, MembershipAgrees, TypeOK
<1>10. ASSUME NEW t \in Threads, NEW c \in CPUs, ApplyProfile(t, c) PROVE MembershipAgrees'
  <2>1. \A d \in CPUs : InMove(d)' <=> InMove(d)
    BY <1>10 DEF ApplyProfile, InMove
  <2> QED
    BY <1>10, <2>1, MembershipFrame DEF ApplyProfile
<1>11. ASSUME NEW t \in Threads, NEW c \in CPUs, ApplyProfileFails(t, c) PROVE MembershipAgrees'
  <2>1. \A d \in CPUs : InMove(d)' <=> InMove(d)
    BY <1>11 DEF ApplyProfileFails, Visits, InMove, TypeOK
  <2> QED
    BY <1>11, <2>1, MembershipFrame DEF ApplyProfileFails
<1>12. CASE UNCHANGED vars
  BY <1>12 DEF vars, callVars, libVars, MembershipAgrees, InMove
<1> QED
  BY <1>1, <1>2, <1>3, <1>4, <1>5, <1>6, <1>7, <1>8, <1>9, <1>10, <1>11, <1>12
     DEF Next, Work

-----------------------------------------------------------------------------
\* The CPUs a SetPowerProfile has still to reach are those of the owner's loop.
LEMMA InProfileUpdateOfOwner ==
    ASSUME TypeOK, MutexOwned, NEW t \in Threads, Inside(t), NEW c
    PROVE  InProfileUpdate(c) <=>
               pc[t] = "running" /\ req[t].op = "SetPowerProfile" /\ c \in todo[t]
  BY Alone DEF InProfileUpdate, Inside

\* No step changes the hardware, the profile or the pool of a CPU without the
\* CPU being in a move or an update, being reached by it, or being left behind.
LEMMA NextHardwareFollowsPool ==
    ASSUME IInv, [Next]_vars
    PROVE  HardwareFollowsPool'
<1> USE BasicPools DEF IInv
<1>0. ASSUME UNCHANGED <<hw, powerProfile, cpuPool, unapplied>>,
             \A c \in CPUs : InMove(c) => InMove(c)',
             \A c \in CPUs : InProfileUpdate(c) => InProfileUpdate(c)'
      PROVE  HardwareFollowsPool'
  BY <1>0 DEF HardwareFollowsPool
<1>1. ASSUME NEW t \in Threads, NEW r \in Requests, Call(t, r) PROVE HardwareFollowsPool'
  <2>1. \A c \in CPUs : (InMove(c) => InMove(c)') /\ (InProfileUpdate(c) => InProfileUpdate(c)')
    BY <1>1 DEF Call, InMove, InProfileUpdate, TypeOK
  <2> QED
    BY <1>0, <1>1, <2>1 DEF Call, libVars
<1>2. ASSUME NEW t \in Threads, Lock(t) PROVE HardwareFollowsPool'
  <2>1. \A c \in CPUs : ~InMove(c) /\ ~InProfileUpdate(c)
    BY <1>2, NobodyInside DEF Lock, InMove, InProfileUpdate, Inside
  <2>2. \A c \in CPUs \ unapplied : hw[c] = powerProfile[cpuPool[c]]
    BY <2>1 DEF HardwareFollowsPool
  <2>3. CASE req[t].op # "SetPowerProfile"
    BY <1>2, <2>2, <2>3 DEF Lock, HardwareFollowsPool
  <2>4. CASE req[t].op = "SetPowerProfile"
    <3>1. \A c \in CPUs : cpuPool[c] = req[t].pool => c \in members[req[t].pool]
      BY <2>1, RequestFields DEF MembershipAgrees, TypeOK
    <3>2. \A c \in CPUs : cpuPool[c] = req[t].pool => InProfileUpdate(c)'
      BY <1>2, <2>4, <3>1 DEF Lock, LoopCpus, InProfileUpdate, TypeOK
    <3>3. \A c \in CPUs : cpuPool[c] # req[t].pool =>
                             powerProfile'[cpuPool[c]] = powerProfile[cpuPool[c]]
      BY <1>2 DEF Lock, TypeOK
    <3> QED
      BY <1>2, <2>2, <3>2, <3>3 DEF Lock, HardwareFollowsPool
  <2> QED
    BY <2>3, <2>4
<1>3. ASSUME NEW t \in Threads, Return(t) PROVE HardwareFollowsPool'
  <2>1. Inside(t)
    BY <1>3 DEF Return, Inside
  <2>2. \A c \in CPUs : ~InMove(c) /\ ~InProfileUpdate(c)
    BY <1>3, <2>1, InMoveOfOwner, InProfileUpdateOfOwner DEF Return
  <2> QED
    BY <1>0, <1>3, <2>2 DEF Return
<1>4. ASSUME NEW n \in PoolNames, NEW p \in PoolObjs, AddExclusivePool(n, p)
      PROVE  HardwareFollowsPool'
  BY <1>4 DEF AddExclusivePool, callVars, HardwareFollowsPool, InMove, InProfileUpdate
<1>5. ASSUME NEW t \in Threads, NEW c \in CPUs, SkipCpu(t, c) PROVE HardwareFollowsPool'
  <2>1. \A d \in CPUs : (InMove(d) => InMove(d)') /\ (InProfileUpdate(d) => InProfileUpdate(d)')
    BY <1>5 DEF SkipCpu, InMove, InProfileUpdate, TypeOK
  <2> QED
    BY <1>0, <1>5, <2>1 DEF SkipCpu, libVars
<1>6. ASSUME NEW t \in Threads, NEW c \in CPUs, RejectCpu(t, c) PROVE HardwareFollowsPool'
  <2>1. \A d \in CPUs : (InMove(d) => InMove(d)') /\ (InProfileUpdate(d) => InProfileUpdate(d)')
    BY <1>6 DEF RejectCpu, Visits, InMove, InProfileUpdate, TypeOK
  <2> QED
    BY <1>0, <1>6, <2>1 DEF RejectCpu, libVars
<1>7. ASSUME NEW t \in Threads, NEW c \in CPUs, BeginMove(t, c) PROVE HardwareFollowsPool'
  <2>1. Inside(t)
    BY <1>7 DEF BeginMove, Visits, Inside
  <2>2. \A d \in CPUs : ~InMove(d) /\ ~InProfileUpdate(d)
    BY <1>7, <2>1, InMoveOfOwner, InProfileUpdateOfOwner DEF BeginMove, Visits
  <2>3. InMove(c)'
    BY <1>7 DEF BeginMove, InMove, TypeOK
  <2>4. \A d \in CPUs \ {c} : cpuPool'[d] = cpuPool[d]
    BY <1>7 DEF BeginMove, TypeOK
  <2> QED
    BY <1>7, <2>2, <2>3, <2>4 DEF BeginMove, HardwareFollowsPool
<1>8. ASSUME NEW t \in Threads, FinishMove(t) PROVE HardwareFollowsPool'
  <2>1. Inside(t)
    BY <1>8 DEF FinishMove, Inside
  <2>2. moving[t] \in CPUs
    BY <1>8 DEF FinishMove, MoveInLoop, TypeOK
  <2>3. \A d \in CPUs \ {moving[t]} : ~InMove(d) /\ ~InProfileUpdate(d)
    BY <1>8, <2>1, InMoveOfOwner, InProfileUpdateOfOwner DEF FinishMove
  <2> QED
    BY <1>8, <2>2, <2>3 DEF FinishMove, Consolidated, HardwareFollowsPool, TypeOK
<1>9. ASSUME NEW t \in Threads, RevertMove(t) PROVE HardwareFollowsPool'
  <2>1. Inside(t)
    BY <1>9 DEF RevertMove, Inside
  <2>2. moving[t] \in CPUs
    BY <1>9 DEF RevertMove, MoveInLoop, TypeOK
  <2>3. \A d \in CPUs \ {moving[t]} : ~InMove(d) /\ ~InProfileUpdate(d)
    BY <1>9, <2>1, InMoveOfOwner, InProfileUpdateOfOwner DEF RevertMove
  <2> QED
    BY <1>9, <2>2, <2>3 DEF RevertMove, ConsolidateFailed, HardwareFollowsPool, TypeOK
<1>10. ASSUME NEW t \in Threads, NEW c \in CPUs, ApplyProfile(t, c) PROVE HardwareFollowsPool'
  <2>1. \A d \in CPUs \ {c} : /\ InMove(d) => InMove(d)'
                              /\ InProfileUpdate(d) => InProfileUpdate(d)'
    BY <1>10 DEF ApplyProfile, InMove, InProfileUpdate, TypeOK
  <2> QED
    BY <1>10, <2>1 DEF ApplyProfile, Consolidated, HardwareFollowsPool, TypeOK
<1>11. ASSUME NEW t \in Threads, NEW c \in CPUs, ApplyProfileFails(t, c)
       PROVE  HardwareFollowsPool'
  <2>1. Inside(t)
    BY <1>11 DEF ApplyProfileFails, Visits, Inside
  <2>2. \A d \in CPUs : ~InMove(d) /\ (InProfileUpdate(d) => d \in todo[t])
    BY <1>11, <2>1, InMoveOfOwner, InProfileUpdateOfOwner DEF ApplyProfileFails, Visits
  <2> QED
    BY <1>11, <2>2 DEF ApplyProfileFails, Visits, ConsolidateFailed, HardwareFollowsPool, TypeOK
<1>12. CASE UNCHANGED vars
  BY <1>12 DEF vars, callVars, libVars, HardwareFollowsPool, InMove, InProfileUpdate
<1> QED
  BY <1>1, <1>2, <1>3, <1>4, <1>5, <1>6, <1>7, <1>8, <1>9, <1>10, <1>11, <1>12
     DEF Next, Work

-----------------------------------------------------------------------------
\* The target of a CPU is the pool of the request exactly for the CPUs it lists.
LEMMA TargetOfReplace ==
    ASSUME TypeOK, NEW r \in Requests, r.op \in {"SetCPUIDs", "Remove"}, NEW c \in CPUs
    PROVE  Target(r, c) = r.pool <=> c \in r.cpus
  BY RequestFields, BasicPools DEF TypeOK, Target

\* A step of the owner of the mutex keeps LoopDelivers if it does for the owner.
LEMMA LoopOfOwner ==
    ASSUME TypeOK, MutexOwned, LoopDelivers, NEW t \in Threads, Inside(t),
           \A s \in Threads \ {t} : pc'[s] = pc[s],
           pc'[t] \in {"running", "moving"} => Delivers(t)'
    PROVE  LoopDelivers'
<1>1. \A s \in Threads \ {t} : pc'[s] \notin {"running", "moving"}
  BY Alone DEF Inside
<1> QED
  BY <1>1 DEF LoopDelivers

\* Each iteration extends what the loop has achieved to the CPU it visits.
LEMMA NextLoopDelivers ==
    ASSUME IInv, [Next]_vars
    PROVE  LoopDelivers'
<1> USE BasicPools DEF IInv
<1>1. ASSUME NEW t \in Threads, NEW r \in Requests, Call(t, r) PROVE LoopDelivers'
  <2>1. ASSUME NEW s \in Threads, pc'[s] \in {"running", "moving"} PROVE Delivers(s)'
    BY <1>1, <2>1 DEF Call, libVars, LoopDelivers, Delivers, Reached, TypeOK
  <2> QED
    BY <2>1 DEF LoopDelivers
<1>2. ASSUME NEW t \in Threads, Lock(t) PROVE LoopDelivers'
  <2>1. \A s \in Threads \ {t} : pc'[s] \notin {"running", "moving"}
    BY <1>2, NobodyInside DEF Lock, Inside, TypeOK
  <2>2. req[t] \in Requests /\ req' = req
    BY <1>2 DEF Lock, TypeOK
  <2>3. Delivers(t)'
    BY <1>2, <2>2, RequestFields DEF Lock, LoopCpus, Delivers, Reached, TypeOK
  <2> QED
    BY <2>1, <2>3 DEF LoopDelivers
<1>3. ASSUME NEW t \in Threads, Return(t) PROVE LoopDelivers'
  <2>1. Inside(t) /\ pc'[t] = "idle" /\ \A s \in Threads \ {t} : pc'[s] = pc[s]
    BY <1>3 DEF Return, Inside, TypeOK
  <2> QED
    BY <2>1, LoopOfOwner
<1>4. ASSUME NEW n \in PoolNames, NEW p \in PoolObjs, AddExclusivePool(n, p) PROVE LoopDelivers'
  BY <1>4 DEF AddExclusivePool, callVars, LoopDelivers, Delivers, Reached
<1>5. ASSUME NEW t \in Threads, NEW c \in CPUs, SkipCpu(t, c) PROVE LoopDelivers'
  <2>1. Inside(t) /\ pc' = pc /\ req[t] \in Requests
    BY <1>5 DEF SkipCpu, Visits, Inside, TypeOK
  <2>2. Delivers(t)
    BY <1>5 DEF SkipCpu, Visits, LoopDelivers
  <2>3. req[t].op = "MoveCPUIDs" => cpuPool[c] = req[t].pool
    BY <1>5 DEF SkipCpu, Target
  <2>4. req[t].op \in {"SetCPUIDs", "Remove"} => (cpuPool[c] = req[t].pool <=> c \in req[t].cpus)
    BY <1>5, <2>1, TargetOfReplace DEF SkipCpu
  <2>5. Delivers(t)'
    BY <1>5, <2>1, <2>2, <2>3, <2>4, RequestFields DEF SkipCpu, Visits, libVars, Delivers, Reached, TypeOK
  <2> QED
    BY <2>1, <2>5, LoopOfOwner
<1>6. ASSUME NEW t \in Threads, NEW c \in CPUs, RejectCpu(t, c) PROVE LoopDelivers'
  <2>1. Inside(t) /\ pc'[t] = "failed" /\ \A s \in Threads \ {t} : pc'[s] = pc[s]
    BY <1>6 DEF RejectCpu, Visits, Inside, TypeOK
  <2> QED
    BY <2>1, LoopOfOwner
<1>7. ASSUME NEW t \in Threads, NEW c \in CPUs, BeginMove(t, c) PROVE LoopDelivers'
  <2>1. Inside(t) /\ \A s \in Threads \ {t} : pc'[s] = pc[s]
    BY <1>7 DEF BeginMove, Visits, Inside, TypeOK
  <2>2. Delivers(t) /\ pc[t] = "running" /\ pc'[t] = "moving" /\ moving'[t] = c
    BY <1>7 DEF BeginMove, Visits, LoopDelivers, TypeOK
  <2>3. req[t].op # "SetPowerProfile" /\ todo' = todo /\ req' = req /\ req[t] \in Requests
    BY <1>7 DEF BeginMove, Visits, TypeOK
  <2>4. /\ cpuPool'[c] = Target(req[t], c)
        /\ \A d \in CPUs \ {c} : cpuPool'[d] = cpuPool[d]
    BY <1>7 DEF BeginMove, TypeOK
  <2>5. req[t].op = "MoveCPUIDs" => cpuPool'[c] = req[t].pool
    BY <2>4 DEF Target
  <2>6. req[t].op \in {"SetCPUIDs", "Remove"} =>
           (cpuPool'[c] = req[t].pool <=> c \in req[t].cpus)
    BY <2>3, <2>4, TargetOfReplace
  <2>7. \A d \in CPUs : Reached(t, d)' <=> Reached(t, d) \/ d = c
    BY <2>2, <2>3 DEF Reached
  <2>8. req[t].cpus \subseteq CPUs
    BY RequestFields DEF TypeOK
  <2>9. Delivers(t)'
    BY <2>2, <2>3, <2>4, <2>5, <2>6, <2>7, <2>8 DEF Delivers
  <2> QED
    BY <2>1, <2>9, LoopOfOwner
<1>8. ASSUME NEW t \in Threads, FinishMove(t) PROVE LoopDelivers'
  <2>1. Inside(t) /\ \A s \in Threads \ {t} : pc'[s] = pc[s]
    BY <1>8 DEF FinishMove, Inside, TypeOK
  <2>2. Delivers(t) /\ req[t].op # "SetPowerProfile" /\ req' = req /\ cpuPool' = cpuPool
    BY <1>8 DEF FinishMove, LoopDelivers, MoveInLoop
  <2>3. \A d \in CPUs : Reached(t, d)' <=> Reached(t, d)
    BY <1>8 DEF FinishMove, Reached, MoveInLoop, TypeOK
  <2>5. req[t].cpus \subseteq CPUs
    BY RequestFields DEF TypeOK
  <2>4. Delivers(t)'
    BY <2>2, <2>3, <2>5 DEF Delivers
  <2> QED
    BY <2>1, <2>4, LoopOfOwner
<1>9. ASSUME NEW t \in Threads, RevertMove(t) PROVE LoopDelivers'
  <2>1. Inside(t) /\ pc'[t] = "failed" /\ \A s \in Threads \ {t} : pc'[s] = pc[s]
    BY <1>9 DEF RevertMove, Inside, TypeOK
  <2> QED
    BY <2>1, LoopOfOwner
<1>10. ASSUME NEW t \in Threads, NEW c \in CPUs, ApplyProfile(t, c) PROVE LoopDelivers'
  <2>1. Inside(t) /\ pc' = pc
    BY <1>10 DEF ApplyProfile, Visits, Inside
  <2>2. Delivers(t) /\ pc[t] = "running" /\ req[t].op = "SetPowerProfile"
    BY <1>10 DEF ApplyProfile, Visits, LoopDelivers
  <2>3. \A d \in members[req[t].pool] : cpuPool[d] = req[t].pool
    BY RequestFields DEF MembershipAgrees, TypeOK
  <2>4. Delivers(t)'
    BY <1>10, <2>2, <2>3 DEF ApplyProfile, Consolidated, Delivers, Reached, TypeOK
  <2> QED
    BY <2>1, <2>4, LoopOfOwner
<1>11. ASSUME NEW t \in Threads, NEW c \in CPUs, ApplyProfileFails(t, c) PROVE LoopDelivers'
  <2>1. Inside(t) /\ pc'[t] = "failed" /\ \A s \in Threads \ {t} : pc'[s] = pc[s]
    BY <1>11 DEF ApplyProfileFails, Visits, Inside, TypeOK
  <2> QED
    BY <2>1, LoopOfOwner
<1>12. CASE UNCHANGED vars
  BY <1>12 DEF vars, callVars, libVars, LoopDelivers, Delivers, Reached
<1> QED
  BY <1>1, <1>2, <1>3, <1>4, <1>5, <1>6, <1>7, <1>8, <1>9, <1>10, <1>11, <1>12
     DEF Next, Work

-----------------------------------------------------------------------------
\* Only the owner of the mutex starts or carries a move.
LEMMA NextMoveLegal ==
    ASSUME IInv, [Next]_vars
    PROVE  MoveLegal'
<1> USE BasicPools DEF IInv, MoveLegal
<1>1. ASSUME NEW t \in Threads, NEW r \in Requests, Call(t, r) PROVE MoveLegal'
  BY <1>1 DEF Call, libVars, TypeOK
<1>2. ASSUME NEW t \in Threads, Lock(t) PROVE MoveLegal'
  BY <1>2 DEF Lock, TypeOK
<1>3. ASSUME NEW t \in Threads, Return(t) PROVE MoveLegal'
  BY <1>3 DEF Return, TypeOK
<1>4. ASSUME NEW n \in PoolNames, NEW p \in PoolObjs, AddExclusivePool(n, p) PROVE MoveLegal'
  BY <1>4 DEF AddExclusivePool, callVars
<1>5. ASSUME NEW t \in Threads, NEW c \in CPUs, SkipCpu(t, c) PROVE MoveLegal'
  BY <1>5 DEF SkipCpu, libVars
<1>6. ASSUME NEW t \in Threads, NEW c \in CPUs, RejectCpu(t, c) PROVE MoveLegal'
  BY <1>6 DEF RejectCpu, libVars, TypeOK
<1>7. ASSUME NEW t \in Threads, NEW c \in CPUs, BeginMove(t, c) PROVE MoveLegal'
  <2>1. Inside(t)
    BY <1>7 DEF BeginMove, Visits, Inside
  <2>2. \A s \in Threads \ {t} : pc'[s] # "moving"
    BY <1>7, <2>1, Alone DEF BeginMove, Inside, TypeOK
  <2> QED
    BY <1>7, <2>2 DEF BeginMove, TypeOK
<1>8. ASSUME NEW t \in Threads, FinishMove(t) PROVE MoveLegal'
  BY <1>8 DEF FinishMove, TypeOK
<1>9. ASSUME NEW t \in Threads, RevertMove(t) PROVE MoveLegal'
  <2>1. Inside(t)
    BY <1>9 DEF RevertMove, Inside
  <2>2. \A s \in Threads : pc'[s] # "moving"
    BY <1>9, <2>1, Alone DEF RevertMove, Inside, TypeOK
  <2> QED
    BY <2>2
<1>10. ASSUME NEW t \in Threads, NEW c \in CPUs, ApplyProfile(t, c) PROVE MoveLegal'
  BY <1>10 DEF ApplyProfile
<1>11. ASSUME NEW t \in Threads, NEW c \in CPUs, ApplyProfileFails(t, c) PROVE MoveLegal'
  BY <1>11 DEF ApplyProfileFails, TypeOK
<1>12. CASE UNCHANGED vars
  BY <1>12 DEF vars, callVars, libVars
<1> QED
  BY <1>1, <1>2, <1>3, <1>4, <1>5, <1>6, <1>7, <1>8, <1>9, <1>10, <1>11, <1>12
     DEF Next, Work

\* A pool object, once created, stays: pointers to it stay valid after Remove.
LEMMA NextPoolsExist ==
    ASSUME IInv, [Next]_vars
    PROVE  PoolsExist'
<1> USE BasicPools DEF IInv, PoolsExist
<1>0. ASSUME UNCHANGED <<poolName, cpuPool, req, origPool>> PROVE PoolsExist'
  BY <1>0 DEF Allocated, createdPools
<1>1. ASSUME NEW t \in Threads, NEW r \in Requests, Call(t, r) PROVE PoolsExist'
  BY <1>1 DEF Call, libVars, TypeOK, Allocated, createdPools
<1>2. ASSUME NEW t \in Threads, Lock(t) PROVE PoolsExist'
  BY <1>0, <1>2 DEF Lock
<1>3. ASSUME NEW t \in Threads, Return(t) PROVE PoolsExist'
  BY <1>3 DEF Return, TypeOK, Allocated, createdPools, NoRequest
<1>4. ASSUME NEW n \in PoolNames, NEW p \in PoolObjs, AddExclusivePool(n, p) PROVE PoolsExist'
  BY <1>4 DEF AddExclusivePool, callVars, TypeOK, Allocated, createdPools
<1>5. ASSUME NEW t \in Threads, NEW c \in CPUs, SkipCpu(t, c) PROVE PoolsExist'
  BY <1>0, <1>5 DEF SkipCpu, libVars
<1>6. ASSUME NEW t \in Threads, NEW c \in CPUs, RejectCpu(t, c) PROVE PoolsExist'
  BY <1>0, <1>6 DEF RejectCpu, libVars
<1>7. ASSUME NEW t \in Threads, NEW c \in CPUs, BeginMove(t, c) PROVE PoolsExist'
  <2>1. Target(req[t], c) \in Allocated
    BY DEF Target, Allocated
  <2> QED
    BY <1>7, <2>1 DEF BeginMove, TypeOK, Allocated, createdPools
<1>8. ASSUME NEW t \in Threads, FinishMove(t) PROVE PoolsExist'
  BY <1>8 DEF FinishMove, TypeOK, Allocated, createdPools
<1>9. ASSUME NEW t \in Threads, RevertMove(t) PROVE PoolsExist'
  BY <1>9 DEF RevertMove, TypeOK, Allocated, createdPools
<1>10. ASSUME NEW t \in Threads, NEW c \in CPUs, ApplyProfile(t, c) PROVE PoolsExist'
  BY <1>0, <1>10 DEF ApplyProfile
<1>11. ASSUME NEW t \in Threads, NEW c \in CPUs, ApplyProfileFails(t, c) PROVE PoolsExist'
  BY <1>0, <1>11 DEF ApplyProfileFails
<1>12. CASE UNCHANGED vars
  BY <1>0, <1>12 DEF vars, callVars, libVars
<1> QED
  BY <1>1, <1>2, <1>3, <1>4, <1>5, <1>6, <1>7, <1>8, <1>9, <1>10, <1>11, <1>12
     DEF Next, Work

-----------------------------------------------------------------------------
(***************************************************************************)
(* The theorems                                                            *)
(***************************************************************************)
LEMMA Inductive == Spec => []IInv
<1>1. IInv /\ [Next]_vars => IInv'
  BY NextTypeOK, NextMoveInLoop, NextMutexOwned, NextMembershipAgrees,
     NextHardwareFollowsPool, NextLoopDelivers, NextMoveLegal, NextPoolsExist DEF IInv
<1> QED
  BY InitIInv, <1>1, PTL DEF Spec

\* Every state of the library keeps its types, whatever calls interleave and
\* wherever a write fails.
THEOREM TypeCorrect == Spec => []TypeOK
<1>1. IInv => TypeOK
  BY DEF IInv
<1> QED
  BY Inductive, <1>1, PTL

\* The entry points hold the host mutex for the whole of their operation.
THEOREM MutexSafe == Spec => []MutexOwned
<1>1. IInv => MutexOwned
  BY DEF IInv
<1> QED
  BY Inductive, <1>1, PTL

\* The CPU lists of the pools and the pool pointers of the CPUs always agree.
THEOREM MembershipSafe == Spec => []MembershipAgrees
<1>1. IInv => MembershipAgrees
  BY DEF IInv
<1> QED
  BY Inductive, <1>1, PTL

\* Outside the operation in progress, sysfs holds the profile of a CPU's pool.
THEOREM HardwareSafe == Spec => []HardwareFollowsPool
<1>1. IInv => HardwareFollowsPool
  BY DEF IInv
<1> QED
  BY Inductive, <1>1, PTL

\* A call that returns without error did what it was asked to.
THEOREM CallsDeliver == Spec => []CallDelivers
<1>1. IInv => CallDelivers
  <2> SUFFICES ASSUME IInv, NEW t \in Threads, pc[t] = "running", todo[t] = {}
               PROVE  LET r == req[t] IN
                      /\ r.op = "SetCPUIDs" => members[r.pool] = r.cpus
                      /\ r.op = "MoveCPUIDs" => r.cpus \subseteq members[r.pool]
                      /\ r.op = "Remove" => members[r.pool] = {}
                      /\ r.op = "SetPowerProfile" => \A c \in members[r.pool] : hw[c] = r.profile
    BY DEF CallDelivers
  <2> USE DEF IInv
  <2>1. Inside(t)
    BY DEF Inside
  <2>2. \A c \in CPUs : ~InMove(c)
    BY <2>1, InMoveOfOwner
  <2>3. req[t] \in Requests /\ req[t].pool \in Pools /\ req[t].cpus \subseteq CPUs
    BY RequestFields DEF TypeOK
  <2>4. /\ members[req[t].pool] \subseteq CPUs
        /\ \A c \in CPUs : c \in members[req[t].pool] <=> cpuPool[c] = req[t].pool
    BY <2>2, <2>3 DEF MembershipAgrees, TypeOK
  <2>5. Delivers(t) /\ \A c \in CPUs : Reached(t, c)
    BY DEF LoopDelivers, Reached
  <2>6. req[t].op = "Remove" => req[t].cpus = {}
    BY <2>3, RequestFields
  <2> QED
    BY <2>3, <2>4, <2>5, <2>6 DEF Delivers
<1> QED
  BY Inductive, <1>1, PTL

=============================================================================
