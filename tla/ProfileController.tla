-------------------------- MODULE ProfileController --------------------------
(***************************************************************************)
(* The PowerProfile reconciler (powerprofile_controller.go): one worker    *)
(* that takes a profile from its queue and brings the library, the         *)
(* extended resources of the node and PowerNodeState in line with it.      *)
(* Every library call and every API request is a step of its own, so the   *)
(* other reconcilers run between them.                                     *)
(***************************************************************************)
EXTENDS AgentState

VARIABLE pro  \* the worker: [pc, key, val and shared (profile to apply), rest (pools), err]

proIdle == [pc |-> "idle", key |-> "nil", val |-> NoProfile, shared |-> FALSE, rest |-> {}, err |-> FALSE]

\* The reconcile returns; an error or RequeueAfter puts the profile back.
Done == pro' = proIdle /\ UNCHANGED profQueue
Requeue == pro' = proIdle /\ profQueue' = profQueue \cup {pro.key}

Goto(l) == pro' = [pro EXCEPT !.pc = l] /\ UNCHANGED profQueue

\* The deferred function writes err to PowerNodeState.  The calls that declare
\* an err of their own fail without setting it.
FailWith(e) == pro' = [pro EXCEPT !.pc = "failed", !.err = e] /\ UNCHANGED profQueue

usedByShared(f) == prof[shared].name = f

\* Mutant of ProfileBegin: a profile that stops matching the node is left alone.
ProfileBegin_IgnoresUnmatched(f) ==
    /\ pro.pc = "idle"
    /\ f \in profQueue
    /\ profQueue' = profQueue \ {f}
    /\ pro' = IF cr[f].state = "unmatched" THEN pro
              ELSE [pro EXCEPT
                      !.key = f,
                      !.val = [name |-> f, ver |-> cr[f].ver],
                      !.shared = cr[f].shared,
                      !.pc = IF cr[f].state = "absent" /\ usedByShared(f) THEN "clearShared"
                             ELSE IF cr[f].state = "absent" THEN "unresource"
                             ELSE IF cr[f].state = "invalid" THEN "invalid"
                             ELSE "pool"]
    /\ UNCHANGED <<library, cluster, report, cfgQueue, podQueue>>

\* Get, the node selector, and for a deleted profile the test whether the
\* shared pool uses it.
ProfileBegin(f) ==
    /\ pro.pc = "idle"
    /\ f \in profQueue
    /\ profQueue' = profQueue \ {f}
    /\ pro' = [pro EXCEPT
                 !.key = f,
                 !.val = [name |-> f, ver |-> cr[f].ver],
                 !.shared = cr[f].shared,
                 !.pc = IF cr[f].state = "absent" /\ usedByShared(f) THEN "clearShared"
                        ELSE IF cr[f].state \in {"absent", "unmatched"} THEN "unresource"
                        ELSE IF cr[f].state = "invalid" THEN "invalid"
                        ELSE "pool"]
    /\ UNCHANGED <<library, cluster, report, cfgQueue, podQueue>>

\* isValidEpp or NewPowerProfile refuse the profile.
RejectProfile ==
    /\ pro.pc = "invalid"
    /\ FailWith(TRUE)
    /\ UNCHANGED <<library, cluster, report, cfgQueue, podQueue>>

\* A profile without a pool gets one.
CreatePool ==
    /\ pro.pc = "pool"
    /\ pro.key \notin exclusive
    /\ AddExclusivePool(pro.key)
    /\ Goto("first")
    /\ UNCHANGED <<owner, cluster, report, cfgQueue, podQueue>>

\* SetPowerProfile on the new pool (a pod may already have found it).
FirstProfile ==
    /\ pro.pc = "first"
    /\ \/ SetPowerProfile(pro.key, pro.val) /\ Goto("resource")
       \/ SetPowerProfileFails(pro.key, pro.val) /\ FailWith(FALSE)
    /\ UNCHANGED <<owner, exclusive, cluster, report, cfgQueue, podQueue>>

\* Mutant of UpdatePool: a pool that exists keeps the profile it has.
UpdatePool_KeepsOld ==
    /\ pro.pc = "pool"
    /\ pro.key \in exclusive
    /\ Goto("shared")
    /\ UNCHANGED <<library, cluster, report, cfgQueue, podQueue>>

UpdatePool ==
    /\ pro.pc = "pool"
    /\ pro.key \in exclusive
    /\ \/ SetPowerProfile(pro.key, pro.val) /\ Goto("shared")
       \/ SetPowerProfileFails(pro.key, pro.val) /\ FailWith(TRUE)
    /\ UNCHANGED <<owner, exclusive, cluster, report, cfgQueue, podQueue>>

\* Does the shared pool use this profile?  And, after it, which special
\* reserved pools are there to go through.
CheckShared ==
    /\ pro.pc = "shared"
    /\ pro' = IF usedByShared(pro.key)
              THEN [pro EXCEPT !.pc = "setShared"]
              ELSE [pro EXCEPT !.pc = "pseudo", !.rest = listedPseudo]
    /\ UNCHANGED <<stateVars>>

UpdateShared ==
    /\ pro.pc = "setShared"
    /\ \/ /\ SetPowerProfile(shared, pro.val)
          /\ pro' = [pro EXCEPT !.pc = "pseudo", !.rest = listedPseudo]
          /\ UNCHANGED profQueue
       \/ SetPowerProfileFails(shared, pro.val) /\ FailWith(FALSE)
    /\ UNCHANGED <<owner, exclusive, cluster, report, cfgQueue, podQueue>>

\* One special reserved pool: updated if it uses the profile.  (The loop goes over
\* the library's own slice of pools.  While the config reconciler removes and adds
\* pools, the code may pass over one, as this does for one that has no profile yet,
\* or set the profile of one just removed, which has no CPU.)
UpdatePseudo(q) ==
    /\ pro.pc = "pseudo"
    /\ q \in pro.rest
    /\ \/ /\ q \notin exclusive \/ prof[q].name # pro.key
          /\ pro' = [pro EXCEPT !.rest = @ \ {q}]
          /\ UNCHANGED <<prof, profQueue>>
       \/ /\ q \in exclusive /\ prof[q].name = pro.key
          /\ \/ /\ SetPowerProfile(q, pro.val)
                /\ pro' = [pro EXCEPT !.rest = @ \ {q}]
                /\ UNCHANGED profQueue
             \/ SetPowerProfileFails(q, pro.val) /\ FailWith(FALSE)
    /\ UNCHANGED <<owner, exclusive, cluster, report, cfgQueue, podQueue>>

PseudoDone ==
    /\ pro.pc = "pseudo"
    /\ pro.rest = {}
    /\ Goto("resource")
    /\ UNCHANGED <<library, cluster, report, cfgQueue, podQueue>>

ensureExtendedResources(f) == extRes' = extRes \cup {f}
removeExtendedResources(f) == extRes' = extRes \ {f}
addPowerNodeStatusProfileEntry(f, e) ==
    profStatus' = [profStatus EXCEPT ![f] = IF e THEN "error" ELSE "ok"]
removePowerNodeStatusProfileEntry(f) == profStatus' = [profStatus EXCEPT ![f] = "none"]

\* Profiles that are not shared are offered as extended resources.  A shared one that
\* was not shared before keeps the resources it has.
OfferResource ==
    /\ pro.pc = "resource"
    /\ \/ /\ IF pro.shared THEN UNCHANGED extRes ELSE ensureExtendedResources(pro.key)
          /\ Goto("status")
       \/ /\ RequestsFail /\ ~pro.shared
          /\ FailWith(TRUE)
          /\ UNCHANGED extRes
    /\ UNCHANGED <<library, cluster, active, sharedStatus, entry, profStatus, cfgQueue, podQueue>>

\* The deferred function.
ReportProfile ==
    /\ pro.pc \in {"status", "failed"}
    /\ \/ /\ addPowerNodeStatusProfileEntry(pro.key, pro.err)
          /\ IF pro.pc = "failed" THEN Requeue ELSE Done
       \/ RequestsFail /\ UNCHANGED profStatus /\ Requeue
    /\ UNCHANGED <<library, cluster, active, sharedStatus, entry, extRes, cfgQueue, podQueue>>

(***************************************************************************)
(* handleProfileDeletion and cleanupProfileFromNode                        *)
(***************************************************************************)
ClearShared ==
    /\ pro.pc = "clearShared"
    /\ \/ SetPowerProfile(shared, NoProfile) /\ Goto("dropPool")
       \/ SetPowerProfileFails(shared, NoProfile) /\ Requeue
    /\ UNCHANGED <<owner, exclusive, cluster, report, cfgQueue, podQueue>>

DropPool ==
    /\ pro.pc = "dropPool"
    /\ \/ pro.key \in exclusive /\ RemovePool(pro.key) /\ Goto("unstatus")
       \/ pro.key \in exclusive /\ RemovePoolFails(pro.key) /\ Requeue
       \/ pro.key \notin exclusive /\ UNCHANGED library /\ Requeue
    /\ UNCHANGED <<cluster, report, cfgQueue, podQueue>>

WithdrawResource ==
    /\ pro.pc = "unresource"
    /\ \/ removeExtendedResources(pro.key) /\ Goto("unstatus")
       \/ RequestsFail /\ UNCHANGED extRes /\ Requeue
    /\ UNCHANGED <<library, cluster, active, sharedStatus, entry, profStatus, cfgQueue, podQueue>>

\* Mutant of UnreportProfile: an error of the write is dropped.
UnreportProfile_NoRetry ==
    /\ pro.pc = "unstatus"
    /\ \/ removePowerNodeStatusProfileEntry(pro.key) /\ Done
       \/ RequestsFail /\ UNCHANGED profStatus /\ Done
    /\ UNCHANGED <<library, cluster, active, sharedStatus, entry, extRes, cfgQueue, podQueue>>

UnreportProfile ==
    /\ pro.pc = "unstatus"
    /\ \/ removePowerNodeStatusProfileEntry(pro.key) /\ Done
       \/ RequestsFail /\ UNCHANGED profStatus /\ Requeue
    /\ UNCHANGED <<library, cluster, active, sharedStatus, entry, extRes, cfgQueue, podQueue>>

ProfileStep ==
    \/ \E f \in ProfileNames : ProfileBegin(f)
    \/ RejectProfile
    \/ CreatePool \/ FirstProfile
    \/ UpdatePool \/ CheckShared \/ UpdateShared
    \/ \E q \in PseudoPools : UpdatePseudo(q)
    \/ PseudoDone
    \/ OfferResource \/ ReportProfile
    \/ ClearShared \/ DropPool \/ WithdrawResource \/ UnreportProfile

=============================================================================
