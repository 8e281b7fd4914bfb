--------------------------- MODULE NodeAgentProofs ---------------------------
(***************************************************************************)
(* NodeAgent for every node, every set of profiles, configs and pods, and  *)
(* every number of changes and troubles.                                   *)
(***************************************************************************)
EXTENDS NodeAgent, SequenceTheorems, WellFoundedInduction, TLAPS

-----------------------------------------------------------------------------
(***************************************************************************)
(* What the constants and the library calls are                            *)
(***************************************************************************)

\* The names of pools.
LEMMA PoolFacts ==
    /\ reserved \in Pools /\ shared \in Pools /\ ProfileNames \subseteq Pools /\ PseudoPools \subseteq Pools
    /\ reserved # shared /\ reserved \notin ProfileNames /\ shared \notin ProfileNames
    /\ "nil" \notin ProfileNames
    /\ \A q \in PseudoPools : q \notin ProfileNames /\ q # reserved /\ q # shared
<1>1. reserved # shared
  BY DEF reserved, shared
<1> QED
  BY <1>1, NamesAssumption, EntriesAssumption DEF Pools

LEMMA EntryFacts ==
    /\ \A e \in Entries : /\ e.pool \in PseudoPools /\ e.cores \subseteq CPUs /\ e.profile \in ProfileNames
                          /\ \A p \in Pods : e.cores \cap cpusOf(p) = {}
    /\ NoEntrySpec \notin Entries
    /\ NoSpec \notin ConfigSpecs /\ NoSpec.reserved = {}
    /\ \A s \in ConfigSpecs : s.reserved \subseteq Entries /\ s.shared \in ProfileNames
<1>1. \A e \in Entries : /\ e.pool \in PseudoPools /\ e.cores \subseteq CPUs /\ e.profile \in ProfileNames
                         /\ \A p \in Pods : e.cores \cap cpusOf(p) = {}
  BY SpecsAssumption, ReservedSystemCPUs DEF PseudoPools
<1>2. NoEntrySpec \notin Entries
  BY <1>1, PoolFacts DEF NoEntrySpec
<1>3. NoSpec \notin ConfigSpecs /\ NoSpec.reserved = {}
  BY SpecsAssumption, PoolFacts DEF NoSpec
<1>4. \A s \in ConfigSpecs : s.reserved \subseteq Entries /\ s.shared \in ProfileNames
  BY SpecsAssumption DEF Entries
<1> QED
  BY <1>1, <1>2, <1>3, <1>4

LEMMA ContainerFacts ==
    ASSUME NEW p \in Pods
    PROVE  /\ DOMAIN podSpec[p] \subseteq Nat
           /\ \A i \in DOMAIN podSpec[p] :
                 /\ podSpec[p][i].profile \in ProfileNames /\ podSpec[p][i].cpus \subseteq cpusOf(p)
                 /\ podSpec[p][i] \in containersOf(p)
           /\ cpusOf(p) \subseteq CPUs
           /\ \A k \in containersOf(p) : \E i \in DOMAIN podSpec[p] : k = podSpec[p][i]
<1>1. /\ podSpec[p] \in Seq([profile: ProfileNames, cpus: SUBSET CPUs])
      /\ \A i \in DOMAIN podSpec[p] : podSpec[p][i] \in [profile: ProfileNames, cpus: SUBSET CPUs]
      /\ DOMAIN podSpec[p] \subseteq Nat
  <2>1. podSpec[p] \in Seq([profile: ProfileNames, cpus: SUBSET CPUs])
    BY PodsAssumption
  <2>2. DOMAIN podSpec[p] = 1..Len(podSpec[p]) /\ Len(podSpec[p]) \in Nat
    BY <2>1, LenProperties
  <2>3. \A i \in 1..Len(podSpec[p]) : podSpec[p][i] \in [profile: ProfileNames, cpus: SUBSET CPUs]
    BY <2>1, ElementOfSeq
  <2> QED
    BY <2>1, <2>2, <2>3
<1>2. \A i \in DOMAIN podSpec[p] : podSpec[p][i] \in containersOf(p)
  BY DEF containersOf
<1>3. \A k \in containersOf(p) : \E i \in DOMAIN podSpec[p] : k = podSpec[p][i]
  BY DEF containersOf
<1>4. \A k \in containersOf(p) : k.cpus \subseteq cpusOf(p)
  BY DEF cpusOf
<1>5. cpusOf(p) \subseteq CPUs
  <2>1. \A k \in containersOf(p) : k \in [profile: ProfileNames, cpus: SUBSET CPUs]
    BY <1>1, <1>3
  <2>2. \A k \in containersOf(p) : k.cpus \subseteq CPUs
    BY <2>1
  <2> QED
    BY <2>2 DEF cpusOf
<1> QED
  BY <1>1, <1>2, <1>3, <1>4, <1>5

LEMMA ValueFacts ==
    /\ NoProfile \in ProfileValues /\ NoProfile.name = "nil"
    /\ \A v \in ProfileValues : v.name \in ProfileNames \cup {"nil"}
    /\ \A f \in ProfileNames, n \in 1..MaxVersion :
          [name |-> f, ver |-> n] \in ProfileValues /\ [name |-> f, ver |-> n].name = f
  BY DEF ProfileValues, NoProfile

\* The least of some numbers is one of them.
LEMMA MinFacts ==
    ASSUME NEW S, S \subseteq Nat, S # {}
    PROVE  Min(S) \in S
<1>1. PICK n \in S : \A m \in S : <<m, n>> \notin OpToRel(<, Nat)
  BY NatLessThanWellFounded, WFMin
<1>2. \A m \in S : ~(m < n)
  BY <1>1 DEF OpToRel
<1>3. \A m \in S : n <= m
  BY <1>2
<1> QED
  BY <1>3 DEF Min

LEMMA SelectedFacts == present # {} => selected \in present
<1>1. present \subseteq Nat
  BY AgesAssumption DEF present
<1> QED
  BY <1>1, MinFacts DEF selected

\* A call moves CPUs of its list to its pool, from or to the shared pool, all of them
\* unless it fails.
LEMMA MoveFacts ==
    ASSUME owner \in [CPUs -> Pools], NEW S \in SUBSET CPUs, NEW p \in Pools,
           MoveCPUs(S, p) \/ MoveCPUsFails(S, p)
    PROVE  /\ owner' \in [CPUs -> Pools]
           /\ \A c \in CPUs : \/ owner'[c] = owner[c]
                              \/ c \in S /\ owner'[c] = p /\ shared \in {owner[c], p}
           /\ MoveCPUs(S, p) => \A c \in S : owner'[c] = p
<1>1. ASSUME NEW D \in SUBSET S, \A c \in D : Movable(c, p), owner' = Moved(D, p)
      PROVE  /\ owner' \in [CPUs -> Pools]
             /\ \A c \in CPUs : \/ owner'[c] = owner[c]
                                \/ c \in S /\ owner'[c] = p /\ shared \in {owner[c], p}
             /\ \A c \in D : owner'[c] = p
  BY <1>1 DEF Moved, Movable
<1>2. CASE MoveCPUs(S, p)
  BY <1>1, <1>2 DEF MoveCPUs
<1>3. CASE MoveCPUsFails(S, p) /\ ~MoveCPUs(S, p)
  BY <1>1, <1>3 DEF MoveCPUsFails
<1> QED
  BY <1>2, <1>3

LEMMA RemoveFacts ==
    ASSUME owner \in [CPUs -> Pools], NEW p \in Pools, RemovePool(p) \/ RemovePoolFails(p)
    PROVE  /\ owner' \in [CPUs -> Pools]
           /\ \A c \in CPUs : owner'[c] = owner[c] \/ (owner[c] = p /\ owner'[c] = shared)
           /\ \/ /\ RemovePool(p) /\ exclusive' = exclusive \ {p}
                 /\ prof' = [prof EXCEPT ![p] = NoProfile]
                 /\ p # shared => \A c \in CPUs : owner'[c] # p
              \/ RemovePoolFails(p) /\ UNCHANGED <<exclusive, prof>>
<1>1. cpusIn(p) \in SUBSET CPUs /\ \A c \in CPUs : c \in cpusIn(p) <=> owner[c] = p
  BY DEF cpusIn
<1>2. PICK S : S = cpusIn(p)
  OBVIOUS
<1>3. /\ MoveCPUs(cpusIn(p), shared) <=> MoveCPUs(S, shared)
      /\ MoveCPUsFails(cpusIn(p), shared) <=> MoveCPUsFails(S, shared)
  BY <1>2 DEF MoveCPUs, MoveCPUsFails
<1>4. /\ owner' \in [CPUs -> Pools]
      /\ \A c \in CPUs : owner'[c] = owner[c] \/ (owner[c] = p /\ owner'[c] = shared)
      /\ MoveCPUs(cpusIn(p), shared) => \A c \in cpusIn(p) : owner'[c] = shared
  <2>1. MoveCPUs(S, shared) \/ MoveCPUsFails(S, shared)
    BY <1>3 DEF RemovePool, RemovePoolFails
  <2>2. S \in SUBSET CPUs /\ shared \in Pools
    BY <1>1, <1>2, PoolFacts
  <2>3. /\ owner' \in [CPUs -> Pools]
        /\ \A c \in CPUs : owner'[c] = owner[c] \/ (c \in S /\ owner'[c] = shared)
        /\ MoveCPUs(S, shared) => \A c \in S : owner'[c] = shared
    BY <2>1, <2>2, MoveFacts
  <2> QED
    BY <1>1, <1>2, <1>3, <2>3
<1> QED
  BY <1>1, <1>4 DEF RemovePool, RemovePoolFails

-----------------------------------------------------------------------------
(***************************************************************************)
(* Type correctness                                                        *)
(***************************************************************************)

LEMMA InitTyped == Init => Typed
<1> SUFFICES ASSUME Init PROVE Typed
  OBVIOUS
<1>1. ProTyped
  BY PoolFacts, ValueFacts DEF Init, proIdle, ProTyped
<1>2. CfgTyped
  BY ValueFacts DEF Init, cfgIdle, CfgTyped, applyPCs, entryPCs
<1>3. PodTyped
  BY DEF Init, podIdle, PodTyped
<1>4. TypeOK
  BY PoolFacts, ValueFacts, BoundsAssumption DEF Init, InitState, TypeOK, CRStates, NoEntry, someConfig, latest
<1> QED
  BY <1>1, <1>2, <1>3, <1>4 DEF Typed

\* What a step of the profile reconciler can change.
LEMMA ProfileFrame ==
    ASSUME RunProfile
    PROVE  UNCHANGED <<cluster, active, sharedStatus, entry, cfgQueue, podQueue, cfg, pod, podState, missed>>
<1>1. UNCHANGED <<cfg, pod, podState, missed>>
  BY DEF RunProfile
<1>2. UNCHANGED <<cluster, active, sharedStatus, entry, cfgQueue, podQueue>>
  BY DEF RunProfile, ProfileStep, ProfileBegin, RejectProfile, CreatePool, FirstProfile, UpdatePool,
         CheckShared, UpdateShared, UpdatePseudo, PseudoDone, OfferResource, ReportProfile, ClearShared,
         DropPool, WithdrawResource, UnreportProfile, stateVars, library, report, queues
<1> QED
  BY <1>1, <1>2

LEMMA ProfileTyped ==
    ASSUME Typed, RunProfile
    PROVE  Typed'
<1> USE DEF Typed
<1>1. /\ owner \in [CPUs -> Pools] /\ exclusive \subseteq ProfileNames \cup PseudoPools
      /\ prof \in [Pools -> ProfileValues] /\ profStatus \in [ProfileNames -> {"none", "ok", "error"}]
      /\ extRes \subseteq ProfileNames /\ profQueue \subseteq ProfileNames
      /\ cr \in [ProfileNames -> [ver: 1..MaxVersion, state: CRStates, shared: BOOLEAN]]
  BY DEF TypeOK
<1>2. ASSUME owner' \in [CPUs -> Pools], exclusive' \subseteq ProfileNames \cup PseudoPools,
             prof' \in [Pools -> ProfileValues], profStatus' \in [ProfileNames -> {"none", "ok", "error"}],
             extRes' \subseteq ProfileNames, profQueue' \subseteq ProfileNames, ProTyped'
      PROVE  Typed'
  BY <1>2, ProfileFrame DEF cluster, TypeOK, CfgTyped, PodTyped
<1>3. proIdle \in [pc: {"idle"}, key: {"nil"}, val: ProfileValues, shared: BOOLEAN, rest: SUBSET PseudoPools,
                  err: BOOLEAN]
  BY ValueFacts DEF proIdle
<1>4. (pro' = proIdle => ProTyped') /\ (pro' = pro => ProTyped')
  BY <1>3 DEF ProTyped, proIdle
<1>5. pro.pc # "idle" => pro.key \in ProfileNames
  BY DEF ProTyped
<1>6. ASSUME NEW f \in ProfileNames, ProfileBegin(f) PROVE Typed'
  <2>1. [name |-> f, ver |-> cr[f].ver] \in ProfileValues /\ cr[f].shared \in BOOLEAN
    BY <1>1, ValueFacts
  <2>2. ProTyped'
    BY <1>6, <2>1, PoolFacts DEF ProTyped, ProfileBegin
  <2> QED
    BY <1>1, <1>2, <1>6, <2>2 DEF ProfileBegin, library, report
<1>7. CASE RejectProfile
  BY <1>1, <1>2, <1>7 DEF RejectProfile, FailWith, library, report, ProTyped
<1>8. CASE CreatePool
  <2>1. ProTyped' /\ pro.key \in Pools /\ pro.key \in ProfileNames
    BY <1>5, <1>8, PoolFacts DEF CreatePool, Goto, ProTyped
  <2> QED
    BY <1>1, <1>2, <1>8, <2>1, ValueFacts DEF CreatePool, Goto, AddExclusivePool, report
<1>9. ASSUME NEW p \in Pools, SetPowerProfile(p, pro.val) PROVE prof' \in [Pools -> ProfileValues]
  BY <1>1, <1>9 DEF SetPowerProfile, ProTyped
<1>10. pro.pc # "idle" => pro.key \in Pools
  BY <1>5, PoolFacts
<1>11. CASE FirstProfile
  <2>1. ProTyped'
    BY <1>11 DEF FirstProfile, Goto, FailWith, ProTyped
  <2>2. prof' \in [Pools -> ProfileValues]
    BY <1>1, <1>10, <1>11 DEF FirstProfile, SetPowerProfile, SetPowerProfileFails, ProTyped
  <2> QED
    BY <1>1, <1>2, <1>11, <2>1, <2>2 DEF FirstProfile, Goto, FailWith, report
<1>12. CASE UpdatePool
  <2>1. ProTyped'
    BY <1>12 DEF UpdatePool, Goto, FailWith, ProTyped
  <2>2. prof' \in [Pools -> ProfileValues]
    BY <1>1, <1>10, <1>12 DEF UpdatePool, SetPowerProfile, SetPowerProfileFails, ProTyped
  <2> QED
    BY <1>1, <1>2, <1>12, <2>1, <2>2 DEF UpdatePool, Goto, FailWith, report
<1>13. CASE CheckShared
  <2>1. ProTyped'
    BY <1>13 DEF CheckShared, ProTyped, listedPseudo
  <2> QED
    BY <1>1, <1>2, <1>13, <2>1 DEF CheckShared, stateVars, library, report, queues
<1>14. CASE UpdateShared
  <2>1. ProTyped'
    BY <1>14 DEF UpdateShared, FailWith, ProTyped, listedPseudo
  <2>2. prof' \in [Pools -> ProfileValues]
    BY <1>1, <1>14, PoolFacts DEF UpdateShared, SetPowerProfile, SetPowerProfileFails, ProTyped
  <2> QED
    BY <1>1, <1>2, <1>14, <2>1, <2>2 DEF UpdateShared, FailWith, report
<1>15. ASSUME NEW q \in PseudoPools, UpdatePseudo(q) PROVE Typed'
  <2>1. ProTyped'
    BY <1>15 DEF UpdatePseudo, FailWith, ProTyped
  <2>2. prof' \in [Pools -> ProfileValues]
    BY <1>1, <1>15, PoolFacts DEF UpdatePseudo, SetPowerProfile, SetPowerProfileFails, ProTyped
  <2> QED
    BY <1>1, <1>2, <1>15, <2>1, <2>2 DEF UpdatePseudo, FailWith, report
<1>16. CASE PseudoDone
  BY <1>1, <1>2, <1>16 DEF PseudoDone, Goto, library, report, ProTyped
<1>17. CASE OfferResource
  <2>1. ProTyped'
    BY <1>17 DEF OfferResource, Goto, FailWith, ProTyped
  <2> QED
    BY <1>1, <1>2, <1>5, <1>17, <2>1 DEF OfferResource, Goto, FailWith, ensureExtendedResources, library
<1>18. CASE ReportProfile
  <2>1. ProTyped'
    BY <1>4, <1>18 DEF ReportProfile, Done, Requeue
  <2>2. profQueue' \subseteq ProfileNames /\ profStatus' \in [ProfileNames -> {"none", "ok", "error"}]
    BY <1>1, <1>5, <1>18 DEF ReportProfile, Done, Requeue, addPowerNodeStatusProfileEntry
  <2> QED
    BY <1>1, <1>2, <1>18, <2>1, <2>2 DEF ReportProfile, library
<1>19. CASE ClearShared
  <2>1. ProTyped'
    BY <1>4, <1>19 DEF ClearShared, Goto, Requeue, ProTyped
  <2>2. profQueue' \subseteq ProfileNames /\ prof' \in [Pools -> ProfileValues]
    BY <1>1, <1>5, <1>19, PoolFacts, ValueFacts
    DEF ClearShared, Goto, Requeue, SetPowerProfile, SetPowerProfileFails
  <2> QED
    BY <1>1, <1>2, <1>19, <2>1, <2>2 DEF ClearShared, report
<1>20. CASE DropPool
  <2>1. ProTyped'
    BY <1>4, <1>20 DEF DropPool, Goto, Requeue, ProTyped
  <2>2. profQueue' \subseteq ProfileNames
    BY <1>1, <1>5, <1>20 DEF DropPool, Goto, Requeue
  <2>3. PICK p : p = pro.key /\ p \in Pools
    BY <1>10, <1>20 DEF DropPool
  <2>4. RemovePool(p) \/ RemovePoolFails(p) \/ UNCHANGED library
    BY <1>20, <2>3 DEF DropPool, RemovePool, RemovePoolFails
  <2>5. /\ owner' \in [CPUs -> Pools] /\ exclusive' \subseteq ProfileNames \cup PseudoPools
        /\ prof' \in [Pools -> ProfileValues]
    BY <1>1, <2>3, <2>4, RemoveFacts, ValueFacts DEF library
  <2> QED
    BY <1>1, <1>2, <1>20, <2>1, <2>2, <2>5 DEF DropPool, report
<1>21. CASE WithdrawResource
  <2>1. ProTyped'
    BY <1>4, <1>21 DEF WithdrawResource, Goto, Requeue, ProTyped
  <2> QED
    BY <1>1, <1>2, <1>5, <1>21, <2>1 DEF WithdrawResource, Goto, Requeue, removeExtendedResources, library
<1>22. CASE UnreportProfile
  <2>1. ProTyped'
    BY <1>4, <1>22 DEF UnreportProfile, Done, Requeue
  <2>2. profQueue' \subseteq ProfileNames /\ profStatus' \in [ProfileNames -> {"none", "ok", "error"}]
    BY <1>1, <1>5, <1>22 DEF UnreportProfile, Done, Requeue, removePowerNodeStatusProfileEntry
  <2> QED
    BY <1>1, <1>2, <1>22, <2>1, <2>2 DEF UnreportProfile, library
<1> QED
  BY <1>6, <1>7, <1>8, <1>11, <1>12, <1>13, <1>14, <1>15, <1>16, <1>17, <1>18, <1>19, <1>20, <1>21, <1>22
  DEF RunProfile, ProfileStep

\* What a step of the config reconciler can change.
LEMMA ConfigFrame ==
    ASSUME RunConfig
    PROVE  UNCHANGED <<cluster, entry, profStatus, extRes, profQueue, podQueue, pro, pod, podState, missed>>
<1>1. UNCHANGED <<pro, pod, podState, missed>>
  BY DEF RunConfig
<1>2. UNCHANGED <<cluster, entry, profStatus, extRes, profQueue, podQueue>>
  BY DEF RunConfig, ConfigStep, BeginApply, RefuseConfig, NothingToApply, ReadSharedProfile,
         SetSharedProfile, ClearReserved, RemoveOld, CleanupPseudo, RemovedAll, BeginEntry,
         CreateReserved, ReadCoreProfile, TuneReserved, FillReserved, DropReserved, FallBack,
         EntriesDone, ReportPools, BeginCleanup, MoveBack, ForgetPools, report, queues
<1> QED
  BY <1>1, <1>2

\* The current entry and its pool, the pools that are left, the spec.
LEMMA ConfigWorkerFacts ==
    ASSUME Typed
    PROVE  /\ cfg.pc \in entryPCs =>
                 /\ cfg.cur \in Entries /\ cfg.cur.pool \in PseudoPools /\ cfg.cur.pool \in Pools
                 /\ cfg.cur.cores \subseteq CPUs /\ cfg.cur.profile \in ProfileNames
           /\ cfg.pc \in applyPCs => cfg.spec.reserved \subseteq Entries /\ cfg.spec.shared \in ProfileNames
           /\ cfg.val \in ProfileValues /\ cfg.moved \subseteq CPUs
           /\ cpusIn(reserved) \subseteq CPUs /\ cpusIn(shared) \subseteq CPUs
           /\ entryPCs \subseteq applyPCs
<1>1. entryPCs \subseteq applyPCs
  BY DEF entryPCs, applyPCs
<1>2. cfg.pc \in applyPCs => cfg.spec.reserved \subseteq Entries /\ cfg.spec.shared \in ProfileNames
  BY EntryFacts DEF Typed, CfgTyped
<1>3. cfg.pc \in entryPCs => cfg.cur \in Entries
  BY <1>1, <1>2 DEF Typed, CfgTyped
<1>4. cfg.val \in ProfileValues /\ cfg.moved \subseteq CPUs
  BY DEF Typed, CfgTyped
<1> QED
  BY <1>1, <1>2, <1>3, <1>4, EntryFacts, PoolFacts DEF cpusIn


LEMMA ConfigTyped ==
    ASSUME Typed, RunConfig
    PROVE  Typed'
<1> USE DEF Typed
<1>1. /\ owner \in [CPUs -> Pools] /\ exclusive \subseteq ProfileNames \cup PseudoPools
      /\ prof \in [Pools -> ProfileValues] /\ active \in ConfigNames \cup {NoConfig}
      /\ sharedStatus \subseteq CPUs /\ cfgQueue \in BOOLEAN
      /\ configs \in [ConfigNames -> ConfigSpecs \cup {NoSpec}]
  BY DEF TypeOK
<1>2. ASSUME owner' \in [CPUs -> Pools], exclusive' \subseteq ProfileNames \cup PseudoPools,
             prof' \in [Pools -> ProfileValues], active' \in ConfigNames \cup {NoConfig},
             sharedStatus' \subseteq CPUs, cfgQueue' \in BOOLEAN, CfgTyped'
      PROVE  Typed'
  BY <1>2, ConfigFrame DEF cluster, TypeOK, ProTyped, PodTyped
<1>3. /\ cfgIdle.pc = "idle" /\ cfgIdle.rest = {} /\ "idle" \notin applyPCs /\ "idle" \notin entryPCs
      /\ cfgIdle \in [pc: {"idle"}, name: {NoConfig}, spec: {NoSpec}, rest: {{}}, cur: {NoEntrySpec},
                      val: ProfileValues, moved: SUBSET CPUs, err: BOOLEAN]
  BY ValueFacts DEF cfgIdle, applyPCs, entryPCs
<1>4. (cfg' = cfgIdle => CfgTyped') /\ (cfg' = cfg => CfgTyped')
  BY <1>3 DEF CfgTyped
<1>5. ASSUME NEW b \in BOOLEAN, Finish(b) PROVE CfgTyped' /\ cfgQueue' \in BOOLEAN
  BY <1>1, <1>4, <1>5 DEF Finish
<1>6. CASE BeginApply
  <2>1. selected \in ConfigNames /\ configs[selected] \in ConfigSpecs
    BY <1>1, <1>6, SelectedFacts DEF BeginApply, present
  <2>2. CfgTyped'
    BY <1>6, <2>1 DEF BeginApply, CfgTyped, applyPCs, entryPCs
  <2> QED
    BY <1>1, <1>2, <1>6, <2>2 DEF BeginApply, library, report
<1>7. CASE RefuseConfig
  <2>1. selected \in ConfigNames
    BY <1>1, <1>7, SelectedFacts DEF RefuseConfig, present
  <2> QED
    BY <1>1, <1>2, <1>4, <1>7, <2>1 DEF RefuseConfig, updatePowerNodeStatusPools, library, queues
<1>8. CASE NothingToApply
  BY <1>1, <1>2, <1>4, <1>8 DEF NothingToApply, library, report
<1>9. CASE ReadSharedProfile
  <2>1. cfg.spec.shared \in Pools
    BY <1>9, ConfigWorkerFacts, PoolFacts DEF ReadSharedProfile, applyPCs
  <2>2. prof[cfg.spec.shared] \in ProfileValues
    BY <1>1, <2>1
  <2>3. CfgTyped' /\ cfgQueue' \in BOOLEAN
    <3>1. CASE cfg' = [cfg EXCEPT !.pc = "set", !.val = prof[cfg.spec.shared]] /\ UNCHANGED cfgQueue
      BY <1>1, <1>9, <2>2, <3>1 DEF ReadSharedProfile, CfgTyped, applyPCs, entryPCs
    <3> QED
      BY <1>5, <1>9, <3>1 DEF ReadSharedProfile, Continue
  <2> QED
    BY <1>1, <1>2, <1>9, <2>3 DEF ReadSharedProfile, library, report
<1>10. CASE SetSharedProfile
  <2>1. CfgTyped' /\ cfgQueue' \in BOOLEAN
    <3>1. CASE ContinueAt("clear")
      BY <1>1, <1>10, <3>1 DEF SetSharedProfile, ContinueAt, Continue, CfgTyped, applyPCs, entryPCs
    <3> QED
      BY <1>5, <1>10, <3>1 DEF SetSharedProfile
  <2>2. prof' \in [Pools -> ProfileValues]
    BY <1>1, <1>10, ConfigWorkerFacts, PoolFacts
    DEF SetSharedProfile, SetPowerProfile, SetPowerProfileFails
  <2> QED
    BY <1>1, <1>2, <1>10, <2>1, <2>2 DEF SetSharedProfile, report
<1>11. CASE ClearReserved
  <2>1. CfgTyped' /\ cfgQueue' \in BOOLEAN
    <3>1. CASE Continue([cfg EXCEPT !.pc = "remove", !.rest = listedPseudo, !.val = NoProfile])
      BY <1>1, <1>11, <3>1, ValueFacts
      DEF ClearReserved, Continue, CfgTyped, applyPCs, entryPCs, listedPseudo
    <3> QED
      BY <1>5, <1>11, <3>1 DEF ClearReserved
  <2>2. PICK S \in SUBSET CPUs : S = cpusIn(reserved)
    BY ConfigWorkerFacts
  <2>3. MoveCPUs(S, shared) \/ MoveCPUsFails(S, shared)
    BY <1>11, <2>2 DEF ClearReserved, MoveCPUs, MoveCPUsFails
  <2>4. owner' \in [CPUs -> Pools]
    BY <1>1, <2>3, MoveFacts, PoolFacts
  <2> QED
    BY <1>1, <1>2, <1>11, <2>1, <2>4 DEF ClearReserved, report
<1>12. ASSUME NEW q \in PseudoPools, RemoveOld(q) PROVE Typed'
  <2>1. CfgTyped' /\ cfgQueue' \in BOOLEAN
    <3>1. CASE Continue([cfg EXCEPT !.rest = @ \ {q}])
      BY <1>1, <1>12, <3>1 DEF RemoveOld, Continue, CfgTyped, applyPCs, entryPCs
    <3>2. CASE GiveUp
      BY <1>1, <1>12, <3>2 DEF RemoveOld, GiveUp, Continue, CfgTyped, applyPCs, entryPCs
    <3> QED
      BY <1>12, <3>1, <3>2 DEF RemoveOld
  <2>2. /\ owner' \in [CPUs -> Pools] /\ exclusive' \subseteq ProfileNames \cup PseudoPools
        /\ prof' \in [Pools -> ProfileValues]
    <3>1. RemovePool(q) \/ RemovePoolFails(q)
      BY <1>12 DEF RemoveOld
    <3> QED
      BY <1>1, <3>1, RemoveFacts, PoolFacts, ValueFacts
  <2> QED
    BY <1>1, <1>2, <1>12, <2>1, <2>2 DEF RemoveOld, report
<1>13. ASSUME NEW q \in PseudoPools, CleanupPseudo(q) PROVE Typed'
  <2>1. CfgTyped' /\ cfgQueue' \in BOOLEAN
    <3>1. CASE Continue([cfg EXCEPT !.rest = @ \ {q}, !.moved = @ \cup cpusIn(q)])
      BY <1>1, <1>13, <3>1 DEF CleanupPseudo, Continue, CfgTyped, applyPCs, entryPCs, cpusIn
    <3> QED
      BY <1>5, <1>13, <3>1 DEF CleanupPseudo
  <2>2. /\ owner' \in [CPUs -> Pools] /\ exclusive' \subseteq ProfileNames \cup PseudoPools
        /\ prof' \in [Pools -> ProfileValues]
    <3>1. RemovePool(q) \/ RemovePoolFails(q)
      BY <1>13 DEF CleanupPseudo
    <3> QED
      BY <1>1, <3>1, RemoveFacts, PoolFacts, ValueFacts
  <2> QED
    BY <1>1, <1>2, <1>13, <2>1, <2>2 DEF CleanupPseudo, report
<1>14. CASE RemovedAll
  <2>1. CfgTyped'
    BY <1>14 DEF RemovedAll, Continue, CfgTyped, applyPCs, entryPCs
  <2> QED
    BY <1>1, <1>2, <1>14, <2>1 DEF RemovedAll, Continue, library, report
<1>15. ASSUME NEW e \in Entries, BeginEntry(e) PROVE Typed'
  <2>1. CfgTyped' /\ cfgQueue' \in BOOLEAN
    <3>1. CASE Continue([cfg EXCEPT !.pc = "create", !.cur = e, !.rest = @ \ {e}])
      BY <1>1, <1>15, <3>1 DEF BeginEntry, Continue, CfgTyped, applyPCs, entryPCs
    <3>2. CASE GiveUp
      BY <1>1, <1>15, <3>2 DEF BeginEntry, GiveUp, Continue, CfgTyped, applyPCs, entryPCs
    <3> QED
      BY <1>15, <3>1, <3>2 DEF BeginEntry
  <2>2. PICK S \in SUBSET CPUs : S = e.cores
    BY EntryFacts
  <2>3. MoveCPUs(S, shared) \/ MoveCPUsFails(S, shared)
    BY <1>15, <2>2 DEF BeginEntry, MoveCPUs, MoveCPUsFails
  <2>4. owner' \in [CPUs -> Pools]
    BY <1>1, <2>3, MoveFacts, PoolFacts
  <2> QED
    BY <1>1, <1>2, <1>15, <2>1, <2>4 DEF BeginEntry, report
<1>16. CASE CreateReserved
  <2>1. cfg.cur.pool \in PseudoPools /\ cfg.cur.pool \in Pools
    BY <1>16, ConfigWorkerFacts DEF CreateReserved, entryPCs
  <2>2. CfgTyped' /\ cfgQueue' \in BOOLEAN
    <3>1. CASE ContinueAt("core")
      BY <1>1, <1>16, <3>1 DEF CreateReserved, ContinueAt, Continue, CfgTyped, applyPCs, entryPCs
    <3>2. CASE Continue([cfg EXCEPT !.pc = "fallback", !.err = TRUE])
      BY <1>1, <1>16, <3>2 DEF CreateReserved, Continue, CfgTyped, applyPCs, entryPCs
    <3> QED
      BY <1>16, <3>1, <3>2 DEF CreateReserved
  <2>3. exclusive' \subseteq ProfileNames \cup PseudoPools /\ prof' \in [Pools -> ProfileValues]
    BY <1>1, <1>16, <2>1, ValueFacts DEF CreateReserved, AddExclusivePool
  <2> QED
    BY <1>1, <1>2, <1>16, <2>2, <2>3 DEF CreateReserved, report
<1>17. CASE ReadCoreProfile
  <2>1. prof[cfg.cur.profile] \in ProfileValues
    BY <1>1, <1>17, ConfigWorkerFacts, PoolFacts DEF ReadCoreProfile, entryPCs
  <2>2. CfgTyped'
    <3>1. CASE cfg' = [cfg EXCEPT !.pc = "tune", !.val = prof[cfg.cur.profile]]
      BY <1>17, <2>1, <3>1 DEF ReadCoreProfile, CfgTyped, applyPCs, entryPCs
    <3>2. CASE cfg' = [cfg EXCEPT !.pc = "drop", !.err = TRUE]
      BY <1>17, <3>2 DEF ReadCoreProfile, CfgTyped, applyPCs, entryPCs
    <3> QED
      BY <1>17, <3>1, <3>2 DEF ReadCoreProfile, Continue
  <2> QED
    BY <1>1, <1>2, <1>17, <2>2 DEF ReadCoreProfile, Continue, library, report
<1>18. CASE TuneReserved
  <2>1. CfgTyped'
    BY <1>18, ValueFacts DEF TuneReserved, Continue, CfgTyped, applyPCs, entryPCs
  <2>2. prof' \in [Pools -> ProfileValues]
    BY <1>1, <1>18, ConfigWorkerFacts DEF TuneReserved, SetPowerProfile, entryPCs
  <2> QED
    BY <1>1, <1>2, <1>18, <2>1, <2>2 DEF TuneReserved, Continue, report
<1>19. CASE FillReserved
  <2>1. CfgTyped'
    <3>1. CASE Continue([cfg EXCEPT !.pc = "entries", !.cur = NoEntrySpec])
      BY <1>19, <3>1 DEF FillReserved, Continue, CfgTyped, applyPCs, entryPCs
    <3>2. CASE Continue([cfg EXCEPT !.pc = "drop", !.err = TRUE])
      BY <1>19, <3>2 DEF FillReserved, Continue, CfgTyped, applyPCs, entryPCs
    <3> QED
      BY <1>19, <3>1, <3>2 DEF FillReserved
  <2>2. PICK S \in SUBSET CPUs, p \in Pools : S = cfg.cur.cores /\ p = cfg.cur.pool
    BY <1>19, ConfigWorkerFacts DEF FillReserved, entryPCs
  <2>3. MoveCPUs(S, p) \/ MoveCPUsFails(S, p)
    BY <1>19, <2>2 DEF FillReserved, MoveCPUs, MoveCPUsFails
  <2>4. owner' \in [CPUs -> Pools]
    BY <1>1, <2>3, MoveFacts
  <2> QED
    BY <1>1, <1>2, <1>19, <2>1, <2>4 DEF FillReserved, Continue, report
<1>20. CASE DropReserved
  <2>1. CfgTyped'
    BY <1>20 DEF DropReserved, ContinueAt, Continue, CfgTyped, applyPCs, entryPCs
  <2>2. PICK p \in Pools : p = cfg.cur.pool
    BY <1>20, ConfigWorkerFacts DEF DropReserved, entryPCs
  <2>3. RemovePool(p) \/ RemovePoolFails(p)
    BY <1>20, <2>2 DEF DropReserved, RemovePool, RemovePoolFails
  <2>4. /\ owner' \in [CPUs -> Pools] /\ exclusive' \subseteq ProfileNames \cup PseudoPools
        /\ prof' \in [Pools -> ProfileValues]
    BY <1>1, <2>3, RemoveFacts, ValueFacts
  <2> QED
    BY <1>1, <1>2, <1>20, <2>1, <2>4 DEF DropReserved, ContinueAt, Continue, report
<1>21. CASE FallBack
  <2>1. CfgTyped'
    <3>1. CASE Continue([cfg EXCEPT !.pc = "entries", !.cur = NoEntrySpec])
      BY <1>21, <3>1 DEF FallBack, Continue, CfgTyped, applyPCs, entryPCs
    <3>2. CASE GiveUp
      BY <1>21, <3>2 DEF FallBack, GiveUp, Continue, CfgTyped, applyPCs, entryPCs
    <3> QED
      BY <1>21, <3>1, <3>2 DEF FallBack
  <2>2. PICK S \in SUBSET CPUs : S = cfg.cur.cores
    BY <1>21, ConfigWorkerFacts DEF FallBack, entryPCs
  <2>3. MoveCPUs(S, reserved) \/ MoveCPUsFails(S, reserved)
    BY <1>21, <2>2 DEF FallBack, MoveCPUs, MoveCPUsFails
  <2>4. owner' \in [CPUs -> Pools]
    BY <1>1, <2>3, MoveFacts, PoolFacts
  <2> QED
    BY <1>1, <1>2, <1>21, <2>1, <2>4 DEF FallBack, GiveUp, Continue, report
<1>22. CASE EntriesDone
  BY <1>1, <1>2, <1>22 DEF EntriesDone, ContinueAt, Continue, library, report, CfgTyped, applyPCs, entryPCs
<1>23. CASE ReportPools
  <2>1. CfgTyped' /\ cfgQueue' \in BOOLEAN
    BY <1>5, <1>23 DEF ReportPools, CfgTyped
  <2>2. active' \in ConfigNames \cup {NoConfig} /\ sharedStatus' \subseteq CPUs
    BY <1>1, <1>23, ConfigWorkerFacts DEF ReportPools, updatePowerNodeStatusPools, CfgTyped
  <2> QED
    BY <1>1, <1>2, <1>23, <2>1, <2>2 DEF ReportPools, library
<1>24. CASE BeginCleanup
  <2>1. CfgTyped'
    BY <1>24, ConfigWorkerFacts DEF BeginCleanup, CfgTyped, applyPCs, entryPCs, listedPseudo
  <2> QED
    BY <1>1, <1>2, <1>24, <2>1 DEF BeginCleanup, library, report
<1>25. CASE MoveBack
  <2>1. CfgTyped' /\ cfgQueue' \in BOOLEAN
    <3>1. CASE Continue([cfg EXCEPT !.pc = "forget", !.moved = {}])
      BY <1>1, <1>25, <3>1 DEF MoveBack, Continue, CfgTyped, applyPCs, entryPCs
    <3> QED
      BY <1>5, <1>25, <3>1 DEF MoveBack
  <2>2. PICK S \in SUBSET CPUs : S = cfg.moved
    BY ConfigWorkerFacts
  <2>3. MoveCPUs(S, reserved) \/ MoveCPUsFails(S, reserved)
    BY <1>25, <2>2 DEF MoveBack, MoveCPUs, MoveCPUsFails
  <2>4. owner' \in [CPUs -> Pools]
    BY <1>1, <2>3, MoveFacts, PoolFacts
  <2> QED
    BY <1>1, <1>2, <1>25, <2>1, <2>4 DEF MoveBack, report
<1>26. CASE ForgetPools
  <2>1. CfgTyped' /\ cfgQueue' \in BOOLEAN
    BY <1>5, <1>26 DEF ForgetPools
  <2> QED
    BY <1>1, <1>2, <1>26, <2>1 DEF ForgetPools, library
<1> QED
  BY <1>6, <1>7, <1>8, <1>9, <1>10, <1>11, <1>12, <1>13, <1>14, <1>15, <1>16, <1>17, <1>18, <1>19, <1>20,
     <1>21, <1>22, <1>23, <1>24, <1>25, <1>26
  DEF RunConfig, ConfigStep

\* What a step of the pod reconciler can change.
LEMMA PodFrame ==
    ASSUME RunPod
    PROVE  UNCHANGED <<exclusive, prof, cluster, active, sharedStatus, profStatus, extRes, profQueue, pro, cfg>>
<1>1. UNCHANGED <<pro, cfg>>
  BY DEF RunPod
<1>2. UNCHANGED <<exclusive, prof, cluster, active, sharedStatus, profStatus, extRes, profQueue>>
  BY DEF RunPod, PodStep, PodNotFound, PodBegin, PodEnded, CheckContainer, MoveContainer, RecordPod,
         ReleaseCpus, ForgetPod, library, report
<1> QED
  BY <1>1, <1>2

\* The container whose turn it is.
LEMMA TurnFacts ==
    ASSUME Typed, pod.todo # {}, pod.pc \in {"check", "move"}
    PROVE  /\ turn \in pod.todo /\ turn \in DOMAIN podSpec[pod.key] /\ pod.key \in Pods
           /\ container.profile \in ProfileNames /\ container.cpus \subseteq cpusOf(pod.key)
           /\ coresToAdd \subseteq container.cpus /\ coresToAdd \subseteq CPUs
<1>1. pod.key \in Pods /\ pod.todo \subseteq Nat /\ pod.todo \subseteq DOMAIN podSpec[pod.key]
  BY DEF Typed, PodTyped
<1>2. turn \in pod.todo
  BY <1>1, MinFacts DEF turn
<1>3. /\ container.profile \in ProfileNames /\ container.cpus \subseteq cpusOf(pod.key)
      /\ cpusOf(pod.key) \subseteq CPUs
  BY <1>1, <1>2, ContainerFacts DEF container
<1> QED
  BY <1>1, <1>2, <1>3 DEF coresToAdd

\* The moves of CPUs to a container's pool, and back from a pod.
LEMMA ContainerMoves ==
    ASSUME Typed, MoveContainer
    PROVE  /\ owner' \in [CPUs -> Pools]
           /\ \A c \in CPUs : \/ owner'[c] = owner[c]
                              \/ /\ c \in container.cpus /\ owner[c] = shared
                                 /\ owner'[c] = container.profile
           /\ \/ /\ pod' = [pod EXCEPT !.pc = "check", !.todo = remaining]
                 /\ \A c \in container.cpus : owner'[c] = container.profile
              \/ pod' = FailedContainer
<1>1. owner \in [CPUs -> Pools] /\ pod.pc = "move" /\ pod.todo # {}
  BY DEF Typed, TypeOK, PodTyped, MoveContainer
<1>2. PICK S \in SUBSET CPUs, p \in Pools : S = coresToAdd /\ p = container.profile
  BY <1>1, TurnFacts, PoolFacts
<1>3. /\ p # shared /\ S \subseteq container.cpus
      /\ \A c \in container.cpus : c \in CPUs /\ (c \in S \/ owner[c] = p)
  BY <1>1, <1>2, TurnFacts, ContainerFacts, PoolFacts DEF coresToAdd
<1>4. \/ MoveCPUs(S, p) /\ pod' = [pod EXCEPT !.pc = "check", !.todo = remaining]
      \/ MoveCPUsFails(S, p) /\ pod' = FailedContainer
  BY <1>2 DEF MoveContainer, MoveCPUs, MoveCPUsFails
<1>5. /\ owner' \in [CPUs -> Pools]
      /\ \A c \in CPUs : \/ owner'[c] = owner[c]
                         \/ c \in S /\ owner'[c] = p /\ shared \in {owner[c], p}
      /\ MoveCPUs(S, p) => \A c \in S : owner'[c] = p
  BY <1>1, <1>4, MoveFacts
<1>6. \A c \in CPUs : owner'[c] = owner[c] \/ (c \in S /\ owner[c] = shared /\ owner'[c] = p)
  BY <1>3, <1>5
<1>7. MoveCPUs(S, p) => \A c \in container.cpus : owner'[c] = p
  BY <1>3, <1>5, <1>6
<1> QED
  BY <1>2, <1>3, <1>4, <1>5, <1>6, <1>7

LEMMA ReleaseMoves ==
    ASSUME Typed, ReleaseCpus
    PROVE  /\ owner' \in [CPUs -> Pools]
           /\ \A c \in CPUs : owner'[c] = owner[c] \/ (c \in cpusOf(pod.key) /\ owner'[c] = shared)
<1>1. owner \in [CPUs -> Pools] /\ pod.found \subseteq CPUs /\ pod.found \subseteq cpusOf(pod.key)
  BY DEF Typed, TypeOK, PodTyped, ReleaseCpus
<1>2. PICK S \in SUBSET CPUs : S = pod.found
  BY <1>1
<1>3. MoveCPUs(S, shared) \/ MoveCPUsFails(S, shared)
  BY <1>2 DEF ReleaseCpus, MoveCPUs, MoveCPUsFails
<1>4. /\ owner' \in [CPUs -> Pools]
      /\ \A c \in CPUs : owner'[c] = owner[c] \/ (c \in S /\ owner'[c] = shared)
  BY <1>1, <1>3, MoveFacts, PoolFacts
<1> QED
  BY <1>1, <1>2, <1>4

LEMMA PodTypes ==
    ASSUME Typed, RunPod
    PROVE  Typed'
<1> USE DEF Typed
<1>1. /\ owner \in [CPUs -> Pools] /\ podQueue \subseteq Pods /\ cfgQueue \in BOOLEAN /\ podState \subseteq Pods
      /\ missed \subseteq Pods
      /\ entry \in [Pods -> [cpus: SUBSET CPUs, bad: SUBSET Nat, recorded: BOOLEAN]]
      /\ \A p \in Pods : entry[p].cpus \subseteq cpusOf(p) /\ entry[p].bad \subseteq DOMAIN podSpec[p]
  BY DEF TypeOK
<1>2. ASSUME owner' \in [CPUs -> Pools], podQueue' \subseteq Pods, cfgQueue' \in BOOLEAN, podState' \subseteq Pods,
             missed' \subseteq Pods,
             entry' \in [Pods -> [cpus: SUBSET CPUs, bad: SUBSET Nat, recorded: BOOLEAN]],
             \A p \in Pods : entry'[p].cpus \subseteq cpusOf(p) /\ entry'[p].bad \subseteq DOMAIN podSpec[p],
             PodTyped'
      PROVE  Typed'
  BY <1>2, PodFrame DEF cluster, TypeOK, ProTyped, CfgTyped
<1>3. podIdle \in [pc: {"idle"}, key: {"nil"}, todo: {{}}, found: {{}}, bad: {{}}, retry: BOOLEAN]
  BY DEF podIdle
<1>4. (pod' = podIdle => PodTyped') /\ (pod' = pod => PodTyped')
  BY <1>3 DEF PodTyped, podIdle
<1>5. pod.pc # "idle" => pod.key \in Pods
  BY DEF PodTyped
<1>6. ASSUME NEW p \in Pods, PodNotFound(p) PROVE Typed'
  BY <1>1, <1>2, <1>4, <1>6 DEF PodNotFound, DeletePodFromState, library, report
<1>7. ASSUME NEW p \in Pods, PodBegin(p) PROVE Typed'
  <2>1. PICK available \in SUBSET DOMAIN podSpec[p], known \in SUBSET DOMAIN podSpec[p] :
          pod' = [pc |-> "check", key |-> p, todo |-> known,
                  found |-> UNION {podSpec[p][i].cpus : i \in known},
                  bad |-> DOMAIN podSpec[p] \ available, retry |-> known # DOMAIN podSpec[p]]
    BY <1>7 DEF PodBegin
  <2>2. UNION {podSpec[p][i].cpus : i \in known} \subseteq cpusOf(p)
    BY ContainerFacts
  <2>3. PodTyped'
    BY <2>1, <2>2, ContainerFacts DEF PodTyped
  <2> QED
    BY <1>1, <1>2, <1>7, <2>3 DEF PodBegin, library, report
<1>8. ASSUME NEW p \in Pods, PodEnded(p) PROVE Typed'
  <2>1. PodTyped'
    <3>1. PICK S : S = cached.entry[p].cpus
      OBVIOUS
    <3>2. S \subseteq cpusOf(p) /\ S \subseteq CPUs
      BY <1>1, <3>1, ContainerFacts DEF cached, latest, TypeOK
    <3>3. pod' = [podIdle EXCEPT !.pc = "release", !.key = p, !.found = S]
      BY <1>8, <3>1 DEF PodEnded, PodTyped
    <3> QED
      BY <3>2, <3>3 DEF PodTyped, podIdle
  <2>2. missed' \subseteq Pods
    BY <1>1, <1>8 DEF PodEnded
  <2> QED
    BY <1>1, <1>2, <1>8, <2>1, <2>2 DEF PodEnded, DeletePodFromState, library, report
<1>9. ASSUME pod.todo # {}, pod.pc \in {"check", "move"}, pod' = FailedContainer PROVE PodTyped'
  <2>1. turn \in Nat /\ turn \in DOMAIN podSpec[pod.key]
    BY <1>9, TurnFacts, ContainerFacts
  <2> QED
    BY <1>9, <2>1 DEF FailedContainer, remaining, PodTyped
<1>15. ASSUME NEW k \in Pods, NEW v \in [cpus: SUBSET CPUs, bad: SUBSET Nat, recorded: BOOLEAN],
              v.cpus \subseteq cpusOf(k), v.bad \subseteq DOMAIN podSpec[k], entry' = [entry EXCEPT ![k] = v]
       PROVE  /\ entry' \in [Pods -> [cpus: SUBSET CPUs, bad: SUBSET Nat, recorded: BOOLEAN]]
              /\ \A p \in Pods : entry'[p].cpus \subseteq cpusOf(p) /\ entry'[p].bad \subseteq DOMAIN podSpec[p]
  <2>1. entry' \in [Pods -> [cpus: SUBSET CPUs, bad: SUBSET Nat, recorded: BOOLEAN]]
    BY <1>1, <1>15
  <2>2. \A p \in Pods : entry'[p] = IF p = k THEN v ELSE entry[p]
    BY <1>1, <1>15
  <2> QED
    BY <1>1, <1>15, <2>1, <2>2
<1>10. CASE CheckContainer
  <2>1. PodTyped' /\ podQueue' \subseteq Pods
    <3>1. CASE pod' = FailedContainer /\ UNCHANGED podQueue
      BY <1>1, <1>9, <1>10, <3>1 DEF CheckContainer
    <3>2. CASE pod' = [pod EXCEPT !.todo = remaining] /\ UNCHANGED podQueue
      BY <1>1, <1>10, <3>2 DEF CheckContainer, remaining, PodTyped
    <3>3. CASE pod' = [pod EXCEPT !.pc = "move"] /\ UNCHANGED podQueue
      BY <1>1, <1>10, <3>3 DEF CheckContainer, PodTyped
    <3>4. CASE PodRequeue
      BY <1>1, <1>4, <1>5, <1>10, <3>4 DEF CheckContainer, PodRequeue
    <3> QED
      BY <1>10, <3>1, <3>2, <3>3, <3>4 DEF CheckContainer
  <2> QED
    BY <1>1, <1>2, <1>10, <2>1 DEF CheckContainer, library, report
<1>11. CASE MoveContainer
  <2>1. PodTyped'
    <3>1. pod.todo # {}
      BY <1>11 DEF MoveContainer, PodTyped
    <3>2. CASE pod' = [pod EXCEPT !.pc = "check", !.todo = remaining]
      BY <1>11, <3>2 DEF MoveContainer, remaining, PodTyped
    <3> QED
      BY <1>9, <1>11, <3>1, <3>2 DEF MoveContainer
  <2> QED
    BY <1>1, <1>2, <1>11, <2>1, ContainerMoves DEF MoveContainer, report
<1>12. CASE RecordPod
  <2>1. PodTyped' /\ podQueue' \subseteq Pods /\ podState' \subseteq Pods /\ cfgQueue' \in BOOLEAN
    BY <1>1, <1>4, <1>5, <1>12
    DEF RecordPod, PodRequeue, PodDone, UpdateStateGuaranteedPods, applyExclusiveStatus
  <2>2. /\ pod.key \in Pods /\ pod.found \subseteq CPUs /\ pod.found \subseteq cpusOf(pod.key)
        /\ pod.bad \subseteq Nat /\ pod.bad \subseteq DOMAIN podSpec[pod.key]
    BY <1>12 DEF RecordPod, PodTyped
  <2>3. \/ UNCHANGED entry
        \/ entry' = [entry EXCEPT ![pod.key] = [cpus |-> pod.found, bad |-> pod.bad, recorded |-> TRUE]]
    BY <1>12 DEF RecordPod, applyExclusiveStatus
  <2>4. /\ entry' \in [Pods -> [cpus: SUBSET CPUs, bad: SUBSET Nat, recorded: BOOLEAN]]
        /\ \A p \in Pods : entry'[p].cpus \subseteq cpusOf(p) /\ entry'[p].bad \subseteq DOMAIN podSpec[p]
    <3>1. PICK k, v : k = pod.key /\ v = [cpus |-> pod.found, bad |-> pod.bad, recorded |-> TRUE]
      OBVIOUS
    <3>2. /\ v \in [cpus: SUBSET CPUs, bad: SUBSET Nat, recorded: BOOLEAN]
          /\ v.cpus \subseteq cpusOf(k) /\ v.bad \subseteq DOMAIN podSpec[k]
      BY <2>2, <3>1
    <3> QED
      BY <1>1, <1>15, <2>2, <2>3, <3>1, <3>2
  <2> QED
    BY <1>1, <1>2, <1>12, <2>1, <2>4 DEF RecordPod, library
<1>13. CASE ReleaseCpus
  <2>1. PodTyped' /\ podQueue' \subseteq Pods
    <3>1. CASE pod' = [pod EXCEPT !.pc = "forget", !.found = {}] /\ UNCHANGED podQueue
      BY <1>1, <1>13, <3>1 DEF ReleaseCpus, PodTyped
    <3> QED
      BY <1>1, <1>4, <1>5, <1>13, <3>1 DEF ReleaseCpus, PodRequeue
  <2> QED
    BY <1>1, <1>2, <1>13, <2>1, ReleaseMoves DEF ReleaseCpus, report
<1>14. CASE ForgetPod
  <2>1. PodTyped' /\ podQueue' \subseteq Pods /\ cfgQueue' \in BOOLEAN
    BY <1>1, <1>4, <1>5, <1>14 DEF ForgetPod, PodRequeue, PodDone, applyExclusiveStatus
  <2>2. pod.key \in Pods /\ (UNCHANGED entry \/ entry' = [entry EXCEPT ![pod.key] = NoEntry])
    BY <1>5, <1>14 DEF ForgetPod, applyExclusiveStatus
  <2>3. /\ entry' \in [Pods -> [cpus: SUBSET CPUs, bad: SUBSET Nat, recorded: BOOLEAN]]
        /\ \A p \in Pods : entry'[p].cpus \subseteq cpusOf(p) /\ entry'[p].bad \subseteq DOMAIN podSpec[p]
    <3>1. PICK k, v : k = pod.key /\ v = NoEntry
      OBVIOUS
    <3>2. /\ v \in [cpus: SUBSET CPUs, bad: SUBSET Nat, recorded: BOOLEAN]
          /\ v.cpus \subseteq cpusOf(k) /\ v.bad \subseteq DOMAIN podSpec[k]
      BY <3>1 DEF NoEntry
    <3> QED
      BY <1>1, <1>15, <2>2, <3>1, <3>2
  <2> QED
    BY <1>1, <1>2, <1>14, <2>1, <2>3 DEF ForgetPod, library
<1> QED
  BY <1>6, <1>7, <1>8, <1>10, <1>11, <1>12, <1>13, <1>14 DEF RunPod, PodStep

\* What users, kubelet and the scheduler can change.
LEMMA EnvironmentFrame ==
    ASSUME Environment, ~Restart
    PROVE  UNCHANGED <<owner, exclusive, prof, active, sharedStatus, entry, profStatus, extRes, faults,
                       pro, cfg, pod, podState, missed>>
  BY DEF Environment, ApplyProfile, DeleteProfile, Relabel, ApplyConfig, DeleteConfig, StartPod, TouchPod,
         StopPod, RemovePod, CatchUp, Edit, library, report, workers

LEMMA EnvironmentTyped ==
    ASSUME Typed, Environment
    PROVE  Typed'
<1> USE DEF Typed
<1>1. /\ cr \in [ProfileNames -> [ver: 1..MaxVersion, state: CRStates, shared: BOOLEAN]]
      /\ configs \in [ConfigNames -> ConfigSpecs \cup {NoSpec}]
      /\ phase \in [Pods -> {"none", "running", "done", "gone"}]
      /\ edits \in 0..MaxEdits /\ switched \subseteq Switchable
      /\ profQueue \subseteq ProfileNames /\ podQueue \subseteq Pods /\ cfgQueue \in BOOLEAN
  BY DEF TypeOK
<1>2. CASE Restart
  <2>1. ProTyped' /\ CfgTyped' /\ PodTyped'
    <3>1. ProTyped'
      BY <1>2, PoolFacts, ValueFacts DEF Restart, proIdle, ProTyped
    <3>2. CfgTyped'
      BY <1>2, ValueFacts DEF Restart, cfgIdle, CfgTyped, applyPCs, entryPCs
    <3>3. PodTyped'
      BY <1>2 DEF Restart, podIdle, PodTyped
    <3> QED
      BY <3>1, <3>2, <3>3
  <2>2. edits' \in 0..MaxEdits /\ faults' \in Faults /\ UNCHANGED <<seen, missed>>
    BY <1>1, <1>2, BoundsAssumption DEF Restart, Edit, TypeOK
  <2>3. cfgQueue' \in BOOLEAN
    BY <1>2 DEF Restart, someConfig
  <2>4. TypeOK'
    BY <1>2, <2>2, <2>3, PoolFacts, ValueFacts DEF Restart, report, TypeOK
  <2> QED
    BY <2>1, <2>4
<1>3. CASE ~Restart
  <2>1. ASSUME cr' \in [ProfileNames -> [ver: 1..MaxVersion, state: CRStates, shared: BOOLEAN]],
               configs' \in [ConfigNames -> ConfigSpecs \cup {NoSpec}],
               phase' \in [Pods -> {"none", "running", "done", "gone"}],
               edits' \in 0..MaxEdits, switched' \subseteq Switchable,
               UNCHANGED seen,
               profQueue' \subseteq ProfileNames, podQueue' \subseteq Pods, cfgQueue' \in BOOLEAN
        PROVE  Typed'
    BY <1>3, <2>1, EnvironmentFrame DEF TypeOK, ProTyped, CfgTyped, PodTyped
  <2>2. Edit => edits' \in 0..MaxEdits /\ UNCHANGED seen
    BY <1>1, BoundsAssumption DEF Edit
  <2>3. ASSUME NEW f \in ProfileNames, NEW t \in CRStates, NEW s \in BOOLEAN, ApplyProfile(f, t, s) PROVE Typed'
    <3>1. cr[f].ver + 1 \in 1..MaxVersion
      BY <1>1, <2>3, BoundsAssumption DEF ApplyProfile
    <3>2. cr' \in [ProfileNames -> [ver: 1..MaxVersion, state: CRStates, shared: BOOLEAN]]
      BY <1>1, <2>3, <3>1 DEF ApplyProfile
    <3>3. switched' \subseteq Switchable
      BY <1>1, <2>3 DEF ApplyProfile, mayShare
    <3> QED
      BY <1>1, <2>1, <2>2, <2>3, <3>2, <3>3 DEF ApplyProfile
  <2>4. ASSUME NEW f \in ProfileNames, DeleteProfile(f) PROVE Typed'
    <3>1. cr' \in [ProfileNames -> [ver: 1..MaxVersion, state: CRStates, shared: BOOLEAN]]
      BY <1>1, <2>4 DEF DeleteProfile, CRStates
    <3> QED
      BY <1>1, <2>1, <2>2, <2>4, <3>1 DEF DeleteProfile
  <2>5. ASSUME NEW f \in ProfileNames, Relabel(f) PROVE Typed'
    <3>1. cr' \in [ProfileNames -> [ver: 1..MaxVersion, state: CRStates, shared: BOOLEAN]]
      BY <1>1, <2>5 DEF Relabel, CRStates
    <3>2. cfgQueue' \in BOOLEAN
      BY <1>1, <2>5 DEF Relabel
    <3> QED
      BY <1>1, <2>1, <2>2, <2>5, <3>1, <3>2 DEF Relabel
  <2>6. ASSUME NEW n \in ConfigNames, NEW s \in ConfigSpecs, ApplyConfig(n, s) PROVE Typed'
    BY <1>1, <2>1, <2>2, <2>6 DEF ApplyConfig
  <2>7. ASSUME NEW n \in ConfigNames, DeleteConfig(n) PROVE Typed'
    BY <1>1, <2>1, <2>2, <2>7 DEF DeleteConfig
  <2>8. ASSUME NEW p \in Pods, StartPod(p) \/ TouchPod(p) \/ StopPod(p) PROVE Typed'
    BY <1>1, <2>1, <2>2, <2>8 DEF StartPod, TouchPod, StopPod
  <2>9. ASSUME NEW p \in Pods, RemovePod(p) PROVE Typed'
    BY <1>1, <2>1, <2>9 DEF RemovePod
  <2>10. CASE CatchUp
    <3>1. /\ latest \in [active: ConfigNames \cup {NoConfig},
                         entry: [Pods -> [cpus: SUBSET CPUs, bad: SUBSET Nat, recorded: BOOLEAN]]]
          /\ \A p \in Pods : latest.entry[p].cpus \subseteq cpusOf(p)
      BY DEF latest, TypeOK
    <3>2. cfgQueue' \in BOOLEAN
      BY <1>1, <2>10 DEF CatchUp
    <3>3. /\ seen' = latest /\ UNCHANGED <<cr, configs, phase, switched, edits, profQueue, podQueue>>
      BY <2>10 DEF CatchUp
    <3> QED
      BY <1>1, <1>3, <3>1, <3>2, <3>3, EnvironmentFrame DEF TypeOK, ProTyped, CfgTyped, PodTyped
  <2> QED
    BY <1>3, <2>3, <2>4, <2>5, <2>6, <2>7, <2>8, <2>9, <2>10 DEF Environment
<1> QED
  BY <1>2, <1>3

LEMMA StutterFrame ==
    ASSUME UNCHANGED vars
    PROVE  /\ UNCHANGED <<owner, exclusive, prof, cr, configs, phase, switched, edits, faults, seen, active, sharedStatus,
                          entry, profStatus, extRes, profQueue, cfgQueue, podQueue, pro, cfg, pod, podState, missed>>
  BY DEF vars, stateVars, library, cluster, report, queues, workers

LEMMA StepTyped ==
    ASSUME Typed, [Next]_vars
    PROVE  Typed'
<1>1. CASE UNCHANGED vars
  BY <1>1, StutterFrame DEF Typed, TypeOK, ProTyped, CfgTyped, PodTyped
<1> QED
  BY <1>1, ProfileTyped, ConfigTyped, PodTypes, EnvironmentTyped DEF Next, Wait

LEMMA AlwaysTyped == Spec => []Typed
  BY InitTyped, StepTyped, PTL DEF Spec

\* The variables of the agent are what they are declared to be; the entry of a pod
\* names only CPUs and containers of that pod.
THEOREM AgentTypeSafety == Spec => []TypeOK
<1>1. Typed => TypeOK
  BY DEF Typed
<1> QED
  BY <1>1, AlwaysTyped, PTL

-----------------------------------------------------------------------------
(***************************************************************************)
(* Profiles: kept apart, applied and withdrawn                             *)
(***************************************************************************)

\* A pool gets a profile that it may have.
LEMMA ProfileSet ==
    ASSUME Typed, ProfilesKeptApart, NEW p \in Pools, NEW v \in ProfileValues,
           prof' = [prof EXCEPT ![p] = v],
           p \in ProfileNames => v.name \in {p, "nil"},
           p = shared => v.name \in sharedOnce \cup {"nil"}
    PROVE  /\ \A f \in ProfileNames : prof'[f].name \in {f, "nil"}
           /\ prof'[shared].name \in sharedOnce \cup {"nil"}
<1>1. prof \in [Pools -> ProfileValues]
  BY DEF Typed, TypeOK
<1>2. \A q \in Pools : prof'[q] = IF q = p THEN v ELSE prof[q]
  BY <1>1
<1> QED
  BY <1>2, PoolFacts DEF ProfilesKeptApart

LEMMA ProfileKeepsApart ==
    ASSUME Typed, ProfilesKeptApart, RunProfile
    PROVE  ProfilesKeptApart'
<1>1. /\ \A f \in ProfileNames \ switched : cr[f].shared <=> f \in SharedProfiles
      /\ extRes \cap SharedProfiles \subseteq switched
      /\ \A f \in ProfileNames : prof[f].name \in {f, "nil"}
      /\ prof[shared].name \in sharedOnce \cup {"nil"}
      /\ pro.pc # "idle" /\ pro.key \notin switched => (pro.shared <=> pro.key \in SharedProfiles)
      /\ pro.pc \in {"setShared", "clearShared", "dropPool"} => pro.key \in sharedOnce
      /\ UNCHANGED <<cfg, cr, switched, sharedOnce>>
  BY ProfileFrame DEF ProfilesKeptApart, cluster, sharedOnce
<1>2. ASSUME extRes' \cap SharedProfiles \subseteq switched,
             \A f \in ProfileNames : prof'[f].name \in {f, "nil"},
             prof'[shared].name \in sharedOnce \cup {"nil"},
             \/ pro'.pc = "idle"
             \/ pro.pc # "idle" /\ pro'.key = pro.key /\ pro'.shared = pro.shared
             \/ pro'.key \notin switched => (pro'.shared <=> pro'.key \in SharedProfiles),
             pro'.pc \in {"setShared", "clearShared", "dropPool"} => pro'.key \in sharedOnce
      PROVE  ProfilesKeptApart'
  BY <1>1, <1>2 DEF ProfilesKeptApart
<1>3. /\ pro.val \in ProfileValues
      /\ pro.pc # "idle" => pro.key \in ProfileNames /\ pro.key \in Pools /\ pro.val.name = pro.key
      /\ DOMAIN pro = {"pc", "key", "val", "shared", "rest", "err"}
      /\ proIdle.pc = "idle"
      /\ pro.key # shared
  BY PoolFacts DEF Typed, ProTyped, proIdle, shared
<1>4. ASSUME NEW l, pro' = [pro EXCEPT !.pc = l] PROVE pro'.pc = l /\ pro'.key = pro.key
  BY <1>3, <1>4 DEF Typed, ProTyped
<1>5. ASSUME NEW f \in ProfileNames, ProfileBegin(f) PROVE ProfilesKeptApart'
  <2>1. pro'.key = f /\ (pro'.pc \in {"setShared", "clearShared", "dropPool"} => usedByShared(f))
    BY <1>5 DEF ProfileBegin, Typed, ProTyped
  <2> QED
    BY <1>1, <1>2, <1>5, <2>1, PoolFacts DEF ProfileBegin, usedByShared, library, report
<1>16. SUFFICES ASSUME \A f \in ProfileNames : ~ProfileBegin(f) PROVE ProfilesKeptApart'
  BY <1>5
<1>17. pro'.pc = "idle" \/ (pro.pc # "idle" /\ pro'.key = pro.key /\ pro'.shared = pro.shared)
  <2>1. ASSUME NEW l, NEW e, pro.pc # "idle",
               \/ pro' = [pro EXCEPT !.pc = l] \/ pro' = [pro EXCEPT !.pc = l, !.err = e]
               \/ pro' = [pro EXCEPT !.rest = l] \/ pro' = [pro EXCEPT !.pc = l, !.rest = e]
        PROVE  pro'.key = pro.key /\ pro'.shared = pro.shared
    BY <2>1 DEF Typed, ProTyped
  <2>2. \/ pro' = proIdle
        \/ /\ pro.pc # "idle"
           /\ \E l, e : \/ pro' = [pro EXCEPT !.pc = l] \/ pro' = [pro EXCEPT !.pc = l, !.err = e]
                        \/ pro' = [pro EXCEPT !.rest = l] \/ pro' = [pro EXCEPT !.pc = l, !.rest = e]
    BY <1>16
    DEF RunProfile, ProfileStep, RejectProfile, CreatePool, FirstProfile, UpdatePool, CheckShared, UpdateShared,
        UpdatePseudo, PseudoDone, OfferResource, ReportProfile, ClearShared, DropPool, WithdrawResource,
        UnreportProfile, Done, Requeue, Goto, FailWith
  <2> QED
    BY <1>3, <2>1, <2>2
<1>18. ASSUME extRes' \cap SharedProfiles \subseteq switched,
              \A f \in ProfileNames : prof'[f].name \in {f, "nil"},
              prof'[shared].name \in sharedOnce \cup {"nil"},
              pro'.pc \in {"setShared", "clearShared", "dropPool"} => pro'.key \in sharedOnce
       PROVE  ProfilesKeptApart'
  BY <1>2, <1>17, <1>18
<1>6. CASE RejectProfile \/ CheckShared \/ PseudoDone
  <2>1. UNCHANGED <<prof, extRes>>
    BY <1>6 DEF RejectProfile, CheckShared, PseudoDone, stateVars, library, report
  <2>2. pro'.pc \in {"setShared", "clearShared", "dropPool"} => pro'.key \in sharedOnce
    <3>1. CASE CheckShared
      BY <1>1, <1>3, <3>1, PoolFacts DEF CheckShared, usedByShared, Typed, ProTyped
    <3> QED
      BY <1>6, <3>1 DEF RejectProfile, PseudoDone, FailWith, Goto, Typed, ProTyped
  <2> QED
    BY <1>1, <1>18, <2>1, <2>2
<1>7. CASE CreatePool
  <2>1. prof' = [prof EXCEPT ![pro.key] = NoProfile] /\ pro.key \in Pools
    BY <1>3, <1>7 DEF CreatePool, AddExclusivePool
  <2>2. pro'.pc = "first"
    BY <1>4, <1>7 DEF CreatePool, Goto
  <2> QED
    BY <1>1, <1>18, <1>3, <1>7, <2>1, <2>2, ProfileSet, ValueFacts DEF CreatePool, report
<1>8. CASE FirstProfile \/ UpdatePool
  <2>1. prof' = [prof EXCEPT ![pro.key] = pro.val] /\ pro.key \in Pools
    BY <1>3, <1>8 DEF FirstProfile, UpdatePool, SetPowerProfile, SetPowerProfileFails
  <2>2. pro'.pc \in {"resource", "shared", "failed"}
    BY <1>8 DEF FirstProfile, UpdatePool, Goto, FailWith, Typed, ProTyped
  <2>3. UNCHANGED extRes
    BY <1>8 DEF FirstProfile, UpdatePool, report
  <2>4. pro.val.name = pro.key
    BY <1>3, <1>8 DEF FirstProfile, UpdatePool
  <2> QED
    BY <1>1, <1>18, <1>3, <2>1, <2>2, <2>3, <2>4, ProfileSet
<1>9. CASE UpdateShared
  <2>1. prof' = [prof EXCEPT ![shared] = pro.val] /\ pro.val.name \in sharedOnce
    BY <1>1, <1>3, <1>9 DEF UpdateShared, SetPowerProfile, SetPowerProfileFails
  <2>2. pro'.pc \in {"pseudo", "failed"}
    BY <1>9 DEF UpdateShared, FailWith, Typed, ProTyped
  <2> QED
    BY <1>1, <1>18, <1>3, <1>9, <2>1, <2>2, ProfileSet, PoolFacts DEF UpdateShared, report
<1>10. ASSUME NEW q \in PseudoPools, UpdatePseudo(q) PROVE ProfilesKeptApart'
  <2>1. UNCHANGED prof \/ prof' = [prof EXCEPT ![q] = pro.val]
    BY <1>10 DEF UpdatePseudo, SetPowerProfile, SetPowerProfileFails
  <2>2. pro'.pc \in {"pseudo", "failed"}
    BY <1>10 DEF UpdatePseudo, FailWith, Typed, ProTyped
  <2> QED
    BY <1>1, <1>18, <1>3, <1>10, <2>1, <2>2, ProfileSet, PoolFacts DEF UpdatePseudo, report
<1>11. CASE OfferResource
  <2>1. pro'.pc \in {"status", "failed"}
    BY <1>11 DEF OfferResource, Goto, FailWith, Typed, ProTyped
  <2> QED
    BY <1>1, <1>18, <1>11, <2>1 DEF OfferResource, ensureExtendedResources, library
<1>12. CASE ReportProfile \/ UnreportProfile
  BY <1>1, <1>18, <1>3, <1>12 DEF ReportProfile, UnreportProfile, Done, Requeue, library
<1>13. CASE ClearShared
  <2>1. prof' = [prof EXCEPT ![shared] = NoProfile]
    BY <1>13 DEF ClearShared, SetPowerProfile, SetPowerProfileFails
  <2>2. pro'.pc = "idle" \/ (pro'.pc = "dropPool" /\ pro'.key = pro.key)
    BY <1>3, <1>4, <1>13 DEF ClearShared, Goto, Requeue
  <2> QED
    BY <1>1, <1>18, <1>13, <2>1, <2>2, ProfileSet, PoolFacts, ValueFacts DEF ClearShared, report
<1>14. CASE DropPool
  <2>1. (UNCHANGED prof \/ prof' = [prof EXCEPT ![pro.key] = NoProfile]) /\ pro.key \in Pools
    BY <1>3, <1>14 DEF DropPool, RemovePool, RemovePoolFails, library
  <2>2. pro'.pc \in {"idle", "unstatus"}
    BY <1>3, <1>4, <1>14 DEF DropPool, Goto, Requeue
  <2> QED
    BY <1>1, <1>18, <1>3, <1>14, <2>1, <2>2, ProfileSet, ValueFacts DEF DropPool, report
<1>15. CASE WithdrawResource
  <2>1. pro'.pc \in {"idle", "unstatus"}
    BY <1>3, <1>4, <1>15 DEF WithdrawResource, Goto, Requeue
  <2> QED
    BY <1>1, <1>18, <1>15, <2>1 DEF WithdrawResource, removeExtendedResources, library
<1> QED
  BY <1>16, <1>6, <1>7, <1>8, <1>9, <1>10, <1>11, <1>12, <1>13, <1>14, <1>15 DEF RunProfile, ProfileStep

LEMMA ConfigKeepsApart ==
    ASSUME Typed, ProfilesKeptApart, RunConfig
    PROVE  ProfilesKeptApart'
<1>1. /\ \A f \in ProfileNames : prof[f].name \in {f, "nil"}
      /\ prof[shared].name \in sharedOnce \cup {"nil"}
      /\ cfg.pc \in applyPCs => cfg.spec.shared \in sharedOnce
      /\ cfg.pc = "set" => cfg.val.name \in {cfg.spec.shared, "nil"}
      /\ UNCHANGED <<extRes, pro, cr, switched, sharedOnce>>
  BY ConfigFrame DEF ProfilesKeptApart, cluster, sharedOnce
<1>2. ASSUME \A f \in ProfileNames : prof'[f].name \in {f, "nil"},
             prof'[shared].name \in sharedOnce \cup {"nil"},
             cfg'.pc \in applyPCs => cfg'.spec.shared \in sharedOnce,
             cfg'.pc = "set" => cfg'.val.name \in {cfg'.spec.shared, "nil"}
      PROVE  ProfilesKeptApart'
  BY <1>1, <1>2 DEF ProfilesKeptApart
<1>3. ASSUME cfg'.pc \notin applyPCs \/ (cfg'.pc # "set" /\ cfg'.spec = cfg.spec /\ cfg.pc \in applyPCs)
      PROVE  /\ cfg'.pc \in applyPCs => cfg'.spec.shared \in sharedOnce
             /\ cfg'.pc = "set" => cfg'.val.name \in {cfg'.spec.shared, "nil"}
  BY <1>1, <1>3 DEF applyPCs
<1>4. ASSUME NEW b, Finish(b) PROVE cfg'.pc \notin applyPCs
  BY <1>4 DEF Finish, cfgIdle, applyPCs
<1>5. CASE BeginApply
  <2>1. cr[configs[selected].shared].shared /\ cfg'.spec = configs[selected] /\ cfg'.pc = "read"
    BY <1>5 DEF BeginApply, ValidConfig, Typed, CfgTyped
  <2>2. configs[selected].shared \in ProfileNames
    BY <1>5, SelectedFacts, EntryFacts DEF BeginApply, present, Typed, TypeOK
  <2>3. configs[selected].shared \in sharedOnce
    BY <2>1, <2>2 DEF ProfilesKeptApart, sharedOnce
  <2> QED
    BY <1>1, <1>2, <1>5, <2>1, <2>3 DEF BeginApply, library
<1>6. CASE ReadSharedProfile
  <2>1. UNCHANGED prof /\ cfg.pc \in applyPCs
    BY <1>6 DEF ReadSharedProfile, library, applyPCs
  <2>2. CASE cfg' = [cfg EXCEPT !.pc = "set", !.val = prof[cfg.spec.shared]]
    <3>1. cfg'.spec = cfg.spec /\ cfg'.val = prof[cfg.spec.shared] /\ cfg.spec.shared \in ProfileNames
      BY <2>1, <2>2, ConfigWorkerFacts DEF Typed, CfgTyped
    <3> QED
      BY <1>1, <1>2, <2>1, <3>1
  <2> QED
    BY <1>1, <1>2, <1>3, <1>4, <1>6, <2>1, <2>2 DEF ReadSharedProfile, Continue
<1>7. CASE SetSharedProfile
  <2>1. prof' = [prof EXCEPT ![shared] = cfg.val] /\ cfg.val.name \in sharedOnce \cup {"nil"}
    BY <1>1, <1>7 DEF SetSharedProfile, SetPowerProfile, SetPowerProfileFails, applyPCs
  <2>2. cfg'.pc \notin applyPCs \/ (cfg'.pc # "set" /\ cfg'.spec = cfg.spec /\ cfg.pc \in applyPCs)
    <3>1. CASE ContinueAt("clear")
      BY <1>7, <3>1 DEF SetSharedProfile, ContinueAt, Continue, applyPCs, Typed, CfgTyped
    <3> QED
      BY <1>4, <1>7, <3>1 DEF SetSharedProfile
  <2> QED
    BY <1>2, <1>3, <2>1, <2>2, ProfileSet, PoolFacts, ConfigWorkerFacts
<1>8. ASSUME NEW q \in PseudoPools, RemoveOld(q) \/ CleanupPseudo(q) PROVE ProfilesKeptApart'
  <2>1. UNCHANGED prof \/ prof' = [prof EXCEPT ![q] = NoProfile]
    BY <1>8 DEF RemoveOld, CleanupPseudo, RemovePool, RemovePoolFails
  <2>2. cfg'.pc \notin applyPCs \/ (cfg'.pc # "set" /\ cfg'.spec = cfg.spec /\ cfg.pc \in applyPCs)
    <3>1. CASE RemoveOld(q)
      BY <3>1 DEF RemoveOld, GiveUp, Continue, applyPCs, Typed, CfgTyped
    <3>2. CASE CleanupPseudo(q)
      <4>1. CASE Continue([cfg EXCEPT !.rest = @ \ {q}, !.moved = @ \cup cpusIn(q)])
        BY <3>2, <4>1 DEF CleanupPseudo, Continue, applyPCs, Typed, CfgTyped
      <4> QED
        BY <1>4, <3>2, <4>1 DEF CleanupPseudo
    <3> QED
      BY <1>8, <3>1, <3>2
  <2> QED
    BY <1>1, <1>2, <1>3, <2>1, <2>2, ProfileSet, PoolFacts, ValueFacts
<1>9. CASE CreateReserved \/ TuneReserved \/ DropReserved
  <2>1. cfg.cur.pool \in PseudoPools /\ cfg.cur.pool \in Pools
    BY <1>9, ConfigWorkerFacts DEF CreateReserved, TuneReserved, DropReserved, entryPCs
  <2>2. \/ UNCHANGED prof
        \/ prof' = [prof EXCEPT ![cfg.cur.pool] = NoProfile]
        \/ prof' = [prof EXCEPT ![cfg.cur.pool] = cfg.val]
    BY <1>9 DEF CreateReserved, TuneReserved, DropReserved, AddExclusivePool, SetPowerProfile, RemovePool,
                RemovePoolFails
  <2>3. cfg'.pc # "set" /\ cfg'.spec = cfg.spec /\ cfg.pc \in applyPCs
    BY <1>9 DEF CreateReserved, TuneReserved, DropReserved, ContinueAt, Continue, applyPCs, Typed, CfgTyped
  <2> QED
    BY <1>1, <1>2, <1>3, <2>1, <2>2, <2>3, ProfileSet, PoolFacts, ValueFacts, ConfigWorkerFacts
<1>10. ASSUME UNCHANGED prof, cfg'.pc \notin applyPCs \/ (cfg'.pc # "set" /\ cfg'.spec = cfg.spec /\ cfg.pc \in applyPCs)
       PROVE  ProfilesKeptApart'
  BY <1>1, <1>2, <1>3, <1>10
<1>11. CASE RefuseConfig \/ NothingToApply
  BY <1>10, <1>11 DEF RefuseConfig, NothingToApply, library, applyPCs
<1>12. CASE ClearReserved
  <2>1. CASE Continue([cfg EXCEPT !.pc = "remove", !.rest = listedPseudo, !.val = NoProfile])
    BY <1>10, <1>12, <2>1 DEF ClearReserved, Continue, applyPCs, Typed, CfgTyped
  <2> QED
    BY <1>4, <1>10, <1>12, <2>1 DEF ClearReserved
<1>13. CASE RemovedAll \/ ReadCoreProfile \/ FillReserved \/ FallBack \/ EntriesDone
  <2>1. UNCHANGED prof
    BY <1>13 DEF RemovedAll, ReadCoreProfile, FillReserved, FallBack, EntriesDone, library
  <2>2. cfg'.pc # "set" /\ cfg'.spec = cfg.spec /\ cfg.pc \in applyPCs
    BY <1>13 DEF RemovedAll, ReadCoreProfile, FillReserved, FallBack, EntriesDone, ContinueAt, GiveUp,
                 Continue, applyPCs, Typed, CfgTyped
  <2> QED
    BY <1>10, <2>1, <2>2
<1>14. ASSUME NEW e \in Entries, BeginEntry(e) PROVE ProfilesKeptApart'
  BY <1>10, <1>14 DEF BeginEntry, GiveUp, Continue, applyPCs, Typed, CfgTyped
<1>15. CASE ReportPools \/ ForgetPools
  BY <1>4, <1>10, <1>15 DEF ReportPools, ForgetPools, library
<1>16. CASE BeginCleanup
  BY <1>10, <1>16 DEF BeginCleanup, library, applyPCs, Typed, CfgTyped
<1>17. CASE MoveBack
  <2>1. CASE Continue([cfg EXCEPT !.pc = "forget", !.moved = {}])
    BY <1>10, <1>17, <2>1 DEF MoveBack, Continue, applyPCs, Typed, CfgTyped
  <2> QED
    BY <1>4, <1>10, <1>17, <2>1 DEF MoveBack
<1> QED
  BY <1>5, <1>6, <1>7, <1>8, <1>9, <1>11, <1>12, <1>13, <1>14, <1>15, <1>16, <1>17 DEF RunConfig, ConfigStep

LEMMA StepKeepsApart ==
    ASSUME Typed, ProfilesKeptApart, [Next]_vars
    PROVE  ProfilesKeptApart'
<1>1. CASE UNCHANGED <<extRes, prof, pro, cfg, cr, switched>>
  BY <1>1 DEF ProfilesKeptApart, sharedOnce
<1>2. CASE Restart
  BY <1>2, PoolFacts, ValueFacts DEF Restart, ProfilesKeptApart, proIdle, cfgIdle, applyPCs, report, sharedOnce
<1>3. CASE Environment /\ ~Restart
  <2>1. cr \in [ProfileNames -> [ver: 1..MaxVersion, state: CRStates, shared: BOOLEAN]]
    BY DEF Typed, TypeOK
  <2>2. /\ switched \subseteq switched'
        /\ \A f \in ProfileNames \ switched' : cr'[f].shared = cr[f].shared
    <3>1. ASSUME NEW g \in ProfileNames, NEW t \in CRStates, NEW s \in BOOLEAN, ApplyProfile(g, t, s)
          PROVE  /\ switched \subseteq switched'
                 /\ \A f \in ProfileNames \ switched' : cr'[f].shared = cr[f].shared
      BY <2>1, <3>1 DEF ApplyProfile
    <3>2. ASSUME NEW g \in ProfileNames, DeleteProfile(g) \/ Relabel(g)
          PROVE  /\ switched \subseteq switched'
                 /\ \A f \in ProfileNames \ switched' : cr'[f].shared = cr[f].shared
      BY <2>1, <3>2 DEF DeleteProfile, Relabel
    <3>3. CASE UNCHANGED <<cr, switched>>
      BY <3>3
    <3> QED
      BY <1>3, <3>1, <3>2, <3>3
      DEF Environment, ApplyConfig, DeleteConfig, StartPod, TouchPod, StopPod, RemovePod, CatchUp
  <2> QED
    BY <1>3, <2>2, EnvironmentFrame DEF ProfilesKeptApart, sharedOnce, Typed, ProTyped
<1> QED
  BY <1>1, <1>2, <1>3, ProfileKeepsApart, ConfigKeepsApart, PodFrame, StutterFrame
  DEF Next, Wait, cluster

LEMMA AlwaysApart == Spec => []ProfilesKeptApart
<1>1. ASSUME Init PROVE ProfilesKeptApart
  <2>1. /\ \A f \in ProfileNames : cr[f].shared <=> f \in SharedProfiles
        /\ \A f \in ProfileNames : prof[f] = NoProfile
        /\ prof[shared] = NoProfile /\ extRes = {}
    BY <1>1, PoolFacts DEF Init, InitState
  <2>2. pro.pc = "idle" /\ cfg.pc = "idle"
    BY <1>1 DEF Init, proIdle, cfgIdle
  <2> QED
    BY <2>1, <2>2 DEF ProfilesKeptApart, applyPCs, NoProfile
<1> QED
  BY <1>1, AlwaysTyped, StepKeepsApart, PTL DEF Spec

\* The config reconciler does not touch the pools of profiles.
LEMMA ConfigLeavesProfiles ==
    ASSUME Typed, RunConfig
    PROVE  \A f \in ProfileNames : (f \in exclusive' <=> f \in exclusive) /\ prof'[f] = prof[f]
<1>1. prof \in [Pools -> ProfileValues]
  BY DEF Typed, TypeOK
<1>2. ASSUME NEW p \in PseudoPools \cup {shared}, NEW v, prof' = [prof EXCEPT ![p] = v] \/ UNCHANGED prof,
             exclusive' \in {exclusive, exclusive \cup {p}, exclusive \ {p}}
      PROVE  \A f \in ProfileNames : (f \in exclusive' <=> f \in exclusive) /\ prof'[f] = prof[f]
  BY <1>1, <1>2, PoolFacts
<1>3. CASE SetSharedProfile
  BY <1>2, <1>3 DEF SetSharedProfile, SetPowerProfile, SetPowerProfileFails
<1>4. ASSUME NEW q \in PseudoPools, RemoveOld(q) \/ CleanupPseudo(q)
      PROVE  \A f \in ProfileNames : (f \in exclusive' <=> f \in exclusive) /\ prof'[f] = prof[f]
  BY <1>2, <1>4 DEF RemoveOld, CleanupPseudo, RemovePool, RemovePoolFails
<1>5. CASE CreateReserved \/ TuneReserved \/ DropReserved
  <2>1. cfg.cur.pool \in PseudoPools
    BY <1>5, ConfigWorkerFacts DEF CreateReserved, TuneReserved, DropReserved, entryPCs
  <2> QED
    BY <1>2, <1>5, <2>1 DEF CreateReserved, TuneReserved, DropReserved, AddExclusivePool, SetPowerProfile,
                            RemovePool, RemovePoolFails
<1>6. CASE UNCHANGED <<exclusive, prof>>
  BY <1>6
<1> QED
  BY <1>3, <1>4, <1>5, <1>6
  DEF RunConfig, ConfigStep, BeginApply, RefuseConfig, NothingToApply, ReadSharedProfile,
      ClearReserved, RemovedAll, BeginEntry, ReadCoreProfile, FillReserved, FallBack,
      EntriesDone, ReportPools, BeginCleanup, MoveBack, ForgetPools, library

\* The profile reconciler only deals with the profile it took from the queue.
LEMMA ProfileLeavesOthers ==
    ASSUME Typed, RunProfile
    PROVE  /\ \A g \in ProfileNames \ {pro.key} :
                 /\ (g \in exclusive' <=> g \in exclusive) /\ prof'[g] = prof[g]
                 /\ (g \in extRes' <=> g \in extRes) /\ profStatus'[g] = profStatus[g]
           /\ \/ \E f \in ProfileNames : ProfileBegin(f) /\ pro'.key = f /\ profQueue' = profQueue \ {f}
              \/ pro'.key = pro.key /\ UNCHANGED profQueue
              \/ pro' = proIdle /\ profQueue' = profQueue \cup {pro.key}
              \/ pro' = proIdle /\ UNCHANGED profQueue /\ pro.pc \in {"status", "unstatus"}
<1>1. prof \in [Pools -> ProfileValues] /\ profStatus \in [ProfileNames -> {"none", "ok", "error"}]
  BY DEF Typed, TypeOK
<1>2. pro.pc # "idle" => pro.key \in ProfileNames
  BY DEF Typed, ProTyped
<1>3. ASSUME NEW p, p \in PseudoPools \cup {shared, pro.key}, NEW v,
             prof' = [prof EXCEPT ![p] = v] \/ UNCHANGED prof,
             exclusive' \in {exclusive, exclusive \cup {pro.key}, exclusive \ {pro.key}}
      PROVE  \A g \in ProfileNames \ {pro.key} : (g \in exclusive' <=> g \in exclusive) /\ prof'[g] = prof[g]
  BY <1>1, <1>3, PoolFacts
<1>4. \A g \in ProfileNames \ {pro.key} : (g \in exclusive' <=> g \in exclusive) /\ prof'[g] = prof[g]
  <2>1. CASE CreatePool \/ FirstProfile \/ UpdatePool \/ UpdateShared \/ ClearShared
    BY <1>3, <2>1 DEF CreatePool, FirstProfile, UpdatePool, UpdateShared, ClearShared, AddExclusivePool,
                      SetPowerProfile, SetPowerProfileFails
  <2>2. ASSUME NEW q \in PseudoPools, UpdatePseudo(q)
        PROVE  \A g \in ProfileNames \ {pro.key} : (g \in exclusive' <=> g \in exclusive) /\ prof'[g] = prof[g]
    BY <1>3, <2>2 DEF UpdatePseudo, SetPowerProfile, SetPowerProfileFails
  <2>3. CASE DropPool
    BY <1>3, <2>3 DEF DropPool, RemovePool, RemovePoolFails, library
  <2>4. CASE UNCHANGED <<exclusive, prof>>
    BY <2>4
  <2> QED
    BY <2>1, <2>2, <2>3, <2>4
    DEF RunProfile, ProfileStep, ProfileBegin, RejectProfile, CheckShared, PseudoDone, OfferResource,
        ReportProfile, WithdrawResource, UnreportProfile, stateVars, library
<1>5. \A g \in ProfileNames \ {pro.key} : (g \in extRes' <=> g \in extRes) /\ profStatus'[g] = profStatus[g]
  <2>1. CASE OfferResource \/ WithdrawResource
    BY <2>1 DEF OfferResource, WithdrawResource, ensureExtendedResources, removeExtendedResources
  <2>2. CASE ReportProfile \/ UnreportProfile
    BY <1>1, <2>2 DEF ReportProfile, UnreportProfile, addPowerNodeStatusProfileEntry,
                      removePowerNodeStatusProfileEntry
  <2>3. CASE UNCHANGED <<extRes, profStatus>>
    BY <2>3
  <2> QED
    BY <2>1, <2>2, <2>3
    DEF RunProfile, ProfileStep, ProfileBegin, RejectProfile, CreatePool, FirstProfile, UpdatePool,
        CheckShared, UpdateShared, UpdatePseudo, PseudoDone, ClearShared, DropPool, stateVars, report
<1>6. \/ \E f \in ProfileNames : ProfileBegin(f) /\ pro'.key = f /\ profQueue' = profQueue \ {f}
      \/ pro'.key = pro.key /\ UNCHANGED profQueue
      \/ pro' = proIdle /\ profQueue' = profQueue \cup {pro.key}
      \/ pro' = proIdle /\ UNCHANGED profQueue /\ pro.pc \in {"status", "unstatus"}
  <2>1. ASSUME NEW f \in ProfileNames, ProfileBegin(f) PROVE pro'.key = f /\ profQueue' = profQueue \ {f}
    BY <2>1 DEF ProfileBegin, Typed, ProTyped
  <2>2. ASSUME NEW q \in PseudoPools, UpdatePseudo(q) PROVE pro'.key = pro.key /\ UNCHANGED profQueue
    BY <2>2 DEF UpdatePseudo, FailWith, Typed, ProTyped
  <2>3. CASE RejectProfile \/ CreatePool \/ FirstProfile \/ UpdatePool \/ CheckShared \/ UpdateShared
             \/ PseudoDone \/ OfferResource
    BY <2>3 DEF RejectProfile, CreatePool, FirstProfile, UpdatePool, CheckShared, UpdateShared, PseudoDone,
                OfferResource, Goto, FailWith, stateVars, queues, Typed, ProTyped
  <2>4. CASE ReportProfile \/ ClearShared \/ DropPool \/ WithdrawResource \/ UnreportProfile
    BY <2>4 DEF ReportProfile, ClearShared, DropPool, WithdrawResource, UnreportProfile, Goto, Done, Requeue,
                Typed, ProTyped
  <2> QED
    BY <2>1, <2>2, <2>3, <2>4 DEF RunProfile, ProfileStep
<1> QED
  BY <1>4, <1>5, <1>6

\* A reconcile goes by what the profile is now, or the profile is queued.
LEMMA ProfileReconcileFollows ==
    ASSUME Typed, ProfilesKeptApart, ReconcileFollows, RunProfile
    PROVE  ReconcileFollows'
<1>1. /\ prof \in [Pools -> ProfileValues] /\ cr \in [ProfileNames -> [ver: 1..MaxVersion, state: CRStates, shared: BOOLEAN]]
      /\ UNCHANGED <<cr, switched>>
  BY ProfileFrame DEF Typed, TypeOK, cluster
<1>2. pro.pc # "idle" => pro.key \in ProfileNames /\ pro.key \in Pools
  BY PoolFacts DEF Typed, ProTyped
<1>3. ASSUME pro' = proIdle PROVE ReconcileFollows'
  BY <1>3 DEF ReconcileFollows, proIdle
<1>4. pro.pc = "idle" => pro = proIdle
  BY DEF Typed, ProTyped
<1>5. ASSUME NEW f \in ProfileNames, ProfileBegin(f) PROVE ReconcileFollows'
  <2>1. pro' = [proIdle EXCEPT !.key = f, !.val = [name |-> f, ver |-> cr[f].ver],
                              !.shared = cr[f].shared, !.pc = pro'.pc]
    BY <1>4, <1>5 DEF ProfileBegin, proIdle
  <2>2. pro'.pc = IF cr[f].state = "absent" /\ usedByShared(f) THEN "clearShared"
                  ELSE IF cr[f].state \in {"absent", "unmatched"} THEN "unresource"
                  ELSE IF cr[f].state = "invalid" THEN "invalid" ELSE "pool"
    BY <1>4, <1>5 DEF ProfileBegin, proIdle
  <2>3. cr[f].state \in CRStates
    BY <1>1
  <2>4. /\ pro'.key = f /\ pro'.val = [name |-> f, ver |-> cr[f].ver] /\ pro'.shared = cr[f].shared /\ ~pro'.err
        /\ pro'.pc \in {"clearShared", "unresource", "invalid", "pool"}
    BY <2>1, <2>2 DEF proIdle
  <2>5. /\ pro'.pc = "invalid" => cr[f].state = "invalid"
        /\ pro'.pc = "pool" => cr[f].state = "valid"
        /\ pro'.pc = "clearShared" => cr[f].state = "absent"
        /\ pro'.pc = "unresource" => cr[f].state \in {"absent", "unmatched"}
    BY <2>2, <2>3 DEF CRStates
  <2> QED
    BY <1>1, <2>4, <2>5 DEF ReconcileFollows
<1>6. CASE RejectProfile
  BY <1>6 DEF RejectProfile, FailWith, library, report, ReconcileFollows, Typed, ProTyped, cluster
<1>7. CASE CreatePool
  BY <1>1, <1>2, <1>7
  DEF CreatePool, AddExclusivePool, Goto, ReconcileFollows, Typed, ProTyped
<1>8. CASE FirstProfile
  <2>1. CASE SetPowerProfile(pro.key, pro.val) /\ Goto("resource")
    BY <1>1, <1>2, <1>8, <2>1 DEF FirstProfile, SetPowerProfile, Goto, ReconcileFollows, Typed, ProTyped
  <2>2. CASE SetPowerProfileFails(pro.key, pro.val) /\ FailWith(FALSE)
    BY <1>1, <1>2, <1>8, <2>2 DEF FirstProfile, FailWith, ReconcileFollows, Typed, ProTyped
  <2> QED
    BY <1>8, <2>1, <2>2 DEF FirstProfile
<1>9. CASE UpdatePool
  <2>1. CASE SetPowerProfile(pro.key, pro.val) /\ Goto("shared")
    BY <1>1, <1>2, <1>9, <2>1 DEF UpdatePool, SetPowerProfile, Goto, ReconcileFollows, Typed, ProTyped
  <2>2. CASE SetPowerProfileFails(pro.key, pro.val) /\ FailWith(TRUE)
    BY <1>1, <1>2, <1>9, <2>2 DEF UpdatePool, FailWith, ReconcileFollows, Typed, ProTyped
  <2> QED
    BY <1>9, <2>1, <2>2 DEF UpdatePool
<1>10. CASE CheckShared
  BY <1>1, <1>2, <1>10 DEF CheckShared, stateVars, library, report, queues, ReconcileFollows, Typed, ProTyped
<1>11. CASE UpdateShared
  <2>1. pro.key # shared
    BY <1>2, <1>11, PoolFacts DEF UpdateShared
  <2>2. prof'[pro.key] = prof[pro.key]
    BY <1>1, <1>2, <1>11, <2>1 DEF UpdateShared, SetPowerProfile, SetPowerProfileFails
  <2>3. /\ pro.pc = "setShared" /\ pro'.pc \in {"pseudo", "failed"} /\ pro'.key = pro.key /\ pro'.val = pro.val
        /\ pro'.shared = pro.shared
        /\ pro'.err = pro.err \/ ~pro'.err
        /\ UNCHANGED <<exclusive, extRes>> /\ profQueue \subseteq profQueue'
    BY <1>11 DEF UpdateShared, FailWith, report, Typed, ProTyped
  <2> QED
    BY <1>1, <1>2, <2>2, <2>3 DEF ReconcileFollows
<1>12. ASSUME NEW q \in PseudoPools, UpdatePseudo(q) PROVE ReconcileFollows'
  <2>1. pro.key # q
    BY <1>2, <1>12, PoolFacts DEF UpdatePseudo
  <2>2. prof'[pro.key] = prof[pro.key]
    BY <1>1, <1>2, <1>12, <2>1 DEF UpdatePseudo, SetPowerProfile, SetPowerProfileFails
  <2>3. /\ pro.pc = "pseudo" /\ pro'.pc \in {"pseudo", "failed"} /\ pro'.key = pro.key /\ pro'.val = pro.val
        /\ pro'.shared = pro.shared
        /\ pro'.err = pro.err \/ ~pro'.err
        /\ UNCHANGED <<exclusive, extRes, profQueue>>
    BY <1>12 DEF UpdatePseudo, FailWith, report, Typed, ProTyped
  <2> QED
    BY <1>1, <1>2, <2>2, <2>3 DEF ReconcileFollows
<1>13. CASE PseudoDone
  BY <1>1, <1>2, <1>13 DEF PseudoDone, Goto, library, report, ReconcileFollows, Typed, ProTyped
<1>14. CASE OfferResource
  <2>1. CASE Goto("status")
    <3>1. /\ pro.pc = "resource" /\ pro.key \in ProfileNames
          /\ ~pro.shared => pro.key \in extRes'
          /\ pro.shared => UNCHANGED extRes
          /\ pro'.key = pro.key
      BY <1>2, <1>14, <2>1 DEF OfferResource, ensureExtendedResources, Goto, FailWith, Typed, ProTyped
    <3>2. pro.shared = cr[pro.key].shared => Offered(pro.key)'
      <4>1. pro.shared => pro.key \notin extRes' \/ pro.key \in switched'
        BY <1>1, <3>1 DEF ProfilesKeptApart
      <4> QED
        BY <1>1, <3>1, <4>1 DEF Offered
    <3> QED
      BY <1>1, <1>2, <1>14, <2>1, <3>2 DEF OfferResource, Goto, library, ReconcileFollows, Typed, ProTyped
  <2>2. CASE FailWith(TRUE)
    BY <1>1, <1>2, <1>14, <2>2 DEF OfferResource, FailWith, library, ReconcileFollows, Typed, ProTyped
  <2> QED
    BY <1>14, <2>1, <2>2 DEF OfferResource
<1>15. CASE ReportProfile \/ UnreportProfile
  BY <1>3, <1>15 DEF ReportProfile, UnreportProfile, Done, Requeue
<1>16. CASE ClearShared
  <2>1. CASE Goto("dropPool")
    BY <1>1, <1>2, <1>16, <2>1 DEF ClearShared, Goto, report, ReconcileFollows, Typed, ProTyped
  <2> QED
    BY <1>3, <1>16, <2>1 DEF ClearShared, Requeue
<1>17. CASE DropPool
  <2>1. CASE Goto("unstatus")
    <3>1. pro.key \notin profQueue => pro.key \notin extRes \/ leftOver(pro.key)
      BY <1>17 DEF DropPool, ProfilesKeptApart, ReconcileFollows, sharedOnce, leftOver
    <3>2. (pro.key \notin extRes \/ leftOver(pro.key))' <=> pro.key \notin extRes \/ leftOver(pro.key)
      BY <1>1, <1>17, <2>1 DEF DropPool, Goto, report, leftOver, Typed, ProTyped
    <3> QED
      BY <1>1, <1>2, <1>17, <2>1, <3>1, <3>2 DEF DropPool, Goto, report, ReconcileFollows, Typed, ProTyped
  <2> QED
    BY <1>3, <1>17, <2>1 DEF DropPool, Requeue
<1>18. CASE WithdrawResource
  <2>1. CASE removeExtendedResources(pro.key) /\ Goto("unstatus")
    BY <1>1, <1>2, <1>18, <2>1
    DEF WithdrawResource, removeExtendedResources, Goto, library, ReconcileFollows, Typed, ProTyped
  <2> QED
    BY <1>3, <1>18, <2>1 DEF WithdrawResource, Requeue
<1> QED
  BY <1>5, <1>6, <1>7, <1>8, <1>9, <1>10, <1>11, <1>12, <1>13, <1>14, <1>15, <1>16, <1>17, <1>18
  DEF RunProfile, ProfileStep

\* A reconcile that ends without queueing its profile again has done its work.
LEMMA ProfileFollowed ==
    ASSUME Typed, ProfilesKeptApart, ReconcileFollows, ProfilesFollow, RunProfile
    PROVE  ProfilesFollow'
<1> SUFFICES ASSUME NEW g \in ProfileNames, g \notin profQueue', pro'.key # g
             PROVE  (cr'[g].state = "valid" => Applied(g)') /\ (mustWithdraw(g)' => Withdrawn(g)')
  BY DEF ProfilesFollow
<1>1. UNCHANGED <<cr, faults, switched>>
  BY ProfileFrame DEF cluster
<1>2. CASE g # pro.key
  <2>1. g \notin profQueue
    BY <1>2, ProfileLeavesOthers
  <2>2. (cr[g].state = "valid" => Applied(g)) /\ (mustWithdraw(g) => Withdrawn(g))
    BY <1>2, <2>1 DEF ProfilesFollow
  <2> QED
    BY <1>1, <1>2, <2>2, ProfileLeavesOthers DEF Applied, Offered, Withdrawn, leftOver, mustWithdraw
<1>3. CASE g = pro.key
  <2>1. pro.pc # "idle"
    BY <1>3, PoolFacts DEF Typed, ProTyped, proIdle
  <2>2. ~\E f \in ProfileNames : ProfileBegin(f)
    BY <2>1 DEF ProfileBegin
  <2>3. pro' = proIdle /\ UNCHANGED profQueue /\ pro.pc \in {"status", "unstatus"}
    BY <1>3, <2>2, ProfileLeavesOthers
  <2>4. CASE pro.pc = "status"
    <3>1. ReportProfile
      BY <2>4 DEF RunProfile, ProfileStep, ProfileBegin, RejectProfile, CreatePool, FirstProfile, UpdatePool,
                  CheckShared, UpdateShared, UpdatePseudo, PseudoDone, OfferResource, ClearShared,
                  DropPool, WithdrawResource, UnreportProfile
    <3>2. profStatus \in [ProfileNames -> {"none", "ok", "error"}]
      BY DEF Typed, TypeOK
    <3>3. profStatus'[g] = "ok"
      BY <1>3, <2>3, <2>4, <3>1, <3>2
      DEF ReportProfile, ReconcileFollows, addPowerNodeStatusProfileEntry, Done, Requeue
    <3>4. UNCHANGED <<exclusive, prof, extRes>>
      BY <3>1 DEF ReportProfile, library
    <3>5. /\ cr[g].state = "valid" /\ g \in exclusive /\ prof[g] = [name |-> g, ver |-> cr[g].ver]
          /\ Offered(g)
      BY <1>3, <2>3, <2>4 DEF ReconcileFollows
    <3> QED
      BY <1>1, <3>3, <3>4, <3>5 DEF Applied, Offered, mustWithdraw
  <2>5. CASE pro.pc = "unstatus"
    <3>1. UnreportProfile
      BY <2>5 DEF RunProfile, ProfileStep, ProfileBegin, RejectProfile, CreatePool, FirstProfile, UpdatePool,
                  CheckShared, UpdateShared, UpdatePseudo, PseudoDone, OfferResource, ClearShared,
                  DropPool, WithdrawResource, ReportProfile
    <3>2. profStatus \in [ProfileNames -> {"none", "ok", "error"}]
      BY DEF Typed, TypeOK
    <3>3. profStatus'[g] = "none" /\ UNCHANGED extRes
      BY <1>3, <2>3, <3>1, <3>2 DEF UnreportProfile, removePowerNodeStatusProfileEntry, Done, Requeue
    <3>4. (g \notin extRes \/ leftOver(g)) /\ cr[g].state # "valid"
      BY <1>3, <2>3, <2>5 DEF ReconcileFollows
    <3> QED
      BY <1>1, <3>3, <3>4 DEF Withdrawn, leftOver
  <2> QED
    BY <2>3, <2>4, <2>5
<1> QED
  BY <1>2, <1>3

LEMMA StepProfiles ==
    ASSUME Typed, ProfilesKeptApart, ReconcileFollows, ProfilesFollow, [Next]_vars
    PROVE  ReconcileFollows' /\ ProfilesFollow'
<1>1. pro.pc # "idle" => pro.key \in ProfileNames
  BY DEF Typed, ProTyped
<1>2. ASSUME UNCHANGED <<pro, cr, faults, switched, extRes, profStatus, profQueue>>,
             \A f \in ProfileNames : (f \in exclusive' <=> f \in exclusive) /\ prof'[f] = prof[f]
      PROVE  ReconcileFollows' /\ ProfilesFollow'
  <2>1. ReconcileFollows'
    BY <1>1, <1>2 DEF ReconcileFollows, Offered, leftOver
  <2>2. ProfilesFollow'
    BY <1>2 DEF ProfilesFollow, Applied, Offered, Withdrawn, leftOver, mustWithdraw
  <2> QED
    BY <2>1, <2>2
<1>3. CASE RunProfile
  BY <1>3, ProfileReconcileFollows, ProfileFollowed
<1>4. CASE RunConfig
  BY <1>2, <1>4, ConfigFrame, ConfigLeavesProfiles DEF cluster
<1>5. CASE RunPod
  BY <1>2, <1>5, PodFrame DEF cluster
<1>6. CASE Environment
  <2>1. CASE Restart
    <3>1. ReconcileFollows'
      BY <2>1 DEF Restart, ReconcileFollows, proIdle
    <3>2. cr \in [ProfileNames -> [ver: 1..MaxVersion, state: CRStates, shared: BOOLEAN]]
      BY DEF Typed, TypeOK
    <3>3. \A f \in ProfileNames : f \notin profQueue' => cr[f].state = "absent"
      BY <2>1, <3>2 DEF Restart
    <3>4. UNCHANGED <<cr, faults>> /\ faults = "restarts"
      BY <2>1 DEF Restart, Edit
    <3>5. ProfilesFollow'
      BY <3>3, <3>4 DEF ProfilesFollow, mustWithdraw
    <3> QED
      BY <3>1, <3>5
  <2>2. CASE ~Restart
    <3>1. UNCHANGED <<exclusive, prof, extRes, profStatus, faults, pro>>
      BY <1>6, <2>2, EnvironmentFrame
    <3>2. cr \in [ProfileNames -> [ver: 1..MaxVersion, state: CRStates, shared: BOOLEAN]]
      BY DEF Typed, TypeOK
    <3>3. /\ profQueue \subseteq profQueue'
          /\ \A f \in ProfileNames : f \notin profQueue' => cr'[f] = cr[f] /\ (f \in switched' <=> f \in switched)
      BY <1>6, <2>2, <3>2 DEF Environment, ApplyProfile, DeleteProfile, Relabel, ApplyConfig, DeleteConfig,
                              StartPod, TouchPod, StopPod, RemovePod, CatchUp
    <3>4. ReconcileFollows'
      BY <1>1, <3>1, <3>3 DEF ReconcileFollows, Offered, leftOver
    <3>5. ProfilesFollow'
      BY <3>1, <3>3 DEF ProfilesFollow, Applied, Offered, Withdrawn, leftOver, mustWithdraw
    <3> QED
      BY <3>4, <3>5
  <2> QED
    BY <2>1, <2>2
<1>7. CASE UNCHANGED vars
  BY <1>2, <1>7, StutterFrame
<1> QED
  BY <1>3, <1>4, <1>5, <1>6, <1>7 DEF Next, Wait

LEMMA AlwaysFollow == Spec => [](ReconcileFollows /\ ProfilesFollow)
<1>1. Init => ReconcileFollows /\ ProfilesFollow
  BY DEF Init, InitState, ReconcileFollows, ProfilesFollow, proIdle
<1> QED
  BY <1>1, AlwaysTyped, AlwaysApart, StepProfiles, PTL DEF Spec

LEMMA RestFacts ==
    ASSUME Typed, Quiescent
    PROVE  /\ profQueue = {} /\ ~cfgQueue /\ podQueue = {} /\ pro.pc = "idle" /\ cfg.pc = "idle" /\ pod.pc = "idle"
           /\ pro.key \notin ProfileNames /\ pod.key \notin Pods
  BY PoolFacts, NamesAssumption DEF Quiescent, Typed, ProTyped, PodTyped, proIdle, podIdle

\* The cache has caught up: the config selected is the one that is reported.
LEMMA RestSelected ==
    ASSUME Quiescent, active \in present
    PROVE  selected = active
<1>1. cached = latest
  BY DEF Quiescent, Behind, cached
<1> QED
  BY <1>1 DEF selected, latest

\* When the agent rests, the pool of every profile that applies to the node has the
\* latest version, is offered unless shared, and is reported; only where spec.shared was
\* changed may a shared one still be offered.
THEOREM ProfilesAreApplied == Spec => []ProfilesApplied
<1>1. Typed /\ ProfilesFollow => ProfilesApplied
  BY RestFacts DEF ProfilesFollow, ProfilesApplied, Applied
<1> QED
  BY <1>1, AlwaysTyped, AlwaysFollow, PTL

\* When the agent rests, a profile that was deleted or does not match the node is
\* neither offered nor reported; but the resource of a deleted one may stay if its
\* spec.shared was changed before.
THEOREM ProfilesAreWithdrawn == Spec => []ProfilesWithdrawn
<1>1. Typed /\ ProfilesFollow => ProfilesWithdrawn
  BY RestFacts DEF ProfilesFollow, ProfilesWithdrawn, Withdrawn, leftOver, mustWithdraw
<1> QED
  BY <1>1, AlwaysTyped, AlwaysFollow, PTL

-----------------------------------------------------------------------------
(***************************************************************************)
(* The active config: named while there is one, taken down when not        *)
(***************************************************************************)

\* The profile reconciler adds and removes no reserved pool.
LEMMA ProfileLeavesReserved ==
    ASSUME Typed, RunProfile
    PROVE  listedPseudo' = listedPseudo
<1>1. pro.pc # "idle" => pro.key \notin PseudoPools
  BY PoolFacts DEF Typed, ProTyped
<1>2. CASE UNCHANGED exclusive
  BY <1>2 DEF listedPseudo
<1>3. CASE CreatePool
  BY <1>1, <1>3 DEF CreatePool, AddExclusivePool, listedPseudo
<1>4. CASE DropPool
  BY <1>1, <1>4 DEF DropPool, RemovePool, RemovePoolFails, library, listedPseudo
<1> QED
  BY <1>2, <1>3, <1>4
  DEF RunProfile, ProfileStep, ProfileBegin, RejectProfile, FirstProfile, UpdatePool, CheckShared,
      UpdateShared, UpdatePseudo, PseudoDone, OfferResource, ReportProfile, ClearShared, WithdrawResource,
      UnreportProfile, stateVars, library

\* What a step of the config reconciler does to its worker.
LEMMA ConfigSteps ==
    ASSUME Typed, RunConfig
    PROVE  \/ /\ BeginApply /\ cfg'.pc = "read" /\ cfg'.name = selected /\ cfg'.spec = configs[selected]
              /\ ~cfgQueue'
           \/ RefuseConfig /\ cfgQueue /\ UNCHANGED <<cfg, cfgQueue>> /\ cfg.pc = "idle"
           \/ NothingToApply /\ ~cfgQueue' /\ UNCHANGED cfg /\ cfg.pc = "idle"
           \/ /\ cfg.pc \in applyPCs /\ cfg'.pc \in applyPCs /\ cfg'.name = cfg.name /\ cfg'.spec = cfg.spec
              /\ UNCHANGED <<cfgQueue, active, sharedStatus>>
           \/ ReportPools /\ cfg' = cfgIdle
           \/ BeginCleanup /\ cfg'.pc = "cleanup" /\ ~cfgQueue'
           \/ /\ cfg.pc = "cleanup" /\ cfg'.pc \in {"cleanup", "forget"}
              /\ UNCHANGED <<cfgQueue, active, sharedStatus>>
           \/ ForgetPools /\ cfg' = cfgIdle
           \/ /\ cfg.pc \in {"read", "set", "clear", "cleanup"} /\ cfg' = cfgIdle /\ cfgQueue'
              /\ UNCHANGED <<active, sharedStatus>>
<1>1. CASE BeginApply
  BY <1>1 DEF BeginApply, Typed, CfgTyped
<1>2. CASE RefuseConfig \/ NothingToApply
  BY <1>2 DEF RefuseConfig, NothingToApply, queues
<1>3. CASE ReportPools \/ ForgetPools
  BY <1>3 DEF ReportPools, ForgetPools, Finish
<1>4. CASE BeginCleanup
  BY <1>4 DEF BeginCleanup, Typed, CfgTyped
<1>5. ASSUME NEW q \in PseudoPools, RemoveOld(q) \/ CleanupPseudo(q)
      PROVE  \/ /\ cfg.pc \in applyPCs /\ cfg'.pc \in applyPCs /\ cfg'.name = cfg.name /\ cfg'.spec = cfg.spec
                /\ UNCHANGED <<cfgQueue, active, sharedStatus>>
             \/ /\ cfg.pc = "cleanup" /\ cfg'.pc \in {"cleanup", "forget"}
                /\ UNCHANGED <<cfgQueue, active, sharedStatus>>
             \/ /\ cfg.pc = "cleanup" /\ cfg' = cfgIdle /\ cfgQueue'
                /\ UNCHANGED <<active, sharedStatus>>
  BY <1>5 DEF RemoveOld, CleanupPseudo, GiveUp, Finish, Continue, report, applyPCs, Typed, CfgTyped
<1>6. CASE MoveBack
  BY <1>6 DEF MoveBack, Finish, Continue, report, Typed, CfgTyped
<1>7. CASE ReadSharedProfile \/ SetSharedProfile \/ ClearReserved
  BY <1>7 DEF ReadSharedProfile, SetSharedProfile, ClearReserved, Finish, Continue, ContinueAt, report,
              applyPCs, Typed, CfgTyped
<1>8. CASE RemovedAll \/ CreateReserved \/ ReadCoreProfile \/ TuneReserved \/ FillReserved \/ DropReserved
           \/ FallBack \/ EntriesDone
  <2>1. CASE RemovedAll \/ CreateReserved
    BY <2>1 DEF RemovedAll, CreateReserved, Continue, ContinueAt, report, applyPCs, Typed, CfgTyped
  <2>4. CASE ReadCoreProfile
    BY <2>4 DEF ReadCoreProfile, Continue, report, applyPCs, Typed, CfgTyped
  <2>2. CASE TuneReserved \/ FillReserved \/ DropReserved
    BY <2>2 DEF TuneReserved, FillReserved, DropReserved, Continue, ContinueAt, report, applyPCs, Typed, CfgTyped
  <2>3. CASE FallBack \/ EntriesDone
    BY <2>3 DEF FallBack, EntriesDone, Continue, ContinueAt, GiveUp, report, applyPCs, Typed, CfgTyped
  <2> QED
    BY <1>8, <2>1, <2>2, <2>3, <2>4
<1>9. ASSUME NEW e \in Entries, BeginEntry(e)
      PROVE  /\ cfg.pc \in applyPCs /\ cfg'.pc \in applyPCs /\ cfg'.name = cfg.name /\ cfg'.spec = cfg.spec
             /\ UNCHANGED <<cfgQueue, active, sharedStatus>>
  BY <1>9 DEF BeginEntry, Continue, GiveUp, report, applyPCs, Typed, CfgTyped
<1> QED
  BY <1>1, <1>2, <1>3, <1>4, <1>5, <1>6, <1>7, <1>8, <1>9 DEF RunConfig, ConfigStep

LEMMA ConfigActiveFollows ==
    ASSUME Typed, ActiveFollows, RunConfig
    PROVE  ActiveFollows'
<1>1. UNCHANGED <<configs, faults>> /\ present' = present
  BY ConfigFrame DEF cluster, present
<1>2. /\ cfgIdle.pc = "idle" /\ cfgIdle.pc \notin applyPCs /\ cfgQueue \in BOOLEAN
      /\ "read" \in applyPCs /\ {"idle", "cleanup", "forget"} \cap applyPCs = {}
  BY DEF cfgIdle, applyPCs, Typed, TypeOK
<1>3. CASE BeginApply /\ cfg'.pc = "read" /\ cfg'.name = selected /\ cfg'.spec = configs[selected]
  <2>1. selected \in present
    BY <1>3, SelectedFacts DEF BeginApply
  <2> QED
    BY <1>1, <1>2, <1>3, <2>1 DEF ActiveFollows
<1>4. CASE RefuseConfig /\ cfgQueue /\ UNCHANGED <<cfg, cfgQueue>>
  BY <1>4 DEF ActiveFollows
<1>5. CASE NothingToApply /\ UNCHANGED cfg
  <2>1. faults # "lag" => active = NoConfig
    BY <1>5 DEF NothingToApply, cached, latest
  <2> QED
    BY <1>1, <1>2, <1>5, <2>1 DEF NothingToApply, ActiveFollows, report
<1>6. CASE /\ cfg.pc \in applyPCs /\ cfg'.pc \in applyPCs /\ cfg'.name = cfg.name /\ cfg'.spec = cfg.spec
           /\ UNCHANGED <<cfgQueue, active, sharedStatus>>
  BY <1>1, <1>2, <1>6 DEF ActiveFollows
<1>7. CASE ReportPools /\ cfg' = cfgIdle
  <2>1. ~cfgQueue' => ~cfgQueue /\ active' = cfg.name
    BY <1>2, <1>7 DEF ReportPools, updatePowerNodeStatusPools, Finish
  <2>2. cfg.pc \in applyPCs
    BY <1>7 DEF ReportPools, applyPCs
  <2> QED
    BY <1>1, <1>2, <1>7, <2>1, <2>2 DEF ActiveFollows
<1>8. CASE BeginCleanup /\ cfg'.pc = "cleanup"
  BY <1>1, <1>2, <1>8 DEF BeginCleanup, ActiveFollows
<1>11. CASE /\ cfg.pc = "cleanup" /\ cfg'.pc \in {"cleanup", "forget"}
            /\ UNCHANGED <<cfgQueue, active, sharedStatus>>
  BY <1>1, <1>2, <1>11 DEF ActiveFollows
<1>9. CASE ForgetPools /\ cfg' = cfgIdle
  <2>1. ~cfgQueue' => ~cfgQueue /\ active' = NoConfig
    BY <1>2, <1>9 DEF ForgetPools, Finish
  <2>2. cfg.pc = "forget"
    BY <1>9 DEF ForgetPools
  <2>3. ~cfgQueue => present = {}
    BY <2>2 DEF ActiveFollows
  <2> QED
    BY <1>1, <1>2, <1>9, <2>1, <2>3 DEF ActiveFollows
<1>10. CASE cfg' = cfgIdle /\ cfgQueue'
  BY <1>10 DEF ActiveFollows
<1> QED
  BY <1>3, <1>4, <1>5, <1>6, <1>7, <1>8, <1>9, <1>10, <1>11, ConfigSteps

LEMMA ConfigPoolsReported ==
    ASSUME Typed, PoolsReported, RunConfig
    PROVE  PoolsReported'
<1>1. UNCHANGED faults
  BY ConfigFrame DEF cluster
<1> SUFFICES ASSUME faults \in {"none", "sysfs", "lag"}
             PROVE  /\ cfg'.pc = "cleanup" /\ active' = NoConfig => listedPseudo' = {}
                    /\ active' = NoConfig => sharedStatus' = {}
                    /\ active' = NoConfig /\ cfg'.pc \in {"idle", "read", "set", "clear"} => listedPseudo' = {}
                    /\ cfg'.pc = "cleanup" => listedPseudo' \subseteq cfg'.rest
                    /\ cfg'.pc = "forget" => listedPseudo' = {}
  BY <1>1 DEF PoolsReported
<1>2. /\ cfg.pc = "cleanup" /\ active = NoConfig => listedPseudo = {}
      /\ active = NoConfig => sharedStatus = {}
      /\ active = NoConfig /\ cfg.pc \in {"idle", "read", "set", "clear"} => listedPseudo = {}
      /\ cfg.pc = "cleanup" => listedPseudo \subseteq cfg.rest
      /\ cfg.pc = "forget" => listedPseudo = {}
  BY DEF PoolsReported
<1>3. ~RequestsFail
  BY DEF RequestsFail
<1>4. cfgIdle.pc = "idle" /\ NoConfig \notin ConfigNames
  BY AgesAssumption DEF cfgIdle
<1>5. ASSUME UNCHANGED exclusive PROVE listedPseudo' = listedPseudo
  BY <1>5 DEF listedPseudo
<1>6. CASE BeginApply \/ NothingToApply
  BY <1>2, <1>5, <1>6 DEF BeginApply, NothingToApply, library, report, Typed, CfgTyped
<1>7. CASE RefuseConfig
  <2>1. active' \in ConfigNames /\ sharedStatus' = {} /\ UNCHANGED <<cfg, exclusive>> /\ cfg.pc = "idle"
    BY <1>3, <1>7, SelectedFacts DEF RefuseConfig, updatePowerNodeStatusPools, library, present
  <2> QED
    BY <1>2, <1>4, <1>5, <2>1
<1>8. CASE ReadSharedProfile \/ SetSharedProfile \/ ClearReserved
  <2>1. UNCHANGED <<active, sharedStatus, exclusive>> /\ cfg'.pc \in {"set", "clear", "remove", "idle"}
        /\ cfg.pc \in {"read", "set", "clear"}
    BY <1>4, <1>8 DEF ReadSharedProfile, SetSharedProfile, ClearReserved, Finish, Continue, ContinueAt,
                      library, report, Typed, CfgTyped
  <2> QED
    BY <1>2, <1>5, <2>1
<1>9. ASSUME NEW q \in PseudoPools, RemoveOld(q)
      PROVE  UNCHANGED <<active, sharedStatus>> /\ cfg'.pc \in {"remove", "status"}
  BY <1>9 DEF RemoveOld, Continue, GiveUp, report, Typed, CfgTyped
<1>10. ASSUME NEW e \in Entries, BeginEntry(e)
      PROVE  UNCHANGED <<active, sharedStatus>> /\ cfg'.pc \in {"create", "status"}
  BY <1>10 DEF BeginEntry, Continue, GiveUp, report, Typed, CfgTyped
<1>11. CASE RemovedAll \/ CreateReserved \/ ReadCoreProfile \/ TuneReserved \/ FillReserved \/ DropReserved
           \/ FallBack \/ EntriesDone
  <2>1. /\ UNCHANGED <<active, sharedStatus>>
        /\ cfg'.pc \in {"entries", "core", "fallback", "tune", "fill", "drop", "status"}
    BY <1>11 DEF RemovedAll, CreateReserved, ReadCoreProfile, TuneReserved, FillReserved, DropReserved,
                 FallBack, EntriesDone, Continue, ContinueAt, GiveUp, report, Typed, CfgTyped
  <2> QED
    BY <1>2, <2>1
<1>12. CASE ReportPools
  <2>1. active' \in ConfigNames /\ cfg'.pc = "idle"
    BY <1>3, <1>4, <1>12 DEF ReportPools, updatePowerNodeStatusPools, Finish, Typed, CfgTyped, applyPCs
  <2> QED
    BY <1>4, <2>1
<1>13. CASE BeginCleanup
  BY <1>2, <1>13 DEF BeginCleanup, library, report, listedPseudo, Typed, CfgTyped
<1>14. ASSUME NEW q \in PseudoPools, CleanupPseudo(q)
       PROVE  /\ UNCHANGED <<active, sharedStatus>> /\ (active = NoConfig => listedPseudo' = {})
              /\ cfg'.pc \in {"cleanup", "idle"} /\ (cfg'.pc = "cleanup" => listedPseudo' \subseteq cfg'.rest)
  <2>1. UNCHANGED <<active, sharedStatus>> /\ (active = NoConfig => listedPseudo = {})
    BY <1>2, <1>14 DEF CleanupPseudo, report
  <2>2. CASE RemovePool(q) /\ Continue([cfg EXCEPT !.rest = @ \ {q}, !.moved = @ \cup cpusIn(q)])
    BY <1>2, <1>14, <2>1, <2>2 DEF CleanupPseudo, RemovePool, Continue, listedPseudo, Typed, CfgTyped
  <2>3. CASE Finish(TRUE)
    BY <1>4, <1>14, <2>1, <2>3 DEF CleanupPseudo, RemovePool, RemovePoolFails, listedPseudo, Finish
  <2> QED
    BY <1>14, <2>2, <2>3 DEF CleanupPseudo
<1>15. CASE MoveBack
  <2>1. UNCHANGED <<active, sharedStatus, exclusive>> /\ listedPseudo = {}
    BY <1>2, <1>15 DEF MoveBack, report
  <2>2. cfg'.pc \in {"forget", "idle"}
    BY <1>4, <1>15 DEF MoveBack, Finish, Continue, Typed, CfgTyped
  <2> QED
    BY <1>2, <1>5, <2>1, <2>2
<1>16. CASE ForgetPools
  BY <1>2, <1>3, <1>4, <1>5, <1>16 DEF ForgetPools, Finish, library
<1> QED
  BY <1>2, <1>6, <1>7, <1>8, <1>9, <1>10, <1>11, <1>12, <1>13, <1>14, <1>15, <1>16 DEF RunConfig, ConfigStep

LEMMA StepConfigs ==
    ASSUME Typed, ActiveFollows, PoolsReported, [Next]_vars
    PROVE  ActiveFollows' /\ PoolsReported'
<1>1. ASSUME UNCHANGED <<cfg, active, configs, faults>>, ~cfgQueue' => ~cfgQueue
      PROVE  ActiveFollows'
  BY <1>1 DEF ActiveFollows, present
<1>2. ASSUME UNCHANGED <<cfg, active, sharedStatus, faults>>, listedPseudo' = listedPseudo
      PROVE  PoolsReported'
  BY <1>2 DEF PoolsReported
<1>3. CASE RunProfile
  BY <1>1, <1>2, <1>3, ProfileFrame, ProfileLeavesReserved DEF cluster
<1>4. CASE RunConfig
  BY <1>4, ConfigActiveFollows, ConfigPoolsReported
<1>5. CASE RunPod
  <2>1. ~cfgQueue' => ~cfgQueue
    BY <1>5 DEF RunPod, PodStep, PodNotFound, PodBegin, PodEnded, CheckContainer, MoveContainer, RecordPod,
                ReleaseCpus, ForgetPod, applyExclusiveStatus
  <2> QED
    BY <1>1, <1>2, <1>5, <2>1, PodFrame DEF cluster, listedPseudo
<1>6. CASE Restart
  <2>1. ActiveFollows'
    <3>1. ~cfgQueue' => present' = {}
      BY <1>6 DEF Restart, someConfig, present
    <3>2. cfg'.pc = "idle" /\ "idle" \notin applyPCs /\ faults' = "restarts"
      BY <1>6 DEF Restart, Edit, cfgIdle, applyPCs
    <3> QED
      BY <3>1, <3>2 DEF ActiveFollows
  <2>2. PoolsReported'
    BY <1>6 DEF Restart, Edit, PoolsReported
  <2> QED
    BY <2>1, <2>2
<1>7. CASE Environment /\ ~Restart
  <2>1. UNCHANGED <<exclusive, cfg, active, sharedStatus, faults>>
    BY <1>7, EnvironmentFrame
  <2>2. cfgQueue' \/ (UNCHANGED configs /\ (~cfgQueue' => ~cfgQueue))
    BY <1>7 DEF Environment, ApplyProfile, DeleteProfile, Relabel, ApplyConfig, DeleteConfig,
                StartPod, TouchPod, StopPod, RemovePod, CatchUp
  <2>3. cfgQueue' => ActiveFollows'
    BY DEF ActiveFollows
  <2> QED
    BY <1>1, <1>2, <2>1, <2>2, <2>3 DEF listedPseudo
<1>8. CASE UNCHANGED vars
  BY <1>1, <1>2, <1>8, StutterFrame DEF listedPseudo
<1> QED
  BY <1>3, <1>4, <1>5, <1>6, <1>7, <1>8 DEF Next, Wait

LEMMA AlwaysReported == Spec => [](ActiveFollows /\ PoolsReported)
<1>1. Init => ActiveFollows /\ PoolsReported
  <2> SUFFICES ASSUME Init PROVE ActiveFollows /\ PoolsReported
    OBVIOUS
  <2>1. cfg.pc = "idle" /\ "idle" \notin applyPCs /\ active = NoConfig /\ sharedStatus = {} /\ exclusive = {}
    BY DEF Init, InitState, cfgIdle, applyPCs
  <2>2. ~cfgQueue => present = {}
    BY DEF Init, InitState, someConfig, present
  <2> QED
    BY <2>1, <2>2 DEF ActiveFollows, PoolsReported, listedPseudo
<1> QED
  BY <1>1, AlwaysTyped, StepConfigs, PTL DEF Spec

\* When the agent rests and no config is left, the pools it built are taken down and
\* PowerNodeState says so; if a cache that lags hid the active config, they stay with its
\* name.
THEOREM PoolsAreTakenDown == Spec => []PoolsTakenDown
<1>1. Typed /\ ActiveFollows /\ PoolsReported => PoolsTakenDown
  BY RestFacts DEF ActiveFollows, PoolsReported, PoolsTakenDown
<1> QED
  BY <1>1, AlwaysTyped, AlwaysReported, PTL

-----------------------------------------------------------------------------
(***************************************************************************)
(* CPUs: who moves which                                                   *)
(***************************************************************************)

LEMMA ProfileOwners ==
    ASSUME Typed, RunProfile
    PROVE  \A c \in CPUs : \/ owner'[c] = owner[c]
                           \/ pro.pc = "dropPool" /\ owner[c] = pro.key /\ owner'[c] = shared
<1>1. CASE UNCHANGED owner
  BY <1>1
<1>2. CASE DropPool
  <2>1. owner \in [CPUs -> Pools] /\ pro.pc = "dropPool"
    BY <1>2 DEF DropPool, Typed, TypeOK
  <2>2. PICK p \in Pools : p = pro.key
    BY <2>1, PoolFacts DEF Typed, ProTyped
  <2>3. RemovePool(p) \/ RemovePoolFails(p) \/ UNCHANGED owner
    BY <1>2, <2>2 DEF DropPool, RemovePool, RemovePoolFails, library
  <2> QED
    BY <2>1, <2>2, <2>3, RemoveFacts
<1> QED
  BY <1>1, <1>2
  DEF RunProfile, ProfileStep, ProfileBegin, RejectProfile, CreatePool, FirstProfile, UpdatePool, CheckShared,
      UpdateShared, UpdatePseudo, PseudoDone, OfferResource, ReportProfile, ClearShared, WithdrawResource,
      UnreportProfile, stateVars, library

LEMMA PodOwners ==
    ASSUME Typed, RunPod
    PROVE  \A c \in CPUs :
             \/ owner'[c] = owner[c]
             \/ /\ pod.key \in Pods /\ c \in cpusOf(pod.key)
                /\ \/ pod.pc = "release" /\ owner'[c] = shared
                   \/ owner[c] = shared /\ owner'[c] \in ProfileNames
<1>1. CASE UNCHANGED owner
  BY <1>1
<1>2. CASE MoveContainer
  <2>1. pod.pc = "move" /\ pod.todo # {}
    BY <1>2 DEF MoveContainer, Typed, PodTyped
  <2> QED
    BY <1>2, <2>1, ContainerMoves, TurnFacts
<1>3. CASE ReleaseCpus
  <2>1. pod.pc = "release" /\ pod.key \in Pods
    BY <1>3 DEF ReleaseCpus, Typed, PodTyped
  <2> QED
    BY <1>3, <2>1, ReleaseMoves
<1> QED
  BY <1>1, <1>2, <1>3
  DEF RunPod, PodStep, PodNotFound, PodBegin, PodEnded, CheckContainer, RecordPod, ForgetPod, library

\* The config reconciler moves the CPUs of reserved pools and the cores of entries; the
\* pools of profiles neither get nor lose another CPU by it.
LEMMA ConfigOwners ==
    ASSUME Typed, RunConfig
    PROVE  \A c \in CPUs :
             \/ owner'[c] = owner[c]
             \/ /\ owner'[c] \notin ProfileNames
                /\ owner[c] \notin ProfileNames \/ \E e \in Entries : c \in e.cores
<1>1. owner \in [CPUs -> Pools]
  BY DEF Typed, TypeOK
<1>2. CASE UNCHANGED owner
  BY <1>2
<1>3. ASSUME NEW q \in PseudoPools, RemovePool(q) \/ RemovePoolFails(q)
      PROVE  \A c \in CPUs : owner'[c] = owner[c] \/ (owner'[c] \notin ProfileNames /\ owner[c] \notin ProfileNames)
  BY <1>1, <1>3, RemoveFacts, PoolFacts
<1>4. ASSUME NEW q \in PseudoPools, RemoveOld(q) \/ CleanupPseudo(q)
      PROVE  \A c \in CPUs : owner'[c] = owner[c] \/ (owner'[c] \notin ProfileNames /\ owner[c] \notin ProfileNames)
  BY <1>3, <1>4 DEF RemoveOld, CleanupPseudo
<1>5. CASE DropReserved
  <2>1. PICK q \in PseudoPools : q = cfg.cur.pool
    BY <1>5, ConfigWorkerFacts DEF DropReserved, entryPCs
  <2>2. RemovePool(q) \/ RemovePoolFails(q)
    BY <1>5, <2>1 DEF DropReserved, RemovePool, RemovePoolFails
  <2> QED
    BY <1>3, <2>2
<1>6. CASE ClearReserved
  <2>1. PICK S \in SUBSET CPUs : S = cpusIn(reserved)
    BY ConfigWorkerFacts
  <2>2. MoveCPUs(S, shared) \/ MoveCPUsFails(S, shared)
    BY <1>6, <2>1 DEF ClearReserved, MoveCPUs, MoveCPUsFails
  <2>3. \A c \in CPUs : owner'[c] = owner[c] \/ (c \in S /\ owner'[c] = shared)
    BY <1>1, <2>2, MoveFacts, PoolFacts
  <2> QED
    BY <2>1, <2>3, PoolFacts DEF cpusIn
<1>7. ASSUME NEW e \in Entries, NEW p \in {shared, reserved, e.pool},
             MoveCPUs(e.cores, p) \/ MoveCPUsFails(e.cores, p)
      PROVE  \A c \in CPUs : owner'[c] = owner[c] \/ (owner'[c] \notin ProfileNames /\ c \in e.cores)
  <2>1. e.cores \in SUBSET CPUs /\ p \in Pools /\ p \notin ProfileNames
    BY EntryFacts, PoolFacts
  <2>2. PICK S \in SUBSET CPUs : S = e.cores
    BY <2>1
  <2>3. MoveCPUs(S, p) \/ MoveCPUsFails(S, p)
    BY <1>7, <2>2
  <2>4. \A c \in CPUs : owner'[c] = owner[c] \/ (c \in S /\ owner'[c] = p)
    BY <1>1, <2>1, <2>3, MoveFacts
  <2> QED
    BY <2>1, <2>2, <2>4
<1>8. ASSUME NEW e \in Entries, BeginEntry(e)
      PROVE  \A c \in CPUs : owner'[c] = owner[c] \/ (owner'[c] \notin ProfileNames /\ c \in e.cores)
  BY <1>7, <1>8 DEF BeginEntry
<1>9. CASE FillReserved \/ FallBack
  <2>1. PICK e \in Entries : e = cfg.cur
    BY <1>9, ConfigWorkerFacts DEF FillReserved, FallBack, entryPCs
  <2>2. PICK p \in {shared, reserved, e.pool} : MoveCPUs(e.cores, p) \/ MoveCPUsFails(e.cores, p)
    <3>1. CASE FillReserved
      <4>1. MoveCPUs(e.cores, e.pool) \/ MoveCPUsFails(e.cores, e.pool)
        BY <2>1, <3>1 DEF FillReserved, MoveCPUs, MoveCPUsFails
      <4> QED
        BY <4>1
    <3>2. CASE FallBack
      <4>1. MoveCPUs(e.cores, reserved) \/ MoveCPUsFails(e.cores, reserved)
        BY <2>1, <3>2 DEF FallBack, MoveCPUs, MoveCPUsFails
      <4> QED
        BY <4>1
    <3> QED
      BY <1>9, <3>1, <3>2
  <2> QED
    BY <1>7, <2>2
<1>10. CASE MoveBack
  <2>1. PICK S \in SUBSET CPUs : S = cfg.moved
    BY ConfigWorkerFacts
  <2>2. MoveCPUs(S, reserved) \/ MoveCPUsFails(S, reserved)
    BY <1>10, <2>1 DEF MoveBack, MoveCPUs, MoveCPUsFails
  <2>3. \A c \in CPUs : owner'[c] = owner[c] \/ (owner'[c] = reserved /\ owner[c] = shared)
    BY <1>1, <2>2, MoveFacts, PoolFacts
  <2> QED
    BY <2>3, PoolFacts
<1> QED
  BY <1>2, <1>4, <1>5, <1>6, <1>8, <1>9, <1>10
  DEF RunConfig, ConfigStep, BeginApply, RefuseConfig, NothingToApply, ReadSharedProfile, SetSharedProfile,
      RemovedAll, CreateReserved, ReadCoreProfile, TuneReserved, EntriesDone, ReportPools, BeginCleanup,
      ForgetPools, library

\* Profiles that are shared, were or may be.
LEMMA MayBeSharedFacts ==
    ASSUME Typed
    PROVE  /\ sharedOnce \subseteq mayBeShared /\ mayBeShared \subseteq ProfileNames
           /\ shared \notin mayBeShared /\ reserved \notin mayBeShared
  BY SharedAssumption, PoolFacts DEF sharedOnce, mayBeShared, Typed, TypeOK

\* Pods have CPUs of their own, also while they are ended.
LEMMA StepPodsApart ==
    ASSUME Prompt, PodsUnswitched, Typed, ProfilesKeptApart, PodsApart, [Next]_vars
    PROVE  PodsApart'
<1>1. ASSUME UNCHANGED phase, pod'.pc \in {"release", "forget"} => phase[pod'.key] = "done"
      PROVE  PodsApart'
  BY <1>1 DEF PodsApart
<1>2. CASE RunPod
  <2>1. pod'.pc \in {"release", "forget"} => phase[pod'.key] = "done"
    <3>1. podIdle.pc = "idle" /\ (pod.pc \in {"release", "forget"} => phase[pod.key] = "done")
      BY DEF podIdle, PodsApart
    <3>2. ASSUME NEW p \in Pods, PodNotFound(p) \/ PodBegin(p) \/ PodEnded(p)
          PROVE  pod'.pc \in {"release", "forget"} => phase[pod'.key] = "done"
      <4>1. CASE PodBegin(p)
        <5>1. pod'.pc = "check"
          BY <4>1 DEF PodBegin
        <5> QED
          BY <5>1
      <4> QED
        BY <3>1, <3>2, <4>1 DEF PodNotFound, PodEnded, Typed, PodTyped
    <3>3. CASE CheckContainer \/ MoveContainer
      BY <3>1, <3>3 DEF CheckContainer, MoveContainer, FailedContainer, PodRequeue, Typed, PodTyped
    <3>4. CASE RecordPod \/ ForgetPod
      BY <3>1, <3>4 DEF RecordPod, ForgetPod, PodRequeue, PodDone
    <3>5. CASE ReleaseCpus
      BY <3>1, <3>5 DEF ReleaseCpus, PodRequeue, Typed, PodTyped
    <3> QED
      BY <1>2, <3>2, <3>3, <3>4, <3>5 DEF RunPod, PodStep
  <2> QED
    BY <1>1, <1>2, <2>1, PodFrame DEF cluster
<1>3. CASE RunProfile \/ RunConfig \/ UNCHANGED vars
  BY <1>1, <1>3, ProfileFrame, ConfigFrame, StutterFrame DEF cluster, PodsApart
<1>4. CASE Restart
  BY <1>1, <1>4 DEF Restart, podIdle
<1>5. CASE Environment /\ ~Restart
  <2>1. UNCHANGED pod /\ phase \in [Pods -> {"none", "running", "done", "gone"}]
    BY <1>5, EnvironmentFrame DEF Typed, TypeOK
  <2>2. ASSUME NEW p \in Pods, StartPod(p) PROVE PodsApart'
    <3>1. \A q \in Pods : phase'[q] = IF q = p THEN "running" ELSE phase[q]
      BY <2>1, <2>2 DEF StartPod
    <3>2. \A k \in containersOf(p) : k.profile \notin mayBeShared
      BY <2>2 DEF StartPod, ProfilesKeptApart, PodsUnswitched, mayBeShared, Typed, TypeOK
    <3>3. \A q \in Pods \ {p} : phase[q] \in {"running", "done"} => cpusOf(p) \cap cpusOf(q) = {}
      BY <2>2 DEF StartPod
    <3>4. pod.pc \in {"release", "forget"} => pod.key # p /\ pod.key \in Pods
      BY <2>2 DEF StartPod, PodsApart, Typed, PodTyped
    <3> QED
      BY <2>1, <3>1, <3>2, <3>3, <3>4 DEF PodsApart
  <2>3. ASSUME NEW p \in Pods, StopPod(p) PROVE PodsApart'
    <3>1. \A q \in Pods : phase'[q] = IF q = p THEN "done" ELSE phase[q]
      BY <2>1, <2>3 DEF StopPod
    <3>2. phase[p] = "running"
      BY <2>3 DEF StopPod
    <3>3. pod.pc \in {"release", "forget"} => pod.key \in Pods
      BY DEF Typed, PodTyped
    <3> QED
      BY <2>1, <3>1, <3>2, <3>3 DEF PodsApart
  <2>4. ASSUME NEW p \in Pods, RemovePod(p) PROVE PodsApart'
    <3>1. \A q \in Pods : phase'[q] = IF q = p THEN "gone" ELSE phase[q]
      BY <2>1, <2>4 DEF RemovePod
    <3>2. pod.key # p
      BY <2>4 DEF RemovePod
    <3>3. pod.pc \in {"release", "forget"} => pod.key \in Pods
      BY DEF Typed, PodTyped
    <3> QED
      BY <2>1, <3>1, <3>2, <3>3 DEF PodsApart
  <2>5. CASE UNCHANGED phase
    BY <1>1, <2>1, <2>5 DEF PodsApart
  <2> QED
    BY <1>5, <2>2, <2>3, <2>4, <2>5
    DEF Environment, ApplyProfile, DeleteProfile, Relabel, ApplyConfig, DeleteConfig, TouchPod, CatchUp
<1> QED
  BY <1>2, <1>3, <1>4, <1>5 DEF Next, Wait

LEMMA AlwaysPodsApart == ASSUME Prompt, PodsUnswitched PROVE Spec => []PodsApart
<1>1. Init => PodsApart
  BY DEF Init, InitState, podIdle, PodsApart
<1> QED
  BY <1>1, AlwaysTyped, AlwaysApart, StepPodsApart, PTL DEF Spec

\* Nobody but a restart takes a CPU from the pool of a profile that pods may ask for
\* while a pod runs on it.
LEMMA RunningPodKeeps ==
    ASSUME Typed, ProfilesKeptApart, PodsApart, [Next]_vars, ~Restart,
           NEW p \in Pods, NEW c \in cpusOf(p), phase[p] = "running",
           owner[c] \in ProfileNames \ mayBeShared
    PROVE  owner'[c] = owner[c]
<1>1. c \in CPUs
  BY ContainerFacts
<1>2. CASE RunProfile
  BY <1>1, <1>2, ProfileOwners, MayBeSharedFacts DEF ProfilesKeptApart
<1>3. CASE RunConfig
  BY <1>1, <1>3, ConfigOwners, EntryFacts
<1>4. CASE RunPod
  <2>1. pod.pc = "release" => pod.key # p /\ phase[pod.key] = "done"
    BY DEF PodsApart
  <2>2. pod.pc = "release" /\ pod.key \in Pods => c \notin cpusOf(pod.key)
    BY <2>1 DEF PodsApart
  <2> QED
    BY <1>1, <1>4, <2>2, PodOwners, PoolFacts
<1>5. CASE Environment \/ UNCHANGED vars
  BY <1>5, EnvironmentFrame, StutterFrame
<1> QED
  BY <1>2, <1>3, <1>4, <1>5 DEF Next, Wait

\* The profile of a CPU is that of the container that has it.
LEMMA ProfileOfFacts ==
    ASSUME NEW p \in Pods, NEW i \in DOMAIN podSpec[p], NEW c \in podSpec[p][i].cpus
    PROVE  profileOf(p, c) = podSpec[p][i].profile
<1>1. podSpec[p][i] \in containersOf(p)
  BY ContainerFacts
<1>2. PICK k : k = CHOOSE x \in containersOf(p) : c \in x.cpus
  OBVIOUS
<1>3. k \in containersOf(p) /\ c \in k.cpus
  BY <1>1, <1>2
<1>4. PICK j \in DOMAIN podSpec[p] : k = podSpec[p][j]
  BY <1>3, ContainerFacts
<1>5. j = i
  BY <1>3, <1>4, PodsAssumption
<1> QED
  BY <1>2, <1>4, <1>5 DEF profileOf

\* A CPU in the pool a running pod asked for stays there while the pod runs, whatever
\* the other reconcilers do; a pod's object outlives the reconcile of its end.
THEOREM RunningPodsKeepCpus == ASSUME Prompt, PodsUnswitched PROVE Spec => PodsKeepCpus
<1>1. ASSUME Typed, ProfilesKeptApart, PodsApart, [Next]_vars
      PROVE  [Restart \/ \A p \in Pods : \A c \in cpusOf(p) :
                 phase[p] = "running" /\ owner[c] = profileOf(p, c)
                     => owner'[c] = owner[c] \/ phase'[p] # "running"]_vars
  <2> SUFFICES ASSUME ~Restart, NEW p \in Pods, NEW c \in cpusOf(p), phase[p] = "running",
                      owner[c] = profileOf(p, c)
               PROVE  owner'[c] = owner[c]
    OBVIOUS
  <2>1. PICK k \in containersOf(p) : c \in k.cpus
    BY DEF cpusOf
  <2>2. PICK i \in DOMAIN podSpec[p] : k = podSpec[p][i]
    BY <2>1, ContainerFacts
  <2>3. owner[c] = podSpec[p][i].profile
    BY <2>1, <2>2, ProfileOfFacts
  <2>4. owner[c] \in ProfileNames \ mayBeShared
    BY <1>1, <2>2, <2>3, ContainerFacts DEF PodsApart
  <2> QED
    BY <1>1, <2>4, RunningPodKeeps
<1> QED
  BY <1>1, AlwaysTyped, AlwaysApart, AlwaysPodsApart, PTL DEF Spec, PodsKeepCpus

\* One move of the cores of an entry.
LEMMA EntryMoves ==
    ASSUME Typed, NEW e \in Entries, NEW p \in {shared, reserved, e.pool},
           MoveCPUs(e.cores, p) \/ MoveCPUsFails(e.cores, p)
    PROVE  /\ \A c \in CPUs : owner'[c] = owner[c] \/ (c \in e.cores /\ owner'[c] = p)
           /\ MoveCPUs(e.cores, p) => \A c \in e.cores : owner'[c] = p
<1>1. owner \in [CPUs -> Pools] /\ e.cores \in SUBSET CPUs /\ p \in Pools
  BY EntryFacts, PoolFacts DEF Typed, TypeOK
<1>2. PICK S \in SUBSET CPUs : S = e.cores
  BY <1>1
<1>3. /\ MoveCPUs(S, p) \/ MoveCPUsFails(S, p)
      /\ MoveCPUs(e.cores, p) => MoveCPUs(S, p)
  BY <1>2 DEF MoveCPUs, MoveCPUsFails
<1>4. /\ \A c \in CPUs : owner'[c] = owner[c] \/ (c \in S /\ owner'[c] = p)
      /\ MoveCPUs(S, p) => \A c \in S : owner'[c] = p
  BY <1>1, <1>3, MoveFacts
<1> QED
  BY <1>2, <1>3, <1>4

LEMMA ClearMoves ==
    ASSUME Typed, ClearReserved
    PROVE  /\ \A c \in CPUs : owner'[c] = owner[c] \/ owner'[c] = shared
           /\ MoveCPUs(cpusIn(reserved), shared) => \A c \in CPUs : owner'[c] # reserved
<1>1. owner \in [CPUs -> Pools]
  BY DEF Typed, TypeOK
<1>2. PICK S \in SUBSET CPUs : S = cpusIn(reserved)
  BY ConfigWorkerFacts
<1>3. /\ MoveCPUs(S, shared) \/ MoveCPUsFails(S, shared)
      /\ MoveCPUs(cpusIn(reserved), shared) => MoveCPUs(S, shared)
  BY <1>2 DEF ClearReserved, MoveCPUs, MoveCPUsFails
<1>4. /\ \A c \in CPUs : owner'[c] = owner[c] \/ (c \in S /\ owner'[c] = shared)
      /\ MoveCPUs(S, shared) => \A c \in S : owner'[c] = shared
  BY <1>1, <1>3, MoveFacts, PoolFacts
<1> QED
  BY <1>2, <1>3, <1>4, PoolFacts DEF cpusIn

\* CPUs are owned by pools that may have them.
LEMMA ConfigOwnersListed ==
    ASSUME Typed, OwnersListed, RunConfig
    PROVE  OwnersListed'
<1>1. \A c \in CPUs : owner'[c] \in ProfileNames => \E p \in Pods : c \in cpusOf(p)
  BY ConfigOwners DEF OwnersListed
<1>2. owner \in [CPUs -> Pools] /\ \A c \in CPUs : owner[c] \in PseudoPools => owner[c] \in exclusive
  BY DEF Typed, TypeOK, OwnersListed
<1>3. ASSUME \A c \in CPUs : owner'[c] \in PseudoPools => owner'[c] \in exclusive',
             cfg'.pc \in {"core", "tune", "fill", "drop"} => cfg'.cur.pool \in exclusive'
      PROVE  OwnersListed'
  BY <1>1, <1>3 DEF OwnersListed
<1>4. cfgIdle.pc = "idle"
  BY DEF cfgIdle
<1>5. ASSUME NEW q \in PseudoPools, RemovePool(q) \/ RemovePoolFails(q)
      PROVE  \A c \in CPUs : owner'[c] \in PseudoPools => owner'[c] \in exclusive'
  <2>1. q \in Pools /\ q # shared
    BY PoolFacts
  <2> QED
    BY <1>2, <1>5, <2>1, RemoveFacts, PoolFacts
<1>6. ASSUME NEW q \in PseudoPools, RemoveOld(q) \/ CleanupPseudo(q) PROVE OwnersListed'
  <2>1. \A c \in CPUs : owner'[c] \in PseudoPools => owner'[c] \in exclusive'
    BY <1>5, <1>6 DEF RemoveOld, CleanupPseudo
  <2>2. cfg'.pc \in {"remove", "cleanup", "status", "idle"}
    BY <1>4, <1>6 DEF RemoveOld, CleanupPseudo, GiveUp, Finish, Continue, Typed, CfgTyped
  <2> QED
    BY <1>3, <2>1, <2>2
<1>7. CASE ClearReserved
  <2>1. cfg'.pc \in {"remove", "idle"}
    BY <1>4, <1>7 DEF ClearReserved, Finish, Continue, Typed, CfgTyped
  <2> QED
    BY <1>2, <1>3, <1>7, <2>1, ClearMoves, PoolFacts DEF ClearReserved
<1>8. ASSUME NEW e \in Entries, BeginEntry(e) PROVE OwnersListed'
  <2>1. \A c \in CPUs : owner'[c] = owner[c] \/ owner'[c] = shared
    BY <1>8, EntryMoves DEF BeginEntry
  <2>2. cfg'.pc \in {"create", "status"}
    BY <1>8 DEF BeginEntry, Continue, GiveUp, Typed, CfgTyped
  <2> QED
    BY <1>2, <1>3, <1>8, <2>1, <2>2, PoolFacts DEF BeginEntry
<1>9. CASE CreateReserved
  <2>1. exclusive \subseteq exclusive' /\ UNCHANGED owner
    BY <1>9 DEF CreateReserved, AddExclusivePool
  <2>2. cfg'.pc = "fallback" \/ (cfg'.cur = cfg.cur /\ cfg.cur.pool \in exclusive')
    BY <1>9 DEF CreateReserved, AddExclusivePool, ContinueAt, Continue, Typed, CfgTyped
  <2> QED
    BY <1>2, <1>3, <2>1, <2>2
<1>10. CASE ReadCoreProfile \/ TuneReserved
  <2>1. UNCHANGED <<owner, exclusive>> /\ cfg.pc \in {"core", "tune"} /\ cfg'.cur = cfg.cur
    BY <1>10 DEF ReadCoreProfile, TuneReserved, Continue, library, Typed, CfgTyped
  <2> QED
    BY <1>2, <1>3, <2>1 DEF OwnersListed
<1>11. CASE FillReserved
  <2>1. PICK e \in Entries : e = cfg.cur
    BY <1>11, ConfigWorkerFacts DEF FillReserved, entryPCs
  <2>2. MoveCPUs(e.cores, e.pool) \/ MoveCPUsFails(e.cores, e.pool)
    BY <1>11, <2>1 DEF FillReserved, MoveCPUs, MoveCPUsFails
  <2>3. \A c \in CPUs : owner'[c] = owner[c] \/ owner'[c] = e.pool
    BY <2>2, EntryMoves
  <2>4. e.pool \in exclusive /\ UNCHANGED exclusive
    BY <1>11, <2>1 DEF FillReserved, OwnersListed
  <2>5. cfg'.pc = "entries" \/ cfg'.cur = cfg.cur
    BY <1>11 DEF FillReserved, Continue, Typed, CfgTyped
  <2> QED
    BY <1>2, <1>3, <2>1, <2>3, <2>4, <2>5
<1>12. CASE DropReserved
  <2>1. PICK q \in PseudoPools : q = cfg.cur.pool
    BY <1>12, ConfigWorkerFacts DEF DropReserved, entryPCs
  <2>2. RemovePool(q) \/ RemovePoolFails(q)
    BY <1>12, <2>1 DEF DropReserved, RemovePool, RemovePoolFails
  <2>3. cfg'.pc = "fallback"
    BY <1>12 DEF DropReserved, ContinueAt, Continue, Typed, CfgTyped
  <2> QED
    BY <1>3, <1>5, <2>2, <2>3
<1>13. CASE FallBack
  <2>1. PICK e \in Entries : e = cfg.cur
    BY <1>13, ConfigWorkerFacts DEF FallBack, entryPCs
  <2>2. MoveCPUs(e.cores, reserved) \/ MoveCPUsFails(e.cores, reserved)
    BY <1>13, <2>1 DEF FallBack, MoveCPUs, MoveCPUsFails
  <2>3. \A c \in CPUs : owner'[c] = owner[c] \/ owner'[c] = reserved
    BY <2>2, EntryMoves
  <2>4. cfg'.pc \in {"entries", "status"}
    BY <1>13 DEF FallBack, Continue, GiveUp, Typed, CfgTyped
  <2> QED
    BY <1>2, <1>3, <1>13, <2>3, <2>4, PoolFacts DEF FallBack
<1>14. CASE MoveBack
  <2>1. PICK S \in SUBSET CPUs : S = cfg.moved
    BY ConfigWorkerFacts
  <2>2. MoveCPUs(S, reserved) \/ MoveCPUsFails(S, reserved)
    BY <1>14, <2>1 DEF MoveBack, MoveCPUs, MoveCPUsFails
  <2>3. \A c \in CPUs : owner'[c] = owner[c] \/ owner'[c] = reserved
    BY <1>2, <2>2, MoveFacts, PoolFacts
  <2>4. cfg'.pc \in {"forget", "idle"}
    BY <1>4, <1>14 DEF MoveBack, Finish, Continue, Typed, CfgTyped
  <2> QED
    BY <1>2, <1>3, <1>14, <2>3, <2>4, PoolFacts DEF MoveBack
<1>15. CASE BeginApply \/ RefuseConfig \/ NothingToApply \/ ReadSharedProfile \/ SetSharedProfile \/ RemovedAll
            \/ EntriesDone \/ ReportPools \/ BeginCleanup \/ ForgetPools
  <2>1. UNCHANGED <<owner, exclusive>>
    BY <1>15 DEF BeginApply, RefuseConfig, NothingToApply, ReadSharedProfile, SetSharedProfile, RemovedAll,
                 EntriesDone, ReportPools, BeginCleanup, ForgetPools, library
  <2>2. cfg'.pc \in {"read", "idle", "set", "clear", "entries", "status", "cleanup"}
    BY <1>4, <1>15
    DEF BeginApply, RefuseConfig, NothingToApply, ReadSharedProfile, SetSharedProfile, RemovedAll, EntriesDone,
        ReportPools, BeginCleanup, ForgetPools, Finish, Continue, ContinueAt, Typed, CfgTyped
  <2> QED
    BY <1>2, <1>3, <2>1, <2>2
<1> QED
  BY <1>6, <1>7, <1>8, <1>9, <1>10, <1>11, <1>12, <1>13, <1>14, <1>15 DEF RunConfig, ConfigStep

\* The other two reconcilers leave the cores of entries alone, and give their CPUs to
\* profiles and to the shared pool only.
LEMMA OthersOwners ==
    ASSUME Typed, OwnersListed, RunProfile \/ RunPod
    PROVE  \A c \in CPUs : \/ owner'[c] = owner[c]
                           \/ /\ owner'[c] \in ProfileNames \cup {shared}
                              /\ \E p \in Pods : c \in cpusOf(p)
                              /\ \A e \in Entries : c \notin e.cores
<1>1. ASSUME NEW c \in CPUs, owner'[c] # owner[c]
      PROVE  owner'[c] \in ProfileNames \cup {shared} /\ \E p \in Pods : c \in cpusOf(p)
  <2>1. CASE RunProfile
    <3>1. pro.pc = "dropPool" /\ owner[c] = pro.key /\ owner'[c] = shared
      BY <1>1, <2>1, ProfileOwners
    <3>2. owner[c] \in ProfileNames
      BY <3>1 DEF Typed, ProTyped
    <3> QED
      BY <3>1, <3>2 DEF OwnersListed
  <2>2. CASE RunPod
    BY <1>1, <2>2, PodOwners
  <2> QED
    BY <2>1, <2>2
<1> QED
  BY <1>1, EntryFacts

LEMMA StepOwnersListed ==
    ASSUME Typed, OwnersListed, [Next]_vars
    PROVE  OwnersListed'
<1>1. CASE RunConfig
  BY <1>1, ConfigOwnersListed
<1>2. CASE RunProfile \/ RunPod
  <2>1. listedPseudo' = listedPseudo /\ UNCHANGED cfg
    BY <1>2, ProfileLeavesReserved, ProfileFrame, PodFrame DEF listedPseudo
  <2>2. \A c \in CPUs : owner'[c] \in PseudoPools => owner'[c] \in exclusive'
    <3>1. \A c \in CPUs : owner'[c] \in PseudoPools => owner'[c] = owner[c]
      BY <1>2, OthersOwners, PoolFacts
    <3> QED
      BY <2>1, <3>1 DEF OwnersListed, listedPseudo
  <2>3. cfg'.pc \in {"core", "tune", "fill", "drop"} => cfg'.cur.pool \in exclusive'
    <3>1. cfg.pc \in {"core", "tune", "fill", "drop"} => cfg.cur.pool \in listedPseudo
      BY ConfigWorkerFacts DEF OwnersListed, listedPseudo, entryPCs
    <3> QED
      BY <2>1, <3>1 DEF listedPseudo
  <2> QED
    BY <1>2, <2>2, <2>3, OthersOwners DEF OwnersListed
<1>3. CASE Restart
  BY <1>3, PoolFacts DEF Restart, OwnersListed, cfgIdle
<1>4. CASE UNCHANGED <<owner, exclusive, cfg>>
  BY <1>4 DEF OwnersListed
<1> QED
  BY <1>1, <1>2, <1>3, <1>4, EnvironmentFrame, StutterFrame DEF Next, Wait

LEMMA AlwaysOwnersListed == Spec => []OwnersListed
<1>1. Init => OwnersListed
  BY PoolFacts DEF Init, InitState, OwnersListed, cfgIdle
<1> QED
  BY <1>1, AlwaysTyped, StepOwnersListed, PTL DEF Spec

\* The reconcile of a config reserves the cores of one entry after the other.
LEMMA ConfigEntries ==
    ASSUME Typed, OwnersListed, ActiveFollows, EntriesSoFar, RunConfig
    PROVE  EntriesSoFar'
<1>1. /\ owner \in [CPUs -> Pools]
      /\ cfgIdle.pc = "idle"
      /\ UNCHANGED configs
  BY ConfigFrame DEF Typed, TypeOK, cfgIdle, cluster
<1>2. ASSUME cfg'.pc = "idle", cfgQueue' \/ present' = {} PROVE EntriesSoFar'
  BY <1>2 DEF EntriesSoFar, entryPCs
<1>3. ASSUME cfg'.pc \in {"read", "set", "clear", "cleanup", "forget"} PROVE EntriesSoFar'
  BY <1>3 DEF EntriesSoFar, entryPCs
<1>4. ASSUME cfg'.pc \in {"entries", "status"} \cup entryPCs, cfg'.err PROVE EntriesSoFar'
  BY <1>4 DEF EntriesSoFar, entryPCs
<1>5. ASSUME Reserved(entriesDone)',
             \/ cfg'.pc \in {"entries", "create", "core", "tune", "fill"}
             \/ cfg'.pc = "status" /\ cfg'.rest = {}
      PROVE  EntriesSoFar'
  BY <1>5 DEF EntriesSoFar, entryPCs
<1>6. ASSUME cfg'.pc = "remove",
             \A c \in CPUs : owner'[c] \in PseudoPools => owner'[c] \in cfg'.rest,
             \A c \in CPUs : owner'[c] # reserved
      PROVE  EntriesSoFar'
  BY <1>6 DEF EntriesSoFar, entryPCs
<1>7. cfg.pc \in {"entries"} \cup entryPCs =>
         /\ cfg.spec \in ConfigSpecs /\ cfg.spec.reserved \subseteq Entries /\ cfg.rest \subseteq cfg.spec.reserved
         /\ \A e, g \in cfg.spec.reserved : e # g => e.cores \cap g.cores = {}
  BY EntriesAssumption, ConfigWorkerFacts DEF Typed, CfgTyped, applyPCs, entryPCs
<1>8. CASE BeginApply \/ ReadSharedProfile \/ SetSharedProfile \/ BeginCleanup \/ MoveBack
  <2>1. cfg'.pc \in {"read", "set", "clear", "cleanup", "forget"} \/ (cfg'.pc = "idle" /\ cfgQueue')
    BY <1>1, <1>8 DEF BeginApply, ReadSharedProfile, SetSharedProfile, BeginCleanup, MoveBack, Finish, Continue,
                      ContinueAt, Typed, CfgTyped
  <2> QED
    BY <1>2, <1>3, <2>1
<1>9. CASE RefuseConfig \/ NothingToApply \/ ForgetPools
  <2>1. cfg'.pc = "idle" /\ (cfgQueue' \/ present = {})
    <3>1. CASE ForgetPools
      <4>1. cfg'.pc = "idle" /\ cfg.pc = "forget" /\ (~cfgQueue' => ~cfgQueue)
        BY <1>1, <3>1 DEF ForgetPools, Finish
      <4> QED
        BY <4>1 DEF ActiveFollows
    <3> QED
      BY <1>9, <3>1 DEF RefuseConfig, NothingToApply, queues
  <2> QED
    BY <1>1, <1>2, <2>1 DEF present
<1>10. CASE ClearReserved
  <2>1. CASE MoveCPUs(cpusIn(reserved), shared) /\ cfg'.pc = "remove" /\ cfg'.rest = listedPseudo
    <3>1. /\ \A c \in CPUs : owner'[c] = owner[c] \/ owner'[c] = shared
          /\ \A c \in CPUs : owner'[c] # reserved
      BY <1>10, <2>1, ClearMoves
    <3>2. \A c \in CPUs : owner'[c] \in PseudoPools => owner'[c] \in listedPseudo
      BY <3>1, PoolFacts DEF OwnersListed, listedPseudo
    <3> QED
      BY <1>6, <2>1, <3>1, <3>2
  <2>2. CASE cfg'.pc = "idle" /\ cfgQueue'
    BY <1>2, <2>2
  <2> QED
    BY <1>1, <1>10, <2>1, <2>2 DEF ClearReserved, Continue, Finish, Typed, CfgTyped
<1>11. ASSUME NEW q \in PseudoPools, RemoveOld(q) PROVE EntriesSoFar'
  <2>1. cfg.pc = "remove" /\ q \in Pools /\ q # shared
    BY <1>11, PoolFacts DEF RemoveOld
  <2>2. CASE RemovePool(q) /\ cfg'.pc = "remove" /\ cfg'.rest = cfg.rest \ {q}
    <3>1. /\ \A c \in CPUs : owner'[c] = owner[c] \/ owner'[c] = shared
          /\ \A c \in CPUs : owner'[c] # q
      <4>1. RemovePool(q) => ~RemovePoolFails(q) \/ \A c \in CPUs : owner'[c] # q
        BY <1>1, <2>1 DEF RemovePool, MoveCPUs, Moved, cpusIn
      <4>2. \A c \in CPUs : owner'[c] # q
        BY <1>1, <2>1, <2>2, <4>1, RemoveFacts
      <4> QED
        BY <1>1, <2>1, <2>2, <4>2, RemoveFacts
    <3> QED
      BY <1>6, <2>1, <2>2, <3>1, PoolFacts DEF EntriesSoFar
  <2>3. CASE cfg'.pc = "status" /\ cfg'.err
    BY <1>4, <2>3
  <2> QED
    BY <1>11, <2>1, <2>2, <2>3 DEF RemoveOld, Continue, GiveUp, Typed, CfgTyped
<1>12. ASSUME NEW q \in PseudoPools, CleanupPseudo(q) PROVE EntriesSoFar'
  <2>1. cfg'.pc = "cleanup" \/ (cfg'.pc = "idle" /\ cfgQueue')
    BY <1>1, <1>12 DEF CleanupPseudo, Finish, Continue, Typed, CfgTyped
  <2> QED
    BY <1>2, <1>3, <2>1
<1>13. CASE RemovedAll
  <2>1. cfg'.pc = "entries" /\ cfg'.rest = cfg'.spec.reserved /\ UNCHANGED owner
    BY <1>13 DEF RemovedAll, Continue, library, Typed, CfgTyped
  <2>2. entriesDone' = {}
    BY <2>1 DEF entriesDone
  <2>3. \A c \in CPUs : owner[c] \notin PseudoPools /\ owner[c] # reserved
    BY <1>13 DEF RemovedAll, EntriesSoFar
  <2> QED
    BY <1>5, <2>1, <2>2, <2>3 DEF Reserved
<1>14. ASSUME NEW e \in Entries, BeginEntry(e) PROVE EntriesSoFar'
  <2>1. cfg.pc = "entries" /\ e \in cfg.rest /\ "entries" \notin entryPCs
    BY <1>14 DEF BeginEntry, entryPCs
  <2>2. CASE /\ cfg' = [cfg EXCEPT !.pc = "create", !.cur = e, !.rest = @ \ {e}] /\ ~cfg.err
    <3>1. /\ cfg'.pc = "create" /\ cfg'.cur = e /\ cfg'.rest = cfg.rest \ {e} /\ cfg'.spec = cfg.spec
          /\ "create" \in entryPCs
      BY <2>2 DEF Typed, CfgTyped, entryPCs
    <3>2. entriesDone' = entriesDone /\ entriesDone = cfg.spec.reserved \ cfg.rest
      BY <2>1, <3>1 DEF entriesDone
    <3>3. Reserved(entriesDone)
      BY <2>1, <2>2 DEF EntriesSoFar
    <3>4. \A c \in CPUs : owner'[c] = owner[c] \/ (c \in e.cores /\ owner'[c] = shared)
      BY <1>14, EntryMoves DEF BeginEntry
    <3>5. \A g \in entriesDone : g.cores \subseteq CPUs /\ g.cores \cap e.cores = {}
      BY <1>7, <2>1, <3>2, EntryFacts
    <3>6. Reserved(entriesDone)'
      BY <3>2, <3>3, <3>4, <3>5, PoolFacts DEF Reserved
    <3> QED
      BY <1>5, <3>1, <3>6
  <2>3. CASE cfg'.pc \in {"create", "status"} /\ cfg'.err
    BY <1>4, <2>3 DEF entryPCs
  <2> QED
    BY <1>14, <2>2, <2>3 DEF BeginEntry, Continue, GiveUp, Typed, CfgTyped
<1>15. CASE CreateReserved \/ ReadCoreProfile \/ TuneReserved
  <2>1. /\ cfg.pc \in {"create", "core", "tune"} /\ UNCHANGED owner
        /\ cfg'.pc \in {"core", "tune", "fill", "drop", "fallback"}
        /\ cfg'.spec = cfg.spec /\ cfg'.cur = cfg.cur /\ cfg'.rest = cfg.rest
        /\ cfg'.err = cfg.err \/ cfg'.err
        /\ cfg'.pc \in {"drop", "fallback"} => cfg'.err
    <3>1. CASE CreateReserved
      BY <3>1 DEF CreateReserved, ContinueAt, Continue, Typed, CfgTyped
    <3>2. CASE ReadCoreProfile
      BY <3>2 DEF ReadCoreProfile, Continue, library, Typed, CfgTyped
    <3>3. CASE TuneReserved
      BY <3>3 DEF TuneReserved, Continue, Typed, CfgTyped
    <3> QED
      BY <1>15, <3>1, <3>2, <3>3
  <2>2. entriesDone' = entriesDone
    BY <2>1 DEF entriesDone, entryPCs
  <2>3. ~cfg.err => Reserved(entriesDone)
    BY <2>1 DEF EntriesSoFar, entryPCs
  <2>4. ~cfg.err => Reserved(entriesDone)'
    BY <2>1, <2>2, <2>3 DEF Reserved
  <2>5. cfg'.pc \in entryPCs
    BY <2>1 DEF entryPCs
  <2> QED
    BY <1>4, <1>5, <2>1, <2>4, <2>5
<1>16. CASE FillReserved
  <2>1. PICK e \in Entries : e = cfg.cur
    BY <1>16, ConfigWorkerFacts DEF FillReserved, entryPCs
  <2>2. CASE MoveCPUs(e.cores, e.pool) /\ cfg' = [cfg EXCEPT !.pc = "entries", !.cur = NoEntrySpec] /\ ~cfg.err
    <3>1. cfg.pc = "fill" /\ "fill" \in entryPCs /\ "entries" \notin entryPCs
      BY <1>16 DEF FillReserved, entryPCs
    <3>2. cfg'.pc = "entries" /\ cfg'.rest = cfg.rest /\ cfg'.spec = cfg.spec
      BY <2>2 DEF Typed, CfgTyped
    <3>3. e \in cfg.spec.reserved \ cfg.rest
      BY <2>1, <3>1 DEF Typed, CfgTyped
    <3>4. entriesDone' = entriesDone \cup {e} /\ entriesDone = cfg.spec.reserved \ (cfg.rest \cup {e})
      BY <2>1, <3>1, <3>2, <3>3 DEF entriesDone
    <3>5. Reserved(entriesDone)
      BY <2>2, <3>1 DEF EntriesSoFar
    <3>6. /\ \A c \in CPUs : owner'[c] = owner[c] \/ (c \in e.cores /\ owner'[c] = e.pool)
          /\ \A c \in e.cores : owner'[c] = e.pool
      BY <2>2, EntryMoves
    <3>7. \A g \in entriesDone : g.cores \subseteq CPUs /\ g.cores \cap e.cores = {}
      BY <1>7, <3>1, <3>3, <3>4, EntryFacts
    <3>8. Reserved(entriesDone)'
      BY <3>4, <3>5, <3>6, <3>7, PoolFacts, EntryFacts DEF Reserved
    <3> QED
      BY <1>5, <3>2, <3>8
  <2>3. CASE cfg'.pc \in {"entries", "drop"} /\ cfg'.err
    BY <1>4, <2>3 DEF entryPCs
  <2> QED
    BY <1>16, <2>1, <2>2, <2>3 DEF FillReserved, MoveCPUs, Continue, Typed, CfgTyped
<1>17. CASE DropReserved \/ FallBack
  <2>1. cfg.err
    BY <1>17 DEF DropReserved, FallBack, EntriesSoFar
  <2>2. cfg'.err /\ cfg'.pc \in {"fallback", "entries", "status"}
    BY <1>17, <2>1 DEF DropReserved, FallBack, ContinueAt, Continue, GiveUp, Typed, CfgTyped
  <2> QED
    BY <1>4, <2>2 DEF entryPCs
<1>18. CASE EntriesDone
  <2>1. /\ cfg.pc = "entries" /\ cfg.rest = {} /\ cfg'.pc = "status" /\ cfg'.rest = {} /\ cfg'.spec = cfg.spec
        /\ cfg'.err = cfg.err /\ UNCHANGED owner
    BY <1>18 DEF EntriesDone, ContinueAt, Continue, library, Typed, CfgTyped
  <2>2. entriesDone' = entriesDone
    BY <2>1 DEF entriesDone, entryPCs
  <2>3. ~cfg.err => Reserved(entriesDone)'
    BY <2>1, <2>2 DEF EntriesSoFar, Reserved
  <2> QED
    BY <1>4, <1>5, <2>1, <2>3
<1>19. CASE ReportPools
  <2>1. CASE cfg' = cfgIdle /\ cfgQueue'
    BY <1>1, <1>2, <2>1
  <2>2. CASE cfg' = cfgIdle /\ ~cfg.err /\ ~cfgQueue /\ active' = cfg.name
    <3>1. cfg.pc = "status" /\ "status" \notin entryPCs /\ "status" \in applyPCs /\ UNCHANGED owner
      BY <1>19 DEF ReportPools, entryPCs, applyPCs, library
    <3>2. cfg.spec = configs[cfg.name] /\ cfg.rest = {} /\ Reserved(entriesDone)
      BY <2>2, <3>1 DEF ActiveFollows, EntriesSoFar
    <3>3. entriesDone = (configs[active].reserved)'
      BY <1>1, <2>2, <3>1, <3>2 DEF entriesDone
    <3>4. Reserved(configs[active].reserved)'
      BY <3>1, <3>2, <3>3 DEF Reserved
    <3> QED
      BY <1>1, <2>2, <3>4 DEF EntriesSoFar, entryPCs
  <2> QED
    BY <1>19, <2>1, <2>2 DEF ReportPools, Finish, updatePowerNodeStatusPools, Typed, TypeOK, CfgTyped
<1> QED
  BY <1>8, <1>9, <1>10, <1>11, <1>12, <1>13, <1>14, <1>15, <1>16, <1>17, <1>18, <1>19 DEF RunConfig, ConfigStep

LEMMA StepEntries ==
    ASSUME Typed, OwnersListed, ActiveFollows, EntriesSoFar, [Next]_vars
    PROVE  EntriesSoFar'
<1>1. CASE RunConfig
  BY <1>1, ConfigEntries
<1>2. CASE RunProfile \/ RunPod
  <2>1. UNCHANGED <<cfg, configs, active>> /\ (~cfgQueue' => ~cfgQueue)
    <3>1. CASE RunProfile
      BY <3>1, ProfileFrame DEF cluster
    <3>2. CASE RunPod
      <4>1. ~cfgQueue' => ~cfgQueue
        BY <3>2 DEF RunPod, PodStep, PodNotFound, PodBegin, PodEnded, CheckContainer, MoveContainer, RecordPod,
                    ReleaseCpus, ForgetPod, applyExclusiveStatus
      <4> QED
        BY <3>2, <4>1, PodFrame DEF cluster
    <3> QED
      BY <1>2, <3>1, <3>2
  <2>2. \A c \in CPUs : \/ owner'[c] = owner[c]
                        \/ /\ owner'[c] \in ProfileNames \cup {shared}
                           /\ \A e \in Entries : c \notin e.cores
    BY <1>2, OthersOwners
  <2>3. ASSUME NEW E \in SUBSET Entries, Reserved(E) PROVE Reserved(E)'
    BY <2>2, <2>3, PoolFacts, EntryFacts DEF Reserved
  <2>4. entriesDone' = entriesDone /\ present' = present
    BY <2>1 DEF entriesDone, present
  <2>5. cfg.pc \in {"entries", "status"} \cup entryPCs => entriesDone \in SUBSET Entries
    BY ConfigWorkerFacts DEF entriesDone, applyPCs, entryPCs
  <2>6. cfg.pc \in {"entries", "status"} \cup entryPCs /\ ~cfg.err => Reserved(entriesDone)'
    <3> SUFFICES ASSUME cfg.pc \in {"entries", "status"} \cup entryPCs, ~cfg.err PROVE Reserved(entriesDone)'
      OBVIOUS
    <3>1. PICK E \in SUBSET Entries : E = entriesDone
      BY <2>5
    <3>2. Reserved(E)
      BY <3>1 DEF EntriesSoFar, Reserved
    <3>3. Reserved(E)'
      BY <2>3, <3>2
    <3> QED
      BY <2>4, <3>1, <3>3 DEF Reserved
  <2>7. cfg.pc = "idle" /\ ~cfgQueue' /\ present # {} => Reserved(configs[active].reserved)'
    <3> SUFFICES ASSUME cfg.pc = "idle", ~cfgQueue', present # {} PROVE Reserved(configs[active].reserved)'
      OBVIOUS
    <3>1. active \in present
      BY <2>1 DEF ActiveFollows
    <3>2. configs[active] \in ConfigSpecs
      BY <3>1 DEF present, Typed, TypeOK
    <3>3. PICK E \in SUBSET Entries : E = configs[active].reserved
      BY <3>2, EntryFacts
    <3>4. Reserved(E)
      BY <2>1, <3>3 DEF EntriesSoFar, Reserved
    <3>5. Reserved(E)'
      BY <2>3, <3>4
    <3> QED
      BY <2>1, <3>3, <3>5 DEF Reserved
  <2>8. cfg.pc = "remove" => /\ \A c \in CPUs : owner'[c] \in PseudoPools => owner'[c] \in cfg.rest
                             /\ \A c \in CPUs : owner'[c] # reserved
    BY <2>2, PoolFacts DEF EntriesSoFar
  <2> QED
    BY <2>1, <2>4, <2>6, <2>7, <2>8 DEF EntriesSoFar
<1>3. CASE Restart
  <2>1. cfg'.pc = "idle" /\ (~cfgQueue' => present' = {})
    BY <1>3 DEF Restart, cfgIdle, someConfig, present
  <2> QED
    BY <2>1 DEF EntriesSoFar, entryPCs
<1>4. ASSUME UNCHANGED <<owner, cfg, active>>, cfgQueue' \/ (UNCHANGED configs /\ (~cfgQueue' => ~cfgQueue))
      PROVE  EntriesSoFar'
  <2>1. entriesDone' = entriesDone
    BY <1>4 DEF entriesDone
  <2>2. Reserved(entriesDone) => Reserved(entriesDone)'
    BY <1>4, <2>1 DEF Reserved
  <2>3. ~cfgQueue' /\ present' # {} /\ cfg.pc = "idle" => Reserved(configs[active].reserved)'
    BY <1>4 DEF Reserved, EntriesSoFar, present
  <2> QED
    BY <1>4, <2>2, <2>3 DEF EntriesSoFar
<1>5. CASE Environment /\ ~Restart
  <2>1. cfgQueue' \/ (UNCHANGED configs /\ (~cfgQueue' => ~cfgQueue))
    BY <1>5 DEF Environment, ApplyProfile, DeleteProfile, Relabel, ApplyConfig, DeleteConfig,
                StartPod, TouchPod, StopPod, RemovePod, CatchUp
  <2> QED
    BY <1>4, <1>5, <2>1, EnvironmentFrame
<1>6. CASE UNCHANGED vars
  BY <1>4, <1>6, StutterFrame
<1> QED
  BY <1>1, <1>2, <1>3, <1>5, <1>6 DEF Next, Wait

LEMMA AlwaysEntries == Spec => []EntriesSoFar
<1>1. Init => EntriesSoFar
  <2> SUFFICES ASSUME Init PROVE EntriesSoFar
    OBVIOUS
  <2>1. cfg.pc = "idle" /\ (~cfgQueue => present = {})
    BY DEF Init, InitState, cfgIdle, someConfig, present
  <2> QED
    BY <2>1 DEF EntriesSoFar, entryPCs
<1> QED
  BY <1>1, AlwaysTyped, AlwaysOwnersListed, AlwaysReported, StepEntries, PTL DEF Spec

\* A container of a running pod keeps its place.
LEMMA PlacedKeeps ==
    ASSUME Typed, ProfilesKeptApart, PodsApart, [Next]_vars, ~Restart,
           NEW p \in Pods, NEW i \in DOMAIN podSpec[p], phase[p] = "running", Placed(p, i)
    PROVE  Placed(p, i)'
<1>1. /\ podSpec[p][i].cpus \subseteq cpusOf(p)
      /\ podSpec[p][i].profile \in ProfileNames \ mayBeShared
  BY ContainerFacts DEF PodsApart
<1>2. ASSUME NEW c \in podSpec[p][i].cpus PROVE owner'[c] = podSpec[p][i].profile
  <2>1. c \in cpusOf(p) /\ owner[c] = podSpec[p][i].profile
    BY <1>1, <1>2 DEF Placed
  <2> QED
    BY <1>1, <2>1, RunningPodKeeps
<1> QED
  BY <1>2 DEF Placed

\* The reconciler goes on with a container: it fails, is left for the move, or is placed.
LEMMA ContainerStep ==
    ASSUME Typed, CheckContainer \/ MoveContainer, ~PodRequeue
    PROVE  /\ UNCHANGED podQueue /\ pod'.key = pod.key /\ pod'.found = pod.found
           /\ pod.pc \in {"check", "move"} /\ pod'.pc \in {"check", "move"}
           /\ pod.todo # {} /\ pod'.todo \subseteq pod.todo
           /\ \/ pod'.retry /\ pod'.bad # {} /\ pod'.pc = "check" /\ pod'.todo = pod.todo \ {turn}
              \/ pod'.retry = pod.retry /\ pod'.bad = pod.bad /\ pod'.todo = pod.todo /\ pod'.pc = "move"
              \/ /\ pod'.retry = pod.retry /\ pod'.bad = pod.bad /\ pod'.pc = "check"
                 /\ pod'.todo = pod.todo \ {turn}
                 /\ \A c \in container.cpus : owner'[c] = container.profile
<1>1. pod.todo # {} /\ pod.pc \in {"check", "move"} /\ UNCHANGED podQueue
  BY DEF CheckContainer, MoveContainer, Typed, PodTyped
<1>2. CASE pod' = FailedContainer
  BY <1>1, <1>2 DEF FailedContainer, remaining, Typed, PodTyped
<1>3. CASE /\ pod' = [pod EXCEPT !.pc = "check", !.todo = remaining]
           /\ \A c \in container.cpus : owner'[c] = container.profile
  BY <1>1, <1>3 DEF remaining, Typed, PodTyped
<1>4. CASE CheckContainer
  <2>1. CASE coresToAdd = {} /\ pod' = [pod EXCEPT !.todo = remaining]
    <3>1. \A c \in container.cpus : owner[c] = container.profile
      BY <2>1 DEF coresToAdd
    <3>2. UNCHANGED owner /\ pod.pc = "check"
      BY <1>4 DEF CheckContainer, library
    <3> QED
      BY <1>1, <2>1, <3>1, <3>2 DEF remaining, Typed, PodTyped
  <2>2. CASE pod' = [pod EXCEPT !.pc = "move"]
    BY <1>1, <2>2 DEF Typed, PodTyped
  <2> QED
    BY <1>2, <1>4, <2>1, <2>2 DEF CheckContainer
<1>5. CASE MoveContainer
  BY <1>2, <1>3, <1>5, ContainerMoves
<1> QED
  BY <1>4, <1>5

\* The pod reconciler places one container after the other.
LEMMA PodPlaces ==
    ASSUME Typed, ProfilesKeptApart, PodsApart, PodsPlaced, RunPod
    PROVE  PodsPlaced'
<1>1. UNCHANGED phase /\ [Next]_vars /\ podIdle.key = "nil" /\ "nil" \notin Pods
  BY PodFrame, NamesAssumption DEF cluster, Next, podIdle
<1>2. ~Restart \/ PodsPlaced'
  <2>1. Restart => \A p \in Pods : phase'[p] = "running" => p \in podQueue'
    BY <1>1 DEF Restart
  <2> QED
    BY <2>1 DEF PodsPlaced
<1> SUFFICES ASSUME ~Restart, NEW p \in Pods, phase[p] = "running", p \notin podQueue'
             PROVE  /\ pod'.key # p => \A i \in DOMAIN podSpec[p] : Placed(p, i)'
                    /\ pod'.key = p /\ ~pod'.retry => \A i \in DOMAIN podSpec[p] \ pod'.todo : Placed(p, i)'
  BY <1>1, <1>2 DEF PodsPlaced
<1>3. p \notin podQueue /\ pod.key # p => \A i \in DOMAIN podSpec[p] : Placed(p, i)'
  BY <1>1, PlacedKeeps DEF PodsPlaced
<1>4. p \notin podQueue /\ pod.key = p /\ ~pod.retry => \A i \in DOMAIN podSpec[p] \ pod.todo : Placed(p, i)'
  BY <1>1, PlacedKeeps DEF PodsPlaced
<1>5. ASSUME NEW q \in Pods, PodNotFound(q) \/ PodEnded(q) PROVE pod.key # p /\ p \notin podQueue /\ pod'.key # p
  BY <1>1, <1>5 DEF PodNotFound, PodEnded, Typed, PodTyped
<1>6. ASSUME NEW q \in Pods, PodBegin(q)
      PROVE  \/ pod.key # p /\ p \notin podQueue /\ pod'.key # p
             \/ pod'.key = p /\ (~pod'.retry => pod'.todo = DOMAIN podSpec[p])
  <2>1. pod'.key = q /\ (~pod'.retry => pod'.todo = DOMAIN podSpec[q])
    <3>1. PICK known : /\ pod'.key = q /\ pod'.todo = known /\ pod'.retry = (known # DOMAIN podSpec[q])
      BY <1>6 DEF PodBegin
    <3> QED
      BY <3>1
  <2>2. pod.key # p /\ podQueue' = podQueue \ {q}
    BY <1>1, <1>6 DEF PodBegin, Typed, PodTyped
  <2> QED
    BY <2>1, <2>2
<1>7. CASE PodRequeue /\ pod.pc # "idle"
  <2>1. p \notin podQueue /\ pod.key # p /\ pod'.key # p
    BY <1>1, <1>7 DEF PodRequeue
  <2> QED
    BY <1>3, <2>1
<1>8. CASE ~PodRequeue /\ (CheckContainer \/ MoveContainer)
  <2>1. PICK t : t = turn
    OBVIOUS
  <2>2. pod.key = p /\ (\A c \in container.cpus : owner'[c] = container.profile) => Placed(p, t)'
    BY <2>1 DEF container, Placed
  <2> QED
    BY <1>3, <1>4, <1>8, <2>1, <2>2, ContainerStep
<1>9. CASE ~PodRequeue /\ RecordPod
  <2>1. p \notin podQueue /\ pod.todo = {} /\ ~pod.retry /\ pod'.key # p
    BY <1>1, <1>9 DEF RecordPod, PodDone
  <2> QED
    BY <1>3, <1>4, <2>1
<1>10. CASE ~PodRequeue /\ (ReleaseCpus \/ ForgetPod)
  <2>1. p \notin podQueue /\ pod'.key \in {pod.key, "nil"} /\ pod.key # p
    BY <1>1, <1>10 DEF ReleaseCpus, ForgetPod, PodDone, PodsApart, Typed, PodTyped
  <2> QED
    BY <1>1, <1>3, <2>1
<1>11. PodRequeue => pod.pc # "idle" \/ \E q \in Pods : PodNotFound(q) \/ PodBegin(q) \/ PodEnded(q)
  BY DEF RunPod, PodStep, CheckContainer, MoveContainer, RecordPod, ReleaseCpus, ForgetPod
<1> QED
  BY <1>3, <1>5, <1>6, <1>7, <1>8, <1>9, <1>10, <1>11 DEF RunPod, PodStep

LEMMA StepPodsPlaced ==
    ASSUME Typed, ProfilesKeptApart, PodsApart, PodsPlaced, [Next]_vars
    PROVE  PodsPlaced'
<1>1. CASE RunPod
  BY <1>1, PodPlaces
<1>2. CASE Restart
  <2>1. \A p \in Pods : phase'[p] = "running" => p \in podQueue'
    BY <1>2 DEF Restart
  <2> QED
    BY <2>1 DEF PodsPlaced
<1>3. ASSUME ~Restart, UNCHANGED pod,
             \A p \in Pods : phase'[p] = "running" /\ p \notin podQueue' => phase[p] = "running" /\ p \notin podQueue
      PROVE  PodsPlaced'
  <2> SUFFICES ASSUME NEW p \in Pods, phase'[p] = "running", p \notin podQueue'
               PROVE  /\ pod'.key # p => \A i \in DOMAIN podSpec[p] : Placed(p, i)'
                      /\ pod'.key = p /\ ~pod'.retry => \A i \in DOMAIN podSpec[p] \ pod'.todo : Placed(p, i)'
    BY DEF PodsPlaced
  <2>1. phase[p] = "running" /\ p \notin podQueue
    BY <1>3
  <2>2. \A i \in DOMAIN podSpec[p] : Placed(p, i) => Placed(p, i)'
    BY <1>3, <2>1, PlacedKeeps
  <2> QED
    BY <1>3, <2>1, <2>2 DEF PodsPlaced
<1>4. CASE ~Restart /\ (RunProfile \/ RunConfig \/ UNCHANGED vars)
  BY <1>3, <1>4, ProfileFrame, ConfigFrame, StutterFrame DEF cluster
<1>5. CASE ~Restart /\ Environment
  <2>1. phase \in [Pods -> {"none", "running", "done", "gone"}]
    BY DEF Typed, TypeOK
  <2>2. ASSUME NEW p \in Pods, phase'[p] = "running", p \notin podQueue'
        PROVE  phase[p] = "running" /\ p \notin podQueue
    BY <1>5, <2>1, <2>2
    DEF Environment, ApplyProfile, DeleteProfile, Relabel, ApplyConfig, DeleteConfig, StartPod, TouchPod,
        StopPod, RemovePod, CatchUp
  <2> QED
    BY <1>3, <1>5, <2>2, EnvironmentFrame
<1> QED
  BY <1>1, <1>2, <1>4, <1>5 DEF Next, Wait

LEMMA AlwaysPlaced == ASSUME Prompt, PodsUnswitched PROVE Spec => []PodsPlaced
<1>1. Init => PodsPlaced
  BY DEF Init, InitState, PodsPlaced
<1> QED
  BY <1>1, AlwaysTyped, AlwaysApart, AlwaysPodsApart, StepPodsPlaced, PTL DEF Spec

\* When the agent rests with a config in force, every CPU is where the cluster wants it:
\* CPUs of running pods in the pools of their profiles, cores of the entries of the config
\* in theirs, nothing else reserved; a pod's object outlives the reconcile of its end.
THEOREM CpusAreSettled == ASSUME Prompt, PodsUnswitched PROVE Spec => []CpusSettled
<1>1. ASSUME Typed, ActiveFollows, EntriesSoFar, PodsPlaced PROVE CpusSettled
  <2> SUFFICES ASSUME Quiescent, present # {}, NEW c \in CPUs
               PROVE  LET entries == configs[selected].reserved IN
                      /\ \A p \in user(c) : owner[c] = profileOf(p, c)
                      /\ \A e \in entries : c \in e.cores => owner[c] = e.pool
                      /\ owner[c] \in PseudoPools => \E e \in entries : c \in e.cores
                      /\ owner[c] # reserved
    BY DEF CpusSettled
  <2>1. active \in present /\ Reserved(configs[active].reserved)
    BY <1>1, RestFacts DEF ActiveFollows, EntriesSoFar
  <2>2. selected = active
    BY <2>1, RestSelected
  <2>3. ASSUME NEW p \in user(c) PROVE owner[c] = profileOf(p, c)
    <3>1. p \in Pods /\ phase[p] = "running" /\ c \in cpusOf(p)
      BY <2>3 DEF user
    <3>2. PICK k \in containersOf(p) : c \in k.cpus
      BY <3>1 DEF cpusOf
    <3>3. PICK i \in DOMAIN podSpec[p] : k = podSpec[p][i]
      BY <3>1, <3>2, ContainerFacts
    <3>4. Placed(p, i)
      BY <1>1, <3>1, RestFacts DEF PodsPlaced
    <3> QED
      BY <3>1, <3>2, <3>3, <3>4, ProfileOfFacts DEF Placed
  <2> QED
    BY <2>1, <2>2, <2>3 DEF Reserved
<1> QED
  BY <1>1, AlwaysTyped, AlwaysReported, AlwaysEntries, AlwaysPlaced, PTL

-----------------------------------------------------------------------------
(***************************************************************************)
(* Pods: what their entries say                                            *)
(***************************************************************************)

LEMMA EntryTypes ==
    ASSUME Typed
    PROVE  /\ entry \in [Pods -> [cpus: SUBSET CPUs, bad: SUBSET Nat, recorded: BOOLEAN]]
           /\ phase \in [Pods -> {"none", "running", "done", "gone"}]
           /\ ~NoEntry.recorded /\ NoEntry.bad = {} /\ NoEntry.cpus = {}
           /\ pod.pc = "idle" => pod.key \notin Pods
           /\ pod.pc # "idle" => pod.key \in Pods
           /\ podIdle.key \notin Pods /\ podIdle.pc = "idle"
  BY NamesAssumption DEF Typed, TypeOK, PodTyped, podIdle, NoEntry

\* What users and kubelet do to the phases of pods.
LEMMA PhaseSteps ==
    ASSUME Typed, Environment, ~Restart
    PROVE  /\ podQueue \subseteq podQueue'
           /\ \/ UNCHANGED phase
              \/ \E p \in Pods :
                    /\ \A q \in Pods \ {p} : phase'[q] = phase[q]
                    /\ \/ phase[p] = "none" /\ phase'[p] = "running"
                       \/ phase[p] = "running" /\ phase'[p] = "done" /\ p \in podQueue'
                       \/ /\ phase[p] = "done" /\ phase'[p] = "gone"
                          /\ Prompt => p \notin podQueue /\ pod.key # p
<1>1. phase \in [Pods -> {"none", "running", "done", "gone"}]
  BY EntryTypes
<1>2. podQueue \subseteq podQueue'
  BY DEF Environment, ApplyProfile, DeleteProfile, Relabel, ApplyConfig, DeleteConfig, StartPod, TouchPod, StopPod,
         RemovePod, CatchUp
<1>3. ASSUME NEW p \in Pods, StartPod(p) \/ StopPod(p) \/ RemovePod(p)
      PROVE  /\ \A q \in Pods \ {p} : phase'[q] = phase[q]
             /\ \/ phase[p] = "none" /\ phase'[p] = "running"
                \/ phase[p] = "running" /\ phase'[p] = "done" /\ p \in podQueue'
                \/ /\ phase[p] = "done" /\ phase'[p] = "gone"
                   /\ Prompt => p \notin podQueue /\ pod.key # p
  BY <1>1, <1>3 DEF StartPod, StopPod, RemovePod
<1> QED
  BY <1>2, <1>3 DEF Environment, ApplyProfile, DeleteProfile, Relabel, ApplyConfig, DeleteConfig, TouchPod, CatchUp

\* A step of the pod reconciler writes an entry, or leaves all of them alone.
LEMMA EntrySteps ==
    ASSUME Typed, RunPod
    PROVE  \/ UNCHANGED <<entry, cfgQueue>>
           \/ /\ RecordPod /\ pod.key \in Pods /\ pod.todo = {} /\ pod.pc = "check"
              /\ entry' = [entry EXCEPT ![pod.key] = [cpus |-> pod.found, bad |-> pod.bad, recorded |-> TRUE]]
              /\ (~cfgQueue' => ~cfgQueue /\ (UNCHANGED entry \/ ~someConfig \/ faults = "lag"))
           \/ /\ ForgetPod /\ pod.key \in Pods /\ pod.pc = "forget"
              /\ entry' = [entry EXCEPT ![pod.key] = NoEntry]
              /\ (~cfgQueue' => ~cfgQueue /\ (UNCHANGED entry \/ ~someConfig \/ faults = "lag"))
<1>1. ASSUME NEW e, pod.key \in Pods, applyExclusiveStatus(pod.key, e)
      PROVE  /\ entry' = [entry EXCEPT ![pod.key] = e]
             /\ (~cfgQueue' => ~cfgQueue /\ (UNCHANGED entry \/ ~someConfig \/ faults = "lag"))
  <2>1. entry' = [entry EXCEPT ![pod.key] = e]
    BY <1>1 DEF applyExclusiveStatus
  <2>2. entry' # entry <=> entry[pod.key] # e
    BY <1>1, <2>1, EntryTypes
  <2> QED
    BY <1>1, <2>1, <2>2 DEF applyExclusiveStatus, WakesConfig
<1>2. CASE RecordPod
  <2>1. pod.pc = "check" /\ pod.todo = {} /\ pod.key \in Pods
    BY <1>2, EntryTypes DEF RecordPod
  <2> QED
    BY <1>1, <1>2, <2>1 DEF RecordPod
<1>3. CASE ForgetPod
  <2>1. pod.pc = "forget" /\ pod.key \in Pods
    BY <1>3, EntryTypes DEF ForgetPod
  <2> QED
    BY <1>1, <1>3, <2>1 DEF ForgetPod
<1>4. CASE ~RecordPod /\ ~ForgetPod
  BY <1>4 DEF RunPod, PodStep, PodNotFound, PodBegin, PodEnded, CheckContainer, MoveContainer, ReleaseCpus, report
<1> QED
  BY <1>2, <1>3, <1>4

LEMMA StepPodKnown ==
    ASSUME Prompt, Typed, ProfilesKeptApart, PodsApart, PodKnown, [Next]_vars
    PROVE  PodKnown'
<1>1. mayBeShared \subseteq ProfileNames /\ shared \notin mayBeShared /\ reserved \notin mayBeShared
  BY MayBeSharedFacts
<1>2. CASE RunPod
  <2>1. UNCHANGED <<phase, faults>>
    BY <1>2, PodFrame DEF cluster
  <2>2. \A c \in CPUs : owner'[c] \notin mayBeShared
    <3>1. CASE MoveContainer
      <4>1. pod.pc = "move" /\ pod.todo # {}
        BY <3>1 DEF MoveContainer, Typed, PodTyped
      <4>2. container \in containersOf(pod.key) /\ pod.key \in Pods
        BY <4>1, TurnFacts, ContainerFacts DEF container
      <4>3. container.profile \notin mayBeShared
        BY <4>1, <4>2 DEF PodKnown, PodsApart
      <4> QED
        BY <3>1, <4>3, ContainerMoves DEF PodKnown
    <3>2. CASE ReleaseCpus
      BY <1>1, <3>2, ReleaseMoves DEF PodKnown
    <3>3. CASE UNCHANGED owner
      BY <3>3 DEF PodKnown
    <3> QED
      BY <1>2, <3>1, <3>2, <3>3
      DEF RunPod, PodStep, PodNotFound, PodBegin, PodEnded, CheckContainer, RecordPod, ForgetPod, library
  <2>3. \A p \in Pods : entry'[p].recorded \/ entry'[p] = NoEntry
    BY <1>2, EntrySteps, EntryTypes DEF PodKnown
  <2>4. \A p \in Pods : phase[p] = "none" => ~entry'[p].recorded
    BY <1>2, EntrySteps, EntryTypes DEF PodKnown
  <2>5. /\ pod'.pc # "idle" => phase[pod'.key] \in {"running", "done"}
        /\ pod'.pc \in {"check", "move"} /\ phase[pod'.key] = "done" => pod'.key \in podQueue'
        /\ pod'.pc = "release" => pod'.found = entry'[pod'.key].cpus \/ faults = "lag"
    <3>1. CASE PodRequeue \/ PodDone
      BY <3>1, EntryTypes DEF PodRequeue, PodDone
    <3>2. ASSUME NEW p \in Pods, PodNotFound(p) PROVE <2>5!:
      BY <3>2 DEF PodNotFound, Typed, PodTyped, podIdle
    <3>3. ASSUME NEW p \in Pods, PodBegin(p) PROVE <2>5!:
      <4>1. pod'.pc = "check" /\ pod'.key = p /\ phase[p] = "running"
        BY <3>3 DEF PodBegin
      <4> QED
        BY <4>1
    <3>4. ASSUME NEW p \in Pods, PodEnded(p) PROVE <2>5!:
      <4>1. pod'.pc = "release" /\ pod'.key = p /\ phase[p] = "done" /\ pod'.found = cached.entry[p].cpus
        BY <3>4 DEF PodEnded, Typed, PodTyped
      <4>2. cached.entry[p].cpus = entry[p].cpus \/ faults = "lag"
        BY DEF cached, latest
      <4> QED
        BY <3>4, <4>1, <4>2 DEF PodEnded, report
    <3>5. CASE ~PodRequeue /\ (CheckContainer \/ MoveContainer)
      BY <3>5, ContainerStep DEF PodKnown
    <3>6. CASE ~PodRequeue /\ ReleaseCpus
      BY <3>6 DEF ReleaseCpus, PodsApart, Typed, PodTyped
    <3> QED
      BY <1>2, <3>1, <3>2, <3>3, <3>4, <3>5, <3>6 DEF RunPod, PodStep, RecordPod, ForgetPod
  <2> QED
    BY <2>1, <2>2, <2>3, <2>4, <2>5 DEF PodKnown
<1>3. CASE RunProfile \/ RunConfig \/ UNCHANGED vars
  <2>1. UNCHANGED <<phase, pod, podQueue, entry, faults>>
    BY <1>3, ProfileFrame, ConfigFrame, StutterFrame DEF cluster
  <2>2. \A c \in CPUs : owner'[c] \notin mayBeShared
    BY <1>1, <1>3, ProfileOwners, ConfigOwners, StutterFrame DEF PodKnown
  <2> QED
    BY <2>1, <2>2 DEF PodKnown
<1>4. CASE Restart
  BY <1>1, <1>4 DEF Restart, podIdle, report, PodKnown
<1>5. CASE Environment /\ ~Restart
  <2>1. UNCHANGED <<pod, entry, owner, faults>>
    BY <1>5, EnvironmentFrame
  <2>2. pod.pc # "idle" => pod.key \in Pods
    BY EntryTypes
  <2> QED
    BY <1>5, <2>1, <2>2, PhaseSteps DEF PodKnown
<1> QED
  BY <1>2, <1>3, <1>4, <1>5 DEF Next, Wait

LEMMA AlwaysPodKnown == ASSUME Prompt, PodsUnswitched PROVE Spec => []PodKnown
<1>1. Init => PodKnown
  BY SharedAssumption, PoolFacts DEF Init, InitState, podIdle, NoEntry, PodKnown, mayBeShared
<1> QED
  BY <1>1, AlwaysTyped, AlwaysApart, AlwaysPodsApart, StepPodKnown, PTL DEF Spec

LEMMA CalmSteps ==
    ASSUME [Next]_vars
    PROVE  faults' = faults /\ (calm' <=> calm) /\ (calm \/ faults = "lag" => ~Restart /\ ~RequestsFail)
<1>1. faults' = faults
  BY ProfileFrame, ConfigFrame, PodFrame, EnvironmentFrame, StutterFrame
  DEF Next, Wait, cluster, Restart, Edit
<1> QED
  BY <1>1 DEF calm, Restart, RequestsFail

LEMMA StepEntriesTell ==
    ASSUME Typed, ProfilesKeptApart, PodsApart, PodKnown, EntriesTell, [Next]_vars
    PROVE  EntriesTell'
<1> SUFFICES ASSUME calm, ~Restart, ~RequestsFail
             PROVE  EntriesTell'
  BY CalmSteps DEF EntriesTell
<1>1. ASSUME NEW p \in Pods, phase[p] = "running", entry[p].recorded, entry[p].bad = {}
      PROVE  \A i \in DOMAIN podSpec[p] : Placed(p, i)'
  BY <1>1, PlacedKeeps DEF EntriesTell
<1>2. pod.pc \in {"check", "move"} => (pod.retry <=> pod.bad # {})
  BY DEF EntriesTell
<1>3. pod.pc \in {"check", "move"} /\ phase[pod.key] = "running" /\ ~pod.retry =>
         \A i \in DOMAIN podSpec[pod.key] \ pod.todo : \A c \in podSpec[pod.key][i].cpus :
            owner'[c] = podSpec[pod.key][i].profile
  <2> SUFFICES ASSUME pod.pc \in {"check", "move"}, phase[pod.key] = "running", ~pod.retry
               PROVE  \A i \in DOMAIN podSpec[pod.key] \ pod.todo : \A c \in podSpec[pod.key][i].cpus :
                         owner'[c] = podSpec[pod.key][i].profile
    OBVIOUS
  <2>1. PICK p \in Pods : p = pod.key
    BY EntryTypes
  <2>2. \A i \in DOMAIN podSpec[p] \ pod.todo : Placed(p, i)
    BY <2>1 DEF EntriesTell
  <2>3. \A i \in DOMAIN podSpec[p] \ pod.todo : Placed(p, i)'
    BY <2>1, <2>2, PlacedKeeps
  <2> QED
    BY <2>1, <2>3 DEF Placed
<1>4. ASSUME \A p \in Pods : phase'[p] = "running" /\ entry'[p].recorded /\ entry'[p].bad = {} =>
                \A i \in DOMAIN podSpec[p] : Placed(p, i)',
             pod'.pc \in {"check", "move"} => (pod'.retry <=> pod'.bad # {}),
             pod'.pc \in {"check", "move"} /\ phase'[pod'.key] = "running" /\ ~pod'.retry =>
                \A i \in DOMAIN podSpec[pod'.key] \ pod'.todo : \A c \in podSpec[pod'.key][i].cpus :
                   owner'[c] = podSpec[pod'.key][i].profile
      PROVE  EntriesTell'
  BY <1>4 DEF EntriesTell, Placed
<1>5. CASE ~RunPod
  <2>1. UNCHANGED <<pod, entry>>
    BY <1>5, ProfileFrame, ConfigFrame, EnvironmentFrame, StutterFrame DEF Next, Wait
  <2>2. \A p \in Pods : phase'[p] = "running" => phase[p] \in {"running", "none"}
    BY <1>5, ProfileFrame, ConfigFrame, PhaseSteps, StutterFrame DEF Next, Wait, cluster
  <2>3. \A p \in Pods : phase'[p] = "running" /\ entry[p].recorded => phase[p] = "running"
    BY <2>2 DEF PodKnown
  <2>4. pod.pc # "idle" /\ phase'[pod.key] = "running" => phase[pod.key] = "running"
    BY <2>2, EntryTypes DEF PodKnown
  <2> QED
    BY <1>1, <1>2, <1>3, <1>4, <2>1, <2>3, <2>4
<1>6. CASE RunPod
  <2>1. UNCHANGED phase
    BY <1>6, PodFrame DEF cluster
  <2>2. \A p \in Pods : phase[p] = "running" /\ entry'[p].recorded /\ entry'[p].bad = {} =>
           \A i \in DOMAIN podSpec[p] : Placed(p, i)'
    <3> SUFFICES ASSUME NEW p \in Pods, phase[p] = "running", entry'[p].recorded, entry'[p].bad = {}
                 PROVE  \A i \in DOMAIN podSpec[p] : Placed(p, i)'
      OBVIOUS
    <3>1. CASE entry'[p] = entry[p]
      BY <1>1, <3>1
    <3>2. CASE pod.key = p /\ pod.todo = {} /\ pod.pc = "check" /\ entry'[p].bad = pod.bad
      BY <1>2, <1>3, <3>2 DEF Placed
    <3> QED
      BY <1>6, <3>1, <3>2, EntrySteps, EntryTypes
  <2>3. CASE pod'.pc \notin {"check", "move"}
    BY <1>4, <2>1, <2>2, <2>3
  <2>4. ASSUME NEW p \in Pods, PodBegin(p) PROVE EntriesTell'
    <3>1. PICK A \in SUBSET DOMAIN podSpec[p] :
             /\ pod'.key = p /\ pod'.todo = A /\ pod'.bad = DOMAIN podSpec[p] \ A
             /\ pod'.retry = (A # DOMAIN podSpec[p])
      BY <2>4 DEF PodBegin
    <3> QED
      BY <1>4, <2>1, <2>2, <3>1
  <2>5. CASE ~PodRequeue /\ (CheckContainer \/ MoveContainer)
    <3>1. /\ pod'.key = pod.key /\ pod.pc \in {"check", "move"}
          /\ \/ pod'.retry /\ pod'.bad # {}
             \/ pod'.retry = pod.retry /\ pod'.bad = pod.bad /\ pod'.todo = pod.todo
             \/ /\ pod'.retry = pod.retry /\ pod'.bad = pod.bad /\ pod'.todo = pod.todo \ {turn}
                /\ \A c \in podSpec[pod.key][turn].cpus : owner'[c] = podSpec[pod.key][turn].profile
      BY <2>5, ContainerStep DEF container
    <3> QED
      BY <1>2, <1>3, <1>4, <2>1, <2>2, <3>1
  <2>6. \/ pod'.pc \notin {"check", "move"}
        \/ \E p \in Pods : PodBegin(p)
        \/ ~PodRequeue /\ (CheckContainer \/ MoveContainer)
    BY <1>6, EntryTypes
    DEF RunPod, PodStep, PodNotFound, PodEnded, PodRequeue, PodDone, RecordPod, ReleaseCpus, ForgetPod,
        Typed, PodTyped
  <2> QED
    BY <2>3, <2>4, <2>5, <2>6
<1> QED
  BY <1>5, <1>6

LEMMA AlwaysEntriesTell == ASSUME Prompt, PodsUnswitched PROVE Spec => []EntriesTell
<1>1. Init => EntriesTell
  BY DEF Init, InitState, podIdle, EntriesTell
<1> QED
  BY <1>1, AlwaysTyped, AlwaysApart, AlwaysPodsApart, AlwaysPodKnown, StepEntriesTell, PTL DEF Spec

-----------------------------------------------------------------------------
(***************************************************************************)
(* PowerNodeState: the list of shared CPUs                                 *)
(***************************************************************************)

\* The config reconciler comes to rest right after it wrote the list.
LEMMA ConfigSharedFollows ==
    ASSUME Typed, ActiveFollows, RunConfig
    PROVE  SharedFollows'
<1> SUFFICES ASSUME ~cfgQueue', cfg'.pc = "idle", present # {}
             PROVE  \A c \in CPUs : c \in sharedStatus' <=> owner'[c] = shared
  BY ConfigFrame DEF SharedFollows, present, cluster
<1>1. "idle" \notin applyPCs
  BY DEF applyPCs
<1>2. ReportPools /\ sharedStatus' = cpusIn(shared)
  <2>1. ~ForgetPools
    BY DEF ForgetPools, ActiveFollows, Finish
  <2>2. ~NothingToApply
    BY DEF NothingToApply
  <2>3. ~BeginApply /\ ~BeginCleanup
    BY DEF BeginApply, BeginCleanup, Typed, CfgTyped
  <2>4. ReportPools
    BY <1>1, <2>1, <2>2, <2>3, ConfigSteps
  <2> QED
    BY <2>4 DEF ReportPools, Finish, updatePowerNodeStatusPools
<1>3. sharedStatus' = cpusIn(shared) /\ UNCHANGED owner
  BY <1>2 DEF ReportPools, updatePowerNodeStatusPools, library
<1> QED
  BY <1>3 DEF cpusIn

\* Until an entry changes, the pod reconciler does not lose sight of a pod whose CPUs are
\* listed wrongly.
LEMMA PodWillReport ==
    ASSUME Typed, PodsApart, PodKnown, EntriesTell, calm, ~RequestsFail, RunPod, UNCHANGED entry,
           NEW p \in Pods, WillReport(p)
    PROVE  WillReport(p)'
<1>1. UNCHANGED phase
  BY PodFrame DEF cluster
<1>2. CASE ~entry[p].recorded /\ pod.key = p /\ pod.pc = "check" /\ pod.todo = {}
  <2>1. RecordPod
    BY <1>2 DEF RunPod, PodStep, PodNotFound, PodBegin, PodEnded, CheckContainer, MoveContainer, ReleaseCpus,
                ForgetPod
  <2>2. entry' = [entry EXCEPT ![p] = [cpus |-> pod.found, bad |-> pod.bad, recorded |-> TRUE]]
    BY <1>2, <2>1 DEF RecordPod, applyExclusiveStatus
  <2> QED
    BY <1>2, <2>2, EntryTypes
<1>3. CASE /\ entry[p].recorded /\ phase[p] \in {"running", "done"}
           /\ p \in podQueue \/ pod.key = p
           /\ entry[p].bad # {} \/ phase[p] = "done"
  <2>1. p \in podQueue' \/ pod'.key = p
    <3>1. CASE PodRequeue
      BY <1>3, <3>1 DEF PodRequeue
    <3>2. ASSUME NEW q \in Pods, PodNotFound(q) \/ PodEnded(q) PROVE p \in podQueue' \/ pod'.key = p
      BY <1>3, <3>2, EntryTypes DEF PodNotFound, PodEnded, Typed, PodTyped
    <3>3. ASSUME NEW q \in Pods, PodBegin(q) PROVE p \in podQueue' \/ pod'.key = p
      <4>1. pod'.key = q /\ podQueue' = podQueue \ {q} /\ pod.key # p
        BY <3>3, EntryTypes DEF PodBegin
      <4> QED
        BY <1>3, <4>1
    <3>4. CASE ~PodRequeue /\ (CheckContainer \/ MoveContainer)
      BY <1>3, <3>4, ContainerStep
    <3>5. CASE ~PodRequeue /\ ReleaseCpus
      BY <1>3, <3>5 DEF ReleaseCpus, Typed, PodTyped
    <3>6. CASE ~PodRequeue /\ RecordPod
      <4>1. /\ pod.pc = "check" /\ ~pod.retry /\ UNCHANGED podQueue
            /\ entry' = [entry EXCEPT ![pod.key] = [cpus |-> pod.found, bad |-> pod.bad, recorded |-> TRUE]]
        BY <3>6 DEF RecordPod, applyExclusiveStatus, PodDone
      <4>2. pod.bad = {}
        BY <4>1 DEF EntriesTell
      <4>3. pod.key = p => entry[p].bad = {}
        BY <4>1, <4>2, EntryTypes
      <4> QED
        BY <1>3, <4>1, <4>3 DEF PodKnown
    <3>7. CASE ~PodRequeue /\ ForgetPod
      <4>1. UNCHANGED podQueue /\ entry' = [entry EXCEPT ![pod.key] = NoEntry]
        BY <3>7 DEF ForgetPod, applyExclusiveStatus, PodDone
      <4> QED
        BY <1>3, <4>1, EntryTypes
    <3> QED
      BY <3>1, <3>2, <3>3, <3>4, <3>5, <3>6, <3>7 DEF RunPod, PodStep
  <2> QED
    BY <1>1, <1>3, <2>1 DEF WillReport
<1> QED
  BY <1>2, <1>3 DEF WillReport

\* A CPU that moves to or from the shared pool belongs to a pod that will be reported.
LEMMA PodMovesReport ==
    ASSUME OneContainer, Typed, PodsApart, PodKnown, EntriesTell, calm, RunPod, UNCHANGED entry,
           NEW c \in CPUs, owner'[c] # owner[c]
    PROVE  \E p \in Pods : c \in cpusOf(p) /\ WillReport(p)'
<1>1. UNCHANGED phase
  BY PodFrame DEF cluster
<1>2. pod.key \in Pods /\ c \in cpusOf(pod.key)
  BY PodOwners
<1>3. PICK p \in Pods : p = pod.key
  BY <1>2
<1>4. entry[p].recorded \/ entry[p] = NoEntry
  BY DEF PodKnown
<1>5. CASE MoveContainer
  <2>1. pod.pc = "move" /\ pod.todo # {} /\ UNCHANGED podQueue
    BY <1>5 DEF MoveContainer, Typed, PodTyped
  <2>2. phase[p] \in {"running", "done"} /\ (phase[p] = "done" => p \in podQueue)
    BY <1>3, <2>1 DEF PodKnown
  <2>3. turn \in DOMAIN podSpec[p] /\ pod.todo \subseteq DOMAIN podSpec[p] /\ turn \in pod.todo
    BY <1>3, <2>1, TurnFacts DEF Typed, PodTyped
  <2>4. pod'.key = p /\ pod'.pc = "check" /\ pod'.todo = {}
    <3>1. pod'.key = p /\ pod'.pc = "check" /\ pod'.todo = pod.todo \ {turn}
      BY <1>3, <1>5, ContainerMoves DEF FailedContainer, remaining, Typed, PodTyped
    <3> QED
      BY <2>3, <3>1 DEF OneContainer
  <2>5. entry[p].recorded /\ entry[p].bad = {} => phase[p] # "running"
    <3> SUFFICES ASSUME entry[p].recorded, entry[p].bad = {}, phase[p] = "running"
                 PROVE  FALSE
      OBVIOUS
    <3>1. Placed(p, turn)
      BY <2>3 DEF EntriesTell
    <3>2. c \in container.cpus /\ owner[c] = shared /\ owner'[c] = container.profile
      BY <1>5, ContainerMoves
    <3>3. owner[c] = container.profile
      BY <1>3, <3>1, <3>2 DEF Placed, container
    <3> QED
      BY <3>2, <3>3
  <2>6. WillReport(p)'
    BY <1>1, <1>4, <2>2, <2>4, <2>5, EntryTypes DEF WillReport
  <2> QED
    BY <1>2, <1>3, <2>6
<1>6. CASE ReleaseCpus
  <2>1. pod.pc = "release" /\ phase[p] = "done" /\ (pod'.key = p \/ p \in podQueue')
    BY <1>3, <1>6 DEF ReleaseCpus, PodRequeue, PodsApart, Typed, PodTyped
  <2>2. c \in pod.found
    <3>1. PICK S \in SUBSET CPUs : S = pod.found
      BY DEF Typed, PodTyped
    <3>2. MoveCPUs(S, shared) \/ MoveCPUsFails(S, shared)
      BY <1>6, <3>1 DEF ReleaseCpus, MoveCPUs, MoveCPUsFails
    <3>3. c \in S
      BY <3>2, MoveFacts, PoolFacts DEF Typed, TypeOK
    <3> QED
      BY <3>1, <3>3
  <2>3. entry[p].recorded
    BY <1>3, <1>4, <2>1, <2>2, EntryTypes DEF PodKnown, calm
  <2>4. WillReport(p)'
    BY <1>1, <2>1, <2>3 DEF WillReport
  <2> QED
    BY <1>2, <1>3, <2>4
<1>7. CASE UNCHANGED owner
  BY <1>7
<1> QED
  BY <1>5, <1>6, <1>7
  DEF RunPod, PodStep, PodNotFound, PodBegin, PodEnded, CheckContainer, RecordPod, ForgetPod, library

LEMMA StepSharedFollows ==
    ASSUME Prompt, OneContainer, Typed, ProfilesKeptApart, PodsApart, PodKnown, EntriesTell, ActiveFollows,
           SharedFollows, [Next]_vars
    PROVE  SharedFollows'
<1>1. CASE RunConfig
  BY <1>1, ConfigSharedFollows
<1>2. CASE ~RunConfig
  <2> SUFFICES ASSUME calm, ~Restart, ~RequestsFail, ~cfgQueue', cfg'.pc = "idle", present' # {}
               PROVE  \A c \in CPUs : \/ c \in sharedStatus' <=> owner'[c] = shared
                                      \/ \E p \in Pods : c \in cpusOf(p) /\ WillReport(p)'
    BY CalmSteps DEF SharedFollows
  <2>1. ASSUME ~cfgQueue, present # {}, UNCHANGED <<cfg, sharedStatus>>,
               \A p \in Pods : WillReport(p) => WillReport(p)',
               NEW c \in CPUs, owner'[c] = owner[c] \/ \E p \in Pods : c \in cpusOf(p) /\ WillReport(p)'
        PROVE  \/ c \in sharedStatus' <=> owner'[c] = shared
               \/ \E p \in Pods : c \in cpusOf(p) /\ WillReport(p)'
    BY <2>1 DEF SharedFollows
  <2>2. CASE RunPod
    <3>1. UNCHANGED <<cfg, sharedStatus, configs>>
      BY <2>2, PodFrame DEF cluster
    <3>2. someConfig /\ present # {}
      BY <3>1 DEF someConfig, present
    <3>3. ~cfgQueue /\ UNCHANGED entry
      BY <2>2, <3>2, EntrySteps DEF calm
    <3>4. \A p \in Pods : WillReport(p) => WillReport(p)'
      BY <2>2, <3>3, PodWillReport
    <3>5. \A c \in CPUs : owner'[c] = owner[c] \/ \E p \in Pods : c \in cpusOf(p) /\ WillReport(p)'
      BY <2>2, <3>3, PodMovesReport
    <3> QED
      BY <2>1, <3>1, <3>2, <3>3, <3>4, <3>5
  <2>3. CASE RunProfile
    <3>1. UNCHANGED <<cfg, sharedStatus, configs, cfgQueue, entry, pod, phase, podQueue>>
      BY <2>3, ProfileFrame DEF cluster
    <3>2. \A c \in CPUs : owner'[c] = owner[c]
      BY <2>3, ProfileOwners, MayBeSharedFacts DEF PodKnown, ProfilesKeptApart
    <3>3. \A p \in Pods : WillReport(p) => WillReport(p)'
      BY <3>1 DEF WillReport
    <3> QED
      BY <2>1, <3>1, <3>2, <3>3 DEF present
  <2>4. CASE Environment
    <3>1. UNCHANGED <<owner, cfg, sharedStatus, entry, pod>>
      BY <2>4, EnvironmentFrame
    <3>2. cfgQueue' \/ (UNCHANGED configs /\ (~cfgQueue' => ~cfgQueue))
      BY <2>4 DEF Environment, ApplyProfile, DeleteProfile, Relabel, ApplyConfig, DeleteConfig,
                  StartPod, TouchPod, StopPod, RemovePod, CatchUp
    <3>3. ASSUME NEW p \in Pods, WillReport(p) PROVE WillReport(p)'
      BY <2>4, <3>1, <3>3, PhaseSteps DEF WillReport
    <3> QED
      BY <2>1, <3>1, <3>2, <3>3 DEF present
  <2>5. CASE UNCHANGED vars
    <3>1. UNCHANGED <<cfg, sharedStatus, configs, cfgQueue, entry, pod, phase, podQueue, owner>>
      BY <2>5, StutterFrame
    <3>2. \A p \in Pods : WillReport(p) => WillReport(p)'
      BY <3>1 DEF WillReport
    <3> QED
      BY <2>1, <3>1, <3>2 DEF present
  <2> QED
    BY <1>2, <2>2, <2>3, <2>4, <2>5 DEF Next, Wait
<1> QED
  BY <1>1, <1>2

\* When the agent rests, PowerNodeState names the config in force and lists the CPUs of the
\* shared pool, if pods have one container: with more, one that was moved while another
\* waits is not recorded, and its pod may end without anybody being woken.
THEOREM SharedStatusIsFresh == ASSUME Prompt, OneContainer, PodsUnswitched PROVE Spec => []SharedStatusFresh
<1>1. Init => SharedFollows
  <2>1. Init => cfgQueue \/ present = {}
    BY DEF Init, InitState, someConfig, present
  <2> QED
    BY <2>1 DEF SharedFollows
<1>2. ASSUME Typed, ActiveFollows, SharedFollows PROVE SharedStatusFresh
  <2> SUFFICES ASSUME Quiescent, present # {}
               PROVE  active = selected /\ (calm => sharedStatus = cpusIn(shared))
    BY DEF SharedStatusFresh, calm
  <2>1. active = selected
    BY <1>2, RestFacts, RestSelected DEF ActiveFollows
  <2>2. \A p \in Pods : ~WillReport(p)
    BY <1>2, RestFacts DEF WillReport
  <2>3. sharedStatus \subseteq CPUs
    BY <1>2 DEF Typed, TypeOK
  <2> QED
    BY <1>2, <2>1, <2>2, <2>3, RestFacts DEF SharedFollows, cpusIn
<1> QED
  BY <1>1, <1>2, AlwaysTyped, AlwaysApart, AlwaysPodsApart, AlwaysPodKnown, AlwaysEntriesTell, AlwaysReported,
     StepSharedFollows, PTL DEF Spec

-----------------------------------------------------------------------------
(***************************************************************************)
(* Pods: CPUs are given back                                               *)
(***************************************************************************)

\* The webhook keeps the profile of a pod that runs, and nobody removes its pool.
LEMMA AvailableKept ==
    ASSUME ~MayUnmatch, Typed, ProfilesKeptApart, PodsApart, [Next]_vars, ~Restart,
           NEW p \in Pods, NEW i \in DOMAIN podSpec[p], phase[p] = "running",
           ProfileAvailable(podSpec[p][i].profile)
    PROVE  ProfileAvailable(podSpec[p][i].profile)'
<1>1. PICK f \in ProfileNames : f = podSpec[p][i].profile
  BY ContainerFacts
<1>2. f \notin mayBeShared
  BY <1>1, ContainerFacts DEF PodsApart
<1>3. f \in exclusive /\ cr[f].state \in {"valid", "invalid"}
  BY <1>1 DEF ProfileAvailable
<1>4. f \in exclusive'
  <2>1. CASE RunProfile
    <3>1. CASE DropPool
      BY <1>2, <1>3, <2>1, <3>1, ProfileLeavesOthers, MayBeSharedFacts DEF DropPool, ProfilesKeptApart
    <3>2. CASE CreatePool
      BY <1>3, <3>2 DEF CreatePool, AddExclusivePool
    <3>3. CASE UNCHANGED exclusive
      BY <1>3, <3>3
    <3> QED
      BY <2>1, <3>1, <3>2, <3>3
      DEF RunProfile, ProfileStep, ProfileBegin, RejectProfile, FirstProfile, UpdatePool, CheckShared,
          UpdateShared, UpdatePseudo, PseudoDone, OfferResource, ReportProfile, ClearShared, WithdrawResource,
          UnreportProfile, stateVars, library
  <2>2. CASE RunConfig
    BY <1>3, <2>2, ConfigLeavesProfiles
  <2>3. CASE RunPod \/ Environment \/ UNCHANGED vars
    BY <1>3, <2>3, PodFrame, EnvironmentFrame, StutterFrame
  <2> QED
    BY <2>1, <2>2, <2>3 DEF Next, Wait
<1>5. cr'[f].state \in {"valid", "invalid"}
  <2>1. CASE Environment
    <3>1. cr \in [ProfileNames -> [ver: 1..MaxVersion, state: CRStates, shared: BOOLEAN]]
      BY DEF Typed, TypeOK
    <3>2. referenced(f)
      BY <1>1, ContainerFacts DEF referenced
    <3>3. ASSUME NEW g \in ProfileNames, NEW t \in CRStates, NEW s \in BOOLEAN, ApplyProfile(g, t, s)
          PROVE  cr'[f].state \in {"valid", "invalid"}
      BY <1>3, <3>1, <3>3 DEF ApplyProfile
    <3>4. ASSUME NEW g \in ProfileNames, DeleteProfile(g) PROVE cr'[f].state \in {"valid", "invalid"}
      <4>1. f # g
        BY <3>2, <3>4 DEF DeleteProfile
      <4> QED
        BY <1>3, <3>1, <3>4, <4>1 DEF DeleteProfile
    <3>5. CASE UNCHANGED cr
      BY <1>3, <3>5
    <3> QED
      BY <2>1, <3>3, <3>4, <3>5
      DEF Environment, Relabel, ApplyConfig, DeleteConfig, StartPod, TouchPod, StopPod, RemovePod, CatchUp
  <2>2. CASE RunProfile \/ RunConfig \/ RunPod \/ UNCHANGED vars
    BY <1>3, <2>2, ProfileFrame, ConfigFrame, PodFrame, StutterFrame DEF cluster
  <2> QED
    BY <2>1, <2>2 DEF Next, Wait
<1> QED
  BY <1>1, <1>4, <1>5 DEF ProfileAvailable

LEMMA StepTodoFound ==
    ASSUME Typed, ProfilesKeptApart, PodsApart, PodKnown, TodoFound, [Next]_vars
    PROVE  TodoFound'
<1>1. CASE Restart
  BY <1>1 DEF Restart, podIdle, TodoFound
<1>2. ASSUME ~Restart, pod.pc \in {"check", "move"}, pod'.key = pod.key, pod'.found = pod.found,
             pod'.todo \subseteq pod.todo
      PROVE  TodoFound'
  <2>1. PICK p \in Pods : p = pod.key
    BY <1>2, EntryTypes
  <2>2. phase[p] \in {"running", "done"} /\ pod.todo \subseteq DOMAIN podSpec[p]
    BY <1>2, <2>1 DEF PodKnown, Typed, PodTyped
  <2>3. phase'[p] = "running" => phase[p] = "running"
    BY <1>2, <2>2, PhaseSteps, ProfileFrame, ConfigFrame, PodFrame, StutterFrame DEF Next, Wait, cluster
  <2>4. \A i \in pod.todo : ~MayUnmatch /\ phase'[p] = "running" => ProfileAvailable(podSpec[p][i].profile)'
    BY <1>2, <2>1, <2>2, <2>3, AvailableKept DEF TodoFound
  <2> QED
    BY <1>2, <2>1, <2>4 DEF TodoFound, ProfileAvailable
<1>3. ASSUME NEW p \in Pods, PodBegin(p) PROVE TodoFound'
  <2>1. PICK A \in SUBSET {i \in DOMAIN podSpec[p] : ProfileAvailable(podSpec[p][i].profile)} :
           pod'.key = p /\ pod'.todo = A /\ pod'.found = UNION {podSpec[p][i].cpus : i \in A}
    BY <1>3 DEF PodBegin
  <2>2. UNCHANGED <<cr, exclusive>>
    BY <1>3 DEF PodBegin, library, cluster
  <2>3. \A i \in A : podSpec[p][i].cpus \subseteq pod'.found
    BY <2>1
  <2>4. \A i \in A : ProfileAvailable(podSpec[p][i].profile)'
    BY <2>1, <2>2 DEF ProfileAvailable
  <2> QED
    BY <2>1, <2>3, <2>4 DEF TodoFound, ProfileAvailable
<1>4. CASE ~Restart /\ ~PodRequeue /\ (CheckContainer \/ MoveContainer)
  BY <1>2, <1>4, ContainerStep
<1>5. CASE pod'.pc \notin {"check", "move"}
  BY <1>5 DEF TodoFound
<1>6. CASE ~RunPod /\ ~Restart
  BY <1>2, <1>5, <1>6, ProfileFrame, ConfigFrame, EnvironmentFrame, StutterFrame DEF Next, Wait
<1>7. RunPod => \/ pod'.pc \notin {"check", "move"}
                \/ \E p \in Pods : PodBegin(p)
                \/ ~PodRequeue /\ (CheckContainer \/ MoveContainer)
  BY EntryTypes
  DEF RunPod, PodStep, PodNotFound, PodEnded, PodRequeue, PodDone, RecordPod, ReleaseCpus, ForgetPod,
      Typed, PodTyped
<1> QED
  BY <1>1, <1>3, <1>4, <1>5, <1>6, <1>7

LEMMA AlwaysTodoFound == ASSUME Prompt, PodsUnswitched PROVE Spec => []TodoFound
<1>1. Init => TodoFound
  BY DEF Init, podIdle, TodoFound
<1> QED
  BY <1>1, AlwaysTyped, AlwaysApart, AlwaysPodsApart, AlwaysPodKnown, StepTodoFound, PTL DEF Spec

\* The pod that holds a CPU goes on holding it until the CPU is given back.
LEMMA PodHolds ==
    ASSUME Typed, PodsApart, PodKnown, ~RequestsFail, RunPod,
           NEW p \in Pods, NEW i \in DOMAIN podSpec[p], NEW c \in CPUs, Held(p, i, c),
           phase[p] = "running" => ProfileAvailable(podSpec[p][i].profile)', owner'[c] = owner[c]
    PROVE  Held(p, i, c)' \/ p \in missed'
<1>1. UNCHANGED phase /\ owner[c] \in ProfileNames /\ podSpec[p][i].profile \in ProfileNames
  BY PodFrame, ContainerFacts DEF cluster, Held
<1>2. ASSUME c \in entry'[p].cpus \/ (pod'.key = p /\ pod'.pc = "check" /\ pod'.todo = {}),
             pod'.key = p => pod'.pc \in {"check", "move", "release"} /\ c \in pod'.found,
             phase[p] = "done" => p \in podQueue' \/ (pod'.key = p /\ pod'.pc = "release")
      PROVE  Held(p, i, c)'
  BY <1>1, <1>2 DEF Held
<1>3. /\ phase[p] \in {"running", "done"} /\ c \in podSpec[p][i].cpus
      /\ phase[p] = "running" => ProfileAvailable(podSpec[p][i].profile)
      /\ c \in entry[p].cpus \/ (pod.key = p /\ pod.pc = "check" /\ pod.todo = {})
      /\ pod.key = p => pod.pc \in {"check", "move", "release"} /\ c \in pod.found
      /\ phase[p] = "done" => p \in podQueue \/ (pod.key = p /\ pod.pc = "release")
  BY DEF Held
<1>4. ASSUME NEW q \in Pods, PodNotFound(q) PROVE Held(p, i, c)'
  BY <1>2, <1>3, <1>4, EntryTypes DEF PodNotFound, report
<1>5. ASSUME NEW q \in Pods, PodBegin(q) PROVE Held(p, i, c)'
  <2>1. pod.pc = "idle" /\ phase[q] = "running" /\ podQueue' = podQueue \ {q} /\ UNCHANGED entry
    BY <1>5 DEF PodBegin, report
  <2>2. pod'.key = q /\ pod'.pc = "check"
    BY <1>5 DEF PodBegin
  <2>3. c \in entry[p].cpus /\ pod.key # p
    BY <1>3, <2>1, EntryTypes
  <2>4. q = p => c \in pod'.found
    <3> SUFFICES ASSUME q = p PROVE c \in pod'.found
      OBVIOUS
    <3>1. pod'.found = UNION {podSpec[p][j].cpus : j \in {k \in DOMAIN podSpec[p] : ProfileAvailable(podSpec[p][k].profile)}}
      BY <1>5 DEF PodBegin
    <3> QED
      BY <1>3, <2>1, <3>1
  <2> QED
    BY <1>2, <1>3, <2>1, <2>2, <2>3, <2>4
<1>6. ASSUME NEW q \in Pods, PodEnded(q) PROVE Held(p, i, c)' \/ p \in missed'
  <2>1. pod.pc = "idle" /\ podQueue' = podQueue \ {q} /\ UNCHANGED entry
    BY <1>6 DEF PodEnded, report
  <2>2. pod'.key = q /\ pod'.pc = "release" /\ (pod'.found = entry[q].cpus \/ q \in missed')
    BY <1>6 DEF PodEnded, Typed, PodTyped
  <2>3. c \in entry[p].cpus /\ pod.key # p
    BY <1>3, <2>1, EntryTypes
  <2> QED
    BY <1>2, <1>3, <2>1, <2>2, <2>3
<1>7. CASE CheckContainer \/ MoveContainer
  <2>1. UNCHANGED entry /\ pod.todo # {} /\ pod.pc \in {"check", "move"}
    BY <1>7 DEF CheckContainer, MoveContainer, report, Typed, PodTyped
  <2>2. CASE PodRequeue
    BY <1>2, <1>3, <2>1, <2>2, EntryTypes DEF PodRequeue
  <2>3. CASE ~PodRequeue
    BY <1>2, <1>3, <1>7, <2>1, <2>3, ContainerStep
  <2> QED
    BY <2>2, <2>3
<1>8. CASE RecordPod
  <2>1. pod.pc = "check" /\ pod.key \in Pods
    BY <1>8, EntryTypes DEF RecordPod
  <2>2. /\ entry' = [entry EXCEPT ![pod.key] = [cpus |-> pod.found, bad |-> pod.bad, recorded |-> TRUE]]
        /\ pod' = podIdle /\ podQueue \subseteq podQueue'
    BY <1>8 DEF RecordPod, applyExclusiveStatus, PodRequeue, PodDone
  <2>3. c \in entry'[p].cpus
    BY <1>3, <2>1, <2>2, EntryTypes
  <2> QED
    BY <1>2, <1>3, <2>1, <2>2, <2>3, EntryTypes
<1>9. CASE ReleaseCpus
  <2>1. pod.pc = "release" /\ UNCHANGED entry
    BY <1>9 DEF ReleaseCpus, report
  <2>2. CASE PodRequeue
    BY <1>2, <1>3, <2>1, <2>2, EntryTypes DEF PodRequeue
  <2>3. CASE MoveCPUs(pod.found, shared) /\ UNCHANGED podQueue /\ pod' = [pod EXCEPT !.pc = "forget", !.found = {}]
    <3>1. c \in pod.found => owner'[c] = shared
      BY <2>3 DEF MoveCPUs, Moved
    <3>2. pod.key # p
      BY <1>1, <1>3, <3>1, PoolFacts
    <3> QED
      BY <1>2, <1>3, <2>1, <2>3, <3>2 DEF Typed, PodTyped
  <2> QED
    BY <1>9, <2>2, <2>3 DEF ReleaseCpus
<1>10. CASE ForgetPod
  <2>1. pod.pc = "forget" /\ pod.key # p /\ pod.key \in Pods
    BY <1>3, <1>10, EntryTypes DEF ForgetPod
  <2>2. entry' = [entry EXCEPT ![pod.key] = NoEntry] /\ pod' = podIdle /\ podQueue \subseteq podQueue'
    BY <1>10 DEF ForgetPod, applyExclusiveStatus, PodRequeue, PodDone
  <2> QED
    BY <1>2, <1>3, <2>1, <2>2, EntryTypes
<1> QED
  BY <1>4, <1>5, <1>6, <1>7, <1>8, <1>9, <1>10 DEF RunPod, PodStep

\* A CPU that is moved to the pool of a profile is held by the pod it is moved for.
LEMMA PodTakes ==
    ASSUME OneContainer, ~MayUnmatch, Typed, PodsApart, PodKnown, TodoFound, RunPod,
           NEW c \in CPUs, owner'[c] # owner[c], owner'[c] \in ProfileNames
    PROVE  \E p \in Pods : \E i \in DOMAIN podSpec[p] : Held(p, i, c)'
<1>1. UNCHANGED <<phase, cr, exclusive>>
  BY PodFrame DEF cluster
<1>2. MoveContainer
  <2>1. CASE ReleaseCpus
    BY <2>1, ReleaseMoves, PoolFacts
  <2>2. CASE UNCHANGED owner
    BY <2>2
  <2> QED
    BY <2>1, <2>2
    DEF RunPod, PodStep, PodNotFound, PodBegin, PodEnded, CheckContainer, RecordPod, ForgetPod, library
<1>3. pod.pc = "move" /\ pod.todo # {} /\ UNCHANGED podQueue
  BY <1>2 DEF MoveContainer, Typed, PodTyped
<1> PICK p \in Pods : p = pod.key
  BY <1>3, TurnFacts
<1>4. PICK i \in DOMAIN podSpec[p] : p = pod.key /\ i = turn
  BY <1>3, TurnFacts
<1>5. i \in pod.todo /\ pod.todo \subseteq DOMAIN podSpec[p]
  BY <1>3, <1>4, TurnFacts DEF Typed, PodTyped
<1>6. c \in podSpec[p][i].cpus /\ owner'[c] = podSpec[p][i].profile
  BY <1>2, <1>4, ContainerMoves DEF container
<1>7. pod'.key = p /\ pod'.pc = "check" /\ pod'.todo = pod.todo \ {i} /\ pod'.found = pod.found
  BY <1>2, <1>4, ContainerMoves DEF FailedContainer, remaining, Typed, PodTyped
<1>8. pod'.todo = {}
  BY <1>5, <1>7 DEF OneContainer
<1>9. c \in pod.found /\ (phase[p] = "running" => ProfileAvailable(podSpec[p][i].profile))
  BY <1>3, <1>4, <1>5, <1>6 DEF TodoFound
<1>10. phase[p] = "running" => ProfileAvailable(podSpec[p][i].profile)'
  BY <1>1, <1>9 DEF ProfileAvailable
<1>11. phase[p] \in {"running", "done"} /\ (phase[p] = "done" => p \in podQueue)
  BY <1>3, <1>4 DEF PodKnown
<1>12. Held(p, i, c)'
  BY <1>1, <1>3, <1>6, <1>7, <1>8, <1>9, <1>10, <1>11 DEF Held
<1> QED
  BY <1>12

LEMMA StepCpusHeld ==
    ASSUME Prompt, OneContainer, ~MayUnmatch, Typed, ProfilesKeptApart, PodsApart, PodKnown, TodoFound,
           CpusHeld, [Next]_vars
    PROVE  CpusHeld'
<1> SUFFICES ASSUME calm \/ faults = "lag", ~Restart, ~RequestsFail, NEW c \in CPUs, owner'[c] \in ProfileNames
             PROVE  \/ \E p \in Pods : \E i \in DOMAIN podSpec[p] : Held(p, i, c)'
                    \/ \E q \in missed' : c \in cpusOf(q)
  BY CalmSteps DEF CpusHeld
<1>3. missed \subseteq missed'
  <2>1. CASE RunPod
    BY <2>1 DEF RunPod, PodStep, PodNotFound, PodBegin, PodEnded, CheckContainer, MoveContainer, RecordPod,
                ReleaseCpus, ForgetPod
  <2> QED
    BY <2>1, ProfileFrame, ConfigFrame, EnvironmentFrame, StutterFrame DEF Next, Wait
<1>1. CASE owner'[c] # owner[c]
  <2>1. RunPod
    BY <1>1, ProfileOwners, ConfigOwners, EnvironmentFrame, StutterFrame, PoolFacts DEF Next, Wait
  <2> QED
    BY <1>1, <2>1, PodTakes
<1>4. CASE \E q \in missed : c \in cpusOf(q)
  BY <1>3, <1>4
<1>2. CASE owner'[c] = owner[c] /\ ~\E q \in missed : c \in cpusOf(q)
  <2> PICK p \in Pods : \E i \in DOMAIN podSpec[p] : Held(p, i, c)
    BY <1>2 DEF CpusHeld
  <2>1. PICK i \in DOMAIN podSpec[p] : Held(p, i, c)
    OBVIOUS
  <2>2. /\ phase[p] \in {"running", "done"} /\ c \in cpusOf(p)
        /\ phase[p] = "running" => ProfileAvailable(podSpec[p][i].profile)
    BY <2>1, ContainerFacts DEF Held
  <2>3. phase[p] = "running" => ProfileAvailable(podSpec[p][i].profile)'
    BY <2>2, AvailableKept
  <2>4. CASE RunPod
    BY <1>2, <2>1, <2>2, <2>3, <2>4, PodHolds
  <2>5. ASSUME UNCHANGED <<pod, entry>>, podQueue \subseteq podQueue', phase'[p] \in {"running", "done"},
               phase'[p] = "done" => phase[p] = "done" \/ p \in podQueue',
               phase'[p] = "running" => phase[p] = "running"
        PROVE  Held(p, i, c)'
    BY <1>2, <2>1, <2>3, <2>5 DEF Held
  <2>6. CASE RunProfile \/ RunConfig \/ UNCHANGED vars
    <3>1. UNCHANGED <<pod, entry, podQueue, phase>>
      BY <2>6, ProfileFrame, ConfigFrame, StutterFrame DEF cluster
    <3> QED
      BY <2>2, <2>5, <3>1
  <2>7. CASE Environment
    <3>1. UNCHANGED <<pod, entry>> /\ (phase[p] = "done" => p \in podQueue \/ pod.key = p)
      BY <2>1, <2>7, EnvironmentFrame DEF Held
    <3> QED
      BY <2>2, <2>5, <2>7, <3>1, PhaseSteps, EntryTypes
  <2> QED
    BY <2>4, <2>6, <2>7 DEF Next, Wait
<1> QED
  BY <1>1, <1>2, <1>4

\* When the agent rests, the CPUs of a pod that ended are in no profile's pool unless
\* another pod has them, or the end of a pod was handled before the cache had its entry:
\* for pods of one container, while the labels of the node match their profiles, the
\* profiles stay exclusive ones and neither requests nor the agent fail.  Otherwise what
\* the pod holds may be recorded too late or not at all.
THEOREM EndedPodsRelease ==
    ASSUME Prompt, OneContainer, ~MayUnmatch, PodsUnswitched,
           Faults \subseteq {"none", "sysfs", "lag"}
    PROVE  Spec => []EndedPodsReleaseCpus
<1>1. Init => CpusHeld
  BY PoolFacts DEF Init, InitState, CpusHeld
<1>2. ASSUME Typed, CpusHeld PROVE EndedPodsReleaseCpus
  <2> SUFFICES ASSUME Quiescent, NEW p \in Pods, NEW c \in cpusOf(p), owner[c] \in ProfileNames,
                      ~\E q \in missed : c \in cpusOf(q)
               PROVE  user(c) # {}
    BY DEF EndedPodsReleaseCpus
  <2>1. (calm \/ faults = "lag") /\ c \in CPUs
    BY <1>2, ContainerFacts DEF Typed, TypeOK, calm
  <2> PICK q \in Pods : \E i \in DOMAIN podSpec[q] : Held(q, i, c)
    BY <1>2, <2>1 DEF CpusHeld
  <2>2. PICK i \in DOMAIN podSpec[q] : Held(q, i, c)
    OBVIOUS
  <2>3. phase[q] = "running" /\ c \in cpusOf(q)
    BY <1>2, <2>2, RestFacts, ContainerFacts DEF Held
  <2> QED
    BY <2>3 DEF user
<1> QED
  BY <1>1, <1>2, AlwaysTyped, AlwaysApart, AlwaysPodsApart, AlwaysPodKnown, AlwaysTodoFound, StepCpusHeld, PTL DEF Spec

=============================================================================
