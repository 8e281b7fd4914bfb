-------------------------- MODULE PowerConfigProofs --------------------------
(***************************************************************************)
(* PowerConfigController for every number of configs, nodes, profiles and  *)
(* edits, and every set of troubles.                                       *)
(***************************************************************************)
EXTENDS PowerConfigController, TLAPS

-----------------------------------------------------------------------------
LEMMA InitIInv == Init => IInv
<1> SUFFICES ASSUME Init PROVE IInv
  OBVIOUS
<1>1. NoConfig \in ConfigTypes /\ NoConfig.born = 0 /\ NoDaemonSet \in DaemonSetTypes
  BY DEF NoConfig, ConfigTypes, DaemonSetTypes
<1>2. recIdle \in RecTypes /\ recIdle.pc = "idle" /\ recIdle.key = "nil"
  BY DEF recIdle, RecTypes
<1>3. TypeOK
  <2>1. stray \in BOOLEAN /\ image \in Images
    BY ConfigImages DEF Init
  <2> QED
    BY <1>1, <1>2, <2>1, ConfigEdits DEF Init, TypeOK
<1>4. ReconcileKnowsConfig /\ BornBefore /\ ReadsAnnounced
  BY <1>1, <1>2 DEF Init, ReconcileKnowsConfig, BornBefore, ReadsAnnounced
<1>5. NeverLetGo
  BY DEF Init, NeverLetGo, present
<1>6. CachesFollow /\ DeployedIsSeen
  BY <1>2 DEF Init, CachesFollow, DeployedIsSeen
<1> QED
  BY <1>3, <1>4, <1>5, <1>6 DEF IInv

\* The values a config or a DaemonSet can take.
LEMMA ConfigFields ==
    ASSUME NEW k \in ConfigTypes
    PROVE  /\ k # NoConfig => k.sel \in Selectors /\ k.born \in 1..MaxEdits
           /\ k.born \in Nat /\ (k.born = 0 <=> k = NoConfig)
           /\ \A s \in Selectors : k # NoConfig => /\ [k EXCEPT !.sel = s] \in ConfigTypes
                                                   /\ [k EXCEPT !.sel = s].born = k.born
  BY ConfigEdits DEF ConfigTypes, NoConfig

LEMMA ReconcileRecType ==
    ASSUME TypeOK, ReconcileKnowsConfig, Reconcile
    PROVE  rec' \in RecTypes
<1>1. /\ rec \in RecTypes /\ recIdle \in RecTypes /\ seen \in [Configs -> ConfigTypes]
      /\ profiles \subseteq Profiles /\ seenStates \subseteq Nodes
  BY DEF TypeOK, recIdle, RecTypes
<1>2. ASSUME NEW pc \in {"profiles", "states", "nodes"}, NEW todo \in SUBSET (Profiles \cup Nodes),
             GoTo(pc, todo)
      PROVE  rec' \in RecTypes
  BY <1>1, <1>2 DEF GoTo, RecTypes
<1>3. ASSUME Done \/ Retry PROVE rec' \in RecTypes
  BY <1>1, <1>3 DEF Done, Retry
<1>4. rec.todo \subseteq Profiles \cup Nodes
  BY <1>1 DEF RecTypes
<1>5. ASSUME NEW c \in Configs, ListConfigs(c) PROVE rec' \in RecTypes
  BY <1>5 DEF ListConfigs, recIdle, present, RecTypes
<1>6. CASE GetConfig
  <2>1. CASE seen[rec.key] = NoConfig
    BY <1>1, <1>2, <1>3, <1>6, <2>1 DEF GetConfig
  <2>2. CASE seen[rec.key] # NoConfig
    <3>1. seen[rec.key].sel \in Selectors
      BY <1>1, <1>6, <2>2, ConfigFields DEF GetConfig, ReconcileKnowsConfig
    <3> QED
      BY <1>1, <1>6, <2>2, <3>1 DEF GetConfig, RecTypes
  <2> QED
    BY <2>1, <2>2
<1>7. CASE ListStates \/ DeleteDaemonSet \/ RefuseConfig
  BY <1>1, <1>2, <1>3, <1>7 DEF ListStates, DeleteDaemonSet, RefuseConfig
<1>8. CASE EnsureDaemonSet
  BY <1>2, <1>3, <1>8 DEF EnsureDaemonSet, labelled
<1>9. CASE WriteInfo \/ RequestFails
  BY <1>2, <1>3, <1>4, <1>9 DEF WriteInfo, RequestFails
<1>10. CASE PatchStatus
  BY <1>1, <1>3, <1>10 DEF PatchStatus
<1>11. ASSUME NEW f \in Profiles, DeleteProfile(f) PROVE rec' \in RecTypes
  BY <1>2, <1>3, <1>4, <1>11 DEF DeleteProfile
<1>12. ASSUME NEW n \in Nodes, DeleteState(n) PROVE rec' \in RecTypes
  BY <1>2, <1>3, <1>4, <1>12 DEF DeleteState
<1>13. ASSUME NEW n \in Nodes, EnsureState(n) PROVE rec' \in RecTypes
  <2>1. [rec EXCEPT !.pc = "info", !.listed = {n}] \in RecTypes
    BY <1>1 DEF RecTypes
  <2> QED
    BY <1>2, <1>3, <1>4, <1>13, <2>1 DEF EnsureState
<1>14. ASSUME NEW c \in Configs, WrongNamespace(c) PROVE rec' \in RecTypes
  BY <1>1, <1>14 DEF WrongNamespace, vars
<1> QED
  BY <1>5, <1>6, <1>7, <1>8, <1>9, <1>10, <1>11, <1>12, <1>13, <1>14 DEF Reconcile

LEMMA NextTypeOK ==
    ASSUME TypeOK, ReconcileKnowsConfig, [Next]_vars
    PROVE  TypeOK'
<1> USE DEF TypeOK
<1>1. Reconcile => rec' \in RecTypes
  BY ReconcileRecType
<1>2. /\ recIdle \in RecTypes /\ NoDaemonSet \in DaemonSetTypes /\ NoConfig \in ConfigTypes
      /\ rec.pc # "idle" => rec.key \in Configs
  BY DEF recIdle, RecTypes, DaemonSetTypes, ConfigTypes, ReconcileKnowsConfig
<1>25. stray' \in BOOLEAN
  BY DEF Next, Reconcile, WrongNamespace, ListConfigs, GetConfig, ListStates, DeleteDaemonSet, RefuseConfig,
     EnsureDaemonSet, WriteInfo, PatchStatus, RequestFails, DeleteProfile, DeleteState, EnsureState,
     Informers, ObserveConfig, ObserveDaemonSet, ObserveStates, Timer, Users, CreateConfig,
     ChangeConfig, DeleteConfig, Relabel, ReleaseProfile, Restart, Wait, vars, caches
<1>3. ASSUME NEW c \in Configs, ListConfigs(c) PROVE TypeOK'
  BY <1>25, <1>1, <1>3 DEF ListConfigs, Reconcile, users, deployed, caches
<1>4. CASE GetConfig
  BY <1>25, <1>1, <1>4 DEF GetConfig, Reconcile, GoTo, Done, users, deployed, caches
<1>5. CASE ListStates
  BY <1>25, <1>1, <1>5 DEF ListStates, Reconcile, GoTo, users, deployed, caches
<1>6. CASE DeleteDaemonSet
  BY <1>25, <1>1, <1>2, <1>6 DEF DeleteDaemonSet, Reconcile, SyncDaemonSet, Done, Retry, users
<1>7. CASE RefuseConfig
  BY <1>25, <1>1, <1>2, <1>7 DEF RefuseConfig, Reconcile, Done, Retry, users, deployed, caches
<1>8. CASE EnsureDaemonSet
  <2>1. nodeAgent(seenDaemonSet) \in DaemonSetTypes
    <3>1. /\ image \in Images /\ ManifestImage # NoImage /\ rec.sel \in Selectors
          /\ seenDaemonSet # NoDaemonSet =>
                seenDaemonSet.image \in (Images \cup {ManifestImage}) \ {NoImage}
      BY <1>8, ConfigImages DEF EnsureDaemonSet, ReconcileKnowsConfig, DaemonSetTypes
    <3> QED
      BY <3>1 DEF nodeAgent, DaemonSetTypes
  <2> QED
    BY <1>25, <1>1, <1>2, <1>8, <2>1 DEF EnsureDaemonSet, Reconcile, SyncDaemonSet, GoTo, Retry, users
<1>9. CASE WriteInfo
  BY <1>25, <1>1, <1>9 DEF WriteInfo, Reconcile, ReconcileKnowsConfig, GoTo, users, caches
<1>10. CASE PatchStatus
  BY <1>25, <1>1, <1>2, <1>10 DEF PatchStatus, Reconcile, Retry, users, deployed, caches
<1>11. CASE RequestFails
  BY <1>25, <1>1, <1>2, <1>11 DEF RequestFails, Reconcile, Retry, users, deployed, caches
<1>12. ASSUME NEW f \in Profiles, DeleteProfile(f) PROVE TypeOK'
  BY <1>25, <1>1, <1>2, <1>12 DEF DeleteProfile, Reconcile, GoTo, Retry, users, caches
<1>13. ASSUME NEW n \in Nodes, DeleteState(n) PROVE TypeOK'
  BY <1>25, <1>1, <1>2, <1>13 DEF DeleteState, Reconcile, SyncStates, GoTo, Retry, users
<1>14. ASSUME NEW n \in Nodes, EnsureState(n) PROVE TypeOK'
  BY <1>25, <1>1, <1>2, <1>14 DEF EnsureState, Reconcile, SyncStates, GoTo, Retry, users
<1>15. CASE ObserveDaemonSet \/ ObserveStates
  BY <1>15, <1>25 DEF ObserveDaemonSet, ObserveStates, users, deployed
<1>16. ASSUME NEW c \in Configs, ObserveConfig(c) \/ Timer(c) PROVE TypeOK'
  BY <1>16, <1>25 DEF ObserveConfig, Timer, users, deployed, caches
<1>17. ASSUME Edit PROVE edits' \in 0..MaxEdits /\ edits + 1 \in 1..MaxEdits
  BY <1>17, ConfigEdits DEF Edit
<1>18. ASSUME NEW c \in Configs, NEW s \in Selectors, CreateConfig(c, s) PROVE TypeOK'
  <2>1. [sel |-> s, born |-> edits + 1] \in ConfigTypes
    BY <1>17, <1>18 DEF CreateConfig, ConfigTypes
  <2> QED
    BY <1>25, <1>17, <1>18, <2>1 DEF CreateConfig, deployed, caches
<1>19. ASSUME NEW c \in Configs, NEW s \in Selectors, ChangeConfig(c, s) PROVE TypeOK'
  <2>1. [configs[c] EXCEPT !.sel = s] \in ConfigTypes
    BY <1>19, ConfigFields DEF ChangeConfig
  <2> QED
    BY <1>25, <1>17, <1>19, <2>1 DEF ChangeConfig, deployed, caches
<1>20. ASSUME NEW c \in Configs, DeleteConfig(c) PROVE TypeOK'
  BY <1>25, <1>2, <1>17, <1>20 DEF DeleteConfig, deployed, caches
<1>21. ASSUME NEW n \in Nodes, NEW s \in Selectors, Relabel(n, s) PROVE TypeOK'
  BY <1>25, <1>17, <1>21 DEF Relabel, deployed, caches
<1>22. ASSUME NEW f \in Profiles, ReleaseProfile(f) PROVE TypeOK'
  BY <1>22, <1>25 DEF ReleaseProfile, deployed, caches
<1>23. ASSUME NEW i \in Images, Restart(i) PROVE TypeOK'
  BY <1>25, <1>2, <1>17, <1>23 DEF Restart, deployed, present
<1>24. CASE UNCHANGED vars
  BY <1>24, <1>25 DEF vars, users, deployed, caches
<1> QED
  BY <1>3, <1>4, <1>5, <1>6, <1>7, <1>8, <1>9, <1>10, <1>11, <1>12, <1>13, <1>14, <1>15, <1>16,
     <1>18, <1>19, <1>20, <1>21, <1>22, <1>23, <1>24 DEF Next, Reconcile, WrongNamespace, Informers, Users, Wait

LEMMA NextReconcileKnowsConfig ==
    ASSUME TypeOK, ReconcileKnowsConfig, [Next]_vars
    PROVE  ReconcileKnowsConfig'
<1> USE DEF ReconcileKnowsConfig
<1>1. rec \in RecTypes /\ seen \in [Configs -> ConfigTypes]
  BY DEF TypeOK
<1>2. CASE rec' = recIdle
  BY <1>2 DEF recIdle
<1>3. CASE UNCHANGED <<rec, states>>
  BY <1>3
<1>4. ASSUME NEW pc \in {"profiles", "states"}, NEW todo, GoTo(pc, todo), rec.pc # "idle"
      PROVE  ReconcileKnowsConfig'
  BY <1>1, <1>4 DEF GoTo, RecTypes
<1>5. ASSUME NEW todo, GoTo("nodes", todo), rec.pc \in {"daemonset", "nodes", "info"}
      PROVE  ReconcileKnowsConfig'
  BY <1>1, <1>5 DEF GoTo, RecTypes
<1>6. ASSUME NEW c \in Configs, ListConfigs(c) PROVE ReconcileKnowsConfig'
  BY <1>6 DEF ListConfigs, recIdle
<1>7. CASE GetConfig
  <2>1. CASE seen[rec.key] = NoConfig
    BY <1>2, <1>4, <1>7, <2>1 DEF GetConfig, Done
  <2>2. CASE seen[rec.key] # NoConfig
    <3>1. seen[rec.key].sel \in Selectors
      BY <1>1, <1>7, <2>2, ConfigFields DEF GetConfig
    <3> QED
      BY <1>1, <1>7, <2>2, <3>1 DEF GetConfig, RecTypes
  <2> QED
    BY <2>1, <2>2
<1>8. CASE ListStates \/ DeleteDaemonSet \/ RefuseConfig
  BY <1>2, <1>4, <1>8 DEF ListStates, DeleteDaemonSet, RefuseConfig, Done, Retry
<1>9. CASE EnsureDaemonSet \/ WriteInfo
  BY <1>2, <1>5, <1>9 DEF EnsureDaemonSet, WriteInfo, Retry
<1>10. CASE PatchStatus \/ RequestFails
  BY <1>2, <1>10 DEF PatchStatus, RequestFails, Retry
<1>11. ASSUME NEW f \in Profiles, DeleteProfile(f) PROVE ReconcileKnowsConfig'
  BY <1>2, <1>4, <1>11 DEF DeleteProfile, Retry
<1>12. ASSUME NEW n \in Nodes, DeleteState(n) PROVE ReconcileKnowsConfig'
  BY <1>2, <1>4, <1>12 DEF DeleteState, Retry
<1>13. ASSUME NEW n \in Nodes, EnsureState(n) PROVE ReconcileKnowsConfig'
  <2>1. CASE rec' = [rec EXCEPT !.pc = "info", !.listed = {n}] /\ states' = states \cup {n}
    BY <1>1, <1>13, <2>1 DEF EnsureState, RecTypes
  <2> QED
    BY <1>2, <1>5, <1>13, <2>1 DEF EnsureState, Retry
<1>14. CASE Informers
  BY <1>3, <1>14 DEF Informers, ObserveConfig, ObserveDaemonSet, ObserveStates, Timer, deployed
<1>15. CASE Users
  BY <1>2, <1>3, <1>15 DEF Users, CreateConfig, ChangeConfig, DeleteConfig, Relabel, ReleaseProfile,
     Restart, deployed
<1>16. CASE UNCHANGED vars
  BY <1>3, <1>16 DEF vars, deployed
<1> QED
  BY <1>6, <1>7, <1>8, <1>9, <1>10, <1>11, <1>12, <1>13, <1>14, <1>15, <1>16
     DEF Next, Reconcile, WrongNamespace, Wait

LEMMA NextBornBefore ==
    ASSUME TypeOK, BornBefore, [Next]_vars
    PROVE  BornBefore'
<1> USE DEF BornBefore
<1>1. /\ configs \in [Configs -> ConfigTypes] /\ seen \in [Configs -> ConfigTypes]
      /\ edits \in Nat
  BY ConfigEdits DEF TypeOK
<1>2. CASE UNCHANGED <<configs, seen, edits>>
  BY <1>2
<1>3. NoConfig.born = 0 /\ \A c \in Configs : configs[c].born \in Nat /\ seen[c].born \in Nat
  BY <1>1, ConfigFields DEF NoConfig
<1>4. CASE Reconcile
  <2>1. CASE RefuseConfig
    BY <1>1, <1>3, <2>1 DEF RefuseConfig, users, caches
  <2>2. CASE ~RefuseConfig
    BY <1>2, <1>4, <2>2 DEF Reconcile, WrongNamespace, vars, ListConfigs, GetConfig, ListStates, DeleteDaemonSet,
       EnsureDaemonSet, WriteInfo, PatchStatus, RequestFails, DeleteProfile, DeleteState,
       EnsureState, users, caches
  <2> QED
    BY <2>1, <2>2
<1>5. CASE ObserveDaemonSet \/ ObserveStates
  BY <1>2, <1>5 DEF ObserveDaemonSet, ObserveStates, users
<1>6. ASSUME NEW c \in Configs, ObserveConfig(c) \/ Timer(c) PROVE BornBefore'
  BY <1>1, <1>6 DEF ObserveConfig, Timer, users, caches
<1>7. ASSUME NEW c \in Configs, NEW s \in Selectors, CreateConfig(c, s) PROVE BornBefore'
  BY <1>1, <1>3, <1>7 DEF CreateConfig, Edit, caches
<1>8. ASSUME NEW c \in Configs, NEW s \in Selectors, ChangeConfig(c, s) PROVE BornBefore'
  <2>1. configs'[c].born = configs[c].born /\ \A d \in Configs \ {c} : configs'[d] = configs[d]
    BY <1>1, <1>8, ConfigFields DEF ChangeConfig
  <2> QED
    BY <1>1, <1>3, <1>8, <2>1 DEF ChangeConfig, Edit, caches
<1>9. ASSUME NEW c \in Configs, DeleteConfig(c) PROVE BornBefore'
  BY <1>1, <1>3, <1>9 DEF DeleteConfig, Edit, caches
<1>10. ASSUME NEW n \in Nodes, NEW s \in Selectors, Relabel(n, s) PROVE BornBefore'
  BY <1>1, <1>3, <1>10 DEF Relabel, Edit, caches
<1>11. ASSUME NEW f \in Profiles, ReleaseProfile(f) PROVE BornBefore'
  BY <1>2, <1>11 DEF ReleaseProfile, caches
<1>12. ASSUME NEW i \in Images, Restart(i) PROVE BornBefore'
  BY <1>1, <1>3, <1>12 DEF Restart, Edit
<1>13. CASE UNCHANGED vars
  BY <1>2, <1>13 DEF vars, users, caches
<1> QED
  BY <1>4, <1>5, <1>6, <1>7, <1>8, <1>9, <1>10, <1>11, <1>12, <1>13 DEF Next, Informers, Users, Wait

LEMMA NextReadsAnnounced ==
    ASSUME TypeOK, ReconcileKnowsConfig, ReadsAnnounced, [Next]_vars
    PROVE  ReadsAnnounced'
<1> USE DEF ReadsAnnounced
<1>1. rec \in RecTypes /\ seen \in [Configs -> ConfigTypes]
      /\ (rec.pc # "idle" => rec.key \in Configs)
  BY DEF TypeOK, ReconcileKnowsConfig
<1>2. CASE rec' = recIdle
  BY <1>2 DEF recIdle
<1>3. CASE UNCHANGED <<rec, seen, stray>> /\ queue \subseteq queue'
  BY <1>3
<1>4. ASSUME NEW pc \in {"profiles", "states"}, NEW todo, GoTo(pc, todo), UNCHANGED seen,
             rec.pc \in {"profiles", "states"} \/ (rec.pc = "get" /\ seen[rec.key] = NoConfig)
      PROVE  ReadsAnnounced'
  BY <1>1, <1>4 DEF GoTo, RecTypes
<1>5. ASSUME NEW todo, GoTo("nodes", todo), UNCHANGED seen, rec.pc \in {"daemonset", "nodes", "info"}
      PROVE  ReadsAnnounced'
  BY <1>1, <1>5 DEF GoTo, RecTypes
<1>6. ASSUME NEW c \in Configs, ListConfigs(c) PROVE ReadsAnnounced'
  BY <1>6 DEF ListConfigs, recIdle, present, strays
<1>7. CASE GetConfig
  <2>1. CASE seen[rec.key] = NoConfig
    BY <1>2, <1>4, <1>7, <2>1 DEF GetConfig, Done, caches
  <2>2. CASE seen[rec.key] # NoConfig
    BY <1>1, <1>7, <2>2 DEF GetConfig, RecTypes, caches
  <2> QED
    BY <2>1, <2>2
<1>8. CASE ListStates \/ DeleteDaemonSet \/ RefuseConfig
  BY <1>2, <1>4, <1>8 DEF ListStates, DeleteDaemonSet, RefuseConfig, Done, Retry, caches
<1>9. CASE EnsureDaemonSet \/ WriteInfo
  BY <1>2, <1>5, <1>9 DEF EnsureDaemonSet, WriteInfo, Retry, caches
<1>10. CASE PatchStatus \/ RequestFails
  BY <1>2, <1>10 DEF PatchStatus, RequestFails, Retry
<1>11. ASSUME NEW f \in Profiles, DeleteProfile(f) PROVE ReadsAnnounced'
  BY <1>2, <1>4, <1>11 DEF DeleteProfile, Retry, caches
<1>12. ASSUME NEW n \in Nodes, DeleteState(n) PROVE ReadsAnnounced'
  BY <1>2, <1>4, <1>12 DEF DeleteState, Retry
<1>13. ASSUME NEW n \in Nodes, EnsureState(n) PROVE ReadsAnnounced'
  <2>1. CASE rec' = [rec EXCEPT !.pc = "info", !.listed = {n}] /\ UNCHANGED queue
    BY <1>1, <1>13, <2>1 DEF EnsureState, RecTypes
  <2> QED
    BY <1>2, <1>5, <1>13, <2>1 DEF EnsureState, Retry
<1>14. CASE ObserveDaemonSet \/ ObserveStates
  BY <1>3, <1>14 DEF ObserveDaemonSet, ObserveStates
<1>15. ASSUME NEW c \in Configs, ObserveConfig(c) PROVE ReadsAnnounced'
  BY <1>1, <1>15 DEF ObserveConfig
<1>16. ASSUME NEW c \in Configs, Timer(c) PROVE ReadsAnnounced'
  BY <1>3, <1>16 DEF Timer, caches
<1>17. CASE Users
  BY <1>2, <1>3, <1>17 DEF Users, CreateConfig, ChangeConfig, DeleteConfig, Relabel, ReleaseProfile,
     Restart, caches
<1>18. CASE UNCHANGED vars
  BY <1>3, <1>18 DEF vars, caches
<1> QED
  BY <1>6, <1>7, <1>8, <1>9, <1>10, <1>11, <1>12, <1>13, <1>14, <1>15, <1>16, <1>17, <1>18
     DEF Next, Reconcile, WrongNamespace, Informers, Wait

\* Every end of a reconcile leaves its config queued, waiting for its five seconds,
\* gone, or with an event on its way.
LEMMA NextNeverLetGo ==
    ASSUME TypeOK, ReconcileKnowsConfig, BornBefore, ReadsAnnounced, NeverLetGo, [Next]_vars
    PROVE  NeverLetGo'
<1> USE DEF NeverLetGo, present
<1>1. /\ rec \in RecTypes /\ configs \in [Configs -> ConfigTypes] /\ seen \in [Configs -> ConfigTypes]
      /\ rec.pc = "idle" => rec.key = "nil"
      /\ rec.pc # "idle" => rec.key \in Configs
      /\ edits \in Nat
  BY ConfigEdits DEF TypeOK, ReconcileKnowsConfig
<1>2. /\ NoConfig.born = 0
      /\ \A c \in Configs : /\ configs[c] # NoConfig => configs[c].born # 0
                            /\ configs[c].born \in Nat /\ seen[c].born \in Nat
  BY <1>1, ConfigFields DEF NoConfig
<1>3. CASE UNCHANGED <<configs, seen>> /\ queue \subseteq queue' /\ timers \subseteq timers'
           /\ rec'.key = rec.key
  BY <1>3
<1>4. CASE UNCHANGED <<configs, seen>> /\ queue \cup {rec.key} \subseteq queue' /\ timers \subseteq timers'
  BY <1>4
<1>5. ASSUME NEW pc, NEW todo, GoTo(pc, todo) PROVE UNCHANGED <<queue, timers>> /\ rec'.key = rec.key
  BY <1>1, <1>5 DEF GoTo, RecTypes
<1>6. ASSUME NEW c \in Configs, ListConfigs(c) PROVE NeverLetGo'
  <2>1. rec.key = "nil" /\ rec'.key = c /\ queue' = queue \ {c} /\ UNCHANGED <<configs, seen, timers>>
    BY <1>1, <1>6 DEF ListConfigs, recIdle, caches
  <2> QED
    BY <2>1, ConfigNames
<1>7. ASSUME Done, UNCHANGED <<configs, seen>>, rec.key \in Configs,
             seen[rec.key] = NoConfig \/ rec.key \in queue \/ configs[rec.key] = NoConfig
      PROVE  NeverLetGo'
  BY <1>2, <1>7 DEF Done
<1>8. CASE GetConfig
  <2>1. CASE seen[rec.key] = NoConfig
    BY <1>1, <1>3, <1>5, <1>7, <1>8, <2>1 DEF GetConfig, caches
  <2>2. CASE seen[rec.key] # NoConfig
    BY <1>1, <1>3, <1>8, <2>2 DEF GetConfig, RecTypes, caches
  <2> QED
    BY <2>1, <2>2
<1>9. CASE ListStates \/ WriteInfo
  BY <1>3, <1>5, <1>9 DEF ListStates, WriteInfo, caches
<1>10. CASE DeleteDaemonSet
  BY <1>1, <1>4, <1>7, <1>10 DEF DeleteDaemonSet, Retry, ReadsAnnounced
<1>11. CASE RefuseConfig
  BY <1>1, <1>11 DEF RefuseConfig, Retry, Done, caches
<1>12. CASE EnsureDaemonSet
  BY <1>3, <1>4, <1>5, <1>12 DEF EnsureDaemonSet, Retry
<1>13. CASE PatchStatus \/ RequestFails
  BY <1>4, <1>13 DEF PatchStatus, RequestFails, Retry, caches
<1>14. ASSUME NEW f \in Profiles, DeleteProfile(f) PROVE NeverLetGo'
  BY <1>3, <1>4, <1>5, <1>14 DEF DeleteProfile, Retry, caches
<1>15. ASSUME NEW n \in Nodes, DeleteState(n) PROVE NeverLetGo'
  BY <1>3, <1>4, <1>5, <1>15 DEF DeleteState, Retry
<1>16. ASSUME NEW n \in Nodes, EnsureState(n) PROVE NeverLetGo'
  <2>1. CASE rec' = [rec EXCEPT !.pc = "info", !.listed = {n}] /\ UNCHANGED <<queue, timers>>
    BY <1>1, <1>3, <1>16, <2>1 DEF EnsureState, RecTypes
  <2> QED
    BY <1>3, <1>4, <1>5, <1>16, <2>1 DEF EnsureState, Retry
<1>17. CASE ObserveDaemonSet \/ ObserveStates
  BY <1>3, <1>17 DEF ObserveDaemonSet, ObserveStates
<1>18. ASSUME NEW c \in Configs, ObserveConfig(c) PROVE NeverLetGo'
  BY <1>1, <1>18 DEF ObserveConfig
<1>19. ASSUME NEW c \in Configs, Timer(c) PROVE NeverLetGo'
  BY <1>19 DEF Timer, caches
<1>20. ASSUME NEW c \in Configs, NEW s \in Selectors, CreateConfig(c, s) PROVE NeverLetGo'
  <2>1. configs'[c].born = edits + 1 /\ UNCHANGED <<seen, queue, timers, rec>>
        /\ \A d \in Configs \ {c} : configs'[d] = configs[d]
    BY <1>1, <1>20 DEF CreateConfig, caches
  <2>2. seen[c].born # edits + 1
    BY <1>1, <1>2 DEF BornBefore
  <2> QED
    BY <2>1, <2>2
<1>21. ASSUME NEW c \in Configs, NEW s \in Selectors, ChangeConfig(c, s) PROVE NeverLetGo'
  <2>1. configs'[c].born = configs[c].born /\ configs[c] # NoConfig
        /\ UNCHANGED <<seen, queue, timers, rec>>
        /\ \A d \in Configs \ {c} : configs'[d] = configs[d]
    BY <1>1, <1>21, ConfigFields DEF ChangeConfig, caches
  <2> QED
    BY <2>1
<1>22. ASSUME NEW c \in Configs, DeleteConfig(c) PROVE NeverLetGo'
  BY <1>1, <1>22 DEF DeleteConfig, caches
<1>23. ASSUME NEW i \in Images, Restart(i) PROVE NeverLetGo'
  BY <1>23 DEF Restart
<1>24. CASE Users
  BY <1>3, <1>20, <1>21, <1>22, <1>23, <1>24 DEF Users, Relabel, ReleaseProfile, caches
<1>25. CASE UNCHANGED vars
  BY <1>3, <1>25 DEF vars, caches
<1> QED
  BY <1>6, <1>8, <1>9, <1>10, <1>11, <1>12, <1>13, <1>14, <1>15, <1>16, <1>17, <1>18, <1>19, <1>24, <1>25
     DEF Next, Reconcile, WrongNamespace, Informers, Wait

LEMMA NextCachesFollow ==
    ASSUME CachesFollow, [Next]_vars
    PROVE  CachesFollow'
<1> USE DEF CachesFollow
<1>1. CASE UNCHANGED <<faults, daemonSet, states, seenDaemonSet, seenStates>>
  BY <1>1
<1>2. CASE DeleteDaemonSet \/ EnsureDaemonSet
  BY <1>2 DEF DeleteDaemonSet, EnsureDaemonSet, SyncDaemonSet, users
<1>3. ASSUME NEW n \in Nodes, DeleteState(n) \/ EnsureState(n) PROVE CachesFollow'
  BY <1>3 DEF DeleteState, EnsureState, SyncStates, users
<1>4. CASE ObserveDaemonSet \/ ObserveStates
  BY <1>4 DEF ObserveDaemonSet, ObserveStates, users, deployed
<1>5. CASE \E i \in Images : Restart(i)
  BY <1>5 DEF Restart, deployed
<1>6. CASE Reconcile
  BY <1>1, <1>2, <1>3, <1>6 DEF Reconcile, WrongNamespace, vars, ListConfigs, GetConfig, ListStates, RefuseConfig, WriteInfo,
     PatchStatus, RequestFails, DeleteProfile, users, deployed, caches
<1>7. CASE Informers
  BY <1>1, <1>4, <1>7 DEF Informers, ObserveConfig, Timer, users, deployed, caches
<1>8. CASE Users
  BY <1>1, <1>5, <1>8 DEF Users, CreateConfig, ChangeConfig, DeleteConfig, Relabel, ReleaseProfile,
     deployed, caches
<1>9. CASE UNCHANGED vars
  BY <1>1, <1>9 DEF vars, users, deployed, caches
<1> QED
  BY <1>6, <1>7, <1>8, <1>9 DEF Next, Wait

\* A reconcile that ends with something deployed has seen a config, or comes back.
LEMMA NextDeployedIsSeen ==
    ASSUME TypeOK, ReconcileKnowsConfig, ReadsAnnounced, CachesFollow, DeployedIsSeen, [Next]_vars
    PROVE  DeployedIsSeen'
<1> USE DEF DeployedIsSeen
<1> SUFFICES ASSUME faults' \in {"none", "requests"} PROVE DeployedIsSeen'
  OBVIOUS
<1>1. /\ rec \in RecTypes /\ seen \in [Configs -> ConfigTypes]
      /\ rec.pc # "idle" => rec.key \in Configs \ Elsewhere
  BY DEF TypeOK, ReconcileKnowsConfig
<1>2. faults' = faults /\ seenDaemonSet = daemonSet /\ seenStates = states
      /\ (rec.pc = "states" => states \subseteq rec.todo)
  <2>1. faults' = faults
    BY DEF Next, Reconcile, WrongNamespace, ListConfigs, GetConfig, ListStates, DeleteDaemonSet, RefuseConfig,
       EnsureDaemonSet, WriteInfo, PatchStatus, RequestFails, DeleteProfile, DeleteState, EnsureState,
       Informers, ObserveConfig, ObserveDaemonSet, ObserveStates, Timer, Users, CreateConfig,
       ChangeConfig, DeleteConfig, Relabel, ReleaseProfile, Restart, Wait, vars, users
  <2> QED
    BY <2>1 DEF CachesFollow
<1>3. CASE rec'.pc \notin {"idle", "states"}
  BY <1>3
<1>4. CASE Retry /\ rec.pc # "idle"
  BY <1>1, <1>4 DEF Retry, recIdle
<1>5. ASSUME NEW pc \in {"profiles", "nodes"}, NEW todo, GoTo(pc, todo) PROVE DeployedIsSeen'
  BY <1>1, <1>3, <1>5 DEF GoTo, RecTypes
<1>6. ASSUME NEW todo, GoTo("states", todo), states' \subseteq todo PROVE DeployedIsSeen'
  BY <1>1, <1>6 DEF GoTo, RecTypes
<1>7. CASE GetConfig
  <2>1. CASE seen[rec.key] = NoConfig /\ rec.listed # {}
    <3>1. /\ UNCHANGED <<queue, timers, seen, stray>> /\ rec.listed \subseteq Configs
          /\ \A c \in rec.listed : seen[c] # NoConfig \/ c \in queue
          /\ rec.listed \cap Elsewhere # {} => stray
      BY <1>7, <2>1 DEF GetConfig, ReadsAnnounced, Done, caches
    <3>2. rec'.pc = "idle"
      BY <1>7, <2>1 DEF GetConfig, Done, recIdle
    <3> QED
      BY <2>1, <3>1, <3>2 DEF present
  <2>2. CASE seen[rec.key] = NoConfig /\ rec.listed = {}
    BY <1>5, <1>7, <2>2 DEF GetConfig
  <2>3. CASE seen[rec.key] # NoConfig
    BY <1>1, <1>3, <1>7, <2>3 DEF GetConfig, RecTypes
  <2> QED
    BY <2>1, <2>2, <2>3
<1>8. CASE ListStates
  BY <1>2, <1>6, <1>8 DEF ListStates, deployed
<1>9. CASE DeleteDaemonSet
  BY <1>2, <1>4, <1>9 DEF DeleteDaemonSet, Done, recIdle
<1>10. CASE RefuseConfig
  BY <1>1, <1>4, <1>10 DEF RefuseConfig, ReadsAnnounced, Done, recIdle, present, caches
<1>11. CASE EnsureDaemonSet
  BY <1>4, <1>5, <1>11 DEF EnsureDaemonSet
<1>12. CASE WriteInfo \/ RequestFails
  BY <1>4, <1>5, <1>12 DEF WriteInfo, RequestFails
<1>13. CASE PatchStatus
  BY <1>1, <1>4, <1>13 DEF PatchStatus, recIdle
<1>14. ASSUME NEW f \in Profiles, DeleteProfile(f) PROVE DeployedIsSeen'
  BY <1>4, <1>5, <1>14 DEF DeleteProfile
<1>15. ASSUME NEW n \in Nodes, DeleteState(n) PROVE DeployedIsSeen'
  BY <1>2, <1>4, <1>6, <1>15 DEF DeleteState
<1>16. ASSUME NEW n \in Nodes, EnsureState(n) PROVE DeployedIsSeen'
  <2>1. CASE rec' = [rec EXCEPT !.pc = "info", !.listed = {n}]
    BY <1>1, <1>3, <2>1 DEF RecTypes
  <2> QED
    BY <1>4, <1>5, <1>16, <2>1 DEF EnsureState
<1>17. ASSUME NEW c \in Configs, ListConfigs(c) PROVE DeployedIsSeen'
  BY <1>3, <1>17 DEF ListConfigs, recIdle
<1>18. CASE UNCHANGED <<rec, daemonSet, states, seen, queue, timers, stray>>
  BY <1>2, <1>18 DEF present
<1>19. ASSUME NEW c \in Configs, ObserveConfig(c) PROVE DeployedIsSeen'
  <2>1. /\ UNCHANGED <<rec, daemonSet, states, timers, stray>> /\ queue' = queue \cup {c}
        /\ \A d \in Configs \ {c} : seen'[d] = seen[d]
    BY <1>1, <1>19 DEF ObserveConfig, deployed
  <2> QED
    BY <1>2, <2>1 DEF present
<1>23. ASSUME NEW c \in Configs, Timer(c) PROVE DeployedIsSeen'
  <2>1. UNCHANGED <<rec, daemonSet, states, seen, stray>> /\ queue \cup timers \subseteq queue' \cup timers'
    BY <1>23 DEF Timer, deployed, caches
  <2> QED
    BY <1>2, <2>1 DEF present
<1>20. CASE Informers
  BY <1>18, <1>19, <1>20, <1>23 DEF Informers, ObserveDaemonSet, ObserveStates, deployed
<1>21. CASE Users
  BY <1>2, <1>18, <1>21 DEF Users, CreateConfig, ChangeConfig, DeleteConfig, Relabel, ReleaseProfile,
     Restart, deployed, caches
<1>22. CASE UNCHANGED vars
  BY <1>18, <1>22 DEF vars, deployed, caches
<1> QED
  BY <1>7, <1>8, <1>9, <1>10, <1>11, <1>12, <1>13, <1>14, <1>15, <1>16, <1>17, <1>20, <1>21, <1>22
     DEF Next, Reconcile, WrongNamespace, Wait

-----------------------------------------------------------------------------
LEMMA AlwaysIInv == Spec => []IInv
<1>1. IInv /\ [Next]_vars => IInv'
  BY NextTypeOK, NextReconcileKnowsConfig, NextBornBefore, NextReadsAnnounced, NextNeverLetGo,
     NextCachesFollow, NextDeployedIsSeen DEF IInv
<1> QED
  BY InitIInv, <1>1, PTL DEF Spec

\* The state of the operator and of what it deploys is well-formed, whatever it reads
\* from a cache that lags and however its requests fail.
THEOREM ConfigTypeSafety == Spec => []TypeOK
<1>1. IInv => TypeOK
  BY DEF IInv
<1> QED
  BY AlwaysIInv, <1>1, PTL

\* A PowerConfig that exists is queued, timed, under way or announced, over failed
\* requests, lagging caches, restarts, and its deletion and creation anew.
THEOREM ConfigsReconciled == Spec => []NeverForgotten
<1>1. IInv => NeverForgotten
  BY DEF IInv, NeverLetGo, NeverForgotten
<1> QED
  BY AlwaysIInv, <1>1, PTL

\* An operator with nothing left to do and no PowerConfig has taken down the DaemonSet
\* and every PowerNodeState, for any number of failed requests on the way.
THEOREM EverythingTakenDown == Spec => []TornDown
<1>1. IInv => TornDown
  BY DEF IInv, TornDown, DeployedIsSeen, Idle, present
<1> QED
  BY AlwaysIInv, <1>1, PTL

=============================================================================
