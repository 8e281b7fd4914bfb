----------------------- MODULE PowerConfigController -----------------------
(***************************************************************************)
(* The PowerConfig reconciler of the operator: one worker that deploys the *)
(* node agent where a PowerConfig says, and takes everything down when the *)
(* last PowerConfig is gone.  It reads the informer caches, which follow   *)
(* the API server with a delay, and every write it makes is a request of   *)
(* its own.                                                                *)
(*                                                                         *)
(* A PowerConfig is its node selector and what tells it from an earlier    *)
(* one of its name (its uid, here the time of its creation).  The watch    *)
(* and the lists are over all namespaces, only the reconcile minds them.   *)
(* Nodes have one label value.  PowerProfiles matter as far as they are in the way:   *)
(* the webhook refuses to delete one that is referenced.                   *)
(***************************************************************************)
EXTENDS Integers, FiniteSets

CONSTANTS
    Configs,     \* names of PowerConfigs, and ...
    Elsewhere,   \* ... those that are not in the operator's namespace
    Selectors,   \* values of spec.powerNodeSelector, and of the label of a node
    Nodes,
    Profiles,    \* PowerProfiles there are at first
    Images,      \* values of RELATED_IMAGE_NODE_AGENT, numbers or NoImage; 1 is the first
    ManifestImage,  \* the image in the manifest of the DaemonSet
    Faults,      \* which troubles a behaviour may have, one of FaultKinds
    MaxEdits     \* bound: changes made by users and restarts

FaultKinds == {"none", "requests", "lag", "restarts"}
NoSelector == "nil"
EmptySelector == ""   \* the empty map, which every node matches
NoImage == 0          \* the variable is not set
NoConfig == [sel |-> NoSelector, born |-> 0]
NoDaemonSet == [sel |-> NoSelector, image |-> 0]

ASSUME ConfigFaults == Faults \subseteq FaultKinds
ASSUME ConfigImages == 1 \in Images /\ Images \subseteq Nat /\ ManifestImage \in Nat \ {NoImage}
ASSUME ConfigNamespaces == Elsewhere \subseteq Configs
ASSUME ConfigSelectors == NoSelector \notin Selectors
ASSUME ConfigNames == "nil" \notin Configs
ASSUME ConfigEdits == MaxEdits \in Nat

VARIABLES
    \* the API server
    configs,      \* PowerConfigs, or NoConfig
    status,       \* their status.nodes
    label,        \* the label of every node
    profiles,     \* PowerProfiles
    inUse,        \* PowerProfiles referenced by PowerNodeConfigs or pods
    daemonSet,    \* the node agent's DaemonSet, or NoDaemonSet
    states,       \* nodes that have a PowerNodeState, and ...
    info,         \* ... those whose PowerNodeState has its NodeInfo
    edits, faults,
    stray,        \* history: the operator has listed a config of another namespace
    \* the informer caches
    seen, seenDaemonSet, seenStates,
    \* the operator
    image,        \* the image its environment names
    nodeList,     \* State.PowerNodeList
    queue,        \* work queue
    timers,       \* PowerConfigs to queue again after five seconds
    rec           \* the reconcile under way

users == <<label, inUse, edits, faults>>
deployed == <<profiles, daemonSet, states, info>>
caches == <<seen, seenDaemonSet, seenStates, stray>>
vars == <<configs, status, users, deployed, caches, image, nodeList, queue, timers, rec>>

recIdle == [pc |-> "idle", key |-> "nil", listed |-> {}, sel |-> NoSelector, todo |-> {}]
present(f) == {c \in Configs : f[c] # NoConfig}
labelled(s) == {n \in Nodes : s \in {EmptySelector, label[n]}}
strays(f) == present(f) \cap Elsewhere

Init ==
    /\ configs = [c \in Configs |-> NoConfig]
    /\ status = [c \in Configs |-> {}]
    /\ label \in [Nodes -> Selectors]
    /\ profiles = Profiles /\ inUse \in SUBSET Profiles
    /\ daemonSet = NoDaemonSet /\ states = {} /\ info = {}
    /\ edits = 0 /\ faults \in Faults
    /\ seen = configs /\ seenDaemonSet = NoDaemonSet /\ seenStates = {} /\ stray = FALSE
    /\ image = 1
    /\ nodeList = {} /\ queue = {} /\ timers = {}
    /\ rec = recIdle

-----------------------------------------------------------------------------
\* The ends of a reconcile: without error, with one (retried), with RequeueAfter.
Done == rec' = recIdle /\ UNCHANGED <<queue, timers>>
Retry == rec' = recIdle /\ queue' = queue \cup {rec.key} /\ UNCHANGED timers
GoTo(pc, todo) == rec' = [rec EXCEPT !.pc = pc, !.todo = todo] /\ UNCHANGED <<queue, timers>>

\* Caches have what the operator wrote, unless they lag.
SyncDaemonSet == seenDaemonSet' = IF faults = "lag" THEN seenDaemonSet ELSE daemonSet'
SyncStates == seenStates' = IF faults = "lag" THEN seenStates ELSE states'

\* A config of another namespace, there or not, is an error: its key is queued again.
WrongNamespace(c) ==
    /\ rec.pc = "idle" /\ c \in queue /\ c \in Elsewhere
    /\ UNCHANGED vars

\* List, in every namespace, then Get: two reads of the cache.
ListConfigs(c) ==
    /\ rec.pc = "idle" /\ c \in queue /\ c \notin Elsewhere
    /\ rec' = [recIdle EXCEPT !.pc = "get", !.key = c, !.listed = present(seen)]
    /\ stray' = (stray \/ strays(seen) # {})
    /\ queue' = queue \ {c}
    /\ UNCHANGED <<configs, status, users, deployed, seen, seenDaemonSet, seenStates, image, nodeList,
                   timers>>

\* Mutant of GetConfig: a second config is left alone.
GetConfig_Ignores ==
    /\ rec.pc = "get"
    /\ IF seen[rec.key] = NoConfig
       THEN IF rec.listed = {} THEN GoTo("profiles", profiles) ELSE Done
       ELSE IF Cardinality(rec.listed) > 1 THEN Done
       ELSE /\ rec' = [rec EXCEPT !.pc = "daemonset", !.sel = seen[rec.key].sel]
            /\ UNCHANGED <<queue, timers>>
    /\ UNCHANGED <<configs, status, users, deployed, caches, image, nodeList>>

GetConfig ==
    /\ rec.pc = "get"
    /\ IF seen[rec.key] = NoConfig
       THEN IF rec.listed = {} THEN GoTo("profiles", profiles) ELSE Done
       ELSE /\ rec' = [rec EXCEPT !.pc = IF Cardinality(rec.listed) > 1 THEN "refuse" ELSE "daemonset",
                                  !.sel = seen[rec.key].sel]
            /\ UNCHANGED <<queue, timers>>
    /\ UNCHANGED <<configs, status, users, deployed, caches, image, nodeList>>

\* Mutant of DeleteProfile: a refused deletion ends the reconcile without an error.
DeleteProfile_Dropped(f) ==
    /\ rec.pc = "profiles" /\ f \in rec.todo
    /\ IF f \in profiles \ inUse
       THEN profiles' = profiles \ {f} /\ GoTo("profiles", rec.todo \ {f})
       ELSE Done /\ UNCHANGED profiles
    /\ UNCHANGED <<configs, status, users, daemonSet, states, info, caches, image, nodeList>>

\* Take down: the profiles that were listed, the PowerNodeStates, the DaemonSet.
DeleteProfile(f) ==
    /\ rec.pc = "profiles" /\ f \in rec.todo
    /\ IF f \in profiles \ inUse
       THEN profiles' = profiles \ {f} /\ GoTo("profiles", rec.todo \ {f})
       ELSE Retry /\ UNCHANGED profiles
    /\ UNCHANGED <<configs, status, users, daemonSet, states, info, caches, image, nodeList>>

ListStates ==
    /\ rec.pc = "profiles" /\ rec.todo = {}
    /\ GoTo("states", seenStates)
    /\ UNCHANGED <<configs, status, users, deployed, caches, image, nodeList>>

DeleteState(n) ==
    /\ rec.pc = "states" /\ n \in rec.todo
    /\ IF n \in states
       THEN GoTo("states", rec.todo \ {n})
       ELSE Retry
    /\ states' = states \ {n} /\ info' = info \ {n}
    /\ SyncStates
    /\ UNCHANGED <<configs, status, users, profiles, daemonSet, seen, seenDaemonSet, stray, image, nodeList>>

DeleteDaemonSet ==
    /\ rec.pc = "states" /\ rec.todo = {}
    /\ IF seenDaemonSet # NoDaemonSet /\ daemonSet = NoDaemonSet THEN Retry ELSE Done
    /\ daemonSet' = IF seenDaemonSet = NoDaemonSet THEN daemonSet ELSE NoDaemonSet
    /\ SyncDaemonSet
    /\ UNCHANGED <<configs, status, users, profiles, states, info, seen, seenStates, stray, image, nodeList>>

\* More than one config: the one that is reconciled is deleted.
RefuseConfig ==
    /\ rec.pc = "refuse"
    /\ IF configs[rec.key] = NoConfig THEN Retry ELSE Done
    /\ configs' = [configs EXCEPT ![rec.key] = NoConfig]
    /\ status' = [status EXCEPT ![rec.key] = {}]
    /\ UNCHANGED <<users, deployed, caches, image, nodeList>>

\* The DaemonSet for the config, made of the manifest (whose pods have no node selector) or
\* of the one there is; without an image in its environment the operator keeps theirs.
nodeAgent(ds) ==
    [sel |-> rec.sel,
     image |-> IF image # NoImage THEN image ELSE IF ds = NoDaemonSet THEN ManifestImage ELSE ds.image]

\* createDaemonSetIfNotPresent: an object that is not as the cache says makes it fail.
EnsureDaemonSet ==
    LET want == nodeAgent(seenDaemonSet) IN
    /\ rec.pc = "daemonset"
    /\ \/ /\ seenDaemonSet = want
          /\ GoTo("nodes", labelled(rec.sel))
          /\ UNCHANGED <<daemonSet, seenDaemonSet>>
       \/ /\ seenDaemonSet # want /\ daemonSet = seenDaemonSet
          /\ daemonSet' = want
          /\ SyncDaemonSet
          /\ GoTo("nodes", labelled(rec.sel))
       \/ /\ seenDaemonSet # want /\ daemonSet # seenDaemonSet
          /\ Retry
          /\ UNCHANGED <<daemonSet, seenDaemonSet>>
    /\ UNCHANGED <<configs, status, users, profiles, states, info, seen, seenStates, stray, image, nodeList>>

\* UpdatePowerNodeData, and a PowerNodeState for a node that seems to have none.
EnsureState(n) ==
    /\ rec.pc = "nodes" /\ n \in rec.todo
    /\ nodeList' = nodeList \cup {n}
    /\ \/ n \in seenStates /\ GoTo("nodes", rec.todo \ {n}) /\ UNCHANGED <<states, seenStates>>
       \/ /\ n \notin seenStates \cup states
          /\ states' = states \cup {n}
          /\ SyncStates
          /\ rec' = [rec EXCEPT !.pc = "info", !.listed = {n}]
          /\ UNCHANGED <<queue, timers>>
       \/ n \in states \ seenStates /\ Retry /\ UNCHANGED <<states, seenStates>>
    /\ UNCHANGED <<configs, status, users, profiles, daemonSet, info, seen, seenDaemonSet, stray, image>>

\* applyNodeInfo
WriteInfo ==
    /\ rec.pc = "info"
    /\ info' = info \cup rec.listed
    /\ GoTo("nodes", rec.todo \ rec.listed)
    /\ UNCHANGED <<configs, status, users, profiles, daemonSet, states, caches, image, nodeList>>

\* Mutant of PatchStatus: the reconcile does not come back after five seconds.
PatchStatus_NoRequeue ==
    /\ rec.pc = "nodes" /\ rec.todo = {}
    /\ IF configs[rec.key] = NoConfig
       THEN Retry /\ UNCHANGED status
       ELSE /\ status' = [status EXCEPT ![rec.key] = nodeList]
            /\ rec' = recIdle
            /\ queue' = IF status' # status THEN queue \cup {rec.key} ELSE queue
            /\ UNCHANGED timers
    /\ UNCHANGED <<configs, users, deployed, caches, image, nodeList>>

\* The status of the config, whose change is an event again; then RequeueAfter.
PatchStatus ==
    /\ rec.pc = "nodes" /\ rec.todo = {}
    /\ IF configs[rec.key] = NoConfig
       THEN Retry /\ UNCHANGED status
       ELSE /\ status' = [status EXCEPT ![rec.key] = nodeList]
            /\ rec' = recIdle
            /\ queue' = IF status' # status THEN queue \cup {rec.key} ELSE queue
            /\ timers' = timers \cup {rec.key}
    /\ UNCHANGED <<configs, users, deployed, caches, image, nodeList>>

\* Any request fails.
RequestFails ==
    /\ faults = "requests" /\ rec.pc # "idle"
    /\ Retry
    /\ UNCHANGED <<configs, status, users, deployed, caches, image, nodeList>>

Reconcile ==
    \/ \E c \in Configs : WrongNamespace(c) \/ ListConfigs(c)
    \/ GetConfig \/ ListStates \/ DeleteDaemonSet \/ RefuseConfig
    \/ EnsureDaemonSet \/ WriteInfo \/ PatchStatus \/ RequestFails
    \/ \E f \in Profiles : DeleteProfile(f)
    \/ \E n \in Nodes : DeleteState(n) \/ EnsureState(n)

-----------------------------------------------------------------------------
\* The informer caches and the five seconds
ObserveConfig(c) ==
    /\ seen[c] # configs[c]
    /\ seen' = [seen EXCEPT ![c] = configs[c]]
    /\ queue' = queue \cup {c}
    /\ UNCHANGED <<configs, status, users, deployed, seenDaemonSet, seenStates, stray, image, nodeList,
                   timers, rec>>

ObserveDaemonSet ==
    /\ seenDaemonSet # daemonSet
    /\ seenDaemonSet' = daemonSet
    /\ UNCHANGED <<configs, status, users, deployed, seen, seenStates, stray, image, nodeList, queue,
                   timers, rec>>

ObserveStates ==
    /\ seenStates # states
    /\ seenStates' = states
    /\ UNCHANGED <<configs, status, users, deployed, seen, seenDaemonSet, stray, image, nodeList, queue,
                   timers, rec>>

Timer(c) ==
    /\ c \in timers
    /\ timers' = timers \ {c}
    /\ queue' = queue \cup {c}
    /\ UNCHANGED <<configs, status, users, deployed, caches, image, nodeList, rec>>

\* Users and the process of the operator
Edit == edits < MaxEdits /\ edits' = edits + 1

\* (The spec of a config of another namespace is never read; it has one, and keeps it.)
CreateConfig(c, s) ==
    /\ Edit
    /\ configs[c] = NoConfig
    /\ c \in Elsewhere => s = EmptySelector
    /\ configs' = [configs EXCEPT ![c] = [sel |-> s, born |-> edits + 1]]
    /\ UNCHANGED <<status, label, inUse, faults, deployed, caches, image, nodeList, queue, timers, rec>>

ChangeConfig(c, s) ==
    /\ Edit
    /\ configs[c] # NoConfig /\ configs[c].sel # s /\ c \notin Elsewhere
    /\ configs' = [configs EXCEPT ![c].sel = s]
    /\ UNCHANGED <<status, label, inUse, faults, deployed, caches, image, nodeList, queue, timers, rec>>

DeleteConfig(c) ==
    /\ Edit
    /\ configs[c] # NoConfig
    /\ configs' = [configs EXCEPT ![c] = NoConfig]
    /\ status' = [status EXCEPT ![c] = {}]
    /\ UNCHANGED <<label, inUse, faults, deployed, caches, image, nodeList, queue, timers, rec>>

Relabel(n, s) ==
    /\ Edit
    /\ label[n] # s
    /\ label' = [label EXCEPT ![n] = s]
    /\ UNCHANGED <<configs, status, inUse, faults, deployed, caches, image, nodeList, queue, timers, rec>>

\* The last reference to a profile goes away.
ReleaseProfile(f) ==
    /\ f \in inUse
    /\ inUse' = inUse \ {f}
    /\ UNCHANGED <<configs, status, label, edits, faults, deployed, caches, image, nodeList, queue, timers, rec>>

\* The operator restarts, perhaps upgraded; its caches start with what there is.
Restart(i) ==
    /\ faults = "restarts" /\ Edit
    /\ image' = i
    /\ seen' = configs /\ seenDaemonSet' = daemonSet /\ seenStates' = states
    /\ queue' = present(configs)
    /\ timers' = {} /\ nodeList' = {}
    /\ rec' = recIdle
    /\ UNCHANGED <<configs, status, label, inUse, faults, deployed, stray>>

Informers == ObserveDaemonSet \/ ObserveStates \/ \E c \in Configs : ObserveConfig(c) \/ Timer(c)

Users ==
    \/ \E c \in Configs : DeleteConfig(c) \/ \E s \in Selectors : CreateConfig(c, s) \/ ChangeConfig(c, s)
    \/ \E n \in Nodes, s \in Selectors : Relabel(n, s)
    \/ \E f \in Profiles : ReleaseProfile(f)
    \/ \E i \in Images : Restart(i)

\* All that is left is the retry of configs of another namespace.
Idle == rec.pc = "idle" /\ queue \subseteq Elsewhere /\ timers = {} /\ seen = configs
Wait == Idle /\ UNCHANGED vars

Next == Reconcile \/ Informers \/ Users \/ Wait

Spec == Init /\ [][Next]_vars

\* The worker runs, every watch delivers and every timer fires in the end.
FairSpec ==
    /\ Spec
    /\ WF_vars(Reconcile)
    /\ WF_vars(ObserveDaemonSet) /\ WF_vars(ObserveStates)
    /\ \A c \in Configs : WF_vars(ObserveConfig(c)) /\ WF_vars(Timer(c))

-----------------------------------------------------------------------------
ConfigTypes == [sel: Selectors, born: 1..MaxEdits] \cup {NoConfig}
DaemonSetTypes ==
    [sel: Selectors, image: (Images \cup {ManifestImage}) \ {NoImage}] \cup {NoDaemonSet}
RecTypes ==
    [pc: {"idle", "get", "profiles", "states", "refuse", "daemonset", "nodes", "info"},
     key: Configs \cup {"nil"}, listed: SUBSET (Configs \cup Nodes),
     sel: Selectors \cup {NoSelector}, todo: SUBSET (Profiles \cup Nodes)]

\* The types of the state.
TypeOK ==
    /\ configs \in [Configs -> ConfigTypes] /\ seen \in [Configs -> ConfigTypes]
    /\ status \in [Configs -> SUBSET Nodes] /\ label \in [Nodes -> Selectors]
    /\ profiles \subseteq Profiles /\ inUse \subseteq Profiles
    /\ daemonSet \in DaemonSetTypes /\ seenDaemonSet \in DaemonSetTypes
    /\ info \subseteq states /\ states \subseteq Nodes /\ seenStates \subseteq Nodes
    /\ edits \in 0..MaxEdits /\ faults \in Faults /\ stray \in BOOLEAN /\ image \in Images
    /\ nodeList \subseteq Nodes /\ queue \subseteq Configs /\ timers \subseteq Configs
    /\ rec \in RecTypes

\* A PowerConfig of the operator's namespace will be reconciled: it is queued, waits for its five
\* seconds, is being reconciled, or an event about it is on its way.
NeverForgotten ==
    \A c \in present(configs) \ Elsewhere :
        c \in queue \cup timers \cup {rec.key} \/ seen[c] # configs[c]

\* When nothing more will happen and no PowerConfig is left, nothing that was deployed
\* is: while the caches have the operator's own writes, it sees every deletion, and no
\* PowerConfig of another namespace has kept the last one of its own from being the last.
TornDown ==
    Idle /\ present(configs) = {} /\ faults \in {"none", "requests"} /\ ~stray =>
        daemonSet = NoDaemonSet /\ states = {}

\* After the last change the cluster ends with at most one PowerConfig (which of several is
\* left, if any, is open), and stays with the DaemonSet on its nodes, their PowerNodeStates
\* complete and named in its status; or, without one and with no profile in the way, with
\* nothing deployed.  While there is a PowerConfig in another namespace, none is left in the
\* operator's own.
Converges ==
    LET complete(c) ==
            LET nodes == labelled(configs[c].sel) IN
            /\ daemonSet.sel = configs[c].sel /\ image \in {NoImage, daemonSet.image}
            /\ nodes \subseteq states /\ nodes \subseteq status[c]
            /\ faults # "restarts" => states \subseteq info
        nothing == daemonSet = NoDaemonSet /\ states = {}
    IN  faults # "requests" =>
            <>[](IF strays(configs) # {} THEN present(configs) \subseteq Elsewhere
                 ELSE IF present(configs) = {}
                 THEN faults = "none" /\ ~stray => nothing \/ profiles \cap inUse # {}
                 ELSE \E c \in Configs : present(configs) = {c} /\ complete(c))

\* README.md, "Power Config Controller": the controller deletes PowerConfigs created after
\* the first.  So one that it deletes is not the first of those there are.
FirstConfigKept ==
    [][\A c \in present(configs) :
          RefuseConfig /\ rec.key = c => \E d \in present(configs) : configs[d].born < configs[c].born]_vars

-----------------------------------------------------------------------------
(***************************************************************************)
(* The inductive invariant behind NeverForgotten and TornDown.             *)
(***************************************************************************)

\* A reconcile has a key; one that sets up has a selector, and has created the state it describes.
ReconcileKnowsConfig ==
    /\ IF rec.pc = "idle" THEN rec.key = "nil" ELSE rec.key \in Configs \ Elsewhere
    /\ rec.pc \in {"refuse", "daemonset", "nodes", "info"} => rec.sel \in Selectors
    /\ rec.pc = "info" => rec.listed \subseteq states

\* No config is younger than the last edit.
BornBefore == \A c \in Configs : configs[c].born <= edits /\ seen[c].born <= edits

\* What the reconcile under way has read still holds, or an event has queued the config
\* again.
ReadsAnnounced ==
    /\ rec.pc = "get" =>
          /\ rec.listed \subseteq Configs /\ \A c \in rec.listed : seen[c] # NoConfig \/ c \in queue
          /\ rec.listed \cap Elsewhere # {} => stray
    /\ rec.pc \in {"profiles", "states"} => seen[rec.key] = NoConfig \/ rec.key \in queue
    /\ rec.pc \in {"refuse", "daemonset", "nodes", "info"} =>
          seen[rec.key] # NoConfig \/ rec.key \in queue

\* A PowerConfig that the operator has seen, whatever it was then, is never let go of.
NeverLetGo ==
    \A c \in present(configs) \ Elsewhere :
        c \in queue \cup timers \cup {rec.key} \/ seen[c].born # configs[c].born

\* While caches do not lag they have the operator's own writes.
CachesFollow ==
    faults \in {"none", "requests"} => seenDaemonSet = daemonSet /\ seenStates = states

\* What is deployed will be looked at again, or a config that was seen stands for it; and
\* the states that a take down has listed are all there are.
DeployedIsSeen ==
    faults \in {"none", "requests"} =>
        /\ rec.pc = "states" => states \subseteq rec.todo
        /\ rec.pc = "idle" /\ (daemonSet # NoDaemonSet \/ states # {}) /\ ~stray =>
              (queue \cup timers) \ Elsewhere # {} \/ present(seen) \ Elsewhere # {}

IInv ==
    /\ TypeOK /\ ReconcileKnowsConfig /\ BornBefore /\ ReadsAnnounced /\ NeverLetGo
    /\ CachesFollow /\ DeployedIsSeen

=============================================================================
