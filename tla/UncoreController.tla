-------------------------- MODULE UncoreController --------------------------
(***************************************************************************)
(* The Uncore reconciler of one node agent.  One worker goroutine runs it, *)
(* and nothing else touches the uncore settings of the library.  A         *)
(* reconcile reads the Uncores that match the node and the active one from *)
(* caches, resets every place, applies the selected Uncore place by place  *)
(* and reports to PowerNodeState; users change Uncores between any two of  *)
(* these steps, and every step may fail.                                   *)
(*                                                                         *)
(* Left out: a missing PowerNodeState (the reconcile comes back later,     *)
(* with nothing done) and failed reads (the same).                         *)
(***************************************************************************)
EXTENDS Uncore, FiniteSets

CONSTANTS
    Names,       \* Uncores; numbers, the oldest is the least
    Specs,       \* [sys: pair or Nil, dies: sequence of [at: path, freq: pair or Nil]]
    Faults,      \* which troubles a behaviour may have, one of FaultKinds
    MaxEdits     \* bound: changes made by users and restarts

FaultKinds == {"none", "sysfs", "requests", "lag", "restarts"}
NoName == 0

\* What the webhook admits: no frequencies in the wrong order, no place twice
\* (validateCreateOrUpdate, validateDieSelectors).  A place may be absent from the node,
\* and a spec may be empty.
Admitted(s) ==
    /\ s.sys.min <= s.sys.max
    /\ \A i \in DOMAIN s.dies : s.dies[i].freq.min <= s.dies[i].freq.max /\ s.dies[i].at # Host
    /\ \A i, j \in DOMAIN s.dies : s.dies[i].at = s.dies[j].at => i = j

\* Frequencies are uints, and so are the numbers of packages and dies in a path.
Pairs == [min: Nat, max: Nat]
Calls == [at: Seq(Nat), freq: Pairs]

ASSUME SpecsAssumption == Specs \subseteq [sys: Pairs, dies: Seq(Calls)]
ASSUME AdmittedAssumption == \A s \in Specs : Admitted(s)
ASSUME NamesAssumption == Names \subseteq Nat \ {NoName}
ASSUME FaultsAssumption == Faults \subseteq FaultKinds
ASSUME EditsAssumption == MaxEdits \in Nat

VARIABLES
    spec,       \* spec of every Uncore
    matching,   \* the Uncores that are there and select the node
    edits,      \* changes made so far
    faults,     \* the trouble of this behaviour
    active,     \* PowerNodeState: name of the active Uncore
    errors,     \* PowerNodeState: whether errors are listed
    seen,       \* the active name in the informer cache
    queued,     \* a reconcile is due
    rec         \* the reconcile under way

clusterVars == <<spec, matching, edits, faults>>
statusVars == <<active, errors, seen>>
vars == <<libraryVars, clusterVars, statusVars, queued, rec>>

NoSpec == [sys |-> Nil, dies |-> <<>>]
recIdle == [pc |-> "idle", sel |-> NoName, spec |-> NoSpec,
            conflict |-> FALSE, todo |-> {}, next |-> 1, failed |-> FALSE]

Init ==
    /\ uncore = InitTopology
    /\ sysfs = [d \in Dies |-> defaultUncore] /\ due = {} /\ half = NoDie
    /\ spec \in [Names -> Specs]
    /\ matching \in SUBSET Names
    /\ edits = 0
    /\ faults \in Faults
    /\ active = NoName /\ errors = FALSE /\ seen = NoName
    /\ queued = (matching # {})
    /\ rec = recIdle

-----------------------------------------------------------------------------
\* selectActiveOrOldest
selected ==
    IF matching = {} THEN NoName
    ELSE IF seen \in matching THEN seen
    ELSE CHOOSE n \in matching : \A m \in matching : n <= m

\* The calls that set an Uncore up, in their order.
calls(s) == (IF s.sys # Nil THEN <<[at |-> Host, freq |-> s.sys]>> ELSE <<>>) \o s.dies

\* Mutant of Begin: nothing is reset when no Uncore is left.
Begin_NoReset ==
    /\ rec.pc = "idle" /\ queued
    /\ queued' = FALSE
    /\ LET n == selected IN
       rec' = IF n = NoName
              THEN IF seen = NoName THEN recIdle ELSE [recIdle EXCEPT !.pc = "clear"]
              ELSE [recIdle EXCEPT !.pc = IF calls(spec[n]) = <<>> THEN "refuse" ELSE "reset",
                                   !.sel = n, !.spec = spec[n],
                                   !.conflict = matching # {n}, !.todo = Places]
    /\ UNCHANGED <<libraryVars, clusterVars, statusVars>>

\* Mutant of Begin: settings of an earlier Uncore are not reset.
Begin_NoApplyReset ==
    /\ rec.pc = "idle" /\ queued
    /\ queued' = FALSE
    /\ LET n == selected IN
       rec' = IF n = NoName
              THEN IF seen = NoName THEN recIdle
                   ELSE [recIdle EXCEPT !.pc = "reset", !.todo = Places]
              ELSE [recIdle EXCEPT !.pc = IF calls(spec[n]) = <<>> THEN "refuse" ELSE "apply",
                                   !.sel = n, !.spec = spec[n], !.conflict = matching # {n}]
    /\ UNCHANGED <<libraryVars, clusterVars, statusVars>>

\* Reads the Uncores and the active name, and decides what to do.
Begin ==
    /\ rec.pc = "idle" /\ queued
    /\ queued' = FALSE
    /\ LET n == selected IN
       rec' = IF n = NoName
              THEN IF seen = NoName THEN recIdle
                   ELSE [recIdle EXCEPT !.pc = "reset", !.todo = Places]
              ELSE [recIdle EXCEPT !.pc = IF calls(spec[n]) = <<>> THEN "refuse" ELSE "reset",
                                   !.sel = n, !.spec = spec[n],
                                   !.conflict = matching # {n}, !.todo = Places]
    /\ UNCHANGED <<libraryVars, clusterVars, statusVars>>

\* Every call of the Uncore has been made.
applied == rec.pc = "apply" /\ due = {} /\ rec.next > Len(calls(rec.spec))

\* The end of a reconcile; one that returns an error is retried.
Done == rec' = recIdle /\ UNCHANGED queued
Retry == rec' = recIdle /\ queued' = TRUE

\* resetUncoreSettings: the host, then every package with its dies behind it.
resetNext(s) ==
    /\ s \in rec.todo
    /\ IF Host \in rec.todo THEN s = Host
       ELSE LET left == {d \in rec.todo \cap Dies : packageOf(d) \notin rec.todo}
            IN  IF left # {} THEN s \in left ELSE s \in Packages

Reset(s) ==
    /\ rec.pc = "reset" /\ due = {} /\ resetNext(s)
    /\ SetUncore(s, Nil)
    /\ rec' = [rec EXCEPT !.todo = @ \ {s}]
    /\ UNCHANGED <<clusterVars, statusVars, queued>>

ResetDone ==
    /\ rec.pc = "reset" /\ due = {} /\ rec.todo = {}
    /\ rec' = [rec EXCEPT !.pc = IF rec.sel = NoName THEN "clear" ELSE "apply"]
    /\ UNCHANGED <<libraryVars, clusterVars, statusVars, queued>>

\* The next call of applyUncoreConfig, or its error.
Apply ==
    /\ rec.pc = "apply" /\ due = {}
    /\ rec.next <= Len(calls(rec.spec))
    /\ LET k == calls(rec.spec)[rec.next]
           u == NewUncore(k.freq)
           good == u # Nil /\ k.at \in Places
       IN  \/ /\ good
              /\ SetUncore(k.at, u)
              /\ rec' = [rec EXCEPT !.next = @ + 1]
           \/ /\ ~good
              /\ rec' = [rec EXCEPT !.next = @ + 1, !.failed = TRUE]
              /\ UNCHANGED libraryVars
    /\ UNCHANGED <<clusterVars, statusVars, queued>>

\* The call under way writes the next file.
Write(d) ==
    /\ writeMax(d) \/ writeMin(d)
    /\ UNCHANGED <<clusterVars, statusVars, queued, rec>>

\* It fails: a reset ends with the error, otherwise the error is noted and the next call made.
WriteFails ==
    /\ faults = "sysfs"
    /\ writeFails
    /\ IF rec.pc = "reset" THEN Retry
       ELSE rec' = [rec EXCEPT !.failed = TRUE] /\ UNCHANGED queued
    /\ UNCHANGED <<clusterVars, statusVars>>

\* The cache follows at once, unless it lags.
recordActive(n) == active' = n /\ seen' = IF faults = "lag" THEN seen ELSE n

\* Mutant of Report: errors are reported and not retried.
Report_NoRetry ==
    /\ applied
    /\ recordActive(rec.sel)
    /\ errors' = (rec.failed \/ rec.conflict)
    /\ Done
    /\ UNCHANGED <<libraryVars, clusterVars>>

\* Mutant of Report: conflicts are retried like errors.
Report_ConflictsRetried ==
    /\ applied
    /\ recordActive(rec.sel)
    /\ errors' = (rec.failed \/ rec.conflict)
    /\ IF rec.failed \/ rec.conflict THEN Retry ELSE Done
    /\ UNCHANGED <<libraryVars, clusterVars>>

\* updateUncoreInPowerNodeState after the last call.
Report ==
    /\ applied
    /\ recordActive(rec.sel)
    /\ errors' = (rec.failed \/ rec.conflict)
    /\ IF rec.failed THEN Retry ELSE Done
    /\ UNCHANGED <<libraryVars, clusterVars>>

\* An Uncore that asks for nothing is reported and retried; nothing was reset.
Refuse ==
    /\ rec.pc = "refuse"
    /\ recordActive(rec.sel)
    /\ errors' = TRUE
    /\ Retry
    /\ UNCHANGED <<libraryVars, clusterVars>>

\* removeUncoreFromPowerNodeState
Clear ==
    /\ rec.pc = "clear"
    /\ recordActive(NoName)
    /\ errors' = FALSE
    /\ Done
    /\ UNCHANGED <<libraryVars, clusterVars>>

StatusFails ==
    /\ faults = "requests"
    /\ \/ rec.pc \in {"refuse", "clear"}
       \/ applied
    /\ Retry
    /\ UNCHANGED <<libraryVars, clusterVars, statusVars>>

Reconcile ==
    \/ Begin \/ ResetDone \/ Apply \/ WriteFails \/ Report \/ Refuse \/ Clear \/ StatusFails
    \/ \E s \in Places : Reset(s)
    \/ \E d \in Dies : Write(d)

-----------------------------------------------------------------------------
\* Users, the informer cache and the process
Edit == edits < MaxEdits /\ edits' = edits + 1

\* An Uncore is created or changed, or starts to select the node.  (The webhook refuses
\* a second one for a node, a change of the node's labels does not.)
ApplyUncore(n, s) ==
    /\ Edit
    /\ n \notin matching \/ spec[n] # s
    /\ spec' = [spec EXCEPT ![n] = s]
    /\ matching' = matching \cup {n}
    /\ queued' = TRUE
    /\ UNCHANGED <<libraryVars, faults, statusVars, rec>>

\* An Uncore is deleted, or no longer selects the node.
DropUncore(n) ==
    /\ Edit
    /\ n \in matching
    /\ matching' = matching \ {n}
    /\ queued' = TRUE
    /\ UNCHANGED <<libraryVars, spec, faults, statusVars, rec>>

CatchUp ==
    /\ seen # active
    /\ seen' = active
    /\ UNCHANGED <<libraryVars, clusterVars, active, errors, queued, rec>>

\* The agent restarts, between two writes it may be, and forgets its settings; sysfs and
\* PowerNodeState stay.  Every
\* Uncore there is gets queued, one that does not select the node too.
Restart ==
    /\ faults = "restarts" /\ Edit
    /\ uncore' = InitTopology /\ due' = {} /\ half' = NoDie
    /\ seen' = active
    /\ queued' \in {matching # {}, TRUE}
    /\ rec' = recIdle
    /\ UNCHANGED <<sysfs, spec, matching, faults, active, errors>>

Rest == rec.pc = "idle" /\ ~queued
Wait == Rest /\ UNCHANGED vars

Next ==
    \/ Reconcile
    \/ \E n \in Names : DropUncore(n) \/ \E s \in Specs : ApplyUncore(n, s)
    \/ CatchUp \/ Restart \/ Wait

Spec == Init /\ [][Next]_vars

\* The worker goroutine is scheduled again and again.
FairSpec == Spec /\ WF_vars(Reconcile)

-----------------------------------------------------------------------------
RecTypes ==
    [pc: {"idle", "reset", "apply", "refuse", "clear"}, sel: Names \cup {NoName},
     spec: Specs \cup {NoSpec}, conflict: BOOLEAN, todo: SUBSET Places, next: Nat, failed: BOOLEAN]

\* The types of the state.
TypeOK ==
    /\ uncore \in [Places -> Freqs \cup {Nil}]
    /\ sysfs \in [Dies -> Freqs] /\ due \subseteq Dies /\ half \in due \cup {NoDie}
    /\ spec \in [Names -> Specs] /\ matching \subseteq Names
    /\ edits \in 0..MaxEdits /\ faults \in Faults
    /\ active \in Names \cup {NoName} /\ seen \in Names \cup {NoName}
    /\ errors \in BOOLEAN /\ queued \in BOOLEAN
    /\ rec \in RecTypes
    /\ rec.next \in 1..Len(calls(rec.spec)) + 1

\* What a spec wants of a die: the frequencies it gives to the longest path that leads to
\* the die, rounded down to what the driver takes.
wanted(s, d) ==
    LET given == {i \in DOMAIN calls(s) : calls(s)[i].at \in {Host, packageOf(d), d}}
        best == CHOOSE i \in given : \A j \in given : Len(calls(s)[j].at) <= Len(calls(s)[i].at)
        f == calls(s)[best].freq
    IN  IF given = {} THEN defaultUncore
        ELSE [min |-> (f.min \div Step) * Step, max |-> (f.max \div Step) * Step]

\* When the reconciler rests and an Uncore selects the node, PowerNodeState names one of
\* those, every die has exactly what that one wants of it, whatever was set before, failed
\* half-way or was lost in a restart, and errors are listed if and only if others compete.
DiesConfigured ==
    Rest /\ matching # {} =>
        /\ active \in matching
        /\ \A d \in Dies : sysfs[d] = wanted(spec[active], d)
        /\ errors <=> matching # {active}

\* When the reconciler rests and no Uncore selects the node, every die is back at the
\* limits of the hardware and PowerNodeState says nothing: while status writes succeed,
\* the cache has them, and the agent sees every deletion.
DiesReset ==
    Rest /\ matching = {} /\ faults \in {"none", "sysfs"} =>
        active = NoName /\ \A d \in Dies : sysfs[d] = defaultUncore

\* A die is outside the limits that the library has read in no state.  Its minimum is above
\* its maximum only between the two writes of a call, until the retry of a write that failed
\* or until the reconcile after a crash has been through; a crash between the two writes is
\* never repaired when the last Uncore goes before the agent is back.
LimitsHeld ==
    \A d \in Dies : /\ sysfs[d].min >= HWMin /\ sysfs[d].max <= HWMax
                    /\ sysfs[d].min > sysfs[d].max =>
                          \/ ~Rest /\ (d = half \/ faults \in {"sysfs", "restarts"})
                          \/ faults = "restarts" /\ matching = {}

\* A node whose Uncores ask only for what it has comes to rest after the last change.
UncoreSettles ==
    LET sound(s) == /\ calls(s) # <<>>
                    /\ \A i \in DOMAIN calls(s) : /\ calls(s)[i].at \in Places
                                                  /\ NewUncore(calls(s)[i].freq) # Nil
        calm == faults \in {"none", "lag", "restarts"} /\ \A n \in matching : sound(spec[n])
    IN  calm ~> (Rest \/ ~calm)

-----------------------------------------------------------------------------
(***************************************************************************)
(* The inductive invariant behind LimitsHeld, DiesReset and DiesConfigured.*)
(***************************************************************************)

\* What is asked of a place is never in the wrong order.
SettingsOrdered == \A s \in Places : uncore[s].min <= uncore[s].max

\* What a reconcile does, it does for an Uncore, or to take the last one down.
ReconcileSelects ==
    /\ rec.pc = "idle" => rec = recIdle
    /\ rec.pc \in {"apply", "refuse"} => rec.sel # NoName
    /\ rec.pc = "clear" => rec.sel = NoName
    /\ rec.sel # NoName => rec.spec \in Specs
    /\ rec.pc = "reset" => rec.next = 1 /\ ~rec.failed
    /\ rec.pc \notin {"reset", "apply"} => due = {}

\* The maximum of a die that is half written is the one that holds for it.
HalfWritten == half # NoDie => sysfs[half].max = getEffectiveUncore(uncore, half).max

\* Behind a reset nothing is asked of the places it has passed, and the dies it has written
\* for themselves are back at the limits of the hardware: a die is reset after its package, a package after the host.
ResetSoFar ==
    LET asDefault(passed) == /\ \A s \in Places : s \in passed => uncore[s] = Nil
                             /\ \A d \in Dies \ due : d \in passed => sysfs[d] = defaultUncore
    IN  /\ rec.pc = "reset" =>
              /\ asDefault(Places \ rec.todo)
              /\ Host \in rec.todo => rec.todo = Places /\ due = {}
              /\ \A d \in Dies : d \notin rec.todo => packageOf(d) \notin rec.todo
        /\ rec.pc = "clear" => asDefault(Places)

\* Without an error so far, exactly the places of the calls that were made have settings,
\* and every die that has not still to be written follows them.
AppliedSoFar ==
    rec.pc = "apply" /\ ~rec.failed =>
        LET made == {calls(rec.spec)[i] : i \in 1..rec.next - 1} IN
        /\ \A k \in made : /\ k.at \in Places /\ NewUncore(k.freq) # Nil
                           /\ uncore[k.at] = NewUncore(k.freq)
        /\ \A s \in Places : (\A k \in made : k.at # s) => uncore[s] = Nil
        /\ \A d \in Dies \ due : sysfs[d] = getEffectiveUncore(uncore, d)

\* What the reconcile under way has read still holds, or it runs once more.
ReadsCurrent ==
    ~queued =>
        /\ rec.sel # NoName =>
              /\ rec.sel \in matching /\ rec.spec = spec[rec.sel]
              /\ rec.conflict <=> matching # {rec.sel}
        /\ rec.pc \in {"reset", "clear"} /\ rec.sel = NoName => matching = {}
        /\ rec.pc = "idle" /\ matching = {} /\ faults \in {"none", "sysfs"} => active = NoName

\* While PowerNodeState names no Uncore, and its writes succeed and are seen, none has left
\* a trace.
NothingLeft ==
    faults \in {"none", "sysfs"} =>
        /\ seen = active
        /\ active = NoName /\ rec.pc # "apply" =>
              /\ \A s \in Places : uncore[s] \in {Nil, defaultUncore}
              /\ \A d \in Dies : sysfs[d] = defaultUncore

IInv ==
    /\ TypeOK /\ SettingsOrdered /\ ReconcileSelects /\ HalfWritten /\ ResetSoFar /\ AppliedSoFar /\ ReadsCurrent
    /\ NothingLeft /\ LimitsHeld /\ DiesConfigured

=============================================================================
