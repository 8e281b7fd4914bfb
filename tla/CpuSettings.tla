----------------------------- MODULE CpuSettings -----------------------------
(***************************************************************************)
(* What a PowerProfile comes to on the CPUs of its pool: the validation of *)
(* its values, the frequencies and C-states they stand for on each type of *)
(* CPU, the order of the sysfs writes, and the number of CPUs the node     *)
(* offers for it.  Locks, pools and reconciles are in PowerLibrary and     *)
(* NodeAgent; this module is about the values.                             *)
(*                                                                         *)
(* Frequencies of CPUs are in kHz, those of profiles in MHz: Unit kHz are  *)
(* one MHz.  A value of type "string" is a percentage or, as the CRD's     *)
(* pattern admits it, digits without the "%".                              *)
(***************************************************************************)
EXTENDS Integers, FiniteSets, FiniteSetsExt

CONSTANTS
    Cpus,
    Hardware,     \* machines: frequency range, C-states and EPP support
    Specs,        \* PowerProfile specs that users write
    Governors,    \* availableGovs
    Unit,         \* kHz in a MHz (1000)
    MaxProfiles,  \* bound: profiles used one after the other
    MaxFailures   \* bound: sysfs writes that fail

Nil == [type |-> "nil", val |-> 0, percent |-> FALSE]
IntValue(v) == [type |-> "int", val |-> v, percent |-> FALSE]
Percent(v) == [type |-> "string", val |-> v, percent |-> TRUE]
Digits(v) == [type |-> "string", val |-> v, percent |-> FALSE]
NoLatency == -1
NoNames == <<>>
NoProfile == [min |-> Nil, max |-> Nil, gov |-> "none", epp |-> "", latency |-> NoLatency,
              names |-> NoNames, capacity |-> Nil]

\* What the CRD admits as a value: its pattern has digits only, and no percentage above 100.
IsValue(v) ==
    /\ v \in [type: {"nil", "int", "string"}, val: Int, percent: BOOLEAN]
    /\ v.type = "nil" => v = Nil
    /\ v.type = "string" => v.val \in Nat
    /\ v.percent => v.type = "string" /\ v.val \in 0..100

ASSUME CpusAssumption == IsFiniteSet(Cpus) /\ Cpus # {}
ASSUME UnitAssumption == Unit \in Nat \ {0}
ASSUME BoundsAssumption == MaxProfiles \in Nat /\ MaxFailures \in Nat
ASSUME GovernorsAssumption == {"", "none"} \cap Governors = {}
\* The frequencies of a CPU span a MHz or more.
ASSUME HardwareAssumption ==
    \A h \in Hardware : \A c \in Cpus :
        /\ h.min[c] \in Nat /\ h.max[c] \in Nat /\ 0 < h.min[c] /\ h.min[c] + Unit <= h.max[c]
        /\ h.enabled[c] \in [DOMAIN h.latency[c] -> BOOLEAN]
ASSUME SpecsAssumption ==
    \A s \in Specs :
        /\ s = [min |-> s.min, max |-> s.max, gov |-> s.gov, epp |-> s.epp, latency |-> s.latency,
                names |-> s.names, capacity |-> s.capacity]
        /\ IsValue(s.min) /\ IsValue(s.max) /\ IsValue(s.capacity)
        /\ \A n \in DOMAIN s.names : s.names[n] \in BOOLEAN

VARIABLES
    hw,        \* the machine
    spec,      \* the PowerProfile the pool's profile was made from, or NoProfile
    profile,   \* powerProfile of the pool: spec with the limits NewPowerProfile gave it
    sysfs,     \* the files of every CPU
    todo,      \* CPUs SetPowerProfile has still to consolidate
    applied,   \* CPUs consolidated with the current profile
    error,     \* why SetPowerProfile stopped
    offered,   \* the extended resource of the profile on the node; 0: none
    uses, failures

vars == <<hw, spec, profile, sysfs, todo, applied, error, offered, uses, failures>>

\* coreTypes.getAbsMinMaxFreq
systemMin == Min({hw.min[c] : c \in Cpus})
systemMax == Max({hw.max[c] : c \in Cpus})
cstatesOf(c) == DOMAIN hw.latency[c]

-----------------------------------------------------------------------------
\* Validation

AdjustMinMaxFreq(s) ==
    [min |-> IF s.min # Nil THEN s.min
             ELSE IF s.max.type = "int" THEN IntValue(systemMin \div Unit) ELSE Percent(0),
     max |-> IF s.max # Nil THEN s.max
             ELSE IF s.min.type = "int" THEN IntValue(systemMax \div Unit) ELSE Percent(100)]

\* An EPP the machine does not have is dropped.
actualEpp(s) == IF hw.epp THEN s.epp ELSE ""

\* Mutant of validPStates: the limits of the machine are not looked at.
validPStates_AnyRange(s) ==
    LET f == AdjustMinMaxFreq(s)
        gov == IF s.gov = "" THEN "powersave" ELSE s.gov
    IN  /\ f.min.type = f.max.type
        /\ f.max.val >= f.min.val
        /\ gov \in Governors
        /\ actualEpp(s) # "" /\ gov = "performance" => s.epp = "performance"

validPStates(s) ==
    LET f == AdjustMinMaxFreq(s)
        gov == IF s.gov = "" THEN "powersave" ELSE s.gov
    IN  /\ f.min.type = f.max.type
        /\ f.max.val >= f.min.val
        /\ f.min.type = "int" => /\ f.min.val >= systemMin \div Unit
                                 /\ f.max.val <= systemMax \div Unit
        /\ gov \in Governors
        /\ actualEpp(s) # "" /\ gov = "performance" => s.epp = "performance"

validCStates(s) ==
    /\ s.names = NoNames \/ s.latency = NoLatency
    /\ DOMAIN s.names \subseteq UNION {cstatesOf(c) : c \in Cpus}

\* The profile in kHz.
NewPowerProfile(s) ==
    LET f == AdjustMinMaxFreq(s)
        kHz(v) == IF v.type = "int" THEN IntValue(v.val * Unit) ELSE v
    IN  [s EXCEPT !.min = kHz(f.min), !.max = kHz(f.max), !.epp = actualEpp(s)]

-----------------------------------------------------------------------------
\* The settings of a CPU

defaultPStates(c) ==
    [min |-> IntValue(hw.min[c]), max |-> IntValue(hw.max[c]), gov |-> "powersave",
     epp |-> IF hw.epp THEN "power" ELSE ""]

pstatesOf(c) ==
    IF profile = NoProfile THEN defaultPStates(c)
    ELSE [min |-> profile.min, max |-> profile.max, gov |-> profile.gov, epp |-> profile.epp]

\* Mutant of getFreqFromIntOrString: the scaled value is rounded down.
getFreqFromIntOrString_Floor(v, lo, hi) ==
    IF v.type = "int" THEN v.val ELSE lo + (v.val * (hi - lo)) \div 100

\* A percentage of the CPU's range, rounded up.
getFreqFromIntOrString(v, lo, hi) ==
    IF v.type = "int" THEN v.val ELSE lo + (v.val * (hi - lo) + 99) \div 100

\* The limits to write: brought into the CPU's range when in the machine's.
toScale(c) ==
    LET p == pstatesOf(c)
        min == getFreqFromIntOrString(p.min, hw.min[c], hw.max[c])
        max == getFreqFromIntOrString(p.max, hw.min[c], hw.max[c])
    IN  [min |-> IF min < hw.min[c] /\ min >= systemMin THEN hw.min[c] ELSE min,
         max |-> IF max > hw.max[c] /\ max <= systemMax THEN hw.max[c] ELSE max]

\* Mutant of canScale: the range of the CPU is not looked at.
canScale_AnyRange(c) ==
    LET p == pstatesOf(c) IN
    \A v \in {p.min, p.max} : v.type = "string" => v.percent

\* Digits are not a percentage, and limits out of the CPU's range are not written.
canScale(c) ==
    LET p == pstatesOf(c) IN
    /\ \A v \in {p.min, p.max} : v.type = "string" => v.percent
    /\ toScale(c).max <= hw.max[c] /\ toScale(c).min >= hw.min[c]

\* Which C-states of the CPU the profile enables.
desiredCStates(c) ==
    [n \in cstatesOf(c) |->
        IF profile # NoProfile /\ profile.latency # NoLatency THEN hw.latency[c][n] <= profile.latency
        ELSE IF n \in DOMAIN profile.names THEN profile.names[n]
        ELSE hw.enabled[c][n]]

\* The files after the first n of five writes, and C-states as far as S.  An empty
\* EPP is not written, and to write an empty governor changes nothing.
afterWrites(c, n, S) ==
    LET p == pstatesOf(c) IN
    [gov |-> IF n >= 1 /\ p.gov # "" THEN p.gov ELSE sysfs[c].gov,
     epp |-> IF n >= 2 /\ p.epp # "" THEN p.epp ELSE sysfs[c].epp,
     max |-> IF n >= 3 THEN toScale(c).max ELSE sysfs[c].max,
     min |-> IF n >= 4 THEN toScale(c).min ELSE sysfs[c].min,
     cstates |-> [s \in cstatesOf(c) |-> IF s \in S THEN desiredCStates(c)[s] ELSE sysfs[c].cstates[s]]]

\* consolidate, which makes all its writes
Consolidate(c) ==
    /\ c \in todo /\ canScale(c)
    /\ sysfs' = [sysfs EXCEPT ![c] = afterWrites(c, 5, cstatesOf(c))]
    /\ todo' = todo \ {c} /\ applied' = applied \cup {c}
    /\ UNCHANGED <<hw, spec, profile, error, offered, uses, failures>>

\* consolidate refuses the frequencies, the governor and the EPP being written.
ConsolidateRefuses(c) ==
    /\ c \in todo /\ ~canScale(c)
    /\ sysfs' = [sysfs EXCEPT ![c] = afterWrites(c, 2, {})]
    /\ todo' = {} /\ error' = "refused"
    /\ UNCHANGED <<hw, spec, profile, applied, offered, uses, failures>>

\* The write after the first n fails; C-states are written in any order.
ConsolidateFails(c, n, S) ==
    /\ c \in todo /\ failures < MaxFailures
    /\ n = 1 => pstatesOf(c).epp # ""
    /\ n >= 2 => canScale(c)
    /\ n < 4 => S = {}
    /\ n = 4 => S # cstatesOf(c)
    /\ sysfs' = [sysfs EXCEPT ![c] = afterWrites(c, n, S)]
    /\ todo' = {} /\ error' = "write"
    /\ failures' = failures + 1
    /\ UNCHANGED <<hw, spec, profile, applied, offered, uses>>

-----------------------------------------------------------------------------
\* The reconcile of the profile, as far as values go

\* A new spec: refused, or SetPowerProfile begins.
UseProfile(s) ==
    /\ todo = {} /\ uses < MaxProfiles
    /\ IF validPStates(s) /\ validCStates(s)
       THEN /\ spec' = s /\ profile' = NewPowerProfile(s)
            /\ todo' = Cpus /\ applied' = {} /\ error' = "none"
            /\ uses' = uses + 1
       ELSE error' = "invalid" /\ UNCHANGED <<spec, profile, todo, applied, uses>>
    /\ UNCHANGED <<hw, sysfs, offered, failures>>

\* The profile is deleted and its CPUs go to a pool without one.
DropProfile ==
    /\ todo = {} /\ profile # NoProfile
    /\ spec' = NoProfile /\ profile' = NoProfile
    /\ todo' = Cpus /\ applied' = {} /\ error' = "none"
    /\ UNCHANGED <<hw, sysfs, offered, uses, failures>>

\* A reconcile that failed on a CPU is tried again; a refused spec stays refused.
Retry ==
    /\ todo = {} /\ error \in {"write", "refused"}
    /\ todo' = Cpus /\ applied' = {} /\ error' = "none"
    /\ UNCHANGED <<hw, spec, profile, sysfs, offered, uses, failures>>

\* CPUs offered: a number, or a percentage rounded down; all of them when that is
\* none or cannot be read.
capacity(v) ==
    LET total == Cardinality(Cpus)
        n == IF v.type = "int" THEN v.val ELSE IF v.percent THEN (v.val * total) \div 100 ELSE 0
    IN  IF n > 0 THEN n ELSE total

\* Mutant of ensureExtendedResources: an error of SetPowerProfile is no obstacle.
ensureExtendedResources_Early ==
    /\ todo = {} /\ profile # NoProfile
    /\ offered' = capacity(profile.capacity)
    /\ UNCHANGED <<hw, spec, profile, sysfs, todo, applied, error, uses, failures>>

ensureExtendedResources ==
    /\ todo = {} /\ error = "none" /\ profile # NoProfile
    /\ offered' = capacity(profile.capacity)
    /\ UNCHANGED <<hw, spec, profile, sysfs, todo, applied, error, uses, failures>>

removeExtendedResources ==
    /\ todo = {} /\ error = "none" /\ profile = NoProfile
    /\ offered' = 0
    /\ UNCHANGED <<hw, spec, profile, sysfs, todo, applied, error, uses, failures>>

Init ==
    /\ hw \in Hardware
    /\ spec = NoProfile /\ profile = NoProfile
    /\ sysfs = [c \in Cpus |-> [gov |-> "schedutil", epp |-> IF hw.epp THEN "balance" ELSE "",
                                max |-> hw.max[c], min |-> hw.min[c], cstates |-> hw.enabled[c]]]
    /\ todo = {} /\ applied = {} /\ error = "none" /\ offered = 0
    /\ uses = 0 /\ failures = 0

Next ==
    \/ \E s \in Specs : UseProfile(s)
    \/ \E c \in Cpus : Consolidate(c) \/ ConsolidateRefuses(c)
    \/ \E c \in Cpus, n \in 0..4 : \E S \in SUBSET cstatesOf(c) : ConsolidateFails(c, n, S)
    \/ DropProfile \/ Retry \/ ensureExtendedResources \/ removeExtendedResources

Spec == Init /\ [][Next]_vars

-----------------------------------------------------------------------------
\* The types of the state.
TypeOK ==
    /\ hw \in Hardware /\ spec \in Specs \cup {NoProfile}
    /\ profile.min.val \in Nat /\ profile.max.val \in Nat
    /\ profile.gov \in Governors \cup {"", "none"}
    /\ DOMAIN sysfs = Cpus
    /\ \A c \in Cpus : /\ sysfs[c].min \in Nat /\ sysfs[c].max \in Nat
                       /\ sysfs[c].cstates \in [cstatesOf(c) -> BOOLEAN]
    /\ todo \subseteq Cpus /\ applied \subseteq Cpus
    /\ error \in {"none", "invalid", "refused", "write"}
    /\ offered \in Nat /\ uses \in 0..MaxProfiles /\ failures \in 0..MaxFailures

\* What a spec means on a CPU, said of the result: a percentage is the least frequency
\* that far up the CPU's range, a number is that frequency as far as the CPU goes, and
\* nothing is the end of the range, or of the last whole MHz in it.
meansMin(c, f) ==
    LET lo == hw.min[c]  hi == hw.max[c]  v == spec.min.val IN
    CASE spec.min.type = "string" -> f = Min({g \in lo..hi : 100 * (g - lo) >= v * (hi - lo)})
      [] spec.min.type = "int" -> f = Max({v * Unit, lo})
      [] OTHER -> f = lo

meansMax(c, f) ==
    LET lo == hw.min[c]  hi == hw.max[c]  v == spec.max.val IN
    CASE spec.max.type = "string" -> f = Min({g \in lo..hi : 100 * (g - lo) >= v * (hi - lo)})
      [] spec.max.type = "int" -> f = Min({v * Unit, hi})
      [] OTHER -> f \in {hi, Min({hi, Unit * (systemMax \div Unit)})}

meansCState(c, n, on) ==
    CASE spec.latency # NoLatency -> on <=> hw.latency[c][n] <= spec.latency
      [] n \in DOMAIN spec.names -> on = spec.names[n]
      [] OTHER -> on = hw.enabled[c][n]

\* A CPU that consolidate left without an error has what the profile's spec means on a
\* CPU of its type, and the defaults when the pool has no profile, whatever it had
\* before and wherever earlier writes stopped.  A governor or an EPP the profile does
\* not name stays that of the profile before: nothing is said of those.
SettingsMatch ==
    \A c \in applied :
        /\ meansMin(c, sysfs[c].min) /\ meansMax(c, sysfs[c].max)
        /\ \A n \in cstatesOf(c) : meansCState(c, n, sysfs[c].cstates[n])
        /\ spec = NoProfile => sysfs[c].gov = "powersave" /\ (hw.epp => sysfs[c].epp = "power")
        /\ spec.gov \in Governors => sysfs[c].gov = spec.gov
        /\ hw.epp /\ spec.epp # "" => sysfs[c].epp = spec.epp

\* No write puts the minimum of a CPU below its range or its maximum above it, whatever
\* is requested and wherever a consolidation stops; and a consolidated CPU has its minimum
\* below its maximum, unless a number is asked for that is out of all its frequencies.
InRange ==
    \A c \in Cpus :
        /\ sysfs[c].min >= hw.min[c] /\ sysfs[c].max <= hw.max[c]
        /\ c \in applied => \/ sysfs[c].min <= sysfs[c].max
                            \/ spec.min.type = "int" /\ spec.min.val * Unit > hw.max[c]
                            \/ spec.max.type = "int" /\ spec.max.val * Unit < hw.min[c]

\* A profile that validation accepts is applied to every type of CPU, however they
\* differ.  Two are not: one whose limits are digits in quotes, and one whose minimum
\* in MHz, given or derived, is that of a machine whose minimum is no whole MHz.
AcceptedApplies ==
    error = "refused" =>
        \/ \E v \in {spec.min, spec.max} : v.type = "string" /\ ~v.percent
        \/ profile.min.type = "int" /\ profile.min.val < systemMin /\ systemMin % Unit # 0

\* The node offers CPUs for a profile once all the pool's CPUs have its settings, at
\* least one, and no more than the percentage asked for, unless that is less than one.
OfferedWhenApplied ==
    [][offered' # offered /\ offered' # 0 =>
        LET v == spec.capacity  total == Cardinality(Cpus) IN
        /\ applied = Cpus
        /\ offered' >= 1
        /\ v.percent /\ v.val * total >= 100 => offered' * 100 \in (v.val * total - 99)..(v.val * total)]_vars

-----------------------------------------------------------------------------
(***************************************************************************)
(* The inductive invariant behind the properties above.                    *)
(***************************************************************************)

\* The pool has the profile that was made of an accepted spec.
Accepted ==
    IF spec = NoProfile THEN profile = NoProfile
    ELSE validPStates(spec) /\ validCStates(spec) /\ profile = NewPowerProfile(spec)

\* To consolidate a CPU again would change nothing.
Consolidated == \A c \in applied : canScale(c) /\ sysfs[c] = afterWrites(c, 5, cstatesOf(c))

\* SetPowerProfile leaves no CPU out.
Progress ==
    /\ todo \cap applied = {}
    /\ error = "none" /\ profile # NoProfile => todo \cup applied = Cpus

\* The part of InRange that every write keeps.
LimitsKept == \A c \in Cpus : sysfs[c].min >= hw.min[c] /\ sysfs[c].max <= hw.max[c]

IInv == TypeOK /\ Accepted /\ Consolidated /\ Progress /\ LimitsKept /\ AcceptedApplies

=============================================================================
