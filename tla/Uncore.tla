------------------------------- MODULE Uncore -------------------------------
(***************************************************************************)
(* Uncore frequencies in the power library: what is asked of the host, of  *)
(* packages and of dies, and the limits each die has in sysfs.             *)
(*                                                                         *)
(* A place of the topology is a path: <<>> the host, <<p>> package p and   *)
(* <<p, d>> die d of package p.  The frequencies of a place are Nil until  *)
(* they are set; a die follows the most specific place that has some.      *)
(***************************************************************************)
EXTENDS Integers, Sequences

CONSTANTS
    CPUs,        \* ids of the online CPUs
    packageID,   \* topology/physical_package_id of every CPU
    dieID,       \* topology/die_id of every CPU
    HWMin,       \* initial_min_freq_khz of die 0 of package 0, and ...
    HWMax,       \* ... its initial_max_freq_khz: taken for the limits of every die
    Step         \* the driver takes multiples of this (100 000 kHz)

ASSUME LimitsAssumption ==
    /\ HWMin \in Nat \ {0} /\ HWMax \in Nat /\ Step \in Nat \ {0}
    /\ HWMin <= HWMax
    /\ HWMin % Step = 0   \* the hardware counts in steps
ASSUME TopologyAssumption == packageID \in [CPUs -> Nat] /\ dieID \in [CPUs -> Nat]

Host == <<>>
Packages == {<<packageID[c]>> : c \in CPUs}
Dies == {<<packageID[c], dieID[c]>> : c \in CPUs}
Places == {Host} \cup Packages \cup Dies

packageOf(d) == <<d[1]>>

\* The dies of a place, which SetUncore of that place writes to.
diesOf(s) ==
    IF s = Host THEN Dies ELSE IF s \in Packages THEN {d \in Dies : packageOf(d) = s} ELSE {s}

NoDie == <<>>

Nil == [min |-> 0, max |-> 0]

\* initUncore reads it of one die; dies with limits of their own are not told apart.
defaultUncore == [min |-> HWMin, max |-> HWMax]
Freqs == [min: HWMin..HWMax, max: HWMin..HWMax]

VARIABLES
    uncore,   \* what is asked of every place
    sysfs,    \* min_freq_khz and max_freq_khz of every die
    due,      \* the dies that the call under way has still to write
    half      \* the die of which it has written the maximum and not yet the minimum

libraryVars == <<uncore, sysfs, due, half>>

\* discoverTopology
InitTopology == [s \in Places |-> IF s = Host THEN defaultUncore ELSE Nil]

normalizeUncoreFreq(f) == f - (f % Step)

\* What the library makes of a pair of frequencies; Nil stands for an error.
NewUncore(u) ==
    IF HWMin <= u.min /\ u.max <= HWMax /\ u.min <= u.max
    THEN [min |-> normalizeUncoreFreq(u.min), max |-> normalizeUncoreFreq(u.max)]
    ELSE Nil

\* The settings that hold for a die.
getEffectiveUncore(asked, d) ==
    IF asked[d] # Nil THEN asked[d]
    ELSE IF asked[packageOf(d)] # Nil THEN asked[packageOf(d)]
    ELSE IF asked[Host] # Nil THEN asked[Host]
    ELSE defaultUncore

\* SetUncore of a topology, package or die, up to the first write.
SetUncore(s, u) ==
    /\ uncore' = [uncore EXCEPT ![s] = u]
    /\ due' = diesOf(s)
    /\ UNCHANGED <<sysfs, half>>

\* A call goes package by package, in any order, and so it does with the dies of each.
inTurn(d) ==
    \A e \in due, f \in Dies :
        packageOf(e) = packageOf(f) /\ packageOf(e) # packageOf(d) => f \in due

\* uncoreFreq.write: the maximum of a die ...
writeMax(d) ==
    /\ half = NoDie /\ d \in due /\ inTurn(d)
    /\ half' = d
    /\ sysfs' = [sysfs EXCEPT ![d].max = getEffectiveUncore(uncore, d).max]
    /\ UNCHANGED <<uncore, due>>

\* ... and then its minimum.
writeMin(d) ==
    /\ half = d /\ d \in due
    /\ half' = NoDie /\ due' = due \ {d}
    /\ sysfs' = [sysfs EXCEPT ![d].min = getEffectiveUncore(uncore, d).min]
    /\ UNCHANGED uncore

\* A write fails, and the call returns its error with the other dies not written.
writeFails ==
    /\ due # {}
    /\ due' = {} /\ half' = NoDie
    /\ UNCHANGED <<uncore, sysfs>>


=============================================================================
