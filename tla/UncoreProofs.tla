---------------------------- MODULE UncoreProofs ----------------------------
(***************************************************************************)
(* UncoreController for every topology, every limits and step of the       *)
(* uncore driver, and every set of Uncores that the webhook admits.        *)
(***************************************************************************)
EXTENDS UncoreController, SequenceTheorems, WellFoundedInduction, TLAPS

-----------------------------------------------------------------------------
(***************************************************************************)
(* The arithmetic of frequencies                                           *)
(***************************************************************************)

LEMMA Division ==
    ASSUME NEW a \in Int, NEW b \in Nat \ {0}
    PROVE  a \div b \in Int /\ a = b * (a \div b) + (a % b) /\ a % b \in 0..(b - 1)
  OBVIOUS

LEMMA ModBounds ==
    ASSUME NEW a \in Nat
    PROVE  /\ a % Step \in 0..Step - 1 /\ a \div Step \in Nat
           /\ a = Step * (a \div Step) + (a % Step)
<1> DEFINE q == a \div Step
           r == a % Step
<1>1. Step \in Nat \ {0} /\ r \in 0..Step - 1 /\ q \in Int /\ a = Step * q + r
  <2>1. a \in Int /\ Step \in Nat \ {0}
    BY LimitsAssumption
  <2> QED
    BY <2>1, Division
<1> SUFFICES q >= 0
  BY <1>1
<1> HIDE DEF q, r
<1>2. ASSUME q <= -1 PROVE FALSE
  <2>1. Step * q <= Step * (-1)
    BY <1>1, <1>2
  <2> QED
    BY <1>1, <2>1
<1> QED
  BY <1>1, <1>2

\* Rounding down to a step keeps the order of frequencies.
LEMMA RoundingMonotone ==
    ASSUME NEW a \in Nat, NEW b \in Nat, a <= b
    PROVE  normalizeUncoreFreq(a) <= normalizeUncoreFreq(b)
<1> DEFINE q == a \div Step
           r == b \div Step
<1>1. Step \in Nat /\ Step > 0 /\ q \in Nat /\ r \in Nat
  BY ModBounds, LimitsAssumption
<1>2. normalizeUncoreFreq(a) = Step * q /\ normalizeUncoreFreq(b) = Step * r
  BY ModBounds, LimitsAssumption DEF normalizeUncoreFreq
<1>3. Step * q <= b /\ b < Step * r + Step
  BY ModBounds, LimitsAssumption
<1>4. q <= r
  <2> SUFFICES ASSUME q > r PROVE FALSE
    BY <1>1
  <2> HIDE DEF q, r
  <2>1. q >= r + 1
    BY <1>1
  <2>2. Step * q >= Step * (r + 1)
    BY <1>1, <2>1
  <2>3. Step * (r + 1) = Step * r + Step
    BY <1>1
  <2>4. Step * q \in Int /\ Step * r \in Int
    BY <1>1
  <2> QED
    BY <1>1, <1>3, <2>2, <2>3, <2>4
<1> HIDE DEF q, r
<1> QED
  BY <1>1, <1>2, <1>4

\* The library accepts a pair only if the pair it makes of it is in order and within the
\* limits of the hardware.
LEMMA NewUncoreInLimits ==
    ASSUME NEW u \in Pairs
    PROVE  /\ NewUncore(u) \in Freqs \cup {Nil}
           /\ NewUncore(u).min <= NewUncore(u).max
           /\ NewUncore(u) # Nil =>
                 NewUncore(u) = [min |-> (u.min \div Step) * Step, max |-> (u.max \div Step) * Step]
<1>1. CASE HWMin <= u.min /\ u.max <= HWMax /\ u.min <= u.max
  <2>1. u.min \in Nat /\ u.max \in Nat
    BY DEF Pairs
  <2>2. normalizeUncoreFreq(HWMin) = HWMin
    BY LimitsAssumption DEF normalizeUncoreFreq
  <2>3. /\ normalizeUncoreFreq(u.min) = (u.min \div Step) * Step
        /\ normalizeUncoreFreq(u.max) = (u.max \div Step) * Step
    <3>1. \A a \in Nat : normalizeUncoreFreq(a) = (a \div Step) * Step
      BY ModBounds, LimitsAssumption DEF normalizeUncoreFreq
    <3> QED
      BY <2>1, <3>1
  <2>4. /\ normalizeUncoreFreq(u.min) \in Int /\ normalizeUncoreFreq(u.min) <= u.min
        /\ normalizeUncoreFreq(u.max) \in Int /\ normalizeUncoreFreq(u.max) <= u.max
    BY <2>1, ModBounds, LimitsAssumption DEF normalizeUncoreFreq
  <2>5. /\ HWMin <= normalizeUncoreFreq(u.min) /\ HWMin <= normalizeUncoreFreq(u.max)
        /\ normalizeUncoreFreq(u.min) <= normalizeUncoreFreq(u.max)
    <3>1. HWMin \in Nat /\ HWMin <= u.max
      BY <1>1, <2>1, LimitsAssumption
    <3> QED
      BY <1>1, <2>1, <2>2, <3>1, RoundingMonotone
  <2>6. normalizeUncoreFreq(u.min) \in HWMin..HWMax /\ normalizeUncoreFreq(u.max) \in HWMin..HWMax
    BY <1>1, <2>1, <2>4, <2>5, LimitsAssumption
  <2> QED
    BY <1>1, <2>3, <2>5, <2>6 DEF NewUncore, Freqs
<1>2. CASE ~(HWMin <= u.min /\ u.max <= HWMax /\ u.min <= u.max)
  BY <1>2 DEF NewUncore, Nil
<1> QED
  BY <1>1, <1>2

\* Nil is no pair of frequencies, the limits of the hardware are one.
LEMMA FreqsFacts ==
    /\ Nil \notin Freqs /\ Nil.min = 0 /\ Nil.max = 0
    /\ defaultUncore \in Freqs /\ defaultUncore.min <= defaultUncore.max
    /\ \A u \in Freqs : u.min \in Int /\ u.max \in Int /\ HWMin <= u.min /\ u.max <= HWMax
  BY LimitsAssumption DEF Nil, Freqs, defaultUncore

-----------------------------------------------------------------------------
(***************************************************************************)
(* The topology                                                            *)
(***************************************************************************)

LEMMA PlacesFacts ==
    /\ Host \in Places /\ Host \notin Packages /\ Host \notin Dies
    /\ Packages \subseteq Places /\ Dies \subseteq Places
    /\ \A d \in Dies : d \notin Packages /\ packageOf(d) \in Packages
    /\ Len(Host) = 0 /\ \A d \in Dies : Len(packageOf(d)) = 1 /\ Len(d) = 2
<1>1. ASSUME NEW d \in Dies
      PROVE  /\ Len(d) = 2 /\ Len(packageOf(d)) = 1 /\ packageOf(d) \in Packages
             /\ d # Host
  <2>1. PICK c \in CPUs : d = <<packageID[c], dieID[c]>>
    BY DEF Dies
  <2>2. d[1] = packageID[c]
    BY <2>1
  <2> QED
    BY <2>1, <2>2 DEF packageOf, Packages, Host
<1>2. \A p \in Packages : Len(p) = 1 /\ p # Host
  BY DEF Packages, Host
<1>3. Len(Host) = 0
  BY DEF Host
<1> QED
  BY <1>1, <1>2, <1>3 DEF Places

\* The dies of a place are those whose settings may come from it.
LEMMA DiesOfFacts ==
    ASSUME NEW s \in Places
    PROVE  /\ diesOf(s) \subseteq Dies
           /\ \A d \in Dies : d \in diesOf(s) <=> s \in {Host, packageOf(d), d}
  BY PlacesFacts DEF diesOf, Places, packageOf

\* What a die follows is one of the settings that lead to it, in order and in the limits.
LEMMA EffectiveFacts ==
    ASSUME NEW asked \in [Places -> Freqs \cup {Nil}], NEW d \in Dies
    PROVE  /\ getEffectiveUncore(asked, d) \in Freqs
           /\ (\A s \in Places : asked[s].min <= asked[s].max) =>
                 getEffectiveUncore(asked, d).min <= getEffectiveUncore(asked, d).max
           /\ (\A s \in {Host, packageOf(d), d} : asked[s] \in {Nil, defaultUncore}) =>
                 getEffectiveUncore(asked, d) = defaultUncore
  BY PlacesFacts, FreqsFacts DEF getEffectiveUncore

-----------------------------------------------------------------------------
(***************************************************************************)
(* The effect of a call of the library                                     *)
(***************************************************************************)

Library == /\ uncore \in [Places -> Freqs \cup {Nil}] /\ sysfs \in [Dies -> Freqs]
           /\ due \subseteq Dies /\ half \in due \cup {NoDie}

LEMMA NoDieFacts == NoDie \notin Dies
  BY PlacesFacts DEF NoDie, Host

\* A call asks something of its place and has the dies of it, and no others, to write.
LEMMA SetUncoreEffect ==
    ASSUME Library, SettingsOrdered, NEW s \in Places, NEW u \in Freqs \cup {Nil}, u.min <= u.max,
           due = {}, SetUncore(s, u)
    PROVE  /\ Library' /\ SettingsOrdered' /\ HalfWritten'
           /\ uncore'[s] = u /\ \A t \in Places \ {s} : uncore'[t] = uncore[t]
           /\ due' \subseteq Dies /\ \A d \in Dies : d \in due' <=> s \in {Host, packageOf(d), d}
           /\ UNCHANGED sysfs
<1>1. /\ uncore' \in [Places -> Freqs \cup {Nil}] /\ SettingsOrdered'
      /\ uncore'[s] = u /\ \A t \in Places \ {s} : uncore'[t] = uncore[t]
  BY DEF SetUncore, Library, SettingsOrdered
<1>2. half = NoDie
  BY DEF Library
<1> QED
  BY <1>1, <1>2, DiesOfFacts DEF SetUncore, Library, HalfWritten

\* A write changes one die, which has what holds for it once both files are written.
LEMMA WriteEffect ==
    ASSUME Library, SettingsOrdered, HalfWritten, NEW d \in Dies, writeMax(d) \/ writeMin(d)
    PROVE  /\ Library' /\ SettingsOrdered' /\ HalfWritten' /\ UNCHANGED uncore
           /\ getEffectiveUncore(uncore, d) \in Freqs
           /\ getEffectiveUncore(uncore, d).min <= getEffectiveUncore(uncore, d).max
           /\ d \in due /\ \A e \in Dies \ {d} : sysfs'[e] = sysfs[e]
           /\ \/ half' = d /\ due' = due /\ half = NoDie
              \/ /\ half = d /\ half' = NoDie /\ due' = due \ {d}
                 /\ sysfs'[d] = getEffectiveUncore(uncore, d)
           /\ sysfs[d] = defaultUncore /\ getEffectiveUncore(uncore, d) = defaultUncore =>
                 sysfs'[d] = defaultUncore
<1> DEFINE e == getEffectiveUncore(uncore, d)
<1>1. UNCHANGED uncore /\ SettingsOrdered'
  BY DEF writeMax, writeMin, SettingsOrdered
<1>2. e \in Freqs /\ e.min <= e.max
  BY EffectiveFacts DEF Library, SettingsOrdered
<1>3. getEffectiveUncore(uncore', d) = e
  BY <1>1
<1> HIDE DEF e
<1>4. sysfs[d] \in Freqs /\ d # NoDie
  BY NoDieFacts DEF Library
<1>5. CASE writeMax(d)
  <2>1. [sysfs[d] EXCEPT !.max = e.max] \in Freqs /\ [sysfs[d] EXCEPT !.max = e.max].max = e.max
        /\ (sysfs[d] = defaultUncore /\ e = defaultUncore =>
              [sysfs[d] EXCEPT !.max = e.max] = defaultUncore)
    BY <1>2, <1>4 DEF Freqs, defaultUncore
  <2>2. sysfs' = [sysfs EXCEPT ![d] = [sysfs[d] EXCEPT !.max = e.max]]
    BY <1>5 DEF writeMax, e
  <2>3. sysfs' \in [Dies -> Freqs] /\ sysfs'[d] = [sysfs[d] EXCEPT !.max = e.max]
        /\ \A f \in Dies \ {d} : sysfs'[f] = sysfs[f]
    BY <2>1, <2>2 DEF Library
  <2>4. half' = d /\ due' = due /\ half = NoDie /\ d \in due
    BY <1>5 DEF writeMax
  <2>5. Library' /\ HalfWritten'
    BY <1>1, <1>3, <2>1, <2>3, <2>4 DEF Library, HalfWritten
  <2> QED
    BY <1>1, <1>2, <2>1, <2>3, <2>4, <2>5 DEF e
<1>6. CASE writeMin(d)
  <2>1. half = d /\ half' = NoDie /\ due' = due \ {d} /\ d \in due
    BY <1>6 DEF writeMin
  <2>2. sysfs[d].max = e.max
    BY <1>4, <2>1 DEF HalfWritten, e
  <2>3. [sysfs[d] EXCEPT !.min = e.min] = e
    BY <1>2, <1>4, <2>2 DEF Freqs
  <2>4. sysfs' = [sysfs EXCEPT ![d] = e]
    BY <1>6, <2>3 DEF writeMin, e
  <2>5. sysfs' \in [Dies -> Freqs] /\ sysfs'[d] = e /\ \A f \in Dies \ {d} : sysfs'[f] = sysfs[f]
    BY <1>2, <2>4 DEF Library
  <2>6. Library' /\ HalfWritten'
    BY <1>1, <2>1, <2>5 DEF Library, HalfWritten
  <2> QED
    BY <1>1, <1>2, <2>1, <2>5, <2>6 DEF e
<1> QED
  BY <1>5, <1>6

-----------------------------------------------------------------------------
(***************************************************************************)
(* The calls that an Uncore asks for                                       *)
(***************************************************************************)

LEMMA CallsFacts ==
    ASSUME NEW s \in Specs \cup {NoSpec}
    PROVE  /\ calls(s) \in Seq(Calls)
           /\ \A i, j \in 1..Len(calls(s)) : calls(s)[i].at = calls(s)[j].at => i = j
<1>1. /\ s.sys \in Pairs /\ s.dies \in Seq(Calls)
      /\ \A i \in DOMAIN s.dies : s.dies[i].at # Host
      /\ \A i, j \in DOMAIN s.dies : s.dies[i].at = s.dies[j].at => i = j
  <2>1. CASE s \in Specs
    BY <2>1, SpecsAssumption, AdmittedAssumption DEF Admitted
  <2>2. CASE s = NoSpec
    BY <2>2 DEF NoSpec, Nil, Pairs
  <2> QED
    BY <2>1, <2>2
<1>2. CASE s.sys = Nil
  <2>1. calls(s) = s.dies
    BY <1>1, <1>2, ConcatEmptySeq DEF calls
  <2> QED
    BY <1>1, <2>1
<1>3. CASE s.sys # Nil
  <2> DEFINE k == [at |-> Host, freq |-> s.sys]
  <2>1. k \in Calls
    BY <1>1 DEF Calls, Host
  <2>2. <<k>> \in Seq(Calls) /\ Len(<<k>>) = 1 /\ <<k>>[1] = k
    BY <2>1
  <2>3. calls(s) = <<k>> \o s.dies
    BY <1>3 DEF calls
  <2> HIDE DEF k
  <2>4. calls(s) \in Seq(Calls) /\ Len(calls(s)) = 1 + Len(s.dies) /\ calls(s)[1] = k
        /\ \A i \in 2..Len(calls(s)) : calls(s)[i] = s.dies[i - 1]
    BY <1>1, <2>2, <2>3, ConcatProperties
  <2>5. Len(s.dies) \in Nat /\ DOMAIN s.dies = 1..Len(s.dies)
    BY <1>1
  <2>6. \A i \in 2..Len(calls(s)) : i - 1 \in DOMAIN s.dies
    BY <2>4, <2>5
  <2>7. ASSUME NEW i \in 2..Len(calls(s)), NEW j \in 2..Len(calls(s)), calls(s)[i].at = calls(s)[j].at
        PROVE  i = j
    <3>1. i - 1 = j - 1
      BY <1>1, <2>4, <2>6, <2>7, ZenonT(40)
    <3> QED
      BY <3>1
  <2>8. \A i \in 2..Len(calls(s)) : calls(s)[i].at # calls(s)[1].at
    BY <1>1, <2>4, <2>6 DEF k
  <2>9. \A i \in 1..Len(calls(s)) : i = 1 \/ i \in 2..Len(calls(s))
    BY <2>4, <2>5
  <2> QED
    BY <2>4, <2>7, <2>8, <2>9
<1> QED
  BY <1>2, <1>3

-----------------------------------------------------------------------------
(***************************************************************************)
(* The invariant: one lemma for Init, one for every part of it             *)
(***************************************************************************)

LEMMA IdleFacts ==
    /\ recIdle \in RecTypes /\ recIdle.pc = "idle" /\ recIdle.sel = NoName /\ recIdle.spec = NoSpec
    /\ recIdle.next = 1 /\ ~recIdle.failed
    /\ recIdle.next \in 1..Len(calls(recIdle.spec)) + 1
<1>1. Len(calls(NoSpec)) \in Nat
  BY CallsFacts
<1> QED
  BY <1>1 DEF recIdle, RecTypes

LEMMA InitIInv == Init => IInv
<1> SUFFICES ASSUME Init PROVE IInv
  OBVIOUS
<1>1. uncore \in [Places -> {Nil, defaultUncore}] /\ sysfs = [d \in Dies |-> defaultUncore]
  BY DEF Init, InitTopology
<1>2. TypeOK
  <2>1. errors \in BOOLEAN /\ queued \in BOOLEAN /\ due = {} /\ half = NoDie
    BY DEF Init
  <2> QED
    BY <1>1, <2>1, IdleFacts, FreqsFacts, EditsAssumption DEF Init, TypeOK
<1>3. SettingsOrdered
  BY <1>1, FreqsFacts DEF SettingsOrdered
<1>4. ReconcileSelects /\ HalfWritten /\ ResetSoFar /\ AppliedSoFar /\ NothingLeft
  BY <1>1, IdleFacts DEF Init, ReconcileSelects, HalfWritten, ResetSoFar, AppliedSoFar, NothingLeft
<1>5. ReadsCurrent /\ DiesConfigured
  BY IdleFacts DEF Init, ReadsCurrent, DiesConfigured, Rest
<1>6. LimitsHeld
  BY <1>1, FreqsFacts, LimitsAssumption DEF LimitsHeld, defaultUncore
<1> QED
  BY <1>2, <1>3, <1>4, <1>5, <1>6 DEF IInv

\* The Uncore that a reconcile selects is one that selects the node.
LEMMA SelectedFacts ==
    ASSUME matching \subseteq Names
    PROVE  /\ selected = NoName <=> matching = {}
           /\ selected # NoName => selected \in matching
<1>1. NoName \notin matching /\ matching \subseteq Nat
  BY NamesAssumption
<1>2. ASSUME matching # {} PROVE \E n \in matching : \A m \in matching : n <= m
  <2>1. PICK n \in matching : \A m \in matching : <<m, n>> \notin OpToRel(<, Nat)
    BY <1>1, <1>2, NatLessThanWellFounded, WFMin
  <2>2. \A m \in matching : ~(m < n)
    BY <1>1, <2>1 DEF OpToRel
  <2> QED
    BY <1>1, <2>2
<1> QED
  BY <1>1, <1>2 DEF selected

\* The call that Apply makes, and how it ends.
LEMMA ApplyCases ==
    ASSUME TypeOK, Apply,
           NEW k, k = calls(rec.spec)[rec.next], NEW u, u = NewUncore(k.freq)
    PROVE  /\ rec.pc = "apply" /\ k \in Calls /\ u \in Freqs \cup {Nil} /\ u.min <= u.max
           /\ rec.next \in 1..Len(calls(rec.spec))
           /\ UNCHANGED <<clusterVars, statusVars, queued>>
           /\ due = {}
           /\ \/ /\ u # Nil /\ k.at \in Places /\ SetUncore(k.at, u)
                 /\ rec' = [rec EXCEPT !.next = @ + 1]
              \/ /\ UNCHANGED libraryVars
                 /\ rec' = [rec EXCEPT !.next = @ + 1, !.failed = TRUE]
<1>1. rec.spec \in Specs \cup {NoSpec} /\ rec.next \in 1..Len(calls(rec.spec)) + 1
  BY DEF TypeOK, RecTypes
<1>2. calls(rec.spec) \in Seq(Calls) /\ Len(calls(rec.spec)) \in Nat
  BY <1>1, CallsFacts
<1>3. rec.next \in 1..Len(calls(rec.spec))
  BY <1>1, <1>2 DEF Apply
<1>4. k \in Calls
  BY <1>2, <1>3
<1>5. u \in Freqs \cup {Nil} /\ u.min <= u.max
  BY <1>4, NewUncoreInLimits DEF Calls
<1> QED
  BY <1>3, <1>4, <1>5 DEF Apply

LEMMA NextLibrary ==
    ASSUME TypeOK, SettingsOrdered, HalfWritten, [Next]_vars
    PROVE  Library' /\ SettingsOrdered' /\ HalfWritten'
<1> DEFINE Goal == Library' /\ SettingsOrdered' /\ HalfWritten'
<1>1. Library
  BY DEF TypeOK, Library
<1>2. ASSUME UNCHANGED libraryVars PROVE Goal
  BY <1>1, <1>2 DEF libraryVars, Library, SettingsOrdered, HalfWritten
<1>3. ASSUME NEW s \in Places, Reset(s) PROVE Goal
  BY <1>1, <1>3, FreqsFacts, SetUncoreEffect DEF Reset
<1>4. ASSUME NEW d \in Dies, Write(d) PROVE Goal
  BY <1>1, <1>4, WriteEffect DEF Write
<1>5. ASSUME WriteFails PROVE Goal
  BY <1>1, <1>5 DEF WriteFails, writeFails, Library, SettingsOrdered, HalfWritten
<1>6. ASSUME Apply PROVE Goal
  BY <1>1, <1>2, <1>6, ApplyCases, SetUncoreEffect
<1>7. ASSUME Restart PROVE Goal
  <2>1. InitTopology \in [Places -> {Nil, defaultUncore}]
    BY DEF InitTopology
  <2> QED
    BY <1>1, <1>7, <2>1, FreqsFacts DEF Restart, Library, SettingsOrdered, HalfWritten
<1> HIDE DEF Goal
<1>8. Goal
  BY <1>2, <1>3, <1>4, <1>5, <1>6, <1>7 DEF Next, Reconcile, Begin, ResetDone, Report, Refuse, Clear,
     StatusFails, DropUncore, ApplyUncore, CatchUp, Wait, vars
<1> QED
  BY <1>8 DEF Goal

LEMMA BeginRecType ==
    ASSUME TypeOK, Begin
    PROVE  rec' \in RecTypes /\ rec'.spec \in Specs \cup {NoSpec} /\ rec'.next = 1
<1>1. CASE rec' = recIdle \/ rec' = [recIdle EXCEPT !.pc = "reset", !.todo = Places]
  BY <1>1, IdleFacts DEF RecTypes
<1>2. ASSUME selected # NoName,
             NEW pc \in {"refuse", "reset"}, NEW b \in BOOLEAN,
             rec' = [recIdle EXCEPT !.pc = pc, !.sel = selected, !.spec = spec[selected],
                                    !.conflict = b, !.todo = Places]
      PROVE  rec' \in RecTypes /\ rec'.spec \in Specs \cup {NoSpec} /\ rec'.next = 1
  <2>1. selected \in Names /\ spec[selected] \in Specs
    BY <1>2, SelectedFacts DEF TypeOK
  <2> QED
    BY <1>2, <2>1, IdleFacts DEF RecTypes
<1>3. CASE selected # NoName
  BY <1>2, <1>3, Zenon DEF Begin
<1> QED
  BY <1>1, <1>3 DEF Begin

LEMMA NextRecType ==
    ASSUME TypeOK, [Next]_vars
    PROVE  rec' \in RecTypes /\ rec'.next \in 1..Len(calls(rec'.spec)) + 1
<1> DEFINE recOK == rec \in RecTypes /\ rec.next \in 1..Len(calls(rec.spec)) + 1
<1>1. recOK /\ Len(calls(rec.spec)) \in Nat
  BY CallsFacts DEF TypeOK, RecTypes
<1>2. CASE rec' = recIdle \/ rec' = rec
  BY <1>1, <1>2, IdleFacts
<1>3. CASE Begin
  <2>1. Len(calls(rec'.spec)) \in Nat
    BY <1>3, BeginRecType, CallsFacts
  <2> QED
    BY <1>3, <2>1, BeginRecType
<1>4. ASSUME NEW s \in Places, Reset(s) PROVE recOK'
  BY <1>1, <1>4 DEF Reset, RecTypes
<1>6. CASE ResetDone
  BY <1>1, <1>6 DEF ResetDone, RecTypes
<1>7. CASE WriteFails
  BY <1>1, <1>2, <1>7 DEF WriteFails, Retry, RecTypes
<1>5. CASE Apply
  <2>1. rec.next \in 1..Len(calls(rec.spec))
        /\ \/ rec' = [rec EXCEPT !.next = @ + 1]
           \/ rec' = [rec EXCEPT !.next = @ + 1, !.failed = TRUE]
    BY <1>5, ApplyCases
  <2>2. CASE rec' = [rec EXCEPT !.next = @ + 1]
    BY <1>1, <2>1, <2>2 DEF RecTypes
  <2>3. CASE rec' = [rec EXCEPT !.next = @ + 1, !.failed = TRUE]
    <3>1. rec'.next = rec.next + 1 /\ rec'.spec = rec.spec
      BY <1>1, <2>3 DEF RecTypes
    <3>2. rec.next + 1 \in Nat
      BY <1>1 DEF RecTypes
    <3>3. rec' \in RecTypes
      BY <1>1, <2>3, <3>2, Zenon DEF RecTypes
    <3> QED
      BY <1>1, <2>1, <3>1, <3>3
  <2> QED
    BY <2>1, <2>2, <2>3
<1> QED
  BY <1>2, <1>3, <1>4, <1>5, <1>6, <1>7 DEF Next, Reconcile, Write, Report, Refuse, Clear, StatusFails,
     DropUncore, ApplyUncore, CatchUp, Restart, Wait, vars, Retry, Done

LEMMA NextTypeOK ==
    ASSUME TypeOK, SettingsOrdered, HalfWritten, [Next]_vars
    PROVE  TypeOK'
<1>1. /\ uncore' \in [Places -> Freqs \cup {Nil}] /\ sysfs' \in [Dies -> Freqs]
      /\ due' \subseteq Dies /\ half' \in due' \cup {NoDie}
  BY NextLibrary DEF Library
<1>2. rec' \in RecTypes /\ rec'.next \in 1..Len(calls(rec'.spec)) + 1
  BY NextRecType
<1>3. queued' \in BOOLEAN
  BY DEF TypeOK, Next, Reconcile, Begin, Reset, ResetDone, Write, WriteFails, Apply, Report, Refuse, Clear, StatusFails,
     DropUncore, ApplyUncore, CatchUp, Restart, Wait, vars, Retry, Done
<1>4. errors' \in BOOLEAN
  BY DEF TypeOK, Next, Reconcile, Begin, Reset, ResetDone, Write, WriteFails, Apply, Report, Refuse, Clear, StatusFails,
     DropUncore, ApplyUncore, CatchUp, Restart, Wait, vars, statusVars, RecTypes
<1>5. active' \in Names \cup {NoName} /\ seen' \in Names \cup {NoName}
  BY DEF TypeOK, Next, Reconcile, Begin, Reset, ResetDone, Write, WriteFails, Apply, Report, Refuse, Clear, StatusFails,
     DropUncore, ApplyUncore, CatchUp, Restart, Wait, vars, statusVars, recordActive, RecTypes
<1>6. /\ spec' \in [Names -> Specs] /\ matching' \subseteq Names
      /\ edits' \in 0..MaxEdits /\ faults' \in Faults
  <2>1. CASE UNCHANGED clusterVars
    BY <2>1 DEF TypeOK, clusterVars
  <2>2. ASSUME Edit PROVE edits' \in 0..MaxEdits
    BY <2>2, EditsAssumption DEF Edit, TypeOK
  <2> QED
    BY <2>1, <2>2 DEF TypeOK, Next, Reconcile, Begin, Reset, ResetDone, Write, WriteFails, Apply, Report, Refuse, Clear,
       StatusFails, DropUncore, ApplyUncore, CatchUp, Restart, Wait, vars
<1> QED
  BY <1>1, <1>2, <1>3, <1>4, <1>5, <1>6 DEF TypeOK

\* What Begin leaves: nothing to do, a reset for want of Uncores, or one selected to be
\* reported or set up.
LEMMA BeginCases ==
    ASSUME TypeOK, Begin
    PROVE  /\ UNCHANGED <<libraryVars, clusterVars, statusVars>> /\ rec.pc = "idle"
           /\ ~queued'
           /\ rec'.next = 1 /\ ~rec'.failed
           /\ \/ /\ matching = {} /\ seen = NoName /\ rec' = recIdle
              \/ /\ matching = {} /\ rec'.pc = "reset" /\ rec'.sel = NoName /\ rec'.todo = Places
              \/ /\ rec'.pc \in {"refuse", "reset"} /\ rec'.sel \in matching
                 /\ rec'.sel \in Names /\ rec'.spec = spec[rec'.sel] /\ rec'.todo = Places
                 /\ rec'.conflict <=> matching # {rec'.sel}
<1>1. matching \subseteq Names /\ recIdle \in RecTypes
  BY IdleFacts DEF TypeOK
<1>2. CASE selected = NoName /\ seen = NoName
  BY <1>1, <1>2, IdleFacts, SelectedFacts DEF Begin
<1>3. CASE selected = NoName /\ seen # NoName
  BY <1>1, <1>3, IdleFacts, SelectedFacts DEF Begin, RecTypes
<1>4. ASSUME NEW pc, NEW b,
             rec' = [recIdle EXCEPT !.pc = pc, !.sel = selected, !.spec = spec[selected],
                                    !.conflict = b, !.todo = Places]
      PROVE  /\ rec'.pc = pc /\ rec'.sel = selected
             /\ rec'.spec = spec[selected] /\ rec'.todo = Places /\ rec'.conflict = b
             /\ rec'.next = recIdle.next /\ rec'.failed = recIdle.failed
  BY <1>4 DEF recIdle
<1>5. CASE selected # NoName
  <2>1. /\ rec'.pc \in {"refuse", "reset"} /\ rec'.sel = selected
        /\ rec'.spec = spec[selected] /\ rec'.todo = Places
        /\ rec'.conflict <=> matching # {selected}
        /\ rec'.next = 1 /\ ~rec'.failed
    BY <1>4, <1>5, IdleFacts, Zenon DEF Begin
  <2>2. selected \in matching
    BY <1>1, <1>5, SelectedFacts
  <2> QED
    BY <1>1, <2>1, <2>2 DEF Begin
<1> QED
  BY <1>2, <1>3, <1>5

\* What Reset and ResetDone leave.
LEMMA ResetCases ==
    ASSUME TypeOK, NEW s \in Places, Reset(s)
    PROVE  /\ UNCHANGED <<clusterVars, statusVars, queued>>
           /\ rec.pc = "reset" /\ s \in rec.todo /\ due = {} /\ SetUncore(s, Nil) /\ resetNext(s)
           /\ rec'.todo = rec.todo \ {s} /\ rec'.sel = rec.sel /\ rec'.spec = rec.spec
           /\ rec'.conflict = rec.conflict /\ rec'.next = rec.next /\ rec'.failed = rec.failed
           /\ rec'.pc = "reset"
<1>1. rec \in RecTypes
  BY DEF TypeOK
<1> QED
  BY <1>1 DEF Reset, resetNext, RecTypes

LEMMA ResetDoneCases ==
    ASSUME TypeOK, ResetDone
    PROVE  /\ UNCHANGED <<libraryVars, clusterVars, statusVars, queued>>
           /\ rec.pc = "reset" /\ rec.todo = {} /\ due = {}
           /\ rec'.sel = rec.sel /\ rec'.spec = rec.spec
           /\ rec'.conflict = rec.conflict /\ rec'.next = rec.next /\ rec'.failed = rec.failed
           /\ rec'.pc = IF rec.sel = NoName THEN "clear" ELSE "apply"
<1>1. rec \in RecTypes
  BY DEF TypeOK
<1> QED
  BY <1>1 DEF ResetDone, RecTypes

\* What WriteFails leaves: a reset is given up, another call has failed.
LEMMA WriteFailsCases ==
    ASSUME TypeOK, ReconcileSelects, WriteFails
    PROVE  /\ UNCHANGED <<uncore, sysfs, clusterVars, statusVars>> /\ faults = "sysfs"
           /\ due' = {} /\ half' = NoDie
           /\ \/ rec.pc = "reset" /\ rec' = recIdle /\ queued'
              \/ /\ rec.pc = "apply" /\ rec'.pc = "apply" /\ rec'.failed /\ queued' = queued
                 /\ rec'.sel = rec.sel /\ rec'.spec = rec.spec /\ rec'.conflict = rec.conflict
<1>1. rec \in RecTypes
  BY DEF TypeOK
<1>2. rec.pc \in {"reset", "apply"}
  BY <1>1 DEF WriteFails, writeFails, ReconcileSelects
<1> QED
  BY <1>1, <1>2 DEF WriteFails, writeFails, Retry, RecTypes

\* Apply does not change what the reconcile is for.
LEMMA ApplyKeeps ==
    ASSUME TypeOK, Apply
    PROVE  /\ rec'.pc = "apply" /\ rec'.sel = rec.sel /\ rec'.spec = rec.spec
           /\ rec'.conflict = rec.conflict /\ rec'.next = rec.next + 1
           /\ rec.failed => rec'.failed
<1>1. rec \in RecTypes
  BY DEF TypeOK
<1> QED
  BY <1>1, ApplyCases DEF RecTypes

LEMMA NextReconcileSelects ==
    ASSUME TypeOK, ReconcileSelects, [Next]_vars
    PROVE  ReconcileSelects'
<1> USE DEF ReconcileSelects
<1>1. CASE rec' = recIdle /\ due' = {}
  BY <1>1, IdleFacts
<1>2. CASE UNCHANGED <<rec, due>>
  BY <1>2
<1>3. CASE Begin
  <2>1. \A n \in Names : n # NoName /\ spec[n] \in Specs
    BY NamesAssumption DEF TypeOK
  <2>2. due' = {}
    BY <1>3 DEF Begin, libraryVars
  <2> QED
    BY <1>1, <1>3, <2>1, <2>2, BeginCases, PlacesFacts
<1>4. ASSUME NEW s \in Places, Reset(s) PROVE ReconcileSelects'
  BY <1>4, ResetCases
<1>5. CASE Apply
  BY <1>5, ApplyKeeps, ApplyCases
<1>6. CASE ResetDone
  BY <1>6, ResetDoneCases DEF libraryVars
<1>7. ASSUME NEW d \in Dies, Write(d) PROVE ReconcileSelects'
  BY <1>7 DEF Write, writeMax, writeMin
<1>8. CASE WriteFails
  BY <1>1, <1>8, WriteFailsCases
<1>9. CASE UNCHANGED libraryVars /\ rec.pc \notin {"reset", "apply"} /\ rec' = recIdle
  BY <1>1, <1>9 DEF libraryVars
<1>10. CASE Report \/ StatusFails
  <2>1. rec' = recIdle /\ UNCHANGED due
    BY <1>10 DEF Report, StatusFails, Done, Retry, libraryVars
  <2>2. due = {}
    BY <1>10 DEF Report, StatusFails, applied
  <2> QED
    BY <1>1, <2>1, <2>2
<1> QED
  BY <1>1, <1>2, <1>3, <1>4, <1>5, <1>6, <1>7, <1>8, <1>9, <1>10 DEF Next, Reconcile, Refuse, Clear,
     DropUncore, ApplyUncore, CatchUp, Restart, Wait, vars, libraryVars, Retry, Done

\* A reset that goes from the host to the packages, and from these to their dies, undoes
\* nothing it has done.
LEMMA NextResetSoFar ==
    ASSUME TypeOK, SettingsOrdered, HalfWritten, ReconcileSelects, ResetSoFar, [Next]_vars
    PROVE  ResetSoFar'
<1> USE DEF ResetSoFar
<1>1. CASE rec'.pc \notin {"reset", "clear"}
  BY <1>1
<1>2. CASE UNCHANGED <<libraryVars, rec>>
  BY <1>2 DEF libraryVars
<1>3. CASE Begin
  <2>1. due' = {}
    BY <1>3 DEF Begin, libraryVars, ReconcileSelects
  <2> QED
    BY <1>1, <1>3, <2>1, BeginCases, IdleFacts, PlacesFacts
<1>4. ASSUME NEW s \in Places, Reset(s) PROVE ResetSoFar'
  <2>1. Library /\ rec.todo \subseteq Places
    BY DEF TypeOK, RecTypes, Library
  <2>2. /\ SetUncore(s, Nil) /\ resetNext(s) /\ due = {} /\ rec.pc = "reset" /\ rec'.pc = "reset"
        /\ s \in rec.todo /\ rec'.todo = rec.todo \ {s}
    BY <1>4, ResetCases
  <2>3. /\ uncore'[s] = Nil /\ UNCHANGED sysfs /\ \A t \in Places \ {s} : uncore'[t] = uncore[t]
        /\ \A d \in Dies : d \in due' <=> s \in {Host, packageOf(d), d}
    BY <2>1, <2>2, SetUncoreEffect, FreqsFacts
  <2>4. /\ Host \notin rec'.todo
        /\ \A d \in Dies : d \notin rec'.todo => packageOf(d) \notin rec'.todo
    BY <2>1, <2>2, PlacesFacts DEF resetNext
  <2>5. \A t \in Places : t \notin rec'.todo => uncore'[t] = Nil
    BY <2>2, <2>3
  <2>6. \A d \in Dies \ due' : d \notin rec'.todo => sysfs'[d] = defaultUncore
    BY <2>2, <2>3, PlacesFacts
  <2> QED
    BY <2>2, <2>4, <2>5, <2>6
<1>5. CASE ResetDone
  BY <1>1, <1>5, ResetDoneCases DEF libraryVars
<1>6. ASSUME NEW d \in Dies, Write(d) PROVE ResetSoFar'
  <2>1. Library
    BY DEF TypeOK, Library
  <2>2. UNCHANGED rec /\ (writeMax(d) \/ writeMin(d))
    BY <1>6 DEF Write
  <2>3. /\ UNCHANGED uncore /\ d \in due /\ \A e \in Dies \ {d} : sysfs'[e] = sysfs[e]
        /\ \/ due' = due
           \/ due' = due \ {d} /\ sysfs'[d] = getEffectiveUncore(uncore, d)
    BY <2>1, <2>2, WriteEffect
  <2>4. ASSUME rec.pc = "reset", d \notin rec.todo PROVE getEffectiveUncore(uncore, d) = defaultUncore
    <3>1. \A t \in {Host, packageOf(d), d} : t \in Places /\ t \notin rec.todo
      BY <2>3, <2>4, PlacesFacts
    <3>2. \A t \in {Host, packageOf(d), d} : uncore[t] = Nil
      BY <2>4, <3>1
    <3> QED
      BY <2>1, <3>2, EffectiveFacts DEF Library
  <2>5. rec.pc # "clear"
    BY <2>3 DEF ReconcileSelects
  <2> QED
    BY <2>2, <2>3, <2>4, <2>5
<1>7. CASE WriteFails
  BY <1>1, <1>7, WriteFailsCases, IdleFacts
<1>8. CASE Apply
  BY <1>1, <1>8, ApplyKeeps
<1>9. CASE Done \/ Retry \/ Restart
  BY <1>1, <1>9, IdleFacts DEF Done, Retry, Restart
<1> QED
  BY <1>2, <1>3, <1>4, <1>5, <1>6, <1>7, <1>8, <1>9 DEF Next, Reconcile, Report, Refuse, Clear,
     StatusFails, DropUncore, ApplyUncore, CatchUp, Wait, vars

\* A call sets up a place that no earlier call of the reconcile has set up, and makes the
\* dies behind it, and no others, follow.
LEMMA NextAppliedSoFar ==
    ASSUME TypeOK, SettingsOrdered, HalfWritten, ReconcileSelects, ResetSoFar, AppliedSoFar, [Next]_vars
    PROVE  AppliedSoFar'
<1> DEFINE made == {calls(rec.spec)[i] : i \in 1..rec.next - 1}
<1>1. CASE rec'.pc # "apply" \/ rec'.failed
  BY <1>1 DEF AppliedSoFar
<1>2. CASE UNCHANGED <<libraryVars, rec>>
  BY <1>2 DEF libraryVars, AppliedSoFar
<1>3. CASE Begin
  BY <1>1, <1>3, BeginCases, IdleFacts
<1>4. ASSUME NEW s \in Places, Reset(s) PROVE AppliedSoFar'
  BY <1>1, <1>4, ResetCases
<1>7. CASE ResetDone
  <2>1. CASE rec'.pc # "apply"
    BY <1>1, <2>1
  <2>2. CASE rec'.pc = "apply"
    <3>1. rec.pc = "reset" /\ rec.todo = {} /\ due = {} /\ rec'.next = 1 /\ UNCHANGED libraryVars
      BY <1>7, ResetDoneCases DEF ReconcileSelects
    <3>2. made' = {}
      BY <3>1
    <3>3. (\A t \in Places : uncore[t] = Nil) /\ \A d \in Dies : sysfs[d] = defaultUncore
      BY <3>1, PlacesFacts DEF ResetSoFar
    <3>4. ASSUME NEW d \in Dies PROVE sysfs[d] = getEffectiveUncore(uncore, d)
      <4>1. uncore \in [Places -> Freqs \cup {Nil}]
        BY DEF TypeOK
      <4>2. getEffectiveUncore(uncore, d) = defaultUncore
        BY <3>3, <4>1, EffectiveFacts, PlacesFacts
      <4> QED
        BY <3>3, <4>2
    <3> QED
      BY <3>1, <3>2, <3>3, <3>4 DEF AppliedSoFar, libraryVars
  <2> QED
    BY <2>1, <2>2
<1>8. ASSUME NEW d \in Dies, Write(d) PROVE AppliedSoFar'
  <2>1. Library
    BY DEF TypeOK, Library
  <2>2. UNCHANGED rec /\ (writeMax(d) \/ writeMin(d))
    BY <1>8 DEF Write
  <2>3. /\ UNCHANGED uncore /\ d \in due /\ \A e \in Dies \ {d} : sysfs'[e] = sysfs[e]
        /\ \/ due' = due
           \/ due' = due \ {d} /\ sysfs'[d] = getEffectiveUncore(uncore, d)
    BY <2>1, <2>2, WriteEffect
  <2>4. made' = made
    BY <2>2
  <2> HIDE DEF made
  <2>5. ASSUME rec.pc = "apply", ~rec.failed, NEW e \in Dies \ due'
        PROVE  sysfs'[e] = getEffectiveUncore(uncore', e)
    <3>1. \A f \in Dies \ due : sysfs[f] = getEffectiveUncore(uncore, f)
      BY <2>5 DEF AppliedSoFar
    <3>2. getEffectiveUncore(uncore', e) = getEffectiveUncore(uncore, e)
      BY <2>3
    <3> QED
      BY <2>3, <2>5, <3>1, <3>2
  <2> QED
    BY <2>2, <2>3, <2>4, <2>5 DEF AppliedSoFar, made
<1>9. CASE WriteFails
  BY <1>1, <1>9, WriteFailsCases, IdleFacts
<1>5. CASE Apply
  <2> DEFINE k == calls(rec.spec)[rec.next]
             u == NewUncore(k.freq)
  <2>1. /\ rec.pc = "apply" /\ u \in Freqs \cup {Nil} /\ u.min <= u.max
        /\ rec.next \in 1..Len(calls(rec.spec)) /\ due = {}
        /\ \/ rec' = [rec EXCEPT !.next = @ + 1, !.failed = TRUE]
           \/ /\ u # Nil /\ k.at \in Places /\ SetUncore(k.at, u)
              /\ rec' = [rec EXCEPT !.next = @ + 1]
    BY <1>5, ApplyCases
  <2> HIDE DEF k, u
  <2>2. CASE rec' = [rec EXCEPT !.next = @ + 1, !.failed = TRUE]
    <3>1. rec'.failed
      BY <2>2 DEF TypeOK, RecTypes
    <3> QED
      BY <1>1, <3>1
  <2>3. CASE /\ u # Nil /\ k.at \in Places /\ SetUncore(k.at, u)
             /\ rec' = [rec EXCEPT !.next = @ + 1]
    <3> SUFFICES ASSUME ~rec'.failed PROVE AppliedSoFar'
      BY <1>1
    <3>1. ~rec.failed /\ rec'.spec = rec.spec /\ rec'.next = rec.next + 1
      BY <2>3 DEF TypeOK, RecTypes
    <3>2. /\ \A j \in made : /\ j.at \in Places /\ NewUncore(j.freq) # Nil
                             /\ uncore[j.at] = NewUncore(j.freq)
          /\ \A s \in Places : (\A j \in made : j.at # s) => uncore[s] = Nil
          /\ \A d \in Dies : sysfs[d] = getEffectiveUncore(uncore, d)
      BY <2>1, <3>1 DEF AppliedSoFar
    <3>3. made' = made \cup {k}
      <4>1. rec.next \in Nat /\ rec.next >= 1
        BY <2>1
      <4>2. 1..rec'.next - 1 = (1..rec.next - 1) \cup {rec.next}
        BY <3>1, <4>1
      <4> QED
        BY <3>1, <4>2 DEF k
    <3>4. \A j \in made : j.at # k.at
      <4>1. rec.spec \in Specs \cup {NoSpec} /\ Len(calls(rec.spec)) \in Nat
        BY CallsFacts DEF TypeOK, RecTypes
      <4>2. \A i \in 1..rec.next - 1 : i \in 1..Len(calls(rec.spec)) /\ i # rec.next
        BY <2>1, <4>1
      <4> QED
        BY <2>1, <4>1, <4>2, CallsFacts DEF k
    <3>5. /\ uncore'[k.at] = u /\ \A t \in Places \ {k.at} : uncore'[t] = uncore[t]
          /\ UNCHANGED sysfs /\ \A d \in Dies : d \in due' <=> k.at \in {Host, packageOf(d), d}
      <4>1. Library
        BY DEF Library, TypeOK
      <4> QED
        BY <2>1, <2>3, <4>1, SetUncoreEffect
    <3> HIDE DEF made
    <3>6. \A j \in made' : /\ j.at \in Places /\ NewUncore(j.freq) # Nil
                           /\ uncore'[j.at] = NewUncore(j.freq)
      BY <2>3, <3>2, <3>3, <3>4, <3>5 DEF u
    <3>7. \A s \in Places : (\A j \in made' : j.at # s) => uncore'[s] = Nil
      BY <3>2, <3>3, <3>5
    <3>8. ASSUME NEW d \in Dies \ due' PROVE sysfs'[d] = getEffectiveUncore(uncore', d)
      <4>1. \A t \in {Host, packageOf(d), d} : uncore'[t] = uncore[t]
        BY <3>5, PlacesFacts
      <4>2. getEffectiveUncore(uncore', d) = getEffectiveUncore(uncore, d)
        BY <4>1 DEF getEffectiveUncore
      <4> QED
        BY <3>2, <3>5, <4>2
    <3> QED
      BY <3>6, <3>7, <3>8 DEF AppliedSoFar, made
  <2> QED
    BY <2>1, <2>2, <2>3
<1>6. CASE Done \/ Retry \/ Restart
  BY <1>1, <1>6, IdleFacts DEF Done, Retry, Restart
<1> QED
  BY <1>2, <1>3, <1>4, <1>5, <1>6, <1>7, <1>8, <1>9 DEF Next, Reconcile, Report, Refuse, Clear,
     StatusFails, DropUncore, ApplyUncore, CatchUp, Wait, vars

LEMMA NextReadsCurrent ==
    ASSUME TypeOK, ReconcileSelects, ReadsCurrent, NothingLeft, [Next]_vars
    PROVE  ReadsCurrent'
<1> USE DEF ReadsCurrent
<1>1. CASE queued'
  BY <1>1
<1>2. CASE UNCHANGED <<queued, rec, spec, matching, faults, active>>
  BY <1>2
<1>3. CASE Begin
  BY <1>3, BeginCases, IdleFacts, NamesAssumption DEF NothingLeft, clusterVars, statusVars
<1>4. ASSUME NEW s \in Places, Reset(s) PROVE ReadsCurrent'
  BY <1>4, ResetCases DEF clusterVars
<1>5. CASE Apply
  BY <1>5, ApplyCases, ApplyKeeps DEF clusterVars
<1>6. CASE Report
  <2>1. CASE Done
    <3>1. /\ active' = rec.sel /\ rec.sel # NoName /\ rec' = recIdle
          /\ UNCHANGED <<queued, spec, matching, faults>>
      BY <1>6, <2>1 DEF Report, Done, ReconcileSelects, clusterVars, recordActive, applied
    <3>2. ~queued => matching' # {}
      BY <3>1
    <3> QED
      BY <3>1, <3>2, IdleFacts
  <2> QED
    BY <1>1, <1>6, <2>1 DEF Report, Retry
<1>7. CASE Clear
  BY <1>7, IdleFacts DEF Clear, Done, recordActive
<1>8. CASE WriteFails
  BY <1>1, <1>8, WriteFailsCases DEF clusterVars
<1>11. CASE ResetDone
  BY <1>11, ResetDoneCases DEF clusterVars
<1>12. ASSUME NEW d \in Dies, Write(d) PROVE ReadsCurrent'
  BY <1>2, <1>12 DEF Write, clusterVars, statusVars
<1>9. CASE Refuse \/ StatusFails
  BY <1>1, <1>9 DEF Refuse, StatusFails, Retry
<1>10. CASE Restart
  BY <1>10, IdleFacts DEF Restart
<1> QED
  BY <1>1, <1>2, <1>3, <1>4, <1>5, <1>6, <1>7, <1>8, <1>9, <1>10, <1>11, <1>12 DEF Next, Reconcile,
     DropUncore, ApplyUncore, CatchUp, Wait, vars, clusterVars, statusVars

\* Until an Uncore is set up there is nothing to reset, and a reset in the meantime changes
\* no die.
LEMMA NextNothingLeft ==
    ASSUME TypeOK, SettingsOrdered, HalfWritten, ReconcileSelects, ResetSoFar, NothingLeft, [Next]_vars
    PROVE  NothingLeft'
<1> USE DEF NothingLeft
<1>1. Library
  BY DEF TypeOK, Library
<1>2. CASE /\ UNCHANGED <<uncore, sysfs, statusVars, faults>>
           /\ rec'.pc # "apply" => rec.pc # "apply"
  BY <1>2 DEF statusVars
<1>3. ASSUME NEW s \in Places, Reset(s) PROVE NothingLeft'
  <2>1. /\ UNCHANGED <<sysfs, statusVars, faults>> /\ uncore'[s] = Nil /\ rec.pc # "apply"
        /\ \A t \in Places \ {s} : uncore'[t] = uncore[t]
    BY <1>1, <1>3, ResetCases, SetUncoreEffect, FreqsFacts DEF clusterVars
  <2> QED
    BY <2>1 DEF statusVars
<1>4. ASSUME NEW d \in Dies, Write(d) PROVE NothingLeft'
  <2>1. UNCHANGED <<rec, statusVars, faults>> /\ (writeMax(d) \/ writeMin(d))
    BY <1>4 DEF Write, clusterVars
  <2>2. /\ UNCHANGED uncore /\ \A e \in Dies \ {d} : sysfs'[e] = sysfs[e]
        /\ sysfs[d] = defaultUncore /\ getEffectiveUncore(uncore, d) = defaultUncore =>
              sysfs'[d] = defaultUncore
    BY <1>1, <2>1, WriteEffect
  <2>3. (\A s \in Places : uncore[s] \in {Nil, defaultUncore}) =>
            getEffectiveUncore(uncore, d) = defaultUncore
    BY <1>1, EffectiveFacts, PlacesFacts DEF Library
  <2> QED
    BY <2>1, <2>2, <2>3 DEF statusVars
<1>5. CASE Begin
  BY <1>2, <1>5, BeginCases DEF clusterVars, libraryVars
<1>6. CASE Apply
  BY <1>6, ApplyCases, ApplyKeeps DEF clusterVars, statusVars
<1>7. CASE Report \/ Refuse
  BY <1>7 DEF Report, Refuse, recordActive, ReconcileSelects, clusterVars, applied
<1>8. CASE Clear
  <2>1. due = {} /\ rec.pc = "clear"
    BY <1>8 DEF Clear, ReconcileSelects
  <2> QED
    BY <1>8, <2>1, PlacesFacts DEF Clear, recordActive, ResetSoFar, clusterVars, libraryVars
<1>9. CASE StatusFails \/ Restart
  BY <1>9 DEF StatusFails, Restart, clusterVars
<1>10. CASE CatchUp
  BY <1>10 DEF CatchUp, clusterVars, libraryVars
<1>11. CASE ResetDone
  BY <1>2, <1>11, ResetDoneCases DEF clusterVars, libraryVars
<1>12. CASE WriteFails
  BY <1>2, <1>12, WriteFailsCases DEF clusterVars
<1> QED
  BY <1>2, <1>3, <1>4, <1>5, <1>6, <1>7, <1>8, <1>9, <1>10, <1>11, <1>12 DEF Next, Reconcile,
     DropUncore, ApplyUncore, Wait, vars, clusterVars, libraryVars

\* A die whose minimum is above its maximum is half written, or has been left so by a call
\* that failed or a crash; every way to rest leads over a retry or a call that writes the die
\* again, unless a crash is followed by no reconcile at all.
LEMMA NextLimitsHeld ==
    ASSUME TypeOK, SettingsOrdered, HalfWritten, ReconcileSelects, ResetSoFar, AppliedSoFar, NothingLeft,
           LimitsHeld, [Next]_vars
    PROVE  LimitsHeld'
<1> DEFINE Torn(d) == sysfs[d].min > sysfs[d].max
           Held == \A d \in Dies : Torn(d) => \/ ~Rest /\ (d = half \/ faults \in {"sysfs", "restarts"})
                                              \/ faults = "restarts" /\ matching = {}
<1>1. Library /\ Held
  BY DEF TypeOK, Library, LimitsHeld
<1>2. Library'
  BY NextLibrary
<1> SUFFICES Held'
  BY <1>2, FreqsFacts DEF Library, LimitsHeld
<1>4. CASE UNCHANGED <<sysfs, faults, matching, half>> /\ (Rest' => Rest)
  BY <1>1, <1>4
<1>5. CASE UNCHANGED sysfs /\ \A d \in Dies : ~Torn(d)
  BY <1>5
<1>6. CASE faults' \in {"sysfs", "restarts"} /\ ~Rest'
  BY <1>6
<1>7. (\A d \in Dies : sysfs[d] = defaultUncore) => \A d \in Dies : ~Torn(d)
  BY LimitsAssumption DEF defaultUncore
<1>8. due = {} => half = NoDie /\ \A d \in Dies : d # half
  BY <1>1, NoDieFacts DEF Library
<1>9. CASE Begin
  <2>1. UNCHANGED <<sysfs, faults, matching, half>>
    BY <1>9, BeginCases DEF libraryVars, clusterVars
  <2>2. CASE rec' = recIdle /\ seen = NoName /\ matching = {}
    <3>1. CASE faults = "sysfs"
      BY <1>5, <1>7, <1>9, <2>1, <2>2, <3>1, BeginCases DEF NothingLeft
    <3>2. CASE faults = "restarts"
      BY <2>1, <2>2, <3>2
    <3>3. CASE faults \notin {"sysfs", "restarts"}
      <4>1. \A d \in Dies : d # half
        BY <1>8, <1>9 DEF Begin, ReconcileSelects
      <4> QED
        BY <1>1, <1>5, <2>1, <3>3, <4>1
    <3> QED
      BY <3>1, <3>2, <3>3
  <2>3. CASE rec'.pc \in {"refuse", "reset"}
    BY <1>4, <2>1, <2>3 DEF Rest
  <2> QED
    BY <1>9, <2>2, <2>3, BeginCases
<1>10. ASSUME NEW s \in Places, Reset(s) PROVE Held'
  <2>1. SetUncore(s, Nil) /\ UNCHANGED <<faults, matching>> /\ rec'.pc # "idle"
    BY <1>10, ResetCases DEF clusterVars
  <2> QED
    BY <1>4, <2>1 DEF Rest, SetUncore
<1>11. ASSUME NEW d \in Dies, Write(d) PROVE Held'
  <2>1. /\ UNCHANGED <<faults, matching>> /\ (Rest' <=> Rest)
        /\ (writeMax(d) \/ writeMin(d))
    BY <1>11 DEF Write, clusterVars, Rest
  <2>2. /\ getEffectiveUncore(uncore, d) \in Freqs
        /\ getEffectiveUncore(uncore, d).min <= getEffectiveUncore(uncore, d).max
        /\ d \in due /\ \A e \in Dies \ {d} : sysfs'[e] = sysfs[e]
        /\ \/ half' = d /\ due' = due /\ half = NoDie
           \/ half = d /\ half' = NoDie /\ sysfs'[d] = getEffectiveUncore(uncore, d)
    BY <1>1, <2>1, WriteEffect
  <2>3. ~Rest
    BY <2>2 DEF Rest, ReconcileSelects
  <2>4. \A e \in Dies \ {d} : e # half
    BY <2>2, NoDieFacts
  <2>5. ASSUME NEW e \in Dies, e # d, Torn(e)' PROVE faults \in {"sysfs", "restarts"}
    BY <1>1, <2>2, <2>4, <2>5
  <2>6. ASSUME half' # d PROVE ~Torn(d)'
    <3>1. sysfs'[d].min \in Int /\ sysfs'[d].max \in Int /\ sysfs'[d].min <= sysfs'[d].max
      BY <2>2, <2>6, FreqsFacts
    <3> QED
      BY <3>1
  <2> QED
    BY <2>1, <2>3, <2>5, <2>6
<1>12. CASE Apply
  <2>1. ~Rest' /\ UNCHANGED <<faults, matching, sysfs, half>>
    BY <1>12, ApplyKeeps, ApplyCases DEF clusterVars, Rest, SetUncore, libraryVars
  <2> QED
    BY <1>4, <2>1
<1>13. CASE Report
  <2>1. UNCHANGED <<sysfs, faults, matching, half>>
    BY <1>13 DEF Report, libraryVars, clusterVars
  <2>2. CASE rec.failed
    BY <1>4, <1>13, <2>1, <2>2 DEF Report, Retry, Rest
  <2>3. CASE ~rec.failed
    <3>1. ASSUME NEW d \in Dies PROVE ~Torn(d)
      <4>1. sysfs[d] = getEffectiveUncore(uncore, d)
        BY <1>13, <2>3 DEF Report, applied, AppliedSoFar
      <4>2. sysfs[d].min <= sysfs[d].max /\ sysfs[d].min \in Int /\ sysfs[d].max \in Int
        BY <1>1, <4>1, EffectiveFacts, FreqsFacts DEF Library, SettingsOrdered
      <4> QED
        BY <4>2
    <3> QED
      BY <1>5, <2>1, <3>1
  <2> QED
    BY <2>2, <2>3
<1>14. CASE Clear
  <2>1. due = {} /\ rec.pc = "clear" /\ UNCHANGED sysfs
    BY <1>14 DEF Clear, ReconcileSelects, libraryVars
  <2> QED
    BY <1>5, <1>7, <2>1, PlacesFacts DEF ResetSoFar
<1>15. CASE Refuse \/ StatusFails
  BY <1>4, <1>15 DEF Refuse, StatusFails, Retry, Rest, libraryVars, clusterVars
<1>16. CASE CatchUp \/ Wait \/ UNCHANGED vars
  BY <1>4, <1>16 DEF CatchUp, Wait, vars, Rest, libraryVars, clusterVars
<1>17. CASE Restart
  BY <1>6, <1>17 DEF Restart, Rest
<1>18. ASSUME NEW n \in Names, DropUncore(n) \/ \E s \in Specs : ApplyUncore(n, s) PROVE Held'
  <2>1. ~Rest' /\ UNCHANGED <<sysfs, half, faults>>
    BY <1>18 DEF DropUncore, ApplyUncore, Rest, libraryVars
  <2> QED
    BY <1>1, <2>1
<1>19. CASE ResetDone
  BY <1>4, <1>19, ResetDoneCases DEF Rest, libraryVars, clusterVars
<1>20. CASE WriteFails
  BY <1>6, <1>20, WriteFailsCases DEF Rest, clusterVars
<1> QED
  BY <1>9, <1>10, <1>11, <1>12, <1>13, <1>14, <1>15, <1>16, <1>17, <1>18, <1>19, <1>20 DEF Next, Reconcile

\* When every call of an Uncore has been made, a die follows the longest path that the
\* Uncore gives frequencies to.
LEMMA WantedIsEffective ==
    ASSUME NEW s \in Specs, NEW d \in Dies,
           \A i \in 1..Len(calls(s)) :
               /\ NewUncore(calls(s)[i].freq) # Nil
               /\ uncore[calls(s)[i].at] = NewUncore(calls(s)[i].freq),
           \A t \in Places : (\A i \in 1..Len(calls(s)) : calls(s)[i].at # t) => uncore[t] = Nil
    PROVE  getEffectiveUncore(uncore, d) = wanted(s, d)
<1> DEFINE c == calls(s)
           given == {i \in DOMAIN c : c[i].at \in {Host, packageOf(d), d}}
           best == CHOOSE i \in given : \A j \in given : Len(c[j].at) <= Len(c[i].at)
<1>1. /\ c \in Seq(Calls) /\ DOMAIN c = 1..Len(c)
      /\ \A i, j \in DOMAIN c : c[i].at = c[j].at => i = j
  <2>1. c \in Seq(Calls) /\ \A i, j \in 1..Len(c) : c[i].at = c[j].at => i = j
    BY CallsFacts
  <2> QED
    BY <2>1
<1>2. /\ Len(Host) = 0 /\ Len(packageOf(d)) = 1 /\ Len(d) = 2
      /\ Host \in Places /\ packageOf(d) \in Places /\ d \in Places
  BY PlacesFacts
<1>3. \A i \in given : /\ NewUncore(c[i].freq) # Nil /\ uncore[c[i].at] = NewUncore(c[i].freq)
                       /\ c[i].at \in {Host, packageOf(d), d}
  BY <1>1
<1>4. \A t \in {Host, packageOf(d), d} : (\A i \in given : c[i].at # t) => uncore[t] = Nil
  BY <1>1, <1>2
<1>5. wanted(s, d) = IF given = {} THEN defaultUncore
                     ELSE [min |-> (c[best].freq.min \div Step) * Step,
                           max |-> (c[best].freq.max \div Step) * Step]
  BY DEF wanted
<1>6. given \subseteq DOMAIN c
  OBVIOUS
<1> HIDE DEF given, c
<1>7. ASSUME NEW i \in given, \A j \in given : j # i => Len(c[j].at) < Len(c[i].at)
      PROVE  wanted(s, d) = NewUncore(c[i].freq)
  <2>1. \A j \in given : Len(c[j].at) \in Nat
    BY <1>2, <1>3
  <2>2. best = i
    BY <1>7, <2>1
  <2>3. c[i].freq \in Pairs
    <3>1. i \in 1..Len(c)
      BY <1>1, <1>6
    <3>2. c[i] \in Calls
      BY <1>1, <3>1
    <3> QED
      BY <3>2 DEF Calls
  <2> QED
    BY <1>3, <1>5, <2>2, <2>3, NewUncoreInLimits
<1>8. CASE \E i \in given : c[i].at = d
  <2>1. PICK i \in given : c[i].at = d
    BY <1>8
  <2>2. ASSUME NEW j \in given, j # i PROVE Len(c[j].at) < Len(c[i].at)
    <3>1. c[j].at # d
      BY <1>1, <1>6, <2>1, <2>2
    <3> DEFINE m == Len(c[j].at)
               n == Len(c[i].at)
    <3>2. m \in {0, 1} /\ n = 2
      BY <1>2, <1>3, <2>1, <3>1, Zenon
    <3> HIDE DEF m, n
    <3>3. m < n
      BY <3>2
    <3> QED
      BY <3>3, Zenon DEF m, n
  <2>3. wanted(s, d) = NewUncore(c[i].freq)
    BY <1>7, <2>2
  <2> QED
    BY <1>3, <2>1, <2>3 DEF getEffectiveUncore
<1>9. CASE /\ \A i \in given : c[i].at # d
           /\ \E i \in given : c[i].at = packageOf(d)
  <2>1. PICK i \in given : c[i].at = packageOf(d)
    BY <1>9
  <2>2. \A j \in given : j # i => Len(c[j].at) < Len(c[i].at)
    BY <1>1, <1>2, <1>3, <1>6, <1>9, <2>1
  <2>3. wanted(s, d) = NewUncore(c[i].freq)
    BY <1>7, <2>2
  <2>4. uncore[d] = Nil
    BY <1>4, <1>9
  <2> QED
    BY <1>3, <2>1, <2>3, <2>4 DEF getEffectiveUncore
<1>10. CASE /\ \A i \in given : c[i].at # d /\ c[i].at # packageOf(d)
            /\ given # {}
  <2>1. PICK i \in given : c[i].at = Host
    BY <1>3, <1>10
  <2>2. \A j \in given : j = i
    BY <1>1, <1>3, <1>6, <1>10, <2>1
  <2>3. wanted(s, d) = NewUncore(c[i].freq)
    BY <1>7, <2>2
  <2>4. uncore[d] = Nil /\ uncore[packageOf(d)] = Nil
    BY <1>4, <1>10
  <2> QED
    BY <1>3, <2>1, <2>3, <2>4 DEF getEffectiveUncore
<1>11. CASE given = {}
  BY <1>4, <1>5, <1>11 DEF getEffectiveUncore
<1> QED
  BY <1>8, <1>9, <1>10, <1>11

\* A reconcile that ends without error and with nothing queued has read what still holds
\* and has made every call of the Uncore it has selected.
LEMMA NextDiesConfigured ==
    ASSUME TypeOK, ReconcileSelects, AppliedSoFar, ReadsCurrent, DiesConfigured, [Next]_vars
    PROVE  DiesConfigured'
<1>1. CASE ~Rest' \/ matching' = {}
  BY <1>1 DEF DiesConfigured
<1>2. CASE UNCHANGED <<rec, queued, matching, active, sysfs, spec, errors>>
  <2>1. \A d \in Dies : wanted(spec[active], d)' = wanted(spec[active], d)
    BY <1>2 DEF wanted, calls
  <2> QED
    BY <1>2, <2>1 DEF DiesConfigured, Rest
<1>3. CASE Begin
  BY <1>1, <1>3, BeginCases, IdleFacts DEF clusterVars, Rest
<1>4. ASSUME NEW s \in Places, Reset(s) PROVE DiesConfigured'
  BY <1>1, <1>4, ResetCases DEF Rest
<1>12. CASE ResetDone \/ WriteFails
  BY <1>1, <1>12, ResetDoneCases, WriteFailsCases DEF Rest
<1>13. ASSUME NEW d \in Dies, Write(d) PROVE DiesConfigured'
  BY <1>1, <1>13 DEF Write, writeMax, writeMin, Rest, ReconcileSelects
<1>5. CASE Apply
  BY <1>1, <1>5, ApplyKeeps DEF Rest
<1>6. CASE Refuse \/ StatusFails
  BY <1>1, <1>6 DEF Refuse, StatusFails, Retry, Rest
<1>7. CASE Clear
  BY <1>1, <1>7 DEF Clear, Done, Rest, ReadsCurrent, ReconcileSelects, clusterVars
<1>8. CASE Report
  <2>1. CASE rec.failed \/ queued
    BY <1>1, <1>8, <2>1 DEF Report, Retry, Done, Rest
  <2>2. CASE ~rec.failed /\ ~queued
    <3>1. /\ rec.sel \in matching /\ rec.spec = spec[rec.sel] /\ rec.spec \in Specs
          /\ rec.conflict <=> matching # {rec.sel}
      BY <1>8, <2>2 DEF Report, applied, ReadsCurrent, ReconcileSelects
    <3>2. active' = rec.sel /\ UNCHANGED <<sysfs, uncore, spec, matching>>
          /\ errors' = (rec.failed \/ rec.conflict)
      BY <1>8 DEF Report, recordActive, libraryVars, clusterVars
    <3>3. errors' <=> matching' # {active'}
      BY <2>2, <3>1, <3>2
    <3>4. rec.next - 1 = Len(calls(rec.spec))
      <4>1. Len(calls(rec.spec)) \in Nat
        BY <3>1, CallsFacts
      <4> QED
        BY <1>8, <4>1 DEF Report, applied, TypeOK
    <3>5. /\ \A i \in 1..Len(calls(rec.spec)) :
                /\ NewUncore(calls(rec.spec)[i].freq) # Nil
                /\ uncore[calls(rec.spec)[i].at] = NewUncore(calls(rec.spec)[i].freq)
          /\ \A t \in Places : (\A i \in 1..Len(calls(rec.spec)) : calls(rec.spec)[i].at # t) => uncore[t] = Nil
          /\ \A d \in Dies : sysfs[d] = getEffectiveUncore(uncore, d)
      BY <1>8, <2>2, <3>4 DEF Report, applied, AppliedSoFar
    <3>6. \A d \in Dies : sysfs[d] = wanted(rec.spec, d)
      BY <3>1, <3>5, WantedIsEffective
    <3>7. \A d \in Dies : wanted(spec[active], d)' = wanted(rec.spec, d)
      BY <3>1, <3>2 DEF wanted, calls
    <3> QED
      BY <3>1, <3>2, <3>3, <3>6, <3>7 DEF DiesConfigured
  <2> QED
    BY <2>1, <2>2
<1>9. CASE Restart
  BY <1>1, <1>9 DEF Restart, Rest
<1>10. ASSUME NEW n \in Names, DropUncore(n) \/ \E s \in Specs : ApplyUncore(n, s) PROVE DiesConfigured'
  BY <1>1, <1>10 DEF DropUncore, ApplyUncore, Rest
<1>11. CASE CatchUp \/ UNCHANGED vars
  BY <1>2, <1>11 DEF CatchUp, vars, clusterVars, statusVars, libraryVars
<1> QED
  BY <1>3, <1>4, <1>5, <1>6, <1>7, <1>8, <1>9, <1>10, <1>11, <1>12, <1>13 DEF Next, Reconcile, Wait

-----------------------------------------------------------------------------
LEMMA AlwaysIInv == Spec => []IInv
<1>1. IInv /\ [Next]_vars => IInv'
  BY NextTypeOK, NextLibrary, NextReconcileSelects, NextResetSoFar, NextAppliedSoFar, NextReadsCurrent,
     NextNothingLeft, NextLimitsHeld, NextDiesConfigured DEF IInv
<1> QED
  BY InitIInv, <1>1, PTL DEF Spec

\* What is asked of the places of the topology, and what the dies have, are frequencies of
\* the hardware, whatever frequencies Uncores ask for and wherever a write fails.
THEOREM UncoreTypeSafety == Spec => []TypeOK
<1>1. IInv => TypeOK
  BY DEF IInv
<1> QED
  BY AlwaysIInv, <1>1, PTL

\* No die leaves the range of its hardware, and none rests with its minimum above its
\* maximum.
THEOREM UncoreLimits == Spec => []LimitsHeld
<1>1. IInv => LimitsHeld
  BY DEF IInv
<1> QED
  BY AlwaysIInv, <1>1, PTL

\* When the reconciler rests, every die has what the active Uncore wants of it: for every
\* topology, every admitted Uncore, any number of edits and any trouble of FaultKinds.
THEOREM UncoreConfigured == Spec => []DiesConfigured
<1>1. IInv => DiesConfigured
  BY DEF IInv
<1> QED
  BY AlwaysIInv, <1>1, PTL

\* When the last Uncore is gone and the reconciler rests, every die is back at the limits of
\* its hardware.
THEOREM UncoreReset == Spec => []DiesReset
<1>1. IInv => DiesReset
  BY IdleFacts DEF IInv, DiesReset, ReadsCurrent, NothingLeft, ReconcileSelects, Rest
<1> QED
  BY AlwaysIInv, <1>1, PTL

=============================================================================
