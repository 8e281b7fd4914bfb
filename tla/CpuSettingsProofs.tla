-------------------------- MODULE CpuSettingsProofs --------------------------
(***************************************************************************)
(* CpuSettings for every machine and every profile that the CRD admits.    *)
(***************************************************************************)
EXTENDS CpuSettings, FiniteSetTheorems, WellFoundedInduction, TLAPS

-----------------------------------------------------------------------------
(***************************************************************************)
(* Least and greatest numbers                                              *)
(***************************************************************************)

LEMMA MinFacts ==
    ASSUME NEW S \in SUBSET Int, NEW x \in S, \A y \in S : x <= y
    PROVE  Min(S) = x
<1>1. ASSUME NEW z \in S, \A y \in S : z <= y PROVE z = x
  BY <1>1
<1> QED
  BY <1>1, Zenon DEF Min

LEMMA MaxFacts ==
    ASSUME NEW S \in SUBSET Int, NEW x \in S, \A y \in S : x >= y
    PROVE  Max(S) = x
<1>1. ASSUME NEW z \in S, \A y \in S : z >= y PROVE z = x
  BY <1>1
<1> QED
  BY <1>1, Zenon DEF Max

\* Some CPU has the highest frequency: the set of the CPUs is finite, and one with the
\* fewest members that has no such CPU would have one when a CPU is taken out of it.
LEMMA SomeGreatest ==
    ASSUME NEW f, \A c \in Cpus : f[c] \in Nat
    PROVE  \E m \in Cpus : \A c \in Cpus : f[c] <= f[m]
<1> DEFINE Bad(X) == ~\E m \in X : \A c \in X : f[c] <= f[m]
           sizes == {n \in Nat : \E X \in SUBSET Cpus : X # {} /\ Bad(X) /\ Cardinality(X) = n}
<1> SUFFICES ASSUME Bad(Cpus) PROVE FALSE
  OBVIOUS
<1>1. \A X \in SUBSET Cpus : IsFiniteSet(X) /\ Cardinality(X) \in Nat
  BY CpusAssumption, FS_Subset, FS_CardinalityType
<1>2. Cardinality(Cpus) \in sizes
  BY <1>1, CpusAssumption
<1>3. PICK n \in sizes : \A k \in sizes : <<k, n>> \notin OpToRel(<, Nat)
  <2>1. sizes \subseteq Nat /\ sizes # {}
    BY <1>2
  <2> QED
    BY <2>1, NatLessThanWellFounded, WFMin
<1>4. \A k \in sizes : ~(k < n)
  BY <1>3 DEF OpToRel
<1>5. PICK X \in SUBSET Cpus : X # {} /\ Bad(X) /\ Cardinality(X) = n
  OBVIOUS
<1>6. PICK x \in X : TRUE
  BY <1>5
<1>7. Cardinality(X \ {x}) = n - 1 /\ X \ {x} \in SUBSET Cpus
  BY <1>1, <1>5, <1>6, FS_RemoveElement
<1>8. CASE X \ {x} = {}
  BY <1>5, <1>6, <1>8
<1>9. CASE X \ {x} # {}
  <2>1. Cardinality(X \ {x}) \in Nat /\ n \in Nat
    BY <1>1, <1>7
  <2>2. ~Bad(X \ {x})
    <3> SUFFICES ASSUME Bad(X \ {x}) PROVE FALSE
      OBVIOUS
    <3>1. Cardinality(X \ {x}) \in sizes
      BY <1>7, <1>9, <2>1
    <3> HIDE DEF sizes
    <3>2. n - 1 < n
      BY <2>1
    <3> QED
      BY <1>4, <1>7, <3>1, <3>2
  <2>3. PICK m \in X \ {x} : \A c \in X \ {x} : f[c] <= f[m]
    BY <2>2
  <2>4. f[m] \in Nat /\ f[x] \in Nat /\ \A c \in X : f[c] \in Nat
    BY <1>5, <1>6, <2>3
  <2>5. \A c \in X : f[c] <= f[m] \/ c = x
    BY <2>3
  <2>6. CASE f[x] <= f[m]
    BY <1>5, <2>3, <2>5, <2>6
  <2>7. CASE f[m] <= f[x]
    BY <1>5, <1>6, <2>3, <2>4, <2>5, <2>7
  <2> QED
    BY <2>4, <2>6, <2>7
<1> QED
  BY <1>8, <1>9

\* The least and the greatest frequency of the machine bound those of its CPUs.
LEMMA SystemLimits ==
    ASSUME hw \in Hardware
    PROVE  /\ systemMin \in Nat /\ systemMax \in Nat
           /\ \A c \in Cpus : /\ hw.min[c] \in Nat /\ hw.max[c] \in Nat
                              /\ hw.min[c] < hw.max[c] /\ hw.min[c] + Unit <= hw.max[c]
                              /\ systemMin <= hw.min[c] /\ hw.max[c] <= systemMax
<1>1. \A c \in Cpus : /\ hw.min[c] \in Nat /\ hw.max[c] \in Nat
                      /\ hw.min[c] < hw.max[c] /\ hw.min[c] + Unit <= hw.max[c]
  BY HardwareAssumption, UnitAssumption
<1> DEFINE L == {hw.min[c] : c \in Cpus}
           U == {hw.max[c] : c \in Cpus}
<1>2. /\ systemMin \in Nat /\ \A c \in Cpus : systemMin <= hw.min[c]
  <2>1. L \subseteq Nat /\ L # {}
    BY <1>1, CpusAssumption
  <2>2. PICK n \in L : \A k \in L : <<k, n>> \notin OpToRel(<, Nat)
    BY <2>1, NatLessThanWellFounded, WFMin
  <2>3. \A k \in L : n <= k
    <3>1. \A k \in L : ~(k < n)
      BY <2>1, <2>2 DEF OpToRel
    <3> HIDE DEF L
    <3> QED
      BY <2>1, <3>1
  <2>4. Min(L) = n
    <3>1. L \in SUBSET Int
      BY <2>1
    <3> HIDE DEF L
    <3> QED
      BY <2>3, <3>1, MinFacts
  <2> QED
    BY <2>1, <2>3, <2>4 DEF systemMin
<1>3. systemMax \in Nat /\ \A c \in Cpus : hw.max[c] <= systemMax
  <2>1. PICK m \in Cpus : \A c \in Cpus : hw.max[c] <= hw.max[m]
    <3> DEFINE f == hw.max
    <3>1. \A c \in Cpus : f[c] \in Nat
      BY <1>1
    <3> QED
      BY <3>1, SomeGreatest
  <2>2. U \in SUBSET Int /\ hw.max[m] \in U /\ \A k \in U : hw.max[m] >= k
    BY <1>1, <2>1
  <2>3. Max(U) = hw.max[m]
    <3> HIDE DEF U
    <3> QED
      BY <2>2, MaxFacts
  <2> QED
    BY <1>1, <2>1, <2>3 DEF systemMax
<1> QED
  BY <1>1, <1>2, <1>3

-----------------------------------------------------------------------------
(***************************************************************************)
(* The arithmetic of frequencies                                           *)
(***************************************************************************)

\* A percentage of a range, rounded up, is the least frequency that far up.
LEMMA PercentFacts ==
    ASSUME NEW lo \in Nat, NEW hi \in Nat, lo < hi, NEW v \in 0..100,
           NEW q, q = lo + (v * (hi - lo) + 99) \div 100
    PROVE  /\ q \in lo..hi /\ 100 * (q - lo) >= v * (hi - lo)
           /\ \A g \in lo..hi : 100 * (g - lo) >= v * (hi - lo) => q <= g
           /\ v = 0 => q = lo
           /\ v = 100 => q = hi
<1> DEFINE D == hi - lo
           P == v * D
<1>1. D \in Nat
  OBVIOUS
<1>2. P \in Nat /\ P <= 100 * D /\ (v = 0 => P = 0) /\ (v = 100 => P = 100 * D)
  <2> HIDE DEF D
  <2>1. \A x \in 0..100 : x * D \in Nat /\ x * D <= 100 * D
    BY <1>1
  <2> QED
    BY <1>1, <2>1
<1>3. q = lo + (P + 99) \div 100
  OBVIOUS
<1> HIDE DEF P
<1>4. (P + 99) \div 100 \in 0..D /\ 100 * ((P + 99) \div 100) >= P /\ 100 * ((P + 99) \div 100) < P + 100
      /\ (P = 0 => (P + 99) \div 100 = 0) /\ (P = 100 * D => (P + 99) \div 100 = D)
  BY <1>1, <1>2
<1>5. /\ q \in lo..hi /\ 100 * (q - lo) >= P
      /\ \A g \in lo..hi : 100 * (g - lo) >= P => q <= g
      /\ v = 0 => q = lo
      /\ v = 100 => q = hi
  BY <1>2, <1>3, <1>4
<1> QED
  BY <1>5 DEF P

LEMMA PercentMonotone ==
    ASSUME NEW lo \in Nat, NEW hi \in Nat, lo < hi, NEW v \in 0..100, NEW w \in 0..100, v <= w
    PROVE  lo + (v * (hi - lo) + 99) \div 100 <= lo + (w * (hi - lo) + 99) \div 100
<1> DEFINE q == lo + (v * (hi - lo) + 99) \div 100
           r == lo + (w * (hi - lo) + 99) \div 100
<1>1. r \in lo..hi /\ 100 * (r - lo) >= w * (hi - lo)
  BY PercentFacts
<1>2. \A g \in lo..hi : 100 * (g - lo) >= v * (hi - lo) => q <= g
  BY PercentFacts
<1> HIDE DEF q, r
<1>3. w * (hi - lo) >= v * (hi - lo)
  <2>1. \A d \in Nat : w * d >= v * d
    OBVIOUS
  <2> QED
    BY <2>1
<1>4. v * (hi - lo) \in Int /\ w * (hi - lo) \in Int
  OBVIOUS
<1>5. 100 * (r - lo) >= v * (hi - lo)
  BY <1>1, <1>3, <1>4
<1>6. q <= r
  BY <1>1, <1>2, <1>5
<1> QED
  BY <1>6 DEF q, r

\* Whole MHz: what is lost in the conversion from kHz and back.
LEMMA UnitFacts ==
    ASSUME NEW a \in Nat
    PROVE  /\ a \div Unit \in Nat
           /\ (a \div Unit) * Unit \in Nat /\ (a \div Unit) * Unit <= a
           /\ a < (a \div Unit) * Unit + Unit
           /\ Unit * (a \div Unit) = (a \div Unit) * Unit
           /\ (a \div Unit) * Unit < a => a % Unit # 0
<1>1. ASSUME NEW b \in Nat \ {0}
      PROVE  a \div b \in Int /\ a = b * (a \div b) + (a % b) /\ a % b \in 0..(b - 1)
  OBVIOUS
<1> DEFINE q == a \div Unit
           r == a % Unit
<1>2. Unit \in Nat \ {0} /\ q \in Int /\ a = Unit * q + r /\ r \in 0..(Unit - 1)
  BY <1>1, UnitAssumption
<1> HIDE DEF q, r
<1>3. Unit * q = q * Unit /\ Unit * q \in Int
  BY <1>2
<1>4. ASSUME q <= -1 PROVE FALSE
  <2>1. Unit * q <= Unit * (-1)
    BY <1>2, <1>4
  <2> QED
    BY <1>2, <2>1
<1>5. q \in Nat /\ Unit * q >= 0
  BY <1>2, <1>4
<1>6. q \in Nat /\ q * Unit \in Nat /\ q * Unit <= a /\ a < q * Unit + Unit
      /\ Unit * q = q * Unit /\ (q * Unit < a => r # 0)
  BY <1>2, <1>3, <1>5
<1> QED
  BY <1>6 DEF q, r

LEMMA UnitMonotone ==
    ASSUME NEW a \in Int, NEW b \in Int, a <= b
    PROVE  a * Unit \in Int /\ b * Unit \in Int /\ a * Unit <= b * Unit
  BY UnitAssumption

-----------------------------------------------------------------------------
(***************************************************************************)
(* The limits that an accepted profile gives to a CPU                      *)
(***************************************************************************)

\* In kHz, both given or one derived from the machine.
InNumbers(p) ==
    \E a, b \in Int :
        /\ p.min = IntValue(a * Unit) /\ p.max = IntValue(b * Unit)
        /\ a <= b /\ a >= systemMin \div Unit /\ b <= systemMax \div Unit
        /\ \/ spec.min.type = "int" /\ spec.min.val = a
           \/ spec.min.type = "nil" /\ a = systemMin \div Unit
        /\ \/ spec.max.type = "int" /\ spec.max.val = b
           \/ spec.max.type = "nil" /\ b = systemMax \div Unit

\* As percentages, both given or one the end of the range.
InPercent(p) ==
    /\ p.min.type = "string" /\ p.max.type = "string"
    /\ p.min.val \in Int /\ p.max.val \in Int /\ p.min.val <= p.max.val
    /\ p.min.percent => p.min.val \in 0..100
    /\ p.max.percent => p.max.val \in 0..100
    /\ \/ spec.min.type = "string" /\ p.min = spec.min
       \/ spec.min.type = "nil" /\ p.min = Percent(0)
    /\ \/ spec.max.type = "string" /\ p.max = spec.max
       \/ spec.max.type = "nil" /\ p.max = Percent(100)

LEMMA NoProfileFields ==
    /\ NoProfile.min = Nil /\ NoProfile.max = Nil /\ NoProfile.gov = "none" /\ NoProfile.epp = ""
    /\ NoProfile.latency = NoLatency /\ NoProfile.names = NoNames /\ NoProfile.capacity = Nil
    /\ Nil.type = "nil" /\ Nil.val = 0
  BY DEF NoProfile, Nil

LEMMA SpecFacts ==
    ASSUME spec \in Specs \cup {NoProfile}
    PROVE  /\ IsValue(spec.min) /\ IsValue(spec.max) /\ IsValue(spec.capacity)
           /\ spec = [min |-> spec.min, max |-> spec.max, gov |-> spec.gov, epp |-> spec.epp,
                      latency |-> spec.latency, names |-> spec.names, capacity |-> spec.capacity]
<1>1. CASE spec \in Specs
  BY <1>1, SpecsAssumption
<1>2. CASE spec = NoProfile
  <2>1. spec.min = Nil /\ spec.max = Nil /\ spec.capacity = Nil /\ spec.gov = "none" /\ spec.epp = ""
        /\ spec.latency = NoLatency /\ spec.names = NoNames
    BY <1>2 DEF NoProfile
  <2>2. IsValue(Nil)
    BY DEF IsValue, Nil
  <2>3. spec = [min |-> spec.min, max |-> spec.max, gov |-> spec.gov, epp |-> spec.epp,
                latency |-> spec.latency, names |-> spec.names, capacity |-> spec.capacity]
    BY <1>2, <2>1 DEF NoProfile
  <2> QED
    BY <2>1, <2>2, <2>3
<1> QED
  BY <1>1, <1>2

\* A value is one of the three kinds, and nothing is as nothing else.
LEMMA ValueFacts ==
    ASSUME NEW v, IsValue(v)
    PROVE  /\ v.type \in {"nil", "int", "string"} /\ v.val \in Int
           /\ v.type = "nil" <=> v = Nil
           /\ v.type = "string" => v.val \in Nat
           /\ v.percent => v.val \in 0..100
  BY DEF IsValue, Nil

\* What NewPowerProfile keeps and what it converts.
LEMMA NewProfileFields ==
    ASSUME NEW s \in Specs
    PROVE  LET f == AdjustMinMaxFreq(s)
               kHz(v) == IF v.type = "int" THEN IntValue(v.val * Unit) ELSE v
               p == NewPowerProfile(s)
           IN  /\ p.min = kHz(f.min) /\ p.max = kHz(f.max)
               /\ p.gov = s.gov /\ p.epp = actualEpp(s) /\ p.latency = s.latency
               /\ p.names = s.names /\ p.capacity = s.capacity
<1> DEFINE f == AdjustMinMaxFreq(s)
           kHz(v) == IF v.type = "int" THEN IntValue(v.val * Unit) ELSE v
           p == NewPowerProfile(s)
           r == [min |-> s.min, max |-> s.max, gov |-> s.gov, epp |-> s.epp,
                 latency |-> s.latency, names |-> s.names, capacity |-> s.capacity]
<1>1. p = [s EXCEPT !.min = kHz(f.min), !.max = kHz(f.max), !.epp = actualEpp(s)]
  BY DEF NewPowerProfile
<1>2. s = r
  BY SpecsAssumption
<1>3. DOMAIN s = {"min", "max", "gov", "epp", "latency", "names", "capacity"}
  <2>1. DOMAIN r = {"min", "max", "gov", "epp", "latency", "names", "capacity"}
    OBVIOUS
  <2> HIDE DEF r
  <2> QED
    BY <1>2, <2>1
<1> HIDE DEF f, kHz, p, r
<1>4. /\ p.min = kHz(f.min) /\ p.max = kHz(f.max)
      /\ p.gov = s.gov /\ p.epp = actualEpp(s) /\ p.latency = s.latency
      /\ p.names = s.names /\ p.capacity = s.capacity
  BY <1>1, <1>3
<1> QED
  BY <1>4 DEF f, kHz, p

LEMMA ProfileFields ==
    ASSUME spec \in Specs, Accepted, spec # NoProfile
    PROVE  LET f == AdjustMinMaxFreq(spec)
               kHz(v) == IF v.type = "int" THEN IntValue(v.val * Unit) ELSE v
           IN  /\ profile.min = kHz(f.min) /\ profile.max = kHz(f.max)
               /\ profile.gov = spec.gov /\ profile.epp = actualEpp(spec) /\ profile.latency = spec.latency
               /\ profile.names = spec.names /\ profile.capacity = spec.capacity
<1>1. profile = NewPowerProfile(spec)
  BY DEF Accepted
<1> QED
  BY <1>1, NewProfileFields

\* The shape of an accepted profile.
LEMMA ProfileShape ==
    ASSUME hw \in Hardware, spec \in Specs, Accepted, spec # NoProfile
    PROVE  /\ InNumbers(profile) \/ InPercent(profile)
           /\ profile # NoProfile
<1> DEFINE f == AdjustMinMaxFreq(spec)
<1>1. IsValue(spec.min) /\ IsValue(spec.max)
  BY SpecFacts
<1>2. /\ f.min.type = f.max.type /\ f.max.val >= f.min.val
      /\ f.min.type = "int" => f.min.val >= systemMin \div Unit /\ f.max.val <= systemMax \div Unit
  BY DEF Accepted, validPStates
<1>3. /\ profile.min = IF f.min.type = "int" THEN IntValue(f.min.val * Unit) ELSE f.min
      /\ profile.max = IF f.max.type = "int" THEN IntValue(f.max.val * Unit) ELSE f.max
  BY ProfileFields
<1>4. /\ f.min = IF spec.min # Nil THEN spec.min
                 ELSE IF spec.max.type = "int" THEN IntValue(systemMin \div Unit) ELSE Percent(0)
      /\ f.max = IF spec.max # Nil THEN spec.max
                 ELSE IF spec.min.type = "int" THEN IntValue(systemMax \div Unit) ELSE Percent(100)
  BY DEF AdjustMinMaxFreq
<1>5. systemMin \div Unit \in Nat /\ systemMax \div Unit \in Nat
  BY SystemLimits, UnitFacts
<1> HIDE DEF f
<1>6. CASE f.min.type = "int"
  <2>1. f.max.type = "int"
    BY <1>2, <1>6
  <2>2. /\ \/ spec.min.type = "int" /\ f.min = spec.min
           \/ spec.min.type = "nil" /\ f.min = IntValue(systemMin \div Unit)
        /\ \/ spec.max.type = "int" /\ f.max = spec.max
           \/ spec.max.type = "nil" /\ f.max = IntValue(systemMax \div Unit)
    BY <1>1, <1>4, <1>6, <2>1, ValueFacts DEF Percent
  <2>3. /\ f.min.val \in Int /\ f.max.val \in Int
        /\ spec.min.type = "nil" => f.min.val = systemMin \div Unit
        /\ spec.max.type = "nil" => f.max.val = systemMax \div Unit
    BY <1>1, <1>5, <2>2, ValueFacts DEF IntValue
  <2>4. profile.min = IntValue(f.min.val * Unit) /\ profile.max = IntValue(f.max.val * Unit)
    BY <1>3, <1>6, <2>1
  <2>5. f.min.val <= f.max.val
    BY <1>2, <2>3
  <2>6. InNumbers(profile)
    BY <1>2, <1>6, <2>2, <2>3, <2>4, <2>5, Zenon DEF InNumbers
  <2>7. profile.min.type = "int"
    BY <2>4 DEF IntValue
  <2> QED
    BY <2>6, <2>7, NoProfileFields
<1>7. CASE f.min.type # "int"
  <2>1. /\ \/ spec.min.type = "string" /\ f.min = spec.min
           \/ spec.min.type = "nil" /\ f.min = Percent(0)
        /\ \/ spec.max.type = "string" /\ f.max = spec.max
           \/ spec.max.type = "nil" /\ f.max = Percent(100)
    BY <1>1, <1>2, <1>4, <1>7, ValueFacts DEF IntValue
  <2>2. f.min.type = "string" /\ f.max.type = "string" /\ f.min.val \in Int /\ f.max.val \in Int
    BY <1>1, <2>1, ValueFacts DEF Percent
  <2>3. profile.min = f.min /\ profile.max = f.max
    BY <1>2, <1>3, <1>7
  <2>4. (f.min.percent => f.min.val \in 0..100) /\ (f.max.percent => f.max.val \in 0..100)
    <3>1. ASSUME NEW v \in {0, 100} PROVE Percent(v).val \in 0..100
      BY DEF Percent
    <3> QED
      BY <1>1, <2>1, <3>1, ValueFacts
  <2>5. f.min.val <= f.max.val
    BY <1>2, <2>2
  <2>6. InPercent(profile)
    BY <2>1, <2>2, <2>3, <2>4, <2>5 DEF InPercent
  <2> QED
    BY <2>2, <2>3, <2>6, NoProfileFields
<1> QED
  BY <1>6, <1>7

LEMMA PStatesFields ==
    ASSUME hw \in Hardware, spec \in Specs \cup {NoProfile}, Accepted, NEW c \in Cpus
    PROVE  /\ spec = NoProfile <=> profile = NoProfile
           /\ spec = NoProfile =>
                /\ pstatesOf(c).min = IntValue(hw.min[c]) /\ pstatesOf(c).max = IntValue(hw.max[c])
                /\ pstatesOf(c).gov = "powersave" /\ pstatesOf(c).epp = (IF hw.epp THEN "power" ELSE "")
           /\ spec # NoProfile =>
                /\ pstatesOf(c).min = profile.min /\ pstatesOf(c).max = profile.max
                /\ pstatesOf(c).gov = spec.gov /\ pstatesOf(c).epp = actualEpp(spec)
<1>1. CASE spec = NoProfile
  <2>1. profile = NoProfile
    BY <1>1 DEF Accepted
  <2> QED
    BY <1>1, <2>1 DEF pstatesOf, defaultPStates
<1>2. CASE spec # NoProfile
  <2>1. profile # NoProfile /\ profile.gov = spec.gov /\ profile.epp = actualEpp(spec)
    BY <1>2, ProfileShape, ProfileFields
  <2> QED
    BY <1>2, <2>1 DEF pstatesOf
<1> QED
  BY <1>1, <1>2

\* The limits of a CPU in a pool without a profile: its own.
LEMMA ScaleDefault ==
    ASSUME hw \in Hardware, spec = NoProfile, Accepted, NEW c \in Cpus
    PROVE  canScale(c) /\ toScale(c).min = hw.min[c] /\ toScale(c).max = hw.max[c]
<1>1. pstatesOf(c).min = IntValue(hw.min[c]) /\ pstatesOf(c).max = IntValue(hw.max[c])
  BY PStatesFields
<1>2. hw.min[c] \in Nat /\ hw.max[c] \in Nat
  BY SystemLimits
<1>3. \A n \in Nat : IntValue(n).type = "int" /\ IntValue(n).val = n
  BY DEF IntValue
<1>4. toScale(c).min = hw.min[c] /\ toScale(c).max = hw.max[c]
  BY <1>1, <1>2, <1>3 DEF toScale, getFreqFromIntOrString
<1> QED
  BY <1>1, <1>2, <1>3, <1>4 DEF canScale

\* Those of numbers: cut to the CPU's range, unless the lower one is below the machine's,
\* which only a machine whose minimum is no whole MHz makes possible.
LEMMA ScaleNumbers ==
    ASSUME hw \in Hardware, NEW c \in Cpus, NEW a \in Int, NEW b \in Int,
           pstatesOf(c).min = IntValue(a * Unit), pstatesOf(c).max = IntValue(b * Unit),
           a <= b, a >= systemMin \div Unit, b <= systemMax \div Unit
    PROVE  /\ a * Unit \in Nat /\ b * Unit \in Nat /\ a * Unit <= b * Unit
           /\ canScale(c) <=> a * Unit >= systemMin \/ a * Unit >= hw.min[c]
           /\ canScale(c) => toScale(c).min = IF a * Unit < hw.min[c] THEN hw.min[c] ELSE a * Unit
           /\ toScale(c).max = IF b * Unit > hw.max[c] THEN hw.max[c] ELSE b * Unit
           /\ a * Unit < systemMin => systemMin % Unit # 0
<1> DEFINE A == a * Unit
           B == b * Unit
<1>1. /\ systemMin \in Nat /\ systemMax \in Nat /\ hw.min[c] \in Nat /\ hw.max[c] \in Nat
      /\ systemMin <= hw.min[c] /\ hw.max[c] <= systemMax
  BY SystemLimits
<1>2. /\ systemMin \div Unit \in Nat /\ systemMax \div Unit \in Nat
      /\ (systemMin \div Unit) * Unit \in Nat /\ (systemMax \div Unit) * Unit <= systemMax
      /\ (systemMin \div Unit) * Unit < systemMin => systemMin % Unit # 0
  BY <1>1, UnitFacts
<1>3. A \in Int /\ B \in Int /\ A <= B
  BY UnitMonotone
<1>4. (systemMin \div Unit) * Unit <= A
  BY <1>2, UnitMonotone
<1>5. B <= (systemMax \div Unit) * Unit /\ (systemMax \div Unit) * Unit \in Int
  BY <1>2, UnitMonotone
<1>6. IntValue(A).type = "int" /\ IntValue(A).val = A /\ IntValue(B).type = "int" /\ IntValue(B).val = B
  BY DEF IntValue
<1>7. pstatesOf(c).min = IntValue(A) /\ pstatesOf(c).max = IntValue(B)
  OBVIOUS
<1> HIDE DEF A, B
<1>8. A \in Nat /\ B \in Nat /\ B <= systemMax /\ (A < systemMin => systemMin % Unit # 0)
  BY <1>1, <1>2, <1>3, <1>4, <1>5
<1>9. /\ toScale(c).min = IF A < hw.min[c] /\ A >= systemMin THEN hw.min[c] ELSE A
      /\ toScale(c).max = IF B > hw.max[c] /\ B <= systemMax THEN hw.max[c] ELSE B
  BY <1>6, <1>7 DEF toScale, getFreqFromIntOrString
<1>10. canScale(c) <=> toScale(c).max <= hw.max[c] /\ toScale(c).min >= hw.min[c]
  BY <1>6, <1>7 DEF canScale
<1>11. /\ canScale(c) <=> A >= systemMin \/ A >= hw.min[c]
       /\ canScale(c) => toScale(c).min = IF A < hw.min[c] THEN hw.min[c] ELSE A
       /\ toScale(c).max = IF B > hw.max[c] THEN hw.max[c] ELSE B
  BY <1>1, <1>8, <1>9, <1>10
<1> QED
  BY <1>3, <1>8, <1>11 DEF A, B

\* Those of percentages: always in the CPU's range.
LEMMA ScalePercent ==
    ASSUME hw \in Hardware, NEW c \in Cpus, InPercent(pstatesOf(c))
    PROVE  LET p == pstatesOf(c)  lo == hw.min[c]  d == hw.max[c] - hw.min[c] IN
           /\ canScale(c) <=> p.min.percent /\ p.max.percent
           /\ canScale(c) => /\ p.min.val \in 0..100 /\ p.max.val \in 0..100
                             /\ toScale(c).min = lo + (p.min.val * d + 99) \div 100
                             /\ toScale(c).max = lo + (p.max.val * d + 99) \div 100
<1> DEFINE p == pstatesOf(c)
           lo == hw.min[c]
           hi == hw.max[c]
           v == p.min.val
           w == p.max.val
           q == lo + (v * (hi - lo) + 99) \div 100
           r == lo + (w * (hi - lo) + 99) \div 100
<1>1. /\ p.min.type = "string" /\ p.max.type = "string" /\ v <= w
      /\ p.min.percent => v \in 0..100
      /\ p.max.percent => w \in 0..100
  BY DEF InPercent
<1>2. lo \in Nat /\ hi \in Nat /\ lo < hi
  BY SystemLimits
<1>3. /\ toScale(c).min = IF q < lo /\ q >= systemMin THEN lo ELSE q
      /\ toScale(c).max = IF r > hi /\ r <= systemMax THEN hi ELSE r
  BY <1>1 DEF toScale, getFreqFromIntOrString
<1>4. canScale(c) <=> /\ p.min.percent /\ p.max.percent
                      /\ toScale(c).max <= hi /\ toScale(c).min >= lo
  BY <1>1 DEF canScale
<1>5. ASSUME p.min.percent, p.max.percent
      PROVE  /\ v \in 0..100 /\ w \in 0..100
             /\ toScale(c).min = q /\ toScale(c).max = r /\ q \in lo..hi /\ r \in lo..hi
  <2>1. v \in 0..100 /\ w \in 0..100
    BY <1>1, <1>5
  <2>2. q \in lo..hi
    <3> HIDE DEF v, lo, hi
    <3> QED
      BY <1>2, <2>1, PercentFacts
  <2>3. r \in lo..hi
    <3> HIDE DEF w, lo, hi
    <3> QED
      BY <1>2, <2>1, PercentFacts
  <2> HIDE DEF q, r, lo, hi
  <2> QED
    BY <1>2, <1>3, <2>1, <2>2, <2>3
<1>6. canScale(c) <=> p.min.percent /\ p.max.percent
  <2>1. ASSUME p.min.percent, p.max.percent PROVE toScale(c).max <= hi /\ toScale(c).min >= lo
    <3> HIDE DEF q, r, lo, hi
    <3> QED
      BY <1>2, <1>5, <2>1
  <2> HIDE DEF lo, hi, p
  <2> QED
    BY <1>4, <2>1, Zenon
<1>7. canScale(c) => v \in 0..100 /\ w \in 0..100 /\ toScale(c).min = q /\ toScale(c).max = r
  BY <1>5, <1>6, Zenon
<1> QED
  BY <1>6, <1>7, Zenon

LEMMA CpuShape ==
    ASSUME hw \in Hardware, spec \in Specs \cup {NoProfile}, Accepted, NEW c \in Cpus, spec # NoProfile
    PROVE  InNumbers(pstatesOf(c)) \/ InPercent(pstatesOf(c))
<1>1. pstatesOf(c).min = profile.min /\ pstatesOf(c).max = profile.max
  BY PStatesFields
<1>2. InNumbers(profile) \/ InPercent(profile)
  BY ProfileShape
<1>3. CASE InNumbers(profile)
  BY <1>1, <1>3 DEF InNumbers
<1>4. CASE InPercent(profile)
  BY <1>1, <1>4 DEF InPercent
<1> QED
  BY <1>2, <1>3, <1>4

\* What the limits of a CPU that can be scaled are.
ScaledRight(c) ==
    /\ toScale(c).min \in Nat /\ toScale(c).max \in Nat
    /\ toScale(c).min >= hw.min[c] /\ toScale(c).max <= hw.max[c]
    /\ meansMin(c, toScale(c).min) /\ meansMax(c, toScale(c).max)
    /\ \/ toScale(c).min <= toScale(c).max
       \/ spec.min.type = "int" /\ spec.min.val * Unit > hw.max[c]
       \/ spec.max.type = "int" /\ spec.max.val * Unit < hw.min[c]

LEMMA DefaultRight ==
    ASSUME hw \in Hardware, spec = NoProfile, Accepted, NEW c \in Cpus
    PROVE  ScaledRight(c)
<1>1. toScale(c).min = hw.min[c] /\ toScale(c).max = hw.max[c]
  BY ScaleDefault
<1>2. hw.min[c] \in Nat /\ hw.max[c] \in Nat /\ hw.min[c] < hw.max[c]
  BY SystemLimits
<1>3. spec.min.type = "nil" /\ spec.max.type = "nil"
  BY NoProfileFields
<1>4. meansMin(c, hw.min[c]) /\ meansMax(c, hw.max[c])
  BY <1>3 DEF meansMin, meansMax
<1> QED
  BY <1>1, <1>2, <1>4 DEF ScaledRight

LEMMA NumbersRight ==
    ASSUME hw \in Hardware, NEW c \in Cpus, InNumbers(pstatesOf(c)), canScale(c)
    PROVE  ScaledRight(c)
<1>1. PICK a \in Int, b \in Int :
        /\ pstatesOf(c).min = IntValue(a * Unit) /\ pstatesOf(c).max = IntValue(b * Unit)
        /\ a <= b /\ a >= systemMin \div Unit /\ b <= systemMax \div Unit
        /\ \/ spec.min.type = "int" /\ spec.min.val = a
           \/ spec.min.type = "nil" /\ a = systemMin \div Unit
        /\ \/ spec.max.type = "int" /\ spec.max.val = b
           \/ spec.max.type = "nil" /\ b = systemMax \div Unit
  BY DEF InNumbers
<1> DEFINE lo == hw.min[c]
           hi == hw.max[c]
           A == a * Unit
           B == b * Unit
           f == toScale(c).min
           g == toScale(c).max
<1>2. /\ A \in Nat /\ B \in Nat /\ A <= B
      /\ A >= systemMin \/ A >= lo
      /\ f = IF A < lo THEN lo ELSE A
      /\ g = IF B > hi THEN hi ELSE B
  BY <1>1, ScaleNumbers
<1>3. /\ lo \in Nat /\ hi \in Nat /\ lo < hi /\ systemMin \in Nat /\ systemMax \in Nat
      /\ systemMin <= lo /\ hi <= systemMax
  BY SystemLimits
<1>4. /\ (systemMin \div Unit) * Unit \in Nat /\ (systemMin \div Unit) * Unit <= systemMin
      /\ (systemMax \div Unit) * Unit \in Nat
      /\ Unit * (systemMax \div Unit) = (systemMax \div Unit) * Unit
  BY <1>3, UnitFacts
<1>5. meansMin(c, f)
  <2>1. CASE spec.min.type = "int" /\ spec.min.val = a
    <3>1. Max({A, lo}) = f
      <4>1. {A, lo} \in SUBSET Int /\ f \in {A, lo} /\ \A y \in {A, lo} : f >= y
        <5> HIDE DEF A, lo, f
        <5> QED
          BY <1>2, <1>3
      <4> HIDE DEF A, lo, f
      <4> QED
        BY <4>1, MaxFacts
    <3> QED
      BY <2>1, <3>1 DEF meansMin
  <2>2. CASE spec.min.type = "nil" /\ a = systemMin \div Unit
    <3>1. A <= systemMin
      BY <1>4, <2>2
    <3>2. f = lo
      <4> HIDE DEF A, lo, f
      <4> QED
        BY <1>2, <1>3, <3>1
    <3> QED
      BY <2>2, <3>2 DEF meansMin
  <2> QED
    BY <1>1, <2>1, <2>2
<1>6. meansMax(c, g)
  <2>1. Min({B, hi}) = g
    <3>1. {B, hi} \in SUBSET Int /\ g \in {B, hi} /\ \A y \in {B, hi} : g <= y
      <4> HIDE DEF B, hi, g
      <4> QED
        BY <1>2, <1>3
    <3> HIDE DEF B, hi, g
    <3> QED
      BY <3>1, MinFacts
  <2>2. CASE spec.max.type = "int" /\ spec.max.val = b
    BY <2>1, <2>2 DEF meansMax
  <2>3. CASE spec.max.type = "nil" /\ b = systemMax \div Unit
    <3>1. Unit * (systemMax \div Unit) = B
      BY <1>4, <2>3
    <3>2. {hi, Unit * (systemMax \div Unit)} = {B, hi}
      BY <3>1
    <3>3. g \in {hi, Min({hi, Unit * (systemMax \div Unit)})}
      BY <2>1, <3>2
    <3> QED
      BY <2>3, <3>3 DEF meansMax
  <2> QED
    BY <1>1, <2>2, <2>3
<1>7. \/ f <= g
      \/ spec.min.type = "int" /\ spec.min.val * Unit > hi
      \/ spec.max.type = "int" /\ spec.max.val * Unit < lo
  <2>1. f <= g \/ A > hi \/ B < lo
    <3> HIDE DEF A, B, lo, hi, f, g
    <3> QED
      BY <1>2, <1>3
  <2>2. CASE A > hi
    <3>1. CASE spec.min.type = "int" /\ spec.min.val = a
      BY <2>2, <3>1
    <3>2. CASE spec.min.type = "nil" /\ a = systemMin \div Unit
      <4>1. A <= systemMin
        BY <1>4, <3>2
      <4> HIDE DEF A, lo, hi
      <4> QED
        BY <1>2, <1>3, <2>2, <4>1
    <3> QED
      BY <1>1, <3>1, <3>2
  <2>3. CASE B < lo
    <3>1. CASE spec.max.type = "int" /\ spec.max.val = b
      BY <2>3, <3>1
    <3>2. CASE spec.max.type = "nil" /\ b = systemMax \div Unit
      <4>1. systemMax < B + Unit /\ lo + Unit <= hi /\ Unit \in Nat
        BY <1>3, <3>2, SystemLimits, UnitFacts, UnitAssumption
      <4> HIDE DEF B, lo, hi
      <4> QED
        BY <1>2, <1>3, <2>3, <4>1
    <3> QED
      BY <1>1, <3>1, <3>2
  <2> QED
    BY <2>1, <2>2, <2>3
<1>8. f \in Nat /\ g \in Nat /\ f >= lo /\ g <= hi
  <2> HIDE DEF A, B, lo, hi, f, g
  <2> QED
    BY <1>2, <1>3
<1> QED
  BY <1>5, <1>6, <1>7, <1>8 DEF ScaledRight

LEMMA PercentRight ==
    ASSUME hw \in Hardware, NEW c \in Cpus, InPercent(pstatesOf(c)), canScale(c)
    PROVE  ScaledRight(c)
<1> DEFINE p == pstatesOf(c)
           lo == hw.min[c]
           hi == hw.max[c]
           v == p.min.val
           w == p.max.val
           f == toScale(c).min
           g == toScale(c).max
<1>1. /\ v \in 0..100 /\ w \in 0..100
      /\ f = lo + (v * (hi - lo) + 99) \div 100
      /\ g = lo + (w * (hi - lo) + 99) \div 100
  BY ScalePercent
<1>2. lo \in Nat /\ hi \in Nat /\ lo < hi
  BY SystemLimits
<1>3. /\ v <= w
      /\ (spec.min.type = "string" /\ spec.min.val = v) \/ (spec.min.type = "nil" /\ v = 0)
      /\ (spec.max.type = "string" /\ spec.max.val = w) \/ (spec.max.type = "nil" /\ w = 100)
  <2>1. Percent(0).val = 0 /\ Percent(100).val = 100
    BY DEF Percent
  <2>2. /\ v <= w
        /\ (spec.min.type = "string" /\ p.min = spec.min) \/ (spec.min.type = "nil" /\ p.min = Percent(0))
        /\ (spec.max.type = "string" /\ p.max = spec.max) \/ (spec.max.type = "nil" /\ p.max = Percent(100))
    BY DEF InPercent
  <2> HIDE DEF p
  <2> QED
    BY <2>1, <2>2
<1> DEFINE far(x) == {y \in lo..hi : 100 * (y - lo) >= x * (hi - lo)}
<1>4. f \in lo..hi /\ f \in far(v) /\ (\A y \in far(v) : f <= y) /\ (v = 0 => f = lo)
  <2>1. /\ f \in lo..hi /\ 100 * (f - lo) >= v * (hi - lo)
        /\ \A y \in lo..hi : 100 * (y - lo) >= v * (hi - lo) => f <= y
        /\ v = 0 => f = lo
    <3>1. lo \in Nat /\ hi \in Nat /\ lo < hi /\ v \in 0..100 /\ f = lo + (v * (hi - lo) + 99) \div 100
      BY <1>1, <1>2
    <3> HIDE DEF v, lo, hi, f
    <3> QED
      BY <3>1, PercentFacts
  <2> HIDE DEF v, lo, hi, f
  <2> QED
    BY <2>1
<1>5. g \in lo..hi /\ g \in far(w) /\ (\A y \in far(w) : g <= y) /\ (w = 100 => g = hi)
  <2>1. /\ g \in lo..hi /\ 100 * (g - lo) >= w * (hi - lo)
        /\ \A y \in lo..hi : 100 * (y - lo) >= w * (hi - lo) => g <= y
        /\ w = 100 => g = hi
    <3>1. lo \in Nat /\ hi \in Nat /\ lo < hi /\ w \in 0..100 /\ g = lo + (w * (hi - lo) + 99) \div 100
      BY <1>1, <1>2
    <3> HIDE DEF w, lo, hi, g
    <3> QED
      BY <3>1, PercentFacts
  <2> HIDE DEF w, lo, hi, g
  <2> QED
    BY <2>1
<1>6. far(v) \in SUBSET Int /\ far(w) \in SUBSET Int
  <2> HIDE DEF lo, hi, v, w
  <2> QED
    BY <1>2
<1>7. Min(far(v)) = f /\ Min(far(w)) = g
  <2> HIDE DEF far, f, g
  <2> QED
    BY <1>4, <1>5, <1>6, MinFacts
<1>8. meansMin(c, f)
  BY <1>3, <1>4, <1>7 DEF meansMin
<1>9. meansMax(c, g)
  BY <1>3, <1>5, <1>7 DEF meansMax
<1>10. f <= g
  <2> HIDE DEF v, w, lo, hi, f, g
  <2> QED
    BY <1>1, <1>2, <1>3, PercentMonotone
<1>11. f \in Nat /\ g \in Nat /\ f >= lo /\ g <= hi
  <2> HIDE DEF lo, hi, f, g
  <2> QED
    BY <1>2, <1>4, <1>5
<1> QED
  BY <1>8, <1>9, <1>10, <1>11 DEF ScaledRight

LEMMA LimitsRight ==
    ASSUME hw \in Hardware, spec \in Specs \cup {NoProfile}, Accepted, NEW c \in Cpus, canScale(c)
    PROVE  ScaledRight(c)
  BY DefaultRight, NumbersRight, PercentRight, CpuShape

\* Why the library refuses what the validation accepted.
LEMMA RefusedFacts ==
    ASSUME hw \in Hardware, spec \in Specs \cup {NoProfile}, Accepted, NEW c \in Cpus, ~canScale(c)
    PROVE  \/ \E v \in {spec.min, spec.max} : v.type = "string" /\ ~v.percent
           \/ profile.min.type = "int" /\ profile.min.val < systemMin /\ systemMin % Unit # 0
<1>1. spec # NoProfile
  BY ScaleDefault
<1>2. pstatesOf(c).min = profile.min
  BY <1>1, PStatesFields
<1>3. CASE InNumbers(pstatesOf(c))
  <2>1. PICK a \in Int, b \in Int :
          /\ pstatesOf(c).min = IntValue(a * Unit) /\ pstatesOf(c).max = IntValue(b * Unit)
          /\ a <= b /\ a >= systemMin \div Unit /\ b <= systemMax \div Unit
    BY <1>3 DEF InNumbers
  <2> DEFINE A == a * Unit
  <2>2. A \in Nat /\ ~(A >= systemMin) /\ (A < systemMin => systemMin % Unit # 0)
    BY <2>1, ScaleNumbers
  <2>3. profile.min = IntValue(A)
    BY <1>2, <2>1
  <2> HIDE DEF A
  <2>4. A < systemMin
    BY <2>2, SystemLimits
  <2> QED
    BY <2>2, <2>3, <2>4 DEF IntValue
<1>4. CASE InPercent(pstatesOf(c))
  <2>1. ~pstatesOf(c).min.percent \/ ~pstatesOf(c).max.percent
    BY <1>4, ScalePercent
  <2>2. Percent(0).percent /\ Percent(100).percent
    BY DEF Percent
  <2>3. /\ (spec.min.type = "string" /\ pstatesOf(c).min = spec.min) \/ pstatesOf(c).min = Percent(0)
        /\ (spec.max.type = "string" /\ pstatesOf(c).max = spec.max) \/ pstatesOf(c).max = Percent(100)
    BY <1>4 DEF InPercent
  <2>4. (~spec.min.percent /\ spec.min.type = "string") \/ (~spec.max.percent /\ spec.max.type = "string")
    BY <2>1, <2>2, <2>3, Zenon
  <2> QED
    BY <2>4, Zenon
<1> QED
  BY <1>1, <1>3, <1>4, CpuShape

\* The types of a profile that the validation accepted.
LEMMA NewProfileTypes ==
    ASSUME hw \in Hardware, NEW s \in Specs, validPStates(s)
    PROVE  /\ NewPowerProfile(s).min.val \in Nat /\ NewPowerProfile(s).max.val \in Nat
           /\ NewPowerProfile(s).gov \in Governors \cup {"", "none"}
           /\ s # NoProfile
<1> DEFINE f == AdjustMinMaxFreq(s)
           p == NewPowerProfile(s)
<1>1. IsValue(s.min) /\ IsValue(s.max)
  BY SpecsAssumption
<1>2. /\ f.min = IF s.min # Nil THEN s.min
                 ELSE IF s.max.type = "int" THEN IntValue(systemMin \div Unit) ELSE Percent(0)
      /\ f.max = IF s.max # Nil THEN s.max
                 ELSE IF s.min.type = "int" THEN IntValue(systemMax \div Unit) ELSE Percent(100)
  BY DEF AdjustMinMaxFreq
<1>3. systemMin \div Unit \in Nat /\ systemMax \div Unit \in Nat
  BY SystemLimits, UnitFacts
<1>4. /\ f.min.type = f.max.type /\ f.max.val >= f.min.val
      /\ f.min.type = "int" => f.min.val >= systemMin \div Unit
      /\ s.gov \in Governors \cup {""}
  BY DEF validPStates
<1>5. /\ f.min.type \in {"int", "string"} /\ f.max.type \in {"int", "string"}
      /\ f.min.val \in Int /\ f.max.val \in Int
      /\ f.min.type = "string" => f.min.val \in Nat
  <2>1. \A n \in Nat : IntValue(n).type = "int" /\ IntValue(n).val = n /\ Percent(n).type = "string" /\ Percent(n).val = n
    BY DEF IntValue, Percent
  <2> HIDE DEF f
  <2>2. IntValue(systemMin \div Unit).val \in Nat /\ IntValue(systemMax \div Unit).val \in Nat
        /\ IntValue(systemMin \div Unit).type = "int" /\ IntValue(systemMax \div Unit).type = "int"
        /\ Percent(0).val = 0 /\ Percent(100).val = 100
        /\ Percent(0).type = "string" /\ Percent(100).type = "string"
    BY <1>3, <2>1
  <2>3. \A v \in {s.min, s.max} : v.type \in {"nil", "int", "string"} /\ v.val \in Int
          /\ (v.type = "nil" <=> v = Nil) /\ (v.type = "string" => v.val \in Nat)
    BY <1>1, ValueFacts
  <2> QED
    BY <1>2, <2>2, <2>3
<1>6. /\ p.min = IF f.min.type = "int" THEN IntValue(f.min.val * Unit) ELSE f.min
      /\ p.max = IF f.max.type = "int" THEN IntValue(f.max.val * Unit) ELSE f.max
      /\ p.gov = s.gov
  BY NewProfileFields
<1>7. f.min.val \in Nat /\ f.max.val \in Nat
  <2> DEFINE m == systemMin \div Unit
  <2>1. m \in Nat /\ (f.min.type = "int" => f.min.val >= m) /\ f.max.val >= f.min.val
    BY <1>3, <1>4
  <2> HIDE DEF f, m
  <2> QED
    BY <1>5, <2>1
<1>8. p.min.val \in Nat /\ p.max.val \in Nat
  <2>1. f.min.val * Unit \in Nat /\ f.max.val * Unit \in Nat
    BY <1>7, UnitAssumption
  <2> HIDE DEF f, p
  <2> QED
    BY <1>6, <1>7, <2>1 DEF IntValue
<1>9. s # NoProfile
  BY <1>4, NoProfileFields, GovernorsAssumption
<1> QED
  BY <1>4, <1>6, <1>8, <1>9

-----------------------------------------------------------------------------
(***************************************************************************)
(* The C-states                                                            *)
(***************************************************************************)

LEMMA CStatesRight ==
    ASSUME hw \in Hardware, spec \in Specs \cup {NoProfile}, Accepted, NEW c \in Cpus
    PROVE  /\ desiredCStates(c) \in [cstatesOf(c) -> BOOLEAN]
           /\ \A n \in cstatesOf(c) : meansCState(c, n, desiredCStates(c)[n])
<1>1. profile.latency = spec.latency /\ profile.names = spec.names
  BY ProfileFields DEF Accepted
<1>2. spec.latency # NoLatency => profile # NoProfile
  BY <1>1, NoProfileFields
<1>3. spec.latency # NoLatency => DOMAIN spec.names = {}
  <2>1. spec.latency # NoLatency => spec.names = NoNames
    BY NoProfileFields DEF Accepted, validCStates
  <2>2. DOMAIN NoNames = {}
    BY DEF NoNames
  <2> QED
    BY <2>1, <2>2
<1>4. \A n \in DOMAIN spec.names : spec.names[n] \in BOOLEAN
  <2>1. DOMAIN NoNames = {}
    BY DEF NoNames
  <2> QED
    BY <2>1, SpecsAssumption, NoProfileFields
<1>5. hw.enabled[c] \in [cstatesOf(c) -> BOOLEAN]
  BY HardwareAssumption DEF cstatesOf
<1>6. ASSUME NEW n \in cstatesOf(c)
      PROVE  desiredCStates(c)[n] \in BOOLEAN /\ meansCState(c, n, desiredCStates(c)[n])
  <2>1. desiredCStates(c)[n] =
          IF profile # NoProfile /\ profile.latency # NoLatency THEN hw.latency[c][n] <= profile.latency
          ELSE IF n \in DOMAIN profile.names THEN profile.names[n]
          ELSE hw.enabled[c][n]
    BY <1>6 DEF desiredCStates
  <2>2. CASE spec.latency # NoLatency
    <3>1. desiredCStates(c)[n] = (hw.latency[c][n] <= spec.latency)
      BY <1>1, <1>2, <2>1, <2>2, Zenon
    <3>2. n \notin DOMAIN spec.names
      BY <1>3, <2>2
    <3>3. desiredCStates(c)[n] \in BOOLEAN
      BY <3>1
    <3>4. meansCState(c, n, desiredCStates(c)[n])
      BY <2>2, <3>1, <3>2 DEF meansCState
    <3> QED
      BY <3>3, <3>4
  <2>3. CASE spec.latency = NoLatency /\ n \in DOMAIN spec.names
    <3>1. desiredCStates(c)[n] = spec.names[n]
      <4>1. profile.latency = NoLatency /\ n \in DOMAIN profile.names /\ profile.names[n] = spec.names[n]
        BY <1>1, <2>3
      <4> QED
        BY <2>1, <4>1, Zenon
    <3> QED
      BY <1>4, <2>3, <3>1 DEF meansCState
  <2>4. CASE spec.latency = NoLatency /\ n \notin DOMAIN spec.names
    <3>1. desiredCStates(c)[n] = hw.enabled[c][n]
      BY <1>1, <2>1, <2>4, Zenon
    <3> QED
      BY <1>5, <2>4, <3>1 DEF meansCState
  <2> QED
    BY <2>2, <2>3, <2>4
<1>7. DOMAIN desiredCStates(c) = cstatesOf(c)
  BY DEF desiredCStates
<1>8. desiredCStates(c) = [n \in cstatesOf(c) |-> desiredCStates(c)[n]]
  BY DEF desiredCStates
<1> QED
  BY <1>6, <1>7, <1>8

-----------------------------------------------------------------------------
(***************************************************************************)
(* What the invariant says of the properties                               *)
(***************************************************************************)

\* The files after all the writes, one by one.
LEMMA AllWrites ==
    ASSUME NEW c
    PROVE  LET p == pstatesOf(c)  w == afterWrites(c, 5, cstatesOf(c)) IN
           /\ w.gov = IF p.gov # "" THEN p.gov ELSE sysfs[c].gov
           /\ w.epp = IF p.epp # "" THEN p.epp ELSE sysfs[c].epp
           /\ w.max = toScale(c).max /\ w.min = toScale(c).min
           /\ \A n \in cstatesOf(c) : w.cstates[n] = desiredCStates(c)[n]
<1> DEFINE p == pstatesOf(c)
           w == afterWrites(c, 5, cstatesOf(c))
<1>1. /\ w.gov = IF p.gov # "" THEN p.gov ELSE sysfs[c].gov
      /\ w.epp = IF p.epp # "" THEN p.epp ELSE sysfs[c].epp
      /\ w.max = toScale(c).max /\ w.min = toScale(c).min
  BY DEF afterWrites
<1>2. w.cstates = [s \in cstatesOf(c) |-> IF s \in cstatesOf(c) THEN desiredCStates(c)[s] ELSE sysfs[c].cstates[s]]
  BY DEF afterWrites
<1> HIDE DEF w
<1>3. \A n \in cstatesOf(c) : w.cstates[n] = desiredCStates(c)[n]
  BY <1>2, Zenon
<1> QED
  BY <1>1, <1>3 DEF w

LEMMA AppliedFields ==
    ASSUME TypeOK, Accepted, Consolidated, NEW c \in applied
    PROVE  /\ c \in Cpus /\ ScaledRight(c)
           /\ sysfs[c].min = toScale(c).min /\ sysfs[c].max = toScale(c).max
           /\ pstatesOf(c).gov # "" => sysfs[c].gov = pstatesOf(c).gov
           /\ pstatesOf(c).epp # "" => sysfs[c].epp = pstatesOf(c).epp
           /\ \A n \in cstatesOf(c) : sysfs[c].cstates[n] = desiredCStates(c)[n]
<1>1. c \in Cpus /\ hw \in Hardware /\ spec \in Specs \cup {NoProfile}
  BY DEF TypeOK
<1>2. canScale(c) /\ sysfs[c] = afterWrites(c, 5, cstatesOf(c))
  BY DEF Consolidated
<1>3. ScaledRight(c)
  BY <1>1, <1>2, LimitsRight
<1>4. /\ sysfs[c].gov = IF pstatesOf(c).gov # "" THEN pstatesOf(c).gov ELSE sysfs[c].gov
      /\ sysfs[c].epp = IF pstatesOf(c).epp # "" THEN pstatesOf(c).epp ELSE sysfs[c].epp
      /\ sysfs[c].max = toScale(c).max /\ sysfs[c].min = toScale(c).min
      /\ \A n \in cstatesOf(c) : sysfs[c].cstates[n] = desiredCStates(c)[n]
  BY <1>2, AllWrites
<1> QED
  BY <1>1, <1>3, <1>4

LEMMA MatchFromInvariant ==
    ASSUME IInv
    PROVE  SettingsMatch
<1> SUFFICES ASSUME NEW c \in applied
             PROVE  /\ meansMin(c, sysfs[c].min) /\ meansMax(c, sysfs[c].max)
                    /\ \A n \in cstatesOf(c) : meansCState(c, n, sysfs[c].cstates[n])
                    /\ spec = NoProfile => sysfs[c].gov = "powersave" /\ (hw.epp => sysfs[c].epp = "power")
                    /\ spec.gov \in Governors => sysfs[c].gov = spec.gov
                    /\ hw.epp /\ spec.epp # "" => sysfs[c].epp = spec.epp
  BY DEF SettingsMatch
<1>1. /\ TypeOK /\ Accepted /\ Consolidated /\ hw \in Hardware /\ spec \in Specs \cup {NoProfile}
  BY DEF IInv, TypeOK
<1>2. /\ c \in Cpus /\ ScaledRight(c)
      /\ sysfs[c].min = toScale(c).min /\ sysfs[c].max = toScale(c).max
      /\ pstatesOf(c).gov # "" => sysfs[c].gov = pstatesOf(c).gov
      /\ pstatesOf(c).epp # "" => sysfs[c].epp = pstatesOf(c).epp
      /\ \A n \in cstatesOf(c) : sysfs[c].cstates[n] = desiredCStates(c)[n]
  BY <1>1, AppliedFields
<1>3. meansMin(c, sysfs[c].min) /\ meansMax(c, sysfs[c].max)
  BY <1>2 DEF ScaledRight
<1>4. ASSUME NEW n \in cstatesOf(c) PROVE meansCState(c, n, sysfs[c].cstates[n])
  <2>1. meansCState(c, n, desiredCStates(c)[n])
    BY <1>1, <1>2, CStatesRight
  <2> QED
    BY <1>2, <2>1
<1>5. CASE spec = NoProfile
  <2>1. pstatesOf(c).gov = "powersave" /\ pstatesOf(c).epp = (IF hw.epp THEN "power" ELSE "")
    BY <1>1, <1>2, <1>5, PStatesFields
  <2>2. spec.gov \notin Governors /\ spec.epp = ""
    BY <1>5, NoProfileFields, GovernorsAssumption
  <2> QED
    BY <1>2, <1>3, <1>4, <2>1, <2>2
<1>6. CASE spec # NoProfile
  <2>1. pstatesOf(c).gov = spec.gov /\ pstatesOf(c).epp = actualEpp(spec)
    BY <1>1, <1>2, <1>6, PStatesFields
  <2>2. spec.gov \in Governors => spec.gov # ""
    BY GovernorsAssumption
  <2>3. hw.epp => actualEpp(spec) = spec.epp
    BY DEF actualEpp
  <2> QED
    BY <1>2, <1>3, <1>4, <1>6, <2>1, <2>2, <2>3
<1> QED
  BY <1>5, <1>6

LEMMA RangeFromInvariant ==
    ASSUME IInv
    PROVE  InRange
<1>1. TypeOK /\ Accepted /\ Consolidated /\ LimitsKept
  BY DEF IInv
<1>2. ASSUME NEW c \in applied
      PROVE  \/ sysfs[c].min <= sysfs[c].max
             \/ spec.min.type = "int" /\ spec.min.val * Unit > hw.max[c]
             \/ spec.max.type = "int" /\ spec.max.val * Unit < hw.min[c]
  <2>1. ScaledRight(c) /\ sysfs[c].min = toScale(c).min /\ sysfs[c].max = toScale(c).max
    BY <1>1, AppliedFields
  <2> QED
    BY <2>1 DEF ScaledRight
<1> QED
  BY <1>1, <1>2 DEF InRange, LimitsKept

-----------------------------------------------------------------------------
(***************************************************************************)
(* Every step keeps the invariant                                          *)
(***************************************************************************)

LEMMA InitIInv == Init => IInv
<1> SUFFICES ASSUME Init PROVE IInv
  OBVIOUS
<1>1. hw \in Hardware /\ spec = NoProfile /\ profile = NoProfile /\ todo = {} /\ applied = {}
      /\ error = "none" /\ offered = 0 /\ uses = 0 /\ failures = 0
  BY DEF Init
<1>2. ASSUME NEW c \in Cpus
      PROVE  sysfs[c].max = hw.max[c] /\ sysfs[c].min = hw.min[c] /\ sysfs[c].cstates = hw.enabled[c]
  BY <1>2 DEF Init
<1>3. \A c \in Cpus : hw.min[c] \in Nat /\ hw.max[c] \in Nat
  BY <1>1, SystemLimits
<1>4. TypeOK
  <2>1. DOMAIN sysfs = Cpus
    BY DEF Init
  <2>2. \A c \in Cpus : sysfs[c].cstates \in [cstatesOf(c) -> BOOLEAN]
    BY <1>1, <1>2, HardwareAssumption DEF cstatesOf
  <2>3. profile.min.val \in Nat /\ profile.max.val \in Nat /\ profile.gov = "none"
    <3>1. Nil.val \in Nat
      BY DEF Nil
    <3> QED
      BY <1>1, <3>1, NoProfileFields
  <2> QED
    BY <1>1, <1>2, <1>3, <2>1, <2>2, <2>3, BoundsAssumption DEF TypeOK
<1>5. Accepted /\ Consolidated /\ Progress /\ AcceptedApplies
  BY <1>1 DEF Accepted, Consolidated, Progress, AcceptedApplies
<1>6. LimitsKept
  BY <1>2, <1>3 DEF LimitsKept
<1> QED
  BY <1>4, <1>5, <1>6 DEF IInv

LEMMA MachineStays ==
    ASSUME [Next]_vars
    PROVE  /\ hw' = hw /\ systemMin' = systemMin /\ systemMax' = systemMax
           /\ \A c : cstatesOf(c)' = cstatesOf(c)
           /\ \A s : (validPStates(s)' <=> validPStates(s)) /\ (validCStates(s)' <=> validCStates(s))
           /\ \A s : NewPowerProfile(s)' = NewPowerProfile(s)
<1>1. hw' = hw
  BY DEF Next, vars, UseProfile, Consolidate, ConsolidateRefuses, ConsolidateFails, DropProfile, Retry,
         ensureExtendedResources, removeExtendedResources
<1>2. systemMin' = systemMin /\ systemMax' = systemMax /\ \A c : cstatesOf(c)' = cstatesOf(c)
  BY <1>1 DEF systemMin, systemMax, cstatesOf
<1>3. \A s : AdjustMinMaxFreq(s)' = AdjustMinMaxFreq(s) /\ actualEpp(s)' = actualEpp(s)
  BY <1>1, <1>2 DEF AdjustMinMaxFreq, actualEpp
<1>4. ASSUME NEW s PROVE validPStates(s)' <=> validPStates(s)
  BY <1>2, <1>3, Zenon DEF validPStates
<1>5. ASSUME NEW s PROVE validCStates(s)' <=> validCStates(s)
  BY <1>1, Zenon DEF validCStates, cstatesOf
<1>6. ASSUME NEW s PROVE NewPowerProfile(s)' = NewPowerProfile(s)
  BY <1>3, Zenon DEF NewPowerProfile
<1> QED
  BY <1>1, <1>2, <1>4, <1>5, <1>6, Zenon

\* The meaning of the settings changes with the profile only.
LEMMA SettingsStay ==
    ASSUME [Next]_vars, profile' = profile
    PROVE  \A c : /\ pstatesOf(c)' = pstatesOf(c) /\ toScale(c)' = toScale(c)
                  /\ canScale(c)' <=> canScale(c)
                  /\ desiredCStates(c)' = desiredCStates(c)
<1>1. hw' = hw /\ systemMin' = systemMin /\ systemMax' = systemMax /\ \A c : cstatesOf(c)' = cstatesOf(c)
  BY MachineStays
<1>2. \A c : pstatesOf(c)' = pstatesOf(c)
  BY <1>1 DEF pstatesOf, defaultPStates
<1>3. \A c : toScale(c)' = toScale(c)
  BY <1>1, <1>2, Zenon DEF toScale
<1>4. \A c : canScale(c)' <=> canScale(c)
  BY <1>1, <1>2, <1>3, Zenon DEF canScale
<1>5. \A c : desiredCStates(c)' = desiredCStates(c)
  BY <1>1, Zenon DEF desiredCStates
<1> QED
  BY <1>2, <1>3, <1>4, <1>5, Zenon

LEMMA NextAccepted ==
    ASSUME IInv, [Next]_vars
    PROVE  Accepted'
<1> USE DEF IInv
<1>1. hw \in Hardware
  BY DEF TypeOK
<1>2. /\ \A s : (validPStates(s)' <=> validPStates(s)) /\ (validCStates(s)' <=> validCStates(s))
      /\ \A s : NewPowerProfile(s)' = NewPowerProfile(s)
  BY MachineStays
<1>3. CASE UNCHANGED <<spec, profile>>
  <2>1. CASE spec = NoProfile
    BY <1>3, <2>1 DEF Accepted
  <2>2. CASE spec # NoProfile
    <3>1. validPStates(spec) /\ validCStates(spec) /\ profile = NewPowerProfile(spec)
      BY <2>2 DEF Accepted
    <3>2. validPStates(spec)' /\ validCStates(spec)' /\ profile' = NewPowerProfile(spec)'
      <4>1. hw' = hw /\ spec' = spec /\ profile' = profile
        BY <1>3, MachineStays
      <4>2. validPStates(spec)'
        BY <3>1, <4>1, ZenonT(40) DEF validPStates, AdjustMinMaxFreq, actualEpp, systemMin, systemMax
      <4>3. validCStates(spec)'
        BY <3>1, <4>1 DEF validCStates, cstatesOf
      <4>4. NewPowerProfile(spec)' = NewPowerProfile(spec)
        BY <4>1 DEF NewPowerProfile, AdjustMinMaxFreq, actualEpp, systemMin, systemMax
      <4> QED
        BY <3>1, <4>1, <4>2, <4>3, <4>4
    <3> QED
      BY <1>3, <2>2, <3>2 DEF Accepted
  <2> QED
    BY <2>1, <2>2
<1>4. ASSUME NEW s \in Specs, UseProfile(s), validPStates(s), validCStates(s) PROVE Accepted'
  <2>1. spec' = s /\ profile' = NewPowerProfile(s) /\ hw' = hw
    BY <1>4 DEF UseProfile
  <2>2. s # NoProfile
    BY <1>1, <1>4, NewProfileTypes
  <2>3. validPStates(spec)'
    BY <1>4, <2>1, ZenonT(40) DEF validPStates, AdjustMinMaxFreq, actualEpp, systemMin, systemMax
  <2>4. validCStates(spec)'
    BY <1>4, <2>1 DEF validCStates, cstatesOf
  <2>5. NewPowerProfile(spec)' = NewPowerProfile(s)
    BY <2>1 DEF NewPowerProfile, AdjustMinMaxFreq, actualEpp, systemMin, systemMax
  <2> QED
    BY <2>1, <2>2, <2>3, <2>4, <2>5 DEF Accepted
<1>5. CASE DropProfile
  BY <1>5 DEF DropProfile, Accepted
<1> QED
  BY <1>3, <1>4, <1>5 DEF Next, vars, UseProfile, Consolidate, ConsolidateRefuses, ConsolidateFails, Retry,
                          ensureExtendedResources, removeExtendedResources

LEMMA NextProgress ==
    ASSUME IInv, [Next]_vars
    PROVE  Progress'
<1>1. todo \subseteq Cpus /\ applied \subseteq Cpus /\ Progress
  BY DEF IInv, TypeOK
<1>2. CASE UNCHANGED <<todo, applied, error, profile>>
  BY <1>1, <1>2 DEF Progress
<1>3. ASSUME NEW s \in Specs, UseProfile(s) PROVE Progress'
  BY <1>1, <1>3 DEF Progress, UseProfile
<1>4. ASSUME NEW c \in Cpus, Consolidate(c) PROVE Progress'
  BY <1>1, <1>4 DEF Progress, Consolidate
<1>5. ASSUME NEW c \in Cpus, ConsolidateRefuses(c) PROVE Progress'
  BY <1>1, <1>5 DEF Progress, ConsolidateRefuses
<1>6. ASSUME NEW c \in Cpus, NEW n \in 0..4, NEW S \in SUBSET cstatesOf(c), ConsolidateFails(c, n, S) PROVE Progress'
  BY <1>1, <1>6 DEF Progress, ConsolidateFails
<1>7. CASE DropProfile \/ Retry
  BY <1>1, <1>7 DEF Progress, DropProfile, Retry
<1> QED
  BY <1>2, <1>3, <1>4, <1>5, <1>6, <1>7 DEF Next, vars, ensureExtendedResources, removeExtendedResources

LEMMA NextApplies ==
    ASSUME IInv, [Next]_vars
    PROVE  AcceptedApplies'
<1> DEFINE refused == \/ \E v \in {spec.min, spec.max} : v.type = "string" /\ ~v.percent
                      \/ profile.min.type = "int" /\ profile.min.val < systemMin /\ systemMin % Unit # 0
<1>1. hw \in Hardware /\ spec \in Specs \cup {NoProfile} /\ Accepted /\ (error = "refused" => refused)
  BY DEF IInv, TypeOK, AcceptedApplies
<1>2. systemMin' = systemMin
  BY MachineStays
<1>3. ASSUME UNCHANGED <<spec, profile>>, refused PROVE AcceptedApplies'
  BY <1>2, <1>3, Zenon DEF AcceptedApplies
<1>4. CASE UNCHANGED <<spec, profile, error>>
  <2>1. CASE error = "refused"
    BY <1>1, <1>3, <1>4, <2>1
  <2>2. CASE error # "refused"
    BY <1>4, <2>2 DEF AcceptedApplies
  <2> QED
    BY <2>1, <2>2
<1>5. CASE error' # "refused"
  BY <1>5 DEF AcceptedApplies
<1>6. ASSUME NEW c \in Cpus, ConsolidateRefuses(c) PROVE AcceptedApplies'
  <2>1. ~canScale(c) /\ UNCHANGED <<spec, profile>>
    BY <1>6 DEF ConsolidateRefuses
  <2>2. refused
    BY <1>1, <2>1, RefusedFacts
  <2> QED
    BY <1>3, <2>1, <2>2
<1> QED
  BY <1>4, <1>5, <1>6 DEF Next, vars, UseProfile, Consolidate, ConsolidateFails, DropProfile, Retry,
                          ensureExtendedResources, removeExtendedResources

\* What a consolidation of CPU c, however far it goes, does to the files.
LEMMA WritesFacts ==
    ASSUME IInv, [Next]_vars
    PROVE  \/ sysfs' = sysfs
           \/ /\ profile' = profile
              /\ \E c \in todo, n \in 0..5 : \E S \in SUBSET cstatesOf(c) :
                    /\ sysfs' = [sysfs EXCEPT ![c] = afterWrites(c, n, S)]
                    /\ n >= 3 => canScale(c)
                    /\ \/ applied' = applied
                       \/ applied' = applied \cup {c} /\ n = 5 /\ S = cstatesOf(c) /\ canScale(c)
<1>1. ASSUME NEW c \in Cpus, Consolidate(c)
      PROVE  /\ profile' = profile /\ c \in todo /\ canScale(c) /\ applied' = applied \cup {c}
             /\ sysfs' = [sysfs EXCEPT ![c] = afterWrites(c, 5, cstatesOf(c))]
  BY <1>1 DEF Consolidate
<1>2. ASSUME NEW c \in Cpus, ConsolidateRefuses(c)
      PROVE  profile' = profile /\ c \in todo /\ applied' = applied /\ sysfs' = [sysfs EXCEPT ![c] = afterWrites(c, 2, {})]
  BY <1>2 DEF ConsolidateRefuses
<1>3. ASSUME NEW c \in Cpus, NEW n \in 0..4, NEW S \in SUBSET cstatesOf(c), ConsolidateFails(c, n, S)
      PROVE  /\ profile' = profile /\ c \in todo /\ applied' = applied /\ (n >= 3 => canScale(c))
             /\ sysfs' = [sysfs EXCEPT ![c] = afterWrites(c, n, S)]
  <2>1. /\ profile' = profile /\ c \in todo /\ applied' = applied /\ (n >= 2 => canScale(c))
        /\ sysfs' = [sysfs EXCEPT ![c] = afterWrites(c, n, S)]
    BY <1>3, Zenon DEF ConsolidateFails
  <2>2. n >= 3 => n >= 2
    OBVIOUS
  <2> QED
    BY <2>1, <2>2, Zenon
<1>4. CASE \E c \in Cpus : Consolidate(c)
  <2>1. PICK c \in Cpus : Consolidate(c)
    BY <1>4
  <2>2. 5 \in 0..5 /\ cstatesOf(c) \in SUBSET cstatesOf(c)
    OBVIOUS
  <2> QED
    BY <1>1, <2>1, <2>2, Zenon
<1>5. CASE \E c \in Cpus : ConsolidateRefuses(c)
  <2>1. PICK c \in Cpus : ConsolidateRefuses(c)
    BY <1>5
  <2>2. 2 \in 0..5 /\ {} \in SUBSET cstatesOf(c) /\ ~(2 >= 3)
    OBVIOUS
  <2> QED
    BY <1>2, <2>1, <2>2, Zenon
<1>6. CASE \E c \in Cpus, n \in 0..4 : \E S \in SUBSET cstatesOf(c) : ConsolidateFails(c, n, S)
  <2>1. PICK c \in Cpus, n \in 0..4 : \E S \in SUBSET cstatesOf(c) : ConsolidateFails(c, n, S)
    BY <1>6
  <2>2. PICK S \in SUBSET cstatesOf(c) : ConsolidateFails(c, n, S)
    BY <2>1
  <2>3. n \in 0..5
    OBVIOUS
  <2> QED
    BY <1>3, <2>2, <2>3
<1>7. CASE sysfs' = sysfs
  BY <1>7
<1> QED
  BY <1>4, <1>5, <1>6, <1>7 DEF Next, vars, UseProfile, DropProfile, Retry, ensureExtendedResources, removeExtendedResources

LEMMA NextConsolidated ==
    ASSUME IInv, [Next]_vars
    PROVE  Consolidated'
<1>1. /\ applied \subseteq Cpus /\ todo \subseteq Cpus /\ DOMAIN sysfs = Cpus
      /\ todo \cap applied = {} /\ Consolidated
  BY DEF IInv, TypeOK, Progress
<1> DEFINE after(d) == afterWrites(d, 5, cstatesOf(d))
<1>2. ASSUME NEW d, profile' = profile, sysfs'[d] = sysfs[d]
      PROVE  after(d)' = after(d) /\ (canScale(d)' <=> canScale(d))
  <2>1. /\ pstatesOf(d)' = pstatesOf(d) /\ toScale(d)' = toScale(d)
        /\ canScale(d)' <=> canScale(d)
        /\ desiredCStates(d)' = desiredCStates(d)
    BY <1>2, SettingsStay
  <2>2. cstatesOf(d)' = cstatesOf(d)
    BY MachineStays
  <2>3. after(d)' = after(d)
    BY <1>2, <2>1, <2>2, Zenon DEF afterWrites
  <2> QED
    BY <2>1, <2>3, Zenon
<1>3. CASE applied' = {}
  BY <1>3 DEF Consolidated
<1>4. CASE profile' = profile /\ sysfs' = sysfs /\ applied' = applied
  BY <1>1, <1>2, <1>4 DEF Consolidated
<1>5. ASSUME profile' = profile, NEW c \in todo, NEW n \in 0..5, NEW S \in SUBSET cstatesOf(c),
             sysfs' = [sysfs EXCEPT ![c] = afterWrites(c, n, S)],
             \/ applied' = applied
             \/ applied' = applied \cup {c} /\ n = 5 /\ S = cstatesOf(c) /\ canScale(c)
      PROVE  Consolidated'
  <2>1. ASSUME NEW d \in applied PROVE canScale(d)' /\ sysfs'[d] = after(d)'
    <3>1. sysfs'[d] = sysfs[d]
      BY <1>1, <1>5, <2>1
    <3>2. canScale(d) /\ sysfs[d] = after(d)
      BY <1>1, <2>1 DEF Consolidated
    <3> QED
      BY <1>2, <1>5, <3>1, <3>2, Zenon
  <2>2. CASE applied' = applied
    BY <2>1, <2>2 DEF Consolidated
  <2>3. CASE applied' = applied \cup {c} /\ n = 5 /\ S = cstatesOf(c) /\ canScale(c)
    <3> DEFINE w == after(c)
               p == pstatesOf(c)
    <3>1. sysfs'[c] = w
      BY <1>1, <1>5, <2>3
    <3>2. /\ pstatesOf(c)' = p /\ toScale(c)' = toScale(c) /\ canScale(c)'
          /\ desiredCStates(c)' = desiredCStates(c) /\ cstatesOf(c)' = cstatesOf(c)
      BY <1>5, <2>3, SettingsStay, MachineStays
    <3>3. /\ w.gov = IF p.gov # "" THEN p.gov ELSE sysfs[c].gov
          /\ w.epp = IF p.epp # "" THEN p.epp ELSE sysfs[c].epp
          /\ w.max = toScale(c).max /\ w.min = toScale(c).min
      BY AllWrites
    <3>4. w.cstates = [s \in cstatesOf(c) |-> IF s \in cstatesOf(c) THEN desiredCStates(c)[s] ELSE sysfs[c].cstates[s]]
      BY DEF afterWrites
    <3>5. after(c)' = [gov |-> IF p.gov # "" THEN p.gov ELSE w.gov,
                       epp |-> IF p.epp # "" THEN p.epp ELSE w.epp,
                       max |-> toScale(c).max, min |-> toScale(c).min,
                       cstates |-> [s \in cstatesOf(c) |-> IF s \in cstatesOf(c) THEN desiredCStates(c)[s]
                                                           ELSE w.cstates[s]]]
      <4> HIDE DEF w
      <4>1. 5 >= 1 /\ 5 >= 2 /\ 5 >= 3 /\ 5 >= 4
        OBVIOUS
      <4>2. sysfs[c]' = w
        BY <3>1
      <4> QED
        BY <3>2, <4>1, <4>2, Zenon DEF afterWrites
    <3>6. [s \in cstatesOf(c) |-> IF s \in cstatesOf(c) THEN desiredCStates(c)[s] ELSE w.cstates[s]] = w.cstates
      <4>1. ASSUME NEW x, NEW y
            PROVE  [s \in cstatesOf(c) |-> IF s \in cstatesOf(c) THEN desiredCStates(c)[s] ELSE x[s]] =
                   [s \in cstatesOf(c) |-> IF s \in cstatesOf(c) THEN desiredCStates(c)[s] ELSE y[s]]
        OBVIOUS
      <4> HIDE DEF w
      <4> QED
        BY <3>4, <4>1, Zenon
    <3>7. w = [gov |-> w.gov, epp |-> w.epp, max |-> w.max, min |-> w.min, cstates |-> w.cstates]
      BY DEF afterWrites
    <3>8. after(c)' = w
      <4>1. (IF p.gov # "" THEN p.gov ELSE w.gov) = w.gov /\ (IF p.epp # "" THEN p.epp ELSE w.epp) = w.epp
        BY <3>3
      <4> HIDE DEF w, p
      <4>2. after(c)' = [gov |-> w.gov, epp |-> w.epp, max |-> w.max, min |-> w.min, cstates |-> w.cstates]
        BY <3>3, <3>5, <3>6, <4>1, Zenon
      <4> QED
        BY <3>7, <4>2, Zenon
    <3>9. canScale(c)' /\ sysfs'[c] = after(c)'
      BY <3>1, <3>2, <3>8, Zenon
    <3> QED
      BY <2>1, <2>3, <3>9 DEF Consolidated
  <2> QED
    BY <1>5, <2>2, <2>3
<1>6. CASE sysfs' = sysfs
  <2>1. (profile' = profile /\ applied' = applied) \/ applied' = {} \/ \E c \in Cpus : Consolidate(c)
    BY <1>6 DEF Next, vars, UseProfile, ConsolidateRefuses, ConsolidateFails, DropProfile, Retry,
                ensureExtendedResources, removeExtendedResources
  <2>2. ASSUME NEW c \in Cpus, Consolidate(c) PROVE Consolidated'
    <3>1. /\ profile' = profile /\ c \in todo /\ applied' = applied \cup {c} /\ canScale(c)
          /\ sysfs' = [sysfs EXCEPT ![c] = afterWrites(c, 5, cstatesOf(c))]
      BY <2>2 DEF Consolidate
    <3>2. 5 \in 0..5 /\ cstatesOf(c) \in SUBSET cstatesOf(c)
      OBVIOUS
    <3> QED
      BY <1>5, <3>1, <3>2, Zenon
  <2> QED
    BY <1>3, <1>4, <1>6, <2>1, <2>2
<1> QED
  BY <1>5, <1>6, WritesFacts

LEMMA NextLimits ==
    ASSUME IInv, [Next]_vars
    PROVE  LimitsKept'
<1>1. /\ hw \in Hardware /\ spec \in Specs \cup {NoProfile} /\ Accepted /\ LimitsKept
      /\ todo \subseteq Cpus /\ DOMAIN sysfs = Cpus /\ hw' = hw
  BY MachineStays DEF IInv, TypeOK
<1>2. CASE sysfs' = sysfs
  BY <1>1, <1>2 DEF LimitsKept
<1>3. ASSUME NEW c \in todo, NEW n \in 0..5, NEW S \in SUBSET cstatesOf(c),
             sysfs' = [sysfs EXCEPT ![c] = afterWrites(c, n, S)], n >= 3 => canScale(c)
      PROVE  LimitsKept'
  <2> DEFINE w == afterWrites(c, n, S)
  <2>1. /\ w.max = IF n >= 3 THEN toScale(c).max ELSE sysfs[c].max
        /\ w.min = IF n >= 4 THEN toScale(c).min ELSE sysfs[c].min
    BY DEF afterWrites
  <2>2. n >= 3 => toScale(c).min >= hw.min[c] /\ toScale(c).max <= hw.max[c]
    BY <1>1, <1>3, LimitsRight DEF ScaledRight
  <2> HIDE DEF w
  <2>3. w.min >= hw.min[c] /\ w.max <= hw.max[c]
    <3>1. n >= 4 => n >= 3
      OBVIOUS
    <3> QED
      BY <1>1, <2>1, <2>2, <3>1 DEF LimitsKept
  <2>4. sysfs' = [sysfs EXCEPT ![c] = w]
    BY <1>3 DEF w
  <2> QED
    BY <1>1, <2>3, <2>4 DEF LimitsKept
<1> QED
  BY <1>2, <1>3, WritesFacts

\* What the node offers: some CPUs, and what a percentage says unless it says none.
LEMMA CapacityFacts ==
    ASSUME NEW v, IsValue(v)
    PROVE  /\ capacity(v) \in Nat /\ capacity(v) >= 1
           /\ v.percent /\ v.val * Cardinality(Cpus) >= 100 =>
                capacity(v) * 100 \in (v.val * Cardinality(Cpus) - 99)..(v.val * Cardinality(Cpus))
<1> DEFINE total == Cardinality(Cpus)
           P == v.val * total
           n == IF v.type = "int" THEN v.val ELSE IF v.percent THEN P \div 100 ELSE 0
<1>1. total \in Nat /\ total # 0
  BY CpusAssumption, FS_CardinalityType, FS_EmptySet
<1>2. v.val \in Int /\ (v.percent => v.type = "string" /\ v.val \in 0..100)
  BY DEF IsValue
<1>3. P \in Int /\ (v.percent => P \in Nat)
  <2> HIDE DEF total
  <2>1. \A x \in Int : x * total \in Int
    BY <1>1
  <2>2. \A x \in 0..100 : x * total \in Nat
    BY <1>1
  <2> QED
    BY <1>2, <2>1, <2>2
<1>4. capacity(v) = IF n > 0 THEN n ELSE total
  BY DEF capacity
<1> HIDE DEF P
<1>5. n \in Int
  BY <1>2, <1>3
<1>6. v.percent => n = P \div 100
  BY <1>2
<1> HIDE DEF n, total
<1>7. capacity(v) \in Nat /\ capacity(v) >= 1
  BY <1>1, <1>4, <1>5
<1>8. ASSUME v.percent, P >= 100 PROVE capacity(v) * 100 \in (P - 99)..P
  <2>1. n = P \div 100 /\ P \in Nat
    BY <1>3, <1>6, <1>8
  <2>2. P \div 100 >= 1 /\ (P \div 100) * 100 \in (P - 99)..P
    BY <1>8, <2>1
  <2> QED
    BY <1>4, <2>1, <2>2
<1> QED
  BY <1>7, <1>8 DEF P, total

LEMMA NextTypeOK ==
    ASSUME IInv, [Next]_vars
    PROVE  TypeOK'
<1> USE BoundsAssumption
<1>1. TypeOK /\ Accepted
  BY DEF IInv
<1>2. hw \in Hardware /\ hw' = hw /\ \A c : cstatesOf(c)' = cstatesOf(c)
  BY <1>1, MachineStays DEF TypeOK
<1>3. /\ DOMAIN sysfs' = Cpus
      /\ \A c \in Cpus : /\ sysfs'[c].min \in Nat /\ sysfs'[c].max \in Nat
                         /\ sysfs'[c].cstates \in [cstatesOf(c) -> BOOLEAN]
  <2>1. CASE sysfs' = sysfs
    BY <1>1, <2>1 DEF TypeOK
  <2>2. ASSUME NEW c \in todo, NEW n \in 0..5, NEW S \in SUBSET cstatesOf(c),
               sysfs' = [sysfs EXCEPT ![c] = afterWrites(c, n, S)], n >= 3 => canScale(c)
        PROVE  /\ DOMAIN sysfs' = Cpus
               /\ \A d \in Cpus : /\ sysfs'[d].min \in Nat /\ sysfs'[d].max \in Nat
                                  /\ sysfs'[d].cstates \in [cstatesOf(d) -> BOOLEAN]
    <3> DEFINE w == afterWrites(c, n, S)
    <3>1. /\ w.max = IF n >= 3 THEN toScale(c).max ELSE sysfs[c].max
          /\ w.min = IF n >= 4 THEN toScale(c).min ELSE sysfs[c].min
      BY DEF afterWrites
    <3>2. w.cstates = [s \in cstatesOf(c) |-> IF s \in S THEN desiredCStates(c)[s] ELSE sysfs[c].cstates[s]]
      BY DEF afterWrites
    <3>3. n >= 3 => toScale(c).min \in Nat /\ toScale(c).max \in Nat
      BY <1>1, <1>2, <2>2, LimitsRight DEF ScaledRight, TypeOK
    <3>4. c \in Cpus /\ sysfs[c].min \in Nat /\ sysfs[c].max \in Nat /\ sysfs[c].cstates \in [cstatesOf(c) -> BOOLEAN]
      BY <1>1 DEF TypeOK
    <3>5. desiredCStates(c) \in [cstatesOf(c) -> BOOLEAN]
      BY <1>1, <1>2, <3>4, CStatesRight DEF TypeOK
    <3>6. w.min \in Nat /\ w.max \in Nat
      <4>1. n >= 4 => n >= 3
        OBVIOUS
      <4> HIDE DEF w
      <4> QED
        BY <3>1, <3>3, <3>4, <4>1
    <3>7. w.cstates \in [cstatesOf(c) -> BOOLEAN]
      <4> HIDE DEF w
      <4> QED
        BY <3>2, <3>4, <3>5
    <3>8. sysfs' = [sysfs EXCEPT ![c] = w]
      BY <2>2
    <3> HIDE DEF w
    <3> QED
      BY <1>1, <3>4, <3>6, <3>7, <3>8 DEF TypeOK
  <2> QED
    BY <2>1, <2>2, WritesFacts
<1>4. /\ spec' \in Specs \cup {NoProfile}
      /\ profile'.min.val \in Nat /\ profile'.max.val \in Nat
      /\ profile'.gov \in Governors \cup {"", "none"}
  <2>1. CASE UNCHANGED <<spec, profile>>
    BY <1>1, <2>1 DEF TypeOK
  <2>2. ASSUME NEW s \in Specs, UseProfile(s), validPStates(s) /\ validCStates(s)
        PROVE  /\ spec' \in Specs \cup {NoProfile}
               /\ profile'.min.val \in Nat /\ profile'.max.val \in Nat
               /\ profile'.gov \in Governors \cup {"", "none"}
    <3>1. spec' = s /\ profile' = NewPowerProfile(s)
      BY <2>2 DEF UseProfile
    <3> QED
      BY <1>2, <2>2, <3>1, NewProfileTypes
  <2>3. CASE DropProfile
    <3>1. spec' = NoProfile /\ profile' = NoProfile
      BY <2>3 DEF DropProfile
    <3>2. Nil.val \in Nat
      BY DEF Nil
    <3> QED
      BY <3>1, <3>2, NoProfileFields
  <2> QED
    BY <2>1, <2>2, <2>3 DEF Next, vars, UseProfile, Consolidate, ConsolidateRefuses, ConsolidateFails, Retry,
                            ensureExtendedResources, removeExtendedResources
<1>5. /\ todo' \subseteq Cpus /\ applied' \subseteq Cpus
      /\ error' \in {"none", "invalid", "refused", "write"}
      /\ uses' \in 0..MaxProfiles /\ failures' \in 0..MaxFailures
  <2>1. /\ todo \subseteq Cpus /\ applied \subseteq Cpus
        /\ error \in {"none", "invalid", "refused", "write"}
        /\ uses \in 0..MaxProfiles /\ failures \in 0..MaxFailures
    BY <1>1 DEF TypeOK
  <2> DEFINE P == /\ todo' \subseteq Cpus /\ applied' \subseteq Cpus
                  /\ error' \in {"none", "invalid", "refused", "write"}
                  /\ uses' \in 0..MaxProfiles /\ failures' \in 0..MaxFailures
  <2>2. CASE UNCHANGED <<todo, applied, error, uses, failures>>
    BY <2>1, <2>2
  <2>3. ASSUME NEW s \in Specs, UseProfile(s) PROVE P
    BY <2>1, <2>3 DEF UseProfile
  <2>4. ASSUME NEW c \in Cpus, Consolidate(c) PROVE P
    BY <2>1, <2>4 DEF Consolidate
  <2>5. ASSUME NEW c \in Cpus, ConsolidateRefuses(c) PROVE P
    BY <2>1, <2>5 DEF ConsolidateRefuses
  <2>6. ASSUME NEW c \in Cpus, NEW n \in 0..4, NEW S \in SUBSET cstatesOf(c), ConsolidateFails(c, n, S) PROVE P
    <3>1. failures < MaxFailures /\ failures' = failures + 1 /\ todo' = {} /\ error' = "write"
          /\ applied' = applied /\ uses' = uses
      BY <2>6, Zenon DEF ConsolidateFails
    <3> QED
      BY <2>1, <3>1
  <2>7. CASE DropProfile \/ Retry
    BY <2>1, <2>7 DEF DropProfile, Retry
  <2> QED
    BY <2>2, <2>3, <2>4, <2>5, <2>6, <2>7 DEF Next, vars, ensureExtendedResources, removeExtendedResources
<1>6. offered' \in Nat
  <2>1. CASE ensureExtendedResources
    <3>1. IsValue(profile.capacity)
      <4>1. profile.capacity = spec.capacity
        BY <1>1, ProfileFields, NoProfileFields DEF Accepted, TypeOK
      <4> QED
        BY <1>1, <4>1, SpecFacts DEF TypeOK
    <3>2. offered' = capacity(profile.capacity)
      BY <2>1 DEF ensureExtendedResources
    <3> QED
      BY <3>1, <3>2, CapacityFacts
  <2>2. CASE removeExtendedResources
    BY <2>2 DEF removeExtendedResources
  <2>3. CASE offered' = offered
    BY <1>1, <2>3 DEF TypeOK
  <2> QED
    BY <2>1, <2>2, <2>3 DEF Next, vars, UseProfile, Consolidate, ConsolidateRefuses, ConsolidateFails,
                            DropProfile, Retry
<1> QED
  BY <1>2, <1>3, <1>4, <1>5, <1>6 DEF TypeOK

LEMMA NextIInv == IInv /\ [Next]_vars => IInv'
<1> SUFFICES ASSUME IInv, [Next]_vars PROVE IInv'
  OBVIOUS
<1>1. TypeOK' /\ Accepted' /\ Consolidated' /\ Progress' /\ LimitsKept' /\ AcceptedApplies'
  BY NextTypeOK, NextAccepted, NextConsolidated, NextProgress, NextLimits, NextApplies
<1> QED
  BY <1>1 DEF IInv

LEMMA AlwaysIInv == Spec => []IInv
  BY InitIInv, NextIInv, PTL DEF Spec

-----------------------------------------------------------------------------

\* Type correctness, of the values in the files above all: whatever a profile says, what
\* validation accepts is a frequency.
THEOREM SettingsTypeSafety == Spec => []TypeOK
<1>1. IInv => TypeOK
  BY DEF IInv
<1> QED
  BY <1>1, AlwaysIInv, PTL

\* Whatever a profile asks of whatever machine, and wherever writes fail, no CPU is sent
\* below its least frequency or above its greatest (setDriverValues).
THEOREM FrequenciesInRange == Spec => []InRange
<1>1. IInv => InRange
  BY RangeFromInvariant
<1> QED
  BY <1>1, AlwaysIInv, PTL

\* Each CPU that consolidate leaves without an error has what the profile means on a CPU
\* of its type, for every machine and profile, and whatever was there before.
THEOREM ProfilesMeanTheSame == Spec => []SettingsMatch
<1>1. IInv => SettingsMatch
  BY MatchFromInvariant
<1> QED
  BY <1>1, AlwaysIInv, PTL

\* The library refuses what the controller's validation accepted in two cases only.
THEOREM AcceptedIsApplied == Spec => []AcceptedApplies
<1>1. IInv => AcceptedApplies
  BY DEF IInv
<1> QED
  BY <1>1, AlwaysIInv, PTL

\* The node offers CPUs of a profile when all of them have it, and as many as asked for.
THEOREM OffersApplied == Spec => OfferedWhenApplied
<1> DEFINE Offer == offered' # offered /\ offered' # 0 =>
                      LET v == spec.capacity  total == Cardinality(Cpus) IN
                      /\ applied = Cpus
                      /\ offered' >= 1
                      /\ v.percent /\ v.val * total >= 100 =>
                            offered' * 100 \in (v.val * total - 99)..(v.val * total)
<1>1. ASSUME IInv, [Next]_vars PROVE [Offer]_vars
  <2> SUFFICES ASSUME offered' # offered, offered' # 0 PROVE Offer
    OBVIOUS
  <2>1. ensureExtendedResources
    BY <1>1 DEF Next, vars, UseProfile, Consolidate, ConsolidateRefuses, ConsolidateFails, DropProfile, Retry,
                removeExtendedResources
  <2>2. TypeOK /\ Accepted /\ Progress
    BY <1>1 DEF IInv
  <2>3. applied = Cpus
    BY <2>1, <2>2 DEF ensureExtendedResources, Progress
  <2>4. profile.capacity = spec.capacity /\ IsValue(spec.capacity)
    BY <2>2, ProfileFields, NoProfileFields, SpecFacts DEF Accepted, TypeOK
  <2>5. offered' = capacity(spec.capacity)
    BY <2>1, <2>4 DEF ensureExtendedResources
  <2> QED
    BY <2>3, <2>4, <2>5, CapacityFacts
<1> QED
  BY <1>1, AlwaysIInv, PTL DEF Spec, OfferedWhenApplied

=============================================================================
