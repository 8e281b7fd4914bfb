--------------------------- MODULE MCCpuSettings ---------------------------
(***************************************************************************)
(* Machines and profiles for CpuSettings: two CPUs, alike or of two types, *)
(* 10 kHz to a MHz, and specs that differ from a plain one in one respect. *)
(***************************************************************************)
EXTENDS CpuSettings, TLC

machine(min1, max1, min2, max2, epp) ==
    [min |-> ("p" :> min1 @@ "e" :> min2), max |-> ("p" :> max1 @@ "e" :> max2), epp |-> epp,
     latency |-> ("p" :> ("C1" :> 2 @@ "C6" :> 8) @@ "e" :> ("C1" :> 3)),
     enabled |-> ("p" :> ("C1" :> TRUE @@ "C6" :> FALSE) @@ "e" :> ("C1" :> TRUE))]

MCHardware ==
    {machine(100, 300, 100, 300, TRUE),     \* one type of CPU
     machine(100, 300, 60, 173, FALSE),     \* two types, and no EPP
     machine(105, 307, 105, 307, TRUE)}     \* limits that are no whole MHz

plain == [min |-> Nil, max |-> Nil, gov |-> "powersave", epp |-> "", latency |-> NoLatency,
          names |-> NoNames, capacity |-> Percent(100)]

Limits ==
    {<<Nil, IntValue(20)>>, <<Nil, IntValue(8)>>, <<IntValue(20), Nil>>, <<IntValue(10), IntValue(30)>>,
     <<IntValue(8), IntValue(16)>>, <<IntValue(20), IntValue(10)>>, <<IntValue(5), IntValue(20)>>,
     <<IntValue(20), IntValue(31)>>, <<Nil, Percent(33)>>, <<Percent(50), Nil>>,
     <<Percent(7), Percent(99)>>, <<Percent(60), Percent(40)>>, <<Percent(10), IntValue(20)>>,
     <<Digits(12), Digits(20)>>}

MCSpecs ==
    {[plain EXCEPT !.min = l[1], !.max = l[2]] : l \in Limits}
    \cup {[plain EXCEPT !.gov = g, !.epp = e] :
            g \in {"", "powersave", "performance", "unknown"}, e \in {"", "power", "performance"}}
    \cup {[plain EXCEPT !.latency = l] : l \in {0, 2, 5}}
    \cup {[plain EXCEPT !.names = f] : f \in {"C6" :> TRUE, "C1" :> FALSE, "C9" :> TRUE}}
    \cup {[plain EXCEPT !.capacity = v] : v \in {Percent(50), Percent(99), Percent(1), IntValue(1), IntValue(3), Digits(50)}}

=============================================================================
