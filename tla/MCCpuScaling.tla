--------------------------- MODULE MCCpuScaling ---------------------------
(***************************************************************************)
(* Small instances of CpuScaling for TLC.                                  *)
(***************************************************************************)
EXTENDS CpuScaling, TLC

\* A usage of 60 is above what the one asks for and below what the other does.
Steep == [target |-> 40, allowedUsage |-> 5, allowedFreq |-> 0, scale |-> 100, fallback |-> 0]
Gentle == [target |-> 80, allowedUsage |-> 5, allowedFreq |-> 1, scale |-> 50, fallback |-> 100]

MCPolicies == {Steep, Gentle}
MCOnePolicy == {Steep}
Symmetry == Permutations(Workers)

\* Two pods on the same CPU, one after the other.
MCReusedCpu == [p \in Pods |-> {0}]

=============================================================================
