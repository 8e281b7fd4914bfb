---------------------------- MODULE MCNodeAgent ----------------------------
(***************************************************************************)
(* Small instances of NodeAgent for TLC: "base" is the profile of the      *)
(* shared pool, "perf" the one pods ask for.                               *)
(***************************************************************************)
EXTENDS NodeAgent

MCTwoCPUs == {0, 1}
MCThreeCPUs == {0, 1, 2}

EntryPerf == [pool |-> "node-reserved-[0]", cores |-> {0}, profile |-> "perf"]
EntryBase == [pool |-> "node-reserved-[0]", cores |-> {0}, profile |-> "base"]
PerfSpec == [shared |-> "base", reserved |-> {EntryPerf}]
BaseSpec == [shared |-> "base", reserved |-> {EntryBase}]

MCPerfSpecs == {PerfSpec}
MCBaseSpecs == {BaseSpec}
MCReservedSpecs == {PerfSpec, BaseSpec}

\* Two pods on the same CPU, one after the other.
MCReusedCpu == [p \in Pods |-> <<[profile |-> "perf", cpus |-> {1}]>>]
\* A pod of two containers.
MCTwoContainers == [p \in Pods |-> <<[profile |-> "perf", cpus |-> {1}],
                                     [profile |-> "perf", cpus |-> {2}]>>]

=============================================================================
