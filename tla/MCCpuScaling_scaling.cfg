SPECIFICATION Spec
CONSTANTS
    Pods = {"a", "b"}
    podCpus <- MCReusedCpu
    Workers = {w1, w2}
    Policies <- MCPolicies
    Usages = {60}
    Readings = {4}
    HWMin = 1
    HWMax = 3
    MaxEdits = 3
SYMMETRY Symmetry
INVARIANTS TypeOK NoOrphans OneWorkerPerCpu PodsScaled EndedPodsUnscaled UsageIsLive TargetInForce
PROPERTIES ScalesTowardsTarget
