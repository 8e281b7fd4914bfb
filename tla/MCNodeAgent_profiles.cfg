SPECIFICATION Spec
CONSTANTS
    CPUs <- MCTwoCPUs
    ProfileNames = {"base", "perf"}
    SharedProfiles = {"base"}
    Switchable = {"base"}
    ConfigNames = {1, 2}
    ConfigSpecs <- MCPerfSpecs
    Pods = {"a"}
    podSpec <- MCReusedCpu
    MaxVersion = 3
    MaxEdits = 3
    Faults = {"none", "restarts"}
    MayUnmatch = TRUE
    Prompt = TRUE
INVARIANTS CpusSettled ProfilesApplied ProfilesWithdrawn SharedStatusFresh
