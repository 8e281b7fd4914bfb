SPECIFICATION Spec
CONSTANTS
    CPUs <- MCTwoCPUs
    ProfileNames = {"base", "perf"}
    SharedProfiles = {"base"}
    Switchable = {}
    ConfigNames = {1}
    ConfigSpecs <- MCReservedSpecs
    Pods = {"a"}
    podSpec <- MCReusedCpu
    MaxVersion = 1
    MaxEdits = 3
    Faults = {"sysfs", "requests", "lag"}
    MayUnmatch = FALSE
    Prompt = TRUE
INVARIANTS CpusSettled PoolsTakenDown ProfilesWithdrawn
