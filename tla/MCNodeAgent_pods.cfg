SPECIFICATION FairSpec
CONSTANTS
    CPUs <- MCTwoCPUs
    ProfileNames = {"base", "perf"}
    SharedProfiles = {"base"}
    Switchable = {}
    ConfigNames = {1}
    ConfigSpecs <- MCPerfSpecs
    Pods = {"a", "b"}
    podSpec <- MCReusedCpu
    MaxVersion = 1
    MaxEdits = 4
    Faults = {"none", "lag"}
    MayUnmatch = FALSE
    Prompt = TRUE
INVARIANTS TypeOK CpusSettled SharedStatusFresh EndedPodsReleaseCpus
PROPERTIES PodsKeepCpus Settles
