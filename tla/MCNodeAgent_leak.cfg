SPECIFICATION Spec
CONSTANTS
    CPUs <- MCThreeCPUs
    ProfileNames = {"base", "perf"}
    SharedProfiles = {"base"}
    Switchable = {}
    ConfigNames = {1}
    ConfigSpecs <- MCPerfSpecs
    Pods = {"a"}
    podSpec <- MCTwoContainers
    MaxVersion = 1
    MaxEdits = 3
    Faults = {"none"}
    MayUnmatch = FALSE
    Prompt = TRUE
INVARIANTS EndedPodsReleaseCpus
