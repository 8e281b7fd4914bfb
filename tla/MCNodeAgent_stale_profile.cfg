SPECIFICATION Spec
CONSTANTS
    CPUs <- MCTwoCPUs
    ProfileNames = {"base", "perf"}
    SharedProfiles = {"base"}
    Switchable = {}
    ConfigNames = {1}
    ConfigSpecs <- MCBaseSpecs
    Pods = {}
    podSpec <- MCReusedCpu
    MaxVersion = 2
    MaxEdits = 1
    Faults = {"none"}
    MayUnmatch = FALSE
    Prompt = TRUE
INVARIANTS SharedProfileCurrent
