SPECIFICATION FairSpec
CONSTANTS
    CPUs <- MCCPUs
    packageID <- MCPackages
    dieID <- MCDies
    HWMin = 2
    HWMax = 6
    Step = 2
    Names = {1, 2}
    Specs <- MCSpecs
    Faults = {"none", "sysfs", "requests", "lag", "restarts"}
    MaxEdits = 2
INVARIANTS DiesConfigured DiesReset LimitsHeld
PROPERTIES UncoreSettles
