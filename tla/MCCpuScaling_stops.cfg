SPECIFICATION FairSpec
CONSTANTS
    Pods = {"a", "b"}
    podCpus <- MCReusedCpu
    Workers = {w1}
    Policies <- MCOnePolicy
    Usages = {100}
    Readings = {1}
    HWMin = 1
    HWMax = 1
    MaxEdits = 3
PROPERTIES StopsReturn
