SPECIFICATION FairSpec
CONSTANTS
    CPUs <- MCTwoCPUs
    PoolObjs = {p1}
    PoolNames = {n1}
    Profiles = {f1}
    CpuLists <- MCTwoLists
    Threads = {t1, t2}
INVARIANTS TypeOK MutexOwned MembershipAgrees HardwareFollowsPool CallDelivers
PROPERTIES ImplementsAssignment CallsReturn
