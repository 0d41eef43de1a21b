CONSTANTS
    d = d
    c = c
    Policies = {1, 2}
    Workloads = {d, c}
    KindOf <- MCKindOf
    Scope <- Overlapping
    DryRun = {2}
    None = None
    Kept <- OnlyD
    MaxActive = 1
    CounterSize = 3
    MaxTries = 1
    MaxGeneration = 1
    MaxEvents = 1
    MaxFaults = 0
    MaxUncounted = 3
SPECIFICATION FairSpec
INVARIANTS
    ListsEachOnce
PROPERTIES
    FailingIsStopped
