CONSTANTS
    d = d
    c = c
    Policies = {1}
    Workloads = {d}
    KindOf <- MCKindOf
    Scope <- Everything
    DryRun = {1}
    None = None
    Kept <- Nothing
    MaxActive = 1
    CounterSize = 2
    MaxTries = 2
    MaxGeneration = 1
    MaxEvents = 1
    MaxFaults = 0
    MaxUncounted = 2
SPECIFICATION FairSpec
PROPERTIES
    StatusComesToRest
