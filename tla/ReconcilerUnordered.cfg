CONSTANTS
    d = d
    c = c
    Policies = {1}
    Workloads = {d, e}
    KindOf <- MCKindOf
    Scope <- Everything
    DryRun = {}
    None = None
    Kept <- AllOfThem
    MaxActive = 2
    CounterSize = 3
    MaxTries = 2
    MaxGeneration = 1
    MaxEvents = 0
    MaxFaults = 0
    MaxUncounted = 3
SPECIFICATION FairSpec
PROPERTIES
    StatusComesToRest
