CONSTANTS
    d = d
    c = c
    Policies = {1}
    Workloads = {d, c}
    KindOf <- MCKindOf
    Scope <- Exchanged
    DryRun = {}
    None = None
    Kept <- Nothing
    MaxActive = 1
    CounterSize = 3
    MaxTries = 2
    MaxGeneration = 2
    MaxEvents = 2
    MaxFaults = 1
    MaxUncounted = 3
SPECIFICATION FairSpec
INVARIANTS
    TypeOK
    CountedOnce
    ListsWhatItObserved
    SignedByRight
    NoPolicyIsForgotten
    ListsOnlySigned
PROPERTIES
    PhaseNeverRegresses
    WritesSaySomethingNew
    CronJobsKeepContract
    EvaluationsEnd
    ImplementsContract
    StatusConverges
