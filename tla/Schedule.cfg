CONSTANTS
    Pods = {p, q}
    Excluded = {}
    DurationThreshold = 4
    ReconcileInterval = 0
    DefaultInterval = 3
    MinimumRequeue = 1
    MaxWait = 1
    MaxEvaluation = 1
    MaxBackoff = 2
    MaxEvents = 3
SPECIFICATION FairSpec
INVARIANTS
    TypeOK
    ExpiryIsMet
    OverdueIsJudged
    NothingIsForgotten
PROPERTIES
    GaugeFollowsPolicy
