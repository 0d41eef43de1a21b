CONSTANTS
    Operators = {o1}
    Policies = {p, q}
    DryRun = {q}
    None = None
    MaxSize = 2
    ExternalSizes = {1, 2}
    MaxExternal = 2
    MaxTries = 3
    MaxFaults = 2
SPECIFICATION FairSpec
INVARIANTS
    TypeOK
    RecordsAreExact
    StopsAreRecorded
    ActedSawZero
PROPERTIES
    ImplementsContract
    CallsAreBounded
    SelfCorrects
