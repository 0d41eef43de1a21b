CONSTANTS
    Operators = {o1, o2}
    Policies = {p, q}
    DryRun = {q}
    None = None
    MaxSize = 1
    ExternalSizes = {0, 1}
    MaxExternal = 2
    MaxTries = 2
    MaxFaults = 1
SPECIFICATION FairSpec
PROPERTIES
    ImplementsContract
    SuspendsOnlyRunning
    EventuallySuspended
