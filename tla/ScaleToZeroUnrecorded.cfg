CONSTANTS
    Operators = {o1}
    Policies = {p}
    DryRun = {}
    None = None
    MaxSize = 2
    ExternalSizes = {0, 2}
    MaxExternal = 3
    MaxTries = 2
    MaxFaults = 0
SPECIFICATION Spec
INVARIANTS
    StopsAreRecorded
