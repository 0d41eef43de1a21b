CONSTANTS
    Families = {"Deployment", "StatefulSet", "CronJob"}
    Names = {"web", "api"}
    ChildNames = {"c", "d"}
    PodNames = {"p", "q"}
    ReuseNames = FALSE
    MaxEvents = 3
SPECIFICATION FairSpec
INVARIANTS
    TypeOK
PROPERTIES
    StopsTheOwner
    HealthyReplicasProtect
    BrokenIsStopped
CHECK_DEADLOCK FALSE
