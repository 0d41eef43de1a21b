CONSTANTS
    Families = {"Deployment", "StatefulSet", "CronJob"}
    Names = {"web", "api"}
    ChildNames = {"c", "d"}
    PodNames = {"p", "q"}
    ReuseNames = TRUE
    MaxEvents = 3
SPECIFICATION Spec
PROPERTIES
    StopsTheOwner
CHECK_DEADLOCK FALSE
