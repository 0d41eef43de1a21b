CONSTANTS
    app = app
    init = init
    crash = crash
    pull = pull
    oom = oom
    Containers = {app, init}
    InitContainers = {init}
    Sidecars = {}
    WaitingReasons = {crash, pull}
    TerminationReasons = {oom}
    DefaultWatchReasons = {crash, pull}
    DefaultRestartThreshold = 2
    DefaultDurationThreshold = 2
    DefaultRestartWindow = 2
    PodStates <- MCPodStates
    NoPod = NoPod
    NoPolicy = NoPolicy
    Items <- TieItems
    Selecting <- LeaksOnly
    Unparseable = {}
    Replicas = {r1, r2}
    MaxChanges = 1
    MaxFailures = 1
SPECIFICATION FairSpec
INVARIANTS
    TypeOK
    WinnerIsMostRestrictive
    SameEvidenceSameActor
    UndisturbedActorWasJudged
    ContainerIsStricter
PROPERTIES
    ActsIffMostRestrictive
    SomeoneActs
CHECK_DEADLOCK FALSE
