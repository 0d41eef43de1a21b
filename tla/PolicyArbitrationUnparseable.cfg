CONSTANTS
    app = app
    init = init
    crash = crash
    pull = pull
    oom = oom
    Containers = {app, init}
    InitContainers = {init}
    Sidecars = {}
    WaitingReasons = {crash, pull}
    TerminationReasons = {oom}
    DefaultWatchReasons = {crash, pull}
    DefaultRestartThreshold = 2
    DefaultDurationThreshold = 2
    DefaultRestartWindow = 2
    PodStates <- MorePodStates
    NoPod = NoPod
    NoPolicy = NoPolicy
    Items <- ThreeItems
    Selecting <- LeaksOnly
    Unparseable <- LeaksOnly
    Replicas = {r1, r2}
    MaxChanges = 0
    MaxFailures = 0
SPECIFICATION FairSpec
PROPERTIES
    SomeoneActs
CHECK_DEADLOCK FALSE
