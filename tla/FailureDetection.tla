--------------------------- MODULE FailureDetection ---------------------------
(***************************************************************************)
(* What counts as a failing pod (helpers.go, policyresolve.go, indexes.go).*)
(* A pod is a record of what kubelet reports: for every container of the   *)
(* pod template its status, how long the pod has not been ready, and       *)
(* whether it is being deleted or has finished.  Ages are times before the *)
(* moment of evaluation; Unknown stands for a timestamp that is not there. *)
(* A policy is a record of the fields of its spec.                         *)
(***************************************************************************)
EXTENDS Integers

CONSTANTS
    Containers,             \* the containers of the pod template
    InitContainers,         \* those of them that are init containers
    Sidecars,               \* the init containers with restartPolicy Always
    WaitingReasons,         \* reasons a container can be waiting for
    TerminationReasons,     \* reasons a container can have terminated for
    DefaultWatchReasons,    \* the default of spec.watchReasons
    DefaultRestartThreshold,
    DefaultDurationThreshold,
    DefaultRestartWindow

ASSUME DetectionAssumption ==
    /\ Sidecars \subseteq InitContainers
    /\ InitContainers \subseteq Containers
    /\ DefaultWatchReasons \subseteq WaitingReasons
    /\ DefaultRestartThreshold \in Nat \ {0}
    /\ DefaultDurationThreshold \in Nat
    /\ DefaultRestartWindow \in Nat

Unknown == -1
Age == Nat \cup {Unknown}

\* The absence of a waiting or a termination reason.
NoReason == "no reason"

\* A container status: what it waits for, whether it is terminated now, the
\* startup state, its restarts, and the reason and age of its last exit.
Status ==
    [waiting : WaitingReasons \cup {NoReason},
     terminated : BOOLEAN,
     started : {"unset", "true", "false"},
     restarts : Nat,
     lastReason : TerminationReasons \cup {NoReason},
     lastExit : Age]

\* A pod: the ages of ContainersReady = False and of Ready = False, if they are.
Pod ==
    [status : [Containers -> Status],
     containersNotReady : Age,
     notReady : Age,
     deleting : BOOLEAN,
     finished : BOOLEAN]

-----------------------------------------------------------------------------
\* Effective spec accessors.  Unset, and a duration that cannot be parsed, is
\* Unknown for a number; a *bool is "unset", "true" or "false".
EffectiveWatchReasons(p) ==
    IF p.watchReasons # {} THEN p.watchReasons ELSE DefaultWatchReasons

EffectiveTerminationReasons(p) == p.watchTerminationReasons

EffectiveRestartThreshold(p) ==
    IF p.restartThreshold > 0 THEN p.restartThreshold ELSE DefaultRestartThreshold

EffectiveDurationThreshold(p) ==
    IF p.durationThreshold # Unknown THEN p.durationThreshold ELSE DefaultDurationThreshold

EffectiveRestartWindow(p) ==
    IF p.restartWindow # Unknown THEN p.restartWindow ELSE DefaultRestartWindow

EffectiveAllReplicasFailing(p) == p.allReplicasFailing # "false"

EffectiveFailureCorrelation(p) ==
    IF p.failureCorrelation = "Container" THEN "Container" ELSE "Pod"

EffectiveDryRun(p) == p.dryRun = "true"

-----------------------------------------------------------------------------
WaitsFor(status, reasons) == status.waiting \in reasons

\* A container waits for one of the watched reasons.
PodHasFailureReason(pod, reasons) ==
    \E c \in Containers : WaitsFor(pod.status[c], reasons)

\* The container is part of the running pod, past its startup probe, and keeps
\* dying: often enough, for a watched reason, and recently.
KeepsDying(status, reasons, threshold, window) ==
    /\ ~status.terminated
    /\ status.started # "false"
    /\ status.restarts >= threshold
    /\ status.lastReason \in reasons
    /\ status.lastExit # Unknown
    /\ status.lastExit <= window

\* A pod that is going away or has finished restarts nothing.
Restarts(pod) == ~pod.deleting /\ ~pod.finished

\* Containers and sidecars can be in a restart loop, classic init containers
\* cannot: they run once.
CanLoop == Containers \ (InitContainers \ Sidecars)

PodIsRestartLooping(pod, reasons, threshold, window) ==
    /\ Restarts(pod)
    /\ \E c \in CanLoop : KeepsDying(pod.status[c], reasons, threshold, window)

Looping(p, pod) ==
    PodIsRestartLooping(pod, EffectiveTerminationReasons(p),
                        EffectiveRestartThreshold(p), EffectiveRestartWindow(p))

PodExceedsRestartThreshold(pod, threshold) ==
    \E c \in Containers : pod.status[c].restarts >= threshold

\* How long the pod has continuously not been ready: ContainersReady if it is
\* false and dated, else Ready.
PodFailingFor(pod) ==
    IF pod.containersNotReady # Unknown THEN pod.containersNotReady ELSE pod.notReady

PodExceedsDurationThreshold(pod, duration) ==
    PodFailingFor(pod) # Unknown /\ PodFailingFor(pod) >= duration

-----------------------------------------------------------------------------
\* The pod is failing in a way the policy acts on, thresholds of the waiting
\* path aside.
PodMatchesPolicy(p, pod) ==
    PodHasFailureReason(pod, EffectiveWatchReasons(p)) \/ Looping(p, pod)

\* The check of the reconcile loop: a restart loop carries its own thresholds,
\* so only the waiting path is gated on restarts or duration.
LoopSelects(p, pod) ==
    /\ PodHasFailureReason(pod, EffectiveWatchReasons(p)) \/ Looping(p, pod)
    /\ PodHasFailureReason(pod, EffectiveWatchReasons(p)) =>
         \/ PodExceedsRestartThreshold(pod, EffectiveRestartThreshold(p))
         \/ Looping(p, pod)
         \/ PodExceedsDurationThreshold(pod, EffectiveDurationThreshold(p))

\* The same question as policyWouldAct asks it.
ResolverSelects(p, pod) ==
    /\ PodMatchesPolicy(p, pod)
    /\ \/ Looping(p, pod)
       \/ PodExceedsRestartThreshold(pod, EffectiveRestartThreshold(p))
       \/ PodExceedsDurationThreshold(pod, EffectiveDurationThreshold(p))

\* Mutant: a pod that is going away counts as well.
FailingWhileLeaving(p, pod) ==
    {c \in Containers :
        \/ WaitsFor(pod.status[c], EffectiveWatchReasons(p))
        \/ KeepsDying(pod.status[c], EffectiveTerminationReasons(p),
                      EffectiveRestartThreshold(p), EffectiveRestartWindow(p))}

\* The containers that make the pod count as failing.  Each status is looked at
\* as the only container status of a pod, an init container's too.
FailingContainerNames(p, pod) ==
    {c \in Containers :
        \/ WaitsFor(pod.status[c], EffectiveWatchReasons(p))
        \/ /\ Restarts(pod)
           /\ KeepsDying(pod.status[c], EffectiveTerminationReasons(p),
                         EffectiveRestartThreshold(p), EffectiveRestartWindow(p))}

\* Every replica fails; in Container mode, with a container in common.
ReplicasAllFailing(p, pods) ==
    /\ pods # {}
    /\ IF EffectiveFailureCorrelation(p) = "Pod"
       THEN \A pod \in pods : PodMatchesPolicy(p, pod)
       ELSE \E c \in Containers : \A pod \in pods : c \in FailingContainerNames(p, pod)

-----------------------------------------------------------------------------
\* The two pod indexes of the cache.
PodWaitingReasons(pod) == {pod.status[c].waiting : c \in Containers} \ {NoReason}

PodTerminationReasons(pod) ==
    {pod.status[c].lastReason : c \in {d \in Containers : pod.status[d].restarts # 0}}
        \ {NoReason}

\* Whether listCandidatePods returns the pod for the policy.
IsCandidate(p, pod) ==
    \/ PodWaitingReasons(pod) \cap EffectiveWatchReasons(p) # {}
    \/ PodTerminationReasons(pod) \cap EffectiveTerminationReasons(p) # {}
=============================================================================
