------------------------- MODULE MCPolicyArbitration -------------------------
(***************************************************************************)
(* Small instances of PolicyArbitration for TLC: a workload with two       *)
(* replicas of one container and one init container, and overlapping       *)
(* policies that differ in what they watch and in how soon they act.       *)
(***************************************************************************)
EXTENDS PolicyArbitration

CONSTANTS app, init, crash, pull, oom

Quiet == [waiting |-> NoReason, terminated |-> FALSE, started |-> "unset",
          restarts |-> 0, lastReason |-> NoReason, lastExit |-> Unknown]

\* A pod whose main container has the given status; it has not been ready for
\* the given time.
PodWith(status, age) ==
    [status |-> [c \in Containers |-> IF c = app THEN status ELSE Quiet],
     containersNotReady |-> age, notReady |-> age, deleting |-> FALSE, finished |-> FALSE]

Healthy == PodWith(Quiet, Unknown)
Crashing == PodWith([Quiet EXCEPT !.waiting = crash, !.restarts = 2, !.lastReason = oom,
                                  !.lastExit = 0], 1)
Pulling == PodWith([Quiet EXCEPT !.waiting = pull], 2)
LeakingMemory == PodWith([Quiet EXCEPT !.restarts = 3, !.lastReason = oom, !.lastExit = 1],
                         Unknown)

\* On its way out, with the status it had.
Leaving == [LeakingMemory EXCEPT !.deleting = TRUE]

MCPodStates == {Healthy, Crashing, LeakingMemory, Leaving}

\* The same, and one whose image cannot be pulled.
MorePodStates == MCPodStates \cup {Pulling}

Unset ==
    [name |-> 0, watchReasons |-> {}, watchTerminationReasons |-> {},
     restartThreshold |-> 0, durationThreshold |-> Unknown, restartWindow |-> Unknown,
     allReplicasFailing |-> "unset", failureCorrelation |-> "", dryRun |-> "unset",
     covers |-> TRUE]

\* Everything by default; one that acts soon, but on pulls only; one that acts
\* on memory leaks, in Container mode; a dry run.
ByDefault == [Unset EXCEPT !.name = 3]
Pulls == [Unset EXCEPT !.name = 4, !.watchReasons = {pull}, !.restartThreshold = 1,
                       !.durationThreshold = 1, !.allReplicasFailing = "false"]
Leaks == [Unset EXCEPT !.name = 1, !.watchTerminationReasons = {oom},
                       !.watchReasons = {crash}, !.failureCorrelation = "Container"]
Rehearsal == [Unset EXCEPT !.name = 2, !.dryRun = "true"]

ThreeItems == {ByDefault, Leaks, Pulls}
TieItems == {ByDefault, Rehearsal, Leaks}

\* The policy with a selector, which is well-formed or cannot be parsed.
LeaksOnly == {Leaks}
=============================================================================
