----------------------------- MODULE PolicyOrder -----------------------------
(***************************************************************************)
(* The order in which overlapping policies are preferred (policyresolve.go)*)
(***************************************************************************)
EXTENDS FailureDetection

\* A policy as the API server stores it: any field may be unset.  The name is
\* a number, for the place of the policy in the order of names; covers tells
\* that the kind of the workload is a target and its namespace not an excluded
\* one.
Tristate == {"unset", "true", "false"}

Policy ==
    [name : Nat,
     watchReasons : SUBSET WaitingReasons,
     watchTerminationReasons : SUBSET TerminationReasons,
     restartThreshold : Nat,
     durationThreshold : Age,
     restartWindow : Age,
     allReplicasFailing : Tristate,
     failureCorrelation : {"", "Pod", "Container"},
     dryRun : Tristate,
     covers : BOOLEAN]

-----------------------------------------------------------------------------
\* What the comparison looks at, the most important first and the preferred
\* value the smaller one: restarts, duration, waiting for all replicas,
\* container correlation, dry run, and the name to break a tie.
Cost(flag) == IF flag THEN 1 ELSE 0

Rank(p) ==
    <<EffectiveRestartThreshold(p),
      EffectiveDurationThreshold(p),
      Cost(EffectiveAllReplicasFailing(p)),
      Cost(EffectiveFailureCorrelation(p) = "Container"),
      Cost(EffectiveDryRun(p)),
      p.name>>

\* The first difference decides.
Before(x, y) ==
    \E i \in 1..6 : x[i] < y[i] /\ \A j \in 1..(i - 1) : x[j] = y[j]

IsMoreRestrictive(a, b) == Before(Rank(a), Rank(b))
=============================================================================
