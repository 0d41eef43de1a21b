------------------------------- MODULE Schedule -------------------------------
(***************************************************************************)
(* When a policy is evaluated, from its creation to its deletion           *)
(* (crashlooppolicy_controller.go, metrics.go): the events that queue it,  *)
(* the time after which it is queued again, the pods whose duration        *)
(* threshold runs out meanwhile, and the gauges that mirror its Ready      *)
(* condition and outlive it until they are forgotten.                      *)
(*                                                                         *)
(* Time advances in ticks.  All times are relative to the present, ages    *)
(* before and delays after it, so the clock is unbounded.  A pod here      *)
(* waits for a watched reason with few restarts: only its duration         *)
(* threshold decides.  What is done about a pod that is judged to fail is  *)
(* in PolicyArbitration and Reconciler.                                    *)
(***************************************************************************)
EXTENDS Integers, FiniteSets, FiniteSetsExt

CONSTANTS
    Pods,
    Excluded,           \* pods in a namespace that spec.excludeNamespaces names
    DurationThreshold,  \* spec.durationThreshold
    ReconcileInterval,  \* spec.reconcileInterval, 0 if unset or not parseable
    DefaultInterval,    \* RequeueIntervalDefault
    MinimumRequeue,     \* minimumThresholdRequeue
    MaxWait,            \* the longest a queued policy waits for the worker
    MaxEvaluation,      \* the longest an evaluation takes
    MaxBackoff,         \* the longest the queue holds a policy back after an error
    MaxEvents           \* bound on what happens outside, and on failures

ASSUME ScheduleAssumption ==
    /\ IsFiniteSet(Pods)
    /\ Excluded \subseteq Pods
    /\ DurationThreshold \in Nat \ {0}
    /\ ReconcileInterval \in Int
    /\ DefaultInterval \in Nat \ {0}
    /\ MinimumRequeue \in Nat \ {0}
    /\ MaxWait \in Nat
    /\ MaxEvaluation \in Nat
    /\ MaxBackoff \in Nat
    /\ MaxEvents \in Nat

\* Below every time that is used, an expiry in the past included.
None == -2 - MaxEvaluation
Unknown == -1

Later(a, b) == IF a > b THEN a ELSE b
Sooner(a, b) == IF a < b THEN a ELSE b

\* effectiveReconcileInterval
Interval == IF ReconcileInterval > 0 THEN ReconcileInterval ELSE DefaultInterval

VARIABLES
    pods,       \* pods[p]: how long it has not been ready, Unknown, or None
    admitted,   \* the pods whose namespace the selector admits
    late,       \* history: how long a pod has been overdue
    tracked,    \* history: pods whose expiry an evaluation has taken in
    status,     \* the Ready condition in the API server; "gone" if deleted
    copy,       \* the same in the cache
    news,       \* whether the watch has something to deliver
    trouble,    \* whether a workload cannot be read or written
    gauge,      \* crashloop_policy_ready; "gone" if there is no series
    queued,     \* whether the policy is in the queue, and for how long
    waited,
    timer,      \* when the policy is queued again, or None
    pass,       \* the evaluation in progress
    events      \* what happened so far, failures included

podVars == <<pods, admitted, late, tracked>>
policyVars == <<status, copy, news>>
vars == <<podVars, policyVars, trouble, gauge, queued, waited, timer, pass, events>>

\* elapsed is the time since reconcileTime, expiry the time to
\* earliestThresholdExpiry.
Evaluation == [at : {"idle", "scan", "report", "write"}, elapsed : 0..MaxEvaluation,
               expiry : (1 - MaxEvaluation)..DurationThreshold \cup {None}, ok : BOOLEAN]
NoPass == [at |-> "idle", elapsed |-> 0, expiry |-> None, ok |-> TRUE]

\* Beyond this age a pod is overdue for every evaluation in progress.
MaxAge == DurationThreshold + MaxEvaluation

\* How late an overdue pod is judged at most, and one that an evaluation tracks.
LatestAnyway == Later(Interval, MaxBackoff) + MaxWait + 2 * MaxEvaluation
LatestTracked == MinimumRequeue - 1 + MaxWait + 2 * MaxEvaluation

TypeOK ==
    /\ pods \in [Pods -> 0..MaxAge \cup {Unknown, None}]
    /\ admitted \subseteq Pods
    /\ late \in [Pods -> 0..(LatestAnyway + 1)]
    /\ tracked \subseteq Pods
    /\ status \in {"gone", "new", "ready", "failed"}
    /\ copy \in {"gone", "new", "ready", "failed"}
    /\ news \in BOOLEAN
    /\ ~news => copy = status
    /\ trouble \in BOOLEAN
    /\ gauge \in {"gone", "ready", "failed"}
    /\ queued \in BOOLEAN
    /\ waited \in 0..MaxWait
    /\ timer \in 0..Later(Interval, MaxBackoff) \cup {None}
    /\ pass \in Evaluation
    /\ events \in 0..MaxEvents

Init ==
    /\ pods = [p \in Pods |-> None]
    /\ admitted \in SUBSET Pods
    /\ late = [p \in Pods |-> 0]
    /\ tracked = {}
    /\ status = "new" /\ copy = "new" /\ news = FALSE
    /\ trouble = FALSE
    /\ gauge = "gone"
    /\ queued = TRUE /\ waited = 0
    /\ timer = None
    /\ pass = NoPass
    /\ events = 0

\* The pods the policy has to do with, and those past their threshold.
InScope == admitted \ Excluded
Overdue(p) == p \in InScope /\ pods[p] >= DurationThreshold

-----------------------------------------------------------------------------
\* The worker takes the policy from the queue.  A timer that was overtaken by
\* an event may be left behind or not.  A policy that is gone is forgotten.
ForgetNothing ==
    /\ pass.at = "idle" /\ queued
    /\ queued' = FALSE /\ waited' = 0
    /\ timer' \in {timer, None}
    /\ pass' = IF copy = "gone" THEN NoPass ELSE [NoPass EXCEPT !.at = "scan"]
    /\ UNCHANGED <<podVars, policyVars, trouble, gauge, events>>

\* forgetPolicyMetrics: the series of the policy are deleted.
ForgetPolicyMetrics == gauge' = "gone"

Start ==
    /\ pass.at = "idle" /\ queued
    /\ queued' = FALSE /\ waited' = 0
    /\ timer' \in {timer, None}
    /\ IF copy = "gone"
       THEN ForgetPolicyMetrics /\ pass' = NoPass
       ELSE pass' = [NoPass EXCEPT !.at = "scan"] /\ UNCHANGED gauge
    /\ UNCHANGED <<podVars, policyVars, trouble, events>>

\* The age a pod had when the evaluation began, which is the time it is judged by.
AgeAtStart(p) == pods[p] - pass.elapsed

\* The pods that wait for their threshold, with the time that is left to each.
Pending == {p \in InScope : pods[p] >= 0 /\ AgeAtStart(p) < DurationThreshold}
Remaining == {DurationThreshold - pods[p] : p \in Pending}

\* Mutant: the last expiry is kept.
LatestExpiry == IF Remaining = {} THEN None ELSE Max(Remaining)

EarliestExpiry == IF Remaining = {} THEN None ELSE Min(Remaining)

\* The pods are listed: those past their threshold are judged, and followed no
\* further.  A pod whose failure is not dated yet is left out.
Scan ==
    /\ pass.at = "scan"
    /\ pass' = [pass EXCEPT !.at = "report", !.expiry = EarliestExpiry, !.ok = ~trouble]
    /\ pods' = [p \in Pods |-> IF p \in InScope /\ pods[p] >= 0 /\ p \notin Pending
                               THEN None ELSE pods[p]]
    /\ late' = [p \in Pods |-> IF pods'[p] = None THEN 0 ELSE late[p]]
    /\ tracked' = Pending
    /\ UNCHANGED <<admitted, policyVars, trouble, gauge, queued, waited, timer, events>>

Condition == IF pass.ok THEN "ready" ELSE "failed"

\* The gauges are set, before the status is written.
Report ==
    /\ pass.at = "report"
    /\ gauge' = Condition
    /\ pass' = [pass EXCEPT !.at = "write"]
    /\ UNCHANGED <<podVars, policyVars, trouble, queued, waited, timer, events>>

\* The policy is queued again after so many ticks, or sooner if it was to be.
\* Zero is no time at all: the queue takes it for no request.
QueueAfter(delay) ==
    timer' = IF delay <= 0 THEN timer
             ELSE IF timer = None THEN delay ELSE Sooner(timer, delay)

\* Mutant: a threshold that expired during the evaluation is not raised to the
\* minimum.
ThresholdUnraised(remaining) == remaining

ThresholdRequeueAfter(remaining) == Later(remaining, MinimumRequeue)

\* Mutant: a threshold postpones the evaluation beyond the interval.
RequeueAfterThreshold ==
    IF pass.expiry = None THEN Interval ELSE ThresholdRequeueAfter(pass.expiry)

RequeueAfter ==
    IF pass.expiry = None THEN Interval
    ELSE Sooner(Interval, ThresholdRequeueAfter(pass.expiry))

\* An error is returned: the queue holds the policy back for a while.
ReturnError ==
    /\ \E b \in 0..MaxBackoff : timer' = IF timer = None THEN b ELSE Sooner(timer, b)
    /\ pass' = NoPass
    /\ tracked' = {}

\* updatePolicyStatusIfChanged: compared with the copy in the cache, written if
\* that changes it and the copy is the live object.
Write ==
    /\ pass.at = "write"
    /\ copy # "gone"
    /\ IF copy = Condition
       THEN UNCHANGED <<status, news>>
       ELSE ~news /\ status' = Condition /\ news' = TRUE
    /\ QueueAfter(RequeueAfter)
    /\ pass' = NoPass
    /\ UNCHANGED <<podVars, copy, trouble, gauge, queued, waited, events>>

\* The policy is gone, or was changed so often that the retries are used up.
WriteRefused ==
    /\ pass.at = "write"
    /\ copy = "gone" \/ (news /\ copy # Condition)
    /\ ReturnError
    /\ UNCHANGED <<pods, admitted, late, policyVars, trouble, gauge, queued, waited, events>>

-----------------------------------------------------------------------------
\* The timer runs out, and the watch of the policies delivers.
TimerFires ==
    /\ timer = 0
    /\ timer' = None
    /\ queued' = TRUE
    /\ UNCHANGED <<podVars, policyVars, trouble, gauge, waited, pass, events>>

Deliver ==
    /\ news
    /\ news' = FALSE
    /\ copy' = status
    /\ queued' = TRUE
    /\ UNCHANGED <<podVars, status, trouble, gauge, waited, timer, pass, events>>

\* Time passes, but not beyond what is due now.
Tick ==
    /\ timer # 0
    /\ pass.at = "idle" => ~queued \/ waited < MaxWait
    /\ pass.at # "idle" => pass.elapsed < MaxEvaluation
    /\ pods' = [p \in Pods |-> IF pods[p] \in 0..(MaxAge - 1) THEN pods[p] + 1 ELSE pods[p]]
    /\ late' = [p \in Pods |-> IF Overdue(p) /\ copy # "gone" /\ late[p] <= LatestAnyway THEN late[p] + 1
                               ELSE late[p]]
    /\ timer' = IF timer = None THEN None ELSE timer - 1
    /\ waited' = IF queued /\ pass.at = "idle" THEN waited + 1 ELSE waited
    /\ pass' = IF pass.at = "idle" THEN pass
               ELSE [pass EXCEPT !.elapsed = @ + 1,
                                 !.expiry = IF @ = None THEN None ELSE @ - 1]
    /\ UNCHANGED <<admitted, tracked, policyVars, trouble, gauge, queued, events>>

-----------------------------------------------------------------------------
Happens ==
    /\ events < MaxEvents
    /\ events' = events + 1

\* mapPodToPolicy, which looks at excludeNamespaces only, and fails if it cannot
\* list the policies.
Mapped(p) == queued' \in {queued, queued \/ p \notin Excluded}

\* A pod starts to wait, its failure is dated, perhaps in the past, or it recovers.
PodChanges(p, age) ==
    /\ Happens
    /\ age # pods[p]
    /\ pods' = [pods EXCEPT ![p] = age]
    /\ late' = [late EXCEPT ![p] = 0]
    /\ tracked' = tracked \ {p}
    /\ Mapped(p)
    /\ UNCHANGED <<admitted, policyVars, trouble, gauge, waited, timer, pass>>

\* The labels of a namespace change; namespaces are not watched.
NamespaceChanges(p) ==
    /\ Happens
    /\ admitted' = IF p \in admitted THEN admitted \ {p} ELSE admitted \cup {p}
    /\ late' = [late EXCEPT ![p] = 0]
    /\ tracked' = tracked \ {p}
    /\ UNCHANGED <<pods, policyVars, trouble, gauge, queued, waited, timer, pass>>

\* The policy is deleted, or made again under its name.
PolicyChanges ==
    /\ Happens
    /\ status' = IF status = "gone" THEN "new" ELSE "gone"
    /\ news' = TRUE
    /\ late' = [p \in Pods |-> 0]
    /\ tracked' = {}
    /\ UNCHANGED <<pods, admitted, copy, trouble, gauge, queued, waited, timer, pass>>

\* A workload cannot be read or written any more, or can again.
TroubleChanges ==
    /\ Happens
    /\ trouble' = ~trouble
    /\ UNCHANGED <<podVars, policyVars, gauge, queued, waited, timer, pass>>

\* A call fails that makes the evaluation fail.
CallFails ==
    /\ Happens
    /\ pass.at \in {"scan", "write"}
    /\ ReturnError
    /\ late' = [p \in Pods |-> 0]
    /\ UNCHANGED <<pods, admitted, policyVars, trouble, gauge, queued, waited>>

\* The process dies, and with it queue, timers and gauges.
Crash ==
    /\ Happens
    /\ copy' = status /\ news' = FALSE
    /\ queued' = (status # "gone") /\ waited' = 0
    /\ timer' = None
    /\ pass' = NoPass
    /\ gauge' = "gone"
    /\ late' = [p \in Pods |-> 0]
    /\ tracked' = {}
    /\ UNCHANGED <<pods, admitted, status, trouble>>

-----------------------------------------------------------------------------
Worker == Start \/ Scan \/ Report \/ Write \/ WriteRefused

Next ==
    \/ Worker
    \/ TimerFires
    \/ Deliver
    \/ Tick
    \/ \E p \in Pods :
         \/ \E age \in 0..DurationThreshold \cup {Unknown, None} : PodChanges(p, age)
         \/ NamespaceChanges(p)
    \/ PolicyChanges
    \/ TroubleChanges
    \/ CallFails
    \/ Crash

Spec == Init /\ [][Next]_vars

\* Time goes on, the worker works, timers fire and watches deliver.
Fairness ==
    /\ WF_vars(Worker) /\ WF_vars(TimerFires) /\ WF_vars(Deliver) /\ WF_vars(Tick)

FairSpec == Spec /\ Fairness

-----------------------------------------------------------------------------
\* "A pod nearing durationThreshold is evaluated when that threshold expires"
\* (README.md, Spec): once an evaluation has seen the pod wait, the pod is
\* judged by its threshold plus the time the queue and an evaluation take, even
\* if no event comes any more, if other pods expire at other times and if the
\* threshold expires during an evaluation
\* (crashlooppolicy_controller.go:154-163, 334-336).
ExpiryIsMet == \A p \in tracked : late[p] <= LatestTracked

\* reconcileInterval is the "maximum time between policy evaluations"
\* (README.md, Spec): whatever events are lost and whatever changes without an
\* event, an overdue pod is judged within the interval, the queue and two
\* evaluations (crashlooppolicy_controller.go:84, 334-338).
OverdueIsJudged == \A p \in Pods : late[p] <= LatestAnyway

\* No wake-up is lost: as long as there is a policy, or a series of one that is
\* gone, it is queued, sleeps until some moment or is under evaluation, though the
\* queue ignores a delay that is not positive and though the policy may be
\* deleted, made again or fail anywhere in an evaluation
\* (crashlooppolicy_controller.go:50-60, 328-339).
NothingIsForgotten ==
    copy # "gone" \/ gauge # "gone" => queued \/ timer # None \/ pass.at # "idle"

\* The gauge "mirrors the Ready condition" (metrics.go:52) and does not "keep
\* reporting on a deleted object forever" (metrics.go:71-72): in the end there
\* is a series exactly while there is a policy, with its value, and a deleted
\* policy is queued no more, even if it was deleted, or deleted and made again,
\* during an evaluation.
GaugeFollowsPolicy ==
    <>[](gauge = status /\ (status = "gone" => ~queued /\ timer = None))
=============================================================================
