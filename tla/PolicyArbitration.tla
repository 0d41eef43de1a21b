-------------------------- MODULE PolicyArbitration --------------------------
(***************************************************************************)
(* Which of several overlapping policies acts on one failing workload      *)
(* (crashlooppolicy_controller.go, policyresolve.go).  Each policy is      *)
(* reconciled in its own pass; a pass takes the first selected pod of the  *)
(* workload, checks its own policy, then judges every policy in turn and   *)
(* acts unless another one won.  Each check is a step, and pods and labels *)
(* change between the steps: the pod that led the pass to the workload is  *)
(* a snapshot, and so are the namespaces of a policy once they have been   *)
(* resolved; everything else is read again.                                *)
(***************************************************************************)
EXTENDS PolicyOrder, FiniteSets

CONSTANTS
    Items,          \* the policies of the cluster
    Selecting,      \* those with a namespaceSelector
    Unparseable,    \* those whose namespaceSelector cannot be parsed
    Replicas,       \* names of the replicas of the workload
    PodStates,      \* the states of a pod that occur
    NoPod,          \* a replica that does not exist
    NoPolicy,       \* a nil policy
    MaxChanges,     \* bound on the changes of pods and labels
    MaxFailures     \* bound on the reads that fail

ASSUME ArbitrationAssumption ==
    /\ Items \subseteq Policy
    /\ \A p, q \in Items : p.name = q.name => p = q
    /\ Selecting \subseteq Items
    /\ Unparseable \subseteq Selecting
    /\ PodStates \subseteq Pod
    /\ NoPod \notin Pod
    /\ NoPolicy \notin Policy
    /\ MaxChanges \in Nat
    /\ MaxFailures \in Nat

VARIABLES
    pods,           \* pods[k]: the pod of replica k, or NoPod
    excluding,      \* policies whose excludeWorkloadSelector matches the workload
    admitting,      \* policies whose namespaceSelector matches its namespace
    changes,        \* changes so far
    failures,       \* failed reads so far
    pc,             \* where the pass is
    self,           \* the policy being reconciled
    lead,           \* the replica that led to the workload
    leadPod,        \* the snapshot of its pod
    resolved,       \* the policies in the cache of the namespaceResolver
    admitted,       \* those of them that were found to admit the namespace
    todo,           \* the policies not judged yet
    winner,         \* the winner so far, or NoPolicy
    judged,         \* history: the policies judged to act in this pass
    since,          \* history: changes when the pass began
    stirred,        \* history: pods or labels of the workload changed since then
    acted           \* history: who acted, with the evidence

world == <<pods, excluding, admitting, changes>>
evidence == <<self, lead, leadPod, since, stirred>>
passVars == <<pc, evidence, resolved, admitted, todo, winner, judged>>
vars == <<world, failures, passVars, acted>>

\* A pass that acted: for which policy, led by which replica, in which state
\* of the world, whether that state held throughout the pass, whether at least
\* the workload and its pods did not change, and whether the policy was judged
\* to act.
Action ==
    [policy : Items, lead : Replicas, world : 0..MaxChanges,
     steady : BOOLEAN, undisturbed : BOOLEAN, judged : BOOLEAN]

TypeOK ==
    /\ pods \in [Replicas -> PodStates \cup {NoPod}]
    /\ excluding \in SUBSET Items
    /\ admitting \in SUBSET (Selecting \ Unparseable)
    /\ changes \in 0..MaxChanges
    /\ failures \in 0..MaxFailures
    /\ pc \in {"idle", "exclude", "replicas", "judge", "decide"}
    /\ self \in Items \cup {NoPolicy}
    /\ lead \in Replicas \cup {NoPod}
    /\ leadPod \in PodStates \cup {NoPod}
    /\ resolved \in SUBSET Selecting
    /\ admitted \in SUBSET resolved
    /\ todo \in SUBSET Items
    /\ winner \in Items \cup {NoPolicy}
    /\ judged \in SUBSET Items
    /\ since \in 0..MaxChanges
    /\ stirred \in BOOLEAN
    /\ acted \in SUBSET Action
    /\ pc # "idle" => self \in Items /\ lead \in Replicas /\ leadPod \in PodStates

Init ==
    /\ pods \in [Replicas -> PodStates]
    /\ excluding \in SUBSET Items
    /\ admitting \in SUBSET (Selecting \ Unparseable)
    /\ changes = 0
    /\ failures = 0
    /\ pc = "idle"
    /\ self = NoPolicy
    /\ lead = NoPod
    /\ leadPod = NoPod
    /\ resolved = {}
    /\ admitted = {}
    /\ todo = {}
    /\ winner = NoPolicy
    /\ judged = {}
    /\ since = 0
    /\ stirred = FALSE
    /\ acted = {}

-----------------------------------------------------------------------------
\* The pods the selector of the workload lists at this moment.
LivePods == {pods[k] : k \in Replicas} \ {NoPod}

\* The checks of the workload, made with fresh reads.
AllReplicasFailing(p) == ReplicasAllFailing(p, LivePods)

\* What the policies ask of the workload and of the pod that led to it, but for
\* the labels of the namespace.
Conditions(p, pod) ==
    /\ p.covers
    /\ ResolverSelects(p, pod)
    /\ p \notin excluding
    /\ EffectiveAllReplicasFailing(p) => AllReplicasFailing(p)

\* Mutant: the namespaces are listed again for every comparison.
AllowedAfresh(p) == p \in Selecting => p \in admitting

\* namespaceResolver.allowed: a policy without a selector admits every
\* namespace, and a selector is resolved once in an evaluation.
Allowed(p) ==
    p \in Selecting => p \in IF p \in resolved THEN admitted ELSE admitting

\* Its cache after the question.
Resolve(p) ==
    /\ resolved' = resolved \cup ({p} \cap Selecting)
    /\ admitted' = IF p \in resolved THEN admitted ELSE admitted \cup ({p} \cap admitting)

\* Mutant: a policy is judged by its pod alone, without its own conditions on
\* the workload.
PodWouldDo(p, pod) == Allowed(p) /\ p.covers /\ ResolverSelects(p, pod)

\* policyWouldAct: the same checks as the reconcile loop makes for its own
\* policy, given the pod that led to the workload.
PolicyWouldAct(p, pod) == Allowed(p) /\ Conditions(p, pod)

-----------------------------------------------------------------------------
\* A pass gives the workload up, for this evaluation.
Leave ==
    /\ pc' = "idle"
    /\ self' = NoPolicy
    /\ lead' = NoPod
    /\ leadPod' = NoPod
    /\ resolved' = {}
    /\ admitted' = {}
    /\ todo' = {}
    /\ winner' = NoPolicy
    /\ judged' = {}
    /\ since' = 0
    /\ stirred' = FALSE

\* The pod of replica k is one of the candidates and passes the thresholds.
Selected(p, k) ==
    /\ pods[k] # NoPod
    /\ Allowed(p) /\ p.covers
    /\ IsCandidate(p, pods[k])
    /\ LoopSelects(p, pods[k])

\* The waiting pods are listed before those that only keep restarting.
ListedFirst(p, pod) == PodHasFailureReason(pod, EffectiveWatchReasons(p))

\* Replica k can be the first selected one in the list of candidates, whose
\* order is otherwise that of the cache.
HeadsTheList(p, k) ==
    \/ ListedFirst(p, pods[k])
    \/ ~\E j \in Replicas : Selected(p, j) /\ ListedFirst(p, pods[j])

\* Mutant: the pass keeps no snapshot of the pod it was led by.
BeginWithoutPod(p, k) ==
    /\ pc = "idle"
    /\ Selected(p, k)
    /\ HeadsTheList(p, k)
    /\ pc' = "exclude"
    /\ self' = p
    /\ lead' = k
    /\ since' = changes
    /\ Resolve(p)
    /\ UNCHANGED <<world, failures, leadPod, stirred, todo, winner, judged, acted>>

\* The pass of policy p comes to the workload with the pod of replica k.  Its
\* own namespaces are resolved and then the pods listed: one step, since neither
\* depends on the other.  A pod whose owner cannot be read gives way to the next
\* one in the list, and a policy whose own selector cannot be parsed does not
\* come so far.
Begin(p, k) ==
    /\ pc = "idle"
    /\ p \notin Unparseable
    /\ Selected(p, k)
    /\ IF HeadsTheList(p, k)
       THEN UNCHANGED failures
       ELSE failures < MaxFailures /\ failures' = failures + 1
    /\ pc' = "exclude"
    /\ self' = p
    /\ lead' = k
    /\ leadPod' = pods[k]
    /\ since' = changes
    /\ Resolve(p)
    /\ UNCHANGED <<world, stirred, todo, winner, judged, acted>>

\* Another workload comes first, and the namespaces of policy p are resolved for
\* its comparison.
JudgeElsewhere(p) ==
    /\ pc = "exclude"
    /\ p \in Selecting \ resolved
    /\ Resolve(p)
    /\ UNCHANGED <<world, failures, pc, evidence, todo, winner, judged, acted>>

\* excludeWorkloadSelector, checked for the policy of the pass.
CheckExclude ==
    /\ pc = "exclude"
    /\ IF self \in excluding
       THEN Leave
       ELSE pc' = "replicas" /\ UNCHANGED <<evidence, resolved, admitted, todo, winner, judged>>
    /\ UNCHANGED <<world, failures, acted>>

\* Mutant: the other policies are judged even when replicas are healthy.
CheckReplicasSkipped ==
    /\ pc = "replicas"
    /\ pc' = "judge"
    /\ todo' = Items
    /\ UNCHANGED <<evidence, resolved, admitted, winner, judged>>
    /\ UNCHANGED <<world, failures, acted>>

\* allReplicasFailing, checked for the policy of the pass.
CheckReplicas ==
    /\ pc = "replicas"
    /\ IF EffectiveAllReplicasFailing(self) /\ ~AllReplicasFailing(self)
       THEN Leave
       ELSE /\ pc' = "judge"
            /\ todo' = Items
            /\ UNCHANGED <<evidence, resolved, admitted, winner, judged>>
    /\ UNCHANGED <<world, failures, acted>>

\* Mutant: the comparison with the winner so far is the wrong way round.
PreferredSwapped(p) ==
    IF winner = NoPolicy THEN p
    ELSE IF IsMoreRestrictive(winner, p) THEN p ELSE winner

\* The winner after policy p has been judged to act.
Preferred(p) ==
    IF winner = NoPolicy THEN p
    ELSE IF IsMoreRestrictive(p, winner) THEN p ELSE winner

\* One turn of winningPolicy's loop: policy p, in whatever order they are listed.
\* A policy that cannot be judged ends the comparison with an error, and with it
\* the pass of self.
Judge(p) ==
    /\ pc = "judge"
    /\ p \in todo
    /\ IF p \in Unparseable
       THEN Leave
       ELSE /\ todo' = todo \ {p}
            /\ pc' = IF todo = {p} THEN "decide" ELSE "judge"
            /\ IF PolicyWouldAct(p, leadPod)
               THEN winner' = Preferred(p) /\ judged' = judged \cup {p}
               ELSE UNCHANGED <<winner, judged>>
            /\ Resolve(p)
            /\ UNCHANGED evidence
    /\ UNCHANGED <<world, failures, acted>>

Deed ==
    [policy |-> self, lead |-> lead, world |-> changes,
     steady |-> since = changes, undisturbed |-> ~stirred, judged |-> self \in judged]

\* Mutant: the pass acts whoever won.
DecideAlone ==
    /\ pc = "decide"
    /\ acted' = acted \cup {Deed}
    /\ Leave
    /\ UNCHANGED <<world, failures>>

\* The pass acts unless another policy won.  No winner at all does not stop it.
Decide ==
    /\ pc = "decide"
    /\ acted' = IF winner \in {NoPolicy, self} THEN acted \cup {Deed} ELSE acted
    /\ Leave
    /\ UNCHANGED <<world, failures>>

\* A read fails: the workload is counted as an error and left for this pass.
ReadFails ==
    /\ pc \in {"exclude", "replicas", "judge"}
    /\ failures < MaxFailures
    /\ failures' = failures + 1
    /\ Leave
    /\ UNCHANGED <<world, acted>>

-----------------------------------------------------------------------------
\* The world changes, and with it perhaps the workload under a pass.
Changes ==
    /\ changes < MaxChanges
    /\ changes' = changes + 1
    /\ UNCHANGED <<failures, pc, self, lead, leadPod, since>>
    /\ UNCHANGED <<resolved, admitted, todo, winner, judged, acted>>

\* A pod recovers, fails in another way, goes away or is replaced.
PodChanges(k, s) ==
    /\ Changes
    /\ s # pods[k]
    /\ pods' = [pods EXCEPT ![k] = s]
    /\ stirred' = (pc # "idle")
    /\ UNCHANGED <<excluding, admitting>>

Toggled(p, S) == IF p \in S THEN S \ {p} ELSE S \cup {p}

\* The labels of the workload change with respect to the selector of p.
LabelsChange(p) ==
    /\ Changes
    /\ excluding' = Toggled(p, excluding)
    /\ stirred' = (pc # "idle")
    /\ UNCHANGED <<pods, admitting>>

\* The labels of the namespace change with respect to the selector of p.
NamespaceRelabelled(p) ==
    /\ Changes
    /\ admitting' = Toggled(p, admitting)
    /\ UNCHANGED <<pods, excluding, stirred>>

Pass ==
    \/ CheckExclude
    \/ CheckReplicas
    \/ \E p \in Items : Judge(p)
    \/ Decide

Next ==
    \/ \E p \in Items, k \in Replicas : Begin(p, k)
    \/ Pass
    \/ ReadFails
    \/ \E p \in Selecting \ Unparseable : JudgeElsewhere(p) \/ NamespaceRelabelled(p)
    \/ \E k \in Replicas, s \in PodStates \cup {NoPod} : PodChanges(k, s)
    \/ \E p \in Items : LabelsChange(p)

Spec == Init /\ [][Next]_vars

\* A pass runs to its end, and the work queue serves every policy again and
\* again: each is requeued after its reconcileInterval, in turn with the others.
Fairness ==
    /\ WF_vars(Pass)
    /\ \A p \in Items : SF_vars(\E k \in Replicas : Begin(p, k))

FairSpec == Spec /\ Fairness

-----------------------------------------------------------------------------
\* The winner is one of the policies judged to act and none of them outranks
\* it, whatever the order of the list (policyresolve.go:182-211, 307-334).
WinnerIsMostRestrictive ==
    IF judged = {} THEN winner = NoPolicy
    ELSE winner \in judged /\ \A p \in judged : ~IsMoreRestrictive(p, winner)

\* "A workload is scaled down once, by one identifiable policy, no matter how
\* many policies overlap" (policyresolve.go:308-310): two passes that the same
\* pod led to the workload, in the same state of the world, agree on who acts.
SameEvidenceSameActor ==
    \A a, b \in acted :
        a.steady /\ b.steady /\ a.lead = b.lead /\ a.world = b.world
            => a.policy = b.policy

\* As long as the workload and its pods stay as they are, the reconcile loop and
\* policyWouldAct agree: who acts was judged to act ("it runs the same checks",
\* policyresolve.go:241-244).  Namespaces may be relabelled meanwhile, for each
\* selector is resolved once (policyresolve.go:214-239).
UndisturbedActorWasJudged ==
    \A a \in acted : a.undisturbed => a.judged

\* A policy that loses "cannot block a policy that would act" (README.md,
\* Multiple Policies): once the world is at rest, if some policy would act then
\* some policy does, and they do not all defer to one another.
WouldActNow(p, pod) == (p \in Selecting => p \in admitting) /\ Conditions(p, pod)

SomeoneWouldAct ==
    \E p \in Items \ Unparseable, k \in Replicas :
        pods[k] # NoPod /\ WouldActNow(p, pods[k])

SomeoneActs ==
    (changes = MaxChanges /\ SomeoneWouldAct)
        ~> (\E a \in acted : a.world = MaxChanges)

\* winningPolicy "returns the most restrictive policy that would act" and the others
\* "leave it alone" (policyresolve.go:307-310, crashlooppolicy_controller.go:226-240): a
\* pass during which nothing changed acts exactly when its policy would act on the pod
\* that led it and no policy that would act on that pod outranks it.  It neither acts
\* in another's place nor defers to a policy that would not act.
MostRestrictiveNow(p, pod) ==
    /\ WouldActNow(p, pod)
    /\ \A q \in Items : WouldActNow(q, pod) => ~IsMoreRestrictive(q, p)

ActsIffMostRestrictive ==
    [][Decide /\ since = changes =>
         (Deed \in acted' <=> MostRestrictiveNow(self, pods[lead]))]_vars

\* failureCorrelation "Container" is the stricter mode: it "additionally requires
\* the same container name to be the failing one everywhere" (README.md, Spec;
\* policyresolve.go:180, 115-155).  Replicas that all fail in its eyes all fail
\* in the eyes of "Pod", which comes before it for that reason.
InMode(p, mode) == [p EXCEPT !.failureCorrelation = mode]

ContainerIsStricter ==
    \A p \in Items :
        ReplicasAllFailing(InMode(p, "Container"), LivePods)
            => ReplicasAllFailing(InMode(p, "Pod"), LivePods)
=============================================================================
