----------------------- MODULE PolicyArbitration_proofs -----------------------
(***************************************************************************)
(* Proofs about the order of policies and about PolicyArbitration, for any *)
(* set of policies with different names, any replicas and pods, and any    *)
(* number of changes and failures.                                         *)
(***************************************************************************)
EXTENDS PolicyArbitration, TLAPS

-----------------------------------------------------------------------------
\* The order is strict and total on the ranks of policies.
Ranks == [1..6 -> Int]

LEMMA BeforeIrreflexive ==
    ASSUME NEW x \in Ranks
    PROVE  ~Before(x, x)
BY DEF Before, Ranks

LEMMA BeforeTransitive ==
    ASSUME NEW x \in Ranks, NEW y \in Ranks, NEW z \in Ranks, Before(x, y), Before(y, z)
    PROVE  Before(x, z)
<1>1. PICK i \in 1..6 : x[i] < y[i] /\ \A j \in 1..(i - 1) : x[j] = y[j]
  BY DEF Before
<1>2. PICK k \in 1..6 : y[k] < z[k] /\ \A j \in 1..(k - 1) : y[j] = z[j]
  BY DEF Before
<1>3. CASE i < k
  <2>1. x[i] < z[i] /\ \A j \in 1..(i - 1) : x[j] = z[j]
    BY <1>1, <1>2, <1>3
  <2> QED
    BY <2>1 DEF Before
<1>4. CASE i = k
  <2>1. x[i] < z[i] /\ \A j \in 1..(i - 1) : x[j] = z[j]
    BY <1>1, <1>2, <1>4 DEF Ranks
  <2> QED
    BY <2>1 DEF Before
<1>5. CASE k < i
  <2>1. x[k] < z[k] /\ \A j \in 1..(k - 1) : x[j] = z[j]
    BY <1>1, <1>2, <1>5
  <2> QED
    BY <2>1 DEF Before
<1> QED
  BY <1>3, <1>4, <1>5

\* The first place where two ranks differ orders them one way or the other.
LEMMA BeforeTotal ==
    ASSUME NEW x \in Ranks, NEW y \in Ranks, x[6] # y[6]
    PROVE  Before(x, y) \/ Before(y, x)
<1>1. ASSUME NEW i \in 1..6, x[i] # y[i], \A j \in 1..(i - 1) : x[j] = y[j]
      PROVE  Before(x, y) \/ Before(y, x)
  <2>1. x[i] < y[i] \/ y[i] < x[i]
    BY <1>1 DEF Ranks
  <2> QED
    BY <1>1, <2>1 DEF Before
<1>2. CASE x[1] # y[1]
  BY <1>1, <1>2
<1>3. CASE x[1] = y[1] /\ x[2] # y[2]
  BY <1>1, <1>3
<1>4. CASE x[1] = y[1] /\ x[2] = y[2] /\ x[3] # y[3]
  <2>1. \A j \in 1..(3 - 1) : x[j] = y[j]
    <3>1. 1..(3 - 1) = {1, 2}
      OBVIOUS
    <3> QED
      BY <1>4, <3>1
  <2> QED
    BY <1>1, <1>4, <2>1
<1>5. CASE x[1] = y[1] /\ x[2] = y[2] /\ x[3] = y[3] /\ x[4] # y[4]
  <2>1. \A j \in 1..(4 - 1) : x[j] = y[j]
    <3>1. 1..(4 - 1) = {1, 2, 3}
      OBVIOUS
    <3> QED
      BY <1>5, <3>1
  <2> QED
    BY <1>1, <1>5, <2>1
<1>6. CASE x[1] = y[1] /\ x[2] = y[2] /\ x[3] = y[3] /\ x[4] = y[4] /\ x[5] # y[5]
  <2>1. \A j \in 1..(5 - 1) : x[j] = y[j]
    <3>1. 1..(5 - 1) = {1, 2, 3, 4}
      OBVIOUS
    <3> QED
      BY <1>6, <3>1
  <2> QED
    BY <1>1, <1>6, <2>1
<1>7. CASE x[1] = y[1] /\ x[2] = y[2] /\ x[3] = y[3] /\ x[4] = y[4] /\ x[5] = y[5]
  <2>1. \A j \in 1..(6 - 1) : x[j] = y[j]
    <3>1. 1..(6 - 1) = {1, 2, 3, 4, 5}
      OBVIOUS
    <3> QED
      BY <1>7, <3>1
  <2> QED
    BY <1>1, <2>1
<1> QED
  BY <1>2, <1>3, <1>4, <1>5, <1>6, <1>7

\* The rank of a policy, whatever fields it leaves unset.
LEMMA RankType ==
    ASSUME NEW p \in Policy
    PROVE  Rank(p) \in Ranks /\ Rank(p)[6] = p.name
<1>0. p.restartThreshold \in Nat /\ p.durationThreshold \in Age /\ p.name \in Nat
  BY Zenon DEF Policy
<1>1. EffectiveRestartThreshold(p) \in Int
  BY <1>0, DetectionAssumption DEF EffectiveRestartThreshold
<1>2. EffectiveDurationThreshold(p) \in Int
  BY <1>0, DetectionAssumption DEF EffectiveDurationThreshold, Age, Unknown
<1>3. p.name \in Int
  BY <1>0
<1>4. \A flag : Cost(flag) \in Int
  BY DEF Cost
<1> QED
  BY <1>1, <1>2, <1>3, <1>4 DEF Rank, Ranks

-----------------------------------------------------------------------------
\* "The comparison is a total order so that the winner among a set of matching
\* policies is deterministic" (policyresolve.go:182-191): no policy outranks
\* itself, the order is transitive, and of two policies with different names
\* exactly one outranks the other.
THEOREM RestrictivenessIsTotalOrder ==
    ASSUME NEW a \in Policy, NEW b \in Policy, NEW c \in Policy
    PROVE  /\ ~IsMoreRestrictive(a, a)
           /\ IsMoreRestrictive(a, b) /\ IsMoreRestrictive(b, c) => IsMoreRestrictive(a, c)
           /\ IsMoreRestrictive(a, b) => ~IsMoreRestrictive(b, a)
           /\ a.name # b.name => IsMoreRestrictive(a, b) \/ IsMoreRestrictive(b, a)
<1>1. Rank(a) \in Ranks /\ Rank(b) \in Ranks /\ Rank(c) \in Ranks
  BY RankType
<1>2. a.name # b.name => Rank(a)[6] # Rank(b)[6]
  BY RankType
<1> QED
  BY <1>1, <1>2, BeforeIrreflexive, BeforeTransitive, BeforeTotal DEF IsMoreRestrictive

-----------------------------------------------------------------------------
\* A question to the resolver adds at most the policy it is about.
LEMMA ResolveType ==
    ASSUME TypeOK, NEW p, Resolve(p)
    PROVE  resolved' \in SUBSET Selecting /\ admitted' \in SUBSET resolved'
BY DEF Resolve, TypeOK

\* Every variable keeps its type, and a pass in progress knows its policy, the
\* replica that led it to the workload and the pod of that replica.
THEOREM TypeCorrect == Spec => []TypeOK
<1>0. 0 \in 0..MaxChanges /\ 0 \in 0..MaxFailures
  BY ArbitrationAssumption
<1>1. Init => TypeOK
  BY <1>0 DEF Init, TypeOK
<1>2. TypeOK /\ [Next]_vars => TypeOK'
  <2> SUFFICES ASSUME TypeOK, [Next]_vars
               PROVE  TypeOK'
    OBVIOUS
  <2>1. CASE UNCHANGED vars
    BY <2>1 DEF TypeOK, vars, passVars, world, evidence
  <2>2. ASSUME NEW p \in Items, NEW k \in Replicas, Begin(p, k)
        PROVE  TypeOK'
    <3>1. failures' \in 0..MaxFailures
      BY <2>2, ArbitrationAssumption DEF Begin, TypeOK
    <3>2. pods[k] \in PodStates
      BY <2>2 DEF Begin, Selected, TypeOK
    <3>3. resolved' \in SUBSET Selecting /\ admitted' \in SUBSET resolved'
      BY <2>2, ResolveType DEF Begin
    <3> QED
      BY <2>2, <3>1, <3>2, <3>3 DEF Begin, TypeOK, world
  <2>3. ASSUME Leave, UNCHANGED world, failures' \in 0..MaxFailures,
               acted' \in SUBSET Action
        PROVE  TypeOK'
    BY <1>0, <2>3 DEF Leave, TypeOK, world
  <2>4. CASE CheckExclude
    <3>1. CASE Leave
      BY <2>3, <2>4, <3>1 DEF CheckExclude, TypeOK
    <3>2. CASE ~Leave
      BY <2>4, <3>2 DEF CheckExclude, TypeOK, world, evidence
    <3> QED
      BY <3>1, <3>2
  <2>5. CASE CheckReplicas
    <3>1. CASE Leave
      BY <2>3, <2>5, <3>1 DEF CheckReplicas, TypeOK
    <3>2. CASE ~Leave
      BY <2>5, <3>2 DEF CheckReplicas, TypeOK, world, evidence
    <3> QED
      BY <3>1, <3>2
  <2>6. ASSUME NEW p \in Items, Judge(p)
        PROVE  TypeOK'
    <3>1. CASE Leave
      BY <2>3, <2>6, <3>1 DEF Judge, TypeOK
    <3>2. CASE ~Leave
      <4>1. resolved' \in SUBSET Selecting /\ admitted' \in SUBSET resolved'
        BY <2>6, <3>2, ResolveType DEF Judge
      <4> QED
        BY <2>6, <3>2, <4>1 DEF Judge, Preferred, TypeOK, world, evidence
    <3> QED
      BY <3>1, <3>2
  <2>7. CASE Decide
    <3>1. Deed \in Action
      BY <2>7 DEF Decide, Deed, Action, TypeOK
    <3>2. acted' \in SUBSET Action
      BY <2>7, <3>1 DEF Decide, TypeOK
    <3> QED
      BY <2>3, <2>7, <3>2 DEF Decide, TypeOK
  <2>8. CASE ReadFails
    BY <2>3, <2>8, ArbitrationAssumption DEF ReadFails, TypeOK
  <2>9. ASSUME Changes, stirred' \in BOOLEAN, pods' \in [Replicas -> PodStates \cup {NoPod}],
               excluding' \in SUBSET Items, admitting' \in SUBSET (Selecting \ Unparseable)
        PROVE  TypeOK'
    <3>1. changes' \in 0..MaxChanges
      BY <2>9, ArbitrationAssumption DEF Changes, TypeOK
    <3> QED
      BY <2>9, <3>1 DEF Changes, TypeOK
  <2>10. ASSUME NEW k \in Replicas, NEW s \in PodStates \cup {NoPod}, PodChanges(k, s)
         PROVE  TypeOK'
    BY <2>9, <2>10 DEF PodChanges, TypeOK
  <2>11. ASSUME NEW p \in Items, LabelsChange(p)
         PROVE  TypeOK'
    BY <2>9, <2>11 DEF LabelsChange, Toggled, TypeOK
  <2>12. ASSUME NEW p \in Selecting \ Unparseable, NamespaceRelabelled(p)
         PROVE  TypeOK'
    BY <2>9, <2>12 DEF NamespaceRelabelled, Toggled, TypeOK
  <2>13. ASSUME NEW p \in Selecting \ Unparseable, JudgeElsewhere(p)
         PROVE  TypeOK'
    <3>1. resolved' \in SUBSET Selecting /\ admitted' \in SUBSET resolved'
      BY <2>13, ResolveType DEF JudgeElsewhere
    <3> QED
      BY <2>13, <3>1 DEF JudgeElsewhere, TypeOK, world, evidence
  <2> QED
    BY <2>1, <2>2, <2>4, <2>5, <2>6, <2>7, <2>8, <2>10, <2>11, <2>12, <2>13 DEF Next, Pass
<1> QED
  BY <1>1, <1>2, PTL DEF Spec

-----------------------------------------------------------------------------
\* Outside the judging of policies there is no winner yet.
NoEarlyWinner == pc \in {"idle", "exclude", "replicas"} => judged = {} /\ winner = NoPolicy

\* Judging one more policy keeps the winner the most restrictive one.
LEMMA PreferredIsMostRestrictive ==
    ASSUME TypeOK, WinnerIsMostRestrictive, NEW p \in Items
    PROVE  /\ Preferred(p) \in judged \cup {p}
           /\ \A q \in judged \cup {p} : ~IsMoreRestrictive(q, Preferred(p))
<1>1. Items \subseteq Policy /\ NoPolicy \notin Policy /\ judged \subseteq Items
  BY ArbitrationAssumption DEF TypeOK
<1>2. ~IsMoreRestrictive(p, p)
  BY <1>1, RestrictivenessIsTotalOrder
<1>3. CASE winner = NoPolicy
  BY <1>1, <1>2, <1>3 DEF WinnerIsMostRestrictive, Preferred
<1>4. CASE winner # NoPolicy
  <2>1. winner \in judged /\ winner \in Policy /\ \A q \in judged : ~IsMoreRestrictive(q, winner)
    BY <1>1, <1>4 DEF WinnerIsMostRestrictive
  <2>2. CASE IsMoreRestrictive(p, winner)
    <3>1. ASSUME NEW q \in judged, IsMoreRestrictive(q, p)
          PROVE  FALSE
      BY <1>1, <2>1, <2>2, <3>1, RestrictivenessIsTotalOrder
    <3> QED
      BY <1>2, <1>4, <2>2, <3>1 DEF Preferred
  <2>3. CASE ~IsMoreRestrictive(p, winner)
    BY <1>4, <2>1, <2>3 DEF Preferred
  <2> QED
    BY <2>2, <2>3
<1> QED
  BY <1>3, <1>4

LEMMA WinnerStep ==
    ASSUME TypeOK, NoEarlyWinner, WinnerIsMostRestrictive, [Next]_vars
    PROVE  NoEarlyWinner' /\ WinnerIsMostRestrictive'
<1>1. CASE UNCHANGED <<judged, winner>> /\ (pc' = pc \/ pc \in {"idle", "exclude", "replicas"})
  BY <1>1 DEF NoEarlyWinner, WinnerIsMostRestrictive
<1>2. CASE Leave
  BY <1>2 DEF Leave, NoEarlyWinner, WinnerIsMostRestrictive
<1>3. ASSUME NEW p \in Items, Judge(p), ~Leave
      PROVE  NoEarlyWinner' /\ WinnerIsMostRestrictive'
  <2>1. pc' \in {"judge", "decide"}
    BY <1>3 DEF Judge
  <2>2. CASE PolicyWouldAct(p, leadPod)
    BY <1>3, <2>1, <2>2, PreferredIsMostRestrictive
    DEF Judge, NoEarlyWinner, WinnerIsMostRestrictive
  <2>3. CASE ~PolicyWouldAct(p, leadPod)
    BY <1>3, <2>1, <2>3 DEF Judge, NoEarlyWinner, WinnerIsMostRestrictive
  <2> QED
    BY <2>2, <2>3
<1> QED
  BY <1>1, <1>2, <1>3
  DEF Next, Pass, Begin, JudgeElsewhere, CheckExclude, CheckReplicas, Decide, ReadFails,
      Changes, PodChanges, LabelsChange, NamespaceRelabelled, vars, passVars, NoEarlyWinner

\* For any list of policies, in any order, and however pods and labels change
\* while they are judged, the winner is the most restrictive of those that
\* were judged to act.
THEOREM WinnerCorrect == Spec => []WinnerIsMostRestrictive
<1>1. Init => NoEarlyWinner /\ WinnerIsMostRestrictive
  BY DEF Init, NoEarlyWinner, WinnerIsMostRestrictive
<1>2. TypeOK /\ NoEarlyWinner /\ WinnerIsMostRestrictive /\ [Next]_vars
        => NoEarlyWinner' /\ WinnerIsMostRestrictive'
  BY WinnerStep
<1> QED
  BY <1>1, <1>2, TypeCorrect, PTL DEF Spec

-----------------------------------------------------------------------------
\* The reconcile loop judges a pod with checks of its own (crashlooppolicy_controller.go:
\* 146-160) and policyWouldAct with podMatchesPolicy (policyresolve.go:242-280), which
\* "runs the same checks": for any policy and any pod they come to the same verdict.
THEOREM SelectsAgree ==
    ASSUME NEW p, NEW pod
    PROVE  LoopSelects(p, pod) <=> ResolverSelects(p, pod)
BY DEF LoopSelects, ResolverSelects, PodMatchesPolicy

\* What policies ask of a workload and a pod depends on the pods and the labels
\* only.
LEMMA ConditionsStand ==
    ASSUME UNCHANGED <<pods, excluding>>, NEW p, NEW pod
    PROVE  /\ Conditions(p, pod)' <=> Conditions(p, pod)
           /\ AllReplicasFailing(p)' <=> AllReplicasFailing(p)
BY DEF Conditions, AllReplicasFailing, LivePods

\* What the resolver knows, it does not forget within the evaluation.
LEMMA ResolveKeeps ==
    ASSUME TypeOK, NEW p, Resolve(p), NEW q
    PROVE  /\ p \in Selecting => p \in resolved'
           /\ q \in resolved => q \in resolved' /\ (q \in admitted' <=> q \in admitted)
           /\ q \in resolved' /\ q \notin resolved =>
                q \in Selecting /\ (q \in admitted' <=> q \in admitting)
BY DEF Resolve, TypeOK

\* The policies that the resolver and their conditions let act.
Found(p) == (p \in Selecting => p \in admitted) /\ Conditions(p, leadPod)

\* What a pass knows.  Its own namespaces have been resolved, and those of the
\* policies it has judged.  While its pods and labels stay as they were, its
\* own checks hold, and the policies judged to act are those whose conditions
\* hold now.  While nothing changes, what was resolved is still right.
Quiet == pc # "idle" /\ ~stirred

SteadyPass ==
    /\ since <= changes
    /\ pc # "idle" => self.covers /\ (self \in Selecting => self \in admitted)
    /\ pc \in {"judge", "decide"} => (Items \ todo) \cap Selecting \subseteq resolved
    /\ Quiet => leadPod = pods[lead] /\ ResolverSelects(self, leadPod)
    /\ Quiet /\ pc # "exclude" => self \notin excluding
    /\ Quiet /\ pc \in {"judge", "decide"} =>
         /\ EffectiveAllReplicasFailing(self) => AllReplicasFailing(self)
         /\ judged = {p \in Items \ todo : Found(p)}
    /\ since = changes => ~stirred /\ admitted = resolved \cap admitting
    /\ pc = "decide" => todo = {}
    /\ pc \in {"idle", "exclude", "replicas"} => judged = {}
    /\ pc = "idle" => ~stirred /\ resolved = {}

LEMMA SteadyPassStep ==
    ASSUME TypeOK, SteadyPass, [Next]_vars
    PROVE  SteadyPass'
<1>1. CASE UNCHANGED vars
  <2>1. UNCHANGED <<pods, excluding, admitting, changes, pc, self, lead, leadPod, since,
                    stirred, resolved, admitted, todo, judged>>
    BY <1>1 DEF vars, world, passVars, evidence
  <2>2. \A p : Found(p)' <=> Found(p)
    BY <2>1, ConditionsStand DEF Found
  <2> QED
    BY <2>1, <2>2, ConditionsStand DEF SteadyPass, Quiet
<1>2. ASSUME Leave, UNCHANGED world
      PROVE  SteadyPass'
  <2>1. since' <= changes'
    BY <1>2, ArbitrationAssumption DEF Leave, world, TypeOK
  <2> QED
    BY <1>2, <2>1 DEF Leave, SteadyPass, Quiet, world
<1>3. ASSUME NEW p \in Items, NEW k \in Replicas, Begin(p, k)
      PROVE  SteadyPass'
  <2>1. ResolverSelects(p, pods[k])
    BY <1>3, SelectsAgree DEF Begin, Selected
  <2>2. resolved = {} /\ admitted = {} /\ ~stirred
    BY <1>3 DEF Begin, SteadyPass, TypeOK
  <2>3. p.covers /\ (p \in Selecting => p \in admitting)
    BY <1>3, <2>2 DEF Begin, Selected, Allowed
  <2>4. admitted' = resolved' \cap admitting /\ (p \in Selecting => p \in admitted')
    BY <1>3, <2>2, <2>3, ArbitrationAssumption DEF Begin, Resolve, TypeOK
  <2>5. changes \in Nat /\ since' = changes /\ changes <= changes
    BY <1>3, ArbitrationAssumption DEF Begin, TypeOK
  <2> QED
    BY <1>3, <2>1, <2>2, <2>3, <2>4, <2>5 DEF Begin, SteadyPass, Quiet, TypeOK, world
<1>4. ASSUME CheckExclude, ~Leave
      PROVE  SteadyPass'
  BY <1>4 DEF CheckExclude, SteadyPass, Quiet, world, evidence
<1>5. ASSUME CheckReplicas, ~Leave
      PROVE  SteadyPass'
  <2>1. UNCHANGED <<pods, excluding, admitting>> /\ pc' = "judge" /\ todo' = Items
        /\ UNCHANGED <<changes, self, lead, leadPod, since, stirred, resolved, admitted, judged>>
    BY <1>5 DEF CheckReplicas, world, evidence
  <2>2. EffectiveAllReplicasFailing(self) => AllReplicasFailing(self)
    BY <1>5 DEF CheckReplicas
  <2>3. judged = {} /\ {p \in Items \ Items : Found(p)'} = {}
    BY <1>5 DEF CheckReplicas, SteadyPass
  <2> QED
    BY <1>5, <2>1, <2>2, <2>3, ConditionsStand DEF CheckReplicas, SteadyPass, Quiet
<1>6. ASSUME NEW p \in Items, Judge(p), ~Leave
      PROVE  SteadyPass'
  <2>1. /\ pc = "judge" /\ p \in todo /\ pc' \in {"judge", "decide"}
        /\ todo' = todo \ {p} /\ todo \subseteq Items
        /\ pc' = "decide" => todo' = {}
        /\ UNCHANGED <<pods, excluding, admitting, changes, self, lead, leadPod, since, stirred>>
        /\ Resolve(p)
    BY <1>6 DEF Judge, TypeOK, world, evidence
  <2>2. judged' = IF PolicyWouldAct(p, leadPod) THEN judged \cup {p} ELSE judged
    BY <1>6 DEF Judge
  <2>3. (Items \ todo') \cap Selecting \subseteq resolved'
    BY <2>1, ResolveKeeps DEF SteadyPass
  <2>4. \A q : Conditions(q, leadPod)' <=> Conditions(q, leadPod)
    BY <2>1, ConditionsStand
  <2>5. \A q \in Items \ todo : Found(q)' <=> Found(q)
    BY <2>1, <2>4, ResolveKeeps DEF Found, SteadyPass
  <2>6. PolicyWouldAct(p, leadPod) <=> Found(p)'
    BY <2>1, <2>4, ResolveKeeps DEF Found, PolicyWouldAct, Allowed
  <2>7. ASSUME Quiet
        PROVE  judged' = {q \in Items \ todo' : Found(q)'}
    <3>1. judged = {q \in Items \ todo : Found(q)}
      BY <2>1, <2>7 DEF SteadyPass
    <3> QED
      BY <2>1, <2>2, <2>5, <2>6, <3>1
  <2>8. since = changes => admitted' = resolved' \cap admitting
    BY <2>1, ResolveKeeps, ResolveType DEF SteadyPass
  <2>9. self \in Selecting => self \in admitted'
    BY <2>1, ResolveKeeps DEF SteadyPass, TypeOK
  <2> QED
    BY <2>1, <2>3, <2>7, <2>8, <2>9, ConditionsStand DEF SteadyPass, Quiet
<1>7. CASE Decide
  BY <1>2, <1>7 DEF Decide
<1>8. CASE ReadFails
  BY <1>2, <1>8 DEF ReadFails
<1>9. ASSUME NEW p \in Selecting \ Unparseable, JudgeElsewhere(p)
      PROVE  SteadyPass'
  <2>1. /\ pc = "exclude" /\ pc' = "exclude" /\ Resolve(p)
        /\ UNCHANGED <<pods, excluding, changes, admitting, self, lead, leadPod, since, stirred,
                       todo, judged>>
    BY <1>9 DEF JudgeElsewhere, world, evidence
  <2>2. since = changes => admitted' = resolved' \cap admitting
    BY <2>1, ResolveKeeps, ResolveType DEF SteadyPass
  <2>3. self \in Selecting => self \in admitted'
    BY <2>1, ResolveKeeps DEF SteadyPass, TypeOK
  <2> QED
    BY <2>1, <2>2, <2>3 DEF SteadyPass, Quiet
<1>10. ASSUME Changes
       PROVE  since' <= changes' /\ since' # changes'
  <2>1. since <= changes /\ since \in Nat /\ changes \in Nat
    BY ArbitrationAssumption DEF SteadyPass, TypeOK
  <2> QED
    BY <1>10, <2>1 DEF Changes
<1>11. ASSUME Changes, stirred' = (pc # "idle")
       PROVE  SteadyPass'
  BY <1>10, <1>11 DEF Changes, SteadyPass, Quiet
<1>12. ASSUME NEW p, NamespaceRelabelled(p)
       PROVE  SteadyPass'
  <2>1. UNCHANGED <<pods, excluding, pc, self, lead, leadPod, stirred, resolved, admitted,
                    todo, judged>>
    BY <1>12 DEF NamespaceRelabelled, Changes
  <2>2. \A q : Found(q)' <=> Found(q)
    BY <2>1, ConditionsStand DEF Found
  <2>3. since' <= changes' /\ since' # changes'
    BY <1>10, <1>12 DEF NamespaceRelabelled
  <2> QED
    BY <2>1, <2>2, <2>3, ConditionsStand DEF SteadyPass, Quiet
<1> QED
  BY <1>1, <1>2, <1>3, <1>4, <1>5, <1>6, <1>7, <1>8, <1>9, <1>11, <1>12
  DEF Next, Pass, CheckExclude, CheckReplicas, Judge, PodChanges, LabelsChange

LEMMA SteadyPassInvariant == Spec => []SteadyPass
<1>1. Init => SteadyPass
  BY ArbitrationAssumption DEF Init, SteadyPass, Quiet
<1>2. TypeOK /\ SteadyPass /\ [Next]_vars => SteadyPass'
  BY SteadyPassStep
<1> QED
  BY <1>1, <1>2, TypeCorrect, PTL DEF Spec

\* A pass whose pods and labels did not change, and that is about to act, was
\* judged to.
LEMMA QuietSelfIsJudged ==
    ASSUME TypeOK, SteadyPass, pc = "decide", Quiet
    PROVE  self \in judged
<1>1. self \in Items /\ todo = {} /\ self \notin excluding
  BY DEF TypeOK, SteadyPass
<1>2. Found(self)
  BY <1>1 DEF SteadyPass, Found, Conditions
<1> QED
  BY <1>1, <1>2 DEF SteadyPass

\* However many policies overlap, and however namespaces are relabelled, a policy
\* that acts in a pass in which no pod and no label of the workload changed was
\* judged to act by winningPolicy as well.
THEOREM ActorWasJudgedWhenUndisturbed == Spec => []UndisturbedActorWasJudged
<1>1. Init => UndisturbedActorWasJudged
  BY DEF Init, UndisturbedActorWasJudged
<1>2. TypeOK /\ SteadyPass /\ UndisturbedActorWasJudged /\ [Next]_vars
        => UndisturbedActorWasJudged'
  <2> SUFFICES ASSUME TypeOK, SteadyPass, UndisturbedActorWasJudged, [Next]_vars
               PROVE  UndisturbedActorWasJudged'
    OBVIOUS
  <2>1. CASE UNCHANGED acted
    BY <2>1 DEF UndisturbedActorWasJudged
  <2>2. CASE Decide
    <3>1. Deed.undisturbed => Deed.judged
      BY <2>2, QuietSelfIsJudged DEF Decide, Deed, Quiet
    <3> QED
      BY <2>2, <3>1 DEF Decide, UndisturbedActorWasJudged
  <2> QED
    BY <2>1, <2>2
    DEF Next, Pass, Begin, JudgeElsewhere, CheckExclude, CheckReplicas, Judge, ReadFails,
        Changes, PodChanges, LabelsChange, NamespaceRelabelled, vars
<1> QED
  BY <1>1, <1>2, TypeCorrect, SteadyPassInvariant, PTL DEF Spec

-----------------------------------------------------------------------------
\* The actor of a steady pass in the present state of the world is the most
\* restrictive of the policies that would act on the pod that led the pass.
Settled(a) == MostRestrictiveNow(a.policy, pods[a.lead])

DeedsStand ==
    \A a \in acted :
        /\ a.world <= changes
        /\ a.steady /\ a.world = changes => Settled(a)

\* What is settled depends on the state of the world only.
LEMMA SettlementStands ==
    ASSUME UNCHANGED world, NEW a
    PROVE  Settled(a)' <=> Settled(a)
<1>1. UNCHANGED <<pods, excluding, admitting>>
  BY DEF world
<1>2. \A p, pod : WouldActNow(p, pod)' <=> WouldActNow(p, pod)
  BY <1>1, ConditionsStand DEF WouldActNow
<1> QED
  BY <1>1, <1>2 DEF Settled, MostRestrictiveNow

\* Two settled actors of the same pod are the same policy.
LEMMA SettledIsUnique ==
    ASSUME NEW a \in Action, NEW b \in Action, a.lead = b.lead, Settled(a), Settled(b)
    PROVE  a.policy = b.policy
<1>2. a.policy \in Items /\ b.policy \in Items
  BY DEF Action
<1>3. a.policy \in Policy /\ b.policy \in Policy
  BY <1>2, ArbitrationAssumption
<1>4. ~IsMoreRestrictive(a.policy, b.policy) /\ ~IsMoreRestrictive(b.policy, a.policy)
  BY <1>2 DEF Settled, MostRestrictiveNow
<1>5. a.policy.name = b.policy.name
  BY <1>3, <1>4, RestrictivenessIsTotalOrder
<1> QED
  BY <1>2, <1>5, ArbitrationAssumption

LEMMA DeedIsSettled ==
    ASSUME TypeOK, SteadyPass, WinnerIsMostRestrictive, Decide, winner \in {NoPolicy, self},
           since = changes
    PROVE  Settled(Deed)
<1>1. Quiet /\ pc = "decide" /\ todo = {} /\ leadPod = pods[lead]
  BY DEF Decide, Quiet, SteadyPass
<1>2. judged = {p \in Items : WouldActNow(p, pods[lead])}
  <2>1. judged = {p \in Items : Found(p)}
    BY <1>1 DEF SteadyPass
  <2>2. Items \cap Selecting \subseteq resolved /\ admitted = resolved \cap admitting
    BY <1>1 DEF SteadyPass
  <2>3. \A p \in Items : Found(p) <=> WouldActNow(p, pods[lead])
    BY <1>1, <2>2 DEF Found, WouldActNow
  <2> QED
    BY <2>1, <2>3
<1>3. self \in judged
  BY <1>1, QuietSelfIsJudged
<1>4. winner \in judged /\ \A q \in judged : ~IsMoreRestrictive(q, winner)
  BY <1>3 DEF WinnerIsMostRestrictive
<1>5. NoPolicy \notin Items
  BY ArbitrationAssumption
<1>6. winner = self
  BY <1>2, <1>4, <1>5
<1> QED
  BY <1>2, <1>3, <1>4, <1>6 DEF Settled, MostRestrictiveNow, Deed

LEMMA DeedsStep ==
    ASSUME TypeOK, SteadyPass, WinnerIsMostRestrictive, DeedsStand, [Next]_vars
    PROVE  DeedsStand'
<1>1. CASE UNCHANGED <<acted, world>>
  <2>1. \A a : Settled(a)' <=> Settled(a)
    BY <1>1, SettlementStands
  <2> QED
    BY <1>1, <2>1 DEF DeedsStand, world
<1>2. CASE Decide
  <2>1. UNCHANGED <<world, changes>>
    BY <1>2 DEF Decide, world
  <2>2. \A a : Settled(a)' <=> Settled(a)
    BY <2>1, SettlementStands
  <2>3. CASE acted' = acted
    BY <2>1, <2>2, <2>3 DEF DeedsStand
  <2>4. CASE winner \in {NoPolicy, self} /\ acted' = acted \cup {Deed}
    <3>1. Deed.world = changes /\ changes <= changes
      BY ArbitrationAssumption DEF Deed, TypeOK
    <3>2. Deed.steady => Settled(Deed)
      BY <1>2, <2>4, DeedIsSettled DEF Deed
    <3> QED
      BY <2>1, <2>2, <2>4, <3>1, <3>2 DEF DeedsStand
  <2> QED
    BY <1>2, <2>3, <2>4 DEF Decide
<1>3. CASE UNCHANGED acted /\ changes' = changes + 1
  <2>1. changes \in Nat /\ \A a \in acted : a.world \in Nat /\ a.world <= changes
    BY ArbitrationAssumption DEF TypeOK, Action, DeedsStand
  <2>2. \A a \in acted : a.world <= changes' /\ a.world # changes'
    BY <1>3, <2>1
  <2> QED
    BY <1>3, <2>2 DEF DeedsStand
<1> QED
  BY <1>1, <1>2, <1>3
  DEF Next, Pass, Begin, JudgeElsewhere, CheckExclude, CheckReplicas, Judge, ReadFails,
      Changes, PodChanges, LabelsChange, NamespaceRelabelled, vars

\* However many policies overlap, two passes led to the workload by the same
\* pod, each in a world that stood still and in the same state of it, agree on
\* the one policy that acts.
THEOREM SameActor == Spec => []SameEvidenceSameActor
<1>1. Init => DeedsStand /\ SameEvidenceSameActor
  BY DEF Init, DeedsStand, SameEvidenceSameActor
<1>2. TypeOK /\ TypeOK' /\ SteadyPass /\ WinnerIsMostRestrictive /\ DeedsStand
      /\ SameEvidenceSameActor /\ [Next]_vars
        => DeedsStand' /\ SameEvidenceSameActor'
  <2> SUFFICES ASSUME TypeOK, TypeOK', SteadyPass, WinnerIsMostRestrictive, DeedsStand,
                      SameEvidenceSameActor, [Next]_vars
               PROVE  DeedsStand' /\ SameEvidenceSameActor'
    OBVIOUS
  <2>1. DeedsStand'
    BY DeedsStep
  <2>2. CASE UNCHANGED acted
    BY <2>1, <2>2 DEF SameEvidenceSameActor
  <2>3. CASE Decide /\ acted' = acted \cup {Deed}
    <3>1. changes' = changes /\ Deed.world = changes /\ Deed \in acted'
      BY <2>3 DEF Decide, Deed, world
    <3>2. ASSUME NEW a \in acted', NEW b \in acted', a.steady, b.steady, a.lead = b.lead,
                 a.world = changes, b.world = changes
          PROVE  a.policy = b.policy
      <4>1. Settled(a)' /\ Settled(b)'
        BY <2>1, <3>1, <3>2 DEF DeedsStand
      <4>2. UNCHANGED world
        BY <2>3 DEF Decide
      <4>3. Settled(a) /\ Settled(b)
        BY <4>1, <4>2, SettlementStands
      <4>4. a \in Action /\ b \in Action
        BY <3>2 DEF TypeOK
      <4> QED
        BY <3>2, <4>3, <4>4, SettledIsUnique
    <3>3. ASSUME NEW a \in acted', NEW b \in acted', a.steady, b.steady, a.lead = b.lead,
                 a.world = b.world
          PROVE  a.policy = b.policy
      <4>1. CASE a.world = changes
        BY <3>2, <3>3, <4>1
      <4>2. CASE a.world # changes
        BY <2>3, <3>1, <3>3, <4>2 DEF SameEvidenceSameActor
      <4> QED
        BY <4>1, <4>2
    <3> QED
      BY <2>1, <3>3 DEF SameEvidenceSameActor
  <2>4. CASE Decide
    BY <2>2, <2>3, <2>4 DEF Decide
  <2> QED
    BY <2>2, <2>4
    DEF Next, Pass, Begin, JudgeElsewhere, CheckExclude, CheckReplicas, Judge, ReadFails,
        Changes, PodChanges, LabelsChange, NamespaceRelabelled, vars
<1> QED
  BY <1>1, <1>2, TypeCorrect, SteadyPassInvariant, WinnerCorrect, PTL DEF Spec

-----------------------------------------------------------------------------
\* A winner that is judged to act, and that nobody who was outranks, is the policy
\* of the pass if nobody outranks that one either.
LEMMA MostRestrictiveWins ==
    ASSUME TypeOK, SteadyPass, WinnerIsMostRestrictive, pc = "decide", since = changes,
           MostRestrictiveNow(self, pods[lead])
    PROVE  winner = self
<1>1. Quiet /\ todo = {} /\ leadPod = pods[lead] /\ self \in Items
  BY DEF Quiet, SteadyPass, TypeOK
<1>2. self \in judged /\ judged \subseteq Items
  BY <1>1, QuietSelfIsJudged DEF TypeOK
<1>3. winner \in judged /\ ~IsMoreRestrictive(self, winner)
  BY <1>2 DEF WinnerIsMostRestrictive
<1>4. WouldActNow(winner, pods[lead])
  <2>1. Found(winner)
    BY <1>1, <1>3 DEF SteadyPass
  <2>2. Items \cap Selecting \subseteq resolved /\ admitted = resolved \cap admitting
    BY <1>1 DEF SteadyPass
  <2> QED
    BY <1>1, <2>1, <2>2 DEF Found, WouldActNow
<1>5. ~IsMoreRestrictive(winner, self)
  BY <1>2, <1>3, <1>4 DEF MostRestrictiveNow
<1>6. winner \in Policy /\ self \in Policy
  BY <1>2, <1>3, ArbitrationAssumption
<1>7. winner.name = self.name
  BY <1>3, <1>5, <1>6, RestrictivenessIsTotalOrder
<1> QED
  BY <1>2, <1>3, <1>7, ArbitrationAssumption

\* In every pass during which nothing changed, for any number of overlapping policies
\* and whatever fails or changes in between, the policy of the pass acts exactly when
\* it is the most restrictive of those that would act on the pod that led it.
THEOREM ActsExactlyWhenMostRestrictive == Spec => ActsIffMostRestrictive
<1>1. TypeOK /\ SteadyPass /\ WinnerIsMostRestrictive /\ DeedsStand
        => (Decide /\ since = changes =>
              (Deed \in acted' <=> MostRestrictiveNow(self, pods[lead])))
  <2> SUFFICES ASSUME TypeOK, SteadyPass, WinnerIsMostRestrictive, DeedsStand,
                      Decide, since = changes
               PROVE  Deed \in acted' <=> MostRestrictiveNow(self, pods[lead])
    OBVIOUS
  <2>1. Settled(Deed) <=> MostRestrictiveNow(self, pods[lead])
    BY DEF Settled, Deed
  <2>2. CASE winner \in {NoPolicy, self}
    BY <2>1, <2>2, DeedIsSettled DEF Decide
  <2>3. CASE winner \notin {NoPolicy, self}
    <3>1. acted' = acted /\ pc = "decide"
      BY <2>3 DEF Decide
    <3>2. ~MostRestrictiveNow(self, pods[lead])
      BY <2>3, <3>1, MostRestrictiveWins
    <3>3. Deed.steady /\ Deed.world = changes
      BY DEF Deed
    <3> QED
      BY <2>1, <3>1, <3>2, <3>3 DEF DeedsStand
  <2> QED
    BY <2>2, <2>3
<1>2. Init => DeedsStand
  BY DEF Init, DeedsStand
<1>3. TypeOK /\ SteadyPass /\ WinnerIsMostRestrictive /\ DeedsStand /\ [Next]_vars
        => DeedsStand'
  BY DeedsStep
<1> QED
  BY <1>1, <1>2, <1>3, TypeCorrect, SteadyPassInvariant, WinnerCorrect, PTL
  DEF Spec, ActsIffMostRestrictive

-----------------------------------------------------------------------------
\* In no state of a pod does a classic init container look like one that keeps
\* dying in the eyes of policy p.
InitsDoNotLoop(p) ==
    \A pod \in PodStates, c \in InitContainers \ Sidecars :
        ~KeepsDying(pod.status[c], EffectiveTerminationReasons(p),
                    EffectiveRestartThreshold(p), EffectiveRestartWindow(p))

\* Then what makes a container count in Container mode makes the pod count.
LEMMA NamedImpliesMatch ==
    ASSUME NEW p, InitsDoNotLoop(p), NEW pod \in PodStates, NEW c \in Containers,
           c \in FailingContainerNames(p, pod)
    PROVE  PodMatchesPolicy(p, pod)
<1>1. CASE WaitsFor(pod.status[c], EffectiveWatchReasons(p))
  BY <1>1 DEF PodMatchesPolicy, PodHasFailureReason
<1>2. CASE /\ Restarts(pod)
           /\ KeepsDying(pod.status[c], EffectiveTerminationReasons(p),
                         EffectiveRestartThreshold(p), EffectiveRestartWindow(p))
  <2>1. c \in CanLoop
    BY <1>2 DEF InitsDoNotLoop, CanLoop
  <2> QED
    BY <1>2, <2>1 DEF PodMatchesPolicy, Looping, PodIsRestartLooping
<1> QED
  BY <1>1, <1>2 DEF FailingContainerNames

\* The mode a policy is put in changes none of its other fields.
LEMMA ModeOnly ==
    ASSUME NEW p \in Policy, NEW mode \in {"Pod", "Container"}
    PROVE  /\ EffectiveFailureCorrelation(InMode(p, mode)) = mode
           /\ EffectiveWatchReasons(InMode(p, mode)) = EffectiveWatchReasons(p)
           /\ EffectiveTerminationReasons(InMode(p, mode)) = EffectiveTerminationReasons(p)
           /\ EffectiveRestartThreshold(InMode(p, mode)) = EffectiveRestartThreshold(p)
           /\ EffectiveRestartWindow(InMode(p, mode)) = EffectiveRestartWindow(p)
<1>1. /\ InMode(p, mode).failureCorrelation = mode
      /\ InMode(p, mode).watchReasons = p.watchReasons
      /\ InMode(p, mode).watchTerminationReasons = p.watchTerminationReasons
      /\ InMode(p, mode).restartThreshold = p.restartThreshold
      /\ InMode(p, mode).restartWindow = p.restartWindow
  BY Zenon DEF InMode, Policy
<1> QED
  BY <1>1
  DEF EffectiveFailureCorrelation, EffectiveWatchReasons, EffectiveTerminationReasons,
      EffectiveRestartThreshold, EffectiveRestartWindow

\* As long as no classic init container looks like one that keeps dying, the
\* Container mode is the stricter one: whatever the replicas do, it never finds
\* all of them failing where the Pod mode does not.
THEOREM ContainerStricterWithoutInits ==
    ASSUME \A p \in Items : InitsDoNotLoop(p)
    PROVE  Spec => []ContainerIsStricter
<1>1. TypeOK => ContainerIsStricter
  <2> SUFFICES ASSUME TypeOK, NEW p \in Items,
                      ReplicasAllFailing(InMode(p, "Container"), LivePods)
               PROVE  ReplicasAllFailing(InMode(p, "Pod"), LivePods)
    BY DEF ContainerIsStricter
  <2>1. p \in Policy /\ LivePods \subseteq PodStates
    BY ArbitrationAssumption DEF TypeOK, LivePods
  <2>2. PICK c \in Containers :
          \A pod \in LivePods : c \in FailingContainerNames(InMode(p, "Container"), pod)
    BY <2>1, ModeOnly DEF ReplicasAllFailing
  <2>3. ASSUME NEW pod \in LivePods
        PROVE  PodMatchesPolicy(InMode(p, "Pod"), pod)
    <3>1. c \in FailingContainerNames(p, pod)
      BY <2>1, <2>2, <2>3, ModeOnly DEF FailingContainerNames
    <3>2. PodMatchesPolicy(p, pod)
      BY <2>1, <2>3, <3>1, NamedImpliesMatch
    <3> QED
      BY <2>1, <3>2, ModeOnly DEF PodMatchesPolicy, Looping
  <2> QED
    BY <2>1, <2>3, ModeOnly DEF ReplicasAllFailing
<1> QED
  BY <1>1, TypeCorrect, PTL

-----------------------------------------------------------------------------
\* The loop judges candidates only, and winningPolicy judges a pod another
\* policy found: the indexes (indexes.go) leave out no pod a policy selects, so a
\* policy that is judged to act can find the pod itself.  This needs a positive
\* restart threshold, since the index of termination reasons skips containers
\* that never restarted, and reasons that are not empty.
THEOREM SelectedIsCandidate ==
    ASSUME NoReason \notin WaitingReasons, NoReason \notin TerminationReasons,
           NEW p \in Policy, NEW pod \in Pod, LoopSelects(p, pod)
    PROVE  IsCandidate(p, pod)
<1>0. /\ p.watchReasons \in SUBSET WaitingReasons
      /\ p.watchTerminationReasons \in SUBSET TerminationReasons
      /\ p.restartThreshold \in Nat
  BY Zenon DEF Policy
<1>1. /\ EffectiveWatchReasons(p) \subseteq WaitingReasons
      /\ EffectiveTerminationReasons(p) \subseteq TerminationReasons
  BY <1>0, DetectionAssumption DEF EffectiveWatchReasons, EffectiveTerminationReasons
<1>2. EffectiveRestartThreshold(p) \in Nat \ {0}
  BY <1>0, DetectionAssumption DEF EffectiveRestartThreshold
<1>3. \A c \in Containers : pod.status[c] \in Status
  BY DEF Pod
<1>4. CASE PodHasFailureReason(pod, EffectiveWatchReasons(p))
  <2>1. PICK c \in Containers : pod.status[c].waiting \in EffectiveWatchReasons(p)
    BY <1>4 DEF PodHasFailureReason, WaitsFor
  <2>2. pod.status[c].waiting \in PodWaitingReasons(pod)
    BY <1>1, <2>1 DEF PodWaitingReasons
  <2> QED
    BY <2>1, <2>2 DEF IsCandidate
<1>5. CASE Looping(p, pod)
  <2>1. PICK c \in Containers :
          /\ pod.status[c].restarts >= EffectiveRestartThreshold(p)
          /\ pod.status[c].lastReason \in EffectiveTerminationReasons(p)
    BY <1>5 DEF Looping, PodIsRestartLooping, KeepsDying, CanLoop
  <2>2. pod.status[c].restarts # 0
    BY <1>2, <1>3, <2>1 DEF Status
  <2>3. pod.status[c].lastReason \in PodTerminationReasons(pod)
    BY <1>1, <2>1, <2>2 DEF PodTerminationReasons
  <2> QED
    BY <2>1, <2>3 DEF IsCandidate
<1> QED
  BY <1>4, <1>5 DEF LoopSelects
=============================================================================
