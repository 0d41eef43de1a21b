------------------------------ MODULE Reconciler ------------------------------
(***************************************************************************)
(* The reconcile loop of the operator (crashlooppolicy_controller.go) with *)
(* its work queue, the status it keeps on every policy and the workloads   *)
(* it holds down.  One worker evaluates one policy at a time.  Policies    *)
(* and workloads are read from caches that lag behind the API server; the  *)
(* status is written back with optimistic concurrency; calls fail, answers *)
(* get lost and the process dies between any two steps.                    *)
(*                                                                         *)
(* How a pod comes to be selected, who wins among policies whose evidence  *)
(* changes, and the single calls of a scale-down are in FailureDetection,  *)
(* PolicyArbitration and ScaleToZero.                                      *)
(***************************************************************************)
EXTENDS Integers, Sequences, FiniteSets, SequencesExt

CONSTANTS
    Policies,       \* numbers, the most restrictive policy the smallest
    Workloads,
    KindOf,         \* the kind of each workload
    Scope,          \* Scope[p][g]: the workloads generation g of p includes
    DryRun,         \* the policies with dryRun: true
    Kept,           \* Kept[w]: who stopped and signed w in an earlier life, or None
    None,           \* no scaled-down-by annotation; no policy; no workload
    MaxActive,      \* MaxActiveScaledDown
    CounterSize,    \* the number of values of the lifetime counter
    MaxTries,       \* Steps of retry.DefaultRetry
    MaxGeneration,  \* bound on the generation of a policy
    MaxEvents,      \* bound on what users and failing pods do
    MaxFaults,      \* bound on failures, lost answers and crashes
    MaxUncounted    \* bound on the history of actions that are not counted

\* The kinds in the order in which findActiveScaledDownWorkloads lists them.
Kinds == <<"Deployment", "StatefulSet", "CronJob">>
Generations == 1..MaxGeneration

ASSUME ReconcilerAssumption ==
    /\ Policies \subseteq Nat /\ IsFiniteSet(Policies)
    /\ IsFiniteSet(Workloads)
    /\ KindOf \in [Workloads -> {"Deployment", "StatefulSet", "CronJob"}]
    /\ Scope \in [Policies -> [Generations -> SUBSET Workloads]]
    /\ DryRun \subseteq Policies
    /\ None \notin Policies /\ None \notin Workloads
    /\ Kept \in [Workloads -> (Policies \ DryRun) \cup {None}]
    /\ \A w \in Workloads : Kept[w] # None => w \in Scope[Kept[w]][1]
    /\ MaxActive \in Nat
    /\ CounterSize \in Nat /\ CounterSize > Cardinality(Workloads)
    /\ MaxTries \in Nat \ {0}
    /\ MaxGeneration \in Nat \ {0}
    /\ MaxEvents \in Nat
    /\ MaxFaults \in Nat
    /\ MaxUncounted \in Nat /\ MaxUncounted > Cardinality(Workloads)

VARIABLES
    workloads,  \* workloads[w]: versions from the cached one to the live one
    policies,   \* policies[p]: the same for a policy
    failing,    \* failing[w]: the policies that would act on the pods of w
    queue,      \* the policies in the work queue
    timers,     \* the policies to be queued again later
    pass,       \* the evaluation in progress
    uncounted,  \* history: actions reported and not (yet) in the counter
    events,     \* what happened outside so far
    faults      \* faults so far

vars == <<workloads, policies, failing, queue, timers, pass, uncounted, events, faults>>

\* A workload: 1 if it runs and 0 if it is scaled down or suspended, and the
\* scaled-down-by annotation.
Workload == [size : {0, 1}, by : Policies \cup {None}]

\* The phase of a policy that was never evaluated.
NoPhase == ""

\* The status of a policy.  The Ready condition is the number of errors of the
\* evaluation, which its message names, or -1; Degraded tells whether "active"
\* is empty.
Status ==
    [phase : {NoPhase, "Pending", "Active"},
     observed : Generations \cup {0},
     counter : 0..(CounterSize - 1),
     active : Seq(Workloads),
     truncated : Nat,
     errors : Nat \cup {-1}]

NewStatus == [phase |-> NoPhase, observed |-> 0, counter |-> 0, active |-> <<>>,
              truncated |-> 0, errors |-> -1]

PolicyVersion == [gen : Generations, status : Status]

Place == {"idle", "pendingGet", "pendingPut", "list", "loop", "act", "stop",
          "collect", "statusGet", "statusPut"}

\* No evaluation in progress: the values the local variables start with.
NoPass ==
    [at |-> "idle", policy |-> None, gen |-> 1, tries |-> 0,
     specs |-> [p \in Policies |-> 1], todo |-> {}, target |-> None,
     scaledDown |-> 0, errors |-> 0, kinds |-> Kinds, found |-> <<>>,
     active |-> <<>>, truncated |-> 0,
     draft |-> [gen |-> 1, status |-> NewStatus], fresh |-> FALSE]

Pass ==
    [at : Place, policy : Policies \cup {None}, gen : Generations, tries : 0..(MaxTries - 1),
     specs : [Policies -> Generations], todo : SUBSET Workloads,
     target : Workloads \cup {None},
     scaledDown : Nat, errors : Nat, kinds : Seq({"Deployment", "StatefulSet", "CronJob"}),
     found : Seq(Workloads), active : Seq(Workloads), truncated : Nat,
     draft : PolicyVersion, fresh : BOOLEAN]

TypeOK ==
    /\ workloads \in [Workloads -> Seq(Workload) \ {<<>>}]
    /\ policies \in [Policies -> Seq(PolicyVersion) \ {<<>>}]
    /\ failing \in [Workloads -> SUBSET Policies]
    /\ queue \in SUBSET Policies
    /\ timers \in SUBSET Policies
    /\ pass \in Pass
    /\ pass.at # "idle" => pass.policy \in Policies
    /\ pass.at \in {"act", "stop"} => pass.target \in Workloads
    /\ uncounted \in [Policies -> Int]
    /\ events \in 0..MaxEvents
    /\ faults \in 0..MaxFaults

Cached(line) == line[1]
Live(line) == line[Len(line)]

\* A workload runs, or stands still since a policy of the same name was there before:
\* a deleted policy leaves what it stopped as it is, and comes back as new.
AsFound(w) == [size |-> IF Kept[w] = None THEN 1 ELSE 0, by |-> Kept[w]]

Init ==
    /\ workloads = [w \in Workloads |-> <<AsFound(w)>>]
    /\ policies = [p \in Policies |-> <<[gen |-> 1, status |-> NewStatus]>>]
    /\ failing = [w \in Workloads |-> {}]
    /\ queue = Policies
    /\ timers = {}
    /\ pass = NoPass
    /\ uncounted = [p \in Policies |-> 0]
    /\ events = 0
    /\ faults = 0

-----------------------------------------------------------------------------
\* Mutant: Reconcile returns no requeueAfter.
FinishForGood ==
    /\ pass' = NoPass
    /\ UNCHANGED timers

\* The evaluation is over.  Reconcile returns a requeueAfter or an error, and
\* either way the policy is queued again after a while.
Finish ==
    /\ pass' = NoPass
    /\ timers' = timers \cup {pass.policy}

\* A version of the policy under evaluation is written.
Store(version) ==
    policies' = [policies EXCEPT ![pass.policy] = Append(@, version)]

\* A cached copy of the policy is read, to be written with the given status.
Draft(place, status) ==
    [pass EXCEPT !.at = place,
                 !.draft = [gen |-> Cached(policies[pass.policy]).gen, status |-> status],
                 !.fresh = (Len(policies[pass.policy]) = 1)]

\* Mutant: one attempt more than the backoff has steps.
RetryOnceMore(place) ==
    IF pass.tries < MaxTries
    THEN pass' = [pass EXCEPT !.at = place, !.tries = @ + 1] /\ UNCHANGED timers
    ELSE Finish

\* RetryOnConflict: the closure starts again from its read, or the conflict is
\* returned when the attempts are used up.
RetryFrom(place) ==
    IF pass.tries + 1 < MaxTries
    THEN pass' = [pass EXCEPT !.at = place, !.tries = @ + 1] /\ UNCHANGED timers
    ELSE Finish

\* The worker takes a policy from the queue and reads it from the cache.
Start(p) ==
    /\ pass.at = "idle"
    /\ p \in queue
    /\ queue' = queue \ {p}
    /\ LET copy == Cached(policies[p])
       IN  pass' = [NoPass EXCEPT
                       !.at = IF copy.status.phase = NoPhase THEN "pendingGet" ELSE "list",
                       !.policy = p,
                       !.gen = copy.gen]
    /\ UNCHANGED <<workloads, policies, failing, timers, uncounted, events, faults>>

\* updateStatusWithRetry, which sets the initial phase.
PendingGet ==
    /\ pass.at = "pendingGet"
    /\ LET copy == Cached(policies[pass.policy])
       IN  pass' = [Draft("pendingPut", [copy.status EXCEPT !.phase = "Pending"])
                      EXCEPT !.gen = copy.gen]
    /\ UNCHANGED <<workloads, policies, failing, queue, timers, uncounted, events, faults>>

PendingPut ==
    /\ pass.at = "pendingPut"
    /\ pass.fresh
    /\ Store(pass.draft)
    /\ pass' = [pass EXCEPT !.at = "list", !.tries = 0]
    /\ UNCHANGED <<workloads, failing, queue, timers, uncounted, events, faults>>

PendingConflict ==
    /\ pass.at = "pendingPut"
    /\ ~pass.fresh
    /\ RetryFrom("pendingGet")
    /\ UNCHANGED <<workloads, policies, failing, queue, uncounted, events, faults>>

-----------------------------------------------------------------------------
\* Mutant: the pods are not filtered by the policy's own scope.
ListEverything ==
    /\ pass.at = "list"
    /\ pass' = [pass EXCEPT
                   !.at = "loop",
                   !.specs = [q \in Policies |-> Cached(policies[q]).gen],
                   !.todo = {w \in Workloads : pass.policy \in failing[w]}]
    /\ UNCHANGED <<workloads, policies, failing, queue, timers, uncounted, events, faults>>

\* The policies are listed, and the pods that may be failing.
List ==
    /\ pass.at = "list"
    /\ pass' = [pass EXCEPT
                   !.at = "loop",
                   !.specs = [q \in Policies |-> Cached(policies[q]).gen],
                   !.todo = {w \in Scope[pass.policy][pass.gen] : pass.policy \in failing[w]}]
    /\ UNCHANGED <<workloads, policies, failing, queue, timers, uncounted, events, faults>>

\* The policies that would act on w now, as far as the listed specs say.  The one
\* under evaluation can be among them with another spec than it is evaluated by.
Contenders(w) == {q \in failing[w] : w \in Scope[q][pass.specs[q]]}

\* Mutant: a policy has to outrank every contender, itself included.
WinsStrictly(w) ==
    pass.policy \in Contenders(w) /\ \A q \in Contenders(w) : pass.policy < q

\* The one under evaluation outranks the others, or no policy wins at all.
Wins(w) ==
    \/ Contenders(w) = {}
    \/ pass.policy \in Contenders(w) /\ \A q \in Contenders(w) : pass.policy <= q

\* It still finds w failing, and takes it.
Takes(w) == pass.policy \in failing[w] /\ Wins(w)

Loops == pass.at = "loop" /\ UNCHANGED <<policies, failing, queue, timers, events, faults>>

\* Not selected any more, won by another policy, or at zero already.
LeaveAlone(w) ==
    /\ Loops /\ w \in pass.todo
    /\ ~Takes(w) \/ Cached(workloads[w]).size = 0
    /\ pass' = [pass EXCEPT !.todo = @ \ {w}]
    /\ UNCHANGED <<workloads, uncounted>>

\* An action is reported: scaledDown, the metric and the event.
Acted == [pass EXCEPT !.at = "loop", !.tries = 0, !.todo = @ \ {pass.target},
                      !.target = None, !.scaledDown = @ + 1]

Report ==
    uncounted' = [uncounted EXCEPT ![pass.policy] = IF @ < MaxUncounted THEN @ + 1 ELSE @]

\* A dry run reports the action it does not take.
Rehearse(w) ==
    /\ Loops /\ w \in pass.todo
    /\ Takes(w) /\ Cached(workloads[w]).size = 1 /\ pass.policy \in DryRun
    /\ pass' = [Acted EXCEPT !.todo = @ \ {w}]
    /\ Report
    /\ UNCHANGED workloads

Approach(w) ==
    /\ Loops /\ w \in pass.todo
    /\ Takes(w) /\ Cached(workloads[w]).size = 1 /\ pass.policy \notin DryRun
    /\ pass' = [pass EXCEPT !.at = "act", !.target = w]
    /\ UNCHANGED <<workloads, uncounted>>

-----------------------------------------------------------------------------
Write(version) ==
    workloads' = [workloads EXCEPT ![pass.target] = Append(@, version)]

\* Mutant: a workload that is given up is not marked as processed.
GiveUpForNow(n) ==
    pass' = [pass EXCEPT !.at = "loop", !.tries = 0, !.target = None, !.errors = @ + n]

\* The workload is given up, with so many errors.
GiveUp(n) ==
    pass' = [pass EXCEPT !.at = "loop", !.tries = 0, !.todo = @ \ {pass.target},
                         !.target = None, !.errors = @ + n]

Acts == UNCHANGED <<policies, failing, queue, timers, events, faults>>

\* The cached copy is the live object, so an update of it is accepted.
UpToDate == Len(workloads[pass.target]) = 1
Running == Cached(workloads[pass.target]).size = 1

\* scaleWorkloadToZero: the record of a Deployment or a StatefulSet.  A copy at
\* zero needs none; after a first attempt that counted replicas, the stop
\* follows all the same.
Record ==
    /\ pass.at = "act" /\ KindOf[pass.target] # "CronJob"
    /\ Running => UpToDate
    /\ IF Running THEN Write([size |-> 1, by |-> pass.policy]) ELSE UNCHANGED workloads
    /\ IF Running \/ pass.tries > 0
       THEN pass' = [pass EXCEPT !.at = "stop", !.tries = 0]
       ELSE GiveUp(0)
    /\ Acts /\ UNCHANGED uncounted

\* Its stop, after a live read.
Stop ==
    /\ pass.at = "stop"
    /\ LET live == Live(workloads[pass.target])
       IN  IF live.size = 1 THEN Write([live EXCEPT !.size = 0]) ELSE UNCHANGED workloads
    /\ pass' = Acted
    /\ Report
    /\ Acts

\* Mutant: the update of a CronJob carries no resourceVersion.
SuspendForced ==
    /\ pass.at = "act" /\ KindOf[pass.target] = "CronJob"
    /\ IF Running THEN Write([size |-> 0, by |-> pass.policy]) ELSE UNCHANGED workloads
    /\ pass' = Acted
    /\ Report
    /\ Acts

\* Mutant: a CronJob is suspended and not signed.
SuspendUnsigned ==
    /\ pass.at = "act" /\ KindOf[pass.target] = "CronJob"
    /\ IF Running
       THEN UpToDate /\ Write([Cached(workloads[pass.target]) EXCEPT !.size = 0])
       ELSE UNCHANGED workloads
    /\ pass' = Acted
    /\ Report
    /\ Acts

\* A CronJob is suspended and signed in one update; a copy that is suspended
\* counts as an action.
Suspend ==
    /\ pass.at = "act" /\ KindOf[pass.target] = "CronJob"
    /\ IF Running
       THEN UpToDate /\ Write([size |-> 0, by |-> pass.policy])
       ELSE UNCHANGED workloads
    /\ pass' = Acted
    /\ Report
    /\ Acts

\* An update of an old copy is refused, and tried again or given up.
WorkloadConflict ==
    /\ pass.at = "act" /\ Running /\ ~UpToDate
    /\ IF pass.tries + 1 < MaxTries
       THEN pass' = [pass EXCEPT !.tries = @ + 1]
       ELSE GiveUp(1)
    /\ Acts /\ UNCHANGED <<workloads, uncounted>>

-----------------------------------------------------------------------------
\* findActiveScaledDownWorkloads lists the kinds one by one from the cache and
\* keeps what this policy signed, in the order of each list, which is any.
LoopEnds ==
    /\ Loops /\ pass.todo = {}
    /\ pass' = [pass EXCEPT !.at = "collect"]
    /\ UNCHANGED <<workloads, uncounted>>

\* Mutant: whatever stands still is reported, signed or not.
AtStandstill(kind) ==
    {w \in Scope[pass.policy][pass.gen] :
        KindOf[w] = kind /\ Cached(workloads[w]).size = 0}

Signed(kind) ==
    {w \in Scope[pass.policy][pass.gen] :
        KindOf[w] = kind /\ Cached(workloads[w]).by = pass.policy}

Collects ==
    pass.at = "collect"
    /\ UNCHANGED <<workloads, policies, failing, queue, timers, uncounted, events>>

ListKind ==
    /\ Collects /\ pass.kinds # <<>>
    /\ \E s \in SetToSeqs(Signed(Head(pass.kinds))) :
         pass' = [pass EXCEPT !.kinds = Tail(@), !.found = @ \o s]
    /\ UNCHANGED faults

\* Mutant: all that was found is counted as beyond the cap.
CollectedInFull ==
    /\ Collects /\ pass.kinds = <<>>
    /\ LET n == IF Len(pass.found) < MaxActive THEN Len(pass.found) ELSE MaxActive
       IN  pass' = [pass EXCEPT !.at = "statusGet",
                                !.active = SubSeq(pass.found, 1, n),
                                !.truncated = Len(pass.found)]
    /\ UNCHANGED faults

\* The list that goes into the status is capped.
Collected ==
    /\ Collects /\ pass.kinds = <<>>
    /\ LET n == IF Len(pass.found) < MaxActive THEN Len(pass.found) ELSE MaxActive
       IN  pass' = [pass EXCEPT !.at = "statusGet",
                                !.active = SubSeq(pass.found, 1, n),
                                !.truncated = Len(pass.found) - n]
    /\ UNCHANGED faults

\* A list that fails makes the whole result nil.
ListKindFails ==
    /\ Collects /\ pass.kinds # <<>>
    /\ faults < MaxFaults
    /\ faults' = faults + 1
    /\ pass' = [pass EXCEPT !.at = "statusGet", !.errors = @ + 1]

-----------------------------------------------------------------------------
\* Mutant: the generation is read when the status is written.
MutatedLate(status) ==
    [phase |-> "Active",
     observed |-> Cached(policies[pass.policy]).gen,
     counter |-> (status.counter + pass.scaledDown) % CounterSize,
     active |-> pass.active,
     truncated |-> pass.truncated,
     errors |-> pass.errors]

\* Mutant: the counter is set instead of raised.
MutatedForgets(status) ==
    [phase |-> "Active",
     observed |-> pass.gen,
     counter |-> pass.scaledDown % CounterSize,
     active |-> pass.active,
     truncated |-> pass.truncated,
     errors |-> pass.errors]

\* What an evaluation makes of a copy of the status.
Mutated(status) ==
    [phase |-> "Active",
     observed |-> pass.gen,
     counter |-> (status.counter + pass.scaledDown) % CounterSize,
     active |-> pass.active,
     truncated |-> pass.truncated,
     errors |-> pass.errors]

\* Mutant: only a new generation is worth a write.
StatusGetObserves ==
    /\ pass.at = "statusGet"
    /\ LET old == Cached(policies[pass.policy]).status
       IN  IF Mutated(old).observed = old.observed
           THEN Finish
           ELSE pass' = Draft("statusPut", Mutated(old)) /\ UNCHANGED timers
    /\ UNCHANGED <<workloads, policies, failing, queue, uncounted, events, faults>>

\* updatePolicyStatusIfChanged: a cached copy is read and mutated, and written
\* back only if that changed it.
StatusGet ==
    /\ pass.at = "statusGet"
    /\ LET old == Cached(policies[pass.policy]).status
       IN  IF Mutated(old) = old
           THEN Finish
           ELSE pass' = Draft("statusPut", Mutated(old)) /\ UNCHANGED timers
    /\ UNCHANGED <<workloads, policies, failing, queue, uncounted, events, faults>>

\* The actions of this evaluation are now part of the counter.
Counted == uncounted' = [uncounted EXCEPT ![pass.policy] = @ - pass.scaledDown]

\* Mutant: the status is written without a resourceVersion.
StatusPutForced ==
    /\ pass.at = "statusPut"
    /\ Store(pass.draft)
    /\ Counted
    /\ Finish
    /\ UNCHANGED <<workloads, failing, queue, events, faults>>

StatusPut ==
    /\ pass.at = "statusPut"
    /\ pass.fresh
    /\ Store(pass.draft)
    /\ Counted
    /\ Finish
    /\ UNCHANGED <<workloads, failing, queue, events, faults>>

\* Mutant: a retry mutates the copy of the attempt before.
StatusConflictAddsAgain ==
    /\ pass.at = "statusPut"
    /\ ~pass.fresh
    /\ IF pass.tries + 1 < MaxTries
       THEN /\ pass' = [pass EXCEPT !.at = "statusGet", !.tries = @ + 1,
                                    !.scaledDown = 2 * @]
            /\ UNCHANGED timers
       ELSE Finish
    /\ UNCHANGED <<workloads, policies, failing, queue, uncounted, events, faults>>

StatusConflict ==
    /\ pass.at = "statusPut"
    /\ ~pass.fresh
    /\ RetryFrom("statusGet")
    /\ UNCHANGED <<workloads, policies, failing, queue, uncounted, events, faults>>

-----------------------------------------------------------------------------
FaultHappens ==
    /\ faults < MaxFaults
    /\ faults' = faults + 1
    /\ UNCHANGED <<failing, events>>

\* A read or a write of one workload fails: counted, and the loop goes on.  Its pods
\* are one here; in the code another pod can lead to the workload when the owner of the
\* first could not be resolved (crashlooppolicy_controller.go:168-184).
WorkloadFails ==
    /\ FaultHappens
    /\ \/ pass.at \in {"act", "stop"} /\ GiveUp(1)
       \/ /\ pass.at = "loop"
          /\ \E w \in pass.todo : pass' = [pass EXCEPT !.todo = @ \ {w}, !.errors = @ + 1]
    /\ UNCHANGED <<workloads, policies, queue, timers, uncounted>>

\* The write that stops a workload is applied and its answer is lost.
StopAnswerLost ==
    /\ FaultHappens
    /\ \/ pass.at = "stop" /\ Write([Live(workloads[pass.target]) EXCEPT !.size = 0])
       \/ /\ pass.at = "act" /\ KindOf[pass.target] = "CronJob" /\ Running /\ UpToDate
          /\ Write([size |-> 0, by |-> pass.policy])
    /\ GiveUp(1)
    /\ UNCHANGED <<policies, queue, timers, uncounted>>

\* A call outside the loop fails, and Reconcile returns the error.
CallFails ==
    /\ FaultHappens
    /\ pass.at \in {"pendingGet", "pendingPut", "list", "statusGet", "statusPut"}
    /\ Finish
    /\ UNCHANGED <<workloads, policies, queue, uncounted>>

\* The status is written and the answer is lost.
StatusAnswerLost ==
    /\ FaultHappens
    /\ pass.at = "statusPut" /\ pass.fresh
    /\ Store(pass.draft)
    /\ Counted
    /\ Finish
    /\ UNCHANGED <<workloads, queue>>

\* The process dies.  A new one fills its caches and queues every policy.
Crash ==
    /\ FaultHappens
    /\ pass' = NoPass
    /\ queue' = Policies
    /\ timers' = {}
    /\ workloads' = [w \in Workloads |-> <<Live(workloads[w])>>]
    /\ policies' = [p \in Policies |-> <<Live(policies[p])>>]
    /\ UNCHANGED uncounted

-----------------------------------------------------------------------------
Happens ==
    /\ events < MaxEvents
    /\ events' = events + 1
    /\ UNCHANGED <<timers, uncounted, faults>>

\* Pods of w start to fail, or fail in another way, or recover.  The watch
\* queues the policies, unless mapPodToPolicy cannot list them or the pod is
\* not interesting.
PodsChange(w, s) ==
    /\ Happens
    /\ s # failing[w]
    /\ Live(workloads[w]).size = 1
    /\ failing' = [failing EXCEPT ![w] = s]
    /\ queue' \in {queue, Policies}
    /\ UNCHANGED <<workloads, policies, pass>>

\* The owner of w scales it, or writes something else to it.
OwnerWrites(w, n) ==
    /\ Happens
    /\ workloads' = [workloads EXCEPT ![w] = Append(@, [Live(@) EXCEPT !.size = n])]
    /\ UNCHANGED <<policies, failing, queue, pass>>

\* A user changes the spec of p, or something else on it.
UserWrites(p, g) ==
    /\ Happens
    /\ g \in {Live(policies[p]).gen, Live(policies[p]).gen + 1}
    /\ policies' = [policies EXCEPT ![p] = Append(@, [Live(@) EXCEPT !.gen = g])]
    /\ pass' = IF pass.policy = p THEN [pass EXCEPT !.fresh = FALSE] ELSE pass
    /\ UNCHANGED <<workloads, failing, queue>>

\* A workload at zero has no pods in the end.
PodsGone(w) ==
    /\ failing[w] # {}
    /\ Live(workloads[w]).size = 0
    /\ failing' = [failing EXCEPT ![w] = {}]
    /\ UNCHANGED <<workloads, policies, queue, timers, pass, uncounted, events, faults>>

\* The watches deliver.  A new version of a policy, the operator's own status
\* write included, queues it; workloads are not watched.
WorkloadSync(w) ==
    /\ Len(workloads[w]) > 1
    /\ workloads' = [workloads EXCEPT ![w] = Tail(@)]
    /\ UNCHANGED <<policies, failing, queue, timers, pass, uncounted, events, faults>>

PolicySync(p) ==
    /\ Len(policies[p]) > 1
    /\ policies' = [policies EXCEPT ![p] = Tail(@)]
    /\ queue' = queue \cup {p}
    /\ UNCHANGED <<workloads, failing, timers, pass, uncounted, events, faults>>

TimerFires(p) ==
    /\ p \in timers
    /\ timers' = timers \ {p}
    /\ queue' = queue \cup {p}
    /\ UNCHANGED <<workloads, policies, failing, pass, uncounted, events, faults>>

-----------------------------------------------------------------------------
Proceed ==
    \/ PendingGet \/ PendingPut \/ PendingConflict
    \/ List
    \/ \E w \in Workloads : LeaveAlone(w) \/ Rehearse(w) \/ Approach(w)
    \/ Record \/ Stop \/ Suspend \/ WorkloadConflict
    \/ LoopEnds \/ ListKind \/ Collected
    \/ StatusGet \/ StatusPut \/ StatusConflict

Fault ==
    \/ ListKindFails \/ WorkloadFails \/ StopAnswerLost
    \/ CallFails \/ StatusAnswerLost \/ Crash

Outside ==
    \/ \E w \in Workloads, s \in SUBSET Policies : PodsChange(w, s)
    \/ \E w \in Workloads, n \in {0, 1} : OwnerWrites(w, n)
    \/ \E p \in Policies, g \in Generations : UserWrites(p, g)

Next ==
    \/ \E p \in Policies : Start(p) \/ PolicySync(p) \/ TimerFires(p)
    \/ \E w \in Workloads : WorkloadSync(w) \/ PodsGone(w)
    \/ Proceed
    \/ Fault
    \/ Outside

Spec == Init /\ [][Next]_vars

\* The worker goes on with an evaluation, the queue serves every policy in it
\* in turn, timers fire, watches deliver and stopped pods go away.
Fairness ==
    /\ WF_vars(Proceed)
    /\ \A p \in Policies :
         SF_vars(Start(p)) /\ WF_vars(PolicySync(p)) /\ WF_vars(TimerFires(p))
    /\ \A w \in Workloads : WF_vars(WorkloadSync(w)) /\ WF_vars(PodsGone(w))

FairSpec == Spec /\ Fairness

-----------------------------------------------------------------------------
\* No action is counted twice, whatever conflicts, retries, lost answers and
\* crashes come between the action and the counter: the actions that are not
\* in the counter include those the evaluation is about to add to it
\* (crashlooppolicy_controller.go:242-291, helpers.go:41-55).
CountedOnce ==
    \A p \in Policies :
        uncounted[p] >= IF pass.policy = p THEN pass.scaledDown ELSE 0

\* observedGeneration is "the generation of the spec that was last evaluated":
\* what the status lists was collected under the spec of that generation, even
\* when the spec changes while the status is written
\* (crashlooppolicy_controller.go:287-293).
ListsWhatItObserved ==
    \A p \in Policies : \A i \in 1..Len(policies[p]) :
        LET status == policies[p][i].status
        IN  status.observed # 0 => Range(status.active) \subseteq Scope[p][status.observed]

\* The list names no workload twice, and it and the number of those beyond the cap
\* never claim more than the spec includes, although the kinds are listed at different
\* moments and a list can fail in between (helpers.go:570-682,
\* crashlooppolicy_controller.go:262-286).
ListsEachOnce ==
    \A p \in Policies : \A i \in 1..Len(policies[p]) :
        LET status == policies[p][i].status
        IN  /\ IsInjective(status.active)
            /\ status.observed # 0 =>
                 Len(status.active) + status.truncated
                     <= Cardinality(Scope[p][status.observed])

\* "Only report workloads this policy scaled down itself" (helpers.go:599): whatever a
\* status lists, the policy was no dry run, and the workload carries a signature now, if
\* since then perhaps that of another policy; nobody is reported whom the operator did
\* not touch (helpers.go:589-682, 556-591).
ListsOnlySigned ==
    \A p \in Policies : \A i \in 1..Len(policies[p]) :
        \A w \in Range(policies[p][i].status.active) :
            p \notin DryRun /\ Live(workloads[w]).by # None

\* A workload is signed by a policy that is no dry run and that included the workload
\* in a generation of its spec, even when the policy is evaluated by an old generation
\* or no listed policy wins (crashlooppolicy_controller.go:131-241, helpers.go:510-514,
\* 577-583).
MaySign(p, w) ==
    /\ p \in Policies \ DryRun
    /\ \E g \in 1..Live(policies[p]).gen : w \in Scope[p][g]

SignedByRight ==
    \A w \in Workloads : \A i \in 1..Len(workloads[w]) :
        workloads[w][i].by # None => MaySign(workloads[w][i].by, w)

\* No policy falls out of the operator's hands: a finished evaluation, whether it
\* succeeded, failed or gave up on its conflicts, leaves behind the timer that queues
\* the policy again, and a policy that is neither queued nor timed is the one under
\* evaluation (crashlooppolicy_controller.go:41-312, return values of Reconcile).
NoPolicyIsForgotten ==
    \A p \in Policies : p \in queue \cup timers \cup {pass.policy}

\* The status is written "only when the result differs from what the API server
\* holds" (helpers.go:34-40): the comparison is made with a copy that may be old, yet a
\* write that is accepted never repeats the status it replaces.
WritesSaySomethingNew ==
    [][StatusPut \/ StatusAnswerLost =>
         Live(policies'[pass.policy]).status # Live(policies[pass.policy]).status]_vars

\* An evaluation comes nearer to its end with every step it takes, whatever conflicts
\* and failures it meets: the only worker is not held up by one policy.  A workload
\* takes MaxTries attempts and two steps at most, a status two steps for each attempt
\* (crashlooppolicy_controller.go:131-312, helpers.go:25-55).
Rounds(n) == n * (MaxTries + 2) + 2 * MaxTries + 5

Remaining ==
    CASE pass.at = "pendingGet" ->
             Rounds(Cardinality(Workloads)) + 2 * (MaxTries - pass.tries) + 1
      [] pass.at = "pendingPut" -> Rounds(Cardinality(Workloads)) + 2 * (MaxTries - pass.tries)
      [] pass.at = "list" -> Rounds(Cardinality(Workloads)) + 1
      [] pass.at = "loop" -> Rounds(Cardinality(pass.todo))
      [] pass.at = "act" -> Rounds(Cardinality(pass.todo) - 1) + MaxTries - pass.tries + 1
      [] pass.at = "stop" -> Rounds(Cardinality(pass.todo) - 1) + 1
      [] pass.at = "collect" -> Len(pass.kinds) + 2 * MaxTries + 1
      [] pass.at = "statusGet" -> 2 * (MaxTries - pass.tries)
      [] pass.at = "statusPut" -> 2 * (MaxTries - pass.tries) - 1
      [] OTHER -> 0

EvaluationsEnd ==
    [][pass.at # "idle" =>
         UNCHANGED <<pass.at, pass.tries, pass.todo, pass.kinds>> \/ Remaining' < Remaining]_vars

\* Every CronJob keeps to the contract that SuspendCronJob implements for the calls in
\* detail, and each side to its part: what an evaluation does to a CronJob is to suspend
\* it while it runs and to sign it with the name of its own policy, in one step and not
\* in a dry run, and all else is done by the owner and leaves the signature
\* (crashlooppolicy_controller.go:243, helpers.go:556-591).
CronJob(w) == INSTANCE SuspendContract
    WITH Policies <- Policies \ DryRun, ExternalSizes <- {0, 1},
         size <- Live(workloads[w]).size, by <- Live(workloads[w]).by

CronJobsKeepContract ==
    [][\A w \in Workloads : KindOf[w] = "CronJob" =>
         \/ UNCHANGED Live(workloads[w])
         \/ /\ pass' # pass /\ pass.policy \notin DryRun
            /\ CronJob(w)!Suspend(pass.policy)
         \/ pass' = pass /\ \E n \in {0, 1} : CronJob(w)!Rescale(n)]_vars

\* "Pending before the first evaluation, Active afterwards" (README.md, Status):
\* the initial phase, set on a copy that may be old, never takes an evaluated
\* policy back to Pending (crashlooppolicy_controller.go:62-69, helpers.go:25-33).
PhaseNeverRegresses ==
    [][\A p \in Policies :
         Live(policies[p]).status.phase = "Active"
            => Live(policies'[p]).status.phase = "Active"]_vars

\* Seen by a reader of the status, an evaluation with its stale caches, conflicts,
\* lost answers and crashes comes down to the steps of StatusContract.
Told(v) ==
    [gen |-> v.gen, phase |-> v.status.phase, observed |-> v.status.observed,
     counter |-> v.status.counter, listed |-> Range(v.status.active)]

Board == [p \in Policies |-> Told(Live(policies[p]))]

Contract == INSTANCE StatusContract WITH board <- Board, due <- uncounted

\* A status changes only by an evaluation that publishes all it found at once:
\* observedGeneration never goes back and never runs ahead of the spec, the list
\* belongs to it, and the lifetime counter grows by actions that were reported
\* and not counted before (crashlooppolicy_controller.go:242-312, helpers.go:25-55).
ImplementsContract == Contract!Spec

\* In the end every status tells the truth about the last spec: it is
\* observed, evaluated without errors, and lists the workloads that carry the
\* policy's name, the ones beyond the cap counted.  Stale caches, lost events,
\* conflicts and crashes only delay this (crashlooppolicy_controller.go:262-339).
HeldBy(p) ==
    {w \in Scope[p][Live(policies[p]).gen] : Live(workloads[w]).by = p}

StatusIsTrue(p) ==
    LET v == Live(policies[p])
    IN  /\ v.status.phase = "Active"
        /\ v.status.observed = v.gen
        /\ v.status.errors = 0
        /\ Range(v.status.active) \subseteq HeldBy(p)
        /\ Len(v.status.active) + v.status.truncated = Cardinality(HeldBy(p))

StatusConverges == <>[](\A p \in Policies : StatusIsTrue(p))

\* A workload whose pods keep failing in the eyes of some policy, and whose
\* most restrictive such policy is not a dry run, does not run for ever.
Wanting(w) == {p \in failing[w] : w \in Scope[p][Live(policies[p]).gen]}

Doomed(w) ==
    /\ Live(workloads[w]).size = 1
    /\ \E p \in Wanting(w) \ DryRun : \A q \in Wanting(w) : p <= q

FailingIsStopped == \A w \in Workloads : Doomed(w) ~> ~Doomed(w)

\* "Unchanged evaluations do not write status, to avoid churning the object
\* every interval" (README.md, Status): when nothing happens any more, the
\* operator stops writing, and stops waking itself through its own watch.  The
\* code does not keep to this for a dry run, nor for two workloads of a kind
\* (helpers.go:34-55, crashlooppolicy_controller.go:242-293).
Written == \E p \in Policies : Len(policies'[p]) > Len(policies[p])

StatusComesToRest == <>[][~Written]_vars
=============================================================================
