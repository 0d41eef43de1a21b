# crashloop-operator: specifications and proofs

This directory is a formal model of the operator in `src/`: TLA+ modules, TLC
configurations that check them on small instances, and theorems that TLAPS
checks for every value of the constants. `PROJECT.json` maps each definition to
the lines of the source it stands for. `H` below is
`internal/controller/helpers.go`, `R` `crashlooppolicy_controller.go` and `P`
`policyresolve.go` in the same directory.

## 1. The system

A `CrashLoopPolicy` says which pods count as failing (waiting reasons,
termination reasons, thresholds), in which namespaces and for which kinds of
workload. The operator watches policies and pods. One worker takes a policy
from a work queue and evaluates it: it lists the pods that may be failing,
follows each to its Deployment, StatefulSet or CronJob, checks the policy's
conditions, asks which of all policies is to act on the workload, and scales
the workload to zero (or suspends it) if this one is. It then lists the
workloads that carry its annotation and writes the outcome into the status of
the policy. It is queued again by a timer, by changes of the policy (its own
status writes included) and by pod events. The operator keeps nothing on disk:
all that survives a restart is in the API server.

| Component | State | Operations | Talks to |
|---|---|---|---|
| Scale-down (`H` 477-541) | `spec.replicas` and four annotations of a workload; in a call, `prevReplicas` and a cached copy | cached read, annotating update with `RetryOnConflict`, live read and write of the scale subresource with `RetryOnConflict` | API server, informer cache; races with users, autoscalers and a second instance |
| Suspension (`H` 545-587) | `spec.suspend` and annotations of a CronJob | cached read, one update with `RetryOnConflict` | the same |
| Failure detection (`H`, `P` 85-125) | none | predicates on a pod and a policy | pods, specs |
| Pod indexes (`indexes.go`) | two field indexes of the pod cache | index functions, candidate list | cache |
| Policy arbitration (`P` 180-334) | none between passes; in a pass the pod that led to the workload, the policies listed, the winner so far | `isMoreRestrictive`, `policyWouldAct`, `winningPolicy` | cache, with a read per check |
| Owner resolution (`H` 246-303), replica check (`H` 337-443) | none; in a pass the owner's kind and name, and the name of a Job | follow references from a pod to its workload, collect the workload's replicas | a cache per kind; races with users, controllers and the garbage collector |
| Filters (`H`, `P` 213-239) | the namespaces a selector admits, for one evaluation | compare namespaces, labels and kinds | cache |
| Reconcile loop (`R` 49-339) | one evaluation: `processed`, `scaledDown`, `loopErrors`, the generation | evaluate, act, count | all of the above |
| Active list (`H` 589-682, `R` 262-284) | none | list each kind, keep what the policy signed, cap | cache |
| Status writer (`H` 25-55, `R` 287-333) | the status of a policy | mutate a copy and write it if that changed it, with `RetryOnConflict` | API server, cache |
| Watches and queue (`R` 342-405) | work queue and timers (controller-runtime) | queue a policy, drop an event | informers |
| Metrics (`metrics.go`) | counters and gauges | mirror the status; forget a deleted policy | lost with the process |
| Manager (`cmd/main.go`) | none | flags, wiring, leader election (off unless a flag, which the chart sets, turns it on) | none |

### What is hard here

- **Interleaving with other writers.** A scale-down is three API calls with
  reads in between, and users, GitOps tools and autoscalers write the same
  object. With leader election off two instances overlap during a rollout.
- **Stale reads.** Everything but the scale subresource is read from caches
  that lag: a retry after a conflict may read the same old copy again, and a
  status is collected right after the writes it should show.
- **Partial failure.** Any call fails or is applied without an answer, the
  process dies between any two calls, and the only repair is the next
  evaluation.
- **Checks at different moments.** A policy's own checks and the ones
  `winningPolicy` makes read pods and labels separately.
- **Names and identities.** References carry UIDs, but workloads are read and
  written by name, while objects are deleted, made again, adopted and released.
- **Time.** Duration thresholds run out without any event, also during an
  evaluation; a policy sleeps until its interval or the earliest expiry.
- **Self-wakeup.** The controller watches the object whose status it writes.

### What makes each part correct

- *Scale-down*: what is recorded is the count of the version that is
  overwritten; a workload is never stopped without a record; a concurrent
  rescale is never undone; whatever a crash leaves behind is repaired.
- *Suspension*: only a running CronJob is suspended and signed; a failing one
  is suspended in the end.
- *Arbitration*: the winner is the most restrictive of the policies that would
  act; passes with the same evidence agree; some policy acts when one would.
- *Owners*: what is stopped is a workload that owned the failing pod; a healthy
  current replica protects it; a broken workload is reached.
- *Schedule*: a pod is judged when its threshold expires if an evaluation saw it
  wait, and within the interval in any case; gauges tell what the status tells
  and go with their policy.
- *Status*: no action is counted twice, the list belongs to the generation that
  is observed and names only what is signed, each workload once, the phase does not
  go back, the status becomes true, and every write of it says something new.
- *Loop*: every evaluation ends, though there is no limit to what gets in its
  way, and its policy is evaluated again, however it ended; a workload is signed
  only by a policy whose spec included it; a workload
  that keeps failing is stopped in the end.

## 2. The modules

```
WorkloadStore ── ScaleToZero ──(refines)── ScaleDownContract
      │              └── ScaleToZero_proofs
      └───────── SuspendCronJob ──(refines)── SuspendContract
                     └── SuspendCronJob_proofs
FailureDetection ── PolicyOrder ── PolicyArbitration ── MCPolicyArbitration
                                          └── PolicyArbitration_proofs
Ownership ── Ownership_proofs
Schedule ── Schedule_proofs
Reconciler ──(refines)── StatusContract, SuspendContract (each CronJob)
      ├────── MCReconciler
      └────── Reconciler_proofs ── ReconcilerContract_proofs
                                          └── ReconcilerLoop_proofs
```

**WorkloadStore** is one workload object as the log of its versions. Its
resourceVersion is the length of the log, the cache of an instance is an index
into it that a watch moves forward, and an update is accepted when it carries
the last index. This part of Kubernetes is external and modelled from the calls
that `helpers.go` makes. Others rescale the object, or write fields the model
does not show, which moves the resourceVersion all the same.

**ScaleToZero** is `scaleWorkloadToZero` with one action per API call. `prev`
is `prevReplicas`, which the retry closure captures and which therefore
outlives an attempt (`AnnotateGet`); `copy` is the version an instance holds;
`outcome` is what the call returned; `begin` is history. Any number of
instances make calls for any policy, and a call can fail, be applied without an
answer, or end with the process. That the calls of one instance are made one
after the other is in `pc[o]`.

**ScaleDownContract** is what the owner of a workload may rely on: a policy
records the present count, the operator stops a workload that carries a record
and keeps it, and anyone else sets the count. `ScaleToZero!ImplementsContract`
is the refinement: the last version of the log is the object, and calls, caches
and retries disappear.

**SuspendCronJob** is the CronJob branch of `scaleDownWorkload` over the same
store: size 1 is running and size 0 suspended.

**SuspendContract** is what the owner of a CronJob may rely on: a policy that is
no dry run suspends a running one and signs it in one step, and anyone else
suspends or resumes it and leaves the signature. `SuspendCronJob!ImplementsContract`
maps the last version of the log to it. Seen from outside, nobody can tell who
suspended a CronJob without signing it, so two properties hold the operator to its
own step of the contract: `SuspendCronJob!SuspendsOnlyRunning` says that whatever a
call writes is `Suspend` for the policy of that call, and
`Reconciler!CronJobsKeepContract` that whatever an evaluation does to a CronJob is,
while `Rescale` is left to the owner. So the one step which `Reconciler` takes for
the calls is held against what `SuspendCronJob` shows of them.

**FailureDetection** holds the predicates on pods and policies, with every
default and unset value, as operators; a pod is what kubelet reports and a
timestamp is its age. `LoopSelects` is the check in the reconcile loop and
`ResolverSelects` the same check as `policyWouldAct` words it.
`FailingContainerNames`, `PodMatchesPolicy` and `ReplicasAllFailing` are the two
correlation modes. **PolicyOrder** is `isMoreRestrictive` as the comparison of
six-tuples.

**PolicyArbitration** is the way of one workload through the passes of
overlapping policies. A pass begins with the first selected pod in the list of
candidates: waiting pods come first, otherwise the order is that of the cache,
and a pod whose owner cannot be read gives way to the next. The snapshot of that
pod is kept, and so is what the `namespaceResolver` has once answered
(`resolved`, `admitted`); all else is read again at each step, and pods and the
labels of the workload and of its namespace change in between. Workloads that
come earlier in the evaluation may have filled the resolver (`JudgeElsewhere`).
The judgement of a policy can fail, once by a read or always because
its `namespaceSelector` cannot be parsed (`Unparseable`), and then ends the
comparison with an error. `judged`, `since`, `stirred` and
`acted` are history.

**Ownership** is the way from a failing pod to the workload that is written. Its
objects are pods, ReplicaSets, Jobs and one family of top-level workload, with
names, UIDs, labels and owner references; users and controllers make, delete,
adopt, release and rescale them and add references that are no controller's.
Every kind has a cache of its own, which an action per kind brings up to date,
so the caches lag by different amounts. A pass is one pod on its way through
`resolveOwnerWorkload`, `allReplicasFailing` (the scale of the workload, the
latest Job of a CronJob, the pods, one step and one read each) and the write of
`scaleDownWorkload`, by name. UIDs are given out in order, and the age of a Job
is its UID; creation times have a resolution of a second, within which the code
orders Jobs arbitrarily and the model does not. `owned` and `deleted` are history.
Whether a pod fails is a flag:
that is FailureDetection's matter.

**Schedule** is when a policy is evaluated, from its creation to its deletion.
Ages and delays are relative to the present, so the clock needs no bound. An
evaluation takes time (`elapsed`), a queued policy waits for the worker
(`waited`), and after an error the queue holds it back. Each pod waits for its
duration threshold; its failure may be dated late or in the past, its events
may be dropped, and the labels of its namespace change without any event. The
evaluation keeps the earliest expiry and is queued again after the interval
or that expiry, raised to a minimum. The Ready gauge is set before the status is
written, removed when a deleted policy is found gone, and lost with the
process; a policy may be deleted and made again at any time. `late` and `tracked`
are history: for how long a pod has been overdue, and which pods an evaluation
has taken into its expiry.

**Reconciler** is the loop around all this. Each policy and each workload is
the sequence of its versions from the one in the cache to the live one; there
is one work queue (a set, as controller-runtime deduplicates), a set of timers
and one worker, whose evaluation is a record with the local variables of
`Reconcile`. Two things are coarser than in the modules above: which policies
would act on a workload is a set that pod events change (`failing`), and so the
checks and the arbitration of one workload are one step; and a workload runs or
does not, without a count, its live read and its stop being one step. The pods of a
workload are one, so a failed read takes the workload out of the evaluation, where
the code, if it was the owner that could not be read, still tries the next pod
(`PolicyArbitration` does as well). `Kept` names
the workloads that a policy of the same name stopped before it was deleted: they are
signed and at zero when the new one is first evaluated. The rest is
step by step: the initial phase, the
lists, the actions with conflicts and retries, the three lists of held
workloads and their order, the cap, the status mutation, its comparison with
the copy it was made from, the write, its conflicts. Policies are numbered in
the order of restrictiveness, which `RestrictivenessIsTotalOrder` justifies.
The policies are listed after the policy itself was read, so the list may hold
another generation of it: `Contenders` goes by the listed generations, and
`Wins` includes that nobody wins, which does not stop a pass (`R` 218-231).
The status of a new evaluation is compared without `lastEvaluationTime`, which
the code sets only when something else changed.

**StatusContract** is what a reader of a status may rely on, without caches,
queue, calls or crashes: a user edits the spec, a new policy is greeted with the
phase Pending, an action is reported, and an evaluation publishes all it found
at once. What it publishes is the generation it evaluated, never older than the
one published before; workloads that generation includes; and a counter raised
by reported actions that were not counted before. `Reconciler!ImplementsContract`
is the refinement: the board is the live version of every policy, and what is
due is `uncounted`.

## 3. What TLC checks

`ScaleToZero`, `SuspendCronJob`, `Schedule` and `Reconciler` never deadlock. In
`PolicyArbitration` the world may come to rest with no pod selected, and in
`Ownership` with nothing that fails, so deadlock is not checked there.

| Run | Shows | Instance |
|---|---|---|
| `ScaleToZero` | `TypeOK`, `RecordsAreExact`, `StopsAreRecorded`, `ActedSawZero`, `CallsAreBounded`, the refinement `ImplementsContract`, and `SelfCorrects`: an annotated workload that still runs is stopped in the end, as the comment at `H` 472-474 says | 1 instance, a real and a dry-run policy, counts to 2, 2 writes by others, 3 attempts, 2 faults |
| `ScaleToZeroUnrecorded` | *violation* of `StopsAreRecorded` when somebody else scales to zero and back | 1 instance, 3 writes by others, no fault |
| `SuspendCronJob` | the refinement `ImplementsContract`, `SuspendsOnlyRunning`, `EventuallySuspended` | 2 instances, a real and a dry-run policy, 2 writes, one fault |
| `PolicyArbitration` | `TypeOK`, `WinnerIsMostRestrictive`, `SameEvidenceSameActor`, `UndisturbedActorWasJudged`, `ActsIffMostRestrictive`, `ContainerIsStricter`, `SomeoneActs` | 3 policies of which two tie but for `dryRun` and one has a namespace selector, 2 replicas in 4 states, one change, one failed read |
| `PolicyArbitrationUnparseable` | *violation* of `SomeoneActs` when one policy cannot be judged | 3 policies, nothing changes |
| `Ownership` | `TypeOK`, `StopsTheOwner`, `HealthyReplicasProtect`, `BrokenIsStopped` | each family, 2 names of each sort, 3 events |
| `OwnershipRecreated` | *violation* of `StopsTheOwner` when a workload is made again under its name | the same |
| `Schedule` | `TypeOK`, `ExpiryIsMet`, `OverdueIsJudged`, `NothingIsForgotten`, `GaugeFollowsPolicy` | 2 pods, threshold 4, interval 3, evaluations and waits of up to one tick, 3 events |
| `Reconciler` | `TypeOK`, `CountedOnce`, `ListsWhatItObserved`, `ListsOnlySigned`, `SignedByRight`, `NoPolicyIsForgotten`, `PhaseNeverRegresses`, `WritesSaySomethingNew`, `CronJobsKeepContract`, `EvaluationsEnd`, the refinement `ImplementsContract`, `StatusConverges` | 1 policy whose first generation includes a CronJob and whose second one includes a Deployment in its place, 2 events, one fault, 2 attempts |
| `ReconcilerOverlap` | `ListsEachOnce`, `FailingIsStopped` | a real policy that includes both workloads and holds the Deployment from before, a dry run that includes the CronJob too, a cap of one, 1 event, no fault, 1 attempt |
| `ReconcilerDryRun` | *violation* of `StatusComesToRest` by the counter of a dry run | one dry-run policy, a Deployment, 1 event |
| `ReconcilerUnordered` | *violation* of `StatusComesToRest` by the order of a list | one policy that holds two Deployments from before, no event |

### Bounds, and why they are enough

- `MaxTries = 3` (2 where the space would be too large, 1 in
  `ReconcilerOverlap`, where the queue is what retries) stands for the five
  attempts of `retry.DefaultRetry`: there is a first attempt, a later one that
  finds what the first left behind, and exhaustion. Further attempts have the
  same local state.
- `MaxSize = 2` gives two different running counts, so a wrong count shows.
- One instance in `ScaleToZero` against two in `SuspendCronJob`: a second
  instance is another writer of the same object, and `MaxExternal` writes by
  others take its part; the theorems hold for any number of instances.
- `MaxExternal`: a rescale between two calls takes one write. Scaling to zero
  and back takes two, and one more refuses the first update; this is the three
  of `ScaleToZeroUnrecorded`.
- `MaxFaults = 1` or `2`: each fault ends a call or a pass, so a second one
  meets only what the first left in the API server.
- `MaxChanges = 1`: a change can fall between any two checks of a pass, and the
  instance begins in every combination of pods and labels.
- `MaxEvents = 3` in `Ownership` and `Schedule`: three are what it takes to
  delete a ReplicaSet and put another one with a pod of its own in its place, or
  to delete a policy, make it again and lose an evaluation. In `Reconciler` two
  let a workload fail and its owner write it under a stale copy, or the CronJob
  be suspended and leave the scope; one in `ReconcilerOverlap` makes the
  CronJob fail for either policy or both; the Deployment that the real one holds from
  before is then joined by it in the list. With a second event the space is beyond
  TLC, so a dry run that wakes itself over another workload in the meantime is not
  in this run.
- `Names`, `ChildNames` and `PodNames` of two: the object itself and one that
  could be taken for it.
- `DurationThreshold = 4`, `DefaultInterval = 3`: the threshold runs out within
  the interval or beyond it, before, during and after an evaluation that takes
  up to `MaxEvaluation = 1`. `MaxWait`, `MaxEvaluation` and `MaxBackoff` are the
  longest delays the two bounds of `Schedule` are stated in.
- `MaxGeneration = 2`: one change of spec, at any point of an evaluation.
- `MaxActive = 1`: a policy of `Reconciler` holds one workload at a time, which
  fits; the two that are held in `ReconcilerOverlap` do not, so its list is cut and
  has a line left. `MaxActive = 2` in `ReconcilerUnordered` keeps the cap out of what
  is shown there.
- `CounterSize` keeps the lifetime counter in a ring, as int32 does;
  `MaxUncounted` saturates a history counter.

Two runs make an assumption which the code needs, for the run beside it drops it
and finds the property violated: nobody else
scales the workload to zero (`0 \notin ExternalSizes`, `ScaleToZeroUnrecorded`),
and no workload is made again under the name of a deleted one (`ReuseNames =
FALSE`, `OwnershipRecreated`). One more is made everywhere and has no such run:
nobody but the operator writes or removes its annotations (`ExternalWrite`,
`OwnerWrites` and `Rescale` keep them). Whoever strips them makes a stopped workload
look like any other, so `StopsAreRecorded`, `ListsOnlySigned` and the contracts
speak of owners who leave them alone.

What the runs leave out in part: the two bounds of `Schedule` count from the last
failed call or crash, which set `late` back to zero; and the init container of the
`PolicyArbitration` run is always quiet, so the case in which `ContainerIsStricter`
fails (section 5) is excluded there as it is in its theorem.

### Fairness, and why the code justifies it

- A call or a pass that has begun goes on (`WF` of `Proceed` and `Pass`): every
  API call returns or fails by its context.
- The watches deliver (`WF` of the cache steps): informers reconnect and relist.
- Timers fire (`WF`): `Reconcile` returns `RequeueAfter` or an error, and
  controller-runtime queues the policy again after either.
- The queue serves every policy in it (`SF` of `Start` and `Begin`): the work
  queue is first in, first out. Strong fairness is needed because with
  another policy in the queue again and again `Start(p)` is enabled only between
  evaluations.
- In `ScaleToZero` and `SuspendCronJob` calls for a policy that is no dry run
  are made again and again (`WF` of `Call`). That is the loop's part, for a
  workload that keeps failing; `FailingIsStopped` in `ReconcilerOverlap` checks that
  the loop does it.

- In `Ownership` an evaluation goes on, every cache catches up, and every
  failing pod in the cache is looked at again and again (`SF` of `Start`: one
  worker takes the pods in turn). Periodic evaluation does that.
- In `Schedule` time passes, the worker works, timers fire and the watch
  delivers (`WF`). Time waits for what is due: that an evaluation, a wait and a
  back-off take no longer than their bounds is the meaning of these constants.

Failures, crashes and events of the outside are never fair: they may happen or
not.

## 4. What is proved

All theorems hold for every value of the constants under the named ASSUMEs of
the modules, which give the constants their types (and say of `Kept` that whoever
signed a workload includes it). Every invariant and
every action property that a run checks is stated by one of them; so are the
two refinements of the calls and the one of the status.

`ScaleToZero_proofs`:

- `TypeCorrect`: `TypeOK`.
- `RecordsExact`: `RecordsAreExact`. By itself this says nothing of the update
  an instance is about to send, so the invariant is strengthened by
  `CopyIsCounted`: an instance that is about to write its record holds in `prev` the
  positive count of the version it holds a copy of. With the compare-and-swap
  of the store the record is then written over the version it counts.
- `StopsRecorded`: `StopsAreRecorded`, if `0 \notin ExternalSizes`. The
  strengthening `RecordedForGood` says that an annotation, once in the log,
  stays, that every zero in the log is annotated, and that an instance between
  its two writes finds an annotation on the live object. The last is what a
  retry that wrote nothing relies on, and what fails when others write zeros.
- `ActedIsTrue`: `ActedSawZero`.
- `ContractHolds`: `Spec => Contract!Spec`, if `0 \notin ExternalSizes`, from
  the same invariant: every step maps to a record, a stop, a rescale or a
  stutter.
- `CallsBounded`: `CallsAreBounded`. `Left(o)` counts the steps a call may still
  take: two for every attempt that is left of the update, and two for every one
  of the stop. `RetryGetsNearer` is the one place where a call goes back.

`PolicyArbitration_proofs`:

- `RestrictivenessIsTotalOrder`: irreflexive, transitive and total on policies
  with different names, for every combination of unset fields.
- `WinnerCorrect`: `WinnerIsMostRestrictive`, with `NoEarlyWinner` (nothing is
  judged before the loop of `winningPolicy` starts).
- `ActorWasJudgedWhenUndisturbed`: `UndisturbedActorWasJudged`. It rests on the
  theorem `SelectsAgree` (`LoopSelects` and `ResolverSelects` are the same predicate on candidates)
  and on `SteadyPass`: while the pods and labels of the workload stay as they
  were, what was checked still holds, and the judged policies are those whose
  conditions hold and whose resolved namespaces admit the workload, right or
  outdated; while nothing changes at all they are right.
- `SameActor`: `SameEvidenceSameActor`, with `DeedsStand`: a deed in the present
  state of the world is the one settled by that state.
- `ActsExactlyWhenMostRestrictive`: `ActsIffMostRestrictive`. One direction says
  that no policy acts in another's place, the other that none defers to a policy
  that would not act; this is the step on which `SomeoneActs` rests. It joins
  `SteadyPass` and `WinnerIsMostRestrictive`; `MostRestrictiveWins` is the order
  theorem applied to the policies that were judged to act.
- `TypeCorrect`: `TypeOK`.
- `ContainerStricterWithoutInits`: `ContainerIsStricter`, if no classic init
  container looks like one that keeps dying. The Container mode then finds all
  replicas failing only where the Pod mode does.
- `SelectedIsCandidate`: the pod indexes leave out no pod that a policy selects
  (`LoopSelects` implies `IsCandidate`), if no reason is the empty string. The
  positive effective restart threshold is what makes it true: the index of
  termination reasons skips containers that never restarted.

`SuspendCronJob_proofs`:

- `TypeCorrect`: `TypeOK`.
- `SuspendsRunning`: `SuspendsOnlyRunning`. The strengthening `CopyRuns` says that an
  instance about to write holds a running version in its hands; the compare-and-swap
  of the store makes it the version that is replaced (`UpdateSuspends`).
- `ContractHolds`: `Spec => Contract!Spec`, from the same invariant. The update
  that is accepted replaces the version its copy was made of, which ran.

`Ownership_proofs`:

- `TypeCorrect`: `TypeOK`, from `Typed`, which also says which names belong to
  which kind.
- `OwnerStopped`: `StopsTheOwner`, if `ReuseNames = FALSE`. The invariant is
  `Lineage`: everything that was ever seen (objects, caches, the pod and the
  owner of the pass) is `Known`, that is, its controllers are in `owned`
  and the name of a top-level workload is `Spent` on one UID, in the API server,
  in the cache and for good. `Keeps` collects what any step may do to names;
  `SpentStays` and `KnownStays` follow from it once for all actions. A name then
  leads to the object that owned the pod, however late it is read.
- `ReplicasProtect`: `HealthyReplicasProtect`, if `ReuseNames = FALSE`, from
  `Lineage` and two more parts. `Identity` says that UIDs are unique, that a
  reference leads to the object it names, and that a child has the label of
  its controller; so the pods found by label or by the name of a Job include
  those found by UID. `Seen` says that what a steady evaluation has judged is
  what the caches still show.

`Schedule_proofs`:

- `TypeCorrect`, `ExpiryMet` (`ExpiryIsMet`) and `OverdueJudged`
  (`OverdueIsJudged`), from one invariant, `Inv`. `Anyway(p)` bounds, for each
  place the policy can be in (asleep, queued, under evaluation), how late an
  overdue pod is plus the longest time until it is judged; `Tracked(p)` does
  the same with the expiry in place of the interval. `LateIsOverdue` ties
  `late` to the age of a pod; by `ExpiryIsRecent` an expiry lies no further in
  the past than its evaluation has lasted.
- `NothingForgotten`: `NothingIsForgotten`, which is inductive. It is the safety
  half of `GaugeFollowsPolicy`: whatever exists, or left a series behind, is
  somewhere from where it will be looked at again.

`Reconciler_proofs`:

- `TypeCorrect`: `TypeOK`.
- `CountedOnceAlways`: `CountedOnce`, with `Fits`: what a pass has reported and
  what it has still to do are no more than the workloads, which keeps the
  saturating history counter from hiding an action.
- `ListsObserved`: `ListsWhatItObserved`, with `FoundInScope` (what a pass has
  found is in the scope of the generation it evaluates) and `LinesHonest`
  (every version of the status, cached ones included, is honest).
- `PhaseStaysActive`: `PhaseNeverRegresses`, with `PhasesInOrder` (no version
  behind a copy without a phase is Active) and `PlaceSuitsPhase` (a pass that
  is about to set the initial phase works on a policy of one version).

`ReconcilerContract_proofs`:

- `ContractHolds`: `Spec => Contract!Spec`. To the invariants above it adds
  `LinesInOrder` (generations do not decrease along a history, and no version
  of it observes more than its cached version has) and `PassKnows`: the
  generation under evaluation lies between the one last observed and the cached
  one, and a draft made of the live object differs from it by this evaluation
  only. With the compare-and-swap of the status this makes `StatusPut` a
  `Publish`, and the first phase a `Greet` or a repetition.

`ReconcilerLoop_proofs` sorts the steps of `Reconciler` once for all
(`StepsOfALoop`: a step of an evaluation or one of everyone else; `Onwards`: what a
step of the loop may do to the workloads still to do; `WorkloadSteps` and
`LineSteps`: what any step may do to a workload; `PolicySteps`) and proves seven
properties from that:

- `EvaluationsAreFinite`: `EvaluationsEnd`. `Remaining` is the number of steps
  an evaluation may still take. It needs `Fits` (the workload acted on is one of
  those to do) and `KindsLeft` (at most three kinds are left to list). The
  arithmetic is in `RoundsGrow`.
- `NoEmptyWrites`: `WritesSaySomethingNew`. The comparison in the code is with a
  cached copy; the invariant `News` says that a draft made of the live object
  differs from it and that nobody has written since, and `Known` gives the rest.
- `CronJobsInContract`: `CronJobsKeepContract`, with `AtHand`: what is acted on
  is in the scope of the generation under evaluation, and not in a dry run, and no
  CronJob comes to the stop that a Deployment takes in a request of its own.
- `SignaturesAreRight`: `SignedByRight`, with `AtHand` and `Known`. The generation
  an evaluation goes by lies between the first and the live one, and
  `GensNeverGoBack` keeps the right to sign for good.
- `PoliciesStayInHand`: `NoPolicyIsForgotten`. A policy leaves the queue only into
  the evaluation and the evaluation only into the timers; with `IdleIsFree` (no
  evaluation, no policy) and `Onwards` (inside an evaluation queue and timers stay
  as they are) the steps that end one are the only ones to look at; a restart queues
  every policy.
- `ListsNoneTwice`: `ListsEachOnce`. By `CollectedOnce` what an evaluation has found so
  far is free of repetitions and of the kinds still to be listed, so the next list
  adds nothing that is there; `FoundInScope` and `NoLongerThan` bound its length by
  the scope, `FirstOnesOnce` carries it over the cap and `LinesOnce` over every
  version of the status, the cached ones included.
- `ReportsAreSigned`: `ListsOnlySigned`. `SignedLines` says that a signature, once in
  the versions of a workload, stays, whoever writes afterwards, so that what a list
  finds in a stale cache is still signed; `ReportsSigned` and `PassReportsSigned`
  carry that from the lists into the status, and `SignedByRight` excludes dry runs.

Only model-checked: everything about liveness (`SelfCorrects`,
`EventuallySuspended`, `SomeoneActs`, `BrokenIsStopped`, `GaugeFollowsPolicy`,
`StatusConverges`, `FailingIsStopped`), which is out of the prover's reach. What can
be said of them without fairness is proved: `CallsBounded`, `EvaluationsAreFinite`,
`NothingForgotten`, `PoliciesStayInHand`,
`ActsExactlyWhenMostRestrictive` and `NoEmptyWrites` are the steps that those
properties take again and again.

## 5. What the checks found

Kept as runs whose property TLC violates:

- `ScaleToZeroUnrecorded`. `prevReplicas` keeps the value of an attempt that
  was refused. If the next attempt reads zero, the closure writes nothing, but
  the call goes on; if the workload is scaled up meanwhile, it is stopped
  without annotations.
- `OwnershipRecreated`. The UID of a reference is compared for ReplicaSets and
  Jobs only; the workload they name, and a StatefulSet, is taken by name. One
  that was deleted and made again is stopped for the failing pods its
  predecessor left behind.
- `PolicyArbitrationUnparseable`. A policy whose `namespaceSelector` cannot be
  parsed ends `winningPolicy` with an error for every workload, so that no
  policy acts on anything, though README says that a policy that would not act
  cannot block one that would.
- `ReconcilerDryRun`. A dry run counts the same workload at every evaluation,
  so every evaluation writes the status and wakes the policy at once.
- `ReconcilerUnordered`. The held workloads are compared with their order (`H` 48),
  which the cache does not define (`H` 599), so with two of a kind an unchanged
  evaluation may write, and the write wakes the policy. README says of this and of
  the dry run that it does not happen, and so does the comment at `H` 34-40. What
  holds is that no write repeats the status it replaces (`WritesSaySomethingNew`).

Also seen while modelling, and not kept as runs:

- `winner == nil` does not stop a pass: when the pods recover between the
  pass's checks and the comparison, no policy would act and the workload is
  stopped all the same (`R` 227).
- The comparison looks at the one pod that led the pass to the workload. If
  replicas fail in different ways, the actor depends on which of them is listed
  first (`R` 188).
- A workload restored the way README describes keeps its annotations and stays
  in `activeScaledDown` (`H` 604).
- A classic init container that keeps dying makes the Container mode accept
  replicas that the Pod mode rejects (`P` 95-100), though README calls
  `Container` the stricter mode.
- The Jobs of a CronJob are all that refer to it by name (`H` 404-413), as
  controller or not, though a pod is led to its owner by controller references
  only. A newer Job that carries a plain reference hides the pods of the
  CronJob's own Job. It takes five events, and `HealthyReplicasProtect` excludes
  it by `JobsAreControlled`.
- The `scaledDownTotal` series of a deleted policy is not forgotten with its
  gauges (`metrics.go`).
- An evaluation that is in flight while its policy is deleted and made again
  writes its outcome to the new one.
- Between the annotating update and the scale update a rescale makes
  `previous-replicas` differ from the count that was stopped (`H` 527-536).
- A call whose live read finds zero reports an action somebody else took
  (`H` 532), and a CronJob retry that reads an old suspended copy reports one
  nobody took (`H` 571).
- Two instances, with leader election off, can take a status back for a while.
  One reads a policy without a phase, the other evaluates it, and the first then
  sets Pending on the evaluated status, since the phase is not looked at again
  on the copy that is written (`R` 63-66). And one that still evaluates an old
  generation publishes it over a newer one, since a retry keeps the generation
  it began with (`R` 287). The next evaluation repairs both.
- A crash or a failed status write loses the actions of that evaluation from
  the lifetime counter (`R` 288).
- When one of the three lists fails the result is nil and not "incomplete
  rather than empty" (`R` 262-265); the next evaluation repairs it.

## 6. Not modelled

- *Replicas that back off out of phase* (`H` 119): kubelet's back-off is not a
  clock here, a pod changes state by an event. Nothing in the code promises
  that a workload whose containers run for a moment between two crashes is ever
  stopped, so there is no property to check.
- *Excluded namespaces and targets* are names that are compared, one inclusion
  set per policy and generation (`covers`, `Scope`). The two selectors are sets
  that change. In `Reconciler`, which leaves the choice of a winner to
  `PolicyArbitration`, a policy's namespaces are part of `Scope`.
- *Counters* of the metrics: they only grow and decide nothing. *Events* and
  log lines: sent and forgotten.
- *Manager entry point* beyond the choice of leader election; generated code;
  charts, CRDs, RBAC, images and workflows: no behaviour of their own.
- The composition of all of it in one module. `Reconciler` takes ownership,
  arbitration and the API calls of a scale-down as one step each; what they
  guarantee is checked in their own modules.

## 7. Plan

Done: the two ways of acting and their contracts; detection and arbitration;
owners and replicas; the schedule; the loop, its status and the contract of it;
proofs of all the invariants and action properties, and of the refinements.

To come: `Reconciler` with several instances, whose workers and queues run beside
one another on the same API server. `CountedOnce` and `ListsWhatItObserved` rest
on the compare-and-swap of the status and should survive it;
`PhaseNeverRegresses` and `ImplementsContract` will not (section 5).
