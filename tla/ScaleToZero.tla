----------------------------- MODULE ScaleToZero -----------------------------
(***************************************************************************)
(* scaleWorkloadToZero (helpers.go): the operator stops a Deployment or a  *)
(* StatefulSet by first recording its replica count in annotations, with a *)
(* full-object update of a cached copy, and then writing 0 through the     *)
(* scale subresource.  Every read, every write and every retry is a step,  *)
(* so other writers, a crash, a failed call, a lost response and a second  *)
(* operator instance can come between any two of them.                     *)
(***************************************************************************)
EXTENDS WorkloadStore

CONSTANTS
    DryRun,         \* the policies with dryRun: true
    MaxTries,       \* Steps of retry.DefaultRetry
    MaxFaults       \* bound on failed calls, lost responses and crashes

ASSUME ScaleAssumption ==
    /\ DryRun \subseteq Policies
    /\ MaxTries \in Nat \ {0}
    /\ MaxFaults \in Nat

VARIABLES
    pc,             \* where instance o is in the function
    pol,            \* the policy the call acts for
    copy,           \* index of the version the instance holds a copy of
    prev,           \* prevReplicas, which the retry closure captures
    tries,          \* attempts of the current RetryOnConflict
    begin,          \* history: length of the log when the call began
    outcome,        \* what the last call returned
    faults          \* faults so far

callVars == <<pc, pol, copy, prev, tries, begin, outcome>>
vars == <<log, seen, external, pc, pol, copy, prev, tries, begin, outcome, faults>>

Location == {"idle", "annotateGet", "annotatePut", "scaleGet", "scalePut"}

\* "acted" is (true, nil), "dry" the same in a dry run, "skipped" (false, nil)
\* and "error" a non-nil error; "none" means the call has not returned.
Outcome == {"none", "acted", "dry", "skipped", "error"}

TypeOK ==
    /\ StoreTypeOK
    /\ pc \in [Operators -> Location]
    /\ pol \in [Operators -> Policies \cup {None}]
    /\ copy \in [Operators -> Nat]
    /\ prev \in [Operators -> Sizes]
    /\ tries \in [Operators -> 0..(MaxTries - 1)]
    /\ begin \in [Operators -> Nat]
    /\ outcome \in [Operators -> Outcome]
    /\ faults \in 0..MaxFaults
    /\ \A o \in Operators :
         /\ begin[o] <= Len(log)
         /\ copy[o] <= Len(log)
         /\ pc[o] # "idle" => begin[o] >= 1 /\ pol[o] \in Policies \ DryRun
         /\ pc[o] \in {"annotatePut", "scalePut"} => copy[o] >= 1

Init ==
    /\ StoreInit
    /\ pc = [o \in Operators |-> "idle"]
    /\ pol = [o \in Operators |-> None]
    /\ copy = [o \in Operators |-> 0]
    /\ prev = [o \in Operators |-> 0]
    /\ tries = [o \in Operators |-> 0]
    /\ begin = [o \in Operators |-> 0]
    /\ outcome = [o \in Operators |-> "none"]
    /\ faults = 0

-----------------------------------------------------------------------------
\* The call of o returns r: its local variables are gone.
Return(o, r) ==
    /\ pc' = [pc EXCEPT ![o] = "idle"]
    /\ outcome' = [outcome EXCEPT ![o] = r]
    /\ copy' = [copy EXCEPT ![o] = 0]
    /\ prev' = [prev EXCEPT ![o] = 0]
    /\ tries' = [tries EXCEPT ![o] = 0]
    /\ UNCHANGED <<pol, begin>>

\* The call of o goes on at l, holding version c, having counted n replicas,
\* in attempt t of the current RetryOnConflict.
Continue(o, l, c, n, t) ==
    /\ pc' = [pc EXCEPT ![o] = l]
    /\ copy' = [copy EXCEPT ![o] = c]
    /\ prev' = [prev EXCEPT ![o] = n]
    /\ tries' = [tries EXCEPT ![o] = t]
    /\ UNCHANGED <<pol, begin, outcome>>

\* Mutant: one attempt more than the backoff has steps.
RetryOnceMore(o, l) ==
    IF tries[o] < MaxTries
    THEN Continue(o, l, copy[o], prev[o], tries[o] + 1)
    ELSE Return(o, "error")

\* RetryOnConflict: after a conflict, run the closure again from l unless the
\* attempts are used up, in which case the conflict is the error returned.
RetryFrom(o, l) ==
    IF tries[o] + 1 < MaxTries
    THEN Continue(o, l, copy[o], prev[o], tries[o] + 1)
    ELSE Return(o, "error")

-----------------------------------------------------------------------------
\* Mutant: a workload that carries a record is taken to be stopped.
FirstAnswerTrustsRecord(o, p) ==
    IF Cached(o).size = 0 \/ Cached(o).ann # None THEN "skipped"
    ELSE IF p \in DryRun THEN "dry" ELSE "none"

\* What the call returns on its first, cached read, if it returns there: a
\* workload already at zero is left alone, and a dry run reports an action
\* without taking it.
FirstAnswer(o, p) ==
    IF Cached(o).size = 0 THEN "skipped"
    ELSE IF p \in DryRun THEN "dry" ELSE "none"

Call(o, p) ==
    /\ pc[o] = "idle"
    /\ pol' = [pol EXCEPT ![o] = p]
    /\ begin' = [begin EXCEPT ![o] = Len(log)]
    /\ outcome' = [outcome EXCEPT ![o] = FirstAnswer(o, p)]
    /\ pc' = [pc EXCEPT ![o] =
                 IF FirstAnswer(o, p) = "none" THEN "annotateGet" ELSE "idle"]
    /\ UNCHANGED <<storeVars, copy, prev, tries, faults>>

\* Mutant: prevReplicas is set by the first attempt only.
AnnotateGetCountsOnce(o) ==
    /\ pc[o] = "annotateGet"
    /\ IF Cached(o).size > 0
       THEN Continue(o, "annotatePut", seen[o],
                     IF prev[o] = 0 THEN Cached(o).size ELSE prev[o], tries[o])
       ELSE IF prev[o] > 0
       THEN Continue(o, "scaleGet", seen[o], prev[o], 0)
       ELSE Return(o, "skipped")
    /\ UNCHANGED <<storeVars, faults>>

\* Mutant: the closure does not look at the count it reads.
AnnotateGetUnchecked(o) ==
    /\ pc[o] = "annotateGet"
    /\ Continue(o, "annotatePut", seen[o], Cached(o).size, tries[o])
    /\ UNCHANGED <<storeVars, faults>>

\* One attempt of the annotating closure reads the cache again.  At zero it
\* succeeds without a write, and prevReplicas keeps what an earlier attempt
\* stored in it.
AnnotateGet(o) ==
    /\ pc[o] = "annotateGet"
    /\ IF Cached(o).size > 0
       THEN Continue(o, "annotatePut", seen[o], Cached(o).size, tries[o])
       ELSE IF prev[o] > 0
       THEN Continue(o, "scaleGet", seen[o], prev[o], 0)
       ELSE Return(o, "skipped")
    /\ UNCHANGED <<storeVars, faults>>

\* The version the full-object update writes: the copy with the annotations.
Recorded(o) ==
    [size |-> log[copy[o]].size,
     ann |-> [by |-> pol[o], prev |-> prev[o]],
     writer |-> "record"]

AnnotatePut(o) ==
    /\ pc[o] = "annotatePut"
    /\ Accepts(copy[o])
    /\ log' = Append(log, Recorded(o))
    /\ Continue(o, "scaleGet", copy[o], prev[o], 0)
    /\ UNCHANGED <<seen, external, faults>>

\* Mutant: a conflict of the record does not keep the call from stopping.
AnnotateConflictIgnored(o) ==
    /\ pc[o] = "annotatePut"
    /\ ~Accepts(copy[o])
    /\ Continue(o, "scaleGet", copy[o], prev[o], 0)
    /\ UNCHANGED <<storeVars, faults>>

\* Mutant: an attempt that meets a conflict is not counted.
AnnotateConflictUncounted(o) ==
    /\ pc[o] = "annotatePut"
    /\ ~Accepts(copy[o])
    /\ Continue(o, "annotateGet", copy[o], prev[o], tries[o])
    /\ UNCHANGED <<storeVars, faults>>

AnnotateConflict(o) ==
    /\ pc[o] = "annotatePut"
    /\ ~Accepts(copy[o])
    /\ RetryFrom(o, "annotateGet")
    /\ UNCHANGED <<storeVars, faults>>

\* The scale subresource is not cached: this read is live.
ScaleGet(o) ==
    /\ pc[o] = "scaleGet"
    /\ IF Latest.size > 0
       THEN Continue(o, "scalePut", Len(log), prev[o], tries[o])
       ELSE Return(o, "acted")
    /\ UNCHANGED <<storeVars, faults>>

\* The version a write of the scale makes: only spec.replicas changes.
Stopped(o) == [size |-> 0, ann |-> log[copy[o]].ann, writer |-> "stop"]

ScalePut(o) ==
    /\ pc[o] = "scalePut"
    /\ Accepts(copy[o])
    /\ log' = Append(log, Stopped(o))
    /\ Return(o, "acted")
    /\ UNCHANGED <<seen, external, faults>>

\* Mutant: a conflict of the stop is reported as an action taken.
ScaleConflictSwallowed(o) ==
    /\ pc[o] = "scalePut"
    /\ ~Accepts(copy[o])
    /\ Return(o, "acted")
    /\ UNCHANGED <<storeVars, faults>>

ScaleConflict(o) ==
    /\ pc[o] = "scalePut"
    /\ ~Accepts(copy[o])
    /\ RetryFrom(o, "scaleGet")
    /\ UNCHANGED <<storeVars, faults>>

-----------------------------------------------------------------------------
FaultHappens ==
    /\ faults < MaxFaults
    /\ faults' = faults + 1

\* The first read fails: the call returns its error before anything else.
FirstReadFails(o, p) ==
    /\ pc[o] = "idle"
    /\ FaultHappens
    /\ pol' = [pol EXCEPT ![o] = p]
    /\ begin' = [begin EXCEPT ![o] = Len(log)]
    /\ outcome' = [outcome EXCEPT ![o] = "error"]
    /\ UNCHANGED <<storeVars, pc, copy, prev, tries>>

\* A call to the API server fails with something other than a conflict (a
\* timeout, a deleted object, a refused request): the error is returned.
CallFails(o) ==
    /\ pc[o] # "idle"
    /\ FaultHappens
    /\ Return(o, "error")
    /\ UNCHANGED storeVars

\* The API server applies a write and its answer is lost.
ResponseLost(o) ==
    /\ pc[o] \in {"annotatePut", "scalePut"}
    /\ Accepts(copy[o])
    /\ FaultHappens
    /\ log' = Append(log, IF pc[o] = "annotatePut" THEN Recorded(o) ELSE Stopped(o))
    /\ Return(o, "error")
    /\ UNCHANGED <<seen, external>>

\* The process dies; a new one starts with nothing but the API server.
Crash(o) ==
    /\ pc[o] # "idle"
    /\ FaultHappens
    /\ Return(o, "none")
    /\ UNCHANGED storeVars

-----------------------------------------------------------------------------
Proceed(o) ==
    \/ AnnotateGet(o)
    \/ AnnotatePut(o)
    \/ AnnotateConflict(o)
    \/ ScaleGet(o)
    \/ ScalePut(o)
    \/ ScaleConflict(o)

Fault(o) ==
    \/ \E p \in Policies : FirstReadFails(o, p)
    \/ CallFails(o)
    \/ ResponseLost(o)
    \/ Crash(o)

Next ==
    \/ Environment /\ UNCHANGED <<callVars, faults>>
    \/ \E o \in Operators :
         \/ \E p \in Policies : Call(o, p)
         \/ Proceed(o)
         \/ Fault(o)

Spec == Init /\ [][Next]_vars

\* A pass that has begun goes on, the watch delivers, and while its pods fail
\* the workload is evaluated again and again: the controller requeues every
\* policy after its reconcileInterval and after every error.
Fairness ==
    \A o \in Operators :
        /\ WF_vars(Proceed(o))
        /\ WF_vars(CacheSync(o) /\ UNCHANGED <<callVars, faults>>)
        /\ WF_vars(\E p \in Policies \ DryRun : Call(o, p))

FairSpec == Spec /\ Fairness

-----------------------------------------------------------------------------
\* Whether version i was written by the operator, as a record or as a stop.
IsRecord(i) == log[i].writer = "record"
IsStop(i) == log[i].writer = "stop"

\* A record is exact: it is written over the very version it counts, so the
\* full-object update never undoes a concurrent rescale, previous-replicas is
\* the size the object had, and a stopped workload is never recorded (which
\* would overwrite the count its owner needs with 0).  helpers.go:499-525.
RecordsAreExact ==
    \A i \in 2..Len(log) :
        IsRecord(i) => /\ log[i].size = log[i-1].size
                       /\ log[i].ann.prev = log[i-1].size
                       /\ log[i].size > 0

\* A workload the operator stopped carries its annotations: "in the other
\* order a failed annotation write would leave a workload stopped with no
\* record" (helpers.go:472-476).
StopsAreRecorded ==
    \A i \in 1..Len(log) : IsStop(i) => log[i].ann # None

\* A call that reports an action was made while the workload stood at zero
\* replicas at some moment (the counter, the metric and the event of
\* crashlooppolicy_controller.go:242-259 rest on this answer).
ActedSawZero ==
    \A o \in Operators :
        outcome[o] = "acted" =>
            \E i \in 1..Len(log) : i >= begin[o] /\ log[i].size = 0

\* The calls to the API server that a call has left at most: two for each attempt
\* of each RetryOnConflict.
Left(o) ==
    CASE pc[o] = "annotateGet" -> 2 * MaxTries + 2 * (MaxTries - tries[o])
      [] pc[o] = "annotatePut" -> 2 * MaxTries + 2 * (MaxTries - tries[o]) - 1
      [] pc[o] = "scaleGet" -> 2 * (MaxTries - tries[o])
      [] pc[o] = "scalePut" -> 2 * (MaxTries - tries[o]) - 1
      [] OTHER -> 0

\* However other writers, other instances and the cache get in its way, a call
\* comes nearer to its end with every step it takes, so that a workload somebody
\* keeps changing cannot hold up the policy's other workloads (helpers.go:499-540).
CallsAreBounded ==
    [][\A o \in Operators : pc[o] # "idle" =>
         UNCHANGED <<pc[o], tries[o]>> \/ Left(o)' < Left(o)]_vars

\* "The workload is still running and the next evaluation retries it, so the
\* mistake corrects itself" (helpers.go:472-474): whatever crash or failure
\* leaves an annotated workload running, it is stopped in the end.
SelfCorrects ==
    (Latest.ann # None /\ Latest.size > 0) ~> (Latest.size = 0)

\* Seen from outside, the three calls, their retries and their faults come
\* down to the three steps of ScaleDownContract.
Contract == INSTANCE ScaleDownContract WITH size <- Latest.size, ann <- Latest.ann

\* Every behaviour of scaleWorkloadToZero is one the contract allows: a record
\* is exact and leaves the count alone, a stop comes only after a record and
\* keeps it, and the operator never raises a count (helpers.go:463-476).
ImplementsContract == Contract!Spec
=============================================================================
