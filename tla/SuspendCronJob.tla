---------------------------- MODULE SuspendCronJob ----------------------------
(***************************************************************************)
(* The CronJob branch of scaleDownWorkload (helpers.go): the operator      *)
(* suspends a CronJob and records why in one update of a cached copy.  In  *)
(* the log of the object a running CronJob has size 1 and a suspended one  *)
(* size 0; a CronJob has no previous-replicas annotation.                  *)
(***************************************************************************)
EXTENDS WorkloadStore

CONSTANTS
    DryRun,         \* the policies with dryRun: true
    MaxTries,       \* Steps of retry.DefaultRetry
    MaxFaults       \* bound on failed calls, lost responses and crashes

ASSUME SuspendAssumption ==
    /\ DryRun \subseteq Policies
    /\ MaxSize = 1
    /\ MaxTries \in Nat \ {0}
    /\ MaxFaults \in Nat

VARIABLES
    pc,             \* where instance o is in the function
    pol,            \* the policy the call acts for
    copy,           \* index of the version the instance holds a copy of
    tries,          \* attempts of RetryOnConflict
    outcome,        \* what the last call returned
    faults          \* faults so far

callVars == <<pc, pol, copy, tries, outcome>>
vars == <<log, seen, external, pc, pol, copy, tries, outcome, faults>>

TypeOK ==
    /\ StoreTypeOK
    /\ pc \in [Operators -> {"idle", "get", "put"}]
    /\ pol \in [Operators -> Policies \cup {None}]
    /\ copy \in [Operators -> Nat]
    /\ tries \in [Operators -> 0..(MaxTries - 1)]
    /\ outcome \in [Operators -> {"none", "acted", "dry", "skipped", "error"}]
    /\ faults \in 0..MaxFaults
    /\ \A o \in Operators :
         /\ pc[o] # "idle" => pol[o] \in Policies \ DryRun
         /\ copy[o] <= Len(log)
         /\ pc[o] = "put" => copy[o] >= 1

Init ==
    /\ StoreInit
    /\ pc = [o \in Operators |-> "idle"]
    /\ pol = [o \in Operators |-> None]
    /\ copy = [o \in Operators |-> 0]
    /\ tries = [o \in Operators |-> 0]
    /\ outcome = [o \in Operators |-> "none"]
    /\ faults = 0

-----------------------------------------------------------------------------
\* The call of o returns r: its local variables are gone.
Return(o, r) ==
    /\ pc' = [pc EXCEPT ![o] = "idle"]
    /\ outcome' = [outcome EXCEPT ![o] = r]
    /\ copy' = [copy EXCEPT ![o] = 0]
    /\ tries' = [tries EXCEPT ![o] = 0]
    /\ UNCHANGED pol

\* The call of o goes on at l with version c, in attempt t.
Continue(o, l, c, t) ==
    /\ pc' = [pc EXCEPT ![o] = l]
    /\ copy' = [copy EXCEPT ![o] = c]
    /\ tries' = [tries EXCEPT ![o] = t]
    /\ UNCHANGED <<pol, outcome>>

-----------------------------------------------------------------------------
\* Mutant: a CronJob that carries a record is taken to be suspended.
FirstAnswerTrustsRecord(o, p) ==
    IF Cached(o).size = 0 \/ Cached(o).ann # None THEN "skipped"
    ELSE IF p \in DryRun THEN "dry" ELSE "none"

\* What the call returns on its first, cached read, if it returns there.
FirstAnswer(o, p) ==
    IF Cached(o).size = 0 THEN "skipped"
    ELSE IF p \in DryRun THEN "dry" ELSE "none"

Call(o, p) ==
    /\ pc[o] = "idle"
    /\ pol' = [pol EXCEPT ![o] = p]
    /\ outcome' = [outcome EXCEPT ![o] = FirstAnswer(o, p)]
    /\ pc' = [pc EXCEPT ![o] = IF FirstAnswer(o, p) = "none" THEN "get" ELSE "idle"]
    /\ UNCHANGED <<storeVars, copy, tries, faults>>

\* One attempt of the closure reads the cache again.  When that copy is
\* suspended the closure succeeds, and the call reports an action.
Get(o) ==
    /\ pc[o] = "get"
    /\ IF Cached(o).size > 0
       THEN Continue(o, "put", seen[o], tries[o])
       ELSE Return(o, "acted")
    /\ UNCHANGED <<storeVars, faults>>

\* Mutant: the update writes the annotations and leaves spec.suspend alone.
SignedOnly(o) == [size |-> 1, ann |-> [by |-> pol[o], prev |-> 0], writer |-> "stop"]

\* Mutant: the update suspends and leaves the annotations alone.
SuspendedUnsigned(o) == [log[copy[o]] EXCEPT !.size = 0, !.writer = "stop"]

\* The version the update writes: suspended, with the annotations.
Suspended(o) == [size |-> 0, ann |-> [by |-> pol[o], prev |-> 0], writer |-> "stop"]

Put(o) ==
    /\ pc[o] = "put"
    /\ Accepts(copy[o])
    /\ log' = Append(log, Suspended(o))
    /\ Return(o, "acted")
    /\ UNCHANGED <<seen, external, faults>>

\* RetryOnConflict: once more from the read, or the conflict is the error.
Conflict(o) ==
    /\ pc[o] = "put"
    /\ ~Accepts(copy[o])
    /\ IF tries[o] + 1 < MaxTries
       THEN Continue(o, "get", copy[o], tries[o] + 1)
       ELSE Return(o, "error")
    /\ UNCHANGED <<storeVars, faults>>

-----------------------------------------------------------------------------
FaultHappens ==
    /\ faults < MaxFaults
    /\ faults' = faults + 1

\* The first read fails: the call returns its error before anything else.
FirstReadFails(o, p) ==
    /\ pc[o] = "idle"
    /\ FaultHappens
    /\ pol' = [pol EXCEPT ![o] = p]
    /\ outcome' = [outcome EXCEPT ![o] = "error"]
    /\ UNCHANGED <<storeVars, pc, copy, tries>>

\* A call fails with something other than a conflict.
CallFails(o) ==
    /\ pc[o] # "idle"
    /\ FaultHappens
    /\ Return(o, "error")
    /\ UNCHANGED storeVars

\* The API server applies the update and its answer is lost.
ResponseLost(o) ==
    /\ pc[o] = "put"
    /\ Accepts(copy[o])
    /\ FaultHappens
    /\ log' = Append(log, Suspended(o))
    /\ Return(o, "error")
    /\ UNCHANGED <<seen, external>>

\* The process dies.
Crash(o) ==
    /\ pc[o] # "idle"
    /\ FaultHappens
    /\ Return(o, "none")
    /\ UNCHANGED storeVars

-----------------------------------------------------------------------------
Proceed(o) == Get(o) \/ Put(o) \/ Conflict(o)

Fault(o) ==
    \/ \E p \in Policies : FirstReadFails(o, p)
    \/ CallFails(o)
    \/ ResponseLost(o)
    \/ Crash(o)

Next ==
    \/ Environment /\ UNCHANGED <<callVars, faults>>
    \/ \E o \in Operators :
         \/ \E p \in Policies : Call(o, p)
         \/ Proceed(o)
         \/ Fault(o)

Spec == Init /\ [][Next]_vars

\* As in ScaleToZero: calls go on, the watch delivers, and while the jobs fail
\* the policies are evaluated again and again.
Fairness ==
    \A o \in Operators :
        /\ WF_vars(Proceed(o))
        /\ WF_vars(CacheSync(o) /\ UNCHANGED <<callVars, faults>>)
        /\ WF_vars(\E p \in Policies \ DryRun : Call(o, p))

FairSpec == Spec /\ Fairness

-----------------------------------------------------------------------------
\* Who signed a version.
Signer(version) == IF version.ann = None THEN None ELSE version.ann.by

\* Seen from outside, the calls of all instances come down to the two steps of
\* SuspendContract: a policy that is not a dry run suspends and signs a running
\* CronJob at once, and its owner does as he likes (helpers.go:556-591).
Contract == INSTANCE SuspendContract
    WITH Policies <- Policies \ DryRun, size <- Latest.size, by <- Signer(Latest)

ImplementsContract == Contract!Spec

\* The operator's own part of it: whatever a call of an instance writes, be the answer
\* lost or the copy old, is the suspension of a CronJob that runs at that very moment,
\* signed in the same update by the policy of that call.  It never suspends without a
\* signature, as the contract would allow the owner, and never claims a suspension that
\* the owner or another instance made (helpers.go:556-591).
SuspendsOnlyRunning ==
    [][\A o \in Operators : pc'[o] # pc[o] =>
         UNCHANGED log \/ Contract!Suspend(pol[o])]_vars

\* A CronJob whose jobs keep failing is suspended in the end, whatever crash,
\* conflict or stale read comes between.
EventuallySuspended == (Latest.size = 1) ~> (Latest.size = 0)
=============================================================================
