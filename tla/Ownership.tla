------------------------------- MODULE Ownership -------------------------------
(***************************************************************************)
(* From a failing pod to the workload that is stopped (helpers.go): owner  *)
(* references are followed from the pod over a ReplicaSet or a Job to a    *)
(* Deployment, StatefulSet or CronJob, the replicas of that workload are   *)
(* collected, and the workload is written by its name.  References carry   *)
(* UIDs, reads and writes go by name, and every kind is read from a cache  *)
(* of its own that lags behind, while objects are deleted, made again      *)
(* under the same name, adopted and released.                              *)
(*                                                                         *)
(* What counts as failing is in FailureDetection: here a pod fails or not. *)
(***************************************************************************)
EXTENDS Naturals, FiniteSets

CONSTANTS
    Families,       \* the kinds of top-level workload that are considered
    Names,          \* names of the top-level workloads
    ChildNames,     \* names of ReplicaSets and Jobs
    PodNames,
    ReuseNames,     \* whether a deleted workload is made again under its name
    MaxEvents       \* bound on what users and controllers do, and on failures

Kind == {"Deployment", "StatefulSet", "CronJob", "ReplicaSet", "Job", "Pod"}

\* The kinds of object whose controller makes objects of a kind.  Anything
\* else, such as a custom resource, is a foreign controller.
ParentKinds(kind) ==
    CASE kind = "Pod" -> {"ReplicaSet", "StatefulSet", "Job"}
      [] kind = "ReplicaSet" -> {"Deployment"}
      [] kind = "Job" -> {"CronJob"}
      [] OTHER -> {}

ASSUME OwnershipAssumption ==
    /\ Families \subseteq {"Deployment", "StatefulSet", "CronJob"}
    /\ Names # {} /\ ChildNames # {} /\ PodNames # {}
    /\ ReuseNames \in BOOLEAN
    /\ MaxEvents \in Nat

VARIABLES
    family,     \* the kind of top-level workload of this behaviour
    objects,    \* the objects in the API server
    cache,      \* cache[kind]: the objects of that kind the informer has seen
    lastUid,    \* the number of objects ever made
    pass,       \* the way of one pod through an evaluation
    owned,      \* history: <<child, controller>>, pairs of UIDs
    deleted,    \* history: names of workloads that were deleted
    events      \* what happened so far, failures included

vars == <<family, objects, cache, lastUid, pass, owned, deleted, events>>

Foreign == [kind |-> "Other", name |-> "other", uid |-> 0, controller |-> TRUE]

Reference ==
    [kind : Kind, name : Names \cup ChildNames, uid : Nat, controller : BOOLEAN]
        \cup {Foreign}

\* UIDs are given out in order, and so tell which object is older.  The label
\* is the workload whose selector matches the object.  A workload is up or
\* down, a pod fails or is healthy.
Object ==
    [kind : Kind, name : Names \cup ChildNames \cup PodNames, uid : Nat,
     refs : SUBSET Reference, label : Names,
     state : {"up", "down", "failing", "healthy"}]

Place == {"idle", "resolve", "desired", "jobs", "pods", "act"}

NoPass == [at |-> "idle"]

\* owner is the ownerWorkload: a kind, which is the family, and a name.
IsPass(q) ==
    \/ q = NoPass
    \/ /\ q.at \in Place
       /\ q.pod \in Object
       /\ q.all \in BOOLEAN
       /\ q.steady \in BOOLEAN
       /\ q.at # "resolve" => q.owner \in Names
       /\ q.at = "pods" /\ family = "CronJob" => q.job \in ChildNames

TypeOK ==
    /\ family \in Families
    /\ \A o \in objects : o \in Object
    /\ \A k \in Kind : \A o \in cache[k] : o \in Object /\ o.kind = k
    /\ lastUid \in Nat
    /\ IsPass(pass)
    /\ \A o, q \in objects : o.kind = q.kind /\ o.name = q.name => o = q
    /\ events \in 0..MaxEvents

Of(kind, set) == {o \in set : o.kind = kind}
Named(name, set) == {o \in set : o.name = name}

\* The reference a child carries to the object that controls it.
ControlledBy(o) ==
    [kind |-> o.kind, name |-> o.name, uid |-> o.uid, controller |-> TRUE]

\* A workload with one pod, and the ReplicaSet or Job in between, if any.  Which
\* of the names they have makes no difference.
Init ==
    /\ family \in Families
    /\ \E s \in {"failing", "healthy"} :
         LET n == CHOOSE n \in Names : TRUE
             c == CHOOSE c \in ChildNames : TRUE
             p == CHOOSE p \in PodNames : TRUE
             Make(kind, name, uid, refs, state) ==
               [kind |-> kind, name |-> name, uid |-> uid, refs |-> refs,
                label |-> n, state |-> state]
             top == Make(family, n, 1, {}, "up")
             middle == {Make(k, c, 2, {ControlledBy(top)}, "up") :
                          k \in {m \in {"ReplicaSet", "Job"} : family \in ParentKinds(m)}}
             parents == IF middle = {} THEN {top} ELSE middle
         IN  /\ objects = {top} \cup middle
                    \cup {Make("Pod", p, 3, {ControlledBy(m) : m \in parents}, s)}
             /\ owned = {<<m.uid, 1>> : m \in middle} \cup {<<3, m.uid>> : m \in parents}
    /\ cache = [k \in Kind |-> Of(k, objects)]
    /\ lastUid = 3
    /\ pass = NoPass
    /\ deleted = {}
    /\ events = 0

-----------------------------------------------------------------------------
\* What happens outside.  An evaluation that it meets is not steady.
Unsteady == pass' = IF pass = NoPass THEN NoPass ELSE [pass EXCEPT !.steady = FALSE]

Happens ==
    /\ events < MaxEvents
    /\ events' = events + 1
    /\ Unsteady
    /\ UNCHANGED <<family, cache>>

Free(kind, name) == Named(name, Of(kind, objects)) = {}

Replace(o, changed) ==
    /\ objects' = (objects \ {o}) \cup {changed}
    /\ UNCHANGED <<lastUid, deleted>>

\* A workload is made, perhaps under the name of one that was deleted.
MakeWorkload(n) ==
    /\ Happens
    /\ Free(family, n)
    /\ n \in deleted => ReuseNames
    /\ objects' = objects \cup {[kind |-> family, name |-> n, uid |-> lastUid + 1,
                                 refs |-> {}, label |-> n, state |-> "up"]}
    /\ lastUid' = lastUid + 1
    /\ UNCHANGED <<owned, deleted>>

\* A controller makes a ReplicaSet, a Job or a pod, with the name it likes.
MakeChild(parent, kind, n, state) ==
    /\ Happens
    /\ parent.kind \in ParentKinds(kind)
    /\ parent.state # "down"
    /\ Free(kind, n)
    /\ objects' = objects \cup {[kind |-> kind, name |-> n, uid |-> lastUid + 1,
                                 refs |-> {ControlledBy(parent)},
                                 label |-> parent.label, state |-> state]}
    /\ lastUid' = lastUid + 1
    /\ owned' = owned \cup {<<lastUid + 1, parent.uid>>}
    /\ UNCHANGED deleted

\* An object is deleted.  What it controlled stays behind until the garbage
\* collector comes, which is a deletion of its own.
Delete(o) ==
    /\ Happens
    /\ objects' = objects \ {o}
    /\ deleted' = IF o.kind = family THEN deleted \cup {o.name} ELSE deleted
    /\ UNCHANGED <<lastUid, owned>>

Controllers(o) == {r \in o.refs : r.controller}

\* A child is orphaned, taken over by a foreign controller, or adopted.
Release(o) ==
    /\ Happens
    /\ Controllers(o) # {}
    /\ \E by \in {{}, {Foreign}} :
         Replace(o, [o EXCEPT !.refs = (@ \ Controllers(o)) \cup by])
    /\ UNCHANGED owned

Adopt(o, parent) ==
    /\ Happens
    /\ Controllers(o) = {}
    /\ parent.kind \in ParentKinds(o.kind)
    /\ parent.label = o.label
    /\ Replace(o, [o EXCEPT !.refs = @ \cup {ControlledBy(parent)}])
    /\ owned' = owned \cup {<<o.uid, parent.uid>>}

\* Some tool adds an owner reference that is no controller's.
AddReference(o, parent) ==
    /\ Happens
    /\ parent.kind \in ParentKinds(o.kind)
    /\ \A r \in o.refs : r.uid # parent.uid
    /\ Replace(o, [o EXCEPT !.refs = @ \cup {[ControlledBy(parent) EXCEPT !.controller = FALSE]}])
    /\ UNCHANGED owned

\* A pod starts to fail or recovers; an owner scales a workload up or down.
ChangeState(o, state) ==
    /\ Happens
    /\ o.state # state
    /\ o.kind = "Pod" => state \in {"failing", "healthy"}
    /\ o.kind = family => state \in {"up", "down"}
    /\ o.kind \in {"Pod", family}
    /\ Replace(o, [o EXCEPT !.state = state])
    /\ UNCHANGED owned

\* The informer of a kind catches up.
Sync(kind) ==
    /\ cache[kind] # Of(kind, objects)
    /\ cache' = [cache EXCEPT ![kind] = Of(kind, objects)]
    /\ Unsteady
    /\ UNCHANGED <<family, objects, lastUid, owned, deleted, events>>

-----------------------------------------------------------------------------
\* resolveOwnerWorkload.  The controller reference is followed, whatever other
\* owner references there are; a ReplicaSet or Job must be the very object that
\* is referred to.  The workload it names is not looked up.
IsFamily(r) == r.kind = family

\* Mutant: the object of that name will do.
ReferredToByName(pod) ==
    {o \in UNION {Named(r.name, cache[r.kind]) : r \in Controllers(pod) \ {Foreign}} :
        o.kind \in {"ReplicaSet", "Job"}}

ReferredTo(pod) ==
    {o \in UNION {Named(r.name, cache[r.kind]) : r \in Controllers(pod) \ {Foreign}} :
        /\ o.kind \in {"ReplicaSet", "Job"}
        /\ \E r \in Controllers(pod) : r.uid = o.uid}

\* Mutant: a ReplicaSet or Job without a controller stands for itself.
OwnerWorkloadOrChild(pod) ==
    {r.name : r \in {c \in Controllers(pod) : IsFamily(c)}}
        \cup {r.name : r \in UNION {Controllers(o) : o \in ReferredTo(pod)} \ {Foreign}}
        \cup {o.name : o \in {q \in ReferredTo(pod) : Controllers(q) = {}}}

\* The workload as it is returned: a kind, the family, and a name.
OwnerWorkload(pod) ==
    {r.name : r \in {c \in Controllers(pod) : IsFamily(c)}}
        \cup {r.name : r \in {c \in UNION {Controllers(o) : o \in ReferredTo(pod)} : IsFamily(c)}}

Evaluates == UNCHANGED <<family, objects, cache, lastUid, owned, deleted, events>>

GoTo(place) == pass' = [pass EXCEPT !.at = place]

\* A failing pod is taken from the cache, for a policy that requires all
\* replicas to fail or for one that does not.
Start(pod, all) ==
    /\ pass = NoPass
    /\ pod.state = "failing"
    /\ pass' = [at |-> "resolve", pod |-> pod, all |-> all, steady |-> TRUE]
    /\ Evaluates

\* Nothing to act on: no controller, a foreign one, or an object that is gone.
ResolveNothing ==
    /\ pass.at = "resolve"
    /\ OwnerWorkload(pass.pod) = {}
    /\ pass' = NoPass
    /\ Evaluates

Resolve ==
    /\ pass.at = "resolve"
    /\ \E n \in OwnerWorkload(pass.pod) :
         pass' = [at |-> IF pass.all THEN "desired" ELSE "act", pod |-> pass.pod,
                  all |-> pass.all, steady |-> pass.steady, owner |-> n]
    /\ Evaluates

-----------------------------------------------------------------------------
\* The workload in the cache, by name.
Target == Named(pass.owner, cache[family])

\* allReplicasFailing reads the workload.  One that is gone is an error and one
\* that is scaled to zero has no replicas to judge; a CronJob is not asked
\* whether it is suspended.
ReadDesired ==
    /\ pass.at = "desired"
    /\ IF \A w \in Target : w.state = "down" /\ family # "CronJob"
       THEN pass' = NoPass
       ELSE GoTo(IF family = "CronJob" THEN "jobs" ELSE "pods")
    /\ Evaluates

\* The Jobs that refer to the CronJob by name, as controller or not.
OwnedJobs ==
    {j \in cache["Job"] :
        \E r \in j.refs : r.kind = "CronJob" /\ r.name = pass.owner}

\* Mutant: the list is not sorted, and its last element may be any.
ReadJobsUnsorted ==
    /\ pass.at = "jobs"
    /\ IF OwnedJobs = {}
       THEN pass' = NoPass
       ELSE \E latest \in OwnedJobs :
               pass' = [at |-> "pods", pod |-> pass.pod, all |-> pass.all,
                        steady |-> pass.steady, owner |-> pass.owner, job |-> latest.name]
    /\ Evaluates

\* Mutant: the list is sorted the other way round.
ReadJobsOldest ==
    /\ pass.at = "jobs"
    /\ IF OwnedJobs = {}
       THEN pass' = NoPass
       ELSE \E oldest \in OwnedJobs :
               /\ \A j \in OwnedJobs : j.uid >= oldest.uid
               /\ pass' = [at |-> "pods", pod |-> pass.pod, all |-> pass.all,
                           steady |-> pass.steady, owner |-> pass.owner, job |-> oldest.name]
    /\ Evaluates

\* Only the most recent one is looked at.
ReadJobs ==
    /\ pass.at = "jobs"
    /\ IF OwnedJobs = {}
       THEN pass' = NoPass
       ELSE \E latest \in OwnedJobs :
               /\ \A j \in OwnedJobs : j.uid <= latest.uid
               /\ pass' = [at |-> "pods", pod |-> pass.pod, all |-> pass.all,
                           steady |-> pass.steady, owner |-> pass.owner, job |-> latest.name]
    /\ Evaluates

\* The pods that stand for the replicas: those the selector matches, whoever
\* owns them, or those that refer to the Job by name.
ReplicaPods ==
    IF family = "CronJob"
    THEN {p \in cache["Pod"] : \E r \in p.refs : r.kind = "Job" /\ r.name = pass.job}
    ELSE {p \in cache["Pod"] : p.label = pass.owner}

ReadPods ==
    /\ pass.at = "pods"
    /\ IF ReplicaPods # {} /\ \A p \in ReplicaPods : p.state = "failing"
       THEN GoTo("act")
       ELSE pass' = NoPass
    /\ Evaluates

\* scaleDownWorkload: the copy from the cache is written, and so refused if the
\* object of that name is another one by now; one that is at zero is left.
Live == {w \in Named(pass.owner, Of(family, objects)) :
            w.state = "up" /\ \E copy \in Target : copy.uid = w.uid /\ copy.state = "up"}

Act ==
    /\ pass.at = "act"
    /\ objects' = (objects \ Live) \cup {[w EXCEPT !.state = "down"] : w \in Live}
    /\ pass' = NoPass
    /\ UNCHANGED <<family, cache, lastUid, owned, deleted, events>>

\* A read or a write fails, and the pod is left for this evaluation.
Fails ==
    /\ pass # NoPass
    /\ events < MaxEvents
    /\ events' = events + 1
    /\ pass' = NoPass
    /\ UNCHANGED <<family, objects, cache, lastUid, owned, deleted>>

-----------------------------------------------------------------------------
Evaluation == ResolveNothing \/ Resolve \/ ReadDesired \/ ReadJobs \/ ReadPods \/ Act

Outside ==
    \/ \E n \in Names : MakeWorkload(n)
    \/ \E parent \in objects :
         \/ \E n \in ChildNames, k \in {"ReplicaSet", "Job"} : MakeChild(parent, k, n, "up")
         \/ \E n \in PodNames, s \in {"failing", "healthy"} : MakeChild(parent, "Pod", n, s)
    \/ \E o \in objects :
         \/ Delete(o)
         \/ Release(o)
         \/ \E parent \in objects : Adopt(o, parent) \/ AddReference(o, parent)
         \/ \E s \in {"up", "down", "failing", "healthy"} : ChangeState(o, s)

Next ==
    \/ \E pod \in cache["Pod"], all \in BOOLEAN : Start(pod, all)
    \/ Evaluation
    \/ Fails
    \/ \E k \in Kind : Sync(k)
    \/ Outside

Spec == Init /\ [][Next]_vars

\* An evaluation goes on, informers catch up, and every failing pod in the
\* cache is looked at again and again, by the periodic evaluation.
Fairness ==
    /\ WF_vars(Evaluation)
    /\ \A k \in Kind : WF_vars(Sync(k))
    /\ \A n \in PodNames :
         SF_vars(\E pod \in Named(n, cache["Pod"]) : Start(pod, TRUE))

FairSpec == Spec /\ Fairness

-----------------------------------------------------------------------------
\* The workload that an evaluation stops with this step.
Stopped == IF pass.at = "act" /\ objects' # objects THEN Live ELSE {}

\* The UIDs that have controlled an object, and that have controlled those.
ControllersEver(uids) == {e[2] : e \in {d \in owned : d[1] \in uids}}

\* What is stopped is, or was at some moment, "the top-level workload that owns
\* the pod" (helpers.go:246-303): the object itself, through the very
\* ReplicaSet or Job that owned the pod, and not another one under its name.
StopsTheOwner ==
    [][\A w \in Stopped :
         \/ w.uid \in ControllersEver({pass.pod.uid})
         \/ w.uid \in ControllersEver(ControllersEver({pass.pod.uid}))]_vars

\* The pods that a workload runs, by their references and not by name or label:
\* those of its most recent Job, if it is a CronJob.
Children(o, kind) ==
    {c \in Of(kind, objects) : \E r \in Controllers(c) : r.uid = o.uid}

OwnPods(w) ==
    CASE w.kind = "StatefulSet" -> Children(w, "Pod")
      [] w.kind = "Deployment" -> UNION {Children(rs, "Pod") : rs \in Children(w, "ReplicaSet")}
      [] w.kind = "CronJob" ->
           UNION {Children(j, "Pod") :
                    j \in {c \in Children(w, "Job") :
                              \A d \in Children(w, "Job") : d.uid <= c.uid}}

\* No Job refers to a CronJob other than the one that controls it.
JobsAreControlled ==
    \A j \in Of("Job", objects) : \A r \in j.refs : r.kind = "CronJob" => r.controller

\* With allReplicasFailing "a Deployment with one broken and one running pod is
\* left alone" (README.md, Troubleshooting; helpers.go:337-443): in an evaluation that
\* nothing interferes with and that reads fresh caches, a policy that requires
\* all replicas to fail stops no workload of which a pod is healthy.  The Jobs of
\* a CronJob are those that refer to it in any way (helpers.go:404-413), and so
\* no other Job may.
HealthyReplicasProtect ==
    [][(\A k \in Kind : cache[k] = Of(k, objects)) /\ JobsAreControlled =>
         \A w \in Stopped :
            pass.all /\ pass.steady => \A p \in OwnPods(w) : p.state = "failing"]_vars

\* A workload all of whose pods fail, and only its own pods in its way, is
\* reached and stopped, once the objects are at rest: names, references and
\* caches lead to it (helpers.go:246-303, 337-443).
Broken(w) ==
    /\ w.state = "up"
    /\ OwnPods(w) # {}
    /\ \A p \in Of("Pod", objects) : p.state = "failing" /\ p \in OwnPods(w)
    /\ \A j \in Of("Job", objects) : \E r \in Controllers(j) : r.uid = w.uid

BrokenIsStopped ==
    \A n \in Names :
        (events = MaxEvents /\ \E w \in Named(n, Of(family, objects)) : Broken(w))
            ~> (\E w \in Named(n, Of(family, objects)) : w.state = "down")
=============================================================================
