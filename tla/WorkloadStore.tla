---------------------------- MODULE WorkloadStore ----------------------------
(***************************************************************************)
(* One workload object (a Deployment, StatefulSet or CronJob) as the API   *)
(* server keeps it, and the informer cache each operator instance reads it *)
(* through.  The object is the log of its versions: its resourceVersion is *)
(* the index of the last one, a cached read returns some earlier version,  *)
(* and an update is accepted only when it carries the last index.          *)
(* The API server and the cache are controller-runtime and Kubernetes;     *)
(* they are modelled from the calls helpers.go makes on them.              *)
(***************************************************************************)
EXTENDS Naturals, Sequences

CONSTANTS
    Operators,      \* running instances of the operator
    Policies,       \* names of CrashLoopPolicy objects
    MaxSize,        \* bound on spec.replicas
    ExternalSizes,  \* the sizes other writers (a user, an autoscaler) may set
    None,           \* no operator annotation on the object
    MaxExternal     \* bound on the writes of others

VARIABLES
    log,            \* the versions of the object, oldest first
    seen,           \* seen[o]: the version in the cache of instance o
    external        \* writes of others so far

storeVars == <<log, seen, external>>

\* spec.replicas; for a CronJob 1 means running and 0 means suspended.
Sizes == 0..MaxSize

\* The scaled-down-by and previous-replicas annotations (prev is 0 on a
\* CronJob, which has no previous-replicas).
Annotation == [by : Policies, prev : Sizes]

\* "record" and "stop" are the two writes of the operator.
Writer == {"external", "record", "stop"}

Version == [size : Sizes, ann : Annotation \cup {None}, writer : Writer]

ASSUME StoreAssumption ==
    /\ MaxSize \in Nat
    /\ MaxExternal \in Nat
    /\ ExternalSizes \subseteq Sizes
    /\ None \notin Annotation

StoreTypeOK ==
    /\ log \in Seq(Version) /\ Len(log) >= 1
    /\ seen \in [Operators -> Nat]
    /\ \A o \in Operators : seen[o] \in 1..Len(log)
    /\ external \in 0..MaxExternal

-----------------------------------------------------------------------------
\* The live object, and the version instance o reads from its cache.
Latest == log[Len(log)]
Cached(o) == log[seen[o]]

\* Optimistic concurrency: the API server accepts an update of the version
\* with this index only while it is the last one.
Accepts(rv) == rv = Len(log)

\* The object as the operator finds it: running, or already stopped by its
\* owner, and never annotated.
StoreInit ==
    /\ log \in {<<[size |-> n, ann |-> None, writer |-> "external"]>> :
                    n \in ExternalSizes}
    /\ seen = [o \in Operators |-> 1]
    /\ external = 0

-----------------------------------------------------------------------------
\* The watch delivers the next version to the cache of o.
CacheSync(o) ==
    /\ seen[o] < Len(log)
    /\ seen' = [seen EXCEPT ![o] = @ + 1]
    /\ UNCHANGED <<log, external>>

\* A user, a GitOps tool or an autoscaler sets the size to n; with n the
\* present size this is a write of other fields (labels, status), which moves
\* the resourceVersion all the same.
ExternalWrite(n) ==
    /\ external < MaxExternal
    /\ log' = Append(log, [size |-> n, ann |-> Latest.ann, writer |-> "external"])
    /\ external' = external + 1
    /\ UNCHANGED seen

Environment ==
    \/ \E o \in Operators : CacheSync(o)
    \/ \E n \in ExternalSizes \cup {Latest.size} : ExternalWrite(n)
=============================================================================
