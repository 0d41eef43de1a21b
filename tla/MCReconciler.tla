----------------------------- MODULE MCReconciler -----------------------------
(***************************************************************************)
(* Small instances of Reconciler for TLC.                                  *)
(***************************************************************************)
EXTENDS Reconciler

CONSTANTS d, c

\* d is a Deployment, c is a CronJob.
MCKindOf == [w \in Workloads |-> IF w = c THEN "CronJob" ELSE "Deployment"]

\* No workload was stopped before the start, or each was by policy 1, or only d.
Nothing == [w \in Workloads |-> None]
AllOfThem == [w \in Workloads |-> 1]
OnlyD == [w \in Workloads |-> IF w = d THEN 1 ELSE None]

\* Every policy includes everything; or policy 1 does and the others only the
\* CronJob; or the first generation of each only the CronJob, and the second all
\* but the CronJob.
Everything == [p \in Policies |-> [g \in Generations |-> Workloads]]
Overlapping == [p \in Policies |-> [g \in Generations |->
                   IF p = 1 THEN Workloads ELSE {c}]]
Exchanged == [p \in Policies |-> [g \in Generations |->
                 IF g = 1 THEN {c} ELSE Workloads \ {c}]]
=============================================================================
