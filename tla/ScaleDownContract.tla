-------------------------- MODULE ScaleDownContract --------------------------
(***************************************************************************)
(* What the operator may do to a workload, as its owner sees the object:   *)
(* the replica count and the annotations, without versions, caches, calls  *)
(* or retries.  ScaleToZero implements this specification.                 *)
(***************************************************************************)
EXTENDS Naturals

CONSTANTS Policies, ExternalSizes, None

VARIABLES
    size,   \* spec.replicas
    ann     \* the operator's annotations, or None

Init ==
    /\ size \in ExternalSizes
    /\ ann = None

\* A policy records the count of a running workload, and changes nothing else.
Record(p) ==
    /\ size > 0
    /\ ann' = [by |-> p, prev |-> size]
    /\ UNCHANGED size

\* The operator stops a running workload that carries a record, and keeps it.
Stop ==
    /\ size > 0
    /\ ann # None
    /\ size' = 0
    /\ UNCHANGED ann

\* Anyone else sets the count; nobody else touches the record.
Rescale(n) ==
    /\ size' = n
    /\ UNCHANGED ann

Next ==
    \/ \E p \in Policies : Record(p)
    \/ Stop
    \/ \E n \in ExternalSizes : Rescale(n)

Spec == Init /\ [][Next]_<<size, ann>>
=============================================================================
