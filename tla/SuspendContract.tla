--------------------------- MODULE SuspendContract ---------------------------
(***************************************************************************)
(* What the operator may do to a CronJob, as its owner sees the object:    *)
(* whether it runs and who signed the last suspension, without versions,   *)
(* caches, calls or retries.  SuspendCronJob implements this specification *)
(* and so does every CronJob of Reconciler.                                *)
(***************************************************************************)
EXTENDS Naturals

CONSTANTS Policies, ExternalSizes, None

VARIABLES
    size,   \* 1 while the CronJob runs, 0 while it is suspended
    by      \* the policy in the operator's annotations, or None

Init ==
    /\ size \in ExternalSizes
    /\ by = None

\* A policy suspends a running CronJob and signs it, in one step: there is no
\* signature without a suspension and no suspension without a signature.
Suspend(p) ==
    /\ size = 1
    /\ size' = 0
    /\ by' = p

\* Anyone else suspends or resumes it; nobody else touches the signature.
Rescale(n) ==
    /\ size' = n
    /\ UNCHANGED by

Next ==
    \/ \E p \in Policies : Suspend(p)
    \/ \E n \in ExternalSizes : Rescale(n)

Spec == Init /\ [][Next]_<<size, by>>
=============================================================================
