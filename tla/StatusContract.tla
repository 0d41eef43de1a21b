---------------------------- MODULE StatusContract ----------------------------
(***************************************************************************)
(* What the status of a policy may say and how it may change, as a reader  *)
(* of the API server sees it: without caches, queue, calls, conflicts or   *)
(* crashes.  Reconciler implements this specification.                     *)
(***************************************************************************)
EXTENDS Naturals

CONSTANTS Policies, Generations, Scope, CounterSize

VARIABLES
    board,  \* board[p]: the generation of policy p and what its status says
    due     \* due[p]: actions for p that are reported and not yet counted

Init ==
    /\ board = [p \in Policies |->
                  [gen |-> 1, phase |-> "", observed |-> 0, counter |-> 0, listed |-> {}]]
    /\ due = [p \in Policies |-> 0]

\* A user edits the spec.
Edit(p) ==
    /\ board' = [board EXCEPT ![p].gen = @ + 1]
    /\ UNCHANGED due

\* A policy is seen for the first time.
Greet(p) ==
    /\ board[p].phase = ""
    /\ board' = [board EXCEPT ![p].phase = "Pending"]
    /\ UNCHANGED due

\* An action is reported; the counter follows later, or never.
Report(p) ==
    /\ due' = [due EXCEPT ![p] = @ + 1]
    /\ UNCHANGED board

\* An evaluation publishes its result, all at once: which generation it
\* evaluated, none older than the last one and none that did not exist; the
\* workloads it holds, which that generation includes; and actions that were
\* reported and not counted before, added to the counter.
Publish(p, g, n, listed) ==
    /\ board[p].phase # ""
    /\ board[p].observed <= g /\ g <= board[p].gen
    /\ n <= due[p]
    /\ board' = [board EXCEPT ![p] =
                   [gen |-> @.gen, phase |-> "Active", observed |-> g,
                    counter |-> (@.counter + n) % CounterSize, listed |-> listed]]
    /\ due' = [due EXCEPT ![p] = @ - n]

Next ==
    \E p \in Policies :
        \/ Edit(p) \/ Greet(p) \/ Report(p)
        \/ \E g \in Generations, n \in 0..due[p] :
             \E listed \in SUBSET Scope[p][g] : Publish(p, g, n, listed)

Spec == Init /\ [][Next]_<<board, due>>
=============================================================================
