------------------------ MODULE ReconcilerLoop_proofs ------------------------
(***************************************************************************)
(* Proofs about the evaluations of Reconciler and about what they write:   *)
(* every evaluation gets nearer to its end and hands its policy on, a      *)
(* status write says something new, a signature stands on a scope, a       *)
(* CronJob keeps to the contract of its suspension, and a status lists     *)
(* each workload once and only those that were signed, for any policies,   *)
(* generations, workloads, scopes, caps and attempts, and for any number   *)
(* of faults and of events outside.                                        *)
(***************************************************************************)
EXTENDS ReconcilerContract_proofs

-----------------------------------------------------------------------------
(* The loop over the workloads.                                               *)

\* What an evaluation works on: workloads of the generation it read, on which no dry
\* run acts, and of which a CronJob is not stopped in a request of its own.
AtHand ==
    /\ pass.at \in {"loop", "act", "stop"} => pass.todo \subseteq Scope[pass.policy][pass.gen]
    /\ pass.at \in {"act", "stop"} => pass.policy \notin DryRun
    /\ pass.at = "stop" => KindOf[pass.target] # "CronJob"

\* The kinds that are still to be listed.
KindsLeft == Len(pass.kinds) <= 3

\* The ways in which the loop goes on: a workload is done with, one is taken, its
\* record is written, or an attempt is made again.
DoneWith(w) ==
    /\ w \in pass.todo
    /\ pass'.at = "loop" /\ pass'.todo \subseteq pass.todo \ {w}

Taken(w) ==
    /\ w \in pass.todo /\ pass.policy \notin DryRun
    /\ pass.at = "loop" /\ pass'.at = "act" /\ pass'.target = w
    /\ pass'.todo = pass.todo /\ pass'.tries = pass.tries

Recorded ==
    /\ pass.at = "act" /\ pass'.at = "stop" /\ pass'.target = pass.target
    /\ pass'.todo = pass.todo /\ pass'.tries = 0
    /\ KindOf[pass.target] # "CronJob"

TriedAgain ==
    /\ pass.at = "act" /\ pass'.at = "act" /\ pass'.target = pass.target
    /\ pass'.todo = pass.todo
    /\ pass.tries + 1 < MaxTries /\ pass'.tries = pass.tries + 1

\* What the loop does not touch.
FoundKept ==
    /\ pass'.found = pass.found /\ pass'.active = pass.active
    /\ pass'.truncated = pass.truncated /\ pass'.draft = pass.draft

Onwards ==
    /\ pass.at \in {"loop", "act", "stop"}
    /\ pass'.policy = pass.policy /\ pass'.gen = pass.gen /\ pass'.kinds = pass.kinds
    /\ FoundKept /\ queue' = queue /\ timers' = timers
    /\ (\E w \in pass.todo : DoneWith(w) \/ Taken(w)) \/ Recorded \/ TriedAgain

\* A workload that is given up is done with.
LEMMA GivenUpIsDone ==
    ASSUME TypeOK, Fits, pass.at \in {"act", "stop"}, NEW n \in {0, 1}, GiveUp(n),
           queue' = queue, timers' = timers
    PROVE  Onwards
<1>1. pass \in Pass /\ pass.target \in pass.todo
  BY DEF TypeOK, Fits
<1>2. /\ pass'.at = "loop" /\ pass'.todo = pass.todo \ {pass.target}
      /\ pass'.policy = pass.policy /\ pass'.gen = pass.gen /\ pass'.kinds = pass.kinds
      /\ FoundKept
  BY <1>1 DEF GiveUp, Pass, FoundKept
<1> QED
  BY <1>1, <1>2 DEF Onwards, DoneWith

\* A workload that an action is reported for is done with.
LEMMA ActedIsDone ==
    ASSUME TypeOK, Fits, pass.at \in {"act", "stop"}, pass' = Acted,
           queue' = queue, timers' = timers
    PROVE  Onwards
<1>1. pass \in Pass /\ pass.target \in pass.todo
  BY DEF TypeOK, Fits
<1>2. /\ pass'.at = "loop" /\ pass'.todo = pass.todo \ {pass.target}
      /\ pass'.policy = pass.policy /\ pass'.gen = pass.gen /\ pass'.kinds = pass.kinds
      /\ FoundKept
  BY <1>1 DEF Acted, Pass, FoundKept
<1> QED
  BY <1>1, <1>2 DEF Onwards, DoneWith

\* The choice of the workloads.
LEMMA ChoosingGoesOn ==
    ASSUME TypeOK, NEW w \in Workloads, LeaveAlone(w) \/ Rehearse(w) \/ Approach(w)
    PROVE  Onwards
<1>1. /\ pass \in Pass /\ w \in pass.todo /\ pass.at = "loop"
      /\ queue' = queue /\ timers' = timers
  BY DEF TypeOK, LeaveAlone, Rehearse, Approach, Loops
<1>2. CASE LeaveAlone(w)
  <2>1. pass' = [pass EXCEPT !.todo = pass.todo \ {w}]
    BY <1>2 DEF LeaveAlone
  <2>2. /\ pass'.at = "loop" /\ pass'.todo = pass.todo \ {w}
        /\ pass'.policy = pass.policy /\ pass'.gen = pass.gen /\ pass'.kinds = pass.kinds
        /\ FoundKept
    BY <1>1, <2>1 DEF Pass, FoundKept
  <2> QED
    BY <1>1, <2>2 DEF Onwards, DoneWith
<1>3. CASE Rehearse(w)
  <2>1. pass' = [Acted EXCEPT !.todo = Acted.todo \ {w}] /\ pass.policy \in Policies
    BY <1>1, <1>3 DEF Rehearse, TypeOK
  <2>2. Acted \in Pass /\ Acted.at = "loop" /\ Acted.policy = pass.policy
        /\ Acted.todo = pass.todo \ {pass.target}
    BY <2>1, ActedIsTyped
  <2>3. Acted.gen = pass.gen /\ Acted.kinds = pass.kinds
        /\ Acted.found = pass.found /\ Acted.active = pass.active
        /\ Acted.truncated = pass.truncated /\ Acted.draft = pass.draft
    BY <1>1 DEF Acted, Pass
  <2>4. /\ pass'.at = "loop" /\ pass'.todo = (pass.todo \ {pass.target}) \ {w}
        /\ pass'.policy = pass.policy /\ pass'.gen = pass.gen /\ pass'.kinds = pass.kinds
        /\ FoundKept
    BY <2>1, <2>2, <2>3 DEF Pass, FoundKept
  <2> QED
    BY <1>1, <2>4 DEF Onwards, DoneWith
<1>4. CASE Approach(w)
  <2>1. pass' = [pass EXCEPT !.at = "act", !.target = w] /\ pass.policy \notin DryRun
    BY <1>4 DEF Approach
  <2>2. /\ pass'.at = "act" /\ pass'.todo = pass.todo /\ pass'.target = w
        /\ pass'.tries = pass.tries
        /\ pass'.policy = pass.policy /\ pass'.gen = pass.gen /\ pass'.kinds = pass.kinds
        /\ FoundKept
    BY <1>1, <2>1 DEF Pass, FoundKept
  <2> QED
    BY <1>1, <2>1, <2>2 DEF Onwards, Taken
<1> QED
  BY <1>2, <1>3, <1>4

\* The action on a workload, its conflicts and its failures.
LEMMA ActingGoesOn ==
    ASSUME TypeOK, Fits,
           \/ Record \/ Stop \/ Suspend \/ WorkloadConflict
           \/ WorkloadFails \/ StopAnswerLost
    PROVE  Onwards
<1>1. pass \in Pass /\ queue' = queue /\ timers' = timers
  BY DEF TypeOK, Record, Stop, Suspend, WorkloadConflict, WorkloadFails, StopAnswerLost, Acts
<1>2. CASE Record
  <2>1. pass.at \in {"act", "stop"} /\ pass.at = "act" /\ KindOf[pass.target] # "CronJob"
    BY <1>2 DEF Record
  <2>2. GiveUp(0) \/ pass' = [pass EXCEPT !.at = "stop", !.tries = 0]
    BY <1>2, Zenon DEF Record
  <2>3. ASSUME pass' = [pass EXCEPT !.at = "stop", !.tries = 0]
        PROVE  /\ pass'.at = "stop" /\ pass'.target = pass.target /\ pass'.todo = pass.todo
               /\ pass'.tries = 0
               /\ pass'.policy = pass.policy /\ pass'.gen = pass.gen /\ pass'.kinds = pass.kinds
               /\ FoundKept
    BY <1>1, <2>3 DEF Pass, FoundKept
  <2> QED
    BY <1>1, <2>1, <2>2, <2>3, GivenUpIsDone DEF Onwards, Recorded
<1>3. CASE Stop \/ Suspend
  BY <1>1, <1>3, ActedIsDone DEF Stop, Suspend
<1>4. CASE WorkloadConflict
  <2>1. pass.at \in {"act", "stop"} /\ pass.at = "act"
    BY <1>4 DEF WorkloadConflict
  <2>2. \/ GiveUp(1)
        \/ pass.tries + 1 < MaxTries /\ pass' = [pass EXCEPT !.tries = pass.tries + 1]
    BY <1>4, Zenon DEF WorkloadConflict
  <2>3. ASSUME pass' = [pass EXCEPT !.tries = pass.tries + 1]
        PROVE  /\ pass'.at = pass.at /\ pass'.target = pass.target /\ pass'.todo = pass.todo
               /\ pass'.tries = pass.tries + 1
               /\ pass'.policy = pass.policy /\ pass'.gen = pass.gen /\ pass'.kinds = pass.kinds
               /\ FoundKept
    BY <1>1, <2>3 DEF Pass, FoundKept
  <2> QED
    BY <1>1, <2>1, <2>2, <2>3, GivenUpIsDone DEF Onwards, TriedAgain
<1>5. CASE WorkloadFails
  <2>1. ASSUME NEW w \in pass.todo, pass.at = "loop",
               pass' = [pass EXCEPT !.todo = pass.todo \ {w}, !.errors = pass.errors + 1]
        PROVE  Onwards
    <3>1. /\ pass'.at = "loop" /\ pass'.todo = pass.todo \ {w}
          /\ pass'.policy = pass.policy /\ pass'.gen = pass.gen /\ pass'.kinds = pass.kinds
          /\ FoundKept
      BY <1>1, <2>1 DEF Pass, FoundKept
    <3> QED
      BY <1>1, <2>1, <3>1 DEF Onwards, DoneWith
  <2> QED
    BY <1>1, <1>5, <2>1, GivenUpIsDone DEF WorkloadFails
<1>6. CASE StopAnswerLost
  BY <1>1, <1>6, GivenUpIsDone DEF StopAnswerLost
<1> QED
  BY <1>2, <1>3, <1>4, <1>5, <1>6

-----------------------------------------------------------------------------
(* EvaluationsEnd.                                                            *)

\* More workloads to do are more steps to take.
LEMMA RoundsGrow ==
    ASSUME NEW n \in Nat
    PROVE  /\ Rounds(n) \in Nat /\ Rounds(n) >= 2 * MaxTries + 5
           /\ \A m \in Nat : m <= n => Rounds(m) <= Rounds(n)
           /\ n > 0 => Rounds(n) = Rounds(n - 1) + MaxTries + 2
<1>1. MaxTries \in Nat /\ MaxTries + 2 \in Nat
  BY ReconcilerAssumption
<1>2. ASSUME NEW k \in Nat, NEW l \in Nat
      PROVE  /\ l * k \in Nat
             /\ \A m \in Nat : m <= l => m * k <= l * k
             /\ l > 0 => l * k = (l - 1) * k + k
  <2>1. l * k \in Nat
    BY <1>2
  <2>2. ASSUME NEW m \in Nat, m <= l
        PROVE  m * k <= l * k
    <3>1. (l - m) * k \in Nat /\ m * k \in Nat
      BY <2>2, <1>2
    <3>2. l * k = m * k + (l - m) * k
      BY <2>2, <1>2
    <3> QED
      BY <3>1, <3>2
  <2>3. l > 0 => l * k = (l - 1) * k + k
    BY <1>2
  <2> QED
    BY <2>1, <2>2, <2>3
<1>3. /\ n * (MaxTries + 2) \in Nat
      /\ \A m \in Nat : m <= n => m * (MaxTries + 2) <= n * (MaxTries + 2)
      /\ n > 0 => n * (MaxTries + 2) = (n - 1) * (MaxTries + 2) + (MaxTries + 2)
  BY <1>1, <1>2
<1>4. \A m \in Nat : m * (MaxTries + 2) \in Nat
  BY <1>1, <1>2
<1> DEFINE part(m) == m * (MaxTries + 2)
<1>5. /\ \A m \in Nat : Rounds(m) = part(m) + 2 * MaxTries + 5
      /\ part(n) \in Nat /\ \A m \in Nat : part(m) \in Nat
      /\ \A m \in Nat : m <= n => part(m) <= part(n)
      /\ n > 0 => part(n) = part(n - 1) + (MaxTries + 2)
  BY <1>3, <1>4 DEF Rounds
<1> HIDE DEF part
<1>6. Rounds(n) \in Nat /\ Rounds(n) >= 2 * MaxTries + 5
  BY <1>1, <1>5
<1>7. \A m \in Nat : m <= n => Rounds(m) <= Rounds(n)
  BY <1>1, <1>5
<1>8. n > 0 => Rounds(n) = Rounds(n - 1) + MaxTries + 2
  BY <1>1, <1>5
<1> QED
  BY <1>6, <1>7, <1>8

\* The numbers an evaluation counts with.
LEMMA PassNumbers ==
    ASSUME TypeOK, Fits
    PROVE  /\ MaxTries \in Nat \ {0} /\ pass.tries \in 0..(MaxTries - 1)
           /\ Cardinality(Workloads) \in Nat /\ Cardinality(pass.todo) \in Nat
           /\ Cardinality(pass.todo) <= Cardinality(Workloads)
           /\ pass.at \in {"act", "stop"} => Cardinality(pass.todo) > 0
           /\ Len(pass.kinds) \in Nat
<1>1. pass.todo \in SUBSET Workloads /\ pass.tries \in 0..(MaxTries - 1)
      /\ Len(pass.kinds) \in Nat
  BY DEF TypeOK, Pass
<1>2. ASSUME pass.at \in {"act", "stop"}
      PROVE  Cardinality(pass.todo) > 0
  <2>1. pass.target \in pass.todo
    BY <1>2 DEF Fits
  <2>2. /\ Cardinality(pass.todo \ {pass.target}) = Cardinality(pass.todo) - 1
        /\ Cardinality(pass.todo \ {pass.target}) \in Nat /\ Cardinality(pass.todo) \in Nat
    BY <1>1, <2>1, OneLess, SmallerSets
  <2> QED
    BY <2>2
<1> QED
  BY <1>1, <1>2, WorkloadsAreFinite, ReconcilerAssumption

\* An evaluation in progress has steps left.
LEMMA SomeRemain ==
    ASSUME TypeOK, Fits, pass.at # "idle"
    PROVE  Remaining \in Nat \ {0}
<1> DEFINE n == Cardinality(pass.todo)
           all == Rounds(Cardinality(Workloads))
<1>1. /\ MaxTries \in Nat \ {0} /\ pass.tries \in 0..(MaxTries - 1)
      /\ all \in Nat /\ Rounds(n) \in Nat /\ Rounds(n) >= 1
      /\ pass.at \in {"act", "stop"} => Rounds(n - 1) \in Nat
      /\ Len(pass.kinds) \in Nat
  <2>1. /\ n \in Nat /\ Cardinality(Workloads) \in Nat
        /\ pass.at \in {"act", "stop"} => n - 1 \in Nat
    BY PassNumbers
  <2>2. /\ all \in Nat /\ Rounds(n) \in Nat /\ Rounds(n) >= 2 * MaxTries + 5
        /\ pass.at \in {"act", "stop"} => Rounds(n - 1) \in Nat
    BY <2>1, RoundsGrow
  <2> QED
    BY <2>2, PassNumbers
<1>2. pass.at \in Place \ {"idle"}
  BY DEF TypeOK, Pass
<1> DEFINE left == 2 * (MaxTries - pass.tries)
<1>7. left \in Nat /\ left - 1 \in Nat /\ left - 1 > 0
  <2>1. MaxTries \in Nat /\ pass.tries \in Nat /\ pass.tries < MaxTries
    BY <1>1
  <2> QED
    BY <2>1
<1> HIDE DEF all, n
<1>3. CASE pass.at \in {"pendingGet", "pendingPut", "list"}
  <2>1. \/ Remaining = all + left + 1
        \/ Remaining = all + left
        \/ Remaining = all + 1
    BY <1>3 DEF Remaining, all
  <2>2. all \in Nat
    BY <1>1
  <2> HIDE DEF left
  <2> QED
    BY <1>7, <2>1, <2>2
<1>4. CASE pass.at \in {"loop", "act", "stop"}
  <2>1. \/ pass.at = "loop" /\ Remaining = Rounds(n)
        \/ pass.at = "act" /\ Remaining = Rounds(n - 1) + MaxTries - pass.tries + 1
        \/ pass.at = "stop" /\ Remaining = Rounds(n - 1) + 1
    BY <1>4 DEF Remaining, n
  <2> QED
    BY <1>1, <2>1
<1>5. CASE pass.at \in {"collect", "statusGet", "statusPut"}
  <2>1. \/ Remaining = Len(pass.kinds) + 2 * MaxTries + 1
        \/ Remaining = left
        \/ Remaining = left - 1
    BY <1>5 DEF Remaining
  <2>2. Len(pass.kinds) \in Nat /\ 2 * MaxTries \in Nat
    BY <1>1
  <2> HIDE DEF left
  <2> QED
    BY <1>7, <2>1, <2>2
<1>6. \/ pass.at \in {"pendingGet", "pendingPut", "list"}
      \/ pass.at \in {"loop", "act", "stop"}
      \/ pass.at \in {"collect", "statusGet", "statusPut"}
  BY <1>2 DEF Place
<1> QED
  BY <1>3, <1>4, <1>5, <1>6

\* An evaluation that is over has none.
LEMMA NoneRemain ==
    ASSUME TypeOK, Fits, pass.at # "idle", pass' = NoPass
    PROVE  Remaining' < Remaining
<1>1. Remaining' = 0
  BY DEF Remaining, NoPass
<1> QED
  BY <1>1, SomeRemain

\* A round of the loop is a step nearer to the end.
LEMMA OnwardsIsNearer ==
    ASSUME TypeOK, Fits, Onwards, pass'.todo \in SUBSET Workloads
    PROVE  Remaining' < Remaining
<1> DEFINE n == Cardinality(pass.todo)
           m == Cardinality(pass'.todo)
<1>1. /\ MaxTries \in Nat \ {0} /\ pass.tries \in 0..(MaxTries - 1) /\ n \in Nat
      /\ pass.at \in {"loop", "act", "stop"}
  BY PassNumbers DEF Onwards
<1>2. \/ pass.at = "loop" /\ Remaining = Rounds(n)
      \/ pass.at = "act" /\ Remaining = Rounds(n - 1) + MaxTries - pass.tries + 1
      \/ pass.at = "stop" /\ Remaining = Rounds(n - 1) + 1
  BY <1>1 DEF Remaining
<1>3. ASSUME n > 0
      PROVE  /\ n - 1 \in Nat /\ Rounds(n - 1) \in Nat
             /\ Rounds(n) = Rounds(n - 1) + MaxTries + 2
             /\ \A k \in Nat : k <= n - 1 => Rounds(k) <= Rounds(n - 1)
             /\ \A k \in Nat : Rounds(k) \in Nat
  <2>1. n - 1 \in Nat
    BY <1>1, <1>3
  <2> QED
    BY <1>1, <1>3, <2>1, RoundsGrow
<1>4. pass.todo # {} => n > 0
  <2>1. ASSUME NEW w \in pass.todo
        PROVE  n > 0
    <3>1. pass.todo \in SUBSET Workloads
      BY DEF TypeOK, Pass
    <3>2. n - 1 = Cardinality(pass.todo \ {w}) /\ Cardinality(pass.todo \ {w}) \in Nat
      BY <3>1, OneLess, SmallerSets
    <3> QED
      BY <1>1, <3>2
  <2> QED
    BY <2>1
<1>5. CASE \E w \in pass.todo : DoneWith(w)
  <2>1. PICK w \in pass.todo : pass'.at = "loop" /\ pass'.todo \subseteq pass.todo \ {w}
    BY <1>5 DEF DoneWith
  <2>2. pass.todo \in SUBSET Workloads
    BY DEF TypeOK, Pass
  <2>3. m \in Nat /\ m <= n - 1
    <3>1. Cardinality(pass.todo \ {w}) = n - 1
      BY <2>2, OneLess
    <3>2. pass.todo \ {w} \in SUBSET Workloads /\ pass'.todo \in SUBSET (pass.todo \ {w})
      BY <2>1, <2>2
    <3>3. m \in Nat /\ m <= Cardinality(pass.todo \ {w})
      BY <3>2, SmallerSets
    <3> QED
      BY <3>1, <3>3
  <2>4. Remaining' = Rounds(m)
    BY <2>1 DEF Remaining, Rounds
  <2>5. n > 0
    BY <1>4
  <2>6. Rounds(m) \in Nat /\ Rounds(m) <= Rounds(n - 1) /\ Rounds(n - 1) \in Nat
        /\ Rounds(n) = Rounds(n - 1) + MaxTries + 2
    BY <1>3, <2>3, <2>5
  <2> HIDE DEF n, m
  <2>7. Rounds(m) < Remaining
    BY <1>1, <1>2, <2>6
  <2> QED
    BY <2>4, <2>7
<1>6. CASE \E w \in pass.todo : Taken(w)
  <2>1. /\ pass.at = "loop" /\ pass'.at = "act" /\ pass'.todo = pass.todo
        /\ pass'.tries = pass.tries /\ n > 0
    BY <1>4, <1>6 DEF Taken
  <2>2. Remaining' = Rounds(n - 1) + MaxTries - pass.tries + 1
    BY <2>1 DEF Remaining, Rounds
  <2>3. Remaining = Rounds(n)
    BY <1>2, <2>1
  <2> HIDE DEF n
  <2> QED
    BY <1>1, <1>3, <2>1, <2>2, <2>3
<1>7. CASE Recorded
  <2>1. /\ pass.at = "act" /\ pass'.at = "stop" /\ pass'.todo = pass.todo /\ n > 0
    BY <1>4, <1>7 DEF Recorded, Fits
  <2>2. Remaining' = Rounds(n - 1) + 1
    BY <2>1 DEF Remaining, Rounds
  <2>3. Remaining = Rounds(n - 1) + MaxTries - pass.tries + 1
    BY <1>2, <2>1
  <2> HIDE DEF n
  <2> QED
    BY <1>1, <1>3, <2>1, <2>2, <2>3
<1>8. CASE TriedAgain
  <2>1. /\ pass.at = "act" /\ pass'.at = "act" /\ pass'.todo = pass.todo
        /\ pass'.tries = pass.tries + 1 /\ n > 0
    BY <1>4, <1>8 DEF TriedAgain, Fits
  <2>2. Remaining' = Rounds(n - 1) + MaxTries - (pass.tries + 1) + 1
    BY <2>1 DEF Remaining, Rounds
  <2>3. Remaining = Rounds(n - 1) + MaxTries - pass.tries + 1
    BY <1>2, <2>1
  <2> HIDE DEF n
  <2> QED
    BY <1>1, <1>3, <2>1, <2>2, <2>3
<1> QED
  BY <1>5, <1>6, <1>7, <1>8 DEF Onwards

\* What the attempts and the kinds are counted with.
LEMMA Quantities ==
    ASSUME TypeOK, Fits
    PROVE  /\ MaxTries \in Nat /\ pass.tries \in Nat /\ pass.tries < MaxTries
           /\ Rounds(Cardinality(Workloads)) \in Nat /\ Len(pass.kinds) \in Nat
           /\ pass \in Pass
<1>1. MaxTries \in Nat /\ pass.tries \in Nat /\ pass.tries < MaxTries
  <2>1. MaxTries \in Nat \ {0} /\ pass.tries \in 0..(MaxTries - 1)
    BY PassNumbers
  <2> QED
    BY <2>1
<1>2. Rounds(Cardinality(Workloads)) \in Nat
  BY PassNumbers, RoundsGrow
<1> QED
  BY <1>1, <1>2, PassNumbers DEF TypeOK

\* The attempts of a status write.
LEMMA RetryIsNearer ==
    ASSUME TypeOK, Fits,
           \/ pass.at = "pendingPut" /\ RetryFrom("pendingGet")
           \/ pass.at = "statusPut" /\ RetryFrom("statusGet")
    PROVE  Remaining' < Remaining
<1> DEFINE all == Rounds(Cardinality(Workloads))
<1>1. /\ MaxTries \in Nat /\ pass.tries \in Nat /\ all \in Nat /\ pass \in Pass
      /\ pass.at # "idle"
  BY Quantities
<1>2. CASE pass' = NoPass
  BY <1>1, <1>2, NoneRemain
<1>3. CASE pass' # NoPass
  <2>1. pass'.tries = pass.tries + 1
        /\ \/ pass.at = "pendingPut" /\ pass'.at = "pendingGet"
           \/ pass.at = "statusPut" /\ pass'.at = "statusGet"
    BY <1>1, <1>3 DEF RetryFrom, Finish, Pass
  <2>2. CASE pass.at = "pendingPut"
    <3>1. Remaining = all + 2 * (MaxTries - pass.tries)
      BY <2>2 DEF Remaining
    <3>2. Remaining' = all + 2 * (MaxTries - (pass.tries + 1)) + 1
      BY <2>1, <2>2 DEF Remaining, Rounds
    <3> HIDE DEF all
    <3> QED
      BY <1>1, <3>1, <3>2
  <2>3. CASE pass.at = "statusPut"
    <3>1. Remaining = 2 * (MaxTries - pass.tries) - 1
      BY <2>3 DEF Remaining
    <3>2. Remaining' = 2 * (MaxTries - (pass.tries + 1))
      BY <2>1, <2>3 DEF Remaining
    <3> QED
      BY <1>1, <3>1, <3>2
  <2> QED
    BY <2>1, <2>2, <2>3
<1> QED
  BY <1>2, <1>3

\* The initial phase.
LEMMA PendingIsNearer ==
    ASSUME TypeOK, Fits, PendingGet \/ PendingPut \/ PendingConflict
    PROVE  Remaining' < Remaining
<1> DEFINE all == Rounds(Cardinality(Workloads))
<1>1. /\ MaxTries \in Nat /\ pass.tries \in Nat /\ pass.tries < MaxTries
      /\ all \in Nat /\ pass \in Pass
  BY Quantities
<1>2. CASE PendingGet
  <2>1. pass.at = "pendingGet" /\ pass'.at = "pendingPut" /\ pass'.tries = pass.tries
    BY <1>1, <1>2 DEF PendingGet, Draft, Pass
  <2>2. Remaining = all + 2 * (MaxTries - pass.tries) + 1
    BY <2>1 DEF Remaining
  <2>3. Remaining' = all + 2 * (MaxTries - pass.tries)
    BY <2>1 DEF Remaining, Rounds
  <2> HIDE DEF all
  <2> QED
    BY <1>1, <2>2, <2>3
<1>3. CASE PendingPut
  <2>1. pass.at = "pendingPut" /\ pass'.at = "list"
    BY <1>1, <1>3 DEF PendingPut, Pass
  <2>2. Remaining = all + 2 * (MaxTries - pass.tries)
    BY <2>1 DEF Remaining
  <2>3. Remaining' = all + 1
    BY <2>1 DEF Remaining, Rounds
  <2> HIDE DEF all
  <2> QED
    BY <1>1, <2>2, <2>3
<1>4. CASE PendingConflict
  BY <1>4, RetryIsNearer DEF PendingConflict
<1> QED
  BY <1>2, <1>3, <1>4

\* The begin and the end of the loop.
LEMMA ListingIsNearer ==
    ASSUME TypeOK, Fits, KindsLeft, TypeOK', Fits', List \/ LoopEnds
    PROVE  Remaining' < Remaining
<1> DEFINE all == Rounds(Cardinality(Workloads))
<1>1. pass \in Pass
  BY DEF TypeOK
<1>2. CASE List
  <2>1. pass.at = "list" /\ pass'.at = "loop"
    BY <1>1, <1>2 DEF List, Pass
  <2>2. Cardinality(pass'.todo) \in Nat /\ Cardinality(pass'.todo) <= Cardinality(Workloads)
    BY WorkloadsAreFinite DEF TypeOK, Pass
  <2>3. Remaining = all + 1
    BY <2>1 DEF Remaining
  <2>4. Remaining' = Rounds(Cardinality(pass'.todo))
    BY <2>1 DEF Remaining, Rounds
  <2>5. /\ all \in Nat /\ Rounds(Cardinality(pass'.todo)) \in Nat
        /\ Rounds(Cardinality(pass'.todo)) <= all
    BY <2>2, RoundsGrow, PassNumbers
  <2> HIDE DEF all
  <2> QED
    BY <2>3, <2>4, <2>5
<1>3. CASE LoopEnds
  <2> DEFINE k == Len(pass.kinds)
  <2>1. pass.at = "loop" /\ pass'.at = "collect" /\ pass'.kinds = pass.kinds
    BY <1>1, <1>3 DEF LoopEnds, Loops, Pass
  <2>2. Remaining = Rounds(Cardinality(pass.todo))
    BY <2>1 DEF Remaining
  <2>3. Remaining' = k + 2 * MaxTries + 1
    BY <2>1 DEF Remaining
  <2>4. /\ Remaining \in Nat /\ Remaining >= 2 * MaxTries + 5
        /\ k \in Nat /\ k <= 3 /\ MaxTries \in Nat
    BY <2>2, RoundsGrow, PassNumbers DEF KindsLeft
  <2> HIDE DEF k
  <2> QED
    BY <2>3, <2>4
<1> QED
  BY <1>2, <1>3

\* The list of what is held down.
LEMMA CollectingIsNearer ==
    ASSUME TypeOK, Fits, ListKind \/ Collected \/ ListKindFails
    PROVE  Remaining' < Remaining
<1> DEFINE k == Len(pass.kinds)
<1>1. /\ pass \in Pass /\ pass.at = "collect" /\ k \in Nat
      /\ MaxTries \in Nat /\ pass.tries \in Nat
  BY Quantities DEF ListKind, Collected, ListKindFails, Collects
<1>2. Remaining = k + 2 * MaxTries + 1
  BY <1>1 DEF Remaining
<1>3. CASE ListKind
  <2>1. pass'.at = "collect" /\ pass'.kinds = Tail(pass.kinds) /\ pass.kinds # <<>>
    BY <1>1, <1>3 DEF ListKind, Pass
  <2>2. Len(Tail(pass.kinds)) = Len(pass.kinds) - 1
    BY <1>1, <2>1, HeadTailProperties DEF Pass
  <2>3. Remaining' = k - 1 + 2 * MaxTries + 1
    BY <2>1, <2>2 DEF Remaining
  <2> HIDE DEF k
  <2> QED
    BY <1>1, <1>2, <2>3
<1>4. CASE Collected \/ ListKindFails
  <2>1. pass'.at = "statusGet" /\ pass'.tries = pass.tries
    BY <1>1, <1>4 DEF Collected, ListKindFails, Pass
  <2>2. Remaining' = 2 * (MaxTries - pass.tries)
    BY <2>1 DEF Remaining
  <2> HIDE DEF k
  <2> QED
    BY <1>1, <1>2, <2>2
<1> QED
  BY <1>3, <1>4

\* The status.
LEMMA StatusIsNearer ==
    ASSUME TypeOK, Fits, StatusGet \/ StatusPut \/ StatusConflict \/ StatusAnswerLost \/ CallFails
    PROVE  Remaining' < Remaining
<1>1. /\ pass \in Pass /\ MaxTries \in Nat /\ pass.tries \in Nat /\ pass.at # "idle"
  BY PassNumbers DEF TypeOK, StatusGet, StatusPut, StatusConflict, StatusAnswerLost, CallFails
<1>2. CASE pass' = NoPass
  BY <1>1, <1>2, NoneRemain
<1>3. CASE StatusGet /\ pass' # NoPass
  <2>1. pass.at = "statusGet" /\ pass'.at = "statusPut" /\ pass'.tries = pass.tries
    BY <1>1, <1>3 DEF StatusGet, Finish, Draft, Pass
  <2>2. Remaining = 2 * (MaxTries - pass.tries)
    BY <2>1 DEF Remaining
  <2>3. Remaining' = 2 * (MaxTries - pass.tries) - 1
    BY <2>1 DEF Remaining
  <2> QED
    BY <1>1, <2>2, <2>3
<1>4. CASE StatusConflict
  BY <1>4, RetryIsNearer DEF StatusConflict
<1> QED
  BY <1>2, <1>3, <1>4 DEF StatusPut, StatusAnswerLost, CallFails, Finish

-----------------------------------------------------------------------------
(* What every evaluation keeps to.                                            *)

\* A step of the kinds of the calls around the loop.
Around ==
    /\ pass'.at \notin {"loop", "act", "stop"}
    /\ pass'.kinds = pass.kinds \/ pass'.kinds = Kinds
       \/ (pass.kinds # <<>> /\ pass'.kinds = Tail(pass.kinds))

\* The steps around the loop keep what the loop keeps to.
LEMMA AroundTheLoop ==
    ASSUME TypeOK, AtHand, KindsLeft, Around
    PROVE  AtHand' /\ KindsLeft'
<1>1. AtHand'
  BY DEF AtHand, Around
<1>2. Len(pass.kinds) \in Nat /\ pass.kinds \in Seq({"Deployment", "StatefulSet", "CronJob"})
  BY DEF TypeOK, Pass
<1>3. Len(Kinds) = 3
  BY DEF Kinds
<1>4. ASSUME pass.kinds # <<>>
      PROVE  Len(Tail(pass.kinds)) = Len(pass.kinds) - 1
  BY <1>2, <1>4, HeadTailProperties
<1>5. CASE pass'.kinds = pass.kinds
  BY <1>1, <1>5 DEF KindsLeft
<1>6. CASE pass'.kinds = Kinds
  <2>1. Len(pass'.kinds) = 3
    BY <1>3, <1>6
  <2>2. Len(pass'.kinds) <= 3
    BY <2>1
  <2> QED
    BY <1>1, <2>2 DEF KindsLeft
<1>7. CASE pass.kinds # <<>> /\ pass'.kinds = Tail(pass.kinds)
  <2>1. Len(pass'.kinds) = Len(pass.kinds) - 1
    BY <1>4, <1>7
  <2> QED
    BY <1>1, <1>2, <2>1 DEF KindsLeft
<1> QED
  BY <1>5, <1>6, <1>7 DEF Around

\* An evaluation that is over, or that has just begun.
LEMMA BeginningAndEnd ==
    ASSUME NEW p \in Policies, pass' = NoPass \/ Start(p)
    PROVE  Around
<1>1. NoPass.at = "idle" /\ NoPass.kinds = Kinds
  BY DEF NoPass
<1>2. ASSUME Start(p)
      PROVE  pass'.at \in {"pendingGet", "list"} /\ pass'.kinds = Kinds
  BY <1>2 DEF Start, NoPass
<1> QED
  BY <1>1, <1>2 DEF Around

\* The calls for the status.
LEMMA StatusIsAround ==
    ASSUME TypeOK,
           \/ PendingGet \/ PendingPut \/ PendingConflict
           \/ StatusGet \/ StatusPut \/ StatusConflict
           \/ CallFails \/ StatusAnswerLost
    PROVE  Around
<1>1. pass \in Pass
  BY DEF TypeOK
<1>2. CASE pass' = NoPass
  BY <1>2 DEF Around, NoPass
<1>3. CASE PendingGet \/ PendingPut
  <2>1. pass'.at \in {"pendingPut", "list"} /\ pass'.kinds = pass.kinds
    <3>1. CASE PendingGet
      BY <1>1, <3>1 DEF PendingGet, Draft, Pass
    <3>2. CASE PendingPut
      BY <1>1, <3>2 DEF PendingPut, Pass
    <3> QED
      BY <1>3, <3>1, <3>2
  <2> QED
    BY <2>1 DEF Around
<1>4. CASE (PendingConflict \/ StatusConflict) /\ pass' # NoPass
  <2>1. pass'.at \in {"pendingGet", "statusGet"} /\ pass'.kinds = pass.kinds
    BY <1>1, <1>4 DEF PendingConflict, StatusConflict, RetryFrom, Finish, Pass
  <2> QED
    BY <2>1 DEF Around
<1>5. CASE StatusGet /\ pass' # NoPass
  <2>1. pass'.at = "statusPut" /\ pass'.kinds = pass.kinds
    BY <1>1, <1>5 DEF StatusGet, Finish, Draft, Pass
  <2> QED
    BY <2>1 DEF Around
<1> QED
  BY <1>2, <1>3, <1>4, <1>5 DEF StatusPut, StatusAnswerLost, CallFails, Finish

\* The end of the loop, and the lists of the kinds.
LEMMA CollectingIsAround ==
    ASSUME TypeOK, LoopEnds \/ ListKind \/ Collected \/ ListKindFails
    PROVE  Around
<1>1. pass \in Pass
  BY DEF TypeOK
<1>2. CASE LoopEnds \/ Collected \/ ListKindFails
  <2>1. pass'.at \in {"collect", "statusGet"} /\ pass'.kinds = pass.kinds
    BY <1>1, <1>2 DEF LoopEnds, Collected, ListKindFails, Pass
  <2> QED
    BY <2>1 DEF Around
<1>3. CASE ListKind
  <2>1. pass'.at = "collect" /\ pass.kinds # <<>> /\ pass'.kinds = Tail(pass.kinds)
    BY <1>1, <1>3 DEF ListKind, Collects, Pass
  <2> QED
    BY <2>1 DEF Around
<1> QED
  BY <1>2, <1>3

\* The list of pods is filtered by the scope of the evaluation.
LEMMA ListIsInScope ==
    ASSUME TypeOK, KindsLeft, List
    PROVE  AtHand' /\ KindsLeft'
<1>1. pass \in Pass
  BY DEF TypeOK
<1>2. /\ pass'.at = "loop" /\ pass'.policy = pass.policy /\ pass'.gen = pass.gen
      /\ pass'.todo = {w \in Scope[pass.policy][pass.gen] : pass.policy \in failing[w]}
      /\ pass'.kinds = pass.kinds
  BY <1>1 DEF List, Pass
<1>3. pass'.todo \subseteq Scope[pass.policy][pass.gen]
  BY <1>2
<1>4. AtHand'
  BY <1>2, <1>3 DEF AtHand
<1> QED
  BY <1>2, <1>4 DEF KindsLeft

\* The loop stays in it.
LEMMA OnwardsInScope ==
    ASSUME AtHand, KindsLeft, Onwards
    PROVE  AtHand' /\ KindsLeft'
<1>1. pass.todo \subseteq Scope[pass.policy][pass.gen]
      /\ (pass.at \in {"act", "stop"} => pass.policy \notin DryRun)
  BY DEF AtHand, Onwards
<1>2. /\ pass'.policy = pass.policy /\ pass'.gen = pass.gen /\ pass'.kinds = pass.kinds
      /\ (\E w \in pass.todo : DoneWith(w) \/ Taken(w)) \/ Recorded \/ TriedAgain
  BY DEF Onwards
<1>3. Scope[pass'.policy][pass'.gen] = Scope[pass.policy][pass.gen]
  BY <1>2
<1>4. pass'.todo \subseteq pass.todo
  BY <1>2 DEF DoneWith, Taken, Recorded, TriedAgain
<1>5. pass'.todo \subseteq Scope[pass'.policy][pass'.gen]
  BY <1>1, <1>3, <1>4
<1>6. \/ pass'.at = "loop"
      \/ pass'.at = "act" /\ pass.policy \notin DryRun
      \/ /\ pass'.at = "stop" /\ pass.policy \notin DryRun
         /\ pass'.target = pass.target /\ KindOf[pass.target] # "CronJob"
  BY <1>1, <1>2 DEF DoneWith, Taken, Recorded, TriedAgain
<1>7. AtHand'
  BY <1>2, <1>5, <1>6 DEF AtHand
<1> QED
  BY <1>2, <1>7 DEF KindsLeft

\* A step outside the evaluation, or none.
LEMMA OutsideKeepsHands ==
    ASSUME TypeOK, AtHand, KindsLeft, pass' = pass \/ pass' = [pass EXCEPT !.fresh = FALSE]
    PROVE  /\ AtHand' /\ KindsLeft'
           /\ UNCHANGED <<pass.at, pass.tries, pass.todo, pass.kinds>>
<1>1. /\ pass'.at = pass.at /\ pass'.policy = pass.policy /\ pass'.gen = pass.gen
      /\ pass'.todo = pass.todo /\ pass'.target = pass.target
      /\ pass'.tries = pass.tries /\ pass'.kinds = pass.kinds
  BY DEF TypeOK, Pass
<1> QED
  BY <1>1 DEF AtHand, KindsLeft

\* The steps of an evaluation.
Steps ==
    \/ \E p \in Policies : Start(p)
    \/ List \/ Onwards
    \/ LoopEnds \/ ListKind \/ Collected \/ ListKindFails
    \/ PendingGet \/ PendingPut \/ PendingConflict
    \/ StatusGet \/ StatusPut \/ StatusConflict
    \/ CallFails \/ StatusAnswerLost
    \/ Crash

\* The steps of everyone else.
Elsewhere ==
    \/ Outside
    \/ \E p \in Policies : PolicySync(p) \/ TimerFires(p)
    \/ \E w \in Workloads : WorkloadSync(w) \/ PodsGone(w)

LEMMA StepsOfALoop ==
    ASSUME TypeOK, Fits, [Next]_vars
    PROVE  UNCHANGED vars \/ Elsewhere \/ Steps
<1>1. CASE Proceed
  BY <1>1, ChoosingGoesOn, ActingGoesOn DEF Proceed, Steps
<1>2. CASE Fault
  BY <1>2, ActingGoesOn DEF Fault, Steps
<1> QED
  BY <1>1, <1>2 DEF Next, Elsewhere, Steps

\* Everyone else leaves an evaluation as it is, or makes its draft an old one.
LEMMA ElsewhereWaits ==
    ASSUME UNCHANGED vars \/ Elsewhere
    PROVE  pass' = pass \/ pass' = [pass EXCEPT !.fresh = FALSE]
BY OutsideThePass DEF vars, Elsewhere

\* Every step keeps what an evaluation keeps to.
LEMMA HandsStay == TypeOK /\ Fits /\ AtHand /\ KindsLeft /\ [Next]_vars => AtHand' /\ KindsLeft'
<1> SUFFICES ASSUME TypeOK, Fits, AtHand, KindsLeft, [Next]_vars
             PROVE  AtHand' /\ KindsLeft'
  OBVIOUS
<1>1. ASSUME Around
      PROVE  AtHand' /\ KindsLeft'
  BY <1>1, AroundTheLoop
<1>2. CASE Crash
  BY <1>1, <1>2 DEF Crash, Around, NoPass
<1> QED
  BY <1>1, <1>2, StepsOfALoop, ElsewhereWaits, OutsideKeepsHands, BeginningAndEnd, ListIsInScope,
     OnwardsInScope, CollectingIsAround, StatusIsAround DEF Steps

\* Every step of an evaluation is one nearer to its end.
LEMMA StepIsNearer ==
    TypeOK /\ Fits /\ AtHand /\ KindsLeft /\ TypeOK' /\ Fits' /\ [Next]_vars
      => (pass.at # "idle" => UNCHANGED <<pass.at, pass.tries, pass.todo, pass.kinds>>
                              \/ Remaining' < Remaining)
<1> SUFFICES ASSUME TypeOK, Fits, AtHand, KindsLeft, TypeOK', Fits', [Next]_vars,
                    pass.at # "idle"
             PROVE  UNCHANGED <<pass.at, pass.tries, pass.todo, pass.kinds>>
                    \/ Remaining' < Remaining
  OBVIOUS
<1>1. CASE \E p \in Policies : Start(p)
  BY <1>1 DEF Start
<1>2. CASE Crash
  BY <1>2, NoneRemain DEF Crash
<1>3. CASE Onwards
  BY <1>3, OnwardsIsNearer DEF TypeOK, Pass
<1> QED
  BY <1>1, <1>2, <1>3, StepsOfALoop, ElsewhereWaits, OutsideKeepsHands, PendingIsNearer,
     ListingIsNearer, CollectingIsNearer, StatusIsNearer DEF Steps

\* The first state.
LEMMA HandsAreFree == Init => Fits /\ CountedOnce /\ AtHand /\ KindsLeft
<1>1. Init => Fits /\ CountedOnce
  BY NothingToCount, WorkloadsAreFinite, ReconcilerAssumption DEF Init, Fits, CountedOnce
<1>2. Init => AtHand /\ KindsLeft
  BY DEF Init, NoPass, Kinds, AtHand, KindsLeft
<1> QED
  BY <1>1, <1>2

\* No evaluation goes on for ever, whatever conflicts and failures it meets: with every
\* step it takes, the steps it may still take become fewer
\* (crashlooppolicy_controller.go:131-312, helpers.go:25-55).
THEOREM EvaluationsAreFinite == Spec => EvaluationsEnd
<1>1. Init => TypeOK /\ Fits /\ CountedOnce /\ AtHand /\ KindsLeft
  BY TypeStarts, HandsAreFree
<1> QED
  BY <1>1, TypeStays, CountStays, HandsStay, StepIsNearer, PTL DEF Spec, EvaluationsEnd

-----------------------------------------------------------------------------
(* WritesSaySomethingNew.  A draft of the live object was found to differ     *)
(* from it, and nobody has written since.                                     *)

News ==
    pass.at = "statusPut" /\ pass.fresh
      => pass.draft.status # Live(policies[pass.policy]).status

\* There is no other way to a draft of an evaluated status.
LEMMA OnlyStatusGetDrafts ==
    ASSUME TypeOK, Steps, pass'.at = "statusPut"
    PROVE  StatusGet
<1>1. pass \in Pass /\ NoPass.at = "idle"
  BY DEF TypeOK, NoPass
<1>2. ASSUME NEW p \in Policies, Start(p)
      PROVE  FALSE
  BY <1>2 DEF Start, NoPass
<1>3. CASE List \/ Onwards
  BY <1>1, <1>3 DEF List, Onwards, DoneWith, Taken, Recorded, TriedAgain, Pass
<1>4. CASE LoopEnds \/ ListKind \/ Collected \/ ListKindFails
  BY <1>1, <1>4 DEF LoopEnds, ListKind, Collected, ListKindFails, Collects, Pass
<1>5. CASE PendingGet \/ PendingPut
  BY <1>1, <1>5 DEF PendingGet, PendingPut, Draft, Pass
<1>6. CASE PendingConflict \/ StatusConflict
  BY <1>1, <1>6 DEF PendingConflict, StatusConflict, RetryFrom, Finish, Pass
<1>7. CASE StatusPut \/ CallFails \/ StatusAnswerLost \/ Crash
  BY <1>1, <1>7 DEF StatusPut, CallFails, StatusAnswerLost, Crash, Finish
<1> QED
  BY <1>2, <1>3, <1>4, <1>5, <1>6, <1>7 DEF Steps

\* A draft that changes nothing is not kept.
LEMMA NewsIsDrafted ==
    ASSUME Known, StatusGet, pass'.at = "statusPut", pass'.fresh
    PROVE  pass'.draft.status # Live(policies'[pass'.policy]).status
<1> DEFINE line == policies[pass.policy]
           old == Cached(line).status
<1>1. /\ pass \in Pass /\ pass.policy \in Policies /\ policies' = policies
      /\ Len(line) = 1 => Cached(line) = Live(line)
  BY KnownLine DEF Known, TypeOK, StatusGet
<1>2. pass' = Draft("statusPut", Mutated(old)) /\ Mutated(old) # old
  BY DEF StatusGet, Finish, NoPass
<1> HIDE DEF old, line
<1>3. /\ pass'.policy = pass.policy /\ pass'.draft.status = Mutated(old)
      /\ pass'.fresh = (Len(line) = 1)
  BY <1>1, <1>2 DEF Draft, Pass, line
<1> QED
  BY <1>1, <1>2, <1>3 DEF old, line

\* The live version of the policy of a fresh draft is nobody else's to change.
LEMMA NewsIsLeftAlone ==
    ASSUME Known, News, UNCHANGED vars \/ Elsewhere
    PROVE  News'
<1>1. pass \in Pass /\ policies \in [Policies -> Seq(PolicyVersion) \ {<<>>}]
  BY DEF Known, TypeOK
<1>2. ASSUME pass' = pass, Live(policies'[pass.policy]) = Live(policies[pass.policy])
      PROVE  News'
  BY <1>2 DEF News, Live
<1>3. ASSUME NEW p \in Policies, PolicySync(p)
      PROVE  News'
  <2>1. /\ pass' = pass /\ Len(policies[p]) > 1
        /\ policies' = [policies EXCEPT ![p] = Tail(policies[p])]
    BY <1>3 DEF PolicySync
  <2>2. Live(Tail(policies[p])) = Live(policies[p])
    BY <1>1, <2>1, LineShrinks
  <2>3. Live(policies'[pass.policy]) = Live(policies[pass.policy])
    BY <1>1, <2>1, <2>2
  <2> QED
    BY <1>2, <2>1, <2>3
<1>4. ASSUME NEW p \in Policies, NEW g \in Generations, UserWrites(p, g)
      PROVE  News'
  <2>1. CASE pass.policy = p
    <3>1. pass' = [pass EXCEPT !.fresh = FALSE]
      BY <1>4, <2>1 DEF UserWrites
    <3>2. pass'.fresh = FALSE
      BY <1>1, <3>1 DEF Pass
    <3> QED
      BY <3>2 DEF News
  <2>2. CASE pass.policy # p
    <3>1. pass' = pass /\ policies'[pass.policy] = policies[pass.policy]
      BY <1>1, <1>4, <2>2 DEF UserWrites
    <3> QED
      BY <1>2, <3>1
  <2> QED
    BY <2>1, <2>2
<1>5. CASE UNCHANGED vars
  BY <1>2, <1>5 DEF vars
<1>6. ASSUME NEW w \in Workloads,
             \/ WorkloadSync(w) \/ PodsGone(w)
             \/ \E s \in SUBSET Policies : PodsChange(w, s)
             \/ \E n \in {0, 1} : OwnerWrites(w, n)
      PROVE  News'
  BY <1>2, <1>6 DEF WorkloadSync, PodsGone, PodsChange, OwnerWrites
<1>7. ASSUME NEW p \in Policies, TimerFires(p)
      PROVE  News'
  BY <1>2, <1>7 DEF TimerFires
<1> QED
  BY <1>3, <1>4, <1>5, <1>6, <1>7 DEF Elsewhere, Outside

\* The invariant is inductive.
LEMMA NewsStay == Known /\ Fits /\ News /\ [Next]_vars => News'
<1> SUFFICES ASSUME Known, Fits, News, [Next]_vars
             PROVE  News'
  OBVIOUS
<1>1. CASE Steps
  <2> SUFFICES ASSUME pass'.at = "statusPut", pass'.fresh
               PROVE  pass'.draft.status # Live(policies'[pass'.policy]).status
    BY DEF News, Live
  <2> QED
    BY <1>1, OnlyStatusGetDrafts, NewsIsDrafted DEF Known
<1> QED
  BY <1>1, StepsOfALoop, NewsIsLeftAlone DEF Known

\* Every write of a status that is accepted changes it, even when the copy that it was
\* compared with was an old one (helpers.go:34-55).
THEOREM NoEmptyWrites == Spec => WritesSaySomethingNew
<1>1. Init => Known /\ Fits /\ CountedOnce /\ News
  <2>1. Init => News
    BY DEF Init, NoPass, News
  <2> QED
    BY <2>1, KnownStarts, HandsAreFree
<1>2. Known /\ News =>
        (StatusPut \/ StatusAnswerLost =>
           Live(policies'[pass.policy]).status # Live(policies[pass.policy]).status)
  <2> SUFFICES ASSUME Known, News, StatusPut \/ StatusAnswerLost
               PROVE  Live(policies'[pass.policy]).status # Live(policies[pass.policy]).status
    OBVIOUS
  <2>1. pass.at = "statusPut" /\ pass.fresh /\ Store(pass.draft) /\ pass.policy \in Policies
    BY DEF StatusPut, StatusAnswerLost, Known, TypeOK
  <2>2. Live(policies'[pass.policy]) = pass.draft
    BY <2>1, StoreOnBoard
  <2> QED
    BY <2>1, <2>2 DEF News
<1>3. Known /\ Fits /\ CountedOnce /\ [Next]_vars => Fits' /\ CountedOnce'
  BY CountStays DEF Known
<1> QED
  BY <1>1, <1>2, <1>3, KnownStays, NewsStay, PTL DEF Spec, WritesSaySomethingNew

-----------------------------------------------------------------------------
(* What happens to a workload.                                                *)

\* The policy under evaluation signs it: a CronJob in the update that suspends it.
Signs(w) ==
    /\ pass.at = "act" /\ pass.target = w /\ pass'.at # "act"
    /\ \E n \in {0, 1} :
         /\ workloads' = [workloads EXCEPT ![w] = Append(@, [size |-> n, by |-> pass.policy])]
         /\ KindOf[w] = "CronJob" =>
              n = 0 /\ Cached(workloads[w]).size = 1 /\ Len(workloads[w]) = 1

\* It is scaled, by its owner or by the stop.
Resizes(w) ==
    /\ pass' = pass \/ (pass.at = "stop" /\ pass.target = w)
    /\ \E n \in {0, 1} :
         workloads' = [workloads EXCEPT ![w] = Append(@, [Live(@) EXCEPT !.size = n])]

\* A step of an evaluation writes one workload at most.
LEMMA WritesOfALoop ==
    ASSUME TypeOK, Record \/ Stop \/ Suspend \/ StopAnswerLost
    PROVE  \/ workloads' = workloads
           \/ \E w \in Workloads : Signs(w) \/ Resizes(w)
<1> DEFINE w == pass.target
<1>1. /\ w \in Workloads /\ workloads \in [Workloads -> Seq(Workload) \ {<<>>}]
      /\ pass \in Pass
  BY DEF TypeOK, Record, Stop, Suspend, StopAnswerLost
<1>2. ASSUME \/ pass' = Acted \/ GiveUp(0) \/ GiveUp(1)
             \/ pass' = [pass EXCEPT !.at = "stop", !.tries = 0]
      PROVE  pass'.at # "act"
  BY <1>1, <1>2 DEF Acted, GiveUp, Pass
<1>3. CASE Record
  <2>1. pass.at = "act" /\ KindOf[w] # "CronJob"
        /\ (workloads' = workloads \/ Write([size |-> 1, by |-> pass.policy]))
    BY <1>3, Zenon DEF Record
  <2>2. pass'.at # "act"
    BY <1>3, <1>2, Zenon DEF Record
  <2> QED
    BY <1>1, <2>1, <2>2 DEF Signs, Write
<1>4. CASE Stop
  <2>1. /\ pass.at = "stop"
        /\ workloads' = workloads \/ Write([Live(workloads[w]) EXCEPT !.size = 0])
    BY <1>4, Zenon DEF Stop
  <2> QED
    BY <1>1, <2>1 DEF Resizes, Write
<1>5. CASE Suspend
  <2>1. \/ workloads' = workloads
        \/ /\ pass.at = "act" /\ Running /\ UpToDate
           /\ Write([size |-> 0, by |-> pass.policy])
    BY <1>5, Zenon DEF Suspend
  <2>2. pass'.at # "act"
    BY <1>5, <1>2 DEF Suspend
  <2> QED
    BY <1>1, <2>1, <2>2 DEF Signs, Write, Running, UpToDate
<1>6. CASE StopAnswerLost
  <2>1. \/ pass.at = "stop" /\ Write([Live(workloads[w]) EXCEPT !.size = 0])
        \/ /\ pass.at = "act" /\ Running /\ UpToDate
           /\ Write([size |-> 0, by |-> pass.policy])
    BY <1>6, Zenon DEF StopAnswerLost
  <2>2. pass'.at # "act"
    BY <1>6, <1>2 DEF StopAnswerLost
  <2> QED
    BY <1>1, <2>1, <2>2 DEF Signs, Resizes, Write, Running, UpToDate
<1> QED
  BY <1>3, <1>4, <1>5, <1>6

\* So do the others, but for a restart, after which only the live versions count.
LEMMA WorkloadSteps ==
    ASSUME TypeOK, [Next]_vars
    PROVE  \/ workloads' = workloads
           \/ \E w \in Workloads : Signs(w) \/ Resizes(w) \/ WorkloadSync(w)
           \/ Crash
<1>1. CASE UNCHANGED vars
  BY <1>1 DEF vars
<1>2. CASE \E p \in Policies : Start(p) \/ PolicySync(p) \/ TimerFires(p)
  BY <1>2 DEF Start, PolicySync, TimerFires
<1>3. CASE \E w \in Workloads : WorkloadSync(w) \/ PodsGone(w)
  BY <1>3 DEF PodsGone
<1>4. CASE Proceed
  <2>1. CASE PendingGet \/ PendingPut \/ PendingConflict \/ List
    BY <2>1 DEF PendingGet, PendingPut, PendingConflict, List
  <2>2. CASE \E w \in Workloads : LeaveAlone(w) \/ Rehearse(w) \/ Approach(w)
    BY <2>2 DEF LeaveAlone, Rehearse, Approach
  <2>3. CASE WorkloadConflict \/ LoopEnds \/ ListKind \/ Collected
    BY <2>3 DEF WorkloadConflict, LoopEnds, ListKind, Collected, Collects
  <2>4. CASE StatusGet \/ StatusPut \/ StatusConflict
    BY <2>4 DEF StatusGet, StatusPut, StatusConflict
  <2> QED
    BY <1>4, <2>1, <2>2, <2>3, <2>4, WritesOfALoop DEF Proceed
<1>5. CASE Fault
  BY <1>5, WritesOfALoop
     DEF Fault, ListKindFails, Collects, WorkloadFails, CallFails, StatusAnswerLost
<1>6. CASE Outside
  BY <1>6 DEF Outside, PodsChange, OwnerWrites, UserWrites, Resizes
<1> QED
  BY <1>1, <1>2, <1>3, <1>4, <1>5, <1>6 DEF Next

\* One workload, as the step leaves it.
LEMMA WorkloadLine ==
    ASSUME TypeOK, NEW w \in Workloads
    PROVE  /\ workloads[w] \in Seq(Workload) \ {<<>>}
           /\ Live(workloads[w]) \in Workload /\ Cached(workloads[w]) \in Workload
           /\ Len(workloads[w]) \in Nat \ {0}
           /\ Len(workloads[w]) = 1 => Cached(workloads[w]) = Live(workloads[w])
<1>1. workloads[w] \in Seq(Workload) \ {<<>>}
  BY DEF TypeOK
<1> QED
  BY <1>1, LineEnds DEF Cached, Live

\* What a step does to the live version: nothing, or a signature, or a size.
LiveAfter(w) ==
    \/ Live(workloads'[w]) = Live(workloads[w])
    \/ /\ pass.at = "act" /\ pass.target = w /\ pass'.at # "act"
       /\ \E n \in {0, 1} :
            /\ Live(workloads'[w]) = [size |-> n, by |-> pass.policy]
            /\ KindOf[w] = "CronJob" => n = 0 /\ Live(workloads[w]).size = 1
    \/ /\ pass' = pass \/ (pass.at = "stop" /\ pass.target = w)
       /\ \E n \in {0, 1} : Live(workloads'[w]) = [Live(workloads[w]) EXCEPT !.size = n]

\* Every signature was there before, or is that of the policy under evaluation.
ByAfter(w) ==
    \A i \in 1..Len(workloads'[w]) :
        \/ \E j \in 1..Len(workloads[w]) : workloads'[w][i].by = workloads[w][j].by
        \/ /\ pass.at = "act" /\ pass.target = w /\ workloads'[w][i].by = pass.policy
           /\ Live(workloads'[w]).by = pass.policy

\* A version that is appended is the only one that can be signed anew.
LEMMA AppendedBy ==
    ASSUME TypeOK, NEW w \in Workloads, NEW v \in Workload,
           workloads'[w] = Append(workloads[w], v),
           \/ v.by = Live(workloads[w]).by
           \/ pass.at = "act" /\ pass.target = w /\ v.by = pass.policy
    PROVE  Live(workloads'[w]) = v /\ ByAfter(w)
<1> DEFINE line == workloads[w]
<1>1. line \in Seq(Workload) \ {<<>>}
  BY WorkloadLine
<1>2. /\ Len(Append(line, v)) = Len(line) + 1 /\ Len(line) \in Nat \ {0}
      /\ Live(Append(line, v)) = v
      /\ \A i \in 1..Len(line) : Append(line, v)[i] = line[i]
      /\ Append(line, v)[Len(line) + 1] = v
  BY <1>1, LineGrows
<1> DEFINE next == Append(line, v)
           n == Len(line)
<1>3. Live(line) = line[n] /\ n \in 1..n
  BY <1>2 DEF Live
<1>4. workloads'[w] = next /\ \A i \in 1..Len(next) : i \in 1..n \/ i = n + 1
  BY <1>2
<1> HIDE DEF next
<1>5. \A i \in 1..n : next[i].by = line[i].by
  BY <1>2 DEF next
<1>6. \/ next[n + 1].by = line[n].by
      \/ /\ pass.at = "act" /\ pass.target = w /\ next[n + 1].by = pass.policy
         /\ Live(next).by = pass.policy
  BY <1>2, <1>3 DEF next
<1> HIDE DEF n
<1>7. ASSUME NEW i \in 1..Len(next)
      PROVE  \/ \E j \in 1..n : next[i].by = line[j].by
             \/ /\ pass.at = "act" /\ pass.target = w /\ next[i].by = pass.policy
                /\ Live(next).by = pass.policy
  BY <1>3, <1>4, <1>5, <1>6
<1>8. ByAfter(w)
  BY <1>4, <1>7 DEF ByAfter, n
<1> QED
  BY <1>2, <1>8

\* The steps, workload by workload.
LEMMA LineSteps ==
    ASSUME TypeOK, [Next]_vars, NEW w \in Workloads
    PROVE  LiveAfter(w) /\ ByAfter(w)
<1> DEFINE line == workloads[w]
<1>1. /\ workloads \in [Workloads -> Seq(Workload) \ {<<>>}]
      /\ line \in Seq(Workload) \ {<<>>} /\ Len(line) \in Nat \ {0}
      /\ Live(line) \in Workload
      /\ Len(line) = 1 => Cached(line) = Live(line)
  BY WorkloadLine DEF TypeOK
<1>2. ASSUME workloads'[w] = line
      PROVE  LiveAfter(w) /\ ByAfter(w)
  BY <1>2 DEF LiveAfter, ByAfter
<1>3. ASSUME Signs(w)
      PROVE  LiveAfter(w) /\ ByAfter(w)
  <2>1. PICK n \in {0, 1} :
           /\ workloads' = [workloads EXCEPT ![w] = Append(line, [size |-> n, by |-> pass.policy])]
           /\ KindOf[w] = "CronJob" => n = 0 /\ Cached(line).size = 1 /\ Len(line) = 1
    BY <1>3 DEF Signs
  <2>2. pass.at = "act" /\ pass.target = w /\ pass'.at # "act" /\ pass.policy \in Policies
    BY <1>3 DEF Signs, TypeOK
  <2>3. [size |-> n, by |-> pass.policy] \in Workload
    BY <2>2 DEF Workload
  <2>4. workloads'[w] = Append(line, [size |-> n, by |-> pass.policy])
    BY <1>1, <2>1
  <2>5. Live(workloads'[w]) = [size |-> n, by |-> pass.policy] /\ ByAfter(w)
    BY <2>2, <2>3, <2>4, AppendedBy
  <2> QED
    BY <1>1, <2>1, <2>2, <2>5 DEF LiveAfter
<1>4. ASSUME Resizes(w)
      PROVE  LiveAfter(w) /\ ByAfter(w)
  <2>1. PICK n \in {0, 1} :
           workloads' = [workloads EXCEPT ![w] = Append(line, [Live(line) EXCEPT !.size = n])]
    BY <1>4 DEF Resizes
  <2> DEFINE v == [Live(line) EXCEPT !.size = n]
  <2>2. v \in Workload /\ v.by = Live(line).by
    BY <1>1 DEF Workload
  <2>3. workloads'[w] = Append(line, v)
    BY <1>1, <2>1
  <2> HIDE DEF v
  <2>4. Live(workloads'[w]) = v /\ ByAfter(w)
    BY <2>2, <2>3, AppendedBy
  <2>5. pass' = pass \/ (pass.at = "stop" /\ pass.target = w)
    BY <1>4 DEF Resizes
  <2> QED
    BY <2>4, <2>5 DEF LiveAfter, v
<1>5. ASSUME WorkloadSync(w)
      PROVE  LiveAfter(w) /\ ByAfter(w)
  <2>1. Len(line) > 1 /\ workloads'[w] = Tail(line)
    BY <1>1, <1>5 DEF WorkloadSync
  <2>2. /\ Live(Tail(line)) = Live(line) /\ Len(Tail(line)) = Len(line) - 1
        /\ \A i \in 1..Len(Tail(line)) : Tail(line)[i] = line[i + 1]
    BY <1>1, <2>1, LineShrinks
  <2>3. \A i \in 1..Len(Tail(line)) : i + 1 \in 1..Len(line) /\ Tail(line)[i].by = line[i + 1].by
    BY <1>1, <2>2
  <2> QED
    BY <2>1, <2>2, <2>3 DEF LiveAfter, ByAfter
<1>6. ASSUME Crash
      PROVE  LiveAfter(w) /\ ByAfter(w)
  <2>1. workloads'[w] = <<Live(line)>>
    BY <1>6 DEF Crash
  <2>2. Live(<<Live(line)>>) = Live(line) /\ Len(<<Live(line)>>) = 1
        /\ <<Live(line)>>[1] = line[Len(line)] /\ Len(line) \in 1..Len(line)
    BY <1>1, OneVersion DEF Live
  <2>3. \A i \in 1..1 : i = 1
    OBVIOUS
  <2> QED
    BY <2>1, <2>2, <2>3 DEF LiveAfter, ByAfter
<1>7. \/ workloads'[w] = line
      \/ Signs(w) \/ Resizes(w) \/ WorkloadSync(w)
      \/ Crash
  <2>1. ASSUME NEW v \in Workloads, v # w, Signs(v) \/ Resizes(v) \/ WorkloadSync(v)
        PROVE  workloads'[w] = line
    BY <1>1, <2>1 DEF Signs, Resizes, WorkloadSync
  <2> QED
    BY <2>1, WorkloadSteps
<1> QED
  BY <1>2, <1>3, <1>4, <1>5, <1>6, <1>7

-----------------------------------------------------------------------------
(* CronJobsKeepContract.                                                      *)

\* What an evaluation does to a CronJob is to suspend it while it runs and to sign it
\* with the name of its policy, in one step and not in a dry run; the other changes are
\* the owner's and leave the signature, whatever an evaluation believes of the CronJob
\* (helpers.go:556-591).
THEOREM CronJobsInContract == Spec => CronJobsKeepContract
<1>1. Init => TypeOK /\ Fits /\ CountedOnce /\ AtHand /\ KindsLeft
  BY TypeStarts, HandsAreFree
<1>2. TypeOK /\ AtHand /\ [Next]_vars =>
        \A w \in Workloads : KindOf[w] = "CronJob" =>
          \/ UNCHANGED Live(workloads[w])
          \/ /\ pass' # pass /\ pass.policy \notin DryRun
             /\ CronJob(w)!Suspend(pass.policy)
          \/ pass' = pass /\ \E n \in {0, 1} : CronJob(w)!Rescale(n)
  <2> SUFFICES ASSUME TypeOK, AtHand, [Next]_vars, NEW w \in Workloads, KindOf[w] = "CronJob"
               PROVE  \/ UNCHANGED Live(workloads[w])
                      \/ /\ pass' # pass /\ pass.policy \notin DryRun
                         /\ CronJob(w)!Suspend(pass.policy)
                      \/ pass' = pass /\ \E n \in {0, 1} : CronJob(w)!Rescale(n)
    OBVIOUS
  <2>1. Live(workloads'[w]) = Live(workloads[w]) => UNCHANGED Live(workloads[w])
    BY DEF Live
  <2>2. ASSUME pass.at = "act", pass'.at # "act", Live(workloads[w]).size = 1,
               Live(workloads'[w]) = [size |-> 0, by |-> pass.policy]
        PROVE  pass' # pass /\ pass.policy \notin DryRun /\ CronJob(w)!Suspend(pass.policy)
    <3>1. pass' # pass /\ pass.policy \notin DryRun
      BY <2>2 DEF AtHand
    <3>2. Live(workloads'[w]).size = 0 /\ Live(workloads'[w]).by = pass.policy
      BY <2>2
    <3> QED
      BY <2>2, <3>1, <3>2 DEF CronJob!Suspend, Live
  <2>3. ASSUME NEW n \in {0, 1}, pass' = pass \/ (pass.at = "stop" /\ pass.target = w),
               Live(workloads'[w]) = [Live(workloads[w]) EXCEPT !.size = n]
        PROVE  pass' = pass /\ CronJob(w)!Rescale(n)
    <3>1. Live(workloads[w]) \in Workload
      BY WorkloadLine
    <3>2. Live(workloads'[w]).size = n /\ Live(workloads'[w]).by = Live(workloads[w]).by
      BY <2>3, <3>1 DEF Workload
    <3>3. pass' = pass
      BY <2>3 DEF AtHand
    <3> QED
      BY <3>2, <3>3 DEF CronJob!Rescale, Live
  <2> QED
    BY <2>1, <2>2, <2>3, LineSteps DEF LiveAfter
<1> QED
  BY <1>1, <1>2, TypeStays, CountStays, HandsStay, PTL DEF Spec, CronJobsKeepContract

-----------------------------------------------------------------------------
(* SignedByRight.  The generation an evaluation goes by is one that the live  *)
(* object had, and the live object keeps the generations it had.              *)

\* The steps that write a policy.
LEMMA PolicySteps ==
    ASSUME [Next]_vars
    PROVE  \/ policies' = policies
           \/ PendingPut \/ StatusPut \/ StatusAnswerLost \/ Crash
           \/ \E q \in Policies : PolicySync(q)
           \/ \E q \in Policies, g \in Generations : UserWrites(q, g)
<1>1. CASE UNCHANGED vars
  BY <1>1 DEF vars
<1>2. CASE \E p \in Policies : Start(p) \/ PolicySync(p) \/ TimerFires(p)
  BY <1>2 DEF Start, TimerFires
<1>3. CASE \E w \in Workloads : WorkloadSync(w) \/ PodsGone(w)
  BY <1>3 DEF WorkloadSync, PodsGone
<1>4. CASE Proceed
  <2>1. CASE PendingGet \/ PendingConflict \/ List \/ StatusGet \/ StatusConflict
    BY <2>1 DEF PendingGet, PendingConflict, List, StatusGet, StatusConflict
  <2>2. CASE \E w \in Workloads : LeaveAlone(w) \/ Rehearse(w) \/ Approach(w)
    BY <2>2 DEF LeaveAlone, Rehearse, Approach, Loops
  <2>3. CASE Record \/ Stop \/ Suspend \/ WorkloadConflict
    BY <2>3 DEF Record, Stop, Suspend, WorkloadConflict, Acts
  <2>4. CASE LoopEnds \/ ListKind \/ Collected
    BY <2>4 DEF LoopEnds, Loops, ListKind, Collected, Collects
  <2> QED
    BY <1>4, <2>1, <2>2, <2>3, <2>4 DEF Proceed
<1>5. CASE Fault
  BY <1>5 DEF Fault, ListKindFails, Collects, WorkloadFails, StopAnswerLost, CallFails
<1>6. CASE Outside
  BY <1>6 DEF Outside, PodsChange, OwnerWrites
<1> QED
  BY <1>1, <1>2, <1>3, <1>4, <1>5, <1>6 DEF Next

\* The spec of a policy never goes back.
LEMMA GensNeverGoBack ==
    ASSUME Known, [Next]_vars, NEW p \in Policies
    PROVE  Live(policies[p]).gen <= Live(policies'[p]).gen
<1> DEFINE line == policies[p]
           Later == Live(line).gen <= Live(policies'[p]).gen
<1>1. /\ policies \in [Policies -> Seq(PolicyVersion) \ {<<>>}]
      /\ line \in Seq(PolicyVersion) \ {<<>>} /\ Live(line) \in PolicyVersion
      /\ Live(line).gen \in Nat
  BY KnownLine, VersionNumbers DEF Known, TypeOK
<1>2. ASSUME Live(policies'[p]) = Live(line)
      PROVE  Later
  BY <1>1, <1>2
<1>3. CASE PendingPut \/ StatusPut \/ StatusAnswerLost
  <2>1. /\ pass \in Pass /\ pass.policy \in Policies /\ pass.at \in {"pendingPut", "statusPut"}
        /\ pass.fresh /\ Store(pass.draft)
    BY <1>3 DEF Known, TypeOK, PendingPut, StatusPut, StatusAnswerLost
  <2>2. /\ Live(policies'[pass.policy]) = pass.draft
        /\ \A q \in Policies \ {pass.policy} : policies'[q] = policies[q]
    BY <2>1, StoreOnBoard
  <2>3. CASE p = pass.policy
    <3>1. pass.draft.gen = Live(line).gen
      BY <2>1, <2>3 DEF Known, PassKnows
    <3>2. Live(policies'[p]).gen = Live(line).gen
      BY <2>2, <2>3, <3>1
    <3> QED
      BY <1>1, <3>2
  <2>4. CASE p # pass.policy
    BY <1>2, <2>2, <2>4
  <2> QED
    BY <2>3, <2>4
<1>4. ASSUME NEW q \in Policies, NEW g \in Generations, UserWrites(q, g)
      PROVE  Later
  <2>1. CASE p = q
    <3> DEFINE v == [Live(line) EXCEPT !.gen = g]
    <3>1. v \in PolicyVersion /\ v.gen = g
      BY <1>1 DEF PolicyVersion
    <3>2. policies'[p] = Append(line, v) /\ g \in {Live(line).gen, Live(line).gen + 1}
      BY <1>1, <1>4, <2>1 DEF UserWrites
    <3> HIDE DEF v
    <3>3. Live(policies'[p]) = v
      BY <1>1, <3>1, <3>2, LineGrows
    <3>4. Live(policies'[p]).gen = g
      BY <3>1, <3>3
    <3> QED
      BY <1>1, <3>2, <3>4
  <2>2. CASE p # q
    <3>1. policies'[p] = line
      BY <1>1, <1>4, <2>2 DEF UserWrites
    <3> QED
      BY <1>2, <3>1
  <2> QED
    BY <2>1, <2>2
<1>5. ASSUME NEW q \in Policies, PolicySync(q)
      PROVE  Later
  <2>1. Len(policies[q]) > 1 /\ policies' = [policies EXCEPT ![q] = Tail(policies[q])]
    BY <1>5 DEF PolicySync
  <2>2. CASE p = q
    <3>1. policies'[p] = Tail(line) /\ Len(line) > 1
      BY <1>1, <2>1, <2>2
    <3>2. Live(policies'[p]) = Live(line)
      BY <1>1, <3>1, LineShrinks
    <3> QED
      BY <1>2, <3>2
  <2>3. CASE p # q
    <3>1. policies'[p] = line
      BY <1>1, <2>1, <2>3
    <3> QED
      BY <1>2, <3>1
  <2> QED
    BY <2>2, <2>3
<1>6. CASE Crash
  <2>1. policies'[p] = <<Live(line)>>
    BY <1>6 DEF Crash
  <2>2. Live(policies'[p]) = Live(line)
    BY <1>1, <2>1, OneVersion
  <2> QED
    BY <1>2, <2>2
<1>7. \/ policies' = policies
      \/ PendingPut \/ StatusPut \/ StatusAnswerLost \/ Crash
      \/ \E q \in Policies : PolicySync(q)
      \/ \E q \in Policies, g \in Generations : UserWrites(q, g)
  BY PolicySteps
<1> QED
  BY <1>2, <1>3, <1>4, <1>5, <1>6, <1>7

\* What may sign a workload may sign it from then on.
MaySignNext(p, w) ==
    /\ p \in Policies \ DryRun
    /\ \E g \in 1..Live(policies'[p]).gen : w \in Scope[p][g]

LEMMA RightsStay ==
    ASSUME Known, [Next]_vars, NEW p, NEW w, MaySign(p, w)
    PROVE  MaySignNext(p, w)
<1>1. p \in Policies \ DryRun
  BY DEF MaySign
<1>2. PICK g \in 1..Live(policies[p]).gen : w \in Scope[p][g]
  BY DEF MaySign
<1>3. Live(policies[p]).gen <= Live(policies'[p]).gen
  BY <1>1, GensNeverGoBack
<1>4. Live(policies[p]).gen \in Nat /\ Live(policies'[p]).gen \in Nat
  <2>1. Live(policies[p]) \in PolicyVersion
    BY <1>1, CachedIsVersion DEF Known
  <2>2. policies'[p] \in Seq(PolicyVersion) \ {<<>>}
    BY <1>1, TypeStays DEF Known, TypeOK
  <2>3. Live(policies'[p]) \in PolicyVersion
    BY <2>2, LineEnds
  <2> QED
    BY <2>1, <2>3, VersionNumbers
<1>5. g \in 1..Live(policies'[p]).gen
  BY <1>3, <1>4
<1>6. \E h \in 1..Live(policies'[p]).gen : w \in Scope[p][h]
  BY <1>2, <1>5
<1> QED
  BY <1>1, <1>6 DEF MaySignNext

\* The policy under evaluation may sign what it acts on.
LEMMA TargetMayBeSigned ==
    ASSUME Known, Fits, AtHand, pass.at = "act"
    PROVE  MaySign(pass.policy, pass.target)
<1> DEFINE p == pass.policy
<1>1. p \in Policies \ DryRun /\ pass.gen \in Generations
  BY DEF Known, TypeOK, AtHand, Pass
<1>2. pass.target \in Scope[p][pass.gen]
  BY DEF Fits, AtHand
<1>3. pass.gen <= Cached(policies[p]).gen /\ Cached(policies[p]).gen <= Live(policies[p]).gen
  BY <1>1, KnownLine DEF Known, PassKnows
<1>4. /\ Cached(policies[p]).gen \in Nat /\ Live(policies[p]).gen \in Nat
      /\ pass.gen \in Nat /\ pass.gen >= 1
  <2>1. Cached(policies[p]) \in PolicyVersion /\ Live(policies[p]) \in PolicyVersion
    BY <1>1, CachedIsVersion DEF Known
  <2>2. pass.gen \in Nat /\ pass.gen >= 1
    BY <1>1, ReconcilerAssumption DEF Generations
  <2> QED
    BY <2>1, <2>2, VersionNumbers
<1>5. pass.gen \in 1..Live(policies[p]).gen
  BY <1>3, <1>4
<1> QED
  BY <1>1, <1>2, <1>5 DEF MaySign

\* The invariant is inductive.
LEMMA SignaturesStay ==
    Known /\ Fits /\ AtHand /\ SignedByRight /\ [Next]_vars => SignedByRight'
<1> SUFFICES ASSUME Known, Fits, AtHand, SignedByRight, [Next]_vars
             PROVE  SignedByRight'
  OBVIOUS
<1>1. ASSUME NEW w \in Workloads, NEW i \in 1..Len(workloads'[w]), NEW p,
             p = workloads'[w][i].by, p # None
      PROVE  MaySignNext(p, w)
  <2>1. MaySign(p, w)
    <3>1. ASSUME NEW j \in 1..Len(workloads[w]), p = workloads[w][j].by
          PROVE  MaySign(p, w)
      BY <1>1, <3>1 DEF SignedByRight
    <3>2. CASE pass.at = "act" /\ pass.target = w /\ p = pass.policy
      BY <3>2, TargetMayBeSigned
    <3>3. \/ \E j \in 1..Len(workloads[w]) : p = workloads[w][j].by
          \/ pass.at = "act" /\ pass.target = w /\ p = pass.policy
      BY <1>1, LineSteps DEF Known, ByAfter
    <3> QED
      BY <3>1, <3>2, <3>3
  <2> QED
    BY <2>1, RightsStay
<1> QED
  BY <1>1 DEF SignedByRight, MaySign, MaySignNext, Live

\* The workloads as they are found: whoever signed one includes it.
LEMMA FoundByRight ==
    ASSUME Init
    PROVE  SignedByRight /\ \A w \in Workloads : Len(workloads[w]) = 1
<1>1. \A w \in Workloads : Len(workloads[w]) = 1 /\ workloads[w][1].by = Kept[w]
  <2>1. ASSUME NEW w \in Workloads
        PROVE  Len(workloads[w]) = 1 /\ workloads[w][1] = AsFound(w)
    BY <2>1 DEF Init
  <2>2. \A w \in Workloads : AsFound(w).by = Kept[w]
    BY DEF AsFound
  <2> QED
    BY <2>1, <2>2
<1>2. ASSUME NEW w \in Workloads, Kept[w] # None
      PROVE  MaySign(Kept[w], w)
  <2>1. /\ Kept \in [Workloads -> (Policies \ DryRun) \cup {None}]
        /\ \A v \in Workloads : Kept[v] # None => v \in Scope[Kept[v]][1]
    BY Zenon, ReconcilerAssumption
  <2>2. Kept[w] \in Policies \ DryRun /\ w \in Scope[Kept[w]][1]
    BY <1>2, <2>1
  <2>3. Live(policies[Kept[w]]).gen = 1
    BY <2>2, FirstVersions
  <2> QED
    BY <2>2, <2>3 DEF MaySign
<1>3. \A i \in 1..1 : i = 1
  OBVIOUS
<1> QED
  BY <1>1, <1>2, <1>3 DEF SignedByRight

\* A signature stands on a scope that the policy had, and no dry run leaves one, however
\* old the copies that an evaluation goes by
\* (crashlooppolicy_controller.go:131-241, helpers.go:510-514, 577-583).
THEOREM SignaturesAreRight == Spec => []SignedByRight
<1>1. Init => Known /\ Fits /\ CountedOnce /\ AtHand /\ KindsLeft /\ SignedByRight
  BY FoundByRight, KnownStarts, HandsAreFree
<1>2. Known /\ Fits /\ CountedOnce /\ AtHand /\ KindsLeft /\ [Next]_vars
        => Fits' /\ CountedOnce' /\ AtHand' /\ KindsLeft'
  BY CountStays, HandsStay DEF Known
<1> QED
  BY <1>1, <1>2, KnownStays, SignaturesStay, PTL DEF Spec

-----------------------------------------------------------------------------
(* NoPolicyIsForgotten.                                                       *)

\* Between two evaluations there is none that a policy could be in.
IdleIsFree == pass.at = "idle" => pass.policy = None

\* A step of an evaluation keeps its policy, or leaves a timer behind.
KeepsOrTimes ==
    /\ queue' = queue
    /\ \/ pass'.policy = pass.policy /\ timers' = timers
       \/ timers' = timers \cup {pass.policy}

LEMMA StepsHandOn ==
    ASSUME TypeOK, Steps
    PROVE  KeepsOrTimes \/ queue' = Policies \/ (\E p \in Policies : Start(p))
<1>1. pass \in Pass
  BY DEF TypeOK
<1>2. CASE List \/ Onwards
  BY <1>1, <1>2 DEF List, Onwards, KeepsOrTimes, Pass
<1>3. CASE LoopEnds \/ ListKind \/ Collected \/ ListKindFails
  <2>1. queue' = queue /\ timers' = timers
    BY <1>3 DEF LoopEnds, Loops, ListKind, Collected, ListKindFails, Collects
  <2>2. pass'.policy = pass.policy
    BY <1>1, <1>3 DEF LoopEnds, ListKind, Collected, ListKindFails, Pass
  <2> QED
    BY <2>1, <2>2 DEF KeepsOrTimes
<1>4. CASE PendingGet \/ PendingPut \/ StatusPut \/ CallFails \/ StatusAnswerLost
  BY <1>1, <1>4
     DEF PendingGet, PendingPut, StatusPut, CallFails, StatusAnswerLost, Draft, Finish,
         KeepsOrTimes, Pass
<1>5. CASE PendingConflict \/ StatusConflict
  BY <1>1, <1>5 DEF PendingConflict, StatusConflict, RetryFrom, Finish, KeepsOrTimes, Pass
<1>6. CASE StatusGet
  BY <1>1, <1>6 DEF StatusGet, Draft, Finish, KeepsOrTimes, Pass
<1>7. CASE Crash
  BY <1>7 DEF Crash
<1> QED
  BY <1>2, <1>3, <1>4, <1>5, <1>6, <1>7 DEF Steps

\* An evaluation that is over leaves nothing of itself.
LEMMA EndsAreClean ==
    ASSUME TypeOK, Steps, pass'.at = "idle"
    PROVE  pass'.policy = None
<1>1. pass \in Pass /\ NoPass.policy = None
  BY DEF TypeOK, NoPass
<1>2. ASSUME NEW p \in Policies, Start(p)
      PROVE  FALSE
  BY <1>2 DEF Start, NoPass
<1>3. CASE List \/ Onwards
  BY <1>1, <1>3 DEF List, Onwards, DoneWith, Taken, Recorded, TriedAgain, Pass
<1>4. CASE LoopEnds \/ ListKind \/ Collected \/ ListKindFails
  BY <1>1, <1>4 DEF LoopEnds, ListKind, Collected, ListKindFails, Collects, Pass
<1>5. CASE PendingGet \/ PendingPut
  BY <1>1, <1>5 DEF PendingGet, PendingPut, Draft, Pass
<1>6. CASE PendingConflict \/ StatusConflict
  BY <1>1, <1>6 DEF PendingConflict, StatusConflict, RetryFrom, Finish, Pass
<1>7. CASE StatusGet
  BY <1>1, <1>7 DEF StatusGet, Draft, Finish, Pass
<1>8. CASE StatusPut \/ CallFails \/ StatusAnswerLost \/ Crash
  BY <1>1, <1>8 DEF StatusPut, CallFails, StatusAnswerLost, Crash, Finish
<1> QED
  BY <1>2, <1>3, <1>4, <1>5, <1>6, <1>7, <1>8 DEF Steps

\* The watches and the timers only add to the queue.
LEMMA ElsewhereHandsOn ==
    ASSUME TypeOK, UNCHANGED vars \/ Elsewhere, NoPolicyIsForgotten, IdleIsFree
    PROVE  NoPolicyIsForgotten' /\ IdleIsFree'
<1>1. pass'.policy = pass.policy /\ pass'.at = pass.at
  BY ElsewhereWaits DEF TypeOK, Pass
<1>2. (\E p \in Policies : PolicySync(p) \/ TimerFires(p)) => NoPolicyIsForgotten'
  BY <1>1 DEF PolicySync, TimerFires, NoPolicyIsForgotten
<1>3. UNCHANGED vars \/ (\E w \in Workloads : WorkloadSync(w) \/ PodsGone(w))
        => NoPolicyIsForgotten'
  BY <1>1 DEF vars, WorkloadSync, PodsGone, NoPolicyIsForgotten
<1>4. ASSUME Outside
      PROVE  NoPolicyIsForgotten'
  <2>1. timers' = timers /\ (queue' = queue \/ queue' = Policies)
    BY <1>4 DEF Outside, PodsChange, OwnerWrites, UserWrites, Happens
  <2> QED
    BY <1>1, <2>1 DEF NoPolicyIsForgotten
<1>5. IdleIsFree'
  BY <1>1 DEF IdleIsFree
<1> QED
  BY <1>2, <1>3, <1>4, <1>5 DEF Elsewhere

\* The invariant is inductive.
LEMMA NobodyIsLeftBehind ==
    TypeOK /\ Fits /\ NoPolicyIsForgotten /\ IdleIsFree /\ [Next]_vars
      => NoPolicyIsForgotten' /\ IdleIsFree'
<1> SUFFICES ASSUME TypeOK, Fits, NoPolicyIsForgotten, IdleIsFree, [Next]_vars
             PROVE  NoPolicyIsForgotten' /\ IdleIsFree'
  OBVIOUS
<1>1. CASE UNCHANGED vars \/ Elsewhere
  BY <1>1, ElsewhereHandsOn
<1>2. KeepsOrTimes \/ queue' = Policies => NoPolicyIsForgotten'
  BY DEF KeepsOrTimes, NoPolicyIsForgotten
<1>3. ASSUME NEW p \in Policies, Start(p)
      PROVE  NoPolicyIsForgotten'
  <2>1. /\ pass.at = "idle" /\ queue' = queue \ {p} /\ timers' = timers
        /\ pass'.policy = p /\ None \notin Policies
    BY <1>3, ReconcilerAssumption DEF Start, NoPass
  <2> QED
    BY <2>1 DEF NoPolicyIsForgotten, IdleIsFree
<1>4. CASE Steps
  BY <1>2, <1>3, <1>4, StepsHandOn, EndsAreClean DEF IdleIsFree
<1> QED
  BY <1>1, <1>4, StepsOfALoop

\* No policy drops out: whatever conflicts, errors and crashes an evaluation meets, its
\* policy is evaluated again (crashlooppolicy_controller.go:41-339).
THEOREM PoliciesStayInHand == Spec => []NoPolicyIsForgotten
<1>1. Init => TypeOK /\ Fits /\ CountedOnce /\ NoPolicyIsForgotten /\ IdleIsFree
  <2>1. Init => NoPolicyIsForgotten /\ IdleIsFree
    BY DEF Init, NoPass, NoPolicyIsForgotten, IdleIsFree
  <2> QED
    BY <2>1, TypeStarts, HandsAreFree
<1> QED
  BY <1>1, TypeStays, CountStays, NobodyIsLeftBehind, PTL DEF Spec

-----------------------------------------------------------------------------
(* ListsEachOnce.  The kinds that are still to be listed are none of those    *)
(* found, and what was found is part of the scope.                            *)

\* Where the status of a policy after a step comes from.
StatusAfter(p, status) ==
    \/ \E j \in 1..Len(policies[p]) : status = policies[p][j].status
    \/ /\ pass.at \in {"pendingPut", "statusPut"} /\ pass.policy = p
       /\ status = pass.draft.status

LEMMA StatusSteps ==
    ASSUME TypeOK, [Next]_vars, NEW p \in Policies, NEW i \in 1..Len(policies'[p])
    PROVE  StatusAfter(p, policies'[p][i].status)
<1> DEFINE line == policies[p]
<1>1. /\ policies \in [Policies -> Seq(PolicyVersion) \ {<<>>}] /\ pass \in Pass
      /\ line \in Seq(PolicyVersion) \ {<<>>} /\ Len(line) \in Nat \ {0}
      /\ Live(line) \in PolicyVersion
      /\ Live(line) = line[Len(line)] /\ Len(line) \in 1..Len(line)
  BY LineEnds DEF TypeOK, Live
<1>2. ASSUME NEW v \in PolicyVersion, policies'[p] = Append(line, v),
             \/ v.status = Live(line).status
             \/ /\ pass.at \in {"pendingPut", "statusPut"} /\ pass.policy = p
                /\ v.status = pass.draft.status
      PROVE  StatusAfter(p, policies'[p][i].status)
  <2>1. /\ Len(Append(line, v)) = Len(line) + 1
        /\ \A j \in 1..Len(line) : Append(line, v)[j] = line[j]
        /\ Append(line, v)[Len(line) + 1] = v
    BY <1>1, LineGrows
  <2>2. i \in 1..Len(line) \/ i = Len(line) + 1
    BY <1>1, <1>2, <2>1
  <2>3. (policies'[p][i] = line[i] /\ i \in 1..Len(line)) \/ policies'[p][i] = v
    BY <1>2, <2>1, <2>2
  <2> QED
    BY <1>1, <1>2, <2>3 DEF StatusAfter
<1>3. CASE policies'[p] = line
  BY <1>3 DEF StatusAfter
<1>4. CASE PendingPut \/ StatusPut \/ StatusAnswerLost
  <2>1. /\ pass.at \in {"pendingPut", "statusPut"} /\ pass.draft \in PolicyVersion
        /\ policies' = [policies EXCEPT ![pass.policy] = Append(policies[pass.policy], pass.draft)]
    BY <1>1, <1>4 DEF PendingPut, StatusPut, StatusAnswerLost, Store, Pass
  <2>2. CASE p = pass.policy
    <3>1. policies'[p] = Append(line, pass.draft)
      BY <1>1, <2>1, <2>2
    <3> QED
      BY <1>2, <2>1, <2>2, <3>1
  <2>3. CASE p # pass.policy
    BY <1>1, <1>3, <2>1, <2>3
  <2> QED
    BY <2>2, <2>3
<1>5. ASSUME NEW q \in Policies, NEW g \in Generations, UserWrites(q, g)
      PROVE  StatusAfter(p, policies'[p][i].status)
  <2>1. policies' = [policies EXCEPT
                       ![q] = Append(policies[q], [Live(policies[q]) EXCEPT !.gen = g])]
    BY <1>5 DEF UserWrites
  <2>2. CASE p = q
    <3> DEFINE v == [Live(line) EXCEPT !.gen = g]
    <3>1. v \in PolicyVersion /\ v.status = Live(line).status
      BY <1>1 DEF PolicyVersion
    <3>2. policies'[p] = Append(line, v)
      BY <1>1, <2>1, <2>2
    <3> HIDE DEF v
    <3> QED
      BY <1>2, <3>1, <3>2
  <2>3. CASE p # q
    BY <1>1, <1>3, <2>1, <2>3
  <2> QED
    BY <2>2, <2>3
<1>6. ASSUME NEW q \in Policies, PolicySync(q)
      PROVE  StatusAfter(p, policies'[p][i].status)
  <2>1. Len(policies[q]) > 1 /\ policies' = [policies EXCEPT ![q] = Tail(policies[q])]
    BY <1>6 DEF PolicySync
  <2>2. CASE p = q
    <3>1. policies'[p] = Tail(line) /\ Len(line) > 1
      BY <1>1, <2>1, <2>2
    <3>2. /\ Len(Tail(line)) = Len(line) - 1
          /\ \A j \in 1..Len(Tail(line)) : Tail(line)[j] = line[j + 1]
      BY <1>1, <3>1, LineShrinks
    <3>3. i + 1 \in 1..Len(line) /\ policies'[p][i] = line[i + 1]
      BY <1>1, <3>1, <3>2
    <3> QED
      BY <3>3 DEF StatusAfter
  <2>3. CASE p # q
    BY <1>1, <1>3, <2>1, <2>3
  <2> QED
    BY <2>2, <2>3
<1>7. CASE Crash
  <2>1. policies'[p] = <<Live(line)>>
    BY <1>7 DEF Crash
  <2>2. policies'[p][i] = Live(line)
    BY <2>1
  <2> QED
    BY <1>1, <2>2 DEF StatusAfter
<1> QED
  BY <1>3, <1>4, <1>5, <1>6, <1>7, PolicySteps

\* A list without repetition is no longer than what it is taken from.
LEMMA NoLongerThan ==
    ASSUME NEW S, IsFiniteSet(S), NEW s \in Seq(S), IsInjective(s)
    PROVE  Len(s) <= Cardinality(S) /\ Len(s) \in Nat /\ Cardinality(S) \in Nat
<1>1. Len(s) \in Nat /\ s \in [1..Len(s) -> S]
  OBVIOUS
<1>2. s \in Injection(1..Len(s), S)
  BY <1>1 DEF Injection, IsInjective
<1>3. Cardinality(1..Len(s)) <= Cardinality(S)
  BY <1>2, FS_Injection
<1>4. Cardinality(1..Len(s)) = Len(s)
  BY <1>1, FS_Interval
<1> QED
  BY <1>1, <1>3, <1>4, FS_CardinalityType

\* Two lists without repetition that have nothing in common make one.
LEMMA OneAfterAnother ==
    ASSUME NEW S, NEW s \in Seq(S), NEW t \in Seq(S), IsInjective(s), IsInjective(t),
           \A i \in 1..Len(s), j \in 1..Len(t) : s[i] # t[j]
    PROVE  IsInjective(s \o t)
<1>1. /\ s \o t \in Seq(S) /\ Len(s \o t) = Len(s) + Len(t)
      /\ \A i \in 1..(Len(s) + Len(t)) :
           (s \o t)[i] = IF i <= Len(s) THEN s[i] ELSE t[i - Len(s)]
      /\ Len(s) \in Nat /\ Len(t) \in Nat
  BY ConcatProperties
<1> DEFINE u == s \o t
<1>2. DOMAIN u = 1..(Len(s) + Len(t)) /\ DOMAIN s = 1..Len(s) /\ DOMAIN t = 1..Len(t)
  BY <1>1
<1>3. ASSUME NEW i \in 1..(Len(s) + Len(t))
      PROVE  \/ i \in 1..Len(s) /\ u[i] = s[i]
             \/ i - Len(s) \in 1..Len(t) /\ u[i] = t[i - Len(s)]
  BY <1>1
<1> HIDE DEF u
<1>4. ASSUME NEW i \in 1..(Len(s) + Len(t)), NEW j \in 1..(Len(s) + Len(t)), u[i] = u[j]
      PROVE  i = j
  <2>1. CASE i \in 1..Len(s) /\ u[i] = s[i] /\ j \in 1..Len(s) /\ u[j] = s[j]
    BY <1>2, <1>4, <2>1 DEF IsInjective
  <2>2. CASE /\ i - Len(s) \in 1..Len(t) /\ u[i] = t[i - Len(s)]
             /\ j - Len(s) \in 1..Len(t) /\ u[j] = t[j - Len(s)]
    <3>1. i - Len(s) = j - Len(s)
      BY <1>2, <1>4, <2>2 DEF IsInjective
    <3> QED
      BY <1>1, <3>1
  <2> QED
    BY <1>3, <1>4, <2>1, <2>2
<1> QED
  BY <1>2, <1>4 DEF IsInjective, u

\* A list without repetition begins with one.
LEMMA FirstOnesOnce ==
    ASSUME NEW S, NEW s \in Seq(S), NEW n \in Nat, n <= Len(s)
    PROVE  /\ Len(SubSeq(s, 1, n)) = n
           /\ IsInjective(s) => IsInjective(SubSeq(s, 1, n))
           /\ Range(SubSeq(s, 1, n)) \subseteq Range(s)
<1> DEFINE t == SubSeq(s, 1, n)
<1>1. \A i \in 1..n : s[i] \in S
  OBVIOUS
<1>2. 1 \in Int /\ n \in Int /\ Len(s) \in Nat
  OBVIOUS
<1>3. t \in Seq(S) /\ Len(t) = n /\ \A i \in 1..n : t[i] = s[i]
  <2>1. /\ t \in Seq(S) /\ Len(t) = (IF 1 <= n THEN n - 1 + 1 ELSE 0)
        /\ \A i \in 1..(n - 1 + 1) : t[i] = s[1 + i - 1]
    BY <1>1, <1>2, SubSeqProperties
  <2> QED
    BY <1>2, <2>1
<1> HIDE DEF t
<1>4. DOMAIN t = 1..n /\ DOMAIN s = 1..Len(s) /\ \A i \in 1..n : i \in 1..Len(s)
  BY <1>2, <1>3
<1>5. IsInjective(s) => IsInjective(t)
  BY <1>3, <1>4 DEF IsInjective
<1>6. Range(t) \subseteq Range(s)
  BY <1>3, <1>4 DEF Range
<1> QED
  BY <1>3, <1>5, <1>6 DEF t

\* A status that names each workload once and claims no more than there is.
Once(p, status) ==
    /\ IsInjective(status.active)
    /\ status.observed # 0 =>
         Len(status.active) + status.truncated <= Cardinality(Scope[p][status.observed])

\* What was found is of other kinds than those that are still to be listed.
FoundOnce(found, kinds) ==
    /\ IsInjective(found) /\ IsInjective(kinds)
    /\ \A i \in 1..Len(found), k \in 1..Len(kinds) : KindOf[found[i]] # kinds[k]

LinesOnce == \A p \in Policies : \A i \in 1..Len(policies[p]) : Once(p, policies[p][i].status)

CollectedOnce ==
    /\ pass.at \notin {"idle", "statusGet", "statusPut"} =>
         pass.active = <<>> /\ pass.truncated = 0 /\ FoundOnce(pass.found, pass.kinds)
    /\ pass.at \in {"statusGet", "statusPut"} =>
         /\ IsInjective(pass.active)
         /\ Len(pass.active) + pass.truncated <= Cardinality(Scope[pass.policy][pass.gen])
    /\ pass.at \in {"pendingPut", "statusPut"} => Once(pass.policy, pass.draft.status)

\* Nothing is found yet.
LEMMA NothingTwice == IsInjective(<<>>) /\ FoundOnce(<<>>, Kinds)
<1>1. IsInjective(<<>>)
  BY DEF IsInjective
<1>2. IsInjective(Kinds)
  BY DEF IsInjective, Kinds
<1> QED
  BY <1>1, <1>2 DEF FoundOnce

\* An evaluation that is over, or that keeps what it found.
LEMMA SameCollected ==
    ASSUME CollectedOnce, pass.at # "idle",
           \/ pass'.at = "idle"
           \/ /\ FoundKept /\ pass'.policy = pass.policy /\ pass'.gen = pass.gen
              /\ pass'.kinds = pass.kinds
              /\ \/ /\ pass.at \notin {"statusGet", "statusPut"}
                    /\ pass'.at \notin {"idle", "pendingPut", "statusGet", "statusPut"}
                 \/ pass.at = "statusPut" /\ pass'.at = "statusGet"
    PROVE  CollectedOnce'
BY DEF CollectedOnce, FoundKept

\* Nobody else changes what an evaluation has found.
LEMMA ElsewhereFindsNothing ==
    ASSUME TypeOK, CollectedOnce, UNCHANGED vars \/ Elsewhere
    PROVE  CollectedOnce'
<1>1. pass' = pass \/ pass' = [pass EXCEPT !.fresh = FALSE]
  BY ElsewhereWaits
<1>2. /\ FoundKept /\ pass'.at = pass.at /\ pass'.policy = pass.policy /\ pass'.gen = pass.gen
      /\ pass'.kinds = pass.kinds
  BY <1>1 DEF FoundKept, TypeOK, Pass
<1> QED
  BY <1>2 DEF CollectedOnce, FoundKept, Once

\* The lists of the kinds.
LEMMA KindsAreListedOnce ==
    ASSUME TypeOK, FoundInScope, CollectedOnce, ListKind
    PROVE  CollectedOnce'
<1> DEFINE kind == Head(pass.kinds)
           rest == Tail(pass.kinds)
           reach == Scope[pass.policy][pass.gen]
<1>1. /\ pass \in Pass /\ pass.policy \in Policies /\ pass.at = "collect"
      /\ pass.kinds # <<>> /\ pass.kinds \in Seq({"Deployment", "StatefulSet", "CronJob"})
      /\ FoundOnce(pass.found, pass.kinds) /\ pass.active = <<>> /\ pass.truncated = 0
      /\ pass.found \in Seq(reach)
  BY DEF ListKind, Collects, TypeOK, Pass, CollectedOnce, FoundInScope
<1>2. PICK s \in SetToSeqs(Signed(kind)) :
        pass' = [pass EXCEPT !.kinds = rest, !.found = pass.found \o s]
  BY DEF ListKind
<1>3. s \in Seq(reach)
  BY <1>1, <1>2, SignedInOrder
<1>4. IsInjective(s) /\ \A i \in 1..Len(s) : KindOf[s[i]] = kind
  <2>1. /\ s \in [1..Cardinality(Signed(kind)) -> Signed(kind)]
        /\ \A i, j \in 1..Cardinality(Signed(kind)) : i # j => s[i] # s[j]
    BY <1>2 DEF SetToSeqs
  <2>2. DOMAIN s = 1..Cardinality(Signed(kind)) /\ DOMAIN s = 1..Len(s)
    BY <1>3, <2>1
  <2>3. \A i \in 1..Len(s) : s[i] \in Signed(kind)
    BY <2>1, <2>2
  <2>4. IsInjective(s)
    BY <2>1, <2>2 DEF IsInjective
  <2> QED
    BY <2>3, <2>4 DEF Signed
<1>5. /\ kind = pass.kinds[1] /\ Len(pass.kinds) \in Nat \ {0}
      /\ Len(rest) = Len(pass.kinds) - 1 /\ rest \in Seq({"Deployment", "StatefulSet", "CronJob"})
      /\ \A k \in 1..Len(rest) : rest[k] = pass.kinds[k + 1]
  BY <1>1, HeadTailProperties, EmptySeq
<1> HIDE DEF kind, rest, reach
<1>6. \A k \in 1..Len(rest) : k + 1 \in 1..Len(pass.kinds) /\ k + 1 # 1
  BY <1>5
<1>7. DOMAIN pass.kinds = 1..Len(pass.kinds) /\ DOMAIN rest = 1..Len(rest)
      /\ 1 \in 1..Len(pass.kinds) /\ IsInjective(pass.kinds)
  BY <1>1, <1>5 DEF FoundOnce
<1>8. IsInjective(rest)
  <2> SUFFICES ASSUME NEW k \in 1..Len(rest), NEW l \in 1..Len(rest), rest[k] = rest[l]
               PROVE  k = l
    BY <1>7 DEF IsInjective
  <2>1. k + 1 = l + 1
    BY <1>5, <1>6, <1>7 DEF IsInjective
  <2> QED
    BY <1>5, <2>1
<1>9. \A k \in 1..Len(rest) : rest[k] # kind
  BY <1>5, <1>6, <1>7 DEF IsInjective
<1>10. \A i \in 1..Len(pass.found) :
         /\ KindOf[pass.found[i]] # kind
         /\ \A k \in 1..Len(rest) : KindOf[pass.found[i]] # rest[k]
  <2>1. \A i \in 1..Len(pass.found), k \in 1..Len(pass.kinds) :
          KindOf[pass.found[i]] # pass.kinds[k]
    BY <1>1 DEF FoundOnce
  <2>2. \A i \in 1..Len(pass.found) : KindOf[pass.found[i]] # kind
    BY <1>5, <1>7, <2>1
  <2>3. ASSUME NEW i \in 1..Len(pass.found), NEW k \in 1..Len(rest)
        PROVE  KindOf[pass.found[i]] # rest[k]
    <3>1. rest[k] = pass.kinds[k + 1] /\ k + 1 \in 1..Len(pass.kinds)
      BY <1>5, <1>6
    <3> QED
      BY <2>1, <3>1
  <2> QED
    BY <2>2, <2>3
<1>11. IsInjective(pass.found \o s)
  <2>1. \A i \in 1..Len(pass.found), j \in 1..Len(s) : pass.found[i] # s[j]
    BY <1>4, <1>10
  <2>2. IsInjective(pass.found)
    BY <1>1 DEF FoundOnce
  <2> QED
    BY <1>1, <1>3, <1>4, <2>1, <2>2, OneAfterAnother
<1>12. FoundOnce(pass.found \o s, rest)
  <2> DEFINE u == pass.found \o s
  <2>1. /\ Len(u) = Len(pass.found) + Len(s) /\ Len(s) \in Nat /\ Len(pass.found) \in Nat
        /\ \A i \in 1..(Len(pass.found) + Len(s)) :
             u[i] = IF i <= Len(pass.found) THEN pass.found[i] ELSE s[i - Len(pass.found)]
    BY <1>1, <1>3, ConcatProperties
  <2> HIDE DEF u
  <2>2. ASSUME NEW i \in 1..Len(u)
        PROVE  \/ i \in 1..Len(pass.found) /\ u[i] = pass.found[i]
               \/ i - Len(pass.found) \in 1..Len(s) /\ u[i] = s[i - Len(pass.found)]
    BY <2>1
  <2>3. ASSUME NEW i \in 1..Len(u), NEW k \in 1..Len(rest)
        PROVE  KindOf[u[i]] # rest[k]
    <3>1. CASE i \in 1..Len(pass.found) /\ u[i] = pass.found[i]
      BY <1>10, <3>1
    <3>2. CASE i - Len(pass.found) \in 1..Len(s) /\ u[i] = s[i - Len(pass.found)]
      <4>1. KindOf[u[i]] = kind
        BY <1>4, <3>2
      <4> QED
        BY <1>9, <4>1
    <3> QED
      BY <2>2, <3>1, <3>2
  <2> QED
    BY <1>8, <1>11, <2>3 DEF FoundOnce, u
<1>13. /\ pass'.at = "collect" /\ pass'.found = pass.found \o s /\ pass'.kinds = rest
       /\ pass'.active = <<>> /\ pass'.truncated = 0
  BY <1>1, <1>2 DEF Pass
<1> QED
  BY <1>12, <1>13 DEF CollectedOnce

\* The list is cut, and what is cut off is counted.
LEMMA CutOnce ==
    ASSUME TypeOK, FoundInScope, CollectedOnce, Collected
    PROVE  CollectedOnce'
<1> DEFINE n == IF Len(pass.found) < MaxActive THEN Len(pass.found) ELSE MaxActive
           reach == Scope[pass.policy][pass.gen]
<1>1. /\ pass \in Pass /\ pass.at = "collect" /\ pass.policy \in Policies
      /\ pass.gen \in Generations
      /\ FoundOnce(pass.found, pass.kinds) /\ pass.found \in Seq(reach)
  BY DEF Collected, Collects, TypeOK, Pass, CollectedOnce, FoundInScope
<1>2. n \in Nat /\ n <= Len(pass.found) /\ Len(pass.found) \in Nat
  BY <1>1, ReconcilerAssumption
<1>3. pass' = [pass EXCEPT !.at = "statusGet", !.active = SubSeq(pass.found, 1, n),
                           !.truncated = Len(pass.found) - n]
  BY DEF Collected
<1> HIDE DEF n
<1>4. IsFiniteSet(reach)
  <2>1. reach \subseteq Workloads
    <3>1. Scope[pass.policy] \in [Generations -> SUBSET Workloads]
      BY <1>1, ReconcilerAssumption
    <3> QED
      BY <1>1, <3>1
  <2> QED
    BY <2>1, WorkloadsAreFinite, FS_Subset
<1>5. Len(pass.found) <= Cardinality(reach) /\ Cardinality(reach) \in Nat
  BY <1>1, <1>4, NoLongerThan DEF FoundOnce
<1>6. Len(SubSeq(pass.found, 1, n)) = n /\ IsInjective(SubSeq(pass.found, 1, n))
  BY <1>1, <1>2, FirstOnesOnce DEF FoundOnce
<1>7. /\ pass'.at = "statusGet" /\ pass'.policy = pass.policy /\ pass'.gen = pass.gen
      /\ pass'.active = SubSeq(pass.found, 1, n) /\ pass'.truncated = Len(pass.found) - n
  BY <1>1, <1>3 DEF Pass
<1>8. Len(pass'.active) + pass'.truncated <= Cardinality(reach)
  <2>1. Len(pass'.active) = n /\ pass'.truncated = Len(pass.found) - n
    BY <1>6, <1>7
  <2> QED
    BY <1>2, <1>5, <2>1
<1> QED
  BY <1>6, <1>7, <1>8 DEF CollectedOnce

\* The drafts: the initial phase on a copy of the status, and the result.
LEMMA DraftsOnce ==
    ASSUME TypeOK, LinesOnce, CollectedOnce, PendingGet \/ (StatusGet /\ pass'.at # "idle")
    PROVE  CollectedOnce'
<1> DEFINE line == policies[pass.policy]
           old == Cached(line).status
<1>1. pass \in Pass /\ pass.policy \in Policies /\ old \in Status /\ Once(pass.policy, old)
  <2>1. pass \in Pass /\ pass.policy \in Policies
    BY DEF TypeOK, PendingGet, StatusGet
  <2>2. line \in Seq(PolicyVersion) \ {<<>>} /\ Len(line) \in Nat \ {0}
    BY <2>1, LineEnds DEF TypeOK
  <2>3. Cached(line) = line[1] /\ 1 \in 1..Len(line)
    BY <2>2 DEF Cached
  <2>4. Once(pass.policy, old)
    BY <2>1, <2>3 DEF LinesOnce
  <2> QED
    BY <2>1, <2>4, CachedIsVersion, VersionNumbers
<1>2. CASE PendingGet
  <2> DEFINE new == [old EXCEPT !.phase = "Pending"]
             g == Cached(line).gen
  <2>1. pass.at = "pendingGet" /\ pass' = [Draft("pendingPut", new) EXCEPT !.gen = g]
    BY <1>2 DEF PendingGet
  <2>2. new.active = old.active /\ new.observed = old.observed /\ new.truncated = old.truncated
    BY <1>1 DEF Status
  <2>3. Once(pass.policy, new)
    BY <1>1, <2>2 DEF Once
  <2> HIDE DEF new, g
  <2>4. /\ pass'.at = "pendingPut" /\ pass'.policy = pass.policy /\ pass'.draft.status = new
        /\ pass'.active = pass.active /\ pass'.truncated = pass.truncated
        /\ pass'.found = pass.found /\ pass'.kinds = pass.kinds
    BY <1>1, <2>1 DEF Draft, Pass
  <2> QED
    BY <2>1, <2>3, <2>4 DEF CollectedOnce, Once
<1>3. CASE StatusGet /\ pass'.at # "idle"
  <2> DEFINE new == Mutated(old)
  <2>1. pass.at = "statusGet" /\ pass' = Draft("statusPut", new)
    BY <1>3 DEF StatusGet, Finish, NoPass
  <2>2. /\ new.active = pass.active /\ new.observed = pass.gen
        /\ new.truncated = pass.truncated
    BY DEF Mutated
  <2>3. Once(pass.policy, new)
    BY <2>1, <2>2 DEF Once, CollectedOnce
  <2> HIDE DEF new
  <2>4. /\ pass'.at = "statusPut" /\ pass'.policy = pass.policy /\ pass'.gen = pass.gen
        /\ pass'.draft.status = new
        /\ pass'.active = pass.active /\ pass'.truncated = pass.truncated
    BY <1>1, <2>1 DEF Draft, Pass
  <2> QED
    BY <2>1, <2>3, <2>4 DEF CollectedOnce, Once
<1> QED
  BY <1>2, <1>3

\* The other steps keep what was found, find nothing or are the last.
LEMMA StepsKeepFound ==
    ASSUME TypeOK, CollectedOnce, Steps
    PROVE  CollectedOnce' \/ ListKind \/ Collected \/ PendingGet \/ (StatusGet /\ pass'.at # "idle")
<1> DEFINE Same == /\ FoundKept /\ pass'.policy = pass.policy /\ pass'.gen = pass.gen
                   /\ pass'.kinds = pass.kinds
<1>1. pass \in Pass /\ NoPass.at = "idle"
  BY DEF TypeOK, NoPass
<1>2. ASSUME NEW p \in Policies, Start(p)
      PROVE  CollectedOnce'
  <2>1. /\ pass'.at \in {"pendingGet", "list"} /\ pass'.active = <<>> /\ pass'.truncated = 0
        /\ pass'.found = <<>> /\ pass'.kinds = Kinds
    BY <1>2 DEF Start, NoPass
  <2> QED
    BY <2>1, NothingTwice DEF CollectedOnce
<1>3. CASE List \/ PendingPut \/ LoopEnds
  <2>1. /\ pass.at \in {"list", "pendingPut", "loop"} /\ pass'.at \in {"loop", "list", "collect"}
        /\ Same
    BY <1>1, <1>3 DEF List, PendingPut, LoopEnds, Loops, FoundKept, Pass
  <2> QED
    BY <2>1, SameCollected
<1>4. CASE Onwards
  <2>1. pass.at \in {"loop", "act", "stop"} /\ pass'.at \in {"loop", "act", "stop"} /\ Same
    BY <1>4 DEF Onwards, DoneWith, Taken, Recorded, TriedAgain
  <2> QED
    BY <2>1, SameCollected
<1>5. CASE PendingConflict \/ StatusConflict
  <2>1. CASE pass' = NoPass
    BY <1>1, <1>5, <2>1, SameCollected DEF PendingConflict, StatusConflict
  <2>2. CASE pass' # NoPass
    <3>1. /\ \/ pass.at = "pendingPut" /\ pass'.at = "pendingGet"
             \/ pass.at = "statusPut" /\ pass'.at = "statusGet"
          /\ Same
      BY <1>1, <1>5, <2>2
         DEF PendingConflict, StatusConflict, RetryFrom, Finish, FoundKept, Pass
    <3> QED
      BY <3>1, SameCollected
  <2> QED
    BY <2>1, <2>2
<1>6. CASE ListKindFails
  <2>1. /\ pass.at = "collect" /\ pass'.at = "statusGet" /\ pass'.active = pass.active
        /\ pass'.truncated = pass.truncated
        /\ pass'.policy = pass.policy /\ pass'.gen = pass.gen
    BY <1>1, <1>6 DEF ListKindFails, Collects, Pass
  <2>2. pass'.active = <<>> /\ pass'.truncated = 0
    BY <2>1 DEF CollectedOnce
  <2>3. Cardinality(Scope[pass.policy][pass.gen]) \in Nat
    <3>1. pass.policy \in Policies /\ pass.gen \in Generations
      BY <1>1, <2>1 DEF TypeOK, Pass
    <3>2. Scope[pass.policy] \in [Generations -> SUBSET Workloads]
      BY <3>1, ReconcilerAssumption
    <3> QED
      BY <3>1, <3>2, SmallerSets
  <2>4. Len(pass'.active) = 0
    BY <2>2
  <2>5. Len(pass'.active) + pass'.truncated <= Cardinality(Scope[pass.policy][pass.gen])
    BY <2>2, <2>3, <2>4
  <2> QED
    BY <2>1, <2>2, <2>5, NothingTwice DEF CollectedOnce
<1>7. CASE StatusPut \/ CallFails \/ StatusAnswerLost \/ Crash \/ (StatusGet /\ pass'.at = "idle")
  <2>1. pass'.at = "idle"
    BY <1>1, <1>7 DEF StatusPut, CallFails, StatusAnswerLost, Crash, Finish
  <2> QED
    BY <2>1 DEF CollectedOnce
<1> QED
  BY <1>2, <1>3, <1>4, <1>5, <1>6, <1>7 DEF Steps

\* The invariant is inductive.
LEMMA OnceStays ==
    TypeOK /\ Fits /\ FoundInScope /\ CollectedOnce /\ LinesOnce /\ [Next]_vars
      => CollectedOnce' /\ LinesOnce'
<1> SUFFICES ASSUME TypeOK, Fits, FoundInScope, CollectedOnce, LinesOnce, [Next]_vars
             PROVE  CollectedOnce' /\ LinesOnce'
  OBVIOUS
<1>1. CollectedOnce'
  BY StepsOfALoop, ElsewhereFindsNothing, StepsKeepFound, KindsAreListedOnce, CutOnce, DraftsOnce
<1>2. ASSUME NEW p \in Policies, NEW i \in 1..Len(policies'[p])
      PROVE  Once(p, policies'[p][i].status)
  <2>1. StatusAfter(p, policies'[p][i].status)
    BY <1>2, StatusSteps
  <2>2. \A j \in 1..Len(policies[p]) : Once(p, policies[p][j].status)
    BY DEF LinesOnce
  <2>3. pass.at \in {"pendingPut", "statusPut"} => Once(pass.policy, pass.draft.status)
    BY DEF CollectedOnce
  <2> QED
    BY <2>1, <2>2, <2>3 DEF StatusAfter
<1> QED
  BY <1>1, <1>2 DEF LinesOnce, Once

\* No status names a workload twice or claims more workloads than its policy includes,
\* however the lists, their failures and the changes of the spec fall between each other
\* (helpers.go:594-682, crashlooppolicy_controller.go:262-286).
THEOREM ListsNoneTwice == Spec => []ListsEachOnce
<1>1. Init => /\ Known /\ Fits /\ CountedOnce /\ FoundInScope /\ LinesHonest
              /\ CollectedOnce /\ LinesOnce
  <2> SUFFICES ASSUME Init
               PROVE  CollectedOnce /\ LinesOnce
    BY KnownStarts, HandsAreFree
  <2>1. \A p \in Policies : policies[p] = <<[gen |-> 1, status |-> NewStatus]>>
    BY DEF Init
  <2>2. \A p \in Policies : Once(p, NewStatus)
    BY NothingTwice DEF Once, NewStatus
  <2>3. LinesOnce
    BY <2>1, <2>2 DEF LinesOnce
  <2>4. pass.at = "idle"
    BY DEF Init, NoPass
  <2> QED
    BY <2>3, <2>4 DEF CollectedOnce
<1>2. Known /\ Fits /\ CountedOnce /\ FoundInScope /\ LinesHonest /\ [Next]_vars
        => Fits' /\ CountedOnce' /\ FoundInScope' /\ LinesHonest'
  BY CountStays, ListStays DEF Known
<1>3. Known /\ Fits /\ FoundInScope /\ CollectedOnce /\ LinesOnce /\ [Next]_vars
        => CollectedOnce' /\ LinesOnce'
  BY OnceStays DEF Known
<1>4. LinesOnce => ListsEachOnce
  BY DEF LinesOnce, Once, ListsEachOnce
<1> QED
  BY <1>1, <1>2, <1>3, <1>4, KnownStays, PTL DEF Spec

-----------------------------------------------------------------------------
(* ListsOnlySigned.  A workload that is signed once stays signed, so that what *)
(* an old copy says of it still holds when the status is written.              *)

SignedLines ==
    \A w \in Workloads : \A i \in 1..Len(workloads[w]) :
        workloads[w][i].by # None => Live(workloads[w]).by # None

\* What a policy may report, now and after the step.
Reportable(p, w) == p \notin DryRun /\ Live(workloads[w]).by # None
ReportableNext(p, w) == p \notin DryRun /\ Live(workloads'[w]).by # None

\* A signature is replaced by another at most.
LEMMA SignedStays ==
    ASSUME TypeOK, [Next]_vars, NEW w \in Workloads, Live(workloads[w]).by # None
    PROVE  Live(workloads'[w]).by # None
<1>1. Live(workloads[w]) \in Workload /\ None \notin Policies
  BY WorkloadLine, ReconcilerAssumption
<1>2. ASSUME pass.at = "act", NEW n \in {0, 1},
             Live(workloads'[w]) = [size |-> n, by |-> pass.policy]
      PROVE  Live(workloads'[w]).by # None
  BY <1>1, <1>2 DEF TypeOK
<1>3. ASSUME NEW n \in {0, 1}, Live(workloads'[w]) = [Live(workloads[w]) EXCEPT !.size = n]
      PROVE  Live(workloads'[w]).by # None
  BY <1>1, <1>3 DEF Workload
<1> QED
  BY <1>2, <1>3, LineSteps DEF LiveAfter

LEMMA SignedLinesStay == TypeOK /\ SignedLines /\ [Next]_vars => SignedLines'
<1> SUFFICES ASSUME TypeOK, SignedLines, [Next]_vars,
                    NEW w \in Workloads, NEW i \in 1..Len(workloads'[w]),
                    workloads'[w][i].by # None
             PROVE  Live(workloads'[w]).by # None
  BY DEF SignedLines, Live
<1>1. ASSUME NEW j \in 1..Len(workloads[w]), workloads'[w][i].by = workloads[w][j].by
      PROVE  Live(workloads'[w]).by # None
  BY <1>1, SignedStays DEF SignedLines
<1>2. CASE pass.at = "act" /\ Live(workloads'[w]).by = pass.policy
  BY <1>2, ReconcilerAssumption DEF TypeOK
<1> QED
  BY <1>1, <1>2, LineSteps DEF ByAfter

\* What the policies report, and what an evaluation is about to report.
ReportsSigned ==
    \A p \in Policies : \A i \in 1..Len(policies[p]) :
        \A w \in Range(policies[p][i].status.active) : Reportable(p, w)

AtReport == Range(pass.found) \cup Range(pass.active) \cup Range(pass.draft.status.active)

PassReportsSigned == \A w \in AtReport : Reportable(pass.policy, w)

\* Only workloads are reported.
LEMMA WorkloadsReported ==
    ASSUME TypeOK
    PROVE  /\ AtReport \subseteq Workloads
           /\ \A p \in Policies : \A i \in 1..Len(policies[p]) :
                Range(policies[p][i].status.active) \subseteq Workloads
<1>1. ASSUME NEW t \in Status
      PROVE  Range(t.active) \subseteq Workloads
  <2>1. t.active \in Seq(Workloads)
    BY DEF Status
  <2> QED
    BY <2>1, RangeOfSeq
<1>2. /\ pass.found \in Seq(Workloads) /\ pass.active \in Seq(Workloads)
      /\ pass.draft.status \in Status
  BY VersionNumbers DEF TypeOK, Pass
<1>3. ASSUME NEW p \in Policies, NEW i \in 1..Len(policies[p])
      PROVE  policies[p][i].status \in Status
  <2>1. policies[p] \in Seq(PolicyVersion)
    BY DEF TypeOK
  <2>2. policies[p][i] \in PolicyVersion
    BY <2>1
  <2> QED
    BY <2>2, VersionNumbers
<1> QED
  BY <1>1, <1>2, <1>3, RangeOfSeq DEF AtReport

\* An evaluation that is over, or has just begun, reports nothing.
LEMMA NothingReported ==
    ASSUME pass'.found = <<>>, pass'.active = <<>>, pass'.draft = NoPass.draft
    PROVE  AtReport' = {}
<1>1. Range(<<>>) = {}
  BY DEF Range
<1>2. NoPass.draft.status.active = <<>>
  BY DEF NoPass, NewStatus
<1> QED
  BY <1>1, <1>2 DEF AtReport

\* Where the workloads come from that an evaluation is about to report.
LEMMA ReportsComeFrom ==
    ASSUME TypeOK, Steps
    PROVE  \/ AtReport' = {}
           \/ pass'.policy = pass.policy /\ AtReport' \subseteq AtReport
           \/ /\ pass'.policy = pass.policy /\ pass.policy \in Policies
              /\ AtReport' \subseteq
                   AtReport \cup Range(Cached(policies[pass.policy]).status.active)
           \/ /\ ListKind /\ pass'.policy = pass.policy
              /\ AtReport' \subseteq AtReport \cup Signed(Head(pass.kinds))
<1> DEFINE Goal == \/ AtReport' = {}
                   \/ pass'.policy = pass.policy /\ AtReport' \subseteq AtReport
                   \/ /\ pass'.policy = pass.policy /\ pass.policy \in Policies
                      /\ AtReport' \subseteq
                           AtReport \cup Range(Cached(policies[pass.policy]).status.active)
<1>1. /\ pass \in Pass
      /\ NoPass.found = <<>> /\ NoPass.active = <<>>
  BY DEF TypeOK, NoPass
<1>2. CASE pass' = NoPass
  BY <1>1, <1>2, NothingReported
<1>3. ASSUME NEW p \in Policies, Start(p)
      PROVE  Goal
  BY <1>3, NothingReported DEF Start, NoPass
<1>4. ASSUME FoundKept, pass'.policy = pass.policy
      PROVE  Goal
  BY <1>4 DEF FoundKept, AtReport
<1>5. CASE List \/ PendingPut \/ LoopEnds
  <2>1. FoundKept /\ pass'.policy = pass.policy
    BY <1>1, <1>5 DEF List, PendingPut, LoopEnds, Loops, FoundKept, Pass
  <2> QED
    BY <1>4, <2>1
<1>6. CASE Onwards
  BY <1>4, <1>6 DEF Onwards
<1>7. CASE (PendingConflict \/ StatusConflict) /\ pass' # NoPass
  <2>1. FoundKept /\ pass'.policy = pass.policy
    BY <1>1, <1>7 DEF PendingConflict, StatusConflict, RetryFrom, Finish, FoundKept, Pass
  <2> QED
    BY <1>4, <2>1
<1>8. CASE ListKindFails
  <2>1. FoundKept /\ pass'.policy = pass.policy
    BY <1>1, <1>8 DEF ListKindFails, FoundKept, Pass
  <2> QED
    BY <1>4, <2>1
<1>9. CASE PendingGet
  <2> DEFINE old == Cached(policies[pass.policy]).status
             new == [old EXCEPT !.phase = "Pending"]
             g == Cached(policies[pass.policy]).gen
  <2>1. pass' = [Draft("pendingPut", new) EXCEPT !.gen = g] /\ pass.policy \in Policies
    BY <1>9 DEF PendingGet, TypeOK
  <2>2. old \in Status
    BY <2>1, CachedIsVersion, VersionNumbers
  <2>3. new.active = old.active
    BY <2>2 DEF Status
  <2> HIDE DEF new, g
  <2>4. /\ pass'.policy = pass.policy /\ pass'.draft.status = new
        /\ pass'.active = pass.active /\ pass'.found = pass.found
    BY <1>1, <2>1 DEF Draft, Pass
  <2> QED
    BY <2>1, <2>3, <2>4 DEF AtReport
<1>10. CASE StatusGet /\ pass' # NoPass
  <2> DEFINE new == Mutated(Cached(policies[pass.policy]).status)
  <2>1. pass' = Draft("statusPut", new)
    BY <1>10 DEF StatusGet, Finish
  <2>2. new.active = pass.active
    BY DEF Mutated
  <2> HIDE DEF new
  <2>3. /\ pass'.policy = pass.policy /\ pass'.draft.status = new
        /\ pass'.active = pass.active /\ pass'.found = pass.found
    BY <1>1, <2>1 DEF Draft, Pass
  <2> QED
    BY <2>2, <2>3 DEF AtReport
<1>11. CASE Collected
  <2> DEFINE n == IF Len(pass.found) < MaxActive THEN Len(pass.found) ELSE MaxActive
  <2>1. pass.found \in Seq(Workloads) /\ n \in Nat /\ n <= Len(pass.found)
    BY <1>1, ReconcilerAssumption DEF Pass
  <2>2. pass' = [pass EXCEPT !.at = "statusGet", !.active = SubSeq(pass.found, 1, n),
                             !.truncated = Len(pass.found) - n]
    BY <1>11 DEF Collected
  <2> HIDE DEF n
  <2>3. Range(SubSeq(pass.found, 1, n)) \subseteq Range(pass.found)
    BY <2>1, FirstOnesOnce
  <2>4. /\ pass'.policy = pass.policy /\ pass'.draft = pass.draft
        /\ pass'.active = SubSeq(pass.found, 1, n) /\ pass'.found = pass.found
    BY <1>1, <2>2 DEF Pass
  <2> QED
    BY <2>3, <2>4 DEF AtReport
<1>12. CASE ListKind
  <2> DEFINE S == Signed(Head(pass.kinds))
  <2>1. PICK s \in SetToSeqs(S) :
          pass' = [pass EXCEPT !.kinds = Tail(pass.kinds), !.found = pass.found \o s]
    BY <1>12 DEF ListKind
  <2>2. s \in Seq(Workloads) /\ pass.found \in Seq(Workloads)
    <3>1. pass.policy \in Policies /\ pass.found \in Seq(Workloads)
      BY <1>1, <1>12 DEF ListKind, Collects, TypeOK, Pass
    <3>2. s \in Seq(Workloads)
      BY <2>1, <3>1, SignedInOrder, SeqMonotonic
    <3> QED
      BY <3>1, <3>2
  <2>3. Range(s) \subseteq S
    BY <2>1 DEF SetToSeqs, Range
  <2>4. Range(pass.found \o s) = Range(pass.found) \cup Range(s)
    BY <2>2, RangeConcatenation
  <2> HIDE DEF S
  <2>5. /\ pass'.policy = pass.policy /\ pass'.draft = pass.draft
        /\ pass'.active = pass.active /\ pass'.found = pass.found \o s
    BY <1>1, <2>1 DEF Pass
  <2>6. AtReport' \subseteq AtReport \cup S
    BY <2>3, <2>4, <2>5 DEF AtReport
  <2> QED
    BY <1>12, <2>5, <2>6 DEF S
<1> QED
  BY <1>2, <1>3, <1>5, <1>6, <1>7, <1>8, <1>9, <1>10, <1>11, <1>12
     DEF Steps, StatusPut, CallFails, StatusAnswerLost, Crash, Finish

\* What carries the policy's signature in an old copy may be reported.
LEMMA SignedIsReportable ==
    ASSUME TypeOK, SignedByRight, SignedLines, NEW kind, pass.policy \in Policies,
           pass.gen \in Generations, NEW w \in Signed(kind)
    PROVE  w \in Workloads /\ Reportable(pass.policy, w)
<1>1. w \in Workloads
  <2>1. Scope[pass.policy] \in [Generations -> SUBSET Workloads]
    BY ReconcilerAssumption
  <2> QED
    BY <2>1 DEF Signed
<1>2. /\ Cached(workloads[w]).by = pass.policy /\ pass.policy # None
      /\ Cached(workloads[w]) = workloads[w][1] /\ 1 \in 1..Len(workloads[w])
  <2>1. Len(workloads[w]) \in Nat \ {0}
    BY <1>1, WorkloadLine
  <2> QED
    BY <2>1, ReconcilerAssumption DEF Signed, Cached
<1>3. MaySign(pass.policy, w)
  BY <1>1, <1>2 DEF SignedByRight
<1>4. Live(workloads[w]).by # None
  BY <1>1, <1>2 DEF SignedLines
<1> QED
  BY <1>1, <1>3, <1>4 DEF Reportable, MaySign

\* What may be reported may be reported from then on.
LEMMA ReportableStays ==
    ASSUME TypeOK, [Next]_vars, NEW p, NEW w \in Workloads, Reportable(p, w)
    PROVE  ReportableNext(p, w)
BY SignedStays DEF Reportable, ReportableNext

\* The invariant is inductive.
LEMMA ReportsStay ==
    TypeOK /\ Fits /\ SignedByRight /\ SignedLines /\ ReportsSigned /\ PassReportsSigned
      /\ [Next]_vars => ReportsSigned' /\ PassReportsSigned'
<1> SUFFICES ASSUME TypeOK, Fits, SignedByRight, SignedLines,
                    ReportsSigned, PassReportsSigned, [Next]_vars
             PROVE  ReportsSigned' /\ PassReportsSigned'
  OBVIOUS
<1>1. ASSUME NEW w \in AtReport'
      PROVE  ReportableNext(pass'.policy, w)
  <2>1. ASSUME w \in AtReport, pass'.policy = pass.policy
        PROVE  ReportableNext(pass'.policy, w)
    BY <2>1, WorkloadsReported, ReportableStays DEF PassReportsSigned
  <2>2. CASE UNCHANGED vars \/ Elsewhere
    <3>1. pass' = pass \/ pass' = [pass EXCEPT !.fresh = FALSE]
      BY <2>2, ElsewhereWaits
    <3>2. /\ pass'.policy = pass.policy /\ pass'.found = pass.found
          /\ pass'.active = pass.active /\ pass'.draft = pass.draft
      BY <3>1 DEF TypeOK, Pass
    <3>3. AtReport' = AtReport
      BY <3>2 DEF AtReport
    <3> QED
      BY <1>1, <2>1, <3>2, <3>3
  <2>3. ASSUME pass'.policy = pass.policy, pass.policy \in Policies,
               w \in Range(Cached(policies[pass.policy]).status.active)
        PROVE  ReportableNext(pass'.policy, w)
    <3>1. Len(policies[pass.policy]) \in Nat \ {0}
      BY <2>3, LineEnds DEF TypeOK
    <3>2. 1 \in 1..Len(policies[pass.policy])
          /\ w \in Range(policies[pass.policy][1].status.active)
      BY <2>3, <3>1 DEF Cached
    <3>3. w \in Workloads /\ Reportable(pass.policy, w)
      BY <2>3, <3>2, WorkloadsReported DEF ReportsSigned
    <3> QED
      BY <2>3, <3>3, ReportableStays
  <2>4. CASE /\ ListKind /\ pass'.policy = pass.policy
             /\ AtReport' \subseteq AtReport \cup Signed(Head(pass.kinds))
    <3>1. pass.policy \in Policies /\ pass.gen \in Generations
      BY <2>4 DEF ListKind, Collects, TypeOK, Pass
    <3>2. ASSUME w \in Signed(Head(pass.kinds))
          PROVE  ReportableNext(pass'.policy, w)
      BY <2>4, <3>1, <3>2, SignedIsReportable, ReportableStays
    <3> QED
      BY <1>1, <2>1, <2>4, <3>2
  <2> QED
    BY <1>1, <2>1, <2>2, <2>3, <2>4, StepsOfALoop, ReportsComeFrom
<1>2. ASSUME NEW p \in Policies, NEW i \in 1..Len(policies'[p]),
             NEW w \in Range(policies'[p][i].status.active)
      PROVE  ReportableNext(p, w)
  <2>1. StatusAfter(p, policies'[p][i].status)
    BY StatusSteps
  <2>2. w \in Workloads /\ Reportable(p, w)
    <3>1. ASSUME NEW j \in 1..Len(policies[p]), policies'[p][i].status = policies[p][j].status
          PROVE  w \in Workloads /\ Reportable(p, w)
      BY <1>2, <3>1, WorkloadsReported DEF ReportsSigned
    <3>2. CASE pass.policy = p /\ policies'[p][i].status = pass.draft.status
      BY <1>2, <3>2, WorkloadsReported DEF PassReportsSigned, AtReport
    <3> QED
      BY <2>1, <3>1, <3>2 DEF StatusAfter
  <2> QED
    BY <2>2, ReportableStays
<1>3. PassReportsSigned'
  BY <1>1 DEF PassReportsSigned, Reportable, ReportableNext, Live
<1>4. ReportsSigned'
  BY <1>2 DEF ReportsSigned, Reportable, ReportableNext, Live
<1> QED
  BY <1>3, <1>4

\* Nobody is reported whom the operator did not touch, however old the copies are that
\* the status is made from, and a dry run reports nobody (helpers.go:589-682, 556-591).
THEOREM ReportsAreSigned == Spec => []ListsOnlySigned
<1>1. Init => /\ Known /\ Fits /\ CountedOnce /\ AtHand /\ KindsLeft /\ SignedByRight
              /\ SignedLines /\ ReportsSigned /\ PassReportsSigned
  <2> SUFFICES ASSUME Init
               PROVE  SignedByRight /\ SignedLines /\ ReportsSigned /\ PassReportsSigned
    BY KnownStarts, HandsAreFree
  <2>1. SignedByRight /\ \A w \in Workloads : Len(workloads[w]) = 1
    BY FoundByRight
  <2>2. SignedLines
    BY <2>1 DEF SignedLines, Live
  <2>3. \A p \in Policies : policies[p] = <<[gen |-> 1, status |-> NewStatus]>>
    BY DEF Init
  <2>4. Range(NewStatus.active) = {}
    BY DEF NewStatus, Range
  <2>5. ReportsSigned
    BY <2>3, <2>4 DEF ReportsSigned
  <2>6. AtReport = {}
    <3>1. pass.found = <<>> /\ pass.active = <<>> /\ pass.draft.status = NewStatus
      BY DEF Init, NoPass
    <3>2. Range(<<>>) = {}
      BY DEF Range
    <3> QED
      BY <2>4, <3>1, <3>2 DEF AtReport
  <2>7. PassReportsSigned
    BY <2>6 DEF PassReportsSigned
  <2> QED
    BY <2>1, <2>2, <2>5, <2>7
<1>2. Known /\ Fits /\ CountedOnce /\ AtHand /\ KindsLeft /\ [Next]_vars
        => Fits' /\ CountedOnce' /\ AtHand' /\ KindsLeft'
  BY CountStays, HandsStay DEF Known
<1>3. Known /\ Fits /\ SignedByRight /\ SignedLines /\ ReportsSigned /\ PassReportsSigned
        /\ [Next]_vars => SignedLines' /\ ReportsSigned' /\ PassReportsSigned'
  BY SignedLinesStay, ReportsStay DEF Known
<1>4. ReportsSigned => ListsOnlySigned
  BY DEF ReportsSigned, Reportable, ListsOnlySigned
<1> QED
  BY <1>1, <1>2, <1>3, <1>4, KnownStays, SignaturesStay, PTL DEF Spec
=============================================================================
