--------------------------- MODULE Schedule_proofs ---------------------------
(***************************************************************************)
(* Proofs about Schedule: the two bounds on how late a pod is judged hold  *)
(* for any threshold, interval, minimum requeue, waiting time, length of   *)
(* an evaluation and back-off, for any number of pods and of events.       *)
(***************************************************************************)
EXTENDS Schedule, WellFoundedInduction, TLAPS

\* The longest time a policy is not queued.
Longest == Later(Interval, MaxBackoff)

\* A pod is late only while it is overdue, and for as long as it has been.
LateIsOverdue ==
    \A p \in Pods : late[p] > 0 =>
        /\ Overdue(p)
        /\ pods[p] = MaxAge \/ late[p] <= pods[p] - DurationThreshold

\* An expiry lies no further in the past than the evaluation has lasted.
ExpiryIsRecent == pass.expiry = None \/ pass.expiry >= 1 - pass.elapsed

\* The time that is left until a pod is judged makes up for how late it is.
Anyway(p) ==
    /\ late[p] <= LatestAnyway
    /\ copy # "gone" /\ pass.at = "idle" /\ ~queued =>
         timer # None /\ late[p] + timer <= Longest + MaxEvaluation
    /\ copy # "gone" /\ pass.at = "idle" /\ queued =>
         late[p] <= Longest + MaxEvaluation + waited
    /\ copy # "gone" /\ pass.at = "scan" =>
         late[p] <= Longest + MaxEvaluation + MaxWait + pass.elapsed
    /\ copy # "gone" /\ pass.at \in {"report", "write"} => late[p] <= pass.elapsed
    /\ copy = "gone" /\ status # "gone" => late[p] = 0

\* The same for a pod whose expiry an evaluation has taken in.
Tracked(p) ==
    /\ late[p] <= LatestTracked
    /\ pass.at \in {"report", "write"} =>
         /\ pods[p] - pass.elapsed < DurationThreshold
         /\ pass.expiry # None /\ pass.expiry <= DurationThreshold - pods[p]
    /\ copy # "gone" /\ pass.at = "idle" /\ ~queued =>
         late[p] + timer <= MinimumRequeue - 1 + MaxEvaluation + Later(0, DurationThreshold - pods[p])
    /\ copy # "gone" /\ pass.at = "idle" /\ queued =>
         late[p] <= MinimumRequeue - 1 + MaxEvaluation + waited
    /\ copy # "gone" /\ pass.at = "scan" =>
         late[p] <= MinimumRequeue - 1 + MaxEvaluation + MaxWait + pass.elapsed

Inv ==
    /\ TypeOK
    /\ LateIsOverdue
    /\ ExpiryIsRecent
    /\ \A p \in Pods : Anyway(p)
    /\ \A p \in tracked : Tracked(p)

-----------------------------------------------------------------------------
\* Every nonempty set of natural numbers has a least element.
LEMMA LeastNatural ==
    ASSUME NEW T, T \subseteq Nat, T # {}
    PROVE  \E x \in T : \A y \in T : x <= y
<1>1. IsWellFoundedOn(OpToRel(<, Nat), Nat)
  BY NatLessThanWellFounded
<1>2. PICK x \in T : \A y \in T : ~ (<<y, x>> \in OpToRel(<, Nat))
  BY <1>1, WFMin
<1>3. \A y \in T : ~ (y < x)
  BY <1>2 DEF OpToRel
<1> QED
  BY <1>3

\* What is left to the pods that wait is more than the evaluation has used up,
\* and the earliest expiry is the least of it.
LEMMA EarliestIsLeast ==
    ASSUME TypeOK
    PROVE  /\ Remaining = {} => EarliestExpiry = None
           /\ Remaining # {} => EarliestExpiry \in Remaining
           /\ \A r \in Remaining : /\ r \in (1 - pass.elapsed)..DurationThreshold
                                   /\ EarliestExpiry <= r
<1>1. Remaining \subseteq (1 - pass.elapsed)..DurationThreshold /\ pass.elapsed \in Nat
  BY ScheduleAssumption DEF TypeOK, Evaluation, Remaining, Pending, AgeAtStart, InScope, MaxAge, Unknown, None
<1>2. CASE Remaining = {}
  BY <1>2 DEF EarliestExpiry
<1>3. CASE Remaining # {}
  <2> DEFINE Shifted == {r + pass.elapsed : r \in Remaining}
  <2>1. \A r \in Remaining : r \in Int /\ r + pass.elapsed \in Nat
    BY <1>1, ScheduleAssumption
  <2>2a. Shifted \subseteq Nat /\ Shifted # {}
    BY <1>3, <2>1
  <2>2. PICK x \in Shifted : \A y \in Shifted : x <= y
    BY <2>2a, LeastNatural
  <2>3. PICK r \in Remaining : x = r + pass.elapsed
    BY <2>2
  <2>4. \A t \in Remaining : r + pass.elapsed <= t + pass.elapsed
    BY <2>2, <2>3
  <2>5. \A t \in Remaining : r <= t
    BY <1>1, <2>1, <2>4
  <2> QED
    BY <1>1, <1>3, <2>5 DEF EarliestExpiry, Min
<1> QED
  BY <1>2, <1>3

\* The intervals are positive, and the policy is queued again no later than the
\* interval and than the expiry, raised to the minimum.
LEMMA IntervalIsPositive ==
    /\ Interval \in Nat \ {0}
    /\ Longest \in Nat \ {0}
    /\ Interval <= Longest
    /\ MaxBackoff <= Longest
    /\ LatestAnyway = Longest + MaxWait + 2 * MaxEvaluation
    /\ LatestAnyway \in Nat
BY ScheduleAssumption DEF Interval, Longest, Later, LatestAnyway

LEMMA RequeueIsSoon ==
    ASSUME TypeOK
    PROVE  /\ RequeueAfter \in 1..Interval
           /\ pass.expiry # None =>
                RequeueAfter <= pass.expiry \/ RequeueAfter <= MinimumRequeue
<1>1. pass.expiry \in (1 - MaxEvaluation)..DurationThreshold \cup {None}
  BY DEF TypeOK, Evaluation
<1>2. CASE pass.expiry = None
  BY <1>2, IntervalIsPositive DEF RequeueAfter
<1>3. CASE pass.expiry # None
  <2>1. pass.expiry \in Int /\ MinimumRequeue \in Nat \ {0}
    BY <1>1, <1>3, ScheduleAssumption
  <2>2. /\ ThresholdRequeueAfter(pass.expiry) \in Nat \ {0}
        /\ \/ ThresholdRequeueAfter(pass.expiry) <= pass.expiry
           \/ ThresholdRequeueAfter(pass.expiry) <= MinimumRequeue
    BY <2>1 DEF ThresholdRequeueAfter, Later
  <2>3. RequeueAfter = Sooner(Interval, ThresholdRequeueAfter(pass.expiry))
    BY <1>3 DEF RequeueAfter
  <2> QED
    BY <1>3, <2>1, <2>2, <2>3, IntervalIsPositive DEF Sooner
<1> QED
  BY <1>2, <1>3

-----------------------------------------------------------------------------
\* An evaluation has its fields, before and after it begins.
LEMMA FreshPass ==
    /\ NoPass \in Evaluation
    /\ [NoPass EXCEPT !.at = "scan"] \in Evaluation
    /\ \A e \in Evaluation :
         /\ e.at \in {"idle", "scan", "report", "write"} /\ e.elapsed \in 0..MaxEvaluation
         /\ e.expiry \in (1 - MaxEvaluation)..DurationThreshold \cup {None} /\ e.ok \in BOOLEAN
<1>1. 0 \in 0..MaxEvaluation
  BY ScheduleAssumption
<1>2. NoPass \in Evaluation /\ [NoPass EXCEPT !.at = "scan"] \in Evaluation
  <2>1. NoPass \in Evaluation
    BY <1>1, Zenon DEF NoPass, Evaluation
  <2> QED
    BY <2>1 DEF Evaluation
<1>3. ASSUME NEW e \in Evaluation
      PROVE  /\ e.at \in {"idle", "scan", "report", "write"} /\ e.elapsed \in 0..MaxEvaluation
             /\ e.expiry \in (1 - MaxEvaluation)..DurationThreshold \cup {None} /\ e.ok \in BOOLEAN
  BY <1>3 DEF Evaluation
<1> QED
  BY <1>2, <1>3

THEOREM InvInit == Init => Inv
<1> SUFFICES ASSUME Init PROVE Inv
  OBVIOUS
<1>1. TypeOK
  <2>1. pass \in Evaluation
    BY FreshPass DEF Init
  <2>2. /\ pods \in [Pods -> 0..MaxAge \cup {Unknown, None}]
        /\ late \in [Pods -> 0..(LatestAnyway + 1)]
        /\ waited \in 0..MaxWait
        /\ events \in 0..MaxEvents
    BY IntervalIsPositive, ScheduleAssumption DEF Init
  <2> QED
    BY <2>1, <2>2 DEF Init, TypeOK
<1> QED
  BY <1>1, IntervalIsPositive, ScheduleAssumption
     DEF Init, Inv, LateIsOverdue, ExpiryIsRecent, Anyway, Tracked, NoPass

-----------------------------------------------------------------------------
\* Every step keeps the types.  Only time that passes needs more than they say:
\* an expiry in the past is no older than the evaluation.
LEMMA StaysTyped ==
    ASSUME TypeOK, ExpiryIsRecent, [Next]_vars
    PROVE  TypeOK'
<1> USE IntervalIsPositive, ScheduleAssumption
<1>1. CASE UNCHANGED vars
  BY <1>1 DEF vars, podVars, policyVars, TypeOK
<1>2. CASE Start
  <2>1. pass' \in Evaluation /\ timer' \in {timer, None} /\ gauge' \in {gauge, "gone"}
    BY <1>2, FreshPass DEF Start, ForgetPolicyMetrics
  <2>2. waited' = 0 /\ queued' = FALSE
    BY <1>2, Zenon DEF Start
  <2>3. 0 \in 0..MaxWait
    OBVIOUS
  <2> QED
    BY <1>2, <2>1, <2>2, <2>3, Zenon DEF Start, podVars, policyVars, TypeOK
<1>3. CASE Scan
  <2>1. EarliestExpiry \in (1 - MaxEvaluation)..DurationThreshold \cup {None}
    BY EarliestIsLeast DEF TypeOK, Evaluation
  <2>2. pass' \in Evaluation
    BY <1>3, <2>1 DEF Scan, TypeOK, Evaluation
  <2>3. Pending \subseteq Pods
    BY DEF Pending, InScope, TypeOK
  <2>4. pods' \in [Pods -> 0..MaxAge \cup {Unknown, None}] /\ late' \in [Pods -> 0..(LatestAnyway + 1)]
    BY <1>3 DEF Scan, TypeOK
  <2> QED
    BY <1>3, <2>2, <2>3, <2>4 DEF Scan, TypeOK, policyVars
<1>4. CASE Report
  <2>1. pass' \in Evaluation
    BY <1>4 DEF Report, TypeOK, Evaluation
  <2> QED
    BY <1>4, <2>1 DEF Report, Condition, TypeOK, podVars, policyVars
<1>5. CASE Write
  <2>1. timer' \in 0..Longest \cup {None}
    BY <1>5, RequeueIsSoon DEF Write, QueueAfter, Sooner, Longest, TypeOK
  <2> QED
    BY <1>5, <2>1, FreshPass DEF Write, Condition, Longest, TypeOK, podVars, policyVars
<1>6. CASE WriteRefused
  <2>1. timer' \in 0..Longest \cup {None}
    BY <1>6 DEF WriteRefused, ReturnError, Sooner, Longest, TypeOK
  <2> QED
    BY <1>6, <2>1, FreshPass DEF WriteRefused, ReturnError, Longest, TypeOK, policyVars
<1>7. CASE TimerFires
  BY <1>7 DEF TimerFires, TypeOK, podVars, policyVars
<1>8. CASE Deliver
  BY <1>8 DEF Deliver, TypeOK, podVars
<1>9. CASE Tick
  <2>1. pods' \in [Pods -> 0..MaxAge \cup {Unknown, None}]
    BY <1>9 DEF Tick, TypeOK, MaxAge
  <2>2. late' \in [Pods -> 0..(LatestAnyway + 1)]
    BY <1>9 DEF Tick, TypeOK
  <2>3. pass' \in Evaluation
    <3>1. CASE pass.at = "idle"
      BY <1>9, <3>1 DEF Tick, TypeOK
    <3>2. CASE pass.at # "idle"
      <4>1. pass' = [pass EXCEPT !.elapsed = @ + 1,
                                 !.expiry = IF @ = None THEN None ELSE @ - 1]
        BY <1>9, <3>2 DEF Tick
      <4>2. pass.elapsed \in 0..(MaxEvaluation - 1)
        BY <1>9, <3>2 DEF Tick, TypeOK, Evaluation
      <4>3. pass.expiry # None => pass.expiry - 1 \in (1 - MaxEvaluation)..DurationThreshold
        BY <4>2 DEF TypeOK, Evaluation, ExpiryIsRecent
      <4> QED
        <5>1. /\ pass.elapsed + 1 \in 0..MaxEvaluation
              /\ (IF pass.expiry = None THEN None ELSE pass.expiry - 1)
                    \in (1 - MaxEvaluation)..DurationThreshold \cup {None}
          BY <4>2, <4>3
        <5> QED
          BY <4>1, <5>1 DEF TypeOK, Evaluation
    <3> QED
      BY <3>1, <3>2
  <2>4. timer' \in 0..Longest \cup {None} /\ waited' \in 0..MaxWait
    BY <1>9 DEF Tick, TypeOK, Longest
  <2> QED
    BY <1>9, <2>1, <2>2, <2>3, <2>4 DEF Tick, TypeOK, policyVars, Longest
<1>10. CASE \E p \in Pods : \E age \in 0..DurationThreshold \cup {Unknown, None} : PodChanges(p, age)
  <2>1. PICK p \in Pods, age \in 0..DurationThreshold \cup {Unknown, None} : PodChanges(p, age)
    BY <1>10
  <2>2. age \in 0..MaxAge \cup {Unknown, None}
    BY DEF MaxAge
  <2>3. queued' \in BOOLEAN
    BY <2>1 DEF PodChanges, Mapped, TypeOK
  <2> QED
    BY <2>1, <2>2, <2>3 DEF PodChanges, Happens, TypeOK, policyVars
<1>11. CASE \E p \in Pods : NamespaceChanges(p)
  BY <1>11 DEF NamespaceChanges, Happens, TypeOK, policyVars
<1>12. CASE PolicyChanges
  BY <1>12 DEF PolicyChanges, Happens, TypeOK
<1>13. CASE TroubleChanges
  BY <1>13 DEF TroubleChanges, Happens, TypeOK, podVars, policyVars
<1>14. CASE CallFails
  <2>1. timer' \in 0..Longest \cup {None}
    BY <1>14 DEF CallFails, ReturnError, Sooner, Longest, TypeOK
  <2> QED
    BY <1>14, <2>1, FreshPass DEF CallFails, Happens, ReturnError, Longest, TypeOK, policyVars
<1>15. CASE Crash
  <2>1. queued' \in BOOLEAN
    BY <1>15 DEF Crash
  <2>2. waited' \in 0..MaxWait /\ events' \in 0..MaxEvents /\ late' \in [Pods -> 0..(LatestAnyway + 1)]
    BY <1>15 DEF Crash, Happens, TypeOK
  <2> QED
    BY <1>15, <2>1, <2>2, FreshPass, Zenon DEF Crash, TypeOK
<1> QED
  BY <1>1, <1>2, <1>3, <1>4, <1>5, <1>6, <1>7, <1>8, <1>9, <1>10, <1>11, <1>12, <1>13, <1>14, <1>15
     DEF Next, Worker

-----------------------------------------------------------------------------
\* No step makes a pod late that is not overdue, nor an expiry older than its
\* evaluation.
LEMMA LateStaysOverdue ==
    ASSUME TypeOK, LateIsOverdue, [Next]_vars
    PROVE  LateIsOverdue'
<1> USE ScheduleAssumption DEF LateIsOverdue, Overdue, InScope, MaxAge
<1>1. CASE UNCHANGED vars
  BY <1>1 DEF vars, podVars
<1>2. CASE Start \/ Report \/ Write \/ TimerFires \/ Deliver \/ TroubleChanges
  BY <1>2 DEF Start, Report, Write, TimerFires, Deliver, TroubleChanges, podVars
<1>3. CASE Scan
  BY <1>3 DEF Scan, TypeOK
<1>4. CASE WriteRefused
  BY <1>4 DEF WriteRefused
<1>5. CASE Tick
  <2> SUFFICES ASSUME NEW p \in Pods, late'[p] > 0
               PROVE  (Overdue(p) /\ (pods[p] = MaxAge \/ late[p] <= pods[p] - DurationThreshold))'
    BY DEF LateIsOverdue
  <2>1. /\ pods[p] \in 0..MaxAge \cup {Unknown, None} /\ late[p] \in Nat
        /\ pods'[p] = IF pods[p] \in 0..(MaxAge - 1) THEN pods[p] + 1 ELSE pods[p]
        /\ late'[p] = late[p] \/ (Overdue(p) /\ late'[p] = late[p] + 1)
        /\ admitted' = admitted
    BY <1>5 DEF Tick, TypeOK
  <2>2. Overdue(p) /\ (late[p] = 0 \/ pods[p] = MaxAge \/ late[p] <= pods[p] - DurationThreshold)
    BY <2>1
  <2>3. pods[p] \in DurationThreshold..MaxAge
    BY <2>1, <2>2 DEF Unknown, None
  <2> QED
    BY <2>1, <2>2, <2>3
<1>6. CASE \E p \in Pods : \E age \in 0..DurationThreshold \cup {Unknown, None} : PodChanges(p, age)
  BY <1>6 DEF PodChanges, TypeOK
<1>7. CASE \E p \in Pods : NamespaceChanges(p)
  BY <1>7 DEF NamespaceChanges, TypeOK
<1>8. CASE PolicyChanges \/ CallFails \/ Crash
  BY <1>8 DEF PolicyChanges, CallFails, Crash
<1> QED
  BY <1>1, <1>2, <1>3, <1>4, <1>5, <1>6, <1>7, <1>8 DEF Next, Worker

LEMMA ExpiryStaysRecent ==
    ASSUME TypeOK, ExpiryIsRecent, [Next]_vars
    PROVE  ExpiryIsRecent'
<1> USE ScheduleAssumption DEF ExpiryIsRecent
<1>1. CASE UNCHANGED vars
  BY <1>1 DEF vars
<1>2. CASE pass' = pass
  BY <1>2
<1>3. CASE pass' = NoPass \/ pass' = [NoPass EXCEPT !.at = "scan"]
  BY <1>3 DEF NoPass
<1>4. CASE Scan
  <2>1. pass'.expiry = EarliestExpiry /\ pass'.elapsed = pass.elapsed
    BY <1>4 DEF Scan, TypeOK, Evaluation
  <2> QED
    BY <2>1, EarliestIsLeast DEF TypeOK, Evaluation
<1>5. CASE Report
  BY <1>5 DEF Report, TypeOK, Evaluation
<1>6. CASE Tick
  BY <1>6 DEF Tick, TypeOK, Evaluation, None
<1> QED
  BY <1>1, <1>2, <1>3, <1>4, <1>5, <1>6
     DEF Next, Worker, Start, Write, WriteRefused, ReturnError, TimerFires, Deliver, PodChanges,
         NamespaceChanges, PolicyChanges, TroubleChanges, CallFails, Crash

-----------------------------------------------------------------------------
\* The numbers the two bounds speak of.
LEMMA Numbers ==
    ASSUME TypeOK, NEW p \in Pods
    PROVE  /\ late[p] \in Nat
           /\ pods[p] \in 0..MaxAge \cup {Unknown, None} /\ pods[p] \in Int
           /\ timer # None => timer \in 0..Longest
           /\ waited \in 0..MaxWait
           /\ pass.elapsed \in 0..MaxEvaluation
           /\ pass.at \in {"idle", "scan", "report", "write"}
           /\ pass.expiry # None => pass.expiry \in Int
BY ScheduleAssumption, FreshPass, IntervalIsPositive DEF TypeOK, Longest, MaxAge, Unknown, None

\* A step other than of time makes no pod later, and a scan judges every pod
\* that was overdue when the evaluation began.
LEMMA ScanIsFair ==
    ASSUME Inv, Scan, NEW p \in Pods
    PROVE  late'[p] = 0 \/ (late'[p] = late[p] /\ late[p] < pass.elapsed)
<1> USE ScheduleAssumption
<1>1. /\ late'[p] = 0 \/ (late'[p] = late[p] /\ ~ (p \in InScope /\ pods[p] >= 0 /\ p \notin Pending))
      /\ TypeOK /\ LateIsOverdue
  BY DEF Inv, Scan, TypeOK
<1>2. CASE late[p] = 0
  BY <1>1, <1>2
<1>3. CASE late[p] # 0
  <2>1. Overdue(p) /\ (pods[p] = MaxAge \/ late[p] <= pods[p] - DurationThreshold)
    BY <1>1, <1>3, Numbers DEF LateIsOverdue
  <2>2. p \in Pending => pods[p] - pass.elapsed < DurationThreshold
    BY DEF Pending, AgeAtStart
  <2> QED
    BY <1>1, <2>1, <2>2, Numbers DEF Overdue, MaxAge
<1> QED
  BY <1>2, <1>3

\* The first bound: the policy is in the queue, in evaluation or will be queued
\* in time.
LEMMA StaysOnTime ==
    ASSUME Inv, [Next]_vars, NEW p \in Pods
    PROVE  Anyway(p)'
<1> USE ScheduleAssumption, IntervalIsPositive
<1>1. TypeOK /\ TypeOK' /\ Anyway(p)
  BY StaysTyped DEF Inv
<1>2. CASE UNCHANGED vars
  BY <1>1, <1>2 DEF vars, podVars, policyVars, Anyway
<1>3. CASE Start
  BY <1>1, <1>3, Numbers DEF Start, podVars, policyVars, Anyway, NoPass
<1>4. CASE Scan
  BY <1>1, <1>4, ScanIsFair, Numbers DEF Scan, policyVars, TypeOK, Evaluation, Anyway
<1>5. CASE Report
  BY <1>1, <1>5, Numbers DEF Report, podVars, policyVars, TypeOK, Evaluation, Anyway
<1>6. CASE Write
  <2>1. timer' \in 0..Longest /\ timer' # None
    BY <1>1, <1>6, RequeueIsSoon, Numbers DEF Write, QueueAfter, Sooner, None
  <2> QED
    BY <1>1, <1>6, <2>1, Numbers DEF Write, podVars, Anyway, NoPass
<1>7. CASE WriteRefused
  <2>1. PICK b \in 0..MaxBackoff : timer' = IF timer = None THEN b ELSE Sooner(timer, b)
    BY <1>7 DEF WriteRefused, ReturnError
  <2>2. timer' \in 0..Longest /\ timer' # None
    <3>1. \A t \in 0..Longest : t # None
      BY DEF None
    <3>2. timer' \in 0..Longest
      BY <1>1, <2>1, Numbers DEF Sooner
    <3> QED
      BY <3>1, <3>2
  <2> QED
    BY <1>1, <1>7, <2>2, Numbers DEF WriteRefused, ReturnError, policyVars, Anyway, NoPass
<1>8. CASE TimerFires
  BY <1>1, <1>8, Numbers DEF TimerFires, podVars, policyVars, Anyway
<1>9. CASE Deliver
  BY <1>1, <1>9, Numbers DEF Deliver, podVars, Anyway, TypeOK
<1>10. CASE Tick
  <2>1. /\ late'[p] = late[p] \/ (copy # "gone" /\ late'[p] = late[p] + 1)
        /\ UNCHANGED <<copy, status, queued>>
    BY <1>1, <1>10 DEF Tick, policyVars, TypeOK
  <2>2. CASE pass.at = "idle"
    <3>1. /\ pass' = pass
          /\ timer # 0 /\ timer' = IF timer = None THEN None ELSE timer - 1
          /\ waited' = IF queued THEN waited + 1 ELSE waited
          /\ queued => waited < MaxWait
      BY <1>10, <2>2 DEF Tick
    <3>2. timer # None => timer' # None
      BY <1>1, <3>1, Numbers DEF None
    <3>3. CASE copy = "gone"
      BY <1>1, <2>1, <2>2, <3>1, <3>3, Numbers DEF Anyway
    <3>4. CASE copy # "gone" /\ queued
      BY <1>1, <2>1, <2>2, <3>1, <3>4, Numbers DEF Anyway
    <3>5. CASE copy # "gone" /\ ~queued
      BY <1>1, <2>1, <2>2, <3>1, <3>2, <3>5, Numbers DEF Anyway
    <3> QED
      BY <3>3, <3>4, <3>5 DEF TypeOK
  <2>3. CASE pass.at # "idle"
    <3>1. pass'.at = pass.at /\ pass'.elapsed = pass.elapsed + 1 /\ pass.elapsed < MaxEvaluation
      BY <1>1, <1>10, <2>3 DEF Tick, TypeOK, Evaluation
    <3> QED
      BY <1>1, <2>1, <2>3, <3>1, Numbers DEF Anyway
  <2> QED
    BY <2>2, <2>3
<1>11. CASE \E q \in Pods : \E age \in 0..DurationThreshold \cup {Unknown, None} : PodChanges(q, age)
  <2>1. /\ late'[p] \in {late[p], 0} /\ (queued' = queued \/ queued' = TRUE)
        /\ UNCHANGED <<copy, status, waited, timer, pass>>
    BY <1>1, <1>11 DEF PodChanges, Mapped, policyVars, TypeOK
  <2> QED
    BY <1>1, <2>1, Numbers DEF Anyway
<1>12. CASE \E q \in Pods : NamespaceChanges(q)
  <2>1. late'[p] \in {late[p], 0} /\ UNCHANGED <<copy, status, queued, waited, timer, pass>>
    BY <1>1, <1>12 DEF NamespaceChanges, policyVars, TypeOK
  <2> QED
    BY <1>1, <2>1, Numbers DEF Anyway
<1>13. CASE PolicyChanges
  BY <1>1, <1>13, Numbers DEF PolicyChanges, Anyway
<1>14. CASE TroubleChanges
  BY <1>1, <1>14 DEF TroubleChanges, podVars, policyVars, Anyway
<1>15. CASE CallFails
  <2>1. PICK b \in 0..MaxBackoff : timer' = IF timer = None THEN b ELSE Sooner(timer, b)
    BY <1>15 DEF CallFails, ReturnError
  <2>2. timer' \in 0..Longest /\ timer' # None
    <3>1. \A t \in 0..Longest : t # None
      BY DEF None
    <3>2. timer' \in 0..Longest
      BY <1>1, <2>1, Numbers DEF Sooner
    <3> QED
      BY <3>1, <3>2
  <2> QED
    BY <1>1, <1>15, <2>2, Numbers DEF CallFails, ReturnError, policyVars, Anyway, NoPass
<1>16. CASE Crash
  <2>1. /\ copy' # "gone" => queued'
        /\ late'[p] = 0 /\ pass'.at = "idle" /\ waited' = 0 /\ copy' = status'
    BY <1>16 DEF Crash, NoPass
  <2> QED
    BY <1>1, <2>1 DEF Anyway
<1> QED
  BY <1>2, <1>3, <1>4, <1>5, <1>6, <1>7, <1>8, <1>9, <1>10, <1>11, <1>12, <1>13, <1>14, <1>15, <1>16
     DEF Next, Worker

-----------------------------------------------------------------------------
\* The second bound: what an evaluation asks for is soon enough for each pod
\* whose expiry it has seen.
LEMMA TrackedStaysOnTime ==
    ASSUME Inv, [Next]_vars, NEW p \in tracked'
    PROVE  Tracked(p)'
<1> USE ScheduleAssumption, IntervalIsPositive
<1>1. TypeOK /\ TypeOK' /\ p \in Pods /\ Anyway(p) /\ (p \in tracked => Tracked(p))
  BY StaysTyped DEF Inv, TypeOK
<1>2. CASE UNCHANGED vars
  BY <1>1, <1>2 DEF vars, podVars, policyVars, Tracked
<1>3. CASE Start
  BY <1>1, <1>3, Numbers DEF Start, podVars, policyVars, Tracked, NoPass, Later, LatestTracked
<1>4. CASE Scan
  <2>1. /\ p \in Pending /\ pods'[p] = pods[p]
        /\ pass'.at = "report" /\ pass'.elapsed = pass.elapsed /\ pass'.expiry = EarliestExpiry
    BY <1>1, <1>4 DEF Scan, TypeOK, Evaluation
  <2>2. late'[p] <= pass.elapsed /\ late'[p] <= LatestTracked
    BY <1>1, <1>4, ScanIsFair, Numbers DEF LatestTracked
  <2>3. DurationThreshold - pods[p] \in Remaining
    BY <2>1 DEF Remaining
  <2>4. EarliestExpiry # None /\ EarliestExpiry <= DurationThreshold - pods[p]
    BY <1>1, <2>3, EarliestIsLeast, Numbers DEF None
  <2> QED
    BY <2>1, <2>2, <2>4 DEF Pending, AgeAtStart, Tracked
<1>5. CASE Report
  BY <1>1, <1>5, Numbers DEF Report, podVars, policyVars, TypeOK, Evaluation, Tracked
<1>6. CASE Write
  <2>1. /\ timer' <= RequeueAfter /\ RequeueAfter \in Int
        /\ pass.expiry # None /\ pass.expiry <= DurationThreshold - pods[p]
        /\ pods[p] - pass.elapsed < DurationThreshold
        /\ UNCHANGED <<pods, late, queued, waited, copy>> /\ pass'.at = "idle"
        /\ late[p] <= pass.elapsed /\ late[p] <= LatestTracked
    BY <1>1, <1>6, RequeueIsSoon, Numbers
       DEF Write, QueueAfter, Sooner, podVars, NoPass, Tracked, Anyway
  <2>2. late[p] > 0 => /\ pods[p] >= DurationThreshold
                       /\ pods[p] = MaxAge \/ late[p] <= pods[p] - DurationThreshold
    BY <1>1 DEF Inv, LateIsOverdue, Overdue
  <2>3. late[p] > 0 => late[p] <= MaxEvaluation - 1
    BY <1>1, <2>1, <2>2, Numbers DEF MaxAge
  <2>4. RequeueAfter <= DurationThreshold - pods[p] \/ RequeueAfter <= MinimumRequeue
    BY <1>1, <2>1, RequeueIsSoon, Numbers
  <2>5. timer' \in Int
    BY <1>1 DEF TypeOK, Longest, None
  <2>6. late[p] + timer' <= MinimumRequeue - 1 + MaxEvaluation + Later(0, DurationThreshold - pods[p])
    BY <1>1, <2>1, <2>2, <2>3, <2>4, <2>5, Numbers DEF Later
  <2> QED
    BY <1>1, <2>1, <2>6, Numbers DEF Tracked
<1>7. CASE WriteRefused \/ CallFails \/ PolicyChanges \/ Crash
  BY <1>7 DEF WriteRefused, CallFails, ReturnError, PolicyChanges, Crash
<1>8. CASE TimerFires
  <2>1. late[p] > 0 => pods[p] >= DurationThreshold
    BY <1>1 DEF Inv, LateIsOverdue, Overdue
  <2> QED
    BY <1>1, <1>8, <2>1, Numbers DEF TimerFires, podVars, policyVars, Tracked, Later
<1>9. CASE Deliver
  <2>1. late[p] > 0 => pods[p] >= DurationThreshold
    BY <1>1 DEF Inv, LateIsOverdue, Overdue
  <2>2. /\ UNCHANGED <<pods, late, waited, timer, pass, status>> /\ queued' = TRUE /\ copy' = status
        /\ p \in tracked
    BY <1>9 DEF Deliver, podVars
  <2>3. CASE copy = "gone"
    <3>1. copy' # "gone" => late[p] = 0
      BY <1>1, <2>2, <2>3 DEF Anyway
    <3> QED
      BY <1>1, <2>2, <3>1, Numbers DEF Tracked
  <2>4. CASE copy # "gone" /\ pass.at = "idle" /\ ~queued
    <3>1. late[p] <= MinimumRequeue - 1 + MaxEvaluation
      BY <1>1, <2>1, <2>4, <2>2, Numbers DEF Tracked, Anyway, Later
    <3> QED
      BY <1>1, <2>2, <2>4, <3>1, Numbers DEF Tracked
  <2>5. CASE copy # "gone" /\ (pass.at # "idle" \/ queued)
    BY <1>1, <2>2, <2>5, Numbers DEF Tracked
  <2> QED
    BY <2>3, <2>4, <2>5 DEF TypeOK
<1>10. CASE Tick
  <2>1. late[p] > 0 => pods[p] >= DurationThreshold
    BY <1>1 DEF Inv, LateIsOverdue, Overdue
  <2>2. /\ late'[p] = late[p] \/ (pods[p] >= DurationThreshold /\ copy # "gone" /\ late'[p] = late[p] + 1)
        /\ pods'[p] = IF pods[p] \in 0..(MaxAge - 1) THEN pods[p] + 1 ELSE pods[p]
        /\ UNCHANGED <<copy, status, queued>> /\ p \in tracked
    BY <1>1, <1>10 DEF Tick, policyVars, TypeOK, Overdue
  <2>3. CASE pass.at = "idle"
    <3>1. /\ pass' = pass
          /\ timer # 0 /\ timer' = IF timer = None THEN None ELSE timer - 1
          /\ waited' = IF queued THEN waited + 1 ELSE waited
          /\ queued => waited < MaxWait
      BY <1>10, <2>3 DEF Tick
    <3>2. CASE copy = "gone"
      BY <1>1, <2>2, <2>3, <3>1, <3>2, Numbers DEF Tracked
    <3>3. CASE copy # "gone" /\ queued
      BY <1>1, <2>2, <2>3, <3>1, <3>3, Numbers DEF Tracked, LatestTracked
    <3>4. CASE copy # "gone" /\ ~queued
      <4>1. timer \in 1..Longest
        BY <1>1, <2>3, <3>1, <3>4, Numbers DEF Anyway
      <4>2. timer' = timer - 1
        BY <3>1, <4>1 DEF None
      <4>3. late[p] + timer <= MinimumRequeue - 1 + MaxEvaluation + Later(0, DurationThreshold - pods[p])
        BY <1>1, <2>2, <2>3, <3>4 DEF Tracked
      <4>4. /\ late'[p] + timer' <= MinimumRequeue - 1 + MaxEvaluation + Later(0, DurationThreshold - pods'[p])
            /\ late'[p] <= LatestTracked
        BY <1>1, <2>1, <2>2, <4>1, <4>2, <4>3, Numbers DEF Later, LatestTracked, Tracked
      <4> QED
        BY <2>2, <2>3, <3>1, <3>4, <4>4 DEF Tracked
    <3> QED
      BY <3>2, <3>3, <3>4 DEF TypeOK
  <2>4. CASE pass.at # "idle"
    <3>1. /\ pass'.at = pass.at /\ pass'.elapsed = pass.elapsed + 1 /\ pass.elapsed < MaxEvaluation
          /\ pass'.expiry = IF pass.expiry = None THEN None ELSE pass.expiry - 1
      BY <1>1, <1>10, <2>4 DEF Tick, TypeOK, Evaluation
    <3>2. CASE pass.at = "scan"
      BY <1>1, <2>2, <3>1, <3>2, Numbers DEF Tracked, LatestTracked
    <3>3. CASE pass.at \in {"report", "write"}
      <4>1. /\ pods[p] - pass.elapsed < DurationThreshold
            /\ pass.expiry # None /\ pass.expiry <= DurationThreshold - pods[p]
            /\ late[p] <= LatestTracked
            /\ copy # "gone" => late[p] <= pass.elapsed
        BY <1>1, <2>2, <3>3 DEF Tracked, Anyway
      <4>2. pass.expiry \in Int /\ pass.expiry >= 1 - pass.elapsed
        BY <1>1, <4>1, Numbers DEF Inv, ExpiryIsRecent
      <4>3. pass'.expiry # None /\ pass'.expiry = pass.expiry - 1
        BY <1>1, <3>1, <4>1, <4>2, Numbers DEF None
      <4>4. pods'[p] <= pods[p] + 1 /\ pods'[p] \in Int
        BY <1>1, <2>2, Numbers
      <4>5. late'[p] <= LatestTracked
        BY <1>1, <2>2, <3>1, <4>1, Numbers DEF LatestTracked
      <4> QED
        BY <1>1, <3>1, <3>3, <4>1, <4>2, <4>3, <4>4, <4>5, Numbers DEF Tracked
    <3> QED
      BY <1>1, <2>4, <3>2, <3>3, Numbers
  <2> QED
    BY <2>3, <2>4
<1>11. CASE \E q \in Pods : \E age \in 0..DurationThreshold \cup {Unknown, None} : PodChanges(q, age)
  <2>1. /\ UNCHANGED <<copy, status, waited, timer, pass>> /\ p \in tracked
        /\ pods'[p] = pods[p] /\ late'[p] = late[p]
        /\ queued' = queued \/ queued' = TRUE
    BY <1>1, <1>11 DEF PodChanges, Mapped, policyVars, TypeOK
  <2>2. late[p] > 0 => pods[p] >= DurationThreshold
    BY <1>1 DEF Inv, LateIsOverdue, Overdue
  <2>3. CASE copy # "gone" /\ pass.at = "idle" /\ ~queued
    <3>1. late[p] <= MinimumRequeue - 1 + MaxEvaluation
      BY <1>1, <2>1, <2>2, <2>3, Numbers DEF Tracked, Anyway, Later
    <3> QED
      BY <1>1, <2>1, <2>3, <3>1, Numbers DEF Tracked
  <2>4. CASE copy = "gone" \/ pass.at # "idle" \/ queued
    BY <1>1, <2>1, <2>4, Numbers DEF Tracked
  <2> QED
    BY <2>3, <2>4 DEF TypeOK
<1>12. CASE \E q \in Pods : NamespaceChanges(q)
  <2>1. /\ UNCHANGED <<pods, copy, status, queued, waited, timer, pass>>
        /\ p \in tracked /\ late'[p] = late[p]
    BY <1>1, <1>12 DEF NamespaceChanges, policyVars, TypeOK
  <2> QED
    BY <1>1, <2>1 DEF Tracked
<1>13. CASE TroubleChanges
  BY <1>1, <1>13 DEF TroubleChanges, podVars, policyVars, Tracked
<1> QED
  BY <1>2, <1>3, <1>4, <1>5, <1>6, <1>7, <1>8, <1>9, <1>10, <1>11, <1>12, <1>13 DEF Next, Worker

-----------------------------------------------------------------------------
THEOREM InvNext == Inv /\ [Next]_vars => Inv'
<1> SUFFICES ASSUME Inv, [Next]_vars PROVE Inv'
  OBVIOUS
<1>1. TypeOK' /\ LateIsOverdue' /\ ExpiryIsRecent'
  BY StaysTyped, LateStaysOverdue, ExpiryStaysRecent DEF Inv
<1> QED
  BY <1>1, StaysOnTime, TrackedStaysOnTime DEF Inv

\* Type correctness of the schedule of a policy.
THEOREM TypeCorrect == Spec => []TypeOK
<1>1. Inv => TypeOK
  BY DEF Inv
<1> QED
  BY <1>1, InvInit, InvNext, PTL DEF Spec

\* Once an evaluation has seen a pod wait for its threshold, the pod is judged
\* by the threshold plus the minimum requeue, the wait in the queue and two
\* evaluations (crashlooppolicy_controller.go:154-163, 334-336).
THEOREM ExpiryMet == Spec => []ExpiryIsMet
<1>1. Inv => ExpiryIsMet
  BY DEF Inv, Tracked, ExpiryIsMet
<1> QED
  BY <1>1, InvInit, InvNext, PTL DEF Spec

\* An overdue pod is judged within the interval, or the back-off after an
\* error, the wait in the queue and two evaluations, whatever events are lost
\* (crashlooppolicy_controller.go:84, 334-338).
THEOREM OverdueJudged == Spec => []OverdueIsJudged
<1>1. Inv => OverdueIsJudged
  BY DEF Inv, Anyway, OverdueIsJudged
<1> QED
  BY <1>1, InvInit, InvNext, PTL DEF Spec

-----------------------------------------------------------------------------
\* An evaluation that returns, with or without an error, leaves a timer.
LEMMA ReturnsWithTimer ==
    ASSUME TypeOK, ReturnError \/ QueueAfter(RequeueAfter)
    PROVE  timer' # None
<1>1. timer \in Int /\ None \in Int /\ None < 0 /\ (timer # None => timer >= 0)
  BY IntervalIsPositive, ScheduleAssumption DEF TypeOK, None, Later
<1>2. CASE ReturnError
  <2>1. PICK b \in 0..MaxBackoff : timer' = IF timer = None THEN b ELSE Sooner(timer, b)
    BY <1>2 DEF ReturnError
  <2> QED
    BY <1>1, <2>1, ScheduleAssumption DEF Sooner
<1>3. CASE QueueAfter(RequeueAfter)
  <2>1. RequeueAfter \in Nat \ {0}
    BY RequeueIsSoon, IntervalIsPositive
  <2> QED
    BY <1>1, <1>3, <2>1 DEF QueueAfter, Sooner
<1> QED
  BY <1>2, <1>3

\* A policy that exists, or whose gauge does, is always on its way to another
\* evaluation (crashlooppolicy_controller.go:50-60, 328-339).
THEOREM NothingForgotten == Spec => []NothingIsForgotten
<1>1. Init => NothingIsForgotten
  BY DEF Init, NothingIsForgotten
<1>2. TypeOK /\ NothingIsForgotten /\ [Next]_vars => NothingIsForgotten'
  <2> SUFFICES ASSUME TypeOK, NothingIsForgotten, [Next]_vars
               PROVE  NothingIsForgotten'
    OBVIOUS
  <2>1. CASE Start
    BY <2>1 DEF Start, ForgetPolicyMetrics, policyVars, NothingIsForgotten, NoPass
  <2>2. CASE Scan \/ Report
    <3>1. pass \in Evaluation /\ pass'.at # "idle"
      BY <2>2 DEF Scan, Report, TypeOK, Evaluation
    <3> QED
      BY <3>1 DEF NothingIsForgotten
  <2>3. CASE Write \/ WriteRefused \/ CallFails
    BY <2>3, ReturnsWithTimer DEF Write, WriteRefused, CallFails, NothingIsForgotten
  <2>4. CASE TimerFires \/ Deliver
    BY <2>4 DEF TimerFires, Deliver, NothingIsForgotten
  <2>5. CASE Tick
    <3>1. timer # None => timer' # None
      <4>1. timer # None => timer \in Nat /\ timer # 0
        BY <2>5, IntervalIsPositive, ScheduleAssumption DEF Tick, TypeOK, Later
      <4> QED
        BY <2>5, <4>1, ScheduleAssumption DEF Tick, None
    <3>2. pass.at # "idle" => pass'.at # "idle"
      BY <2>5 DEF Tick, TypeOK, Evaluation
    <3>3. copy' = copy /\ gauge' = gauge /\ queued' = queued
      BY <2>5 DEF Tick, policyVars
    <3> QED
      BY <3>1, <3>2, <3>3 DEF NothingIsForgotten
  <2>6. CASE \/ \E p \in Pods : \E age \in 0..DurationThreshold \cup {Unknown, None} : PodChanges(p, age)
             \/ \E p \in Pods : NamespaceChanges(p)
             \/ PolicyChanges \/ TroubleChanges
    <3>1. copy' = copy /\ gauge' = gauge /\ timer' = timer /\ pass' = pass
          /\ (queued => queued')
      <4>1. ASSUME NEW p \in Pods, NEW age, PodChanges(p, age)
            PROVE  /\ copy' = copy /\ gauge' = gauge /\ timer' = timer /\ pass' = pass
                   /\ (queued => queued')
        BY <4>1 DEF PodChanges, Mapped, policyVars
      <4>2. CASE \/ \E p \in Pods : NamespaceChanges(p)
                 \/ PolicyChanges \/ TroubleChanges
        BY <4>2 DEF NamespaceChanges, PolicyChanges, TroubleChanges, policyVars
      <4> QED
        BY <2>6, <4>1, <4>2
    <3> QED
      BY <3>1 DEF NothingIsForgotten
  <2>7. CASE Crash
    BY <2>7 DEF Crash, NothingIsForgotten
  <2>8. CASE UNCHANGED vars
    BY <2>8 DEF vars, policyVars, NothingIsForgotten
  <2> QED
    BY <2>1, <2>2, <2>3, <2>4, <2>5, <2>6, <2>7, <2>8 DEF Next, Worker
<1> QED
  BY <1>1, <1>2, TypeCorrect, PTL DEF Spec
=============================================================================
