-------------------------- MODULE Reconciler_proofs --------------------------
(***************************************************************************)
(* Proofs about Reconciler: its safety properties hold for any policies,   *)
(* generations, workloads, scopes, caps and attempts, and for any number   *)
(* of faults and of events outside.                                        *)
(***************************************************************************)
EXTENDS Reconciler, SequenceTheorems, FiniteSetTheorems, TLAPS

-----------------------------------------------------------------------------
\* The size of every set of workloads is a number.
LEMMA WorkloadsAreFinite ==
    /\ Cardinality(Workloads) \in Nat
    /\ \A s \in SUBSET Workloads : IsFiniteSet(s) /\ Cardinality(s) \in Nat
                                   /\ Cardinality(s) <= Cardinality(Workloads)
    /\ CounterSize \in Nat \ {0}
BY ReconcilerAssumption, FS_CardinalityType, FS_Subset

\* A workload that is done with makes the set of those to do smaller by one.
LEMMA OneLess ==
    ASSUME NEW s \in SUBSET Workloads, NEW w \in s
    PROVE  Cardinality(s \ {w}) = Cardinality(s) - 1
BY WorkloadsAreFinite, FS_RemoveElement

\* The lifetime counter wraps around within its range.
LEMMA CounterStaysInRange ==
    ASSUME NEW a \in Nat, NEW b \in Nat
    PROVE  (a + b) % CounterSize \in 0..(CounterSize - 1)
<1>1. CounterSize \in Nat /\ CounterSize > 0 /\ a + b \in Nat
  BY WorkloadsAreFinite
<1> QED
  BY <1>1

\* Histories of versions: what is appended and what is dropped.
LEMMA LineGrows ==
    ASSUME NEW S, NEW line \in Seq(S) \ {<<>>}, NEW v \in S
    PROVE  /\ Append(line, v) \in Seq(S) \ {<<>>}
           /\ Len(Append(line, v)) = Len(line) + 1 /\ Len(line) \in Nat \ {0}
           /\ Live(Append(line, v)) = v
           /\ Cached(Append(line, v)) = Cached(line)
           /\ \A i \in 1..Len(line) : Append(line, v)[i] = line[i]
           /\ Append(line, v)[Len(line) + 1] = v
BY EmptySeq DEF Live, Cached

\* Dropping the oldest of several versions keeps the live one.
LEMMA LineShrinks ==
    ASSUME NEW S, NEW line \in Seq(S), Len(line) > 1
    PROVE  /\ Tail(line) \in Seq(S) \ {<<>>}
           /\ Len(Tail(line)) = Len(line) - 1 /\ Len(line) \in Nat
           /\ Live(Tail(line)) = Live(line)
           /\ \A i \in 1..Len(Tail(line)) : Tail(line)[i] = line[i + 1]
<1>1. line # <<>> /\ Len(line) \in Nat
  BY EmptySeq
<1>2. /\ Tail(line) \in Seq(S) /\ Len(Tail(line)) = Len(line) - 1
      /\ \A i \in 1..Len(Tail(line)) : Tail(line)[i] = line[i + 1]
  BY <1>1, HeadTailProperties
<1>3. Len(Tail(line)) \in 1..Len(Tail(line)) /\ Tail(line)[Len(Tail(line))] = line[Len(line)]
  BY <1>1, <1>2
<1>4. Len(Tail(line)) # 0
  BY <1>1, <1>2
<1>5. Tail(line) # <<>>
  BY <1>4, EmptySeq
<1> QED
  BY <1>1, <1>2, <1>3, <1>5 DEF Live

\* The first elements of a sequence.
LEMMA FirstOnes ==
    ASSUME NEW S, NEW s \in Seq(S), NEW n \in Nat, n <= Len(s)
    PROVE  SubSeq(s, 1, n) \in Seq(S)
<1>1. \A i \in 1..n : s[i] \in S
  OBVIOUS
<1>2. 1 \in Int /\ n \in Int
  OBVIOUS
<1> QED
  BY <1>1, <1>2, SubSeqProperties

\* A history of one version: it is the cached and the live one.
LEMMA OneVersion ==
    ASSUME NEW S, NEW v \in S
    PROVE  <<v>> \in Seq(S) \ {<<>>} /\ Len(<<v>>) = 1 /\ Live(<<v>>) = v /\ Cached(<<v>>) = v
BY EmptySeq DEF Live, Cached

\* The cached and the live version are versions.
LEMMA LineEnds ==
    ASSUME NEW S, NEW line \in Seq(S) \ {<<>>}
    PROVE  Cached(line) \in S /\ Live(line) \in S /\ Len(line) \in Nat \ {0}
BY EmptySeq DEF Cached, Live

-----------------------------------------------------------------------------
\* The values an evaluation begins with.
LEMMA FreshStatus == NewStatus \in Status /\ \A s : <<>> \in Seq(s)
<1>1. 0 \in 0..(CounterSize - 1)
  BY WorkloadsAreFinite
<1>2. \A s : <<>> \in Seq(s)
  BY EmptySeq
<1>3. 0 \in Nat /\ -1 \in {-1} /\ 0 \in Generations \cup {0}
  OBVIOUS
<1> QED
  BY <1>1, <1>2, <1>3, Zenon DEF NewStatus, Status

\* The local variables of a new evaluation are typed.
LEMMA FreshPass == NoPass \in Pass
<1>1. 1 \in Generations /\ 0 \in 0..(MaxTries - 1)
  BY ReconcilerAssumption DEF Generations
<1>2. [gen |-> 1, status |-> NewStatus] \in PolicyVersion
  BY <1>1, FreshStatus DEF PolicyVersion
<1>3. Kinds \in Seq({"Deployment", "StatefulSet", "CronJob"})
  BY DEF Kinds
<1>4. [p \in Policies |-> 1] \in [Policies -> Generations]
  BY <1>1
<1>5. <<>> \in Seq(Workloads)
  BY EmptySeq
<1>6. 0 \in Nat /\ {} \in SUBSET Workloads /\ "idle" \in Place /\ FALSE \in BOOLEAN
  BY DEF Place
<1> QED
  BY <1>1, <1>2, <1>3, <1>4, <1>5, <1>6, Zenon DEF NoPass, Pass

\* What the operator makes of a status is a status.
LEMMA MutatedIsStatus ==
    ASSUME TypeOK, NEW s \in Status
    PROVE  Mutated(s) \in Status /\ [s EXCEPT !.phase = "Pending"] \in Status
<1>1. pass.scaledDown \in Nat /\ pass.gen \in Generations /\ pass.active \in Seq(Workloads)
      /\ pass.truncated \in Nat /\ pass.errors \in Nat
  BY DEF TypeOK, Pass
<1>2. s.counter \in Nat
  BY WorkloadsAreFinite DEF Status
<1>3. (s.counter + pass.scaledDown) % CounterSize \in 0..(CounterSize - 1)
  BY <1>1, <1>2, CounterStaysInRange
<1>4. Mutated(s) \in Status
  BY <1>1, <1>3, Zenon DEF Mutated, Status
<1>5. [s EXCEPT !.phase = "Pending"] \in Status
  BY DEF Status
<1> QED
  BY <1>4, <1>5

\* The version of a policy a call was made from is a version.
LEMMA CachedIsVersion ==
    ASSUME TypeOK, NEW p \in Policies
    PROVE  /\ Cached(policies[p]) \in PolicyVersion /\ Live(policies[p]) \in PolicyVersion
           /\ Cached(policies[p]).gen \in Generations /\ Cached(policies[p]).status \in Status
           /\ Len(policies[p]) \in Nat \ {0}
<1>1. policies[p] \in Seq(PolicyVersion) \ {<<>>}
  BY DEF TypeOK
<1>2. Cached(policies[p]) \in PolicyVersion /\ Live(policies[p]) \in PolicyVersion
      /\ Len(policies[p]) \in Nat \ {0}
  BY <1>1, LineEnds
<1>3. \A v \in PolicyVersion : v.gen \in Generations /\ v.status \in Status
  BY DEF PolicyVersion
<1> QED
  BY <1>2, <1>3

\* The versions of a workload that are read, and those that are written.
LEMMA CachedIsWorkload ==
    ASSUME TypeOK, NEW w \in Workloads
    PROVE  /\ Cached(workloads[w]) \in Workload /\ Live(workloads[w]) \in Workload
           /\ \A n \in {0, 1} : [Live(workloads[w]) EXCEPT !.size = n] \in Workload
           /\ \A p \in Policies, n \in {0, 1} : [size |-> n, by |-> p] \in Workload
<1>1. workloads[w] \in Seq(Workload) \ {<<>>}
  BY DEF TypeOK
<1>2. Cached(workloads[w]) \in Workload /\ Live(workloads[w]) \in Workload
  BY <1>1, LineEnds
<1>3. \A v \in Workload : \A n \in {0, 1} : [v EXCEPT !.size = n] \in Workload
  BY DEF Workload
<1>4. \A p \in Policies, n \in {0, 1} : [size |-> n, by |-> p] \in Workload
  BY DEF Workload
<1> QED
  BY <1>2, <1>3, <1>4

\* The ways in which a version is written.
LEMMA WriteIsTyped ==
    ASSUME TypeOK, pass.target \in Workloads, NEW v \in Workload, Write(v)
    PROVE  workloads' \in [Workloads -> Seq(Workload) \ {<<>>}]
<1>1. workloads \in [Workloads -> Seq(Workload) \ {<<>>}]
  BY DEF TypeOK
<1>2. Append(workloads[pass.target], v) \in Seq(Workload) \ {<<>>}
  BY <1>1, LineGrows
<1> QED
  BY <1>1, <1>2 DEF Write

\* A version of a policy that is stored extends its history.
LEMMA StoreIsTyped ==
    ASSUME TypeOK, pass.policy \in Policies, NEW v \in PolicyVersion, Store(v)
    PROVE  policies' \in [Policies -> Seq(PolicyVersion) \ {<<>>}]
<1>1. policies \in [Policies -> Seq(PolicyVersion) \ {<<>>}]
  BY DEF TypeOK
<1>2. Append(policies[pass.policy], v) \in Seq(PolicyVersion) \ {<<>>}
  BY <1>1, LineGrows
<1> QED
  BY <1>1, <1>2 DEF Store

\* The ways in which an evaluation goes on, gives a workload up or ends.
PassTypeOK ==
    /\ pass \in Pass
    /\ pass.at # "idle" => pass.policy \in Policies
    /\ pass.at \in {"act", "stop"} => pass.target \in Workloads

\* A step that ends the evaluation.
LEMMA FreshPassIsTyped ==
    ASSUME TypeOK, pass' = NoPass
    PROVE  PassTypeOK'
BY FreshPass, Zenon DEF PassTypeOK, NoPass

\* The regular end of an evaluation.
LEMMA FinishIsTyped ==
    ASSUME TypeOK, pass.policy \in Policies, Finish
    PROVE  PassTypeOK' /\ timers' \in SUBSET Policies
<1>1. PassTypeOK'
  BY FreshPassIsTyped DEF Finish
<1> QED
  BY <1>1 DEF Finish, TypeOK

\* A retry stays within the attempts of the backoff.
LEMMA RetryIsTyped ==
    ASSUME TypeOK, pass.policy \in Policies, NEW place \in {"pendingGet", "statusGet"},
           RetryFrom(place)
    PROVE  PassTypeOK' /\ timers' \in SUBSET Policies
<1>1. CASE pass.tries + 1 < MaxTries
  <2>1. pass.tries + 1 \in 0..(MaxTries - 1)
    BY <1>1, ReconcilerAssumption DEF TypeOK, Pass
  <2>2. pass' = [pass EXCEPT !.at = place, !.tries = pass.tries + 1] /\ timers' = timers
    BY <1>1 DEF RetryFrom
  <2>3. pass \in Pass /\ timers \in SUBSET Policies /\ place \in Place
    BY DEF TypeOK, Place
  <2>4. pass' \in Pass /\ pass'.at = place /\ pass'.policy = pass.policy
    BY <2>1, <2>2, <2>3 DEF Pass
  <2> QED
    BY <2>2, <2>3, <2>4 DEF PassTypeOK
<1>2. CASE ~ (pass.tries + 1 < MaxTries)
  BY <1>2, FinishIsTyped DEF RetryFrom
<1> QED
  BY <1>1, <1>2

\* A workload is given up.
LEMMA GiveUpIsTyped ==
    ASSUME TypeOK, pass.policy \in Policies, NEW n \in {0, 1}, GiveUp(n)
    PROVE  PassTypeOK'
<1>1. /\ 0 \in 0..(MaxTries - 1)
      /\ pass.todo \ {pass.target} \in SUBSET Workloads /\ pass.errors + n \in Nat
      /\ "loop" \in Place /\ None \in Workloads \cup {None}
  BY ReconcilerAssumption DEF TypeOK, Pass, Place
<1>2. pass' \in Pass /\ pass'.at = "loop" /\ pass'.policy = pass.policy
  BY <1>1 DEF GiveUp, TypeOK, Pass
<1> QED
  BY <1>2 DEF PassTypeOK

\* An action is reported.
LEMMA ActedIsTyped ==
    ASSUME TypeOK, pass.policy \in Policies
    PROVE  /\ Acted \in Pass /\ Acted.policy = pass.policy /\ Acted.at = "loop"
           /\ Acted.scaledDown = pass.scaledDown + 1
           /\ Acted.todo = pass.todo \ {pass.target}
<1>1. /\ 0 \in 0..(MaxTries - 1)
      /\ pass.todo \ {pass.target} \in SUBSET Workloads /\ pass.scaledDown + 1 \in Nat
      /\ "loop" \in Place /\ None \in Workloads \cup {None}
  BY ReconcilerAssumption DEF TypeOK, Pass, Place
<1> QED
  BY <1>1 DEF Acted, TypeOK, Pass

-----------------------------------------------------------------------------
\* Every step keeps the types.
Others ==
    /\ failing \in [Workloads -> SUBSET Policies]
    /\ queue \in SUBSET Policies
    /\ events \in 0..MaxEvents
    /\ faults \in 0..MaxFaults

Parts ==
    /\ workloads \in [Workloads -> Seq(Workload) \ {<<>>}]
    /\ policies \in [Policies -> Seq(PolicyVersion) \ {<<>>}]
    /\ timers \in SUBSET Policies
    /\ uncounted \in [Policies -> Int]
    /\ PassTypeOK
    /\ Others

\* The conjuncts of TypeOK as they are proved one by one.
LEMMA TypeParts == (TypeOK => Parts) /\ (Parts' => TypeOK')
BY Zenon DEF TypeOK, Parts, PassTypeOK, Others

\* The history of uncounted actions stays a number.
LEMMA CountedIsTyped ==
    ASSUME TypeOK, pass.policy \in Policies
    PROVE  /\ Counted => uncounted' \in [Policies -> Int]
           /\ Report => uncounted' \in [Policies -> Int]
BY ReconcilerAssumption DEF TypeOK, Pass, Counted, Report

\* Drafts of a status are typed.
LEMMA DraftIsTyped ==
    ASSUME TypeOK, pass.policy \in Policies, NEW place \in {"pendingPut", "statusPut"},
           NEW s \in Status
    PROVE  /\ Draft(place, s) \in Pass /\ Draft(place, s).at = place
           /\ Draft(place, s).policy = pass.policy
           /\ \A g \in Generations : [Draft(place, s) EXCEPT !.gen = g] \in Pass
<1>1. [gen |-> Cached(policies[pass.policy]).gen, status |-> s] \in PolicyVersion
  BY CachedIsVersion DEF PolicyVersion
<1>2. place \in Place /\ (Len(policies[pass.policy]) = 1) \in BOOLEAN
  BY DEF Place
<1>3. Draft(place, s) \in Pass /\ Draft(place, s).at = place /\ Draft(place, s).policy = pass.policy
  <2>1. pass \in Pass
    BY DEF TypeOK
  <2> QED
    BY <1>1, <1>2, <2>1 DEF Draft, Pass
<1> QED
  BY <1>3 DEF Pass

\* Start keeps the types.
LEMMA TypeStart ==
    ASSUME TypeOK, NEW p \in Policies, Start(p)
    PROVE  TypeOK'
<1>1. PassTypeOK'
  <2>1. Cached(policies[p]).gen \in Generations
    BY CachedIsVersion
  <2>2. PICK place \in {"pendingGet", "list"} :
          pass' = [NoPass EXCEPT !.at = place, !.policy = p, !.gen = Cached(policies[p]).gen]
    BY DEF Start
  <2>3. place \in Place /\ p \in Policies \cup {None}
    BY DEF Place
  <2>4. pass' \in Pass /\ pass'.at = place /\ pass'.policy = p
    BY <2>1, <2>2, <2>3, FreshPass DEF Pass
  <2> QED
    BY <2>4 DEF PassTypeOK
<1>2. Others'
  BY TypeParts DEF Start, Parts, Others
<1> QED
  BY <1>1, <1>2, TypeParts DEF Start, Parts

\* The initial phase keeps the types.
LEMMA TypePending ==
    ASSUME TypeOK, PendingGet \/ PendingPut \/ PendingConflict
    PROVE  TypeOK'
<1>1. CASE PendingGet
  <2>1. pass.policy \in Policies
    BY <1>1 DEF PendingGet, TypeOK
  <2> DEFINE s == [Cached(policies[pass.policy]).status EXCEPT !.phase = "Pending"]
             g == Cached(policies[pass.policy]).gen
  <2>2. s \in Status /\ g \in Generations
    BY <2>1, CachedIsVersion, MutatedIsStatus
  <2>3. /\ Draft("pendingPut", s) \in Pass /\ Draft("pendingPut", s).at = "pendingPut"
         /\ Draft("pendingPut", s).policy = pass.policy
         /\ [Draft("pendingPut", s) EXCEPT !.gen = g] \in Pass
    BY <2>1, <2>2, DraftIsTyped
  <2>4. pass' = [Draft("pendingPut", s) EXCEPT !.gen = g]
    BY <1>1 DEF PendingGet
  <2>5. pass'.at = "pendingPut" /\ pass'.policy = pass.policy
    BY <2>3, <2>4 DEF Pass
  <2>6. PassTypeOK'
    BY <2>1, <2>3, <2>4, <2>5 DEF PassTypeOK
  <2> QED
    BY <1>1, <2>6, TypeParts DEF PendingGet, Parts, Others
<1>2. CASE PendingPut
  <2>1. pass.policy \in Policies /\ pass.draft \in PolicyVersion /\ Store(pass.draft)
    BY <1>2 DEF PendingPut, TypeOK, Pass
  <2>2. policies' \in [Policies -> Seq(PolicyVersion) \ {<<>>}]
    BY <2>1, StoreIsTyped
  <2>3. 0 \in 0..(MaxTries - 1) /\ "list" \in Place
    BY ReconcilerAssumption DEF Place
  <2>4. PassTypeOK'
    BY <1>2, <2>1, <2>3 DEF PendingPut, PassTypeOK, TypeOK, Pass
  <2> QED
    BY <1>2, <2>2, <2>4, TypeParts DEF PendingPut, Parts, Others
<1>3. CASE PendingConflict
  <2>1. pass.policy \in Policies
    BY <1>3 DEF PendingConflict, TypeOK
  <2>2. PassTypeOK' /\ timers' \in SUBSET Policies
    BY <1>3, <2>1, RetryIsTyped DEF PendingConflict
  <2> QED
    BY <1>3, <2>2, TypeParts DEF PendingConflict, Parts, Others
<1> QED
  BY <1>1, <1>2, <1>3

\* The loop over the workloads keeps the types.
LEMMA TypeLoop ==
    ASSUME TypeOK,
           \/ List \/ LoopEnds
           \/ \E w \in Workloads : LeaveAlone(w) \/ Rehearse(w) \/ Approach(w)
    PROVE  TypeOK'
<1> USE DEF PassTypeOK
<1>1. CASE List
  <2>1. [q \in Policies |-> Cached(policies[q]).gen] \in [Policies -> Generations]
    BY CachedIsVersion
  <2>2. {w \in Scope[pass.policy][pass.gen] : pass.policy \in failing[w]} \in SUBSET Workloads
    BY <1>1, ReconcilerAssumption DEF List, TypeOK, Pass
  <2>3. "loop" \in Place
    BY DEF Place
  <2>4. pass' \in Pass /\ pass'.at = "loop" /\ pass'.policy = pass.policy
    BY <1>1, <2>1, <2>2, <2>3 DEF List, TypeOK, Pass
  <2>5. PassTypeOK'
    BY <1>1, <2>4 DEF List, TypeOK
  <2> QED
    BY <1>1, <2>5, TypeParts DEF List, Parts, Others
<1>2. CASE LoopEnds
  <2>1. PassTypeOK'
    BY <1>2 DEF LoopEnds, Loops, TypeOK, Pass, Place
  <2> QED
    BY <1>2, <2>1, TypeParts DEF LoopEnds, Loops, Parts, Others
<1>3. ASSUME NEW w \in Workloads, LeaveAlone(w)
      PROVE  TypeOK'
  <2>1. PassTypeOK'
    BY <1>3 DEF LeaveAlone, Loops, TypeOK, Pass
  <2> QED
    BY <1>3, <2>1, TypeParts DEF LeaveAlone, Loops, Parts, Others
<1>4. ASSUME NEW w \in Workloads, Rehearse(w)
      PROVE  TypeOK'
  <2>1. pass.policy \in Policies /\ Report
    BY <1>4 DEF Rehearse, Loops, TypeOK
  <2>2. PassTypeOK'
    BY <1>4, <2>1, ActedIsTyped DEF Rehearse, Loops, TypeOK, Pass
  <2> QED
    BY <1>4, <2>1, <2>2, CountedIsTyped, TypeParts DEF Rehearse, Loops, Parts, Others
<1>5. ASSUME NEW w \in Workloads, Approach(w)
      PROVE  TypeOK'
  <2>1. PassTypeOK'
    BY <1>5 DEF Approach, Loops, TypeOK, Pass, Place
  <2> QED
    BY <1>5, <2>1, TypeParts DEF Approach, Loops, Parts, Others
<1> QED
  BY <1>1, <1>2, <1>3, <1>4, <1>5

\* Acting on a workload keeps the types.
LEMMA TypeAct ==
    ASSUME TypeOK, Record \/ Stop \/ Suspend \/ WorkloadConflict
    PROVE  TypeOK'
<1>1. /\ pass.policy \in Policies /\ pass.target \in Workloads /\ pass.at \in {"act", "stop"}
      /\ pass \in Pass /\ 0 \in 0..(MaxTries - 1)
  BY ReconcilerAssumption DEF Record, Stop, Suspend, WorkloadConflict, TypeOK
<1>2. CASE Record
  <2>1. workloads' \in [Workloads -> Seq(Workload) \ {<<>>}]
    BY <1>1, <1>2, WriteIsTyped, CachedIsWorkload DEF Record, TypeOK
  <2>2. PassTypeOK'
    <3>1. CASE Running \/ pass.tries > 0
      <4>1. "stop" \in Place
        BY DEF Place
      <4>2. pass' = [pass EXCEPT !.at = "stop", !.tries = 0]
        BY <1>2, <3>1 DEF Record
      <4> QED
        BY <1>1, <4>1, <4>2 DEF PassTypeOK, Pass
    <3>2. CASE ~ (Running \/ pass.tries > 0)
      <4>1. GiveUp(0)
        BY <1>2, <3>2, Zenon DEF Record
      <4> QED
        BY <1>1, <4>1, GiveUpIsTyped
    <3> QED
      BY <3>1, <3>2
  <2> QED
    BY <1>2, <2>1, <2>2, TypeParts DEF Record, Acts, Parts, Others
<1>3. CASE Stop
  <2>1. workloads' \in [Workloads -> Seq(Workload) \ {<<>>}]
    BY <1>1, <1>3, WriteIsTyped, CachedIsWorkload DEF Stop, TypeOK
  <2>2. PassTypeOK'
    BY <1>1, <1>3, ActedIsTyped DEF Stop, PassTypeOK
  <2> QED
    BY <1>1, <1>3, <2>1, <2>2, CountedIsTyped, TypeParts DEF Stop, Acts, Parts, Others
<1>4. CASE Suspend
  <2>1. workloads' \in [Workloads -> Seq(Workload) \ {<<>>}]
    BY <1>1, <1>4, WriteIsTyped, CachedIsWorkload DEF Suspend, TypeOK
  <2>2. PassTypeOK'
    BY <1>1, <1>4, ActedIsTyped DEF Suspend, PassTypeOK
  <2> QED
    BY <1>1, <1>4, <2>1, <2>2, CountedIsTyped, TypeParts DEF Suspend, Acts, Parts, Others
<1>5. CASE WorkloadConflict
  <2>1. PassTypeOK'
    <3>1. CASE pass.tries + 1 < MaxTries
      <4>1. pass.tries + 1 \in 0..(MaxTries - 1)
        BY <3>1, ReconcilerAssumption DEF TypeOK, Pass
      <4>2. pass' = [pass EXCEPT !.tries = pass.tries + 1]
        BY <1>5, <3>1 DEF WorkloadConflict
      <4> QED
        BY <1>1, <4>1, <4>2 DEF PassTypeOK, Pass
    <3>2. CASE ~ (pass.tries + 1 < MaxTries)
      BY <1>1, <1>5, <3>2, GiveUpIsTyped DEF WorkloadConflict
    <3> QED
      BY <3>1, <3>2
  <2> QED
    BY <1>5, <2>1, TypeParts DEF WorkloadConflict, Acts, Parts, Others
<1> QED
  BY <1>2, <1>3, <1>4, <1>5

\* The lists of held workloads, in any order, are sequences of workloads of the
\* generation's scope.
LEMMA SignedInOrder ==
    ASSUME NEW s \in SetToSeqs(Signed(Head(pass.kinds))), TypeOK, pass.policy \in Policies
    PROVE  s \in Seq(Scope[pass.policy][pass.gen]) /\ Scope[pass.policy][pass.gen] \subseteq Workloads
<1> DEFINE S == Signed(Head(pass.kinds))
<1> DEFINE reach == Scope[pass.policy][pass.gen]
<1>1. S \subseteq reach /\ reach \subseteq Workloads
  <2>1. pass.gen \in Generations
    BY DEF TypeOK, Pass
  <2>2. reach \subseteq Workloads
    <3>1. Scope[pass.policy] \in [Generations -> SUBSET Workloads]
      BY ReconcilerAssumption
    <3> QED
      BY <2>1, <3>1
  <2>3. S \subseteq reach
    BY DEF Signed
  <2> QED
    BY <2>2, <2>3
<1>2. Cardinality(S) \in Nat /\ s \in [1..Cardinality(S) -> S]
  BY <1>1, WorkloadsAreFinite DEF SetToSeqs
<1>3. s \in Seq(S)
  BY <1>2
<1> QED
  BY <1>1, <1>3, SeqMonotonic

\* Collecting the held workloads keeps the types.
LEMMA TypeCollect ==
    ASSUME TypeOK, ListKind \/ Collected \/ ListKindFails
    PROVE  TypeOK'
<1>1. pass.policy \in Policies /\ pass \in Pass /\ pass.at = "collect"
  BY DEF ListKind, Collected, ListKindFails, Collects, TypeOK
<1>2. CASE ListKind
  <2>1. PICK s \in SetToSeqs(Signed(Head(pass.kinds))) :
          pass' = [pass EXCEPT !.kinds = Tail(pass.kinds), !.found = pass.found \o s]
    BY <1>2 DEF ListKind
  <2>2. s \in Seq(Workloads)
    BY <1>1, <2>1, SignedInOrder, SeqMonotonic
  <2>3. pass.found \o s \in Seq(Workloads)
    BY <1>1, <2>2, ConcatProperties DEF Pass
  <2>4. Tail(pass.kinds) \in Seq({"Deployment", "StatefulSet", "CronJob"})
    BY <1>1, <1>2, HeadTailProperties DEF ListKind, Pass
  <2>5. PassTypeOK'
    BY <1>1, <2>1, <2>3, <2>4 DEF PassTypeOK, Pass
  <2> QED
    BY <1>2, <2>5, TypeParts DEF ListKind, Collects, Parts, Others
<1>3. CASE Collected
  <2> DEFINE n == IF Len(pass.found) < MaxActive THEN Len(pass.found) ELSE MaxActive
  <2>1. /\ n \in Nat /\ n <= Len(pass.found) /\ Len(pass.found) \in Nat
        /\ pass' = [pass EXCEPT !.at = "statusGet",
                                !.active = SubSeq(pass.found, 1, n),
                                !.truncated = Len(pass.found) - n]
    <3>1. Len(pass.found) \in Nat /\ MaxActive \in Nat
      BY <1>1, ReconcilerAssumption DEF Pass
    <3> QED
      BY <1>3, <3>1 DEF Collected
  <2> HIDE DEF n
  <2>2. pass.found \in Seq(Workloads)
    BY <1>1 DEF Pass
  <2>3. SubSeq(pass.found, 1, n) \in Seq(Workloads)
    BY <2>1, <2>2, FirstOnes
  <2>4. Len(pass.found) - n \in Nat /\ "statusGet" \in Place
    BY <1>1, <2>1 DEF Pass, Place
  <2>5. PassTypeOK'
    BY <1>1, <2>1, <2>3, <2>4 DEF PassTypeOK, Pass
  <2> QED
    BY <1>3, <2>5, TypeParts DEF Collected, Collects, Parts, Others
<1>4. CASE ListKindFails
  <2>1. pass.errors + 1 \in Nat /\ "statusGet" \in Place
    BY <1>1 DEF Pass, Place
  <2>2. PassTypeOK'
    BY <1>1, <1>4, <2>1 DEF ListKindFails, PassTypeOK, Pass
  <2> QED
    BY <1>4, <2>2, ReconcilerAssumption, TypeParts DEF ListKindFails, Collects, Parts, Others
<1> QED
  BY <1>2, <1>3, <1>4

\* Writing the status keeps the types.
LEMMA TypeStatus ==
    ASSUME TypeOK, StatusGet \/ StatusPut \/ StatusConflict
    PROVE  TypeOK'
<1>1. pass.policy \in Policies /\ pass \in Pass /\ pass.draft \in PolicyVersion
  BY DEF StatusGet, StatusPut, StatusConflict, TypeOK, Pass
<1>2. CASE StatusGet
  <2> DEFINE old == Cached(policies[pass.policy]).status
  <2>1. old \in Status /\ Mutated(old) \in Status
    BY <1>1, CachedIsVersion, MutatedIsStatus
  <2>2. PassTypeOK' /\ timers' \in SUBSET Policies
    <3>1. CASE Mutated(old) = old
      BY <1>1, <1>2, <3>1, FinishIsTyped DEF StatusGet
    <3>2. CASE Mutated(old) # old
      <4>1. pass' = Draft("statusPut", Mutated(old)) /\ timers' = timers
        BY <1>2, <3>2 DEF StatusGet
      <4> QED
        BY <1>1, <2>1, <4>1, DraftIsTyped DEF PassTypeOK, TypeOK
    <3> QED
      BY <3>1, <3>2
  <2> QED
    BY <1>2, <2>2, TypeParts DEF StatusGet, Parts, Others
<1>3. CASE StatusPut
  <2>1. policies' \in [Policies -> Seq(PolicyVersion) \ {<<>>}]
    BY <1>1, <1>3, StoreIsTyped DEF StatusPut
  <2>2. PassTypeOK' /\ timers' \in SUBSET Policies /\ uncounted' \in [Policies -> Int]
    BY <1>1, <1>3, FinishIsTyped, CountedIsTyped DEF StatusPut
  <2> QED
    BY <1>3, <2>1, <2>2, TypeParts DEF StatusPut, Parts, Others
<1>4. CASE StatusConflict
  <2>1. PassTypeOK' /\ timers' \in SUBSET Policies
    BY <1>1, <1>4, RetryIsTyped DEF StatusConflict
  <2> QED
    BY <1>4, <2>1, TypeParts DEF StatusConflict, Parts, Others
<1> QED
  BY <1>2, <1>3, <1>4

\* Faults keep the types.
LEMMA TypeFaults ==
    ASSUME TypeOK,
           WorkloadFails \/ StopAnswerLost \/ CallFails \/ StatusAnswerLost \/ Crash
    PROVE  TypeOK'
<1>1. pass \in Pass /\ pass.draft \in PolicyVersion
  BY DEF TypeOK, Pass
<1>2. FaultHappens /\ failing' \in [Workloads -> SUBSET Policies]
      /\ events' \in 0..MaxEvents /\ faults' \in 0..MaxFaults
  <2>1. FaultHappens
    BY Zenon DEF WorkloadFails, StopAnswerLost, CallFails, StatusAnswerLost, Crash
  <2> QED
    BY <2>1, ReconcilerAssumption DEF FaultHappens, TypeOK
<1>3. CASE WorkloadFails
  <2>1. pass.policy \in Policies
    BY <1>3 DEF WorkloadFails, TypeOK
  <2>2. PassTypeOK'
    <3>1. CASE GiveUp(1)
      BY <2>1, <3>1, GiveUpIsTyped
    <3>2. ASSUME NEW w \in pass.todo, pass.at = "loop",
                 pass' = [pass EXCEPT !.todo = pass.todo \ {w}, !.errors = pass.errors + 1]
          PROVE  PassTypeOK'
      <4>1. pass.todo \ {w} \in SUBSET Workloads /\ pass.errors + 1 \in Nat
        BY <1>1 DEF Pass
      <4> QED
        BY <1>1, <2>1, <3>2, <4>1 DEF PassTypeOK, Pass
    <3> QED
      BY <1>3, <3>1, <3>2 DEF WorkloadFails
  <2> QED
    BY <1>2, <1>3, <2>2, TypeParts DEF WorkloadFails, Parts, Others
<1>4. CASE StopAnswerLost
  <2>1. pass.policy \in Policies /\ pass.target \in Workloads
    BY <1>4 DEF StopAnswerLost, TypeOK
  <2>2. workloads' \in [Workloads -> Seq(Workload) \ {<<>>}]
    BY <1>4, <2>1, WriteIsTyped, CachedIsWorkload DEF StopAnswerLost
  <2>3. PassTypeOK'
    BY <1>4, <2>1, GiveUpIsTyped DEF StopAnswerLost
  <2> QED
    BY <1>2, <1>4, <2>2, <2>3, TypeParts DEF StopAnswerLost, Parts, Others
<1>5. CASE CallFails
  <2>1. pass.policy \in Policies
    BY <1>5 DEF CallFails, TypeOK
  <2>2. PassTypeOK' /\ timers' \in SUBSET Policies
    BY <1>5, <2>1, FinishIsTyped DEF CallFails
  <2> QED
    BY <1>2, <1>5, <2>2, TypeParts DEF CallFails, Parts, Others
<1>6. CASE StatusAnswerLost
  <2>1. pass.policy \in Policies
    BY <1>6 DEF StatusAnswerLost, TypeOK
  <2>2. policies' \in [Policies -> Seq(PolicyVersion) \ {<<>>}]
    BY <1>1, <1>6, <2>1, StoreIsTyped DEF StatusAnswerLost
  <2>3. PassTypeOK' /\ timers' \in SUBSET Policies /\ uncounted' \in [Policies -> Int]
    BY <1>6, <2>1, FinishIsTyped, CountedIsTyped DEF StatusAnswerLost
  <2> QED
    BY <1>2, <1>6, <2>2, <2>3, TypeParts DEF StatusAnswerLost, Parts, Others
<1>7. CASE Crash
  <2>1. workloads' \in [Workloads -> Seq(Workload) \ {<<>>}]
    <3>1. \A w \in Workloads : <<Live(workloads[w])>> \in Seq(Workload) \ {<<>>}
      BY CachedIsWorkload, OneVersion
    <3> QED
      BY <1>7, <3>1 DEF Crash
  <2>2. policies' \in [Policies -> Seq(PolicyVersion) \ {<<>>}]
    <3>1. \A p \in Policies : <<Live(policies[p])>> \in Seq(PolicyVersion) \ {<<>>}
      BY CachedIsVersion, OneVersion
    <3> QED
      BY <1>7, <3>1 DEF Crash
  <2>3. PassTypeOK'
    BY <1>7, FreshPassIsTyped DEF Crash
  <2> QED
    BY <1>2, <1>7, <2>1, <2>2, <2>3, TypeParts DEF Crash, Parts, Others
<1> QED
  BY <1>3, <1>4, <1>5, <1>6, <1>7

\* What others write, and pods that change, keep the types.
LEMMA TypeOutside ==
    ASSUME TypeOK, Outside
    PROVE  TypeOK'
<1>1. events' \in 0..MaxEvents /\ PassTypeOK
  <2>1. Happens
    BY Zenon DEF Outside, PodsChange, OwnerWrites, UserWrites
  <2>2. events' \in 0..MaxEvents
    BY <2>1, ReconcilerAssumption DEF Happens, TypeOK
  <2> QED
    BY <2>2, TypeParts DEF Parts
<1>2. ASSUME NEW w \in Workloads, NEW s \in SUBSET Policies, PodsChange(w, s)
      PROVE  TypeOK'
  <2>1. failing' \in [Workloads -> SUBSET Policies] /\ queue' \in SUBSET Policies
    BY <1>2 DEF PodsChange, TypeOK
  <2>2. PassTypeOK'
    BY <1>1, <1>2 DEF PodsChange, PassTypeOK
  <2> QED
    BY <1>1, <1>2, <2>1, <2>2, TypeParts DEF PodsChange, Happens, Parts, Others
<1>3. ASSUME NEW w \in Workloads, NEW n \in {0, 1}, OwnerWrites(w, n)
      PROVE  TypeOK'
  <2>1. workloads' \in [Workloads -> Seq(Workload) \ {<<>>}]
    <3>1. [Live(workloads[w]) EXCEPT !.size = n] \in Workload
      BY CachedIsWorkload
    <3>2. Append(workloads[w], [Live(workloads[w]) EXCEPT !.size = n]) \in Seq(Workload) \ {<<>>}
      BY <3>1, LineGrows DEF TypeOK
    <3> QED
      BY <1>3, <3>2 DEF OwnerWrites, TypeOK
  <2>2. PassTypeOK'
    BY <1>1, <1>3 DEF OwnerWrites, PassTypeOK
  <2> QED
    BY <1>1, <1>3, <2>1, <2>2, TypeParts DEF OwnerWrites, Happens, Parts, Others
<1>4. ASSUME NEW p \in Policies, NEW g \in Generations, UserWrites(p, g)
      PROVE  TypeOK'
  <2>1. policies' \in [Policies -> Seq(PolicyVersion) \ {<<>>}]
    <3>1. [Live(policies[p]) EXCEPT !.gen = g] \in PolicyVersion
      BY CachedIsVersion DEF PolicyVersion
    <3>2. Append(policies[p], [Live(policies[p]) EXCEPT !.gen = g]) \in Seq(PolicyVersion) \ {<<>>}
      BY <3>1, LineGrows DEF TypeOK
    <3> QED
      BY <1>4, <3>2 DEF UserWrites, TypeOK
  <2>2. PassTypeOK'
    BY <1>1, <1>4 DEF UserWrites, PassTypeOK, Pass
  <2> QED
    BY <1>1, <1>4, <2>1, <2>2, TypeParts DEF UserWrites, Happens, Parts, Others
<1> QED
  BY <1>2, <1>3, <1>4 DEF Outside

\* Watches, timers and pods that go away keep the types.
LEMMA TypeDelivery ==
    ASSUME TypeOK,
           \/ \E p \in Policies : PolicySync(p) \/ TimerFires(p)
           \/ \E w \in Workloads : WorkloadSync(w) \/ PodsGone(w)
    PROVE  TypeOK'
<1>1. ASSUME NEW p \in Policies, PolicySync(p)
      PROVE  TypeOK'
  <2>1. Tail(policies[p]) \in Seq(PolicyVersion) \ {<<>>}
    BY <1>1, LineShrinks DEF PolicySync, TypeOK
  <2>2. policies' \in [Policies -> Seq(PolicyVersion) \ {<<>>}] /\ queue' \in SUBSET Policies
    BY <1>1, <2>1 DEF PolicySync, TypeOK
  <2> QED
    BY <1>1, <2>2, TypeParts DEF PolicySync, Parts, Others, PassTypeOK
<1>2. ASSUME NEW p \in Policies, TimerFires(p)
      PROVE  TypeOK'
  <2>1. timers' \in SUBSET Policies /\ queue' \in SUBSET Policies
    BY <1>2 DEF TimerFires, TypeOK
  <2> QED
    BY <1>2, <2>1, TypeParts DEF TimerFires, Parts, Others, PassTypeOK
<1>3. ASSUME NEW w \in Workloads, WorkloadSync(w)
      PROVE  TypeOK'
  <2>1. Tail(workloads[w]) \in Seq(Workload) \ {<<>>}
    BY <1>3, LineShrinks DEF WorkloadSync, TypeOK
  <2>2. workloads' \in [Workloads -> Seq(Workload) \ {<<>>}]
    BY <1>3, <2>1 DEF WorkloadSync, TypeOK
  <2> QED
    BY <1>3, <2>2, TypeParts DEF WorkloadSync, Parts, Others, PassTypeOK
<1>4. ASSUME NEW w \in Workloads, PodsGone(w)
      PROVE  TypeOK'
  <2>1. failing' \in [Workloads -> SUBSET Policies]
    BY <1>4 DEF PodsGone, TypeOK
  <2> QED
    BY <1>4, <2>1, TypeParts DEF PodsGone, Parts, Others, PassTypeOK
<1> QED
  BY <1>1, <1>2, <1>3, <1>4

\* TypeOK is inductive.
LEMMA TypeStays == TypeOK /\ [Next]_vars => TypeOK'
<1> SUFFICES ASSUME TypeOK, [Next]_vars
             PROVE  TypeOK'
  OBVIOUS
<1>1. CASE UNCHANGED vars
  BY <1>1, Zenon DEF vars, TypeOK
<1>2. CASE \E p \in Policies : Start(p)
  BY <1>2, TypeStart
<1>3. CASE Proceed
  BY <1>3, TypePending, TypeLoop, TypeAct, TypeCollect, TypeStatus DEF Proceed
<1>4. CASE Fault
  BY <1>4, TypeCollect, TypeFaults DEF Fault
<1> QED
  BY <1>1, <1>2, <1>3, <1>4, TypeDelivery, TypeOutside DEF Next

\* The initial state is typed.
LEMMA TypeStarts == Init => TypeOK
<1> SUFFICES ASSUME Init
             PROVE  TypeOK
  OBVIOUS
<1>1. pass \in Pass /\ pass.at = "idle"
  BY FreshPass DEF Init, NoPass
<1>2. \A w \in Workloads : AsFound(w) \in Workload
  BY ReconcilerAssumption DEF AsFound, Workload
<1>3. [gen |-> 1, status |-> NewStatus] \in PolicyVersion
  BY FreshStatus, ReconcilerAssumption DEF PolicyVersion, Generations
<1>4. /\ workloads \in [Workloads -> Seq(Workload) \ {<<>>}]
      /\ policies \in [Policies -> Seq(PolicyVersion) \ {<<>>}]
  BY <1>2, <1>3 DEF Init
<1>5. 0 \in 0..MaxEvents /\ 0 \in 0..MaxFaults
  BY ReconcilerAssumption
<1> QED
  BY <1>1, <1>4, <1>5 DEF Init, TypeOK

\* Whatever fails, conflicts and is written meanwhile, the state of the loop
\* stays well formed: attempts are within the backoff, an evaluation has a
\* policy and an action a workload (crashlooppolicy_controller.go:49-339).
THEOREM TypeCorrect == Spec => []TypeOK
BY TypeStarts, TypeStays, PTL DEF Spec

-----------------------------------------------------------------------------
(* CountedOnce.  The history counter saturates, so that an action it does not *)
(* record must find it high enough for everything the evaluation has yet to   *)
(* report: an evaluation reports each workload at most once.                  *)

\* What an evaluation has reported and what it may still report.
Fits ==
    /\ pass.scaledDown + Cardinality(pass.todo) <= Cardinality(Workloads)
    /\ pass.at \in {"act", "stop"} => pass.target \in pass.todo
    /\ pass.at \in {"idle", "pendingGet", "pendingPut", "list"} => pass.scaledDown = 0

\* A step that reports nothing.
Quiet ==
    /\ uncounted' = uncounted
    /\ pass'.policy = pass.policy
    /\ pass'.scaledDown = pass.scaledDown
    /\ pass'.todo \in SUBSET pass.todo
    /\ pass'.at \in {"act", "stop"} => pass'.target \in pass'.todo
    /\ pass'.at \in {"idle", "pendingGet", "pendingPut", "list"} => pass.scaledDown = 0

\* A set of workloads is no smaller than its subsets.
LEMMA SmallerSets ==
    ASSUME NEW s \in SUBSET Workloads, NEW r \in SUBSET s
    PROVE  Cardinality(r) \in Nat /\ Cardinality(s) \in Nat /\ Cardinality(r) <= Cardinality(s)
BY WorkloadsAreFinite, FS_Subset, FS_CardinalityType

\* A step that reports nothing keeps the count right.
LEMMA QuietKeepsCount ==
    ASSUME TypeOK, Fits, CountedOnce, Quiet
    PROVE  Fits' /\ CountedOnce'
<1>1. /\ Cardinality(pass'.todo) \in Nat /\ Cardinality(pass.todo) \in Nat
      /\ Cardinality(pass'.todo) <= Cardinality(pass.todo)
      /\ Cardinality(Workloads) \in Nat /\ pass.scaledDown \in Nat
  BY SmallerSets, WorkloadsAreFinite DEF Quiet, TypeOK, Pass
<1>2. Fits'
  BY <1>1 DEF Fits, Quiet
<1>3. CountedOnce'
  BY DEF CountedOnce, Quiet
<1> QED
  BY <1>2, <1>3

\* A new evaluation has reported nothing.
LEMMA NothingToCount ==
    /\ NoPass.policy = None /\ NoPass.scaledDown = 0 /\ NoPass.todo = {} /\ NoPass.at = "idle"
    /\ Cardinality({}) = 0
BY FS_EmptySet DEF NoPass

\* An evaluation that ends, its actions counted or lost, keeps the count right.
LEMMA EndKeepsCount ==
    ASSUME TypeOK, Fits, CountedOnce, pass' = NoPass,
           uncounted' = uncounted \/ (pass.policy \in Policies /\ Counted)
    PROVE  Fits' /\ CountedOnce'
<1>1. Fits'
  BY NothingToCount, WorkloadsAreFinite DEF Fits
<1>2. CountedOnce'
  <2> SUFFICES ASSUME NEW p \in Policies
               PROVE  uncounted'[p] >= 0
    BY NothingToCount, ReconcilerAssumption DEF CountedOnce
  <2>1. uncounted[p] \in Int /\ pass.scaledDown \in Nat
    BY DEF TypeOK, Pass
  <2>2. uncounted[p] >= 0 /\ (pass.policy = p => uncounted[p] >= pass.scaledDown)
    BY <2>1 DEF CountedOnce
  <2> QED
    BY <2>1, <2>2 DEF Counted, TypeOK
<1> QED
  BY <1>1, <1>2

\* One more action is reported, and one workload less is to be done.
LEMMA ReportKeepsCount ==
    ASSUME TypeOK, Fits, CountedOnce, Report, pass.policy \in Policies, NEW w \in pass.todo,
           pass'.policy = pass.policy, pass'.at = "loop",
           pass'.scaledDown = pass.scaledDown + 1,
           pass'.todo \in SUBSET (pass.todo \ {w})
    PROVE  Fits' /\ CountedOnce'
<1>1. pass.todo \in SUBSET Workloads /\ pass.scaledDown \in Nat /\ MaxUncounted \in Nat
      /\ Cardinality(Workloads) \in Nat /\ MaxUncounted > Cardinality(Workloads)
  BY ReconcilerAssumption, WorkloadsAreFinite DEF TypeOK, Pass
<1>2. Cardinality(pass.todo \ {w}) = Cardinality(pass.todo) - 1 /\ Cardinality(pass.todo) \in Nat
  BY <1>1, OneLess, WorkloadsAreFinite
<1>3. Cardinality(pass'.todo) \in Nat /\ Cardinality(pass'.todo) <= Cardinality(pass.todo) - 1
  <2>1. pass.todo \ {w} \in SUBSET Workloads
    BY <1>1
  <2> QED
    BY <1>2, <2>1, SmallerSets
<1>4. Fits'
  BY <1>1, <1>2, <1>3 DEF Fits
<1>5. CountedOnce'
  <2> SUFFICES ASSUME NEW p \in Policies
               PROVE  uncounted'[p] >= IF pass.policy = p THEN pass.scaledDown + 1 ELSE 0
    BY DEF CountedOnce
  <2>1. uncounted[p] \in Int /\ uncounted \in [Policies -> Int]
    BY DEF TypeOK
  <2>2. uncounted[p] >= IF pass.policy = p THEN pass.scaledDown ELSE 0
    BY DEF CountedOnce
  <2>3. pass.scaledDown + 1 <= Cardinality(Workloads)
    BY <1>1, <1>2, <1>3 DEF Fits
  <2> QED
    BY <1>1, <2>1, <2>2, <2>3 DEF Report
<1> QED
  BY <1>4, <1>5

\* Start keeps the count right.
LEMMA CountStart ==
    ASSUME TypeOK, Fits, CountedOnce, NEW p \in Policies, Start(p)
    PROVE  Fits' /\ CountedOnce'
<1>1. /\ pass'.at \in {"pendingGet", "list"} /\ pass'.policy = p
      /\ pass'.scaledDown = 0 /\ pass'.todo = {} /\ uncounted' = uncounted
  BY DEF Start, NoPass
<1>2. Fits'
  BY <1>1, NothingToCount, WorkloadsAreFinite DEF Fits
<1>3. \A q \in Policies : uncounted[q] >= 0
  BY DEF CountedOnce, TypeOK, Pass
<1> QED
  BY <1>1, <1>2, <1>3 DEF CountedOnce

\* A draft keeps what the evaluation has found out, and a retry too.
LEMMA DraftAndRetry ==
    ASSUME pass \in Pass
    PROVE  /\ \A place, status :
                /\ Draft(place, status).at = place
                /\ Draft(place, status).policy = pass.policy
                /\ Draft(place, status).scaledDown = pass.scaledDown
                /\ Draft(place, status).todo = pass.todo
           /\ \A place : RetryFrom(place) /\ pass' # NoPass =>
                /\ pass'.at = place
                /\ pass'.policy = pass.policy
                /\ pass'.scaledDown = pass.scaledDown
                /\ pass'.todo = pass.todo
<1>1. ASSUME NEW place, NEW status
      PROVE  /\ Draft(place, status).at = place
             /\ Draft(place, status).policy = pass.policy
             /\ Draft(place, status).scaledDown = pass.scaledDown
             /\ Draft(place, status).todo = pass.todo
  BY DEF Draft, Pass
<1>2. ASSUME NEW place, RetryFrom(place), pass' # NoPass
      PROVE  /\ pass'.at = place
             /\ pass'.policy = pass.policy
             /\ pass'.scaledDown = pass.scaledDown
             /\ pass'.todo = pass.todo
  <2>1. pass' = [pass EXCEPT !.at = place, !.tries = @ + 1]
    BY <1>2 DEF RetryFrom, Finish
  <2> QED
    BY <2>1 DEF Pass
<1> QED
  BY <1>1, <1>2

\* The initial phase keeps the count right.
LEMMA CountPending ==
    ASSUME TypeOK, Fits, CountedOnce, PendingGet \/ PendingPut \/ PendingConflict
    PROVE  Fits' /\ CountedOnce'
<1>1. pass \in Pass /\ uncounted' = uncounted /\ pass.scaledDown = 0
  BY DEF PendingGet, PendingPut, PendingConflict, TypeOK, Fits
<1>2. CASE pass' = NoPass
  BY <1>1, <1>2, EndKeepsCount
<1>3. CASE pass' # NoPass
  <2>1. pass'.at \in {"pendingGet", "pendingPut", "list"}
        /\ pass'.policy = pass.policy /\ pass'.scaledDown = pass.scaledDown
        /\ pass'.todo = pass.todo
    <3>1. CASE PendingGet
      <4>1. PICK status : pass' = [Draft("pendingPut", status) EXCEPT
                                     !.gen = Cached(policies[pass.policy]).gen]
        BY <3>1 DEF PendingGet
      <4> QED
        BY <1>1, <4>1 DEF Draft, Pass
    <3>2. CASE PendingPut
      <4>1. pass' = [pass EXCEPT !.at = "list", !.tries = 0]
        BY <3>2 DEF PendingPut
      <4> QED
        BY <1>1, <4>1 DEF Pass
    <3>3. CASE PendingConflict
      BY <1>1, <1>3, <3>3, DraftAndRetry DEF PendingConflict
    <3> QED
      BY <3>1, <3>2, <3>3
  <2> QED
    BY <1>1, <2>1, QuietKeepsCount DEF Quiet
<1> QED
  BY <1>2, <1>3

\* The loop keeps the count right; a rehearsal reports an action.
LEMMA CountLoop ==
    ASSUME TypeOK, Fits, CountedOnce,
           \/ List \/ LoopEnds
           \/ \E w \in Workloads : LeaveAlone(w) \/ Rehearse(w) \/ Approach(w)
    PROVE  Fits' /\ CountedOnce'
<1>1. pass \in Pass
  BY DEF TypeOK
<1>2. CASE List
  <2>1. {w \in Scope[pass.policy][pass.gen] : pass.policy \in failing[w]} \in SUBSET Workloads
    BY <1>2, ReconcilerAssumption DEF List, TypeOK, Pass
  <2>2. /\ pass'.todo \in SUBSET Workloads /\ pass'.at = "loop" /\ pass'.policy = pass.policy
        /\ pass'.scaledDown = 0 /\ pass.scaledDown = 0 /\ uncounted' = uncounted
    BY <1>1, <1>2, <2>1 DEF List, Pass, Fits
  <2>3. Fits'
    BY <2>2, WorkloadsAreFinite DEF Fits
  <2>4. CountedOnce'
    BY <2>2 DEF CountedOnce
  <2> QED
    BY <2>3, <2>4
<1>3. CASE LoopEnds
  BY <1>1, <1>3, QuietKeepsCount DEF LoopEnds, Loops, Quiet, Pass
<1>4. ASSUME NEW w \in Workloads, LeaveAlone(w)
      PROVE  Fits' /\ CountedOnce'
  BY <1>1, <1>4, QuietKeepsCount DEF LeaveAlone, Loops, Quiet, Pass
<1>5. ASSUME NEW w \in Workloads, Approach(w)
      PROVE  Fits' /\ CountedOnce'
  BY <1>1, <1>5, QuietKeepsCount DEF Approach, Loops, Quiet, Pass
<1>6. ASSUME NEW w \in Workloads, Rehearse(w)
      PROVE  Fits' /\ CountedOnce'
  <2>1. pass.policy \in Policies /\ w \in pass.todo /\ Report
        /\ pass' = [Acted EXCEPT !.todo = Acted.todo \ {w}]
    BY <1>6 DEF Rehearse, Loops, TypeOK
  <2>2. /\ pass'.policy = pass.policy /\ pass'.at = "loop"
        /\ pass'.scaledDown = pass.scaledDown + 1
        /\ pass'.todo \in SUBSET (pass.todo \ {w})
    BY <2>1, ActedIsTyped DEF Pass
  <2> QED
    BY <2>1, <2>2, ReportKeepsCount
<1> QED
  BY <1>2, <1>3, <1>4, <1>5, <1>6

\* Acting keeps the count right; a stop and a suspension report an action.
LEMMA CountAct ==
    ASSUME TypeOK, Fits, CountedOnce,
           \/ Record \/ Stop \/ Suspend \/ WorkloadConflict
           \/ WorkloadFails \/ StopAnswerLost
    PROVE  Fits' /\ CountedOnce'
<1>1. pass \in Pass
  BY DEF TypeOK
<1>2. ASSUME NEW n \in {0, 1}, GiveUp(n), uncounted' = uncounted
      PROVE  Fits' /\ CountedOnce'
  BY <1>1, <1>2, QuietKeepsCount DEF GiveUp, Quiet, Pass
<1>3. CASE Record
  <2>1. CASE Running \/ pass.tries > 0
    <3>1. pass' = [pass EXCEPT !.at = "stop", !.tries = 0] /\ uncounted' = uncounted
          /\ pass.target \in pass.todo
      BY <1>3, <2>1 DEF Record, Fits
    <3> QED
      BY <1>1, <3>1, QuietKeepsCount DEF Quiet, Pass
  <2>2. CASE ~ (Running \/ pass.tries > 0)
    <3>1. GiveUp(0) /\ uncounted' = uncounted
      BY <1>3, <2>2, Zenon DEF Record
    <3> QED
      BY <1>2, <3>1
  <2> QED
    BY <2>1, <2>2
<1>4. CASE Stop \/ Suspend
  <2>1. pass.policy \in Policies /\ pass.target \in pass.todo /\ pass' = Acted /\ Report
    BY <1>4 DEF Stop, Suspend, TypeOK, Fits
  <2> QED
    BY <2>1, ActedIsTyped, ReportKeepsCount
<1>5. CASE WorkloadConflict
  <2>1. CASE pass.tries + 1 < MaxTries
    <3>1. pass' = [pass EXCEPT !.tries = pass.tries + 1] /\ uncounted' = uncounted
          /\ pass.at = "act" /\ pass.target \in pass.todo
      BY <1>5, <2>1 DEF WorkloadConflict, Fits
    <3> QED
      BY <1>1, <3>1, QuietKeepsCount DEF Quiet, Pass
  <2>2. CASE ~ (pass.tries + 1 < MaxTries)
    <3>1. GiveUp(1) /\ uncounted' = uncounted
      BY <1>5, <2>2, Zenon DEF WorkloadConflict
    <3> QED
      BY <1>2, <3>1
  <2> QED
    BY <2>1, <2>2
<1>6. CASE WorkloadFails
  <2>1. ASSUME NEW w \in pass.todo, pass.at = "loop", uncounted' = uncounted,
               pass' = [pass EXCEPT !.todo = pass.todo \ {w}, !.errors = pass.errors + 1]
        PROVE  Fits' /\ CountedOnce'
    BY <1>1, <2>1, QuietKeepsCount DEF Quiet, Pass
  <2> QED
    BY <1>2, <1>6, <2>1 DEF WorkloadFails
<1>7. CASE StopAnswerLost
  BY <1>2, <1>7 DEF StopAnswerLost
<1> QED
  BY <1>3, <1>4, <1>5, <1>6, <1>7

\* Collecting keeps the count right.
LEMMA CountCollect ==
    ASSUME TypeOK, Fits, CountedOnce, ListKind \/ Collected \/ ListKindFails
    PROVE  Fits' /\ CountedOnce'
<1>1. pass \in Pass /\ uncounted' = uncounted /\ pass.at = "collect"
  BY DEF ListKind, Collected, ListKindFails, Collects, TypeOK
<1>2. /\ pass'.policy = pass.policy /\ pass'.scaledDown = pass.scaledDown
      /\ pass'.todo = pass.todo /\ pass'.at \in {"collect", "statusGet"}
  BY <1>1 DEF ListKind, Collected, ListKindFails, Pass
<1> QED
  BY <1>1, <1>2, QuietKeepsCount DEF Quiet

\* Writing the status keeps the count right: what is counted was reported.
LEMMA CountStatus ==
    ASSUME TypeOK, Fits, CountedOnce,
           \/ StatusGet \/ StatusPut \/ StatusConflict
           \/ CallFails \/ StatusAnswerLost \/ Crash
    PROVE  Fits' /\ CountedOnce'
<1>1. CASE StatusPut \/ StatusAnswerLost
  BY <1>1, EndKeepsCount DEF StatusPut, StatusAnswerLost, Finish, TypeOK
<1>2. CASE CallFails \/ Crash
  <2>1. pass' = NoPass /\ uncounted' = uncounted
    BY <1>2 DEF CallFails, Crash, Finish
  <2> QED
    BY <2>1, EndKeepsCount
<1>3. CASE StatusGet \/ StatusConflict
  <2>1. uncounted' = uncounted /\ pass \in Pass
    BY <1>3 DEF StatusGet, StatusConflict, TypeOK
  <2>2. CASE pass' = NoPass
    BY <2>1, <2>2, EndKeepsCount
  <2>3. CASE pass' # NoPass
    <3>1. pass'.at \in {"statusGet", "statusPut"}
          /\ pass'.policy = pass.policy /\ pass'.scaledDown = pass.scaledDown
          /\ pass'.todo = pass.todo
      <4>1. CASE StatusGet
        <5>1. pass' = Draft("statusPut", Mutated(Cached(policies[pass.policy]).status))
          BY <2>3, <4>1 DEF StatusGet, Finish
        <5> QED
          BY <2>1, <5>1, DraftAndRetry
      <4>2. CASE StatusConflict
        BY <2>1, <2>3, <4>2, DraftAndRetry DEF StatusConflict
      <4> QED
        BY <1>3, <4>1, <4>2
    <3> QED
      BY <2>1, <3>1, QuietKeepsCount DEF Quiet
  <2> QED
    BY <2>2, <2>3
<1> QED
  BY <1>1, <1>2, <1>3

\* What happens outside reports nothing.
LEMMA CountElsewhere ==
    ASSUME TypeOK, Fits, CountedOnce, uncounted' = uncounted,
           pass' = pass \/ pass' = [pass EXCEPT !.fresh = FALSE]
    PROVE  Fits' /\ CountedOnce'
<1>1. pass \in Pass
  BY DEF TypeOK
<1>2. /\ pass'.at = pass.at /\ pass'.policy = pass.policy
      /\ pass'.scaledDown = pass.scaledDown /\ pass'.todo = pass.todo
      /\ pass'.target = pass.target
  BY <1>1 DEF Pass
<1>3. Quiet
  BY <1>2 DEF Quiet, Fits
<1> QED
  BY <1>3, QuietKeepsCount

\* The steps outside touch at most the freshness of the draft.
LEMMA OutsideThePass ==
    ASSUME \/ Outside
           \/ \E p \in Policies : PolicySync(p) \/ TimerFires(p)
           \/ \E w \in Workloads : WorkloadSync(w) \/ PodsGone(w)
    PROVE  uncounted' = uncounted /\ (pass' = pass \/ pass' = [pass EXCEPT !.fresh = FALSE])
<1>1. CASE Outside
  BY <1>1 DEF Outside, PodsChange, OwnerWrites, UserWrites, Happens
<1>2. CASE \E p \in Policies : PolicySync(p) \/ TimerFires(p)
  BY <1>2 DEF PolicySync, TimerFires
<1>3. CASE \E w \in Workloads : WorkloadSync(w) \/ PodsGone(w)
  BY <1>3 DEF WorkloadSync, PodsGone
<1> QED
  BY <1>1, <1>2, <1>3

\* The strengthened invariant is inductive.
LEMMA CountStays == TypeOK /\ Fits /\ CountedOnce /\ [Next]_vars => Fits' /\ CountedOnce'
<1> SUFFICES ASSUME TypeOK, Fits, CountedOnce, [Next]_vars
             PROVE  Fits' /\ CountedOnce'
  OBVIOUS
<1>1. CASE UNCHANGED vars
  BY <1>1, CountElsewhere DEF vars
<1>2. CASE \E p \in Policies : Start(p)
  BY <1>2, CountStart
<1>3. CASE Proceed
  BY <1>3, CountPending, CountLoop, CountAct, CountCollect, CountStatus DEF Proceed
<1>4. CASE Fault
  BY <1>4, CountCollect, CountAct, CountStatus DEF Fault
<1>5. CASE \/ Outside
           \/ \E p \in Policies : PolicySync(p) \/ TimerFires(p)
           \/ \E w \in Workloads : WorkloadSync(w) \/ PodsGone(w)
  BY <1>5, OutsideThePass, CountElsewhere
<1> QED
  BY <1>1, <1>2, <1>3, <1>4, <1>5 DEF Next

\* No action goes into the lifetime counter twice, however many attempts a
\* status write takes and whatever is lost between the action and the write
\* (crashlooppolicy_controller.go:242-291, helpers.go:41-55).
THEOREM CountedOnceAlways == Spec => []CountedOnce
<1>1. Init => Fits /\ CountedOnce
  BY NothingToCount, WorkloadsAreFinite, ReconcilerAssumption DEF Init, Fits, CountedOnce
<1> QED
  BY <1>1, TypeStarts, TypeStays, CountStays, PTL DEF Spec

-----------------------------------------------------------------------------
(* ListsWhatItObserved.  What an evaluation has found lies in the scope of    *)
(* the generation it read at its start, whatever the spec has become since.   *)

Honest(p, status) ==
    status.observed # 0 => Range(status.active) \subseteq Scope[p][status.observed]

HonestLine(p, line) == \A i \in 1..Len(line) : Honest(p, line[i].status)

FoundInScope ==
    /\ pass.at \in {"pendingGet", "pendingPut", "list"} => pass.found = <<>> /\ pass.active = <<>>
    /\ pass.at # "idle" => /\ pass.found \in Seq(Scope[pass.policy][pass.gen])
                           /\ pass.active \in Seq(Scope[pass.policy][pass.gen])
    /\ pass.at \in {"pendingPut", "statusPut"} => Honest(pass.policy, pass.draft.status)

LinesHonest == \A p \in Policies : HonestLine(p, policies[p])

\* The invariant, line by line, is the property.
LEMMA HonestMeansListed == LinesHonest <=> ListsWhatItObserved
BY DEF LinesHonest, HonestLine, Honest, ListsWhatItObserved

\* How a history of honest versions changes.
LEMMA HonestGrows ==
    ASSUME TypeOK, NEW p \in Policies, HonestLine(p, policies[p]),
           NEW v \in PolicyVersion, Honest(p, v.status)
    PROVE  HonestLine(p, Append(policies[p], v))
<1>1. policies[p] \in Seq(PolicyVersion) \ {<<>>}
  BY DEF TypeOK
<1>2. \A i \in 1..(Len(policies[p]) + 1) : i \in 1..Len(policies[p]) \/ i = Len(policies[p]) + 1
  BY <1>1
<1>3. /\ Len(Append(policies[p], v)) = Len(policies[p]) + 1
      /\ \A i \in 1..Len(policies[p]) : Append(policies[p], v)[i] = policies[p][i]
      /\ Append(policies[p], v)[Len(policies[p]) + 1] = v
  BY <1>1, LineGrows
<1> QED
  BY <1>2, <1>3 DEF HonestLine

\* The versions at both ends are honest, and a shorter history is.
LEMMA HonestEnds ==
    ASSUME TypeOK, NEW p \in Policies, HonestLine(p, policies[p])
    PROVE  /\ Honest(p, Cached(policies[p]).status) /\ Honest(p, Live(policies[p]).status)
           /\ HonestLine(p, <<Live(policies[p])>>)
           /\ Len(policies[p]) > 1 => HonestLine(p, Tail(policies[p]))
<1>1. policies[p] \in Seq(PolicyVersion) \ {<<>>} /\ Len(policies[p]) \in Nat \ {0}
  BY LineEnds DEF TypeOK
<1>2. Honest(p, Cached(policies[p]).status) /\ Honest(p, Live(policies[p]).status)
  BY <1>1 DEF HonestLine, Cached, Live
<1>3. HonestLine(p, <<Live(policies[p])>>)
  BY <1>2 DEF HonestLine
<1>4. ASSUME Len(policies[p]) > 1
      PROVE  HonestLine(p, Tail(policies[p]))
  <2>1. /\ Len(Tail(policies[p])) = Len(policies[p]) - 1
        /\ \A i \in 1..Len(Tail(policies[p])) : Tail(policies[p])[i] = policies[p][i + 1]
    BY <1>1, <1>4, LineShrinks
  <2> QED
    BY <1>1, <2>1 DEF HonestLine
<1> QED
  BY <1>2, <1>3, <1>4

\* A step that writes no policy keeps every line; one that stores the draft adds
\* an honest version.
LEMMA StoreKeepsHonest ==
    ASSUME TypeOK, LinesHonest, pass.policy \in Policies, NEW v \in PolicyVersion,
           Honest(pass.policy, v.status), Store(v)
    PROVE  LinesHonest'
<1>1. HonestLine(pass.policy, Append(policies[pass.policy], v))
  BY HonestGrows DEF LinesHonest
<1>2. ASSUME NEW p \in Policies
      PROVE  HonestLine(p, policies'[p])
  BY <1>1 DEF Store, TypeOK, LinesHonest
<1> QED
  BY <1>2 DEF LinesHonest, HonestLine

\* A step that writes no policy keeps every line.
LEMMA SameLinesHonest ==
    ASSUME LinesHonest, policies' = policies
    PROVE  LinesHonest'
BY DEF LinesHonest, HonestLine

\* An evaluation that keeps its policy, its generation and what it found.
LEMMA SameFound ==
    ASSUME TypeOK, FoundInScope, pass.at # "idle",
           pass'.at \notin {"idle", "pendingPut", "statusPut"},
           pass'.at \in {"pendingGet", "list"} => pass.at \in {"pendingGet", "pendingPut", "list"},
           pass'.policy = pass.policy, pass'.gen = pass.gen,
           pass'.found = pass.found, pass'.active = pass.active
    PROVE  FoundInScope'
BY DEF FoundInScope

\* An evaluation that is over has found nothing.
LEMMA NothingFound ==
    ASSUME pass' = NoPass
    PROVE  FoundInScope'
<1>1. pass'.at = "idle"
  BY DEF NoPass
<1> QED
  BY <1>1 DEF FoundInScope

\* The start of an evaluation and its initial phase.
LEMMA ListPending ==
    ASSUME TypeOK, FoundInScope, LinesHonest,
           \/ \E p \in Policies : Start(p)
           \/ PendingGet \/ PendingPut \/ PendingConflict
    PROVE  FoundInScope' /\ LinesHonest'
<1>1. pass \in Pass /\ \A s : <<>> \in Seq(s)
  BY EmptySeq DEF TypeOK
<1>2. ASSUME NEW p \in Policies, Start(p)
      PROVE  FoundInScope' /\ LinesHonest'
  <2>1. pass'.at \in {"pendingGet", "list"} /\ pass'.found = <<>> /\ pass'.active = <<>>
    BY <1>2 DEF Start, NoPass
  <2>2. FoundInScope'
    BY <1>1, <2>1 DEF FoundInScope
  <2> QED
    BY <1>2, <2>2, SameLinesHonest DEF Start
<1>3. CASE PendingGet
  <2> DEFINE s == [Cached(policies[pass.policy]).status EXCEPT !.phase = "Pending"]
             g == Cached(policies[pass.policy]).gen
  <2>1. pass.policy \in Policies /\ pass.found = <<>> /\ pass.active = <<>>
        /\ pass' = [Draft("pendingPut", s) EXCEPT !.gen = g]
    BY <1>3 DEF PendingGet, TypeOK, FoundInScope
  <2>2. pass'.at = "pendingPut" /\ pass'.policy = pass.policy /\ pass'.draft.status = s
        /\ pass'.found = <<>> /\ pass'.active = <<>>
    BY <1>1, <2>1 DEF Draft, Pass
  <2>3. Honest(pass.policy, s)
    <3>1. Honest(pass.policy, Cached(policies[pass.policy]).status)
          /\ Cached(policies[pass.policy]).status \in Status
      BY <2>1, HonestEnds, CachedIsVersion DEF LinesHonest
    <3>2. s.observed = Cached(policies[pass.policy]).status.observed
          /\ s.active = Cached(policies[pass.policy]).status.active
      BY <3>1 DEF Status
    <3> QED
      BY <3>1, <3>2 DEF Honest
  <2>4. FoundInScope'
    BY <1>1, <2>2, <2>3 DEF FoundInScope, Honest
  <2> QED
    BY <1>3, <2>4, SameLinesHonest DEF PendingGet
<1>4. CASE PendingPut
  <2>1. /\ pass.policy \in Policies /\ pass.draft \in PolicyVersion /\ Store(pass.draft)
        /\ Honest(pass.policy, pass.draft.status) /\ pass.at = "pendingPut"
        /\ pass' = [pass EXCEPT !.at = "list", !.tries = 0]
    BY <1>1, <1>4 DEF PendingPut, TypeOK, Pass, FoundInScope
  <2>2. FoundInScope'
    BY <1>1, <2>1, SameFound DEF Pass
  <2> QED
    BY <2>1, <2>2, StoreKeepsHonest
<1>5. CASE PendingConflict
  <2>1. FoundInScope'
    <3>1. CASE pass' = NoPass
      BY <3>1, NothingFound
    <3>2. CASE pass' # NoPass
      <4>1. pass.at = "pendingPut" /\ pass' = [pass EXCEPT !.at = "pendingGet", !.tries = pass.tries + 1]
        BY <1>5, <3>2 DEF PendingConflict, RetryFrom, Finish
      <4> QED
        BY <1>1, <4>1, SameFound DEF Pass
    <3> QED
      BY <3>1, <3>2
  <2> QED
    BY <1>5, <2>1, SameLinesHonest DEF PendingConflict
<1> QED
  BY <1>2, <1>3, <1>4, <1>5

\* The loop finds nothing.
LEMMA ListLoop ==
    ASSUME TypeOK, FoundInScope, LinesHonest,
           \/ List \/ LoopEnds
           \/ \E w \in Workloads : LeaveAlone(w) \/ Rehearse(w) \/ Approach(w)
    PROVE  FoundInScope' /\ LinesHonest'
<1>1. pass \in Pass
  BY DEF TypeOK
<1>2. LinesHonest'
  BY SameLinesHonest DEF List, LoopEnds, LeaveAlone, Rehearse, Approach, Loops
<1>3. CASE List \/ LoopEnds
  BY <1>1, <1>2, <1>3, SameFound DEF List, LoopEnds, Loops, Pass
<1>4. ASSUME NEW w \in Workloads, LeaveAlone(w) \/ Approach(w)
      PROVE  FoundInScope'
  <2>1. \/ pass' = [pass EXCEPT !.todo = @ \ {w}]
        \/ pass' = [pass EXCEPT !.at = "act", !.target = w]
    BY <1>4 DEF LeaveAlone, Approach
  <2>2. pass.at = "loop"
    BY <1>4 DEF LeaveAlone, Approach, Loops
  <2>3. /\ pass'.at \in {"loop", "act"} /\ pass'.policy = pass.policy /\ pass'.gen = pass.gen
        /\ pass'.found = pass.found /\ pass'.active = pass.active
    BY <1>1, <2>1, <2>2 DEF Pass
  <2> QED
    BY <2>2, <2>3, SameFound
<1>5. ASSUME NEW w \in Workloads, Rehearse(w)
      PROVE  FoundInScope'
  BY <1>1, <1>5, SameFound DEF Rehearse, Acted, Loops, Pass
<1> QED
  BY <1>2, <1>3, <1>4, <1>5

\* Acting on a workload, or giving it up, leads back to the loop.
LEMMA PassInTheLoop ==
    ASSUME pass \in Pass,
           \/ Record \/ Stop \/ Suspend \/ WorkloadConflict
           \/ WorkloadFails \/ StopAnswerLost
    PROVE  /\ pass'.at \in {"loop", "act", "stop"}
           /\ pass'.policy = pass.policy /\ pass'.gen = pass.gen
           /\ pass'.found = pass.found /\ pass'.active = pass.active
<1> DEFINE Goal == /\ pass'.at \in {"loop", "act", "stop"}
                   /\ pass'.policy = pass.policy /\ pass'.gen = pass.gen
                   /\ pass'.found = pass.found /\ pass'.active = pass.active
<1>1. ASSUME NEW n \in {0, 1}, GiveUp(n)
      PROVE  Goal
  BY <1>1 DEF GiveUp, Pass
<1>2. CASE Record
  <2>1. GiveUp(0) \/ pass' = [pass EXCEPT !.at = "stop", !.tries = 0]
    BY <1>2, Zenon DEF Record
  <2> QED
    BY <1>1, <2>1 DEF Pass
<1>3. CASE Stop \/ Suspend
  BY <1>3 DEF Stop, Suspend, Acted, Pass
<1>4. CASE WorkloadConflict
  <2>1. GiveUp(1) \/ (pass.at = "act" /\ pass' = [pass EXCEPT !.tries = pass.tries + 1])
    BY <1>4, Zenon DEF WorkloadConflict
  <2> QED
    BY <1>1, <2>1 DEF Pass
<1>5. CASE WorkloadFails
  <2>1. ASSUME NEW w \in pass.todo, pass.at = "loop",
               pass' = [pass EXCEPT !.todo = pass.todo \ {w}, !.errors = pass.errors + 1]
        PROVE  Goal
    BY <2>1 DEF Pass
  <2> QED
    BY <1>1, <1>5, <2>1 DEF WorkloadFails
<1>6. CASE StopAnswerLost
  BY <1>1, <1>6 DEF StopAnswerLost
<1> QED
  BY <1>2, <1>3, <1>4, <1>5, <1>6

\* Acting finds nothing.
LEMMA ListAct ==
    ASSUME TypeOK, FoundInScope, LinesHonest,
           \/ Record \/ Stop \/ Suspend \/ WorkloadConflict
           \/ WorkloadFails \/ StopAnswerLost
    PROVE  FoundInScope' /\ LinesHonest'
<1>1. LinesHonest'
  BY SameLinesHonest DEF Record, Stop, Suspend, WorkloadConflict, WorkloadFails, StopAnswerLost, Acts
<1>2. pass.at \in {"loop", "act", "stop"} /\ pass \in Pass
  BY DEF Record, Stop, Suspend, WorkloadConflict, WorkloadFails, StopAnswerLost, TypeOK
<1> QED
  BY <1>1, <1>2, PassInTheLoop, SameFound

\* What the lists add lies in the scope of the generation.
LEMMA ListCollect ==
    ASSUME TypeOK, FoundInScope, LinesHonest, ListKind \/ Collected \/ ListKindFails
    PROVE  FoundInScope' /\ LinesHonest'
<1> DEFINE reach == Scope[pass.policy][pass.gen]
<1>1. /\ pass \in Pass /\ pass.at = "collect" /\ pass.policy \in Policies
      /\ pass.found \in Seq(reach) /\ pass.active \in Seq(reach)
  BY DEF ListKind, Collected, ListKindFails, Collects, TypeOK, FoundInScope
<1>2. LinesHonest'
  BY SameLinesHonest DEF ListKind, Collected, ListKindFails, Collects
<1>3. ASSUME pass'.at \in {"collect", "statusGet"},
             pass'.policy = pass.policy, pass'.gen = pass.gen,
             pass'.found \in Seq(reach), pass'.active \in Seq(reach)
      PROVE  FoundInScope'
  BY <1>3 DEF FoundInScope
<1>4. CASE ListKind
  <2>1. PICK s \in SetToSeqs(Signed(Head(pass.kinds))) :
          pass' = [pass EXCEPT !.kinds = Tail(pass.kinds), !.found = pass.found \o s]
    BY <1>4 DEF ListKind
  <2>2. pass.found \o s \in Seq(reach)
    BY <1>1, <2>1, SignedInOrder, ConcatProperties
  <2>3. /\ pass'.at = "collect" /\ pass'.policy = pass.policy /\ pass'.gen = pass.gen
        /\ pass'.found = pass.found \o s /\ pass'.active = pass.active
    BY <1>1, <2>1 DEF Pass
  <2> QED
    BY <1>1, <1>2, <1>3, <2>2, <2>3
<1>5. CASE Collected
  <2> DEFINE n == IF Len(pass.found) < MaxActive THEN Len(pass.found) ELSE MaxActive
  <2>1. n \in Nat /\ n <= Len(pass.found)
    BY <1>1, ReconcilerAssumption
  <2>2. pass' = [pass EXCEPT !.at = "statusGet", !.active = SubSeq(pass.found, 1, n),
                             !.truncated = Len(pass.found) - n]
    BY <1>5 DEF Collected
  <2> HIDE DEF n
  <2>3. SubSeq(pass.found, 1, n) \in Seq(reach)
    BY <1>1, <2>1, FirstOnes
  <2>4. /\ pass'.at = "statusGet" /\ pass'.policy = pass.policy /\ pass'.gen = pass.gen
        /\ pass'.found = pass.found /\ pass'.active = SubSeq(pass.found, 1, n)
    BY <1>1, <2>2 DEF Pass
  <2> QED
    BY <1>1, <1>2, <1>3, <2>3, <2>4
<1>6. CASE ListKindFails
  <2>1. /\ pass'.at = "statusGet" /\ pass'.policy = pass.policy /\ pass'.gen = pass.gen
        /\ pass'.found = pass.found /\ pass'.active = pass.active
    BY <1>1, <1>6 DEF ListKindFails, Pass
  <2> QED
    BY <1>1, <1>2, <1>3, <2>1
<1> QED
  BY <1>4, <1>5, <1>6

\* The draft of an evaluation is honest, and so is what it stores.
LEMMA ListStatus ==
    ASSUME TypeOK, FoundInScope, LinesHonest,
           \/ StatusGet \/ StatusPut \/ StatusConflict \/ CallFails \/ StatusAnswerLost
    PROVE  FoundInScope' /\ LinesHonest'
<1>1. pass \in Pass /\ pass.draft \in PolicyVersion
  BY DEF TypeOK, Pass
<1>2. CASE StatusPut \/ StatusAnswerLost
  <2>1. pass.policy \in Policies /\ Store(pass.draft) /\ pass' = NoPass
        /\ Honest(pass.policy, pass.draft.status)
    BY <1>2 DEF StatusPut, StatusAnswerLost, Finish, TypeOK, FoundInScope
  <2> QED
    BY <1>1, <2>1, StoreKeepsHonest, NothingFound
<1>3. CASE StatusGet \/ StatusConflict \/ CallFails
  <2>1. LinesHonest'
    BY <1>3, SameLinesHonest DEF StatusGet, StatusConflict, CallFails
  <2>2. CASE pass' = NoPass
    BY <2>1, <2>2, NothingFound
  <2>3. CASE pass' # NoPass /\ StatusConflict
    <3>1. pass.at = "statusPut" /\ pass' = [pass EXCEPT !.at = "statusGet", !.tries = pass.tries + 1]
      BY <2>3 DEF StatusConflict, RetryFrom, Finish
    <3> QED
      BY <1>1, <2>1, <3>1, SameFound DEF Pass
  <2>4. CASE pass' # NoPass /\ StatusGet
    <3> DEFINE new == Mutated(Cached(policies[pass.policy]).status)
    <3>1. pass.policy \in Policies /\ pass.at = "statusGet" /\ pass' = Draft("statusPut", new)
      BY <2>4 DEF StatusGet, Finish, TypeOK
    <3>2. new.observed = pass.gen /\ new.active = pass.active
      BY DEF Mutated
    <3>3. pass.active \in Seq(Scope[pass.policy][pass.gen])
      BY <3>1 DEF FoundInScope
    <3>4. Honest(pass.policy, new)
      BY <3>2, <3>3, RangeOfSeq DEF Honest, Range
    <3> HIDE DEF new
    <3>5. /\ pass'.at = "statusPut" /\ pass'.policy = pass.policy /\ pass'.gen = pass.gen
          /\ pass'.found = pass.found /\ pass'.active = pass.active /\ pass'.draft.status = new
      BY <1>1, <3>1 DEF Draft, Pass
    <3>6. FoundInScope'
      BY <3>1, <3>4, <3>5 DEF FoundInScope, Honest
    <3> QED
      BY <2>1, <3>6
  <2> QED
    BY <1>3, <2>2, <2>3, <2>4 DEF CallFails, Finish
<1> QED
  BY <1>2, <1>3

\* Crashes, watches and users keep the lists with their generation.
LEMMA ListElsewhere ==
    ASSUME TypeOK, FoundInScope, LinesHonest,
           \/ Crash \/ Outside
           \/ \E p \in Policies : PolicySync(p) \/ TimerFires(p)
           \/ \E w \in Workloads : WorkloadSync(w) \/ PodsGone(w)
    PROVE  FoundInScope' /\ LinesHonest'
<1>1. pass \in Pass /\ \A p \in Policies : HonestLine(p, policies[p])
  BY DEF TypeOK, LinesHonest
<1>2. FoundInScope'
  <2>1. CASE Crash
    BY <2>1, NothingFound DEF Crash
  <2>2. CASE ~Crash
    <3>1. pass' = pass \/ pass' = [pass EXCEPT !.fresh = FALSE]
      BY <2>2, OutsideThePass, Zenon
    <3>2. /\ pass'.at = pass.at /\ pass'.policy = pass.policy /\ pass'.gen = pass.gen
          /\ pass'.found = pass.found /\ pass'.active = pass.active /\ pass'.draft = pass.draft
      BY <1>1, <3>1 DEF Pass
    <3> QED
      BY <3>2 DEF FoundInScope, Honest
  <2> QED
    BY <2>1, <2>2
<1>3. CASE policies' = policies
  BY <1>2, <1>3, SameLinesHonest
<1>4. ASSUME NEW p \in Policies, PolicySync(p)
      PROVE  LinesHonest'
  <2>1. HonestLine(p, Tail(policies[p]))
    BY <1>1, <1>4, HonestEnds DEF PolicySync
  <2>2. \A q \in Policies : HonestLine(q, policies'[q])
    BY <1>1, <1>4, <2>1 DEF PolicySync, TypeOK
  <2> QED
    BY <2>2 DEF LinesHonest, HonestLine
<1>5. ASSUME NEW p \in Policies, NEW g \in Generations, UserWrites(p, g)
      PROVE  LinesHonest'
  <2> DEFINE v == [Live(policies[p]) EXCEPT !.gen = g]
  <2>1. v \in PolicyVersion /\ v.status = Live(policies[p]).status
    BY CachedIsVersion DEF PolicyVersion
  <2>2. Honest(p, v.status)
    BY <1>1, <2>1, HonestEnds
  <2> HIDE DEF v
  <2>3. HonestLine(p, Append(policies[p], v))
    BY <1>1, <2>1, <2>2, HonestGrows
  <2>4. policies' = [policies EXCEPT ![p] = Append(policies[p], v)]
    BY <1>5 DEF UserWrites, v
  <2>5. \A q \in Policies : HonestLine(q, policies'[q])
    BY <1>1, <2>3, <2>4 DEF TypeOK
  <2> QED
    BY <2>5 DEF LinesHonest, HonestLine
<1>6. CASE Crash
  <2>1. \A q \in Policies : HonestLine(q, policies'[q])
    BY <1>1, <1>6, HonestEnds DEF Crash
  <2> QED
    BY <1>2, <2>1 DEF LinesHonest, HonestLine
<1>7. policies' = policies \/ Crash \/ (\E p \in Policies : PolicySync(p))
      \/ (\E p \in Policies, g \in Generations : UserWrites(p, g))
  BY Zenon DEF Outside, PodsChange, OwnerWrites, TimerFires, WorkloadSync, PodsGone
<1> QED
  BY <1>2, <1>3, <1>4, <1>5, <1>6, <1>7

\* The strengthened invariant is inductive.
LEMMA ListStays ==
    TypeOK /\ FoundInScope /\ LinesHonest /\ [Next]_vars => FoundInScope' /\ LinesHonest'
<1> SUFFICES ASSUME TypeOK, FoundInScope, LinesHonest, [Next]_vars
             PROVE  FoundInScope' /\ LinesHonest'
  OBVIOUS
<1>1. CASE UNCHANGED vars
  BY <1>1 DEF vars, FoundInScope, LinesHonest, HonestLine, Honest
<1>2. CASE Proceed
  BY <1>2, ListPending, ListLoop, ListAct, ListCollect, ListStatus DEF Proceed
<1>3. CASE Fault
  BY <1>3, ListCollect, ListAct, ListStatus, ListElsewhere DEF Fault
<1> QED
  BY <1>1, <1>2, <1>3, ListPending, ListElsewhere DEF Next

\* What a status lists was collected under the spec of the generation it
\* observes, even when the spec changes while the status is written
\* (crashlooppolicy_controller.go:287-293).
THEOREM ListsObserved == Spec => []ListsWhatItObserved
<1>1. Init => FoundInScope /\ LinesHonest
  <2> SUFFICES ASSUME Init
               PROVE  FoundInScope /\ LinesHonest
    OBVIOUS
  <2>1. pass.at = "idle"
    BY DEF Init, NoPass
  <2>2. \A p \in Policies : policies[p] = <<[gen |-> 1, status |-> NewStatus]>>
    BY DEF Init
  <2>3. \A p \in Policies : Honest(p, NewStatus)
    BY DEF Honest, NewStatus
  <2>4. LinesHonest
    BY <2>2, <2>3 DEF LinesHonest, HonestLine
  <2> QED
    BY <2>1, <2>4 DEF FoundInScope
<1> QED
  BY <1>1, TypeStarts, TypeStays, ListStays, HonestMeansListed, PTL DEF Spec

-----------------------------------------------------------------------------
(* PhaseNeverRegresses.  The initial phase is written on a copy that is the   *)
(* live object, taken when the phase was unset; the invariant is that no      *)
(* version behind such a copy is Active.                                      *)

Unset(v) == v.status.phase = NoPhase
Evaluated(v) == v.status.phase = "Active"

InOrder(line) ==
    \A i, j \in 1..Len(line) : i <= j /\ ~Unset(line[i]) => ~Unset(line[j])

NoneEvaluated(line) == \A i \in 1..Len(line) : ~Evaluated(line[i])

PhasesInOrder ==
    \A p \in Policies :
        /\ InOrder(policies[p])
        /\ Unset(Cached(policies[p])) => NoneEvaluated(policies[p])

\* What the place of an evaluation says of the phases of its policy.
PlaceSuitsPhase ==
    /\ pass.at \in {"pendingGet", "pendingPut"} => NoneEvaluated(policies[pass.policy])
    /\ pass.at \notin {"idle", "pendingGet", "pendingPut"} => ~Unset(Live(policies[pass.policy]))
    /\ pass.at \in {"pendingPut", "statusPut"} /\ pass.fresh => Len(policies[pass.policy]) = 1
    /\ pass.at = "pendingPut" => pass.draft.status.phase = "Pending"
    /\ pass.at = "statusPut" => pass.draft.status.phase = "Active"

\* The phases are three.
LEMMA PhasesDiffer == "Pending" # NoPhase /\ "Active" # NoPhase /\ "Pending" # "Active"
BY Zenon DEF NoPhase

\* An evaluated version has a phase.
LEMMA EvaluatedIsSet == \A v : Evaluated(v) => ~Unset(v)
BY PhasesDiffer DEF Evaluated, Unset

\* How a history changes whose phases are in order.
LEMMA PhaseGrows ==
    ASSUME NEW line \in Seq(PolicyVersion) \ {<<>>}, NEW v \in PolicyVersion, InOrder(line),
           ~Unset(v) \/ Unset(Live(line))
    PROVE  /\ InOrder(Append(line, v))
           /\ NoneEvaluated(line) /\ ~Evaluated(v) => NoneEvaluated(Append(line, v))
<1>1. /\ Len(Append(line, v)) = Len(line) + 1 /\ Len(line) \in Nat \ {0}
      /\ \A i \in 1..Len(line) : Append(line, v)[i] = line[i]
      /\ Append(line, v)[Len(line) + 1] = v
  BY LineGrows
<1>2. \A i \in 1..(Len(line) + 1) : i \in 1..Len(line) \/ i = Len(line) + 1
  BY <1>1
<1>3. InOrder(Append(line, v))
  <2> SUFFICES ASSUME NEW i \in 1..(Len(line) + 1), NEW j \in 1..(Len(line) + 1), i <= j,
                      ~Unset(Append(line, v)[i])
               PROVE  ~Unset(Append(line, v)[j])
    BY <1>1 DEF InOrder
  <2>1. CASE j \in 1..Len(line)
    <3>1. i \in 1..Len(line)
      BY <1>1, <2>1
    <3> QED
      BY <1>1, <2>1, <3>1 DEF InOrder
  <2>2. CASE j = Len(line) + 1
    <3>1. CASE i \in 1..Len(line)
      <4>1. ~Unset(line[i]) /\ i <= Len(line) /\ Len(line) \in 1..Len(line)
        BY <1>1, <3>1
      <4>2. ~Unset(Live(line))
        BY <3>1, <4>1 DEF InOrder, Live
      <4> QED
        BY <1>1, <2>2, <4>2
    <3>2. CASE i = Len(line) + 1
      BY <2>2, <3>2
    <3> QED
      BY <1>2, <3>1, <3>2
  <2> QED
    BY <1>2, <2>1, <2>2
<1>4. NoneEvaluated(line) /\ ~Evaluated(v) => NoneEvaluated(Append(line, v))
  BY <1>1, <1>2 DEF NoneEvaluated
<1> QED
  BY <1>3, <1>4

\* What the phases in a history say of its ends, and a shorter history.
LEMMA PhaseEnds ==
    ASSUME NEW line \in Seq(PolicyVersion) \ {<<>>}, InOrder(line),
           Unset(Cached(line)) => NoneEvaluated(line)
    PROVE  /\ ~Unset(Cached(line)) => ~Unset(Live(line))
           /\ NoneEvaluated(line) => ~Evaluated(Live(line)) /\ ~Evaluated(Cached(line))
           /\ InOrder(<<Live(line)>>)
           /\ NoneEvaluated(line) => NoneEvaluated(<<Live(line)>>)
           /\ Len(line) > 1 => /\ InOrder(Tail(line))
                               /\ NoneEvaluated(line) => NoneEvaluated(Tail(line))
                               /\ Unset(Cached(Tail(line))) => NoneEvaluated(Tail(line))
<1>1. Len(line) \in Nat \ {0} /\ 1 \in 1..Len(line) /\ Len(line) \in 1..Len(line)
  BY LineEnds
<1>2. ~Unset(Cached(line)) => ~Unset(Live(line))
  BY <1>1 DEF InOrder, Cached, Live
<1>3. NoneEvaluated(line) => ~Evaluated(Live(line)) /\ ~Evaluated(Cached(line))
  BY <1>1 DEF NoneEvaluated, Cached, Live
<1>4. InOrder(<<Live(line)>>)
  BY DEF InOrder
<1>5. NoneEvaluated(line) => NoneEvaluated(<<Live(line)>>)
  BY <1>3 DEF NoneEvaluated
<1>6. ASSUME Len(line) > 1
      PROVE  /\ InOrder(Tail(line))
             /\ NoneEvaluated(line) => NoneEvaluated(Tail(line))
             /\ Unset(Cached(Tail(line))) => NoneEvaluated(Tail(line))
  <2>1. /\ Len(Tail(line)) = Len(line) - 1
        /\ \A i \in 1..Len(Tail(line)) : Tail(line)[i] = line[i + 1]
    BY <1>6, LineShrinks
  <2>2. \A i \in 1..Len(Tail(line)) : i + 1 \in 1..Len(line)
    BY <1>1, <2>1
  <2>3. InOrder(Tail(line))
    <3> SUFFICES ASSUME NEW i \in 1..Len(Tail(line)), NEW j \in 1..Len(Tail(line)), i <= j,
                        ~Unset(Tail(line)[i])
                 PROVE  ~Unset(Tail(line)[j])
      BY DEF InOrder
    <3>1. i + 1 \in 1..Len(line) /\ j + 1 \in 1..Len(line) /\ i + 1 <= j + 1
      BY <1>1, <2>1, <2>2
    <3>2. ~Unset(line[i + 1])
      BY <2>1
    <3>3. ~Unset(line[j + 1])
      BY <3>1, <3>2 DEF InOrder
    <3> QED
      BY <2>1, <3>3
  <2>4. NoneEvaluated(line) => NoneEvaluated(Tail(line))
    BY <2>1, <2>2 DEF NoneEvaluated
  <2>5. Unset(Cached(Tail(line))) => Unset(Cached(line))
    <3>1. Cached(Tail(line)) = line[2] /\ 2 \in 1..Len(line) /\ 1 <= 2
      BY <1>1, <1>6, <2>1 DEF Cached
    <3> QED
      BY <1>1, <3>1 DEF InOrder, Cached
  <2> QED
    BY <2>3, <2>4, <2>5
<1> QED
  BY <1>2, <1>3, <1>4, <1>5, <1>6

\* The invariant for one policy.
LEMMA PolicyLine ==
    ASSUME TypeOK, PhasesInOrder, NEW p \in Policies
    PROVE  /\ policies[p] \in Seq(PolicyVersion) \ {<<>>} /\ InOrder(policies[p])
           /\ Unset(Cached(policies[p])) => NoneEvaluated(policies[p])
BY DEF TypeOK, PhasesInOrder

\* The phase of a live policy only changes when the operator writes its status.
PhasesKept == \A p \in Policies : Evaluated(Live(policies[p])) => Evaluated(Live(policies'[p]))

\* A step that writes no policy keeps the phases.
LEMMA SamePhases ==
    ASSUME PhasesInOrder, policies' = policies
    PROVE  PhasesInOrder' /\ PhasesKept
BY DEF PhasesInOrder, PhasesKept, InOrder, NoneEvaluated, Unset, Evaluated, Cached

\* An evaluation that goes on within its half and writes no policy.
LEMMA SamePlace ==
    ASSUME PlaceSuitsPhase, policies' = policies, pass.at # "idle",
           pass'.policy = pass.policy, pass'.at \notin {"idle", "pendingPut", "statusPut"},
           pass'.at = "pendingGet" => pass.at \in {"pendingGet", "pendingPut"},
           pass'.at # "pendingGet" => pass.at \notin {"pendingGet", "pendingPut"}
    PROVE  PlaceSuitsPhase'
BY DEF PlaceSuitsPhase, NoneEvaluated, Unset, Evaluated, Live

\* An evaluation that is over says nothing of phases.
LEMMA NoPlace ==
    ASSUME pass' = NoPass
    PROVE  PlaceSuitsPhase'
<1>1. pass'.at = "idle"
  BY DEF NoPass
<1> QED
  BY <1>1 DEF PlaceSuitsPhase

\* The start goes to the initial phase just when no version is Active.
LEMMA PhaseStart ==
    ASSUME TypeOK, PhasesInOrder, PlaceSuitsPhase, NEW p \in Policies, Start(p)
    PROVE  PhasesInOrder' /\ PlaceSuitsPhase' /\ PhasesKept
<1>1. PhasesInOrder' /\ PhasesKept /\ policies' = policies
  BY SamePhases DEF Start
<1>2. pass'.at = (IF Unset(Cached(policies[p])) THEN "pendingGet" ELSE "list") /\ pass'.policy = p
  BY DEF Start, NoPass, Unset
<1>3. ~Unset(Cached(policies[p])) => ~Unset(Live(policies[p]))
  BY PolicyLine, PhaseEnds
<1>4. Unset(Cached(policies[p])) => NoneEvaluated(policies[p])
  BY PolicyLine
<1>5. PlaceSuitsPhase'
  BY <1>1, <1>2, <1>3, <1>4 DEF PlaceSuitsPhase, NoneEvaluated, Unset, Evaluated, Live
<1> QED
  BY <1>1, <1>5

\* The initial phase is stored behind no Active version.
LEMMA PhasePending ==
    ASSUME TypeOK, PhasesInOrder, PlaceSuitsPhase, PendingGet \/ PendingPut \/ PendingConflict
    PROVE  PhasesInOrder' /\ PlaceSuitsPhase' /\ PhasesKept
<1>1. /\ pass \in Pass /\ pass.policy \in Policies /\ pass.draft \in PolicyVersion
      /\ NoneEvaluated(policies[pass.policy])
  BY DEF PendingGet, PendingPut, PendingConflict, TypeOK, Pass, PlaceSuitsPhase
<1>2. CASE PendingGet
  <2> DEFINE s == [Cached(policies[pass.policy]).status EXCEPT !.phase = "Pending"]
             g == Cached(policies[pass.policy]).gen
  <2>1. s.phase = "Pending"
    BY <1>1, CachedIsVersion DEF Status
  <2>2. pass' = [Draft("pendingPut", s) EXCEPT !.gen = g] /\ policies' = policies
    BY <1>2 DEF PendingGet
  <2>3. s \in Status
    BY <1>1, CachedIsVersion, MutatedIsStatus
  <2> HIDE DEF s, g
  <2>4. /\ Draft("pendingPut", s) \in Pass /\ Draft("pendingPut", s).at = "pendingPut"
        /\ Draft("pendingPut", s).policy = pass.policy
    BY <1>1, <2>3, DraftIsTyped
  <2>5. /\ Draft("pendingPut", s).draft.status = s
        /\ Draft("pendingPut", s).fresh = (Len(policies[pass.policy]) = 1)
    BY <1>1 DEF Draft, Pass
  <2>6. /\ pass'.at = "pendingPut" /\ pass'.policy = pass.policy /\ pass'.draft.status = s
        /\ pass'.fresh = Draft("pendingPut", s).fresh
    BY <2>2, <2>4, <2>5 DEF Pass
  <2>7. pass'.fresh => Len(policies[pass.policy]) = 1
    BY <2>5, <2>6
  <2>8. PlaceSuitsPhase'
    BY <1>1, <2>1, <2>2, <2>6, <2>7 DEF PlaceSuitsPhase, NoneEvaluated, Evaluated
  <2> QED
    BY <2>2, <2>8, SamePhases
<1>3. CASE PendingPut
  <2> DEFINE line == policies[pass.policy]
             next == Append(policies[pass.policy], pass.draft)
  <2>1. /\ ~Unset(pass.draft) /\ ~Evaluated(pass.draft)
        /\ pass' = [pass EXCEPT !.at = "list", !.tries = 0]
        /\ policies' = [policies EXCEPT ![pass.policy] = next]
    BY <1>3, PhasesDiffer DEF PendingPut, PlaceSuitsPhase, Unset, Evaluated, Store
  <2>2. line \in Seq(PolicyVersion) \ {<<>>} /\ InOrder(line) /\ ~Evaluated(Live(line))
    BY <1>1, PolicyLine, PhaseEnds
  <2>3. InOrder(next) /\ NoneEvaluated(next) /\ Live(next) = pass.draft
    BY <1>1, <2>1, <2>2, PhaseGrows, LineGrows
  <2> HIDE DEF next
  <2>4. policies'[pass.policy] = next /\ \A p \in Policies \ {pass.policy} : policies'[p] = policies[p]
    BY <1>1, <2>1 DEF TypeOK
  <2>5. PhasesInOrder'
    <3>1. ASSUME NEW p \in Policies
          PROVE  InOrder(policies'[p]) /\ (Unset(Cached(policies'[p])) => NoneEvaluated(policies'[p]))
      BY <2>3, <2>4, PolicyLine
    <3> QED
      BY <3>1 DEF PhasesInOrder, InOrder, NoneEvaluated, Unset, Evaluated, Cached
  <2>6. PhasesKept
    BY <2>2, <2>4 DEF PhasesKept
  <2>7. pass'.at = "list" /\ pass'.policy = pass.policy
    BY <1>1, <2>1 DEF Pass
  <2>8. PlaceSuitsPhase'
    BY <2>1, <2>3, <2>4, <2>7 DEF PlaceSuitsPhase, Unset, Live
  <2> QED
    BY <2>5, <2>6, <2>8
<1>4. CASE PendingConflict
  <2>1. PhasesInOrder' /\ PhasesKept /\ policies' = policies
    BY <1>4, SamePhases DEF PendingConflict
  <2>2. CASE pass' = NoPass
    BY <2>1, <2>2, NoPlace
  <2>3. CASE pass' # NoPass
    <3>1. pass.at = "pendingPut" /\ pass' = [pass EXCEPT !.at = "pendingGet", !.tries = pass.tries + 1]
      BY <1>4, <2>3 DEF PendingConflict, RetryFrom, Finish
    <3>2. PlaceSuitsPhase'
      BY <1>1, <2>1, <3>1, SamePlace DEF Pass
    <3> QED
      BY <2>1, <3>2
  <2> QED
    BY <2>2, <2>3
<1> QED
  BY <1>2, <1>3, <1>4

\* The evaluation proper writes no policy and stays beyond the initial phase.
Beyond == {"list", "loop", "act", "stop", "collect", "statusGet"}

\* A step of the evaluation proper.
LEMMA PhaseMiddle ==
    ASSUME TypeOK, PhasesInOrder, PlaceSuitsPhase, policies' = policies,
           pass.at \in Beyond, pass'.at \in Beyond, pass'.policy = pass.policy
    PROVE  PhasesInOrder' /\ PlaceSuitsPhase' /\ PhasesKept
BY SamePhases, SamePlace DEF Beyond

\* The loop and the lists.
LEMMA PhaseEvaluation ==
    ASSUME TypeOK, PhasesInOrder, PlaceSuitsPhase,
           \/ List \/ LoopEnds
           \/ \E w \in Workloads : LeaveAlone(w) \/ Rehearse(w) \/ Approach(w)
           \/ Record \/ Stop \/ Suspend \/ WorkloadConflict
           \/ WorkloadFails \/ StopAnswerLost
           \/ ListKind \/ Collected \/ ListKindFails
    PROVE  PhasesInOrder' /\ PlaceSuitsPhase' /\ PhasesKept
<1> USE DEF Beyond
<1>1. pass \in Pass
  BY DEF TypeOK
<1>2. CASE List \/ LoopEnds
  BY <1>1, <1>2, PhaseMiddle DEF List, LoopEnds, Loops, Pass
<1>3. ASSUME NEW w \in Workloads, LeaveAlone(w) \/ Approach(w)
      PROVE  PhasesInOrder' /\ PlaceSuitsPhase' /\ PhasesKept
  BY <1>1, <1>3, PhaseMiddle DEF LeaveAlone, Approach, Loops, Pass
<1>4. ASSUME NEW w \in Workloads, Rehearse(w)
      PROVE  PhasesInOrder' /\ PlaceSuitsPhase' /\ PhasesKept
  BY <1>1, <1>4, PhaseMiddle DEF Rehearse, Acted, Loops, Pass
<1>5. CASE Record \/ Stop \/ Suspend \/ WorkloadConflict \/ WorkloadFails \/ StopAnswerLost
  <2>1. policies' = policies /\ pass.at \in {"loop", "act", "stop"}
    BY <1>5 DEF Record, Stop, Suspend, WorkloadConflict, WorkloadFails, StopAnswerLost, Acts
  <2>2. pass'.at \in {"loop", "act", "stop"} /\ pass'.policy = pass.policy
    BY <1>1, <1>5, PassInTheLoop
  <2> QED
    BY <2>1, <2>2, PhaseMiddle
<1>6. CASE ListKind \/ Collected \/ ListKindFails
  BY <1>1, <1>6, PhaseMiddle DEF ListKind, Collected, ListKindFails, Collects, Pass
<1> QED
  BY <1>2, <1>3, <1>4, <1>5, <1>6

\* The status is stored on a version with a phase.
LEMMA PhaseStatus ==
    ASSUME TypeOK, PhasesInOrder, PlaceSuitsPhase,
           \/ StatusGet \/ StatusPut \/ StatusConflict \/ CallFails \/ StatusAnswerLost
    PROVE  PhasesInOrder' /\ PlaceSuitsPhase' /\ PhasesKept
<1>1. pass \in Pass /\ pass.draft \in PolicyVersion
  BY DEF TypeOK, Pass
<1>2. CASE StatusPut \/ StatusAnswerLost
  <2> DEFINE line == policies[pass.policy]
             next == Append(policies[pass.policy], pass.draft)
  <2>1. /\ Evaluated(pass.draft) /\ pass.policy \in Policies /\ pass' = NoPass
        /\ Len(line) = 1 /\ ~Unset(Live(line))
        /\ policies' = [policies EXCEPT ![pass.policy] = next]
    BY <1>2
    DEF StatusPut, StatusAnswerLost, Finish, PlaceSuitsPhase, Evaluated, Store, TypeOK
  <2>2. line \in Seq(PolicyVersion) \ {<<>>} /\ InOrder(line)
    BY <2>1, PolicyLine
  <2>3. /\ InOrder(next) /\ Live(next) = pass.draft /\ ~Unset(Cached(next))
    <3>1. ~Unset(Cached(line))
      BY <2>1 DEF Cached, Live
    <3> QED
      BY <1>1, <2>1, <2>2, <3>1, EvaluatedIsSet, PhaseGrows, LineGrows
  <2> HIDE DEF next
  <2>4. policies'[pass.policy] = next /\ \A p \in Policies \ {pass.policy} : policies'[p] = policies[p]
    BY <2>1 DEF TypeOK
  <2>5. PhasesInOrder'
    <3>1. ASSUME NEW p \in Policies
          PROVE  InOrder(policies'[p]) /\ (Unset(Cached(policies'[p])) => NoneEvaluated(policies'[p]))
      BY <2>3, <2>4, PolicyLine
    <3> QED
      BY <3>1 DEF PhasesInOrder, InOrder, NoneEvaluated, Unset, Evaluated, Cached
  <2>6. PhasesKept
    BY <2>1, <2>3, <2>4 DEF PhasesKept
  <2> QED
    BY <2>1, <2>5, <2>6, NoPlace
<1>3. CASE StatusGet \/ StatusConflict \/ CallFails
  <2>1. PhasesInOrder' /\ PhasesKept /\ policies' = policies
    BY <1>3, SamePhases DEF StatusGet, StatusConflict, CallFails
  <2>2. CASE pass' = NoPass
    BY <2>1, <2>2, NoPlace
  <2>3. CASE pass' # NoPass /\ StatusConflict
    <3>1. pass.at = "statusPut" /\ pass' = [pass EXCEPT !.at = "statusGet", !.tries = pass.tries + 1]
      BY <2>3 DEF StatusConflict, RetryFrom, Finish
    <3>2. PlaceSuitsPhase'
      BY <1>1, <2>1, <3>1, SamePlace DEF Pass
    <3> QED
      BY <2>1, <3>2
  <2>4. CASE pass' # NoPass /\ StatusGet
    <3> DEFINE new == Mutated(Cached(policies[pass.policy]).status)
    <3>1. pass.at = "statusGet" /\ pass' = Draft("statusPut", new)
      BY <2>4 DEF StatusGet, Finish
    <3>2. new.phase = "Active"
      BY DEF Mutated
    <3> HIDE DEF new
    <3>3. /\ pass'.at = "statusPut" /\ pass'.policy = pass.policy /\ pass'.draft.status = new
          /\ pass'.fresh = (Len(policies[pass.policy]) = 1)
      BY <1>1, <3>1 DEF Draft, Pass
    <3>4. PlaceSuitsPhase'
      BY <2>1, <3>1, <3>2, <3>3 DEF PlaceSuitsPhase, Unset, Live
    <3> QED
      BY <2>1, <3>4
  <2> QED
    BY <1>3, <2>2, <2>3, <2>4 DEF CallFails, Finish
<1> QED
  BY <1>2, <1>3

\* Crashes, watches and users keep the phases in order.
LEMMA PhaseElsewhere ==
    ASSUME TypeOK, PhasesInOrder, PlaceSuitsPhase,
           \/ Crash \/ Outside
           \/ \E p \in Policies : PolicySync(p) \/ TimerFires(p)
           \/ \E w \in Workloads : WorkloadSync(w) \/ PodsGone(w)
    PROVE  PhasesInOrder' /\ PlaceSuitsPhase' /\ PhasesKept
<1>1. pass \in Pass /\ (pass.at # "idle" => pass.policy \in Policies)
  BY DEF TypeOK
<1>2. CASE policies' = policies /\ ~Crash
  <2>1. PhasesInOrder' /\ PhasesKept
    BY <1>2, SamePhases
  <2>2. pass' = pass \/ pass' = [pass EXCEPT !.fresh = FALSE]
    BY <1>2, OutsideThePass, Zenon
  <2>3. /\ pass'.at = pass.at /\ pass'.policy = pass.policy /\ pass'.draft = pass.draft
        /\ pass'.fresh => pass.fresh
    BY <1>1, <2>2 DEF Pass
  <2>4. PlaceSuitsPhase'
    BY <1>2, <2>3 DEF PlaceSuitsPhase, NoneEvaluated, Unset, Evaluated, Live
  <2> QED
    BY <2>1, <2>4
<1>3. ASSUME NEW p \in Policies, PolicySync(p)
      PROVE  PhasesInOrder' /\ PlaceSuitsPhase' /\ PhasesKept
  <2> DEFINE line == policies[p]
             next == Tail(policies[p])
  <2>1. line \in Seq(PolicyVersion) \ {<<>>} /\ InOrder(line) /\ Len(line) > 1
        /\ (Unset(Cached(line)) => NoneEvaluated(line))
    BY <1>3, PolicyLine DEF PolicySync
  <2>2. Len(line) \in Nat /\ Len(line) # 1
    <3>1. Len(line) \in Nat
      BY <2>1, LineEnds
    <3>2. Len(line) > 1
      BY <1>3 DEF PolicySync
    <3>3. \A n \in Nat : n > 1 => n # 1
      OBVIOUS
    <3> QED
      BY <3>1, <3>2, <3>3, Zenon
  <2>3. /\ InOrder(next) /\ Live(next) = Live(line)
        /\ NoneEvaluated(line) => NoneEvaluated(next)
        /\ Unset(Cached(next)) => NoneEvaluated(next)
    BY <2>1, PhaseEnds, LineShrinks
  <2>4. pass' = pass /\ policies' = [policies EXCEPT ![p] = next]
    BY <1>3 DEF PolicySync
  <2> HIDE DEF line, next
  <2>5. policies'[p] = next /\ policies[p] = line
        /\ \A q \in Policies \ {p} : policies'[q] = policies[q]
    BY <2>4 DEF TypeOK, line
  <2>6. PhasesInOrder'
    <3>1. ASSUME NEW q \in Policies
          PROVE  InOrder(policies'[q]) /\ (Unset(Cached(policies'[q])) => NoneEvaluated(policies'[q]))
      BY <2>3, <2>5, PolicyLine
    <3> QED
      BY <3>1 DEF PhasesInOrder, InOrder, NoneEvaluated, Unset, Evaluated, Cached
  <2>7. PhasesKept
    BY <2>3, <2>5 DEF PhasesKept
  <2>8. PlaceSuitsPhase'
    <3>1. CASE pass.at = "idle"
      BY <2>4, <3>1 DEF PlaceSuitsPhase
    <3>2. CASE pass.at # "idle" /\ pass.policy # p
      <4>1. policies'[pass.policy] = policies[pass.policy]
        BY <1>1, <2>5, <3>2
      <4> QED
        BY <2>4, <4>1 DEF PlaceSuitsPhase, NoneEvaluated, Unset, Evaluated, Live
    <3>3. CASE pass.at # "idle" /\ pass.policy = p
      <4>1. pass.at \in {"pendingPut", "statusPut"} => ~pass.fresh
        <5>1. policies[pass.policy] = line
          BY <2>5, <3>3
        <5>2. pass.at \in {"pendingPut", "statusPut"} /\ pass.fresh
                => Len(policies[pass.policy]) = 1
          BY Zenon DEF PlaceSuitsPhase
        <5> QED
          BY <2>2, <5>1, <5>2, Zenon
      <4>2. pass.at \in {"pendingGet", "pendingPut"} => NoneEvaluated(policies'[p])
        BY <2>3, <2>5, <3>3 DEF PlaceSuitsPhase
      <4>3. pass.at \notin {"idle", "pendingGet", "pendingPut"} => ~Unset(Live(policies'[p]))
        BY <2>3, <2>5, <3>3 DEF PlaceSuitsPhase
      <4> QED
        BY <2>4, <3>3, <4>1, <4>2, <4>3 DEF PlaceSuitsPhase, NoneEvaluated, Unset, Evaluated, Live
    <3> QED
      BY <3>1, <3>2, <3>3
  <2> QED
    BY <2>6, <2>7, <2>8
<1>4. ASSUME NEW p \in Policies, NEW g \in Generations, UserWrites(p, g)
      PROVE  PhasesInOrder' /\ PlaceSuitsPhase' /\ PhasesKept
  <2> DEFINE line == policies[p]
             v == [Live(policies[p]) EXCEPT !.gen = g]
             next == Append(policies[p], v)
  <2>1. line \in Seq(PolicyVersion) \ {<<>>} /\ InOrder(line)
        /\ (Unset(Cached(line)) => NoneEvaluated(line))
    BY PolicyLine
  <2>2. v \in PolicyVersion /\ v.status = Live(line).status
    BY CachedIsVersion DEF PolicyVersion
  <2>3. (Unset(v) <=> Unset(Live(line))) /\ (Evaluated(v) <=> Evaluated(Live(line)))
    BY <2>2 DEF Unset, Evaluated
  <2>4. NoneEvaluated(line) => ~Evaluated(v)
    BY <2>1, <2>3, PhaseEnds
  <2>5. policies' = [policies EXCEPT ![p] = next]
        /\ pass' = IF pass.policy = p THEN [pass EXCEPT !.fresh = FALSE] ELSE pass
    BY <1>4 DEF UserWrites
  <2> HIDE DEF v
  <2>6. /\ InOrder(next) /\ Live(next) = v /\ Cached(next) = Cached(line)
        /\ NoneEvaluated(line) => NoneEvaluated(next)
    BY <2>1, <2>2, <2>3, <2>4, PhaseGrows, LineGrows
  <2> HIDE DEF line, next
  <2>7. policies'[p] = next /\ policies[p] = line
        /\ \A q \in Policies \ {p} : policies'[q] = policies[q]
    BY <2>5 DEF TypeOK, line
  <2>8. PhasesInOrder'
    <3>1. ASSUME NEW q \in Policies
          PROVE  InOrder(policies'[q]) /\ (Unset(Cached(policies'[q])) => NoneEvaluated(policies'[q]))
      BY <2>1, <2>6, <2>7, PolicyLine
    <3> QED
      BY <3>1 DEF PhasesInOrder, InOrder, NoneEvaluated, Unset, Evaluated, Cached
  <2>9. PhasesKept
    BY <2>3, <2>6, <2>7 DEF PhasesKept
  <2>10. PlaceSuitsPhase'
    <3>1. CASE pass.policy = p
      <4>1. /\ pass'.at = pass.at /\ pass'.policy = p /\ pass'.draft = pass.draft
            /\ pass'.fresh = FALSE
        BY <1>1, <2>5, <3>1 DEF Pass
      <4>2. pass.at \in {"pendingGet", "pendingPut"} => NoneEvaluated(policies'[p])
        BY <2>6, <2>7, <3>1 DEF PlaceSuitsPhase
      <4>3. pass.at \notin {"idle", "pendingGet", "pendingPut"} => ~Unset(Live(policies'[p]))
        BY <2>3, <2>6, <2>7, <3>1 DEF PlaceSuitsPhase
      <4> QED
        BY <3>1, <4>1, <4>2, <4>3 DEF PlaceSuitsPhase, NoneEvaluated, Unset, Evaluated, Live
    <3>2. CASE pass.policy # p
      <4>1. pass' = pass /\ (pass.at # "idle" => policies'[pass.policy] = policies[pass.policy])
        BY <1>1, <2>5, <2>7, <3>2
      <4> QED
        BY <4>1 DEF PlaceSuitsPhase, NoneEvaluated, Unset, Evaluated, Live
    <3> QED
      BY <3>1, <3>2
  <2> QED
    BY <2>8, <2>9, <2>10
<1>5. CASE Crash
  <2>1. policies' = [p \in Policies |-> <<Live(policies[p])>>] /\ pass' = NoPass
    BY <1>5 DEF Crash
  <2>2. ASSUME NEW p \in Policies
        PROVE  /\ InOrder(policies'[p])
               /\ Unset(Cached(policies'[p])) => NoneEvaluated(policies'[p])
               /\ Live(policies'[p]) = Live(policies[p])
    <3>1. policies'[p] = <<Live(policies[p])>> /\ InOrder(<<Live(policies[p])>>)
      BY <2>1, PolicyLine, PhaseEnds
    <3>2. Live(<<Live(policies[p])>>) = Live(policies[p]) /\ Cached(<<Live(policies[p])>>) = Live(policies[p])
      BY CachedIsVersion, OneVersion
    <3>3. Unset(Live(policies[p])) => NoneEvaluated(<<Live(policies[p])>>)
      BY EvaluatedIsSet DEF NoneEvaluated
    <3> QED
      BY <3>1, <3>2, <3>3
  <2>3. PhasesInOrder'
    BY <2>2 DEF PhasesInOrder, InOrder, NoneEvaluated, Unset, Evaluated, Cached
  <2>4. PhasesKept
    BY <2>2 DEF PhasesKept
  <2> QED
    BY <2>1, <2>3, <2>4, NoPlace
<1>6. policies' = policies \/ Crash \/ (\E p \in Policies : PolicySync(p))
      \/ (\E p \in Policies, g \in Generations : UserWrites(p, g))
  BY Zenon DEF Outside, PodsChange, OwnerWrites, TimerFires, WorkloadSync, PodsGone
<1> QED
  BY <1>2, <1>3, <1>4, <1>5, <1>6

\* The strengthened invariant is inductive, and every step keeps Active policies.
LEMMA PhaseStays ==
    TypeOK /\ PhasesInOrder /\ PlaceSuitsPhase /\ [Next]_vars
        => PhasesInOrder' /\ PlaceSuitsPhase' /\ PhasesKept
<1> SUFFICES ASSUME TypeOK, PhasesInOrder, PlaceSuitsPhase, [Next]_vars
             PROVE  PhasesInOrder' /\ PlaceSuitsPhase' /\ PhasesKept
  OBVIOUS
<1>1. CASE UNCHANGED vars
  <2>1. policies' = policies /\ pass' = pass
    BY <1>1 DEF vars
  <2>2. PlaceSuitsPhase'
    BY <2>1 DEF PlaceSuitsPhase, NoneEvaluated, Unset, Evaluated, Live
  <2> QED
    BY <2>1, <2>2, SamePhases
<1>2. CASE Proceed
  BY <1>2, PhasePending, PhaseEvaluation, PhaseStatus DEF Proceed
<1>3. CASE Fault
  BY <1>3, PhaseEvaluation, PhaseStatus, PhaseElsewhere DEF Fault
<1> QED
  BY <1>1, <1>2, <1>3, PhaseStart, PhaseElsewhere DEF Next

\* An evaluated policy is never Pending again, although the initial phase is
\* set on a copy that may be old (crashlooppolicy_controller.go:62-69,
\* helpers.go:25-33).
THEOREM PhaseStaysActive == Spec => PhaseNeverRegresses
<1>1. Init => PhasesInOrder /\ PlaceSuitsPhase
  <2> SUFFICES ASSUME Init
               PROVE  PhasesInOrder /\ PlaceSuitsPhase
    OBVIOUS
  <2>1. pass.at = "idle"
    BY DEF Init, NoPass
  <2>2. \A p \in Policies : policies[p] = <<[gen |-> 1, status |-> NewStatus]>>
    BY DEF Init
  <2>3. ~Evaluated([gen |-> 1, status |-> NewStatus])
    BY PhasesDiffer DEF Evaluated, NewStatus
  <2>4. PhasesInOrder
    BY <2>2, <2>3 DEF PhasesInOrder, InOrder, NoneEvaluated
  <2> QED
    BY <2>1, <2>4 DEF PlaceSuitsPhase
<1>2. TypeOK /\ PhasesInOrder /\ PlaceSuitsPhase /\ [Next]_vars
        => [\A p \in Policies :
              Live(policies[p]).status.phase = "Active"
                => Live(policies'[p]).status.phase = "Active"]_vars
  BY PhaseStays DEF PhasesKept, Evaluated
<1> QED
  BY <1>1, <1>2, TypeStarts, TypeStays, PhaseStays, PTL DEF Spec, PhaseNeverRegresses
=============================================================================
