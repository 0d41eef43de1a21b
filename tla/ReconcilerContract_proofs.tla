---------------------- MODULE ReconcilerContract_proofs ----------------------
(***************************************************************************)
(* Reconciler implements StatusContract, for any policies, generations,    *)
(* workloads, scopes, caps and attempts, and for any number of faults and  *)
(* of events outside.                                                      *)
(***************************************************************************)
EXTENDS Reconciler_proofs

-----------------------------------------------------------------------------
(* What was observed is not newer than what the cache shows, the cache is not *)
(* newer than the live object, and the evaluation works between the two.      *)

GensInOrder(line) ==
    /\ \A i, j \in 1..Len(line) : i <= j => line[i].gen <= line[j].gen
    /\ \A i \in 1..Len(line) : line[i].status.observed <= Cached(line).gen

LinesInOrder == \A p \in Policies : GensInOrder(policies[p])

\* What an evaluation knows of its policy: its generation, and that a draft it
\* made of the live object differs from it by this evaluation only.
PassKnows ==
    LET live == Live(policies[pass.policy])
    IN  /\ pass.at # "idle" => /\ pass.gen <= Cached(policies[pass.policy]).gen
                               /\ live.status.observed <= pass.gen
        /\ pass.at = "pendingPut" /\ pass.fresh =>
             pass.draft = [gen |-> live.gen, status |-> [live.status EXCEPT !.phase = "Pending"]]
        /\ pass.at = "statusPut" /\ pass.fresh =>
             /\ pass.draft.gen = live.gen
             /\ pass.draft.status.observed = pass.gen
             /\ pass.draft.status.counter =
                  (live.status.counter + pass.scaledDown) % CounterSize

Known == TypeOK /\ LinesInOrder /\ PassKnows /\ PhasesInOrder /\ PlaceSuitsPhase

\* Generations are numbers, the observed ones and the counters too.
LEMMA VersionNumbers ==
    ASSUME NEW v \in PolicyVersion
    PROVE  /\ v.gen \in Nat /\ v.gen >= 1 /\ v.status \in Status
           /\ v.status.observed \in Nat /\ v.status.counter \in Nat
<1>1. v.gen \in Generations /\ v.status \in Status
  BY DEF PolicyVersion
<1>2. v.status.observed \in Generations \cup {0} /\ v.status.counter \in 0..(CounterSize - 1)
  BY <1>1, Zenon DEF Status
<1>3. \A g \in Generations : g \in Nat /\ g >= 1
  BY ReconcilerAssumption DEF Generations
<1> QED
  BY <1>1, <1>2, <1>3, WorkloadsAreFinite

\* The initial phase is all that a first draft changes.
LEMMA PendingFields ==
    ASSUME NEW s \in Status
    PROVE  LET t == [s EXCEPT !.phase = "Pending"]
           IN  /\ t.phase = "Pending" /\ t.observed = s.observed
               /\ t.counter = s.counter /\ t.active = s.active
BY DEF Status

\* How a history changes whose generations are in order.
LEMMA GensGrow ==
    ASSUME NEW line \in Seq(PolicyVersion) \ {<<>>}, NEW v \in PolicyVersion, GensInOrder(line),
           Live(line).gen <= v.gen, v.status.observed <= Cached(line).gen
    PROVE  GensInOrder(Append(line, v))
<1> DEFINE next == Append(line, v)
<1>1. /\ Len(next) = Len(line) + 1 /\ Len(line) \in Nat \ {0}
      /\ \A i \in 1..Len(line) : next[i] = line[i]
      /\ next[Len(line) + 1] = v /\ Cached(next) = Cached(line)
  BY LineGrows
<1> HIDE DEF next
<1>2. \A i \in 1..(Len(line) + 1) : i \in 1..Len(line) \/ i = Len(line) + 1
  BY <1>1
<1>3. \A i \in 1..Len(line) : line[i] \in PolicyVersion
  OBVIOUS
<1>4. ASSUME NEW i \in 1..Len(line)
      PROVE  line[i].gen <= v.gen
  <2>1. i <= Len(line) /\ Len(line) \in 1..Len(line)
    BY <1>1
  <2>2. line[i].gen <= Live(line).gen
    BY <2>1 DEF GensInOrder, Live
  <2>3. line[i].gen \in Nat /\ Live(line).gen \in Nat /\ v.gen \in Nat
    BY <1>3, LineEnds, VersionNumbers
  <2> QED
    BY <2>2, <2>3
<1>5. v.gen <= v.gen
  BY VersionNumbers
<1>6. ASSUME NEW i \in 1..Len(next), NEW j \in 1..Len(next), i <= j
      PROVE  next[i].gen <= next[j].gen
  <2>1. CASE j \in 1..Len(line)
    <3>1. i \in 1..Len(line)
      BY <1>1, <1>6, <2>1
    <3> QED
      BY <1>1, <1>6, <2>1, <3>1 DEF GensInOrder
  <2>2. CASE j = Len(line) + 1
    <3>1. i \in 1..Len(line) => next[i].gen <= v.gen
      BY <1>1, <1>4
    <3>2. i = Len(line) + 1 => next[i] = v
      BY <1>1
    <3>3. i \in 1..Len(line) \/ i = Len(line) + 1
      BY <1>1, <1>2
    <3> QED
      BY <1>1, <1>5, <2>2, <3>1, <3>2, <3>3
  <2>3. j \in 1..Len(line) \/ j = Len(line) + 1
    BY <1>1, <1>2
  <2> QED
    BY <2>1, <2>2, <2>3
<1>7. ASSUME NEW i \in 1..Len(next)
      PROVE  next[i].status.observed <= Cached(next).gen
  <2>1. i \in 1..Len(line) \/ i = Len(line) + 1
    BY <1>1, <1>2
  <2> QED
    BY <1>1, <2>1 DEF GensInOrder
<1> QED
  BY <1>6, <1>7 DEF GensInOrder, next

\* What the order says of the ends of a history, and a shorter history.
LEMMA GensEnds ==
    ASSUME NEW line \in Seq(PolicyVersion) \ {<<>>}, GensInOrder(line)
    PROVE  /\ Cached(line).gen <= Live(line).gen
           /\ Live(line).status.observed <= Cached(line).gen
           /\ GensInOrder(<<Live(line)>>)
           /\ Len(line) > 1 => /\ GensInOrder(Tail(line))
                               /\ Cached(line).gen <= Cached(Tail(line)).gen
<1>1. /\ Len(line) \in Nat \ {0} /\ 1 \in 1..Len(line) /\ Len(line) \in 1..Len(line)
      /\ Cached(line) \in PolicyVersion /\ Live(line) \in PolicyVersion
  BY LineEnds
<1>2. Cached(line).gen <= Live(line).gen
  BY <1>1 DEF GensInOrder, Cached, Live
<1>3. Live(line).status.observed <= Cached(line).gen
  BY <1>1 DEF GensInOrder, Live
<1>4. GensInOrder(<<Live(line)>>)
  <2>1. /\ Live(line).gen \in Nat /\ Cached(line).gen \in Nat
        /\ Live(line).status.observed \in Nat
    BY <1>1, VersionNumbers
  <2>2. Live(line).status.observed <= Live(line).gen /\ Live(line).gen <= Live(line).gen
    BY <1>2, <1>3, <2>1
  <2> DEFINE v == Live(line)
  <2>3. Len(<<v>>) = 1 /\ <<v>>[1] = v /\ Cached(<<v>>) = v
    BY DEF Cached
  <2> HIDE DEF v
  <2>4. \A i \in 1..1 : i = 1
    OBVIOUS
  <2> QED
    BY <2>2, <2>3, <2>4 DEF GensInOrder, v
<1>5. ASSUME Len(line) > 1
      PROVE  GensInOrder(Tail(line)) /\ Cached(line).gen <= Cached(Tail(line)).gen
  <2> DEFINE next == Tail(line)
  <2>1. /\ Len(next) = Len(line) - 1 /\ next \in Seq(PolicyVersion) \ {<<>>}
        /\ \A i \in 1..Len(next) : next[i] = line[i + 1]
    BY <1>5, LineShrinks
  <2> HIDE DEF next
  <2>2. \A i \in 1..Len(next) : i + 1 \in 1..Len(line)
    BY <1>1, <2>1
  <2>3. Cached(next) = line[2] /\ 2 \in 1..Len(line) /\ 1 <= 2
    BY <1>1, <1>5, <2>1 DEF Cached
  <2>4. Cached(line).gen <= Cached(next).gen
    BY <1>1, <2>3 DEF GensInOrder, Cached
  <2>5. Cached(next).gen \in Nat /\ Cached(line).gen \in Nat
    BY <1>1, <2>1, LineEnds, VersionNumbers
  <2>6. ASSUME NEW i \in 1..Len(next)
        PROVE  next[i].status.observed <= Cached(next).gen
    <3>1. line[i + 1].status.observed <= Cached(line).gen /\ line[i + 1] \in PolicyVersion
      BY <2>2 DEF GensInOrder
    <3>2. line[i + 1].status.observed \in Nat
      BY <3>1, VersionNumbers
    <3> QED
      BY <2>1, <2>4, <2>5, <3>1, <3>2
  <2>7. ASSUME NEW i \in 1..Len(next), NEW j \in 1..Len(next), i <= j
        PROVE  next[i].gen <= next[j].gen
    <3>1. i + 1 \in 1..Len(line) /\ j + 1 \in 1..Len(line) /\ i + 1 <= j + 1
      BY <1>1, <2>1, <2>2, <2>7
    <3> QED
      BY <2>1, <3>1 DEF GensInOrder
  <2> QED
    BY <2>4, <2>6, <2>7 DEF GensInOrder, next
<1> QED
  BY <1>2, <1>3, <1>4, <1>5

\* The history of one policy.
LEMMA KnownLine ==
    ASSUME TypeOK, LinesInOrder, NEW p \in Policies
    PROVE  /\ policies[p] \in Seq(PolicyVersion) \ {<<>>} /\ GensInOrder(policies[p])
           /\ Cached(policies[p]) \in PolicyVersion /\ Live(policies[p]) \in PolicyVersion
           /\ Cached(policies[p]).gen <= Live(policies[p]).gen
           /\ Live(policies[p]).status.observed <= Cached(policies[p]).gen
           /\ Len(policies[p]) = 1 => Cached(policies[p]) = Live(policies[p])
<1>1. policies[p] \in Seq(PolicyVersion) \ {<<>>} /\ GensInOrder(policies[p])
  BY DEF TypeOK, LinesInOrder
<1>2. Len(policies[p]) = 1 => Cached(policies[p]) = Live(policies[p])
  BY DEF Cached, Live
<1> QED
  BY <1>1, <1>2, GensEnds, LineEnds

-----------------------------------------------------------------------------
(* The steps, by what they do to the policies.                                *)

\* A step that writes no policy, and after which the evaluation has no draft.
LEMMA KnowsMiddle ==
    ASSUME LinesInOrder, PassKnows, policies' = policies,
           pass'.at \notin {"pendingPut", "statusPut"},
           pass'.at # "idle" =>
             pass.at # "idle" /\ pass'.policy = pass.policy /\ pass'.gen = pass.gen
    PROVE  LinesInOrder' /\ PassKnows'
BY DEF LinesInOrder, GensInOrder, PassKnows, Cached, Live

\* An evaluation that is over knows nothing.
LEMMA KnowsNothing ==
    ASSUME pass' = NoPass
    PROVE  PassKnows'
<1>1. pass'.at = "idle"
  BY DEF NoPass
<1> QED
  BY <1>1 DEF PassKnows

\* The policies stay as they are.
LEMMA SameGens ==
    ASSUME LinesInOrder, policies' = policies
    PROVE  LinesInOrder'
BY DEF LinesInOrder, GensInOrder, Cached

\* The start of an evaluation.
LEMMA KnowsStart ==
    ASSUME Known, NEW p \in Policies, Start(p)
    PROVE  LinesInOrder' /\ PassKnows'
<1>1. policies' = policies /\ pass'.policy = p /\ pass'.gen = Cached(policies[p]).gen
      /\ pass'.at \notin {"pendingPut", "statusPut"}
  BY DEF Start, NoPass
<1>2. /\ Cached(policies[p]).gen <= Cached(policies[p]).gen
      /\ Live(policies[p]).status.observed <= Cached(policies[p]).gen
  BY KnownLine, VersionNumbers DEF Known
<1> QED
  BY <1>1, <1>2, SameGens DEF Known, PassKnows, Cached, Live

\* Copies are read: the drafts.
LEMMA KnowsDraft ==
    ASSUME Known, PendingGet \/ (StatusGet /\ pass' # NoPass)
    PROVE  LinesInOrder' /\ PassKnows'
<1> DEFINE line == policies[pass.policy]
<1>1. pass \in Pass /\ pass.policy \in Policies /\ pass.at # "idle"
  BY DEF Known, TypeOK, PendingGet, StatusGet
<1>2. /\ Cached(line).gen <= Cached(line).gen
      /\ Live(line).status.observed <= Cached(line).gen
      /\ Len(line) = 1 => Cached(line) = Live(line)
      /\ Cached(line) \in PolicyVersion
  BY <1>1, KnownLine, VersionNumbers DEF Known
<1>3. CASE PendingGet
  <2> DEFINE s == [Cached(line).status EXCEPT !.phase = "Pending"]
  <2>1. pass' = [Draft("pendingPut", s) EXCEPT !.gen = Cached(line).gen] /\ policies' = policies
    BY <1>3 DEF PendingGet
  <2>2. Len(line) = 1 => s = [Live(line).status EXCEPT !.phase = "Pending"]
    BY <1>2
  <2>3. s \in Status
    BY <1>1, <1>2, CachedIsVersion, MutatedIsStatus DEF Known
  <2> HIDE DEF s
  <2>4. Draft("pendingPut", s) \in Pass /\ Cached(line).gen \in Generations
    BY <1>1, <1>2, <2>3, DraftIsTyped DEF Known, PolicyVersion
  <2>5. /\ Draft("pendingPut", s).at = "pendingPut"
        /\ Draft("pendingPut", s).policy = pass.policy
        /\ Draft("pendingPut", s).draft = [gen |-> Cached(line).gen, status |-> s]
        /\ Draft("pendingPut", s).fresh = (Len(line) = 1)
    BY <1>1 DEF Draft, Pass
  <2>6. /\ pass'.at = "pendingPut" /\ pass'.policy = pass.policy
        /\ pass'.gen = Cached(line).gen
        /\ pass'.draft = [gen |-> Cached(line).gen, status |-> s]
        /\ pass'.fresh = (Len(line) = 1)
    BY <2>1, <2>4, <2>5 DEF Pass
  <2>7. Live(policies[pass.policy])' = Live(line) /\ Cached(policies[pass.policy])' = Cached(line)
    BY <2>1, <2>6 DEF Cached, Live
  <2>8. pass'.draft = [gen |-> Live(line).gen, status |-> [Live(line).status EXCEPT !.phase = "Pending"]]
        \/ ~pass'.fresh
    BY <1>2, <2>2, <2>6
  <2>9. PassKnows'
    BY <1>2, <2>6, <2>7, <2>8 DEF PassKnows
  <2> QED
    BY <2>1, <2>9, SameGens DEF Known
<1>4. CASE StatusGet /\ pass' # NoPass
  <2> DEFINE new == Mutated(Cached(line).status)
  <2>1. pass' = Draft("statusPut", new) /\ policies' = policies
    BY <1>4 DEF StatusGet, Finish
  <2>2. new.observed = pass.gen
        /\ new.counter = (Cached(line).status.counter + pass.scaledDown) % CounterSize
    BY DEF Mutated
  <2> HIDE DEF new
  <2>3. /\ pass'.at = "statusPut" /\ pass'.policy = pass.policy /\ pass'.gen = pass.gen
        /\ pass'.scaledDown = pass.scaledDown
        /\ pass'.draft = [gen |-> Cached(line).gen, status |-> new]
        /\ pass'.fresh = (Len(line) = 1)
    BY <1>1, <2>1 DEF Draft, Pass
  <2>4. pass.gen <= Cached(line).gen /\ Live(line).status.observed <= pass.gen
    BY <1>1 DEF Known, PassKnows
  <2>5. Live(policies[pass.policy])' = Live(line) /\ Cached(policies[pass.policy])' = Cached(line)
    BY <2>1, <2>3 DEF Cached, Live
  <2>6. pass'.draft.gen = Cached(line).gen /\ pass'.draft.status = new
    BY <2>3
  <2>7. pass'.fresh => Cached(line) = Live(line)
    BY <1>2, <2>3
  <2>8. PassKnows'
    BY <2>2, <2>3, <2>4, <2>5, <2>6, <2>7 DEF PassKnows
  <2> QED
    BY <2>1, <2>8, SameGens DEF Known
<1> QED
  BY <1>3, <1>4

\* One history changes to one that is in order.
LEMMA OtherLines ==
    ASSUME TypeOK, LinesInOrder, NEW p \in Policies, NEW next,
           policies' = [policies EXCEPT ![p] = next], GensInOrder(next)
    PROVE  /\ policies'[p] = next
           /\ \A q \in Policies \ {p} : policies'[q] = policies[q]
           /\ LinesInOrder'
<1>1. policies'[p] = next /\ \A q \in Policies \ {p} : policies'[q] = policies[q]
  BY DEF TypeOK
<1>2. ASSUME NEW q \in Policies
      PROVE  GensInOrder(policies'[q])
  BY <1>1 DEF LinesInOrder
<1> QED
  BY <1>1, <1>2 DEF LinesInOrder, GensInOrder, Cached

\* The draft of a live object is stored, and the board shows it.
LEMMA StoreOnBoard ==
    ASSUME Known, pass.policy \in Policies, pass.at \in {"pendingPut", "statusPut"}, pass.fresh,
           Store(pass.draft)
    PROVE  /\ policies' = [policies EXCEPT ![pass.policy] = Append(@, pass.draft)]
           /\ LinesInOrder'
           /\ Live(policies'[pass.policy]) = pass.draft
           /\ Cached(policies'[pass.policy]) = Cached(policies[pass.policy])
           /\ \A q \in Policies \ {pass.policy} : policies'[q] = policies[q]
<1> DEFINE line == policies[pass.policy]
           next == Append(line, pass.draft)
<1>1. /\ line \in Seq(PolicyVersion) \ {<<>>} /\ GensInOrder(line)
      /\ Cached(line) \in PolicyVersion /\ Live(line) \in PolicyVersion
      /\ Live(line).status.observed <= Cached(line).gen
  BY KnownLine DEF Known
<1>2. pass.draft \in PolicyVersion
  BY DEF Known, TypeOK, Pass
<1>3. pass.draft.gen = Live(line).gen /\ pass.draft.status.observed <= Cached(line).gen
  <2>1. CASE pass.at = "pendingPut"
    <3>1. pass.draft = [gen |-> Live(line).gen,
                        status |-> [Live(line).status EXCEPT !.phase = "Pending"]]
      BY <2>1 DEF Known, PassKnows
    <3>2. pass.draft.status.observed = Live(line).status.observed
      <4> DEFINE s == Live(line).status
      <4>1. s \in Status
        BY <1>1, VersionNumbers
      <4>2. pass.draft.status = [s EXCEPT !.phase = "Pending"]
        BY <3>1
      <4> HIDE DEF s
      <4>3. pass.draft.status.observed = s.observed
        BY <4>1, <4>2, PendingFields
      <4> QED
        BY <4>3 DEF s
    <3> QED
      BY <1>1, <3>1, <3>2
  <2>2. CASE pass.at = "statusPut"
    BY <2>2 DEF Known, PassKnows
  <2> QED
    BY <2>1, <2>2
<1>4. Live(line).gen <= pass.draft.gen
  BY <1>1, <1>3, VersionNumbers
<1>5. GensInOrder(next)
  BY <1>1, <1>2, <1>3, <1>4, GensGrow
<1>6. Live(next) = pass.draft /\ Cached(next) = Cached(line)
  BY <1>1, <1>2, LineGrows
<1>7. policies' = [policies EXCEPT ![pass.policy] = next]
  BY DEF Store
<1> HIDE DEF next
<1>8. /\ policies'[pass.policy] = next
      /\ \A q \in Policies \ {pass.policy} : policies'[q] = policies[q]
      /\ LinesInOrder'
  BY <1>5, <1>7, OtherLines DEF Known
<1> QED
  BY <1>6, <1>7, <1>8 DEF next

\* A draft is stored, and the evaluation goes on or is over.
LEMMA KnowsStored ==
    ASSUME Known, PendingPut \/ StatusPut \/ StatusAnswerLost
    PROVE  LinesInOrder' /\ PassKnows'
<1>1. /\ pass \in Pass /\ pass.policy \in Policies /\ pass.at \in {"pendingPut", "statusPut"}
      /\ pass.fresh /\ Store(pass.draft)
  BY DEF Known, TypeOK, PendingPut, StatusPut, StatusAnswerLost
<1>2. /\ LinesInOrder' /\ Live(policies'[pass.policy]) = pass.draft
      /\ Cached(policies'[pass.policy]) = Cached(policies[pass.policy])
  BY <1>1, StoreOnBoard
<1>3. CASE StatusPut \/ StatusAnswerLost
  BY <1>2, <1>3, KnowsNothing DEF StatusPut, StatusAnswerLost, Finish
<1>4. CASE PendingPut
  <2>1. pass.at = "pendingPut" /\ pass' = [pass EXCEPT !.at = "list", !.tries = 0]
    BY <1>4 DEF PendingPut
  <2>2. pass'.at = "list" /\ pass'.policy = pass.policy /\ pass'.gen = pass.gen
    BY <1>1, <2>1 DEF Pass
  <2>3. pass.draft.status.observed = Live(policies[pass.policy]).status.observed
    <3> DEFINE s == Live(policies[pass.policy]).status
    <3>1. s \in Status
      BY <1>1, KnownLine, VersionNumbers DEF Known
    <3>2. pass.draft.status = [s EXCEPT !.phase = "Pending"]
      BY <1>1, <2>1 DEF Known, PassKnows
    <3> HIDE DEF s
    <3>3. pass.draft.status.observed = s.observed
      BY <3>1, <3>2, PendingFields
    <3> QED
      BY <3>3 DEF s
  <2>4. pass.gen <= Cached(policies[pass.policy]).gen
        /\ Live(policies[pass.policy]).status.observed <= pass.gen
    BY <2>1 DEF Known, PassKnows
  <2>5. Live(policies[pass.policy])' = pass.draft
        /\ Cached(policies[pass.policy])' = Cached(policies[pass.policy])
    BY <1>2, <2>2 DEF Live, Cached
  <2>6. PassKnows'
    BY <2>2, <2>3, <2>4, <2>5 DEF PassKnows
  <2> QED
    BY <1>2, <2>6
<1> QED
  BY <1>3, <1>4

\* A conflict or a failure ends the evaluation or leads back to a read.
LEMMA KnowsConflict ==
    ASSUME Known, PendingConflict \/ StatusConflict \/ CallFails \/ (StatusGet /\ pass' = NoPass)
    PROVE  LinesInOrder' /\ PassKnows'
<1>1. pass \in Pass /\ policies' = policies /\ LinesInOrder'
  BY SameGens DEF Known, TypeOK, PendingConflict, StatusConflict, CallFails, StatusGet
<1>2. CASE pass' = NoPass
  BY <1>1, <1>2, KnowsNothing
<1>3. CASE pass' # NoPass
  <2>1. PendingConflict \/ StatusConflict
    BY <1>3 DEF CallFails, Finish
  <2>2. /\ pass'.at \in {"pendingGet", "statusGet"} /\ pass.at # "idle"
        /\ pass'.policy = pass.policy /\ pass'.gen = pass.gen
    BY <1>1, <1>3, <2>1 DEF PendingConflict, StatusConflict, RetryFrom, Finish, Pass
  <2> QED
    BY <1>1, <2>2, KnowsMiddle DEF Known
<1> QED
  BY <1>2, <1>3

\* The loop and the lists.
LEMMA KnowsEvaluation ==
    ASSUME Known,
           \/ List \/ LoopEnds
           \/ \E w \in Workloads : LeaveAlone(w) \/ Rehearse(w) \/ Approach(w)
           \/ Record \/ Stop \/ Suspend \/ WorkloadConflict
           \/ WorkloadFails \/ StopAnswerLost
           \/ ListKind \/ Collected \/ ListKindFails
    PROVE  LinesInOrder' /\ PassKnows' /\ policies' = policies
<1> DEFINE Goal == LinesInOrder' /\ PassKnows' /\ policies' = policies
<1>1. pass \in Pass /\ LinesInOrder /\ PassKnows
  BY DEF Known, TypeOK
<1>2. CASE List \/ LoopEnds
  BY <1>1, <1>2, KnowsMiddle DEF List, LoopEnds, Loops, Pass
<1>3. ASSUME NEW w \in Workloads, LeaveAlone(w) \/ Approach(w)
      PROVE  Goal
  BY <1>1, <1>3, KnowsMiddle DEF LeaveAlone, Approach, Loops, Pass
<1>4. ASSUME NEW w \in Workloads, Rehearse(w)
      PROVE  Goal
  BY <1>1, <1>4, KnowsMiddle DEF Rehearse, Acted, Loops, Pass
<1>5. CASE Record \/ Stop \/ Suspend \/ WorkloadConflict \/ WorkloadFails \/ StopAnswerLost
  <2>1. policies' = policies /\ pass.at \in {"loop", "act", "stop"}
    BY <1>5 DEF Record, Stop, Suspend, WorkloadConflict, WorkloadFails, StopAnswerLost, Acts
  <2>2. pass'.at \in {"loop", "act", "stop"} /\ pass'.policy = pass.policy /\ pass'.gen = pass.gen
    BY <1>1, <1>5, PassInTheLoop
  <2> QED
    BY <1>1, <2>1, <2>2, KnowsMiddle
<1>6. CASE ListKind \/ Collected \/ ListKindFails
  BY <1>1, <1>6, KnowsMiddle DEF ListKind, Collected, ListKindFails, Collects, Pass
<1> QED
  BY <1>2, <1>3, <1>4, <1>5, <1>6

\* A history other than the one under evaluation, or none, changes; or its live
\* version and its order stay.
LEMMA KnowsElsewhere ==
    ASSUME Known,
           \/ Crash \/ Outside
           \/ \E p \in Policies : PolicySync(p) \/ TimerFires(p)
           \/ \E w \in Workloads : WorkloadSync(w) \/ PodsGone(w)
    PROVE  LinesInOrder' /\ PassKnows'
<1>1. pass \in Pass /\ (pass.at # "idle" => pass.policy \in Policies) /\ LinesInOrder /\ TypeOK
  BY DEF Known, TypeOK
<1>2. CASE policies' = policies /\ ~Crash
  <2>1. pass' = pass \/ pass' = [pass EXCEPT !.fresh = FALSE]
    BY <1>2, OutsideThePass, Zenon
  <2>2. /\ pass'.at = pass.at /\ pass'.policy = pass.policy /\ pass'.draft = pass.draft
        /\ pass'.gen = pass.gen /\ pass'.scaledDown = pass.scaledDown
        /\ pass'.fresh => pass.fresh
    BY <1>1, <2>1 DEF Pass
  <2>3. Live(policies[pass.policy])' = Live(policies[pass.policy])
        /\ Cached(policies[pass.policy])' = Cached(policies[pass.policy])
    BY <1>2, <2>2 DEF Live, Cached
  <2>4. PassKnows'
    BY <2>2, <2>3 DEF Known, PassKnows
  <2> QED
    BY <1>1, <1>2, <2>4, SameGens
<1>3. ASSUME NEW p \in Policies, PolicySync(p)
      PROVE  LinesInOrder' /\ PassKnows'
  <2> DEFINE line == policies[p]
             next == Tail(policies[p])
  <2>1. /\ line \in Seq(PolicyVersion) \ {<<>>} /\ GensInOrder(line) /\ Len(line) > 1
        /\ Cached(line) \in PolicyVersion
    BY <1>1, <1>3, KnownLine DEF PolicySync
  <2>2. /\ GensInOrder(next) /\ Cached(line).gen <= Cached(next).gen
        /\ next \in Seq(PolicyVersion) \ {<<>>} /\ Live(next) = Live(line)
    BY <2>1, GensEnds, LineShrinks
  <2>3. pass' = pass /\ policies' = [policies EXCEPT ![p] = next]
    BY <1>3 DEF PolicySync
  <2>4. Cached(next) \in PolicyVersion
    BY <2>2, LineEnds
  <2> HIDE DEF line, next
  <2>5. policies'[p] = next /\ LinesInOrder'
        /\ \A q \in Policies \ {p} : policies'[q] = policies[q]
    BY <1>1, <2>2, <2>3, OtherLines
  <2>6. PassKnows'
    <3>1. CASE pass.at = "idle"
      BY <2>3, <3>1 DEF PassKnows
    <3>2. CASE pass.at # "idle" /\ pass.policy # p
      <4>1. policies'[pass.policy] = policies[pass.policy]
        BY <1>1, <2>5, <3>2
      <4>2. Live(policies[pass.policy])' = Live(policies[pass.policy])
            /\ Cached(policies[pass.policy])' = Cached(policies[pass.policy])
        BY <2>3, <4>1 DEF Live, Cached
      <4> QED
        BY <2>3, <4>2 DEF Known, PassKnows
    <3>3. CASE pass.at # "idle" /\ pass.policy = p
      <4>1. policies[pass.policy] = line /\ policies'[pass.policy] = next
        BY <2>5, <3>3 DEF line
      <4>2. Live(policies[pass.policy])' = Live(next) /\ Cached(policies[pass.policy])' = Cached(next)
        BY <2>3, <4>1 DEF Live, Cached
      <4>3. Live(policies[pass.policy]) = Live(line) /\ Cached(policies[pass.policy]) = Cached(line)
        BY <4>1
      <4>4. pass.gen <= Cached(line).gen
        BY <3>3, <4>3 DEF Known, PassKnows
      <4>5. pass.gen \in Nat /\ Cached(line).gen \in Nat /\ Cached(next).gen \in Nat
        BY <1>1, <2>1, <2>4, VersionNumbers, ReconcilerAssumption DEF Pass, Generations
      <4>6. pass.gen <= Cached(next).gen
        BY <2>2, <4>4, <4>5
      <4> QED
        BY <2>2, <2>3, <4>2, <4>3, <4>6 DEF Known, PassKnows
    <3> QED
      BY <3>1, <3>2, <3>3
  <2> QED
    BY <2>5, <2>6
<1>4. ASSUME NEW p \in Policies, NEW g \in Generations, UserWrites(p, g)
      PROVE  LinesInOrder' /\ PassKnows'
  <2> DEFINE line == policies[p]
             v == [Live(policies[p]) EXCEPT !.gen = g]
             next == Append(policies[p], v)
  <2>1. /\ line \in Seq(PolicyVersion) \ {<<>>} /\ GensInOrder(line)
        /\ Live(line) \in PolicyVersion /\ Live(line).status.observed <= Cached(line).gen
    BY <1>1, KnownLine
  <2>2. v \in PolicyVersion /\ v.status = Live(line).status /\ v.gen = g
    BY <2>1 DEF PolicyVersion
  <2>3. /\ policies' = [policies EXCEPT ![p] = next]
        /\ pass' = IF pass.policy = p THEN [pass EXCEPT !.fresh = FALSE] ELSE pass
        /\ g \in {Live(line).gen, Live(line).gen + 1}
    BY <1>4 DEF UserWrites
  <2>4. Live(line).gen <= v.gen
    BY <2>1, <2>2, <2>3, VersionNumbers
  <2> HIDE DEF v
  <2>5. GensInOrder(next) /\ Live(next) = v /\ Cached(next) = Cached(line)
    BY <2>1, <2>2, <2>4, GensGrow, LineGrows
  <2> HIDE DEF line, next
  <2>6. policies'[p] = next /\ LinesInOrder'
        /\ \A q \in Policies \ {p} : policies'[q] = policies[q]
    BY <1>1, <2>3, <2>5, OtherLines
  <2>7. PassKnows'
    <3>1. CASE pass.policy = p
      <4>1. /\ pass'.at = pass.at /\ pass'.policy = p /\ pass'.gen = pass.gen
            /\ pass'.fresh = FALSE
        BY <1>1, <2>3, <3>1 DEF Pass
      <4>2. Live(policies[pass.policy])' = v /\ Cached(policies[pass.policy])' = Cached(line)
        <5>1. policies'[pass'.policy] = next
          BY <2>6, <4>1
        <5>2. Live(policies[pass.policy])' = Live(next)
              /\ Cached(policies[pass.policy])' = Cached(next)
          BY <5>1 DEF Live, Cached
        <5> QED
          BY <2>5, <5>2
      <4>3. pass.at # "idle" => pass.gen <= Cached(line).gen /\ Live(line).status.observed <= pass.gen
        BY <3>1 DEF Known, PassKnows, line
      <4> QED
        BY <2>2, <4>1, <4>2, <4>3 DEF PassKnows
    <3>2. CASE pass.policy # p
      <4>1. pass' = pass /\ (pass.at # "idle" => policies'[pass.policy] = policies[pass.policy])
        BY <1>1, <2>3, <2>6, <3>2
      <4>2. pass.at # "idle" => Live(policies[pass.policy])' = Live(policies[pass.policy])
            /\ Cached(policies[pass.policy])' = Cached(policies[pass.policy])
        BY <4>1 DEF Live, Cached
      <4>3. "idle" # "pendingPut" /\ "idle" # "statusPut"
        OBVIOUS
      <4> QED
        BY <4>1, <4>2, <4>3 DEF Known, PassKnows
    <3> QED
      BY <3>1, <3>2
  <2> QED
    BY <2>6, <2>7
<1>5. CASE Crash
  <2>1. policies' = [p \in Policies |-> <<Live(policies[p])>>] /\ pass' = NoPass
    BY <1>5 DEF Crash
  <2>2. ASSUME NEW p \in Policies
        PROVE  GensInOrder(policies'[p])
    <3>1. policies'[p] = <<Live(policies[p])>> /\ GensInOrder(<<Live(policies[p])>>)
      BY <1>1, <2>1, KnownLine, GensEnds
    <3> QED
      BY <3>1
  <2>3. LinesInOrder'
    BY <2>2 DEF LinesInOrder, GensInOrder, Cached
  <2> QED
    BY <2>1, <2>3, KnowsNothing
<1>6. policies' = policies \/ Crash \/ (\E p \in Policies : PolicySync(p))
      \/ (\E p \in Policies, g \in Generations : UserWrites(p, g))
  BY Zenon DEF Outside, PodsChange, OwnerWrites, TimerFires, WorkloadSync, PodsGone
<1> QED
  BY <1>2, <1>3, <1>4, <1>5, <1>6

\* The invariant is inductive.
LEMMA KnownStays == Known /\ [Next]_vars => Known'
<1> SUFFICES ASSUME Known, [Next]_vars
             PROVE  Known'
  OBVIOUS
<1>1. TypeOK' /\ PhasesInOrder' /\ PlaceSuitsPhase'
  BY TypeStays, PhaseStays DEF Known
<1>2. LinesInOrder' /\ PassKnows'
  <2>1. CASE UNCHANGED vars
    <3>1. policies' = policies /\ pass' = pass
      BY <2>1 DEF vars
    <3>2. PassKnows'
      BY <3>1 DEF Known, PassKnows, Live, Cached
    <3> QED
      BY <3>1, <3>2, SameGens DEF Known
  <2>2. CASE StatusGet
    BY <2>2, KnowsDraft, KnowsConflict
  <2>3. CASE Proceed /\ ~StatusGet
    BY <2>3, KnowsDraft, KnowsStored, KnowsConflict, KnowsEvaluation DEF Proceed
  <2>4. CASE Fault
    BY <2>4, KnowsStored, KnowsConflict, KnowsEvaluation, KnowsElsewhere DEF Fault
  <2> QED
    BY <2>1, <2>2, <2>3, <2>4, KnowsStart, KnowsElsewhere DEF Next
<1> QED
  BY <1>1, <1>2 DEF Known

-----------------------------------------------------------------------------
(* What the reader of a status sees.                                          *)

\* The board after a step that changes at most one policy.
LEMMA BoardChanges ==
    ASSUME NEW p \in Policies, NEW v, Live(policies'[p]) = v,
           \A q \in Policies \ {p} : Live(policies'[q]) = Live(policies[q])
    PROVE  Board' = [Board EXCEPT ![p] = Told(v)]
<1>1. Board' = [q \in Policies |-> Told(Live(policies'[q]))]
  BY DEF Board, Told, Live
<1>2. \A q \in Policies : Told(Live(policies'[q])) = IF q = p THEN Told(v) ELSE Told(Live(policies[q]))
  OBVIOUS
<1> QED
  BY <1>1, <1>2 DEF Board

\* The board stays as long as every live version does.
LEMMA BoardStays ==
    ASSUME \A q \in Policies : Live(policies'[q]) = Live(policies[q])
    PROVE  Board' = Board
<1>1. Board' = [q \in Policies |-> Told(Live(policies'[q]))]
  BY DEF Board, Told, Live
<1> QED
  BY <1>1 DEF Board

\* A step that writes no policy shows nothing new.
LEMMA SameBoard ==
    ASSUME policies' = policies
    PROVE  Board' = Board
BY DEF Board, Told, Live

\* A reported action is one of the contract, or one too many for the history.
LEMMA ReportIsDue ==
    ASSUME TypeOK, pass.policy \in Policies, policies' = policies, Report
    PROVE  [Contract!Next]_<<Board, uncounted>>
<1>1. Board' = Board
  BY SameBoard
<1>2. CASE uncounted[pass.policy] < MaxUncounted
  <2>1. uncounted' = [uncounted EXCEPT ![pass.policy] = @ + 1]
    BY <1>2 DEF Report
  <2> QED
    BY <1>1, <2>1 DEF Contract!Next, Contract!Report
<1>3. CASE ~(uncounted[pass.policy] < MaxUncounted)
  <2>1. uncounted' = uncounted
    BY <1>3 DEF Report, TypeOK
  <2> QED
    BY <1>1, <2>1
<1> QED
  BY <1>2, <1>3

\* The loop and the lists report and do nothing else a reader sees.
LEMMA LoopOnBoard ==
    ASSUME Known,
           \/ List \/ LoopEnds
           \/ \E w \in Workloads : LeaveAlone(w) \/ Rehearse(w) \/ Approach(w)
           \/ Record \/ Stop \/ Suspend \/ WorkloadConflict
           \/ WorkloadFails \/ StopAnswerLost
           \/ ListKind \/ Collected \/ ListKindFails
    PROVE  [Contract!Next]_<<Board, uncounted>>
<1>1. policies' = policies /\ TypeOK
  BY KnowsEvaluation DEF Known
<1>2. CASE uncounted' = uncounted
  BY <1>1, <1>2, SameBoard
<1>3. CASE Stop \/ Suspend
  BY <1>1, <1>3, ReportIsDue DEF Stop, Suspend, TypeOK
<1>4. ASSUME NEW w \in Workloads, Rehearse(w)
      PROVE  [Contract!Next]_<<Board, uncounted>>
  BY <1>1, <1>4, ReportIsDue DEF Rehearse, Loops, TypeOK
<1>5. \/ uncounted' = uncounted \/ Stop \/ Suspend
      \/ \E w \in Workloads : Rehearse(w)
  BY Zenon DEF List, LoopEnds, Loops, LeaveAlone, Approach, Record, WorkloadConflict, WorkloadFails,
            StopAnswerLost, ListKind, Collected, ListKindFails, Collects
<1> QED
  BY <1>2, <1>3, <1>4, <1>5

\* The initial phase greets the policy, or is written a second time.
LEMMA PendingOnBoard ==
    ASSUME Known, PendingPut
    PROVE  [Contract!Next]_<<Board, uncounted>>
<1> DEFINE p == pass.policy
           old == Live(policies[p])
           new == pass.draft
<1>1. /\ p \in Policies /\ pass.at = "pendingPut" /\ pass.fresh /\ Store(new)
      /\ uncounted' = uncounted
  BY DEF PendingPut, Known, TypeOK
<1>2. Live(policies'[p]) = new /\ \A q \in Policies \ {p} : policies'[q] = policies[q]
  BY <1>1, StoreOnBoard
<1>3. \A q \in Policies \ {p} : Live(policies'[q]) = Live(policies[q])
  BY <1>2
<1>4. old \in PolicyVersion /\ old.status \in Status /\ policies[p] \in Seq(PolicyVersion) \ {<<>>}
  BY <1>1, KnownLine, VersionNumbers DEF Known
<1>5. new = [gen |-> old.gen, status |-> [old.status EXCEPT !.phase = "Pending"]]
  BY <1>1 DEF Known, PassKnows
<1>6. old.status.phase \in {"", "Pending"}
  <2>1. NoneEvaluated(policies[p])
    BY <1>1 DEF Known, PlaceSuitsPhase
  <2>2. ~Evaluated(old)
    <3>1. Len(policies[p]) \in 1..Len(policies[p])
      BY <1>4, LineEnds
    <3> QED
      BY <2>1, <3>1 DEF NoneEvaluated, Live
  <2> QED
    BY <1>4, <2>2 DEF Status, Evaluated, NoPhase
<1> HIDE DEF old, new, p
<1>7. Board' = [Board EXCEPT ![p] = Told(new)]
  BY <1>1, <1>2, <1>3, BoardChanges
<1>8. Board[p] = Told(old)
  BY <1>1 DEF Board, old
<1>9. Told(new) = [Told(old) EXCEPT !.phase = "Pending"]
  <2> DEFINE s == old.status
             t == [old.status EXCEPT !.phase = "Pending"]
  <2>1. t.phase = "Pending" /\ t.observed = s.observed /\ t.counter = s.counter /\ t.active = s.active
    BY <1>4, PendingFields
  <2>2. new.gen = old.gen /\ new.status = t
    BY <1>5
  <2> HIDE DEF s, t
  <2>3. s = old.status
    BY DEF s
  <2> QED
    BY <2>1, <2>2, <2>3 DEF Told
<1>10. Board' = [Board EXCEPT ![p].phase = "Pending"]
  BY <1>7, <1>8, <1>9
<1>11. CASE old.status.phase = ""
  <2>1. Board[p].phase = ""
    <3>1. Board[p].phase = old.status.phase
      BY <1>8 DEF Told
    <3> QED
      BY <1>11, <3>1, Zenon
  <2> QED
    BY <1>1, <1>10, <2>1 DEF Contract!Next, Contract!Greet
<1>12. CASE old.status.phase = "Pending"
  <2>1. Board[p] = [Board[p] EXCEPT !.phase = "Pending"]
    BY <1>8, <1>12 DEF Told
  <2>2. Board' = Board
    BY <1>10, <2>1 DEF Board
  <2> QED
    BY <1>1, <2>2
<1> QED
  BY <1>6, <1>11, <1>12

\* The status is published.
LEMMA StatusOnBoard ==
    ASSUME Known, Fits, CountedOnce, FoundInScope, StatusPut \/ StatusAnswerLost
    PROVE  [Contract!Next]_<<Board, uncounted>>
<1> DEFINE p == pass.policy
           old == Live(policies[p])
           new == pass.draft
           listed == Range(new.status.active)
           n == pass.scaledDown
<1>1. /\ p \in Policies /\ pass.at = "statusPut" /\ pass.fresh /\ Store(new)
      /\ uncounted' = [uncounted EXCEPT ![p] = @ - n] /\ pass \in Pass
  BY DEF StatusPut, StatusAnswerLost, Counted, Known, TypeOK
<1>2. Live(policies'[p]) = new /\ \A q \in Policies \ {p} : policies'[q] = policies[q]
  BY <1>1, StoreOnBoard
<1>3. \A q \in Policies \ {p} : Live(policies'[q]) = Live(policies[q])
  BY <1>2
<1>4. /\ new.gen = old.gen /\ new.status.observed = pass.gen /\ new.status.phase = "Active"
      /\ new.status.counter = (old.status.counter + n) % CounterSize
      /\ old.status.phase # "" /\ old.status.observed <= pass.gen
      /\ pass.gen <= Cached(policies[p]).gen
  BY <1>1 DEF Known, PassKnows, PlaceSuitsPhase, Unset, NoPhase
<1>5. pass.gen <= old.gen /\ pass.gen \in Generations /\ pass.gen # 0
  <2>1. Cached(policies[p]).gen <= old.gen /\ Cached(policies[p]) \in PolicyVersion
        /\ old \in PolicyVersion
    BY <1>1, KnownLine DEF Known
  <2>2. pass.gen \in Generations
    BY <1>1 DEF Pass
  <2>3. \A g \in Generations : g \in Nat /\ g # 0
    BY ReconcilerAssumption DEF Generations
  <2>4. Cached(policies[p]).gen \in Nat /\ old.gen \in Nat
    BY <2>1, VersionNumbers
  <2>5. pass.gen <= Cached(policies[p]).gen
    BY <1>4, Zenon
  <2> QED
    BY <2>1, <2>2, <2>3, <2>4, <2>5
<1>6. n \in 0..uncounted[p]
  <2>1. uncounted[p] >= n /\ n \in Nat /\ uncounted[p] \in Int
    BY <1>1 DEF Known, TypeOK, Pass, CountedOnce
  <2> QED
    BY <2>1
<1>7. listed \in SUBSET Scope[p][pass.gen]
  BY <1>1, <1>4, <1>5 DEF FoundInScope, Honest
<1> HIDE DEF p, old, new, listed, n
<1>8. Board' = [Board EXCEPT ![p] = Told(new)]
  BY <1>1, <1>2, <1>3, BoardChanges
<1>9. Board[p] = Told(old)
  BY <1>1 DEF Board, old
<1>10. /\ Board[p].gen = old.gen /\ Board[p].phase = old.status.phase
       /\ Board[p].observed = old.status.observed /\ Board[p].counter = old.status.counter
  BY <1>9 DEF Told
<1>11. Told(new) = [gen |-> Board[p].gen, phase |-> "Active", observed |-> pass.gen,
                    counter |-> (Board[p].counter + n) % CounterSize, listed |-> listed]
  BY <1>4, <1>10 DEF Told, listed
<1>12. Contract!Publish(p, pass.gen, n, listed)
  <2>1. Board[p].phase # "" /\ Board[p].observed <= pass.gen /\ pass.gen <= Board[p].gen
    BY <1>4, <1>5, <1>10
  <2>2. n <= uncounted[p]
    BY <1>6
  <2>3. Board' = [Board EXCEPT ![p] =
                    [gen |-> @.gen, phase |-> "Active", observed |-> pass.gen,
                     counter |-> (@.counter + n) % CounterSize, listed |-> listed]]
    BY <1>8, <1>11
  <2> QED
    BY <1>1, <2>1, <2>2, <2>3 DEF Contract!Publish
<1> QED
  BY <1>1, <1>5, <1>6, <1>7, <1>12 DEF Contract!Next

\* Users edit policies; watches, crashes and workloads show nothing new.
LEMMA ElsewhereOnBoard ==
    ASSUME Known,
           \/ Crash \/ Outside
           \/ \E p \in Policies : PolicySync(p) \/ TimerFires(p)
           \/ \E w \in Workloads : WorkloadSync(w) \/ PodsGone(w)
    PROVE  [Contract!Next]_<<Board, uncounted>>
<1>1. TypeOK /\ LinesInOrder
  BY DEF Known
<1>2. uncounted' = uncounted
  BY OutsideThePass, Zenon DEF Crash
<1>3. CASE policies' = policies
  BY <1>2, <1>3, SameBoard
<1>4. ASSUME NEW p \in Policies, PolicySync(p)
      PROVE  [Contract!Next]_<<Board, uncounted>>
  <2>1. policies[p] \in Seq(PolicyVersion) /\ Len(policies[p]) > 1
        /\ policies' = [policies EXCEPT ![p] = Tail(@)]
    BY <1>1, <1>4, KnownLine DEF PolicySync
  <2>2. Live(Tail(policies[p])) = Live(policies[p])
    BY <2>1, LineShrinks
  <2>3. \A q \in Policies : policies'[q] = IF q = p THEN Tail(policies[q]) ELSE policies[q]
    BY <1>1, <2>1 DEF TypeOK
  <2>4. \A q \in Policies : Live(policies'[q]) = Live(policies[q])
    BY <2>2, <2>3
  <2> QED
    BY <1>2, <2>4, BoardStays
<1>5. CASE Crash
  <2>1. \A q \in Policies : policies'[q] = <<Live(policies[q])>>
    BY <1>5 DEF Crash
  <2>2. ASSUME NEW q \in Policies
        PROVE  Live(policies'[q]) = Live(policies[q])
    BY <1>1, <2>1, CachedIsVersion, OneVersion
  <2> QED
    BY <1>2, <2>2, BoardStays
<1>6. ASSUME NEW p \in Policies, NEW g \in Generations, UserWrites(p, g)
      PROVE  [Contract!Next]_<<Board, uncounted>>
  <2> DEFINE old == Live(policies[p])
             new == [old EXCEPT !.gen = g]
             next == Append(policies[p], new)
  <2>1. old \in PolicyVersion /\ policies[p] \in Seq(PolicyVersion) \ {<<>>}
    BY <1>1, KnownLine
  <2>2. new \in PolicyVersion /\ new.gen = g /\ new.status = old.status
    BY <2>1 DEF PolicyVersion
  <2>3. policies' = [policies EXCEPT ![p] = next] /\ g \in {old.gen, old.gen + 1}
    BY <1>6 DEF UserWrites
  <2> HIDE DEF new
  <2>4. Live(next) = new
    BY <2>1, <2>2, LineGrows
  <2> HIDE DEF next
  <2>5. policies'[p] = next /\ \A q \in Policies \ {p} : policies'[q] = policies[q]
    BY <1>1, <2>3 DEF TypeOK
  <2>6. Live(policies'[p]) = new /\ \A q \in Policies \ {p} : Live(policies'[q]) = Live(policies[q])
    BY <2>4, <2>5
  <2>7. Board' = [Board EXCEPT ![p] = Told(new)]
    BY <2>6, BoardChanges
  <2> HIDE DEF old
  <2>8. Board[p] = Told(old)
    BY DEF Board, old
  <2>9. Told(new) = [Told(old) EXCEPT !.gen = g] /\ Told(old).gen = old.gen
    BY <2>2 DEF Told
  <2>10. CASE g = old.gen + 1
    <3>1. Board' = [Board EXCEPT ![p].gen = @ + 1]
      BY <2>7, <2>8, <2>9, <2>10
    <3> QED
      BY <1>2, <3>1 DEF Contract!Next, Contract!Edit
  <2>11. CASE g = old.gen
    <3>1. Told(new) = Told(old)
      BY <2>2, <2>11 DEF Told
    <3>2. Board' = Board
      BY <2>7, <2>8, <3>1 DEF Board
    <3> QED
      BY <1>2, <3>2
  <2> QED
    BY <2>3, <2>10, <2>11
<1>7. policies' = policies \/ Crash \/ (\E p \in Policies : PolicySync(p))
      \/ (\E p \in Policies, g \in Generations : UserWrites(p, g))
  BY Zenon DEF Outside, PodsChange, OwnerWrites, TimerFires, WorkloadSync, PodsGone
<1> QED
  BY <1>3, <1>4, <1>5, <1>6, <1>7

\* Every step is one of the contract, or shows the reader nothing.
LEMMA StepOnBoard ==
    Known /\ Fits /\ CountedOnce /\ FoundInScope /\ [Next]_vars
        => [Contract!Next]_<<Board, uncounted>>
<1> SUFFICES ASSUME Known, Fits, CountedOnce, FoundInScope, [Next]_vars
             PROVE  [Contract!Next]_<<Board, uncounted>>
  OBVIOUS
<1>1. CASE UNCHANGED vars
  BY <1>1, SameBoard DEF vars
<1>2. CASE \/ \E p \in Policies : Start(p)
           \/ PendingGet \/ PendingConflict \/ StatusGet \/ StatusConflict \/ CallFails
  <2>1. policies' = policies /\ uncounted' = uncounted
    BY <1>2 DEF Start, PendingGet, PendingConflict, StatusGet, StatusConflict, CallFails
  <2> QED
    BY <2>1, SameBoard
<1>3. CASE Proceed
  BY <1>2, <1>3, PendingOnBoard, LoopOnBoard, StatusOnBoard DEF Proceed
<1>4. CASE Fault
  BY <1>2, <1>4, LoopOnBoard, StatusOnBoard, ElsewhereOnBoard DEF Fault
<1> QED
  BY <1>1, <1>2, <1>3, <1>4, ElsewhereOnBoard DEF Next

\* The first state: every policy has one version, which says nothing.
FirstVersion == [gen |-> 1, status |-> NewStatus]

LEMMA FirstVersions ==
    ASSUME Init
    PROVE  /\ pass.at = "idle"
           /\ \A p \in Policies :
                /\ Len(policies[p]) = 1 /\ policies[p][1] = FirstVersion
                /\ Live(policies[p]) = FirstVersion /\ Cached(policies[p]) = FirstVersion
           /\ FirstVersion.gen = 1 /\ FirstVersion.status.observed = 0
           /\ FirstVersion.status.phase = "" /\ FirstVersion.status.counter = 0
           /\ FirstVersion.status.active = <<>>
           /\ ~Evaluated(FirstVersion)
<1>1. pass.at = "idle" /\ \A p \in Policies : policies[p] = <<FirstVersion>>
  BY DEF Init, NoPass, FirstVersion
<1>2. /\ FirstVersion.gen = 1 /\ FirstVersion.status.observed = 0
      /\ FirstVersion.status.phase = "" /\ FirstVersion.status.counter = 0
      /\ FirstVersion.status.active = <<>>
  BY DEF FirstVersion, NewStatus, NoPhase
<1>3. ~Evaluated(FirstVersion)
  BY PhasesDiffer DEF Evaluated, FirstVersion, NewStatus
<1>4. /\ Len(<<FirstVersion>>) = 1 /\ <<FirstVersion>>[1] = FirstVersion
      /\ Live(<<FirstVersion>>) = FirstVersion /\ Cached(<<FirstVersion>>) = FirstVersion
  <2>1. FirstVersion \in {FirstVersion}
    OBVIOUS
  <2> QED
    BY <2>1, OneVersion DEF Cached
<1> QED
  BY <1>1, <1>2, <1>3, <1>4

\* What is known then.
LEMMA KnownStarts == Init => Known /\ LinesHonest /\ FoundInScope
<1> SUFFICES ASSUME Init
             PROVE  Known /\ LinesHonest /\ FoundInScope
  OBVIOUS
<1>1. \A i \in 1..1 : i = 1
  OBVIOUS
<1>2. LinesInOrder
  <2>1. FirstVersion.status.observed = 0 /\ FirstVersion.gen = 1
    BY FirstVersions
  <2>2. FirstVersion.status.observed <= FirstVersion.gen /\ FirstVersion.gen <= FirstVersion.gen
    BY <2>1
  <2> QED
    BY <1>1, <2>2, FirstVersions DEF LinesInOrder, GensInOrder
<1>3. PhasesInOrder
  BY <1>1, FirstVersions DEF PhasesInOrder, InOrder, NoneEvaluated
<1>4. LinesHonest
  BY <1>1, FirstVersions DEF LinesHonest, HonestLine, Honest
<1>5. PassKnows /\ PlaceSuitsPhase /\ FoundInScope
  BY FirstVersions DEF PassKnows, PlaceSuitsPhase, FoundInScope
<1> QED
  BY <1>2, <1>3, <1>4, <1>5, TypeStarts DEF Known

\* The reconcile loop implements the contract of a status: whatever lags, fails,
\* conflicts or dies, a reader sees whole evaluations of existing generations in
\* order, whose counts were reported before (crashlooppolicy_controller.go:242-312,
\* helpers.go:25-55).
THEOREM ContractHolds == Spec => ImplementsContract
<1>1. Init => /\ Known /\ Fits /\ CountedOnce /\ FoundInScope /\ LinesHonest
              /\ Contract!Init
  <2> SUFFICES ASSUME Init
               PROVE  /\ Known /\ Fits /\ CountedOnce /\ FoundInScope /\ LinesHonest
                      /\ Contract!Init
    OBVIOUS
  <2>1. Fits /\ CountedOnce
    BY NothingToCount, WorkloadsAreFinite, ReconcilerAssumption DEF Init, Fits, CountedOnce
  <2>2. Contract!Init
    <3>1. Range(<<>>) = {}
      BY DEF Range
    <3>2. Told(FirstVersion)
            = [gen |-> 1, phase |-> "", observed |-> 0, counter |-> 0, listed |-> {}]
      BY <3>1, FirstVersions DEF Told
    <3>3. uncounted = [p \in Policies |-> 0]
      BY DEF Init
    <3> QED
      BY <3>2, <3>3, FirstVersions DEF Contract!Init, Board
  <2> QED
    BY <2>1, <2>2, KnownStarts
<1>2. Known /\ Fits /\ CountedOnce /\ FoundInScope /\ LinesHonest /\ [Next]_vars
        => Fits' /\ CountedOnce' /\ FoundInScope' /\ LinesHonest'
  BY CountStays, ListStays DEF Known
<1> QED
  BY <1>1, <1>2, KnownStays, StepOnBoard, PTL DEF Spec, ImplementsContract, Contract!Spec
=============================================================================
