-------------------------- MODULE ScaleToZero_proofs --------------------------
(***************************************************************************)
(* Proofs about ScaleToZero, for any number of operator instances and      *)
(* policies, any replica counts, any number of attempts, faults and writes *)
(* of others.                                                              *)
(***************************************************************************)
EXTENDS ScaleToZero, TLAPS

USE DEF Sizes, Writer, Location, Outcome

-----------------------------------------------------------------------------
\* What appending a version does to a log: the old versions keep their places
\* and the new one is the last.
LEMMA AppendFacts ==
    ASSUME NEW S, NEW s \in Seq(S), NEW e \in S
    PROVE  /\ Append(s, e) \in Seq(S)
           /\ Len(Append(s, e)) = Len(s) + 1
           /\ \A i \in 1..Len(s) : Append(s, e)[i] = s[i]
           /\ Append(s, e)[Len(s) + 1] = e
OBVIOUS

\* A version of a log of versions has the fields of a version.
LEMMA VersionFields ==
    ASSUME NEW s \in Seq(Version), NEW i \in 1..Len(s)
    PROVE  /\ s[i] \in Version
           /\ s[i].size \in 0..MaxSize
           /\ s[i].ann \in Annotation \cup {None}
<1>1. s[i] \in Version
  OBVIOUS
<1> QED
  BY <1>1 DEF Version

\* What the operator writes are versions; the record carries annotations, the
\* stop keeps those of the copy and leaves nothing running.
LEMMA WrittenVersions ==
    ASSUME TypeOK, NEW o \in Operators
    PROVE  /\ pc[o] = "annotatePut" => /\ Recorded(o) \in Version
                                       /\ Recorded(o).ann # None
           /\ pc[o] = "scalePut" => /\ Stopped(o) \in Version
                                    /\ Stopped(o).size = 0
                                    /\ Stopped(o).ann = log[copy[o]].ann
                                    /\ Stopped(o).writer = "stop"
<1>1. ASSUME pc[o] = "annotatePut"
      PROVE  Recorded(o) \in Version /\ Recorded(o).ann # None
  <2>1. copy[o] \in 1..Len(log)
    BY <1>1 DEF TypeOK, StoreTypeOK
  <2>2. log[copy[o]].size \in 0..MaxSize
    BY <2>1, VersionFields DEF TypeOK, StoreTypeOK
  <2>3. [by |-> pol[o], prev |-> prev[o]] \in Annotation
    BY <1>1 DEF TypeOK, Annotation
  <2> QED
    BY <2>2, <2>3, StoreAssumption DEF Recorded, Version
<1>2. ASSUME pc[o] = "scalePut"
      PROVE  /\ Stopped(o) \in Version
             /\ Stopped(o).size = 0
             /\ Stopped(o).ann = log[copy[o]].ann
             /\ Stopped(o).writer = "stop"
  <2>1. copy[o] \in 1..Len(log)
    BY <1>2 DEF TypeOK, StoreTypeOK
  <2>2. log[copy[o]] \in Version
    BY <2>1 DEF TypeOK, StoreTypeOK
  <2> QED
    BY <2>2, VersionFields, StoreAssumption DEF Stopped, Version
<1> QED
  BY <1>1, <1>2

-----------------------------------------------------------------------------
\* Every step leaves the log alone or appends one version to it: an external
\* one, the record of a call whose copy is the last version, or its stop.
LEMMA LogGrows ==
    ASSUME TypeOK, [Next]_vars
    PROVE  \/ UNCHANGED log
           \/ \E n \in Sizes :
                /\ n \in ExternalSizes \cup {Latest.size}
                /\ log' = Append(log, [size |-> n, ann |-> Latest.ann, writer |-> "external"])
           \/ \E o \in Operators :
                /\ pc[o] = "annotatePut"
                /\ copy[o] = Len(log)
                /\ log' = Append(log, Recorded(o))
           \/ \E o \in Operators :
                /\ pc[o] = "scalePut"
                /\ copy[o] = Len(log)
                /\ log' = Append(log, Stopped(o))
<1>1. CASE UNCHANGED vars
  BY <1>1 DEF vars
<1>2. CASE Environment
  <2>1. Len(log) \in 1..Len(log)
    BY DEF TypeOK, StoreTypeOK
  <2>2. Latest.size \in Sizes
    BY <2>1, VersionFields DEF TypeOK, StoreTypeOK, Latest
  <2> QED
    BY <1>2, <2>2, StoreAssumption DEF Environment, CacheSync, ExternalWrite
<1>3. CASE \E o \in Operators : \E p \in Policies : Call(o, p)
  BY <1>3 DEF Call, storeVars
<1>4. CASE \E o \in Operators : Proceed(o)
  BY <1>4 DEF Proceed, AnnotateGet, AnnotatePut, AnnotateConflict, ScaleGet,
              ScalePut, ScaleConflict, storeVars, Accepts
<1>5. CASE \E o \in Operators : Fault(o)
  BY <1>5 DEF Fault, FirstReadFails, CallFails, ResponseLost, Crash, storeVars, Accepts
<1> QED
  BY <1>1, <1>2, <1>3, <1>4, <1>5 DEF Next

-----------------------------------------------------------------------------
\* The log stays a log of versions and never gets shorter, whatever happens.
LEMMA LogStaysTyped ==
    ASSUME TypeOK, [Next]_vars
    PROVE  /\ log' \in Seq(Version)
           /\ Len(log') >= Len(log)
           /\ Len(log) \in Nat \ {0}
           /\ \A i \in 1..Len(log) : log'[i] = log[i]
<1>1. log \in Seq(Version) /\ Len(log) \in Nat \ {0} /\ Latest \in Version
  BY DEF TypeOK, StoreTypeOK, Latest
<1>2. CASE UNCHANGED log
  BY <1>1, <1>2
<1>3. ASSUME NEW e \in Version, log' = Append(log, e)
      PROVE  /\ log' \in Seq(Version)
             /\ Len(log') >= Len(log)
             /\ \A i \in 1..Len(log) : log'[i] = log[i]
  BY <1>1, <1>3, AppendFacts
<1>4. ASSUME NEW n \in Sizes
      PROVE  [size |-> n, ann |-> Latest.ann, writer |-> "external"] \in Version
  BY <1>1 DEF Version
<1> QED
  BY <1>1, <1>2, <1>3, <1>4, LogGrows, WrittenVersions

\* The steps of a call that end it, continue it or retry it keep the types of
\* its local variables.
LEMMA LocalsStayTyped ==
    ASSUME TypeOK, NEW o \in Operators, pc[o] # "idle",
           NEW l \in Location, NEW c \in 0..Len(log), NEW n \in Sizes,
           NEW t \in 0..(MaxTries - 1), NEW r \in Outcome,
           l \in {"annotatePut", "scalePut"} => c >= 1,
           \/ Return(o, r)
           \/ Continue(o, l, c, n, t)
    PROVE  /\ pc' \in [Operators -> Location]
           /\ pol' \in [Operators -> Policies \cup {None}]
           /\ copy' \in [Operators -> Nat]
           /\ prev' \in [Operators -> Sizes]
           /\ tries' \in [Operators -> 0..(MaxTries - 1)]
           /\ begin' \in [Operators -> Nat]
           /\ outcome' \in [Operators -> Outcome]
           /\ \A q \in Operators :
                /\ begin'[q] <= Len(log)
                /\ copy'[q] <= Len(log)
                /\ pc'[q] # "idle" => begin'[q] >= 1 /\ pol'[q] \in Policies \ DryRun
                /\ pc'[q] \in {"annotatePut", "scalePut"} => copy'[q] >= 1
<1>1. Len(log) \in Nat /\ MaxTries \in Nat /\ MaxSize \in Nat
  BY StoreAssumption, ScaleAssumption DEF TypeOK, StoreTypeOK
<1> DEFINE Locals ==
           /\ pc \in [Operators -> Location]
           /\ pol \in [Operators -> Policies \cup {None}]
           /\ copy \in [Operators -> 0..Len(log)]
           /\ prev \in [Operators -> Sizes]
           /\ tries \in [Operators -> 0..(MaxTries - 1)]
           /\ begin \in [Operators -> 0..Len(log)]
           /\ outcome \in [Operators -> Outcome]
           /\ \A q \in Operators :
                /\ pc[q] # "idle" => begin[q] >= 1 /\ pol[q] \in Policies \ DryRun
                /\ pc[q] \in {"annotatePut", "scalePut"} => copy[q] >= 1
<1>2. Locals
  BY DEF TypeOK
<1>3. CASE Return(o, r)
  <2>1. 0 \in 0..Len(log) /\ 0 \in Sizes /\ 0 \in 0..(MaxTries - 1)
    BY <1>1, ScaleAssumption
  <2> QED
    BY <1>1, <1>2, <1>3, <2>1 DEF Return, Location
<1>4. CASE Continue(o, l, c, n, t)
  BY <1>1, <1>2, <1>4 DEF Continue
<1> QED
  BY <1>3, <1>4

-----------------------------------------------------------------------------
\* The local variables of every call keep their types in every step.
LEMMA CallsStayTyped ==
    ASSUME TypeOK, [Next]_vars
    PROVE  /\ pc' \in [Operators -> Location]
           /\ pol' \in [Operators -> Policies \cup {None}]
           /\ copy' \in [Operators -> Nat]
           /\ prev' \in [Operators -> Sizes]
           /\ tries' \in [Operators -> 0..(MaxTries - 1)]
           /\ begin' \in [Operators -> Nat]
           /\ outcome' \in [Operators -> Outcome]
           /\ \A q \in Operators :
                /\ begin'[q] <= Len(log)
                /\ copy'[q] <= Len(log)
                /\ pc'[q] # "idle" => begin'[q] >= 1 /\ pol'[q] \in Policies \ DryRun
                /\ pc'[q] \in {"annotatePut", "scalePut"} => copy'[q] >= 1
<1> DEFINE Typed ==
           /\ pc' \in [Operators -> Location]
           /\ pol' \in [Operators -> Policies \cup {None}]
           /\ copy' \in [Operators -> Nat]
           /\ prev' \in [Operators -> Sizes]
           /\ tries' \in [Operators -> 0..(MaxTries - 1)]
           /\ begin' \in [Operators -> Nat]
           /\ outcome' \in [Operators -> Outcome]
           /\ \A q \in Operators :
                /\ begin'[q] <= Len(log)
                /\ copy'[q] <= Len(log)
                /\ pc'[q] # "idle" => begin'[q] >= 1 /\ pol'[q] \in Policies \ DryRun
                /\ pc'[q] \in {"annotatePut", "scalePut"} => copy'[q] >= 1
<1>1. Len(log) \in Nat \ {0} /\ MaxTries \in Nat \ {0} /\ MaxSize \in Nat
  BY StoreAssumption, ScaleAssumption DEF TypeOK, StoreTypeOK
<1>2. ASSUME UNCHANGED <<callVars, faults>>
      PROVE  Typed
  BY <1>1, <1>2 DEF callVars, TypeOK
<1>3. ASSUME NEW o \in Operators, NEW p \in Policies, Call(o, p) \/ FirstReadFails(o, p)
      PROVE  Typed
  <2>1. CASE FirstReadFails(o, p)
    BY <1>1, <2>1 DEF FirstReadFails, TypeOK
  <2>2. CASE Call(o, p)
    <3>1. FirstAnswer(o, p) \in Outcome
      BY DEF FirstAnswer
    <3>2. FirstAnswer(o, p) = "none" => p \notin DryRun
      BY DEF FirstAnswer
    <3> QED
      BY <1>1, <2>2, <3>1, <3>2 DEF Call, TypeOK
  <2> QED
    BY <1>3, <2>1, <2>2
<1>4. ASSUME NEW o \in Operators, pc[o] # "idle", NEW r \in Outcome, Return(o, r)
      PROVE  Typed
  <2>1. "idle" \in Location /\ 0 \in 0..Len(log) /\ 0 \in Sizes /\ 0 \in 0..(MaxTries - 1)
    BY <1>1 DEF Location
  <2> QED
    BY <1>4, <2>1, LocalsStayTyped
<1>5. ASSUME NEW o \in Operators, pc[o] # "idle", NEW l \in Location,
             NEW c \in 0..Len(log), NEW n \in Sizes, NEW t \in 0..(MaxTries - 1),
             l \in {"annotatePut", "scalePut"} => c >= 1,
             Continue(o, l, c, n, t)
      PROVE  Typed
  BY <1>1, <1>5, LocalsStayTyped
<1>6. ASSUME NEW o \in Operators, pc[o] # "idle", NEW l \in {"annotateGet", "scaleGet"},
             RetryFrom(o, l)
      PROVE  Typed
  <2>1. tries[o] \in Nat /\ copy[o] \in 0..Len(log) /\ prev[o] \in Sizes
    BY <1>1 DEF TypeOK
  <2>2. CASE tries[o] + 1 < MaxTries
    <3>1. tries[o] + 1 \in 0..(MaxTries - 1)
      BY <1>1, <2>1, <2>2
    <3>2. Continue(o, l, copy[o], prev[o], tries[o] + 1)
      BY <1>6, <2>2 DEF RetryFrom
    <3> HIDE DEF Typed
    <3> QED
      BY <1>5, <1>6, <2>1, <3>1, <3>2
  <2>3. CASE ~(tries[o] + 1 < MaxTries)
    BY <1>4, <1>6, <2>3 DEF RetryFrom
  <2> QED
    BY <2>2, <2>3
<1>7. ASSUME NEW o \in Operators, Proceed(o)
      PROVE  Typed
  <2>1. /\ seen[o] \in 1..Len(log)
        /\ Cached(o).size \in Sizes
        /\ copy[o] \in 0..Len(log)
        /\ prev[o] \in Sizes
        /\ tries[o] \in 0..(MaxTries - 1)
    BY <1>1, VersionFields DEF TypeOK, StoreTypeOK, Cached
  <2> HIDE DEF Typed
  <2>2. CASE AnnotateGet(o)
    BY <1>1, <1>4, <1>5, <2>1, <2>2 DEF AnnotateGet
  <2>3. CASE AnnotatePut(o)
    BY <1>1, <1>5, <2>1, <2>3 DEF AnnotatePut
  <2>4. CASE AnnotateConflict(o)
    BY <1>6, <2>4 DEF AnnotateConflict
  <2>5. CASE ScaleGet(o)
    BY <1>1, <1>4, <1>5, <2>1, <2>5 DEF ScaleGet
  <2>6. CASE ScalePut(o)
    BY <1>4, <2>6 DEF ScalePut
  <2>7. CASE ScaleConflict(o)
    BY <1>6, <2>7 DEF ScaleConflict
  <2> QED
    BY <1>7, <2>2, <2>3, <2>4, <2>5, <2>6, <2>7 DEF Proceed
<1>8. ASSUME NEW o \in Operators, CallFails(o) \/ ResponseLost(o) \/ Crash(o)
      PROVE  Typed
  <2>1. pc[o] # "idle"
    BY <1>8 DEF CallFails, ResponseLost, Crash
  <2>2. Return(o, "error") \/ Return(o, "none")
    BY <1>8 DEF CallFails, ResponseLost, Crash
  <2> HIDE DEF Typed
  <2> QED
    BY <1>4, <2>1, <2>2
<1> HIDE DEF Typed
<1>9. Typed
  <2>1. CASE UNCHANGED vars
    BY <1>2, <2>1 DEF vars, callVars
  <2>2. CASE Next
    BY <1>2, <1>3, <1>7, <1>8, <2>2 DEF Next, Fault
  <2> QED
    BY <2>1, <2>2
<1> QED
  BY <1>9 DEF Typed

\* Every variable keeps its type: the indices an instance holds are always
\* versions of the log, and a call in progress acts for a policy that is not
\* a dry run.
THEOREM TypeCorrect == Spec => []TypeOK
<1>1. Init => TypeOK
  <2> SUFFICES ASSUME Init
               PROVE  TypeOK
    OBVIOUS
  <2>1. PICK n \in ExternalSizes :
          log = <<[size |-> n, ann |-> None, writer |-> "external"]>>
    BY DEF Init, StoreInit
  <2>2. [size |-> n, ann |-> None, writer |-> "external"] \in Version
    BY StoreAssumption DEF Version
  <2>3. log \in Seq(Version) /\ Len(log) = 1
    BY <2>1, <2>2
  <2> QED
    BY <2>3, StoreAssumption, ScaleAssumption
    DEF Init, StoreInit, TypeOK, StoreTypeOK
<1>2. TypeOK /\ [Next]_vars => TypeOK'
  <2> SUFFICES ASSUME TypeOK, [Next]_vars
               PROVE  TypeOK'
    OBVIOUS
  <2>1. Len(log) \in Nat \ {0} /\ Len(log') \in Nat /\ Len(log') >= Len(log)
    BY LogStaysTyped
  <2>2. /\ seen' \in [Operators -> Nat]
        /\ \A o \in Operators : seen'[o] \in 1..Len(log')
    <3>1. CASE UNCHANGED seen
      BY <2>1, <3>1 DEF TypeOK, StoreTypeOK
    <3>2. ASSUME NEW o \in Operators, CacheSync(o)
          PROVE  /\ seen' \in [Operators -> Nat]
                 /\ \A q \in Operators : seen'[q] \in 1..Len(log')
      BY <2>1, <3>2 DEF CacheSync, TypeOK, StoreTypeOK
    <3> QED
      BY <3>1, <3>2 DEF Next, Environment, ExternalWrite, vars, storeVars, Call, Proceed,
         AnnotateGet, AnnotatePut, AnnotateConflict, ScaleGet, ScalePut, ScaleConflict,
         Fault, FirstReadFails, CallFails, ResponseLost, Crash
  <2>3. external' \in 0..MaxExternal
    <3>1. CASE UNCHANGED external
      BY <3>1 DEF TypeOK, StoreTypeOK
    <3>2. CASE external < MaxExternal /\ external' = external + 1
      BY <3>2, StoreAssumption DEF TypeOK, StoreTypeOK
    <3> QED
      BY <3>1, <3>2 DEF Next, Environment, CacheSync, ExternalWrite, vars, storeVars, Call,
         Proceed, AnnotateGet, AnnotatePut, AnnotateConflict, ScaleGet, ScalePut,
         ScaleConflict, Fault, FirstReadFails, CallFails, ResponseLost, Crash
  <2>4. faults' \in 0..MaxFaults
    <3>1. CASE UNCHANGED faults
      BY <3>1 DEF TypeOK
    <3>2. CASE FaultHappens
      BY <3>2, ScaleAssumption DEF TypeOK, FaultHappens
    <3> QED
      BY <3>1, <3>2 DEF Next, vars, Call, Proceed, AnnotateGet, AnnotatePut,
         AnnotateConflict, ScaleGet, ScalePut, ScaleConflict, Fault, FirstReadFails,
         CallFails, ResponseLost, Crash
  <2>5. StoreTypeOK'
    BY <2>1, <2>2, <2>3, LogStaysTyped DEF StoreTypeOK
  <2>6. \A o \in Operators :
          /\ begin'[o] <= Len(log')
          /\ copy'[o] <= Len(log')
    <3>1. ASSUME NEW o \in Operators
          PROVE  /\ begin'[o] \in Nat /\ begin'[o] <= Len(log)
                 /\ copy'[o] \in Nat /\ copy'[o] <= Len(log)
      BY CallsStayTyped
    <3> QED
      BY <2>1, <3>1
  <2> QED
    BY <2>4, <2>5, <2>6, CallsStayTyped DEF TypeOK
<1> QED
  BY <1>1, <1>2, PTL DEF Spec

-----------------------------------------------------------------------------
\* What a call in progress knows of the version it holds: it counted that
\* version, and it means to stop a running one.
CopyIsCounted ==
    \A o \in Operators :
        /\ pc[o] = "annotatePut" => /\ prev[o] = log[copy[o]].size
                                    /\ prev[o] > 0
        /\ pc[o] = "scalePut" => log[copy[o]].size > 0

\* The only steps into the two writes are the two reads before them.
LEMMA WritesFollowReads ==
    ASSUME TypeOK, [Next]_vars, NEW o \in Operators
    PROVE  /\ pc'[o] = "annotatePut" =>
                \/ /\ pc[o] = "annotatePut"
                   /\ copy'[o] = copy[o]
                   /\ prev'[o] = prev[o]
                \/ /\ copy'[o] = seen[o]
                   /\ prev'[o] = Cached(o).size
                   /\ Cached(o).size > 0
           /\ pc'[o] = "scalePut" =>
                \/ /\ pc[o] = "scalePut"
                   /\ copy'[o] = copy[o]
                \/ /\ copy'[o] = Len(log)
                   /\ Latest.size > 0
<1> USE DEF TypeOK
<1>1. CASE UNCHANGED <<pc, copy, prev>>
  BY <1>1
<1>2. ASSUME NEW q \in Operators, NEW p \in Policies, Call(q, p) \/ FirstReadFails(q, p)
      PROVE  /\ pc'[o] \in {"annotatePut", "scalePut"} => pc'[o] = pc[o]
             /\ copy' = copy
             /\ prev' = prev
  BY <1>2 DEF Call, FirstReadFails
<1>3. ASSUME NEW q \in Operators, Proceed(q), q # o
      PROVE  pc'[o] = pc[o] /\ copy'[o] = copy[o] /\ prev'[o] = prev[o]
  BY <1>3 DEF Proceed, AnnotateGet, AnnotatePut, AnnotateConflict, ScaleGet, ScalePut,
              ScaleConflict, RetryFrom, Continue, Return
<1>4. ASSUME Proceed(o), pc'[o] = "annotatePut"
      PROVE  copy'[o] = seen[o] /\ prev'[o] = Cached(o).size /\ Cached(o).size > 0
  BY <1>4 DEF Proceed, AnnotateGet, AnnotatePut, AnnotateConflict, ScaleGet, ScalePut,
              ScaleConflict, RetryFrom, Continue, Return
<1>5. ASSUME Proceed(o), pc'[o] = "scalePut"
      PROVE  copy'[o] = Len(log) /\ Latest.size > 0
  BY <1>5 DEF Proceed, AnnotateGet, AnnotatePut, AnnotateConflict, ScaleGet, ScalePut,
              ScaleConflict, RetryFrom, Continue, Return
<1>6. ASSUME NEW q \in Operators, CallFails(q) \/ ResponseLost(q) \/ Crash(q)
      PROVE  /\ pc'[o] \in {"annotatePut", "scalePut"} => q # o
             /\ q # o => pc'[o] = pc[o] /\ copy'[o] = copy[o] /\ prev'[o] = prev[o]
  BY <1>6 DEF CallFails, ResponseLost, Crash, Return
<1> HIDE DEF TypeOK
<1> QED
  BY <1>1, <1>2, <1>3, <1>4, <1>5, <1>6 DEF Next, Fault, vars, callVars

LEMMA CopyIsCountedStep ==
    ASSUME TypeOK, CopyIsCounted, [Next]_vars
    PROVE  CopyIsCounted'
<1> SUFFICES ASSUME NEW o \in Operators
             PROVE  /\ pc'[o] = "annotatePut" => /\ prev'[o] = log'[copy'[o]].size
                                                 /\ prev'[o] > 0
                    /\ pc'[o] = "scalePut" => log'[copy'[o]].size > 0
  BY DEF CopyIsCounted
<1>1. /\ seen[o] \in 1..Len(log)
      /\ Len(log) \in 1..Len(log)
      /\ pc[o] \in {"annotatePut", "scalePut"} => copy[o] \in 1..Len(log)
  BY DEF TypeOK, StoreTypeOK
<1>2. \A i \in 1..Len(log) : log'[i] = log[i]
  BY LogStaysTyped
<1> QED
  BY <1>1, <1>2, WritesFollowReads DEF CopyIsCounted, Cached, Latest

-----------------------------------------------------------------------------
\* Optimistic concurrency makes the cached read and the update one step: the
\* version recorded is the last one, so its count is the one that stands.
THEOREM RecordsExact == Spec => []RecordsAreExact
<1> DEFINE Inv == CopyIsCounted /\ RecordsAreExact
<1>1. Init => Inv
  <2> SUFFICES ASSUME Init
               PROVE  Inv
    OBVIOUS
  <2>1. Len(log) = 1
    BY DEF Init, StoreInit
  <2> QED
    BY <2>1 DEF Init, CopyIsCounted, RecordsAreExact
<1>2. TypeOK /\ Inv /\ [Next]_vars => Inv'
  <2> SUFFICES ASSUME TypeOK, Inv, [Next]_vars
               PROVE  Inv'
    OBVIOUS
  <2>1. CopyIsCounted'
    BY CopyIsCountedStep
  <2>2. RecordsAreExact'
    <3> SUFFICES ASSUME NEW i \in 2..Len(log'), log'[i].writer = "record"
                 PROVE  /\ log'[i].size = log'[i-1].size
                        /\ log'[i].ann.prev = log'[i-1].size
                        /\ log'[i].size > 0
      BY DEF RecordsAreExact, IsRecord
    <3>1. log \in Seq(Version) /\ Len(log) \in Nat \ {0}
      BY DEF TypeOK, StoreTypeOK
    <3>2. CASE i <= Len(log)
      <4>1. i \in 2..Len(log) /\ i - 1 \in 1..Len(log) /\ i \in 1..Len(log)
        BY <3>1, <3>2
      <4>2. log'[i] = log[i] /\ log'[i-1] = log[i-1]
        BY <4>1, LogStaysTyped
      <4> QED
        BY <4>1, <4>2 DEF RecordsAreExact, IsRecord
    <3>3. CASE ~(i <= Len(log))
      <4>1. ASSUME NEW e \in Version, log' = Append(log, e)
            PROVE  i = Len(log) + 1 /\ log'[i] = e /\ log'[i-1] = log[Len(log)]
        BY <3>1, <3>3, <4>1, AppendFacts
      <4>2. CASE UNCHANGED log
        BY <3>1, <3>3, <4>2
      <4>3. ASSUME NEW n \in Sizes,
                   log' = Append(log, [size |-> n, ann |-> Latest.ann, writer |-> "external"])
            PROVE  FALSE
        <5>1. Latest.ann \in Annotation \cup {None}
          BY <3>1, VersionFields DEF Latest
        <5>2. [size |-> n, ann |-> Latest.ann, writer |-> "external"] \in Version
          BY <5>1 DEF Version
        <5> QED
          BY <4>1, <4>3, <5>2
      <4>4. ASSUME NEW o \in Operators, pc[o] = "scalePut", log' = Append(log, Stopped(o))
            PROVE  FALSE
        BY <4>1, <4>4, WrittenVersions
      <4>5. ASSUME NEW o \in Operators, pc[o] = "annotatePut", copy[o] = Len(log),
                   log' = Append(log, Recorded(o))
            PROVE  /\ log'[i].size = log'[i-1].size
                   /\ log'[i].ann.prev = log'[i-1].size
                   /\ log'[i].size > 0
        <5>1. log'[i] = Recorded(o) /\ log'[i-1] = log[Len(log)]
          BY <4>1, <4>5, WrittenVersions
        <5>2. prev[o] = log[Len(log)].size /\ prev[o] > 0
          BY <4>5 DEF CopyIsCounted
        <5> QED
          BY <4>5, <5>1, <5>2 DEF Recorded
      <4> QED
        BY <4>2, <4>3, <4>4, <4>5, LogGrows
    <3> QED
      BY <3>2, <3>3
  <2> QED
    BY <2>1, <2>2
<1> QED
  BY <1>1, <1>2, TypeCorrect, PTL DEF Spec

-----------------------------------------------------------------------------
\* The annotations are never taken away again, and a stopped version has
\* them; so, once a call has passed its record, has the live object, even when
\* the call found the workload already stopped and wrote no record itself.
RecordedForGood ==
    /\ \A i, j \in 1..Len(log) : i <= j /\ log[i].ann # None => log[j].ann # None
    /\ \A i \in 1..Len(log) :
         log[i].size = 0 \/ log[i].writer = "stop" => log[i].ann # None
    /\ \A o \in Operators : pc[o] \in {"scaleGet", "scalePut"} => Latest.ann # None

\* A call reaches its second write only through a record, or by finding the
\* workload at zero after counting it in an earlier attempt.
LEMMA ScaleFollowsRecord ==
    ASSUME TypeOK, [Next]_vars, NEW o \in Operators, pc'[o] \in {"scaleGet", "scalePut"}
    PROVE  \/ pc[o] \in {"scaleGet", "scalePut"}
           \/ pc[o] = "annotatePut" /\ log' = Append(log, Recorded(o))
           \/ Cached(o).size = 0
<1> USE DEF TypeOK
<1>1. CASE UNCHANGED pc
  BY <1>1
<1>2. ASSUME NEW q \in Operators, NEW p \in Policies, Call(q, p) \/ FirstReadFails(q, p)
      PROVE  pc'[o] = pc[o]
  BY <1>2 DEF Call, FirstReadFails
<1>3. ASSUME NEW q \in Operators, Proceed(q), q # o
      PROVE  pc'[o] = pc[o]
  BY <1>3 DEF Proceed, AnnotateGet, AnnotatePut, AnnotateConflict, ScaleGet, ScalePut,
              ScaleConflict, RetryFrom, Continue, Return
<1>4. CASE Proceed(o)
  <2>1. CASE AnnotateGet(o)
    <3>1. Cached(o).size \in Nat
      BY StoreAssumption, VersionFields DEF StoreTypeOK, Cached
    <3> QED
      BY <2>1, <3>1 DEF AnnotateGet, Continue, Return
  <2> QED
    BY <1>4, <2>1 DEF Proceed, AnnotatePut, AnnotateConflict, ScaleGet, ScalePut,
                      ScaleConflict, RetryFrom, Continue, Return
<1>5. ASSUME NEW q \in Operators, CallFails(q) \/ ResponseLost(q) \/ Crash(q)
      PROVE  q # o /\ pc'[o] = pc[o]
  BY <1>5 DEF CallFails, ResponseLost, Crash, Return
<1> HIDE DEF TypeOK
<1> QED
  BY <1>1, <1>2, <1>3, <1>4, <1>5 DEF Next, Fault, vars, callVars

\* What the version a step appends looks like when nobody else writes zero.
LEMMA AppendedIsRecorded ==
    ASSUME 0 \notin ExternalSizes, TypeOK, CopyIsCounted, RecordedForGood, [Next]_vars,
           ~UNCHANGED log
    PROVE  \E e \in Version :
             /\ log' = Append(log, e)
             /\ Latest.ann # None => e.ann # None
             /\ e.size = 0 \/ e.writer = "stop" => e.ann # None
             /\ \A o \in Operators :
                  pc[o] = "annotatePut" /\ log' = Append(log, Recorded(o)) => e.ann # None
<1>1. log \in Seq(Version) /\ Len(log) \in 1..Len(log) /\ Latest \in Version
  BY DEF TypeOK, StoreTypeOK, Latest
<1>2. ASSUME NEW e \in Version, log' = Append(log, e), NEW f \in Version,
             log' = Append(log, f)
      PROVE  e = f
  <2>1. Append(log, e)[Len(log) + 1] = e /\ Append(log, f)[Len(log) + 1] = f
    BY <1>1, AppendFacts
  <2> QED
    BY <1>2, <2>1
<1>3. ASSUME NEW n \in ExternalSizes \cup {Latest.size},
             log' = Append(log, [size |-> n, ann |-> Latest.ann, writer |-> "external"])
      PROVE  \E e \in Version :
               /\ log' = Append(log, e)
               /\ Latest.ann # None => e.ann # None
               /\ e.size = 0 \/ e.writer = "stop" => e.ann # None
               /\ \A o \in Operators :
                    pc[o] = "annotatePut" /\ log' = Append(log, Recorded(o)) => e.ann # None
  <2> DEFINE e == [size |-> n, ann |-> Latest.ann, writer |-> "external"]
  <2>1. Latest.ann \in Annotation \cup {None} /\ Latest.size \in Sizes
    BY <1>1, VersionFields DEF Latest
  <2>2. e \in Version
    BY <2>1, StoreAssumption DEF Version
  <2>3. n = 0 => Latest.size = 0
    OBVIOUS
  <2>4. n = 0 => Latest.ann # None
    BY <1>1, <2>3 DEF RecordedForGood, Latest
  <2>5. e.size = n /\ e.ann = Latest.ann /\ e.writer = "external"
    OBVIOUS
  <2>6. ASSUME NEW o \in Operators, pc[o] = "annotatePut", log' = Append(log, Recorded(o))
        PROVE  e.ann # None
    <3>1. Recorded(o) \in Version /\ Recorded(o).ann # None
      BY <2>6, WrittenVersions
    <3> HIDE DEF e
    <3> QED
      BY <1>2, <1>3, <2>2, <2>6, <3>1 DEF e
  <2> HIDE DEF e
  <2>7. log' = Append(log, e)
    BY <1>3 DEF e
  <2> QED
    BY <2>2, <2>4, <2>5, <2>6, <2>7
<1>4. ASSUME NEW o \in Operators, pc[o] = "annotatePut", log' = Append(log, Recorded(o))
      PROVE  \E e \in Version :
               /\ log' = Append(log, e)
               /\ e.ann # None
  BY <1>4, WrittenVersions
<1>5. ASSUME NEW o \in Operators, pc[o] = "scalePut", copy[o] = Len(log),
             log' = Append(log, Stopped(o))
      PROVE  \E e \in Version :
               /\ log' = Append(log, e)
               /\ e.ann # None
  <2>1. Stopped(o) \in Version /\ Stopped(o).ann = Latest.ann
    BY <1>5, WrittenVersions DEF Latest
  <2> QED
    BY <1>5, <2>1 DEF RecordedForGood
<1> QED
  BY <1>3, <1>4, <1>5, LogGrows

\* The two invariants hold together.
LEMMA RecordedInvariant ==
    ASSUME 0 \notin ExternalSizes
    PROVE  Spec => [](CopyIsCounted /\ RecordedForGood)
<1>1. Init => CopyIsCounted /\ RecordedForGood
  <2> SUFFICES ASSUME Init
               PROVE  CopyIsCounted /\ RecordedForGood
    OBVIOUS
  <2>1. PICK n \in ExternalSizes :
          log = <<[size |-> n, ann |-> None, writer |-> "external"]>>
    BY DEF Init, StoreInit
  <2>2. /\ Len(log) = 1
        /\ log[1] = [size |-> n, ann |-> None, writer |-> "external"]
    BY <2>1
  <2> QED
    BY <2>2 DEF Init, CopyIsCounted, RecordedForGood
<1>2. TypeOK /\ CopyIsCounted /\ RecordedForGood /\ [Next]_vars
        => CopyIsCounted' /\ RecordedForGood'
  <2> SUFFICES ASSUME TypeOK, CopyIsCounted, RecordedForGood, [Next]_vars
               PROVE  CopyIsCounted' /\ RecordedForGood'
    OBVIOUS
  <2>1. CopyIsCounted'
    BY CopyIsCountedStep
  <2>2. /\ log \in Seq(Version)
        /\ Len(log) \in Nat \ {0}
        /\ \A o \in Operators : seen[o] \in 1..Len(log)
    BY DEF TypeOK, StoreTypeOK
  <2>3. ASSUME NEW o \in Operators, Cached(o).size = 0
        PROVE  Latest.ann # None
    BY <2>2, <2>3 DEF RecordedForGood, Cached, Latest
  <2>4. CASE UNCHANGED log
    <3>1. ASSUME NEW o \in Operators, pc'[o] \in {"scaleGet", "scalePut"}
          PROVE  Latest.ann # None
      <4>1. log' # Append(log, Recorded(o)) \/ pc[o] # "annotatePut"
        BY <2>2, <2>4, AppendFacts, WrittenVersions
      <4> QED
        BY <2>3, <3>1, <4>1, ScaleFollowsRecord DEF RecordedForGood
    <3> QED
      BY <2>1, <2>4, <3>1 DEF RecordedForGood, Latest
  <2>5. CASE ~UNCHANGED log
    <3>1. PICK e \in Version :
             /\ log' = Append(log, e)
             /\ Latest.ann # None => e.ann # None
             /\ e.size = 0 \/ e.writer = "stop" => e.ann # None
             /\ \A o \in Operators :
                  pc[o] = "annotatePut" /\ log' = Append(log, Recorded(o)) => e.ann # None
      BY <2>5, AppendedIsRecorded
    <3>2. /\ Len(log') = Len(log) + 1
          /\ \A i \in 1..Len(log) : log'[i] = log[i]
          /\ log'[Len(log) + 1] = e
      BY <2>2, <3>1, AppendFacts
    <3>3. ASSUME NEW i \in 1..Len(log'), NEW j \in 1..Len(log'), i <= j,
                 log'[i].ann # None
          PROVE  log'[j].ann # None
      <4>1. CASE j <= Len(log)
        BY <2>2, <3>2, <3>3, <4>1 DEF RecordedForGood
      <4>2. CASE i <= Len(log) /\ j = Len(log) + 1
        BY <2>2, <3>1, <3>2, <3>3, <4>2 DEF RecordedForGood, Latest
      <4>3. CASE i = Len(log) + 1 /\ j = Len(log) + 1
        BY <3>3, <4>3
      <4> QED
        BY <2>2, <3>2, <3>3, <4>1, <4>2, <4>3
    <3>4. ASSUME NEW i \in 1..Len(log'), log'[i].size = 0 \/ log'[i].writer = "stop"
          PROVE  log'[i].ann # None
      <4>1. CASE i <= Len(log)
        BY <2>2, <3>2, <3>4, <4>1 DEF RecordedForGood
      <4>2. CASE i = Len(log) + 1
        BY <3>1, <3>2, <3>4, <4>2
      <4> QED
        BY <2>2, <3>2, <4>1, <4>2
    <3>5. ASSUME NEW o \in Operators, pc'[o] \in {"scaleGet", "scalePut"}
          PROVE  Latest'.ann # None
      <4>1. e.ann # None
        BY <2>3, <3>1, <3>5, ScaleFollowsRecord DEF RecordedForGood
      <4> QED
        BY <3>2, <4>1 DEF Latest
    <3> QED
      BY <2>1, <3>3, <3>4, <3>5 DEF RecordedForGood
  <2> QED
    BY <2>4, <2>5
<1> QED
  BY <1>1, <1>2, TypeCorrect, PTL DEF Spec

\* "The annotations are written first on purpose": as long as nobody else sets
\* the count to zero, no workload is left stopped without a record.
THEOREM StopsRecorded ==
    ASSUME 0 \notin ExternalSizes
    PROVE  Spec => []StopsAreRecorded
<1>1. RecordedForGood => StopsAreRecorded
  BY DEF RecordedForGood, StopsAreRecorded, IsStop
<1> QED
  BY <1>1, RecordedInvariant, PTL

-----------------------------------------------------------------------------
\* How a call comes to answer "acted": it had already done so, it read zero
\* from the scale, or its stop was accepted.
LEMMA ActedCases ==
    ASSUME TypeOK, [Next]_vars, NEW o \in Operators, outcome'[o] = "acted"
    PROVE  /\ begin'[o] = begin[o]
           /\ \/ outcome[o] = "acted"
              \/ Latest.size = 0 /\ UNCHANGED log
              \/ pc[o] = "scalePut" /\ log' = Append(log, Stopped(o))
<1> USE DEF TypeOK
<1>1. CASE UNCHANGED <<outcome, begin>>
  BY <1>1
<1>2. ASSUME NEW q \in Operators, NEW p \in Policies, Call(q, p) \/ FirstReadFails(q, p)
      PROVE  outcome[o] = "acted" /\ begin'[o] = begin[o]
  BY <1>2 DEF Call, FirstReadFails, FirstAnswer
<1>3. ASSUME NEW q \in Operators, Proceed(q), q # o
      PROVE  outcome'[o] = outcome[o] /\ begin'[o] = begin[o]
  BY <1>3 DEF Proceed, AnnotateGet, AnnotatePut, AnnotateConflict, ScaleGet, ScalePut,
              ScaleConflict, RetryFrom, Continue, Return
<1>4. CASE Proceed(o)
  <2>1. CASE ScaleGet(o)
    <3>1. Latest.size \in Nat
      BY StoreAssumption, VersionFields DEF StoreTypeOK, Latest
    <3> QED
      BY <2>1, <3>1 DEF ScaleGet, Continue, Return, storeVars
  <2>2. CASE ScalePut(o)
    BY <2>2 DEF ScalePut, Return
  <2> QED
    BY <1>4, <2>1, <2>2 DEF Proceed, AnnotateGet, AnnotatePut, AnnotateConflict,
                            ScaleConflict, RetryFrom, Continue, Return
<1>5. ASSUME NEW q \in Operators, CallFails(q) \/ ResponseLost(q) \/ Crash(q)
      PROVE  outcome[o] = "acted" /\ begin'[o] = begin[o]
  BY <1>5 DEF CallFails, ResponseLost, Crash, Return
<1> HIDE DEF TypeOK
<1> QED
  BY <1>1, <1>2, <1>3, <1>4, <1>5 DEF Next, Fault, vars, callVars

\* The answer the event, the metric and the counter rest on is never given for
\* a workload that kept running throughout the call.
THEOREM ActedIsTrue == Spec => []ActedSawZero
<1>1. Init => ActedSawZero
  BY DEF Init, ActedSawZero
<1>2. TypeOK /\ ActedSawZero /\ [Next]_vars => ActedSawZero'
  <2> SUFFICES ASSUME TypeOK, ActedSawZero, [Next]_vars,
                      NEW o \in Operators, outcome'[o] = "acted"
               PROVE  \E i \in 1..Len(log') : i >= begin'[o] /\ log'[i].size = 0
    BY DEF ActedSawZero
  <2>1. /\ log \in Seq(Version) /\ Len(log) \in Nat \ {0}
        /\ begin[o] \in Nat /\ begin[o] <= Len(log)
    BY DEF TypeOK, StoreTypeOK
  <2>2. /\ Len(log') \in Nat /\ Len(log') >= Len(log)
        /\ \A i \in 1..Len(log) : log'[i] = log[i]
    BY LogStaysTyped
  <2>3. CASE outcome[o] = "acted"
    BY <2>1, <2>2, <2>3, ActedCases DEF ActedSawZero
  <2>4. CASE Latest.size = 0 /\ UNCHANGED log
    BY <2>1, <2>2, <2>4, ActedCases DEF Latest
  <2>5. CASE pc[o] = "scalePut" /\ log' = Append(log, Stopped(o))
    <3>1. log'[Len(log')].size = 0 /\ Len(log') = Len(log) + 1
      BY <2>1, <2>5, AppendFacts, WrittenVersions
    <3> QED
      BY <2>1, <2>2, <3>1, ActedCases
  <2> QED
    BY <2>3, <2>4, <2>5, ActedCases
<1> QED
  BY <1>1, <1>2, TypeCorrect, PTL DEF Spec

-----------------------------------------------------------------------------
\* Every step of the calls is a step of the contract on the live object, or
\* leaves that object as it is.
THEOREM ContractHolds ==
    ASSUME 0 \notin ExternalSizes
    PROVE  Spec => ImplementsContract
<1>1. Init => Contract!Init
  <2> SUFFICES ASSUME Init
               PROVE  Contract!Init
    OBVIOUS
  <2>1. PICK n \in ExternalSizes :
          log = <<[size |-> n, ann |-> None, writer |-> "external"]>>
    BY DEF Init, StoreInit
  <2>2. Latest = [size |-> n, ann |-> None, writer |-> "external"]
    BY <2>1 DEF Latest
  <2> QED
    BY <2>2 DEF Contract!Init
<1>2. TypeOK /\ CopyIsCounted /\ RecordedForGood /\ [Next]_vars
        => [Contract!Next]_<<Latest.size, Latest.ann>>
  <2> SUFFICES ASSUME TypeOK, CopyIsCounted, RecordedForGood, [Next]_vars
               PROVE  [Contract!Next]_<<Latest.size, Latest.ann>>
    OBVIOUS
  <2>1. log \in Seq(Version) /\ Len(log) \in Nat \ {0} /\ Latest \in Version
    BY DEF TypeOK, StoreTypeOK, Latest
  <2>2. ASSUME NEW e \in Version, log' = Append(log, e)
        PROVE  Latest' = e
    <3>1. Append(log, e)[Len(Append(log, e))] = e
      BY <2>1, AppendFacts
    <3> QED
      BY <2>2, <3>1 DEF Latest
  <2>3. CASE UNCHANGED log
    BY <2>3 DEF Latest
  <2>4. ASSUME NEW n \in Sizes, n \in ExternalSizes \cup {Latest.size},
               log' = Append(log, [size |-> n, ann |-> Latest.ann, writer |-> "external"])
        PROVE  [Contract!Next]_<<Latest.size, Latest.ann>>
    <3>1. Latest.ann \in Annotation \cup {None}
      BY <2>1, VersionFields DEF Latest
    <3>2. [size |-> n, ann |-> Latest.ann, writer |-> "external"] \in Version
      BY <3>1 DEF Version
    <3>3. Latest'.size = n /\ Latest'.ann = Latest.ann
      BY <2>2, <2>4, <3>2
    <3> QED
      BY <2>4, <3>3 DEF Contract!Next, Contract!Rescale
  <2>5. ASSUME NEW o \in Operators, pc[o] = "annotatePut", copy[o] = Len(log),
               log' = Append(log, Recorded(o))
        PROVE  [Contract!Next]_<<Latest.size, Latest.ann>>
    <3>1. Latest' = Recorded(o)
      BY <2>2, <2>5, WrittenVersions
    <3>2. pol[o] \in Policies /\ prev[o] = Latest.size /\ Latest.size > 0
      BY <2>5 DEF TypeOK, CopyIsCounted, Latest
    <3>3. Latest'.size = Latest.size /\ Latest'.ann = [by |-> pol[o], prev |-> Latest.size]
      BY <2>5, <3>1, <3>2 DEF Recorded, Latest
    <3> QED
      BY <3>2, <3>3 DEF Contract!Next, Contract!Record
  <2>6. ASSUME NEW o \in Operators, pc[o] = "scalePut", copy[o] = Len(log),
               log' = Append(log, Stopped(o))
        PROVE  [Contract!Next]_<<Latest.size, Latest.ann>>
    <3>1. Latest'.size = 0 /\ Latest'.ann = Latest.ann
      BY <2>2, <2>6, WrittenVersions DEF Latest
    <3>2. Latest.size > 0 /\ Latest.ann # None
      BY <2>6 DEF CopyIsCounted, RecordedForGood, Latest
    <3> QED
      BY <3>1, <3>2 DEF Contract!Next, Contract!Stop
  <2> QED
    BY <2>3, <2>4, <2>5, <2>6, LogGrows
<1> QED
  BY <1>1, <1>2, TypeCorrect, RecordedInvariant, PTL
  DEF Spec, ImplementsContract, Contract!Spec
-----------------------------------------------------------------------------
\* A retry uses up an attempt or ends the call, and other calls stay where they are.
LEMMA RetryGetsNearer ==
    ASSUME TypeOK, NEW o \in Operators, NEW q \in Operators,
           \/ pc[o] = "annotatePut" /\ RetryFrom(o, "annotateGet")
           \/ pc[o] = "scalePut" /\ RetryFrom(o, "scaleGet")
    PROVE  UNCHANGED <<pc[q], tries[q]>> \/ Left(q)' < Left(q)
<1>1. /\ MaxTries \in Nat \ {0} /\ tries[o] \in 0..(MaxTries - 1)
      /\ tries \in [Operators -> 0..(MaxTries - 1)] /\ pc \in [Operators -> Location]
  BY ScaleAssumption DEF TypeOK
<1>2. CASE q # o
  BY <1>1, <1>2 DEF RetryFrom, Continue, Return
<1>3. CASE q = o
  <2>1. CASE tries[o] + 1 < MaxTries
    <3>1. pc'[o] = (IF pc[o] = "annotatePut" THEN "annotateGet" ELSE "scaleGet")
          /\ tries'[o] = tries[o] + 1
      BY <1>1, <2>1 DEF RetryFrom, Continue
    <3> QED
      BY <1>1, <1>3, <3>1 DEF Left
  <2>2. CASE ~(tries[o] + 1 < MaxTries)
    <3>1. pc'[o] = "idle"
      BY <1>1, <2>2 DEF RetryFrom, Return
    <3> QED
      BY <1>1, <1>3, <3>1 DEF Left
  <2> QED
    BY <2>1, <2>2
<1> QED
  BY <1>2, <1>3

\* A call that ends, or goes on at a later place with no more attempts behind it
\* than its retry allows, has fewer steps left.
LEMMA StepGetsNearer ==
    ASSUME TypeOK, NEW o \in Operators, NEW q \in Operators, pc[o] # "idle",
           \/ \E r : Return(o, r)
           \/ \E c, n : \/ pc[o] = "annotateGet" /\ Continue(o, "annotatePut", c, n, tries[o])
                        \/ pc[o] \in {"annotateGet", "annotatePut"} /\ Continue(o, "scaleGet", c, n, 0)
                        \/ pc[o] = "scaleGet" /\ Continue(o, "scalePut", c, n, tries[o])
    PROVE  UNCHANGED <<pc[q], tries[q]>> \/ Left(q)' < Left(q)
<1>1. /\ MaxTries \in Nat \ {0} /\ tries[o] \in 0..(MaxTries - 1)
      /\ tries \in [Operators -> 0..(MaxTries - 1)] /\ pc \in [Operators -> Location]
  BY ScaleAssumption DEF TypeOK
<1>2. CASE q # o
  BY <1>1, <1>2 DEF Continue, Return
<1>3. CASE q = o
  <2>1. CASE \E r : Return(o, r)
    <3>1. pc'[o] = "idle"
      BY <1>1, <2>1 DEF Return
    <3> QED
      BY <1>1, <1>3, <3>1 DEF Left
  <2>2. CASE pc[o] = "annotateGet" /\ \E c, n : Continue(o, "annotatePut", c, n, tries[o])
    <3>1. pc'[o] = "annotatePut" /\ tries'[o] = tries[o]
      BY <1>1, <2>2 DEF Continue
    <3> QED
      BY <1>1, <1>3, <2>2, <3>1 DEF Left
  <2>3. CASE /\ pc[o] \in {"annotateGet", "annotatePut"}
             /\ \E c, n : Continue(o, "scaleGet", c, n, 0)
    <3>1. pc'[o] = "scaleGet" /\ tries'[o] = 0
      BY <1>1, <2>3 DEF Continue
    <3> QED
      BY <1>1, <1>3, <2>3, <3>1 DEF Left
  <2>4. CASE pc[o] = "scaleGet" /\ \E c, n : Continue(o, "scalePut", c, n, tries[o])
    <3>1. pc'[o] = "scalePut" /\ tries'[o] = tries[o]
      BY <1>1, <2>4 DEF Continue
    <3> QED
      BY <1>1, <1>3, <2>4, <3>1 DEF Left
  <2> QED
    BY <2>1, <2>2, <2>3, <2>4
<1> QED
  BY <1>2, <1>3

\* However many instances, writers, conflicts and faults there are, a call makes at
\* most four requests for every attempt its retries allow.
THEOREM CallsBounded == Spec => CallsAreBounded
<1>1. TypeOK /\ [Next]_vars
        => \A o \in Operators : pc[o] # "idle" =>
             UNCHANGED <<pc[o], tries[o]>> \/ Left(o)' < Left(o)
  <2> SUFFICES ASSUME TypeOK, [Next]_vars, NEW q \in Operators, pc[q] # "idle"
               PROVE  UNCHANGED <<pc[q], tries[q]>> \/ Left(q)' < Left(q)
    OBVIOUS
  <2>1. CASE UNCHANGED <<pc, tries>>
    BY <2>1
  <2>2. ASSUME NEW o \in Operators, NEW p \in Policies, Call(o, p)
        PROVE  UNCHANGED <<pc[q], tries[q]>>
    BY <2>2 DEF Call, TypeOK
  <2>3. ASSUME NEW o \in Operators, AnnotateGet(o)
        PROVE  UNCHANGED <<pc[q], tries[q]>> \/ Left(q)' < Left(q)
    BY <2>3, StepGetsNearer DEF AnnotateGet
  <2>4. ASSUME NEW o \in Operators, AnnotatePut(o)
        PROVE  UNCHANGED <<pc[q], tries[q]>> \/ Left(q)' < Left(q)
    BY <2>4, StepGetsNearer DEF AnnotatePut
  <2>5. ASSUME NEW o \in Operators, AnnotateConflict(o) \/ ScaleConflict(o)
        PROVE  UNCHANGED <<pc[q], tries[q]>> \/ Left(q)' < Left(q)
    BY <2>5, RetryGetsNearer DEF AnnotateConflict, ScaleConflict
  <2>6. ASSUME NEW o \in Operators, ScaleGet(o)
        PROVE  UNCHANGED <<pc[q], tries[q]>> \/ Left(q)' < Left(q)
    BY <2>6, StepGetsNearer DEF ScaleGet
  <2>7. ASSUME NEW o \in Operators, ScalePut(o)
        PROVE  UNCHANGED <<pc[q], tries[q]>> \/ Left(q)' < Left(q)
    BY <2>7, StepGetsNearer DEF ScalePut
  <2>8. ASSUME NEW o \in Operators, CallFails(o) \/ ResponseLost(o) \/ Crash(o)
        PROVE  UNCHANGED <<pc[q], tries[q]>> \/ Left(q)' < Left(q)
    BY <2>8, StepGetsNearer DEF CallFails, ResponseLost, Crash
  <2>9. ASSUME NEW o \in Operators, NEW p \in Policies, FirstReadFails(o, p)
        PROVE  UNCHANGED <<pc[q], tries[q]>>
    BY <2>9 DEF FirstReadFails
  <2>10. ASSUME NEW o \in Operators, Proceed(o) \/ Fault(o)
         PROVE  UNCHANGED <<pc[q], tries[q]>> \/ Left(q)' < Left(q)
    BY <2>3, <2>4, <2>5, <2>6, <2>7, <2>8, <2>9, <2>10 DEF Proceed, Fault
  <2>11. CASE UNCHANGED vars \/ (Environment /\ UNCHANGED <<callVars, faults>>)
    BY <2>1, <2>11 DEF vars, callVars
  <2> QED
    BY <2>2, <2>10, <2>11 DEF Next
<1> QED
  BY <1>1, TypeCorrect, PTL DEF Spec, CallsAreBounded
=============================================================================
