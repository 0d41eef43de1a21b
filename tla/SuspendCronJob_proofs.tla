------------------------ MODULE SuspendCronJob_proofs ------------------------
(***************************************************************************)
(* Proofs about SuspendCronJob, for any number of operator instances and   *)
(* policies, any number of attempts, faults and writes of others.          *)
(***************************************************************************)
EXTENDS SuspendCronJob, TLAPS

USE DEF Sizes, Writer

-----------------------------------------------------------------------------
\* A version of a log of versions has the fields of a version.
LEMMA VersionFields ==
    ASSUME NEW s \in Seq(Version), NEW i \in 1..Len(s)
    PROVE  s[i] \in Version /\ s[i].size \in 0..MaxSize /\ s[i].ann \in Annotation \cup {None}
<1>1. s[i] \in Version
  OBVIOUS
<1> QED
  BY <1>1 DEF Version

\* What an update in flight writes is a version, suspended and signed.
LEMMA SuspendedIsVersion ==
    ASSUME TypeOK, NEW o \in Operators, pc[o] = "put"
    PROVE  Suspended(o) \in Version /\ Suspended(o).ann # None
<1>1. [by |-> pol[o], prev |-> 0] \in Annotation
  BY SuspendAssumption DEF TypeOK, Annotation
<1> QED
  BY <1>1, StoreAssumption DEF Suspended, Version

\* Every step leaves the log alone, or appends a version of somebody else's or
\* the update of a call whose copy is the last version.
LEMMA LogGrows ==
    ASSUME TypeOK, [Next]_vars
    PROVE  \/ UNCHANGED log
           \/ \E n \in Sizes :
                /\ n \in ExternalSizes \cup {Latest.size}
                /\ log' = Append(log, [size |-> n, ann |-> Latest.ann, writer |-> "external"])
           \/ \E o \in Operators :
                /\ pc[o] = "put"
                /\ copy[o] = Len(log)
                /\ log' = Append(log, Suspended(o))
<1>1. CASE UNCHANGED vars
  BY <1>1 DEF vars
<1>2. CASE Environment
  <2>1. Latest.size \in Sizes
    BY VersionFields DEF TypeOK, StoreTypeOK, Latest
  <2> QED
    BY <1>2, <2>1, StoreAssumption DEF Environment, CacheSync, ExternalWrite
<1>3. CASE \E o \in Operators : \E p \in Policies : Call(o, p)
  BY <1>3 DEF Call, storeVars
<1>4. CASE \E o \in Operators : Proceed(o)
  BY <1>4 DEF Proceed, Get, Put, Conflict, storeVars, Accepts
<1>5. CASE \E o \in Operators : Fault(o)
  BY <1>5 DEF Fault, FirstReadFails, CallFails, ResponseLost, Crash, storeVars, Accepts
<1> QED
  BY <1>1, <1>2, <1>3, <1>4, <1>5 DEF Next

\* The log stays a log of versions, and its versions keep their places.
LEMMA LogStaysTyped ==
    ASSUME TypeOK, [Next]_vars
    PROVE  /\ log' \in Seq(Version)
           /\ Len(log) \in Nat \ {0}
           /\ Len(log') \in {Len(log), Len(log) + 1}
           /\ \A i \in 1..Len(log) : log'[i] = log[i]
<1>1. log \in Seq(Version) /\ Len(log) \in Nat \ {0} /\ Latest \in Version
  BY DEF TypeOK, StoreTypeOK, Latest
<1>2. ASSUME NEW e \in Version, log' = Append(log, e)
      PROVE  /\ log' \in Seq(Version)
             /\ Len(log') = Len(log) + 1
             /\ \A i \in 1..Len(log) : log'[i] = log[i]
  BY <1>1, <1>2
<1>3. ASSUME NEW n \in Sizes
      PROVE  [size |-> n, ann |-> Latest.ann, writer |-> "external"] \in Version
  BY <1>1 DEF Version
<1> QED
  BY <1>1, <1>2, <1>3, LogGrows, SuspendedIsVersion

-----------------------------------------------------------------------------
\* The local variables of every call keep their types in every step, even over
\* the log as it was before the step.
LEMMA CallsStayTyped ==
    ASSUME TypeOK, [Next]_vars
    PROVE  /\ pc' \in [Operators -> {"idle", "get", "put"}]
           /\ pol' \in [Operators -> Policies \cup {None}]
           /\ copy' \in [Operators -> Nat]
           /\ tries' \in [Operators -> 0..(MaxTries - 1)]
           /\ outcome' \in [Operators -> {"none", "acted", "dry", "skipped", "error"}]
           /\ \A q \in Operators :
                /\ pc'[q] # "idle" => pol'[q] \in Policies \ DryRun
                /\ copy'[q] <= Len(log)
                /\ pc'[q] = "put" => copy'[q] >= 1
<1> DEFINE Typed ==
           /\ pc' \in [Operators -> {"idle", "get", "put"}]
           /\ pol' \in [Operators -> Policies \cup {None}]
           /\ copy' \in [Operators -> Nat]
           /\ tries' \in [Operators -> 0..(MaxTries - 1)]
           /\ outcome' \in [Operators -> {"none", "acted", "dry", "skipped", "error"}]
           /\ \A q \in Operators :
                /\ pc'[q] # "idle" => pol'[q] \in Policies \ DryRun
                /\ copy'[q] <= Len(log)
                /\ pc'[q] = "put" => copy'[q] >= 1
<1>1. Len(log) \in Nat \ {0} /\ MaxTries \in Nat \ {0}
  BY SuspendAssumption DEF TypeOK, StoreTypeOK
<1>2. ASSUME UNCHANGED callVars
      PROVE  Typed
  BY <1>1, <1>2 DEF callVars, TypeOK
<1>3. ASSUME NEW o \in Operators, NEW p \in Policies, Call(o, p) \/ FirstReadFails(o, p)
      PROVE  Typed
  <2>1. copy' = copy /\ tries' = tries /\ pol' = [pol EXCEPT ![o] = p]
    BY <1>3 DEF Call, FirstReadFails
  <2>2. pc' \in [Operators -> {"idle", "get", "put"}]
    BY <1>3 DEF Call, FirstReadFails, TypeOK
  <2>3. outcome' \in [Operators -> {"none", "acted", "dry", "skipped", "error"}]
    BY <1>3 DEF Call, FirstAnswer, FirstReadFails, TypeOK
  <2>4. ASSUME NEW q \in Operators
        PROVE  /\ pc'[q] # "idle" => pol'[q] \in Policies \ DryRun
               /\ copy'[q] <= Len(log)
               /\ pc'[q] = "put" => copy'[q] >= 1
    <3>1. CASE q # o
      BY <1>3, <2>1, <3>1 DEF Call, FirstReadFails, TypeOK
    <3>2. CASE q = o
      <4>1. pc'[o] # "put" /\ (pc'[o] # "idle" => p \notin DryRun)
        BY <1>3 DEF Call, FirstAnswer, FirstReadFails, TypeOK
      <4> QED
        BY <2>1, <3>2, <4>1 DEF TypeOK
    <3> QED
      BY <3>1, <3>2
  <2> QED
    BY <2>1, <2>2, <2>3, <2>4 DEF TypeOK
<1>4. ASSUME NEW o \in Operators, pc[o] # "idle",
             NEW r \in {"none", "acted", "dry", "skipped", "error"}, Return(o, r)
      PROVE  Typed
  BY <1>1, <1>4 DEF Return, TypeOK
<1>5. ASSUME NEW o \in Operators, pc[o] # "idle", NEW l \in {"get", "put"},
             NEW c \in 0..Len(log), NEW t \in 0..(MaxTries - 1),
             l = "put" => c >= 1, Continue(o, l, c, t)
      PROVE  Typed
  BY <1>1, <1>5 DEF Continue, TypeOK
<1>6. ASSUME NEW o \in Operators, Proceed(o)
      PROVE  Typed
  <2>1. seen[o] \in 1..Len(log) /\ copy[o] \in 0..Len(log) /\ tries[o] \in 0..(MaxTries - 1)
    BY <1>1 DEF TypeOK, StoreTypeOK
  <2> HIDE DEF Typed
  <2>2. CASE Get(o)
    BY <1>1, <1>4, <1>5, <2>1, <2>2 DEF Get
  <2>3. CASE Put(o)
    BY <1>4, <2>3 DEF Put
  <2>4. CASE Conflict(o)
    <3>1. CASE tries[o] + 1 < MaxTries
      <4>1. tries[o] + 1 \in 0..(MaxTries - 1)
        BY <1>1, <2>1, <3>1
      <4> QED
        BY <1>5, <2>1, <2>4, <3>1, <4>1 DEF Conflict
    <3>2. CASE ~(tries[o] + 1 < MaxTries)
      BY <1>4, <2>4, <3>2 DEF Conflict
    <3> QED
      BY <3>1, <3>2
  <2> QED
    BY <1>6, <2>2, <2>3, <2>4 DEF Proceed
<1>7. ASSUME NEW o \in Operators, CallFails(o) \/ ResponseLost(o) \/ Crash(o)
      PROVE  Typed
  <2> HIDE DEF Typed
  <2> QED
    BY <1>4, <1>7 DEF CallFails, ResponseLost, Crash
<1> HIDE DEF Typed
<1>8. Typed
  <2>1. CASE UNCHANGED vars
    BY <1>2, <2>1 DEF vars, callVars
  <2>2. CASE Next
    BY <1>2, <1>3, <1>6, <1>7, <2>2 DEF Next, Fault
  <2> QED
    BY <2>1, <2>2
<1> QED
  BY <1>8 DEF Typed

\* Every variable keeps its type: a call in progress acts for a policy that is
\* no dry run, and what it holds is a version of the log.
THEOREM TypeCorrect == Spec => []TypeOK
<1>1. Init => TypeOK
  <2> SUFFICES ASSUME Init
               PROVE  TypeOK
    OBVIOUS
  <2>1. PICK n \in ExternalSizes :
          log = <<[size |-> n, ann |-> None, writer |-> "external"]>>
    BY DEF Init, StoreInit
  <2>2. [size |-> n, ann |-> None, writer |-> "external"] \in Version
    BY StoreAssumption DEF Version
  <2>3. log \in Seq(Version) /\ Len(log) = 1
    BY <2>1, <2>2
  <2> QED
    BY <2>3, StoreAssumption, SuspendAssumption DEF Init, StoreInit, TypeOK, StoreTypeOK
<1>2. TypeOK /\ [Next]_vars => TypeOK'
  <2> SUFFICES ASSUME TypeOK, [Next]_vars
               PROVE  TypeOK'
    OBVIOUS
  <2>1. Len(log) \in Nat \ {0} /\ Len(log') \in Nat /\ Len(log') >= Len(log)
    BY LogStaysTyped
  <2>2. /\ seen' \in [Operators -> Nat]
        /\ \A o \in Operators : seen'[o] \in 1..Len(log')
    <3>1. CASE UNCHANGED seen
      BY <2>1, <3>1 DEF TypeOK, StoreTypeOK
    <3>2. ASSUME NEW o \in Operators, CacheSync(o)
          PROVE  /\ seen' \in [Operators -> Nat]
                 /\ \A q \in Operators : seen'[q] \in 1..Len(log')
      BY <2>1, <3>2 DEF CacheSync, TypeOK, StoreTypeOK
    <3> QED
      BY <3>1, <3>2 DEF Next, Environment, ExternalWrite, vars, storeVars, Call, Proceed,
         Get, Put, Conflict, Fault, FirstReadFails, CallFails, ResponseLost, Crash
  <2>3. external' \in 0..MaxExternal
    <3>1. CASE UNCHANGED external
      BY <3>1 DEF TypeOK, StoreTypeOK
    <3>2. CASE external < MaxExternal /\ external' = external + 1
      BY <3>2, StoreAssumption DEF TypeOK, StoreTypeOK
    <3> QED
      BY <3>1, <3>2 DEF Next, Environment, CacheSync, ExternalWrite, vars, storeVars, Call,
         Proceed, Get, Put, Conflict, Fault, FirstReadFails, CallFails, ResponseLost, Crash
  <2>4. faults' \in 0..MaxFaults
    <3>1. CASE UNCHANGED faults
      BY <3>1 DEF TypeOK
    <3>2. CASE FaultHappens
      BY <3>2, SuspendAssumption DEF TypeOK, FaultHappens
    <3> QED
      BY <3>1, <3>2 DEF Next, vars, Call, Proceed, Get, Put, Conflict, Fault,
         FirstReadFails, CallFails, ResponseLost, Crash
  <2>5. StoreTypeOK'
    BY <2>1, <2>2, <2>3, LogStaysTyped DEF StoreTypeOK
  <2>6. copy' \in [Operators -> Nat] /\ \A o \in Operators : copy'[o] <= Len(log')
    BY <2>1, CallsStayTyped
  <2> QED
    BY <2>4, <2>5, <2>6, CallsStayTyped DEF TypeOK
<1> QED
  BY <1>1, <1>2, PTL DEF Spec

-----------------------------------------------------------------------------
\* An instance that is about to write holds a copy of a running CronJob.
CopyRuns == \A o \in Operators : pc[o] = "put" => log[copy[o]].size = 1

\* Such a copy is taken by Get, and the versions of the log never change.
LEMMA CopyRunsStep ==
    ASSUME TypeOK, CopyRuns, [Next]_vars
    PROVE  CopyRuns'
<1> SUFFICES ASSUME NEW o \in Operators, pc'[o] = "put"
             PROVE  log'[copy'[o]].size = 1
  BY DEF CopyRuns
<1>1. \A i \in 1..Len(log) : log'[i] = log[i]
  BY LogStaysTyped
<1>2. CASE pc[o] = "put" /\ copy'[o] = copy[o]
  <2>1. copy[o] \in 1..Len(log)
    BY <1>2 DEF TypeOK, StoreTypeOK
  <2> QED
    BY <1>1, <1>2, <2>1 DEF CopyRuns
<1>3. CASE Get(o)
  <2>1. seen[o] \in 1..Len(log) /\ Cached(o).size \in 0..1
    BY SuspendAssumption, VersionFields DEF TypeOK, StoreTypeOK, Cached
  <2>2. Cached(o).size > 0 /\ copy'[o] = seen[o]
    BY <1>3 DEF Get, Continue, Return, TypeOK
  <2> QED
    BY <1>1, <2>1, <2>2 DEF Cached
<1>4. (pc[o] = "put" /\ copy'[o] = copy[o]) \/ Get(o)
  <2>1. CASE UNCHANGED callVars
    BY <2>1 DEF callVars
  <2>2. ASSUME NEW q \in Operators, NEW p \in Policies, Call(q, p) \/ FirstReadFails(q, p)
        PROVE  pc[o] = "put" /\ copy'[o] = copy[o]
    BY <2>2 DEF Call, FirstReadFails, TypeOK
  <2>3. ASSUME NEW q \in Operators, NEW r, Return(q, r)
        PROVE  pc[o] = "put" /\ copy'[o] = copy[o]
    BY <2>3 DEF Return, TypeOK
  <2>4. ASSUME NEW q \in Operators, Proceed(q)
        PROVE  (pc[o] = "put" /\ copy'[o] = copy[o]) \/ Get(o)
    <3>1. CASE Get(q) /\ q # o
      BY <3>1 DEF Get, Continue, Return, TypeOK
    <3>2. CASE Conflict(q)
      BY <3>2 DEF Conflict, Continue, Return, TypeOK
    <3> QED
      BY <2>3, <2>4, <3>1, <3>2 DEF Proceed, Put
  <2> QED
    BY <2>1, <2>2, <2>3, <2>4
    DEF Next, vars, callVars, Fault, CallFails, ResponseLost, Crash
<1> QED
  BY <1>2, <1>3, <1>4

-----------------------------------------------------------------------------
\* The update of a call suspends a CronJob that runs, and signs it: the compare and
\* swap makes the copy it took the version it replaces.
LEMMA UpdateSuspends ==
    ASSUME TypeOK, CopyRuns, NEW o \in Operators, pc[o] = "put", copy[o] = Len(log),
           log' = Append(log, Suspended(o))
    PROVE  pol[o] \in Policies \ DryRun /\ Contract!Suspend(pol[o])
<1>1. Latest.size = 1 /\ pol[o] \in Policies \ DryRun
  BY DEF CopyRuns, Latest, TypeOK
<1>2. Suspended(o) \in Version /\ Suspended(o).ann # None
  BY SuspendedIsVersion
<1>3. Latest' = Suspended(o)
  BY <1>2 DEF Latest, TypeOK, StoreTypeOK
<1>4. Latest'.size = 0 /\ Latest'.ann = [by |-> pol[o], prev |-> 0] /\ Latest'.ann # None
  BY <1>2, <1>3 DEF Suspended
<1>5. Signer(Latest)' = pol[o]
  BY <1>4 DEF Signer
<1> QED
  BY <1>1, <1>4, <1>5 DEF Contract!Suspend

\* A step of a call leaves the log alone, or is its update.
LEMMA CallWrites ==
    ASSUME TypeOK, [Next]_vars, NEW o \in Operators, pc'[o] # pc[o]
    PROVE  \/ UNCHANGED log
           \/ pc[o] = "put" /\ copy[o] = Len(log) /\ log' = Append(log, Suspended(o))
<1>1. ASSUME NEW q \in Operators, NEW r, Return(q, r)
      PROVE  q = o
  BY <1>1 DEF Return, TypeOK
<1>2. CASE UNCHANGED pc
  BY <1>2
<1>3. CASE \E q \in Operators : Put(q) \/ ResponseLost(q)
  BY <1>1, <1>3 DEF Put, ResponseLost, Accepts
<1>4. CASE \E q \in Operators :
             \/ \E p \in Policies : Call(q, p) \/ FirstReadFails(q, p)
             \/ Get(q) \/ Conflict(q) \/ CallFails(q) \/ Crash(q)
  BY <1>4 DEF Call, FirstReadFails, Get, Conflict, CallFails, Crash, storeVars
<1> QED
  BY <1>2, <1>3, <1>4 DEF Next, Proceed, Fault, vars, callVars

\* Whatever the caches show and whoever else writes, all that a call does to a CronJob
\* is to suspend it while it runs and to sign it for its policy in the same update.
THEOREM SuspendsRunning == Spec => SuspendsOnlyRunning
<1>1. Init => CopyRuns
  BY DEF Init, CopyRuns
<1>2. TypeOK /\ CopyRuns /\ [Next]_vars => CopyRuns'
  BY CopyRunsStep
<1>3. TypeOK /\ CopyRuns /\ [Next]_vars =>
        \A o \in Operators : pc'[o] # pc[o] => UNCHANGED log \/ Contract!Suspend(pol[o])
  BY CallWrites, UpdateSuspends
<1> QED
  BY <1>1, <1>2, <1>3, TypeCorrect, PTL DEF Spec, SuspendsOnlyRunning

-----------------------------------------------------------------------------
\* Every step of the calls is a step of the contract on the live object, or leaves
\* its size and its signature as they are.
LEMMA ContractStep ==
    ASSUME TypeOK, TypeOK', CopyRuns, [Next]_vars
    PROVE  [Contract!Next]_<<Latest.size, Signer(Latest)>>
<1>1. /\ log \in Seq(Version) /\ Len(log) \in Nat \ {0}
      /\ Latest \in Version /\ Latest.size \in 0..1
  BY SuspendAssumption, VersionFields DEF TypeOK, StoreTypeOK, Latest
<1>2. ASSUME NEW e, log' = Append(log, e)
      PROVE  Latest' = e
  BY <1>1, <1>2 DEF Latest
<1>3. CASE UNCHANGED log
  BY <1>3 DEF Latest, Signer
<1>4. ASSUME NEW n \in ExternalSizes \cup {Latest.size},
             log' = Append(log, [size |-> n, ann |-> Latest.ann, writer |-> "external"])
      PROVE  [Contract!Next]_<<Latest.size, Signer(Latest)>>
  <2>1. Latest'.size = n /\ Latest'.ann = Latest.ann
    BY <1>2, <1>4
  <2>2. Signer(Latest)' = Signer(Latest)
    BY <2>1 DEF Signer
  <2>3. CASE n \in ExternalSizes
    BY <2>1, <2>2, <2>3 DEF Contract!Next, Contract!Rescale
  <2>4. CASE n = Latest.size
    BY <2>1, <2>2, <2>4
  <2> QED
    BY <2>3, <2>4
<1>5. ASSUME NEW o \in Operators, pc[o] = "put", copy[o] = Len(log),
             log' = Append(log, Suspended(o))
      PROVE  [Contract!Next]_<<Latest.size, Signer(Latest)>>
  BY <1>5, UpdateSuspends DEF Contract!Next
<1> QED
  BY <1>3, <1>4, <1>5, LogGrows

\* Whatever the caches show, however many instances, retries and faults there are,
\* the operator's part in the life of a CronJob is to suspend it while it runs and to
\* sign it in the same step, for a policy that is no dry run.
THEOREM ContractHolds == Spec => ImplementsContract
<1>1. Init => CopyRuns /\ Contract!Init
  <2> SUFFICES ASSUME Init
               PROVE  CopyRuns /\ Contract!Init
    OBVIOUS
  <2>1. PICK n \in ExternalSizes :
          log = <<[size |-> n, ann |-> None, writer |-> "external"]>>
    BY DEF Init, StoreInit
  <2>2. Latest = [size |-> n, ann |-> None, writer |-> "external"]
    BY <2>1 DEF Latest
  <2> QED
    BY <2>2 DEF Init, CopyRuns, Contract!Init, Signer
<1>2. TypeOK /\ CopyRuns /\ [Next]_vars => CopyRuns'
  BY CopyRunsStep
<1>3. TypeOK /\ TypeOK' /\ CopyRuns /\ [Next]_vars
        => [Contract!Next]_<<Latest.size, Signer(Latest)>>
  BY ContractStep
<1> QED
  BY <1>1, <1>2, <1>3, TypeCorrect, PTL DEF Spec, ImplementsContract, Contract!Spec
=============================================================================
