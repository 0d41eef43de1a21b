--------------------------- MODULE Ownership_proofs ---------------------------
(***************************************************************************)
(* Proofs about Ownership: for any names, events and lags of the caches,   *)
(* what is stopped once owned the failing pod, and a healthy replica       *)
(* protects its workload in a steady evaluation, as long as no workload is *)
(* made again under the name of a deleted one.                             *)
(***************************************************************************)
EXTENDS Ownership, TLAPS

-----------------------------------------------------------------------------
(* Types.  What a name belongs to depends on the kind; an evaluation is one  *)
(* of four records.                                                          *)

TopKind == {"Deployment", "StatefulSet", "CronJob"}

WellNamed(x) ==
    /\ x.kind \in TopKind => x.name \in Names
    /\ x.kind \in {"ReplicaSet", "Job"} => x.name \in ChildNames
    /\ x.kind = "Pod" => x.name \in PodNames

Things == {o \in Object : o.uid # 0 /\ WellNamed(o) /\ \A r \in o.refs : WellNamed(r)}

Resolving == [at : {"resolve"}, pod : Things, all : BOOLEAN, steady : BOOLEAN]

Resolved == [at : {"desired", "jobs", "pods", "act"}, pod : Things, all : BOOLEAN,
             steady : BOOLEAN, owner : Names]

Sampled == [at : {"pods", "act"}, pod : Things, all : BOOLEAN, steady : BOOLEAN,
            owner : Names, job : ChildNames]

Passes == {NoPass} \cup Resolving \cup Resolved \cup Sampled

\* The pass, and that the pods of a CronJob are those of a Job.
PassTypeOK ==
    /\ pass \in Passes
    /\ pass.at = "pods" /\ family = "CronJob" => pass \in Sampled

ObjectsTypeOK ==
    /\ objects \in SUBSET Things
    /\ \A o, q \in objects : o.kind = q.kind /\ o.name = q.name => o = q
    /\ lastUid \in Nat

CacheTypeOK ==
    /\ cache \in [Kind -> SUBSET Things]
    /\ \A k \in Kind : \A o \in cache[k] : o.kind = k

Typed ==
    /\ family \in Families
    /\ ObjectsTypeOK
    /\ CacheTypeOK
    /\ PassTypeOK
    /\ events \in 0..MaxEvents

\* The fields of a pass at each of its places.
LEMMA PassFields ==
    ASSUME NEW q \in Passes
    PROVE  /\ q = NoPass <=> q.at = "idle"
           /\ q.at \in Place
           /\ q # NoPass => q.pod \in Things /\ q.all \in BOOLEAN /\ q.steady \in BOOLEAN
           /\ q.at \notin {"idle", "resolve"} => q.owner \in Names
           /\ q \in Sampled => q.job \in ChildNames
BY DEF Passes, NoPass, Resolving, Resolved, Sampled, Place

LEMMA TypedIsTypeOK == Typed => TypeOK
<1> SUFFICES ASSUME Typed
             PROVE  TypeOK
  OBVIOUS
<1>1. \A o \in Things : o \in Object
  BY DEF Things
<1>2. IsPass(pass)
  BY <1>1, PassFields DEF Typed, PassTypeOK, IsPass
<1> QED
  BY <1>1, <1>2 DEF Typed, ObjectsTypeOK, CacheTypeOK, TypeOK

\* An evaluation that an event meets only loses its steadiness.
LEMMA UnsteadyIsTyped ==
    ASSUME Typed, Unsteady
    PROVE  /\ pass' \in Passes /\ pass'.at = pass.at
           /\ pass = NoPass => pass' = NoPass
           /\ pass # NoPass => pass'.pod = pass.pod /\ ~pass'.steady
           /\ pass.at \notin {"idle", "resolve"} => pass'.owner = pass.owner
           /\ pass \in Sampled => pass' \in Sampled
BY DEF Typed, PassTypeOK, Unsteady, Passes, NoPass, Resolving, Resolved, Sampled

LEMMA GoToIsTyped ==
    ASSUME Typed, NEW place \in {"desired", "jobs", "pods", "act"}, GoTo(place),
           \/ pass.at \in {"desired", "jobs"}
           \/ pass.at = "pods" /\ place = "act"
    PROVE  /\ pass' \in Passes /\ pass'.at = place /\ pass'.pod = pass.pod
           /\ pass'.owner = pass.owner
BY DEF Typed, PassTypeOK, GoTo, Passes, NoPass, Resolving, Resolved, Sampled

-----------------------------------------------------------------------------
\* References to objects and the objects that carry them are well named.
LEMMA ReferenceIsTyped ==
    ASSUME NEW o \in Things, o.kind # "Pod"
    PROVE  /\ ControlledBy(o) \in Reference /\ WellNamed(ControlledBy(o))
           /\ [ControlledBy(o) EXCEPT !.controller = FALSE] \in Reference
           /\ WellNamed([ControlledBy(o) EXCEPT !.controller = FALSE])
           /\ ControlledBy(o).controller /\ ControlledBy(o) # Foreign
           /\ ControlledBy(o).kind = o.kind /\ ControlledBy(o).name = o.name
           /\ ControlledBy(o).uid = o.uid
           /\ ~ [ControlledBy(o) EXCEPT !.controller = FALSE].controller
<1>1. o \in Object /\ WellNamed(o)
  BY DEF Things
<1>2. o.kind \in {"Deployment", "StatefulSet", "CronJob", "ReplicaSet", "Job"} /\ o.uid \in Nat
  BY <1>1 DEF Object, Kind
<1>3. o.name \in Names \cup ChildNames
  BY <1>1, <1>2 DEF WellNamed, TopKind
<1> QED
  BY <1>1, <1>2, <1>3 DEF ControlledBy, Reference, WellNamed, Foreign, Kind, TopKind

\* An object with other references or in another state is the same object.
LEMMA ChangedIsThing ==
    ASSUME NEW o \in Things
    PROVE  /\ \A refs \in SUBSET Reference : (\A r \in refs : WellNamed(r)) =>
                /\ [o EXCEPT !.refs = refs] \in Things
                /\ [o EXCEPT !.refs = refs].refs = refs
                /\ [o EXCEPT !.refs = refs].kind = o.kind
                /\ [o EXCEPT !.refs = refs].name = o.name
                /\ [o EXCEPT !.refs = refs].uid = o.uid
                /\ [o EXCEPT !.refs = refs].label = o.label
           /\ \A s \in {"up", "down", "failing", "healthy"} :
                /\ [o EXCEPT !.state = s] \in Things
                /\ [o EXCEPT !.state = s].refs = o.refs
                /\ [o EXCEPT !.state = s].kind = o.kind
                /\ [o EXCEPT !.state = s].name = o.name
                /\ [o EXCEPT !.state = s].uid = o.uid
                /\ [o EXCEPT !.state = s].label = o.label
           /\ o.refs \in SUBSET Reference /\ \A r \in o.refs : WellNamed(r)
BY DEF Things, Object, WellNamed

\* A reference to another controller of the model carries a UID.
LEMMA ControllersHaveUids ==
    ASSUME NEW o \in Things, NEW r \in Controllers(o)
    PROVE  r.uid \in Nat
<1>1. r \in Reference
  BY DEF Things, Object, Controllers
<1> QED
  BY <1>1 DEF Reference, Foreign

\* A kind of parent is the kind of an object that is no pod.
LEMMA ParentsAreNoPods ==
    ASSUME NEW k \in Kind, NEW p \in ParentKinds(k)
    PROVE  p \in Kind \ {"Pod"} /\ (k = "Job" => p = "CronJob")
BY DEF ParentKinds, Kind

\* One object is added, taken away or changed.
LEMMA AddedIsTyped ==
    ASSUME ObjectsTypeOK, NEW o \in Things, Free(o.kind, o.name),
           objects' = objects \cup {o}, lastUid' \in Nat
    PROVE  ObjectsTypeOK'
BY DEF ObjectsTypeOK, Free, Named, Of

LEMMA ReplacedIsTyped ==
    ASSUME ObjectsTypeOK, NEW o \in objects, NEW new \in Things,
           new.kind = o.kind, new.name = o.name, Replace(o, new)
    PROVE  ObjectsTypeOK'
BY DEF ObjectsTypeOK, Replace

\* An event changes the objects and the steadiness, and is counted.
LEMMA EventIsTyped ==
    ASSUME Typed, Happens, ObjectsTypeOK'
    PROVE  Typed'
<1>1. pass' \in Passes /\ pass'.at = pass.at /\ (pass \in Sampled => pass' \in Sampled)
  BY UnsteadyIsTyped DEF Happens
<1>2. family' = family /\ cache' = cache
  BY DEF Happens
<1>3. PassTypeOK'
  BY <1>1, <1>2 DEF PassTypeOK, Typed
<1>4. events' \in 0..MaxEvents
  BY OwnershipAssumption DEF Happens, Typed
<1> QED
  BY <1>2, <1>3, <1>4 DEF Typed, CacheTypeOK

\* The objects that are made.
LEMMA MadeIsThing ==
    ASSUME Typed
    PROVE  /\ \A n \in Names :
                [kind |-> family, name |-> n, uid |-> lastUid + 1, refs |-> {},
                 label |-> n, state |-> "up"] \in Things
           /\ \A parent \in objects, k \in Kind,
                n \in ChildNames \cup PodNames, s \in {"up", "failing", "healthy"} :
                /\ parent.kind \in ParentKinds(k)
                /\ k = "Pod" => n \in PodNames
                /\ k # "Pod" => n \in ChildNames
                => [kind |-> k, name |-> n, uid |-> lastUid + 1,
                    refs |-> {ControlledBy(parent)}, label |-> parent.label,
                    state |-> s] \in Things
<1>1. family \in TopKind /\ family \in Kind /\ lastUid + 1 \in Nat
      /\ lastUid + 1 # 0
  BY OwnershipAssumption DEF Typed, ObjectsTypeOK, TopKind, Kind
<1>2. ASSUME NEW n \in Names
      PROVE  [kind |-> family, name |-> n, uid |-> lastUid + 1, refs |-> {},
              label |-> n, state |-> "up"] \in Things
  BY <1>1 DEF Things, Object, WellNamed, TopKind
<1>3. ASSUME NEW parent \in objects, NEW k \in Kind, NEW n \in ChildNames \cup PodNames,
             NEW s \in {"up", "failing", "healthy"}, parent.kind \in ParentKinds(k),
             k = "Pod" => n \in PodNames, k # "Pod" => n \in ChildNames
      PROVE  [kind |-> k, name |-> n, uid |-> lastUid + 1, refs |-> {ControlledBy(parent)},
              label |-> parent.label, state |-> s] \in Things
  <2>1. parent \in Things /\ parent.kind # "Pod"
    BY <1>3, ParentsAreNoPods DEF Typed, ObjectsTypeOK
  <2>2. ControlledBy(parent) \in Reference /\ WellNamed(ControlledBy(parent))
    BY <2>1, ReferenceIsTyped
  <2>3. parent.label \in Names
    BY <2>1 DEF Things, Object
  <2>4. k \notin TopKind
    BY <1>3 DEF ParentKinds, TopKind
  <2> HIDE DEF ControlledBy
  <2> DEFINE c == ControlledBy(parent)
             new == [kind |-> k, name |-> n, uid |-> lastUid + 1, refs |-> {c},
                     label |-> parent.label, state |-> s]
  <2>5. new \in Object /\ new.refs = {c} /\ new.kind = k /\ new.name = n
        /\ new.uid # 0
    BY <1>1, <1>3, <2>2, <2>3 DEF Object
  <2>6. WellNamed(new)
    BY <1>3, <2>4, <2>5 DEF WellNamed, Kind, TopKind
  <2> QED
    BY <2>2, <2>5, <2>6 DEF Things
<1> QED
  BY <1>2, <1>3

\* What happens outside keeps the types.
LEMMA TypedOutside ==
    ASSUME Typed, Outside
    PROVE  Typed'
<1>1. objects \in SUBSET Things /\ ObjectsTypeOK /\ lastUid + 1 \in Nat /\ family \in TopKind
  BY OwnershipAssumption DEF Typed, ObjectsTypeOK, TopKind
<1>2. ASSUME NEW n \in Names, MakeWorkload(n)
      PROVE  Typed'
  <2> DEFINE new == [kind |-> family, name |-> n, uid |-> lastUid + 1, refs |-> {},
                     label |-> n, state |-> "up"]
  <2>1. new \in Things /\ new.kind = family /\ new.name = n
    BY MadeIsThing
  <2>2. objects' = objects \cup {new} /\ lastUid' = lastUid + 1 /\ Free(family, n) /\ Happens
    BY <1>2 DEF MakeWorkload
  <2> HIDE DEF new
  <2>3. ObjectsTypeOK'
    BY <1>1, <2>1, <2>2, AddedIsTyped
  <2> QED
    BY <2>2, <2>3, EventIsTyped
<1>3. ASSUME NEW parent \in objects, NEW k \in Kind, NEW n \in ChildNames \cup PodNames,
             NEW s \in {"up", "failing", "healthy"}, MakeChild(parent, k, n, s),
             k = "Pod" => n \in PodNames, k # "Pod" => n \in ChildNames
      PROVE  Typed'
  <2> DEFINE new == [kind |-> k, name |-> n, uid |-> lastUid + 1,
                     refs |-> {ControlledBy(parent)}, label |-> parent.label, state |-> s]
  <2>1. objects' = objects \cup {new} /\ lastUid' = lastUid + 1 /\ Free(k, n) /\ Happens
        /\ parent.kind \in ParentKinds(k)
    BY <1>3 DEF MakeChild
  <2>2. new \in Things /\ new.kind = k /\ new.name = n
    BY <1>3, <2>1, MadeIsThing
  <2> HIDE DEF new
  <2>3. ObjectsTypeOK'
    BY <1>1, <2>1, <2>2, AddedIsTyped
  <2> QED
    BY <2>1, <2>3, EventIsTyped
<1>4. ASSUME NEW o \in objects, Delete(o)
      PROVE  Typed'
  <2>1. ObjectsTypeOK' /\ Happens
    BY <1>1, <1>4 DEF Delete, ObjectsTypeOK
  <2> QED
    BY <2>1, EventIsTyped
<1>5. ASSUME NEW o \in objects, Release(o)
      PROVE  Typed'
  <2>1. PICK by \in {{}, {Foreign}} :
          Replace(o, [o EXCEPT !.refs = (o.refs \ Controllers(o)) \cup by]) /\ Happens
    BY <1>5 DEF Release
  <2>2. \A r \in by : r \in Reference /\ WellNamed(r)
    BY <2>1 DEF Reference, WellNamed, Foreign, TopKind
  <2> DEFINE refs == (o.refs \ Controllers(o)) \cup by
  <2>3. refs \in SUBSET Reference /\ \A r \in refs : WellNamed(r)
    BY <1>1, <2>2, ChangedIsThing
  <2> HIDE DEF refs
  <2>4. /\ [o EXCEPT !.refs = refs] \in Things
        /\ [o EXCEPT !.refs = refs].kind = o.kind /\ [o EXCEPT !.refs = refs].name = o.name
    BY <1>1, <2>3, ChangedIsThing
  <2>5. Replace(o, [o EXCEPT !.refs = refs])
    BY <2>1 DEF refs
  <2>6. ObjectsTypeOK'
    BY <1>1, <2>4, <2>5, ReplacedIsTyped
  <2> QED
    BY <2>1, <2>6, EventIsTyped
<1>6. ASSUME NEW o \in objects, NEW parent \in objects, Adopt(o, parent) \/ AddReference(o, parent)
      PROVE  Typed'
  <2>1. PICK r \in {ControlledBy(parent), [ControlledBy(parent) EXCEPT !.controller = FALSE]} :
          Replace(o, [o EXCEPT !.refs = o.refs \cup {r}])
    BY <1>6 DEF Adopt, AddReference
  <2>2. Happens /\ parent.kind \in ParentKinds(o.kind) /\ o \in Things /\ parent \in Things
    BY <1>1, <1>6 DEF Adopt, AddReference
  <2>3. o.kind \in Kind
    BY <2>2 DEF Things, Object
  <2>4. parent.kind # "Pod"
    BY <2>2, <2>3, ParentsAreNoPods
  <2>5. r \in Reference /\ WellNamed(r)
    BY <2>1, <2>2, <2>4, ReferenceIsTyped
  <2> DEFINE refs == o.refs \cup {r}
  <2>6. refs \in SUBSET Reference /\ \A x \in refs : WellNamed(x)
    BY <2>2, <2>5, ChangedIsThing
  <2> HIDE DEF refs
  <2>7. /\ [o EXCEPT !.refs = refs] \in Things
        /\ [o EXCEPT !.refs = refs].kind = o.kind /\ [o EXCEPT !.refs = refs].name = o.name
    BY <2>2, <2>6, ChangedIsThing
  <2>8. Replace(o, [o EXCEPT !.refs = refs])
    BY <2>1 DEF refs
  <2>9. ObjectsTypeOK'
    BY <1>1, <2>7, <2>8, ReplacedIsTyped
  <2> QED
    BY <2>2, <2>9, EventIsTyped
<1>7. ASSUME NEW o \in objects, NEW s \in {"up", "down", "failing", "healthy"}, ChangeState(o, s)
      PROVE  Typed'
  <2>1. Replace(o, [o EXCEPT !.state = s]) /\ Happens /\ o \in Things
    BY <1>1, <1>7 DEF ChangeState
  <2>2. ObjectsTypeOK'
    BY <1>1, <2>1, ChangedIsThing, ReplacedIsTyped
  <2> QED
    BY <2>1, <2>2, EventIsTyped
<1> QED
  BY <1>2, <1>3, <1>4, <1>5, <1>6, <1>7 DEF Outside, Kind

\* A watch delivers the objects of its kind.
LEMMA TypedSync ==
    ASSUME Typed, NEW k \in Kind, Sync(k)
    PROVE  Typed'
<1>1. pass' \in Passes /\ pass'.at = pass.at /\ (pass \in Sampled => pass' \in Sampled)
  BY UnsteadyIsTyped DEF Sync
<1>2. PassTypeOK'
  BY <1>1 DEF Sync, PassTypeOK, Typed
<1>3. CacheTypeOK'
  BY DEF Sync, Typed, CacheTypeOK, ObjectsTypeOK, Of
<1>4. ObjectsTypeOK'
  BY DEF Sync, Typed, ObjectsTypeOK
<1> QED
  BY <1>2, <1>3, <1>4 DEF Sync, Typed

\* A step of the evaluation keeps the types if its new pass is typed.
LEMMA EvaluationIsTyped ==
    ASSUME Typed, Evaluates, PassTypeOK'
    PROVE  Typed'
BY DEF Typed, Evaluates, ObjectsTypeOK, CacheTypeOK

LEMMA NoPassIsTyped ==
    ASSUME pass' = NoPass
    PROVE  PassTypeOK'
BY DEF PassTypeOK, Passes, NoPass

\* The owner found for a pod has the name of a workload of the family.
LEMMA OwnerIsNamed ==
    ASSUME Typed, NEW pod \in Things, NEW n \in OwnerWorkload(pod)
    PROVE  /\ n \in Names
           /\ \/ \E r \in Controllers(pod) : IsFamily(r) /\ r.name = n
              \/ \E r \in Controllers(pod) \ {Foreign}, k \in {"ReplicaSet", "Job"} :
                   \E o \in cache[k] :
                     /\ r.uid = o.uid
                     /\ \E x \in Controllers(o) : IsFamily(x) /\ x.name = n
<1>1. family \in TopKind /\ family # "Other"
  BY OwnershipAssumption DEF Typed, TopKind
<1>2. CASE \E r \in Controllers(pod) : IsFamily(r) /\ r.name = n
  <2>1. PICK r \in Controllers(pod) : IsFamily(r) /\ r.name = n
    BY <1>2
  <2>2. WellNamed(r)
    BY <2>1, ChangedIsThing DEF Controllers
  <2> QED
    BY <1>1, <1>2, <2>1, <2>2 DEF WellNamed, IsFamily
<1>3. CASE \E o \in ReferredTo(pod) : \E x \in Controllers(o) : IsFamily(x) /\ x.name = n
  <2>1. PICK o \in ReferredTo(pod) : \E x \in Controllers(o) : IsFamily(x) /\ x.name = n
    BY <1>3
  <2>2. PICK r \in Controllers(pod) \ {Foreign} : o \in Named(r.name, cache[r.kind])
    BY <2>1 DEF ReferredTo
  <2>3. PICK q \in Controllers(pod) : q.uid = o.uid
    BY <2>1 DEF ReferredTo
  <2>4. r.kind \in Kind
    BY <2>2, ChangedIsThing DEF Controllers, Reference, Foreign
  <2>5. o \in cache[r.kind] /\ o.kind = r.kind /\ o \in Things /\ o.kind \in {"ReplicaSet", "Job"}
    BY <2>1, <2>2, <2>4 DEF Named, Typed, CacheTypeOK, ReferredTo
  <2>6. \A x \in Controllers(o) : WellNamed(x)
    BY <2>5, ChangedIsThing DEF Controllers
  <2>7. n \in Names
    BY <1>1, <2>1, <2>6 DEF WellNamed, IsFamily
  <2>8. q # Foreign
    BY <2>3, <2>5 DEF Things, Foreign
  <2> QED
    BY <2>1, <2>3, <2>5, <2>7, <2>8
<1> QED
  BY <1>2, <1>3 DEF OwnerWorkload

\* The steps of an evaluation keep the types.
LEMMA TypedEvaluation ==
    ASSUME Typed,
           \/ \E pod \in cache["Pod"], all \in BOOLEAN : Start(pod, all)
           \/ Evaluation \/ Fails
    PROVE  Typed'
<1>1. pass \in Passes /\ cache \in [Kind -> SUBSET Things]
  BY DEF Typed, PassTypeOK, CacheTypeOK
<1>2. ASSUME NEW pod \in cache["Pod"], NEW all \in BOOLEAN, Start(pod, all)
      PROVE  Typed'
  <2>1. pod \in Things
    BY <1>1 DEF Kind
  <2>2. pass' = [at |-> "resolve", pod |-> pod, all |-> all, steady |-> TRUE]
    BY <1>2 DEF Start
  <2>3. pass' \in Resolving /\ pass'.at = "resolve"
    BY <2>1, <2>2 DEF Resolving
  <2>4. PassTypeOK'
    BY <2>3 DEF PassTypeOK, Passes
  <2> QED
    BY <1>2, <2>4, EvaluationIsTyped DEF Start
<1>3. ASSUME Evaluates, pass' = NoPass
      PROVE  Typed'
  BY <1>3, NoPassIsTyped, EvaluationIsTyped
<1>4. CASE Resolve
  <2>1. PICK n \in OwnerWorkload(pass.pod) :
          pass' = [at |-> IF pass.all THEN "desired" ELSE "act", pod |-> pass.pod,
                   all |-> pass.all, steady |-> pass.steady, owner |-> n]
    BY <1>4 DEF Resolve
  <2>2. pass.pod \in Things /\ pass.all \in BOOLEAN /\ pass.steady \in BOOLEAN
    BY <1>1, <1>4, PassFields DEF Resolve
  <2>3. n \in Names
    BY <2>2, OwnerIsNamed
  <2>4. PICK place \in {"desired", "act"} :
          pass' = [at |-> place, pod |-> pass.pod, all |-> pass.all,
                   steady |-> pass.steady, owner |-> n]
    BY <2>1
  <2>5. pass' \in Resolved /\ pass'.at = place
    BY <2>2, <2>3, <2>4 DEF Resolved
  <2>6. PassTypeOK'
    BY <2>5 DEF PassTypeOK, Passes
  <2> QED
    BY <1>4, <2>6, EvaluationIsTyped DEF Resolve
<1>5. CASE ReadDesired
  <2>1. CASE pass' = NoPass
    BY <1>3, <1>5, <2>1 DEF ReadDesired
  <2>2. CASE pass' # NoPass
    <3>1. PICK place \in {"jobs", "pods"} :
            GoTo(place) /\ (family = "CronJob" => place = "jobs")
      BY <1>5, <2>2 DEF ReadDesired
    <3>2. pass' \in Passes /\ pass'.at = place
      BY <1>5, <3>1, GoToIsTyped DEF ReadDesired
    <3>3. family' = family
      BY <1>5 DEF ReadDesired, Evaluates
    <3>4. PassTypeOK'
      BY <3>1, <3>2, <3>3 DEF PassTypeOK
    <3> QED
      BY <1>5, <3>4, EvaluationIsTyped DEF ReadDesired
  <2> QED
    BY <2>1, <2>2
<1>6. CASE ReadJobs
  <2>1. CASE pass' = NoPass
    BY <1>3, <1>6, <2>1 DEF ReadJobs
  <2>2. CASE pass' # NoPass
    <3>1. PICK latest \in OwnedJobs :
            pass' = [at |-> "pods", pod |-> pass.pod, all |-> pass.all,
                     steady |-> pass.steady, owner |-> pass.owner, job |-> latest.name]
      BY <1>6, <2>2 DEF ReadJobs
    <3>2. latest \in Things /\ latest.kind = "Job"
      BY <1>1 DEF OwnedJobs, Kind, Typed, CacheTypeOK
    <3>3. latest.name \in ChildNames
      BY <3>2 DEF Things, WellNamed
    <3>4. /\ pass.pod \in Things /\ pass.all \in BOOLEAN /\ pass.steady \in BOOLEAN
          /\ pass.owner \in Names
      BY <1>1, <1>6, PassFields DEF ReadJobs, NoPass
    <3>5. pass' \in Sampled
      BY <3>1, <3>3, <3>4 DEF Sampled
    <3>6. PassTypeOK'
      BY <3>5 DEF PassTypeOK, Passes
    <3> QED
      BY <1>6, <3>6, EvaluationIsTyped DEF ReadJobs
  <2> QED
    BY <2>1, <2>2
<1>7. CASE ReadPods
  <2>1. CASE pass' = NoPass
    BY <1>3, <1>7, <2>1 DEF ReadPods
  <2>2. CASE pass' # NoPass
    <3>1. GoTo("act")
      BY <1>7, <2>2 DEF ReadPods
    <3>2. pass' \in Passes /\ pass'.at = "act"
      BY <1>7, <3>1, GoToIsTyped DEF ReadPods
    <3>3. PassTypeOK'
      BY <3>2 DEF PassTypeOK
    <3> QED
      BY <1>7, <3>3, EvaluationIsTyped DEF ReadPods
  <2> QED
    BY <2>1, <2>2
<1>8. CASE Act
  <2>1. objects \in SUBSET Things /\ Live \in SUBSET objects
    BY DEF Typed, ObjectsTypeOK, Live, Named, Of
  <2>2. \A w \in Live : /\ [w EXCEPT !.state = "down"] \in Things
                        /\ [w EXCEPT !.state = "down"].kind = w.kind
                        /\ [w EXCEPT !.state = "down"].name = w.name
    BY <2>1, ChangedIsThing
  <2>3. objects' = (objects \ Live) \cup {[w EXCEPT !.state = "down"] : w \in Live}
    BY <1>8 DEF Act
  <2>4. objects' \in SUBSET Things
    BY <2>1, <2>2, <2>3
  <2>5. \A o, q \in objects' : o.kind = q.kind /\ o.name = q.name => o = q
    <3>1. \A o, q \in objects : o.kind = q.kind /\ o.name = q.name => o = q
      BY DEF Typed, ObjectsTypeOK
    <3>2. \A x \in objects' : \E y \in objects :
             /\ x.kind = y.kind /\ x.name = y.name
             /\ x = IF y \in Live THEN [y EXCEPT !.state = "down"] ELSE y
      BY <2>1, <2>2, <2>3
    <3> QED
      BY <3>1, <3>2
  <2>6. ObjectsTypeOK'
    BY <1>8, <2>4, <2>5 DEF Act, Typed, ObjectsTypeOK
  <2>7. PassTypeOK'
    BY <1>8, NoPassIsTyped DEF Act
  <2> QED
    BY <1>8, <2>6, <2>7 DEF Act, Typed, CacheTypeOK
<1>9. CASE Fails
  <2>1. PassTypeOK' /\ events' \in 0..MaxEvents
    BY <1>9, OwnershipAssumption, NoPassIsTyped DEF Fails, Typed
  <2> QED
    BY <1>9, <2>1 DEF Fails, Typed, ObjectsTypeOK, CacheTypeOK
<1>10. CASE ResolveNothing
  BY <1>3, <1>10 DEF ResolveNothing
<1> QED
  BY <1>2, <1>4, <1>5, <1>6, <1>7, <1>8, <1>9, <1>10 DEF Evaluation

LEMMA TypedStays == Typed /\ [Next]_vars => Typed'
<1> SUFFICES ASSUME Typed, [Next]_vars
             PROVE  Typed'
  OBVIOUS
<1>1. CASE UNCHANGED vars
  BY <1>1 DEF vars, Typed, ObjectsTypeOK, CacheTypeOK, PassTypeOK
<1> QED
  BY <1>1, TypedEvaluation, TypedSync, TypedOutside DEF Next

-----------------------------------------------------------------------------
(* StopsTheOwner.  A name leads to the right workload because it never names *)
(* another: neither in the API server, nor in the cache, nor later.          *)

\* A name that has belonged to the workload u, and belongs to no other one.
Spent(n, u) ==
    /\ n \in deleted \/ \E w \in objects : w.kind = family /\ w.name = n
    /\ \A w \in objects \cup cache[family] : w.kind = family /\ w.name = n => w.uid = u

\* What is known of an object that was seen once.
Known(o) ==
    /\ o.kind = family => Spent(o.name, o.uid)
    /\ \A r \in Controllers(o) \ {Foreign} : <<o.uid, r.uid>> \in owned
    /\ \A r \in Controllers(o) : IsFamily(r) => Spent(r.name, r.uid)

\* u has controlled c, or what controlled c.
Led(c, u) == u \in ControllersEver({c}) \/ u \in ControllersEver(ControllersEver({c}))

ObjectsKnown == \A o \in objects : Known(o)
CacheKnown == \A k \in Kind : \A o \in cache[k] : Known(o)

PassKnown ==
    /\ pass # NoPass => Known(pass.pod)
    /\ pass.at \notin {"idle", "resolve"} =>
         \E u \in Nat : Spent(pass.owner, u) /\ Led(pass.pod.uid, u)

Lineage == ObjectsKnown /\ CacheKnown /\ PassKnown

\* A step that gives no name away that was in use before, and forgets nothing.
Keeps ==
    /\ family' = family
    /\ deleted \subseteq deleted'
    /\ owned \subseteq owned'
    /\ \A w \in objects : w.kind = family =>
         w.name \in deleted' \/ \E v \in objects' : v.kind = family /\ v.name = w.name
    /\ \A v \in objects' \cup cache'[family] : v.kind = family =>
         \/ \E w \in objects \cup cache[family] :
              w.kind = family /\ w.name = v.name /\ w.uid = v.uid
         \/ v.name \notin deleted /\ Free(family, v.name)

LEMMA SpentStays ==
    ASSUME Keeps, NEW n, NEW u, Spent(n, u)
    PROVE  Spent(n, u)'
<1>1. n \in deleted' \/ \E w \in objects' : w.kind = family' /\ w.name = n
  BY DEF Keeps, Spent
<1>2. ASSUME NEW v \in objects' \cup cache'[family'], v.kind = family', v.name = n
      PROVE  v.uid = u
  <2>1. family' = family
    BY DEF Keeps
  <2>2. CASE \E w \in objects \cup cache[family] :
               w.kind = family /\ w.name = v.name /\ w.uid = v.uid
    BY <1>2, <2>2 DEF Spent
  <2>3. CASE v.name \notin deleted /\ Free(family, v.name)
    BY <1>2, <2>3 DEF Spent, Free, Named, Of
  <2> QED
    BY <1>2, <2>1, <2>2, <2>3 DEF Keeps
<1> QED
  BY <1>1, <1>2 DEF Spent

LEMMA KnownStays ==
    ASSUME Keeps, NEW o, Known(o)
    PROVE  Known(o)'
<1>1. family' = family /\ owned \subseteq owned'
  BY DEF Keeps
<1> QED
  BY <1>1, SpentStays DEF Known, Controllers, IsFamily

LEMMA LedStays ==
    ASSUME Keeps, NEW c, NEW u, Led(c, u)
    PROVE  Led(c, u)'
BY DEF Keeps, Led, ControllersEver

\* An evaluation that goes on with the same pod and owner.
LEMMA PassKnownStays ==
    ASSUME Keeps, PassKnown,
           pass' # NoPass => pass # NoPass /\ pass'.pod = pass.pod,
           pass'.at \notin {"idle", "resolve"} =>
              pass' # NoPass /\ pass.at \notin {"idle", "resolve"} /\ pass'.owner = pass.owner
    PROVE  PassKnown'
<1>1. ASSUME pass' # NoPass
      PROVE  Known(pass.pod)'
  <2>1. Known(pass.pod) /\ pass'.pod = pass.pod
    BY <1>1 DEF PassKnown
  <2>2. ASSUME NEW o, o = pass.pod
        PROVE  Known(o)'
    BY <2>1, <2>2, KnownStays
  <2> QED
    BY <2>1, <2>2 DEF Known, Spent, Controllers, IsFamily
<1>2. ASSUME pass'.at \notin {"idle", "resolve"}
      PROVE  (\E u \in Nat : Spent(pass.owner, u) /\ Led(pass.pod.uid, u))'
  <2>1. pass'.owner = pass.owner /\ pass'.pod = pass.pod
    BY <1>2
  <2>2. PICK u \in Nat : Spent(pass.owner, u) /\ Led(pass.pod.uid, u)
    BY <1>2 DEF PassKnown
  <2>3. ASSUME NEW n, NEW c, n = pass.owner, c = pass.pod.uid
        PROVE  Spent(n, u)' /\ Led(c, u)'
    BY <2>2, <2>3, SpentStays, LedStays
  <2>4. Spent(pass.owner, u)' /\ Led(pass.pod.uid, u)'
    BY <2>1, <2>3 DEF Spent, Led, ControllersEver
  <2> QED
    BY <2>4
<1>3. /\ (pass # NoPass => Known(pass.pod))'
      /\ (pass.at \notin {"idle", "resolve"} =>
            \E u \in Nat : Spent(pass.owner, u) /\ Led(pass.pod.uid, u))'
  BY <1>1, <1>2
<1> QED
  BY <1>3 DEF PassKnown

\* After a step that keeps names and forgets nothing, what was known is known.
LEMMA LineageKept ==
    ASSUME Lineage, Keeps, cache' = cache, PassKnown',
           \A o \in objects' : o \in objects \/ Known(o)'
    PROVE  Lineage'
<1>1. ObjectsKnown'
  BY KnownStays DEF Lineage, ObjectsKnown
<1>2. CacheKnown'
  BY KnownStays DEF Lineage, CacheKnown
<1> QED
  BY <1>1, <1>2 DEF Lineage

\* What happens outside leaves the pod and the owner of an evaluation alone.
LEMMA PassKnownUnsteady ==
    ASSUME Typed, Lineage, Keeps, Unsteady
    PROVE  PassKnown'
<1>1. /\ pass' \in Passes /\ pass'.at = pass.at
      /\ pass = NoPass => pass' = NoPass
      /\ pass # NoPass => pass'.pod = pass.pod
      /\ pass.at \notin {"idle", "resolve"} => pass'.owner = pass.owner
  BY UnsteadyIsTyped
<1>2. pass' # NoPass => pass # NoPass /\ pass'.pod = pass.pod
  BY <1>1
<1>3. pass'.at \notin {"idle", "resolve"} =>
        pass' # NoPass /\ pass.at \notin {"idle", "resolve"} /\ pass'.owner = pass.owner
  BY <1>1 DEF NoPass
<1> QED
  BY <1>2, <1>3, PassKnownStays DEF Lineage

\* An object that is replaced by itself in another state, or with a new
\* controller that is known.
LEMMA ReplacedIsKnown ==
    ASSUME Typed, Lineage, NEW o \in objects, NEW new,
           new.kind = o.kind, new.name = o.name, new.uid = o.uid, Replace(o, new),
           Happens, owned \subseteq owned',
           \A r \in Controllers(new) : r \in Controllers(o) \/ r = Foreign
              \/ /\ <<o.uid, r.uid>> \in owned'
                 /\ IsFamily(r) => Spent(r.name, r.uid)
    PROVE  Lineage'
<1>1. family' = family /\ cache' = cache /\ deleted' = deleted /\ Unsteady
      /\ objects' = (objects \ {o}) \cup {new}
  BY DEF Happens, Replace
<1>2. Keeps
  BY <1>1 DEF Keeps
<1>3. Known(o)
  BY DEF Lineage, ObjectsKnown
<1>4. new.kind = family' => Spent(new.name, new.uid)'
  <2>1. ASSUME o.kind = family
        PROVE  Spent(o.name, o.uid)'
    BY <1>2, <1>3, <2>1, SpentStays DEF Known
  <2> QED
    BY <1>1, <2>1 DEF Spent
<1>5. ASSUME NEW r \in Controllers(new)
      PROVE  /\ r # Foreign => <<new.uid, r.uid>> \in owned'
             /\ r.kind = family' => Spent(r.name, r.uid)'
  <2>1. Foreign.kind # family
    BY OwnershipAssumption DEF Typed, Foreign
  <2>2. r # Foreign => <<new.uid, r.uid>> \in owned'
    BY <1>3 DEF Known
  <2>3. r.kind = family => Spent(r.name, r.uid)
    BY <1>3, <2>1 DEF Known, IsFamily
  <2> QED
    BY <1>1, <1>2, <2>2, <2>3, SpentStays
<1>6. Known(new)'
  BY <1>4, <1>5 DEF Known, IsFamily, Controllers
<1>7. PassKnown'
  BY <1>1, <1>2, PassKnownUnsteady
<1> QED
  BY <1>1, <1>2, <1>6, <1>7, LineageKept

\* An object that is made.
LEMMA AddedIsKnown ==
    ASSUME Typed, Lineage, NEW new, objects' = objects \cup {new},
           Happens, deleted' = deleted, owned \subseteq owned',
           new.kind = family =>
              Free(family, new.name) /\ new.name \notin deleted,
           \A r \in Controllers(new) :
              /\ <<new.uid, r.uid>> \in owned'
              /\ IsFamily(r) => Spent(r.name, r.uid)
    PROVE  Lineage'
<1>1. family' = family /\ cache' = cache /\ Unsteady
  BY DEF Happens
<1>2. Keeps
  BY <1>1 DEF Keeps
<1>3. ASSUME new.kind = family
      PROVE  Spent(new.name, new.uid)'
  <2>1. \A w \in objects : ~(w.kind = family /\ w.name = new.name)
    BY <1>3 DEF Free, Named, Of
  <2>2. family \in Kind
    BY OwnershipAssumption DEF Typed, Kind
  <2>3. \A w \in cache[family] : ~(w.kind = family /\ w.name = new.name)
    BY <1>3, <2>1, <2>2 DEF Lineage, CacheKnown, Known, Spent
  <2> QED
    BY <1>1, <1>3, <2>1, <2>3 DEF Spent
<1>4. ASSUME NEW r \in Controllers(new)
      PROVE  r.kind = family' => Spent(r.name, r.uid)'
  BY <1>1, <1>2, SpentStays DEF IsFamily
<1>5. Known(new)'
  BY <1>1, <1>3, <1>4 DEF Known, IsFamily, Controllers
<1>6. PassKnown'
  BY <1>1, <1>2, PassKnownUnsteady
<1> QED
  BY <1>1, <1>2, <1>5, <1>6, LineageKept

\* Without the reuse of names, what happens outside misleads nobody.
LEMMA LineageOutside ==
    ASSUME ReuseNames = FALSE, Typed, Lineage, Outside
    PROVE  Lineage'
<1>1. objects \in SUBSET Things /\ family \in TopKind
  BY OwnershipAssumption DEF Typed, ObjectsTypeOK, TopKind
<1>2. ASSUME NEW n \in Names, MakeWorkload(n)
      PROVE  Lineage'
  <2>1. PICK new : new = [kind |-> family, name |-> n, uid |-> lastUid + 1, refs |-> {},
                          label |-> n, state |-> "up"]
    OBVIOUS
  <2>2. /\ objects' = objects \cup {new} /\ Happens /\ deleted' = deleted /\ owned' = owned
        /\ Free(family, n) /\ n \notin deleted
    BY <1>2, <2>1 DEF MakeWorkload
  <2>3. new.name = n /\ Controllers(new) = {}
    BY <2>1 DEF Controllers
  <2> QED
    BY <2>2, <2>3, AddedIsKnown
<1>3. ASSUME NEW parent \in objects, NEW k \in {"ReplicaSet", "Job", "Pod"}, NEW n, NEW s,
             MakeChild(parent, k, n, s)
      PROVE  Lineage'
  <2>1. PICK new : new = [kind |-> k, name |-> n, uid |-> lastUid + 1,
                          refs |-> {ControlledBy(parent)}, label |-> parent.label,
                          state |-> s]
    OBVIOUS
  <2>2. /\ objects' = objects \cup {new} /\ Happens /\ deleted' = deleted
        /\ owned' = owned \cup {<<lastUid + 1, parent.uid>>}
    BY <1>3, <2>1 DEF MakeChild
  <2>3. /\ ControlledBy(parent).kind = parent.kind /\ ControlledBy(parent).name = parent.name
        /\ ControlledBy(parent).uid = parent.uid
    BY DEF ControlledBy
  <2>4. new.kind = k /\ new.uid = lastUid + 1 /\ Controllers(new) \subseteq {ControlledBy(parent)}
    BY <2>1 DEF Controllers
  <2>5. Known(parent)
    BY DEF Lineage, ObjectsKnown
  <2>6. \A r \in Controllers(new) : /\ <<new.uid, r.uid>> \in owned'
                                    /\ IsFamily(r) => Spent(r.name, r.uid)
    BY <2>2, <2>3, <2>4, <2>5 DEF Known, IsFamily
  <2>7. new.kind # family
    BY <1>1, <2>4 DEF TopKind
  <2> QED
    BY <2>2, <2>6, <2>7, AddedIsKnown
<1>4. ASSUME NEW o \in objects, Delete(o)
      PROVE  Lineage'
  <2>1. /\ objects' = objects \ {o} /\ family' = family /\ cache' = cache /\ owned' = owned
        /\ deleted' = IF o.kind = family THEN deleted \cup {o.name} ELSE deleted
        /\ Unsteady
    BY <1>4 DEF Delete, Happens
  <2>2. Keeps
    BY <2>1 DEF Keeps
  <2>3. PassKnown'
    BY <2>1, <2>2, PassKnownUnsteady
  <2> QED
    BY <2>1, <2>2, <2>3, LineageKept
<1>5. ASSUME NEW o \in objects, Release(o)
      PROVE  Lineage'
  <2>1. PICK by \in {{}, {Foreign}} :
          Replace(o, [o EXCEPT !.refs = (o.refs \ Controllers(o)) \cup by])
    BY <1>5 DEF Release
  <2>2. PICK refs : refs = (o.refs \ Controllers(o)) \cup by
    OBVIOUS
  <2>3. refs \in SUBSET Reference /\ \A r \in refs : WellNamed(r)
    <3>1. \A r \in by : r \in Reference /\ WellNamed(r)
      BY <2>1 DEF Reference, WellNamed, Foreign, TopKind
    <3> QED
      BY <1>1, <2>2, <3>1, ChangedIsThing
  <2>4. PICK new : new = [o EXCEPT !.refs = refs]
    OBVIOUS
  <2>5. new.refs = refs /\ new.kind = o.kind /\ new.name = o.name /\ new.uid = o.uid
    BY <1>1, <2>3, <2>4, ChangedIsThing
  <2>6. \A r \in Controllers(new) : r \in Controllers(o) \/ r = Foreign
    BY <2>2, <2>5 DEF Controllers
  <2>7. Replace(o, new) /\ Happens /\ owned' = owned
    BY <1>5, <2>1, <2>2, <2>4 DEF Release
  <2> QED
    BY <2>5, <2>6, <2>7, ReplacedIsKnown
<1>6. ASSUME NEW o \in objects, NEW parent \in objects, Adopt(o, parent) \/ AddReference(o, parent)
      PROVE  Lineage'
  <2>1. PICK r : /\ Replace(o, [o EXCEPT !.refs = o.refs \cup {r}])
                 /\ \/ r = ControlledBy(parent) /\ owned' = owned \cup {<<o.uid, parent.uid>>}
                    \/ /\ r = [ControlledBy(parent) EXCEPT !.controller = FALSE]
                       /\ owned' = owned
    BY <1>6 DEF Adopt, AddReference
  <2>2. Happens /\ parent.kind \in ParentKinds(o.kind) /\ o \in Things /\ parent \in Things
    BY <1>1, <1>6 DEF Adopt, AddReference
  <2>3. parent.kind # "Pod"
    BY <2>2, ParentsAreNoPods DEF Things, Object
  <2>4. r \in Reference /\ WellNamed(r)
    BY <2>1, <2>2, <2>3, ReferenceIsTyped
  <2>5. r.controller => /\ <<o.uid, r.uid>> \in owned'
                        /\ r.kind = parent.kind /\ r.name = parent.name /\ r.uid = parent.uid
    BY <2>1, <2>2, <2>3, ReferenceIsTyped
  <2>6. Known(parent)
    BY DEF Lineage, ObjectsKnown
  <2>7. PICK refs : refs = o.refs \cup {r}
    OBVIOUS
  <2>8. refs \in SUBSET Reference /\ \A x \in refs : WellNamed(x)
    BY <2>2, <2>4, <2>7, ChangedIsThing
  <2>9. PICK new : new = [o EXCEPT !.refs = refs]
    OBVIOUS
  <2>10. new.refs = refs /\ new.kind = o.kind /\ new.name = o.name /\ new.uid = o.uid
    BY <2>2, <2>8, <2>9, ChangedIsThing
  <2>11. \A x \in Controllers(new) :
           \/ x \in Controllers(o)
           \/ <<o.uid, x.uid>> \in owned' /\ (IsFamily(x) => Spent(x.name, x.uid))
    BY <2>5, <2>6, <2>7, <2>10 DEF Controllers, Known, IsFamily
  <2>12. Replace(o, new) /\ owned \subseteq owned'
    BY <2>1, <2>7, <2>9
  <2> QED
    BY <2>2, <2>10, <2>11, <2>12, ReplacedIsKnown
<1>7. ASSUME NEW o \in objects, NEW s \in {"up", "down", "failing", "healthy"}, ChangeState(o, s)
      PROVE  Lineage'
  <2>1. PICK new : new = [o EXCEPT !.state = s]
    OBVIOUS
  <2>2. Replace(o, new) /\ Happens /\ owned' = owned
    BY <1>7, <2>1 DEF ChangeState
  <2>3. new.refs = o.refs /\ new.kind = o.kind /\ new.name = o.name /\ new.uid = o.uid
    BY <1>1, <2>1, ChangedIsThing
  <2>4. Controllers(new) = Controllers(o)
    BY <2>3 DEF Controllers
  <2> QED
    BY <2>2, <2>3, <2>4, ReplacedIsKnown
<1> QED
  BY <1>2, <1>3, <1>4, <1>5, <1>6, <1>7 DEF Outside

\* The cache takes over what is known of the objects.
LEMMA LineageSync ==
    ASSUME Typed, Lineage, NEW k \in Kind, Sync(k)
    PROVE  Lineage'
<1>1. /\ family' = family /\ objects' = objects /\ owned' = owned /\ deleted' = deleted
      /\ Unsteady /\ cache' = [cache EXCEPT ![k] = Of(k, objects)]
  BY DEF Sync
<1>2. /\ \A m \in Kind : m # k => cache'[m] = cache[m]
      /\ cache'[k] \subseteq objects
  BY <1>1 DEF Typed, CacheTypeOK, Of
<1>3. family \in Kind
  BY OwnershipAssumption DEF Typed, Kind
<1>4. Keeps
  BY <1>1, <1>2, <1>3 DEF Keeps
<1>5. ObjectsKnown'
  BY <1>1, <1>4, KnownStays DEF Lineage, ObjectsKnown
<1>6. \A m \in Kind : \A o \in cache'[m] : Known(o)
  BY <1>2 DEF Lineage, ObjectsKnown, CacheKnown
<1>7. CacheKnown'
  BY <1>4, <1>6, KnownStays DEF CacheKnown
<1>8. PassKnown'
  BY <1>1, <1>4, PassKnownUnsteady
<1> QED
  BY <1>5, <1>7, <1>8 DEF Lineage

LEMMA EvaluatesKeeps ==
    ASSUME Lineage, Evaluates
    PROVE  Keeps
BY DEF Evaluates, Keeps

\* A step that only moves the evaluation on.
LEMMA EvaluationIsKnown ==
    ASSUME Lineage, Evaluates, PassKnown'
    PROVE  Lineage'
<1>1. Keeps /\ cache' = cache /\ objects' = objects
  BY EvaluatesKeeps DEF Evaluates
<1> QED
  BY <1>1, LineageKept

LEMMA NoPassIsKnown ==
    ASSUME pass' = NoPass
    PROVE  PassKnown'
BY DEF PassKnown, NoPass

\* The owner that a known pod is resolved to has owned it, in name and UID.
LEMMA OwnerLed ==
    ASSUME Typed, Lineage, NEW pod \in Things, Known(pod), NEW n \in OwnerWorkload(pod)
    PROVE  \E u \in Nat : Spent(n, u) /\ Led(pod.uid, u)
<1>1. family # "Other" /\ \A r : IsFamily(r) => r # Foreign
  BY OwnershipAssumption DEF Typed, IsFamily, Foreign
<1>2. CASE \E r \in Controllers(pod) : IsFamily(r) /\ r.name = n
  <2>1. PICK r \in Controllers(pod) : IsFamily(r) /\ r.name = n
    BY <1>2
  <2>2. <<pod.uid, r.uid>> \in owned /\ Spent(n, r.uid)
    BY <1>1, <2>1 DEF Known
  <2>3. r.uid \in Nat
    BY <2>1, ControllersHaveUids
  <2>4. Led(pod.uid, r.uid)
    BY <2>2 DEF Led, ControllersEver
  <2> QED
    BY <2>2, <2>3, <2>4
<1>3. CASE \E r \in Controllers(pod) \ {Foreign}, k \in {"ReplicaSet", "Job"} :
             \E o \in cache[k] :
               /\ r.uid = o.uid
               /\ \E x \in Controllers(o) : IsFamily(x) /\ x.name = n
  <2>1. PICK r \in Controllers(pod) \ {Foreign} :
          \E k \in {"ReplicaSet", "Job"} : \E o \in cache[k] :
            r.uid = o.uid /\ \E x \in Controllers(o) : IsFamily(x) /\ x.name = n
    BY <1>3
  <2>2. PICK k \in {"ReplicaSet", "Job"} : \E o \in cache[k] :
            r.uid = o.uid /\ \E x \in Controllers(o) : IsFamily(x) /\ x.name = n
    BY <2>1
  <2>3. PICK o \in cache[k] :
            r.uid = o.uid /\ \E x \in Controllers(o) : IsFamily(x) /\ x.name = n
    BY <2>2
  <2>4. PICK x \in Controllers(o) : IsFamily(x) /\ x.name = n
    BY <2>3
  <2>5. Known(o) /\ o \in Things
    BY <2>2, <2>3 DEF Lineage, CacheKnown, Typed, CacheTypeOK, Kind
  <2>6. <<pod.uid, o.uid>> \in owned
    BY <2>1, <2>3 DEF Known
  <2>7. <<o.uid, x.uid>> \in owned /\ Spent(n, x.uid)
    BY <1>1, <2>4, <2>5 DEF Known
  <2>8. x.uid \in Nat
    BY <2>4, <2>5, ControllersHaveUids
  <2>9. Led(pod.uid, x.uid)
    BY <2>6, <2>7 DEF Led, ControllersEver
  <2> QED
    BY <2>7, <2>8, <2>9
<1> QED
  BY <1>2, <1>3, OwnerIsNamed

\* The steps of an evaluation follow known objects only.
LEMMA LineageEvaluation ==
    ASSUME Typed, Lineage,
           \/ \E pod \in cache["Pod"], all \in BOOLEAN : Start(pod, all)
           \/ Evaluation \/ Fails
    PROVE  Lineage'
<1>1. pass \in Passes
  BY DEF Typed, PassTypeOK
<1>2. ASSUME NEW pod \in cache["Pod"], NEW all \in BOOLEAN, Start(pod, all)
      PROVE  Lineage'
  <2>1. Keeps /\ Evaluates
    BY <1>2, EvaluatesKeeps DEF Start
  <2>2. Known(pod)
    BY DEF Lineage, CacheKnown, Kind
  <2>3. Known(pod)'
    BY <2>1, <2>2, KnownStays
  <2>4. pass'.at = "resolve" /\ pass'.pod = pod
    BY <1>2 DEF Start
  <2>5. (pass # NoPass => Known(pass.pod))'
    BY <2>3, <2>4 DEF Known, Spent, Controllers, IsFamily
  <2>6. PassKnown'
    BY <2>4, <2>5 DEF PassKnown
  <2> QED
    BY <2>1, <2>6, EvaluationIsKnown
<1>3. ASSUME Evaluates, pass' = NoPass
      PROVE  Lineage'
  BY <1>3, NoPassIsKnown, EvaluationIsKnown
<1>4. ASSUME Evaluates, pass' # NoPass, pass.at \notin {"idle", "resolve"},
             pass'.pod = pass.pod, pass'.owner = pass.owner
      PROVE  Lineage'
  <2>1. Keeps /\ pass # NoPass
    BY <1>4, EvaluatesKeeps DEF NoPass
  <2>2. PassKnown'
    BY <1>4, <2>1, PassKnownStays DEF Lineage
  <2> QED
    BY <1>4, <2>2, EvaluationIsKnown
<1>5. CASE Resolve
  <2>1. PICK n \in OwnerWorkload(pass.pod) :
          pass' = [at |-> IF pass.all THEN "desired" ELSE "act", pod |-> pass.pod,
                   all |-> pass.all, steady |-> pass.steady, owner |-> n]
    BY <1>5 DEF Resolve
  <2>2. pass.at = "resolve" /\ pass # NoPass /\ Evaluates /\ Keeps
    BY <1>5, EvaluatesKeeps DEF Resolve, NoPass
  <2>3. PICK pod \in Things : pod = pass.pod
    BY <1>1, <2>2, PassFields
  <2>4. Known(pod)
    BY <2>2, <2>3 DEF Lineage, PassKnown
  <2>5. PICK u \in Nat : Spent(n, u) /\ Led(pod.uid, u)
    BY <2>1, <2>3, <2>4, OwnerLed
  <2>6. Known(pod)' /\ Spent(n, u)' /\ Led(pod.uid, u)'
    BY <2>2, <2>4, <2>5, KnownStays, SpentStays, LedStays
  <2>7. pass'.pod = pod /\ pass'.owner = n
    BY <2>1, <2>3
  <2>8. (pass # NoPass => Known(pass.pod))'
    BY <2>6, <2>7 DEF Known, Spent, Controllers, IsFamily
  <2>9. (\E v \in Nat : Spent(pass.owner, v) /\ Led(pass.pod.uid, v))'
    BY <2>6, <2>7 DEF Spent, Led, ControllersEver
  <2>10. PassKnown'
    BY <2>8, <2>9 DEF PassKnown
  <2> QED
    BY <2>2, <2>10, EvaluationIsKnown
<1>6. CASE ReadDesired
  <2>1. CASE pass' = NoPass
    BY <1>3, <1>6, <2>1 DEF ReadDesired
  <2>2. CASE pass' # NoPass
    <3>1. PICK place \in {"jobs", "pods"} : GoTo(place)
      BY <1>6, <2>2 DEF ReadDesired
    <3>2. pass'.pod = pass.pod /\ pass'.owner = pass.owner
      BY <1>6, <3>1, GoToIsTyped DEF ReadDesired
    <3> QED
      BY <1>4, <1>6, <2>2, <3>2 DEF ReadDesired
  <2> QED
    BY <2>1, <2>2
<1>7. CASE ReadJobs
  <2>1. CASE pass' = NoPass
    BY <1>3, <1>7, <2>1 DEF ReadJobs
  <2>2. CASE pass' # NoPass
    <3>1. pass'.pod = pass.pod /\ pass'.owner = pass.owner
      BY <1>7, <2>2 DEF ReadJobs
    <3> QED
      BY <1>4, <1>7, <2>2, <3>1 DEF ReadJobs
  <2> QED
    BY <2>1, <2>2
<1>8. CASE ReadPods
  <2>1. CASE pass' = NoPass
    BY <1>3, <1>8, <2>1 DEF ReadPods
  <2>2. CASE pass' # NoPass
    <3>1. GoTo("act")
      BY <1>8, <2>2 DEF ReadPods
    <3>2. pass'.pod = pass.pod /\ pass'.owner = pass.owner
      BY <1>8, <3>1, GoToIsTyped DEF ReadPods
    <3> QED
      BY <1>4, <1>8, <2>2, <3>2 DEF ReadPods
  <2> QED
    BY <2>1, <2>2
<1>9. CASE Act
  <2>1. objects \in SUBSET Things /\ Live \in SUBSET objects
    BY DEF Typed, ObjectsTypeOK, Live, Named, Of
  <2>2. /\ objects' = (objects \ Live) \cup {[w EXCEPT !.state = "down"] : w \in Live}
        /\ family' = family /\ cache' = cache /\ owned' = owned /\ deleted' = deleted
        /\ pass' = NoPass
    BY <1>9 DEF Act
  <2>3. \A w \in Live : /\ [w EXCEPT !.state = "down"].refs = w.refs
                        /\ [w EXCEPT !.state = "down"].kind = w.kind
                        /\ [w EXCEPT !.state = "down"].name = w.name
                        /\ [w EXCEPT !.state = "down"].uid = w.uid
    BY <2>1, ChangedIsThing
  <2>4. ASSUME NEW v \in objects'
        PROVE  \E w \in objects :
           v.refs = w.refs /\ v.kind = w.kind /\ v.name = w.name /\ v.uid = w.uid
    <3>1. CASE v \in objects
      BY <3>1
    <3>2. CASE \E w \in Live : v = [w EXCEPT !.state = "down"]
      BY <2>1, <2>3, <3>2
    <3> QED
      BY <2>2, <3>1, <3>2
  <2>5. \A w \in objects : \E v \in objects' : v.kind = w.kind /\ v.name = w.name
    BY <2>1, <2>2, <2>3
  <2>6. Keeps
    <3>1. ASSUME NEW w \in objects, w.kind = family
          PROVE  \E v \in objects' : v.kind = family /\ v.name = w.name
      BY <2>5, <3>1
    <3>2. ASSUME NEW v \in objects' \cup cache'[family], v.kind = family
          PROVE  \E w \in objects \cup cache[family] :
                    w.kind = family /\ w.name = v.name /\ w.uid = v.uid
      <4>1. CASE v \in objects'
        <5>1. PICK w \in objects : w.kind = v.kind /\ w.name = v.name /\ w.uid = v.uid
          BY <2>4, <4>1
        <5> QED
          BY <3>2, <5>1
      <4>2. CASE v \in cache[family]
        BY <3>2, <4>2
      <4> QED
        BY <2>2, <4>1, <4>2
    <3> QED
      BY <2>2, <3>1, <3>2 DEF Keeps
  <2>7. ASSUME NEW v \in objects'
        PROVE  Known(v)'
    <3>1. PICK w \in objects :
            v.refs = w.refs /\ v.kind = w.kind /\ v.name = w.name /\ v.uid = w.uid
      BY <2>4
    <3>2. Known(w)'
      BY <2>6, KnownStays DEF Lineage, ObjectsKnown
    <3> QED
      BY <3>1, <3>2 DEF Known, Controllers
  <2>8. PassKnown'
    BY <2>2, NoPassIsKnown
  <2> QED
    BY <2>2, <2>6, <2>7, <2>8, LineageKept
<1>10. CASE Fails
  <2>1. Keeps /\ objects' = objects /\ cache' = cache /\ pass' = NoPass
    BY <1>10 DEF Fails, Keeps
  <2> QED
    BY <2>1, NoPassIsKnown, LineageKept
<1>11. CASE ResolveNothing
  BY <1>3, <1>11 DEF ResolveNothing
<1> QED
  BY <1>2, <1>5, <1>6, <1>7, <1>8, <1>9, <1>10, <1>11 DEF Evaluation

LEMMA LineageStays ==
    ASSUME ReuseNames = FALSE
    PROVE  Typed /\ Lineage /\ [Next]_vars => Lineage'
<1> SUFFICES ASSUME Typed, Lineage, [Next]_vars
             PROVE  Lineage'
  OBVIOUS
<1>1. CASE UNCHANGED vars
  BY <1>1 DEF vars, Lineage, ObjectsKnown, CacheKnown, PassKnown, Known, Spent, Led,
              ControllersEver, Controllers, IsFamily
<1> QED
  BY <1>1, LineageEvaluation, LineageSync, LineageOutside DEF Next

-----------------------------------------------------------------------------
\* A behaviour starts with a chain of two or three objects.
LEMMA InitShape ==
    ASSUME Init
    PROVE  \E top, pod \in Things :
             /\ top.kind = family /\ top.label = top.name /\ top.uid = 1 /\ top.refs = {}
             /\ pod.kind = "Pod" /\ pod.uid = 3 /\ pod.label = top.name
             /\ \/ /\ pod.refs = {ControlledBy(top)}
                   /\ objects = {top, pod} /\ owned = {<<3, 1>>}
                \/ \E mid \in Things :
                     /\ mid.kind \in {"ReplicaSet", "Job"}
                     /\ mid.uid = 2 /\ mid.label = top.name
                     /\ mid.refs = {ControlledBy(top)} /\ pod.refs = {ControlledBy(mid)}
                     /\ objects = {top, mid, pod} /\ owned = {<<2, 1>>, <<3, 2>>}
<1>1. PICK s \in {"failing", "healthy"} :
        LET n == CHOOSE n \in Names : TRUE
            c == CHOOSE c \in ChildNames : TRUE
            p == CHOOSE p \in PodNames : TRUE
            Make(kind, name, uid, refs, state) ==
              [kind |-> kind, name |-> name, uid |-> uid, refs |-> refs,
               label |-> n, state |-> state]
            top == Make(family, n, 1, {}, "up")
            middle == {Make(k, c, 2, {ControlledBy(top)}, "up") :
                         k \in {m \in {"ReplicaSet", "Job"} : family \in ParentKinds(m)}}
            parents == IF middle = {} THEN {top} ELSE middle
        IN  /\ objects = {top} \cup middle
                   \cup {Make("Pod", p, 3, {ControlledBy(m) : m \in parents}, s)}
            /\ owned = {<<m.uid, 1>> : m \in middle} \cup {<<3, m.uid>> : m \in parents}
  BY DEF Init
<1>2. PICK n \in Names : n = CHOOSE x \in Names : TRUE
  BY OwnershipAssumption
<1>3. PICK c \in ChildNames : c = CHOOSE x \in ChildNames : TRUE
  BY OwnershipAssumption
<1>4. PICK p \in PodNames : p = CHOOSE x \in PodNames : TRUE
  BY OwnershipAssumption
<1> DEFINE Make(kind, name, uid, refs, state) ==
             [kind |-> kind, name |-> name, uid |-> uid, refs |-> refs,
              label |-> n, state |-> state]
           top == Make(family, n, 1, {}, "up")
           middle == {Make(k, c, 2, {ControlledBy(top)}, "up") :
                        k \in {m \in {"ReplicaSet", "Job"} : family \in ParentKinds(m)}}
           parents == IF middle = {} THEN {top} ELSE middle
<1>5. /\ objects = {top} \cup middle \cup {Make("Pod", p, 3, {ControlledBy(m) : m \in parents}, s)}
      /\ owned = {<<m.uid, 1>> : m \in middle} \cup {<<3, m.uid>> : m \in parents}
  BY <1>1, <1>2, <1>3, <1>4
<1>6. /\ family \in TopKind /\ family \in Families /\ cache = [k \in Kind |-> Of(k, objects)]
      /\ lastUid = 3 /\ pass = NoPass /\ deleted = {} /\ events = 0
  BY OwnershipAssumption DEF Init, TopKind
<1>7. {m \in {"ReplicaSet", "Job"} : family \in ParentKinds(m)} =
        IF family = "Deployment" THEN {"ReplicaSet"}
        ELSE IF family = "CronJob" THEN {"Job"} ELSE {}
  BY <1>6 DEF ParentKinds, TopKind
<1>8. top \in Things /\ ControlledBy(top) = [kind |-> family, name |-> n, uid |-> 1, controller |-> TRUE]
  BY <1>6 DEF Things, Object, WellNamed, TopKind, Kind, ControlledBy
<1>9. top.kind = family /\ top.label = top.name /\ top.uid = 1 /\ top.refs = {} /\ top.name = n
  OBVIOUS
<1>10. ASSUME NEW parent \in Things, parent.kind # "Pod",
              NEW k \in {"ReplicaSet", "Job", "Pod"}, NEW x, NEW u \in Nat \ {0}, NEW st,
              x \in IF k = "Pod" THEN PodNames ELSE ChildNames,
              st \in {"up", "failing", "healthy"}
       PROVE  Make(k, x, u, {ControlledBy(parent)}, st) \in Things
  <2>1. PICK r : r = ControlledBy(parent)
    OBVIOUS
  <2>2. r \in Reference /\ WellNamed(r)
    BY <1>10, <2>1, ReferenceIsTyped
  <2>3. Make(k, x, u, {r}, st) \in Things
    BY <1>10, <2>2 DEF Things, Object, WellNamed, Kind, TopKind
  <2> QED
    BY <2>1, <2>3
<1>11. CASE family = "StatefulSet"
  <2>1. middle = {} /\ parents = {top}
    BY <1>7, <1>11
  <2>2. PICK pod : pod = Make("Pod", p, 3, {ControlledBy(top)}, s)
    OBVIOUS
  <2>3. objects = {top, pod} /\ owned = {<<3, 1>>}
    <3>1. {ControlledBy(m) : m \in parents} = {ControlledBy(top)}
      BY <2>1
    <3>2. {<<m.uid, 1>> : m \in middle} = {} /\ {<<3, m.uid>> : m \in parents} = {<<3, 1>>}
      BY <1>9, <2>1
    <3> QED
      BY <1>5, <2>1, <2>2, <3>1, <3>2
  <2>4. pod \in Things
    BY <1>8, <1>9, <1>10, <1>11, <2>2
  <2>5. /\ pod.kind = "Pod" /\ pod.uid = 3 /\ pod.refs = {ControlledBy(top)}
        /\ pod.label = n
    BY <2>2
  <2> HIDE DEF top
  <2> QED
    BY <1>8, <1>9, <2>3, <2>4, <2>5
<1>12. CASE family # "StatefulSet"
  <2>1. PICK k \in {"ReplicaSet", "Job"} :
          {m \in {"ReplicaSet", "Job"} : family \in ParentKinds(m)} = {k}
    BY <1>6, <1>7, <1>12 DEF TopKind
  <2>2. PICK mid : mid = Make(k, c, 2, {ControlledBy(top)}, "up")
    OBVIOUS
  <2>3. middle = {mid} /\ parents = {mid}
    BY <2>1, <2>2
  <2>4. PICK pod : pod = Make("Pod", p, 3, {ControlledBy(mid)}, s)
    OBVIOUS
  <2>5. /\ mid.kind = k /\ mid.uid = 2 /\ mid.refs = {ControlledBy(top)} /\ mid.label = n
    BY <2>2
  <2>6. objects = {top, mid, pod} /\ owned = {<<2, 1>>, <<3, 2>>}
    <3>1. {<<m.uid, 1>> : m \in middle} = {<<2, 1>>} /\ {<<3, m.uid>> : m \in parents} = {<<3, 2>>}
      <4> HIDE DEF middle, parents, Make, top
      <4>1. mid.uid = 2
        BY <2>5
      <4> QED
        BY <2>3, <4>1
    <3>2. {ControlledBy(m) : m \in parents} = {ControlledBy(mid)}
      BY <2>3
    <3>3. Make("Pod", p, 3, {ControlledBy(m) : m \in parents}, s) = pod
      BY <2>4, <3>2
    <3> HIDE DEF Make, top, parents
    <3> QED
      BY <1>5, <2>3, <3>1, <3>3
  <2>7. mid \in Things
    <3>1. top.kind # "Pod"
      BY <1>6, <1>9 DEF TopKind
    <3>2. PICK parent \in Things : parent = top /\ parent.kind # "Pod"
      BY <1>8, <3>1
    <3>3. mid = Make(k, c, 2, {ControlledBy(parent)}, "up") /\ k # "Pod"
      BY <2>2, <3>2
    <3> HIDE DEF Make, top
    <3>4. Make(k, c, 2, {ControlledBy(parent)}, "up") \in Things
      <4>1. c \in IF k = "Pod" THEN PodNames ELSE ChildNames
        BY <3>3
      <4>2. k \in {"ReplicaSet", "Job", "Pod"} /\ 2 \in Nat \ {0}
            /\ "up" \in {"up", "failing", "healthy"} /\ parent.kind # "Pod"
        BY <3>2
      <4> QED
        BY <1>10, <4>1, <4>2
    <3> QED
      BY <3>3, <3>4
  <2>8. pod \in Things
    BY <1>10, <2>4, <2>5, <2>7
  <2>9. pod.kind = "Pod" /\ pod.uid = 3 /\ pod.refs = {ControlledBy(mid)} /\ pod.label = n
    BY <2>4
  <2> HIDE DEF top
  <2> QED
    BY <1>8, <1>9, <2>5, <2>6, <2>7, <2>8, <2>9
<1> QED
  BY <1>11, <1>12

\* They are typed, and each is known by the others.
LEMMA InitIsTyped == Init => Typed /\ Lineage
<1> SUFFICES ASSUME Init
             PROVE  Typed /\ Lineage
  OBVIOUS
<1>1. /\ family \in TopKind /\ family \in Families /\ cache = [k \in Kind |-> Of(k, objects)]
      /\ lastUid = 3 /\ pass = NoPass /\ deleted = {} /\ events = 0
  BY OwnershipAssumption DEF Init, TopKind
<1>2. PICK top \in Things, pod \in Things :
        /\ top.kind = family /\ top.label = top.name /\ top.uid = 1 /\ top.refs = {}
        /\ pod.kind = "Pod" /\ pod.uid = 3 /\ pod.label = top.name
        /\ \/ /\ pod.refs = {ControlledBy(top)}
              /\ objects = {top, pod} /\ owned = {<<3, 1>>}
           \/ \E mid \in Things :
                /\ mid.kind \in {"ReplicaSet", "Job"}
                /\ mid.uid = 2 /\ mid.label = top.name
                /\ mid.refs = {ControlledBy(top)} /\ pod.refs = {ControlledBy(mid)}
                /\ objects = {top, mid, pod} /\ owned = {<<2, 1>>, <<3, 2>>}
  BY InitShape
<1>3. /\ objects \in SUBSET Things /\ top \in objects
      /\ \A o, q \in objects : o.kind = q.kind => o = q
  BY <1>1, <1>2 DEF TopKind
<1>4. \A k \in Kind : cache[k] = {o \in objects : o.kind = k}
  BY <1>1 DEF Of
<1>5. Spent(top.name, 1)
  <2>1. family \in Kind
    BY <1>1 DEF TopKind, Kind
  <2>2. \A w \in objects \cup cache[family] : w.kind = family => w = top
    BY <1>2, <1>3, <1>4, <2>1
  <2> QED
    BY <1>2, <1>3, <2>2 DEF Spent
<1>6. \A o \in objects : Known(o)
  BY <1>1, <1>2, <1>5 DEF Known, Controllers, ControlledBy, IsFamily, TopKind
<1>7. ObjectsTypeOK
  BY <1>1, <1>3 DEF ObjectsTypeOK
<1>8. CacheTypeOK
  <2>1. cache \in [Kind -> SUBSET Things]
    BY <1>1, <1>3 DEF Of
  <2> QED
    BY <1>4, <2>1 DEF CacheTypeOK
<1>9. PassTypeOK /\ PassKnown /\ events \in 0..MaxEvents
  BY <1>1, OwnershipAssumption DEF PassTypeOK, PassKnown, Passes, NoPass
<1>10. ObjectsKnown /\ CacheKnown
  BY <1>4, <1>6 DEF ObjectsKnown, CacheKnown
<1> QED
  BY <1>1, <1>7, <1>8, <1>9, <1>10 DEF Typed, Lineage

-----------------------------------------------------------------------------
\* Of the write of an evaluation (scaleDownWorkload, helpers.go:446-492): the
\* object that is stopped is the one the pod led to.
LEMMA StoppedIsLed ==
    ASSUME Typed, Lineage, NEW w \in Stopped
    PROVE  Led(pass.pod.uid, w.uid)
<1>1. pass.at = "act" /\ w \in objects /\ w.kind = family /\ w.name = pass.owner
  BY DEF Stopped, Live, Named, Of
<1>2. PICK u \in Nat : Spent(pass.owner, u) /\ Led(pass.pod.uid, u)
  BY <1>1 DEF Lineage, PassKnown
<1>3. w.uid = u
  BY <1>1, <1>2 DEF Spent
<1> QED
  BY <1>2, <1>3

\* Every behaviour is well typed, whatever is made, deleted, adopted and read
\* late (helpers.go:246-492).
THEOREM TypeCorrect == Spec => []TypeOK
<1>1. Init => Typed
  BY InitIsTyped
<1>2. Typed /\ [Next]_vars => Typed'
  BY TypedStays
<1>3. Typed => TypeOK
  BY TypedIsTypeOK
<1> QED
  BY <1>1, <1>2, <1>3, PTL DEF Spec

\* Where no workload is made again under the name of a deleted one, what an
\* evaluation stops has owned the failing pod: resolveOwnerWorkload and
\* scaleDownWorkload (helpers.go:246-303, 446-492) pass names on, but the name
\* leads to that very object.
THEOREM OwnerStopped ==
    ASSUME ReuseNames = FALSE
    PROVE  Spec => StopsTheOwner
<1>1. Init => Typed /\ Lineage
  BY InitIsTyped
<1>2. Typed /\ Lineage /\ [Next]_vars => (Typed /\ Lineage)'
  BY TypedStays, LineageStays
<1>3. Typed /\ Lineage =>
        \A w \in Stopped :
           \/ w.uid \in ControllersEver({pass.pod.uid})
           \/ w.uid \in ControllersEver(ControllersEver({pass.pod.uid}))
  BY StoppedIsLed DEF Led
<1> QED
  BY <1>1, <1>2, <1>3, PTL DEF Spec, StopsTheOwner

-----------------------------------------------------------------------------
(* HealthyReplicasProtect.  References, labels and names of the objects      *)
(* agree, and a steady evaluation has seen what the caches show.             *)

\* A reference leads to an object with its UID, or to none.
LeadsTo(r, label) ==
    /\ r.uid <= lastUid
    /\ \A o \in objects : o.uid = r.uid =>
         o.kind = r.kind /\ o.name = r.name /\ (r.controller => o.label = label)

Identity ==
    /\ \A o \in objects : o.uid <= lastUid
    /\ \A o, q \in objects : o.uid = q.uid => o = q
    /\ \A o \in objects : o.kind = family => o.label = o.name
    /\ \A o \in objects : \A r \in o.refs : LeadsTo(r, o.label)

\* The objects are the same, with other references or states, or fewer.
LEMMA SameObjects ==
    ASSUME Identity, family' = family, lastUid' = lastUid,
           \A v, q \in objects' : v.uid = q.uid => v = q,
           \A v \in objects' : \E w \in objects :
              /\ v.kind = w.kind /\ v.name = w.name /\ v.uid = w.uid /\ v.label = w.label
              /\ \A r \in v.refs : LeadsTo(r, v.label)
    PROVE  Identity'
<1>1. \A o \in objects' : o.uid <= lastUid' /\ (o.kind = family' => o.label = o.name)
  BY DEF Identity
<1>2. ASSUME NEW v \in objects', NEW r \in v.refs, NEW o \in objects', o.uid = r.uid
      PROVE  o.kind = r.kind /\ o.name = r.name /\ (r.controller => o.label = v.label)
  BY <1>2 DEF LeadsTo
<1>3. \A v \in objects' : \A r \in v.refs : r.uid <= lastUid'
  BY DEF LeadsTo
<1> QED
  BY <1>1, <1>2, <1>3 DEF Identity, LeadsTo

\* One of them is replaced by itself with other references or another state.
LEMMA SameObject ==
    ASSUME Identity, family' = family, NEW o \in objects, NEW new, Replace(o, new),
           new.kind = o.kind, new.name = o.name, new.uid = o.uid, new.label = o.label,
           \A r \in new.refs : LeadsTo(r, o.label)
    PROVE  Identity'
<1>1. objects' = (objects \ {o}) \cup {new} /\ lastUid' = lastUid
  BY DEF Replace
<1>2. \A v, q \in objects' : v.uid = q.uid => v = q
  BY <1>1 DEF Identity
<1>3. \A v \in objects' : \E w \in objects :
        /\ v.kind = w.kind /\ v.name = w.name /\ v.uid = w.uid /\ v.label = w.label
        /\ \A r \in v.refs : LeadsTo(r, v.label)
  BY <1>1 DEF Identity
<1> QED
  BY <1>1, <1>2, <1>3, SameObjects

\* An object is made, with a UID that nothing refers to.
LEMMA NewObject ==
    ASSUME Typed, Identity, family' = family, NEW new \in Things,
           objects' = objects \cup {new}, lastUid' = lastUid + 1, new.uid = lastUid + 1,
           new.kind = family => new.label = new.name,
           \A r \in new.refs : LeadsTo(r, new.label)
    PROVE  Identity'
<1>1. lastUid \in Nat /\ objects \in SUBSET Things
  BY DEF Typed, ObjectsTypeOK
<1>2. ASSUME NEW o \in Things
      PROVE  o.uid \in Nat /\ \A r \in o.refs : r.uid \in Nat
  <2>1. o.uid \in Nat /\ o.refs \in SUBSET Reference
    BY DEF Things, Object
  <2>2. \A r \in Reference : r.uid \in Nat
    BY DEF Reference, Foreign
  <2> QED
    BY <2>1, <2>2
<1>3. \A o \in objects : o.uid # new.uid /\ o.uid <= lastUid'
  BY <1>1, <1>2 DEF Identity
<1>4. \A v, q \in objects' : v.uid = q.uid => v = q
  BY <1>3 DEF Identity
<1>5. \A x \in objects' : \A r \in x.refs : r.uid \in Nat /\ LeadsTo(r, x.label)
  BY <1>1, <1>2 DEF Identity
<1>6. ASSUME NEW r, NEW label, LeadsTo(r, label), r.uid \in Nat
      PROVE  LeadsTo(r, label)'
  BY <1>1, <1>6 DEF LeadsTo
<1>7. \A x \in objects' : \A r \in x.refs : LeadsTo(r, x.label)'
  BY <1>5, <1>6
<1>8. \A o \in objects' : o.uid <= lastUid' /\ (o.kind = family' => o.label = o.name)
  BY <1>1, <1>3 DEF Identity
<1>9. (\A o \in objects : \A r \in o.refs : LeadsTo(r, o.label))'
  BY <1>7
<1> QED
  BY <1>4, <1>8, <1>9 DEF Identity

\* What is made, deleted, released, adopted or changed keeps its identity.
LEMMA IdentityOutside ==
    ASSUME Typed, Identity, Outside
    PROVE  Identity'
<1>1. objects \in SUBSET Things /\ family \in TopKind /\ lastUid \in Nat
  BY OwnershipAssumption DEF Typed, ObjectsTypeOK, TopKind
<1>2. ASSUME NEW n \in Names, MakeWorkload(n)
      PROVE  Identity'
  <2>1. PICK new : new = [kind |-> family, name |-> n, uid |-> lastUid + 1, refs |-> {},
                          label |-> n, state |-> "up"]
    OBVIOUS
  <2>2. /\ objects' = objects \cup {new} /\ lastUid' = lastUid + 1 /\ family' = family
        /\ new \in Things
    BY <1>2, <2>1, MadeIsThing DEF MakeWorkload, Happens
  <2>3. new.uid = lastUid + 1 /\ new.label = new.name /\ new.refs = {}
    BY <2>1
  <2> QED
    BY <2>2, <2>3, NewObject
<1>3. ASSUME NEW parent \in objects, NEW k \in {"ReplicaSet", "Job", "Pod"},
             NEW n \in ChildNames \cup PodNames, NEW s \in {"up", "failing", "healthy"},
             MakeChild(parent, k, n, s),
             k = "Pod" => n \in PodNames, k # "Pod" => n \in ChildNames
      PROVE  Identity'
  <2>1. PICK new : new = [kind |-> k, name |-> n, uid |-> lastUid + 1,
                          refs |-> {ControlledBy(parent)}, label |-> parent.label,
                          state |-> s]
    OBVIOUS
  <2>2. /\ objects' = objects \cup {new} /\ lastUid' = lastUid + 1 /\ family' = family
        /\ parent.kind \in ParentKinds(k) /\ k \in Kind
    BY <1>3, <2>1 DEF MakeChild, Happens, Kind
  <2>3. new \in Things
    BY <1>3, <2>1, <2>2, MadeIsThing
  <2>4. PICK r : r = ControlledBy(parent)
    OBVIOUS
  <2>5. new.uid = lastUid + 1 /\ new.label = parent.label /\ new.refs = {r} /\ new.kind = k
    BY <2>1, <2>4
  <2>6. r.kind = parent.kind /\ r.name = parent.name /\ r.uid = parent.uid
    BY <2>4 DEF ControlledBy
  <2>7. LeadsTo(r, parent.label)
    BY <2>6 DEF Identity, LeadsTo
  <2>8. new.kind # family
    BY <1>1, <2>5 DEF TopKind
  <2> QED
    BY <2>2, <2>3, <2>5, <2>7, <2>8, NewObject
<1>4. ASSUME NEW o \in objects, Delete(o)
      PROVE  Identity'
  <2>1. objects' = objects \ {o} /\ family' = family /\ lastUid' = lastUid
    BY <1>4 DEF Delete, Happens
  <2> QED
    BY <2>1, SameObjects DEF Identity
<1>5. ASSUME NEW o \in objects, Release(o)
      PROVE  Identity'
  <2>1. PICK by \in {{}, {Foreign}} :
          Replace(o, [o EXCEPT !.refs = (o.refs \ Controllers(o)) \cup by])
    BY <1>5 DEF Release
  <2>2. PICK refs : refs = (o.refs \ Controllers(o)) \cup by
    OBVIOUS
  <2>3. refs \in SUBSET Reference /\ \A r \in refs : WellNamed(r)
    <3>1. \A r \in by : r \in Reference /\ WellNamed(r)
      BY <2>1 DEF Reference, WellNamed, Foreign, TopKind
    <3> QED
      BY <1>1, <2>2, <3>1, ChangedIsThing
  <2>4. PICK new : new = [o EXCEPT !.refs = refs]
    OBVIOUS
  <2>5. /\ new.refs = refs /\ new.kind = o.kind /\ new.name = o.name /\ new.uid = o.uid
        /\ new.label = o.label
    BY <1>1, <2>3, <2>4, ChangedIsThing
  <2>6. LeadsTo(Foreign, o.label)
    BY <1>1 DEF LeadsTo, Foreign, Things
  <2>7. \A r \in new.refs : LeadsTo(r, o.label)
    BY <2>1, <2>2, <2>5, <2>6 DEF Identity
  <2>8. Replace(o, new) /\ family' = family
    BY <1>5, <2>1, <2>2, <2>4 DEF Release, Happens
  <2> QED
    BY <2>5, <2>7, <2>8, SameObject
<1>6. ASSUME NEW o \in objects, NEW parent \in objects, Adopt(o, parent) \/ AddReference(o, parent)
      PROVE  Identity'
  <2>1. PICK r : /\ Replace(o, [o EXCEPT !.refs = o.refs \cup {r}])
                 /\ \/ r = ControlledBy(parent) /\ parent.label = o.label
                    \/ r = [ControlledBy(parent) EXCEPT !.controller = FALSE]
    BY <1>6 DEF Adopt, AddReference
  <2>2. Happens /\ parent.kind \in ParentKinds(o.kind) /\ o \in Things /\ parent \in Things
    BY <1>1, <1>6 DEF Adopt, AddReference
  <2>3. parent.kind # "Pod"
    BY <2>2, ParentsAreNoPods DEF Things, Object
  <2>4. r \in Reference /\ WellNamed(r)
    BY <2>1, <2>2, <2>3, ReferenceIsTyped
  <2>5. /\ r.kind = parent.kind /\ r.name = parent.name /\ r.uid = parent.uid
        /\ r.controller => parent.label = o.label
    BY <2>1, <2>2, <2>3, ReferenceIsTyped DEF ControlledBy
  <2>6. LeadsTo(r, o.label)
    BY <2>5 DEF Identity, LeadsTo
  <2>7. PICK refs : refs = o.refs \cup {r}
    OBVIOUS
  <2>8. refs \in SUBSET Reference /\ \A x \in refs : WellNamed(x)
    BY <2>2, <2>4, <2>7, ChangedIsThing
  <2>9. PICK new : new = [o EXCEPT !.refs = refs]
    OBVIOUS
  <2>10. /\ new.refs = refs /\ new.kind = o.kind /\ new.name = o.name /\ new.uid = o.uid
         /\ new.label = o.label
    BY <2>2, <2>8, <2>9, ChangedIsThing
  <2>11. \A x \in new.refs : LeadsTo(x, o.label)
    BY <2>6, <2>7, <2>10 DEF Identity
  <2>12. Replace(o, new) /\ family' = family
    BY <2>1, <2>2, <2>7, <2>9 DEF Happens
  <2> QED
    BY <2>10, <2>11, <2>12, SameObject
<1>7. ASSUME NEW o \in objects, NEW s \in {"up", "down", "failing", "healthy"}, ChangeState(o, s)
      PROVE  Identity'
  <2>1. PICK new : new = [o EXCEPT !.state = s]
    OBVIOUS
  <2>2. Replace(o, new) /\ family' = family
    BY <1>7, <2>1 DEF ChangeState, Happens
  <2>3. /\ new.refs = o.refs /\ new.kind = o.kind /\ new.name = o.name /\ new.uid = o.uid
        /\ new.label = o.label
    BY <1>1, <2>1, ChangedIsThing
  <2>4. \A r \in new.refs : LeadsTo(r, o.label)
    BY <2>3 DEF Identity
  <2> QED
    BY <2>2, <2>3, <2>4, SameObject
<1> QED
  BY <1>2, <1>3, <1>4, <1>5, <1>6, <1>7 DEF Outside

LEMMA IdentityStays == Typed /\ Identity /\ [Next]_vars => Identity'
<1> SUFFICES ASSUME Typed, Identity, [Next]_vars
             PROVE  Identity'
  OBVIOUS
<1>1. ASSUME UNCHANGED <<family, objects, lastUid>>
      PROVE  Identity'
  BY <1>1 DEF Identity, LeadsTo
<1>2. CASE Act
  <2>1. objects \in SUBSET Things /\ Live \in SUBSET objects
    BY DEF Typed, ObjectsTypeOK, Live, Named, Of
  <2>2. /\ objects' = (objects \ Live) \cup {[w EXCEPT !.state = "down"] : w \in Live}
        /\ family' = family /\ lastUid' = lastUid
    BY <1>2 DEF Act
  <2>3. \A w \in Live : /\ [w EXCEPT !.state = "down"].refs = w.refs
                        /\ [w EXCEPT !.state = "down"].kind = w.kind
                        /\ [w EXCEPT !.state = "down"].name = w.name
                        /\ [w EXCEPT !.state = "down"].uid = w.uid
                        /\ [w EXCEPT !.state = "down"].label = w.label
    BY <2>1, ChangedIsThing
  <2>4. ASSUME NEW v \in objects'
        PROVE  \E w \in objects :
                 /\ v.kind = w.kind /\ v.name = w.name /\ v.uid = w.uid /\ v.label = w.label
                 /\ v.refs = w.refs
                 /\ v = IF w \in Live THEN [w EXCEPT !.state = "down"] ELSE w
    <3>1. CASE v \in objects \ Live
      BY <3>1
    <3>2. CASE \E w \in Live : v = [w EXCEPT !.state = "down"]
      <4>1. PICK w \in Live : v = [w EXCEPT !.state = "down"]
        BY <3>2
      <4> QED
        BY <2>1, <2>3, <4>1
    <3> QED
      BY <2>2, <3>1, <3>2
  <2>5. ASSUME NEW v \in objects', NEW q \in objects', v.uid = q.uid
        PROVE  v = q
    <3>1. PICK w \in objects :
            v.uid = w.uid /\ v = IF w \in Live THEN [w EXCEPT !.state = "down"] ELSE w
      BY <2>4
    <3>2. PICK x \in objects :
            q.uid = x.uid /\ q = IF x \in Live THEN [x EXCEPT !.state = "down"] ELSE x
      BY <2>4
    <3>3. w = x
      BY <2>5, <3>1, <3>2 DEF Identity
    <3> QED
      BY <3>1, <3>2, <3>3
  <2>6. \A v \in objects' : \E w \in objects :
          /\ v.kind = w.kind /\ v.name = w.name /\ v.uid = w.uid /\ v.label = w.label
          /\ \A r \in v.refs : LeadsTo(r, v.label)
    BY <2>4 DEF Identity
  <2> QED
    BY <2>2, <2>5, <2>6, SameObjects
<1>3. CASE Outside
  BY <1>3, IdentityOutside
<1>4. CASE UNCHANGED vars
  BY <1>1, <1>4 DEF vars
<1>5. CASE Fails
  BY <1>1, <1>5 DEF Fails
<1>6. ASSUME Evaluates
      PROVE  Identity'
  BY <1>1, <1>6 DEF Evaluates
<1>7. ASSUME NEW pod, NEW all, Start(pod, all)
      PROVE  Identity'
  BY <1>6, <1>7 DEF Start
<1>8. ASSUME NEW k \in Kind, Sync(k)
      PROVE  Identity'
  BY <1>1, <1>8 DEF Sync
<1>9. CASE Evaluation
  BY <1>2, <1>6, <1>9 DEF Evaluation, ResolveNothing, Resolve, ReadDesired, ReadJobs, ReadPods
<1> QED
  BY <1>3, <1>4, <1>5, <1>7, <1>8, <1>9 DEF Next

\* What a steady evaluation that requires all replicas to fail has found is what
\* the caches still show.
Seen ==
    pass.at \in {"pods", "act"} => (pass.all /\ pass.steady =>
        /\ family = "CronJob" =>
             \E j \in OwnedJobs : pass.job = j.name /\ \A i \in OwnedJobs : i.uid <= j.uid
        /\ pass.at = "act" => \A p \in ReplicaPods : p.state = "failing")

LEMMA SeenStays == Typed /\ Seen /\ [Next]_vars => Seen'
<1> SUFFICES ASSUME Typed, Seen, [Next]_vars
             PROVE  Seen'
  OBVIOUS
<1> USE DEF OwnedJobs, ReplicaPods
<1>1. pass \in Passes
  BY DEF Typed, PassTypeOK
<1>2. ASSUME pass' = NoPass
      PROVE  Seen'
  BY <1>2 DEF Seen, NoPass
<1>3. ASSUME Unsteady
      PROVE  Seen'
  BY <1>3, UnsteadyIsTyped DEF Seen, NoPass
<1>4. CASE UNCHANGED vars
  BY <1>4 DEF vars, Seen
<1>5. ASSUME NEW pod, NEW all, Start(pod, all)
      PROVE  Seen'
  BY <1>5 DEF Start, Seen
<1>6. CASE Resolve
  <2>1. pass'.at = (IF pass.all THEN "desired" ELSE "act") /\ pass'.all = pass.all
    BY <1>6 DEF Resolve
  <2> QED
    BY <2>1 DEF Seen
<1>7. CASE ReadDesired
  <2>1. CASE pass' # NoPass
    <3>1. PICK place \in {"jobs", "pods"} :
            GoTo(place) /\ (family = "CronJob" => place = "jobs")
      BY <1>7, <2>1 DEF ReadDesired
    <3>2. pass'.at = place /\ family' = family
      BY <1>7, <3>1, GoToIsTyped DEF ReadDesired, Evaluates
    <3> QED
      BY <3>1, <3>2 DEF Seen
  <2> QED
    BY <1>2, <2>1
<1>8. CASE ReadJobs
  <2>1. CASE pass' # NoPass
    <3>1. PICK latest \in OwnedJobs :
            /\ \A j \in OwnedJobs : j.uid <= latest.uid
            /\ pass' = [at |-> "pods", pod |-> pass.pod, all |-> pass.all,
                        steady |-> pass.steady, owner |-> pass.owner, job |-> latest.name]
      BY <1>8, <2>1 DEF ReadJobs
    <3>2. pass'.at = "pods" /\ pass'.owner = pass.owner /\ pass'.job = latest.name
          /\ cache' = cache
      BY <1>8, <3>1 DEF ReadJobs, Evaluates
    <3> QED
      BY <3>1, <3>2 DEF Seen
  <2> QED
    BY <1>2, <2>1
<1>9. CASE ReadPods
  <2>1. CASE pass' # NoPass
    <3>1. GoTo("act") /\ \A p \in ReplicaPods : p.state = "failing"
      BY <1>9, <2>1 DEF ReadPods
    <3>2. /\ pass'.at = "act" /\ pass'.owner = pass.owner
          /\ pass'.all = pass.all /\ pass'.steady = pass.steady
          /\ family = "CronJob" => pass'.job = pass.job
      BY <1>1, <1>9, <3>1, GoToIsTyped DEF ReadPods, GoTo, Typed, PassTypeOK, Resolved, Sampled,
         Passes, Resolving, NoPass
    <3>3. cache' = cache /\ family' = family /\ pass.at = "pods"
      BY <1>9 DEF ReadPods, Evaluates
    <3> QED
      BY <3>1, <3>2, <3>3 DEF Seen
  <2> QED
    BY <1>2, <2>1
<1>10. CASE Outside
  BY <1>3, <1>10 DEF Outside, MakeWorkload, MakeChild, Delete, Release, Adopt, AddReference,
     ChangeState, Happens
<1>11. CASE Evaluation
  BY <1>2, <1>6, <1>7, <1>8, <1>9, <1>11 DEF Evaluation, ResolveNothing, Act
<1> QED
  BY <1>2, <1>3, <1>4, <1>5, <1>10, <1>11 DEF Next, Sync, Fails

-----------------------------------------------------------------------------
\* Labels and names agree along the references: a child has the label of what
\* controls it, which is the name of the workload on top.
LEMMA ChildrenAgree ==
    ASSUME Identity, NEW o \in objects, NEW kind, NEW c \in Children(o, kind)
    PROVE  /\ c \in objects /\ c.kind = kind /\ c.label = o.label
           /\ \E r \in c.refs : r.controller /\ r.kind = o.kind /\ r.name = o.name
                                /\ r.uid = o.uid
<1>1. PICK r \in Controllers(c) : r.uid = o.uid
  BY DEF Children
<1>2. c \in objects /\ c.kind = kind /\ r \in c.refs /\ r.controller
  BY <1>1 DEF Children, Of, Controllers
<1>3. LeadsTo(r, c.label)
  BY <1>2 DEF Identity
<1> QED
  BY <1>1, <1>2, <1>3 DEF LeadsTo

\* The Jobs that refer to the CronJob by name are the ones it controls.
LEMMA OwnedJobsAreChildren ==
    ASSUME Typed, Lineage, Identity, JobsAreControlled, cache["Job"] = Of("Job", objects),
           family = "CronJob", NEW w \in objects, w.kind = "CronJob", w.name = pass.owner
    PROVE  OwnedJobs = Children(w, "Job")
<1>1. ASSUME NEW j \in OwnedJobs
      PROVE  j \in Children(w, "Job")
  <2>1. j \in Of("Job", objects) /\ j \in objects
    BY DEF OwnedJobs, Of
  <2>2. PICK r \in j.refs : r.kind = "CronJob" /\ r.name = pass.owner
    BY DEF OwnedJobs
  <2>3. r \in Controllers(j)
    BY <2>1, <2>2 DEF JobsAreControlled, Controllers
  <2>4. Spent(r.name, r.uid)
    BY <2>1, <2>2, <2>3 DEF Lineage, ObjectsKnown, Known, IsFamily
  <2>5. w.uid = r.uid
    BY <2>2, <2>4 DEF Spent
  <2> QED
    BY <2>1, <2>3, <2>5 DEF Children
<1>2. ASSUME NEW j \in Children(w, "Job")
      PROVE  j \in OwnedJobs
  BY ChildrenAgree DEF OwnedJobs, Of
<1> QED
  BY <1>1, <1>2

\* The pods of a workload are among the replicas that were judged.
LEMMA OwnPodsAreReplicas ==
    ASSUME Typed, Lineage, Identity, Seen, JobsAreControlled,
           \A k \in Kind : cache[k] = Of(k, objects),
           NEW w \in Stopped, pass.all, pass.steady, NEW p \in OwnPods(w)
    PROVE  p.state = "failing"
<1>1. pass.at = "act" /\ w \in objects /\ w.kind = family /\ w.name = pass.owner
  BY DEF Stopped, Live, Named, Of
<1>2. \A q \in ReplicaPods : q.state = "failing"
  BY <1>1 DEF Seen
<1>3. cache["Pod"] = Of("Pod", objects) /\ cache["Job"] = Of("Job", objects)
  BY DEF Kind
<1>4. w.label = pass.owner
  BY <1>1 DEF Identity
<1>5. CASE w.kind = "StatefulSet"
  <2>1. p \in Children(w, "Pod")
    BY <1>5 DEF OwnPods
  <2>2. p \in ReplicaPods
    BY <1>1, <1>3, <1>4, <1>5, <2>1, ChildrenAgree DEF ReplicaPods, Of
  <2> QED
    BY <1>2, <2>2
<1>6. CASE w.kind = "Deployment"
  <2>1. PICK rs \in Children(w, "ReplicaSet") : p \in Children(rs, "Pod")
    BY <1>6 DEF OwnPods
  <2>2. rs \in objects /\ rs.label = w.label
    BY <1>1, <2>1, ChildrenAgree
  <2>3. p \in objects /\ p.kind = "Pod" /\ p.label = rs.label
    BY <2>1, <2>2, ChildrenAgree
  <2>4. p \in ReplicaPods
    BY <1>1, <1>3, <1>4, <1>6, <2>2, <2>3 DEF ReplicaPods, Of
  <2> QED
    BY <1>2, <2>4
<1>7. CASE w.kind = "CronJob"
  <2>1. PICK j \in Children(w, "Job") :
          (\A d \in Children(w, "Job") : d.uid <= j.uid) /\ p \in Children(j, "Pod")
    BY <1>7 DEF OwnPods
  <2>2. OwnedJobs = Children(w, "Job")
    BY <1>1, <1>3, <1>7, OwnedJobsAreChildren
  <2>3. PICK i \in OwnedJobs : pass.job = i.name /\ \A d \in OwnedJobs : d.uid <= i.uid
    BY <1>1, <1>7 DEF Seen
  <2>4. i \in objects /\ j \in objects /\ j.kind = "Job"
    BY <1>1, <2>1, <2>2, <2>3, ChildrenAgree
  <2>5. i = j
    <3>1. i.uid \in Nat /\ j.uid \in Nat
      BY <2>4 DEF Typed, ObjectsTypeOK, Things, Object
    <3>2. i.uid = j.uid
      BY <2>1, <2>2, <2>3, <3>1
    <3> QED
      BY <2>4, <3>2 DEF Identity
  <2>6. p \in objects /\ p.kind = "Pod" /\ \E r \in p.refs : r.kind = "Job" /\ r.name = j.name
    BY <2>1, <2>4, ChildrenAgree
  <2>7. p \in ReplicaPods
    BY <1>1, <1>3, <1>7, <2>3, <2>5, <2>6 DEF ReplicaPods, Of
  <2> QED
    BY <1>2, <2>7
<1> QED
  BY <1>1, <1>5, <1>6, <1>7, OwnershipAssumption DEF Typed

\* In the beginning every reference leads to the object it was made from.
LEMMA InitIsIdentity == Init => Identity /\ Seen
<1> SUFFICES ASSUME Init
             PROVE  Identity /\ Seen
  OBVIOUS
<1>1. family \in TopKind /\ lastUid = 3 /\ pass = NoPass
  BY OwnershipAssumption DEF Init, TopKind
<1>2. PICK top \in Things, pod \in Things :
        /\ top.kind = family /\ top.label = top.name /\ top.uid = 1 /\ top.refs = {}
        /\ pod.kind = "Pod" /\ pod.uid = 3 /\ pod.label = top.name
        /\ \/ /\ pod.refs = {ControlledBy(top)}
              /\ objects = {top, pod} /\ owned = {<<3, 1>>}
           \/ \E mid \in Things :
                /\ mid.kind \in {"ReplicaSet", "Job"}
                /\ mid.uid = 2 /\ mid.label = top.name
                /\ mid.refs = {ControlledBy(top)} /\ pod.refs = {ControlledBy(mid)}
                /\ objects = {top, mid, pod} /\ owned = {<<2, 1>>, <<3, 2>>}
  BY InitShape
<1>3. Identity
  BY <1>1, <1>2 DEF Identity, LeadsTo, ControlledBy, TopKind
<1> QED
  BY <1>1, <1>3 DEF Seen, NoPass

\* With fresh caches and nothing in between, no workload of which a pod is
\* healthy is stopped by a policy that requires all replicas to fail: the pods
\* allReplicasFailing reads (helpers.go:337-443) include the workload's own.
THEOREM ReplicasProtect ==
    ASSUME ReuseNames = FALSE
    PROVE  Spec => HealthyReplicasProtect
<1>1. Init => Typed /\ Lineage /\ Identity /\ Seen
  BY InitIsTyped, InitIsIdentity
<1>2. Typed /\ Lineage /\ Identity /\ Seen /\ [Next]_vars
        => (Typed /\ Lineage /\ Identity /\ Seen)'
  BY TypedStays, LineageStays, IdentityStays, SeenStays
<1>3. Typed /\ Lineage /\ Identity /\ Seen =>
        ((\A k \in Kind : cache[k] = Of(k, objects)) /\ JobsAreControlled =>
            \A w \in Stopped :
               pass.all /\ pass.steady => \A p \in OwnPods(w) : p.state = "failing")
  BY OwnPodsAreReplicas
<1> QED
  BY <1>1, <1>2, <1>3, PTL DEF Spec, HealthyReplicasProtect
=================================================================================
