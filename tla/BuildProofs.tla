---------------------------- MODULE BuildProofs ----------------------------
(***************************************************************************)
(* Theorems about Build for every MaxLives and Specs: type correctness,    *)
(* that a build is taken of the pod made for it, that its pod is deleted   *)
(* once it completed, that a completed PodSnapshot is not turned into a    *)
(* failed build, and that the result of a completed build stays.           *)
(***************************************************************************)
EXTENDS Build, TLAPS

USE BuildLivesAssumption, BuildRevisionsAssumption, BuildSpecsAssumption

-----------------------------------------------------------------------------
(* Type correctness. *)

\* The phases are those of the type.
LEMMA PhasesTypeOK ==
    {"New", "Gone", "Pending", "Building", "Snapshotting", "Completed", "Failed"} \subseteq Phases
  BY DEF Phases, Unfinished, Terminal

\* The name without an object is of the object's type.
LEMMA AbsentTypeOK ==
    ASSUME NEW life \in 0..MaxLives
    PROVE  Absent(life) \in ObjType
  BY PhasesTypeOK DEF Absent, NoSpec, ObjType, SpecType, Places

\* A failure recorded on a typed object is typed.
LEMMA FailedTypeOK ==
    ASSUME NEW c \in ObjType
    PROVE  In(c, "Failed") \in ObjType
  BY PhasesTypeOK DEF In, ObjType

\* Writing the phase of a typed object keeps it typed.
LEMMA InTypeOK ==
    ASSUME NEW c \in ObjType, NEW phase \in Phases
    PROVE  In(c, phase) \in ObjType
  BY DEF In, ObjType

\* The objects the reconciles write beside those.
LEMMA WrittenTypeOK ==
    ASSUME TypeOK
    PROVE  /\ [cache EXCEPT !.finalizer = TRUE] \in ObjType
           /\ StartBuilding \in ObjType
           /\ MirrorSnap \in ObjType
<1>1. [cache EXCEPT !.finalizer = TRUE] \in ObjType
  BY DEF TypeOK, ObjType
<1>2. StartBuilding \in ObjType
  <2>1. In(cache, "Building") \in ObjType
    BY InTypeOK, PhasesTypeOK DEF TypeOK
  <2>2. cache.spec.revision \in Places
    BY DEF TypeOK, ObjType, SpecType
  <2>3. QED
    BY <2>1, <2>2 DEF StartBuilding, ObjType
<1>3. MirrorSnap \in ObjType
  <2>1. In(cache, "Completed") \in ObjType
    BY InTypeOK, PhasesTypeOK DEF TypeOK
  <2>2. snapSeen.life \in 0..MaxLives /\ snapSeen.place \in Places
    BY DEF TypeOK, SnapType
  <2>3. QED
    BY <2>1, <2>2 DEF MirrorSnap, ObjType
<1>4. QED
  BY <1>1, <1>2, <1>3

\* A step of a worker at a place keeps what they do typed.
LEMMA StraysTypeOK ==
    ASSUME TypeOK, NEW p, NEW doing \in {"none", "busy", "took"}
    PROVE  Strays(p, doing) \in StrayType
  BY DEF TypeOK, StrayType, Strays

\* The initial state is typed.
LEMMA InitTypeOK == Init => TypeOK
<1>1. 0 \in 0..MaxLives
  OBVIOUS
<1>2. Absent(0) \in ObjType
  BY <1>1, AbsentTypeOK
<1>3. QED
  BY <1>1, <1>2 DEF Init, TypeOK, PodType, SnapType, NoSnap, Places, StrayType

\* Every branch of the manager's Reconcile stores what some reconcile knows.
LEMMA ManagerTypeOK ==
    ASSUME TypeOK, ManagerReconciles
    PROVE  TypeOK'
<1> USE PhasesTypeOK
<1>1. ASSUME NEW new \in ObjType, Writes(new)
      PROVE  TypeOK'
  BY <1>1 DEF Writes, Write, TypeOK
<1>2. ASSUME Fail
      PROVE  TypeOK'
  <2>1. In(cache, "Failed") \in ObjType
    BY FailedTypeOK DEF TypeOK
  <2>2. QED
    BY <1>1, <1>2, <2>1 DEF Fail
<1>3. ASSUME NEW phase \in Phases
      PROVE  In(cache, phase) \in ObjType
  BY InTypeOK DEF TypeOK
<1>4. CASE AddFinalizer \/ AcceptNew \/ FindsPod \/ FindsSnap
  BY <1>1, <1>3, <1>4, WrittenTypeOK DEF AddFinalizer, AcceptNew, FindsPod, FindsSnap
<1>5. CASE TimesOut \/ PendingFails \/ PodDisappeared \/ PodEnded \/ SnapDisappeared \/ SnapFailed
  BY <1>2, <1>5 DEF TimesOut, PendingFails, PodDisappeared, PodEnded, SnapDisappeared, SnapFailed
<1>6. CASE CreatesPod
  <2>1. pod' \in PodType
    BY <1>6 DEF CreatesPod, TypeOK, ObjType, PodType
  <2>2. QED
    BY <1>6, <2>1, WrittenTypeOK DEF CreatesPod, MayWrite, Write, TypeOK
<1>7. CASE CreatesSnap
  <2>1. snap' \in SnapType
    BY <1>7 DEF CreatesSnap, TypeOK, ObjType, SnapType
  <2>2. In(cache, "Snapshotting") \in ObjType
    BY <1>3
  <2>3. QED
    BY <1>7, <2>1, <2>2 DEF CreatesSnap, MayWrite, Write, TypeOK
<1>8. CASE SnapCompleted
  <2>1. pod' \in PodType
    BY <1>8 DEF SnapCompleted, TypeOK, ObjType, SpecType, PodType
  <2>2. QED
    BY <1>8, <2>1, WrittenTypeOK DEF SnapCompleted, MayWrite, Write, TypeOK
<1>9. CASE Releases
  <2>1. Absent(cache.life) \in ObjType
    BY AbsentTypeOK DEF TypeOK, ObjType
  <2>2. QED
    BY <1>9, <2>1 DEF Releases, MayWrite, Write, TypeOK
<1>10. QED
  BY <1>4, <1>5, <1>6, <1>7, <1>8, <1>9 DEF ManagerReconciles

\* What happens around the manager keeps every type.
LEMMA AroundTypeOK ==
    ASSUME TypeOK, UserNext \/ PodNext \/ SnapNext \/ StrayNext \/ LatePasses \/ InformerNext
    PROVE  TypeOK'
<1>1. CASE UserNext
  <2>1. CASE Delete
    <3>1. [bld EXCEPT !.deleting = TRUE] \in ObjType /\ Absent(bld.life) \in ObjType
      BY AbsentTypeOK DEF TypeOK, ObjType
    <3>2. QED
      BY <2>1, <3>1 DEF Delete, TypeOK
  <2>2. ASSUME NEW s \in Specs, Create(s)
        PROVE  TypeOK'
    <3>1. bld.life + 1 \in 0..MaxLives
      BY <2>2 DEF Create, TypeOK, ObjType
    <3>2. Absent(bld.life + 1) \in ObjType
      BY <3>1, AbsentTypeOK
    <3>3. bld' \in ObjType
      BY <2>2, <3>2, PhasesTypeOK DEF Create, ObjType
    <3>4. QED
      BY <2>2, <3>3 DEF Create, TypeOK
  <2>3. QED
    BY <1>1, <2>1, <2>2 DEF UserNext
<1>2. CASE PodNext
  <2>1. pod' \in PodType
    BY <1>2 DEF PodNext, PodStarts, PodEnds, PodDeleted, PodGoes, PodBecomes, TypeOK, PodType
  <2>2. QED
    BY <1>2, <2>1 DEF PodNext, PodStarts, PodEnds, PodDeleted, PodGoes, PodBecomes, TypeOK
<1>3. CASE SnapNext
  <2>1. CASE SnapCompletes
    <3>1. snap' \in SnapType
      BY <2>1 DEF SnapCompletes, TypeOK, SnapType
    <3>2. art' \in SUBSET Places
      BY <2>1 DEF SnapCompletes, TypeOK, SnapType
    <3>3. stray' \in StrayType
      BY <2>1, StraysTypeOK DEF SnapCompletes, TypeOK
    <3>4. QED
      BY <2>1, <3>1, <3>2, <3>3 DEF SnapCompletes, TypeOK
  <2>2. CASE SnapOverwrites \/ SnapFails \/ SnapDeleted
    <3>1. snap' \in SnapType
      BY <2>2 DEF SnapOverwrites, SnapFails, SnapDeleted, NoSnap, TypeOK, SnapType, Places
    <3>2. stray' \in StrayType
      BY <2>2, StraysTypeOK DEF SnapOverwrites, SnapFails, SnapDeleted, TypeOK
    <3>3. QED
      BY <2>2, <3>1, <3>2 DEF SnapOverwrites, SnapFails, SnapDeleted, TypeOK
  <2>3. QED
    BY <1>3, <2>1, <2>2 DEF SnapNext
<1>4. CASE LatePasses
  BY <1>4 DEF LatePasses, TypeOK
<1>5. CASE InformerNext
  BY <1>5 DEF InformerNext, Informed, PodInformed, SnapInformed, TypeOK
<1>6. CASE StrayNext
  <2>1. PICK p \in Places : StrayUncommits(p) \/ StrayCommits(p)
    BY <1>6 DEF StrayNext
  <2>2. stray' \in StrayType
    BY <2>1, StraysTypeOK DEF StrayUncommits, StrayCommits, TypeOK
  <2>3. art' \in SUBSET Places
    BY <2>1 DEF StrayUncommits, StrayCommits, TypeOK
  <2>4. QED
    BY <2>1, <2>2, <2>3 DEF StrayUncommits, StrayCommits, TypeOK
<1>7. QED
  BY <1>1, <1>2, <1>3, <1>4, <1>5, <1>6

-----------------------------------------------------------------------------
(* The inductive invariant. *)

\* Each copy is of an object that is there or was, and the pod was made from one.
Ordered ==
    /\ podSeen.life <= pod.life
    /\ pod.life <= cache.life
    /\ cache.life <= bld.life

\* A build that counts on a pod has made it.
Made == bld.phase \in {"Building", "Snapshotting"} => pod.life = bld.life

\* No copy of a completed build is from before its PodSnapshot, and would make
\* another pod.
Settled ==
    bld.phase = "Completed" =>
        /\ cache.life = bld.life
        /\ cache.phase \in {"Snapshotting", "Completed"}

BuildInv == TypeOK /\ Ordered /\ Made /\ Settled /\ GPUFreed

\* The lives are numbers, which their order is about.
LEMMA LivesAreNumbers ==
    ASSUME TypeOK
    PROVE  /\ bld.life \in Nat /\ cache.life \in Nat
           /\ pod.life \in Nat /\ podSeen.life \in Nat
           /\ pod.deleting \in BOOLEAN /\ cache.spec.keep \in BOOLEAN
  BY DEF TypeOK, ObjType, PodType, SpecType

\* The initial state satisfies the invariant.
LEMMA InitInv == Init => BuildInv
<1>1. Init => Ordered /\ Made /\ Settled /\ GPUFreed
  BY DEF Init, Ordered, Made, Settled, GPUFreed, Absent
<1>2. QED
  BY <1>1, InitTypeOK DEF BuildInv

\* A write that changes neither pod nor life, and leads into neither Building
\* nor Completed, or keeps the phase.
LEMMA PlainWriteInv ==
    ASSUME BuildInv, NEW new,
           new.life = cache.life, new.spec = cache.spec,
           new.phase \in {"New", "Pending", "Failed", "Gone", cache.phase},
           Write(new), UNCHANGED <<cache, pod, podSeen>>
    PROVE  Ordered' /\ Made' /\ Settled' /\ GPUFreed'
  BY DEF BuildInv, Write, Ordered, Made, Settled, GPUFreed

\* Every branch of the manager's Reconcile keeps it.
LEMMA ManagerInv ==
    ASSUME BuildInv, ManagerReconciles
    PROVE  Ordered' /\ Made' /\ Settled' /\ GPUFreed'
<1> USE LivesAreNumbers
<1>t. TypeOK /\ cache \in ObjType
  BY DEF BuildInv, TypeOK
<1>w. ASSUME NEW new, new.life = cache.life, new.spec = cache.spec,
             new.phase \in {"New", "Pending", "Failed", "Gone", cache.phase}, Writes(new)
      PROVE  Ordered' /\ Made' /\ Settled' /\ GPUFreed'
  BY <1>w, PlainWriteInv DEF Writes
<1>1. CASE AddFinalizer
  <2>1. /\ [cache EXCEPT !.finalizer = TRUE].life = cache.life
        /\ [cache EXCEPT !.finalizer = TRUE].spec = cache.spec
        /\ [cache EXCEPT !.finalizer = TRUE].phase = cache.phase
    BY <1>t DEF ObjType
  <2>2. QED
    BY <1>1, <1>w, <2>1 DEF AddFinalizer
<1>2. CASE AcceptNew
  <2>1. /\ In(cache, "Pending").life = cache.life
        /\ In(cache, "Pending").spec = cache.spec
        /\ In(cache, "Pending").phase = "Pending"
    BY <1>t DEF In, ObjType
  <2>2. QED
    BY <1>2, <1>w, <2>1 DEF AcceptNew
<1>3. CASE TimesOut \/ PendingFails \/ PodDisappeared \/ PodEnded \/ SnapDisappeared \/ SnapFailed
  <2>1. ASSUME Fail
        PROVE  Ordered' /\ Made' /\ Settled' /\ GPUFreed'
    <3> DEFINE failed == In(cache, "Failed")
    <3>1. failed.life = cache.life /\ failed.spec = cache.spec /\ failed.phase = "Failed"
      BY <1>t DEF In, ObjType
    <3>2. QED
      BY <2>1, <3>1, <1>w DEF Fail
  <2>2. QED
    BY <1>3, <2>1 DEF TimesOut, PendingFails, PodDisappeared, PodEnded, SnapDisappeared, SnapFailed
<1>4. CASE CreatesPod
  <2>1. StartBuilding.life = cache.life /\ StartBuilding.phase = "Building"
    BY <1>t DEF StartBuilding, In, ObjType
  <2>2. cache.phase = "Pending" /\ pod'.life = cache.life
    BY <1>4 DEF CreatesPod, Reconciling
  <2>3. UNCHANGED <<cache, podSeen>>
    BY <1>4 DEF CreatesPod
  <2>4. CASE Write(StartBuilding)
    BY <1>t, <2>1, <2>2, <2>3, <2>4 DEF Write, BuildInv, Ordered, Made, Settled, GPUFreed
  <2>5. CASE UNCHANGED bld
    BY <1>t, <2>2, <2>3, <2>5 DEF BuildInv, Ordered, Made, Settled, GPUFreed
  <2>6. QED
    BY <1>4, <2>4, <2>5 DEF CreatesPod, MayWrite
<1>5. CASE FindsPod
  <2>1. StartBuilding.life = cache.life /\ StartBuilding.phase = "Building"
    BY <1>t DEF StartBuilding, In, ObjType
  <2>2. podSeen.life = cache.life
    BY <1>5 DEF FindsPod, Adoptable
  <2>3. cache = bld /\ bld' = StartBuilding /\ UNCHANGED <<cache, pod, podSeen>>
    BY <1>5 DEF FindsPod, Writes, Write
  <2>4. QED
    BY <1>t, <2>1, <2>2, <2>3 DEF BuildInv, Ordered, Made, Settled, GPUFreed
<1>6. CASE CreatesSnap \/ FindsSnap
  <2> DEFINE new == In(cache, "Snapshotting")
  <2>1. new.life = cache.life /\ new.phase = "Snapshotting"
    BY <1>t DEF In, ObjType
  <2>2. cache.phase = "Building" /\ UNCHANGED <<cache, pod, podSeen>>
    BY <1>6 DEF CreatesSnap, FindsSnap, Reconciling, Writes
  <2>3. Write(new) \/ UNCHANGED bld
    BY <1>6 DEF CreatesSnap, FindsSnap, Writes, MayWrite
  <2>4. QED
    BY <2>1, <2>2, <2>3 DEF Write, BuildInv, Ordered, Made, Settled, GPUFreed
<1>7. CASE SnapCompleted
  <2>1. /\ MirrorSnap.life = cache.life /\ MirrorSnap.spec = cache.spec
        /\ MirrorSnap.phase = "Completed"
    BY <1>t DEF MirrorSnap, In, ObjType
  <2>2. cache.phase = "Snapshotting" /\ UNCHANGED <<cache, podSeen>>
    BY <1>7 DEF SnapCompleted, Reconciling
  <2>3. /\ pod'.life = pod.life /\ pod'.state = pod.state
        /\ pod'.deleting = ((pod.state # "absent") /\ (~cache.spec.keep \/ pod.deleting))
    BY <1>7, <1>t DEF SnapCompleted, TypeOK, PodType
  <2>4. CASE Write(MirrorSnap)
    BY <2>1, <2>2, <2>3, <2>4 DEF Write, BuildInv, Ordered, Made, Settled, GPUFreed
  <2>5. CASE UNCHANGED bld
    BY <2>2, <2>3, <2>5 DEF BuildInv, Ordered, Made, Settled, GPUFreed
  <2>6. QED
    BY <1>7, <2>4, <2>5 DEF SnapCompleted, MayWrite
<1>8. CASE Releases
  <2>1. Absent(cache.life).life = cache.life /\ Absent(cache.life).phase = "Gone"
    BY DEF Absent
  <2>2. UNCHANGED <<cache, pod, podSeen>> /\ (Write(Absent(cache.life)) \/ UNCHANGED bld)
    BY <1>8 DEF Releases, MayWrite
  <2>3. QED
    BY <2>1, <2>2 DEF Write, BuildInv, Ordered, Made, Settled, GPUFreed
<1>9. QED
  BY <1>1, <1>2, <1>3, <1>4, <1>5, <1>6, <1>7, <1>8 DEF ManagerReconciles

\* What happens around the manager keeps it.
LEMMA AroundInv ==
    ASSUME BuildInv, UserNext \/ PodNext \/ SnapNext \/ StrayNext \/ LatePasses \/ InformerNext
    PROVE  Ordered' /\ Made' /\ Settled' /\ GPUFreed'
<1> USE LivesAreNumbers
<1>t. TypeOK
  BY DEF BuildInv
<1>1. CASE InformerNext \/ LatePasses \/ SnapNext \/ StrayNext
  BY <1>1, <1>t DEF InformerNext, Informed, PodInformed, SnapInformed, LatePasses,
                    SnapNext, SnapOverwrites, SnapCompletes, SnapFails, SnapDeleted,
                    StrayNext, StrayUncommits, StrayCommits, BuildInv, Ordered, Made, Settled, GPUFreed
<1>2. CASE Delete
  <2>1. /\ [bld EXCEPT !.deleting = TRUE].life = bld.life
        /\ [bld EXCEPT !.deleting = TRUE].spec = bld.spec
        /\ [bld EXCEPT !.deleting = TRUE].phase = bld.phase
        /\ Absent(bld.life).life = bld.life /\ Absent(bld.life).phase = "Gone"
    BY <1>t DEF TypeOK, ObjType, Absent
  <2>2. QED
    BY <1>2, <2>1 DEF Delete, BuildInv, Ordered, Made, Settled, GPUFreed
<1>3. ASSUME NEW s \in Specs, Create(s)
      PROVE  Ordered' /\ Made' /\ Settled' /\ GPUFreed'
  <2>1. bld'.life = bld.life + 1 /\ bld'.phase = "New"
    BY <1>3 DEF Create, Absent
  <2>2. QED
    BY <1>3, <1>t, <2>1 DEF Create, BuildInv, Ordered, Made, Settled, GPUFreed
<1>4. CASE PodNext
  <2>1. /\ pod'.life = pod.life
        /\ pod.state = "absent" => pod'.state = "absent"
        /\ pod.deleting => (pod'.deleting \/ pod'.state = "absent")
    BY <1>4, <1>t DEF PodNext, PodStarts, PodEnds, PodDeleted, PodGoes, PodBecomes,
                      TypeOK, PodType
  <2>2. UNCHANGED <<bld, cache, podSeen>>
    BY <1>4 DEF PodNext, PodStarts, PodEnds, PodDeleted, PodGoes, PodBecomes
  <2>3. QED
    BY <2>1, <2>2 DEF BuildInv, Ordered, Made, Settled, GPUFreed
<1>5. QED
  BY <1>1, <1>2, <1>3, <1>4 DEF UserNext

\* Every step keeps the invariant.
LEMMA NextInv == BuildInv /\ [Next]_vars => BuildInv'
<1> SUFFICES ASSUME BuildInv, [Next]_vars
             PROVE  BuildInv'
  OBVIOUS
<1>1. CASE UNCHANGED vars
  BY <1>1 DEF vars, BuildInv, TypeOK, Ordered, Made, Settled, GPUFreed
<1>2. CASE ManagerReconciles
  BY <1>2, ManagerTypeOK, ManagerInv DEF BuildInv
<1>3. CASE UserNext \/ PodNext \/ SnapNext \/ StrayNext \/ LatePasses \/ InformerNext
  BY <1>3, AroundTypeOK, AroundInv DEF BuildInv
<1>4. QED
  BY <1>1, <1>2, <1>3 DEF Next

(***************************************************************************)
(* The inductive invariant holds in every reachable state: the pod of a    *)
(* build that waits for it or is taken of it is its own, and no copy from  *)
(* before a PodSnapshot survives the build's completion.                   *)
(***************************************************************************)
THEOREM BuildInvariance == Spec => []BuildInv
<1>1. QED
  BY InitInv, NextInv, PTL DEF Spec

-----------------------------------------------------------------------------
(* The theorems. *)

(***************************************************************************)
(* Every reachable state is well typed: the reconciles write no phase and  *)
(* no reason but those the types list.                                     *)
(***************************************************************************)
THEOREM BuildTypeCorrect == Spec => []TypeOK
<1>1. BuildInv => TypeOK
  BY DEF BuildInv
<1>2. QED
  BY <1>1, BuildInvariance, PTL

(***************************************************************************)
(* reconcileBuilding and the PodSnapshot find the pod by its name only;    *)
(* it is nevertheless the one reconcileBuildPending made or recognised.    *)
(***************************************************************************)
THEOREM BuildsOwnPod == Spec => []OwnBuildPod
<1>1. BuildInv => OwnBuildPod
  BY DEF BuildInv, Made, OwnBuildPod
<1>2. QED
  BY <1>1, BuildInvariance, PTL

(***************************************************************************)
(* reconcileSnapshotting deletes the build pod before it writes Completed, *)
(* and no reconcile from a stale copy makes another one after that.        *)
(***************************************************************************)
THEOREM FreesGPU == Spec => []GPUFreed
<1>1. BuildInv => GPUFreed
  BY DEF BuildInv
<1>2. QED
  BY <1>1, BuildInvariance, PTL

\* The known result of a PodSnapshot, before the timeout.
ResultKnown ==
    /\ bld.phase = "Snapshotting" /\ bld.life \notin late
    /\ snap.state = "completed" /\ snapSeen = snap

\* No step fails a build whose result is known.
LEMMA NextKeepsResult ==
    ASSUME BuildInv, Next, ResultKnown
    PROVE  bld'.phase # "Failed"
<1>t. bld \in ObjType /\ cache \in ObjType
  BY DEF BuildInv, TypeOK
<1>1. CASE AddFinalizer
  <2>1. [cache EXCEPT !.finalizer = TRUE].phase = cache.phase
    BY <1>t DEF ObjType
  <2>2. QED
    BY <1>1, <2>1 DEF AddFinalizer, Writes, Write, ResultKnown
<1>2. CASE TimesOut
  <2>1. cache = bld /\ cache.life \in late
    BY <1>2 DEF TimesOut, TimedOut, Fail, Writes, Write
  <2>2. QED
    BY <2>1 DEF ResultKnown
<1>3. CASE AcceptNew \/ PendingFails \/ FindsPod \/ PodDisappeared \/ PodEnded \/ FindsSnap
  <2>1. cache = bld /\ cache.phase # "Snapshotting"
    BY <1>3 DEF AcceptNew, PendingFails, FindsPod, PodDisappeared, PodEnded, FindsSnap,
                Reconciling, Fail, Writes, Write
  <2>2. QED
    BY <2>1 DEF ResultKnown
<1>4. CASE CreatesPod \/ CreatesSnap
  <2>1. cache.phase # "Snapshotting"
    BY <1>4 DEF CreatesPod, CreatesSnap, Reconciling
  <2>2. cache = bld \/ bld' = bld
    BY <1>4 DEF CreatesPod, CreatesSnap, MayWrite, Write
  <2>3. QED
    BY <2>1, <2>2 DEF ResultKnown
<1>5. CASE SnapDisappeared \/ SnapFailed
  BY <1>5 DEF SnapDisappeared, SnapFailed, ResultKnown
<1>6. CASE SnapCompleted
  <2>1. MirrorSnap.phase = "Completed"
    BY <1>t DEF MirrorSnap, In, ObjType
  <2>2. QED
    BY <1>6, <2>1 DEF SnapCompleted, MayWrite, Write, ResultKnown
<1>7. CASE Releases
  BY <1>7 DEF Releases, MayWrite, Write, Absent, ResultKnown
<1>8. CASE UserNext
  <2>1. [bld EXCEPT !.deleting = TRUE].phase = bld.phase
    BY <1>t DEF ObjType
  <2>2. CASE Delete
    BY <2>1, <2>2 DEF Delete, Absent, ResultKnown
  <2>3. ASSUME NEW s \in Specs, Create(s)
        PROVE  FALSE
    BY <2>3 DEF Create, Exists, ResultKnown
  <2>4. QED
    BY <1>8, <2>2, <2>3 DEF UserNext
<1>9. CASE PodNext \/ SnapNext \/ StrayNext \/ LatePasses \/ InformerNext
  <2>1. bld' = bld
    BY <1>9 DEF PodNext, PodStarts, PodEnds, PodDeleted, PodGoes, PodBecomes,
                SnapNext, SnapOverwrites, SnapCompletes, SnapFails, SnapDeleted,
                StrayNext, StrayUncommits, StrayCommits, LatePasses, InformerNext, Informed, PodInformed, SnapInformed
  <2>2. QED
    BY <2>1 DEF ResultKnown
<1>10. QED
  BY <1>1, <1>2, <1>3, <1>4, <1>5, <1>6, <1>7, <1>8, <1>9 DEF Next, ManagerReconciles

(***************************************************************************)
(* A repeated reconcileSnapshotting, whose pod is deleted already, does    *)
(* not fail a build that it knows to have a result.                        *)
(***************************************************************************)
THEOREM KeepsResult == Spec => ResultKept
<1>1. BuildInv /\ [Next]_vars =>
        [ ( /\ bld.phase = "Snapshotting" /\ bld.life \notin late
            /\ snap.state = "completed" /\ snapSeen = snap )
          => bld'.phase # "Failed" ]_vars
  BY NextKeepsResult DEF ResultKnown
<1>2. QED
  BY <1>1, BuildInvariance, PTL DEF Spec, ResultKept

-----------------------------------------------------------------------------
(***************************************************************************)
(* The result of a completed build.  An artifact is only removed by a      *)
(* reconcile that saw a build of its place deleted, or overwritten by a    *)
(* dump under way.  The first is from before the build's own PodSnapshot,  *)
(* or has seen the build itself deleted; the second is over once a         *)
(* completed PodSnapshot is seen.                                          *)
(***************************************************************************)

\* The manager has read every build that it accepted, and that a PodSnapshot
\* is of.
SnapsRead ==
    /\ snap.life <= cache.life /\ snapSeen.life <= cache.life
    /\ bld.phase \notin {"New", "Gone"} => cache.life = bld.life

\* While a dump is under way no result of an earlier one is still seen, and the
\* build is not complete.
DumpOver ==
    snap.state = "working" =>
        snapSeen.state \in {"absent", "working"} /\ bld.phase # "Completed"

\* A deletion that the copy shows is not taken back.
DeletionSeen == (cache.life = bld.life /\ cache.deleting) => ~Live(bld)

\* The artifact is there, or a worker that no PodSnapshot waits for replaces it.
Kept(place) == place \in art \/ stray[place] = "took"

\* A PodSnapshot of a live build that completed has its artifact.
Backed(s) == (s.state = "completed" /\ s.life = bld.life /\ Live(bld)) => Kept(s.place)

PublishedInv ==
    /\ SnapsRead /\ DumpOver /\ DeletionSeen
    /\ Backed(snap) /\ Backed(snapSeen) /\ ResultPublished

\* What the parts compare has the type it needs.
LEMMA PublishedTypes ==
    ASSUME TypeOK
    PROVE  /\ bld.life \in Nat /\ cache.life \in Nat /\ cache.of \in Nat
           /\ snap.life \in Nat /\ snapSeen.life \in Nat
           /\ bld.deleting \in BOOLEAN /\ cache.deleting \in BOOLEAN
  BY DEF TypeOK, ObjType, SnapType

\* A write of a live object that names no artifact as its own result but one
\* that a completed PodSnapshot was seen for.
LEMMA WritePublished ==
    ASSUME BuildInv, PublishedInv, NEW new, Live(cache), Write(new),
           new.life = cache.life, new.deleting = cache.deleting,
           cache.phase = "New" \/ new.phase # "New",
           new.phase = "Completed" =>
               \/ cache.phase = "Completed" /\ new.of = cache.of /\ new.place = cache.place
               \/ /\ snapSeen.state = "completed"
                  /\ new.of = snapSeen.life /\ new.place = snapSeen.place,
           UNCHANGED <<cache, snapSeen, art, stray>>,
           \/ snap' = snap
           \/ /\ snap'.state = "working" /\ snap'.life = cache.life
              /\ new.phase # "Completed" /\ snapSeen.state = "absent"
    PROVE  PublishedInv'
<1> USE PublishedTypes
<1>1. TypeOK /\ cache = bld /\ bld' = new
  BY DEF BuildInv, Write
<1>2. SnapsRead'
  BY <1>1 DEF PublishedInv, SnapsRead
<1>3. DumpOver'
  BY <1>1 DEF PublishedInv, DumpOver
<1>4. DeletionSeen'
  BY <1>1 DEF PublishedInv, DeletionSeen, Live
<1>5. Backed(snap)' /\ Backed(snapSeen)'
  BY <1>1 DEF PublishedInv, Backed, Kept, Live
<1>6. ResultPublished'
  BY <1>1 DEF PublishedInv, Backed, Kept, ResultPublished, Live
<1>7. QED
  BY <1>2, <1>3, <1>4, <1>5, <1>6 DEF PublishedInv

\* A step that leaves the object alone, and at most makes a PodSnapshot.
LEMMA EffectPublished ==
    ASSUME BuildInv, PublishedInv, UNCHANGED <<bld, cache, snapSeen, art, stray>>,
           \/ snap' = snap
           \/ /\ snap'.state = "working" /\ snap'.life = cache.life
              /\ cache.phase = "Building" /\ snapSeen.state = "absent"
    PROVE  PublishedInv'
<1> USE PublishedTypes
<1>1. TypeOK /\ cache.life <= bld.life
  BY DEF BuildInv, Ordered
<1>2. SnapsRead' /\ DeletionSeen' /\ ResultPublished'
  BY <1>1 DEF PublishedInv, SnapsRead, DeletionSeen, ResultPublished, Live, Exists
<1>3. DumpOver'
  BY DEF PublishedInv, DumpOver, BuildInv, Settled
<1>4. Backed(snap)' /\ Backed(snapSeen)'
  BY <1>1 DEF PublishedInv, Backed, Kept, Live, Exists
<1>5. QED
  BY <1>2, <1>3, <1>4 DEF PublishedInv

\* The last reconcile of a deletion removes no artifact of a live build: the
\* copy that it acts on is of an earlier one, which no PodSnapshot followed yet.
LEMMA ReleasePublished ==
    ASSUME BuildInv, PublishedInv, Releases
    PROVE  PublishedInv'
<1> USE PublishedTypes
<1>1. TypeOK /\ cache.life <= bld.life
  BY DEF BuildInv, Ordered
<1>2. cache.deleting /\ UNCHANGED <<cache, snap, snapSeen, stray>>
  BY DEF Releases, Deleting
<1>3. CASE Write(Absent(cache.life))
  <2>1. bld'.life = bld.life /\ bld'.phase = "Gone" /\ ~Live(bld)'
    BY <1>3 DEF Write, Absent, Live, Exists
  <2>2. QED
    BY <1>1, <1>2, <2>1 DEF PublishedInv, SnapsRead, DumpOver, DeletionSeen, Backed, Kept, ResultPublished
<1>4. CASE UNCHANGED bld
  <2>1. Live(bld) => cache.life < bld.life
    BY <1>1, <1>2 DEF PublishedInv, DeletionSeen
  <2>2. SnapsRead' /\ DumpOver' /\ DeletionSeen'
    BY <1>2, <1>4 DEF PublishedInv, SnapsRead, DumpOver, DeletionSeen, Live, Exists
  <2>3. Backed(snap)' /\ Backed(snapSeen)' /\ ResultPublished'
    BY <1>1, <1>2, <1>4, <2>1 DEF PublishedInv, SnapsRead, Backed, Kept, ResultPublished, Live, Exists
  <2>4. QED
    BY <2>2, <2>3 DEF PublishedInv
<1>5. QED
  BY <1>3, <1>4 DEF Releases, MayWrite

\* Every branch of the manager's Reconcile keeps it.
LEMMA ManagerPublished ==
    ASSUME BuildInv, PublishedInv, ManagerReconciles
    PROVE  PublishedInv'
<1> USE PublishedTypes
<1>t. TypeOK /\ cache \in ObjType
  BY DEF BuildInv, TypeOK
<1>w. ASSUME NEW phase \in {"Pending", "Failed", "Snapshotting"}, Live(cache),
             Writes(In(cache, phase))
      PROVE  PublishedInv'
  <2> DEFINE new == In(cache, phase)
  <2>1. new.life = cache.life /\ new.deleting = cache.deleting /\ new.phase = phase
    BY <1>t DEF In, ObjType
  <2>2. Write(new) /\ UNCHANGED <<cache, snap, snapSeen, art, stray>>
    BY <1>w DEF Writes
  <2> HIDE DEF new
  <2>3. QED
    BY <1>w, <2>1, <2>2, WritePublished
<1>1. CASE AddFinalizer
  <2> DEFINE new == [cache EXCEPT !.finalizer = TRUE]
  <2>1. /\ new.life = cache.life /\ new.deleting = cache.deleting
        /\ new.place = cache.place /\ new.of = cache.of /\ new.phase = cache.phase
    BY <1>t DEF ObjType
  <2>2. Live(cache) /\ Write(new) /\ UNCHANGED <<cache, snap, snapSeen, art, stray>>
    BY <1>1 DEF AddFinalizer, Writes
  <2> HIDE DEF new
  <2>3. QED
    BY <2>1, <2>2, WritePublished
<1>2. CASE AcceptNew
  BY <1>2, <1>w DEF AcceptNew, Reconciling
<1>3. CASE TimesOut \/ PendingFails \/ PodDisappeared \/ PodEnded \/ SnapDisappeared \/ SnapFailed
  BY <1>3, <1>w DEF TimesOut, PendingFails, PodDisappeared, PodEnded, SnapDisappeared, SnapFailed,
                    Reconciling, Fail
<1>4. CASE CreatesPod \/ FindsPod
  <2> DEFINE new == StartBuilding
  <2>1. new.life = cache.life /\ new.deleting = cache.deleting /\ new.phase = "Building"
    BY <1>t DEF StartBuilding, In, ObjType
  <2>2. Live(cache) /\ UNCHANGED <<cache, snap, snapSeen, art, stray>> /\ (Write(new) \/ UNCHANGED bld)
    BY <1>4 DEF CreatesPod, FindsPod, Reconciling, Writes, MayWrite
  <2> HIDE DEF new
  <2>3. QED
    BY <2>1, <2>2, WritePublished, EffectPublished
<1>5. CASE FindsSnap
  BY <1>5, <1>w DEF FindsSnap, Reconciling
<1>6. CASE CreatesSnap
  <2> DEFINE new == In(cache, "Snapshotting")
  <2>1. new.life = cache.life /\ new.deleting = cache.deleting /\ new.phase = "Snapshotting"
    BY <1>t DEF In, ObjType
  <2>2. /\ Live(cache) /\ UNCHANGED <<cache, snapSeen, art, stray>> /\ (Write(new) \/ UNCHANGED bld)
        /\ snap'.state = "working" /\ snap'.life = cache.life
        /\ cache.phase = "Building" /\ snapSeen.state = "absent"
    BY <1>6 DEF CreatesSnap, Reconciling, MayWrite
  <2> HIDE DEF new
  <2>3. QED
    BY <2>1, <2>2, WritePublished, EffectPublished
<1>7. CASE SnapCompleted
  <2> DEFINE new == MirrorSnap
  <2>1. /\ new.life = cache.life /\ new.deleting = cache.deleting
        /\ new.place = snapSeen.place /\ new.of = snapSeen.life /\ new.phase = "Completed"
    BY <1>t DEF MirrorSnap, In, ObjType
  <2>2. /\ Live(cache) /\ UNCHANGED <<cache, snap, snapSeen, art, stray>> /\ (Write(new) \/ UNCHANGED bld)
        /\ snapSeen.state = "completed"
    BY <1>7 DEF SnapCompleted, Reconciling, MayWrite
  <2> HIDE DEF new
  <2>3. QED
    BY <2>1, <2>2, WritePublished, EffectPublished
<1>8. CASE Releases
  BY <1>8, ReleasePublished
<1>9. QED
  BY <1>1, <1>2, <1>3, <1>4, <1>5, <1>6, <1>7, <1>8 DEF ManagerReconciles

\* What happens around the manager keeps it.
LEMMA AroundPublished ==
    ASSUME BuildInv, PublishedInv, UserNext \/ PodNext \/ SnapNext \/ StrayNext \/ LatePasses \/ InformerNext
    PROVE  PublishedInv'
<1> USE PublishedTypes
<1>t. TypeOK /\ cache.life <= bld.life
  BY DEF BuildInv, Ordered
<1>p. bld.place \in Places /\ snap.place \in Places /\ snapSeen.place \in Places
  BY <1>t DEF TypeOK, ObjType, SnapType
<1>1. CASE PodNext \/ LatePasses \/ PodInformed
  BY <1>1, EffectPublished DEF PodNext, PodStarts, PodEnds, PodDeleted, PodGoes, PodBecomes,
                               LatePasses, PodInformed
<1>2. CASE Informed \/ SnapInformed
  <2>1. UNCHANGED <<bld, snap, art, stray>>
    BY <1>2 DEF Informed, SnapInformed
  <2>2. SnapsRead' /\ DumpOver' /\ DeletionSeen'
    BY <1>2, <1>t DEF Informed, SnapInformed, PublishedInv, SnapsRead, DumpOver, DeletionSeen,
                      Live, Exists
  <2>3. Backed(snap)' /\ Backed(snapSeen)' /\ ResultPublished'
    BY <1>2 DEF Informed, SnapInformed, PublishedInv, Backed, Kept, ResultPublished, Live, Exists
  <2>4. QED
    BY <2>2, <2>3 DEF PublishedInv
<1>3. CASE Delete
  <2>1. bld'.life = bld.life /\ bld'.phase \in {bld.phase, "Gone"} /\ ~Live(bld)'
    BY <1>3, <1>t DEF Delete, Absent, Live, Exists, TypeOK, ObjType
  <2>2. UNCHANGED <<cache, snap, snapSeen, art, stray>>
    BY <1>3 DEF Delete
  <2>3. QED
    BY <1>t, <2>1, <2>2 DEF PublishedInv, SnapsRead, DumpOver, DeletionSeen, Backed, Kept, ResultPublished
<1>4. ASSUME NEW s \in Specs, Create(s)
      PROVE  PublishedInv'
  <2>1. bld'.life = bld.life + 1 /\ bld'.phase = "New"
    BY <1>4 DEF Create, Absent
  <2>2. UNCHANGED <<cache, snap, snapSeen, art, stray>>
    BY <1>4 DEF Create
  <2>3. QED
    BY <1>t, <2>1, <2>2 DEF PublishedInv, SnapsRead, DumpOver, DeletionSeen, Backed, Kept, ResultPublished
<1>5. CASE SnapOverwrites
  <2>1. snap.state = "working" /\ UNCHANGED <<bld, cache, snap, snapSeen, stray>>
    BY <1>5 DEF SnapOverwrites
  <2>2. QED
    BY <2>1 DEF PublishedInv, SnapsRead, DumpOver, DeletionSeen, Backed, Kept, ResultPublished, Live, Exists
<1>6. CASE SnapCompletes
  <2>1. /\ snap'.life = snap.life /\ snap'.place = snap.place /\ snap'.state = "completed"
        /\ art' = art \cup {snap.place} /\ UNCHANGED <<bld, cache, snapSeen>>
    BY <1>6, <1>t DEF SnapCompletes, TypeOK, SnapType
  <2>2. ASSUME NEW q \in Places, Kept(q)
        PROVE  q \in art' \/ stray'[q] = "took"
    BY <1>6, <1>t, <2>1, <2>2 DEF SnapCompletes, Kept, Strays, TypeOK, StrayType
  <2>3. SnapsRead' /\ DumpOver' /\ DeletionSeen'
    BY <1>t, <2>1 DEF PublishedInv, SnapsRead, DumpOver, DeletionSeen, Live, Exists
  <2>4. Backed(snap)'
    BY <2>1 DEF Backed, Kept
  <2>5. Backed(snapSeen)' /\ ResultPublished'
    BY <1>p, <2>1, <2>2 DEF PublishedInv, Backed, Kept, ResultPublished, Live, Exists
  <2>6. QED
    BY <2>3, <2>4, <2>5 DEF PublishedInv
<1>7. CASE SnapFails
  <2>1. snap'.life = snap.life /\ snap'.state = "failed"
        /\ UNCHANGED <<bld, cache, snapSeen, art, stray>>
    BY <1>7, <1>t DEF SnapFails, TypeOK, SnapType
  <2>2. QED
    BY <1>t, <2>1 DEF PublishedInv, SnapsRead, DumpOver, DeletionSeen, Backed, Kept, ResultPublished,
                      Live, Exists
<1>8. CASE SnapDeleted
  <2>1. snap'.life = 0 /\ snap'.state = "absent" /\ UNCHANGED <<bld, cache, snapSeen, art>>
    BY <1>8 DEF SnapDeleted, NoSnap
  <2>2. SnapsRead' /\ DumpOver' /\ DeletionSeen' /\ Backed(snap)'
    BY <1>t, <2>1 DEF PublishedInv, SnapsRead, DumpOver, DeletionSeen, Backed, Live, Exists
  <2>3. Backed(snapSeen)' /\ ResultPublished'
    <3>1. CASE snap.state = "working"
      BY <2>1, <3>1 DEF PublishedInv, DumpOver, Backed, ResultPublished
    <3>2. CASE snap.state # "working"
      BY <1>8, <2>1, <3>2 DEF SnapDeleted, PublishedInv, Backed, Kept, ResultPublished, Live, Exists
    <3>3. QED
      BY <3>1, <3>2
  <2>4. QED
    BY <2>2, <2>3 DEF PublishedInv
<1>9. CASE StrayNext
  <2>1. PICK p \in Places : StrayUncommits(p) \/ StrayCommits(p)
    BY <1>9 DEF StrayNext
  <2>2. UNCHANGED <<bld, cache, snap, snapSeen>>
    BY <2>1 DEF StrayUncommits, StrayCommits
  <2>3. ASSUME NEW q \in Places, Kept(q)
        PROVE  q \in art' \/ stray'[q] = "took"
    BY <1>t, <2>1, <2>3 DEF StrayUncommits, StrayCommits, Kept, Strays, TypeOK, StrayType
  <2>4. SnapsRead' /\ DumpOver' /\ DeletionSeen'
    BY <2>2 DEF PublishedInv, SnapsRead, DumpOver, DeletionSeen, Live, Exists
  <2>5. Backed(snap)' /\ Backed(snapSeen)' /\ ResultPublished'
    BY <1>p, <2>2, <2>3 DEF PublishedInv, Backed, Kept, ResultPublished, Live, Exists
  <2>6. QED
    BY <2>4, <2>5 DEF PublishedInv
<1>10. QED
  BY <1>1, <1>2, <1>3, <1>4, <1>5, <1>6, <1>7, <1>8, <1>9 DEF UserNext, SnapNext, InformerNext

(***************************************************************************)
(* reconcileDelete removes the artifact its status names; repeated from    *)
(* stale copies, and with a later build of the name and of the same place  *)
(* at work, it never takes the artifact of a build that completed with its *)
(* own PodSnapshot and is not being deleted: at most a worker that no      *)
(* PodSnapshot waits for is about to replace it.                           *)
(***************************************************************************)
THEOREM PublishesResult == Spec => []ResultPublished
<1>1. Init => PublishedInv
  BY DEF Init, Absent, NoSnap, PublishedInv, SnapsRead, DumpOver, DeletionSeen, Backed,
         ResultPublished, Live, Exists
<1>2. BuildInv /\ PublishedInv /\ [Next]_vars => PublishedInv'
  <2>1. ASSUME PublishedInv, UNCHANGED vars
        PROVE  PublishedInv'
    BY <2>1 DEF vars, PublishedInv, SnapsRead, DumpOver, DeletionSeen, Backed, Kept, ResultPublished,
                Live, Exists
  <2>2. QED
    BY <2>1, ManagerPublished, AroundPublished DEF Next
<1>3. PublishedInv => ResultPublished
  BY DEF PublishedInv
<1>4. QED
  BY <1>1, <1>2, <1>3, BuildInvariance, PTL DEF Spec
=============================================================================
