------------------------------- MODULE Build -------------------------------
(***************************************************************************)
(* One SnapshotBuild name driven by the manager: make the build pod, make  *)
(* a PodSnapshot of it, mirror the outcome, delete the pod.  The object,   *)
(* the pod and the PodSnapshot are read from three informers, each of      *)
(* which lags by itself.                                                   *)
(*                                                                         *)
(* The PodSnapshot is reduced to what a build sees of it: it works on the  *)
(* pod of that name, and then has completed, its artifact published, or    *)
(* has failed.  The place of an artifact is the revision the user gave the *)
(* object, and objects of the name may have it in common.                  *)
(*                                                                         *)
(* The manager remembers nothing between reconciles: what a restart does   *)
(* is to stop before a last write (MayWrite) and to bring the informers up *)
(* to date, so it is no action of its own.                                 *)
(***************************************************************************)
EXTENDS Naturals

CONSTANTS
    MaxLives,     \* how many objects of this name the user creates, in turn
    Revisions,    \* what spec.revision may be: the places of artifacts
    Specs         \* the specs the user may create an object with

NoPlace == "none"
Places == Revisions \cup {NoPlace}

\* valid: container and URI resolve; keep: keepBuildPod; delete: the policy.
SpecType == [valid : BOOLEAN, keep : BOOLEAN, delete : BOOLEAN, revision : Places]

ASSUME BuildLivesAssumption == MaxLives \in Nat \ {0}
ASSUME BuildRevisionsAssumption == NoPlace \notin Revisions
ASSUME BuildSpecsAssumption == Specs \subseteq SpecType /\ \A s \in Specs : s.revision \in Revisions

VARIABLES
    bld,        \* the SnapshotBuild in the API server
    cache,      \* what the manager's informer last delivered of it
    pod,        \* the pod "<name>-build"
    podSeen,    \* what the informer last delivered of it
    snap,       \* the PodSnapshot "<name>-snap"
    snapSeen,   \* what the informer last delivered of it
    art,        \* the places with a committed artifact
    stray,      \* what workers no PodSnapshot waits for do at each place
    late        \* lives whose build timeout has passed

vars == <<bld, cache, pod, podSeen, snap, snapSeen, art, stray, late>>

Lives == 1..MaxLives
Terminal == {"Completed", "Failed"}
Unfinished == {"Pending", "Building", "Snapshotting"}
Phases == {"New", "Gone"} \cup Unfinished \cup Terminal

(***************************************************************************)
(* The object.  place is the artifact that status.artifact names; of is no *)
(* field of it, and no step reads it: the life whose PodSnapshot was       *)
(* mirrored, 0 before that.                                                *)
(***************************************************************************)
ObjType == [life : 0..MaxLives, spec : SpecType, phase : Phases,
            place : Places, of : 0..MaxLives,
            deleting : BOOLEAN, finalizer : BOOLEAN]

NoSpec == [valid |-> FALSE, keep |-> FALSE, delete |-> FALSE, revision |-> NoPlace]
Absent(life) == [life |-> life, spec |-> NoSpec, phase |-> "Gone",
                 place |-> NoPlace, of |-> 0, deleting |-> FALSE, finalizer |-> FALSE]

Exists(c) == c.phase # "Gone"
Live(c) == Exists(c) /\ ~c.deleting

\* The pod and the object that controls it; a pod that is gone keeps the life
\* it had, which nothing asks for.
PodType == [life : 0..MaxLives, state : {"absent", "pending", "running", "ended"},
            deleting : BOOLEAN]

SnapType == [life : 0..MaxLives, place : Places,
             state : {"absent", "working", "completed", "failed"}]
NoSnap == [life |-> 0, place |-> NoPlace, state |-> "absent"]

\* "took": it un-committed what was there and has not published yet.
StrayType == [Places -> {"none", "busy", "took"}]
Strays(p, doing) == [stray EXCEPT ![p] = doing]

Init ==
    /\ bld = Absent(0)
    /\ cache = Absent(0)
    /\ pod = [life |-> 0, state |-> "absent", deleting |-> FALSE]
    /\ podSeen = pod
    /\ snap = NoSnap
    /\ snapSeen = NoSnap
    /\ art = {}
    /\ stray = [p \in Places |-> "none"]
    /\ late = {}

-----------------------------------------------------------------------------
\* Update and Status().Update from the cached copy, refused when it is stale.
Write(new) == cache = bld /\ bld' = new

Writes(new) ==
    /\ Write(new)
    /\ UNCHANGED <<cache, pod, podSeen, snap, snapSeen, art, stray, late>>

\* A last write that may be refused, or fail, after the step had its effect.
MayWrite(new) == Write(new) \/ UNCHANGED bld

In(c, phase) == [c EXCEPT !.phase = phase]
Fail == Writes(In(cache, "Failed"))

\* Bug: a phase is forgotten, as one that the PodSnapshot's timeout bounds.
TimedOutShort == cache.life \in late /\ cache.phase \in {"Pending", "Building"}

TimedOut == cache.life \in late /\ cache.phase \in Unfinished

Reconciling(phase) ==
    Live(cache) /\ cache.finalizer /\ ~TimedOut /\ cache.phase = phase

AddFinalizer ==
    /\ Live(cache) /\ ~cache.finalizer
    /\ Writes([cache EXCEPT !.finalizer = TRUE])

TimesOut ==
    /\ Live(cache) /\ cache.finalizer /\ TimedOut
    /\ Fail

\* Bug: the next phase is one no reconcile knows.
AcceptNewMisspelt ==
    /\ Reconciling("New")
    /\ Writes(In(cache, "Accepted"))

AcceptNew ==
    /\ Reconciling("New")
    /\ Writes(In(cache, "Pending"))

-----------------------------------------------------------------------------
(***************************************************************************)
(* reconcileBuildPending.  A pod of our name that another object controls, *)
(* or that terminates, is waited for.                                      *)
(***************************************************************************)
\* Bug: a leftover pod of our name is taken for our own.
AdoptableAny == podSeen.state # "absent" /\ ~podSeen.deleting

Adoptable == podSeen.state # "absent" /\ ~podSeen.deleting /\ podSeen.life = cache.life

StartBuilding == [In(cache, "Building") EXCEPT !.place = cache.spec.revision]

PendingFails ==
    /\ Reconciling("Pending") /\ ~cache.spec.valid
    /\ Fail

\* Create answers AlreadyExists when the cache is behind.
CreatesPod ==
    /\ Reconciling("Pending") /\ cache.spec.valid
    /\ podSeen.state = "absent" /\ pod.state = "absent"
    /\ pod' = [life |-> cache.life, state |-> "pending", deleting |-> FALSE]
    /\ MayWrite(StartBuilding)
    /\ UNCHANGED <<cache, podSeen, snap, snapSeen, art, stray, late>>

FindsPod ==
    /\ Reconciling("Pending") /\ cache.spec.valid
    /\ Adoptable
    /\ Writes(StartBuilding)

-----------------------------------------------------------------------------
\* reconcileBuilding.
\* Bug: the build pod is looked for after the PodSnapshot was made, too.
PodMissed ==
    /\ Reconciling("Building") \/ Reconciling("Snapshotting")
    /\ podSeen.state = "absent"
    /\ Fail

PodDisappeared ==
    /\ Reconciling("Building")
    /\ podSeen.state = "absent"
    /\ Fail

PodEnded ==
    /\ Reconciling("Building")
    /\ podSeen.state = "ended"
    /\ Fail

CreatesSnap ==
    /\ Reconciling("Building")
    /\ podSeen.state = "running"
    /\ snapSeen.state = "absent" /\ snap.state = "absent"
    /\ snap' = [life |-> cache.life, place |-> cache.place, state |-> "working"]
    /\ MayWrite(In(cache, "Snapshotting"))
    /\ UNCHANGED <<cache, pod, podSeen, snapSeen, art, stray, late>>

\* Whose it is, is not asked.
FindsSnap ==
    /\ Reconciling("Building")
    /\ podSeen.state = "running"
    /\ snapSeen.state # "absent"
    /\ Writes(In(cache, "Snapshotting"))

-----------------------------------------------------------------------------
\* reconcileSnapshotting.
SnapDisappeared ==
    /\ Reconciling("Snapshotting")
    /\ snapSeen.state = "absent"
    /\ Fail

SnapFailed ==
    /\ Reconciling("Snapshotting")
    /\ snapSeen.state = "failed"
    /\ Fail

MirrorSnap == [In(cache, "Completed") EXCEPT !.place = snapSeen.place, !.of = snapSeen.life]

\* Bug: Completed is written first; a reconcile of it does nothing more.
SnapCompletedWritesFirst ==
    /\ Reconciling("Snapshotting")
    /\ snapSeen.state = "completed"
    /\ Write(MirrorSnap)
    /\ pod' \in {pod, [pod EXCEPT !.deleting = ~cache.spec.keep]}
    /\ UNCHANGED <<cache, podSeen, snap, snapSeen, art, stray, late>>

\* Bug: a PodSnapshot that has not failed passes for a completed one.
SnapCompletedEarly ==
    /\ Reconciling("Snapshotting")
    /\ snapSeen.state \in {"working", "completed"}
    /\ pod' = [pod EXCEPT !.deleting = (pod.state # "absent") /\ (~cache.spec.keep \/ @)]
    /\ MayWrite(MirrorSnap)
    /\ UNCHANGED <<cache, podSeen, snap, snapSeen, art, stray, late>>

SnapCompleted ==
    /\ Reconciling("Snapshotting")
    /\ snapSeen.state = "completed"
    /\ pod' = [pod EXCEPT !.deleting = (pod.state # "absent") /\ (~cache.spec.keep \/ @)]
    /\ MayWrite(MirrorSnap)
    /\ UNCHANGED <<cache, podSeen, snap, snapSeen, art, stray, late>>

-----------------------------------------------------------------------------
\* Bug: an artifact that was never published is waited for.
DeletingPublished == Exists(cache) /\ cache.deleting /\ cache.finalizer /\ cache.place \in art

\* reconcileDelete: the artifact status names, then the finalizer.  The pod and
\* the PodSnapshot are left to garbage collection.
Deleting == Exists(cache) /\ cache.deleting /\ cache.finalizer

Releases ==
    /\ Deleting
    /\ art' = IF cache.spec.delete THEN art \ {cache.place} ELSE art
    /\ MayWrite(Absent(cache.life))
    /\ UNCHANGED <<cache, pod, podSeen, snap, snapSeen, stray, late>>

ManagerReconciles ==
    \/ AddFinalizer \/ TimesOut \/ AcceptNew
    \/ PendingFails \/ CreatesPod \/ FindsPod
    \/ PodDisappeared \/ PodEnded \/ CreatesSnap \/ FindsSnap
    \/ SnapDisappeared \/ SnapFailed \/ SnapCompleted
    \/ Releases

-----------------------------------------------------------------------------
\* The user.
Create(s) ==
    /\ ~Exists(bld)
    /\ bld.life < MaxLives
    /\ bld' = [Absent(bld.life + 1) EXCEPT !.spec = s, !.phase = "New"]
    /\ UNCHANGED <<cache, pod, podSeen, snap, snapSeen, art, stray, late>>

Delete ==
    /\ Live(bld)
    /\ bld' = IF bld.finalizer THEN [bld EXCEPT !.deleting = TRUE] ELSE Absent(bld.life)
    /\ UNCHANGED <<cache, pod, podSeen, snap, snapSeen, art, stray, late>>

(***************************************************************************)
(* The build pod never restarts.  Anyone may delete it, garbage collection *)
(* does when the object that owns it is gone, and it goes on until then.   *)
(***************************************************************************)
PodBecomes(new) ==
    /\ pod' = new
    /\ UNCHANGED <<bld, cache, podSeen, snap, snapSeen, art, stray, late>>

PodStarts == pod.state = "pending" /\ PodBecomes([pod EXCEPT !.state = "running"])
PodEnds == pod.state \in {"pending", "running"} /\ PodBecomes([pod EXCEPT !.state = "ended"])
PodDeleted ==
    /\ pod.state # "absent" /\ ~pod.deleting
    /\ PodBecomes([pod EXCEPT !.deleting = TRUE])
PodGoes == pod.deleting /\ PodBecomes([pod EXCEPT !.state = "absent", !.deleting = FALSE])

(***************************************************************************)
(* The PodSnapshot, as a build sees it: an artifact published, or found    *)
(* published, where its own build said; until then what is published there *)
(* may go.  That the dump took the pod's container is a PodEnds; the pod   *)
(* may end, and go, before the upload is through.  The PodSnapshot may be  *)
(* deleted, and garbage collection does so, at any time.                   *)
(***************************************************************************)
SnapOverwrites ==
    /\ snap.state = "working"
    /\ art' = art \ {snap.place}
    /\ UNCHANGED <<bld, cache, pod, podSeen, snap, snapSeen, stray, late>>

SnapCompletes ==
    /\ snap.state = "working"
    /\ snap' = [snap EXCEPT !.state = "completed"]
    /\ art' = art \cup {snap.place}
    /\ \E again \in {"none", "busy"} :
          stray' = Strays(snap.place, IF stray[snap.place] = "none" THEN again ELSE "busy")
    /\ UNCHANGED <<bld, cache, pod, podSeen, snapSeen, late>>

SnapFails ==
    /\ snap.state = "working"
    /\ snap' = [snap EXCEPT !.state = "failed"]
    /\ UNCHANGED <<bld, cache, pod, podSeen, snapSeen, art, stray, late>>

SnapDeleted ==
    /\ snap.state # "absent"
    /\ snap' = NoSnap
    /\ stray' = IF snap.state = "working" THEN Strays(snap.place, "busy") ELSE stray
    /\ UNCHANGED <<bld, cache, pod, podSeen, snapSeen, art, late>>

(***************************************************************************)
(* A worker that goes on: its PodSnapshot was deleted at work, and nothing *)
(* cancels it; or that has completed, but the kubelet's tar could not be   *)
(* removed, and from a stale copy the agent uploads it once more.          *)
(***************************************************************************)
StrayUncommits(p) ==
    /\ stray[p] = "busy"
    /\ art' = art \ {p}
    /\ stray' = Strays(p, "took")
    /\ UNCHANGED <<bld, cache, pod, podSeen, snap, snapSeen, late>>

StrayCommits(p) ==
    /\ stray[p] # "none"
    /\ art' = art \cup {p}
    /\ stray' = Strays(p, "busy")
    /\ UNCHANGED <<bld, cache, pod, podSeen, snap, snapSeen, late>>

\* The timeout counts from the moment the object became Pending.
LatePasses ==
    \E l \in Lives :
        /\ bld.life = l /\ bld.phase \notin {"New", "Gone"}
        /\ late' = late \cup {l}
        /\ UNCHANGED <<bld, cache, pod, podSeen, snap, snapSeen, art, stray>>

\* Watch events bring each informer up to date.
Informed ==
    /\ cache' = bld
    /\ UNCHANGED <<bld, pod, podSeen, snap, snapSeen, art, stray, late>>

PodInformed ==
    /\ podSeen' = pod
    /\ UNCHANGED <<bld, cache, pod, snap, snapSeen, art, stray, late>>

SnapInformed ==
    /\ snapSeen' = snap
    /\ UNCHANGED <<bld, cache, pod, podSeen, snap, art, stray, late>>

-----------------------------------------------------------------------------
UserNext == Delete \/ \E s \in Specs : Create(s)
PodNext == PodStarts \/ PodEnds \/ PodDeleted \/ PodGoes
SnapNext == SnapOverwrites \/ SnapCompletes \/ SnapFails \/ SnapDeleted
StrayNext == \E p \in Places : StrayUncommits(p) \/ StrayCommits(p)
InformerNext == Informed \/ PodInformed \/ SnapInformed

Next ==
    \/ ManagerReconciles
    \/ UserNext \/ PodNext \/ SnapNext \/ StrayNext
    \/ LatePasses
    \/ InformerNext

Spec == Init /\ [][Next]_vars

(***************************************************************************)
(* Fairness.  The informer of builds catches up, the timeout passes, and   *)
(* of the manager's reconciles the one that times a build out is made, and *)
(* the last one of a deletion, which is retried until its update is taken. *)
(* Nothing is assumed of the user, the pod, the PodSnapshot and the other  *)
(* two informers.                                                          *)
(***************************************************************************)
Fairness ==
    /\ WF_vars(Informed)
    /\ WF_vars(TimesOut)
    /\ WF_vars(Releases /\ ~Exists(bld'))
    /\ WF_vars(LatePasses)

FairSpec == Spec /\ Fairness

-----------------------------------------------------------------------------
\* Every variable keeps its type.
TypeOK ==
    /\ bld \in ObjType /\ cache \in ObjType
    /\ pod \in PodType /\ podSeen \in PodType
    /\ snap \in SnapType /\ snapSeen \in SnapType
    /\ art \in SUBSET Places
    /\ stray \in StrayType
    /\ late \in SUBSET Lives

(***************************************************************************)
(* The pod a build waits for, and has dumped by its name, is the one made  *)
(* for it: never what an earlier SnapshotBuild of the name left behind.    *)
(***************************************************************************)
OwnBuildPod ==
    (bld.phase \in {"Building", "Snapshotting"} /\ pod.state # "absent") => pod.life = bld.life

(***************************************************************************)
(* A build that completed does not keep its GPU: its pod is deleted before *)
(* Completed is written, and no copy of the object from before makes it    *)
(* again.                                                                  *)
(***************************************************************************)
GPUFreed ==
    (bld.phase = "Completed" /\ ~bld.spec.keep) => (pod.state = "absent" \/ pod.deleting)

(***************************************************************************)
(* Once its PodSnapshot is known to have completed a build is not failed,  *)
(* although the pod it was taken of is gone by then, but by the timeout.   *)
(***************************************************************************)
ResultKept ==
    [][ ( /\ bld.phase = "Snapshotting" /\ bld.life \notin late
          /\ snap.state = "completed" /\ snapSeen = snap )
        => bld'.phase # "Failed" ]_vars

(***************************************************************************)
(* Every build that was accepted ends: Completed, Failed or deleted.       *)
(***************************************************************************)
BuildEnds == (bld.phase \in Unfinished) ~> (bld.phase \notin Unfinished)

\* Deletion ends, whatever phase the build was in.
BuildDeletionEnds == bld.deleting ~> ~Exists(bld)

(***************************************************************************)
(* The artifact that a completed build names stays committed until the     *)
(* build is deleted: a deletion of an earlier build of the name, repeated  *)
(* from a stale copy, or a dump under way does not take it, although       *)
(* builds may share the place; only a worker that no PodSnapshot waits for *)
(* may be replacing it.  Of a build that mirrored the PodSnapshot an       *)
(* earlier one left behind the code cannot say so, nor can this.           *)
(***************************************************************************)
ResultPublished ==
    (bld.phase = "Completed" /\ Live(bld) /\ bld.of = bld.life) =>
        bld.place \in art \/ stray[bld.place] = "took"
=============================================================================
