------------------------------ MODULE Snapshot ------------------------------
(***************************************************************************)
(* One PodSnapshot name driven by the manager and the node agent together, *)
(* under a user who creates and deletes objects of that name, and pods and *)
(* shims that make progress of their own.                                  *)
(***************************************************************************)
EXTENDS SnapshotManager, SnapshotAgent

CONSTANT Nodes    \* the agents the node may start with

NodeType == [new : BOOLEAN, advertises : BOOLEAN]

\* Only an agent that implements the capability advertises it.
ASSUME NodesAssumption ==
    Nodes \subseteq {n \in NodeType : n.advertises => n.new}

Init ==
    /\ obj = Absent(0)
    /\ cache = [p \in Processes |-> Absent(0)]
    /\ pods = [l \in Lives |-> "starting"]
    /\ parked = {}
    /\ expired = {}
    /\ node \in Nodes
    /\ dir = EmptyDir
    /\ tarball = NoDump
    /\ tars = {}
    /\ info = [d \in Dump |-> NoInfo]
    /\ call = NoCall
    /\ del = NoDel
    /\ ckpt = NoCkpt
    /\ upl = NoUpl
    /\ crashes = 0

-----------------------------------------------------------------------------
\* The user.  Each object of the name snapshots a pod of its own.
Create(s) ==
    /\ obj.phase = "Gone"
    /\ obj.life < MaxLives
    /\ obj' = [Absent(obj.life + 1) EXCEPT !.spec = s, !.phase = "New"]
    /\ UNCHANGED <<cache, worldVars, storeVars, mgrVars, agtVars, crashes>>

\* An object with no finalizer is gone at once.
Delete ==
    /\ Live(obj)
    /\ obj' = IF obj.finalizer
              THEN [obj EXCEPT !.deleting = TRUE]
              ELSE Absent(obj.life)
    /\ UNCHANGED <<cache, worldVars, storeVars, mgrVars, agtVars, crashes>>

\* The pod of an object: it starts, its shim parks it, it may die.
PodMoves(from, to) ==
    \E l \in 1..obj.life :
        /\ pods[l] = from
        /\ pods' = [pods EXCEPT ![l] = to]
        /\ UNCHANGED <<apiVars, parked, expired, node, storeVars, mgrVars, agtVars, crashes>>

PodStarts == PodMoves("starting", "running")
PodDies == PodMoves("running", "gone")

ShimParks ==
    \E l \in Lives :
        /\ obj.life = l /\ obj.spec.quiesce
        /\ pods[l] = "running"
        /\ parked' = parked \cup {l}
        /\ UNCHANGED <<apiVars, pods, expired, node, storeVars, mgrVars, agtVars, crashes>>

\* The deadline recorded when the snapshot entered Quiescing passes.
DeadlinePasses ==
    \E l \in Lives :
        /\ obj.life = l /\ obj.phase = "Quiescing"
        /\ expired' = expired \cup {l}
        /\ UNCHANGED <<apiVars, pods, parked, node, storeVars, mgrVars, agtVars, crashes>>

\* A watch event brings the informer of a process up to date.
Informed(p) ==
    /\ cache' = [cache EXCEPT ![p] = obj]
    /\ UNCHANGED <<obj, worldVars, storeVars, mgrVars, agtVars, crashes>>

UserNext == Delete \/ \E s \in Specs : Create(s)
WorldNext == PodStarts \/ PodDies \/ ShimParks \/ DeadlinePasses

Next ==
    \/ ManagerNext
    \/ AgentNext
    \/ UserNext
    \/ WorldNext
    \/ \E p \in Processes : Informed(p)

Spec == Init /\ [][Next]_vars

(***************************************************************************)
(* Fairness.  Reconcilers are retried until they succeed and requeue while *)
(* they wait; workers and informers make progress; deadlines pass.  Five   *)
(* outcomes are only sometimes possible and must not be missed for ever:   *)
(* the kubelet answers within the timeout it was given, which ends 30 s    *)
(* before callCtx does, the answer is recorded in that time, an upload     *)
(* that keeps being retried succeeds, so does removing a MANIFEST, and so  *)
(* does resolving a container that runs.  Nothing is assumed of the user,  *)
(* the pods, the shim or crashes.                                          *)
(***************************************************************************)
Fairness ==
    /\ \A p \in Processes : WF_vars(Informed(p))
    /\ WF_vars(ManagerReconciles(cache["manager"]))
    /\ WF_vars(ManagerDeletes(cache["manager"]))
    /\ SF_vars(Uncommits)
    /\ WF_vars(RemovesLast)
    /\ WF_vars(DropFinalizer)
    /\ SF_vars(KubeletAnswers)
    /\ SF_vars(RecordCall(cache["manager"]))
    /\ WF_vars(QuiesceSeen(cache["agent"]))
    /\ WF_vars(CkptReconciles(cache["agent"]))
    /\ SF_vars(CkptResolves(cache["agent"]))
    /\ WF_vars(UplReconciles(cache["agent"]))
    /\ SF_vars(UplPublishes)
    /\ WF_vars(DeadlinePasses)

FairSpec == Spec /\ Fairness

-----------------------------------------------------------------------------
CopyType == [Processes -> ObjType]

\* Every variable keeps its type: each phase written is one some reconciler
\* knows, and restarts stay within their bound.
TypeOK ==
    /\ obj \in ObjType
    /\ cache \in CopyType
    /\ pods \in [Lives -> {"starting", "running", "gone"}]
    /\ parked \in SUBSET Lives
    /\ expired \in SUBSET Lives
    /\ node \in NodeType
    /\ dir \in DirType
    /\ tarball \in Dump \cup {NoDump}
    /\ tars \in SUBSET Dump
    /\ info \in [Dump -> InfoType]
    /\ call \in CallType
    /\ del \in DelType
    /\ ckpt \in CkptType
    /\ upl \in UplType
    /\ crashes \in 0..MaxCrashes

(***************************************************************************)
(* Quiesce before dump.  No checkpoint of a pod that opted in, by either   *)
(* checkpointer, begins before its shim has parked it at a safe point.     *)
(***************************************************************************)
DumpedParked ==
    \A d \in Dump : info[d].quiesce => info[d].parked

\* A live object may call the dump d its own: it is of its pod, or it names it.
Owned(d) == Live(obj) /\ (info[d].life = obj.life \/ d = obj.tar)

(***************************************************************************)
(* MANIFEST is a commit marker.  Whenever the directory has a MANIFEST, it *)
(* holds every image of the dump that MANIFEST was written for - except    *)
(* when a deletion went on removing files under the hands of the writer,   *)
(* and then the dump is none a live object may call its own.               *)
(***************************************************************************)
CommittedWhole ==
    dir.manifest # NoDump =>
        \/ dir.manifest \in dir.whole
        \/ dir.manifest \in dir.torn /\ ~Owned(dir.manifest)

(***************************************************************************)
(* A snapshot that is Completed has its artifact committed: nothing takes  *)
(* the artifact from under an object that still offers it to restores.     *)
(***************************************************************************)
CompletedIsCommitted ==
    (obj.phase = "Completed" /\ Live(obj)) => Committed(obj.spec) # NoDump

(***************************************************************************)
(* The artifact of a Completed kubelet snapshot is the very tar its status *)
(* names, however many tars the kubelet wrote for it; NoDump while a late  *)
(* reconcile of the upload, whose tar could not be removed, repeats it.    *)
(***************************************************************************)
PublishesRecordedTar ==
    (obj.phase = "Completed" /\ Live(obj) /\ ~obj.spec.agent) =>
        Committed(obj.spec) \in {obj.tar, NoDump}

(***************************************************************************)
(* A committed artifact of a live snapshot is never reported as a failure. *)
(***************************************************************************)
CommittedNeverFails ==
    [][ (obj'.phase = "Failed" /\ obj.phase # "Failed" /\ Live(obj)
         /\ Committed(obj.spec) # NoDump) =>
            info[Committed(obj.spec)].life # obj.life ]_vars

(***************************************************************************)
(* A MANIFEST the agent finds before it has dumped anything is of a dump   *)
(* of the pod this object selects: the reconcile is a re-entry.            *)
(***************************************************************************)
ReentryFindsOwn ==
    [][ (ckpt.pc = "idle" /\ ckpt'.pc = "completing") =>
            info[ckpt'.dump].life = cache["agent"].life ]_vars

(***************************************************************************)
(* A snapshot whose artifact is a tar is the kubelet's: it never fails     *)
(* because the agent, too, took it up and needs a directory.               *)
(***************************************************************************)
TarFallsBack == ~(obj.phase = "Failed" /\ obj.msg = "needsDir")

Rank(phase) ==
    CASE phase = "New" -> 0
      [] phase = "Pending" -> 1
      [] phase = "Quiescing" -> 2
      [] phase = "Checkpointing" -> 3
      [] phase = "Checkpointed" -> 4
      [] phase = "Uploading" -> 5
      [] OTHER -> 6

\* A step that leaves the object in existence leaves its phase or raises it.
PhaseForward ==
    (obj'.life = obj.life /\ Exists(obj') /\ ~obj.spec.agent /\ obj'.phase # obj.phase) =>
        Rank(obj.phase) < Rank(obj'.phase)

(***************************************************************************)
(* On the kubelet path an object's phase only moves forward, and a         *)
(* terminal phase is final, however many stale copies write.               *)
(***************************************************************************)
KubeletPhasesForward == [][PhaseForward]_vars

Started == {"Quiescing", "Checkpointing", "Checkpointed", "Uploading"}

(***************************************************************************)
(* Every snapshot whose pod was found running ends: Completed, Failed or   *)
(* deleted.                                                                *)
(***************************************************************************)
SnapshotEnds ==
    \A l \in Lives :
        (obj.life = l /\ obj.phase \in Started) ~> (obj.life # l \/ obj.phase \notin Started)

(***************************************************************************)
(* Deletion ends: an object marked for deletion leaves the API server.     *)
(***************************************************************************)
DeletionEnds == obj.deleting ~> ~Exists(obj)

-----------------------------------------------------------------------------
\* What the status of a PodSnapshot says to its readers.
Stage ==
    IF obj.deleting THEN "leaving"
    ELSE CASE obj.phase = "Gone" -> "absent"
           [] obj.phase \in {"New", "Pending"} -> "requested"
           [] obj.phase = "Quiescing" -> "quiescing"
           [] obj.phase = "Checkpointing" -> "dumping"
           [] obj.phase = "Checkpointed" -> "dumped"
           [] obj.phase = "Uploading" -> "publishing"
           [] obj.phase = "Completed" -> "completed"
           [] OTHER -> "failed"

Named == IF obj.deleting THEN NoDump ELSE obj.tar
Begun == {d \in Dump : ~Fresh(d)}
Found == {dir.manifest, tarball} \ {NoDump}

Lifecycle == INSTANCE SnapshotLifecycle WITH
    stage <- Stage, dump <- Named, taken <- Begun, published <- Found

(***************************************************************************)
(* With the kubelet's checkpointer a PodSnapshot keeps what it promises:   *)
(* it names a dump that was taken, it is Completed only when that very     *)
(* dump is committed, and nothing else is published under it afterwards,   *)
(* whatever reconcilers, late answers, repeated uploads and restarts do.   *)
(***************************************************************************)
KeepsLifecycle == Lifecycle!Spec
=============================================================================
