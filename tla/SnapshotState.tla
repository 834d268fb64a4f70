--------------------------- MODULE SnapshotState ---------------------------
(***************************************************************************)
(* The state one PodSnapshot name moves through: the API object, the       *)
(* informer caches its controllers read it from, the pod being dumped, the *)
(* artifact store, and the workers of the two processes that act on it -   *)
(* the manager (SnapshotManager) and the node agent (SnapshotAgent).       *)
(*                                                                         *)
(* resourceVersion.  Every status write is optimistic: the API server      *)
(* takes it only when the writer's copy is the stored one.  The model      *)
(* compares contents instead of versions.  Only status.message can return  *)
(* to an earlier value, so the two differ only where the stale write       *)
(* produces the very object a re-read and a second write would produce.    *)
(***************************************************************************)
EXTENDS Naturals, FiniteSets

CONSTANTS
    Dump,       \* identities of completed or attempted checkpoints
    NoDump,     \* not a Dump
    MaxLives,   \* how many objects of this name the user creates, in turn
    Specs,      \* the specs the user may create an object with
    MaxCrashes  \* bound on process restarts

(***************************************************************************)
(* What of PodSnapshotSpec, the pod's annotations and the node's           *)
(* configuration the behaviour depends on.  valid is FALSE when the        *)
(* container, the artifact URI or a quiesce annotation cannot be resolved; *)
(* local is FALSE when the agent refuses the artifact's place              *)
(* (CheckLocalRoot, MkdirAll).                                             *)
(***************************************************************************)
SpecType == [agent : BOOLEAN, dir : BOOLEAN, delete : BOOLEAN,
             quiesce : BOOLEAN, valid : BOOLEAN, local : BOOLEAN]

ASSUME NoDumpAssumption == NoDump \notin Dump
ASSUME LivesAssumption == MaxLives \in Nat \ {0}
ASSUME SpecsAssumption == Specs \subseteq SpecType
ASSUME CrashesAssumption == MaxCrashes \in Nat

VARIABLES
    obj,      \* the PodSnapshot in the API server
    cache,    \* what each process's informer last delivered
    pods,     \* the pod of each life: "starting", "running" or "gone"
    parked,   \* lives whose shim wrote ready-for-checkpoint
    expired,  \* lives whose quiesce deadline has passed
    node,     \* the agent on the node: its version and what it advertises
    dir,      \* the directory artifact at the URI
    tarball,  \* the tar artifact at the URI: the dump it holds
    tars,     \* kubelet tars on the node's disk, by the dump each holds
    info,     \* history: which pod each dump is of, and how it was then
    call,     \* manager: the goroutine around the kubelet call
    del,      \* manager: the deletion being reconciled
    ckpt,     \* agent: the checkpoint reconciler
    upl,      \* agent: the upload reconciler
    crashes   \* restarts so far

apiVars   == <<obj, cache>>
worldVars == <<pods, parked, expired, node>>
storeVars == <<dir, tarball, tars, info>>
mgrVars   == <<call, del>>
agtVars   == <<ckpt, upl>>
vars == <<obj, cache, pods, parked, expired, node, dir, tarball, tars, info,
          call, del, ckpt, upl, crashes>>

Lives == 1..MaxLives
Processes == {"manager", "agent"}

Terminal == {"Completed", "Failed"}
Phases == {"New", "Pending", "Quiescing", "Checkpointing", "Checkpointed",
           "Uploading", "Gone"} \cup Terminal

\* The messages that some controller compares, or that say why a dump failed.
Messages == {"none", "waiting", "agentRuns", "fallback", "resolving",
             "retrying", "needsDir", "tarMissing", "error"}

(***************************************************************************)
(* The object.  "Gone" is the phase of a name that has no object; tar is   *)
(* status.kubeletCheckpointPath and artifact says status.artifact is set.  *)
(***************************************************************************)
ObjType == [life : 0..MaxLives, spec : SpecType, phase : Phases,
            msg : Messages, tar : Dump \cup {NoDump}, artifact : BOOLEAN,
            deleting : BOOLEAN, finalizer : BOOLEAN]

NoSpec == [agent |-> FALSE, dir |-> FALSE, delete |-> FALSE,
           quiesce |-> FALSE, valid |-> FALSE, local |-> FALSE]

\* The name before its first object, or after object number life is gone.
Absent(life) ==
    [life |-> life, spec |-> NoSpec, phase |-> "Gone", msg |-> "none", tar |-> NoDump, artifact |-> FALSE,
     deleting |-> FALSE, finalizer |-> FALSE]

Exists(c) == c.phase # "Gone"
Live(c) == Exists(c) /\ ~c.deleting

(***************************************************************************)
(* Update and Status().Update from the copy c: the API server stores new   *)
(* when c is current and answers Conflict (or NotFound) otherwise.         *)
(***************************************************************************)
Current(c) == c = obj

Write(c, new) ==
    /\ Current(c)
    /\ obj' = new
    /\ UNCHANGED cache

Phase(c, phase, msg) == [c EXCEPT !.phase = phase, !.msg = msg]

(***************************************************************************)
(* The directory artifact: the MANIFEST commits the dump it was written    *)
(* for; whole and part are the dumps whose images the directory holds,     *)
(* complete or not.  torn are the dumps that lost an image to a deletion   *)
(* after their writing began: writing on does not bring it back.           *)
(***************************************************************************)
DirType == [manifest : Dump \cup {NoDump}, whole : SUBSET Dump,
            part : SUBSET Dump, torn : SUBSET Dump]

EmptyDir == [manifest |-> NoDump, whole |-> {}, part |-> {}, torn |-> {}]

Images == dir.whole \cup dir.part

\* The images of d are all written: what a deletion took of them is missing.
Finished(d) ==
    [dir EXCEPT !.whole = (dir.part \cap {d}) \ dir.torn, !.part = @ \ ({d} \ dir.torn)]

\* The artifact a reader finds committed at the URI.
Committed(spec) == IF spec.dir THEN dir.manifest ELSE tarball

(***************************************************************************)
(* The pod an object selects, as a worker remembers it, and the record of  *)
(* a checkpoint of it: whether its shim was parked when the dump began.    *)
(***************************************************************************)
PodType == [life : 0..MaxLives, quiesce : BOOLEAN]
NoPod == [life |-> 0, quiesce |-> FALSE]
PodOf(c) == [life |-> c.life, quiesce |-> c.spec.quiesce]

InfoType == [life : 0..MaxLives, quiesce : BOOLEAN, parked : BOOLEAN]
NoInfo == [life |-> 0, quiesce |-> FALSE, parked |-> FALSE]

Fresh(d) == info[d] = NoInfo

Taken(d, pod) ==
    [info EXCEPT ![d] = [life    |-> pod.life,
                         quiesce |-> pod.quiesce,
                         parked  |-> pod.life \in parked]]
=============================================================================
