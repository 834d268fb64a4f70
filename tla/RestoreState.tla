--------------------------- MODULE RestoreState ---------------------------
(***************************************************************************)
(* The state one PodRestore name moves through: the API object and the     *)
(* informer caches it is read from, the placeholder pod the manager makes  *)
(* for it, and what the agent leaves on the node - the restored container, *)
(* the pin in the node cache, the staged copy of the artifact.             *)
(*                                                                         *)
(* status.message is left out: nothing compares it, so a reconcile that    *)
(* only says what it waits for changes nothing here.                       *)
(***************************************************************************)
EXTENDS Naturals

CONSTANTS
    MaxLives,     \* how many objects of this name the user creates, in turn
    Specs,        \* the specs the user may create an object with
    Staging,      \* the agent's StageImageLocal
    MaxCrashes    \* bound on process restarts

(***************************************************************************)
(* pinned says that nodeName is set and fuse that the artifact's scheme is *)
(* fuse; valid is FALSE when the source, the URI or the template cannot be *)
(* resolved, fits when the node's environment contradicts the artifact's.  *)
(***************************************************************************)
SpecType == [pinned : BOOLEAN, prewarm : BOOLEAN, fuse : BOOLEAN,
             valid : BOOLEAN, fits : BOOLEAN]

ASSUME RestoreLivesAssumption == MaxLives \in Nat \ {0}
ASSUME RestoreSpecsAssumption == Specs \subseteq SpecType
ASSUME StagingAssumption == Staging \in BOOLEAN
ASSUME RestoreCrashesAssumption == MaxCrashes \in Nat

VARIABLES
    rst,      \* the PodRestore in the API server
    cache,    \* what each process's informer last delivered of it
    keeper,   \* the pod of the placeholder's name, in the API server
    seen,     \* what the manager's informer last delivered of that pod
    art,      \* the artifact: "pending", "committed" or "deleted"
    late,     \* lives whose restore timeout has passed
    run,      \* the runc container of each life, "snap-<UID>"
    pins,     \* lives whose pin session exists
    stage,    \* the staged image directory of each life
    wrk,      \* the agent's worker
    crashes   \* restarts so far

apiVars  == <<rst, cache>>
podVars  == <<keeper, seen>>
nodeVars == <<run, pins, stage>>
vars == <<rst, cache, keeper, seen, art, late, run, pins, stage, wrk, crashes>>

Lives == 1..MaxLives
Processes == {"manager", "agent"}

Terminal == {"Running", "Failed"}
Phases == {"New", "Pending", "PreWarming", "Preparing", "Restoring", "Gone"} \cup Terminal

(***************************************************************************)
(* The object.  target, named and container say that status.targetNode,    *)
(* podName and restoredContainerID are set; pod is the life whose pod      *)
(* status.podUID names, or 0; warmed and torn are conditions.              *)
(***************************************************************************)
ObjType == [life : 0..MaxLives, spec : SpecType, phase : Phases,
            target : BOOLEAN, named : BOOLEAN, pod : 0..MaxLives, warmed : BOOLEAN,
            container : BOOLEAN, torn : BOOLEAN, deleting : BOOLEAN, finalizer : BOOLEAN]

NoSpec == [pinned |-> FALSE, prewarm |-> FALSE, fuse |-> FALSE, valid |-> FALSE, fits |-> FALSE]

\* The name before its first object, or after object number life is gone.
Absent(life) ==
    [life |-> life, spec |-> NoSpec, phase |-> "Gone", target |-> FALSE, named |-> FALSE,
     pod |-> 0, warmed |-> FALSE, container |-> FALSE, torn |-> FALSE,
     deleting |-> FALSE, finalizer |-> FALSE]

Exists(c) == c.phase # "Gone"
Live(c) == Exists(c) /\ ~c.deleting

\* Update and Status().Update from the copy c, optimistic as for a PodSnapshot:
\* the API server answers Conflict or NotFound when c is not current.
Current(c) == c = rst

Write(c, new) ==
    /\ Current(c)
    /\ rst' = new
    /\ UNCHANGED cache

In(c, phase) == [c EXCEPT !.phase = phase]

\* The pod of the placeholder's name and the object that controls it.
PodType == [life : 0..MaxLives, state : {"absent", "pending", "running", "failed", "terminating"}]
NoPod == [life |-> 0, state |-> "absent"]

\* A staged copy: whether its own MANIFEST is there, and whether its files are.
StageType == [manifest : BOOLEAN, whole : BOOLEAN]
NoStage == [manifest |-> FALSE, whole |-> FALSE]

Containers == {"none", "running", "stopped"}

WorkType == [pc : {"idle", "fetching", "warmed", "restoring", "restored", "torn"},
             snap : ObjType]
NoWork == [pc |-> "idle", snap |-> Absent(0)]
=============================================================================
