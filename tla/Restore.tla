------------------------------ MODULE Restore ------------------------------
(***************************************************************************)
(* One PodRestore name driven by the manager and the agent of its node,    *)
(* under a user who creates and deletes objects of that name, an artifact  *)
(* that is committed and may be deleted, and a placeholder pod that lives  *)
(* a life of its own.                                                      *)
(***************************************************************************)
EXTENDS RestoreManager, RestoreAgent

Init ==
    /\ rst = Absent(0)
    /\ cache = [p \in Processes |-> Absent(0)]
    /\ keeper = NoPod
    /\ seen = NoPod
    /\ art = "pending"
    /\ late = {}
    /\ run = [l \in Lives |-> "none"]
    /\ pins = {}
    /\ stage = [l \in Lives |-> NoStage]
    /\ wrk = NoWork
    /\ crashes = 0

-----------------------------------------------------------------------------
\* The user.
Create(s) ==
    /\ ~Exists(rst)
    /\ rst.life < MaxLives
    /\ rst' = [Absent(rst.life + 1) EXCEPT !.spec = s, !.phase = "New"]
    /\ UNCHANGED <<cache, podVars, art, late, nodeVars, wrk, crashes>>

\* An object with no finalizer is gone at once.
Delete ==
    /\ Live(rst)
    /\ rst' = IF rst.finalizer THEN [rst EXCEPT !.deleting = TRUE] ELSE Absent(rst.life)
    /\ UNCHANGED <<cache, podVars, art, late, nodeVars, wrk, crashes>>

\* The snapshot the restore refers to completes, and may be deleted.
ArtifactGoes(from, to) ==
    /\ art = from
    /\ art' = to
    /\ UNCHANGED <<apiVars, podVars, late, nodeVars, wrk, crashes>>

ArtifactCommits == ArtifactGoes("pending", "committed")
ArtifactDeleted == ArtifactGoes("committed", "deleted")

(***************************************************************************)
(* The placeholder pod.  It starts or fails; anyone may delete it, and     *)
(* garbage collection does so when the object that owns it is gone.  With  *)
(* it goes its cgroup, and in that the restored container.                 *)
(***************************************************************************)
KeeperMoves(from, to) ==
    /\ keeper.state \in from
    /\ keeper' = [keeper EXCEPT !.state = to]
    /\ UNCHANGED <<apiVars, seen, art, late, nodeVars, wrk, crashes>>

KeeperStarts == KeeperMoves({"pending"}, "running")
KeeperFails == KeeperMoves({"pending", "running"}, "failed")
KeeperEvicted == KeeperMoves({"running"}, "terminating")

KeeperCollected ==
    /\ ~(Exists(rst) /\ rst.life = keeper.life)
    /\ KeeperMoves({"pending", "running", "failed"}, "terminating")

KeeperGoes ==
    /\ keeper.state = "terminating"
    /\ keeper' = NoPod
    /\ run' = [l \in Lives |-> IF l = keeper.life /\ run[l] = "running" THEN "stopped" ELSE run[l]]
    /\ UNCHANGED <<apiVars, seen, art, late, pins, stage, wrk, crashes>>

\* The restored process may end at any time.
ContainerDies ==
    \E l \in Lives :
        /\ run[l] = "running"
        /\ run' = [run EXCEPT ![l] = "stopped"]
        /\ UNCHANGED <<apiVars, podVars, art, late, pins, stage, wrk, crashes>>

\* The timeout counts from the moment the object became Pending.
LatePasses ==
    \E l \in Lives :
        /\ rst.life = l /\ rst.phase \notin {"New", "Gone"}
        /\ late' = late \cup {l}
        /\ UNCHANGED <<apiVars, podVars, art, nodeVars, wrk, crashes>>

\* Watch events bring the informers up to date.
Informed(p) ==
    /\ cache' = [cache EXCEPT ![p] = rst]
    /\ UNCHANGED <<rst, podVars, art, late, nodeVars, wrk, crashes>>

PodInformed ==
    /\ seen' = keeper
    /\ UNCHANGED <<apiVars, keeper, art, late, nodeVars, wrk, crashes>>

-----------------------------------------------------------------------------
ManagerNext == ManagerReconciles(cache["manager"]) \/ ManagerRestarts
AgentNext == AgentReconciles(cache["agent"]) \/ AgentRestarts

UserNext == Delete \/ \E s \in Specs : Create(s)
ArtifactNext == ArtifactCommits \/ ArtifactDeleted
KeeperNext ==
    \/ KeeperStarts \/ KeeperFails \/ KeeperEvicted
    \/ KeeperCollected \/ KeeperGoes \/ ContainerDies
InformerNext == PodInformed \/ \E p \in Processes : Informed(p)

Next ==
    \/ ManagerNext \/ AgentNext
    \/ UserNext \/ ArtifactNext \/ KeeperNext
    \/ LatePasses
    \/ InformerNext

Spec == Init /\ [][Next]_vars

(***************************************************************************)
(* Fairness.  Reconcilers are retried and requeue while they wait, their   *)
(* calls return, informers catch up and the timeout passes.  Nothing is    *)
(* assumed of the user, the artifact, the pod, the restored process or     *)
(* crashes.                                                                *)
(***************************************************************************)
Fairness ==
    /\ \A p \in Processes : WF_vars(Informed(p))
    /\ WF_vars(PodInformed)
    /\ WF_vars(ManagerReconciles(cache["manager"]))
    /\ WF_vars(AgentReconciles(cache["agent"]))
    /\ WF_vars(LatePasses)

FairSpec == Spec /\ Fairness

-----------------------------------------------------------------------------
\* Every variable keeps its type.
TypeOK ==
    /\ rst \in ObjType
    /\ cache \in [Processes -> ObjType]
    /\ keeper \in PodType
    /\ seen \in PodType
    /\ art \in {"pending", "committed", "deleted"}
    /\ late \in SUBSET Lives
    /\ run \in [Lives -> Containers]
    /\ pins \in SUBSET Lives
    /\ stage \in [Lives -> StageType]
    /\ wrk \in WorkType
    /\ crashes \in 0..MaxCrashes

(***************************************************************************)
(* The agent never restores into the pod an earlier PodRestore of the same *)
(* name left behind: the pod an object records is the one made for it.     *)
(***************************************************************************)
OwnPodOnly == rst.pod # 0 => rst.pod = rst.life

Final(c, d) ==
    c.phase \in Terminal => d.phase \in {c.phase, "Failed"}

\* A step that leaves the object in existence leaves its terminal phase, or
\* turns Running into Failed.
TerminalKept == (Exists(rst') /\ rst'.life = rst.life) => Final(rst, rst')

(***************************************************************************)
(* A restore that failed, by its timeout for one, is never re-opened by    *)
(* the runc it was inside of when that happened, and one that runs can     *)
(* only fail.                                                              *)
(***************************************************************************)
RestoreFinal == [][TerminalKept]_vars

(***************************************************************************)
(* A container that was recorded does not outlive its object: when the     *)
(* finalizer is released, the agent has killed it.                         *)
(***************************************************************************)
RecordedContainerKilled ==
    [][ (Exists(rst) /\ rst.container /\ ~Exists(rst')) => run[rst.life] # "running" ]_vars

Unfinished == {"Pending", "PreWarming", "Preparing", "Restoring"}

(***************************************************************************)
(* Every restore that was accepted ends: Running, Failed or deleted.       *)
(***************************************************************************)
RestoreEnds ==
    \A l \in Lives :
        (rst.life = l /\ rst.phase \in Unfinished) ~> (rst.life # l \/ rst.phase \notin Unfinished)

(***************************************************************************)
(* Deletion ends: an object marked for deletion leaves the API server,     *)
(* whatever the agent was doing for it.                                    *)
(***************************************************************************)
RestoreDeletionEnds == rst.deleting ~> ~Exists(rst)

Dead(l) == Live(rst) /\ rst.life = l /\ rst.phase = "Running" /\ run[l] # "running"

(***************************************************************************)
(* The death of a restored container does not stay hidden behind the       *)
(* placeholder pod, which still looks healthy.                             *)
(***************************************************************************)
DeathNoticed == \A l \in Lives : Dead(l) ~> ~Dead(l)

(***************************************************************************)
(* Once an object is gone, its container does not run and nothing is       *)
(* pinned for it.                                                          *)
(***************************************************************************)
TornDownBeforeGone ==
    \A l \in 1..rst.life :
        ~(Exists(rst) /\ rst.life = l) => (run[l] # "running" /\ l \notin pins)

-----------------------------------------------------------------------------
(* What module RestoreLifecycle calls the state. *)
Stage ==
    IF rst.deleting THEN "leaving"
    ELSE CASE rst.phase = "Gone" -> "absent"
           [] rst.phase = "New" -> "requested"
           [] rst.phase = "Pending" -> "pending"
           [] rst.phase = "PreWarming" -> "warming"
           [] rst.phase = "Preparing" -> "preparing"
           [] rst.phase = "Restoring" -> "restoring"
           [] rst.phase = "Running" -> "running"
           [] OTHER -> "failed"

\* The container of the object that has the name now; a recorded one that runc
\* does not know was removed.
Container ==
    IF ~Exists(rst) THEN "none"
    ELSE IF rst.container /\ run[rst.life] = "none" THEN "removed"
    ELSE run[rst.life]

Lifecycle == INSTANCE RestoreLifecycle WITH
    stage <- Stage, warmed <- rst.warmed, container <- Container, recorded <- rst.container

(***************************************************************************)
(* A PodRestore keeps what it promises: its container is started at most   *)
(* once and not before it is Restoring, Running is said of one that was    *)
(* started, the artifact is warmed at most once, no stage comes back, and  *)
(* a recorded container is dead before the object is gone - whatever stale *)
(* copies, conflicts, restarts and leftovers the two processes act on.     *)
(***************************************************************************)
KeepsRestoreLifecycle == Lifecycle!Spec
=============================================================================
