----------------------------- MODULE NodeRestore -----------------------------
(***************************************************************************)
(* One PodRestore of a directory artifact on its node, file by file: the   *)
(* pre-warm, the choice among three copies of the images (staged, NVMe     *)
(* tier, mount), CRIU reading them, and the resume marker that frees the   *)
(* restored process - against uploads and deletions of the artifact,       *)
(* eviction from the tier, and restarts of the agent.                      *)
(*                                                                         *)
(* The worker reads the object from an informer that lags, and its status  *)
(* writes may conflict; it then begins again.  Module Restore has what     *)
(* other writers do, teardown and deletion of the object; here nobody      *)
(* deletes it, and its pod runs when the pre-warm is done.                 *)
(***************************************************************************)
EXTENDS Prefetch

CONSTANTS
    Modes,       \* how the agent may be configured
    StaleModes,  \* bound: in which of them a pre-warm may begin from a stale copy
    MaxRestarts  \* bound on its restarts

ModeType == [staging : BOOLEAN, pinner : BOOLEAN, cached : BOOLEAN]

ASSUME ModesAssumption == Modes \subseteq ModeType
ASSUME RestartsAssumption == MaxRestarts \in Nat

VARIABLES
    mode,           \* StageImageLocal, a Pinner, an NVMeCacheRoot
    phase,          \* status.phase
    phaseSeen,      \* status.phase in the copy the agent's informer has
    agt,            \* the restore reconciler's worker
    pin,            \* the prefix is pinned in fuse-client's cache
    stageManifest,  \* the MANIFEST in the staging directory
    marker,         \* restore-complete in the pod's rendezvous directory
    proc,           \* the restored process, parked in its shim when dumped
    missed,         \* history: the last restore failed for want of an image
    restaged,       \* history: a pre-warm begun from a stale copy, after the restore's
                    \* own, is replacing the staged files or never finished that
    calm,           \* history: the artifact is as the restore under way found it
    restarts

nodeVars == <<mode, phase, phaseSeen, agt, pin, stageManifest, marker, proc, missed, restaged,
              calm, restarts>>
vars == <<store, manifest, wr, del, raced, uploads, deletes, pool, work, staged, tier,
          mode, phase, phaseSeen, agt, pin, stageManifest, marker, proc, missed, restaged,
          calm, restarts>>

(***************************************************************************)
(* Where the worker is, the copy it reads - src - and the files of that    *)
(* copy it has seen, by Resolve or by CRIU.                                *)
(***************************************************************************)
AgtType == [pc   : {"idle", "warming", "checkingWarm", "fetching", "warmed",
                      "reading", "checking", "marking", "opening"},
            src  : {"none", "staged", "tier", "mount"},
            seen : SUBSET Files]
NoAgt == [pc |-> "idle", src |-> "none", seen |-> {}]

Init ==
    /\ StoreInit /\ PoolInit
    /\ mode \in Modes
    /\ phase = "PreWarming"
    /\ phaseSeen = "PreWarming"
    /\ agt = NoAgt
    /\ pin = FALSE
    /\ stageManifest = FALSE
    /\ marker = FALSE
    /\ proc = "none"
    /\ missed = FALSE
    /\ restaged = FALSE
    /\ calm = FALSE
    /\ restarts = 0

AgtGoes(pc) == agt' = [NoAgt EXCEPT !.pc = pc]

\* What no step of the worker touches.
Quiet == UNCHANGED <<storeVars, mode, phaseSeen, restarts>>

\* Status().Update of the copy the worker began with: it may conflict, and does
\* when the phase has moved on.
Reports(from, to) == phase' \in {phase} \cup IF phase = from THEN {to} ELSE {}

-----------------------------------------------------------------------------
(***************************************************************************)
(* prewarm.  A pin that fails is only logged; once taken it stays until    *)
(* teardown.                                                               *)
(***************************************************************************)
WarmPins ==
    /\ agt.pc = "idle" /\ phaseSeen = "PreWarming"
    /\ phaseSeen = phase \/ mode \in StaleModes
    /\ pin' \in IF mode.pinner THEN {pin, TRUE} ELSE {pin}
    /\ AgtGoes("warming")
    /\ Quiet /\ UNCHANGED <<poolVars, phase, stageManifest, marker, proc, missed, restaged, calm>>

\* No MANIFEST: come back later.
WarmWaits ==
    /\ agt.pc = "warming"
    /\ ~manifest
    /\ AgtGoes("idle")
    /\ Quiet /\ UNCHANGED <<poolVars, phase, pin, stageManifest, marker, proc, missed, restaged, calm>>

\* With a MANIFEST: the tier may already hold all of it, unless it is to be staged.
WarmReads ==
    /\ agt.pc = "warming"
    /\ manifest
    /\ IF mode.staging \/ ~mode.cached
       THEN /\ AgtGoes("fetching") /\ PoolStarts(mode.staging)
            /\ restaged' = (mode.staging /\ phase # "PreWarming")
       ELSE AgtGoes("checkingWarm") /\ UNCHANGED <<poolVars, restaged>>
    /\ Quiet /\ UNCHANGED <<phase, pin, stageManifest, marker, proc, missed, calm>>

(***************************************************************************)
(* NVMeCache.Resolve, from pre-warm or from restore: one stat after the    *)
(* other; a file that is missing or short ends it.                         *)
(***************************************************************************)
Checks(pc) == agt.pc = pc /\ agt.seen # Files

\* Bug: Resolve asks only whether the file is there.
ResolveSeesName(pc) ==
    /\ Checks(pc)
    /\ tier[FirstOf(Files \ agt.seen)] # "absent"
    /\ agt' = [agt EXCEPT !.seen = @ \cup {FirstOf(Files \ agt.seen)}]
    /\ Quiet /\ UNCHANGED <<poolVars, phase, pin, stageManifest, marker, proc, missed, restaged, calm>>

ResolveSees(pc) ==
    /\ Checks(pc)
    /\ tier[FirstOf(Files \ agt.seen)] = "whole"
    /\ agt' = [agt EXCEPT !.seen = @ \cup {FirstOf(Files \ agt.seen)}]
    /\ Quiet /\ UNCHANGED <<poolVars, phase, pin, stageManifest, marker, proc, missed, restaged, calm>>

Declines(pc) == Checks(pc) /\ tier[FirstOf(Files \ agt.seen)] # "whole"

WarmIsResident ==
    /\ agt.pc = "checkingWarm" /\ agt.seen = Files
    /\ AgtGoes("warmed")
    /\ Quiet /\ UNCHANGED <<poolVars, phase, pin, stageManifest, marker, proc, missed, restaged, calm>>

WarmFetches ==
    /\ Declines("checkingWarm")
    /\ AgtGoes("fetching") /\ PoolStarts(FALSE)
    /\ Quiet /\ UNCHANGED <<phase, pin, stageManifest, marker, proc, missed, restaged, calm>>

\* Bug: the staged MANIFEST is written whatever Prefetch returned.
WarmCommitsAnyway ==
    /\ agt.pc = "fetching" /\ pool.pc = "returned"
    /\ stageManifest' = (stageManifest \/ mode.staging)
    /\ restaged' = FALSE
    /\ AgtGoes("warmed") /\ PoolDies
    /\ Quiet /\ UNCHANGED <<phase, pin, marker, proc, missed, calm>>

\* A staged copy is committed by a MANIFEST of its own.
WarmCommits ==
    /\ agt.pc = "fetching" /\ Fetched
    /\ stageManifest' = (stageManifest \/ mode.staging)
    /\ restaged' = FALSE
    /\ AgtGoes("warmed") /\ PoolDies
    /\ Quiet /\ UNCHANGED <<phase, pin, marker, proc, missed, calm>>

\* Prefetch failed, or the staged MANIFEST could not be written: one from before
\* stays, over what was replaced.
WarmFails ==
    /\ agt.pc = "fetching" /\ pool.pc = "returned"
    /\ Fetched => mode.staging
    /\ Reports("PreWarming", "Failed")
    /\ AgtGoes("idle") /\ PoolDies
    /\ Quiet /\ UNCHANGED <<pin, stageManifest, marker, proc, missed, restaged, calm>>

\* Bug: a phase the API does not know.
WarmReportsMisspelt ==
    /\ agt.pc = "warmed"
    /\ Reports("PreWarming", "Restore")
    /\ AgtGoes("idle")
    /\ Quiet /\ UNCHANGED <<poolVars, pin, stageManifest, marker, proc, missed, restaged, calm>>

WarmReports ==
    /\ agt.pc = "warmed"
    /\ Reports("PreWarming", "Restoring")
    /\ AgtGoes("idle")
    /\ Quiet /\ UNCHANGED <<poolVars, pin, stageManifest, marker, proc, missed, restaged, calm>>

-----------------------------------------------------------------------------
\* restore: without a MANIFEST on the mount it comes back later, staged or not.
RestoreBegins ==
    /\ agt.pc = "idle" /\ phaseSeen = "Restoring"
    /\ manifest
    /\ missed' = FALSE
    /\ AgtGoes("reading")
    /\ Quiet /\ UNCHANGED <<poolVars, phase, pin, stageManifest, marker, proc, restaged, calm>>

\* Which copy: a staged one that is committed, the tier's when it is complete,
\* the mount's.
RestoreReads ==
    /\ agt.pc = "reading"
    /\ IF stageManifest
       THEN agt' = [pc |-> "marking", src |-> "staged", seen |-> {}]
       ELSE /\ manifest
            /\ agt' = IF mode.cached
                      THEN [pc |-> "checking", src |-> "none", seen |-> {}]
                      ELSE [pc |-> "marking", src |-> "mount", seen |-> {}]
    /\ calm' = TRUE
    /\ Quiet /\ UNCHANGED <<poolVars, phase, pin, stageManifest, marker, proc, missed, restaged>>

RestoreUsesTier ==
    /\ agt.pc = "checking" /\ agt.seen = Files
    /\ agt' = [pc |-> "marking", src |-> "tier", seen |-> {}]
    /\ Quiet /\ UNCHANGED <<poolVars, phase, pin, stageManifest, marker, proc, missed, restaged, calm>>

RestoreDeclinesTier ==
    /\ Declines("checking")
    /\ agt' = [pc |-> "marking", src |-> "mount", seen |-> {}]
    /\ Quiet /\ UNCHANGED <<poolVars, phase, pin, stageManifest, marker, proc, missed, restaged, calm>>

\* Bug: a marker that cannot be written is only logged.
RestoreMarksMaybe ==
    /\ agt.pc = "marking"
    /\ marker' \in {marker, TRUE}
    /\ agt' = [agt EXCEPT !.pc = "opening"]
    /\ Quiet /\ UNCHANGED <<poolVars, phase, pin, stageManifest, proc, missed, restaged, calm>>

\* writeResumeMarker, before runc.
RestoreMarks ==
    /\ agt.pc = "marking"
    /\ marker' = TRUE
    /\ agt' = [agt EXCEPT !.pc = "opening"]
    /\ Quiet /\ UNCHANGED <<poolVars, phase, pin, stageManifest, proc, missed, restaged, calm>>

Source == CASE agt.src = "staged" -> staged
            [] agt.src = "tier"   -> tier
            [] OTHER              -> store

\* CRIU opens the images, one after the other.
RuncOpens(f) ==
    /\ agt.pc = "opening" /\ proc = "none"
    /\ f \notin agt.seen
    /\ Source[f] = "whole"
    /\ agt' = [agt EXCEPT !.seen = @ \cup {f}]
    /\ Quiet /\ UNCHANGED <<poolVars, phase, pin, stageManifest, marker, proc, missed, restaged, calm>>

RuncRestores ==
    /\ agt.pc = "opening" /\ proc = "none"
    /\ agt.seen = Files
    /\ proc' = "parked"
    /\ Reports("Restoring", "Running")
    /\ calm' = FALSE
    /\ AgtGoes("idle")
    /\ Quiet /\ UNCHANGED <<poolVars, pin, stageManifest, marker, missed, restaged>>

RestoreFails ==
    /\ Reports("Restoring", "Failed")
    /\ calm' = FALSE
    /\ AgtGoes("idle")
    /\ Quiet /\ UNCHANGED <<poolVars, pin, stageManifest, marker, proc, restaged>>

\* An image is missing or short where the chosen copy should have it.
RuncMissesImage ==
    /\ agt.pc = "opening" /\ proc = "none"
    /\ \E f \in Files \ agt.seen : Source[f] # "whole"
    /\ missed' = TRUE
    /\ RestoreFails

\* Everything else that ends a restore: no MANIFEST any more, the bundle, the
\* spec, the marker, a container of that id.
RestoreFailsOtherwise ==
    /\ \/ agt.pc = "reading" /\ ~stageManifest /\ ~manifest
       \/ agt.pc \in {"marking", "opening"}
    /\ UNCHANGED missed
    /\ RestoreFails

\* The shim polls the rendezvous directory of its new pod.
ShimResumes ==
    /\ proc = "parked"
    /\ marker
    /\ proc' = "resumed"
    /\ Quiet /\ UNCHANGED <<poolVars, phase, agt, pin, stageManifest, marker, missed, restaged, calm>>

-----------------------------------------------------------------------------
\* The agent stops where it leaves something behind: staged files, or the marker and
\* a runc that may still restore the process.
AgentRestarts ==
    /\ mode.staging \/ agt.pc = "opening"
    /\ restarts < MaxRestarts
    /\ restarts' = restarts + 1
    /\ proc' \in {proc} \cup IF agt.pc = "opening" /\ agt.seen = Files THEN {"parked"} ELSE {}
    /\ AgtGoes("idle") /\ PoolDies
    /\ phaseSeen' = phase /\ calm' = FALSE
    /\ UNCHANGED <<storeVars, mode, phase, pin, stageManifest, marker, missed, restaged>>

\* A watch event brings the agent's copy up to date.
Informed ==
    /\ phaseSeen' = phase
    /\ UNCHANGED <<storeVars, poolVars, mode, phase, agt, pin, stageManifest, marker, proc, missed,
                   restaged, calm, restarts>>

\* Bound: what becomes of the artifact and the tier after the restore is left out.
Unfinished == phase \in {"PreWarming", "Restoring"}

(***************************************************************************)
(* fuse-client and its other readers: a copy appears on the tier, in part  *)
(* or whole, and is evicted unless the prefix is pinned.                   *)
(***************************************************************************)
TierFills(f) ==
    /\ Unfinished /\ mode.cached
    /\ \/ tier[f] = "absent" /\ store[f] = "whole" /\ tier' = [tier EXCEPT ![f] = "part"]
       \/ tier[f] = "part" /\ tier' = [tier EXCEPT ![f] = "whole"]
    /\ UNCHANGED <<storeVars, pool, work, staged, nodeVars>>

TierEvicts(f) ==
    /\ Unfinished /\ ~pin
    /\ tier[f] # "absent"
    /\ tier' = [tier EXCEPT ![f] = "absent"]
    /\ UNCHANGED <<storeVars, pool, work, staged, nodeVars>>

\* A file that is unlinked, or written anew, leaves the tier, pinned or not.
TierFollows ==
    tier' \in {tier, [f \in Files |-> IF store'[f] = "whole" THEN tier[f] ELSE "absent"]}

ArtifactMoves ==
    /\ Unfinished
    /\ UploadNext \/ DeleteNext
    /\ TierFollows
    /\ calm' = (calm /\ UNCHANGED <<store, manifest>>)
    /\ UNCHANGED <<pool, work, staged, mode, phase, phaseSeen, agt, pin, stageManifest, marker,
                   proc, missed, restaged, restarts>>

\* The tier of an agent without an NVMeCacheRoot is nobody's concern here.
FetchGoes ==
    /\ agt.pc = "fetching"
    /\ PoolNext
    /\ ~mode.cached => UNCHANGED tier
    /\ UNCHANGED <<storeVars, nodeVars>>

WarmNext ==
    \/ WarmPins \/ WarmWaits \/ WarmReads
    \/ ResolveSees("checkingWarm")
    \/ WarmIsResident \/ WarmFetches \/ WarmCommits \/ WarmFails \/ WarmReports

RestoreNext ==
    \/ RestoreBegins \/ RestoreReads
    \/ ResolveSees("checking")
    \/ RestoreUsesTier \/ RestoreDeclinesTier \/ RestoreMarks
    \/ \E f \in Files : RuncOpens(f)
    \/ RuncRestores \/ RuncMissesImage \/ RestoreFailsOtherwise

Next ==
    \/ ArtifactMoves
    \/ FetchGoes
    \/ WarmNext
    \/ RestoreNext
    \/ ShimResumes
    \/ AgentRestarts \/ Informed
    \/ \E f \in Files : TierFills(f) \/ TierEvicts(f)

Spec == Init /\ [][Next]_vars

(***************************************************************************)
(* Fairness: goroutines that can run do and their reads end, and the shim  *)
(* polls.  Nothing is assumed of the rest: uploads, deletions, the tier,   *)
(* the reconciles, restarts.                                               *)
(***************************************************************************)
Fairness ==
    /\ WF_vars(FetchGoes)
    /\ WF_vars(ShimResumes)

FairSpec == Spec /\ Fairness

-----------------------------------------------------------------------------
\* Every variable keeps its type.
TypeOK ==
    /\ StoreTypeOK
    /\ PoolTypeOK
    /\ mode \in ModeType
    /\ phase \in {"PreWarming", "Restoring", "Running", "Failed"}
    /\ phaseSeen \in {"PreWarming", "Restoring", "Running", "Failed"}
    /\ agt \in AgtType
    /\ pin \in BOOLEAN
    /\ stageManifest \in BOOLEAN
    /\ marker \in BOOLEAN
    /\ proc \in {"none", "parked", "resumed"}
    /\ missed \in BOOLEAN
    /\ restaged \in BOOLEAN
    /\ calm \in BOOLEAN
    /\ restarts \in 0..MaxRestarts

(***************************************************************************)
(* A restore fails for want of an image only when there is a reason for    *)
(* it.  Of a staged copy: a pre-warm repeated from a stale copy of the     *)
(* object left it half replaced under its MANIFEST.  Of the others: the    *)
(* artifact changed under it after it read the MANIFEST, a Delete raced    *)
(* the publication, or it reads an unpinned tier - never a pinned one that *)
(* it has checked.                                                         *)
(***************************************************************************)
MissingImageExplained ==
    (missed' /\ ~missed) =>
        IF agt.src = "staged"
        THEN restaged
        ELSE ~calm \/ raced \/ (agt.src = "tier" /\ ~pin)

(***************************************************************************)
(* Every step that fails a restore for a missing image has that reason.    *)
(***************************************************************************)
ImagesLast == [][MissingImageExplained]_vars

(***************************************************************************)
(* A staged copy that a restore reads is whole, wherever the agent stopped *)
(* in the pre-warms before, whatever failed and whichever report of it was *)
(* lost; but for a pre-warm that was repeated from a stale copy after the  *)
(* one the restore follows, and that never staged everything again.        *)
(***************************************************************************)
StagedReadWhole == (agt.src = "staged") => Whole(staged) \/ restaged

(***************************************************************************)
(* A process that is restored is released from the wait it was dumped in.  *)
(***************************************************************************)
RestoredResumes == (proc = "parked") ~> (proc = "resumed")
=============================================================================
