--------------------------- MODULE RestoreAgent ---------------------------
(***************************************************************************)
(* The node agent's PodRestore reconciler, one worker: pre-warm, restore,  *)
(* watch, tear down.  A reconcile keeps the copy it read and writes from   *)
(* it at the end, so what happened meanwhile makes that write a conflict.  *)
(***************************************************************************)
EXTENDS RestoreState

Mine(c) == wrk.pc = "idle" /\ Live(c) /\ c.target

AgentGoes(next) == wrk' = next /\ UNCHANGED <<podVars, art, late, crashes>>

\* The status write that ends a reconcile; a conflict is an error, and retried
\* from what the cache then says.
Reports(c, new) ==
    /\ IF Current(c) THEN Write(c, new) ELSE UNCHANGED apiVars
    /\ AgentGoes(NoWork)

-----------------------------------------------------------------------------
(***************************************************************************)
(* prewarm.  Pinning may fail.  Without the MANIFEST it comes back later;  *)
(* else Prefetch reads every file and, when staging, replaces its copy one *)
(* file after the other, below a staged MANIFEST it does not take away.    *)
(***************************************************************************)
Pins(c) == pins' \in {pins} \cup (IF c.spec.fuse THEN {pins \cup {c.life}} ELSE {})

PrewarmWaits(c) ==
    /\ Mine(c) /\ c.phase = "PreWarming"
    /\ art # "committed"
    /\ Pins(c)
    /\ AgentGoes(wrk)
    /\ UNCHANGED <<apiVars, run, stage>>

PrewarmStarts(c) ==
    /\ Mine(c) /\ c.phase = "PreWarming"
    /\ art = "committed"
    /\ Pins(c)
    /\ stage' = IF Staging THEN [stage EXCEPT ![c.life].whole = FALSE] ELSE stage
    /\ AgentGoes([pc |-> "fetching", snap |-> c])
    /\ UNCHANGED <<apiVars, run>>

\* The staged MANIFEST is written once every file is there.
PrewarmFetches ==
    /\ wrk.pc = "fetching"
    /\ Staging => art = "committed"
    /\ stage' = IF Staging
                THEN [stage EXCEPT ![wrk.snap.life] = [manifest |-> TRUE, whole |-> TRUE]]
                ELSE stage
    /\ AgentGoes([wrk EXCEPT !.pc = "warmed"])
    /\ UNCHANGED <<apiVars, run, pins>>

PrewarmFails ==
    /\ wrk.pc = "fetching"
    /\ Reports(wrk.snap, In(wrk.snap, "Failed"))
    /\ UNCHANGED nodeVars

\* Bug: the next phase is one no reconciler knows.
PrewarmReportsMisspelt ==
    /\ wrk.pc = "warmed"
    /\ Reports(wrk.snap, [In(wrk.snap, "Prepare") EXCEPT !.warmed = TRUE])
    /\ UNCHANGED nodeVars

PrewarmReports ==
    /\ wrk.pc = "warmed"
    /\ LET next == IF wrk.snap.pod = 0 THEN "Preparing" ELSE "Restoring"
       IN  Reports(wrk.snap, [In(wrk.snap, next) EXCEPT !.warmed = TRUE])
    /\ UNCHANGED nodeVars

-----------------------------------------------------------------------------
(***************************************************************************)
(* restore.  It waits for the artifact and for the placeholder's sandbox,  *)
(* prefers a staged copy that has a MANIFEST, and may fail at many places  *)
(* before it runs runc.                                                    *)
(***************************************************************************)
Restorable(c) ==
    /\ Mine(c) /\ c.phase = "Restoring"
    /\ art = "committed"
    /\ keeper.state \in {"running", "terminating"} /\ keeper.life = c.pod

RestoreStarts(c) ==
    /\ Restorable(c)
    /\ AgentGoes([pc |-> "restoring", snap |-> c])
    /\ UNCHANGED <<apiVars, nodeVars>>

RestoreRefuses(c) ==
    /\ Restorable(c)
    /\ Reports(c, In(c, "Failed"))
    /\ UNCHANGED nodeVars

\* runc refuses an id that is in use, and needs the sandbox it joins.
RuncCan ==
    /\ wrk.pc = "restoring"
    /\ run[wrk.snap.life] = "none"
    /\ keeper.life = wrk.snap.pod /\ keeper.state \in {"running", "terminating"}

Restoration == [run EXCEPT ![wrk.snap.life] = "running"]

\* Bug: what is left of a container of this id is deleted before runc restore.
RuncRestoresAfresh ==
    /\ wrk.pc = "restoring"
    /\ keeper.life = wrk.snap.pod /\ keeper.state \in {"running", "terminating"}
    /\ run' = Restoration
    /\ AgentGoes([wrk EXCEPT !.pc = "restored"])
    /\ UNCHANGED <<apiVars, pins, stage>>

RuncRestores ==
    /\ RuncCan
    /\ run' = Restoration
    /\ AgentGoes([wrk EXCEPT !.pc = "restored"])
    /\ UNCHANGED <<apiVars, pins, stage>>

\* runc fails; or it restores, and its pid file cannot be read.
RuncFails ==
    /\ wrk.pc = "restoring"
    /\ run' \in {run} \cup (IF RuncCan THEN {Restoration} ELSE {})
    /\ Reports(wrk.snap, In(wrk.snap, "Failed"))
    /\ UNCHANGED <<pins, stage>>

Restored(c) == [In(c, "Running") EXCEPT !.container = TRUE]

\* Bug: the object is read again and written whatever became of it.
RestoreReportsRefetched ==
    /\ wrk.pc = "restored"
    /\ IF Exists(rst) THEN Reports(rst, Restored(rst)) ELSE Reports(wrk.snap, wrk.snap)
    /\ UNCHANGED nodeVars

RestoreReports ==
    /\ wrk.pc = "restored"
    /\ Reports(wrk.snap, Restored(wrk.snap))
    /\ UNCHANGED nodeVars

-----------------------------------------------------------------------------
\* Bug: a container runc still knows of passes for one that runs.
NoticesRemoval(c) ==
    /\ Mine(c) /\ c.phase = "Running" /\ c.container
    /\ run[c.life] = "none"
    /\ Reports(c, In(c, "Failed"))
    /\ UNCHANGED nodeVars

\* checkAlive, every minute.
NoticesDeath(c) ==
    /\ Mine(c) /\ c.phase = "Running" /\ c.container
    /\ run[c.life] # "running"
    /\ Reports(c, In(c, "Failed"))
    /\ UNCHANGED nodeVars

\* Bug: a restore that has failed is not torn down.
TearsDownRunning(c) ==
    /\ wrk.pc = "idle" /\ Exists(c) /\ c.deleting /\ c.target
    /\ c.phase = "Running"
    /\ run' = IF c.container THEN [run EXCEPT ![c.life] = "none"] ELSE run
    /\ pins' \in {pins, pins \ {c.life}}
    /\ stage' = [stage EXCEPT ![c.life] = NoStage]
    /\ AgentGoes([pc |-> "torn", snap |-> c])
    /\ UNCHANGED apiVars

(***************************************************************************)
(* teardown: only a container that was recorded is killed, and a kill that *)
(* fails is tried again; an unpin that fails is only logged.               *)
(***************************************************************************)
TearsDown(c) ==
    /\ wrk.pc = "idle" /\ Exists(c) /\ c.deleting /\ c.target
    /\ run' = IF c.container THEN [run EXCEPT ![c.life] = "none"] ELSE run
    /\ pins' \in {pins, pins \ {c.life}}
    /\ stage' = [stage EXCEPT ![c.life] = NoStage]
    /\ AgentGoes([pc |-> "torn", snap |-> c])
    /\ UNCHANGED apiVars

AcksTeardown ==
    /\ wrk.pc = "torn"
    /\ Reports(wrk.snap, [wrk.snap EXCEPT !.torn = TRUE])
    /\ UNCHANGED nodeVars

-----------------------------------------------------------------------------
\* A restart loses the worker; the runc it waited for may still have restored.
AgentRestarts ==
    /\ crashes < MaxCrashes
    /\ crashes' = crashes + 1
    /\ run' \in {run} \cup (IF RuncCan THEN {Restoration} ELSE {})
    /\ wrk' = NoWork
    /\ cache' = [cache EXCEPT !["agent"] = rst]
    /\ UNCHANGED <<rst, podVars, art, late, pins, stage>>

AgentReconciles(c) ==
    \/ PrewarmWaits(c) \/ PrewarmStarts(c)
    \/ PrewarmFetches \/ PrewarmFails \/ PrewarmReports
    \/ RestoreStarts(c) \/ RestoreRefuses(c)
    \/ RuncRestores \/ RuncFails \/ RestoreReports
    \/ NoticesDeath(c)
    \/ TearsDown(c) \/ AcksTeardown
=============================================================================
