-------------------------- MODULE RestoreManager --------------------------
(***************************************************************************)
(* The manager's PodRestore reconciler: resolve the artifact, make the     *)
(* placeholder pod, hand over to the agent on its node, enforce the        *)
(* timeout, and release the finalizer.  Both the object and the pod are    *)
(* read from the manager's cache.                                          *)
(***************************************************************************)
EXTENDS RestoreState

ManagerWrites(c, new) ==
    Write(c, new) /\ UNCHANGED <<podVars, art, late, nodeVars, wrk, crashes>>

\* Bug: the timeout is left to the agent in the phases that are its own.
TimedOutOurs(c) == c.life \in late /\ c.phase \in {"Pending", "Preparing"}

\* The object as this reconcile read it, past AddFinalizer and the timeout.
TimedOut(c) == c.life \in late /\ c.phase \notin Terminal \cup {"New"}
Reconciling(c) == Live(c) /\ c.finalizer /\ ~TimedOut(c)

-----------------------------------------------------------------------------
\* The first of the two requests of a new object's reconcile.
AddFinalizer(c) ==
    /\ Live(c) /\ ~c.finalizer
    /\ ManagerWrites(c, [c EXCEPT !.finalizer = TRUE])

TimesOut(c) ==
    /\ Live(c) /\ c.finalizer /\ TimedOut(c)
    /\ ManagerWrites(c, In(c, "Failed"))

AcceptNew(c) ==
    /\ Reconciling(c)
    /\ c.phase = "New"
    /\ ManagerWrites(c, In(c, "Pending"))

(***************************************************************************)
(* reconcilePending.  It waits, saying so, while the artifact is not       *)
(* there; a file artifact only the agent can see, so it is not asked for.  *)
(***************************************************************************)
Available(c) == c.spec.fuse => art = "committed"
Misplaced(c) == c.spec.pinned /\ ~c.spec.fits

PendingFails(c) ==
    /\ Reconciling(c)
    /\ c.phase = "Pending"
    /\ ~c.spec.valid \/ (Available(c) /\ Misplaced(c))
    /\ ManagerWrites(c, In(c, "Failed"))

PendingProceeds(c) ==
    /\ Reconciling(c)
    /\ c.phase = "Pending"
    /\ c.spec.valid /\ Available(c) /\ ~Misplaced(c)
    /\ ManagerWrites(c, IF c.spec.pinned /\ c.spec.prewarm
                        THEN [In(c, "PreWarming") EXCEPT !.target = TRUE]
                        ELSE In(c, "Preparing"))

-----------------------------------------------------------------------------
(***************************************************************************)
(* reconcilePreparing.  A pod of our name that another object controls, or *)
(* that terminates, is waited for.                                         *)
(***************************************************************************)
Preparing(c) == Reconciling(c) /\ c.phase = "Preparing"

\* Bug: a leftover pod of our name is taken for our own.
OwnPodAnyOwner(c) == seen.state \notin {"absent", "terminating"} /\ Exists(c)

OwnPod(c) == seen.state \notin {"absent", "terminating"} /\ seen.life = c.life

\* Create fails with AlreadyExists when the cache is behind, and the write that
\* follows it may not be made.
CreatesPod(c) ==
    /\ Preparing(c)
    /\ seen.state = "absent" /\ keeper.state = "absent"
    /\ keeper' = [life |-> c.life, state |-> "pending"]
    /\ Write(c, [c EXCEPT !.named = TRUE]) \/ UNCHANGED apiVars
    /\ UNCHANGED <<seen, art, late, nodeVars, wrk, crashes>>

PodNotRunning(c) ==
    /\ Preparing(c) /\ OwnPod(c)
    /\ seen.state = "pending"
    /\ ManagerWrites(c, [c EXCEPT !.named = TRUE])

PreparingFails(c) ==
    /\ Preparing(c) /\ OwnPod(c)
    /\ seen.state = "failed" \/ (seen.state = "running" /\ ~c.spec.fits)
    /\ ManagerWrites(c, In(c, "Failed"))

Prepared(c) ==
    /\ Preparing(c) /\ OwnPod(c)
    /\ seen.state = "running" /\ c.spec.fits
    /\ LET next == IF c.spec.prewarm /\ ~c.warmed THEN "PreWarming" ELSE "Restoring"
       IN  ManagerWrites(c, [In(c, next) EXCEPT !.named = TRUE, !.pod = seen.life, !.target = TRUE])

-----------------------------------------------------------------------------
Deleting(c) == Exists(c) /\ c.deleting /\ c.finalizer

\* Bug: the agent's acknowledgement is not waited for.
TeardownUnacked(c) == Deleting(c)

\* Only a container that was recorded is waited for.
TeardownDone(c) == Deleting(c) /\ (c.container => c.torn)

\* reconcileDelete: the pod goes by its name, then the finalizer.
Releases(c) ==
    /\ TeardownDone(c)
    /\ keeper' = IF c.named /\ keeper.state # "absent"
                 THEN [keeper EXCEPT !.state = "terminating"]
                 ELSE keeper
    /\ Write(c, Absent(c.life)) \/ (~Current(c) /\ UNCHANGED apiVars)
    /\ UNCHANGED <<seen, art, late, nodeVars, wrk, crashes>>

-----------------------------------------------------------------------------
ManagerRestarts ==
    /\ crashes < MaxCrashes
    /\ crashes' = crashes + 1
    /\ cache' = [cache EXCEPT !["manager"] = rst]
    /\ seen' = keeper
    /\ UNCHANGED <<rst, keeper, art, late, nodeVars, wrk>>

ManagerReconciles(c) ==
    \/ AddFinalizer(c) \/ TimesOut(c) \/ AcceptNew(c)
    \/ PendingFails(c) \/ PendingProceeds(c)
    \/ CreatesPod(c) \/ PodNotRunning(c) \/ PreparingFails(c) \/ Prepared(c)
    \/ Releases(c)
=============================================================================
