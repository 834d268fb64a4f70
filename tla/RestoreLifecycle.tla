-------------------------- MODULE RestoreLifecycle --------------------------
(***************************************************************************)
(* What a PodRestore promises whoever reads its status: how far the        *)
(* restore is, whether it was warmed, and what the container it may have   *)
(* started is doing.  No reconciler, cache, placeholder pod or restart is  *)
(* in sight; module Restore implements this one.                           *)
(***************************************************************************)
VARIABLES
    stage,      \* of the object that has the name now
    warmed,     \* its artifact was read through the node's cache
    container,  \* the one runc container it may start
    recorded    \* its status names that container

lifecycle == <<stage, warmed, container, recorded>>

Unfinished == {"pending", "warming", "preparing", "restoring"}
Present == {"requested", "running", "failed", "leaving"} \cup Unfinished

Init ==
    /\ stage = "absent"
    /\ warmed = FALSE
    /\ container = "none"
    /\ recorded = FALSE

Moves(from, to) ==
    /\ stage \in from
    /\ stage' = to

Created == Moves({"absent"}, "requested") /\ UNCHANGED <<warmed, container, recorded>>

Accepted == Moves({"requested"}, "pending") /\ UNCHANGED <<warmed, container, recorded>>

Located == Moves({"pending"}, "preparing") /\ UNCHANGED <<warmed, container, recorded>>

\* On a pinned node before the pod is there, else after; in either case once.
WarmingBegins ==
    /\ ~warmed
    /\ Moves({"pending", "preparing"}, "warming")
    /\ UNCHANGED <<warmed, container, recorded>>

Warmed ==
    /\ Moves({"warming"}, "preparing") \/ Moves({"warming"}, "restoring")
    /\ warmed' = TRUE
    /\ UNCHANGED <<container, recorded>>

Prepared == Moves({"preparing"}, "restoring") /\ UNCHANGED <<warmed, container, recorded>>

(***************************************************************************)
(* The container is started once in the life of an object, and not before  *)
(* it is Restoring.  The object may have failed or be leaving by then.     *)
(***************************************************************************)
Starts ==
    /\ container = "none"
    /\ stage \in {"restoring", "failed", "leaving"}
    /\ container' = "running"
    /\ UNCHANGED <<stage, warmed, recorded>>

Stops ==
    /\ container = "running"
    /\ container' = "stopped"
    /\ UNCHANGED <<stage, warmed, recorded>>

\* Running is said of a container that was started.
Recorded ==
    /\ container # "none"
    /\ Moves({"restoring"}, "running")
    /\ recorded' = TRUE
    /\ UNCHANGED <<warmed, container>>

Fails ==
    /\ Moves(Unfinished \cup {"running"}, "failed")
    /\ UNCHANGED <<warmed, container, recorded>>

\* The container came up and yet its restore failed; nothing will name it.
FailsStarted ==
    /\ container = "none"
    /\ Moves({"restoring"}, "failed")
    /\ container' = "running"
    /\ UNCHANGED <<warmed, recorded>>

Leaves ==
    /\ Moves(Present \ {"leaving"}, "leaving")
    /\ UNCHANGED <<warmed, container, recorded>>

\* What is torn down is what was recorded, and it is not started again.
TornDown ==
    /\ stage = "leaving" /\ recorded
    /\ container' = "removed"
    /\ UNCHANGED <<stage, warmed, recorded>>

\* No object is gone while the container its status names is running.
Gone ==
    /\ recorded => container # "running"
    /\ Moves({"requested", "leaving"}, "absent")
    /\ warmed' = FALSE
    /\ container' = "none"
    /\ recorded' = FALSE

Next ==
    \/ Created \/ Accepted \/ Located \/ WarmingBegins \/ Warmed \/ Prepared
    \/ Starts \/ Stops \/ Recorded \/ Fails \/ FailsStarted
    \/ Leaves \/ TornDown \/ Gone

Spec == Init /\ [][Next]_lifecycle
=============================================================================
