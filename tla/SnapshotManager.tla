-------------------------- MODULE SnapshotManager --------------------------
(***************************************************************************)
(* The manager's PodSnapshot reconciler.  One worker reconciles one name   *)
(* at a time, reading the object from the manager's cache; the kubelet     *)
(* call runs in a goroutine of its own, and the inflight entry of the name *)
(* is held exactly while call.pc # "idle".                                 *)
(***************************************************************************)
EXTENDS SnapshotState

CallType == [pc : {"idle", "calling", "answered"}, pod : PodType,
             tar : Dump \cup {NoDump}]
NoCall == [pc |-> "idle", pod |-> NoPod, tar |-> NoDump]

\* dump is the one whose MANIFEST was read: its files are the ones to remove.
DelType == [pc : {"idle", "listed", "removing", "deleted"}, snap : ObjType,
            dump : Dump \cup {NoDump}]
NoDel == [pc |-> "idle", snap |-> Absent(0), dump |-> NoDump]

\* The object as this reconcile read it; c.finalizer was added when it must be.
Reconciling(c) == del.pc = "idle" /\ Live(c) /\ (c.spec.delete => c.finalizer)

\* A reconcile that does nothing but one status write.
ManagerWrites(c, new) ==
    Write(c, new) /\ UNCHANGED <<worldVars, storeVars, mgrVars, agtVars, crashes>>

-----------------------------------------------------------------------------
\* The reconcile of a new object makes two requests, this one first.  The other,
\* AcceptNew, starts from the object this one returned: from a copy of it.
AddFinalizer(c) ==
    /\ del.pc = "idle" /\ Live(c)
    /\ c.spec.delete /\ ~c.finalizer
    /\ ManagerWrites(c, [c EXCEPT !.finalizer = TRUE])

\* Bug: the phase is misspelt.
AcceptNewMisspelt(c) ==
    /\ Reconciling(c)
    /\ c.phase = "New"
    /\ ManagerWrites(c, Phase(c, "pending", "none"))

AcceptNew(c) ==
    /\ Reconciling(c)
    /\ c.phase = "New"
    /\ ManagerWrites(c, Phase(c, "Pending", "none"))

(***************************************************************************)
(* reconcilePending.  "starting" stands for a pod that is not Running yet  *)
(* or whose node's prerequisites are not met: both wait.                   *)
(***************************************************************************)
PendingWaits(c) ==
    /\ Reconciling(c)
    /\ c.phase = "Pending"
    /\ pods[c.life] = "starting"
    /\ ManagerWrites(c, Phase(c, "Pending", "waiting"))

PendingFails(c) ==
    /\ Reconciling(c)
    /\ c.phase = "Pending"
    /\ pods[c.life] = "gone" \/ (pods[c.life] = "running" /\ ~c.spec.valid)
    /\ ManagerWrites(c, Phase(c, "Failed", "error"))

\* resolveQuiesce: only a pod that opted in waits for its shim.
PendingProceeds(c) ==
    /\ Reconciling(c)
    /\ c.phase = "Pending"
    /\ pods[c.life] = "running" /\ c.spec.valid
    /\ LET next == IF c.spec.quiesce THEN "Quiescing" ELSE "Checkpointing"
       IN  ManagerWrites(c, [Phase(c, next, "none") EXCEPT !.artifact = TRUE])

QuiesceTimesOut(c) ==
    /\ Reconciling(c)
    /\ c.phase = "Quiescing"
    /\ c.life \in expired
    /\ ManagerWrites(c, Phase(c, "Failed", "error"))

-----------------------------------------------------------------------------
(***************************************************************************)
(* reconcileCheckpointing.  agentCheckpoints asks the spec, the format of  *)
(* the artifact and the node's capabilities annotation, and degrades to    *)
(* the kubelet API with the reason in status.message.                      *)
(***************************************************************************)
AgentCheckpoints(c) == c.spec.agent /\ c.spec.dir /\ node.advertises

LeaveToAgent(c) ==
    /\ Reconciling(c)
    /\ c.phase = "Checkpointing"
    /\ AgentCheckpoints(c)
    /\ ManagerWrites(c, Phase(c, "Checkpointing", "agentRuns"))

FallsBack(c) ==
    /\ Reconciling(c)
    /\ c.phase = "Checkpointing"
    /\ ~AgentCheckpoints(c)

\* The status write that records the reason, unless it is there already.
NotesFallback(c) ==
    IF c.spec.agent /\ c.msg # "fallback"
    THEN Write(c, Phase(c, "Checkpointing", "fallback"))
    ELSE UNCHANGED apiVars

StartKubeletCall(c) ==
    /\ FallsBack(c)
    /\ NotesFallback(c)
    /\ call' = IF call.pc = "idle"
               THEN [pc |-> "calling", pod |-> PodOf(c), tar |-> NoDump]
               ELSE call
    /\ UNCHANGED <<worldVars, storeVars, del, agtVars, crashes>>

NodeHasNoAddress(c) ==
    /\ FallsBack(c)
    /\ call.pc = "idle"
    /\ ManagerWrites(c, Phase(c, "Failed", "error"))

(***************************************************************************)
(* The kubelet answers.  A checkpoint leaves a tar on the node, and may or *)
(* may not leave the container running (the runtime's choice); its answer  *)
(* may be lost, which the goroutine sees as an error.                      *)
(***************************************************************************)
KubeletCheckpoints(d) ==
    /\ call.pc = "calling"
    /\ pods[call.pod.life] = "running"
    /\ Fresh(d)
    /\ info' = Taken(d, call.pod)
    /\ tars' = tars \cup {d}
    /\ pods' \in {pods, [pods EXCEPT ![call.pod.life] = "gone"]}
    /\ \E tar \in {d, NoDump} : call' = [call EXCEPT !.pc = "answered", !.tar = tar]
    /\ UNCHANGED <<apiVars, parked, expired, node, dir, tarball, del, agtVars, crashes>>

KubeletFails ==
    /\ call.pc = "calling"
    /\ call' = [call EXCEPT !.pc = "answered"]
    /\ UNCHANGED <<apiVars, worldVars, storeVars, del, agtVars, crashes>>

\* callCtx ends before the result is recorded: the update uses callCtx too.
CallContextExpires ==
    /\ call.pc # "idle"
    /\ call' = NoCall
    /\ UNCHANGED <<apiVars, worldVars, storeVars, del, agtVars, crashes>>

CallResult(c) ==
    IF call.tar = NoDump
    THEN Phase(c, "Failed", "error")
    ELSE [Phase(c, "Checkpointed", "none") EXCEPT !.tar = call.tar]

\* Bug: a late result is recorded whatever the phase.
RecordCallUnchecked(c) ==
    /\ call.pc = "answered"
    /\ call' = NoCall
    /\ IF Exists(c) /\ Current(c) THEN Write(c, CallResult(c)) ELSE UNCHANGED apiVars
    /\ UNCHANGED <<worldVars, storeVars, del, agtVars, crashes>>

\* Bug: the path of the tar is recorded before the phase is looked at.
RecordCallTarFirst(c) ==
    /\ call.pc = "answered"
    /\ call' = NoCall
    /\ IF Exists(c) /\ Current(c)
       THEN Write(c, IF c.phase = "Checkpointing" THEN CallResult(c)
                                                  ELSE [c EXCEPT !.tar = call.tar])
       ELSE UNCHANGED apiVars
    /\ UNCHANGED <<worldVars, storeVars, del, agtVars, crashes>>

\* Bug: an error of the call returns early, and early returns keep the inflight entry.
RecordCallLeaks(c) ==
    /\ call.pc = "answered"
    /\ IF c.phase = "Checkpointing" /\ Current(c) /\ call.tar # NoDump
       THEN Write(c, CallResult(c)) /\ call' = NoCall
       ELSE UNCHANGED apiVars /\ call' = [call EXCEPT !.pc = "leaked"]
    /\ UNCHANGED <<worldVars, storeVars, del, agtVars, crashes>>

\* The goroutine reads the object again and drops a result that comes too late;
\* an update that fails is only logged.
RecordCall(c) ==
    /\ call.pc = "answered"
    /\ call' = NoCall
    /\ IF c.phase = "Checkpointing" /\ Current(c)
       THEN Write(c, CallResult(c))
       ELSE UNCHANGED apiVars
    /\ UNCHANGED <<worldVars, storeVars, del, agtVars, crashes>>

-----------------------------------------------------------------------------
(***************************************************************************)
(* reconcileDelete.  Store.Delete reads the MANIFEST of a directory        *)
(* artifact, removes it - the artifact is un-committed - and then removes, *)
(* one by one, the files it listed.  It takes no lock, and the agent's     *)
(* workers write in that directory from another process.                   *)
(***************************************************************************)
Deleting(c) == del.pc = "idle" /\ Exists(c) /\ c.deleting /\ c.finalizer

DelGoes(next) ==
    del' = next /\ UNCHANGED <<apiVars, worldVars, tars, info, call, agtVars, crashes>>

DeletesTar(c) ==
    /\ Deleting(c)
    /\ c.artifact /\ ~c.spec.dir
    /\ tarball' = NoDump
    /\ DelGoes([pc |-> "deleted", snap |-> c, dump |-> NoDump])
    /\ UNCHANGED dir

\* No artifact is recorded, or its MANIFEST cannot be read: Delete returns nil
\* whatever the reason.
FindsNothing(c) ==
    /\ Deleting(c)
    /\ c.artifact => c.spec.dir
    /\ DelGoes([pc |-> "deleted", snap |-> c, dump |-> NoDump])
    /\ UNCHANGED <<dir, tarball>>

ReadsManifest(c) ==
    /\ Deleting(c)
    /\ c.artifact /\ c.spec.dir /\ dir.manifest # NoDump
    /\ DelGoes([pc |-> "listed", snap |-> c, dump |-> dir.manifest])
    /\ UNCHANGED <<dir, tarball>>

\* The MANIFEST that goes is the one that is there now.
Uncommits ==
    /\ del.pc = "listed"
    /\ dir' = [dir EXCEPT !.manifest = NoDump]
    /\ DelGoes([del EXCEPT !.pc = "removing"])
    /\ UNCHANGED tarball

\* The names of the images are the same in every dump: the file a listed name
\* stands for now may be of another dump than the list.
RemovesFile(d) ==
    /\ del.pc = "removing"
    /\ d \in Images
    /\ dir' = [dir EXCEPT !.whole = @ \ {d}, !.part = @ \cup {d}, !.torn = @ \cup {d}]
    /\ DelGoes(del)
    /\ UNCHANGED tarball

\* The list is through.  What is left of the dump it was of was written again
\* since, or is being written.
RemovesLast ==
    /\ del.pc = "removing"
    /\ \E left \in SUBSET {del.dump} :
          /\ upl.pc = "expanding" /\ upl.snap.spec.dir => upl.snap.tar \notin {del.dump} \ left
          /\ dir' = [dir EXCEPT !.whole = @ \ {del.dump},
                                !.part  = (@ \ {del.dump}) \cup (left \cap Images),
                                !.torn  = @ \cup (dir.whole \cap {del.dump})]
    /\ DelGoes([del EXCEPT !.pc = "deleted", !.dump = NoDump])
    /\ UNCHANGED tarball

\* A file, or the MANIFEST, cannot be removed: the reconcile returns and is
\* tried again.
DeleteStops ==
    /\ del.pc \in {"listed", "removing"}
    /\ DelGoes(NoDel)
    /\ UNCHANGED <<dir, tarball>>

DropFinalizer ==
    /\ del.pc = "deleted"
    /\ del' = NoDel
    /\ IF Current(del.snap)
       THEN Write(del.snap, Absent(del.snap.life))
       ELSE UNCHANGED apiVars
    /\ UNCHANGED <<worldVars, storeVars, call, agtVars, crashes>>

-----------------------------------------------------------------------------
\* The process restarts: inflight, the goroutine and the worker are gone, and
\* the informers list again.
ManagerRestarts ==
    /\ crashes < MaxCrashes
    /\ crashes' = crashes + 1
    /\ call' = NoCall
    /\ del' = NoDel
    /\ cache' = [cache EXCEPT !["manager"] = obj]
    /\ UNCHANGED <<obj, worldVars, storeVars, agtVars>>

ManagerReconciles(c) ==
    \/ AddFinalizer(c) \/ AcceptNew(c)
    \/ PendingWaits(c) \/ PendingFails(c) \/ PendingProceeds(c)
    \/ QuiesceTimesOut(c)
    \/ LeaveToAgent(c) \/ StartKubeletCall(c) \/ NodeHasNoAddress(c)

\* Bug: an artifact that is not there is an error to retry.
ManagerDeletesCommitted(c) ==
    /\ c.artifact => Committed(c.spec) # NoDump
    /\ DeletesTar(c) \/ FindsNothing(c) \/ ReadsManifest(c)

ManagerDeletes(c) == DeletesTar(c) \/ FindsNothing(c) \/ ReadsManifest(c)

RemovesFiles == Uncommits \/ RemovesLast \/ DeleteStops \/ \E d \in Dump : RemovesFile(d)

KubeletAnswers == KubeletFails \/ \E d \in Dump : KubeletCheckpoints(d)

ManagerNext ==
    \/ ManagerReconciles(cache["manager"])
    \/ ManagerDeletes(cache["manager"])
    \/ RemovesFiles
    \/ DropFinalizer
    \/ KubeletAnswers
    \/ CallContextExpires
    \/ RecordCall(cache["manager"])
    \/ ManagerRestarts
=============================================================================
