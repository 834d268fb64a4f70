--------------------------- MODULE SnapshotAgent ---------------------------
(***************************************************************************)
(* The node agent's three PodSnapshot reconcilers - quiesce, checkpoint    *)
(* and upload - each with one worker, all reading the agent's cache.       *)
(***************************************************************************)
EXTENDS SnapshotState

CkptType == [pc   : {"idle", "clearing", "dumping", "publishing", "completing", "failing",
                       "retrying"},
             pod  : PodType,
             dump : Dump \cup {NoDump},
             msg  : Messages]
NoCkpt == [pc |-> "idle", pod |-> NoPod, dump |-> NoDump, msg |-> "none"]

UplType == [pc : {"idle", "expanding", "removing", "reporting"}, snap : ObjType]
NoUpl == [pc |-> "idle", snap |-> Absent(0)]

Completed(c) == [Phase(c, "Completed", "none") EXCEPT !.artifact = TRUE]

AgentWrites(c, new) ==
    Write(c, new) /\ UNCHANGED <<worldVars, storeVars, mgrVars, agtVars, crashes>>

-----------------------------------------------------------------------------
\* Bug: the presence file is not looked for.
QuiesceSeenBlindly(c) ==
    /\ c.phase = "Quiescing"
    /\ c.life \notin expired
    /\ pods[c.life] = "running"
    /\ AgentWrites(c, Phase(c, "Checkpointing", "none"))

(***************************************************************************)
(* QuiesceReconciler: the shim's presence file, seen through the           *)
(* container's /proc root, moves the snapshot on - before the deadline.    *)
(***************************************************************************)
QuiesceSeen(c) ==
    /\ c.phase = "Quiescing"
    /\ c.life \notin expired
    /\ pods[c.life] = "running"
    /\ c.life \in parked
    /\ AgentWrites(c, Phase(c, "Checkpointing", "none"))

-----------------------------------------------------------------------------
(***************************************************************************)
(* CheckpointReconciler, which only agents new enough to advertise it run. *)
(***************************************************************************)
Owns(c) ==
    /\ node.new
    /\ c.phase = "Checkpointing"
    /\ c.spec.agent
    /\ c.artifact

CkptGoes(next) == ckpt' = next /\ UNCHANGED <<worldVars, mgrVars, upl, crashes>>

CkptFailure(msg) == [NoCkpt EXCEPT !.pc = "failing", !.msg = msg]

\* The checks that end a reconcile before anything is touched.
CkptRefuses(c) ==
    /\ ckpt.pc = "idle" /\ Owns(c)
    /\ ~c.spec.dir \/ ~c.spec.local
    /\ CkptGoes(CkptFailure(IF c.spec.dir THEN "error" ELSE "needsDir"))
    /\ UNCHANGED <<apiVars, storeVars>>

\* A MANIFEST at the artifact's place is taken for this snapshot's own.
CkptFindsManifest(c) ==
    /\ ckpt.pc = "idle" /\ Owns(c) /\ c.spec.dir /\ c.spec.local
    /\ dir.manifest # NoDump
    /\ CkptGoes([NoCkpt EXCEPT !.pc = "completing", !.dump = dir.manifest])
    /\ UNCHANGED <<apiVars, storeVars>>

Dumpable(c) ==
    /\ ckpt.pc = "idle" /\ Owns(c) /\ c.spec.dir /\ c.spec.local
    /\ dir.manifest = NoDump

\* The container cannot be resolved - it is gone, or the CRI is slow: say so
\* and come back.
CkptRetries(c) ==
    /\ Dumpable(c)
    /\ CkptGoes([NoCkpt EXCEPT !.pc = "retrying"])
    /\ UNCHANGED <<apiVars, storeVars>>

CkptResolves(c) ==
    /\ Dumpable(c)
    /\ pods[c.life] = "running"
    /\ CkptGoes([NoCkpt EXCEPT !.pc = "clearing", !.pod = PodOf(c)])
    /\ UNCHANGED <<apiVars, storeVars>>

\* readTaskSpec fails, or clearArtifactDir finds files that did not go.
CkptCannotStart ==
    /\ ckpt.pc = "clearing"
    /\ CkptGoes(CkptFailure("error"))
    /\ UNCHANGED <<apiVars, storeVars>>

\* Bug: the dump begins in a directory that was not emptied.
CkptStartsDumpUncleared(d) ==
    /\ ckpt.pc = "clearing"
    /\ Fresh(d)
    /\ dir' = [dir EXCEPT !.part = @ \cup {d}]
    /\ info' = Taken(d, ckpt.pod)
    /\ CkptGoes([ckpt EXCEPT !.pc = "dumping", !.dump = d])
    /\ UNCHANGED <<apiVars, tarball, tars>>

\* The directory is verified empty and runc starts writing images into it.
CkptStartsDump(d) ==
    /\ ckpt.pc = "clearing"
    /\ Fresh(d)
    /\ dir' = [EmptyDir EXCEPT !.part = {d}]
    /\ info' = Taken(d, ckpt.pod)
    /\ CkptGoes([ckpt EXCEPT !.pc = "dumping", !.dump = d])
    /\ UNCHANGED <<apiVars, tarball, tars>>

\* runc checkpoint succeeds and takes the container.  CRIU appends to images it
\* finds, so the dump is whole only when the directory holds nothing else.
CkptDumps ==
    /\ ckpt.pc = "dumping"
    /\ pods[ckpt.pod.life] = "running"
    /\ pods' = [pods EXCEPT ![ckpt.pod.life] = "gone"]
    /\ dir' = IF Images = {ckpt.dump} THEN Finished(ckpt.dump) ELSE dir
    /\ ckpt' = [ckpt EXCEPT !.pc = "publishing"]
    /\ UNCHANGED <<apiVars, parked, expired, node, tarball, tars, info, mgrVars, upl, crashes>>

\* It fails or times out, with or without the container.
CkptDumpFails ==
    /\ ckpt.pc = "dumping"
    /\ pods' \in {pods, [pods EXCEPT ![ckpt.pod.life] = "gone"]}
    /\ ckpt' = CkptFailure("error")
    /\ UNCHANGED <<apiVars, parked, expired, node, storeVars, mgrVars, upl, crashes>>

\* PublishDir describes whatever the directory holds and writes MANIFEST last.
CkptPublishes ==
    /\ ckpt.pc = "publishing"
    /\ Images # {}
    /\ dir' = [dir EXCEPT !.manifest = ckpt.dump]
    /\ CkptGoes([ckpt EXCEPT !.pc = "completing"])
    /\ UNCHANGED <<apiVars, tarball, tars, info>>

\* Bug: the error of PublishDir is dropped.
CkptPublishFailsSilently ==
    /\ ckpt.pc = "publishing"
    /\ dir' = [dir EXCEPT !.manifest = NoDump]
    /\ CkptGoes([ckpt EXCEPT !.pc = "completing"])
    /\ UNCHANGED <<apiVars, tarball, tars, info>>

\* It may also fail having renamed the MANIFEST in, when RenamePublish cannot
\* remove what the rename left behind.
CkptPublishFails ==
    /\ ckpt.pc = "publishing"
    /\ \E m \in {NoDump} \cup (IF Images # {} THEN {ckpt.dump} ELSE {}) :
           dir' = [dir EXCEPT !.manifest = m]
    /\ CkptGoes(CkptFailure("error"))
    /\ UNCHANGED <<apiVars, tarball, tars, info>>

(***************************************************************************)
(* complete, fail and retry re-read the object - from the cache - before   *)
(* every attempt and then write it whatever its phase.  A NotFound from    *)
(* the cache ends them; so does the last of DefaultRetry's five conflicts. *)
(***************************************************************************)
CkptReport(c) ==
    CASE ckpt.pc = "completing" -> Completed(c)
      [] ckpt.pc = "failing"    -> Phase(c, "Failed", ckpt.msg)
      [] ckpt.pc = "retrying"   -> [c EXCEPT !.msg = "resolving"]

CkptReports(c) ==
    /\ ckpt.pc \in {"completing", "failing", "retrying"}
    /\ IF Exists(c) /\ Current(c)
       THEN Write(c, CkptReport(c))
       ELSE UNCHANGED apiVars
    /\ CkptGoes(NoCkpt)
    /\ UNCHANGED storeVars

-----------------------------------------------------------------------------
(***************************************************************************)
(* UploadReconciler: publish the kubelet's tar and free the node's disk.   *)
(***************************************************************************)
UplGoes(next) == upl' = next /\ UNCHANGED <<worldVars, mgrVars, ckpt, crashes>>

UplClaims(c) ==
    /\ upl.pc = "idle"
    /\ c.phase = "Checkpointed"
    /\ AgentWrites(c, Phase(c, "Uploading", "none"))

UplRefuses(c) ==
    /\ upl.pc = "idle"
    /\ c.phase = "Uploading"
    /\ ~c.spec.local
    /\ AgentWrites(c, Phase(c, "Failed", "error"))

UplFindsNoTar(c) ==
    /\ upl.pc = "idle"
    /\ c.phase = "Uploading"
    /\ c.spec.local /\ c.tar \notin tars
    /\ AgentWrites(c, Phase(c, "Failed", "tarMissing"))

\* Bug: the MANIFEST stays while the files under it are rewritten.
UplStartsCommitted(c) ==
    /\ upl.pc = "idle"
    /\ c.phase = "Uploading"
    /\ c.spec.local /\ c.tar \in tars
    /\ dir' = IF c.spec.dir
              THEN [dir EXCEPT !.whole = {}, !.part = Images \cup {c.tar},
                               !.torn  = @ \ {c.tar}]
              ELSE dir
    /\ UplGoes([pc |-> "expanding", snap |-> c])
    /\ UNCHANGED <<apiVars, tarball, tars, info>>

\* ExpandTarToDir un-commits first and then writes over what is there;
\* copyAtomic writes beside the published tar.
UplStarts(c) ==
    /\ upl.pc = "idle"
    /\ c.phase = "Uploading"
    /\ c.spec.local /\ c.tar \in tars
    /\ dir' = IF c.spec.dir
              THEN [manifest |-> NoDump, whole |-> {}, part |-> Images \cup {c.tar},
                    torn     |-> dir.torn \ {c.tar}]
              ELSE dir
    /\ UplGoes([pc |-> "expanding", snap |-> c])
    /\ UNCHANGED <<apiVars, tarball, tars, info>>

Published(snap) ==
    IF snap.spec.dir
    THEN /\ dir' = [Finished(snap.tar) EXCEPT !.manifest = snap.tar]
         /\ UNCHANGED tarball
    ELSE tarball' = snap.tar /\ UNCHANGED dir

\* Bug: the error of the publication is dropped.
UplPublishesMaybe ==
    /\ upl.pc = "expanding"
    /\ Published(upl.snap) \/ UNCHANGED <<dir, tarball>>
    /\ UplGoes([upl EXCEPT !.pc = "removing"])
    /\ UNCHANGED <<apiVars, tars, info>>

UplPublishes ==
    /\ upl.pc = "expanding"
    /\ Published(upl.snap)
    /\ UplGoes([upl EXCEPT !.pc = "removing"])
    /\ UNCHANGED <<apiVars, tars, info>>

\* retryUpload writes from the copy the upload began with.  The error may come
\* after the rename that publishes, as in CkptPublishFails.
UplFails ==
    /\ upl.pc = "expanding"
    /\ IF Current(upl.snap)
       THEN Write(upl.snap, [upl.snap EXCEPT !.msg = "retrying"])
       ELSE UNCHANGED apiVars
    /\ Published(upl.snap) \/ UNCHANGED <<dir, tarball>>
    /\ UplGoes(NoUpl)
    /\ UNCHANGED <<tars, info>>

\* A tar that cannot be removed is only logged.
UplRemovesTar ==
    /\ upl.pc = "removing"
    /\ tars' \in {tars, tars \ {upl.snap.tar}}
    /\ UplGoes([upl EXCEPT !.pc = "reporting"])
    /\ UNCHANGED <<apiVars, dir, tarball, info>>

UplReports ==
    /\ upl.pc = "reporting"
    /\ IF Current(upl.snap)
       THEN Write(upl.snap, Completed(upl.snap))
       ELSE UNCHANGED apiVars
    /\ UplGoes(NoUpl)
    /\ UNCHANGED storeVars

-----------------------------------------------------------------------------
AgentAdvertises ==
    /\ node.new /\ ~node.advertises
    /\ node' = [node EXCEPT !.advertises = TRUE]
    /\ UNCHANGED <<apiVars, pods, parked, expired, storeVars, mgrVars, agtVars, crashes>>

\* A restart loses the workers; a runc it was waiting for may have finished
\* with the container or not.  An upgrade is a restart into the new version.
AgentRestarts ==
    /\ crashes < MaxCrashes
    /\ crashes' = crashes + 1
    /\ node' \in {node, [node EXCEPT !.new = TRUE]}
    /\ pods' \in {pods} \cup
          (IF ckpt.pc = "dumping" THEN {[pods EXCEPT ![ckpt.pod.life] = "gone"]} ELSE {})
    /\ ckpt' = NoCkpt
    /\ upl' = NoUpl
    /\ cache' = [cache EXCEPT !["agent"] = obj]
    /\ UNCHANGED <<obj, parked, expired, storeVars, mgrVars>>

CkptReconciles(c) ==
    \/ CkptRefuses(c) \/ CkptFindsManifest(c)
    \/ CkptRetries(c) \/ CkptResolves(c)
    \/ CkptCannotStart
    \/ \E d \in Dump : CkptStartsDump(d)
    \/ CkptDumps \/ CkptDumpFails
    \/ CkptPublishes \/ CkptPublishFails
    \/ CkptReports(c)

UplReconciles(c) ==
    \/ UplClaims(c) \/ UplRefuses(c) \/ UplFindsNoTar(c)
    \/ UplStarts(c) \/ UplPublishes \/ UplFails \/ UplRemovesTar \/ UplReports

AgentNext ==
    \/ QuiesceSeen(cache["agent"])
    \/ CkptReconciles(cache["agent"])
    \/ UplReconciles(cache["agent"])
    \/ AgentAdvertises
    \/ AgentRestarts
=============================================================================
