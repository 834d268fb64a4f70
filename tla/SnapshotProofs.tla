--------------------------- MODULE SnapshotProofs ---------------------------
(***************************************************************************)
(* Theorems about Snapshot for every Dump, Specs, Nodes, MaxLives and      *)
(* MaxCrashes: type correctness, that no checkpoint begins before the pod  *)
(* that asked for it is parked (DumpedParked), and that whatever names a   *)
(* dump names one that was taken of some object's pod.                     *)
(***************************************************************************)
EXTENDS Snapshot, TLAPS

USE NoDumpAssumption, LivesAssumption, SpecsAssumption, CrashesAssumption,
    NodesAssumption

-----------------------------------------------------------------------------
(* What the helpers return. *)

\* An update of phase and message, the write most reconciles end with, keeps
\* the type of the object.
LEMMA PhaseTypeOK ==
    ASSUME NEW c \in ObjType, NEW phase \in Phases, NEW msg \in Messages
    PROVE  /\ Phase(c, phase, msg) \in ObjType
           /\ Phase(c, phase, msg).phase = phase
           /\ Phase(c, phase, msg).spec = c.spec
           /\ Phase(c, phase, msg).life = c.life
  BY DEF Phase, ObjType

\* The name without an object is of the object's type.
LEMMA AbsentTypeOK ==
    ASSUME NEW life \in 0..MaxLives
    PROVE  /\ Absent(life) \in ObjType
           /\ Absent(life).phase = "Gone"
           /\ Absent(life).life = life
           /\ Absent(life).spec = NoSpec
  BY DEF Absent, NoSpec, ObjType, SpecType, Phases, Messages, Terminal

\* A write from a well-typed copy stores a well-typed object.
LEMMA WriteTypeOK ==
    ASSUME TypeOK, NEW c, NEW new \in ObjType, Write(c, new)
    PROVE  obj' \in ObjType /\ cache' \in CopyType
  BY DEF Write, TypeOK

\* What a worker remembers of its pod and what it records of a dump.
LEMMA PodTypeOK ==
    ASSUME NEW c \in ObjType
    PROVE  PodOf(c) \in PodType
  BY DEF PodOf, PodType, ObjType, SpecType

\* Recording the start of a dump keeps the history typed.
LEMMA TakenTypeOK ==
    ASSUME TypeOK, NEW d \in Dump, NEW pod \in PodType
    PROVE  Taken(d, pod) \in [Dump -> InfoType]
  BY DEF Taken, TypeOK, InfoType, PodType

\* complete() and the upload's last write only touch phase, message and artifact.
LEMMA CompletedTypeOK ==
    ASSUME NEW c \in ObjType
    PROVE  /\ Completed(c) \in ObjType
           /\ Completed(c).phase = "Completed"
           /\ Completed(c).spec = c.spec
           /\ Completed(c).life = c.life
  BY DEF Completed, Phase, ObjType, Phases, Messages, Terminal

-----------------------------------------------------------------------------
(* Type correctness. *)

\* The initial state is typed.
LEMMA InitTypeOK == Init => TypeOK
<1>1. ASSUME Init PROVE TypeOK
  <2>1. Absent(0) \in ObjType
    BY AbsentTypeOK
  <2>2. NoCall \in CallType /\ NoDel \in DelType /\ NoCkpt \in CkptType /\ NoUpl \in UplType
    BY <2>1 DEF NoCall, CallType, NoDel, DelType, NoCkpt, CkptType, NoUpl, UplType,
                NoPod, PodType, Messages
  <2>3. EmptyDir \in DirType /\ NoInfo \in InfoType
    BY DEF EmptyDir, DirType, NoInfo, InfoType
  <2>4. node \in NodeType
    BY <1>1 DEF Init
  <2>5. QED
    BY <1>1, <2>1, <2>2, <2>3, <2>4 DEF Init, TypeOK, CopyType
<1>2. QED
  BY <1>1

\* Every branch of the manager's Reconcile of a live object writes a phase that
\* some reconciler knows.
LEMMA ManagerReconcilesTypeOK ==
    ASSUME TypeOK, NEW c \in ObjType, ManagerReconciles(c)
    PROVE  TypeOK'
<1>1. ASSUME NEW new \in ObjType, ManagerWrites(c, new)
      PROVE  TypeOK'
  <2>1. obj' \in ObjType /\ cache' \in CopyType
    BY <1>1, WriteTypeOK DEF ManagerWrites
  <2>2. QED
    BY <1>1, <2>1 DEF ManagerWrites, TypeOK, worldVars, storeVars, mgrVars, agtVars
<1>2. CASE AddFinalizer(c)
  <2>1. [c EXCEPT !.finalizer = TRUE] \in ObjType
    BY DEF ObjType
  <2>2. QED
    BY <1>1, <1>2, <2>1 DEF AddFinalizer
<1>3. CASE AcceptNew(c)
  BY <1>1, <1>3, PhaseTypeOK DEF AcceptNew, Phases, Messages
<1>4. CASE PendingWaits(c)
  BY <1>1, <1>4, PhaseTypeOK DEF PendingWaits, Phases, Messages
<1>5. CASE PendingFails(c)
  BY <1>1, <1>5, PhaseTypeOK DEF PendingFails, Phases, Terminal, Messages
<1>6. CASE PendingProceeds(c)
  <2> DEFINE next == IF c.spec.quiesce THEN "Quiescing" ELSE "Checkpointing"
  <2>1. Phase(c, next, "none") \in ObjType
    BY PhaseTypeOK DEF Phases, Messages
  <2>2. [Phase(c, next, "none") EXCEPT !.artifact = TRUE] \in ObjType
    BY <2>1 DEF ObjType
  <2>3. QED
    BY <1>1, <1>6, <2>2 DEF PendingProceeds
<1>7. CASE QuiesceTimesOut(c)
  BY <1>1, <1>7, PhaseTypeOK DEF QuiesceTimesOut, Phases, Terminal, Messages
<1>8. CASE LeaveToAgent(c)
  BY <1>1, <1>8, PhaseTypeOK DEF LeaveToAgent, Phases, Messages
<1>9. CASE StartKubeletCall(c)
  <2>1. obj' \in ObjType /\ cache' \in CopyType
    <3>1. Phase(c, "Checkpointing", "fallback") \in ObjType
      BY PhaseTypeOK DEF Phases, Messages
    <3>2. CASE UNCHANGED apiVars
      BY <3>2 DEF TypeOK, apiVars
    <3>3. CASE Write(c, Phase(c, "Checkpointing", "fallback"))
      BY <3>1, <3>3, WriteTypeOK
    <3>4. QED
      BY <1>9, <3>2, <3>3 DEF StartKubeletCall, NotesFallback
  <2>2. call' \in CallType
    BY <1>9, PodTypeOK DEF StartKubeletCall, TypeOK, CallType
  <2>3. QED
    BY <1>9, <2>1, <2>2 DEF StartKubeletCall, TypeOK, worldVars, storeVars, agtVars
<1>10. CASE NodeHasNoAddress(c)
  BY <1>1, <1>10, PhaseTypeOK DEF NodeHasNoAddress, Phases, Terminal, Messages
<1>11. QED
  BY <1>2, <1>3, <1>4, <1>5, <1>6, <1>7, <1>8, <1>9, <1>10 DEF ManagerReconciles

\* Finishing a dump moves images within the directory and commits nothing.
LEMMA FinishedTypeOK ==
    ASSUME dir \in DirType, NEW d
    PROVE  /\ Finished(d) \in DirType
           /\ Finished(d).manifest = dir.manifest /\ Finished(d).torn = dir.torn
           /\ Finished(d).whole = (dir.part \cap {d}) \ dir.torn
           /\ Finished(d).part = dir.part \ ({d} \ dir.torn)
  BY DEF Finished, DirType

\* The record of a deletion that is over is typed.
LEMMA NoDelTypeOK == NoDel \in DelType
  BY AbsentTypeOK DEF NoDel, DelType

\* No step of reconcileDelete touches anything but its own record and the store,
\* where nothing becomes committed: wherever it stops, the store stays typed.
LEMMA ManagerDeletesEffect ==
    ASSUME TypeOK, NEW c \in ObjType, ManagerDeletes(c) \/ RemovesFiles
    PROVE  /\ UNCHANGED <<apiVars, worldVars, tars, info, call, agtVars, crashes>>
           /\ dir' \in DirType /\ dir'.manifest \in {dir.manifest, NoDump}
           /\ tarball' \in {tarball, NoDump}
           /\ del' \in DelType
<1> USE DEF DelGoes
<1>1. /\ dir \in DirType /\ del \in DelType
  BY DEF TypeOK
<1>2. CASE DeletesTar(c) \/ FindsNothing(c)
  BY <1>1, <1>2 DEF DeletesTar, FindsNothing, DelType, DirType
<1>3. CASE ReadsManifest(c)
  BY <1>1, <1>3 DEF ReadsManifest, DelType, DirType
<1>4. CASE Uncommits
  BY <1>1, <1>4 DEF Uncommits, DelType, DirType
<1>5. ASSUME NEW d \in Dump, RemovesFile(d)
      PROVE  /\ UNCHANGED <<apiVars, worldVars, tars, info, call, agtVars, crashes, del, tarball>>
             /\ dir' \in DirType /\ dir'.manifest = dir.manifest
  BY <1>1, <1>5 DEF RemovesFile, DirType
<1>6. CASE RemovesLast
  <2>1. PICK left \in SUBSET {del.dump} :
            dir' = [dir EXCEPT !.whole = @ \ {del.dump},
                               !.part  = (@ \ {del.dump}) \cup (left \cap Images),
                               !.torn  = @ \cup (dir.whole \cap {del.dump})]
    BY <1>6 DEF RemovesLast
  <2>2. dir' \in DirType /\ dir'.manifest = dir.manifest
    BY <1>1, <2>1 DEF DirType, Images
  <2>3. QED
    BY <1>1, <1>6, <2>2 DEF RemovesLast, DelType
<1>7. CASE DeleteStops
  BY <1>1, <1>7, NoDelTypeOK DEF DeleteStops
<1>8. QED
  <2>1. CASE ManagerDeletes(c)
    BY <1>2, <1>3, <2>1 DEF ManagerDeletes
  <2>2. CASE RemovesFiles
    BY <1>1, <1>4, <1>5, <1>6, <1>7, <2>2 DEF RemovesFiles
  <2>3. QED
    BY <2>1, <2>2

\* So every step of it is typed.
LEMMA ManagerDeletesTypeOK ==
    ASSUME TypeOK, NEW c \in ObjType, ManagerDeletes(c) \/ RemovesFiles
    PROVE  TypeOK'
  BY ManagerDeletesEffect DEF TypeOK, apiVars, worldVars, agtVars

\* The goroutine records either a failure or a path of a tar.
LEMMA CallResultTypeOK ==
    ASSUME TypeOK, NEW c \in ObjType
    PROVE  /\ CallResult(c) \in ObjType
           /\ CallResult(c).phase \in {"Failed", "Checkpointed"}
<1>1. Phase(c, "Failed", "error") \in ObjType /\ Phase(c, "Checkpointed", "none") \in ObjType
  BY PhaseTypeOK DEF Phases, Terminal, Messages
<1>2. call.tar \in Dump \cup {NoDump}
  BY DEF TypeOK, CallType
<1>3. QED
  BY <1>1, <1>2 DEF CallResult, Phase, ObjType

\* The released inflight entry is typed.
LEMMA NoCallTypeOK == NoCall \in CallType
  BY DEF NoCall, CallType, NoPod, PodType

\* Every step of the manager, its goroutine and its restart is typed.
LEMMA ManagerStepTypeOK ==
    ASSUME TypeOK, ManagerNext
    PROVE  TypeOK'
<1> DEFINE c == cache["manager"]
<1>1. c \in ObjType
  BY DEF TypeOK, CopyType, Processes
<1>2. CASE ManagerReconciles(c)
  BY <1>1, <1>2, ManagerReconcilesTypeOK
<1>3. CASE ManagerDeletes(c) \/ RemovesFiles
  BY <1>1, <1>3, ManagerDeletesTypeOK
<1>4. CASE DropFinalizer
  <2>1. NoDel \in DelType
    BY NoDelTypeOK
  <2>2. Absent(del.snap.life) \in ObjType
    BY AbsentTypeOK DEF TypeOK, DelType, ObjType
  <2>3. obj' \in ObjType /\ cache' \in CopyType
    BY <1>4, <2>2, WriteTypeOK DEF DropFinalizer, TypeOK, apiVars
  <2>4. QED
    BY <1>4, <2>1, <2>3 DEF DropFinalizer, TypeOK, worldVars, storeVars, agtVars
<1>5. CASE KubeletFails
  <2>1. call' \in CallType
    BY <1>5 DEF KubeletFails, TypeOK, CallType
  <2>2. QED
    BY <1>5, <2>1 DEF KubeletFails, TypeOK, apiVars, worldVars, storeVars, agtVars
<1>6. ASSUME NEW d \in Dump, KubeletCheckpoints(d)
      PROVE  TypeOK'
  <2>1. call' \in CallType
    <3>1. PICK tar \in {d, NoDump} : call' = [call EXCEPT !.pc = "answered", !.tar = tar]
      BY <1>6 DEF KubeletCheckpoints
    <3>2. call \in CallType
      BY DEF TypeOK
    <3>3. QED
      BY <3>1, <3>2 DEF CallType
  <2>2. info' \in [Dump -> InfoType]
    BY <1>6, TakenTypeOK DEF KubeletCheckpoints, TypeOK, CallType
  <2>3. pods' \in [Lives -> {"starting", "running", "gone"}]
    BY <1>6 DEF KubeletCheckpoints, TypeOK
  <2>4. QED
    BY <1>6, <2>1, <2>2, <2>3 DEF KubeletCheckpoints, TypeOK, apiVars, agtVars
<1>7. CASE CallContextExpires
  BY <1>7, NoCallTypeOK
  DEF CallContextExpires, TypeOK, apiVars, worldVars, storeVars, agtVars
<1>8. CASE RecordCall(c)
  <2>1. obj' \in ObjType /\ cache' \in CopyType
    BY <1>1, <1>8, CallResultTypeOK, WriteTypeOK DEF RecordCall, TypeOK, apiVars
  <2>2. QED
    BY <1>8, <2>1, NoCallTypeOK DEF RecordCall, TypeOK, worldVars, storeVars, agtVars
<1>9. CASE ManagerRestarts
  <2>1. NoDel \in DelType
    BY NoDelTypeOK
  <2>2. cache' \in CopyType
    BY <1>9 DEF ManagerRestarts, TypeOK, CopyType
  <2>3. crashes' \in 0..MaxCrashes
    BY <1>9 DEF ManagerRestarts, TypeOK
  <2>4. QED
    BY <1>9, <2>1, <2>2, <2>3, NoCallTypeOK
    DEF ManagerRestarts, TypeOK, worldVars, storeVars, agtVars
<1>10. QED
  BY <1>2, <1>3, <1>4, <1>5, <1>6, <1>7, <1>8, <1>9 DEF ManagerNext, KubeletAnswers

\* The checkpoint worker is idle, or about to report a failure, with a typed record.
LEMMA NoCkptTypeOK ==
    /\ NoCkpt \in CkptType
    /\ NoUpl \in UplType
    /\ \A msg \in Messages : CkptFailure(msg) \in CkptType
<1>1. NoCkpt \in CkptType
  BY DEF NoCkpt, CkptType, NoPod, PodType, Messages
<1>2. NoUpl \in UplType
  BY AbsentTypeOK DEF NoUpl, UplType
<1>3. ASSUME NEW msg \in Messages PROVE CkptFailure(msg) \in CkptType
  BY <1>1, <1>3 DEF CkptFailure, CkptType
<1>4. QED
  BY <1>1, <1>2, <1>3

\* A checkpoint reconcile that moves its own state on and touches the store.
LEMMA CkptGoesTypeOK ==
    ASSUME TypeOK, NEW next \in CkptType, CkptGoes(next),
           obj' \in ObjType, cache' \in CopyType, dir' \in DirType,
           info' \in [Dump -> InfoType], UNCHANGED <<tarball, tars>>
    PROVE  TypeOK'
  BY DEF CkptGoes, TypeOK, worldVars, mgrVars

\* complete, fail and retry each write a typed object.
LEMMA CkptReportTypeOK ==
    ASSUME TypeOK, NEW c \in ObjType, ckpt.pc \in {"completing", "failing", "retrying"}
    PROVE  /\ CkptReport(c) \in ObjType
           /\ CkptReport(c).phase \in {"Completed", "Failed", c.phase}
           /\ CkptReport(c).life = c.life
           /\ CkptReport(c).spec = c.spec
<1>1. ckpt.msg \in Messages
  BY DEF TypeOK, CkptType
<1>2. CASE ckpt.pc = "completing"
  <2>1. CkptReport(c) = Completed(c)
    BY <1>2 DEF CkptReport
  <2>2. QED
    BY <2>1, CompletedTypeOK
<1>3. CASE ckpt.pc = "failing"
  <2>1. CkptReport(c) = Phase(c, "Failed", ckpt.msg)
    BY <1>3 DEF CkptReport
  <2>2. "Failed" \in Phases
    BY DEF Phases, Terminal
  <2>3. QED
    BY <1>1, <2>1, <2>2, PhaseTypeOK
<1>4. CASE ckpt.pc = "retrying"
  BY <1>4 DEF CkptReport, ObjType, Messages
<1>5. QED
  BY <1>2, <1>3, <1>4

\* Every step of CheckpointReconciler is typed.
LEMMA CkptReconcilesTypeOK ==
    ASSUME TypeOK, NEW c \in ObjType, CkptReconciles(c)
    PROVE  TypeOK'
<1> USE NoCkptTypeOK
<1>1. UNCHANGED <<apiVars, storeVars>> =>
          obj' \in ObjType /\ cache' \in CopyType /\ dir' \in DirType
          /\ info' \in [Dump -> InfoType] /\ UNCHANGED <<tarball, tars>>
  BY DEF TypeOK, apiVars, storeVars
<1>2. CASE CkptRefuses(c)
  BY <1>1, <1>2, CkptGoesTypeOK DEF CkptRefuses, Messages
<1>3. CASE CkptFindsManifest(c)
  <2>1. [NoCkpt EXCEPT !.pc = "completing", !.dump = dir.manifest] \in CkptType
    BY DEF CkptType, TypeOK, DirType
  <2>2. QED
    BY <1>1, <1>3, <2>1, CkptGoesTypeOK DEF CkptFindsManifest
<1>4. CASE CkptRetries(c)
  <2>1. [NoCkpt EXCEPT !.pc = "retrying"] \in CkptType
    BY DEF CkptType
  <2>2. QED
    BY <1>1, <1>4, <2>1, CkptGoesTypeOK DEF CkptRetries
<1>5. CASE CkptResolves(c)
  <2>1. [NoCkpt EXCEPT !.pc = "clearing", !.pod = PodOf(c)] \in CkptType
    BY PodTypeOK DEF CkptType
  <2>2. QED
    BY <1>1, <1>5, <2>1, CkptGoesTypeOK DEF CkptResolves
<1>6. CASE CkptCannotStart
  BY <1>1, <1>6, CkptGoesTypeOK DEF CkptCannotStart, Messages
<1>7. ASSUME NEW d \in Dump, CkptStartsDump(d)
      PROVE  TypeOK'
  <2>1. [ckpt EXCEPT !.pc = "dumping", !.dump = d] \in CkptType
    BY DEF CkptType, TypeOK
  <2>2. dir' \in DirType
    BY <1>7 DEF CkptStartsDump, EmptyDir, DirType
  <2>3. info' \in [Dump -> InfoType]
    BY <1>7, TakenTypeOK DEF CkptStartsDump, TypeOK, CkptType
  <2>4. QED
    BY <1>7, <2>1, <2>2, <2>3, CkptGoesTypeOK DEF CkptStartsDump, TypeOK, apiVars
<1>8. CASE CkptDumps
  <2>1. ckpt' \in CkptType
    BY <1>8 DEF CkptDumps, TypeOK, CkptType
  <2>2. dir' \in DirType
    <3>1. dir \in DirType
      BY DEF TypeOK
    <3>2. QED
      BY <1>8, <3>1, FinishedTypeOK DEF CkptDumps
  <2>3. pods' \in [Lives -> {"starting", "running", "gone"}]
    BY <1>8 DEF CkptDumps, TypeOK
  <2>4. QED
    BY <1>8, <2>1, <2>2, <2>3 DEF CkptDumps, TypeOK, apiVars, mgrVars
<1>9. CASE CkptDumpFails
  <2>1. ckpt' \in CkptType
    BY <1>9 DEF CkptDumpFails, Messages
  <2>2. pods' \in [Lives -> {"starting", "running", "gone"}]
    BY <1>9 DEF CkptDumpFails, TypeOK
  <2>3. QED
    BY <1>9, <2>1, <2>2 DEF CkptDumpFails, TypeOK, apiVars, storeVars, mgrVars
<1>10. CASE CkptPublishes
  <2>1. [ckpt EXCEPT !.pc = "completing"] \in CkptType /\ dir' \in DirType
    BY <1>10 DEF CkptPublishes, TypeOK, CkptType, DirType
  <2>2. QED
    BY <1>10, <2>1, CkptGoesTypeOK DEF CkptPublishes, TypeOK, apiVars
<1>11. CASE CkptPublishFails
  <2>1. dir' \in DirType
    BY <1>11 DEF CkptPublishFails, TypeOK, CkptType, DirType
  <2>2. QED
    BY <1>11, <2>1, CkptGoesTypeOK DEF CkptPublishFails, TypeOK, apiVars, Messages
<1>12. CASE CkptReports(c)
  <2>1. obj' \in ObjType /\ cache' \in CopyType
    BY <1>12, CkptReportTypeOK, WriteTypeOK DEF CkptReports, TypeOK, apiVars
  <2>2. QED
    BY <1>12, <2>1, CkptGoesTypeOK DEF CkptReports, TypeOK, storeVars
<1>13. QED
  BY <1>2, <1>3, <1>4, <1>5, <1>6, <1>7, <1>8, <1>9, <1>10, <1>11, <1>12
  DEF CkptReconciles

\* A reconcile of the agent that does nothing but one typed write is typed.
LEMMA AgentWritesTypeOK ==
    ASSUME TypeOK, NEW c, NEW new \in ObjType, AgentWrites(c, new)
    PROVE  TypeOK'
<1>1. obj' \in ObjType /\ cache' \in CopyType
  BY WriteTypeOK DEF AgentWrites
<1>2. QED
  BY <1>1 DEF AgentWrites, TypeOK, worldVars, storeVars, mgrVars, agtVars

\* A step of the upload worker leaves the rest of the system alone.
LEMMA UplGoesTypeOK ==
    ASSUME TypeOK, NEW next \in UplType, UplGoes(next),
           obj' \in ObjType, cache' \in CopyType, dir' \in DirType,
           tarball' \in Dump \cup {NoDump}, tars' \in SUBSET Dump, UNCHANGED info
    PROVE  TypeOK'
  BY DEF UplGoes, TypeOK, worldVars, mgrVars

\* Publishing keeps the store's type when the upload's copy names a tar.
LEMMA PublishedTypeOK ==
    ASSUME TypeOK, NEW snap \in ObjType, Published(snap)
    PROVE  dir' \in DirType /\ tarball' \in Dump \cup {NoDump}
<1>1. dir \in DirType /\ tarball \in Dump \cup {NoDump} /\ snap.tar \in Dump \cup {NoDump}
  BY DEF TypeOK, ObjType
<1>2. Finished(snap.tar) \in DirType
  BY <1>1, FinishedTypeOK
<1>3. [Finished(snap.tar) EXCEPT !.manifest = snap.tar] \in DirType
  BY <1>1, <1>2 DEF DirType
<1>4. QED
  BY <1>1, <1>3 DEF Published

\* Every step of UploadReconciler is typed.
LEMMA UplReconcilesTypeOK ==
    ASSUME TypeOK, NEW c \in ObjType, UplReconciles(c)
    PROVE  TypeOK'
<1>1. NoUpl \in UplType /\ upl.snap \in ObjType
  BY NoCkptTypeOK DEF TypeOK, UplType
<1>2. UNCHANGED <<apiVars, storeVars>> =>
          obj' \in ObjType /\ cache' \in CopyType /\ dir' \in DirType
          /\ tarball' \in Dump \cup {NoDump} /\ tars' \in SUBSET Dump /\ UNCHANGED info
  BY DEF TypeOK, apiVars, storeVars
<1>3. CASE UplClaims(c)
  BY <1>3, PhaseTypeOK, AgentWritesTypeOK DEF UplClaims, Phases, Messages
<1>4. CASE UplRefuses(c)
  BY <1>4, PhaseTypeOK, AgentWritesTypeOK DEF UplRefuses, Phases, Terminal, Messages
<1>5. CASE UplFindsNoTar(c)
  BY <1>5, PhaseTypeOK, AgentWritesTypeOK DEF UplFindsNoTar, Phases, Terminal, Messages
<1>6. CASE UplStarts(c)
  <2>1. [pc |-> "expanding", snap |-> c] \in UplType
    BY DEF UplType
  <2>2. dir' \in DirType
    <3>1. c.tar \in tars /\ tars \subseteq Dump /\ Images \subseteq Dump /\ dir \in DirType
      BY <1>6 DEF UplStarts, TypeOK, Images, DirType
    <3>2. QED
      BY <1>6, <3>1 DEF UplStarts, DirType
  <2>3. QED
    BY <1>6, <2>1, <2>2, UplGoesTypeOK DEF UplStarts, TypeOK, apiVars
<1>7. CASE UplPublishes
  <2>1. [upl EXCEPT !.pc = "removing"] \in UplType
    BY DEF UplType, TypeOK
  <2>2. QED
    BY <1>1, <1>7, <2>1, PublishedTypeOK, UplGoesTypeOK DEF UplPublishes, TypeOK, apiVars
<1>8. CASE UplFails
  <2>1. [upl.snap EXCEPT !.msg = "retrying"] \in ObjType
    BY <1>1 DEF ObjType, Messages
  <2>2. obj' \in ObjType /\ cache' \in CopyType
    BY <1>8, <2>1, WriteTypeOK DEF UplFails, TypeOK, apiVars
  <2>3. dir' \in DirType /\ tarball' \in Dump \cup {NoDump}
    BY <1>1, <1>8, PublishedTypeOK DEF UplFails, TypeOK
  <2>4. QED
    BY <1>1, <1>8, <2>2, <2>3, UplGoesTypeOK DEF UplFails, TypeOK
<1>9. CASE UplRemovesTar
  <2>1. [upl EXCEPT !.pc = "reporting"] \in UplType
    BY DEF UplType, TypeOK
  <2>2. tars' \in SUBSET Dump
    BY <1>9 DEF UplRemovesTar, TypeOK
  <2>3. QED
    BY <1>9, <2>1, <2>2, UplGoesTypeOK DEF UplRemovesTar, TypeOK, apiVars
<1>10. CASE UplReports
  <2>1. obj' \in ObjType /\ cache' \in CopyType
    BY <1>1, <1>10, CompletedTypeOK, WriteTypeOK DEF UplReports, TypeOK, apiVars
  <2>2. QED
    BY <1>1, <1>2, <1>10, <2>1, UplGoesTypeOK DEF UplReports, TypeOK, storeVars
<1>11. QED
  BY <1>3, <1>4, <1>5, <1>6, <1>7, <1>8, <1>9, <1>10 DEF UplReconciles

\* Every step of the agent and its restart is typed.
LEMMA AgentStepTypeOK ==
    ASSUME TypeOK, AgentNext
    PROVE  TypeOK'
<1> DEFINE c == cache["agent"]
<1>1. c \in ObjType
  BY DEF TypeOK, CopyType, Processes
<1>2. CASE QuiesceSeen(c)
  BY <1>1, <1>2, PhaseTypeOK, AgentWritesTypeOK DEF QuiesceSeen, Phases, Messages
<1>3. CASE CkptReconciles(c)
  BY <1>1, <1>3, CkptReconcilesTypeOK
<1>4. CASE UplReconciles(c)
  BY <1>1, <1>4, UplReconcilesTypeOK
<1>5. CASE AgentAdvertises
  BY <1>5 DEF AgentAdvertises, TypeOK, NodeType, apiVars, storeVars, mgrVars, agtVars
<1>6. CASE AgentRestarts
  <2>1. cache' \in CopyType /\ node' \in NodeType
    BY <1>6 DEF AgentRestarts, TypeOK, CopyType, NodeType
  <2>2. pods' \in [Lives -> {"starting", "running", "gone"}]
    BY <1>6 DEF AgentRestarts, TypeOK
  <2>3. crashes' \in 0..MaxCrashes
    BY <1>6 DEF AgentRestarts, TypeOK
  <2>4. QED
    BY <1>6, <2>1, <2>2, <2>3, NoCkptTypeOK DEF AgentRestarts, TypeOK, storeVars, mgrVars
<1>7. QED
  BY <1>2, <1>3, <1>4, <1>5, <1>6 DEF AgentNext

\* Every step of the user, the pods, the shim and the informers is typed.
LEMMA EnvironmentStepTypeOK ==
    ASSUME TypeOK, UserNext \/ WorldNext \/ \E p \in Processes : Informed(p)
    PROVE  TypeOK'
<1>1. ASSUME NEW s \in Specs, Create(s)
      PROVE  TypeOK'
  <2>1. obj.life + 1 \in 0..MaxLives /\ s \in SpecType
    BY <1>1 DEF Create, TypeOK, ObjType
  <2>2. obj' \in ObjType
    <3>1. Absent(obj.life + 1) \in ObjType /\ "New" \in Phases
      BY <2>1, AbsentTypeOK DEF Phases
    <3>2. obj' = [Absent(obj.life + 1) EXCEPT !.spec = s, !.phase = "New"]
      BY <1>1 DEF Create
    <3>3. QED
      BY <2>1, <3>1, <3>2 DEF ObjType
  <2>3. QED
    BY <1>1, <2>2 DEF Create, TypeOK, worldVars, storeVars, mgrVars, agtVars
<1>2. CASE Delete
  <2>1. obj' \in ObjType
    BY <1>2, AbsentTypeOK DEF Delete, TypeOK, ObjType
  <2>2. QED
    BY <1>2, <2>1 DEF Delete, TypeOK, worldVars, storeVars, mgrVars, agtVars
<1>3. CASE PodStarts \/ PodDies
  BY <1>3 DEF PodStarts, PodDies, PodMoves, TypeOK, apiVars, storeVars, mgrVars, agtVars
<1>4. CASE ShimParks
  <2>1. parked' \in SUBSET Lives
    BY <1>4 DEF ShimParks, TypeOK
  <2>2. QED
    BY <1>4, <2>1 DEF ShimParks, TypeOK, apiVars, storeVars, mgrVars, agtVars
<1>5. CASE DeadlinePasses
  <2>1. expired' \in SUBSET Lives
    BY <1>5 DEF DeadlinePasses, TypeOK
  <2>2. QED
    BY <1>5, <2>1 DEF DeadlinePasses, TypeOK, apiVars, storeVars, mgrVars, agtVars
<1>6. ASSUME NEW p \in Processes, Informed(p)
      PROVE  TypeOK'
  BY <1>6 DEF Informed, TypeOK, CopyType, worldVars, storeVars, mgrVars, agtVars
<1>7. QED
  BY <1>1, <1>2, <1>3, <1>4, <1>5, <1>6 DEF UserNext, WorldNext

\* A stuttering step changes no type.
LEMMA StutterTypeOK ==
    ASSUME TypeOK, UNCHANGED vars
    PROVE  TypeOK'
  BY DEF TypeOK, vars

\* TypeOK is inductive: it holds in every state of every behaviour, whichever
\* order the reconcilers, the kubelet, the user and the informers act in.
THEOREM TypeCorrect == Spec => []TypeOK
<1>1. Init => TypeOK
  BY InitTypeOK
<1>2. TypeOK /\ [Next]_vars => TypeOK'
  BY ManagerStepTypeOK, AgentStepTypeOK, EnvironmentStepTypeOK, StutterTypeOK DEF Next
<1>3. QED
  BY <1>1, <1>2, PTL DEF Spec

-----------------------------------------------------------------------------
(***************************************************************************)
(* Quiesce before dump.  DumpedParked speaks of the moment a dump began;   *)
(* what makes it inductive is that every copy of the object from which a   *)
(* worker may still start one - the stored object and both caches - and    *)
(* every pod a worker remembers, belongs to a parked life.                 *)
(***************************************************************************)
\* A copy that says Checkpointing of a pod that opted in is of a parked pod.
CopyParked(c) == (c.phase = "Checkpointing" /\ c.spec.quiesce) => c.life \in parked

PodParked(pod) == pod.quiesce => pod.life \in parked

ParkedInv ==
    /\ TypeOK
    /\ CopyParked(obj)
    /\ \A p \in Processes : CopyParked(cache[p])
    /\ PodParked(call.pod) /\ PodParked(ckpt.pod)
    /\ DumpedParked

\* Parking is for good, so a step that adds no copy keeps them all parked.
LEMMA ParkedGrows ==
    ASSUME ParkedInv, parked \subseteq parked', TypeOK', CopyParked(obj)', UNCHANGED cache,
           call'.pod \in {call.pod, NoPod}, ckpt'.pod \in {ckpt.pod, NoPod}, UNCHANGED info
    PROVE  ParkedInv'
<1>1. (\A p \in Processes : CopyParked(cache[p]))'
  BY DEF ParkedInv, CopyParked
<1>2. PodParked(call.pod)' /\ PodParked(ckpt.pod)'
  BY DEF ParkedInv, PodParked, NoPod
<1>3. DumpedParked'
  BY DEF ParkedInv, DumpedParked
<1>4. QED
  BY <1>1, <1>2, <1>3 DEF ParkedInv

\* A write that moves no copy to Checkpointing keeps the stored object's promise.
LEMMA WriteParked ==
    ASSUME NEW c, NEW new, CopyParked(obj), Write(c, new), parked \subseteq parked',
           \/ new.phase # "Checkpointing"
           \/ new.phase = c.phase /\ new.life = c.life /\ new.spec = c.spec
    PROVE  CopyParked(obj)'
  BY DEF Write, Current, CopyParked

\* The manager moves an object that opted in to Checkpointing only through
\* Quiescing, so every step of it keeps the invariant.
LEMMA ManagerStepParked ==
    ASSUME ParkedInv, ManagerNext, TypeOK'
    PROVE  ParkedInv'
<1> DEFINE c == cache["manager"]
<1>1. c \in ObjType /\ CopyParked(c) /\ CopyParked(obj)
  BY DEF ParkedInv, TypeOK, CopyType, Processes
<1>2. ASSUME NEW new, ManagerWrites(c, new),
             \/ new.phase # "Checkpointing"
             \/ new.phase = c.phase /\ new.life = c.life /\ new.spec = c.spec
             \/ ~new.spec.quiesce
      PROVE  ParkedInv'
  <2>1. CopyParked(obj)'
    BY <1>1, <1>2 DEF ManagerWrites, worldVars, Write, Current, CopyParked
  <2>2. QED
    BY <1>2, <2>1, ParkedGrows DEF ManagerWrites, worldVars, storeVars, mgrVars, agtVars, Write
<1>3. CASE AddFinalizer(c)
  <2>1. /\ [c EXCEPT !.finalizer = TRUE].phase = c.phase
        /\ [c EXCEPT !.finalizer = TRUE].life = c.life
        /\ [c EXCEPT !.finalizer = TRUE].spec = c.spec
    BY <1>1 DEF ObjType
  <2>2. QED
    BY <1>2, <1>3, <2>1 DEF AddFinalizer
<1>4. CASE AcceptNew(c) \/ PendingWaits(c)
  <2>1. "Pending" \in Phases /\ "none" \in Messages /\ "waiting" \in Messages
    BY DEF Phases, Messages
  <2>2. QED
    BY <1>1, <1>2, <1>4, <2>1, PhaseTypeOK DEF AcceptNew, PendingWaits
<1>5. CASE PendingFails(c) \/ QuiesceTimesOut(c) \/ NodeHasNoAddress(c)
  <2>1. "Failed" \in Phases /\ "error" \in Messages
    BY DEF Phases, Terminal, Messages
  <2>2. QED
    BY <1>1, <1>2, <1>5, <2>1, PhaseTypeOK DEF PendingFails, QuiesceTimesOut, NodeHasNoAddress
<1>6. CASE PendingProceeds(c)
  <2> DEFINE next == IF c.spec.quiesce THEN "Quiescing" ELSE "Checkpointing"
             new  == [Phase(c, next, "none") EXCEPT !.artifact = TRUE]
  <2>1. next \in Phases /\ "none" \in Messages
    BY DEF Phases, Messages
  <2>2. new.phase = next /\ new.spec = c.spec
    <3> HIDE DEF next
    <3>1. /\ Phase(c, next, "none") \in ObjType
          /\ Phase(c, next, "none").phase = next
          /\ Phase(c, next, "none").spec = c.spec
      BY <1>1, <2>1, PhaseTypeOK
    <3>2. QED
      BY <3>1 DEF ObjType
  <2>3. ManagerWrites(c, new)
    BY <1>6 DEF PendingProceeds
  <2>4. new.phase # "Checkpointing" \/ ~new.spec.quiesce
    <3> HIDE DEF new
    <3>1. QED
      BY <2>2
  <2>5. QED
    <3> HIDE DEF new, next
    <3>1. QED
      BY <1>2, <2>3, <2>4
<1>7. CASE LeaveToAgent(c)
  <2>1. "Checkpointing" \in Phases /\ "agentRuns" \in Messages
    BY DEF Phases, Messages
  <2>2. QED
    BY <1>1, <1>2, <1>7, <2>1, PhaseTypeOK DEF LeaveToAgent
<1>8. CASE StartKubeletCall(c)
  <2>1. CopyParked(obj)'
    <3>1. Phase(c, "Checkpointing", "fallback").phase = c.phase
          /\ Phase(c, "Checkpointing", "fallback").life = c.life
          /\ Phase(c, "Checkpointing", "fallback").spec = c.spec
      BY <1>1, <1>8, PhaseTypeOK DEF StartKubeletCall, FallsBack, Phases, Messages
    <3>2. QED
      BY <1>1, <1>8, <3>1, WriteParked
      DEF StartKubeletCall, NotesFallback, apiVars, worldVars, CopyParked
  <2>2. PodParked(call.pod)'
    <3>1. PodParked(PodOf(c))
      BY <1>1, <1>8 DEF StartKubeletCall, FallsBack, CopyParked, PodParked, PodOf
    <3>2. PodParked(call.pod)
      BY DEF ParkedInv
    <3>3. call'.pod \in {call.pod, PodOf(c)}
      BY <1>8 DEF StartKubeletCall
    <3>4. QED
      BY <1>8, <3>1, <3>2, <3>3 DEF StartKubeletCall, PodParked, worldVars
  <2>3. UNCHANGED <<cache, parked, ckpt, info>>
    BY <1>8 DEF StartKubeletCall, NotesFallback, Write, apiVars, worldVars, storeVars, agtVars
  <2>4. QED
    BY <2>1, <2>2, <2>3 DEF ParkedInv, CopyParked, PodParked, DumpedParked
<1>9. CASE ManagerDeletes(c) \/ RemovesFiles
  <2>1. UNCHANGED <<obj, cache, parked, call, ckpt, info>>
    BY <1>1, <1>9, ManagerDeletesEffect DEF ParkedInv, apiVars, worldVars, agtVars
  <2>2. QED
    BY <2>1, ParkedGrows DEF ParkedInv, CopyParked
<1>10. CASE DropFinalizer
  <2>1. Absent(del.snap.life).phase = "Gone"
    BY DEF Absent
  <2>2. CopyParked(obj)'
    BY <1>1, <1>10, <2>1, WriteParked DEF DropFinalizer, apiVars, worldVars, CopyParked
  <2>3. QED
    BY <1>10, <2>2, ParkedGrows DEF DropFinalizer, Write, apiVars, worldVars, storeVars, agtVars
<1>11. CASE KubeletFails
  <2>1. call'.pod = call.pod
    BY <1>11 DEF KubeletFails, ParkedInv, TypeOK, CallType
  <2>2. QED
    BY <1>11, <2>1, ParkedGrows
    DEF KubeletFails, ParkedInv, CopyParked, apiVars, worldVars, storeVars, agtVars
<1>12. ASSUME NEW d \in Dump, KubeletCheckpoints(d)
       PROVE  ParkedInv'
  <2>1. call \in CallType /\ info \in [Dump -> InfoType] /\ PodParked(call.pod) /\ DumpedParked
    BY DEF ParkedInv, TypeOK
  <2>2. call'.pod = call.pod
    <3>1. PICK tar \in {d, NoDump} : call' = [call EXCEPT !.pc = "answered", !.tar = tar]
      BY <1>12 DEF KubeletCheckpoints
    <3>2. QED
      BY <2>1, <3>1 DEF CallType
  <2>3. DumpedParked'
    BY <1>12, <2>1 DEF KubeletCheckpoints, Taken, DumpedParked, PodParked
  <2>4. UNCHANGED <<obj, cache, parked, ckpt>>
    BY <1>12 DEF KubeletCheckpoints, apiVars, agtVars
  <2>5. QED
    BY <2>2, <2>3, <2>4 DEF ParkedInv, CopyParked, PodParked
<1>13. CASE CallContextExpires
  BY <1>13, ParkedGrows
  DEF CallContextExpires, NoCall, ParkedInv, CopyParked, apiVars, worldVars, storeVars, agtVars
<1>14. CASE RecordCall(c)
  <2>1. CallResult(c).phase # "Checkpointing"
    BY <1>1, CallResultTypeOK DEF ParkedInv
  <2>2. CopyParked(obj)'
    BY <1>1, <1>14, <2>1, WriteParked DEF RecordCall, apiVars, worldVars, CopyParked
  <2>3. QED
    BY <1>14, <2>2, ParkedGrows
    DEF RecordCall, NoCall, Write, apiVars, worldVars, storeVars, agtVars
<1>15. CASE ManagerRestarts
  <2>1. \A p \in Processes : cache'[p] \in {cache[p], obj}
    BY <1>15 DEF ManagerRestarts, ParkedInv, TypeOK, CopyType
  <2>2. UNCHANGED <<obj, parked, ckpt, info>> /\ call'.pod = NoPod
    BY <1>15 DEF ManagerRestarts, NoCall, worldVars, storeVars, agtVars
  <2>3. QED
    BY <2>1, <2>2 DEF ParkedInv, CopyParked, PodParked, NoPod, DumpedParked
<1>16. QED
  BY <1>3, <1>4, <1>5, <1>6, <1>7, <1>8, <1>9, <1>10, <1>11, <1>12, <1>13, <1>14, <1>15
  DEF ManagerNext, ManagerReconciles, KubeletAnswers

\* The checkpoint reconciler's own steps: only a resolve remembers a pod.
LEMMA CkptStepParked ==
    ASSUME ParkedInv, NEW c \in ObjType, CopyParked(c), CkptReconciles(c), TypeOK'
    PROVE  ParkedInv'
<1>1. CopyParked(obj) /\ PodParked(call.pod) /\ PodParked(ckpt.pod) /\ DumpedParked
      /\ ckpt \in CkptType /\ info \in [Dump -> InfoType]
  BY DEF ParkedInv, TypeOK
<1>2. \A msg : CkptFailure(msg).pod = NoPod
  BY DEF CkptFailure, NoCkpt
<1>3. ASSUME UNCHANGED <<obj, cache, parked, call, info>>, ckpt'.pod \in {ckpt.pod, NoPod}
      PROVE  ParkedInv'
  BY <1>1, <1>3, ParkedGrows DEF CopyParked
<1>4. CASE CkptRefuses(c) \/ CkptFindsManifest(c) \/ CkptRetries(c) \/ CkptCannotStart
  <2>1. ckpt'.pod = NoPod
    BY <1>2, <1>4
    DEF CkptRefuses, CkptFindsManifest, CkptRetries, CkptCannotStart, CkptGoes, NoCkpt
  <2>2. QED
    BY <1>3, <1>4, <2>1
    DEF CkptRefuses, CkptFindsManifest, CkptRetries, CkptCannotStart, CkptGoes,
        apiVars, worldVars, storeVars, mgrVars
<1>5. CASE CkptResolves(c)
  <2>1. ckpt'.pod = PodOf(c)
    BY <1>5 DEF CkptResolves, CkptGoes, NoCkpt
  <2>2. PodParked(ckpt'.pod)
    BY <1>5, <2>1 DEF CkptResolves, Dumpable, Owns, CopyParked, PodParked, PodOf
  <2>3. UNCHANGED <<obj, cache, parked, call, info>>
    BY <1>5 DEF CkptResolves, CkptGoes, apiVars, worldVars, storeVars, mgrVars
  <2>4. QED
    BY <2>2, <2>3 DEF ParkedInv, CopyParked, PodParked, DumpedParked
<1>6. ASSUME NEW d \in Dump, CkptStartsDump(d)
      PROVE  ParkedInv'
  <2>1. ckpt'.pod = ckpt.pod
    BY <1>1, <1>6 DEF CkptStartsDump, CkptGoes, CkptType
  <2>2. DumpedParked'
    BY <1>1, <1>6 DEF CkptStartsDump, Taken, DumpedParked, PodParked
  <2>3. UNCHANGED <<obj, cache, parked, call>>
    BY <1>6 DEF CkptStartsDump, CkptGoes, apiVars, worldVars, mgrVars
  <2>4. QED
    BY <2>1, <2>2, <2>3 DEF ParkedInv, CopyParked, PodParked
<1>7. CASE CkptDumps \/ CkptDumpFails \/ CkptPublishes \/ CkptPublishFails
  <2>1. ckpt'.pod \in {ckpt.pod, NoPod}
    BY <1>1, <1>2, <1>7
    DEF CkptDumps, CkptDumpFails, CkptPublishes, CkptPublishFails, CkptGoes, CkptType
  <2>2. QED
    BY <1>3, <1>7, <2>1
    DEF CkptDumps, CkptDumpFails, CkptPublishes, CkptPublishFails, CkptGoes,
        apiVars, worldVars, storeVars, mgrVars
<1>8. CASE CkptReports(c)
  <2>1. TypeOK
    BY DEF ParkedInv
  <2>2. \/ CkptReport(c).phase # "Checkpointing"
        \/ CkptReport(c).phase = c.phase /\ CkptReport(c).life = c.life
           /\ CkptReport(c).spec = c.spec
    BY <1>8, <2>1, CkptReportTypeOK DEF CkptReports
  <2>3. Write(c, CkptReport(c)) \/ UNCHANGED apiVars
    BY <1>8 DEF CkptReports
  <2>4. UNCHANGED <<parked, call, info>> /\ ckpt' = NoCkpt
    BY <1>8 DEF CkptReports, CkptGoes, worldVars, storeVars, mgrVars
  <2>5. CopyParked(obj)'
    BY <1>1, <2>2, <2>3, <2>4, WriteParked DEF apiVars, CopyParked
  <2>6. QED
    BY <2>3, <2>4, <2>5, ParkedGrows DEF Write, apiVars, NoCkpt
<1>9. QED
  BY <1>4, <1>5, <1>6, <1>7, <1>8 DEF CkptReconciles

\* The upload reconciler starts no dump and writes no copy to Checkpointing.
LEMMA UplStepParked ==
    ASSUME ParkedInv, NEW c \in ObjType, CopyParked(c), UplReconciles(c), TypeOK'
    PROVE  ParkedInv'
<1>1. CopyParked(obj) /\ upl.snap \in ObjType
  BY DEF ParkedInv, TypeOK, UplType
<1>2. ASSUME UNCHANGED <<cache, parked, call, ckpt, info>>, CopyParked(obj)'
      PROVE  ParkedInv'
  BY <1>2, ParkedGrows
<1>3. CASE UplClaims(c) \/ UplRefuses(c) \/ UplFindsNoTar(c)
  <2>1. ASSUME NEW new, new.phase # "Checkpointing", AgentWrites(c, new)
        PROVE  ParkedInv'
    <3>1. CopyParked(obj)'
      BY <1>1, <2>1, WriteParked DEF AgentWrites, worldVars
    <3>2. QED
      BY <1>2, <2>1, <3>1 DEF AgentWrites, Write, worldVars, storeVars, mgrVars, agtVars
  <2>2. CASE UplClaims(c)
    <3>1. Phase(c, "Uploading", "none").phase = "Uploading"
      BY PhaseTypeOK DEF Phases, Terminal, Messages
    <3>2. QED
      BY <2>1, <2>2, <3>1 DEF UplClaims
  <2>3. CASE UplRefuses(c)
    BY <2>1, <2>3, PhaseTypeOK DEF UplRefuses, Phases, Terminal, Messages
  <2>4. CASE UplFindsNoTar(c)
    BY <2>1, <2>4, PhaseTypeOK DEF UplFindsNoTar, Phases, Terminal, Messages
  <2>5. QED
    BY <1>3, <2>2, <2>3, <2>4
<1>4. CASE UplStarts(c) \/ UplPublishes \/ UplRemovesTar
  BY <1>1, <1>2, <1>4
  DEF UplStarts, UplPublishes, UplRemovesTar, UplGoes, CopyParked, apiVars, worldVars, mgrVars
<1>5. CASE UplFails
  <2> DEFINE new == [upl.snap EXCEPT !.msg = "retrying"]
  <2>1. new.phase = upl.snap.phase /\ new.life = upl.snap.life /\ new.spec = upl.snap.spec
    BY <1>1 DEF ObjType
  <2>2. Write(upl.snap, new) \/ UNCHANGED apiVars
    BY <1>5 DEF UplFails
  <2>3. UNCHANGED <<parked, call, ckpt, info>>
    BY <1>5 DEF UplFails, UplGoes, worldVars, mgrVars
  <2>4. CopyParked(obj)'
    BY <1>1, <2>1, <2>2, <2>3, WriteParked DEF apiVars, CopyParked
  <2>5. QED
    BY <1>2, <2>2, <2>3, <2>4 DEF Write, apiVars
<1>6. CASE UplReports
  <2>1. Completed(upl.snap).phase = "Completed"
    BY <1>1, CompletedTypeOK
  <2>2. Write(upl.snap, Completed(upl.snap)) \/ UNCHANGED apiVars
    BY <1>6 DEF UplReports
  <2>3. UNCHANGED <<parked, call, ckpt, info>>
    BY <1>6 DEF UplReports, UplGoes, worldVars, storeVars, mgrVars
  <2>4. CopyParked(obj)'
    BY <1>1, <2>1, <2>2, <2>3, WriteParked DEF apiVars, CopyParked
  <2>5. QED
    BY <1>2, <2>2, <2>3, <2>4 DEF Write, apiVars
<1>7. QED
  BY <1>3, <1>4, <1>5, <1>6 DEF UplReconciles

\* Only QuiesceSeen leaves Quiescing for Checkpointing, and only with the shim's
\* presence file; the other steps of the agent keep what it established.
LEMMA AgentStepParked ==
    ASSUME ParkedInv, AgentNext, TypeOK'
    PROVE  ParkedInv'
<1> DEFINE c == cache["agent"]
<1>1. c \in ObjType /\ CopyParked(c) /\ CopyParked(obj)
  BY DEF ParkedInv, TypeOK, CopyType, Processes
<1>2. CASE QuiesceSeen(c)
  <2> DEFINE new == Phase(c, "Checkpointing", "none")
  <2>1. new.life = c.life
    <3>1. "Checkpointing" \in Phases /\ "none" \in Messages
      BY DEF Phases, Messages
    <3>2. QED
      BY <1>1, <3>1, PhaseTypeOK
  <2>2. obj' = new /\ c.life \in parked
        /\ UNCHANGED <<cache, parked, call, ckpt, info>>
    BY <1>2 DEF QuiesceSeen, AgentWrites, Write, worldVars, storeVars, mgrVars, agtVars
  <2>3. CopyParked(obj)'
    BY <2>1, <2>2 DEF CopyParked
  <2>4. QED
    BY <2>2, <2>3, ParkedGrows
<1>3. CASE CkptReconciles(c)
  BY <1>1, <1>3, CkptStepParked
<1>4. CASE UplReconciles(c)
  BY <1>1, <1>4, UplStepParked
<1>5. CASE AgentAdvertises
  BY <1>1, <1>5, ParkedGrows
  DEF AgentAdvertises, CopyParked, apiVars, storeVars, mgrVars, agtVars
<1>6. CASE AgentRestarts
  <2>1. \A p \in Processes : cache'[p] \in {cache[p], obj}
    BY <1>6 DEF AgentRestarts, ParkedInv, TypeOK, CopyType
  <2>2. UNCHANGED <<obj, parked, call, info>> /\ ckpt'.pod = NoPod
    BY <1>6 DEF AgentRestarts, NoCkpt, storeVars, mgrVars
  <2>3. QED
    BY <2>1, <2>2 DEF ParkedInv, CopyParked, PodParked, NoPod, DumpedParked
<1>7. QED
  BY <1>2, <1>3, <1>4, <1>5, <1>6 DEF AgentNext

\* Steps of the environment park more pods and never release one.
LEMMA EnvironmentStepParked ==
    ASSUME ParkedInv, UserNext \/ WorldNext \/ \E p \in Processes : Informed(p), TypeOK'
    PROVE  ParkedInv'
<1>1. CopyParked(obj)
  BY DEF ParkedInv
<1>2. CASE UserNext
  <2>1. CopyParked(obj)'
    <3>1. ASSUME NEW s \in Specs, Create(s) PROVE obj'.phase = "New"
      BY <3>1 DEF Create, Absent
    <3>2. CASE Delete
      <4>1. obj \in ObjType
        BY DEF ParkedInv, TypeOK
      <4>2. CASE obj.finalizer
        BY <1>1, <3>2, <4>1, <4>2 DEF Delete, ObjType, CopyParked, worldVars
      <4>3. CASE ~obj.finalizer
        BY <3>2, <4>3 DEF Delete, Absent, CopyParked
      <4>4. QED
        BY <4>2, <4>3
    <3>3. QED
      BY <1>2, <3>1, <3>2 DEF UserNext, CopyParked
  <2>2. QED
    BY <1>2, <2>1, ParkedGrows
    DEF UserNext, Create, Delete, worldVars, storeVars, mgrVars, agtVars
<1>3. CASE WorldNext
  <2>1. parked \subseteq parked' /\ UNCHANGED <<obj, cache, call, ckpt, info>>
    BY <1>3 DEF WorldNext, PodStarts, PodDies, PodMoves, ShimParks, DeadlinePasses,
                apiVars, storeVars, mgrVars, agtVars
  <2>2. QED
    BY <1>1, <2>1, ParkedGrows DEF CopyParked
<1>4. ASSUME NEW p \in Processes, Informed(p)
      PROVE  ParkedInv'
  <2>1. \A q \in Processes : cache'[q] \in {cache[q], obj}
    BY <1>4 DEF Informed, ParkedInv, TypeOK, CopyType
  <2>2. UNCHANGED <<obj, parked, call, ckpt, info>>
    BY <1>4 DEF Informed, worldVars, storeVars, mgrVars, agtVars
  <2>3. QED
    BY <2>1, <2>2 DEF ParkedInv, CopyParked, PodParked, DumpedParked
<1>5. QED
  BY <1>2, <1>3, <1>4

\* Nothing is dumped or remembered in the initial state.
LEMMA InitParked == Init => ParkedInv
<1>1. ASSUME Init PROVE ParkedInv
  <2>1. TypeOK
    BY <1>1, InitTypeOK
  <2>2. Absent(0).phase = "Gone"
    BY DEF Absent
  <2>3. CopyParked(obj) /\ \A p \in Processes : CopyParked(cache[p])
    BY <1>1, <2>2 DEF Init, CopyParked
  <2>4. PodParked(call.pod) /\ PodParked(ckpt.pod) /\ DumpedParked
    BY <1>1 DEF Init, NoCall, NoCkpt, NoPod, NoInfo, PodParked, DumpedParked
  <2>5. QED
    BY <2>1, <2>3, <2>4 DEF ParkedInv
<1>2. QED
  BY <1>1

\* Whatever is stale, restarted, deleted or re-created: neither the kubelet nor
\* the agent begins to dump a pod that opted in to quiesce before its shim has
\* parked it (podsnapshot_controller.go resolveQuiesce, quiesce_controller.go).
THEOREM QuiescedBeforeDump == Spec => []DumpedParked
<1>1. Init => ParkedInv
  BY InitParked
<1>2. ParkedInv /\ [Next]_vars => ParkedInv'
  <2>1. ASSUME ParkedInv, Next PROVE ParkedInv'
    <3>1. TypeOK'
      BY <2>1, ManagerStepTypeOK, AgentStepTypeOK, EnvironmentStepTypeOK DEF Next, ParkedInv
    <3>2. QED
      BY <2>1, <3>1, ManagerStepParked, AgentStepParked, EnvironmentStepParked DEF Next
  <2>2. ASSUME ParkedInv, UNCHANGED vars PROVE ParkedInv'
    BY <2>2, StutterTypeOK DEF ParkedInv, CopyParked, PodParked, DumpedParked, vars
  <2>3. QED
    BY <2>1, <2>2
<1>3. ParkedInv => DumpedParked
  BY DEF ParkedInv
<1>4. QED
  BY <1>1, <1>2, <1>3, PTL DEF Spec
-----------------------------------------------------------------------------
(***************************************************************************)
(* Whose dumps there are.  Whatever names a dump - a status, a copy of it, *)
(* an answer of the kubelet, a worker, a MANIFEST, the tar at the URI -    *)
(* names one that was taken of the pod of some object of the name.         *)
(***************************************************************************)
OfPod(d) == d = NoDump \/ info[d].life > 0

Copies == {obj, cache["manager"], cache["agent"]}

OriginInv ==
    /\ \A c \in Copies : (Exists(c) => c.life > 0) /\ OfPod(c.tar)
    /\ call.pc # "idle" => call.pod.life > 0
    /\ ckpt.pc = "clearing" => ckpt.pod.life > 0
    /\ upl.pc # "idle" => Exists(upl.snap)
    /\ OfPod(call.tar) /\ OfPod(ckpt.dump) /\ OfPod(upl.snap.tar)
    /\ OfPod(dir.manifest) /\ OfPod(tarball)

\* Where a step takes the names from: those of the object, ...
ObjectFrom ==
    /\ Exists(obj') => obj'.life > 0
    /\ obj'.tar \in {obj.tar, call.tar, NoDump}
    /\ \A p \in Processes : cache'[p] \in {cache[p], obj}

\* ... of the workers and the records of dumps, ...
WorkFrom ==
    /\ UNCHANGED info \/ \E d \in Dump : \E pod \in {call.pod, ckpt.pod} :
                             pod.life > 0 /\ info' = Taken(d, pod)
    /\ call'.pc # "idle" => call'.pod.life > 0
    /\ ckpt'.pc = "clearing" => ckpt'.pod.life > 0
    /\ upl'.pc # "idle" => Exists(upl'.snap)
    /\ call'.tar \in {call.tar, NoDump} \/ OfPod(call.tar)'
    /\ ckpt'.dump \in {ckpt.dump, dir.manifest, NoDump} \/ OfPod(ckpt.dump)'
    /\ upl'.snap.tar \in {upl.snap.tar, cache["agent"].tar, NoDump}

\* ... and of the store.
StoreFrom ==
    /\ dir'.manifest \in {dir.manifest, ckpt.dump, upl.snap.tar, NoDump}
    /\ tarball' \in {tarball, upl.snap.tar, NoDump}

\* A dump that was taken of a pod stays one, for nothing is ever forgotten.
LEMMA OriginStays ==
    ASSUME TypeOK, WorkFrom
    PROVE  \A d \in Dump \cup {NoDump} : OfPod(d) => d = NoDump \/ info'[d].life > 0
<1>1. info \in [Dump -> InfoType]
  BY DEF TypeOK
<1>2. CASE UNCHANGED info
  BY <1>2 DEF OfPod
<1>3. ASSUME NEW e \in Dump, NEW pod \in {call.pod, ckpt.pod}, pod.life > 0, info' = Taken(e, pod)
      PROVE  \A d \in Dump \cup {NoDump} : OfPod(d) => d = NoDump \/ info'[d].life > 0
  BY <1>1, <1>3 DEF Taken, OfPod
<1>4. QED
  BY <1>2, <1>3 DEF WorkFrom

\* So a step that takes its names from these places keeps the invariant.
LEMMA OriginKept ==
    ASSUME TypeOK, OriginInv, ObjectFrom, WorkFrom, StoreFrom
    PROVE  OriginInv'
<1> DEFINE Past == {d \in Dump \cup {NoDump} : OfPod(d)}
           Now  == {d \in Dump \cup {NoDump} : d = NoDump \/ info'[d].life > 0}
<1>1. Past \subseteq Now
  BY OriginStays
<1>2. /\ obj.tar \in Past /\ cache["manager"].tar \in Past /\ cache["agent"].tar \in Past
      /\ call.tar \in Past /\ ckpt.dump \in Past /\ upl.snap.tar \in Past
      /\ dir.manifest \in Past /\ tarball \in Past /\ NoDump \in Past
  BY DEF OriginInv, Copies, TypeOK, ObjType, CopyType, Processes, CallType, CkptType, UplType,
         DirType, OfPod
<1>3. \A d \in Now : d = NoDump \/ info'[d].life > 0
  OBVIOUS
<1> HIDE DEF Past, Now
<1>4. /\ obj'.tar \in Now /\ dir'.manifest \in Now /\ tarball' \in Now /\ upl'.snap.tar \in Now
      /\ cache'["manager"].tar \in Now /\ cache'["agent"].tar \in Now
  BY <1>1, <1>2 DEF ObjectFrom, WorkFrom, StoreFrom, Processes
<1>5. OfPod(call.tar)' /\ OfPod(ckpt.dump)'
  <2>1. call'.tar \in Now \/ OfPod(call.tar)'
    BY <1>1, <1>2 DEF WorkFrom
  <2>2. ckpt'.dump \in Now \/ OfPod(ckpt.dump)'
    BY <1>1, <1>2 DEF WorkFrom
  <2>3. QED
    BY <1>3, <2>1, <2>2 DEF OfPod
<1>6. (\A c \in Copies : Exists(c) => c.life > 0)'
  BY DEF OriginInv, Copies, ObjectFrom, Processes
<1>7. (\A c \in Copies : OfPod(c.tar))'
  BY <1>3, <1>4 DEF Copies, OfPod
<1>8. (OfPod(dir.manifest) /\ OfPod(tarball) /\ OfPod(upl.snap.tar))'
  BY <1>3, <1>4 DEF OfPod
<1>9. /\ (call.pc # "idle" => call.pod.life > 0)' /\ (ckpt.pc = "clearing" => ckpt.pod.life > 0)'
      /\ (upl.pc # "idle" => Exists(upl.snap))'
  BY DEF WorkFrom, Exists
<1>10. QED
  BY <1>5, <1>6, <1>7, <1>8, <1>9 DEF OriginInv

\* Steps that leave one of the three alone.
LEMMA ObjectSame ==
    ASSUME OriginInv, UNCHANGED obj, \A p \in Processes : cache'[p] \in {cache[p], obj}
    PROVE  ObjectFrom
  BY DEF OriginInv, ObjectFrom, Copies, Exists

LEMMA WorkSame ==
    ASSUME OriginInv, UNCHANGED info, call' = call \/ call' = NoCall,
           ckpt' = ckpt \/ (ckpt'.pc # "clearing" /\ ckpt'.dump \in {ckpt.dump, NoDump}),
           upl' = upl \/ upl' = NoUpl
    PROVE  WorkFrom
<1>1. /\ NoCall.pc = "idle" /\ NoCall.tar = NoDump /\ NoUpl.snap.tar = NoDump /\ NoUpl.pc = "idle"
  BY DEF NoCall, NoUpl, Absent
<1>2. QED
  BY <1>1 DEF OriginInv, WorkFrom

\* A write of a copy, or over one, of an object that exists.
LEMMA WriteOrigin ==
    ASSUME OriginInv, NEW c, NEW new, Write(c, new), Exists(new) => Exists(c),
           new.life = c.life, new.tar \in {c.tar, call.tar, NoDump}
    PROVE  ObjectFrom
  BY DEF Write, Current, OriginInv, ObjectFrom, Copies, Exists

\* What most writes are.
LEMMA PhaseOrigin ==
    ASSUME OriginInv, NEW c \in ObjType, Exists(c), NEW phase, NEW msg, Write(c, Phase(c, phase, msg))
    PROVE  ObjectFrom
<1>1. Phase(c, phase, msg).life = c.life /\ Phase(c, phase, msg).tar = c.tar
  BY DEF Phase, ObjType
<1>2. QED
  BY <1>1, WriteOrigin
\* The manager writes over the copy it read, and the goroutine the tar it was
\* answered with; a dump of the kubelet is of the pod the call was made for.
LEMMA ManagerOrigin ==
    ASSUME TypeOK, OriginInv, ManagerNext
    PROVE  ObjectFrom /\ WorkFrom /\ StoreFrom
<1> DEFINE c == cache["manager"]
<1>1. c \in ObjType /\ \A p \in Processes : cache[p] \in {cache[p], obj}
  BY DEF TypeOK, CopyType, Processes
<1>2. UNCHANGED <<dir, tarball>> => StoreFrom
  BY DEF StoreFrom
<1>3. UNCHANGED <<call, ckpt, upl, info>> => WorkFrom
  BY WorkSame
<1>4. ASSUME NEW new, ManagerWrites(c, new), ObjectFrom
      PROVE  ObjectFrom /\ WorkFrom /\ StoreFrom
  BY <1>2, <1>3, <1>4 DEF ManagerWrites, storeVars, mgrVars, agtVars
<1>5. ASSUME NEW phase, NEW msg, ManagerWrites(c, Phase(c, phase, msg)), Live(c)
      PROVE  ObjectFrom /\ WorkFrom /\ StoreFrom
  BY <1>1, <1>4, <1>5, PhaseOrigin DEF ManagerWrites, Live
<1>6. CASE AddFinalizer(c)
  <2> DEFINE new == [c EXCEPT !.finalizer = TRUE]
  <2>1. new.life = c.life /\ new.tar = c.tar
    BY <1>1 DEF ObjType
  <2>2. ManagerWrites(c, new) /\ Exists(c)
    BY <1>6 DEF AddFinalizer, Live
  <2> HIDE DEF new
  <2>3. QED
    BY <1>4, <2>1, <2>2, WriteOrigin DEF ManagerWrites
<1>7. CASE AcceptNew(c) \/ PendingWaits(c) \/ PendingFails(c) \/ QuiesceTimesOut(c)
           \/ LeaveToAgent(c) \/ NodeHasNoAddress(c)
  BY <1>5, <1>7 DEF AcceptNew, PendingWaits, PendingFails, QuiesceTimesOut, LeaveToAgent,
                    NodeHasNoAddress, FallsBack, Reconciling
<1>8. CASE PendingProceeds(c)
  <2> DEFINE next == IF c.spec.quiesce THEN "Quiescing" ELSE "Checkpointing"
             base == Phase(c, next, "none")
             new  == [base EXCEPT !.artifact = TRUE]
  <2>1. next \in Phases /\ "none" \in Messages
    BY DEF Phases, Messages
  <2>2. base \in ObjType /\ base.life = c.life /\ base.tar = c.tar
    <3> HIDE DEF next
    <3>1. QED
      BY <1>1, <2>1, PhaseTypeOK DEF Phase, ObjType
  <2>3. new.life = c.life /\ new.tar = c.tar
    <3> HIDE DEF base
    <3>1. QED
      BY <2>2 DEF ObjType
  <2>4. ManagerWrites(c, new) /\ Exists(c)
    BY <1>8 DEF PendingProceeds, Reconciling, Live
  <2> HIDE DEF new
  <2>5. QED
    BY <1>4, <2>3, <2>4, WriteOrigin DEF ManagerWrites
<1>9. CASE StartKubeletCall(c)
  <2>1. Exists(c) /\ NotesFallback(c) /\ UNCHANGED <<dir, tarball, info, ckpt, upl>>
    BY <1>9 DEF StartKubeletCall, FallsBack, Reconciling, Live, storeVars, agtVars
  <2>2. ObjectFrom
    <3>1. CASE Write(c, Phase(c, "Checkpointing", "fallback"))
      BY <1>1, <2>1, <3>1, PhaseOrigin
    <3>2. CASE UNCHANGED apiVars
      BY <3>2, ObjectSame DEF apiVars
    <3>3. QED
      BY <2>1, <3>1, <3>2 DEF NotesFallback
  <2>3. call' = [pc |-> "calling", pod |-> PodOf(c), tar |-> NoDump] => WorkFrom
    <3>1. PodOf(c).life > 0
      BY <2>1 DEF PodOf, OriginInv, Copies
    <3>2. QED
      BY <2>1, <3>1 DEF OriginInv, WorkFrom
  <2>4. WorkFrom
    BY <1>3, <1>9, <2>1, <2>3 DEF StartKubeletCall
  <2>5. QED
    BY <1>2, <2>1, <2>2, <2>4
<1>10. CASE ManagerDeletes(c) \/ RemovesFiles
  <2>1. UNCHANGED <<obj, cache, call, ckpt, upl, info>>
    BY <1>1, <1>10, ManagerDeletesEffect DEF apiVars, agtVars
  <2>2. StoreFrom
    BY <1>1, <1>10, ManagerDeletesEffect DEF StoreFrom
  <2>3. QED
    BY <1>3, <2>1, <2>2, ObjectSame
<1>11. CASE DropFinalizer
  <2>1. UNCHANGED <<dir, tarball, info, call, ckpt, upl>>
    BY <1>11 DEF DropFinalizer, storeVars, agtVars
  <2>2. ObjectFrom
    <3>1. CASE Write(del.snap, Absent(del.snap.life))
      BY <3>1, WriteOrigin DEF Absent, Exists
    <3>2. CASE UNCHANGED apiVars
      BY <3>2, ObjectSame DEF apiVars
    <3>3. QED
      BY <1>11, <3>1, <3>2 DEF DropFinalizer
  <2>3. QED
    BY <1>2, <1>3, <2>1, <2>2
<1>12. CASE KubeletFails \/ CallContextExpires
  <2>1. UNCHANGED <<obj, cache, dir, tarball, info, ckpt, upl>>
    BY <1>12 DEF KubeletFails, CallContextExpires, apiVars, storeVars, agtVars
  <2>2. CASE KubeletFails
    <3>1. call.pc # "idle" /\ call'.pod = call.pod /\ call'.tar = call.tar
      BY <2>2 DEF KubeletFails, TypeOK, CallType
    <3>2. WorkFrom
      BY <2>1, <3>1 DEF OriginInv, WorkFrom
    <3>3. QED
      BY <1>2, <2>1, <3>2, ObjectSame
  <2>3. CASE CallContextExpires
    BY <1>2, <2>1, <2>3, ObjectSame, WorkSame DEF CallContextExpires
  <2>4. QED
    BY <1>12, <2>2, <2>3
<1>13. ASSUME NEW d \in Dump, KubeletCheckpoints(d)
       PROVE  ObjectFrom /\ WorkFrom /\ StoreFrom
  <2>1. /\ UNCHANGED <<obj, cache, dir, tarball, ckpt, upl>>
        /\ call.pod.life > 0 /\ info' = Taken(d, call.pod)
    BY <1>13 DEF KubeletCheckpoints, apiVars, agtVars, OriginInv
  <2>2. call'.pod = call.pod /\ call'.tar \in {d, NoDump}
    <3>1. PICK tar \in {d, NoDump} : call' = [call EXCEPT !.pc = "answered", !.tar = tar]
      BY <1>13 DEF KubeletCheckpoints
    <3>2. QED
      BY <3>1 DEF TypeOK, CallType
  <2>3. info'[d].life > 0
    BY <2>1 DEF Taken, TypeOK
  <2>4. WorkFrom
    BY <2>1, <2>2, <2>3 DEF OriginInv, WorkFrom, OfPod
  <2>5. QED
    BY <1>2, <2>1, <2>4, ObjectSame
<1>14. CASE RecordCall(c)
  <2>1. UNCHANGED <<dir, tarball, info, ckpt, upl>> /\ call' = NoCall
    BY <1>14 DEF RecordCall, storeVars, agtVars
  <2>2. ObjectFrom
    <3>1. CASE c.phase = "Checkpointing" /\ Write(c, CallResult(c))
      <4>1. CallResult(c).life = c.life /\ CallResult(c).tar \in {c.tar, call.tar}
        BY <1>1 DEF CallResult, Phase, ObjType
      <4>2. QED
        BY <3>1, <4>1, WriteOrigin DEF Exists
    <3>2. CASE UNCHANGED apiVars
      BY <3>2, ObjectSame DEF apiVars
    <3>3. QED
      BY <1>14, <3>1, <3>2 DEF RecordCall
  <2>3. QED
    BY <1>2, <2>1, <2>2, WorkSame
<1>15. CASE ManagerRestarts
  <2>1. /\ UNCHANGED <<obj, dir, tarball, info, ckpt, upl>> /\ call' = NoCall
        /\ \A p \in Processes : cache'[p] \in {cache[p], obj}
    BY <1>15 DEF ManagerRestarts, storeVars, agtVars, TypeOK, CopyType
  <2>2. QED
    BY <1>2, <2>1, ObjectSame, WorkSame
<1>16. QED
  BY <1>6, <1>7, <1>8, <1>9, <1>10, <1>11, <1>12, <1>13, <1>14, <1>15
  DEF ManagerNext, ManagerReconciles, KubeletAnswers
\* The checkpoint worker dumps the pod it resolved for an object that exists.
LEMMA CkptOrigin ==
    ASSUME TypeOK, OriginInv, NEW c \in Copies, c \in ObjType, CkptReconciles(c)
    PROVE  ObjectFrom /\ WorkFrom /\ StoreFrom
<1>1. UNCHANGED <<call, upl>>
  BY DEF CkptReconciles, CkptRefuses, CkptFindsManifest, CkptRetries, CkptResolves,
         CkptCannotStart, CkptStartsDump, CkptDumps, CkptDumpFails, CkptPublishes,
         CkptPublishFails, CkptReports, CkptGoes, mgrVars
<1>2. /\ UNCHANGED <<obj, cache>> => ObjectFrom
      /\ UNCHANGED <<dir, tarball>> => StoreFrom
  BY ObjectSame DEF StoreFrom
<1>3. ASSUME UNCHANGED info, ckpt'.pc # "clearing", ckpt'.dump \in {ckpt.dump, NoDump}
      PROVE  WorkFrom
  BY <1>1, <1>3, WorkSame
<1>4. \A msg : CkptFailure(msg).pc = "failing" /\ CkptFailure(msg).dump = NoDump
  BY DEF CkptFailure, NoCkpt
<1>5. CASE CkptRefuses(c) \/ CkptRetries(c) \/ CkptCannotStart \/ CkptDumpFails
  <2>1. /\ ckpt'.pc \in {"failing", "retrying"} /\ ckpt'.dump = NoDump
        /\ UNCHANGED <<obj, cache, dir, tarball, info>>
    BY <1>4, <1>5 DEF CkptRefuses, CkptRetries, CkptCannotStart, CkptDumpFails, CkptGoes, NoCkpt,
                      apiVars, storeVars
  <2>2. QED
    BY <1>2, <1>3, <2>1
<1>6. CASE CkptFindsManifest(c)
  <2>1. /\ ckpt'.pc = "completing" /\ ckpt'.dump = dir.manifest
        /\ UNCHANGED <<obj, cache, dir, tarball, info>>
    BY <1>6 DEF CkptFindsManifest, CkptGoes, NoCkpt, apiVars, storeVars
  <2>2. WorkFrom
    BY <1>1, <2>1 DEF OriginInv, WorkFrom
  <2>3. QED
    BY <1>2, <2>1, <2>2
<1>7. CASE CkptResolves(c)
  <2>1. /\ ckpt'.pod = PodOf(c) /\ ckpt'.dump = NoDump /\ Exists(c)
        /\ UNCHANGED <<obj, cache, dir, tarball, info>>
    BY <1>7 DEF CkptResolves, Dumpable, Owns, Exists, CkptGoes, NoCkpt, apiVars, storeVars
  <2>2. ckpt'.pod.life > 0
    BY <2>1 DEF PodOf, OriginInv
  <2>3. WorkFrom
    BY <1>1, <2>1, <2>2 DEF OriginInv, WorkFrom
  <2>4. QED
    BY <1>2, <2>1, <2>3
<1>8. ASSUME NEW d \in Dump, CkptStartsDump(d)
      PROVE  ObjectFrom /\ WorkFrom /\ StoreFrom
  <2>1. /\ UNCHANGED <<obj, cache, tarball>> /\ info' = Taken(d, ckpt.pod)
        /\ ckpt.pod.life > 0 /\ dir'.manifest = NoDump
        /\ ckpt' = [ckpt EXCEPT !.pc = "dumping", !.dump = d]
    BY <1>8 DEF CkptStartsDump, CkptGoes, EmptyDir, apiVars, OriginInv
  <2>2. ckpt'.pc = "dumping" /\ ckpt'.dump = d
    BY <2>1 DEF TypeOK, CkptType
  <2>3. info'[d].life > 0
    BY <2>1 DEF Taken, TypeOK
  <2>4. WorkFrom
    BY <1>1, <2>1, <2>2, <2>3 DEF OriginInv, WorkFrom, OfPod
  <2>5. StoreFrom
    BY <2>1 DEF StoreFrom
  <2>6. QED
    BY <1>2, <2>1, <2>4, <2>5
<1>9. CASE CkptDumps
  <2>1. /\ UNCHANGED <<obj, cache, tarball, info>>
        /\ ckpt' = [ckpt EXCEPT !.pc = "publishing"]
        /\ dir' = Finished(ckpt.dump) \/ dir' = dir
    BY <1>9 DEF CkptDumps, apiVars
  <2>2. ckpt'.pc = "publishing" /\ ckpt'.dump = ckpt.dump /\ dir'.manifest = dir.manifest
    BY <2>1, FinishedTypeOK DEF TypeOK, CkptType
  <2>3. QED
    BY <1>2, <1>3, <2>1, <2>2 DEF StoreFrom
<1>10. CASE CkptPublishes \/ CkptPublishFails
  <2>1. /\ UNCHANGED <<obj, cache, tarball, info>>
        /\ \E m \in {NoDump, ckpt.dump} : dir' = [dir EXCEPT !.manifest = m]
        /\ ckpt' = [ckpt EXCEPT !.pc = "completing"] \/ ckpt' = CkptFailure("error")
    BY <1>10 DEF CkptPublishes, CkptPublishFails, CkptGoes, apiVars
  <2>2. dir'.manifest \in {NoDump, ckpt.dump}
    BY <2>1 DEF TypeOK, DirType
  <2>3. ckpt'.pc # "clearing" /\ ckpt'.dump \in {ckpt.dump, NoDump}
    BY <1>4, <2>1 DEF TypeOK, CkptType
  <2>4. QED
    BY <1>2, <1>3, <2>1, <2>2, <2>3 DEF StoreFrom
<1>11. CASE CkptReports(c)
  <2>1. UNCHANGED <<dir, tarball, info>> /\ ckpt' = NoCkpt
    BY <1>11 DEF CkptReports, CkptGoes, storeVars
  <2>2. ObjectFrom
    <3>1. CASE Exists(c) /\ Write(c, CkptReport(c))
      <4>1. CkptReport(c).life = c.life /\ CkptReport(c).tar = c.tar
        <5>1. ckpt.pc \in {"completing", "failing", "retrying"}
          BY <1>11 DEF CkptReports
        <5>2. /\ Completed(c).life = c.life /\ Completed(c).tar = c.tar
              /\ Phase(c, "Failed", ckpt.msg).life = c.life
              /\ Phase(c, "Failed", ckpt.msg).tar = c.tar
              /\ [c EXCEPT !.msg = "resolving"].life = c.life
              /\ [c EXCEPT !.msg = "resolving"].tar = c.tar
          BY DEF Completed, Phase, ObjType
        <5>3. CkptReport(c) \in {Completed(c), Phase(c, "Failed", ckpt.msg),
                                 [c EXCEPT !.msg = "resolving"]}
          BY <5>1 DEF CkptReport
        <5>4. QED
          BY <5>2, <5>3
      <4>2. QED
        BY <3>1, <4>1, WriteOrigin
    <3>2. CASE UNCHANGED apiVars
      BY <1>2, <3>2 DEF apiVars
    <3>3. QED
      BY <1>11, <3>1, <3>2 DEF CkptReports
  <2>3. ckpt'.pc # "clearing" /\ ckpt'.dump = NoDump
    BY <2>1 DEF NoCkpt
  <2>4. QED
    BY <1>2, <1>3, <2>1, <2>2, <2>3
<1>12. QED
  BY <1>5, <1>6, <1>7, <1>8, <1>9, <1>10, <1>11 DEF CkptReconciles

\* The upload publishes the tar that the object it began with names.
LEMMA UplOrigin ==
    ASSUME TypeOK, OriginInv, UplReconciles(cache["agent"])
    PROVE  ObjectFrom /\ WorkFrom /\ StoreFrom
<1> DEFINE c == cache["agent"]
<1>1. c \in ObjType /\ upl.snap \in ObjType /\ upl \in UplType
  BY DEF TypeOK, CopyType, Processes, UplType
<1>2. /\ UNCHANGED <<obj, cache>> => ObjectFrom
      /\ UNCHANGED <<dir, tarball>> => StoreFrom
  BY ObjectSame DEF StoreFrom
<1>3. UNCHANGED <<call, ckpt, info>>
  BY DEF UplReconciles, UplClaims, UplRefuses, UplFindsNoTar, AgentWrites, UplStarts, UplPublishes,
         UplFails, UplRemovesTar, UplReports, UplGoes, storeVars, mgrVars, agtVars
<1>4. ASSUME upl' = NoUpl \/ (upl'.snap \in {upl.snap, c} /\ Exists(upl'.snap))
      PROVE  WorkFrom
  <2>1. NoUpl.snap.tar = NoDump /\ NoUpl.pc = "idle"
    BY DEF NoUpl, Absent
  <2>2. QED
    BY <1>3, <1>4, <2>1 DEF OriginInv, WorkFrom
<1>5. Published(upl.snap) => StoreFrom
  <2>1. [Finished(upl.snap.tar) EXCEPT !.manifest = upl.snap.tar].manifest = upl.snap.tar
    BY FinishedTypeOK DEF TypeOK, DirType
  <2>2. QED
    BY <2>1 DEF Published, StoreFrom
<1>6. CASE UplClaims(c) \/ UplRefuses(c) \/ UplFindsNoTar(c)
  <2>1. PICK phase, msg : AgentWrites(c, Phase(c, phase, msg)) /\ Exists(c)
    BY <1>6 DEF UplClaims, UplRefuses, UplFindsNoTar, Exists
  <2>2. UNCHANGED <<dir, tarball, upl>> /\ Write(c, Phase(c, phase, msg))
    BY <2>1 DEF AgentWrites, storeVars, agtVars
  <2>3. QED
    BY <1>1, <1>2, <1>3, <2>1, <2>2, PhaseOrigin, WorkSame
<1>7. CASE UplStarts(c)
  <2>1. /\ UNCHANGED <<obj, cache, tarball>> /\ dir'.manifest \in {dir.manifest, NoDump}
        /\ upl' = [pc |-> "expanding", snap |-> c] /\ c.phase = "Uploading"
    BY <1>7 DEF UplStarts, UplGoes, apiVars
  <2>2. upl'.snap = c /\ Exists(c)
    BY <2>1 DEF Exists
  <2>3. QED
    BY <1>2, <1>4, <2>1, <2>2 DEF StoreFrom
<1>8. CASE UplPublishes \/ UplRemovesTar
  <2>1. UNCHANGED <<obj, cache>> /\ (Published(upl.snap) \/ UNCHANGED <<dir, tarball>>)
    BY <1>8 DEF UplPublishes, UplRemovesTar, apiVars
  <2>2. upl'.snap = upl.snap /\ Exists(upl.snap)
    BY <1>1, <1>8 DEF UplPublishes, UplRemovesTar, UplGoes, UplType, OriginInv
  <2>3. QED
    BY <1>2, <1>4, <1>5, <2>1, <2>2
<1>9. CASE UplFails \/ UplReports
  <2>1. upl' = NoUpl /\ (Published(upl.snap) \/ UNCHANGED <<dir, tarball>>)
    BY <1>9 DEF UplFails, UplReports, UplGoes, storeVars
  <2>2. ObjectFrom
    <3> DEFINE k == upl.snap
               tried == [k EXCEPT !.msg = "retrying"]
    <3>1. CASE UNCHANGED apiVars
      BY <1>2, <3>1 DEF apiVars
    <3>2. /\ tried.life = k.life /\ tried.tar = k.tar /\ tried.phase = k.phase
          /\ Completed(k).life = k.life /\ Completed(k).tar = k.tar
      BY <1>1 DEF Completed, Phase, ObjType
    <3>3. CASE UplFails /\ Write(k, tried)
      <4> HIDE DEF tried
      <4>1. QED
        BY <3>2, <3>3, WriteOrigin DEF Exists
    <3>4. CASE UplReports /\ Write(k, Completed(k))
      BY <3>2, <3>4, WriteOrigin DEF UplReports, OriginInv
    <3>5. QED
      BY <1>9, <3>1, <3>3, <3>4 DEF UplFails, UplReports
  <2>3. QED
    BY <1>2, <1>4, <1>5, <2>1, <2>2
<1>10. QED
  BY <1>6, <1>7, <1>8, <1>9 DEF UplReconciles
\* Quiesce, the reconcilers, and the agent's own life.
LEMMA AgentOrigin ==
    ASSUME TypeOK, OriginInv, AgentNext
    PROVE  ObjectFrom /\ WorkFrom /\ StoreFrom
<1> DEFINE c == cache["agent"]
<1>1. c \in ObjType /\ c \in Copies
  BY DEF TypeOK, CopyType, Processes, Copies
<1>2. UNCHANGED <<dir, tarball>> => StoreFrom
  BY DEF StoreFrom
<1>3. CASE QuiesceSeen(c)
  <2>1. Write(c, Phase(c, "Checkpointing", "none")) /\ Exists(c)
        /\ UNCHANGED <<call, ckpt, upl, info, dir, tarball>>
    BY <1>3 DEF QuiesceSeen, AgentWrites, Exists, storeVars, mgrVars, agtVars
  <2>2. QED
    BY <1>1, <1>2, <2>1, PhaseOrigin, WorkSame
<1>4. CASE AgentAdvertises
  BY <1>2, <1>4, ObjectSame, WorkSame DEF AgentAdvertises, apiVars, storeVars, mgrVars, agtVars
<1>5. CASE AgentRestarts
  <2>1. /\ UNCHANGED <<obj, call, info, dir, tarball>> /\ upl' = NoUpl
        /\ ckpt'.pc # "clearing" /\ ckpt'.dump = NoDump
        /\ \A p \in Processes : cache'[p] \in {cache[p], obj}
    BY <1>5 DEF AgentRestarts, NoCkpt, storeVars, mgrVars, TypeOK, CopyType
  <2>2. QED
    BY <1>2, <2>1, ObjectSame, WorkSame
<1>6. QED
  BY <1>1, <1>3, <1>4, <1>5, CkptOrigin, UplOrigin DEF AgentNext

\* The environment names no dump.
LEMMA EnvironmentOrigin ==
    ASSUME TypeOK, OriginInv, UserNext \/ WorldNext \/ \E p \in Processes : Informed(p)
    PROVE  ObjectFrom /\ WorkFrom /\ StoreFrom
<1>1. UNCHANGED <<dir, tarball, info, call, ckpt, upl>>
  BY DEF UserNext, Create, Delete, WorldNext, PodStarts, PodDies, PodMoves, ShimParks,
         DeadlinePasses, Informed, worldVars, storeVars, mgrVars, agtVars
<1>2. ASSUME NEW s \in Specs, Create(s) PROVE ObjectFrom
  <2>1. obj'.life = obj.life + 1 /\ obj'.tar = NoDump /\ obj.life \in Nat /\ UNCHANGED cache
    BY <1>2 DEF Create, Absent, TypeOK, ObjType
  <2>2. QED
    BY <2>1 DEF ObjectFrom
<1>3. ASSUME Delete PROVE ObjectFrom
  <2>1. (\A p \in Processes : cache'[p] \in {cache[p], obj}) /\ obj.life > 0
    BY <1>3 DEF Delete, Live, OriginInv, Copies
  <2>2. CASE obj' = Absent(obj.life)
    <3>1. ~Exists(obj') /\ obj'.tar = NoDump
      BY <2>2 DEF Absent, Exists
    <3>2. QED
      BY <2>1, <3>1 DEF ObjectFrom
  <2>3. CASE obj' = [obj EXCEPT !.deleting = TRUE]
    <3>1. obj'.life = obj.life /\ obj'.tar = obj.tar
      BY <2>3 DEF TypeOK, ObjType
    <3>2. QED
      BY <2>1, <3>1 DEF ObjectFrom
  <2>4. QED
    BY <1>3, <2>2, <2>3 DEF Delete
<1>4. ASSUME WorldNext PROVE ObjectFrom
  <2>1. UNCHANGED <<obj, cache>>
    BY <1>4 DEF WorldNext, PodStarts, PodDies, PodMoves, ShimParks, DeadlinePasses, apiVars
  <2>2. QED
    BY <2>1, ObjectSame
<1>5. ASSUME NEW p \in Processes, Informed(p) PROVE ObjectFrom
  <2>1. UNCHANGED obj /\ \A q \in Processes : cache'[q] \in {cache[q], obj}
    BY <1>5 DEF Informed, TypeOK, CopyType
  <2>2. QED
    BY <2>1, ObjectSame
<1>6. WorkFrom /\ StoreFrom
  BY <1>1, WorkSame DEF StoreFrom
<1>7. QED
  BY <1>2, <1>3, <1>4, <1>5, <1>6 DEF UserNext

\* Nothing names a dump before the first object.
LEMMA InitOrigin == Init => OriginInv
<1>1. ASSUME Init PROVE OriginInv
  <2>1. \A c \in Copies : ~Exists(c) /\ c.tar = NoDump
    BY <1>1 DEF Init, Copies, Processes, Absent, Exists
  <2>2. call.pc = "idle" /\ ckpt.pc = "idle" /\ upl.pc = "idle"
        /\ call.tar = NoDump /\ ckpt.dump = NoDump /\ upl.snap.tar = NoDump
        /\ dir.manifest = NoDump /\ tarball = NoDump
    BY <1>1 DEF Init, NoCall, NoCkpt, NoUpl, EmptyDir, Absent
  <2>3. QED
    BY <2>1, <2>2 DEF OriginInv, OfPod
<1>2. QED
  BY <1>1

\* On either path, however often the name is used: every dump that is named in
\* a status, published, or about to be, was taken of the pod of an object of
\* the name (podsnapshot_controller.go reconcileCheckpointing,
\* checkpoint_controller.go checkpoint, upload_controller.go upload).
THEOREM DumpsOfPods == Spec => []OriginInv
<1>1. Init => OriginInv
  BY InitOrigin
<1>2. TypeOK /\ OriginInv /\ [Next]_vars => OriginInv'
  <2>1. ASSUME TypeOK, OriginInv, Next PROVE OriginInv'
    BY <2>1, ManagerOrigin, AgentOrigin, EnvironmentOrigin, OriginKept DEF Next
  <2>2. ASSUME TypeOK, OriginInv, UNCHANGED vars PROVE OriginInv'
    BY <2>2 DEF OriginInv, OfPod, Copies, Exists, vars
  <2>3. QED
    BY <2>1, <2>2
<1>3. QED
  BY <1>1, <1>2, TypeCorrect, PTL DEF Spec

=============================================================================
