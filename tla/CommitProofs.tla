---------------------------- MODULE CommitProofs ----------------------------
(***************************************************************************)
(* Theorems about what Snapshot leaves at an artifact's URI while          *)
(* deletions remove it file by file: whose images a deletion tears, on     *)
(* either path; then what is committed when every user asks for the        *)
(* kubelet, so that the upload is the only publisher; then when            *)
(* directories are asked of the agent, so that its checkpointer is.        *)
(***************************************************************************)
EXTENDS LifecycleProofs

\* What the checkpoint worker does when it has no directory to fill.
Fruitless == {"idle", "failing", "retrying"}

Filling == {"clearing", "dumping", "publishing"}

\* The phases of an object no checkpointer is at work for.
Settled == {"New"} \cup Terminal

-----------------------------------------------------------------------------
(* What a step does, by its effect: to the object, ...                     *)
Amends(c, new) ==
    /\ Exists(c) /\ Exists(new)
    /\ new.life = c.life /\ new.spec = c.spec
    /\ c.deleting => new.deleting
    /\ new.finalizer => c.finalizer \/ c.spec.delete
    /\ new.phase = "Checkpointed" => c.phase = "Checkpointed" \/ call.pc = "answered"
    /\ new.phase = "Uploading" => c.phase \in {"Checkpointed", "Uploading"}
    /\ new.phase = "Completed" =>
        c.phase = "Completed" \/ ckpt.pc = "completing" \/ upl.pc = "reporting"
    /\ new.phase \notin Settled =>
        c.phase \notin Settled \/ (c = byManager /\ del.pc = "idle")
    /\ \/ new.tar = c.tar
       \/ new.tar = call.tar /\ c.phase = "Checkpointing" /\ call'.tar = NoDump

Objects ==
    \/ obj' = obj
    \/ Amends(obj, obj')
    \/ obj' = Absent(obj.life)
    \/ \E s \in Specs : Create(s)

(* ... to the workers, ...                                                 *)
Filled == upl.pc = "expanding" /\ upl.snap.spec.dir

Works ==
    /\ node.advertises => node'.advertises
    /\ call'.pc # "idle" => call.pc # "idle" \/ FallsBack(byManager)
    /\ ckpt'.pc # "idle" => ckpt.pc # "idle" \/ Exists(byAgent)
    /\ ckpt'.pc \notin Fruitless =>
        ckpt.pc \notin Fruitless \/ (Exists(byAgent) /\ byAgent.spec.dir)
    /\ upl'.pc # "idle" =>
        \/ upl.pc # "idle" /\ upl'.snap = upl.snap
        \/ upl'.snap = byAgent /\ byAgent.phase = "Uploading" /\ byAgent.tar \in Dump
    /\ dir'.manifest # NoDump =>
        dir.manifest # NoDump \/ ckpt.pc = "publishing" \/ Filled
    /\ del'.pc # "idle" => del.pc # "idle" \/ Deleting(byManager)

(* ... to the directory, from which a deletion takes the MANIFEST and the  *)
(* images, but none of them unnoticed, ...                                 *)
Withdraws ==
    /\ dir'.manifest \in {dir.manifest, NoDump}
    /\ dir'.manifest # dir.manifest => del.pc = "listed"
    /\ dir.whole \cup dir.torn \subseteq dir'.whole \cup dir'.torn
    /\ dir'.whole \subseteq dir.whole
    /\ Images' \subseteq Images
    /\ dir.part \ {del.dump} \subseteq dir'.part
    /\ Filled /\ upl.snap.tar \in dir.part => upl.snap.tar \in dir'.part
    /\ dir'.torn \subseteq dir.torn \/ (del.pc = "removing" /\ dir'.torn \subseteq dir.torn \cup Images)

Dumps ==
    \/ UNCHANGED dir /\ (ckpt' = ckpt \/ ckpt'.pc \notin Filling)
    \/ UNCHANGED dir /\ ckpt'.pc = "clearing" /\ dir.manifest = NoDump
    \/ UNCHANGED ckpt /\ Withdraws
    \/ \E d \in Dump : CkptStartsDump(d)
    \/ CkptDumps \/ CkptPublishes \/ CkptPublishFails
    \/ Filled \/ (byAgent.phase = "Uploading" /\ byAgent.spec.dir)

(* ... and to what is owed to a completed object.                          *)
Owes ==
    /\ ckpt'.pc = "completing" =>
        \/ ckpt' = ckpt
        \/ UNCHANGED dir /\ dir.manifest # NoDump
        \/ CkptPublishes
    /\ upl'.pc \in {"removing", "reporting"} =>
        \/ upl.pc \in {"removing", "reporting"} 
        \/ upl.pc = "expanding" /\ Published(upl.snap)
    /\ tarball' # tarball =>
        Deleting(byManager) \/ (upl.pc = "expanding" /\ tarball' = upl.snap.tar)

Effects == Objects /\ Informs /\ Works /\ Dumps /\ Owes

-----------------------------------------------------------------------------
\* A write from a current copy amends the object.
LEMMA WriteAmends ==
    ASSUME NEW c, NEW new, Write(c, new), Amends(c, new)
    PROVE  Objects /\ Informs
BY DEF Write, Current, Objects, Informs

\* Most writes set a phase that is nobody's to hand on.
LEMMA PhaseAmends ==
    ASSUME NEW c \in ObjType, Exists(c), NEW msg \in Messages,
           NEW phase \in {"Pending", "Quiescing", "Checkpointing", "Failed"},
           phase = "Failed" \/ c.phase \notin Settled \/ (c = byManager /\ del.pc = "idle")
    PROVE  Amends(c, Phase(c, phase, msg))
<1> DEFINE new == Phase(c, phase, msg)
<1>1. /\ new.phase = phase /\ new.life = c.life /\ new.spec = c.spec
      /\ new.deleting = c.deleting /\ new.finalizer = c.finalizer /\ new.tar = c.tar
    BY DEF Phase, ObjType
<1> HIDE DEF new
<1>2. Amends(c, new)
    BY <1>1 DEF Amends, Exists, Settled, Terminal
<1> QED BY <1>2 DEF new

\* A step that does no more than write, inform, or end what a worker did.
LEMMA QuietEffects ==
    ASSUME TypeOK, Objects, Informs, UNCHANGED <<dir, tarball>>, node.advertises => node'.advertises,
           call'.pc # "idle" => call.pc # "idle" \/ FallsBack(byManager),
           ckpt' = ckpt \/ ckpt'.pc = "idle", upl' = upl \/ upl'.pc = "idle",
           del' = del \/ del'.pc = "idle"
    PROVE  Effects
<1>1. Works
    BY DEF Works, Fruitless
<1>2. Dumps
    BY DEF Dumps, Filling
<1>3. Owes
    BY DEF Owes
<1> QED BY <1>1, <1>2, <1>3 DEF Effects

\* Every branch of the manager's Reconcile of a live object.
LEMMA ManagerReconcilesEffects ==
    ASSUME TypeOK, ManagerReconciles(byManager)
    PROVE  Effects
<1> DEFINE c == byManager
<1>1. c \in ObjType
    BY DEF TypeOK, CopyType, Processes, byManager
<1>2. ASSUME NEW new, ManagerWrites(c, new), Amends(c, new)
      PROVE  Effects
    BY <1>2, WriteAmends, QuietEffects DEF ManagerWrites, worldVars, storeVars, mgrVars, agtVars
<1>3. ASSUME NEW phase \in {"Pending", "Quiescing", "Checkpointing", "Failed"}, NEW msg \in Messages,
             ManagerWrites(c, Phase(c, phase, msg)), Live(c), del.pc = "idle"
      PROVE  Effects
    BY <1>1, <1>2, <1>3, PhaseAmends DEF Live
<1>4. CASE AddFinalizer(c)
    <2> DEFINE new == [c EXCEPT !.finalizer = TRUE]
    <2>1. /\ new.phase = c.phase /\ new.life = c.life /\ new.spec = c.spec
          /\ new.deleting = c.deleting /\ new.tar = c.tar
        BY <1>1 DEF ObjType
    <2>2. ManagerWrites(c, new) /\ Exists(c) /\ c.spec.delete
        BY <1>4 DEF AddFinalizer, Live
    <2> HIDE DEF new
    <2>3. Amends(c, new)
        BY <2>1, <2>2 DEF Amends, Exists
    <2> QED BY <1>2, <2>2, <2>3
<1>5. CASE AcceptNew(c)
    BY <1>3, <1>5, PhasesTypeOK DEF AcceptNew, Reconciling
<1>6. CASE PendingWaits(c)
    BY <1>3, <1>6, PhasesTypeOK DEF PendingWaits, Reconciling
<1>7. CASE PendingFails(c)
    BY <1>3, <1>7, PhasesTypeOK DEF PendingFails, Reconciling
<1>8. CASE PendingProceeds(c)
    <2> DEFINE next == IF c.spec.quiesce THEN "Quiescing" ELSE "Checkpointing"
               base == Phase(c, next, "none")
               new  == [base EXCEPT !.artifact = TRUE]
    <2>1. ManagerWrites(c, new) /\ Exists(c) /\ del.pc = "idle"
        BY <1>8 DEF PendingProceeds, Reconciling, Live
    <2>2. next \in {"Quiescing", "Checkpointing"} /\ next \in Phases /\ "none" \in Messages
        BY PhasesTypeOK
    <2>3. Amends(c, base) /\ base \in ObjType
        <3> HIDE DEF next
        <3> QED BY <1>1, <2>1, <2>2, PhaseAmends, PhaseTypeOK
    <2>4. Amends(c, new)
        <3>1. /\ new.phase = base.phase /\ new.life = base.life /\ new.spec = base.spec
              /\ new.deleting = base.deleting /\ new.finalizer = base.finalizer
              /\ new.tar = base.tar
            <4> HIDE DEF base
            <4> QED BY <2>3 DEF ObjType
        <3> HIDE DEF base, new
        <3> QED BY <2>3, <3>1 DEF Amends, Exists
    <2> HIDE DEF new
    <2> QED BY <1>2, <2>1, <2>4
<1>9. CASE QuiesceTimesOut(c)
    BY <1>3, <1>9, PhasesTypeOK DEF QuiesceTimesOut, Reconciling
<1>10. CASE LeaveToAgent(c)
    BY <1>3, <1>10, PhasesTypeOK DEF LeaveToAgent, Reconciling
<1>11. CASE NodeHasNoAddress(c)
    BY <1>3, <1>11, PhasesTypeOK DEF NodeHasNoAddress, FallsBack, Reconciling
<1>12. CASE StartKubeletCall(c)
    <2>1. FallsBack(c) /\ Exists(c) /\ NotesFallback(c) /\ del.pc = "idle"
          /\ UNCHANGED <<node, dir, tarball, ckpt, upl, del>>
        BY <1>12 DEF StartKubeletCall, FallsBack, Reconciling, Live, worldVars, storeVars, agtVars
    <2>2. Objects /\ Informs
        <3>1. CASE Write(c, Phase(c, "Checkpointing", "fallback"))
            <4>1. "fallback" \in Messages
                BY DEF Messages
            <4>2. Amends(c, Phase(c, "Checkpointing", "fallback"))
                BY <1>1, <2>1, <4>1, PhaseAmends
            <4> QED BY <3>1, <4>2, WriteAmends
        <3>2. CASE UNCHANGED apiVars
            BY <3>2 DEF apiVars, Objects, Informs
        <3> QED BY <2>1, <3>1, <3>2 DEF NotesFallback
    <2> QED BY <2>1, <2>2, QuietEffects
<1> QED
    BY <1>4, <1>5, <1>6, <1>7, <1>8, <1>9, <1>10, <1>11, <1>12 DEF ManagerReconciles

\* A step of reconcileDelete takes a MANIFEST only where it read one, and what
\* it takes of a whole dump it leaves torn.
LEMMA DeletionWithdraws ==
    ASSUME TypeOK, ManagerDeletes(byManager) \/ RemovesFiles
    PROVE  Withdraws
<1>1. dir \in DirType /\ NoDump \notin Dump
    BY NoDumpAssumption DEF TypeOK
<1>2. CASE UNCHANGED dir
    BY <1>2 DEF Withdraws, Images
<1>3. CASE Uncommits
    <2>1. /\ dir'.manifest = NoDump /\ dir'.whole = dir.whole /\ dir'.part = dir.part
          /\ dir'.torn = dir.torn /\ del.pc = "listed"
        BY <1>1, <1>3 DEF Uncommits, DirType
    <2> QED BY <2>1 DEF Withdraws, Images
<1>4. ASSUME NEW d \in Dump, RemovesFile(d) PROVE Withdraws
    <2>1. /\ dir'.manifest = dir.manifest /\ dir'.whole = dir.whole \ {d}
          /\ dir'.part = dir.part \cup {d} /\ dir'.torn = dir.torn \cup {d}
          /\ del.pc = "removing" /\ d \in Images
        BY <1>1, <1>4 DEF RemovesFile, DirType
    <2> QED BY <2>1 DEF Withdraws, Images
<1>5. CASE RemovesLast
    <2>1. PICK left \in SUBSET {del.dump} :
              /\ Filled => upl.snap.tar \notin {del.dump} \ left
              /\ dir' = [dir EXCEPT !.whole = @ \ {del.dump},
                                    !.part  = (@ \ {del.dump}) \cup (left \cap Images),
                                    !.torn  = @ \cup (dir.whole \cap {del.dump})]
        BY <1>5 DEF RemovesLast, Filled
    <2>2. /\ dir'.manifest = dir.manifest /\ dir'.whole = dir.whole \ {del.dump}
          /\ dir'.part = (dir.part \ {del.dump}) \cup (left \cap Images)
          /\ dir'.torn = dir.torn \cup (dir.whole \cap {del.dump})
          /\ del.pc = "removing"
        BY <1>1, <1>5, <2>1 DEF RemovesLast, DirType
    <2>3. Filled /\ upl.snap.tar \in dir.part => upl.snap.tar \in dir'.part
        BY <2>1, <2>2 DEF Images
    <2> QED BY <2>2, <2>3 DEF Withdraws, Images
<1> QED
    BY <1>2, <1>3, <1>4, <1>5
    DEF ManagerDeletes, DeletesTar, FindsNothing, ReadsManifest, RemovesFiles, DeleteStops

\* Beyond that it takes the tar, when it is the tar that was published.
LEMMA ManagerDeletesEffects ==
    ASSUME TypeOK, ManagerDeletes(byManager) \/ RemovesFiles
    PROVE  Effects
<1>1. byManager \in ObjType
    BY DEF TypeOK, CopyType, Processes, byManager
<1>2. UNCHANGED <<obj, cache, node, call, ckpt, upl>>
    BY <1>1, ManagerDeletesEffect DEF apiVars, worldVars, agtVars
<1>3. Objects /\ Informs
    BY <1>2 DEF Objects, Informs
<1>4. /\ tarball' # tarball => Deleting(byManager)
      /\ del'.pc # "idle" => del.pc # "idle" \/ Deleting(byManager)
    BY DEF ManagerDeletes, DeletesTar, FindsNothing, ReadsManifest, RemovesFiles, Uncommits,
           RemovesFile, RemovesLast, DeleteStops, DelGoes, NoDel
<1>5. Withdraws
    BY DeletionWithdraws
<1>6. Works
    BY <1>2, <1>4, <1>5 DEF Works, Withdraws
<1>7. Dumps
    BY <1>2, <1>5 DEF Dumps
<1>8. Owes
    BY <1>2, <1>4 DEF Owes
<1> QED BY <1>3, <1>6, <1>7, <1>8 DEF Effects

\* The goroutine's result, the released finalizer, the restart.
LEMMA ManagerEffects ==
    ASSUME TypeOK, ManagerNext
    PROVE  Effects
<1> DEFINE c == byManager
<1>1. c \in ObjType
    BY DEF TypeOK, CopyType, Processes, byManager
<1>2. CASE DropFinalizer
    <2>1. UNCHANGED <<node, dir, tarball, call, ckpt, upl>> /\ del'.pc = "idle"
        BY <1>2 DEF DropFinalizer, NoDel, worldVars, storeVars, agtVars
    <2>2. Objects /\ Informs
        BY <1>2 DEF DropFinalizer, Write, Current, apiVars, Objects, Informs
    <2> QED BY <2>1, <2>2, QuietEffects
<1>3. CASE KubeletAnswers \/ CallContextExpires
    <2>1. UNCHANGED <<obj, cache, node, dir, tarball, ckpt, upl, del>> /\ call.pc # "idle"
        BY <1>3 DEF KubeletAnswers, KubeletFails, KubeletCheckpoints, CallContextExpires, apiVars,
                    worldVars, storeVars, agtVars
    <2>2. Objects /\ Informs
        BY <2>1 DEF Objects, Informs
    <2> QED BY <2>1, <2>2, QuietEffects
<1>4. CASE RecordCall(c)
    <2>1. UNCHANGED <<node, dir, tarball, ckpt, upl, del>> /\ call.pc = "answered" /\ call' = NoCall
        BY <1>4 DEF RecordCall, worldVars, storeVars, agtVars
    <2>2. Objects /\ Informs
        <3>1. CASE c.phase = "Checkpointing" /\ Write(c, CallResult(c))
            <4>1. Amends(c, CallResult(c))
                <5> DEFINE done == Phase(c, "Checkpointed", "none")
                <5>1. CASE CallResult(c) = Phase(c, "Failed", "error")
                    BY <1>1, <3>1, <5>1, PhaseAmends, PhasesTypeOK DEF Exists
                <5>2. CASE CallResult(c) = [done EXCEPT !.tar = call.tar]
                    <6>1. /\ CallResult(c).phase = "Checkpointed" /\ CallResult(c).life = c.life
                          /\ CallResult(c).spec = c.spec /\ CallResult(c).deleting = c.deleting
                          /\ CallResult(c).finalizer = c.finalizer /\ CallResult(c).tar = call.tar
                        BY <1>1, <5>2 DEF Phase, ObjType
                    <6>2. c.phase \notin Settled /\ call'.tar = NoDump
                        BY <2>1, <3>1 DEF Settled, Terminal, NoCall
                    <6> QED BY <2>1, <3>1, <6>1, <6>2 DEF Amends, Exists
                <5> QED BY <5>1, <5>2 DEF CallResult
            <4> QED BY <3>1, <4>1, WriteAmends
        <3>2. CASE UNCHANGED apiVars
            BY <3>2 DEF apiVars, Objects, Informs
        <3> QED BY <1>4, <3>1, <3>2 DEF RecordCall
    <2> QED BY <2>1, <2>2, QuietEffects
<1>5. CASE ManagerRestarts
    <2>1. UNCHANGED <<obj, node, dir, tarball, ckpt, upl>> /\ call' = NoCall /\ del'.pc = "idle"
        BY <1>5 DEF ManagerRestarts, NoDel, worldVars, storeVars, agtVars
    <2>2. Objects /\ Informs
        <3>1. \A p \in Processes : cache'[p] \in {cache[p], obj}
            BY <1>5 DEF ManagerRestarts, TypeOK, CopyType
        <3> QED BY <2>1, <3>1 DEF Objects, Informs
    <2>3. call'.pc = "idle"
        BY <2>1 DEF NoCall
    <2> QED BY <2>1, <2>2, <2>3, QuietEffects
<1> QED
    BY <1>2, <1>3, <1>4, <1>5, ManagerReconcilesEffects, ManagerDeletesEffects
    DEF ManagerNext, byManager

\* Every step of CheckpointReconciler.
LEMMA CkptEffects ==
    ASSUME TypeOK, CkptReconciles(byAgent)
    PROVE  Effects
<1> DEFINE c == byAgent
<1>1. c \in ObjType
    BY DEF TypeOK, CopyType, Processes, byAgent
<1>2. UNCHANGED <<obj, cache>> => Objects /\ Informs
    BY DEF Objects, Informs
<1>3. UNCHANGED <<upl, node, call, del>>
    BY DEF CkptReconciles, CkptRefuses, CkptFindsManifest, CkptRetries, CkptResolves,
           CkptCannotStart, CkptStartsDump, CkptDumps, CkptDumpFails, CkptPublishes,
           CkptPublishFails, CkptReports, CkptGoes, worldVars, mgrVars
<1>4. ASSUME UNCHANGED <<obj, cache, dir, tarball>>, ckpt'.pc \in {"failing", "retrying"},
             ckpt.pc # "idle" \/ Exists(c)
      PROVE  Effects
    <2>1. Works /\ Dumps /\ Owes
        BY <1>3, <1>4 DEF Works, Dumps, Owes, Fruitless, Filling
    <2> QED BY <1>2, <1>4, <2>1 DEF Effects
<1>5. CASE CkptRefuses(c) \/ CkptRetries(c)
    <2>1. ckpt'.pc \in {"failing", "retrying"} /\ Exists(c) /\ UNCHANGED <<obj, cache, dir, tarball>>
        BY <1>5 DEF CkptRefuses, CkptRetries, Dumpable, Owns, Exists, CkptGoes, CkptFailure, NoCkpt,
                    apiVars, storeVars
    <2> QED BY <1>4, <2>1
<1>6. CASE CkptCannotStart \/ CkptDumpFails
    <2>1. ckpt'.pc = "failing" /\ ckpt.pc # "idle" /\ UNCHANGED <<obj, cache, dir, tarball>>
        BY <1>6 DEF CkptCannotStart, CkptDumpFails, CkptGoes, CkptFailure, NoCkpt, apiVars, storeVars
    <2> QED BY <1>4, <2>1
<1>7. CASE CkptFindsManifest(c)
    <2>1. /\ ckpt'.pc = "completing" /\ Exists(c) /\ c.spec.dir /\ dir.manifest # NoDump
          /\ UNCHANGED <<obj, cache, dir, tarball>>
        BY <1>7 DEF CkptFindsManifest, Owns, Exists, CkptGoes, NoCkpt, apiVars, storeVars
    <2>2. Works /\ Dumps /\ Owes
        BY <1>3, <2>1 DEF Works, Dumps, Owes, Fruitless, Filling
    <2> QED BY <1>2, <2>1, <2>2 DEF Effects
<1>8. CASE CkptResolves(c)
    <2>1. /\ ckpt'.pc = "clearing" /\ Exists(c) /\ c.spec.dir /\ dir.manifest = NoDump
          /\ UNCHANGED <<obj, cache, dir, tarball>>
        BY <1>8 DEF CkptResolves, Dumpable, Owns, Exists, CkptGoes, NoCkpt, apiVars, storeVars
    <2>2. Works /\ Dumps /\ Owes
        BY <1>3, <2>1 DEF Works, Dumps, Owes, Fruitless, Filling
    <2> QED BY <1>2, <2>1, <2>2 DEF Effects
<1>9. ASSUME NEW d \in Dump, CkptStartsDump(d)
      PROVE  Effects
    <2>1. /\ ckpt.pc = "clearing" /\ dir'.manifest = NoDump /\ UNCHANGED <<obj, cache, tarball>>
          /\ ckpt' = [ckpt EXCEPT !.pc = "dumping", !.dump = d]
        BY <1>9 DEF CkptStartsDump, EmptyDir, CkptGoes, apiVars
    <2>2. ckpt'.pc = "dumping"
        BY <2>1 DEF TypeOK, CkptType
    <2>3. Works /\ Owes
        BY <1>3, <2>1, <2>2 DEF Works, Owes, Fruitless
    <2> QED BY <1>2, <1>9, <2>1, <2>3 DEF Effects, Dumps
<1>10. CASE CkptDumps
    <2>1. /\ ckpt.pc = "dumping" /\ ckpt'.pc = "publishing" /\ UNCHANGED <<obj, cache, tarball>>
          /\ dir'.manifest = dir.manifest
        <3>1. dir' = Finished(ckpt.dump) \/ dir' = dir
            BY <1>10 DEF CkptDumps
        <3> QED BY <1>10, <3>1, FinishedTypeOK DEF CkptDumps, apiVars, TypeOK, CkptType
    <2>2. Works /\ Owes
        BY <1>3, <2>1 DEF Works, Owes, Fruitless
    <2> QED BY <1>2, <1>10, <2>1, <2>2 DEF Effects, Dumps
<1>11. CASE CkptPublishes
    <2>1. ckpt.pc = "publishing" /\ UNCHANGED <<obj, cache, tarball>>
        BY <1>11 DEF CkptPublishes, apiVars
    <2>2. Works /\ Owes
        BY <1>3, <1>11, <2>1 DEF Works, Owes, Fruitless
    <2> QED BY <1>2, <1>11, <2>1, <2>2 DEF Effects, Dumps
<1>12. CASE CkptPublishFails
    <2>1. ckpt.pc = "publishing" /\ ckpt'.pc = "failing" /\ UNCHANGED <<obj, cache, tarball>>
        BY <1>12 DEF CkptPublishFails, CkptGoes, CkptFailure, NoCkpt, apiVars
    <2>2. Works /\ Owes
        BY <1>3, <2>1 DEF Works, Owes, Fruitless
    <2> QED BY <1>2, <1>12, <2>1, <2>2 DEF Effects, Dumps
<1>13. CASE CkptReports(c)
    <2>1. UNCHANGED <<dir, tarball>> /\ ckpt'.pc = "idle"
        BY <1>13 DEF CkptReports, CkptGoes, NoCkpt, storeVars
    <2>2. Objects /\ Informs
        <3>1. CASE Exists(c) /\ Write(c, CkptReport(c))
            <4> DEFINE new == CkptReport(c)
            <4>1. /\ new.life = c.life /\ new.spec = c.spec /\ new.deleting = c.deleting
                  /\ new.finalizer = c.finalizer
                  /\ new.phase = "Completed" => ckpt.pc = "completing" \/ c.phase = "Completed"
                  /\ new.phase \in {c.phase, "Failed", "Completed"} /\ new.tar = c.tar
                <5>1. ckpt.pc \in {"completing", "failing", "retrying"}
                    BY <1>13 DEF CkptReports
                <5>2. CASE ckpt.pc = "completing"
                    <6>1. new = Completed(c)
                        BY <5>2 DEF CkptReport
                    <6> HIDE DEF new
                    <6> QED BY <1>1, <5>2, <6>1 DEF Completed, Phase, ObjType
                <5>3. CASE ckpt.pc = "failing"
                    <6>1. new = Phase(c, "Failed", ckpt.msg)
                        BY <5>3 DEF CkptReport
                    <6> HIDE DEF new
                    <6> QED BY <1>1, <5>3, <6>1 DEF Phase, ObjType
                <5>4. CASE ckpt.pc = "retrying"
                    BY <1>1, <5>4 DEF CkptReport, ObjType
                <5> QED BY <5>1, <5>2, <5>3, <5>4
            <4> HIDE DEF new
            <4>2. Amends(c, new)
                BY <3>1, <4>1 DEF Amends, Exists, Settled, Terminal
            <4> QED BY <3>1, <4>2, WriteAmends DEF new
        <3>2. CASE UNCHANGED apiVars
            BY <1>2, <3>2 DEF apiVars
        <3> QED BY <1>13, <3>1, <3>2 DEF CkptReports
    <2> QED BY <1>3, <2>1, <2>2, QuietEffects
<1> QED
    BY <1>5, <1>6, <1>7, <1>8, <1>9, <1>10, <1>11, <1>12, <1>13 DEF CkptReconciles

\* Every step of UploadReconciler, whose copy is of an object that exists.
LEMMA UplEffects ==
    ASSUME TypeOK, OriginInv, UplReconciles(byAgent)
    PROVE  Effects
<1> DEFINE c == byAgent
<1>1. c \in ObjType /\ upl.snap \in ObjType /\ upl \in UplType
    BY DEF TypeOK, CopyType, Processes, byAgent, UplType
<1>2. UNCHANGED <<obj, cache>> => Objects /\ Informs
    BY DEF Objects, Informs
<1>3. UNCHANGED <<ckpt, node, call, del>>
    BY DEF UplReconciles, UplClaims, UplRefuses, UplFindsNoTar, AgentWrites, UplStarts, UplPublishes,
           UplFails, UplRemovesTar, UplReports, UplGoes, worldVars, mgrVars, agtVars
<1>4. CASE UplClaims(c) \/ UplRefuses(c) \/ UplFindsNoTar(c)
    <2>1. PICK phase \in {"Uploading", "Failed"}, msg \in Messages :
              /\ AgentWrites(c, Phase(c, phase, msg))
              /\ phase = "Uploading" => c.phase = "Checkpointed"
              /\ c.phase # "Gone"
        BY <1>4 DEF UplClaims, UplRefuses, UplFindsNoTar, Messages
    <2> DEFINE new == Phase(c, phase, msg)
    <2>2. /\ new.phase = phase /\ new.life = c.life /\ new.spec = c.spec
          /\ new.deleting = c.deleting /\ new.finalizer = c.finalizer /\ new.tar = c.tar
        BY <1>1 DEF Phase, ObjType
    <2> HIDE DEF new
    <2>3. Amends(c, new)
        BY <2>1, <2>2 DEF Amends, Exists, Settled, Terminal
    <2>4. Write(c, new) /\ UNCHANGED <<dir, tarball, upl>>
        BY <2>1 DEF AgentWrites, storeVars, agtVars, new
    <2> QED BY <1>3, <2>3, <2>4, WriteAmends, QuietEffects
<1>5. CASE UplStarts(c)
    <2>1. /\ upl' = [pc |-> "expanding", snap |-> c] /\ c.phase = "Uploading" /\ c.tar \in Dump
          /\ UNCHANGED <<obj, cache, tarball>>
          /\ UNCHANGED dir \/ (c.spec.dir /\ dir'.manifest = NoDump)
        BY <1>5 DEF UplStarts, UplGoes, apiVars, TypeOK
    <2>2. upl'.pc = "expanding" /\ upl'.snap = c
        BY <2>1
    <2>3. Works /\ Dumps /\ Owes
        BY <1>3, <2>1, <2>2 DEF Works, Dumps, Owes, Fruitless
    <2> QED BY <1>2, <2>1, <2>3 DEF Effects
<1>6. Published(upl.snap) /\ upl.pc = "expanding" =>
          (UNCHANGED dir \/ Filled) /\ (UNCHANGED tarball \/ tarball' = upl.snap.tar)
    BY DEF Published, Filled
<1>7. CASE UplPublishes
    <2>1. /\ Published(upl.snap) /\ upl.pc = "expanding" /\ UNCHANGED <<obj, cache>>
          /\ upl' = [upl EXCEPT !.pc = "removing"]
        BY <1>7 DEF UplPublishes, UplGoes, apiVars
    <2>2. upl'.snap = upl.snap
        BY <1>1, <2>1 DEF UplType
    <2>3. Works
        BY <1>3, <1>6, <2>1, <2>2 DEF Works, Fruitless
    <2>4. Dumps /\ Owes
        BY <1>3, <1>6, <2>1 DEF Dumps, Owes
    <2> QED BY <1>2, <2>1, <2>3, <2>4 DEF Effects
<1>8. CASE UplFails
    <2>1. /\ Published(upl.snap) \/ UNCHANGED <<dir, tarball>>
          /\ upl.pc = "expanding" /\ upl'.pc = "idle"
        BY <1>8 DEF UplFails, UplGoes, NoUpl
    <2>2. Objects /\ Informs
        <3> DEFINE k == upl.snap
                   new == [k EXCEPT !.msg = "retrying"]
        <3>1. /\ new.phase = k.phase /\ new.life = k.life /\ new.spec = k.spec
              /\ new.deleting = k.deleting /\ new.finalizer = k.finalizer /\ new.tar = k.tar
            BY <1>1 DEF ObjType
        <3>2. Exists(k)
            BY <2>1 DEF OriginInv
        <3>3. Write(k, new) \/ UNCHANGED apiVars
            BY <1>8 DEF UplFails
        <3> HIDE DEF k, new
        <3>4. Amends(k, new)
            BY <3>1, <3>2 DEF Amends, Exists
        <3> QED BY <1>2, <3>3, <3>4, WriteAmends DEF apiVars
    <2>3. Works
        BY <1>3, <1>6, <2>1 DEF Works, Fruitless
    <2>4. Dumps /\ Owes
        BY <1>3, <1>6, <2>1 DEF Dumps, Owes
    <2> QED BY <2>2, <2>3, <2>4 DEF Effects
<1>9. CASE UplRemovesTar
    <2>1. /\ UNCHANGED <<obj, cache, dir, tarball>> /\ upl.pc = "removing"
          /\ upl' = [upl EXCEPT !.pc = "reporting"]
        BY <1>9 DEF UplRemovesTar, UplGoes, apiVars
    <2>2. upl'.snap = upl.snap
        BY <1>1, <2>1 DEF UplType
    <2>3. Works /\ Dumps /\ Owes
        BY <1>3, <2>1, <2>2 DEF Works, Dumps, Owes
    <2> QED BY <1>2, <2>1, <2>3 DEF Effects
<1>10. CASE UplReports
    <2>1. UNCHANGED <<dir, tarball>> /\ upl.pc = "reporting" /\ upl'.pc = "idle"
        BY <1>10 DEF UplReports, UplGoes, NoUpl, storeVars
    <2>2. Objects /\ Informs
        <3> DEFINE k == upl.snap
                   new == Completed(k)
        <3>1. /\ new.phase = "Completed" /\ new.life = k.life /\ new.spec = k.spec
              /\ new.deleting = k.deleting /\ new.finalizer = k.finalizer /\ new.tar = k.tar
            BY <1>1 DEF Completed, Phase, ObjType
        <3>2. Exists(k)
            BY <2>1 DEF OriginInv
        <3>3. Write(k, new) \/ UNCHANGED apiVars
            BY <1>10 DEF UplReports
        <3> HIDE DEF k, new
        <3>4. Amends(k, new)
            BY <2>1, <3>1, <3>2 DEF Amends, Exists, Settled, Terminal
        <3> QED BY <1>2, <3>3, <3>4, WriteAmends DEF apiVars
    <2> QED BY <1>3, <2>1, <2>2, QuietEffects
<1> QED
    BY <1>4, <1>5, <1>7, <1>8, <1>9, <1>10 DEF UplReconciles

\* Quiesce, and the agent's own life.
LEMMA AgentEffects ==
    ASSUME TypeOK, OriginInv, AgentNext
    PROVE  Effects
<1> DEFINE c == byAgent
<1>1. c \in ObjType
    BY DEF TypeOK, CopyType, Processes, byAgent
<1>2. CASE QuiesceSeen(c)
    <2>1. /\ AgentWrites(c, Phase(c, "Checkpointing", "none")) /\ Exists(c)
          /\ "none" \in Messages /\ c.phase \notin Settled
        BY <1>2 DEF QuiesceSeen, Exists, Messages, Settled, Terminal
    <2>2. Amends(c, Phase(c, "Checkpointing", "none"))
        BY <1>1, <2>1, PhaseAmends
    <2> QED
        BY <2>1, <2>2, WriteAmends, QuietEffects
        DEF AgentWrites, worldVars, storeVars, mgrVars, agtVars
<1>3. CASE AgentAdvertises
    <2>1. /\ UNCHANGED <<obj, cache, dir, tarball, call, ckpt, upl, del>>
          /\ node.advertises => node'.advertises
        BY <1>3 DEF AgentAdvertises, apiVars, storeVars, mgrVars, agtVars
    <2>2. Objects /\ Informs
        BY <2>1 DEF Objects, Informs
    <2> QED BY <2>1, <2>2, QuietEffects
<1>4. CASE AgentRestarts
    <2>1. /\ UNCHANGED <<obj, dir, tarball, call, del>> /\ ckpt'.pc = "idle" /\ upl'.pc = "idle"
          /\ \A p \in Processes : cache'[p] \in {cache[p], obj}
        BY <1>4 DEF AgentRestarts, NoCkpt, NoUpl, storeVars, mgrVars, TypeOK, CopyType
    <2>2. node.advertises => node'.advertises
        BY <1>4 DEF AgentRestarts, TypeOK, NodeType
    <2>3. Objects /\ Informs
        BY <2>1 DEF Objects, Informs
    <2> QED BY <2>1, <2>2, <2>3, QuietEffects
<1> QED
    BY <1>2, <1>3, <1>4, CkptEffects, UplEffects DEF AgentNext, byAgent

\* The user creates and deletes, the pod moves on, informers deliver.
LEMMA EnvironmentEffects ==
    ASSUME TypeOK, UserNext \/ WorldNext \/ \E p \in Processes : Informed(p)
    PROVE  Effects
<1>1. UNCHANGED <<dir, tarball, node, call, ckpt, upl, del>>
    BY DEF UserNext, Create, Delete, WorldNext, PodStarts, PodDies, PodMoves, ShimParks,
           DeadlinePasses, Informed, worldVars, storeVars, mgrVars, agtVars
<1>2. Objects /\ Informs
    <2>1. ASSUME NEW s \in Specs, Create(s) PROVE Objects /\ Informs
        BY <2>1 DEF Create, Objects, Informs
    <2>2. CASE Delete
        <3>1. UNCHANGED cache
            BY <2>2 DEF Delete
        <3>2. CASE obj' = Absent(obj.life)
            BY <3>1, <3>2 DEF Objects, Informs
        <3>3. CASE obj' = [obj EXCEPT !.deleting = TRUE]
            <4>1. /\ obj'.phase = obj.phase /\ obj'.life = obj.life /\ obj'.spec = obj.spec
                  /\ obj'.tar = obj.tar /\ obj'.deleting /\ obj'.finalizer = obj.finalizer
                BY <3>3 DEF TypeOK, ObjType
            <4>2. Amends(obj, obj')
                BY <2>2, <4>1 DEF Delete, Live, Exists, Amends
            <4> QED BY <3>1, <4>2 DEF Objects, Informs
        <3> QED BY <2>2, <3>2, <3>3 DEF Delete
    <2>3. CASE WorldNext
        BY <2>3 DEF WorldNext, PodStarts, PodDies, PodMoves, ShimParks, DeadlinePasses, apiVars,
                    Objects, Informs
    <2>4. ASSUME NEW p \in Processes, Informed(p) PROVE Objects /\ Informs
        <3>1. UNCHANGED obj /\ \A q \in Processes : cache'[q] \in {cache[q], obj}
            BY <2>4 DEF Informed, TypeOK, CopyType
        <3> QED BY <3>1 DEF Objects, Informs
    <2> QED BY <2>1, <2>2, <2>3, <2>4 DEF UserNext
<1> QED BY <1>1, <1>2, QuietEffects

\* Every step has these effects.
LEMMA StepEffects ==
    ASSUME TypeOK, OriginInv, [Next]_vars
    PROVE  Effects
<1>1. CASE UNCHANGED vars
    <2>1. UNCHANGED <<obj, cache, node, dir, tarball, call, ckpt, upl, del>>
        BY <1>1 DEF vars
    <2>2. Objects /\ Informs
        BY <2>1 DEF Objects, Informs
    <2> QED BY <2>1, <2>2, QuietEffects
<1> QED BY <1>1, ManagerEffects, AgentEffects, EnvironmentEffects DEF Next

-----------------------------------------------------------------------------
(***************************************************************************)
(* Whose images a deletion tears.  The manager tears them for the object   *)
(* it saw deleted.  Once there is a newer one, which it has not seen, no   *)
(* worker has turned to that yet: it names no dump, and none is of its     *)
(* pod.                                                                    *)
(***************************************************************************)
\* What a copy c of the object, however old, still says of the object o.
Recalls(c, o) ==
    /\ c.life <= o.life
    /\ c.life = o.life /\ Exists(o) /\ c.deleting => o.deleting

Unmet ==
    /\ Exists(obj)
    /\ byManager.life # obj.life \/ (del.pc # "idle" /\ del.snap.life # obj.life)

Unworked ==
    /\ obj.phase \in Settled
    /\ obj.tar = NoDump
    /\ byAgent.life = obj.life => byAgent.phase \in Settled
    /\ call.pod.life # obj.life /\ ckpt.pod.life # obj.life
    /\ \A d \in Dump : info[d].life # obj.life

\* The dumps that have been in the directory, or may be called for by a status.
Used == Images \cup dir.torn \cup ({obj.tar, byManager.tar, byAgent.tar} \ {NoDump})

OwnInv ==
    /\ Recalls(byManager, obj) /\ Recalls(byAgent, obj) /\ Recalls(del.snap, obj)
    /\ del.pc # "idle" => del.snap.deleting
    /\ call.pod.life <= obj.life /\ ckpt.pod.life <= obj.life
    /\ \A d \in Dump : info[d].life <= obj.life
    /\ Unmet => Unworked
    /\ Used \cup ({call.tar, del.dump} \ {NoDump}) \subseteq Begun
    /\ call.tar \notin Used
    /\ \A d \in dir.torn : ~Owned(d)

(* What a step does to what names a dump or a pod.                         *)
Begins(d) ==
    /\ Fresh(d)
    /\ \E pod \in {call.pod, ckpt.pod} : pod.life > 0 /\ info' = Taken(d, pod)
    /\ UNCHANGED <<obj, cache, del>>

TracksPods ==
    /\ UNCHANGED info \/ \E d \in Dump : Begins(d)
    /\ \/ call'.pod \in {call.pod, NoPod}
       \/ FallsBack(byManager) /\ call'.pod = PodOf(byManager)
    /\ \/ ckpt'.pod \in {ckpt.pod, NoPod}
       \/ byAgent.phase = "Checkpointing" /\ ckpt'.pod = PodOf(byAgent)

TracksDumps ==
    /\ call'.tar \in {call.tar, NoDump} \/ (Begins(call'.tar) /\ UNCHANGED dir)
    /\ \/ Images' \subseteq Images \cup ({byAgent.tar} \ {NoDump})
       \/ \E d \in Dump : Begins(d) /\ UNCHANGED call /\ Images' \subseteq Images \cup {d}
    /\ \/ dir'.torn \subseteq dir.torn
       \/ /\ del.pc = "removing" /\ dir'.torn \subseteq dir.torn \cup Images
          /\ UNCHANGED <<obj, info>>
    /\ del'.dump \in {del.dump, dir.manifest, NoDump}

TracksDeletion ==
    \/ del' = NoDel
    \/ del.pc # "idle" /\ del'.pc # "idle" /\ del'.snap = del.snap
    \/ UNCHANGED del
    \/ Deleting(byManager) /\ del'.snap = byManager /\ UNCHANGED <<obj, cache>>

Tracks == TracksPods /\ TracksDumps /\ TracksDeletion

\* A step that begins no dump, and reads or ends a deletion at most.
LEMMA QuietTracks ==
    ASSUME UNCHANGED info, call'.pod \in {call.pod, NoPod}, call'.tar \in {call.tar, NoDump},
           ckpt'.pod \in {ckpt.pod, NoPod},
           Images' \subseteq Images \cup ({byAgent.tar} \ {NoDump}), dir'.torn \subseteq dir.torn,
           del' = del \/ del' = NoDel
    PROVE  Tracks
<1>1. NoDel.dump = NoDump
    BY DEF NoDel
<1> QED BY <1>1 DEF Tracks, TracksPods, TracksDumps, TracksDeletion

\* The manager: a call is for the pod of the object it has in hand.
LEMMA ManagerTracks ==
    ASSUME TypeOK, OriginInv, ManagerNext
    PROVE  Tracks
<1> DEFINE c == byManager
<1>1. NoCall.pod = NoPod /\ NoCall.tar = NoDump
    BY DEF NoCall
<1>2. CASE ManagerReconciles(c)
    <2>1. UNCHANGED <<info, dir, ckpt, del>>
        BY <1>2
        DEF ManagerReconciles, ManagerWrites, AddFinalizer, AcceptNew, PendingWaits, PendingFails,
            PendingProceeds, QuiesceTimesOut, LeaveToAgent, StartKubeletCall, NodeHasNoAddress,
            storeVars, mgrVars, agtVars
    <2>2. \/ UNCHANGED call
          \/ FallsBack(c) /\ call' = [pc |-> "calling", pod |-> PodOf(c), tar |-> NoDump]
        BY <1>2
        DEF ManagerReconciles, ManagerWrites, AddFinalizer, AcceptNew, PendingWaits, PendingFails,
            PendingProceeds, QuiesceTimesOut, LeaveToAgent, StartKubeletCall, NodeHasNoAddress,
            mgrVars
    <2>3. call'.tar \in {call.tar, NoDump}
        BY <2>2
    <2>4. call' = call \/ (FallsBack(c) /\ call'.pod = PodOf(c))
        BY <2>2
    <2>5. Images' = Images
        BY <2>1 DEF Images
    <2> QED BY <2>1, <2>3, <2>4, <2>5 DEF Tracks, TracksPods, TracksDumps, TracksDeletion
<1>3. CASE ManagerDeletes(c) \/ RemovesFiles
    <2>1. c \in ObjType
        BY DEF TypeOK, CopyType, Processes, byManager
    <2>2. UNCHANGED <<obj, cache, info, call, ckpt>>
        BY <1>3, <2>1, ManagerDeletesEffect DEF apiVars, agtVars
    <2>3. TracksPods
        BY <2>2 DEF TracksPods
    <2>4. Withdraws
        BY <1>3, DeletionWithdraws
    <2>5. \/ /\ Deleting(c) /\ UNCHANGED <<obj, cache>>
             /\ \E pc \in {"deleted", "listed"}, d \in {dir.manifest, NoDump} :
                    del' = [pc |-> pc, snap |-> c, dump |-> d]
          \/ del' \in {del, NoDel}
          \/ del.pc # "idle" /\ del' = [del EXCEPT !.pc = "removing"]
          \/ del.pc # "idle" /\ del' = [del EXCEPT !.pc = "deleted", !.dump = NoDump]
        BY <1>3, <2>2
        DEF ManagerDeletes, DeletesTar, FindsNothing, ReadsManifest, RemovesFiles, Uncommits,
            RemovesFile, RemovesLast, DeleteStops, DelGoes
    <2>6. del \in DelType /\ NoDel.dump = NoDump
        BY DEF TypeOK, NoDel
    <2>7. del'.dump \in {del.dump, dir.manifest, NoDump} /\ TracksDeletion
        <3>1. CASE /\ Deleting(c) /\ UNCHANGED <<obj, cache>>
                   /\ \E pc \in {"deleted", "listed"}, d \in {dir.manifest, NoDump} :
                          del' = [pc |-> pc, snap |-> c, dump |-> d]
            BY <3>1 DEF TracksDeletion
        <3>2. CASE del' \in {del, NoDel}
            BY <2>6, <3>2 DEF TracksDeletion
        <3>3. CASE del.pc # "idle" /\ del' = [del EXCEPT !.pc = "removing"]
            BY <2>6, <3>3 DEF DelType, TracksDeletion
        <3>4. CASE del.pc # "idle" /\ del' = [del EXCEPT !.pc = "deleted", !.dump = NoDump]
            BY <2>6, <3>4 DEF DelType, TracksDeletion
        <3> QED BY <2>5, <3>1, <3>2, <3>3, <3>4
    <2>8. TracksDumps
        BY <2>2, <2>4, <2>7 DEF TracksDumps, Withdraws
    <2> QED BY <2>3, <2>7, <2>8 DEF Tracks
<1>4. ASSUME NEW d \in Dump, KubeletCheckpoints(d) PROVE Tracks
    <2>1. /\ call.pc = "calling" /\ Fresh(d) /\ info' = Taken(d, call.pod)
          /\ UNCHANGED <<obj, cache, dir, del, ckpt>>
          /\ \E tar \in {d, NoDump} : call' = [call EXCEPT !.pc = "answered", !.tar = tar]
        BY <1>4 DEF KubeletCheckpoints, apiVars, agtVars
    <2>2. call'.pod = call.pod /\ call'.tar \in {d, NoDump}
        BY <2>1 DEF TypeOK, CallType
    <2>3. Begins(d)
        BY <2>1 DEF Begins, OriginInv
    <2>4. Images' = Images
        BY <2>1 DEF Images
    <2> QED BY <2>1, <2>2, <2>3, <2>4 DEF Tracks, TracksPods, TracksDumps, TracksDeletion
<1>5. CASE KubeletFails \/ CallContextExpires \/ RecordCall(c) \/ DropFinalizer \/ ManagerRestarts
    <2>1. /\ UNCHANGED <<info, dir, ckpt>>
          /\ call' \in {call, NoCall, [call EXCEPT !.pc = "answered"]}
          /\ del' = del \/ del' = NoDel
        BY <1>5 DEF KubeletFails, CallContextExpires, RecordCall, DropFinalizer, ManagerRestarts,
                    storeVars, agtVars
    <2>2. call'.pod \in {call.pod, NoPod} /\ call'.tar \in {call.tar, NoDump}
        BY <1>1, <2>1 DEF TypeOK, CallType
    <2>3. Images' = Images
        BY <2>1 DEF Images
    <2> QED BY <2>1, <2>2, <2>3, QuietTracks
<1> QED
    BY <1>2, <1>3, <1>4, <1>5 DEF ManagerNext, KubeletAnswers, byManager

\* The agent: its checkpointer dumps the pod of the object it has in hand, and
\* its upload expands the tar of it.
LEMMA AgentTracks ==
    ASSUME TypeOK, OriginInv, AgentNext
    PROVE  Tracks
<1> DEFINE c == byAgent
<1>1. /\ dir \in DirType /\ ckpt \in CkptType /\ NoCkpt.pod = NoPod
      /\ NoDump \notin Dump
    BY NoDumpAssumption DEF TypeOK, NoCkpt
<1>2. ASSUME UNCHANGED <<info, call, del>>, ckpt'.pod \in {ckpt.pod, NoPod},
             Images' \subseteq Images \cup ({c.tar} \ {NoDump}), dir'.torn \subseteq dir.torn
      PROVE  Tracks
    BY <1>2, QuietTracks
<1>3. CASE QuiesceSeen(c) \/ AgentAdvertises \/ AgentRestarts \/ UplClaims(c) \/ UplRefuses(c)
           \/ UplFindsNoTar(c) \/ UplRemovesTar \/ UplReports
    <2>1. UNCHANGED <<info, call, del, dir>> /\ ckpt' \in {ckpt, NoCkpt}
        BY <1>3 DEF QuiesceSeen, AgentAdvertises, AgentRestarts, UplClaims, UplRefuses, UplFindsNoTar,
                    UplRemovesTar, UplReports, AgentWrites, UplGoes, storeVars, mgrVars, agtVars
    <2>2. Images' = Images
        BY <2>1 DEF Images
    <2> QED BY <1>1, <1>2, <2>1, <2>2
<1>4. CASE UplStarts(c)
    <2>1. /\ UNCHANGED <<info, call, del, ckpt>> /\ c.tar \in Dump
          /\ \/ UNCHANGED dir
             \/ dir' = [manifest |-> NoDump, whole |-> {}, part |-> Images \cup {c.tar},
                        torn |-> dir.torn \ {c.tar}]
        BY <1>4 DEF UplStarts, UplGoes, mgrVars, TypeOK
    <2>2. Images' \subseteq Images \cup {c.tar} /\ dir'.torn \subseteq dir.torn
        BY <2>1 DEF Images
    <2>3. Images' \subseteq Images \cup ({c.tar} \ {NoDump})
        BY <1>1, <2>1, <2>2
    <2> QED BY <1>2, <2>1, <2>2, <2>3
<1>5. CASE UplPublishes \/ UplFails
    <2>1. /\ UNCHANGED <<info, call, del, ckpt>>
          /\ Published(upl.snap) \/ UNCHANGED <<dir, tarball>>
        BY <1>5 DEF UplPublishes, UplFails, UplGoes, mgrVars
    <2>2. \/ UNCHANGED dir
          \/ dir' = [Finished(upl.snap.tar) EXCEPT !.manifest = upl.snap.tar]
        BY <2>1 DEF Published
    <2>3. Images' \subseteq Images /\ dir'.torn = dir.torn
        <3>1. CASE UNCHANGED dir
            BY <3>1 DEF Images
        <3>2. CASE dir' = [Finished(upl.snap.tar) EXCEPT !.manifest = upl.snap.tar]
            <4>1. /\ dir'.whole = Finished(upl.snap.tar).whole
                  /\ dir'.part = Finished(upl.snap.tar).part
                  /\ dir'.torn = Finished(upl.snap.tar).torn
                BY <1>1, <3>2, FinishedTypeOK DEF DirType
            <4> QED BY <1>1, <4>1, FinishedTypeOK DEF Images
        <3> QED BY <2>2, <3>1, <3>2
    <2> QED BY <1>2, <2>1, <2>3
<1>6. CASE CkptRefuses(c) \/ CkptFindsManifest(c) \/ CkptRetries(c) \/ CkptResolves(c)
           \/ CkptCannotStart \/ CkptDumpFails \/ CkptReports(c)
    <2>1. UNCHANGED <<info, call, del, dir>>
        BY <1>6 DEF CkptRefuses, CkptFindsManifest, CkptRetries, CkptResolves, Dumpable,
                    CkptCannotStart, CkptDumpFails, CkptReports, CkptGoes, storeVars, mgrVars
    <2>2. \/ ckpt'.pod = NoPod
          \/ c.phase = "Checkpointing" /\ ckpt'.pod = PodOf(c)
        <3>1. CASE CkptResolves(c)
            <4>1. c.phase = "Checkpointing" /\ ckpt' = [NoCkpt EXCEPT !.pc = "clearing", !.pod = PodOf(c)]
                BY <3>1 DEF CkptResolves, Dumpable, Owns, CkptGoes
            <4> QED BY <4>1 DEF NoCkpt
        <3>2. CASE CkptReports(c)
            BY <1>1, <3>2 DEF CkptReports, CkptGoes
        <3>3. CASE CkptRefuses(c) \/ CkptCannotStart \/ CkptDumpFails
            <4>1. \E msg : ckpt' = CkptFailure(msg)
                BY <3>3 DEF CkptRefuses, CkptCannotStart, CkptDumpFails, CkptGoes
            <4> QED BY <4>1 DEF CkptFailure, NoCkpt
        <3>4. CASE CkptFindsManifest(c) \/ CkptRetries(c)
            <4>1. \/ ckpt' = [NoCkpt EXCEPT !.pc = "completing", !.dump = dir.manifest]
                  \/ ckpt' = [NoCkpt EXCEPT !.pc = "retrying"]
                BY <3>4 DEF CkptFindsManifest, CkptRetries, CkptGoes
            <4> QED BY <4>1 DEF NoCkpt
        <3> QED BY <1>6, <3>1, <3>2, <3>3, <3>4
    <2>3. Images' = Images
        BY <2>1 DEF Images
    <2> QED BY <2>1, <2>2, <2>3 DEF Tracks, TracksPods, TracksDumps, TracksDeletion
<1>7. ASSUME NEW d \in Dump, CkptStartsDump(d) PROVE Tracks
    <2>1. /\ ckpt.pc = "clearing" /\ Fresh(d) /\ info' = Taken(d, ckpt.pod)
          /\ dir' = [EmptyDir EXCEPT !.part = {d}] /\ UNCHANGED <<obj, cache, call, del>>
          /\ ckpt' = [ckpt EXCEPT !.pc = "dumping", !.dump = d]
        BY <1>7 DEF CkptStartsDump, CkptGoes, apiVars, mgrVars
    <2>2. ckpt'.pod = ckpt.pod
        BY <1>1, <2>1 DEF CkptType
    <2>3. Images' = {d} /\ dir'.torn = {}
        BY <2>1 DEF EmptyDir, Images
    <2>4. Begins(d)
        BY <2>1 DEF Begins, OriginInv
    <2> QED BY <2>1, <2>2, <2>3, <2>4 DEF Tracks, TracksPods, TracksDumps, TracksDeletion
<1>8. CASE CkptDumps
    <2>1. /\ UNCHANGED <<info, call, del>> /\ (dir' = Finished(ckpt.dump) \/ UNCHANGED dir)
          /\ ckpt' = [ckpt EXCEPT !.pc = "publishing"]
        BY <1>8 DEF CkptDumps, mgrVars
    <2>2. Images' \subseteq Images /\ dir'.torn = dir.torn
        BY <1>1, <2>1, FinishedTypeOK DEF Images
    <2>3. ckpt'.pod = ckpt.pod
        BY <1>1, <2>1 DEF CkptType
    <2> QED BY <1>2, <2>1, <2>2, <2>3
<1>9. CASE CkptPublishes \/ CkptPublishFails
    <2>1. /\ UNCHANGED <<info, call, del>> /\ \E m : dir' = [dir EXCEPT !.manifest = m]
          /\ ckpt' = [ckpt EXCEPT !.pc = "completing"] \/ ckpt' = CkptFailure("error")
        BY <1>9 DEF CkptPublishes, CkptPublishFails, CkptGoes, mgrVars
    <2>2. Images' = Images /\ dir'.torn = dir.torn
        BY <1>1, <2>1 DEF Images, DirType
    <2>3. ckpt'.pod \in {ckpt.pod, NoPod}
        BY <1>1, <2>1 DEF CkptType, CkptFailure, NoCkpt
    <2> QED BY <1>2, <2>1, <2>2, <2>3
<1> QED
    BY <1>3, <1>4, <1>5, <1>6, <1>7, <1>8, <1>9
    DEF AgentNext, CkptReconciles, UplReconciles, byAgent

\* Every step tracks what it names.
LEMMA StepTracks ==
    ASSUME TypeOK, OriginInv, [Next]_vars
    PROVE  Tracks
<1>1. CASE UserNext \/ WorldNext \/ \E p \in Processes : Informed(p)
    <2>1. UNCHANGED <<info, dir, call, ckpt, del>>
        BY <1>1 DEF UserNext, Create, Delete, WorldNext, PodStarts, PodDies, PodMoves, ShimParks,
                    DeadlinePasses, Informed, storeVars, mgrVars, agtVars
    <2>2. Images' = Images
        BY <2>1 DEF Images
    <2> QED BY <2>1, <2>2, QuietTracks
<1>2. CASE UNCHANGED vars
    <2>1. UNCHANGED <<info, dir, call, ckpt, del>>
        BY <1>2 DEF vars
    <2>2. Images' = Images
        BY <2>1 DEF Images
    <2> QED BY <2>1, <2>2, QuietTracks
<1> QED BY <1>1, <1>2, ManagerTracks, AgentTracks DEF Next

\* The object of a step is the one before it, or its successor.
Stands ==
    /\ obj'.life = obj.life
    /\ Exists(obj') =>
        /\ Exists(obj)
        /\ obj.deleting => obj'.deleting
        /\ obj'.phase \notin Settled =>
            obj.phase \notin Settled \/ (obj = byManager /\ del.pc = "idle")
    /\ \/ obj'.tar \in {obj.tar, NoDump}
       \/ obj'.tar = call.tar /\ obj.phase = "Checkpointing" /\ call'.tar = NoDump

Succeeds ==
    /\ obj'.life = obj.life + 1
    /\ obj'.phase = "New" /\ ~obj'.deleting /\ obj'.tar = NoDump
    /\ UNCHANGED <<cache, dir, info, call, del, ckpt>>

LEMMA StandsOrSucceeds ==
    ASSUME TypeOK, Objects
    PROVE  /\ Stands \/ Succeeds
           /\ obj.life \in Nat /\ obj.life <= obj'.life
<1>1. obj.life \in Nat
    BY DEF TypeOK, ObjType
<1>2. obj' = obj \/ Amends(obj, obj') => Stands
    BY DEF Amends, Stands
<1>3. obj' = Absent(obj.life) => Stands
    <2>1. obj' = Absent(obj.life) =>
              obj'.life = obj.life /\ obj'.phase = "Gone" /\ obj'.tar = NoDump
        BY DEF Absent
    <2> QED BY <2>1 DEF Stands, Exists
<1>4. ASSUME NEW s \in Specs, Create(s) PROVE Succeeds
    <2>1. obj' = [Absent(obj.life + 1) EXCEPT !.spec = s, !.phase = "New"]
          /\ UNCHANGED <<cache, dir, info, call, del, ckpt>>
        BY <1>4 DEF Create, storeVars, mgrVars, agtVars
    <2>2. obj'.life = obj.life + 1 /\ obj'.phase = "New" /\ ~obj'.deleting /\ obj'.tar = NoDump
        BY <2>1 DEF Absent
    <2> QED BY <1>1, <2>1, <2>2 DEF Succeeds
<1>5. (Stands \/ Succeeds) => obj.life <= obj'.life
    BY <1>1 DEF Stands, Succeeds
<1>6. Stands \/ Succeeds
    BY <1>2, <1>3, <1>4 DEF Objects
<1> QED BY <1>1, <1>5, <1>6

\* What a copy says of the object it still says after a step.
LEMMA RecallsKept ==
    ASSUME TypeOK, Objects, NEW c \in ObjType, Recalls(c, obj)
    PROVE  Recalls(c, obj')
<1>1. c.life \in Nat /\ obj.life \in Nat
    BY DEF TypeOK, ObjType
<1> QED BY <1>1, StandsOrSucceeds DEF Recalls, Stands, Succeeds

\* The copies, and what a worker took from one.
LEMMA OwnCopies ==
    ASSUME TypeOK, TypeOK', OwnInv, Objects, Informs, Tracks
    PROVE  /\ (Recalls(byManager, obj) /\ Recalls(byAgent, obj) /\ Recalls(del.snap, obj))'
           /\ (del.pc # "idle" => del.snap.deleting)'
           /\ (call.pod.life <= obj.life /\ ckpt.pod.life <= obj.life)'
           /\ (\A d \in Dump : info[d].life <= obj.life)'
<1>1. /\ obj \in ObjType /\ byManager \in ObjType /\ byAgent \in ObjType /\ del.snap \in ObjType
      /\ call.pod.life \in Nat /\ ckpt.pod.life \in Nat /\ info \in [Dump -> InfoType]
      /\ \A d \in Dump : info[d].life \in Nat
    BY DEF TypeOK, CopyType, Processes, byManager, byAgent, DelType, CallType, CkptType, PodType,
           InfoType
<1>2. obj.life <= obj'.life /\ obj.life \in Nat /\ obj'.life \in Nat
    BY StandsOrSucceeds DEF TypeOK, ObjType
<1>3. Recalls(obj, obj')
    BY <1>1, <1>2, RecallsKept DEF Recalls
<1>4. Recalls(byManager, obj') /\ Recalls(byAgent, obj') /\ Recalls(del.snap, obj')
    BY <1>1, RecallsKept DEF OwnInv
<1>5. byManager' \in {byManager, obj} /\ byAgent' \in {byAgent, obj}
    BY DEF Informs, byManager, byAgent, Processes
<1>6. Recalls(byManager', obj') /\ Recalls(byAgent', obj')
    BY <1>3, <1>4, <1>5
<1>7. Recalls(del'.snap, obj') /\ (del'.pc # "idle" => del'.snap.deleting)
    <2>1. CASE del' = NoDel
        <3>1. del'.pc = "idle" /\ del'.snap.life = 0 /\ ~del'.snap.deleting
            BY <2>1 DEF NoDel, Absent
        <3> QED BY <1>2, <3>1 DEF Recalls
    <2>2. CASE Deleting(byManager) /\ del'.snap = byManager
        BY <1>4, <2>2 DEF Deleting
    <2>3. CASE UNCHANGED del \/ (del.pc # "idle" /\ del'.snap = del.snap)
        BY <1>4, <2>3 DEF OwnInv
    <2> QED BY <2>1, <2>2, <2>3 DEF Tracks, TracksDeletion
<1>8. call'.pod.life <= obj'.life /\ ckpt'.pod.life <= obj'.life
    <2>1. /\ PodOf(byManager).life <= obj.life /\ PodOf(byAgent).life <= obj.life
          /\ NoPod.life <= obj.life /\ PodOf(byManager).life \in Nat /\ PodOf(byAgent).life \in Nat
          /\ NoPod.life \in Nat
        BY <1>1, <1>2 DEF OwnInv, Recalls, PodOf, NoPod, ObjType
    <2>2. /\ call'.pod.life \in {call.pod.life, NoPod.life, PodOf(byManager).life}
          /\ ckpt'.pod.life \in {ckpt.pod.life, NoPod.life, PodOf(byAgent).life}
        BY DEF Tracks, TracksPods
    <2>3. call.pod.life <= obj.life /\ ckpt.pod.life <= obj.life
        BY DEF OwnInv
    <2> QED BY <1>1, <1>2, <2>1, <2>2, <2>3
<1>9. \A d \in Dump : info'[d].life <= obj'.life
    <2>1. CASE UNCHANGED info
        BY <1>1, <1>2, <2>1 DEF OwnInv
    <2>2. ASSUME NEW e \in Dump, NEW pod \in {call.pod, ckpt.pod}, info' = Taken(e, pod)
          PROVE  \A d \in Dump : info'[d].life <= obj'.life
        <3>1. \A d \in Dump : info'[d].life \in {info[d].life, pod.life}
            BY <1>1, <2>2 DEF Taken
        <3>2. pod.life <= obj.life /\ pod.life \in Nat /\ \A d \in Dump : info[d].life <= obj.life
            BY <1>1, <2>2 DEF OwnInv
        <3> QED BY <1>1, <1>2, <3>1, <3>2
    <2> QED BY <2>1, <2>2 DEF Tracks, TracksPods, Begins
<1> QED BY <1>6, <1>7, <1>8, <1>9

\* An object the manager has not met is worked on by nobody.
LEMMA OwnUnworked ==
    ASSUME TypeOK, OriginInv, OwnInv, Objects, Informs, Tracks, Unmet'
    PROVE  Unworked'
<1>1. /\ byManager' \in {byManager, obj} /\ byAgent' \in {byAgent, obj}
      /\ obj.life \in Nat /\ info \in [Dump -> InfoType]
      /\ NoPod.life = 0 /\ PodOf(byManager).life = byManager.life /\ PodOf(byAgent).life = byAgent.life
    BY DEF Informs, byManager, byAgent, Processes, NoPod, PodOf, TypeOK, ObjType
<1>2. CASE Succeeds
    <2>1. /\ byAgent.life <= obj.life /\ call.pod.life <= obj.life /\ ckpt.pod.life <= obj.life
          /\ \A d \in Dump : info[d].life <= obj.life
        BY DEF OwnInv, Recalls
    <2>2. /\ byAgent.life \in Nat /\ call.pod.life \in Nat /\ ckpt.pod.life \in Nat
          /\ \A d \in Dump : info[d].life \in Nat
        BY DEF TypeOK, CopyType, Processes, byAgent, ObjType, CallType, CkptType, PodType, InfoType
    <2>3. UNCHANGED <<byAgent, call, ckpt, info>> /\ obj'.life = obj.life + 1 /\ obj'.phase = "New"
          /\ obj'.tar = NoDump
        BY <1>2 DEF Succeeds, byAgent
    <2> QED BY <1>1, <2>1, <2>2, <2>3 DEF Unworked, Settled
<1>3. CASE Stands
    <2>1. Exists(obj) /\ Exists(obj') /\ obj'.life = obj.life /\ obj.life > 0
        BY <1>3 DEF Unmet, Stands, OriginInv, Copies
    <2>2. Unmet
        <3>1. CASE byManager'.life # obj'.life
            BY <1>1, <2>1, <3>1 DEF Unmet
        <3>2. CASE del'.pc # "idle" /\ del'.snap.life # obj'.life
            <4>1. NoDel.pc = "idle"
                BY DEF NoDel
            <4> QED BY <2>1, <3>2, <4>1 DEF Unmet, Tracks, TracksDeletion
        <3> QED BY <3>1, <3>2 DEF Unmet
    <2>3. Unworked
        BY <2>2 DEF OwnInv
    <2>4. ~(obj = byManager /\ del.pc = "idle") /\ (del.pc = "idle" => byManager.life # obj.life)
        BY <2>2 DEF Unmet
    <2>5. obj'.phase \in Settled /\ obj.phase \in Settled /\ obj.phase # "Checkpointing"
        BY <1>3, <2>1, <2>3, <2>4 DEF Stands, Unworked, Settled, Terminal
    <2>6. obj'.tar = NoDump
        BY <1>3, <2>3, <2>5 DEF Stands, Unworked
    <2>7. byAgent'.life = obj'.life => byAgent'.phase \in Settled
        BY <1>1, <2>1, <2>3, <2>5 DEF Unworked
    <2>8. call'.pod.life # obj'.life
        BY <1>1, <2>1, <2>3, <2>4 DEF Unworked, Tracks, TracksPods, FallsBack, Reconciling
    <2>9. ckpt'.pod.life # obj'.life
        BY <1>1, <2>1, <2>3 DEF Unworked, Tracks, TracksPods, Settled, Terminal
    <2>10. \A d \in Dump : info'[d].life # obj'.life
        <3>1. CASE UNCHANGED info
            BY <2>1, <2>3, <3>1 DEF Unworked
        <3>2. ASSUME NEW e \in Dump, NEW pod \in {call.pod, ckpt.pod}, info' = Taken(e, pod)
              PROVE  \A d \in Dump : info'[d].life # obj'.life
            <4>1. \A d \in Dump : info'[d].life \in {info[d].life, pod.life}
                BY <1>1, <3>2 DEF Taken
            <4> QED BY <2>1, <2>3, <3>2, <4>1 DEF Unworked
        <3> QED BY <3>1, <3>2 DEF Tracks, TracksPods, Begins
    <2> QED BY <2>5, <2>6, <2>7, <2>8, <2>9, <2>10 DEF Unworked
<1> QED BY <1>2, <1>3, StandsOrSucceeds

\* A dump that was begun stays one, and what is recorded of it stays.
LEMMA BegunStays ==
    ASSUME TypeOK, OriginInv, Tracks
    PROVE  /\ Begun \subseteq Begun'
           /\ \A d \in Begun : info'[d] = info[d]
           /\ \A d \in Dump : Begins(d) => d \in Begun' /\ d \notin Begun
<1>1. info \in [Dump -> InfoType]
    BY DEF TypeOK
<1>2. ASSUME NEW d \in Dump, Begins(d)
      PROVE  /\ d \in Begun' /\ d \notin Begun
             /\ \A e \in Dump : e # d => info'[e] = info[e]
    <2>1. PICK pod \in {call.pod, ckpt.pod} : pod.life > 0 /\ info' = Taken(d, pod)
        BY <1>2 DEF Begins
    <2>2. info'[d].life > 0 /\ \A e \in Dump : e # d => info'[e] = info[e]
        BY <1>1, <2>1 DEF Taken
    <2>3. info'[d] # NoInfo
        BY <2>2 DEF NoInfo
    <2> QED BY <1>2, <2>2, <2>3 DEF Begun, Fresh, Begins
<1>3. \A e \in Begun : info'[e] = info[e]
    BY <1>2 DEF Tracks, TracksPods, Begun
<1> QED BY <1>2, <1>3 DEF Begun, Fresh

\* What the kubelet answered is in no directory and no status but its own.
LEMMA OwnUsed ==
    ASSUME TypeOK, TypeOK', OriginInv, OwnInv, Objects, Informs, Tracks
    PROVE  /\ (Used \cup ({call.tar, del.dump} \ {NoDump}) \subseteq Begun)'
           /\ (call.tar \notin Used)'
<1> DEFINE Named3 == {obj.tar, byManager.tar, byAgent.tar} \ {NoDump}
<1>1. /\ dir.manifest # NoDump => dir.manifest \in Begun
      /\ call.tar # NoDump => call.tar \in Begun
      /\ del.dump # NoDump => del.dump \in Begun
      /\ Used \subseteq Begun /\ call.tar \notin Used
      /\ NoDump \notin Dump /\ Used \subseteq Dump
    <2>1. dir.manifest # NoDump => dir.manifest \in Begun
        <3>1. dir.manifest # NoDump => info[dir.manifest].life > 0 /\ dir.manifest \in Dump
            BY DEF OriginInv, OfPod, TypeOK, DirType
        <3> QED BY <3>1 DEF Begun, Fresh, NoInfo
    <2> QED BY <2>1, NoDumpAssumption DEF OwnInv, Begun
<1>2. Begun \subseteq Begun' /\ \A d \in Dump : Begins(d) => d \in Begun' /\ d \notin Begun
    BY BegunStays
<1>3. /\ byManager' \in {byManager, obj} /\ byAgent' \in {byAgent, obj}
      /\ obj' = obj \/ (byManager' = byManager /\ byAgent' = byAgent)
    BY DEF Informs, byManager, byAgent, Processes
<1>4. obj'.tar \in {obj.tar, NoDump} \/ (obj'.tar = call.tar /\ call'.tar = NoDump)
    BY StandsOrSucceeds DEF Stands, Succeeds
<1>5. Named3' \subseteq Named3 \cup ({call.tar} \ {NoDump})
    BY <1>3, <1>4
<1>6. call'.tar = NoDump \/ Named3' \subseteq Named3
    BY <1>3, <1>4
<1>7. dir'.torn \subseteq dir.torn \cup Images
    BY DEF Tracks, TracksDumps
<1>8. Images \cup dir.torn \cup Named3 = Used /\ Used' = Images' \cup dir'.torn \cup Named3'
    BY DEF Used
<1> HIDE DEF Named3
<1>9. byAgent.tar # NoDump => byAgent.tar \in Used
    BY DEF Used
<1>10. call'.tar # NoDump => call'.tar \in Begun'
    <2>1. call'.tar # NoDump => call'.tar \in Dump
        BY DEF TypeOK, CallType
    <2> QED BY <1>1, <1>2, <2>1 DEF Tracks, TracksDumps
<1>11. del'.dump # NoDump => del'.dump \in Begun'
    BY <1>1, <1>2 DEF Tracks, TracksDumps
<1>12. \/ Images' \subseteq Used
       \/ \E d \in Dump : Begins(d) /\ UNCHANGED call /\ Images' \subseteq Used \cup {d}
    BY <1>8, <1>9 DEF Tracks, TracksDumps
<1>13. Used' \subseteq Begun'
    BY <1>1, <1>2, <1>5, <1>7, <1>8, <1>12
<1>14. call'.tar \notin Used'
    <2>1. CASE call'.tar = NoDump
        <3>1. Used' \subseteq Dump
            BY <1>13 DEF Begun
        <3> QED BY <1>1, <2>1, <3>1
    <2>2. CASE call'.tar # NoDump /\ call'.tar = call.tar
        <3>1. Named3' \subseteq Used
            BY <1>6, <1>8, <2>2
        <3>2. \A d \in Dump : Begins(d) => d # call.tar
            BY <1>1, <1>2, <2>2
        <3> QED BY <1>1, <1>7, <1>8, <1>12, <2>2, <3>1, <3>2
    <2>3. CASE call'.tar # NoDump /\ Begins(call'.tar) /\ UNCHANGED dir
        <3>1. call'.tar \notin Used
            BY <1>1, <2>3 DEF Begins, Begun
        <3>2. UNCHANGED Used
            BY <2>3 DEF Begins, Used, Images, byManager, byAgent
        <3> QED BY <3>1, <3>2
    <2> QED BY <2>1, <2>2, <2>3 DEF Tracks, TracksDumps
<1> QED BY <1>10, <1>11, <1>13, <1>14

\* What was torn is not of a live object, and what is being torn is of one that
\* was deleted, or older.
LEMMA OwnTorn ==
    ASSUME TypeOK, OriginInv, OwnInv, Objects, Informs, Tracks
    PROVE  (\A d \in dir.torn : ~Owned(d))'
<1> SUFFICES ASSUME NEW d \in dir'.torn, Live(obj'), info'[d].life = obj'.life \/ d = obj'.tar
             PROVE  FALSE
    BY DEF Owned
<1>1. /\ dir.torn \subseteq Used /\ Used \subseteq Begun /\ Images \subseteq Used
      /\ NoDump \notin Dump /\ Begun \subseteq Dump
    BY NoDumpAssumption DEF OwnInv, Used, Begun
<1>2. d \in Used
    BY <1>1 DEF Tracks, TracksDumps
<1>3. info'[d] = info[d] /\ d # NoDump /\ d # call.tar /\ info[d].life <= obj.life
      /\ info[d].life \in Nat /\ obj.life \in Nat
    BY <1>1, <1>2, BegunStays DEF OwnInv, TypeOK, InfoType, ObjType
<1>4. obj'.life = obj.life /\ Live(obj) /\ (info[d].life = obj.life \/ d = obj.tar)
    <2>1. Stands
        BY <1>3, StandsOrSucceeds DEF Succeeds
    <2> QED BY <1>3, <2>1 DEF Stands, Live
<1>5. CASE d \in dir.torn
    BY <1>4, <1>5 DEF OwnInv, Owned
<1>6. CASE d \in Images /\ del.pc = "removing"
    <2>1. del.snap.life # obj.life
        BY <1>4, <1>6 DEF OwnInv, Recalls, Live
    <2>2. Unworked
        BY <1>4, <1>6, <2>1 DEF OwnInv, Unmet, Live
    <2> QED BY <1>1, <1>2, <1>3, <1>4, <2>2 DEF Unworked
<1> QED BY <1>5, <1>6 DEF Tracks, TracksDumps

\* All of it holds on either path, whoever writes and however often the name is
\* used.
LEMMA OwnInvariant == Spec => []OwnInv
<1>1. Init => OwnInv
    <2> SUFFICES ASSUME Init PROVE OwnInv
        OBVIOUS
    <2>1. /\ obj = Absent(0) /\ byManager = Absent(0) /\ byAgent = Absent(0) /\ del = NoDel
          /\ call = NoCall /\ ckpt = NoCkpt /\ dir = EmptyDir /\ info = [d \in Dump |-> NoInfo]
        BY DEF Init, byManager, byAgent, Processes
    <2>2. /\ Absent(0).life = 0 /\ ~Exists(Absent(0)) /\ Absent(0).tar = NoDump
          /\ NoDel.pc = "idle" /\ NoDel.snap = Absent(0) /\ NoDel.dump = NoDump
          /\ NoCall.pod.life = 0 /\ NoCall.tar = NoDump /\ NoCkpt.pod.life = 0
        BY AbsentFields DEF Exists, NoDel, NoCall, NoCkpt, NoPod
    <2>3. Used = {} /\ dir.torn = {} /\ \A d \in Dump : info[d].life = 0
        BY <2>1, <2>2 DEF Used, Images, EmptyDir, NoInfo
    <2> QED BY <2>1, <2>2, <2>3 DEF OwnInv, Recalls, Unmet
<1>2. TypeOK /\ TypeOK' /\ OriginInv /\ OwnInv /\ [Next]_vars => OwnInv'
    <2> SUFFICES ASSUME TypeOK, TypeOK', OriginInv, OwnInv, [Next]_vars PROVE OwnInv'
        OBVIOUS
    <2>1. Objects /\ Informs /\ Tracks
        BY StepEffects, StepTracks DEF Effects
    <2>2. (Unmet => Unworked)'
        BY <2>1, OwnUnworked
    <2>3. (\A d \in dir.torn : ~Owned(d))'
        BY <2>1, OwnTorn
    <2> QED BY <2>1, <2>2, <2>3, OwnCopies, OwnUsed DEF OwnInv
<1> QED BY <1>1, <1>2, TypeCorrect, DumpsOfPods, PTL DEF Spec

\* On any path, however the steps of a deletion, of a dump and of an upload
\* interleave and whatever stale copy the manager deletes from, no image of a
\* dump that a live object may call its own is removed after its writing began:
\* the worker that deletes for an object has seen it deleted, and while it is
\* busy the next object of the name gets no further than its creation
\* (podsnapshot_controller.go reconcileDelete, store.go Delete).
THEOREM LiveDumpsNotTorn == Spec => [](\A d \in dir.torn : ~Owned(d))
<1>1. OwnInv => \A d \in dir.torn : ~Owned(d)
    BY DEF OwnInv
<1> QED BY <1>1, OwnInvariant, PTL

-----------------------------------------------------------------------------
\* What a commit marker may stand over, whoever published.
Marked == dir.manifest # NoDump => dir.manifest \in dir.whole \cup dir.torn

\* No live object may call a torn dump its own, so this is what is left to show.
LEMMA MarkedIsCommitted == Marked /\ OwnInv => CommittedWhole
BY DEF Marked, OwnInv, CommittedWhole

(***************************************************************************)
(* While an upload expands its tar nothing is committed in the directory,  *)
(* and whatever a deletion removes, the upload goes on to write the rest.  *)
(***************************************************************************)
ExpandInv == Filled => dir.manifest = NoDump /\ upl.snap.tar \in dir.part

\* The ways a step may change the store and the upload.
StoreStep ==
    \/ /\ Withdraws /\ tarball' \in {tarball, NoDump}
       /\ upl' = upl \/ upl'.pc # "expanding"
    \/ UplStarts(byAgent)
    \/ Published(upl.snap) /\ upl.pc = "expanding" /\ upl'.pc # "expanding"

\* A step that leaves the artifacts alone.
LEMMA IdleStores ==
    ASSUME UNCHANGED <<dir, tarball>>, upl' = upl \/ upl'.pc # "expanding"
    PROVE  StoreStep
<1>1. Withdraws
    BY DEF Withdraws, Images
<1> QED BY <1>1 DEF StoreStep

\* The manager touches the store only to delete.
LEMMA ManagerStores ==
    ASSUME TypeOK, ManagerNext
    PROVE  StoreStep
<1>1. CASE ManagerDeletes(byManager) \/ RemovesFiles
    <2>1. byManager \in ObjType
        BY DEF TypeOK, CopyType, Processes, byManager
    <2>2. UNCHANGED upl /\ tarball' \in {tarball, NoDump}
        BY <1>1, <2>1, ManagerDeletesEffect DEF agtVars
    <2> QED BY <1>1, <2>2, DeletionWithdraws DEF StoreStep
<1>2. CASE KubeletAnswers \/ CallContextExpires \/ RecordCall(byManager) \/ DropFinalizer
           \/ ManagerRestarts
    BY <1>2, IdleStores DEF KubeletAnswers, KubeletFails, KubeletCheckpoints, CallContextExpires,
                            RecordCall, DropFinalizer, ManagerRestarts, storeVars, agtVars
<1>3. CASE ManagerReconciles(byManager)
    BY <1>3, IdleStores
    DEF ManagerReconciles, ManagerWrites, AddFinalizer, AcceptNew, PendingWaits, PendingFails,
        PendingProceeds, QuiesceTimesOut, LeaveToAgent, StartKubeletCall, NodeHasNoAddress,
        storeVars, agtVars
<1> QED BY <1>1, <1>2, <1>3 DEF ManagerNext, byManager

\* On the kubelet path the agent touches the store only as the upload does.
LEMMA AgentStores ==
    ASSUME ForwardInv, AgentNext
    PROVE  StoreStep
<1> DEFINE c == byAgent
<1>1. ckpt.pc = "idle" /\ ~Owns(c)
    BY DEF ForwardInv, Owns, byAgent, Processes
<1>2. CASE CkptReconciles(c)
    BY <1>1, <1>2
    DEF CkptReconciles, CkptRefuses, CkptFindsManifest, CkptRetries, CkptResolves, Dumpable,
        CkptCannotStart, CkptStartsDump, CkptDumps, CkptDumpFails, CkptPublishes,
        CkptPublishFails, CkptReports
<1>3. CASE QuiesceSeen(c) \/ AgentAdvertises \/ AgentRestarts
    BY <1>3, IdleStores DEF QuiesceSeen, AgentWrites, AgentAdvertises, AgentRestarts, NoUpl,
                            storeVars, agtVars
<1>4. CASE UplClaims(c) \/ UplRefuses(c) \/ UplFindsNoTar(c)
    BY <1>4, IdleStores DEF UplClaims, UplRefuses, UplFindsNoTar, AgentWrites, storeVars, agtVars
<1>5. CASE UplPublishes
    BY <1>5 DEF UplPublishes, UplGoes, StoreStep, ForwardInv, TypeOK, UplType
<1>6. CASE UplFails \/ UplRemovesTar \/ UplReports
    BY <1>6, IdleStores DEF UplFails, UplRemovesTar, UplReports, UplGoes, NoUpl, storeVars, StoreStep,
                            ForwardInv, TypeOK, UplType
<1>7. CASE UplStarts(c)
    BY <1>7 DEF StoreStep
<1> QED
    BY <1>2, <1>3, <1>4, <1>5, <1>6, <1>7 DEF AgentNext, UplReconciles, byAgent

\* Nobody else touches the store.
LEMMA EnvironmentStores ==
    ASSUME UserNext \/ WorldNext \/ \E p \in Processes : Informed(p)
    PROVE  StoreStep
BY IdleStores DEF UserNext, Create, Delete, WorldNext, PodStarts, PodDies, PodMoves, ShimParks,
                  DeadlinePasses, Informed, storeVars, agtVars

-----------------------------------------------------------------------------
CommitInv ==
    /\ Inv
    /\ Marked
    /\ ExpandInv
    /\ PublishesRecordedTar

\* No such change of the store commits part of a dump, but for what a deletion
\* tore of it.
LEMMA WholeStep ==
    ASSUME CommitInv, StoreStep
    PROVE  Marked' /\ ExpandInv'
<1>1. dir \in DirType /\ NoDump \notin Dump
    BY NoDumpAssumption DEF CommitInv, Inv, ForwardInv, TypeOK
<1>2. CASE Withdraws /\ (upl' = upl \/ upl'.pc # "expanding")
    <2>1. Marked'
        BY <1>2 DEF Withdraws, CommitInv, Marked
    <2>2. ExpandInv'
        BY <1>2 DEF Withdraws, CommitInv, ExpandInv, Filled
    <2> QED BY <2>1, <2>2
<1>3. CASE UplStarts(byAgent)
    <2>1. upl' = [pc |-> "expanding", snap |-> byAgent]
        BY <1>3 DEF UplStarts, UplGoes
    <2>2. CASE byAgent.spec.dir
        <3>1. dir' = [manifest |-> NoDump, whole |-> {}, part |-> Images \cup {byAgent.tar},
                      torn |-> dir.torn \ {byAgent.tar}]
            BY <1>3, <2>2 DEF UplStarts
        <3> QED BY <2>1, <3>1 DEF Marked, ExpandInv
    <2>3. CASE ~byAgent.spec.dir
        <3>1. UNCHANGED dir
            BY <1>3, <2>3 DEF UplStarts
        <3> QED BY <2>1, <2>3, <3>1 DEF CommitInv, Marked, ExpandInv, Filled
    <2> QED BY <2>2, <2>3
<1>4. CASE Published(upl.snap) /\ upl.pc = "expanding" /\ upl'.pc # "expanding"
    <2>1. ExpandInv'
        BY <1>4 DEF ExpandInv, Filled
    <2>2. CASE upl.snap.spec.dir
        <3> DEFINE d == upl.snap.tar
        <3>1. dir' = [Finished(d) EXCEPT !.manifest = d] /\ d \in dir.part
            BY <1>4, <2>2 DEF Published, CommitInv, ExpandInv, Filled
        <3>2. dir'.manifest = d /\ dir'.whole = (dir.part \cap {d}) \ dir.torn
              /\ dir'.torn = dir.torn
            BY <1>1, <3>1, FinishedTypeOK DEF DirType
        <3> QED BY <2>1, <3>1, <3>2 DEF Marked
    <2>3. CASE ~upl.snap.spec.dir
        BY <1>4, <2>1, <2>3 DEF Published, CommitInv, Marked
    <2> QED BY <2>2, <2>3
<1> QED BY <1>2, <1>3, <1>4 DEF StoreStep

(* What a step leaves at the URI of a completed object.                    *)
LEMMA RecordedStep ==
    ASSUME CommitInv, StoreStep, Facts
    PROVE  PublishesRecordedTar'
<1> SUFFICES ASSUME obj'.phase = "Completed", Live(obj')
             PROVE  Committed(obj.spec)' \in {obj'.tar, NoDump}
    BY DEF PublishesRecordedTar
<1>1. \/ obj' = obj
      \/ Kept
    BY AbsentFields DEF Facts, Evolves
<1>2. CASE obj.phase # "Completed"
    <2>1. Kept
        BY <1>1, <1>2
    <2>2. Live(obj)
        BY <2>1 DEF Kept, Live
    <2>3. Committed(obj.spec) = obj.tar /\ UNCHANGED <<dir, tarball>> /\ obj'.tar = obj.tar
        BY <1>2, <2>1, <2>2 DEF Facts, Accepts
    <2> QED BY <2>1, <2>3 DEF Kept, Committed
<1>3. CASE obj.phase = "Completed"
    <2>1. Live(obj) /\ obj'.tar = obj.tar /\ obj'.spec = obj.spec
        BY <1>1, <1>3 DEF Kept, Live
    <2>2. Committed(obj.spec) \in {obj.tar, NoDump}
        BY <1>3, <2>1 DEF CommitInv, Inv, ForwardInv, PublishesRecordedTar
    <2>3. CASE Withdraws /\ tarball' \in {tarball, NoDump}
        BY <2>1, <2>2, <2>3 DEF Withdraws, Committed
    <2>4. CASE UplStarts(byAgent)
        BY <2>1, <2>2, <2>4 DEF UplStarts, Committed
    <2>5. CASE Published(upl.snap) /\ upl.pc = "expanding"
        <3>1. Stage = "completed" /\ Named = obj.tar
            BY <1>3, <2>1 DEF Stage, Named, Live
        <3>2. upl.snap.tar = obj.tar
            BY <2>5, <3>1, UploadIsOwn DEF CommitInv
        <3>3. dir \in DirType
            BY DEF CommitInv, Inv, ForwardInv, TypeOK
        <3>4. upl.snap.spec.dir => dir'.manifest = upl.snap.tar
            BY <2>5, <3>3, FinishedTypeOK DEF Published, DirType
        <3> QED BY <2>1, <2>2, <2>5, <3>2, <3>4 DEF Published, Committed
    <2> QED BY <2>3, <2>4, <2>5 DEF StoreStep
<1> QED BY <1>2, <1>3

(* The inductive invariant of both theorems.                               *)
LEMMA CommitInvariant == AllKubelet => (Spec => []CommitInv)
<1> SUFFICES ASSUME AllKubelet PROVE Spec => []CommitInv
    OBVIOUS
<1>1. ASSUME Init PROVE CommitInv
    <2>1. Inv
        BY <1>1, InitLife
    <2>2. dir.manifest = NoDump /\ upl.pc = "idle" /\ obj.phase = "Gone"
        BY <1>1, AbsentFields DEF Init, EmptyDir, NoUpl
    <2> QED BY <2>1, <2>2 DEF CommitInv, Marked, ExpandInv, Filled, PublishesRecordedTar
<1>2. ASSUME CommitInv, Next PROVE CommitInv'
    <2>1. Inv' /\ Facts
        BY <1>2, InvStep DEF CommitInv
    <2>2. StoreStep
        BY <1>2, ManagerStores, AgentStores, EnvironmentStores DEF Next, CommitInv, Inv, ForwardInv
    <2> QED BY <1>2, <2>1, <2>2, WholeStep, RecordedStep DEF CommitInv
<1>3. ASSUME CommitInv, UNCHANGED vars PROVE CommitInv'
    <2>1. Inv'
        BY <1>3, InvStutters DEF CommitInv
    <2> QED
        BY <1>3, <2>1
        DEF CommitInv, Marked, ExpandInv, Filled, PublishesRecordedTar, Live, Exists, Committed, vars
<1> QED BY <1>1, <1>2, <1>3, PTL DEF Spec

\* A MANIFEST is only ever over the whole dump it was written for, or over one
\* that a deletion went on tearing and that is no live object's: an upload
\* un-commits before it writes, and an upload that runs beside a deletion is of
\* an object that is gone (upload_controller.go upload, store.go Delete,
\* podsnapshot_controller.go reconcileDelete).
THEOREM CommittedIsWhole == AllKubelet => (Spec => []CommittedWhole)
<1>1. CommitInv => Marked
    BY DEF CommitInv
<1> QED BY <1>1, CommitInvariant, OwnInvariant, MarkedIsCommitted, PTL

\* What a completed snapshot has at its URI is the tar its status names, or
\* nothing while its upload is repeated, however many tars the kubelet wrote
\* (podsnapshot_controller.go reconcileCheckpointing, upload_controller.go upload).
THEOREM RecordedTarPublished == AllKubelet => (Spec => []PublishesRecordedTar)
BY CommitInvariant, PTL DEF CommitInv

-----------------------------------------------------------------------------
(***************************************************************************)
(* The agent's artifacts.  Where every directory is asked of the agent and *)
(* every agent advertises that it can, only its checkpointer writes one.   *)
(* The formats are not mixed under one name, or the name is used once:     *)
(* what a call to the kubelet returns for an object that is gone could     *)
(* else be recorded on the next, and uploaded into its directory.          *)
(***************************************************************************)
AgentDirs ==
    /\ \A s \in Specs : s.dir => s.agent
    /\ \A n \in Nodes : n.advertises
    /\ MaxLives = 1 \/ \A s \in Specs : s.dir

\* No object completes while the artifact of one before it is deleted.
NoLateDelete == MaxLives = 1 \/ \A s \in Specs : ~s.delete

\* The object and every copy a reconciler may act on.
Seen == {obj, byManager, byAgent}

\* Nothing was asked for under the name yet.
Untouched ==
    /\ \A c \in Seen : ~Exists(c)
    /\ dir.manifest = NoDump
    /\ ckpt.pc = "idle" /\ upl.pc = "idle" /\ call.pc = "idle" /\ del.pc = "idle"

\* The objects have directories, and none of them is the kubelet's.
KubeletSilent ==
    /\ call.pc = "idle" /\ upl.pc = "idle"
    /\ \A c \in Seen : Exists(c) => c.spec.dir /\ c.phase \notin {"Checkpointed", "Uploading"}

\* The one object has a tar, and there is no directory.
AgentSilent ==
    /\ MaxLives = 1
    /\ dir.manifest = NoDump
    /\ ckpt.pc \in Fruitless
    /\ upl.pc # "idle" => ~upl.snap.spec.dir
    /\ \A c \in Seen : Exists(c) => ~c.spec.dir

OneWriter ==
    /\ node.advertises
    /\ \A c \in Seen : Exists(c) => c.spec \in Specs
    /\ upl.pc # "idle" => Exists(upl.snap) /\ upl.snap.tar \in Dump
    /\ KubeletSilent \/ AgentSilent
    /\ obj.life = 0 => Untouched

(***************************************************************************)
(* From the moment the checkpoint worker decides to fill the directory     *)
(* until its MANIFEST is in, there is no MANIFEST for a deletion to list   *)
(* files by; one that listed them before is at the files of another dump.  *)
(***************************************************************************)
DumpInv ==
    /\ ckpt.pc \in Filling => dir.manifest = NoDump
    /\ ckpt.pc = "dumping" =>
        dir.whole = {} /\ dir.part = {ckpt.dump} /\ ckpt.dump # del.dump
    /\ ckpt.pc = "publishing" => ckpt.dump \in dir.whole \cup dir.torn
    /\ Marked

(***************************************************************************)
(* The artifact is there when a worker is about to write Completed, not    *)
(* only when it has: complete looks at neither the phase nor the store.    *)
(***************************************************************************)
OwedInv ==
    /\ \A c \in Seen : c.finalizer => Exists(c) /\ c.spec.delete
    /\ byManager.deleting /\ byManager.finalizer => ~Live(obj)
    /\ del.pc # "idle" => ~Live(obj) /\ MaxLives = 1
    /\ ckpt.pc = "completing" /\ (Live(obj) \/ MaxLives # 1) => dir.manifest # NoDump
    /\ upl.pc \in {"removing", "reporting"} /\ Live(obj) => tarball # NoDump
    /\ CompletedIsCommitted

-----------------------------------------------------------------------------
\* What is seen after a step was seen before it, but for the object.
LEMMA SeenAfter ==
    ASSUME Informs
    PROVE  Seen' \subseteq Seen \cup {obj'}
BY DEF Informs, Seen, byManager, byAgent, Processes

\* A new object gives the name to whichever checkpointer writes its format.
LEMMA CreateKeepsWriter ==
    ASSUME AgentDirs, TypeOK, OneWriter, NEW s \in Specs, Create(s)
    PROVE  OneWriter'
<1>1. /\ obj' = [Absent(obj.life + 1) EXCEPT !.spec = s, !.phase = "New"]
      /\ obj.life < MaxLives
      /\ UNCHANGED <<cache, node, dir, call, ckpt, upl>>
    BY DEF Create, worldVars, storeVars, mgrVars, agtVars
<1>2. obj'.life = obj.life + 1 /\ obj'.spec = s /\ obj'.phase = "New"
    BY <1>1 DEF Absent
<1>3. Seen' \subseteq Seen \cup {obj'}
    BY <1>1 DEF Seen, byManager, byAgent
<1>4. obj.life \in Nat
    BY DEF TypeOK, ObjType
<1>5. obj'.life # 0
    BY <1>2, <1>4
<1>6. ~s.dir \/ AgentSilent => Untouched /\ MaxLives = 1
    BY <1>1, <1>4 DEF AgentDirs, AgentSilent, OneWriter
<1>7. KubeletSilent' \/ AgentSilent'
    <2>1. CASE s.dir
        <3>1. KubeletSilent
            BY <1>6 DEF OneWriter, Untouched, KubeletSilent
        <3> QED BY <1>1, <1>2, <1>3, <2>1, <3>1 DEF KubeletSilent
    <2>2. CASE ~s.dir
        BY <1>1, <1>2, <1>3, <1>6, <2>2 DEF AgentSilent, Untouched, Fruitless
    <2> QED BY <2>1, <2>2
<1>8. (\A c \in Seen : Exists(c) => c.spec \in Specs)'
    BY <1>2, <1>3 DEF OneWriter
<1>9. (upl.pc # "idle" => Exists(upl.snap) /\ upl.snap.tar \in Dump)'
    BY <1>1 DEF OneWriter, Exists
<1> QED BY <1>1, <1>5, <1>7, <1>8, <1>9 DEF OneWriter

\* No step gives a directory a second writer.
LEMMA OneWriterStep ==
    ASSUME AgentDirs, TypeOK, OneWriter, Effects
    PROVE  OneWriter'
<1>1. CASE \E s \in Specs : Create(s)
    BY <1>1, CreateKeepsWriter
<1>2. CASE obj' = obj \/ Amends(obj, obj') \/ obj' = Absent(obj.life)
    <2>1. /\ Exists(obj') => Exists(obj) /\ obj'.spec = obj.spec
          /\ obj'.life = obj.life
        BY <1>2, AbsentFields DEF Amends, Exists
    <2>2. Seen' \subseteq Seen \cup {obj'} /\ obj \in Seen /\ byManager \in Seen /\ byAgent \in Seen
        BY SeenAfter DEF Effects, Seen
    <2>3. (\A c \in Seen : Exists(c) => c.spec \in Specs)'
        BY <2>1, <2>2 DEF OneWriter, Exists
    <2>4. (upl.pc # "idle" => Exists(upl.snap) /\ upl.snap.tar \in Dump)'
        BY DEF OneWriter, Effects, Works, Exists
    <2>5. ASSUME KubeletSilent PROVE KubeletSilent'
        <3>1. ~FallsBack(byManager)
            BY <2>2, <2>5
            DEF FallsBack, Reconciling, Live, AgentCheckpoints, KubeletSilent, OneWriter, AgentDirs
        <3>2. ~(byAgent.phase = "Uploading")
            BY <2>2, <2>5 DEF KubeletSilent, Exists
        <3>3. call'.pc = "idle" /\ upl'.pc = "idle"
            BY <2>5, <3>1, <3>2 DEF KubeletSilent, Effects, Works
        <3>4. Exists(obj') => obj'.spec.dir /\ obj'.phase \notin {"Checkpointed", "Uploading"}
            BY <1>2, <2>1, <2>2, <2>5, AbsentFields DEF KubeletSilent, Amends, Exists
        <3>5. (\A c \in Seen : Exists(c) => c.spec.dir /\ c.phase \notin {"Checkpointed", "Uploading"})'
            BY <2>2, <2>5, <3>4 DEF KubeletSilent, Exists
        <3> QED BY <3>3, <3>5 DEF KubeletSilent
    <2>6. ASSUME AgentSilent PROVE AgentSilent'
        <3>1. dir'.manifest = NoDump
            BY <2>6 DEF AgentSilent, Effects, Works, Filled, Fruitless
        <3>2. ckpt'.pc \in Fruitless
            BY <2>2, <2>6 DEF AgentSilent, Effects, Works
        <3>3. (upl.pc # "idle" => ~upl.snap.spec.dir)'
            BY <2>2, <2>6 DEF AgentSilent, Effects, Works, Exists
        <3>4. (\A c \in Seen : Exists(c) => ~c.spec.dir)'
            BY <2>1, <2>2, <2>6 DEF AgentSilent, Exists
        <3> QED BY <2>6, <3>1, <3>2, <3>3, <3>4 DEF AgentSilent
    <2>7. (obj.life = 0 => Untouched)'
        <3> SUFFICES ASSUME obj'.life = 0 PROVE Untouched'
            OBVIOUS
        <3>1. Untouched
            BY <2>1 DEF OneWriter
        <3>2. (\A c \in Seen : ~Exists(c))'
            BY <2>1, <2>2, <3>1 DEF Untouched, Exists
        <3>3. ~FallsBack(byManager) /\ ~(byAgent.phase = "Uploading") /\ ~Deleting(byManager)
            BY <2>2, <3>1 DEF Untouched, FallsBack, Reconciling, Deleting, Live, Exists
        <3>4. /\ ckpt'.pc = "idle" /\ upl'.pc = "idle" /\ call'.pc = "idle" /\ del'.pc = "idle"
              /\ dir'.manifest = NoDump
            BY <2>2, <3>1, <3>3 DEF Untouched, Effects, Works, Filled
        <3> QED BY <3>2, <3>4 DEF Untouched
    <2> QED
        BY <2>3, <2>4, <2>5, <2>6, <2>7 DEF OneWriter, Effects, Works
<1> QED BY <1>1, <1>2 DEF Effects, Objects

\* Nobody but the checkpoint worker writes the directory it fills.
LEMMA DumpStep ==
    ASSUME TypeOK, OneWriter, OwnInv, DumpInv, Effects, Tracks
    PROVE  DumpInv'
<1>1. ~Filled /\ ~(byAgent.phase = "Uploading" /\ byAgent.spec.dir)
    BY DEF OneWriter, KubeletSilent, AgentSilent, Filled, Seen, Exists
<1>2. dir \in DirType /\ ckpt \in CkptType /\ NoDump \notin Dump
    BY NoDumpAssumption DEF TypeOK
<1>3. ckpt.pc = "dumping" => ckpt.dump # del'.dump
    <2>1. ckpt.pc = "dumping" => dir.manifest = NoDump /\ ckpt.dump # del.dump /\ ckpt.dump # NoDump
        BY <1>2 DEF DumpInv, Filling, DirType
    <2> QED BY <2>1 DEF Tracks, TracksDumps
<1>4. CASE UNCHANGED dir /\ (ckpt' = ckpt \/ ckpt'.pc \notin Filling)
    BY <1>3, <1>4 DEF DumpInv, Marked, Filling
<1>5. CASE UNCHANGED dir /\ ckpt'.pc = "clearing" /\ dir.manifest = NoDump
    BY <1>5 DEF DumpInv, Marked
<1>6. CASE UNCHANGED ckpt /\ Withdraws
    <2>1. Marked'
        BY <1>6 DEF Withdraws, DumpInv, Marked
    <2>2. ASSUME ckpt.pc = "dumping" PROVE dir'.whole = {} /\ dir'.part = {ckpt.dump}
        <3>1. dir.whole = {} /\ dir.part = {ckpt.dump} /\ ckpt.dump # del.dump
            BY <2>2 DEF DumpInv
        <3> QED BY <1>6, <3>1 DEF Withdraws, Images
    <2>3. ckpt.pc = "publishing" => ckpt.dump \in dir'.whole \cup dir'.torn
        BY <1>6 DEF Withdraws, DumpInv
    <2>4. ckpt.pc \in Filling => dir'.manifest = NoDump
        BY <1>6 DEF Withdraws, DumpInv
    <2> QED BY <1>3, <1>6, <2>1, <2>2, <2>3, <2>4 DEF DumpInv
<1>7. ASSUME NEW d \in Dump, CkptStartsDump(d) PROVE DumpInv'
    <2>1. ckpt' = [ckpt EXCEPT !.pc = "dumping", !.dump = d] /\ dir' = [EmptyDir EXCEPT !.part = {d}]
          /\ UNCHANGED del /\ Fresh(d)
        BY <1>7 DEF CkptStartsDump, CkptGoes, mgrVars
    <2>2. ckpt'.pc = "dumping" /\ ckpt'.dump = d
        BY <1>2, <2>1 DEF CkptType
    <2>3. dir'.manifest = NoDump /\ dir'.whole = {} /\ dir'.part = {d}
        BY <2>1 DEF EmptyDir
    <2>4. d # del'.dump
        BY <1>2, <2>1 DEF OwnInv, Begun
    <2> QED BY <2>2, <2>3, <2>4 DEF DumpInv, Marked
<1>8. CASE CkptDumps
    <2>1. dir.whole = {} /\ dir.part = {ckpt.dump} /\ dir.manifest = NoDump
        BY <1>8 DEF CkptDumps, DumpInv, Filling
    <2>2. dir' = Finished(ckpt.dump) /\ ckpt' = [ckpt EXCEPT !.pc = "publishing"]
        BY <1>8, <2>1 DEF CkptDumps, Images
    <2>3. dir'.manifest = NoDump /\ dir'.whole = {ckpt.dump} \ dir.torn /\ dir'.torn = dir.torn
        <3> DEFINE d == ckpt.dump
        <3>1. /\ Finished(d).manifest = dir.manifest /\ Finished(d).torn = dir.torn
              /\ Finished(d).whole = (dir.part \cap {d}) \ dir.torn
            BY <1>2, FinishedTypeOK
        <3>2. dir.part \cap {d} = {d}
            BY <2>1
        <3> QED BY <2>1, <2>2, <3>1, <3>2
    <2>4. ckpt'.dump = ckpt.dump /\ ckpt'.pc = "publishing"
        BY <1>2, <2>2 DEF CkptType
    <2> QED BY <2>3, <2>4 DEF DumpInv, Marked
<1>9. CASE CkptPublishes \/ CkptPublishFails
    <2>1. /\ ckpt.dump \in dir.whole \cup dir.torn
          /\ \E m \in {NoDump, ckpt.dump} : dir' = [dir EXCEPT !.manifest = m]
        BY <1>9 DEF CkptPublishes, CkptPublishFails, DumpInv
    <2>2. dir'.whole = dir.whole /\ dir'.torn = dir.torn /\ dir'.manifest \in {NoDump, ckpt.dump}
        BY <1>2, <2>1 DEF DirType
    <2>3. ckpt'.pc \in {"completing", "failing"}
        BY <1>2, <1>9 DEF CkptPublishes, CkptPublishFails, CkptGoes, CkptFailure, NoCkpt, CkptType
    <2> QED BY <2>1, <2>2, <2>3 DEF DumpInv, Marked, Filling
<1> QED BY <1>1, <1>4, <1>5, <1>6, <1>7, <1>8, <1>9 DEF Effects, Dumps
-----------------------------------------------------------------------------
\* Only the manager's deletion takes a MANIFEST away ...
LEMMA ManifestTaken ==
    ASSUME TypeOK, OneWriter, DumpInv, Effects, dir.manifest # NoDump, dir'.manifest = NoDump
    PROVE  del.pc # "idle"
<1>1. ~Filled /\ ~(byAgent.phase = "Uploading" /\ byAgent.spec.dir)
    BY DEF OneWriter, KubeletSilent, AgentSilent, Filled, Seen, Exists
<1>2. ckpt.pc \notin Filling
    BY DEF DumpInv
<1>3. ~CkptDumps /\ ~CkptPublishes /\ ~CkptPublishFails /\ \A d \in Dump : ~CkptStartsDump(d)
    BY <1>2 DEF CkptDumps, CkptPublishes, CkptPublishFails, CkptStartsDump, Filling
<1>4. Withdraws
    BY <1>1, <1>3 DEF Effects, Dumps
<1> QED BY <1>4 DEF Withdraws

\* ... or a tar.
LEMMA TarTaken ==
    ASSUME OneWriter, Effects, tarball # NoDump, tarball' = NoDump
    PROVE  Deleting(byManager)
BY NoDumpAssumption DEF OneWriter, Effects, Owes

\* It reconciles an object that is not live any more, and no other will be.
LEMMA DeletesTheLast ==
    ASSUME NoLateDelete, OneWriter, OwedInv, Deleting(byManager) \/ del.pc # "idle"
    PROVE  ~Live(obj) /\ MaxLives = 1
<1>1. CASE Deleting(byManager)
    <2>1. byManager \in Seen /\ byManager.deleting /\ byManager.finalizer
        BY <1>1 DEF Deleting, Seen
    <2>2. Exists(byManager) /\ byManager.spec.delete /\ ~Live(obj)
        BY <2>1 DEF OwedInv
    <2> QED BY <2>1, <2>2 DEF NoLateDelete, OneWriter
<1>2. CASE del.pc # "idle"
    BY <1>2 DEF OwedInv
<1> QED BY <1>1, <1>2

\* An object that is created while something is owed is one of several.
LEMMA CreatedFirst ==
    ASSUME TypeOK, OneWriter, NEW s \in Specs, Create(s), MaxLives = 1
    PROVE  Untouched
<1>1. obj.life < 1 /\ obj.life \in Nat
    BY DEF Create, TypeOK, ObjType
<1>2. obj.life = 0
    BY <1>1
<1> QED BY <1>2 DEF OneWriter

\* The object lives on.
LEMMA LivesOn ==
    ASSUME Objects, Live(obj'), \A s \in Specs : ~Create(s)
    PROVE  Live(obj) /\ obj'.spec = obj.spec
BY AbsentFields DEF Objects, Amends, Live, Exists

\* The finalizer is there for the artifact's sake only, and an object the
\* manager knows to be leaving does not come back.
LEMMA FinalizerStep ==
    ASSUME AgentDirs, NoLateDelete, TypeOK, OneWriter, OwedInv, Effects
    PROVE  /\ \A c \in Seen' : c.finalizer => Exists(c) /\ c.spec.delete
           /\ (byManager.deleting /\ byManager.finalizer => ~Live(obj))'
<1>1. obj \in Seen /\ byManager \in Seen /\ Seen' \subseteq Seen \cup {obj'}
    BY SeenAfter DEF Effects, Seen
<1>2. CASE obj' = obj \/ Amends(obj, obj') \/ obj' = Absent(obj.life)
    <2>1. obj'.finalizer => Exists(obj') /\ obj'.spec.delete
        <3>1. CASE obj' = obj \/ Amends(obj, obj')
            BY <1>1, <3>1 DEF OwedInv, Amends, Exists
        <3>2. CASE obj' = Absent(obj.life)
            BY <3>2 DEF Absent
        <3> QED BY <1>2, <3>1, <3>2
    <2>2. Live(obj') => Live(obj)
        BY <1>2, AbsentFields DEF Amends, Live, Exists
    <2>3. byManager' \in {byManager, obj, obj'}
        BY DEF Effects, Informs, byManager, Processes
    <2>4. (byManager.deleting /\ byManager.finalizer => ~Live(obj))'
        BY <2>2, <2>3 DEF OwedInv, Live
    <2> QED BY <1>1, <2>1, <2>4 DEF OwedInv
<1>3. ASSUME NEW s \in Specs, Create(s)
      PROVE  /\ \A c \in Seen' : c.finalizer => Exists(c) /\ c.spec.delete
             /\ (byManager.deleting /\ byManager.finalizer => ~Live(obj))'
    <2>1. obj' = [Absent(obj.life + 1) EXCEPT !.spec = s, !.phase = "New"] /\ UNCHANGED cache
        BY <1>3 DEF Create
    <2>2. ~obj'.finalizer /\ byManager' = byManager
        BY <2>1 DEF Absent, byManager
    <2>3. ~byManager.finalizer
        <3>1. CASE MaxLives = 1
            BY <1>1, <1>3, <3>1, CreatedFirst DEF OwedInv, Untouched
        <3>2. CASE \A t \in Specs : ~t.delete
            BY <1>1, <3>2 DEF OwedInv, OneWriter
        <3> QED BY <3>1, <3>2 DEF NoLateDelete
    <2> QED BY <1>1, <2>2, <2>3 DEF OwedInv
<1> QED BY <1>2, <1>3 DEF Effects, Objects

\* A deletion that goes on is of the last object.
LEMMA DeletionStep ==
    ASSUME AgentDirs, NoLateDelete, TypeOK, OneWriter, OwedInv, Effects
    PROVE  (del.pc # "idle" => ~Live(obj) /\ MaxLives = 1)'
<1> SUFFICES ASSUME del'.pc # "idle" PROVE ~Live(obj') /\ MaxLives = 1
    OBVIOUS
<1>1. ~Live(obj) /\ MaxLives = 1
    BY DeletesTheLast DEF Effects, Works
<1>2. ASSUME NEW s \in Specs, Create(s) PROVE FALSE
    <2>1. Untouched
        BY <1>1, <1>2, CreatedFirst
    <2>2. ~Deleting(byManager) /\ del.pc = "idle"
        BY <2>1 DEF Untouched, Deleting, Seen
    <2> QED BY <2>2 DEF Effects, Works
<1> QED BY <1>1, <1>2, LivesOn DEF Effects

\* A worker that is to write Completed has its artifact committed.
LEMMA WorkersStep ==
    ASSUME AgentDirs, NoLateDelete, TypeOK, OneWriter, OneWriter', DumpInv, OwedInv, Effects
    PROVE  /\ (ckpt.pc = "completing" /\ (Live(obj) \/ MaxLives # 1) => dir.manifest # NoDump)'
           /\ (upl.pc \in {"removing", "reporting"} /\ Live(obj) => tarball # NoDump)'
<1>1. ASSUME ckpt'.pc = "completing", Live(obj') \/ MaxLives # 1
      PROVE  dir'.manifest # NoDump
    <2>1. CASE ckpt' = ckpt
        <3>1. Live(obj) \/ MaxLives # 1
            <4>1. ASSUME MaxLives = 1 PROVE \A s \in Specs : ~Create(s)
                BY <1>1, <2>1, <4>1, CreatedFirst DEF Untouched
            <4> QED BY <1>1, <4>1, LivesOn DEF Effects
        <3>2. dir.manifest # NoDump
            BY <1>1, <2>1, <3>1 DEF OwedInv
        <3> QED BY <3>1, <3>2, ManifestTaken, DeletesTheLast
    <2>2. CASE CkptPublishes
        <3>1. dir' = [dir EXCEPT !.manifest = ckpt.dump] /\ ckpt.dump \in dir.whole \cup dir.torn
            BY <2>2 DEF CkptPublishes, DumpInv
        <3> QED BY <3>1, NoDumpAssumption DEF TypeOK, DirType
    <2> QED BY <1>1, <2>1, <2>2 DEF Effects, Owes
<1>2. ASSUME upl'.pc \in {"removing", "reporting"}, Live(obj')
      PROVE  tarball' # NoDump
    <2>1. upl.pc # "idle"
        BY <1>2 DEF Effects, Owes
    <2>2. AgentSilent
        BY <2>1 DEF OneWriter, KubeletSilent
    <2>3. \A s \in Specs : ~Create(s)
        BY <2>1, <2>2, CreatedFirst DEF AgentSilent, Untouched
    <2>4. Live(obj)
        BY <1>2, <2>3, LivesOn DEF Effects
    <2>5. CASE upl.pc \in {"removing", "reporting"}
        BY <2>4, <2>5, TarTaken, DeletesTheLast DEF OwedInv
    <2>6. CASE upl.pc = "expanding" /\ Published(upl.snap)
        BY <2>1, <2>2, <2>6, NoDumpAssumption DEF AgentSilent, OneWriter, Published
    <2> QED BY <1>2, <2>5, <2>6 DEF Effects, Owes
<1> QED BY <1>1, <1>2

\* What is committed for a live object stays committed.
LEMMA CompletedStep ==
    ASSUME NoLateDelete, TypeOK, OneWriter, DumpInv, OwedInv, Effects
    PROVE  CompletedIsCommitted'
<1> SUFFICES ASSUME obj'.phase = "Completed", Live(obj')
             PROVE  Committed(obj.spec)' # NoDump
    BY DEF CompletedIsCommitted
<1>1. \A s \in Specs : ~Create(s)
    BY DEF Create, Absent
<1>2. Live(obj) /\ obj'.spec = obj.spec
    BY <1>1, LivesOn DEF Effects
<1>3. obj.phase = "Completed" \/ ckpt.pc = "completing" \/ upl.pc = "reporting"
    BY <1>1, <1>2, AbsentFields DEF Effects, Objects, Amends
<1>4. ~Deleting(byManager) /\ del.pc = "idle"
    BY <1>2, DeletesTheLast
<1>5. Committed(obj.spec) # NoDump
    <2>1. obj \in Seen /\ Exists(obj)
        BY <1>2 DEF Seen, Live
    <2>2. CASE obj.phase = "Completed"
        BY <1>2, <2>2 DEF OwedInv, CompletedIsCommitted
    <2>3. CASE ckpt.pc = "completing"
        <3>1. obj.spec.dir
            BY <2>1, <2>3 DEF OneWriter, AgentSilent, KubeletSilent, Fruitless
        <3> QED BY <1>2, <2>3, <3>1 DEF OwedInv, Committed
    <2>4. CASE upl.pc = "reporting"
        <3>1. ~obj.spec.dir
            BY <2>1, <2>4 DEF OneWriter, AgentSilent, KubeletSilent
        <3> QED BY <1>2, <2>4, <3>1 DEF OwedInv, Committed
    <2> QED BY <1>3, <2>2, <2>3, <2>4
<1>6. CASE obj.spec.dir
    BY <1>2, <1>4, <1>5, <1>6, ManifestTaken DEF Committed
<1>7. CASE ~obj.spec.dir
    BY <1>2, <1>4, <1>5, <1>7, TarTaken DEF Committed
<1> QED BY <1>6, <1>7

LEMMA OwedStep ==
    ASSUME AgentDirs, NoLateDelete, TypeOK, OneWriter, OneWriter', DumpInv, OwedInv, Effects
    PROVE  OwedInv'
<1>1. CompletedIsCommitted'
    BY CompletedStep
<1> QED BY <1>1, FinalizerStep, DeletionStep, WorkersStep DEF OwedInv

-----------------------------------------------------------------------------
\* Nothing is there and nobody has seen anything.
LEMMA AgentInit ==
    ASSUME AgentDirs, Init
    PROVE  OneWriter /\ DumpInv /\ OwedInv
<1>1. /\ obj = Absent(0) /\ byManager = Absent(0) /\ byAgent = Absent(0)
      /\ dir.manifest = NoDump /\ ckpt.pc = "idle" /\ upl.pc = "idle" /\ call.pc = "idle"
      /\ del.pc = "idle"
    BY DEF Init, EmptyDir, NoCkpt, NoUpl, NoCall, NoDel, byManager, byAgent, Processes
<1>2. \A c \in Seen : ~Exists(c) /\ ~c.finalizer /\ ~c.deleting
    BY <1>1 DEF Seen, Absent, Exists
<1>3. node.advertises
    BY DEF Init, AgentDirs
<1>4. Untouched /\ KubeletSilent
    BY <1>1, <1>2 DEF Untouched, KubeletSilent
<1>5. OneWriter
    BY <1>1, <1>2, <1>3, <1>4 DEF OneWriter
<1>6. DumpInv
    BY <1>1 DEF DumpInv, Marked, Filling
<1>7. OwedInv
    BY <1>1, <1>2 DEF OwedInv, CompletedIsCommitted, Seen, Live
<1> QED BY <1>5, <1>6, <1>7

\* No step undoes what the two theorems rest on.
LEMMA AgentStep ==
    ASSUME AgentDirs, TypeOK, OriginInv, OwnInv, OneWriter, DumpInv, [Next]_vars
    PROVE  Effects /\ OneWriter' /\ DumpInv'
<1>1. Effects /\ Tracks
    BY StepEffects, StepTracks
<1> QED BY <1>1, OneWriterStep, DumpStep

\* A directory has a MANIFEST only over the whole dump it was written for, or one
\* that was torn and is no live object's, when the agent dumps straight into it:
\* the worker verifies it empty, dumps, then commits, and what a deletion is
\* still removing there is listed by the name of its file, not by its dump
\* (checkpoint_controller.go clearArtifactDir and checkpoint, publish.go PublishDir,
\* store.go Delete).
THEOREM AgentCommitsWhole == AgentDirs => (Spec => []CommittedWhole)
<1> SUFFICES ASSUME AgentDirs PROVE Spec => []CommittedWhole
    OBVIOUS
<1> DEFINE AInv == OneWriter /\ DumpInv
<1>1. Init => AInv
    BY AgentInit
<1>2. TypeOK /\ OriginInv /\ OwnInv /\ AInv /\ [Next]_vars => AInv'
    BY AgentStep
<1>3. AInv /\ OwnInv => CommittedWhole
    BY MarkedIsCommitted DEF DumpInv
<1> QED BY <1>1, <1>2, <1>3, TypeCorrect, DumpsOfPods, OwnInvariant, PTL DEF Spec

\* Whatever the checkpointer, the object says Completed while it lives only over
\* a committed artifact: both reconcilers write it after they committed, and
\* only a deletion un-commits (checkpoint_controller.go complete,
\* upload_controller.go upload, podsnapshot_controller.go reconcileDelete).
THEOREM CompletedCommitted ==
    AgentDirs /\ NoLateDelete => (Spec => []CompletedIsCommitted)
<1> SUFFICES ASSUME AgentDirs, NoLateDelete PROVE Spec => []CompletedIsCommitted
    OBVIOUS
<1> DEFINE AInv == OneWriter /\ DumpInv /\ OwedInv
<1>1. Init => AInv
    BY AgentInit
<1>2. TypeOK /\ OriginInv /\ OwnInv /\ AInv /\ [Next]_vars => AInv'
    BY AgentStep, OwedStep
<1>3. AInv => CompletedIsCommitted
    BY DEF OwedInv
<1> QED BY <1>1, <1>2, <1>3, TypeCorrect, DumpsOfPods, OwnInvariant, PTL DEF Spec
=============================================================================
