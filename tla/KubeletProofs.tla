--------------------------- MODULE KubeletProofs ---------------------------
(***************************************************************************)
(* A theorem about Snapshot when every user asks for the kubelet: phases   *)
(* only move forward, for any number of objects, dumps and restarts.       *)
(***************************************************************************)
EXTENDS SnapshotProofs

\* Nobody asks for the agent's checkpointer.
AllKubelet == \A s \in Specs : ~s.agent

(***************************************************************************)
(* Optimistic concurrency makes every write a write from the current       *)
(* object, so the guard a reconciler evaluated on its copy holds of what   *)
(* it overwrites.  Two writes need more: the agent's report, which looks   *)
(* at no phase, and so must never happen here; and the upload's, whose     *)
(* copy was read when the upload began, and so must still say Uploading.   *)
(***************************************************************************)
ForwardInv ==
    /\ TypeOK
    /\ ~obj.spec.agent
    /\ \A p \in Processes : ~cache[p].spec.agent
    /\ ckpt.pc = "idle"
    /\ upl.pc # "idle" => upl.snap.phase = "Uploading"

-----------------------------------------------------------------------------
\* A write that keeps the phase or raises it, while the upload reconciler stays
\* as it was or ends.
LEMMA WriteForward ==
    ASSUME ForwardInv, TypeOK', NEW c, NEW new, Write(c, new),
           new.spec = c.spec \/ new.spec = NoSpec,
           new.phase = c.phase \/ Rank(c.phase) < Rank(new.phase) \/ new.phase = "Gone",
           UNCHANGED ckpt, upl' \in {upl, NoUpl}
    PROVE  ForwardInv' /\ PhaseForward
<1>1. obj = c /\ obj' = new /\ UNCHANGED cache
  BY DEF Write, Current
<1>2. PhaseForward
  BY <1>1 DEF PhaseForward, Exists
<1>3. ~obj'.spec.agent
  BY <1>1 DEF ForwardInv, NoSpec
<1>4. (upl.pc # "idle" => upl.snap.phase = "Uploading")'
  BY DEF ForwardInv, NoUpl
<1>5. QED
  BY <1>1, <1>2, <1>3, <1>4 DEF ForwardInv

\* A step that writes nothing.
LEMMA SilentForward ==
    ASSUME ForwardInv, TypeOK', UNCHANGED obj, \A p \in Processes : cache'[p] \in {cache[p], obj},
           ckpt' \in {ckpt, NoCkpt}, upl'.pc # "idle" => upl'.snap.phase = "Uploading"
    PROVE  ForwardInv' /\ PhaseForward
  BY DEF ForwardInv, PhaseForward, NoCkpt

\* What the reconcilers write, by the phase they found.
LEMMA Ranks ==
    /\ Rank("New") < Rank("Pending")
    /\ Rank("Pending") < Rank("Quiescing")
    /\ Rank("Pending") < Rank("Checkpointing")
    /\ Rank("Quiescing") < Rank("Checkpointing")
    /\ Rank("Checkpointing") < Rank("Checkpointed")
    /\ Rank("Checkpointed") < Rank("Uploading")
    /\ Rank("Uploading") < Rank("Completed")
    /\ \A p \in {"Pending", "Quiescing", "Checkpointing", "Uploading"} : Rank(p) < Rank("Failed")
  BY DEF Rank

\* The phases and messages are those of the type, which PhaseTypeOK asks for.
LEMMA WordsTypeOK ==
    /\ {"New", "Pending", "Quiescing", "Checkpointing", "Checkpointed", "Uploading",
        "Completed", "Failed"} \subseteq Phases
    /\ {"none", "waiting", "agentRuns", "fallback", "tarMissing", "error"} \subseteq Messages
  BY DEF Phases, Terminal, Messages

\* The manager's reconciles, its goroutine, which drops late results, and
\* reconcileDelete only raise the phase.
LEMMA ManagerStepForward ==
    ASSUME ForwardInv, ManagerNext, TypeOK'
    PROVE  ForwardInv' /\ PhaseForward
<1> DEFINE c == cache["manager"]
<1>1. c \in ObjType /\ ~c.spec.agent /\ TypeOK
  BY DEF ForwardInv, TypeOK, CopyType, Processes
<1>2. ASSUME NEW new, ManagerWrites(c, new), new.spec = c.spec,
             new.phase = c.phase \/ Rank(c.phase) < Rank(new.phase)
      PROVE  ForwardInv' /\ PhaseForward
  BY <1>2, WriteForward DEF ManagerWrites, agtVars
<1>3. ASSUME NEW new \in Phases, NEW msg \in Messages, ManagerWrites(c, Phase(c, new, msg)),
             new = c.phase \/ Rank(c.phase) < Rank(new)
      PROVE  ForwardInv' /\ PhaseForward
  <2>1. Phase(c, new, msg).phase = new /\ Phase(c, new, msg).spec = c.spec
    BY <1>1, PhaseTypeOK
  <2>2. QED
    BY <1>2, <1>3, <2>1
<1>4. CASE AddFinalizer(c)
  <2>1. [c EXCEPT !.finalizer = TRUE].spec = c.spec /\ [c EXCEPT !.finalizer = TRUE].phase = c.phase
    BY <1>1 DEF ObjType
  <2>2. QED
    BY <1>2, <1>4, <2>1 DEF AddFinalizer
<1>5. CASE AcceptNew(c)
  BY <1>3, <1>5, Ranks, WordsTypeOK DEF AcceptNew
<1>6. CASE PendingWaits(c)
  BY <1>3, <1>6, WordsTypeOK DEF PendingWaits
<1>7. CASE PendingFails(c)
  BY <1>3, <1>7, Ranks, WordsTypeOK DEF PendingFails
<1>8. CASE PendingProceeds(c)
  <2> DEFINE next == IF c.spec.quiesce THEN "Quiescing" ELSE "Checkpointing"
             new  == [Phase(c, next, "none") EXCEPT !.artifact = TRUE]
  <2>1. ManagerWrites(c, new)
    BY <1>8 DEF PendingProceeds
  <2>2. next \in {"Quiescing", "Checkpointing"} /\ next \in Phases /\ "none" \in Messages
    BY WordsTypeOK
  <2>3. new.phase = next /\ new.spec = c.spec
    <3> HIDE DEF next
    <3>1. /\ Phase(c, next, "none") \in ObjType
          /\ Phase(c, next, "none").phase = next
          /\ Phase(c, next, "none").spec = c.spec
      BY <1>1, <2>2, PhaseTypeOK
    <3>2. QED
      BY <3>1 DEF ObjType
  <2>4. Rank(c.phase) < Rank(next)
    BY <1>8, <2>2, Ranks DEF PendingProceeds
  <2>5. QED
    <3> HIDE DEF new, next
    <3>1. QED
      BY <1>2, <2>1, <2>3, <2>4
<1>9. CASE QuiesceTimesOut(c)
  BY <1>3, <1>9, Ranks, WordsTypeOK DEF QuiesceTimesOut
<1>10. CASE LeaveToAgent(c)
  BY <1>3, <1>10, WordsTypeOK DEF LeaveToAgent
<1>11. CASE StartKubeletCall(c)
  <2>1. UNCHANGED <<obj, cache, ckpt, upl>>
    BY <1>1, <1>11 DEF StartKubeletCall, NotesFallback, apiVars, agtVars
  <2>2. QED
    BY <2>1, SilentForward DEF ForwardInv
<1>12. CASE NodeHasNoAddress(c)
  BY <1>3, <1>12, Ranks, WordsTypeOK DEF NodeHasNoAddress, FallsBack
<1>13. CASE ManagerDeletes(c) \/ RemovesFiles \/ KubeletAnswers \/ CallContextExpires
  <2>1. CASE ManagerDeletes(c) \/ RemovesFiles
    BY <1>1, <2>1, ManagerDeletesEffect, SilentForward DEF ForwardInv, apiVars, agtVars
  <2>2. CASE KubeletAnswers \/ CallContextExpires
    BY <2>2, SilentForward
    DEF ForwardInv, KubeletAnswers, KubeletFails, KubeletCheckpoints, CallContextExpires,
        apiVars, agtVars
  <2>3. QED
    BY <1>13, <2>1, <2>2
<1>14. CASE DropFinalizer
  <2>1. Absent(del.snap.life).phase = "Gone" /\ Absent(del.snap.life).spec = NoSpec
    BY DEF Absent
  <2>2. UNCHANGED <<ckpt, upl>>
    BY <1>14 DEF DropFinalizer, agtVars
  <2>3. CASE Write(del.snap, Absent(del.snap.life))
    BY <2>1, <2>2, <2>3, WriteForward
  <2>4. CASE UNCHANGED apiVars
    BY <2>2, <2>4, SilentForward DEF ForwardInv, apiVars
  <2>5. QED
    BY <1>14, <2>3, <2>4 DEF DropFinalizer
<1>15. CASE RecordCall(c)
  <2>1. UNCHANGED <<ckpt, upl>>
    BY <1>15 DEF RecordCall, agtVars
  <2>2. CASE c.phase = "Checkpointing" /\ Write(c, CallResult(c))
    <3>1. CallResult(c).phase \in {"Failed", "Checkpointed"}
      BY <1>1, CallResultTypeOK
    <3>2. CallResult(c).spec = c.spec
      <4>1. /\ Phase(c, "Failed", "error") \in ObjType
            /\ Phase(c, "Checkpointed", "none") \in ObjType
            /\ Phase(c, "Failed", "error").spec = c.spec
            /\ Phase(c, "Checkpointed", "none").spec = c.spec
        <5>1. {"Failed", "Checkpointed"} \subseteq Phases /\ {"error", "none"} \subseteq Messages
          BY WordsTypeOK
        <5>2. QED
          BY <1>1, <5>1, PhaseTypeOK
      <4>2. CASE call.tar = NoDump
        BY <4>1, <4>2 DEF CallResult
      <4>3. CASE call.tar # NoDump
        <5>1. CallResult(c) = [Phase(c, "Checkpointed", "none") EXCEPT !.tar = call.tar]
          BY <4>3 DEF CallResult
        <5>2. QED
          BY <4>1, <5>1 DEF ObjType
      <4>4. QED
        BY <4>2, <4>3
    <3>3. QED
      BY <2>1, <2>2, <3>1, <3>2, Ranks, WriteForward
  <2>3. CASE UNCHANGED apiVars
    BY <2>1, <2>3, SilentForward DEF ForwardInv, apiVars
  <2>4. QED
    BY <1>15, <2>2, <2>3 DEF RecordCall
<1>16. CASE ManagerRestarts
  <2>1. UNCHANGED <<obj, ckpt, upl>> /\ \A p \in Processes : cache'[p] \in {cache[p], obj}
    BY <1>1, <1>16 DEF ManagerRestarts, agtVars, TypeOK, CopyType
  <2>2. QED
    BY <2>1, SilentForward DEF ForwardInv
<1>17. QED
  BY <1>4, <1>5, <1>6, <1>7, <1>8, <1>9, <1>10, <1>11, <1>12, <1>13, <1>14, <1>15, <1>16
  DEF ManagerNext, ManagerReconciles

\* UploadReconciler claims, fails and completes from the copy it read, so each of
\* its writes raises the phase.
LEMMA UplStepForward ==
    ASSUME ForwardInv, NEW c \in ObjType, ~c.spec.agent, UplReconciles(c), TypeOK'
    PROVE  ForwardInv' /\ PhaseForward
<1>1. TypeOK /\ upl.snap \in ObjType
  BY DEF ForwardInv, TypeOK, UplType
<1>2. ASSUME NEW new \in Phases, NEW msg \in Messages, AgentWrites(c, Phase(c, new, msg)),
             Rank(c.phase) < Rank(new)
      PROVE  ForwardInv' /\ PhaseForward
  <2>1. Phase(c, new, msg).phase = new /\ Phase(c, new, msg).spec = c.spec
    BY PhaseTypeOK
  <2>2. QED
    BY <1>2, <2>1, WriteForward DEF AgentWrites, agtVars
<1>3. CASE UplClaims(c)
  BY <1>2, <1>3, Ranks, WordsTypeOK DEF UplClaims
<1>4. CASE UplRefuses(c)
  BY <1>2, <1>4, Ranks, WordsTypeOK DEF UplRefuses
<1>5. CASE UplFindsNoTar(c)
  BY <1>2, <1>5, Ranks, WordsTypeOK DEF UplFindsNoTar
<1>6. CASE UplStarts(c)
  BY <1>6, SilentForward DEF UplStarts, UplGoes, apiVars
<1>7. CASE UplPublishes \/ UplRemovesTar
  <2>1. upl'.snap = upl.snap /\ upl.pc # "idle" /\ UNCHANGED <<obj, cache, ckpt>>
    BY <1>7 DEF UplPublishes, UplRemovesTar, UplGoes, apiVars, ForwardInv, TypeOK, UplType
  <2>2. QED
    BY <2>1, SilentForward DEF ForwardInv
<1>8. CASE UplFails
  <2> DEFINE new == [upl.snap EXCEPT !.msg = "retrying"]
  <2>1. new.phase = upl.snap.phase /\ new.spec = upl.snap.spec
    BY <1>1 DEF ObjType
  <2>2. upl' = NoUpl /\ UNCHANGED ckpt
    BY <1>8 DEF UplFails, UplGoes
  <2>3. CASE Write(upl.snap, new)
    BY <2>1, <2>2, <2>3, WriteForward
  <2>4. CASE UNCHANGED apiVars
    BY <2>2, <2>4, SilentForward DEF apiVars, NoUpl
  <2>5. QED
    BY <1>8, <2>3, <2>4 DEF UplFails
<1>9. CASE UplReports
  <2>1. upl.snap.phase = "Uploading"
    BY <1>9 DEF UplReports, ForwardInv
  <2>2. Completed(upl.snap).phase = "Completed" /\ Completed(upl.snap).spec = upl.snap.spec
    BY <1>1, CompletedTypeOK
  <2>3. upl' = NoUpl /\ UNCHANGED ckpt
    BY <1>9 DEF UplReports, UplGoes
  <2>4. CASE Write(upl.snap, Completed(upl.snap))
    BY <2>1, <2>2, <2>3, <2>4, Ranks, WriteForward
  <2>5. CASE UNCHANGED apiVars
    BY <2>3, <2>5, SilentForward DEF apiVars, NoUpl
  <2>6. QED
    BY <1>9, <2>4, <2>5 DEF UplReports
<1>10. QED
  BY <1>3, <1>4, <1>5, <1>6, <1>7, <1>8, <1>9 DEF UplReconciles

\* Without an object that asks for the agent, the agent's only writers are
\* quiesce and upload, and both raise the phase.
LEMMA AgentStepForward ==
    ASSUME ForwardInv, AgentNext, TypeOK'
    PROVE  ForwardInv' /\ PhaseForward
<1> DEFINE c == cache["agent"]
<1>1. c \in ObjType /\ ~c.spec.agent /\ TypeOK
  BY DEF ForwardInv, TypeOK, CopyType, Processes
<1>2. CASE QuiesceSeen(c)
  <2> DEFINE new == Phase(c, "Checkpointing", "none")
  <2>1. new.phase = "Checkpointing" /\ new.spec = c.spec
    <3>1. "Checkpointing" \in Phases /\ "none" \in Messages
      BY WordsTypeOK
    <3>2. QED
      BY <1>1, <3>1, PhaseTypeOK
  <2>2. Write(c, new) /\ UNCHANGED <<ckpt, upl>> /\ c.phase = "Quiescing"
    BY <1>2 DEF QuiesceSeen, AgentWrites, agtVars
  <2>3. QED
    BY <2>1, <2>2, Ranks, WriteForward
<1>3. CASE CkptReconciles(c)
  <2>1. ckpt.pc = "idle" /\ ~Owns(c)
    BY <1>1 DEF ForwardInv, Owns
  <2>2. QED
    BY <1>3, <2>1
    DEF CkptReconciles, CkptRefuses, CkptFindsManifest, CkptRetries, CkptResolves, Dumpable,
        CkptCannotStart, CkptStartsDump, CkptDumps, CkptDumpFails, CkptPublishes,
        CkptPublishFails, CkptReports
<1>4. CASE UplReconciles(c)
  BY <1>1, <1>4, UplStepForward
<1>5. CASE AgentAdvertises
  BY <1>5, SilentForward DEF AgentAdvertises, ForwardInv, apiVars, agtVars
<1>6. CASE AgentRestarts
  <2>1. UNCHANGED obj /\ ckpt' = NoCkpt /\ upl' = NoUpl
        /\ \A p \in Processes : cache'[p] \in {cache[p], obj}
    BY <1>1, <1>6 DEF AgentRestarts, TypeOK, CopyType
  <2>2. QED
    BY <2>1, SilentForward DEF NoUpl
<1>7. QED
  BY <1>2, <1>3, <1>4, <1>5, <1>6 DEF AgentNext

\* The user replaces an object by one of a later life; nobody else writes it.
LEMMA EnvironmentStepForward ==
    ASSUME AllKubelet, ForwardInv, UserNext \/ WorldNext \/ \E p \in Processes : Informed(p),
           TypeOK'
    PROVE  ForwardInv' /\ PhaseForward
<1>1. obj \in ObjType /\ TypeOK
  BY DEF ForwardInv, TypeOK
<1>2. ASSUME NEW s \in Specs, Create(s)
      PROVE  ForwardInv' /\ PhaseForward
  <2>1. obj'.life # obj.life /\ obj'.spec = s
    <3>1. /\ Absent(obj.life + 1) = [life |-> obj.life + 1, spec |-> NoSpec, phase |-> "Gone",
                msg |-> "none", tar |-> NoDump, artifact |-> FALSE,
                deleting |-> FALSE, finalizer |-> FALSE]
          /\ obj.life \in Nat
      BY <1>1 DEF Absent, ObjType
    <3>2. QED
      BY <1>2, <3>1 DEF Create
  <2>2. UNCHANGED <<cache, ckpt, upl>>
    BY <1>2 DEF Create, agtVars
  <2>3. QED
    BY <2>1, <2>2 DEF AllKubelet, ForwardInv, PhaseForward
<1>3. CASE Delete
  <2>1. UNCHANGED <<cache, ckpt, upl>>
    BY <1>3 DEF Delete, agtVars
  <2>2. CASE obj.finalizer
    <3>1. obj'.phase = obj.phase /\ obj'.spec = obj.spec
      BY <1>1, <1>3, <2>2 DEF Delete, ObjType
    <3>2. QED
      BY <2>1, <3>1 DEF ForwardInv, PhaseForward
  <2>3. CASE ~obj.finalizer
    <3>1. obj'.phase = "Gone" /\ obj'.spec = NoSpec
      BY <1>3, <2>3 DEF Delete, Absent
    <3>2. QED
      BY <2>1, <3>1 DEF ForwardInv, PhaseForward, Exists, NoSpec
  <2>4. QED
    BY <2>2, <2>3
<1>4. CASE WorldNext
  <2>1. UNCHANGED <<obj, cache, ckpt, upl>>
    BY <1>4 DEF WorldNext, PodStarts, PodDies, PodMoves, ShimParks, DeadlinePasses,
                apiVars, agtVars
  <2>2. QED
    BY <2>1, SilentForward DEF ForwardInv
<1>5. ASSUME NEW p \in Processes, Informed(p)
      PROVE  ForwardInv' /\ PhaseForward
  <2>1. UNCHANGED <<obj, ckpt, upl>> /\ \A q \in Processes : cache'[q] \in {cache[q], obj}
    BY <1>1, <1>5 DEF Informed, agtVars, TypeOK, CopyType
  <2>2. QED
    BY <2>1, SilentForward DEF ForwardInv
<1>6. QED
  BY <1>2, <1>3, <1>4, <1>5 DEF UserNext

\* The invariant holds before the first object.
LEMMA InitForward == Init => ForwardInv
<1>1. ASSUME Init PROVE ForwardInv
  <2>1. TypeOK
    BY <1>1, InitTypeOK
  <2>2. Absent(0).spec = NoSpec
    BY DEF Absent
  <2>3. QED
    BY <1>1, <2>1, <2>2 DEF Init, ForwardInv, NoSpec, NoCkpt, NoUpl
<1>2. QED
  BY <1>1

\* With the kubelet's checkpointer, no stale cache, late kubelet answer, repeated
\* upload, restart or deletion takes a phase back or rewrites a terminal one
\* (podsnapshot_controller.go reconcileCheckpointing, upload_controller.go upload).
THEOREM KubeletForward == AllKubelet => (Spec => KubeletPhasesForward)
<1> SUFFICES ASSUME AllKubelet PROVE Spec => KubeletPhasesForward
  OBVIOUS
<1>1. Init => ForwardInv
  BY InitForward
<1>2. ForwardInv /\ [Next]_vars => ForwardInv' /\ [PhaseForward]_vars
  <2>1. ASSUME ForwardInv, Next PROVE ForwardInv' /\ PhaseForward
    <3>1. TypeOK'
      BY <2>1, ManagerStepTypeOK, AgentStepTypeOK, EnvironmentStepTypeOK DEF Next, ForwardInv
    <3>2. QED
      BY <2>1, <3>1, ManagerStepForward, AgentStepForward, EnvironmentStepForward DEF Next
  <2>2. ASSUME ForwardInv, UNCHANGED vars PROVE ForwardInv'
    BY <2>2, StutterTypeOK DEF ForwardInv, vars
  <2>3. QED
    BY <2>1, <2>2
<1>3. QED
  BY <1>1, <1>2, PTL DEF Spec, KubeletPhasesForward
=============================================================================
