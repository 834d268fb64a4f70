--------------------------- MODULE RestoreProofs ---------------------------
(***************************************************************************)
(* Theorems about Restore for every MaxLives, Specs, Staging and           *)
(* MaxCrashes: type correctness, that no pod of an earlier object is       *)
(* adopted, that a finished restore stays finished, that a recorded        *)
(* container is dead before its object is gone, and that Restore           *)
(* implements RestoreLifecycle.                                            *)
(***************************************************************************)
EXTENDS Restore, TLAPS

USE RestoreLivesAssumption, RestoreSpecsAssumption, StagingAssumption, RestoreCrashesAssumption

-----------------------------------------------------------------------------
(* Type correctness. *)

\* The name without an object is of the object's type.
LEMMA AbsentTypeOK ==
    ASSUME NEW life \in 0..MaxLives
    PROVE  /\ Absent(life) \in ObjType
           /\ Absent(life).phase = "Gone"
           /\ Absent(life).life = life
           /\ Absent(life).pod = 0
           /\ Absent(life).torn = FALSE
           /\ Absent(life).deleting = FALSE
           /\ Absent(life).finalizer = FALSE
           /\ Absent(life).container = FALSE
  BY DEF Absent, NoSpec, ObjType, SpecType, Phases, Terminal

\* A write of the phase keeps the type of the object and everything else in it.
LEMMA InTypeOK ==
    ASSUME NEW c \in ObjType, NEW phase \in Phases
    PROVE  /\ In(c, phase) \in ObjType
           /\ In(c, phase).phase = phase
           /\ In(c, phase).life = c.life
           /\ In(c, phase).pod = c.pod
           /\ In(c, phase).warmed = c.warmed
           /\ In(c, phase).torn = c.torn
           /\ In(c, phase).container = c.container
           /\ In(c, phase).deleting = c.deleting
           /\ In(c, phase).finalizer = c.finalizer
  BY DEF In, ObjType

\* What a write of the phase leaves alone.
Same(new, c) ==
    /\ new.life = c.life /\ new.pod = c.pod /\ new.torn = c.torn /\ new.warmed = c.warmed
    /\ new.container = c.container /\ new.deleting = c.deleting /\ new.finalizer = c.finalizer

\* The same in one formula, to cite for a phase that is chosen.
LEMMA InSame ==
    \A c \in ObjType, phase \in Phases :
        In(c, phase) \in ObjType /\ In(c, phase).phase = phase /\ Same(In(c, phase), c)
  BY InTypeOK DEF Same

\* The phases are those of the type, which InTypeOK asks for.
LEMMA PhasesTypeOK ==
    {"New", "Pending", "PreWarming", "Preparing", "Restoring", "Gone", "Running", "Failed"}
        \subseteq Phases
  BY DEF Phases, Terminal

\* A write from a copy stores what it writes.
LEMMA WriteTypeOK ==
    ASSUME TypeOK, NEW c, NEW new \in ObjType, Write(c, new) \/ UNCHANGED apiVars
    PROVE  rst' \in ObjType /\ cache' \in [Processes -> ObjType]
  BY DEF Write, TypeOK, apiVars

\* The worker is idle with a typed record.
LEMMA NoWorkTypeOK == NoWork \in WorkType
<1>1. 0 \in 0..MaxLives
  OBVIOUS
<1>2. Absent(0) \in ObjType
  BY <1>1, AbsentTypeOK
<1>3. QED
  BY <1>2 DEF NoWork, WorkType

\* The initial state is typed.
LEMMA InitTypeOK == Init => TypeOK
<1>1. 0 \in 0..MaxLives
  OBVIOUS
<1>2. Absent(0) \in ObjType
  BY <1>1, AbsentTypeOK
<1>3. NoPod \in PodType /\ NoStage \in StageType /\ "none" \in Containers
  BY <1>1 DEF NoPod, PodType, NoStage, StageType, Containers
<1>4. QED
  BY <1>1, <1>2, <1>3, NoWorkTypeOK DEF Init, TypeOK

\* Every branch of the manager's Reconcile stores a phase some reconciler knows.
LEMMA ManagerTypeOK ==
    ASSUME TypeOK, NEW c \in ObjType, ManagerReconciles(c)
    PROVE  TypeOK'
<1> USE PhasesTypeOK
<1>1. ASSUME NEW new \in ObjType, ManagerWrites(c, new)
      PROVE  TypeOK'
  <2>1. rst' \in ObjType /\ cache' \in [Processes -> ObjType]
    BY <1>1, WriteTypeOK DEF ManagerWrites
  <2>2. QED
    BY <1>1, <2>1 DEF ManagerWrites, TypeOK, podVars, nodeVars
<1>2. CASE AddFinalizer(c)
  <2>1. [c EXCEPT !.finalizer = TRUE] \in ObjType
    BY DEF ObjType
  <2>2. QED
    BY <1>1, <1>2, <2>1 DEF AddFinalizer
<1>3. CASE TimesOut(c) \/ AcceptNew(c) \/ PendingFails(c) \/ PreparingFails(c)
  <2>1. In(c, "Failed") \in ObjType /\ In(c, "Pending") \in ObjType
    BY InTypeOK
  <2>2. QED
    BY <1>1, <1>3, <2>1 DEF TimesOut, AcceptNew, PendingFails, PreparingFails
<1>4. CASE PendingProceeds(c)
  <2>1. In(c, "PreWarming") \in ObjType /\ In(c, "Preparing") \in ObjType
    BY InTypeOK
  <2>2. [In(c, "PreWarming") EXCEPT !.target = TRUE] \in ObjType
    BY <2>1 DEF ObjType
  <2>3. QED
    BY <1>1, <1>4, <2>1, <2>2 DEF PendingProceeds
<1>5. CASE CreatesPod(c)
  <2>1. [c EXCEPT !.named = TRUE] \in ObjType
    BY DEF ObjType
  <2>2. rst' \in ObjType /\ cache' \in [Processes -> ObjType]
    BY <1>5, <2>1, WriteTypeOK DEF CreatesPod
  <2>3. keeper' \in PodType
    BY <1>5 DEF CreatesPod, PodType, ObjType
  <2>4. QED
    BY <1>5, <2>2, <2>3 DEF CreatesPod, TypeOK, nodeVars
<1>6. CASE PodNotRunning(c)
  <2>1. [c EXCEPT !.named = TRUE] \in ObjType
    BY DEF ObjType
  <2>2. QED
    BY <1>1, <1>6, <2>1 DEF PodNotRunning
<1>7. CASE Prepared(c)
  <2> DEFINE next == IF c.spec.prewarm /\ ~c.warmed THEN "PreWarming" ELSE "Restoring"
  <2>1. In(c, next) \in ObjType
    BY InTypeOK
  <2>2. [In(c, next) EXCEPT !.named = TRUE, !.pod = seen.life, !.target = TRUE] \in ObjType
    <3>1. seen.life \in 0..MaxLives
      BY DEF TypeOK, PodType
    <3>2. QED
      BY <2>1, <3>1 DEF ObjType
  <2>3. QED
    BY <1>1, <1>7, <2>2 DEF Prepared
<1>8. CASE Releases(c)
  <2>1. Absent(c.life) \in ObjType
    BY AbsentTypeOK DEF ObjType
  <2>2. rst' \in ObjType /\ cache' \in [Processes -> ObjType]
    BY <1>8, <2>1, WriteTypeOK DEF Releases
  <2>3. keeper' \in PodType
    BY <1>8 DEF Releases, TypeOK, PodType
  <2>4. QED
    BY <1>8, <2>2, <2>3 DEF Releases, TypeOK, nodeVars
<1>9. QED
  BY <1>2, <1>3, <1>4, <1>5, <1>6, <1>7, <1>8 DEF ManagerReconciles

\* A status write that ends a reconcile leaves the API typed and the worker idle.
LEMMA ReportsTypeOK ==
    ASSUME TypeOK, NEW c, NEW new \in ObjType, Reports(c, new),
           run' \in [Lives -> Containers], pins' \in SUBSET Lives,
           stage' \in [Lives -> StageType]
    PROVE  TypeOK'
<1>1. rst' \in ObjType /\ cache' \in [Processes -> ObjType]
  BY WriteTypeOK DEF Reports
<1>2. QED
  BY <1>1, NoWorkTypeOK DEF Reports, AgentGoes, TypeOK, podVars

\* A step of the worker that writes no status.
LEMMA GoesTypeOK ==
    ASSUME TypeOK, NEW next \in WorkType, AgentGoes(next), UNCHANGED apiVars,
           run' \in [Lives -> Containers], pins' \in SUBSET Lives,
           stage' \in [Lives -> StageType]
    PROVE  TypeOK'
  BY DEF AgentGoes, TypeOK, podVars, apiVars

\* The restored container is typed, whoever finds it running.
LEMMA RestorationTypeOK ==
    ASSUME TypeOK
    PROVE  Restoration \in [Lives -> Containers]
  BY DEF Restoration, TypeOK, Containers

\* What the worker works on is a copy of an object.
LEMMA WorkTypeOK ==
    ASSUME TypeOK
    PROVE  /\ wrk \in WorkType /\ wrk.snap \in ObjType
           /\ \A c \in ObjType : \A pc \in {"fetching", "restoring", "torn"} :
                  [pc |-> pc, snap |-> c] \in WorkType
           /\ \A pc \in {"warmed", "restored"} : [wrk EXCEPT !.pc = pc] \in WorkType
  BY DEF TypeOK, WorkType

\* Pre-warming pins a life of the name.
LEMMA PinsTypeOK ==
    ASSUME TypeOK, NEW c \in ObjType, c.life \in Lives, Pins(c)
    PROVE  pins' \in SUBSET Lives
  BY DEF Pins, TypeOK

\* Every step of RestoreReconciler is typed.
LEMMA AgentTypeOK ==
    ASSUME TypeOK, NEW c \in ObjType, AgentReconciles(c),
           Exists(c) => c.life \in Lives
    PROVE  TypeOK'
<1> USE PhasesTypeOK, WorkTypeOK
<1>1. /\ UNCHANGED run => run' \in [Lives -> Containers]
      /\ UNCHANGED pins => pins' \in SUBSET Lives
      /\ UNCHANGED stage => stage' \in [Lives -> StageType]
  BY DEF TypeOK
<1>2. CASE PrewarmWaits(c)
  BY <1>1, <1>2, PinsTypeOK, GoesTypeOK DEF PrewarmWaits, Mine, Live
<1>3. CASE PrewarmStarts(c)
  <2>1. stage' \in [Lives -> StageType]
    BY <1>3 DEF PrewarmStarts, TypeOK, StageType
  <2>2. QED
    BY <1>1, <1>3, <2>1, PinsTypeOK, GoesTypeOK DEF PrewarmStarts, Mine, Live
<1>4. CASE PrewarmFetches
  <2>1. stage' \in [Lives -> StageType]
    BY <1>4 DEF PrewarmFetches, TypeOK, StageType
  <2>2. QED
    BY <1>1, <1>4, <2>1, GoesTypeOK DEF PrewarmFetches
<1>5. CASE PrewarmFails
  <2>1. In(wrk.snap, "Failed") \in ObjType
    BY InTypeOK
  <2>2. QED
    BY <1>1, <1>5, <2>1, ReportsTypeOK DEF PrewarmFails, nodeVars
<1>6. CASE PrewarmReports
  <2> DEFINE next == IF wrk.snap.pod = 0 THEN "Preparing" ELSE "Restoring"
  <2>1. In(wrk.snap, next) \in ObjType
    BY InTypeOK
  <2>2. [In(wrk.snap, next) EXCEPT !.warmed = TRUE] \in ObjType
    BY <2>1 DEF ObjType
  <2>3. QED
    BY <1>1, <1>6, <2>2, ReportsTypeOK DEF PrewarmReports, nodeVars
<1>7. CASE RestoreStarts(c)
  BY <1>1, <1>7, GoesTypeOK DEF RestoreStarts, nodeVars
<1>8. CASE RestoreRefuses(c)
  <2>1. In(c, "Failed") \in ObjType
    BY InTypeOK
  <2>2. QED
    BY <1>1, <1>8, <2>1, ReportsTypeOK DEF RestoreRefuses, nodeVars
<1>9. CASE RuncRestores
  BY <1>1, <1>9, RestorationTypeOK, GoesTypeOK DEF RuncRestores
<1>10. CASE RuncFails
  <2>1. In(wrk.snap, "Failed") \in ObjType
    BY InTypeOK
  <2>2. run' \in [Lives -> Containers]
    BY <1>10, RestorationTypeOK DEF RuncFails, TypeOK
  <2>3. QED
    BY <1>1, <1>10, <2>1, <2>2, ReportsTypeOK DEF RuncFails
<1>11. CASE RestoreReports
  <2>1. In(wrk.snap, "Running") \in ObjType
    BY InTypeOK
  <2>2. Restored(wrk.snap) \in ObjType
    BY <2>1 DEF Restored, ObjType
  <2>3. QED
    BY <1>1, <1>11, <2>2, ReportsTypeOK DEF RestoreReports, nodeVars
<1>12. CASE NoticesDeath(c)
  <2>1. In(c, "Failed") \in ObjType
    BY InTypeOK
  <2>2. QED
    BY <1>1, <1>12, <2>1, ReportsTypeOK DEF NoticesDeath, nodeVars
<1>13. CASE TearsDown(c)
  <2>1. run' \in [Lives -> Containers]
    BY <1>13 DEF TearsDown, TypeOK, Containers
  <2>2. pins' \in SUBSET Lives /\ stage' \in [Lives -> StageType]
    BY <1>13 DEF TearsDown, TypeOK, NoStage, StageType
  <2>3. QED
    BY <1>13, <2>1, <2>2, GoesTypeOK DEF TearsDown
<1>14. CASE AcksTeardown
  <2>1. [wrk.snap EXCEPT !.torn = TRUE] \in ObjType
    BY DEF ObjType
  <2>2. QED
    BY <1>1, <1>14, <2>1, ReportsTypeOK DEF AcksTeardown, nodeVars
<1>15. QED
  BY <1>2, <1>3, <1>4, <1>5, <1>6, <1>7, <1>8, <1>9, <1>10, <1>11, <1>12, <1>13, <1>14
  DEF AgentReconciles

-----------------------------------------------------------------------------
(* The inductive invariant. *)

InFlight == wrk.pc \in {"restoring", "restored"}

\* A copy is of an object that was created, and not of one to come.
Behind(c) ==
    /\ c.life <= rst.life
    /\ Exists(c) => c.life # 0

\* Nothing gives life back to an object that a copy saw marked for deletion.
DeletionKept(c) == (c.life = rst.life /\ ~Live(c)) => ~Live(rst)

\* Before a finalizer is there nothing is done.
Untouched(c) == (Exists(c) /\ ~c.finalizer) => (c.phase = "New" /\ ~c.container)

(***************************************************************************)
(* What a teardown of object k has achieved, and what keeps it so: the     *)
(* container does not run, the one worker is not inside a restore of it,   *)
(* and neither the agent's cache nor the API server will start another.    *)
(***************************************************************************)
Killed(k) ==
    /\ k.container => run[k.life] # "running"
    /\ cache["agent"].life = k.life => ~Live(cache["agent"])
    /\ rst.life = k.life => ~Live(rst)
    /\ InFlight => wrk.snap.life # k.life

\* The worker's copy still says what it said when its reconcile began.
WorkPhase ==
    /\ wrk.pc \in {"fetching", "warmed"} => wrk.snap.phase = "PreWarming"
    /\ InFlight => wrk.snap.phase = "Restoring" /\ Live(wrk.snap)
    /\ wrk.pc = "torn" => Exists(wrk.snap) /\ wrk.snap.deleting /\ Killed(wrk.snap)

Copies ==
    /\ Behind(rst) /\ Behind(wrk.snap)
    /\ \A p \in Processes : Behind(cache[p])
    /\ DeletionKept(cache["agent"])

Torn == rst.torn => Exists(rst) /\ rst.deleting /\ Killed(rst)

RestoreInv ==
    /\ TypeOK
    /\ OwnPodOnly
    /\ Copies
    /\ Untouched(rst)
    /\ WorkPhase
    /\ Torn

\* A step keeps a terminal phase, and ends an object only with its container.
StepsAllowed ==
    /\ TerminalKept
    /\ (Exists(rst) /\ rst.container /\ ~Exists(rst')) => run[rst.life] # "running"

\* What every write of a reconciler keeps: it deletes nothing it does not tear
\* down, revives nothing, and records no other pod than the object's own.
Keeps(c, new) ==
    /\ new.life = c.life
    /\ new.pod \in {0, c.pod, c.life}
    /\ Exists(new) => Exists(c) /\ (c.deleting => new.deleting)
    /\ Untouched(c) => Untouched(new)
    /\ Exists(new) => Final(c, new)

\* Killed, of the same copy, after the step.
KilledAfter(k) ==
    /\ k.container => run'[k.life] # "running"
    /\ cache'["agent"].life = k.life => ~Live(cache'["agent"])
    /\ rst'.life = k.life => ~Live(rst')
    /\ InFlight' => wrk'.snap.life # k.life

\* A step may end containers, and start the one of the restore in flight.
RunsOn ==
    \A l \in Lives : run'[l] = "running" =>
        run[l] = "running" \/ (InFlight /\ l = wrk.snap.life)

\* What was torn down stays so while the object is not revived, caches only
\* catch up, and no other restore begins.
LEMMA KilledKept ==
    ASSUME NEW k \in ObjType, Exists(k), k.life # 0, Killed(k), RunsOn,
           cache'["agent"] \in {cache["agent"], rst},
           rst'.life = rst.life, ~Live(rst) => ~Live(rst'),
           InFlight' => InFlight /\ wrk'.snap = wrk.snap
    PROVE  KilledAfter(k)
<1>1. k.life \in Lives
  BY DEF ObjType, Lives
<1>2. QED
  BY <1>1 DEF Killed, KilledAfter, RunsOn

\* The worker's record of a teardown survives such a step.
LEMMA WorkPhaseKept ==
    ASSUME RestoreInv, \A k \in ObjType : Exists(k) /\ k.life # 0 /\ Killed(k) => KilledAfter(k),
           \/ wrk' \in {wrk, NoWork}
           \/ /\ wrk'.snap = wrk.snap
              /\ <<wrk.pc, wrk'.pc>> \in {<<"fetching", "warmed">>, <<"restoring", "restored">>}
    PROVE  WorkPhase' /\ Behind(wrk'.snap)
<1>1. NoWork.pc = "idle" /\ NoWork.snap.life = 0 /\ ~Exists(NoWork.snap)
  BY DEF NoWork, Absent, Exists
<1>2. rst.life \in Nat
  BY DEF RestoreInv, TypeOK, ObjType
<1>3. wrk'.pc \in {"fetching", "warmed"} => wrk'.snap.phase = "PreWarming"
  BY <1>1 DEF WorkPhase, RestoreInv
<1>4. InFlight' => wrk'.snap.phase = "Restoring" /\ Live(wrk'.snap)
  BY <1>1 DEF WorkPhase, RestoreInv, InFlight
<1>5. ASSUME wrk'.pc = "torn"
      PROVE  Exists(wrk'.snap) /\ wrk'.snap.deleting /\ Killed(wrk.snap)'
  <2>1. wrk' = wrk
    BY <1>1, <1>5
  <2>2. Exists(wrk.snap) /\ wrk.snap.deleting /\ Killed(wrk.snap)
    BY <1>5, <2>1 DEF RestoreInv, WorkPhase
  <2>3. wrk.snap \in ObjType /\ wrk.snap.life # 0
    BY <2>2 DEF RestoreInv, TypeOK, WorkType, Copies, Behind
  <2>4. QED
    BY <2>1, <2>2, <2>3 DEF Killed, KilledAfter, InFlight
<1>6. WorkPhase'
  BY <1>3, <1>4, <1>5 DEF WorkPhase, Live, Exists, InFlight
<1>7. Behind(wrk'.snap)
  BY <1>1, <1>2 DEF Behind, RestoreInv, Copies
<1>8. QED
  BY <1>6, <1>7

\* A write that Keeps keeps the invariant, if what it says of a teardown is true
\* and a release of the finalizer is of an object torn down.
LEMMA WriteInv ==
    ASSUME RestoreInv, TypeOK', NEW c, NEW new, Write(c, new), Keeps(c, new),
           new.torn => /\ Exists(new) /\ new.deleting /\ new.container = c.container
                       /\ Current(c) => Killed(c),
           ~Exists(new) => (c.container => c.torn),
           RunsOn, wrk' \in {wrk, NoWork}
    PROVE  RestoreInv' /\ StepsAllowed
<1>1. rst = c /\ rst' = new /\ UNCHANGED cache
  BY DEF Write, Current
<1>2. StepsAllowed
  BY <1>1 DEF Keeps, StepsAllowed, TerminalKept, RestoreInv, Torn, Killed
<1>3. OwnPodOnly' /\ Untouched(rst)'
  BY <1>1 DEF Keeps, OwnPodOnly, RestoreInv, Untouched, Exists
<1>4. (~Live(rst) => ~Live(rst')) /\ rst'.life = rst.life
  BY <1>1 DEF Keeps, Live, Exists
<1>5. InFlight' => InFlight /\ wrk'.snap = wrk.snap
  BY DEF InFlight, NoWork
<1>6. \A k \in ObjType : Exists(k) /\ k.life # 0 /\ Killed(k) => KilledAfter(k)
  BY <1>1, <1>4, <1>5, KilledKept
<1>7. WorkPhase' /\ Behind(wrk'.snap)
  BY <1>6, WorkPhaseKept
<1>8. Copies'
  BY <1>1, <1>4, <1>7 DEF Copies, RestoreInv, Behind, DeletionKept, Keeps, Exists, Live
<1>9. Torn'
  <2>1. ASSUME rst'.torn PROVE Exists(rst)' /\ rst'.deleting /\ Killed(rst)'
    <3>1. /\ Killed(rst) /\ rst.container = rst'.container
          /\ Exists(rst') /\ rst'.deleting /\ Exists(rst)
      BY <1>1, <2>1 DEF Keeps, Current
    <3>2. rst \in ObjType /\ rst.life # 0
      BY <3>1 DEF RestoreInv, TypeOK, Copies, Behind
    <3>3. KilledAfter(rst)
      BY <1>6, <3>1, <3>2
    <3>4. QED
      BY <1>4, <3>1, <3>3 DEF Killed, KilledAfter, Exists, InFlight, Live
  <2>2. QED
    BY <2>1 DEF Torn
<1>10. QED
  BY <1>2, <1>3, <1>7, <1>8, <1>9 DEF RestoreInv

\* A step that writes nothing: informers may catch up.
LEMMA SilentInv ==
    ASSUME RestoreInv, TypeOK', UNCHANGED rst,
           \A p \in Processes : cache'[p] \in {cache[p], rst},
           RunsOn,
           \/ wrk' \in {wrk, NoWork}
           \/ /\ wrk'.snap = wrk.snap
              /\ <<wrk.pc, wrk'.pc>> \in {<<"fetching", "warmed">>, <<"restoring", "restored">>}
    PROVE  RestoreInv' /\ StepsAllowed
<1>1. StepsAllowed
  BY DEF StepsAllowed, TerminalKept, Final
<1>2. OwnPodOnly' /\ Untouched(rst)'
  BY DEF OwnPodOnly, RestoreInv, Untouched, Exists
<1>3. rst.life \in Nat /\ "agent" \in Processes
  BY DEF RestoreInv, TypeOK, ObjType, Processes
<1>4. InFlight' => InFlight /\ wrk'.snap = wrk.snap
  BY DEF InFlight, NoWork
<1>5. \A k \in ObjType : Exists(k) /\ k.life # 0 /\ Killed(k) => KilledAfter(k)
  BY <1>3, <1>4, KilledKept
<1>6. WorkPhase' /\ Behind(wrk'.snap)
  BY <1>5, WorkPhaseKept
<1>7. Copies'
  <2>1. \A p \in Processes : Behind(cache'[p])
    BY DEF Copies, RestoreInv, Behind, Exists
  <2>2. DeletionKept(cache["agent"])'
    BY <1>3 DEF Copies, RestoreInv, DeletionKept, Live, Exists
  <2>3. QED
    BY <1>6, <2>1, <2>2 DEF Copies, RestoreInv, Behind, Exists
<1>8. Torn'
  <2>1. ASSUME rst.torn PROVE Exists(rst)' /\ rst'.deleting /\ Killed(rst)'
    <3>1. Exists(rst) /\ rst.deleting /\ Killed(rst)
      BY <2>1 DEF RestoreInv, Torn
    <3>2. rst \in ObjType /\ rst.life # 0
      BY <3>1 DEF RestoreInv, TypeOK, Copies, Behind
    <3>3. KilledAfter(rst)
      BY <1>5, <3>1, <3>2
    <3>4. QED
      BY <3>1, <3>3 DEF Killed, KilledAfter, InFlight, Exists, Live
  <2>2. QED
    BY <2>1 DEF Torn
<1>9. QED
  BY <1>1, <1>2, <1>6, <1>7, <1>8 DEF RestoreInv

\* A worker that takes up its own copy, live or with its container dead.
LEMMA TakeUpInv ==
    ASSUME RestoreInv, TypeOK', NEW pc, UNCHANGED apiVars, wrk.pc = "idle",
           wrk' = [pc |-> pc, snap |-> cache["agent"]],
           \/ pc = "fetching" /\ cache["agent"].phase = "PreWarming"
           \/ pc = "restoring" /\ cache["agent"].phase = "Restoring" /\ Live(cache["agent"])
           \/ /\ pc = "torn" /\ Exists(cache["agent"]) /\ cache["agent"].deleting
              /\ cache["agent"].container => run'[cache["agent"].life] # "running",
           \A l \in Lives : run'[l] = "running" => run[l] = "running"
    PROVE  RestoreInv' /\ StepsAllowed
<1> DEFINE c == cache["agent"]
<1>1. StepsAllowed
  BY DEF StepsAllowed, TerminalKept, Final, apiVars
<1>2. OwnPodOnly' /\ Untouched(rst)'
  BY DEF OwnPodOnly, RestoreInv, Untouched, Exists, apiVars
<1>3. "agent" \in Processes
  BY DEF Processes
<1>4. Copies'
  BY <1>3 DEF Copies, RestoreInv, Behind, DeletionKept, Live, Exists, apiVars
<1>5. WorkPhase'
  <2>1. ASSUME pc = "torn" PROVE Killed(wrk.snap)'
    <3>1. ~Live(c) /\ (rst.life = c.life => ~Live(rst))
      BY <2>1 DEF Live, RestoreInv, Copies, DeletionKept
    <3>2. QED
      BY <2>1, <3>1 DEF Killed, InFlight, apiVars, Live, Exists
  <2>2. QED
    BY <2>1 DEF WorkPhase, InFlight, Live, Exists
<1>6. Torn'
  <2>1. ASSUME rst.torn PROVE Exists(rst)' /\ rst'.deleting /\ Killed(rst)'
    <3>1. Exists(rst) /\ rst.deleting /\ Killed(rst)
      BY <2>1 DEF RestoreInv, Torn
    <3>2. rst.life \in Lives
      BY <3>1 DEF RestoreInv, TypeOK, Copies, Behind, ObjType, Lives
    <3>3. InFlight' => c.life # rst.life
      BY <3>1 DEF InFlight, Killed
    <3>4. QED
      BY <3>1, <3>2, <3>3 DEF Killed, InFlight, Exists, Live, apiVars
  <2>2. QED
    BY <2>1 DEF Torn, apiVars
<1>7. QED
  BY <1>1, <1>2, <1>4, <1>5, <1>6 DEF RestoreInv

-----------------------------------------------------------------------------
(* Every step keeps the invariant. *)

\* The manager's reconciles; reconcileDelete releases the finalizer of an object
\* with a recorded container only after the agent's acknowledgement.
LEMMA ManagerInv ==
    ASSUME RestoreInv, TypeOK', ManagerReconciles(cache["manager"])
    PROVE  RestoreInv' /\ StepsAllowed
<1> USE PhasesTypeOK
<1> DEFINE c == cache["manager"]
<1>1. c \in ObjType /\ TypeOK
  BY DEF RestoreInv, TypeOK, Processes
<1>a. UNCHANGED run => RunsOn
  BY DEF RunsOn
<1>2. ASSUME NEW new, Write(c, new), UNCHANGED <<run, wrk>>, Keeps(c, new),
             new.torn = c.torn, new.container = c.container, Exists(new)
      PROVE  RestoreInv' /\ StepsAllowed
  <2>1. new.torn => new.deleting /\ (Current(c) => Killed(c))
    BY <1>2 DEF RestoreInv, Torn, Current, Keeps, Write
  <2>2. QED
    BY <1>a, <1>2, <2>1, WriteInv
<1>3. ASSUME NEW phase \in {"Pending", "PreWarming", "Preparing", "Restoring", "Failed"},
             NEW new, ManagerWrites(c, new), Reconciling(c) \/ TimesOut(c),
             c.phase \notin Terminal, c.finalizer,
             new.phase = phase, new.life = c.life, new.pod \in {c.pod, c.life},
             new.torn = c.torn, new.container = c.container,
             new.deleting = c.deleting, new.finalizer = c.finalizer
      PROVE  RestoreInv' /\ StepsAllowed
  <2>1. Exists(c) /\ Exists(new)
    BY <1>3 DEF Reconciling, TimesOut, Live, Exists
  <2>2. Keeps(c, new)
    BY <1>3, <2>1 DEF Keeps, Untouched, Final
  <2>3. QED
    BY <1>2, <1>3, <2>1, <2>2 DEF ManagerWrites, nodeVars
<1>p. ASSUME NEW phase \in {"Pending", "Preparing", "Failed"}, ManagerWrites(c, In(c, phase)),
             Reconciling(c) \/ TimesOut(c), c.phase \notin Terminal, c.finalizer
      PROVE  RestoreInv' /\ StepsAllowed
  <2> DEFINE new == In(c, phase)
  <2>1. phase \in Phases /\ phase \in {"Pending", "PreWarming", "Preparing", "Restoring", "Failed"}
    BY <1>p
  <2>2. new.phase = phase /\ Same(new, c)
    BY <1>1, <2>1, InSame
  <2>3. ManagerWrites(c, new)
    BY <1>p
  <2> HIDE DEF new
  <2>4. /\ new.life = c.life /\ new.pod \in {c.pod, c.life}
        /\ new.torn = c.torn /\ new.container = c.container
        /\ new.deleting = c.deleting /\ new.finalizer = c.finalizer
    BY <2>2 DEF Same
  <2>5. QED
    BY <1>3, <1>p, <2>1, <2>2, <2>3, <2>4
<1>4. CASE AddFinalizer(c)
  <2> DEFINE new == [c EXCEPT !.finalizer = TRUE]
  <2>1. /\ new.life = c.life /\ new.pod = c.pod /\ new.torn = c.torn
        /\ new.container = c.container /\ new.deleting = c.deleting /\ new.phase = c.phase
        /\ new.finalizer
    BY <1>1 DEF ObjType
  <2>2. ManagerWrites(c, new) /\ Exists(c)
    BY <1>4 DEF AddFinalizer, Live
  <2> HIDE DEF new
  <2>3. Keeps(c, new) /\ Exists(new)
    BY <2>1, <2>2 DEF Keeps, Untouched, Exists, Final
  <2>4. QED
    BY <1>2, <2>1, <2>2, <2>3 DEF ManagerWrites, nodeVars
<1>5. CASE TimesOut(c)
  <2>1. ManagerWrites(c, In(c, "Failed")) /\ c.phase \notin Terminal /\ c.finalizer
    BY <1>5 DEF TimesOut, TimedOut
  <2>2. QED
    BY <1>5, <1>p, <2>1
<1>6. CASE AcceptNew(c)
  <2>1. ManagerWrites(c, In(c, "Pending")) /\ c.phase \notin Terminal /\ Reconciling(c) /\ c.finalizer
    BY <1>6 DEF AcceptNew, Terminal, Reconciling
  <2>2. QED
    BY <1>p, <2>1
<1>7. CASE PendingFails(c) \/ PreparingFails(c)
  <2>1. ManagerWrites(c, In(c, "Failed")) /\ c.phase \notin Terminal /\ Reconciling(c) /\ c.finalizer
    BY <1>7 DEF PendingFails, PreparingFails, Preparing, Terminal, Reconciling
  <2>2. QED
    BY <1>p, <2>1
<1>8. CASE PendingProceeds(c)
  <2>1. c.phase \notin Terminal /\ Reconciling(c) /\ c.finalizer
    BY <1>8 DEF PendingProceeds, Terminal, Reconciling
  <2>2. CASE ManagerWrites(c, In(c, "Preparing"))
    BY <1>p, <2>1, <2>2
  <2>3. CASE ManagerWrites(c, [In(c, "PreWarming") EXCEPT !.target = TRUE])
    <3> DEFINE new == [In(c, "PreWarming") EXCEPT !.target = TRUE]
    <3>1. /\ new.phase = "PreWarming" /\ new.life = c.life /\ new.pod = c.pod
          /\ new.torn = c.torn /\ new.container = c.container
          /\ new.deleting = c.deleting /\ new.finalizer = c.finalizer
      BY <1>1, InTypeOK DEF ObjType
    <3> HIDE DEF new
    <3>2. QED
      BY <1>3, <2>1, <2>3, <3>1 DEF new
  <2>4. QED
    BY <1>8, <2>2, <2>3 DEF PendingProceeds
<1>9. ASSUME Preparing(c), NEW new, new = [c EXCEPT !.named = TRUE],
             Write(c, new), UNCHANGED <<run, wrk>>
      PROVE  RestoreInv' /\ StepsAllowed
  <2>1. /\ new.life = c.life /\ new.pod = c.pod /\ new.torn = c.torn
        /\ new.container = c.container /\ new.deleting = c.deleting /\ new.phase = c.phase
        /\ new.finalizer = c.finalizer
    BY <1>1, <1>9 DEF ObjType
  <2>2. Exists(c)
    BY <1>9 DEF Preparing, Reconciling, Live
  <2>3. Keeps(c, new) /\ Exists(new)
    BY <2>1, <2>2 DEF Keeps, Untouched, Exists, Final
  <2>4. QED
    BY <1>2, <1>9, <2>1, <2>3
<1>10. CASE CreatesPod(c)
  <2>1. UNCHANGED <<run, wrk>> /\ Preparing(c)
    BY <1>10 DEF CreatesPod, nodeVars
  <2>2. CASE UNCHANGED apiVars
    BY <2>1, <2>2, <1>a, SilentInv DEF apiVars
  <2>3. CASE Write(c, [c EXCEPT !.named = TRUE])
    BY <1>9, <2>1, <2>3
  <2>4. QED
    BY <1>10, <2>2, <2>3 DEF CreatesPod
<1>11. CASE PodNotRunning(c)
  BY <1>9, <1>11 DEF PodNotRunning, ManagerWrites, nodeVars
<1>12. CASE Prepared(c)
  <2> DEFINE next == IF c.spec.prewarm /\ ~c.warmed THEN "PreWarming" ELSE "Restoring"
             new == [In(c, next) EXCEPT !.named = TRUE, !.pod = seen.life, !.target = TRUE]
  <2>1. c.phase \notin Terminal /\ Reconciling(c) /\ c.finalizer /\ seen.life = c.life
    BY <1>12 DEF Prepared, Preparing, OwnPod, Terminal, Reconciling
  <2>2. ManagerWrites(c, new)
    BY <1>12 DEF Prepared
  <2>3. next \in {"PreWarming", "Restoring"} /\ next \in Phases
    OBVIOUS
  <2>4. /\ new.phase = next /\ new.life = c.life /\ new.pod = c.life
        /\ new.torn = c.torn /\ new.container = c.container
        /\ new.deleting = c.deleting /\ new.finalizer = c.finalizer
    <3> HIDE DEF next
    <3>1. In(c, next) \in ObjType /\ In(c, next).phase = next /\ Same(In(c, next), c)
      BY <1>1, <2>3, InSame
    <3> DEFINE x == In(c, next)
    <3> HIDE DEF x
    <3>2. /\ new.phase = x.phase /\ new.life = x.life /\ new.pod = seen.life
          /\ new.torn = x.torn /\ new.container = x.container
          /\ new.deleting = x.deleting /\ new.finalizer = x.finalizer
      <4>1. x \in ObjType /\ new = [x EXCEPT !.named = TRUE, !.pod = seen.life, !.target = TRUE]
        BY <3>1 DEF x
      <4> HIDE DEF new
      <4>2. QED
        BY <4>1 DEF ObjType
    <3> HIDE DEF new
    <3>3. QED
      BY <2>1, <3>1, <3>2 DEF x, Same
  <2> HIDE DEF new, next
  <2>5. Exists(c)
    BY <2>1 DEF Reconciling, Live
  <2>6. new.phase = "PreWarming" \/ new.phase = "Restoring"
    BY <2>3, <2>4
  <2>7. QED
    BY <1>3, <2>1, <2>2, <2>4, <2>6
<1>13. CASE Releases(c)
  <2>1. UNCHANGED <<run, wrk>> /\ (c.container => c.torn)
    BY <1>13 DEF Releases, TeardownDone, nodeVars
  <2>2. CASE Write(c, Absent(c.life))
    <3>1. /\ Absent(c.life).life = c.life /\ Absent(c.life).pod = 0
          /\ Absent(c.life).torn = FALSE /\ ~Exists(Absent(c.life))
      BY DEF Absent, Exists
    <3>2. Keeps(c, Absent(c.life))
      BY <3>1 DEF Keeps, Untouched
    <3>3. QED
      BY <1>a, <2>1, <2>2, <3>1, <3>2, WriteInv
  <2>3. CASE UNCHANGED apiVars
    BY <2>1, <2>3, <1>a, SilentInv DEF apiVars
  <2>4. QED
    BY <1>13, <2>2, <2>3 DEF Releases
<1>14. QED
  BY <1>4, <1>5, <1>6, <1>7, <1>8, <1>10, <1>11, <1>12, <1>13 DEF ManagerReconciles

\* The agent's reconciles.  Each writes from the copy it began with, so an object
\* that failed, or was marked for deletion, meanwhile is left alone.
LEMMA AgentInv ==
    ASSUME RestoreInv, TypeOK', AgentReconciles(cache["agent"])
    PROVE  RestoreInv' /\ StepsAllowed
<1> USE PhasesTypeOK
<1> DEFINE c == cache["agent"]
<1>1. c \in ObjType /\ wrk.snap \in ObjType /\ wrk \in WorkType /\ TypeOK
  BY DEF RestoreInv, TypeOK, Processes, WorkType
<1>a. UNCHANGED run => RunsOn
  BY DEF RunsOn
<1>2. ASSUME NEW k, NEW new, Reports(k, new), RunsOn,
             Current(k) => Keeps(k, new), Exists(new),
             new.torn => /\ new.deleting /\ new.container = k.container
                         /\ Current(k) => Killed(k)
      PROVE  RestoreInv' /\ StepsAllowed
  <2>1. wrk' = NoWork
    BY <1>2 DEF Reports, AgentGoes
  <2>2. CASE Current(k)
    BY <1>2, <2>1, <2>2, WriteInv DEF Reports
  <2>3. CASE UNCHANGED apiVars
    BY <1>2, <2>1, <2>3, SilentInv DEF apiVars
  <2>4. QED
    BY <1>2, <2>2, <2>3 DEF Reports
<1>3. ASSUME NEW k \in ObjType, NEW phase \in {"Preparing", "Restoring", "Failed"},
             NEW new, new.phase = phase, new.life = k.life, new.pod = k.pod, new.torn = k.torn,
             new.container = k.container, new.deleting = k.deleting,
             new.finalizer = k.finalizer, k.phase \in {"PreWarming", "Restoring", "Running"},
             k.phase = "Running" => phase = "Failed",
             Reports(k, new), RunsOn
      PROVE  RestoreInv' /\ StepsAllowed
  <2>1. Exists(new) /\ Exists(k) /\ Final(k, new)
    BY <1>3 DEF Exists, Final, Terminal
  <2>2. Current(k) => Keeps(k, new)
    BY <1>3, <2>1 DEF Keeps, Untouched, Current, RestoreInv, Exists
  <2>3. Current(k) /\ new.torn => Killed(k) /\ new.deleting
    BY <1>3 DEF Current, RestoreInv, Torn
  <2>4. ~Current(k) => RestoreInv' /\ StepsAllowed
    <3>1. ASSUME ~Current(k) PROVE wrk' = NoWork /\ UNCHANGED <<rst, cache>>
      BY <1>3, <3>1 DEF Reports, AgentGoes, apiVars
    <3>2. QED
      BY <1>3, <3>1, SilentInv
  <2>5. QED
    BY <1>2, <1>3, <2>1, <2>2, <2>3, <2>4
<1>b. ASSUME NEW k \in ObjType, k.phase \in {"PreWarming", "Restoring", "Running"},
             Reports(k, In(k, "Failed")), RunsOn
      PROVE  RestoreInv' /\ StepsAllowed
  <2> DEFINE new == In(k, "Failed")
  <2>1. /\ new.phase = "Failed" /\ new.life = k.life /\ new.pod = k.pod
        /\ new.torn = k.torn /\ new.container = k.container
        /\ new.deleting = k.deleting /\ new.finalizer = k.finalizer
    BY <1>b, InTypeOK
  <2>2. Reports(k, new)
    BY <1>b
  <2> HIDE DEF new
  <2>3. QED
    BY <1>3, <1>b, <2>1, <2>2
<1>4. CASE PrewarmWaits(c)
  BY <1>a, <1>4, SilentInv DEF PrewarmWaits, AgentGoes, apiVars
<1>5. CASE PrewarmStarts(c)
  BY <1>5, TakeUpInv DEF PrewarmStarts, AgentGoes, Mine
<1>6. CASE PrewarmFetches
  <2>1. wrk' = [wrk EXCEPT !.pc = "warmed"] /\ wrk.pc = "fetching" /\ UNCHANGED <<rst, cache, run>>
    BY <1>6 DEF PrewarmFetches, AgentGoes, apiVars
  <2>2. wrk'.snap = wrk.snap /\ wrk'.pc = "warmed"
    BY <1>1, <2>1 DEF WorkType
  <2>3. QED
    BY <1>a, <2>1, <2>2, SilentInv
<1>7. CASE PrewarmFails
  <2>1. wrk.snap.phase = "PreWarming" /\ UNCHANGED run
    BY <1>7 DEF PrewarmFails, RestoreInv, WorkPhase, nodeVars
  <2>2. Reports(wrk.snap, In(wrk.snap, "Failed"))
    BY <1>7 DEF PrewarmFails
  <2>3. QED
    BY <1>1, <1>a, <1>b, <2>1, <2>2
<1>8. CASE PrewarmReports
  <2> DEFINE next == IF wrk.snap.pod = 0 THEN "Preparing" ELSE "Restoring"
             new == [In(wrk.snap, next) EXCEPT !.warmed = TRUE]
  <2>1. wrk.snap.phase = "PreWarming" /\ UNCHANGED run
    BY <1>8 DEF PrewarmReports, RestoreInv, WorkPhase, nodeVars
  <2>2. Reports(wrk.snap, new)
    BY <1>8 DEF PrewarmReports
  <2>5. next \in {"Preparing", "Restoring"} /\ next \in Phases
    OBVIOUS
  <2>3. /\ new.phase = next /\ new.life = wrk.snap.life /\ new.pod = wrk.snap.pod
        /\ new.torn = wrk.snap.torn /\ new.container = wrk.snap.container
        /\ new.deleting = wrk.snap.deleting /\ new.finalizer = wrk.snap.finalizer
    <3> HIDE DEF next
    <3> DEFINE x == In(wrk.snap, next)
    <3>1. x \in ObjType /\ x.phase = next /\ Same(x, wrk.snap)
      BY <1>1, <2>5, InSame
    <3>2. new = [x EXCEPT !.warmed = TRUE]
      OBVIOUS
    <3> HIDE DEF x, new
    <3>3. QED
      BY <3>1, <3>2 DEF ObjType, Same
  <2>4. QED
    <3> HIDE DEF new, next
    <3> DEFINE k == wrk.snap
    <3>1. k \in ObjType /\ RunsOn /\ k.phase = "PreWarming" /\ Reports(k, new)
      BY <1>1, <1>a, <2>1, <2>2
    <3>2. /\ new.phase = next /\ new.life = k.life /\ new.pod = k.pod
          /\ new.torn = k.torn /\ new.container = k.container
          /\ new.deleting = k.deleting /\ new.finalizer = k.finalizer
      BY <2>3
    <3> HIDE DEF k
    <3>3. CASE next = "Preparing"
      BY <1>3, <3>1, <3>2, <3>3
    <3>4. CASE next = "Restoring"
      BY <1>3, <3>1, <3>2, <3>4
    <3>5. QED
      BY <2>5, <3>3, <3>4
<1>9. CASE RestoreStarts(c)
  BY <1>9, TakeUpInv DEF RestoreStarts, Restorable, Mine, AgentGoes, nodeVars
<1>10. CASE RestoreRefuses(c)
  <2>1. c.phase = "Restoring" /\ Reports(c, In(c, "Failed")) /\ UNCHANGED run
    BY <1>10 DEF RestoreRefuses, Restorable, nodeVars
  <2>2. QED
    BY <1>1, <1>a, <1>b, <2>1
<1>11. CASE RuncRestores
  <2>1. /\ wrk' = [wrk EXCEPT !.pc = "restored"] /\ wrk.pc = "restoring"
        /\ UNCHANGED <<rst, cache>> /\ run' = Restoration
    BY <1>11 DEF RuncRestores, RuncCan, AgentGoes, apiVars
  <2>2. wrk'.snap = wrk.snap /\ wrk'.pc = "restored"
    BY <1>1, <2>1 DEF WorkType
  <2>3. RunsOn
    BY <1>1, <2>1 DEF RunsOn, Restoration, InFlight, TypeOK
  <2>4. QED
    BY <2>1, <2>2, <2>3, SilentInv
<1>12. CASE RuncFails
  <2> DEFINE new == In(wrk.snap, "Failed")
  <2>1. Reports(wrk.snap, new) /\ run' \in {run, Restoration} /\ wrk.pc = "restoring"
    BY <1>12 DEF RuncFails
  <2>2. wrk.snap.phase = "Restoring"
    BY <2>1 DEF RestoreInv, WorkPhase, InFlight
  <2>3. RunsOn
    BY <1>1, <2>1 DEF RunsOn, Restoration, InFlight, TypeOK
  <2>4. QED
    BY <1>1, <1>b, <2>1, <2>2, <2>3
<1>13. CASE RestoreReports
  <2> DEFINE new == Restored(wrk.snap)
  <2>1. Reports(wrk.snap, new) /\ UNCHANGED run /\ wrk.snap.phase = "Restoring" /\ Live(wrk.snap)
    BY <1>13 DEF RestoreReports, RestoreInv, WorkPhase, InFlight, nodeVars
  <2>2. /\ new.phase = "Running" /\ new.life = wrk.snap.life /\ new.pod = wrk.snap.pod
        /\ new.torn = wrk.snap.torn /\ new.deleting = wrk.snap.deleting
        /\ new.finalizer = wrk.snap.finalizer
    <3>1. In(wrk.snap, "Running") \in ObjType
      BY <1>1, InTypeOK
    <3>2. QED
      BY <1>1, <3>1, InTypeOK DEF Restored, ObjType
  <2> HIDE DEF new
  <2>3. Exists(new) /\ Exists(wrk.snap) /\ Final(wrk.snap, new)
    BY <2>1, <2>2 DEF Exists, Live, Final, Terminal
  <2>4. Current(wrk.snap) => Keeps(wrk.snap, new)
    BY <2>1, <2>2, <2>3 DEF Keeps, Untouched, Current, RestoreInv, Exists
  <2>5. Current(wrk.snap) => ~new.torn
    BY <2>1, <2>2 DEF Current, RestoreInv, Torn, Live
  <2>6. QED
    <3>1. CASE Current(wrk.snap)
      BY <1>2, <1>a, <2>1, <2>2, <2>3, <2>4, <2>5, <3>1
    <3>2. CASE ~Current(wrk.snap)
      <4>1. wrk' = NoWork /\ UNCHANGED <<rst, cache>>
        BY <2>1, <3>2 DEF Reports, AgentGoes, apiVars
      <4>2. QED
        BY <1>a, <2>1, <4>1, SilentInv
    <3>3. QED
      BY <3>1, <3>2
<1>14. CASE NoticesDeath(c)
  <2>1. c.phase = "Running" /\ Reports(c, In(c, "Failed")) /\ UNCHANGED run
    BY <1>14 DEF NoticesDeath, nodeVars
  <2>2. QED
    BY <1>1, <1>a, <1>b, <2>1
<1>15. CASE TearsDown(c)
  <2>1. /\ wrk.pc = "idle" /\ Exists(c) /\ c.deleting /\ UNCHANGED apiVars
        /\ wrk' = [pc |-> "torn", snap |-> c]
        /\ run' = IF c.container THEN [run EXCEPT ![c.life] = "none"] ELSE run
    BY <1>15 DEF TearsDown, AgentGoes
  <2>2. c.life \in Lives
    BY <1>1, <2>1 DEF RestoreInv, Copies, Behind, ObjType, Lives, Processes
  <2>3. /\ c.container => run'[c.life] # "running"
        /\ \A l \in Lives : run'[l] = "running" => run[l] = "running"
    BY <1>1, <2>1, <2>2 DEF TypeOK
  <2>4. QED
    BY <2>1, <2>3, TakeUpInv
<1>16. CASE AcksTeardown
  <2> DEFINE new == [wrk.snap EXCEPT !.torn = TRUE]
  <2>1. wrk.pc = "torn" /\ Reports(wrk.snap, new) /\ UNCHANGED run
    BY <1>16 DEF AcksTeardown, nodeVars
  <2>2. Exists(wrk.snap) /\ wrk.snap.deleting /\ Killed(wrk.snap)
    BY <2>1 DEF RestoreInv, WorkPhase
  <2>3. /\ new.phase = wrk.snap.phase /\ new.life = wrk.snap.life /\ new.pod = wrk.snap.pod
        /\ new.container = wrk.snap.container /\ new.deleting = wrk.snap.deleting
        /\ new.finalizer = wrk.snap.finalizer
    BY <1>1 DEF ObjType
  <2> HIDE DEF new
  <2>4. Keeps(wrk.snap, new) /\ Exists(new)
    BY <2>2, <2>3 DEF Keeps, Untouched, Exists, Final
  <2>5. QED
    BY <1>a, <1>2, <2>1, <2>2, <2>3, <2>4
<1>17. QED
  BY <1>4, <1>5, <1>6, <1>7, <1>8, <1>9, <1>10, <1>11, <1>12, <1>13, <1>14, <1>15, <1>16
  DEF AgentReconciles

\* Restarts, the user, the artifact, the pod, the container, the timeout and the
\* informers are typed.
LEMMA EnvironmentTypeOK ==
    ASSUME TypeOK,
           \/ ManagerRestarts \/ AgentRestarts \/ UserNext \/ ArtifactNext
           \/ KeeperNext \/ LatePasses \/ InformerNext
    PROVE  TypeOK'
<1>a. /\ crashes < MaxCrashes => crashes + 1 \in 0..MaxCrashes
      /\ \A p \in Processes : [cache EXCEPT ![p] = rst] \in [Processes -> ObjType]
  BY DEF TypeOK
<1>b. "manager" \in Processes /\ "agent" \in Processes
  BY DEF Processes
<1>1. CASE ManagerRestarts
  BY <1>a, <1>b, <1>1 DEF ManagerRestarts, TypeOK, nodeVars
<1>2. CASE AgentRestarts
  <2>1. run' \in [Lives -> Containers]
    BY <1>2, RestorationTypeOK DEF AgentRestarts, TypeOK
  <2>2. QED
    BY <1>a, <1>b, <1>2, <2>1, NoWorkTypeOK DEF AgentRestarts, TypeOK, podVars
<1>3. ASSUME NEW s \in Specs, Create(s)
      PROVE  TypeOK'
  <2>1. rst.life + 1 \in 0..MaxLives /\ s \in SpecType /\ "New" \in Phases
    BY <1>3 DEF Create, TypeOK, ObjType, Phases
  <2>2. Absent(rst.life + 1) \in ObjType
    BY <2>1, AbsentTypeOK
  <2>3. rst' \in ObjType
    BY <1>3, <2>1, <2>2 DEF Create, ObjType
  <2>4. QED
    BY <1>3, <2>3 DEF Create, TypeOK, podVars, nodeVars
<1>4. CASE Delete
  <2>1. [rst EXCEPT !.deleting = TRUE] \in ObjType /\ Absent(rst.life) \in ObjType
    BY AbsentTypeOK DEF TypeOK, ObjType
  <2>2. QED
    BY <1>4, <2>1 DEF Delete, TypeOK, podVars, nodeVars
<1>5. CASE ArtifactNext
  BY <1>5 DEF ArtifactNext, ArtifactCommits, ArtifactDeleted, ArtifactGoes, TypeOK,
              apiVars, podVars, nodeVars
<1>6. CASE KeeperStarts \/ KeeperFails \/ KeeperEvicted \/ KeeperCollected
  BY <1>6 DEF KeeperStarts, KeeperFails, KeeperEvicted, KeeperCollected, KeeperMoves,
              TypeOK, PodType, apiVars, nodeVars
<1>7. CASE KeeperGoes
  <2>1. NoPod \in PodType
    BY DEF NoPod, PodType
  <2>2. run' \in [Lives -> Containers]
    BY <1>7 DEF KeeperGoes, TypeOK, Containers
  <2>3. QED
    BY <1>7, <2>1, <2>2 DEF KeeperGoes, TypeOK, apiVars
<1>8. CASE ContainerDies
  BY <1>8 DEF ContainerDies, TypeOK, Containers, apiVars, podVars
<1>9. CASE LatePasses
  BY <1>9 DEF LatePasses, TypeOK, apiVars, podVars, nodeVars
<1>10. CASE InformerNext
  BY <1>10 DEF InformerNext, PodInformed, Informed, TypeOK, apiVars, podVars, nodeVars
<1>11. QED
  BY <1>1, <1>2, <1>3, <1>4, <1>5, <1>6, <1>7, <1>8, <1>9, <1>10 DEF UserNext, KeeperNext

\* A user's deletion marks the object, or ends one that nothing was done for; a
\* new object is none that any copy knows.
LEMMA UserInv ==
    ASSUME RestoreInv, TypeOK', UserNext
    PROVE  RestoreInv' /\ StepsAllowed
<1>1. rst \in ObjType /\ wrk \in WorkType /\ \A p \in Processes : cache[p] \in ObjType
  BY DEF RestoreInv, TypeOK
<1>2. CASE Delete
  <2>1. /\ UNCHANGED <<cache, run, wrk>> /\ Live(rst)
        /\ rst' = IF rst.finalizer THEN [rst EXCEPT !.deleting = TRUE] ELSE Absent(rst.life)
    BY <1>2 DEF Delete, nodeVars
  <2>2. Write(rst, rst') /\ RunsOn /\ ~rst.torn
    BY <2>1 DEF Write, Current, RunsOn, RestoreInv, Torn, Live
  <2>3. CASE rst.finalizer
    <3>1. /\ rst'.phase = rst.phase /\ rst'.life = rst.life /\ rst'.pod = rst.pod
          /\ rst'.torn = rst.torn /\ rst'.container = rst.container
          /\ rst'.deleting /\ rst'.finalizer = rst.finalizer
      BY <1>1, <2>1, <2>3 DEF ObjType
    <3>2. Keeps(rst, rst') /\ Exists(rst')
      BY <2>1, <3>1 DEF Keeps, Untouched, Exists, Live, Final
    <3>3. QED
      BY <2>1, <2>2, <3>1, <3>2, WriteInv
  <2>4. CASE ~rst.finalizer
    <3>1. /\ rst'.life = rst.life /\ rst'.pod = 0 /\ rst'.torn = FALSE /\ ~Exists(rst')
      BY <2>1, <2>4 DEF Absent, Exists
    <3>2. Keeps(rst, rst') /\ ~rst.container
      BY <2>1, <2>4, <3>1 DEF Keeps, Untouched, RestoreInv, Live
    <3>3. QED
      BY <2>1, <2>2, <3>1, <3>2, WriteInv
  <2>5. QED
    BY <2>3, <2>4
<1>3. ASSUME NEW s \in Specs, Create(s)
      PROVE  RestoreInv' /\ StepsAllowed
  <2>1. /\ rst'.life = rst.life + 1 /\ rst'.phase = "New" /\ rst'.pod = 0
        /\ rst'.torn = FALSE /\ rst'.container = FALSE /\ rst.life \in Nat
    BY <1>1, <1>3 DEF Create, Absent, ObjType
  <2>2. UNCHANGED <<cache, run, wrk>> /\ ~Exists(rst)
    BY <1>3 DEF Create, nodeVars
  <2>3. StepsAllowed
    BY <2>1, <2>2 DEF StepsAllowed, TerminalKept
  <2>4. OwnPodOnly' /\ Untouched(rst)' /\ Torn'
    BY <2>1 DEF OwnPodOnly, Untouched, Torn
  <2>5. /\ \A p \in Processes : cache[p].life \in Nat /\ cache[p].life <= rst.life
        /\ wrk.snap.life \in Nat /\ wrk.snap.life <= rst.life /\ "agent" \in Processes
    BY <1>1 DEF RestoreInv, Copies, Behind, ObjType, WorkType, Processes
  <2>6. Copies'
    BY <2>1, <2>2, <2>5 DEF Copies, RestoreInv, Behind, DeletionKept, Exists
  <2>7. WorkPhase'
    BY <2>1, <2>2, <2>5 DEF WorkPhase, RestoreInv, Killed, InFlight, Live, Exists
  <2>8. QED
    BY <2>3, <2>4, <2>6, <2>7 DEF RestoreInv
<1>4. QED
  BY <1>2, <1>3 DEF UserNext

\* Nobody else writes the object, and only the agent starts a container; an agent
\* that stops inside runc may leave behind the one it was starting.
LEMMA WorldInv ==
    ASSUME RestoreInv, TypeOK',
           \/ ManagerRestarts \/ AgentRestarts \/ ArtifactNext
           \/ KeeperNext \/ LatePasses \/ InformerNext
    PROVE  RestoreInv' /\ StepsAllowed
<1>1. TypeOK
  BY DEF RestoreInv
<1>2. UNCHANGED run => RunsOn
  BY DEF RunsOn
<1>3. CASE ManagerRestarts
  <2>1. UNCHANGED <<rst, run, wrk>> /\ \A p \in Processes : cache'[p] \in {cache[p], rst}
    BY <1>1, <1>3 DEF ManagerRestarts, nodeVars, TypeOK
  <2>2. QED
    BY <1>2, <2>1, SilentInv
<1>4. CASE AgentRestarts
  <2>1. UNCHANGED rst /\ wrk' = NoWork /\ \A p \in Processes : cache'[p] \in {cache[p], rst}
    BY <1>1, <1>4 DEF AgentRestarts, TypeOK
  <2>2. RunsOn
    BY <1>1, <1>4 DEF RunsOn, AgentRestarts, RuncCan, Restoration, InFlight, TypeOK
  <2>3. QED
    BY <2>1, <2>2, SilentInv
<1>5. CASE ArtifactNext \/ LatePasses
  <2>1. UNCHANGED <<rst, cache, run, wrk>>
    BY <1>5 DEF ArtifactNext, ArtifactCommits, ArtifactDeleted, ArtifactGoes, LatePasses,
                apiVars, nodeVars
  <2>2. QED
    BY <1>2, <2>1, SilentInv
<1>6. CASE KeeperNext
  <2>1. UNCHANGED <<rst, cache, wrk>>
    BY <1>6 DEF KeeperNext, KeeperStarts, KeeperFails, KeeperEvicted, KeeperCollected,
                KeeperMoves, KeeperGoes, ContainerDies, apiVars
  <2>2. RunsOn
    BY <1>1, <1>6 DEF RunsOn, KeeperNext, KeeperStarts, KeeperFails, KeeperEvicted,
                      KeeperCollected, KeeperMoves, KeeperGoes, ContainerDies, nodeVars, TypeOK
  <2>3. QED
    BY <2>1, <2>2, SilentInv
<1>7. CASE InformerNext
  <2>1. UNCHANGED <<rst, run, wrk>> /\ \A p \in Processes : cache'[p] \in {cache[p], rst}
    BY <1>1, <1>7 DEF InformerNext, PodInformed, Informed, apiVars, nodeVars, TypeOK
  <2>2. QED
    BY <1>2, <2>1, SilentInv
<1>8. QED
  BY <1>3, <1>4, <1>5, <1>6, <1>7

\* The invariant holds before the first object.
LEMMA InitInv == Init => RestoreInv
<1>1. ASSUME Init PROVE RestoreInv
  <2>1. TypeOK
    BY <1>1, InitTypeOK
  <2>2. /\ rst = Absent(0) /\ wrk = NoWork /\ \A p \in Processes : cache[p] = Absent(0)
        /\ "agent" \in Processes
    BY <1>1 DEF Init, Processes
  <2>3. QED
    BY <2>1, <2>2
    DEF RestoreInv, OwnPodOnly, Copies, Behind, DeletionKept, Untouched, WorkPhase, InFlight,
        Torn, Absent, NoWork, Exists, Live
<1>2. QED
  BY <1>1

\* Every step keeps the invariant and is one the action properties allow.
LEMMA NextInv ==
    ASSUME RestoreInv, [Next]_vars
    PROVE  RestoreInv' /\ [StepsAllowed]_vars
<1>1. TypeOK
  BY DEF RestoreInv
<1>2. CASE ManagerReconciles(cache["manager"])
  <2>1. cache["manager"] \in ObjType
    BY <1>1 DEF TypeOK, Processes
  <2>2. QED
    BY <1>1, <1>2, <2>1, ManagerTypeOK, ManagerInv
<1>3. CASE AgentReconciles(cache["agent"])
  <2>1. cache["agent"] \in ObjType /\ (Exists(cache["agent"]) => cache["agent"].life \in Lives)
    BY <1>1 DEF TypeOK, Processes, RestoreInv, Copies, Behind, ObjType, Lives
  <2>2. QED
    BY <1>1, <1>3, <2>1, AgentTypeOK, AgentInv
<1>4. CASE UserNext
  BY <1>1, <1>4, EnvironmentTypeOK, UserInv
<1>5. CASE \/ ManagerRestarts \/ AgentRestarts \/ ArtifactNext
           \/ KeeperNext \/ LatePasses \/ InformerNext
  BY <1>1, <1>5, EnvironmentTypeOK, WorldInv
<1>6. CASE UNCHANGED vars
  <2>1. UNCHANGED <<rst, cache, run, wrk>> /\ TypeOK'
    BY <1>1, <1>6 DEF vars, TypeOK
  <2>2. QED
    BY <1>6, <2>1, SilentInv DEF RunsOn
<1>7. QED
  BY <1>2, <1>3, <1>4, <1>5, <1>6 DEF Next, ManagerNext, AgentNext

-----------------------------------------------------------------------------
(* The theorems. *)

\* The inductive invariant, which the others read off.
THEOREM Invariance == Spec => []RestoreInv
  BY InitInv, NextInv, PTL DEF Spec

\* No reconciler of PodRestores writes a phase or a status that none knows
\* (podrestore_controller.go Reconcile, restore_controller.go Reconcile).
THEOREM RestoreTypeCorrect == Spec => []TypeOK
<1>1. RestoreInv => TypeOK
  BY DEF RestoreInv
<1>2. QED
  BY <1>1, Invariance, PTL

\* The pod a PodRestore records, and the agent restores into, was made for it,
\* whatever pod of that name an earlier object left behind
\* (podrestore_controller.go reconcilePreparing).
THEOREM NeverAdopts == Spec => []OwnPodOnly
<1>1. RestoreInv => OwnPodOnly
  BY DEF RestoreInv
<1>2. QED
  BY <1>1, Invariance, PTL

\* A restore that failed stays failed and one that runs can only fail, although
\* the agent writes long after it read (restore_controller.go restore, prewarm).
THEOREM FinishedStays == Spec => RestoreFinal
<1>1. RestoreInv /\ [Next]_vars => [TerminalKept]_vars
  BY NextInv DEF StepsAllowed
<1>2. QED
  BY <1>1, Invariance, PTL DEF Spec, RestoreFinal

\* When the finalizer is released of an object whose container was recorded, that
\* container does not run, and no restore in flight can start it again
\* (podrestore_controller.go reconcileDelete, restore_controller.go teardown).
THEOREM KilledBeforeGone == Spec => RecordedContainerKilled
<1>1. RestoreInv /\ [Next]_vars =>
          [(Exists(rst) /\ rst.container /\ ~Exists(rst')) => run[rst.life] # "running"]_vars
  BY NextInv DEF StepsAllowed
<1>2. QED
  BY <1>1, Invariance, PTL DEF Spec, RecordedContainerKilled

-----------------------------------------------------------------------------
(***************************************************************************)
(* The restore keeps what RestoreLifecycle promises.  Beyond RestoreInv    *)
(* this needs what a copy of the object that is there now still says       *)
(* truly, and that a recorded container runc does not know was killed for  *)
(* good: nothing is about to start it again.                               *)
(***************************************************************************)
\* The object is past the point before which its container is not started.
Entered(c) == c.phase \in {"Restoring", "Running", "Failed"}

Recalled(c) ==
    (c.life = rst.life /\ Exists(rst)) =>
        /\ c.container => rst.container
        /\ c.phase = "Restoring" => Entered(rst)

\* The object's own fields agree.
Coherent ==
    /\ rst.phase \in {"New", "Pending"} => ~rst.warmed
    /\ rst.phase = "Running" => rst.container
    /\ ~Exists(rst) => rst = Absent(rst.life)

\* A container runc does not know was never started, or was killed for good.
RuncForgets ==
    /\ wrk.pc = "restored" => run[wrk.snap.life] # "none"
    /\ (Exists(rst) /\ rst.container /\ run[rst.life] = "none") => Killed(rst)
    /\ \A l \in Lives : l > rst.life => run[l] = "none"

LifecycleInv ==
    /\ RestoreInv
    /\ Recalled(cache["agent"])
    /\ InFlight => Recalled(wrk.snap)
    /\ wrk.pc \in {"fetching", "warmed"} => Live(wrk.snap)
    /\ Coherent
    /\ RuncForgets

-----------------------------------------------------------------------------
(* What a step does, by its effect: to the object, ...                     *)
Onward(c, new) ==
    \/ new.phase = c.phase /\ new.warmed = c.warmed
    \/ /\ new.warmed = c.warmed
       /\ \/ c.phase = "New" /\ new.phase = "Pending"
          \/ c.phase = "Pending" /\ new.phase \in {"PreWarming", "Preparing"}
          \/ c.phase = "Preparing" /\ new.phase = "PreWarming" /\ ~c.warmed
          \/ c.phase = "Preparing" /\ new.phase = "Restoring"
          \/ c.phase \in Unfinished \cup {"Running"} /\ new.phase = "Failed"
    \/ c.phase = "PreWarming" /\ new.phase \in {"Preparing", "Restoring"} /\ new.warmed

Amends(c, new) ==
    /\ Exists(c) /\ Exists(new)
    /\ new.life = c.life /\ new.deleting = c.deleting
    /\ Live(c) \/ new.phase = c.phase
    /\ \/ Onward(c, new) /\ new.container = c.container
       \/ /\ wrk.pc = "restored" /\ c = wrk.snap
          /\ c.phase = "Restoring" /\ new.phase = "Running"
          /\ new.container /\ new.warmed = c.warmed

Marked ==
    /\ Live(rst)
    /\ rst' = [rst EXCEPT !.deleting = TRUE]

Ended ==
    /\ Exists(rst)
    /\ rst.deleting \/ rst.phase = "New"
    /\ rst' = Absent(rst.life)

Objects ==
    \/ rst' = rst
    \/ Amends(rst, rst')
    \/ Marked \/ Ended
    \/ \E s \in Specs : Create(s)

(* ... to the containers, ...                                              *)
Started(l) ==
    /\ InFlight /\ l = wrk.snap.life
    /\ run[l] = "none" /\ run'[l] = "running"
    /\ rst' = rst \/ (Amends(rst, rst') /\ rst.phase = "Restoring" /\ rst'.phase = "Failed")

Ceased(l) ==
    /\ rst' = rst
    /\ run[l] = "running" /\ run'[l] = "stopped"

Forgotten(l) ==
    /\ rst' = rst
    /\ cache["agent"].deleting /\ cache["agent"].container /\ l = cache["agent"].life
    /\ wrk'.pc = "torn" /\ wrk'.snap = cache["agent"]
    /\ run'[l] = "none"

Runs == \A l \in Lives : run'[l] = run[l] \/ Started(l) \/ Ceased(l) \/ Forgotten(l)

(* ... and to the worker.                                                  *)
Works ==
    /\ cache'["agent"] \in {cache["agent"], rst}
    /\ InFlight' =>
        \/ InFlight /\ wrk'.snap = wrk.snap
        \/ wrk'.snap = cache["agent"] /\ Live(cache["agent"])
    /\ wrk'.pc = "restored" =>
        \/ wrk' = wrk
        \/ wrk'.snap.life \in Lives => run'[wrk'.snap.life] # "none"
    /\ wrk'.pc \in {"fetching", "warmed"} =>
        \/ wrk.pc \in {"fetching", "warmed"} /\ wrk'.snap = wrk.snap
        \/ Live(wrk'.snap)

Effects == Objects /\ Runs /\ Works

-----------------------------------------------------------------------------
\* A write from a current copy amends the object.
LEMMA WriteEffects ==
    ASSUME NEW c, NEW new, Write(c, new), Amends(c, new),
           UNCHANGED run, wrk' = wrk \/ wrk' = NoWork
    PROVE  Effects
<1>1. rst = c /\ rst' = new /\ UNCHANGED cache
  BY DEF Write, Current
<1>2. NoWork.pc = "idle"
  BY DEF NoWork
<1>3. QED
  BY <1>1, <1>2 DEF Effects, Objects, Runs, Works, InFlight

\* A step that writes no status and starts nothing.
LEMMA QuietEffects ==
    ASSUME UNCHANGED <<rst, run>>, cache'["agent"] \in {cache["agent"], rst},
           \/ wrk' = wrk \/ wrk' = NoWork \/ wrk'.pc = "torn"
           \/ wrk'.pc = "fetching" /\ Live(wrk'.snap)
           \/ wrk'.pc = "restoring" /\ wrk'.snap = cache["agent"] /\ Live(cache["agent"])
           \/ wrk.pc = "fetching" /\ wrk'.pc = "warmed" /\ wrk'.snap = wrk.snap
    PROVE  Effects
<1>1. NoWork.pc = "idle"
  BY DEF NoWork
<1>2. QED
  BY <1>1 DEF Effects, Objects, Runs, Works, InFlight

\* A write of the phase alone.
LEMMA PhaseEffects ==
    ASSUME NEW c \in ObjType, NEW phase \in {"Pending", "Preparing", "Failed"},
           Live(c), Write(c, In(c, phase)), UNCHANGED run, wrk' = wrk \/ wrk' = NoWork,
           \/ c.phase = "New" /\ phase = "Pending"
           \/ c.phase = "Pending" /\ phase = "Preparing"
           \/ c.phase \in Unfinished \cup {"Running"} /\ phase = "Failed"
    PROVE  Effects
<1> USE PhasesTypeOK
<1> DEFINE new == In(c, phase)
<1>0. phase \in Phases
  OBVIOUS
<1>1. /\ new.phase = phase /\ new.life = c.life /\ new.warmed = c.warmed
      /\ new.container = c.container /\ new.deleting = c.deleting
  BY <1>0, InSame DEF Same
<1>2. Write(c, new)
  OBVIOUS
<1> HIDE DEF new
<1>3. Amends(c, new)
  BY <1>1 DEF Amends, Onward, Live, Exists
<1>4. QED
  BY <1>2, <1>3, WriteEffects

\* The manager's reconciles, by their effects.
LEMMA ManagerEffects ==
    ASSUME LifecycleInv, ManagerReconciles(cache["manager"])
    PROVE  Effects
<1> USE PhasesTypeOK
<1> DEFINE c == cache["manager"]
<1>1. c \in ObjType
  BY DEF LifecycleInv, RestoreInv, TypeOK, Processes
<1>2. ASSUME NEW new, ManagerWrites(c, new) PROVE Write(c, new) /\ UNCHANGED <<run, wrk>>
  BY <1>2 DEF ManagerWrites, nodeVars
<1>3. ASSUME NEW new, Live(c), new.phase = c.phase, new.warmed = c.warmed, new.life = c.life,
             new.container = c.container, new.deleting = c.deleting
      PROVE  Amends(c, new)
  BY <1>3 DEF Amends, Onward, Live, Exists
<1>4. CASE AddFinalizer(c)
  <2> DEFINE new == [c EXCEPT !.finalizer = TRUE]
  <2>1. /\ new.phase = c.phase /\ new.warmed = c.warmed /\ new.life = c.life
        /\ new.container = c.container /\ new.deleting = c.deleting
    BY <1>1 DEF ObjType
  <2>2. Live(c) /\ ManagerWrites(c, new)
    BY <1>4 DEF AddFinalizer
  <2> HIDE DEF new
  <2>3. QED
    BY <1>2, <1>3, <2>1, <2>2, WriteEffects
<1>5. CASE TimesOut(c)
  <2>1. Live(c) /\ ManagerWrites(c, In(c, "Failed")) /\ c.phase \in Unfinished
    BY <1>1, <1>5 DEF TimesOut, TimedOut, Terminal, ObjType, Phases, Unfinished, Live, Exists
  <2>2. QED
    BY <1>1, <1>2, <2>1, PhaseEffects
<1>6. CASE AcceptNew(c)
  BY <1>1, <1>2, <1>6, PhaseEffects DEF AcceptNew, Reconciling
<1>7. CASE PendingFails(c) \/ PreparingFails(c)
  <2>1. Live(c) /\ ManagerWrites(c, In(c, "Failed")) /\ c.phase \in Unfinished
    BY <1>7 DEF PendingFails, PreparingFails, Preparing, Reconciling, Unfinished
  <2>2. QED
    BY <1>1, <1>2, <2>1, PhaseEffects
<1>8. CASE PendingProceeds(c)
  <2>1. Live(c) /\ c.phase = "Pending"
    BY <1>8 DEF PendingProceeds, Reconciling
  <2>2. CASE ManagerWrites(c, In(c, "Preparing"))
    BY <1>1, <1>2, <2>1, <2>2, PhaseEffects
  <2>3. CASE ManagerWrites(c, [In(c, "PreWarming") EXCEPT !.target = TRUE])
    <3> DEFINE new == [In(c, "PreWarming") EXCEPT !.target = TRUE]
    <3>1. /\ new.phase = "PreWarming" /\ new.life = c.life /\ new.warmed = c.warmed
          /\ new.container = c.container /\ new.deleting = c.deleting
      BY <1>1, InTypeOK DEF ObjType
    <3>2. ManagerWrites(c, new)
      BY <2>3
    <3> HIDE DEF new
    <3>3. Amends(c, new)
      BY <2>1, <3>1 DEF Amends, Onward, Live, Exists
    <3>4. QED
      BY <1>2, <3>2, <3>3, WriteEffects
  <2>4. QED
    BY <1>8, <2>2, <2>3 DEF PendingProceeds
<1>9. ASSUME Live(c), Write(c, [c EXCEPT !.named = TRUE]), UNCHANGED <<run, wrk>>
      PROVE  Effects
  <2> DEFINE new == [c EXCEPT !.named = TRUE]
  <2>1. /\ new.phase = c.phase /\ new.warmed = c.warmed /\ new.life = c.life
        /\ new.container = c.container /\ new.deleting = c.deleting
    BY <1>1 DEF ObjType
  <2>2. Write(c, new)
    BY <1>9
  <2> HIDE DEF new
  <2>3. QED
    BY <1>3, <1>9, <2>1, <2>2, WriteEffects
<1>10. CASE CreatesPod(c)
  <2>1. Live(c) /\ UNCHANGED <<run, wrk>>
    BY <1>10 DEF CreatesPod, Preparing, Reconciling, nodeVars
  <2>2. CASE UNCHANGED apiVars
    BY <2>1, <2>2, QuietEffects DEF apiVars
  <2>3. QED
    BY <1>9, <1>10, <2>1, <2>2 DEF CreatesPod
<1>11. CASE PodNotRunning(c)
  BY <1>2, <1>9, <1>11 DEF PodNotRunning, Preparing, Reconciling
<1>12. CASE Prepared(c)
  <2> DEFINE next == IF c.spec.prewarm /\ ~c.warmed THEN "PreWarming" ELSE "Restoring"
             x    == In(c, next)
             new  == [x EXCEPT !.named = TRUE, !.pod = seen.life, !.target = TRUE]
  <2>1. Live(c) /\ c.phase = "Preparing" /\ ManagerWrites(c, new)
    BY <1>12 DEF Prepared, Preparing, Reconciling
  <2>2. next = "Restoring" \/ (next = "PreWarming" /\ ~c.warmed)
    OBVIOUS
  <2> HIDE DEF next
  <2>3. x \in ObjType /\ x.phase = next /\ Same(x, c)
    BY <1>1, <2>2, InSame
  <2> HIDE DEF x
  <2>4. /\ new.phase = next /\ new.life = c.life /\ new.warmed = c.warmed
        /\ new.container = c.container /\ new.deleting = c.deleting
    BY <2>3 DEF ObjType, Same
  <2> HIDE DEF new
  <2>5. Amends(c, new)
    BY <2>1, <2>2, <2>4 DEF Amends, Onward, Live, Exists
  <2>6. QED
    BY <1>2, <2>1, <2>5, WriteEffects
<1>13. CASE Releases(c)
  <2>1. UNCHANGED <<run, wrk>> /\ Exists(c) /\ c.deleting
    BY <1>13 DEF Releases, TeardownDone, Deleting, nodeVars
  <2>2. CASE Write(c, Absent(c.life))
    <3>1. rst' = Absent(rst.life) /\ Exists(rst) /\ rst.deleting /\ UNCHANGED cache
      BY <2>1, <2>2 DEF Write, Current
    <3>2. QED
      BY <2>1, <3>1 DEF Effects, Objects, Ended, Runs, Works, InFlight
  <2>3. CASE UNCHANGED apiVars
    BY <2>1, <2>3, QuietEffects DEF apiVars
  <2>4. QED
    BY <1>13, <2>2, <2>3 DEF Releases
<1>14. QED
  BY <1>4, <1>5, <1>6, <1>7, <1>8, <1>10, <1>11, <1>12, <1>13 DEF ManagerReconciles

\* A report of the worker writes from the copy it began with, or nothing.
LEMMA ReportEffects ==
    ASSUME NEW k, NEW new, Reports(k, new), UNCHANGED run, Current(k) => Amends(k, new)
    PROVE  Effects
<1>1. wrk' = NoWork
  BY DEF Reports, AgentGoes
<1>2. CASE Current(k)
  BY <1>1, <1>2, WriteEffects DEF Reports
<1>3. CASE UNCHANGED apiVars
  BY <1>1, <1>3, QuietEffects DEF apiVars
<1>4. QED
  BY <1>2, <1>3 DEF Reports

\* The same, of a failure.
LEMMA FailureAmends ==
    ASSUME NEW k \in ObjType, Live(k), k.phase \in Unfinished \cup {"Running"}
    PROVE  Amends(k, In(k, "Failed"))
<1> DEFINE new == In(k, "Failed")
<1>1. /\ new.phase = "Failed" /\ new.life = k.life /\ new.warmed = k.warmed
      /\ new.container = k.container /\ new.deleting = k.deleting
  BY InTypeOK, PhasesTypeOK
<1> HIDE DEF new
<1>2. Amends(k, new)
  BY <1>1 DEF Amends, Onward, Live, Exists
<1>3. QED
  BY <1>2 DEF new

\* The agent's reconciles, by their effects.
LEMMA AgentEffects ==
    ASSUME LifecycleInv, AgentReconciles(cache["agent"])
    PROVE  Effects
<1> USE PhasesTypeOK
<1> DEFINE c == cache["agent"]
           k == wrk.snap
<1>1. /\ c \in ObjType /\ k \in ObjType /\ wrk \in WorkType
      /\ run \in [Lives -> Containers] /\ TypeOK
  BY DEF LifecycleInv, RestoreInv, TypeOK, Processes, WorkType
<1>2. CASE PrewarmWaits(c)
  BY <1>2, QuietEffects DEF PrewarmWaits, AgentGoes, apiVars
<1>3. CASE PrewarmStarts(c)
  <2>1. /\ UNCHANGED <<rst, cache, run>> /\ wrk' = [pc |-> "fetching", snap |-> c] /\ Live(c)
    BY <1>3 DEF PrewarmStarts, Mine, AgentGoes, apiVars
  <2>2. QED
    BY <2>1, QuietEffects
<1>4. CASE PrewarmFetches
  <2>1. /\ UNCHANGED <<rst, cache, run>> /\ wrk.pc = "fetching"
        /\ wrk' = [wrk EXCEPT !.pc = "warmed"]
    BY <1>4 DEF PrewarmFetches, AgentGoes, apiVars
  <2>2. wrk'.pc = "warmed" /\ wrk'.snap = wrk.snap
    BY <1>1, <2>1 DEF WorkType
  <2>3. QED
    BY <2>1, <2>2, QuietEffects
<1>5. CASE PrewarmFails
  <2>1. Live(k) /\ k.phase = "PreWarming" /\ UNCHANGED run
    BY <1>5 DEF PrewarmFails, LifecycleInv, RestoreInv, WorkPhase, nodeVars
  <2>2. Amends(k, In(k, "Failed"))
    BY <1>1, <2>1, FailureAmends DEF Unfinished
  <2>3. QED
    BY <1>5, <2>1, <2>2, ReportEffects DEF PrewarmFails
<1>6. CASE PrewarmReports
  <2> DEFINE next == IF k.pod = 0 THEN "Preparing" ELSE "Restoring"
             x    == In(k, next)
             new  == [x EXCEPT !.warmed = TRUE]
  <2>1. Live(k) /\ k.phase = "PreWarming" /\ UNCHANGED run /\ Reports(k, new)
    BY <1>6 DEF PrewarmReports, LifecycleInv, RestoreInv, WorkPhase, nodeVars
  <2>2. next = "Restoring" \/ next = "Preparing"
    OBVIOUS
  <2> HIDE DEF next
  <2>3. x \in ObjType /\ x.phase = next /\ Same(x, k)
    BY <1>1, <2>2, InSame
  <2> HIDE DEF x
  <2>4. /\ new.phase = next /\ new.life = k.life /\ new.warmed
        /\ new.container = k.container /\ new.deleting = k.deleting
    BY <2>3 DEF ObjType, Same
  <2> HIDE DEF new
  <2>5. Amends(k, new)
    BY <2>1, <2>2, <2>4 DEF Amends, Onward, Live, Exists
  <2>6. QED
    BY <2>1, <2>5, ReportEffects
<1>7. CASE RestoreStarts(c)
  <2>1. UNCHANGED <<rst, cache, run>> /\ wrk' = [pc |-> "restoring", snap |-> c] /\ Live(c)
    BY <1>7 DEF RestoreStarts, Restorable, Mine, AgentGoes, apiVars, nodeVars
  <2>2. QED
    BY <2>1, QuietEffects
<1>8. CASE RestoreRefuses(c)
  <2>1. Live(c) /\ c.phase = "Restoring" /\ UNCHANGED run
    BY <1>8 DEF RestoreRefuses, Restorable, Mine, nodeVars
  <2>2. Amends(c, In(c, "Failed"))
    BY <1>1, <2>1, FailureAmends DEF Unfinished
  <2>3. QED
    BY <1>8, <2>1, <2>2, ReportEffects DEF RestoreRefuses
\* What runc does to the container of the restore in flight.
<1>9. ASSUME RuncCan, run' = Restoration
      PROVE  /\ InFlight /\ run[k.life] = "none"
             /\ k.life \in Lives => run'[k.life] = "running"
             /\ \A l \in Lives : l # k.life => run'[l] = run[l]
  BY <1>1, <1>9 DEF RuncCan, Restoration, InFlight
<1>10. CASE RuncRestores
  <2>1. /\ UNCHANGED <<rst, cache>> /\ RuncCan /\ run' = Restoration
        /\ wrk' = [wrk EXCEPT !.pc = "restored"]
    BY <1>10 DEF RuncRestores, AgentGoes, apiVars
  <2>2. wrk'.pc = "restored" /\ wrk'.snap = k
    BY <1>1, <2>1 DEF WorkType
  <2>3. Runs
    BY <1>9, <2>1 DEF Runs, Started
  <2>4. Works
    BY <1>9, <2>1, <2>2 DEF Works, InFlight
  <2>5. QED
    BY <2>1, <2>3, <2>4 DEF Effects, Objects
<1>11. CASE RuncFails
  <2>1. Live(k) /\ k.phase = "Restoring" /\ Reports(k, In(k, "Failed"))
    BY <1>11 DEF RuncFails, LifecycleInv, RestoreInv, WorkPhase, InFlight
  <2>2. Amends(k, In(k, "Failed"))
    BY <1>1, <2>1, FailureAmends DEF Unfinished
  <2>3. CASE run' = run
    BY <2>1, <2>2, <2>3, ReportEffects
  <2>4. CASE RuncCan /\ run' = Restoration
    <3>1. wrk' = NoWork /\ NoWork.pc = "idle" /\ cache' = cache
      BY <2>1 DEF Reports, AgentGoes, Write, apiVars, NoWork
    <3>2. In(k, "Failed").phase = "Failed"
      BY <1>1, InTypeOK
    <3>3. rst' = rst \/ (Amends(rst, rst') /\ rst.phase = "Restoring" /\ rst'.phase = "Failed")
      BY <2>1, <2>2, <3>2 DEF Reports, Write, Current, apiVars
    <3>4. Runs
      BY <1>9, <2>4, <3>3 DEF Runs, Started
    <3>5. Works
      BY <3>1 DEF Works, InFlight
    <3>6. QED
      BY <3>3, <3>4, <3>5 DEF Effects, Objects
  <2>5. QED
    BY <1>11, <2>3, <2>4 DEF RuncFails
<1>12. CASE RestoreReports
  <2> DEFINE x   == In(k, "Running")
             new == [x EXCEPT !.container = TRUE]
  <2>1. /\ wrk.pc = "restored" /\ Live(k) /\ k.phase = "Restoring" /\ UNCHANGED run
        /\ Reports(k, new)
    BY <1>12 DEF RestoreReports, Restored, LifecycleInv, RestoreInv, WorkPhase, InFlight, nodeVars
  <2>2. x \in ObjType /\ x.phase = "Running" /\ Same(x, k)
    BY <1>1, InSame
  <2> HIDE DEF x
  <2>3. /\ new.phase = "Running" /\ new.life = k.life /\ new.warmed = k.warmed
        /\ new.container /\ new.deleting = k.deleting
    BY <2>2 DEF ObjType, Same
  <2> HIDE DEF new
  <2>4. Amends(k, new)
    BY <2>1, <2>3 DEF Amends, Live, Exists
  <2>5. QED
    BY <2>1, <2>4, ReportEffects
<1>13. CASE NoticesDeath(c)
  <2>1. Live(c) /\ c.phase = "Running" /\ UNCHANGED run
    BY <1>13 DEF NoticesDeath, Mine, nodeVars
  <2>2. Amends(c, In(c, "Failed"))
    BY <1>1, <2>1, FailureAmends
  <2>3. QED
    BY <1>13, <2>1, <2>2, ReportEffects DEF NoticesDeath
<1>14. CASE TearsDown(c)
  <2>1. /\ UNCHANGED <<rst, cache>> /\ c.deleting
        /\ wrk'.pc = "torn" /\ wrk'.snap = c
        /\ run' = IF c.container THEN [run EXCEPT ![c.life] = "none"] ELSE run
    BY <1>14 DEF TearsDown, AgentGoes, apiVars
  <2>2. Runs
    BY <1>1, <2>1 DEF Runs, Forgotten
  <2>3. QED
    BY <2>1, <2>2 DEF Effects, Objects, Works, InFlight
<1>15. CASE AcksTeardown
  <2> DEFINE new == [k EXCEPT !.torn = TRUE]
  <2>1. Exists(k) /\ UNCHANGED run /\ Reports(k, new)
    BY <1>15 DEF AcksTeardown, LifecycleInv, RestoreInv, WorkPhase, nodeVars
  <2>2. /\ new.phase = k.phase /\ new.life = k.life /\ new.warmed = k.warmed
        /\ new.container = k.container /\ new.deleting = k.deleting
    BY <1>1 DEF ObjType
  <2> HIDE DEF new
  <2>3. Amends(k, new)
    BY <2>1, <2>2 DEF Amends, Onward, Exists
  <2>4. QED
    BY <2>1, <2>3, ReportEffects
<1>16. QED
  BY <1>2, <1>3, <1>4, <1>5, <1>6, <1>7, <1>8, <1>10, <1>11, <1>12, <1>13, <1>14, <1>15
  DEF AgentReconciles

\* Everybody else's steps, by their effects.
LEMMA EnvironmentEffects ==
    ASSUME LifecycleInv,
           \/ ManagerRestarts \/ AgentRestarts \/ UserNext \/ ArtifactNext
           \/ KeeperNext \/ LatePasses \/ InformerNext
    PROVE  Effects
<1>1. /\ run \in [Lives -> Containers] /\ wrk \in WorkType /\ rst \in ObjType
      /\ cache \in [Processes -> ObjType] /\ "agent" \in Processes
  BY DEF LifecycleInv, RestoreInv, TypeOK, Processes
<1>2. CASE ManagerRestarts
  <2>1. UNCHANGED <<rst, run, wrk>> /\ cache'["agent"] = cache["agent"]
    BY <1>1, <1>2 DEF ManagerRestarts, nodeVars
  <2>2. QED
    BY <2>1, QuietEffects
<1>3. CASE AgentRestarts
  <2>1. UNCHANGED rst /\ wrk' = NoWork /\ cache'["agent"] = rst /\ NoWork.pc = "idle"
    BY <1>1, <1>3 DEF AgentRestarts, NoWork
  <2>2. CASE run' = run
    BY <2>1, <2>2, QuietEffects
  <2>3. CASE RuncCan /\ run' = Restoration
    <3>1. Runs
      BY <1>1, <2>1, <2>3 DEF Runs, Started, RuncCan, Restoration, InFlight
    <3>2. QED
      BY <2>1, <3>1 DEF Effects, Objects, Works, InFlight
  <2>4. QED
    BY <1>3, <2>2, <2>3 DEF AgentRestarts
<1>4. CASE Delete
  <2>1. /\ UNCHANGED <<cache, run, wrk>> /\ Live(rst)
        /\ rst' = IF rst.finalizer THEN [rst EXCEPT !.deleting = TRUE] ELSE Absent(rst.life)
    BY <1>4 DEF Delete, nodeVars
  <2>2. ~rst.finalizer => rst.phase = "New"
    BY <2>1 DEF LifecycleInv, RestoreInv, Untouched, Live
  <2>3. Objects
    BY <2>1, <2>2 DEF Objects, Marked, Ended, Live
  <2>4. QED
    BY <2>1, <2>3 DEF Effects, Runs, Works, InFlight
<1>5. ASSUME NEW s \in Specs, Create(s) PROVE Effects
  <2>1. UNCHANGED <<cache, run, wrk>>
    BY <1>5 DEF Create, nodeVars
  <2>2. QED
    BY <1>5, <2>1 DEF Effects, Objects, Runs, Works, InFlight
<1>6. CASE ArtifactNext \/ LatePasses
  <2>1. UNCHANGED <<rst, cache, run, wrk>>
    BY <1>6 DEF ArtifactNext, ArtifactCommits, ArtifactDeleted, ArtifactGoes, LatePasses,
                apiVars, nodeVars
  <2>2. QED
    BY <2>1, QuietEffects
<1>7. CASE KeeperNext
  <2>1. UNCHANGED <<rst, cache, wrk>>
    BY <1>7 DEF KeeperNext, KeeperStarts, KeeperFails, KeeperEvicted, KeeperCollected,
                KeeperMoves, KeeperGoes, ContainerDies, apiVars
  <2>2. \A l \in Lives : run'[l] = run[l] \/ (run[l] = "running" /\ run'[l] = "stopped")
    BY <1>1, <1>7 DEF KeeperNext, KeeperStarts, KeeperFails, KeeperEvicted,
                      KeeperCollected, KeeperMoves, KeeperGoes, ContainerDies, nodeVars
  <2>3. Runs /\ Objects
    BY <2>1, <2>2 DEF Runs, Ceased, Objects
  <2>4. QED
    BY <2>1, <2>3 DEF Effects, Works, InFlight
<1>8. CASE InformerNext
  <2>1. UNCHANGED <<rst, run, wrk>> /\ cache'["agent"] \in {cache["agent"], rst}
    BY <1>1, <1>8 DEF InformerNext, PodInformed, Informed, apiVars, nodeVars
  <2>2. QED
    BY <2>1, QuietEffects
<1>9. QED
  BY <1>2, <1>3, <1>4, <1>5, <1>6, <1>7, <1>8 DEF UserNext

\* So has every step one of these effects.
LEMMA StepEffects ==
    ASSUME LifecycleInv, [Next]_vars
    PROVE  Effects
<1>1. CASE UNCHANGED vars
  BY <1>1, QuietEffects DEF vars
<1>2. QED
  BY <1>1, ManagerEffects, AgentEffects, EnvironmentEffects DEF Next, ManagerNext, AgentNext

-----------------------------------------------------------------------------
(* The invariant, and the step, from these effects.                        *)

\* What a present object has reached, it keeps while it is there.
LEMMA ReachedStays ==
    ASSUME LifecycleInv, Effects, Exists(rst), Exists(rst'), rst'.life = rst.life
    PROVE  /\ rst.container => rst'.container
           /\ Entered(rst) => Entered(rst')
           /\ ~Live(rst) => ~Live(rst')
<1>1. rst \in ObjType
  BY DEF LifecycleInv, RestoreInv, TypeOK
<1>2. CASE Amends(rst, rst')
  BY <1>2 DEF Amends, Onward, Entered, Live, Unfinished
<1>3. CASE Marked
  BY <1>1, <1>3 DEF Marked, Entered, Live, ObjType
<1>4. CASE Ended
  BY <1>4 DEF Ended, Absent, Exists
<1>5. ASSUME NEW s \in Specs, Create(s) PROVE FALSE
  BY <1>5 DEF Create
<1>6. QED
  BY <1>2, <1>3, <1>4, <1>5 DEF Effects, Objects

\* Lives only grow, and a new one is no copy's.
LEMMA LivesGrow ==
    ASSUME LifecycleInv, Effects
    PROVE  /\ rst.life \in Nat /\ rst'.life \in {rst.life, rst.life + 1}
           /\ rst'.life # rst.life => ~Exists(rst) /\ ~rst'.container /\ rst'.phase = "New"
           /\ ~Exists(rst) => ~Exists(rst') \/ rst'.life # rst.life
<1>1. rst \in ObjType /\ rst.life \in Nat
  BY DEF LifecycleInv, RestoreInv, TypeOK, ObjType
<1>2. CASE rst' = rst \/ Amends(rst, rst')
  BY <1>1, <1>2 DEF Amends
<1>3. CASE Marked \/ Ended
  BY <1>1, <1>3 DEF Marked, Ended, Absent, ObjType, Live
<1>4. ASSUME NEW s \in Specs, Create(s)
      PROVE  rst'.life = rst.life + 1 /\ ~rst'.container /\ rst'.phase = "New" /\ ~Exists(rst)
  BY <1>4 DEF Create, Absent
<1>5. QED
  BY <1>1, <1>2, <1>3, <1>4 DEF Effects, Objects

\* A copy that recalls the object still does, and the object recalls itself.
LEMMA RecallStep ==
    ASSUME LifecycleInv, Effects, NEW c, c = rst \/ (Recalled(c) /\ c.life <= rst.life)
    PROVE  c.life = rst'.life /\ Exists(rst') =>
               (c.container => rst'.container) /\ (c.phase = "Restoring" => Entered(rst'))
<1>1. c.life <= rst.life
  BY LivesGrow
<1>2. ASSUME c.life = rst'.life, Exists(rst')
      PROVE  rst'.life = rst.life /\ Exists(rst)
  <2>1. c.life # rst.life + 1
    BY <1>1, <1>2, LivesGrow
  <2>2. QED
    BY <1>2, <2>1, LivesGrow
<1>3. QED
  BY <1>2, ReachedStays DEF Recalled, Entered

\* So do the caches and the worker.
LEMMA RecalledStep ==
    ASSUME LifecycleInv, Effects
    PROVE  Recalled(cache["agent"])' /\ (InFlight' => Recalled(wrk.snap)')
<1>1. cache["agent"].life <= rst.life /\ wrk.snap.life <= rst.life
  BY DEF LifecycleInv, RestoreInv, Copies, Behind, Processes
<1>2. cache'["agent"] \in {cache["agent"], rst}
  BY DEF Effects, Works
<1>3. Recalled(cache["agent"])'
  BY <1>1, <1>2, RecallStep DEF LifecycleInv, Recalled, Entered, Exists
<1>4. ASSUME InFlight' PROVE Recalled(wrk.snap)'
  <2>1. \/ InFlight /\ wrk'.snap = wrk.snap
        \/ wrk'.snap = cache["agent"]
    BY <1>4 DEF Effects, Works
  <2>2. QED
    BY <1>1, <2>1, RecallStep DEF LifecycleInv, Recalled, Entered, Exists
<1>5. QED
  BY <1>3, <1>4

\* The fields of the object still agree.
LEMMA CoherentStep ==
    ASSUME LifecycleInv, Effects
    PROVE  Coherent'
<1>1. rst \in ObjType
  BY DEF LifecycleInv, RestoreInv, TypeOK
<1>2. CASE rst' = rst
  BY <1>2 DEF LifecycleInv, Coherent, Exists
<1>3. CASE Amends(rst, rst')
  BY <1>3 DEF LifecycleInv, Coherent, Amends, Onward, Unfinished
<1>4. CASE Marked
  BY <1>1, <1>4 DEF LifecycleInv, Coherent, Marked, Live, Exists, ObjType
<1>5. CASE Ended
  <2>1. rst'.life = rst.life /\ rst'.phase = "Gone"
    BY <1>5 DEF Ended, Absent
  <2>2. QED
    BY <1>5, <2>1 DEF Coherent, Ended
<1>6. ASSUME NEW s \in Specs, Create(s) PROVE Coherent'
  BY <1>6 DEF Create, Coherent, Absent, Exists
<1>7. QED
  BY <1>2, <1>3, <1>4, <1>5, <1>6 DEF Effects, Objects

\* A container that is killed for good is not the one being started.
LEMMA StartsUnrecorded ==
    ASSUME LifecycleInv, NEW l \in Lives, Started(l), l = rst.life, Exists(rst)
    PROVE  ~rst.container /\ Entered(rst) /\ rst.phase # "Running"
<1>1. InFlight /\ wrk.snap.life = rst.life /\ run[rst.life] = "none"
  BY DEF Started
<1>2. ~rst.container
  BY <1>1 DEF LifecycleInv, RuncForgets, Killed
<1>3. wrk.snap.phase = "Restoring"
  BY <1>1 DEF LifecycleInv, RestoreInv, WorkPhase
<1>4. Entered(rst)
  BY <1>1, <1>3 DEF LifecycleInv, Recalled
<1>5. QED
  BY <1>2, <1>4 DEF LifecycleInv, Coherent

\* What runc knows of the containers, after the step.
LEMMA ForgetsStep ==
    ASSUME LifecycleInv, Effects, RestoreInv'
    PROVE  RuncForgets'
<1>1. rst \in ObjType /\ wrk.snap \in ObjType /\ run \in [Lives -> Containers]
  BY DEF LifecycleInv, RestoreInv, TypeOK, WorkType
<1>2. Runs /\ Works
  BY DEF Effects
<1>3. wrk.snap.life <= rst.life
  BY DEF LifecycleInv, RestoreInv, Copies, Behind
<1>4. ASSUME wrk'.pc = "restored" PROVE run'[wrk'.snap.life] # "none"
  <2>1. wrk'.snap.life \in Lives
    BY <1>4 DEF RestoreInv, WorkPhase, InFlight, Live, Copies, Behind, Exists, TypeOK, WorkType,
                ObjType, Lives
  <2>2. CASE wrk' = wrk
    <3>1. run[wrk'.snap.life] # "none"
      BY <1>4, <2>2 DEF LifecycleInv, RuncForgets
    <3>2. ~Forgotten(wrk'.snap.life)
      BY <1>4 DEF Forgotten
    <3>3. QED
      BY <1>2, <2>1, <3>1, <3>2 DEF Runs, Started, Ceased
  <2>3. QED
    BY <1>2, <1>4, <2>1, <2>2 DEF Works
<1>5. ASSUME Exists(rst'), rst'.container, run'[rst'.life] = "none" PROVE Killed(rst)'
  <2>1. Exists(rst) /\ rst'.life = rst.life
    BY <1>5, LivesGrow
  <2>2. rst.life \in Lives /\ "agent" \in Processes
    BY <1>1, <2>1 DEF LifecycleInv, RestoreInv, Copies, Behind, ObjType, Lives, Processes
  <2>3. CASE Forgotten(rst.life)
    <3>1. Killed(wrk.snap)' /\ wrk'.snap.life = rst'.life
      BY <2>1, <2>3 DEF RestoreInv, WorkPhase, Forgotten
    <3>2. QED
      BY <1>5, <3>1 DEF Killed, Live, Exists, InFlight
  <2>4. CASE ~Forgotten(rst.life)
    <3>1. run[rst.life] = "none"
      BY <1>2, <1>5, <2>1, <2>2, <2>4 DEF Runs, Started, Ceased
    <3>2. rst.container
      <4>1. ASSUME wrk.pc = "restored", rst = wrk.snap PROVE FALSE
        BY <3>1, <4>1 DEF LifecycleInv, RuncForgets
      <4>2. CASE Marked
        BY <1>1, <1>5, <4>2 DEF Marked, ObjType
      <4>3. CASE Ended
        BY <1>5, <4>3 DEF Ended, Absent
      <4>4. ASSUME NEW s \in Specs, Create(s) PROVE FALSE
        BY <2>1, <4>4 DEF Create
      <4>5. QED
        BY <1>5, <4>1, <4>2, <4>3, <4>4 DEF Effects, Objects, Amends
    <3>3. Killed(rst)
      BY <2>1, <3>1, <3>2 DEF LifecycleInv, RuncForgets
    <3>4. ~Live(rst) /\ ~Live(rst')
      BY <1>5, <2>1, <3>3, ReachedStays DEF Killed
    <3>5. cache'["agent"].life = rst.life => ~Live(cache'["agent"])
      BY <1>2, <3>3, <3>4 DEF Works, Killed
    <3>6. InFlight' => wrk'.snap.life # rst.life
      BY <1>2, <3>3 DEF Works, Killed
    <3>7. QED
      BY <1>5, <2>1, <3>4, <3>5, <3>6 DEF Killed, InFlight, Live, Exists
  <2>5. QED
    BY <2>3, <2>4
<1>6. ASSUME NEW l \in Lives, l > rst'.life PROVE run'[l] = "none"
  <2>1. l > rst.life /\ rst.life \in Nat /\ l \in Nat
    BY <1>6, LivesGrow DEF Lives
  <2>2. run[l] = "none" /\ l # wrk.snap.life
    BY <1>1, <1>3, <2>1 DEF LifecycleInv, RuncForgets, ObjType
  <2>3. QED
    BY <1>2, <2>2 DEF Runs, Started, Ceased, Forgotten
<1>7. QED
  BY <1>4, <1>5, <1>6 DEF RuncForgets, Killed, InFlight, Exists, Live

LEMMA LifecycleInit == Init => LifecycleInv
<1>1. ASSUME Init PROVE LifecycleInv
  <2>1. RestoreInv
    BY <1>1, InitInv
  <2>2. /\ rst = Absent(0) /\ wrk = NoWork /\ cache["agent"] = Absent(0)
        /\ run = [l \in Lives |-> "none"]
    BY <1>1 DEF Init, Processes
  <2>3. QED
    BY <2>1, <2>2 DEF LifecycleInv, Recalled, Coherent, RuncForgets, InFlight, Absent, NoWork, Exists
<1>2. QED
  BY <1>1

LEMMA LifecycleNext == LifecycleInv /\ [Next]_vars => LifecycleInv'
<1>1. ASSUME LifecycleInv, [Next]_vars PROVE LifecycleInv'
  <2>1. RestoreInv' /\ Effects
    BY <1>1, NextInv, StepEffects DEF LifecycleInv
  <2>2. wrk'.pc \in {"fetching", "warmed"} => Live(wrk.snap)'
    BY <1>1, <2>1 DEF Effects, Works, LifecycleInv, Live, Exists
  <2>3. QED
    BY <1>1, <2>1, <2>2, RecalledStep, CoherentStep, ForgetsStep DEF LifecycleInv
<1>2. QED
  BY <1>1

-----------------------------------------------------------------------------
LifecycleStep == [Lifecycle!Next]_(Lifecycle!lifecycle)

\* The stage of an object that is not being deleted, by its phase.
LEMMA StageOf ==
    ASSUME TypeOK, ~rst.deleting
    PROVE  /\ rst.phase = "Gone" => Stage = "absent"
           /\ rst.phase = "New" => Stage = "requested"
           /\ rst.phase = "Pending" => Stage = "pending"
           /\ rst.phase = "PreWarming" => Stage = "warming"
           /\ rst.phase = "Preparing" => Stage = "preparing"
           /\ rst.phase = "Restoring" => Stage = "restoring"
           /\ rst.phase = "Running" => Stage = "running"
           /\ rst.phase = "Failed" => Stage = "failed"
BY DEF Stage

\* A step that leaves the object alone may start, stop or remove its container.
LEMMA ContainerMaps ==
    ASSUME LifecycleInv, Effects, rst' = rst
    PROVE  LifecycleStep
<1> USE DEF LifecycleStep, Lifecycle!Next, Lifecycle!lifecycle
<1>1. Stage' = Stage
  BY DEF Stage
<1>2. CASE ~Exists(rst)
  BY <1>1, <1>2 DEF Container, Exists
<1>3. CASE Exists(rst)
  <2>1. rst.life \in Lives /\ TypeOK
    BY <1>3 DEF LifecycleInv, RestoreInv, TypeOK, Copies, Behind, ObjType, Lives
  <2>2. CASE run'[rst.life] = run[rst.life]
    BY <1>1, <2>2 DEF Container, Exists
  <2>3. CASE Started(rst.life)
    <3>1. ~rst.container /\ Entered(rst) /\ rst.phase # "Running"
      BY <1>3, <2>1, <2>3, StartsUnrecorded
    <3>2. Stage \in {"restoring", "failed", "leaving"}
      BY <2>1, <3>1, StageOf DEF Entered, Stage
    <3>3. Container = "none" /\ Container' = "running"
      BY <1>3, <2>3, <3>1 DEF Container, Started, Exists
    <3>4. QED
      BY <1>1, <3>2, <3>3 DEF Lifecycle!Starts
  <2>4. CASE Ceased(rst.life)
    <3>1. Container = "running" /\ Container' = "stopped"
      BY <1>3, <2>4 DEF Container, Ceased, Exists
    <3>2. QED
      BY <1>1, <3>1 DEF Lifecycle!Stops
  <2>5. CASE Forgotten(rst.life)
    <3>1. rst.container
      BY <1>3, <2>5 DEF Forgotten, LifecycleInv, Recalled
    <3>2. rst.deleting
      BY <1>3, <2>5 DEF Forgotten, LifecycleInv, RestoreInv, Copies, DeletionKept, Live
    <3>3. Stage = "leaving" /\ Container' = "removed"
      BY <1>3, <2>5, <3>1, <3>2 DEF Stage, Container, Forgotten, Exists
    <3>4. QED
      BY <1>1, <3>1, <3>3 DEF Lifecycle!TornDown
  <2>6. QED
    BY <2>1, <2>2, <2>3, <2>4, <2>5 DEF Effects, Runs
<1>4. QED
  BY <1>2, <1>3

\* A status write moves the object on to a stage that may follow.
LEMMA AmendsMaps ==
    ASSUME LifecycleInv, TypeOK', Effects, Amends(rst, rst')
    PROVE  LifecycleStep
<1> USE DEF LifecycleStep, Lifecycle!Next, Lifecycle!lifecycle
<1>1. /\ Exists(rst) /\ Exists(rst') /\ rst'.life = rst.life /\ rst'.deleting = rst.deleting
      /\ TypeOK /\ rst.life \in Lives
  BY DEF Amends, LifecycleInv, RestoreInv, TypeOK, Copies, Behind, ObjType, Lives
<1>2. CASE Started(rst.life) /\ rst' # rst
  <2>1. ~rst.container /\ rst.phase = "Restoring" /\ rst'.phase = "Failed"
    BY <1>1, <1>2, StartsUnrecorded DEF Started
  <2>2. rst'.container = rst.container /\ rst'.warmed = rst.warmed /\ ~rst.deleting
    BY <2>1 DEF Amends, Onward, Live
  <2>3. Container = "none" /\ Container' = "running"
    BY <1>1, <1>2, <2>1, <2>2 DEF Container, Started
  <2>4. Stage = "restoring" /\ Stage' = "failed"
    BY <1>1, <2>1, <2>2 DEF Stage
  <2>5. QED
    BY <2>1, <2>2, <2>3, <2>4 DEF Lifecycle!FailsStarted, Lifecycle!Moves
<1>3. CASE rst' = rst
  BY <1>3, ContainerMaps
<1>4. CASE run'[rst.life] = run[rst.life]
  <2>1. CASE Onward(rst, rst') /\ rst'.container = rst.container
    <3>1. Container' = Container
      BY <1>1, <1>4, <2>1 DEF Container
    <3>2. CASE rst'.phase = rst.phase /\ rst'.warmed = rst.warmed
      BY <1>1, <2>1, <3>1, <3>2 DEF Stage
    <3>3. CASE rst'.phase # rst.phase
      <4>1. ~rst.deleting /\ ~rst'.deleting
        BY <1>1, <3>3 DEF Amends, Live
      <4>2. CASE rst'.warmed = rst.warmed /\ rst.phase = "New" /\ rst'.phase = "Pending"
        <5>1. Stage = "requested" /\ Stage' = "pending"
          BY <4>1, <4>2 DEF Stage
        <5>2. QED
          BY <2>1, <3>1, <4>2, <5>1 DEF Lifecycle!Accepted, Lifecycle!Moves
      <4>3. CASE rst'.warmed = rst.warmed /\ rst.phase = "Pending" /\ rst'.phase = "Preparing"
        <5>1. Stage = "pending" /\ Stage' = "preparing"
          BY <4>1, <4>3 DEF Stage
        <5>2. QED
          BY <2>1, <3>1, <4>3, <5>1 DEF Lifecycle!Located, Lifecycle!Moves
      <4>4. CASE /\ rst'.warmed = rst.warmed /\ rst'.phase = "PreWarming"
                 /\ rst.phase = "Pending" \/ (rst.phase = "Preparing" /\ ~rst.warmed)
        <5>1. Stage \in {"pending", "preparing"} /\ Stage' = "warming"
          BY <4>1, <4>4 DEF Stage
        <5>2. rst.warmed = FALSE
          BY <1>1, <4>4 DEF LifecycleInv, Coherent, TypeOK, ObjType
        <5>3. QED
          BY <2>1, <3>1, <4>4, <5>1, <5>2 DEF Lifecycle!WarmingBegins, Lifecycle!Moves
      <4>5. CASE rst'.warmed = rst.warmed /\ rst.phase = "Preparing" /\ rst'.phase = "Restoring"
        <5>1. Stage = "preparing" /\ Stage' = "restoring"
          BY <4>1, <4>5 DEF Stage
        <5>2. QED
          BY <2>1, <3>1, <4>5, <5>1 DEF Lifecycle!Prepared, Lifecycle!Moves
      <4>6. CASE /\ rst'.warmed = rst.warmed /\ rst'.phase = "Failed"
                 /\ rst.phase \in Unfinished \cup {"Running"}
        <5>1. Stage \in Lifecycle!Unfinished \cup {"running"} /\ Stage' = "failed"
          BY <4>1, <4>6 DEF Stage, Unfinished, Lifecycle!Unfinished
        <5>2. QED
          BY <2>1, <3>1, <4>6, <5>1 DEF Lifecycle!Fails, Lifecycle!Moves
      <4>7. CASE /\ rst.phase = "PreWarming" /\ rst'.phase \in {"Preparing", "Restoring"}
                 /\ rst'.warmed
        <5>1. Stage = "warming" /\ (Stage' = "preparing" \/ Stage' = "restoring")
          BY <4>1, <4>7 DEF Stage
        <5>2. rst'.warmed = TRUE
          BY <4>7 DEF TypeOK, ObjType
        <5>3. QED
          BY <2>1, <3>1, <5>1, <5>2 DEF Lifecycle!Warmed, Lifecycle!Moves
      <4>8. QED
        BY <2>1, <3>3, <4>2, <4>3, <4>4, <4>5, <4>6, <4>7 DEF Onward
    <3>4. QED
      BY <2>1, <3>2, <3>3 DEF Onward
  <2>2. CASE /\ wrk.pc = "restored" /\ rst = wrk.snap
             /\ rst.phase = "Restoring" /\ rst'.phase = "Running"
             /\ rst'.container /\ rst'.warmed = rst.warmed
    <3>1. run[rst.life] # "none"
      BY <2>2 DEF LifecycleInv, RuncForgets
    <3>2. Container = run[rst.life] /\ Container' = run[rst.life]
      BY <1>1, <1>4, <3>1 DEF Container
    <3>3. ~rst.deleting
      BY <2>2 DEF Amends, Live
    <3>4. Stage = "restoring" /\ Stage' = "running"
      BY <1>1, <2>2, <3>3 DEF Stage
    <3>5. rst'.container = TRUE
      BY <2>2 DEF TypeOK, ObjType
    <3>6. QED
      BY <2>2, <3>1, <3>2, <3>4, <3>5 DEF Lifecycle!Recorded, Lifecycle!Moves
  <2>3. QED
    BY <2>1, <2>2 DEF Amends
<1>5. QED
  BY <1>1, <1>2, <1>3, <1>4 DEF Effects, Runs, Ceased, Forgotten

\* The user's steps and the release of the finalizer.
LEMMA UserMaps ==
    ASSUME LifecycleInv, Effects, StepsAllowed, Marked \/ Ended \/ \E s \in Specs : Create(s)
    PROVE  LifecycleStep
<1> USE DEF LifecycleStep, Lifecycle!Next, Lifecycle!lifecycle
<1>1. TypeOK /\ rst \in ObjType
  BY DEF LifecycleInv, RestoreInv, TypeOK
<1>2. CASE Marked
  <2>1. /\ Exists(rst) /\ ~rst.deleting
        /\ rst'.deleting /\ rst'.phase = rst.phase /\ rst'.life = rst.life
        /\ rst'.warmed = rst.warmed /\ rst'.container = rst.container
    BY <1>1, <1>2 DEF Marked, Live, ObjType
  <2>2. rst.life \in Lives /\ rst' # rst
    BY <1>1, <2>1 DEF LifecycleInv, RestoreInv, Copies, Behind, ObjType, Lives
  <2>3. run'[rst.life] = run[rst.life]
    <3>1. ~Started(rst.life)
      BY <2>1, <2>2 DEF Started
    <3>2. QED
      BY <2>2, <3>1 DEF Effects, Runs, Ceased, Forgotten
  <2>4. Container' = Container
    BY <2>1, <2>3 DEF Container, Exists
  <2>5. Stage' = "leaving" /\ Stage \in Lifecycle!Present \ {"leaving"}
    BY <1>1, <2>1
    DEF Stage, Exists, Lifecycle!Present, Lifecycle!Unfinished
  <2>6. QED
    BY <2>1, <2>4, <2>5 DEF Lifecycle!Leaves, Lifecycle!Moves
<1>3. CASE Ended
  <2>1. /\ ~Exists(rst') /\ Stage' = "absent" /\ rst'.warmed = FALSE /\ rst'.container = FALSE
    BY <1>3 DEF Ended, Absent, Exists, Stage
  <2>2. Container' = "none"
    BY <2>1 DEF Container, Exists
  <2>3. Stage \in {"requested", "leaving"}
    BY <1>3 DEF Ended, Stage
  <2>4. rst.container => Container # "running"
    BY <1>3, <2>1 DEF Ended, StepsAllowed, Container
  <2>5. Lifecycle!Gone
    BY <2>1, <2>2, <2>3, <2>4, Zenon DEF Lifecycle!Gone, Lifecycle!Moves
  <2>6. QED
    BY <2>5
<1>4. ASSUME NEW s \in Specs, Create(s) PROVE LifecycleStep
  <2>1. ~Exists(rst) /\ rst.life < MaxLives /\ UNCHANGED run
    BY <1>4 DEF Create, nodeVars
  <2>n. rst.life \in Nat
    BY LivesGrow
  <2>2. rst.warmed = FALSE /\ rst.container = FALSE /\ rst.deleting = FALSE /\ rst.phase = "Gone"
    <3>1. rst = Absent(rst.life)
      BY <2>1 DEF LifecycleInv, Coherent
    <3>2. QED
      BY <3>1 DEF Absent
  <2>3. /\ rst'.phase = "New" /\ rst'.warmed = FALSE /\ rst'.container = FALSE
        /\ rst'.deleting = FALSE /\ rst'.life = rst.life + 1
    BY <1>4 DEF Create, Absent
  <2>4. rst'.life \in Lives /\ rst'.life > rst.life
    BY <2>1, <2>3, <2>n DEF Lives
  <2>5. run'[rst'.life] = "none"
    BY <2>1, <2>4 DEF LifecycleInv, RuncForgets
  <2>6. Container = "none" /\ Container' = "none"
    BY <2>1, <2>3, <2>5 DEF Container, Exists
  <2>7. Stage = "absent" /\ Stage' = "requested"
    BY <2>2, <2>3 DEF Stage
  <2>8. QED
    BY <2>2, <2>3, <2>6, <2>7 DEF Lifecycle!Created, Lifecycle!Moves
<1>5. QED
  BY <1>2, <1>3, <1>4

\* A PodRestore starts its container at most once and not before it is Restoring,
\* says Running only of one that was started, is warmed at most once, never goes
\* back, and is not gone while its recorded container runs
\* (podrestore_controller.go Reconcile, restore_controller.go Reconcile).
THEOREM RestoreLifecycleKept == Spec => KeepsRestoreLifecycle
<1>1. Init => Lifecycle!Init
  BY DEF Init, Lifecycle!Init, Stage, Container, Absent, Exists
<1>2. LifecycleInv /\ [Next]_vars => LifecycleStep
  <2>1. ASSUME LifecycleInv, [Next]_vars PROVE LifecycleStep
    <3>1. Effects /\ TypeOK' /\ [StepsAllowed]_vars
      BY <2>1, StepEffects, NextInv DEF LifecycleInv, RestoreInv
    <3>2. CASE UNCHANGED vars
      BY <2>1, <3>1, <3>2, ContainerMaps DEF vars
    <3>3. CASE StepsAllowed
      BY <2>1, <3>1, <3>3, ContainerMaps, AmendsMaps, UserMaps DEF Effects, Objects
    <3>4. QED
      BY <3>1, <3>2, <3>3
  <2>2. QED
    BY <2>1
<1>3. Spec => []LifecycleInv
  BY LifecycleInit, LifecycleNext, PTL DEF Spec
<1>4. QED
  BY <1>1, <1>2, <1>3, PTL DEF Spec, KeepsRestoreLifecycle, Lifecycle!Spec, LifecycleStep
=============================================================================
