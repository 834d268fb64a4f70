--------------------------- MODULE LifecycleProofs ---------------------------
(***************************************************************************)
(* On the kubelet's path Snapshot implements SnapshotLifecycle, for any    *)
(* number of objects of the name, dumps and restarts.                      *)
(***************************************************************************)
EXTENDS KubeletProofs

byManager == cache["manager"]
byAgent == cache["agent"]

(***************************************************************************)
(* What a copy c of the object, however old, still says of the object o.   *)
(***************************************************************************)
Remembers(c, o) ==
    /\ c.life <= o.life
    /\ c.life = o.life /\ Exists(o) =>
        /\ Exists(c)
        /\ c.deleting => o.deleting
        /\ Rank(c.phase) <= Rank(o.phase)
        /\ Rank(c.phase) >= 4 => c.tar = o.tar

Handled == {"Uploading", "Completed"}

(***************************************************************************)
(* The manager has seen an object that it accepted, the agent one that it  *)
(* claimed, and an upload that goes on while there is such an object is    *)
(* its own.  A deletion under way is of that object, too, unless the       *)
(* manager, busy with it, has not seen a newer one.  What the upload       *)
(* published stays: to delete it the manager would have to have seen the   *)
(* object's deletion.                                                      *)
(***************************************************************************)
LifeInv ==
    /\ \A p \in Processes : Remembers(cache[p], obj)
    /\ upl.pc # "idle" => Remembers(upl.snap, obj)
    /\ Exists(obj) => obj.life > 0
    /\ ~Exists(obj) => ~obj.deleting /\ obj.tar = NoDump
    /\ \A p \in Processes : Exists(cache[p]) => cache[p].life > 0
    /\ del.pc # "idle" => Exists(del.snap) /\ del.snap.deleting /\ Remembers(del.snap, obj)
    /\ del.pc # "idle" /\ Exists(obj) /\ obj.phase # "New" => del.snap.life = obj.life
    /\ Exists(obj) /\ obj.phase # "New" => byManager.life = obj.life
    /\ obj.phase \in Handled => byAgent.life = obj.life
    /\ obj.phase \in Handled /\ upl.pc # "idle" => upl.snap.life = obj.life
    /\ upl.pc \in {"removing", "reporting"} /\ Live(obj) /\ upl.snap.life = obj.life =>
        Committed(upl.snap.spec) = upl.snap.tar

\* The dumps that calls, uploads and tars refer to were begun.
BegunInv ==
    /\ tars \subseteq Begun
    /\ call.pc # "idle" => call.pod.life > 0
    /\ call.tar \in Begun \cup {NoDump}
    /\ upl.pc # "idle" => upl.snap.tar \in Begun

Inv == ForwardInv /\ LifeInv /\ BegunInv

-----------------------------------------------------------------------------
(***************************************************************************)
(* Writes of the object that leave the artifact alone, as the reader of    *)
(* its status sees them.                                                   *)
(***************************************************************************)
Onward ==
    {<<"New", "Pending">>, <<"Pending", "Pending">>, <<"Pending", "Quiescing">>,
     <<"Pending", "Checkpointing">>, <<"Quiescing", "Checkpointing">>,
     <<"Checkpointing", "Checkpointing">>, <<"Checkpointed", "Uploading">>}
    \cup {"Pending", "Quiescing", "Checkpointing", "Uploading"} \X {"Failed"}

Advances ==
    \/ obj'.phase = obj.phase /\ obj'.tar = obj.tar
    \/ <<obj.phase, obj'.phase>> \in Onward /\ obj'.tar = obj.tar
    \/ obj.phase = "Checkpointing" /\ obj'.phase = "Checkpointed" /\ obj'.tar \in Begun
    \/ /\ obj.phase = "Uploading" /\ obj'.phase = "Completed" /\ obj'.tar = obj.tar
       /\ Live(obj) => obj.tar \in Found

LifecycleStep == [Lifecycle!Next]_(Lifecycle!lifecycle)

\* Such a write is a step of the lifecycle, or none.
LEMMA AdvanceMaps ==
    ASSUME obj \in ObjType, obj' \in ObjType, Exists(obj), obj'.deleting = obj.deleting, Advances,
           Begun' = Begun, Found' = Found
    PROVE  LifecycleStep
<1> USE DEF LifecycleStep, Lifecycle!Next, Lifecycle!lifecycle, Lifecycle!Moves
<1>1. CASE obj.deleting
    <2>1. Stage = "leaving" /\ Stage' = "leaving" /\ Named' = Named
        BY <1>1 DEF Stage, Named
    <2> QED BY <2>1
<1>2. CASE ~obj.deleting
    <2>1. Named = obj.tar /\ Named' = obj'.tar
        BY <1>2 DEF Named
    <2>2. CASE obj'.phase = obj.phase /\ obj'.tar = obj.tar
        <3>1. Stage' = Stage
            BY <1>2, <2>2 DEF Stage
        <3> QED BY <2>1, <2>2, <3>1
    <2>3. CASE <<obj.phase, obj'.phase>> \in Onward /\ obj'.tar = obj.tar
        <3>1. \/ Stage' = Stage
              \/ Stage = "requested" /\ Stage' = "quiescing"
              \/ Stage \in {"requested", "quiescing"} /\ Stage' = "dumping"
              \/ Stage = "dumped" /\ Stage' = "publishing"
              \/ Stage \in Lifecycle!Going /\ Stage' = "failed"
            BY <1>2, <2>3 DEF Stage, Onward, Lifecycle!Going
        <3> QED
            BY <2>1, <2>3, <3>1
            DEF Lifecycle!Quiesces, Lifecycle!DumpBegins, Lifecycle!PublicationBegins,
                Lifecycle!Fails
    <2>4. CASE obj.phase = "Checkpointing" /\ obj'.phase = "Checkpointed" /\ obj'.tar \in Begun
        <3>1. Stage = "dumping" /\ Stage' = "dumped"
            BY <1>2, <2>4 DEF Stage
        <3> QED BY <2>1, <2>4, <3>1 DEF Lifecycle!Recorded
    <2>5. CASE /\ obj.phase = "Uploading" /\ obj'.phase = "Completed" /\ obj'.tar = obj.tar
               /\ obj.tar \in Found
        <3>1. Stage = "publishing" /\ Stage' = "completed"
            BY <1>2, <2>5 DEF Stage
        <3> QED BY <2>1, <2>5, <3>1 DEF Lifecycle!Completes
    <2> QED BY <1>2, <2>2, <2>3, <2>4, <2>5 DEF Advances, Live
<1> QED BY <1>1, <1>2 DEF ObjType

-----------------------------------------------------------------------------
(***************************************************************************)
(* What every step does to the object, to the copies of it, and to the     *)
(* upload.                                                                 *)
(***************************************************************************)
Kept ==
    /\ Exists(obj) /\ Exists(obj')
    /\ obj'.life = obj.life /\ obj'.spec = obj.spec
    /\ obj.deleting => obj'.deleting
    /\ obj'.tar = obj.tar \/ obj.phase = "Checkpointing"

Evolves ==
    \/ obj' = obj
    \/ Kept
    \/ obj' = Absent(obj.life)
    \/ obj'.life = obj.life + 1 /\ obj'.phase = "New" /\ ~obj'.deleting

Informs == \A p \in Processes : cache'[p] \in {cache[p], obj} /\ (obj' = obj \/ cache' = cache)

Accepts ==
    /\ Kept /\ obj.phase = "New" /\ obj'.phase # "New" =>
        byManager.life = obj.life /\ del.pc = "idle" /\ del' = del
    /\ Kept /\ obj'.phase \in Handled /\ obj.phase \notin Handled =>
        byAgent.life = obj.life /\ upl.pc = "idle"
    /\ Kept /\ obj'.phase = "Completed" /\ obj.phase # "Completed" =>
        /\ Live(obj) => Committed(obj.spec) = obj.tar
        /\ UNCHANGED <<dir, tarball>>
        /\ obj'.tar = obj.tar

Uploads ==
    \/ upl'.pc = "idle"
    \/ upl.pc # "idle" /\ upl'.snap = upl.snap
    \/ upl.pc = "idle" /\ upl'.pc = "expanding" /\ upl'.snap = byAgent /\ obj' = obj

Stays ==
    upl'.pc \in {"removing", "reporting"} =>
        \/ Committed(upl.snap.spec)' = upl'.snap.tar
        \/ /\ upl.pc \in {"removing", "reporting"}
           /\ Deleting(byManager) \/ del.pc # "idle" \/ UNCHANGED <<dir, tarball>>

Deletes ==
    \/ del'.pc = "idle"
    \/ del.pc # "idle" /\ del'.snap = del.snap
    \/ Deleting(byManager) /\ del'.snap = byManager /\ obj' = obj

Facts ==
    /\ Evolves
    /\ Informs
    /\ Accepts
    /\ Uploads
    /\ Stays
    /\ Deletes

\* The name without an object names no dump.
LEMMA AbsentFields ==
    ASSUME NEW life
    PROVE  /\ Absent(life).life = life /\ Absent(life).phase = "Gone"
           /\ Absent(life).tar = NoDump /\ Absent(life).deleting = FALSE
BY DEF Absent

\* What a copy says of the object it still says after a step.
LEMMA Remembered ==
    ASSUME TypeOK, TypeOK', ~obj.spec.agent, Evolves, PhaseForward, NEW c \in ObjType, Remembers(c, obj)
    PROVE  Remembers(c, obj')
<1> USE DEF Remembers, Exists
<1>1. obj.life \in Nat /\ c.life \in Nat /\ obj'.life \in Nat
    BY DEF TypeOK, ObjType
<1>2. CASE obj' = obj
    BY <1>2
<1>3. CASE Kept
    <2>1. obj'.phase # obj.phase => Rank(obj.phase) < Rank(obj'.phase)
        BY <1>3 DEF Kept, PhaseForward
    <2>2. Rank("Checkpointing") = 3
        BY DEF Rank
    <2>3. Rank(c.phase) \in Nat /\ Rank(obj.phase) \in Nat /\ Rank(obj'.phase) \in Nat
        BY DEF Rank
    <2>4. Rank(c.phase) >= 4 /\ Rank(c.phase) <= Rank(obj.phase) => obj'.tar = obj.tar
        BY <1>3, <2>2, <2>3 DEF Kept
    <2> HIDE DEF Exists
    <2> QED BY <1>3, <2>1, <2>3, <2>4 DEF Kept
<1>4. CASE obj' = Absent(obj.life)
    BY <1>1, <1>4, AbsentFields
<1>5. CASE obj'.life = obj.life + 1
    BY <1>1, <1>5
<1> QED BY <1>2, <1>3, <1>4, <1>5 DEF Evolves

\* Steps of that kind keep the invariant.
LEMMA LifeStep ==
    ASSUME TypeOK, TypeOK', ~obj.spec.agent, PhaseForward, LifeInv, Facts,
           upl.pc # "idle" => upl.snap.phase = "Uploading"
    PROVE  LifeInv'
<1>1. /\ obj.life \in Nat /\ obj'.life \in Nat
      /\ \A p \in Processes : cache[p] \in ObjType /\ cache'[p].life \in Nat
      /\ upl.snap \in ObjType /\ del.snap \in ObjType
    BY DEF TypeOK, CopyType, ObjType, UplType, DelType
<1>2. \A p \in Processes : Remembers(cache[p], obj)'
    <2> SUFFICES ASSUME NEW p \in Processes PROVE Remembers(cache[p], obj)'
        OBVIOUS
    <2>1. CASE cache' = cache
        BY <1>1, <2>1, Remembered DEF Facts, LifeInv
    <2>2. CASE obj' = obj
        <3>1. CASE cache'[p] = cache[p]
            BY <2>2, <3>1 DEF LifeInv, Remembers, Exists
        <3>2. CASE cache'[p] = obj
            <4>1. Rank(obj.phase) \in Nat
                BY DEF Rank
            <4> QED BY <1>1, <2>2, <3>2, <4>1 DEF Remembers, Exists
        <3> QED BY <3>1, <3>2 DEF Facts, Informs
    <2> QED BY <2>1, <2>2 DEF Facts, Informs
<1>3. (upl.pc # "idle" => Remembers(upl.snap, obj))'
    <2>1. CASE upl.pc # "idle" /\ upl'.snap = upl.snap
        <3>1. Remembers(upl.snap, obj')
            BY <1>1, <2>1, Remembered DEF Facts, LifeInv
        <3> QED BY <2>1, <3>1
    <2>2. CASE upl'.snap = byAgent /\ obj' = obj
        BY <2>2 DEF LifeInv, Remembers, byAgent, Processes, Exists
    <2> QED BY <2>1, <2>2 DEF Facts, Uploads
<1>4. \/ obj' = obj
      \/ Kept
      \/ ~Exists(obj') /\ ~obj'.deleting /\ obj'.tar = NoDump
      \/ obj'.phase = "New" /\ obj'.life = obj.life + 1 /\ ~obj'.deleting
    BY AbsentFields DEF Facts, Evolves, Exists
<1>5. /\ (Exists(obj) => obj.life > 0)'
      /\ (~Exists(obj) => ~obj.deleting /\ obj.tar = NoDump)'
      /\ (\A p \in Processes : Exists(cache[p]) => cache[p].life > 0)'
    <2>1. (Exists(obj) => obj.life > 0)'
        BY <1>1, <1>4 DEF Kept, LifeInv, Exists
    <2>2. (~Exists(obj) => ~obj.deleting /\ obj.tar = NoDump)'
        BY <1>1, <1>4 DEF Kept, LifeInv, Exists
    <2>3. (\A p \in Processes : Exists(cache[p]) => cache[p].life > 0)'
        BY DEF Facts, Informs, LifeInv, Exists
    <2> QED BY <2>1, <2>2, <2>3
<1>6. Exists(obj') => \/ Kept
                      \/ obj' = obj
                      \/ obj'.phase = "New" /\ obj'.life = obj.life + 1
    BY <1>4
<1>7. byManager' \in {byManager, obj} /\ byAgent' \in {byAgent, obj}
    BY DEF Facts, Informs, byManager, byAgent, Processes
<1>8. (Exists(obj) /\ obj.phase # "New" => byManager.life = obj.life)'
    BY <1>6, <1>7 DEF Facts, Accepts, Kept, LifeInv, Exists
<1>9. (obj.phase \in Handled => byAgent.life = obj.life)'
    BY <1>6, <1>7 DEF Facts, Accepts, Kept, LifeInv, Exists, Handled
<1>10. (obj.phase \in Handled /\ upl.pc # "idle" => upl.snap.life = obj.life)'
    BY <1>6 DEF Facts, Accepts, Uploads, Kept, LifeInv, Exists, Handled
<1>11. (upl.pc \in {"removing", "reporting"} /\ Live(obj) /\ upl.snap.life = obj.life =>
            Committed(upl.snap.spec) = upl.snap.tar)'
    <2> SUFFICES ASSUME upl'.pc \in {"removing", "reporting"}, Live(obj'),
                        upl'.snap.life = obj'.life,
                        Committed(upl.snap.spec)' # upl'.snap.tar
                 PROVE  FALSE
        OBVIOUS
    <2>1. upl'.snap = upl.snap /\ upl.pc \in {"removing", "reporting"}
        BY DEF Facts, Uploads, Stays
    <2>2. upl.snap.life <= obj.life
        BY <2>1 DEF LifeInv, Remembers
    <2>3. Live(obj) /\ upl.snap.life = obj.life
        BY <1>1, <1>6, <2>1, <2>2 DEF Kept, Live
    <2>4. Committed(upl.snap.spec) = upl.snap.tar
        BY <2>1, <2>3 DEF LifeInv
    <2>5. ~ UNCHANGED <<dir, tarball>>
        BY <2>1, <2>4 DEF Committed
    <2>6. Deleting(byManager) \/ del.pc # "idle"
        BY <2>5 DEF Facts, Stays
    <2>7. obj.phase # "New"
        <3>1. upl.snap.phase = "Uploading" /\ Rank("Uploading") = 5 /\ Rank("New") = 0
            BY <2>1 DEF Rank
        <3>2. Rank(upl.snap.phase) <= Rank(obj.phase)
            BY <2>1, <2>3 DEF LifeInv, Remembers, Live
        <3> QED BY <3>1, <3>2
    <2>8. byManager.life = obj.life /\ Remembers(byManager, obj)
        BY <2>3, <2>7 DEF LifeInv, Live, byManager, Processes
    <2>9. ~Deleting(byManager)
        BY <2>3, <2>8 DEF Remembers, Deleting, Live
    <2>10. del.pc = "idle"
        BY <2>3, <2>7 DEF LifeInv, Remembers, Live
    <2> QED BY <2>6, <2>9, <2>10
<1>12. (del.pc # "idle" => Exists(del.snap) /\ del.snap.deleting /\ Remembers(del.snap, obj))'
    <2>1. CASE del.pc # "idle" /\ del'.snap = del.snap
        <3>1. Remembers(del.snap, obj')
            BY <1>1, <2>1, Remembered DEF Facts, LifeInv
        <3> QED BY <2>1, <3>1 DEF LifeInv, Exists
    <2>2. CASE Deleting(byManager) /\ del'.snap = byManager /\ obj' = obj
        <3>1. Remembers(byManager, obj)
            BY DEF LifeInv, byManager, Processes
        <3> QED BY <2>2, <3>1 DEF Deleting, Exists
    <2> QED BY <2>1, <2>2 DEF Facts, Deletes
<1>13. (del.pc # "idle" /\ Exists(obj) /\ obj.phase # "New" => del.snap.life = obj.life)'
    <2> SUFFICES ASSUME del'.pc # "idle", Exists(obj'), obj'.phase # "New"
                 PROVE  del'.snap.life = obj'.life
        BY DEF Exists
    <2>1. Exists(obj) /\ obj'.life = obj.life
        BY <1>6 DEF Kept, Exists
    <2>2. obj.phase # "New"
        BY <1>6, <2>1 DEF Facts, Accepts
    <2> QED BY <2>1, <2>2 DEF Facts, Deletes, LifeInv, Exists
<1> QED BY <1>2, <1>3, <1>5, <1>8, <1>9, <1>10, <1>11, <1>12, <1>13 DEF LifeInv, Facts

-----------------------------------------------------------------------------
(* What the proof shows of every step.                                     *)
Lived ==
    /\ Facts
    /\ BegunInv'
    /\ LifecycleStep

(* What a reconciler writes over the copy c it read.                       *)
Follows(c, new) ==
    /\ new \in ObjType
    /\ new.life = c.life /\ new.spec = c.spec /\ new.deleting = c.deleting
    /\ \/ new.phase = c.phase /\ new.tar = c.tar
       \/ <<c.phase, new.phase>> \in Onward /\ new.tar = c.tar
       \/ c.phase = "Checkpointing" /\ new.phase = "Checkpointed" /\ new.tar \in Begun
       \/ /\ c.phase = "Uploading" /\ new.phase = "Completed" /\ new.tar = c.tar
          /\ Live(c) => c.tar \in Found /\ Committed(c.spec) = c.tar

\* A write of an onward phase follows from the copy it is made from.
LEMMA PhaseFollows ==
    ASSUME NEW c \in ObjType, NEW phase \in Phases, NEW msg \in Messages,
           phase = c.phase \/ <<c.phase, phase>> \in Onward
    PROVE  /\ Follows(c, Phase(c, phase, msg))
           /\ Phase(c, phase, msg).phase = phase
BY DEF Follows, Phase, ObjType

\* A write from a current copy is a step of the lifecycle.
LEMMA WriteFollows ==
    ASSUME TypeOK, NEW c, NEW new, Write(c, new), Exists(c), Follows(c, new),
           Begun' = Begun, Found' = Found
    PROVE  Kept /\ Informs /\ LifecycleStep
<1>1. obj = c /\ obj' = new /\ cache' = cache
    BY DEF Write, Current
<1>2. new.phase # "Gone"
    BY DEF Follows, Onward, Exists
<1>3. Kept
    BY <1>1, <1>2 DEF Kept, Follows, Exists
<1>4. Advances /\ obj'.deleting = obj.deleting
    BY <1>1 DEF Follows, Advances
<1>5. LifecycleStep
    BY <1>1, <1>4, AdvanceMaps DEF TypeOK, Follows
<1> QED BY <1>1, <1>3, <1>5 DEF Informs

\* The dumps begun depend on the history alone.
LEMMA SameBegun == ASSUME UNCHANGED info PROVE Begun' = Begun
BY DEF Begun, Fresh

\* What is found at the URI depends on the store alone.
LEMMA SameFound == ASSUME UNCHANGED <<dir, tarball>> PROVE Found' = Found
BY DEF Found

\* A step that changes none of the three is a stutter.
LEMMA SameLifecycle ==
    ASSUME UNCHANGED obj, Begun' = Begun, Found' = Found
    PROVE  LifecycleStep
BY DEF LifecycleStep, Lifecycle!lifecycle, Stage, Named

\* The dumps referred to stay begun when nothing new is referred to.
LEMMA SameLives ==
    ASSUME BegunInv, UNCHANGED <<info, tars, call>>, upl' = upl \/ upl'.pc = "idle"
    PROVE  BegunInv'
BY SameBegun DEF BegunInv

\* A write of the manager that does not hand the object to an upload.
LEMMA ManagerWriteLives ==
    ASSUME Inv, NEW new, ManagerWrites(byManager, new), Live(byManager), Follows(byManager, new),
           new.phase = byManager.phase \/ new.phase \notin Handled, del.pc = "idle"
    PROVE  Lived
<1>1. UNCHANGED <<info, dir, tarball, tars, call, del, upl>>
    BY DEF ManagerWrites, storeVars, mgrVars, agtVars
<1>2. Write(byManager, new) /\ Exists(byManager) /\ TypeOK
    BY DEF ManagerWrites, Inv, ForwardInv, Live
<1>3. Kept /\ Informs /\ LifecycleStep
    BY <1>1, <1>2, SameBegun, SameFound, WriteFollows
<1>4. obj = byManager /\ obj' = new
    BY <1>2 DEF Write, Current
<1>5. Accepts
    BY <1>1, <1>4 DEF Accepts, Handled
<1>6. Uploads /\ Stays
    BY <1>1 DEF Uploads, Stays
<1>7. Deletes
    BY <1>1 DEF Deletes
<1>8. BegunInv'
    BY <1>1, SameLives DEF Inv
<1> QED BY <1>3, <1>5, <1>6, <1>7, <1>8 DEF Lived, Facts, Evolves

(* What the manager's reconciles compare and write.                        *)
LEMMA PhasesTypeOK ==
    /\ {"Pending", "Quiescing", "Checkpointing", "Failed"} \subseteq Phases
    /\ {"none", "waiting", "agentRuns", "error"} \subseteq Messages
BY DEF Phases, Terminal, Messages

\* Every branch of the manager's Reconcile is one of those writes.
LEMMA ManagerReconcilesLives ==
    ASSUME Inv, ManagerReconciles(byManager)
    PROVE  Lived
<1> DEFINE c == byManager
<1>1. c \in ObjType /\ ~c.spec.agent
    BY DEF Inv, ForwardInv, TypeOK, CopyType, Processes, byManager
<1>2. ASSUME NEW phase \in {"Pending", "Quiescing", "Checkpointing", "Failed"}, NEW msg \in Messages,
             ManagerWrites(c, Phase(c, phase, msg)), Live(c), del.pc = "idle",
             phase = c.phase \/ <<c.phase, phase>> \in Onward
      PROVE  Lived
    <2>1. Follows(c, Phase(c, phase, msg)) /\ Phase(c, phase, msg).phase = phase
        BY <1>1, <1>2, PhaseFollows, PhasesTypeOK
    <2>2. phase \notin Handled
        BY DEF Handled
    <2> QED BY <1>2, <2>1, <2>2, ManagerWriteLives
<1>3. CASE AddFinalizer(c)
    <2> DEFINE new == [c EXCEPT !.finalizer = TRUE]
    <2>1. Follows(c, new) /\ new.phase = c.phase
        BY <1>1 DEF Follows, ObjType
    <2>2. ManagerWrites(c, new) /\ Live(c) /\ del.pc = "idle"
        BY <1>3 DEF AddFinalizer
    <2> QED BY <2>1, <2>2, ManagerWriteLives
<1>4. CASE AcceptNew(c)
    BY <1>2, <1>4, PhasesTypeOK DEF AcceptNew, Reconciling, Onward
<1>5. CASE PendingWaits(c)
    BY <1>2, <1>5, PhasesTypeOK DEF PendingWaits, Reconciling, Onward
<1>6. CASE PendingFails(c)
    BY <1>2, <1>6, PhasesTypeOK DEF PendingFails, Reconciling, Onward
<1>7. CASE PendingProceeds(c)
    <2> DEFINE next == IF c.spec.quiesce THEN "Quiescing" ELSE "Checkpointing"
               base == Phase(c, next, "none")
               new  == [base EXCEPT !.artifact = TRUE]
    <2>1. ManagerWrites(c, new) /\ Live(c) /\ c.phase = "Pending" /\ del.pc = "idle"
        BY <1>7 DEF PendingProceeds, Reconciling
    <2>2. next \in {"Quiescing", "Checkpointing"} /\ next \in Phases /\ "none" \in Messages
        BY PhasesTypeOK
    <2>3. Follows(c, base) /\ base.phase = next
        <3> HIDE DEF next
        <3> QED BY <1>1, <2>1, <2>2, PhaseFollows DEF Onward
    <2>4. Follows(c, new) /\ new.phase \in {"Quiescing", "Checkpointing"}
        <3> HIDE DEF next, base
        <3> QED BY <2>2, <2>3 DEF Follows, ObjType
    <2>5. new.phase \notin Handled
        BY <2>4 DEF Handled
    <2> HIDE DEF new
    <2> QED BY <2>1, <2>4, <2>5, ManagerWriteLives
<1>8. CASE QuiesceTimesOut(c)
    BY <1>2, <1>8, PhasesTypeOK DEF QuiesceTimesOut, Reconciling, Onward
<1>9. CASE LeaveToAgent(c)
    BY <1>2, <1>9, PhasesTypeOK DEF LeaveToAgent, Reconciling, Onward
<1>10. CASE NodeHasNoAddress(c)
    BY <1>2, <1>10, PhasesTypeOK DEF NodeHasNoAddress, FallsBack, Reconciling, Onward
<1>11. CASE StartKubeletCall(c)
    <2>1. UNCHANGED <<obj, cache, info, dir, tarball, tars, del, upl>>
        BY <1>1, <1>11 DEF StartKubeletCall, NotesFallback, apiVars, storeVars, agtVars
    <2>2. call' = call \/ call' = [pc |-> "calling", pod |-> PodOf(c), tar |-> NoDump]
        BY <1>11 DEF StartKubeletCall
    <2>3. c.life > 0
        BY <1>11 DEF StartKubeletCall, FallsBack, Reconciling, Live, Inv, LifeInv, byManager, Processes
    <2>4. BegunInv'
        BY <2>1, <2>2, <2>3, SameBegun DEF Inv, BegunInv, PodOf
    <2>5. LifecycleStep
        BY <2>1, SameBegun, SameFound, SameLifecycle
    <2>6. Facts
        BY <2>1 DEF Facts, Evolves, Informs, Accepts, Uploads, Stays, Deletes, Kept
    <2> QED BY <2>4, <2>5, <2>6 DEF Lived
<1> QED BY <1>3, <1>4, <1>5, <1>6, <1>7, <1>8, <1>9, <1>10, <1>11 DEF ManagerReconciles

(* A step that writes nothing to the object.                               *)
LEMMA QuietFacts ==
    ASSUME LifeInv, UNCHANGED obj, \A p \in Processes : cache'[p] \in {cache[p], obj},
           Uploads, Stays, del' = del \/ del'.pc = "idle"
    PROVE  Facts
BY DEF Facts, Evolves, Informs, Accepts, Deletes, Kept

\* A step that informs, forgets or gives up.
LEMMA QuietLives ==
    ASSUME Inv, UNCHANGED <<obj, info, dir, tarball, tars>>,
           \A p \in Processes : cache'[p] \in {cache[p], obj},
           upl' = upl \/ upl'.pc = "idle", del' = del \/ del'.pc = "idle",
           call' \in {call, NoCall}
    PROVE  Lived
<1>1. Uploads /\ Stays
    BY DEF Uploads, Stays
<1>2. Facts
    BY <1>1, QuietFacts DEF Inv
<1>3. BegunInv'
    BY SameBegun DEF Inv, BegunInv, NoCall
<1>4. LifecycleStep
    BY SameBegun, SameFound, SameLifecycle
<1> QED BY <1>2, <1>3, <1>4 DEF Lived

\* The steps of reconcileDelete withdraw nothing that a live object completed with.
LEMMA ManagerDeletesLives ==
    ASSUME Inv, ManagerDeletes(byManager) \/ RemovesFiles
    PROVE  Lived
<1>1. byManager \in ObjType /\ TypeOK
    BY DEF Inv, ForwardInv, TypeOK, CopyType, Processes, byManager
<1>2. /\ UNCHANGED <<obj, cache, info, tars, call, upl>>
      /\ dir'.manifest \in {dir.manifest, NoDump} /\ tarball' \in {tarball, NoDump}
    BY <1>1, ManagerDeletesEffect DEF apiVars, agtVars
<1>3. /\ Deleting(byManager) \/ del.pc # "idle"
      /\ Deletes
    <2>1. CASE ManagerDeletes(byManager)
        BY <1>2, <2>1
        DEF ManagerDeletes, DeletesTar, FindsNothing, ReadsManifest, DelGoes, Deletes
    <2>2. CASE Uncommits
        BY <1>1, <2>2 DEF Uncommits, DelGoes, Deletes, TypeOK, DelType
    <2>3. ASSUME NEW d \in Dump, RemovesFile(d)
          PROVE  del.pc # "idle" /\ Deletes
        BY <2>3 DEF RemovesFile, DelGoes, Deletes
    <2>4. CASE RemovesLast
        BY <1>1, <2>4 DEF RemovesLast, DelGoes, Deletes, TypeOK, DelType
    <2>5. CASE DeleteStops
        BY <2>5 DEF DeleteStops, DelGoes, NoDel, Deletes
    <2> QED BY <2>1, <2>2, <2>3, <2>4, <2>5 DEF RemovesFiles
<1>4. Found' \subseteq Found
    BY <1>2 DEF Found
<1>5. LifecycleStep
    <2>1. Stage' = Stage /\ Named' = Named /\ Begun' = Begun
        BY <1>2, SameBegun DEF Stage, Named
    <2> QED BY <1>4, <2>1 DEF LifecycleStep, Lifecycle!Next, Lifecycle!Withdrawn
<1>6. Facts
    BY <1>2, <1>3 DEF Facts, Evolves, Informs, Accepts, Kept, Uploads, Stays
<1>7. BegunInv'
    BY <1>2, SameLives DEF Inv
<1> QED BY <1>5, <1>6, <1>7 DEF Lived

\* The kubelet's answers, and the tar each leaves or not.
LEMMA KubeletLives ==
    ASSUME Inv, KubeletAnswers
    PROVE  Lived
<1>1. UNCHANGED <<obj, cache, dir, tarball, del, upl>>
    BY DEF KubeletAnswers, KubeletFails, KubeletCheckpoints, apiVars, storeVars, agtVars
<1>2. Facts
    <2>1. Uploads /\ Stays
        BY <1>1 DEF Uploads, Stays
    <2> QED BY <1>1, <2>1, QuietFacts DEF Inv
<1>3. CASE KubeletFails
    <2>1. UNCHANGED <<info, tars>> /\ call' = [call EXCEPT !.pc = "answered"] /\ call.pc = "calling"
        BY <1>3 DEF KubeletFails, storeVars
    <2>2. BegunInv'
        <3>1. call'.pod = call.pod /\ call'.tar = call.tar
            BY <2>1 DEF Inv, ForwardInv, TypeOK, CallType
        <3> QED BY <1>1, <2>1, <3>1, SameBegun DEF Inv, BegunInv
    <2> QED BY <1>1, <1>2, <2>1, <2>2, SameBegun, SameFound, SameLifecycle DEF Lived
<1>4. ASSUME NEW d \in Dump, KubeletCheckpoints(d)
      PROVE  Lived
    <2>1. /\ Fresh(d) /\ info' = Taken(d, call.pod) /\ tars' = tars \cup {d}
          /\ call.pc = "calling"
          /\ \E tar \in {d, NoDump} : call' = [call EXCEPT !.pc = "answered", !.tar = tar]
        BY <1>4 DEF KubeletCheckpoints
    <2>2. call'.pod = call.pod /\ call'.tar \in {d, NoDump}
        BY <2>1 DEF Inv, ForwardInv, TypeOK, CallType
    <2>3. call.pod.life > 0 /\ call.pod.life \in Nat
        BY <2>1 DEF Inv, BegunInv, ForwardInv, TypeOK, CallType, PodType
    <2>4. info'[d] # NoInfo /\ \A e \in Dump \ {d} : info'[e] = info[e]
        <3>1. info'[d].life = call.pod.life /\ \A e \in Dump \ {d} : info'[e] = info[e]
            BY <2>1 DEF Taken, Inv, ForwardInv, TypeOK
        <3> QED BY <2>3, <3>1 DEF NoInfo
    <2>5. Begun' = Begun \cup {d} /\ d \notin Begun
        BY <2>1, <2>4 DEF Begun, Fresh
    <2>6. BegunInv'
        BY <1>1, <2>1, <2>2, <2>3, <2>5 DEF Inv, BegunInv
    <2>7. Stage' = Stage /\ Named' = Named /\ Found' = Found
        BY <1>1 DEF Stage, Named, Found
    <2>8. LifecycleStep
        BY <2>5, <2>7 DEF LifecycleStep, Lifecycle!Next, Lifecycle!Dumped
    <2> QED BY <1>2, <2>6, <2>8 DEF Lived
<1> QED BY <1>3, <1>4 DEF KubeletAnswers

(* A write that leaves the store alone.                                    *)
LEMMA WriteLives ==
    ASSUME Inv, NEW c, NEW new, Write(c, new), Exists(c), Follows(c, new),
           UNCHANGED <<info, dir, tarball, tars, del>>,
           upl' \in {upl, NoUpl}, call' \in {call, NoCall},
           c.phase = "New" => new.phase = "New",
           new.phase \in Handled /\ c.phase \notin Handled =>
               byAgent.life = c.life /\ upl.pc = "idle"
    PROVE  Lived
<1>1. TypeOK
    BY DEF Inv, ForwardInv
<1>2. Kept /\ Informs /\ LifecycleStep
    BY <1>1, SameBegun, SameFound, WriteFollows
<1>3. obj = c /\ obj' = new
    BY DEF Write, Current
<1>4. Accepts
    BY <1>3 DEF Accepts, Follows, Onward
<1>5. Uploads /\ Stays
    BY DEF Uploads, Stays, NoUpl
<1>6. Deletes
    BY DEF Deletes
<1>7. BegunInv'
    BY SameBegun DEF Inv, BegunInv, NoCall, NoUpl
<1> QED BY <1>2, <1>4, <1>5, <1>6, <1>7 DEF Lived, Facts, Evolves

\* The result of a call is recorded on the object as it is.
LEMMA RecordCallLives ==
    ASSUME Inv, RecordCall(byManager)
    PROVE  Lived
<1> DEFINE c == byManager
<1>1. c \in ObjType /\ call.tar \in Dump \cup {NoDump}
    BY DEF Inv, ForwardInv, TypeOK, CopyType, CallType, Processes, byManager
<1>2. UNCHANGED <<info, dir, tarball, tars, del, upl>> /\ call' = NoCall
    BY DEF RecordCall, storeVars, agtVars
<1>3. CASE c.phase = "Checkpointing" /\ Write(c, CallResult(c))
    <2>1. "error" \in Messages /\ "none" \in Messages /\ {"Failed", "Checkpointed"} \subseteq Phases
        BY DEF Messages, Phases, Terminal
    <2>2. Follows(c, CallResult(c)) /\ CallResult(c).phase \in {"Failed", "Checkpointed"}
        <3>1. CASE call.tar = NoDump
            <4>1. <<c.phase, "Failed">> \in Onward
                BY <1>3 DEF Onward
            <4> QED BY <1>1, <2>1, <3>1, <4>1, PhaseFollows DEF CallResult
        <3>2. CASE call.tar # NoDump
            <4>1. call.tar \in Begun
                BY <3>2 DEF Inv, BegunInv
            <4>2. CallResult(c) = [Phase(c, "Checkpointed", "none") EXCEPT !.tar = call.tar]
                BY <3>2 DEF CallResult
            <4> QED BY <1>1, <1>3, <2>1, <4>1, <4>2 DEF Follows, Phase, ObjType
        <3> QED BY <3>1, <3>2
    <2>3. Exists(c) /\ c.phase # "New" /\ CallResult(c).phase \notin Handled
        BY <1>3, <2>2 DEF Exists, Handled
    <2> QED BY <1>2, <1>3, <2>2, <2>3, WriteLives
<1>4. CASE UNCHANGED apiVars
    BY <1>2, <1>4, QuietLives DEF apiVars
<1> QED BY <1>3, <1>4 DEF RecordCall

\* The object leaves the API server.
LEMMA RemovalLives ==
    ASSUME Inv, Exists(obj), obj' = Absent(obj.life),
           UNCHANGED <<cache, info, dir, tarball, tars, call, upl>>, del' \in {del, NoDel}
    PROVE  Lived
<1>1. Facts
    <2>1. ~Kept
        BY AbsentFields DEF Kept, Exists
    <2>2. Evolves /\ Informs /\ Accepts /\ Uploads /\ Stays
        BY <2>1 DEF Evolves, Informs, Accepts, Uploads, Stays
    <2>3. Deletes
        BY DEF Deletes, NoDel
    <2> QED BY <2>2, <2>3 DEF Facts
<1>2. BegunInv'
    BY SameLives DEF Inv
<1>3. LifecycleStep
    <2>1. Stage \in Lifecycle!Going \cup Lifecycle!Ended \cup {"leaving"}
        <3>1. obj.phase \in Phases /\ obj.phase # "Gone"
            BY DEF Inv, ForwardInv, TypeOK, ObjType, Exists
        <3> QED BY <3>1 DEF Stage, Lifecycle!Going, Lifecycle!Ended, Phases, Terminal
    <2>2. Stage' = "absent" /\ Named' = NoDump
        BY AbsentFields DEF Stage, Named
    <2>3. Begun' = Begun /\ Found' = Found
        BY SameBegun, SameFound
    <2> QED BY <2>1, <2>2, <2>3 DEF LifecycleStep, Lifecycle!Next, Lifecycle!Removed, Lifecycle!Moves
<1> QED BY <1>1, <1>2, <1>3 DEF Lived

\* The end of a deletion.
LEMMA DropFinalizerLives ==
    ASSUME Inv, DropFinalizer
    PROVE  Lived
<1>1. UNCHANGED <<info, dir, tarball, tars, call, upl>> /\ del' = NoDel /\ del.pc # "idle"
    BY DEF DropFinalizer, storeVars, agtVars
<1>2. CASE Write(del.snap, Absent(del.snap.life))
    <2>1. obj = del.snap /\ obj' = Absent(obj.life) /\ UNCHANGED cache
        BY <1>2 DEF Write, Current
    <2>2. Exists(obj)
        BY <1>1, <2>1 DEF Inv, LifeInv
    <2> QED BY <1>1, <2>1, <2>2, RemovalLives
<1>3. CASE UNCHANGED apiVars
    BY <1>1, <1>3, QuietLives DEF apiVars, NoDel
<1> QED BY <1>2, <1>3 DEF DropFinalizer

\* Every step of the manager.
LEMMA ManagerLives ==
    ASSUME Inv, ManagerNext
    PROVE  Lived
<1>1. CASE CallContextExpires
    BY <1>1, QuietLives DEF CallContextExpires, apiVars, storeVars, agtVars
<1>2. CASE ManagerRestarts
    <2>1. /\ UNCHANGED <<obj, info, dir, tarball, tars, upl>>
          /\ del'.pc = "idle" /\ call' = NoCall
          /\ \A p \in Processes : cache'[p] \in {cache[p], obj}
        BY <1>2 DEF ManagerRestarts, storeVars, agtVars, NoDel, Inv, ForwardInv, TypeOK, CopyType
    <2> QED BY <2>1, QuietLives
<1> QED
    BY <1>1, <1>2, ManagerReconcilesLives, ManagerDeletesLives, DropFinalizerLives, KubeletLives,
       RecordCallLives
    DEF ManagerNext, byManager

-----------------------------------------------------------------------------
(***************************************************************************)
(* The upload.  Its tar is the one a completed object names: the upload    *)
(* remembers the object as it was when it was already Uploading.           *)
(***************************************************************************)
LEMMA UploadIsOwn ==
    ASSUME Inv, upl.pc # "idle"
    PROVE  /\ upl.snap.tar \in Begun
           /\ Stage = "completed" => upl.snap.tar = Named
<1>1. upl.snap.tar \in Begun
    BY DEF Inv, BegunInv
<1>2. ASSUME Stage = "completed"
      PROVE  upl.snap.tar = Named
    <2>1. ~obj.deleting /\ obj.phase = "Completed"
        <3>1. obj.phase \in Phases
            BY DEF Inv, ForwardInv, TypeOK, ObjType
        <3> QED BY <1>2, <3>1 DEF Stage, Phases, Terminal
    <2>2. upl.snap.life = obj.life /\ Remembers(upl.snap, obj)
        BY <2>1 DEF Inv, LifeInv, Handled
    <2>3. Rank(upl.snap.phase) = 5
        BY DEF Inv, ForwardInv, Rank
    <2> QED BY <2>1, <2>2, <2>3 DEF Remembers, Exists, Named
<1> QED BY <1>1, <1>2

\* A publication of the upload's tar is one the lifecycle allows.
LEMMA PublicationMaps ==
    ASSUME Inv, upl.pc # "idle", Published(upl.snap) \/ UNCHANGED <<dir, tarball>>,
           Stage' = Stage, Named' = Named, Begun' = Begun
    PROVE  LifecycleStep
<1>1. Found' \subseteq Found \cup {upl.snap.tar}
    <2>1. [Finished(upl.snap.tar) EXCEPT !.manifest = upl.snap.tar].manifest = upl.snap.tar
        BY FinishedTypeOK DEF Inv, ForwardInv, TypeOK, DirType
    <2> QED BY <2>1 DEF Published, Found
<1>2. upl.snap.tar \in Dump
    BY UploadIsOwn DEF Begun
<1> QED
    BY <1>1, <1>2, UploadIsOwn DEF LifecycleStep, Lifecycle!Next, Lifecycle!Published

\* Every step of the upload reconciler.
LEMMA UplLives ==
    ASSUME Inv, UplReconciles(byAgent)
    PROVE  Lived
<1> DEFINE c == byAgent
<1>1. c \in ObjType /\ upl.snap \in ObjType /\ TypeOK
    BY DEF Inv, ForwardInv, TypeOK, CopyType, UplType, Processes, byAgent
<1>2. ASSUME NEW phase \in {"Uploading", "Failed"}, NEW msg \in Messages,
             AgentWrites(c, Phase(c, phase, msg)), <<c.phase, phase>> \in Onward,
             upl.pc = "idle", c.phase \in {"Checkpointed", "Uploading"}
      PROVE  Lived
    <2>1. phase \in Phases
        BY DEF Phases, Terminal
    <2>2. Follows(c, Phase(c, phase, msg))
        BY <1>1, <1>2, <2>1, PhaseFollows
    <2>3. Write(c, Phase(c, phase, msg)) /\ UNCHANGED <<info, dir, tarball, tars, del, upl, call>>
        BY <1>2 DEF AgentWrites, storeVars, mgrVars, agtVars
    <2>4. Exists(c) /\ c.phase # "New"
        BY <1>2 DEF Exists
    <2> QED BY <1>2, <2>2, <2>3, <2>4, WriteLives
<1>3. CASE UplClaims(c)
    BY <1>2, <1>3, WordsTypeOK DEF UplClaims, Onward
<1>4. CASE UplRefuses(c)
    BY <1>2, <1>4, WordsTypeOK DEF UplRefuses, Onward
<1>5. CASE UplFindsNoTar(c)
    BY <1>2, <1>5, WordsTypeOK DEF UplFindsNoTar, Onward
<1>6. CASE UplStarts(c)
    <2>1. /\ UNCHANGED <<obj, cache, info, tarball, tars, call, del>>
          /\ upl.pc = "idle" /\ upl'.pc = "expanding" /\ upl'.snap = c
          /\ c.tar \in tars
        BY <1>6 DEF UplStarts, UplGoes, apiVars, mgrVars
    <2>2. Facts
        BY <2>1, QuietFacts DEF Inv, Uploads, Stays
    <2>3. BegunInv'
        BY <2>1, SameBegun DEF Inv, BegunInv
    <2>4. Found' \subseteq Found
        BY <1>6 DEF UplStarts, Found
    <2>5. Stage' = Stage /\ Named' = Named /\ Begun' = Begun
        BY <2>1, SameBegun DEF Stage, Named
    <2>6. LifecycleStep
        BY <2>4, <2>5 DEF LifecycleStep, Lifecycle!Next, Lifecycle!Withdrawn
    <2> QED BY <2>2, <2>3, <2>6 DEF Lived
<1>7. CASE UplPublishes
    <2>1. /\ UNCHANGED <<obj, cache, info, tars, call, del>>
          /\ upl.pc = "expanding" /\ upl'.pc = "removing" /\ upl'.snap = upl.snap
          /\ Published(upl.snap)
        BY <1>1, <1>7 DEF UplPublishes, UplGoes, apiVars, mgrVars, TypeOK, UplType
    <2>2. Committed(upl.snap.spec)' = upl'.snap.tar
        <3>1. [Finished(upl.snap.tar) EXCEPT !.manifest = upl.snap.tar].manifest = upl.snap.tar
            BY FinishedTypeOK DEF Inv, ForwardInv, TypeOK, DirType
        <3> QED BY <2>1, <3>1 DEF Published, Committed
    <2>3. Facts
        BY <2>1, <2>2, QuietFacts DEF Inv, Uploads, Stays
    <2>4. BegunInv'
        BY <2>1, SameBegun DEF Inv, BegunInv
    <2>5. Stage' = Stage /\ Named' = Named /\ Begun' = Begun
        BY <2>1, SameBegun DEF Stage, Named
    <2>6. LifecycleStep
        BY <2>1, <2>5, PublicationMaps
    <2> QED BY <2>3, <2>4, <2>6 DEF Lived
<1>8. CASE UplFails
    <2> DEFINE new == [upl.snap EXCEPT !.msg = "retrying"]
    <2>1. /\ UNCHANGED <<info, tars, call, del>> /\ upl' = NoUpl /\ upl.pc = "expanding"
          /\ Published(upl.snap) \/ UNCHANGED <<dir, tarball>>
        BY <1>8 DEF UplFails, UplGoes, mgrVars
    <2>2. Uploads /\ Stays
        BY <2>1 DEF Uploads, Stays, NoUpl
    <2>3. BegunInv'
        BY <2>1, SameLives DEF Inv, NoUpl
    <2>4. CASE UNCHANGED apiVars
        <3>1. Facts
            BY <2>1, <2>2, <2>4, QuietFacts DEF Inv, apiVars
        <3>2. Stage' = Stage /\ Named' = Named /\ Begun' = Begun
            BY <2>1, <2>4, SameBegun DEF Stage, Named, apiVars
        <3>3. LifecycleStep
            BY <2>1, <3>2, PublicationMaps
        <3> QED BY <2>3, <3>1, <3>3 DEF Lived
    <2>5. CASE Write(upl.snap, new)
        <3>1. obj = upl.snap /\ UNCHANGED cache
            BY <2>5 DEF Write, Current
        <3>2. /\ obj'.phase = obj.phase /\ obj'.tar = obj.tar
              /\ obj'.deleting = obj.deleting /\ obj'.life = obj.life /\ obj'.spec = obj.spec
            BY <1>1, <2>5 DEF Write, Current, ObjType
        <3>3. obj.phase = "Uploading"
            BY <2>1, <3>1 DEF Inv, ForwardInv
        <3>4. Kept
            BY <3>2, <3>3 DEF Kept, Exists
        <3>5. Evolves /\ Informs /\ Accepts
            BY <3>1, <3>2, <3>3, <3>4 DEF Evolves, Informs, Accepts, Handled
        <3>6. Deletes
            BY <2>1 DEF Deletes
        <3>7. Stage' = Stage /\ Named' = Named /\ Begun' = Begun
            BY <2>1, <3>2, SameBegun DEF Stage, Named
        <3>8. LifecycleStep
            BY <2>1, <3>7, PublicationMaps
        <3> QED BY <2>2, <2>3, <3>5, <3>6, <3>8 DEF Lived, Facts
    <2> QED BY <1>8, <2>4, <2>5 DEF UplFails
<1>9. CASE UplRemovesTar
    <2>1. /\ UNCHANGED <<obj, cache, info, dir, tarball, call, del>>
          /\ upl.pc = "removing" /\ upl'.pc = "reporting" /\ upl'.snap = upl.snap
          /\ tars' \subseteq tars
        BY <1>1, <1>9 DEF UplRemovesTar, UplGoes, apiVars, mgrVars, TypeOK, UplType
    <2>2. Facts
        BY <2>1, QuietFacts DEF Inv, Uploads, Stays
    <2>3. BegunInv'
        BY <2>1, SameBegun DEF Inv, BegunInv
    <2>4. LifecycleStep
        BY <2>1, SameBegun, SameFound, SameLifecycle
    <2> QED BY <2>2, <2>3, <2>4 DEF Lived
<1>10. CASE UplReports
    <2>1. UNCHANGED <<info, dir, tarball, tars, call, del>> /\ upl' = NoUpl /\ upl.pc = "reporting"
        BY <1>10 DEF UplReports, UplGoes, mgrVars, storeVars
    <2>2. CASE UNCHANGED apiVars
        BY <2>1, <2>2, QuietLives DEF apiVars, NoUpl
    <2>3. CASE Write(upl.snap, Completed(upl.snap))
        <3>1. obj = upl.snap /\ upl.snap.phase = "Uploading"
            BY <2>1, <2>3 DEF Write, Current, Inv, ForwardInv
        <3>2. Live(upl.snap) => upl.snap.tar \in Found /\ Committed(upl.snap.spec) = upl.snap.tar
            <4>1. Live(upl.snap) => Committed(upl.snap.spec) = upl.snap.tar
                BY <2>1, <3>1 DEF Inv, LifeInv
            <4>2. upl.snap.tar # NoDump
                BY <2>1, UploadIsOwn, NoDumpAssumption DEF Begun
            <4> QED BY <4>1, <4>2 DEF Committed, Found
        <3>3. Follows(upl.snap, Completed(upl.snap))
            <4>1. /\ Completed(upl.snap) \in ObjType
                  /\ Completed(upl.snap).phase = "Completed"
                  /\ Completed(upl.snap).life = upl.snap.life
                  /\ Completed(upl.snap).spec = upl.snap.spec
                BY <1>1, CompletedTypeOK
            <4>2. /\ Completed(upl.snap).tar = upl.snap.tar
                  /\ Completed(upl.snap).deleting = upl.snap.deleting
                BY <1>1 DEF Completed, Phase, ObjType
            <4> QED BY <3>1, <3>2, <4>1, <4>2 DEF Follows
        <3>4. Exists(upl.snap) /\ upl.snap.phase # "New" /\ upl.snap.phase \in Handled
            BY <3>1 DEF Exists, Handled
        <3> QED BY <2>1, <2>3, <3>3, <3>4, WriteLives
    <2> QED BY <1>10, <2>2, <2>3 DEF UplReports
<1> QED BY <1>3, <1>4, <1>5, <1>6, <1>7, <1>8, <1>9, <1>10 DEF UplReconciles

\* Every step of the agent; its checkpoint reconciler is idle here.
LEMMA AgentLives ==
    ASSUME Inv, AgentNext
    PROVE  Lived
<1> DEFINE c == byAgent
<1>1. c \in ObjType /\ ~c.spec.agent
    BY DEF Inv, ForwardInv, TypeOK, CopyType, Processes, byAgent
<1>2. CASE QuiesceSeen(c)
    <2> DEFINE new == Phase(c, "Checkpointing", "none")
    <2>1. Write(c, new) /\ UNCHANGED <<info, dir, tarball, tars, del, upl, call>>
        BY <1>2 DEF QuiesceSeen, AgentWrites, storeVars, mgrVars, agtVars
    <2>2. c.phase = "Quiescing"
        BY <1>2 DEF QuiesceSeen
    <2>3. Follows(c, new) /\ new.phase = "Checkpointing"
        <3>1. <<c.phase, "Checkpointing">> \in Onward
            BY <2>2 DEF Onward
        <3>2. "Checkpointing" \in Phases /\ "none" \in Messages
            BY WordsTypeOK
        <3> QED BY <1>1, <3>1, <3>2, PhaseFollows
    <2>4. Exists(c) /\ c.phase # "New" /\ new.phase \notin Handled
        BY <2>2, <2>3 DEF Exists, Handled
    <2> HIDE DEF new
    <2> QED BY <2>1, <2>3, <2>4, WriteLives
<1>3. CASE CkptReconciles(c)
    <2>1. ckpt.pc = "idle" /\ ~Owns(c)
        BY <1>1 DEF Inv, ForwardInv, Owns
    <2> QED
        BY <1>3, <2>1
        DEF CkptReconciles, CkptRefuses, CkptFindsManifest, CkptRetries, CkptResolves, Dumpable,
            CkptCannotStart, CkptStartsDump, CkptDumps, CkptDumpFails, CkptPublishes,
            CkptPublishFails, CkptReports
<1>4. CASE AgentAdvertises
    BY <1>4, QuietLives DEF AgentAdvertises, apiVars, storeVars, mgrVars, agtVars
<1>5. CASE AgentRestarts
    <2>1. /\ UNCHANGED <<obj, info, dir, tarball, tars, call, del>>
          /\ upl'.pc = "idle"
          /\ \A p \in Processes : cache'[p] \in {cache[p], obj}
        BY <1>5 DEF AgentRestarts, storeVars, mgrVars, NoUpl, Inv, ForwardInv, TypeOK, CopyType
    <2> QED BY <2>1, QuietLives
<1> QED BY <1>2, <1>3, <1>4, <1>5, UplLives DEF AgentNext, byAgent

-----------------------------------------------------------------------------
(* A step of the user, the pods, the shim or an informer.                  *)
LEMMA EnvironmentLives ==
    ASSUME Inv, UserNext \/ WorldNext \/ \E p \in Processes : Informed(p)
    PROVE  Lived
<1>1. obj \in ObjType /\ obj.life \in Nat
    BY DEF Inv, ForwardInv, TypeOK, ObjType
<1>2. ASSUME NEW s \in Specs, Create(s)
      PROVE  Lived
    <2>1. UNCHANGED <<cache, info, dir, tarball, tars, call, del, upl>> /\ ~Exists(obj)
        BY <1>2 DEF Create, storeVars, mgrVars, agtVars, Exists
    <2>2. /\ obj'.life = obj.life + 1 /\ obj'.phase = "New"
          /\ obj'.tar = NoDump /\ obj'.deleting = FALSE
        <3> DEFINE base == Absent(obj.life + 1)
        <3>1. obj' = [base EXCEPT !.spec = s, !.phase = "New"]
            BY <1>2 DEF Create
        <3> QED BY <3>1 DEF Absent
    <2>3. Facts
        <3>1. ~Kept
            BY <2>1 DEF Kept
        <3>2. Evolves /\ Informs /\ Accepts /\ Uploads /\ Stays
            BY <2>1, <2>2, <3>1 DEF Evolves, Informs, Accepts, Uploads, Stays
        <3>3. Deletes
            BY <2>1 DEF Deletes
        <3> QED BY <3>2, <3>3 DEF Facts
    <2>4. BegunInv'
        BY <2>1, SameLives DEF Inv
    <2>5. LifecycleStep
        <3>1. Stage = "absent" /\ Named = NoDump
            BY <2>1 DEF Stage, Named, Exists, Inv, LifeInv
        <3>2. Stage' = "requested" /\ Named' = NoDump
            BY <2>2 DEF Stage, Named
        <3>3. Begun' = Begun /\ Found' = Found
            BY <2>1, SameBegun, SameFound
        <3> QED
            BY <3>1, <3>2, <3>3 DEF LifecycleStep, Lifecycle!Next, Lifecycle!Created, Lifecycle!Moves
    <2> QED BY <2>3, <2>4, <2>5 DEF Lived
<1>3. CASE Delete
    <2>1. UNCHANGED <<cache, info, dir, tarball, tars, call, del, upl>> /\ Live(obj)
        BY <1>3 DEF Delete, storeVars, mgrVars, agtVars
    <2>2. CASE obj.finalizer
        <3>1. /\ obj'.phase = obj.phase /\ obj'.tar = obj.tar /\ obj'.life = obj.life
              /\ obj'.spec = obj.spec /\ obj'.deleting = TRUE
            BY <1>1, <1>3, <2>2 DEF Delete, ObjType
        <3>2. Facts
            <4>1. Kept
                BY <2>1, <3>1 DEF Kept, Live, Exists
            <4>2. Evolves /\ Informs /\ Accepts /\ Uploads /\ Stays
                BY <2>1, <3>1, <4>1 DEF Evolves, Informs, Accepts, Uploads, Stays
            <4>3. Deletes
                BY <2>1 DEF Deletes
            <4> QED BY <4>2, <4>3 DEF Facts
        <3>3. BegunInv'
            BY <2>1, SameLives DEF Inv
        <3>4. LifecycleStep
            <4>1. Stage \in Lifecycle!Going \cup Lifecycle!Ended
                <5>1. obj.phase \in Phases /\ obj.phase # "Gone" /\ ~obj.deleting
                    BY <1>1, <2>1 DEF ObjType, Live, Exists
                <5> QED BY <5>1 DEF Stage, Lifecycle!Going, Lifecycle!Ended, Phases, Terminal
            <4>2. Stage' = "leaving" /\ Named' = NoDump
                BY <3>1 DEF Stage, Named
            <4>3. Begun' = Begun /\ Found' = Found
                BY <2>1, SameBegun, SameFound
            <4> QED
                BY <4>1, <4>2, <4>3
                DEF LifecycleStep, Lifecycle!Next, Lifecycle!Removed, Lifecycle!Moves
        <3> QED BY <3>2, <3>3, <3>4 DEF Lived
    <2>3. CASE ~obj.finalizer
        <3>1. obj' = Absent(obj.life) /\ Exists(obj)
            BY <1>3, <2>1, <2>3 DEF Delete, Live
        <3> QED BY <2>1, <3>1, RemovalLives
    <2> QED BY <2>2, <2>3
<1>4. CASE WorldNext
    <2>1. UNCHANGED <<obj, cache, info, dir, tarball, tars, upl, del, call>>
        BY <1>4 DEF WorldNext, PodStarts, PodDies, PodMoves, ShimParks, DeadlinePasses,
                    apiVars, storeVars, mgrVars, agtVars
    <2> QED BY <2>1, QuietLives
<1>5. ASSUME NEW p \in Processes, Informed(p)
      PROVE  Lived
    <2>1. /\ UNCHANGED <<obj, info, dir, tarball, tars, upl, del, call>>
          /\ \A q \in Processes : cache'[q] \in {cache[q], obj}
        BY <1>5 DEF Informed, storeVars, mgrVars, agtVars, Inv, ForwardInv, TypeOK, CopyType
    <2> QED BY <2>1, QuietLives
<1> QED BY <1>2, <1>3, <1>4, <1>5 DEF UserNext

\* The initial state satisfies the invariant and maps to an initial state.
LEMMA InitLife ==
    ASSUME Init
    PROVE  Inv /\ Lifecycle!Init
<1>1. ForwardInv
    BY InitForward
<1>2. obj = Absent(0) /\ \A p \in Processes : cache[p] = Absent(0)
    BY DEF Init
<1>3. /\ call.pc = "idle" /\ call.tar = NoDump /\ tars = {} /\ del.pc = "idle" /\ upl.pc = "idle"
      /\ Found = {} /\ Begun = {}
    BY DEF Init, NoCall, NoDel, NoUpl, EmptyDir, Found, Begun, Fresh
<1>4. LifeInv
    <2>1. /\ obj.life = 0 /\ obj.phase = "Gone" /\ ~obj.deleting /\ obj.tar = NoDump
          /\ \A p \in Processes : cache[p].life = 0 /\ cache[p].phase = "Gone"
        BY <1>2, AbsentFields
    <2>2. ~Exists(obj) /\ \A p \in Processes : ~Exists(cache[p]) /\ Remembers(cache[p], obj)
        BY <2>1 DEF Exists, Remembers
    <2>3. upl.pc # "removing" /\ upl.pc # "reporting"
        BY <1>3
    <2> QED BY <1>3, <2>1, <2>2, <2>3 DEF LifeInv, Handled
<1>5. BegunInv
    BY <1>3 DEF BegunInv
<1>6. Stage = "absent" /\ Named = NoDump
    BY <1>2, AbsentFields DEF Stage, Named
<1> QED BY <1>1, <1>3, <1>4, <1>5, <1>6 DEF Inv, Lifecycle!Init

(* Inv is inductive.                                                       *)
LEMMA InvStep ==
    ASSUME AllKubelet, Inv, Next
    PROVE  Inv' /\ Facts /\ LifecycleStep
<1>1. Lived
    BY ManagerLives, AgentLives, EnvironmentLives DEF Next
<1>2. TypeOK /\ TypeOK'
    BY ManagerStepTypeOK, AgentStepTypeOK, EnvironmentStepTypeOK DEF Next, Inv, ForwardInv
<1>3. ForwardInv' /\ PhaseForward
    BY <1>2, ManagerStepForward, AgentStepForward, EnvironmentStepForward DEF Next, Inv
<1>4. LifeInv'
    BY <1>1, <1>2, <1>3, LifeStep DEF Inv, ForwardInv, Lived
<1> QED BY <1>1, <1>3, <1>4 DEF Inv, Lived

\* A stutter keeps the invariant and maps to a stutter.
LEMMA InvStutters ==
    ASSUME Inv, UNCHANGED vars
    PROVE  Inv' /\ LifecycleStep
<1>1. /\ UNCHANGED <<obj, cache, dir, tarball, tars, info, call, del, ckpt, upl>>
      /\ TypeOK'
    BY StutterTypeOK DEF vars, Inv, ForwardInv
<1>2. ForwardInv'
    BY <1>1 DEF Inv, ForwardInv
<1>3. Lived
    BY <1>1, QuietLives
<1>4. TypeOK /\ PhaseForward
    BY <1>1 DEF Inv, ForwardInv, PhaseForward
<1>5. LifeInv'
    BY <1>1, <1>3, <1>4, LifeStep DEF Inv, ForwardInv, Lived
<1> QED BY <1>2, <1>3, <1>5 DEF Inv, Lived

\* With the kubelet's checkpointer Snapshot implements SnapshotLifecycle: a
\* snapshot names a dump that was taken, completes only with that dump committed
\* at its URI, and nothing else is published under it from then on, whatever stale
\* copies, late kubelet answers, repeated uploads, restarts and deletions do
\* (podsnapshot_controller.go reconcileCheckpointing, upload_controller.go upload).
THEOREM LifecycleKept == AllKubelet => (Spec => KeepsLifecycle)
<1> SUFFICES ASSUME AllKubelet PROVE Spec => KeepsLifecycle
    OBVIOUS
<1>1. Init => Inv /\ Lifecycle!Init
    BY InitLife
<1>2. Inv /\ [Next]_vars => Inv' /\ LifecycleStep
    BY InvStep, InvStutters
<1>3. Init /\ [][Next]_vars => Lifecycle!Init /\ [][Lifecycle!Next]_(Lifecycle!lifecycle)
    BY <1>1, <1>2, PTL DEF LifecycleStep
<1> QED BY <1>3 DEF Spec, KeepsLifecycle, Lifecycle!Spec
=============================================================================
