-------------------------- MODULE NodeRestoreProofs --------------------------
(***************************************************************************)
(* One restore on its node, for any set of files, any number of prefetch   *)
(* workers, any mode of the agent, and any number of uploads, deletions    *)
(* and restarts.                                                           *)
(***************************************************************************)
EXTENDS NodeRestore, TLAPS

-----------------------------------------------------------------------------
\* The next file is one of those left.
LEMMA FirstIn == ASSUME NEW fs, fs # {} PROVE FirstOf(fs) \in fs
BY DEF FirstOf

(* Comparing yields a truth value. *)
LEMMA Equals == \A a, b : (a = b) \in BOOLEAN /\ (a # b) \in BOOLEAN
OBVIOUS

(* What the pool's types leave out: a feeder that has not closed its       *)
(* channel has a file to send, and a worker that fetches has one to fetch. *)
Busy(w) == work[w].pc \in {"handed", "copying"}

PoolTyped ==
    /\ PoolTypeOK
    /\ pool.pc = "feeding" => pool.todo # {}
    /\ \A w \in Workers : Busy(w) => work[w].file \in Files

\* A publication keeps the store typed.
LEMMA UploadTyped == ASSUME StoreTypeOK, UploadNext PROVE StoreTypeOK'
<1> USE StoreBoundsAssumption, FilesAssumption DEF StoreTypeOK, WriterType, Copy
<1>1. CASE UploadStarts
    <2>1. raced' \in BOOLEAN
        BY <1>1, Equals DEF UploadStarts
    <2>2. wr' \in WriterType /\ manifest' \in BOOLEAN
        BY <1>1 DEF UploadStarts
    <2>3. uploads' \in 0..MaxUploads
        BY <1>1 DEF UploadStarts
    <2>4. UNCHANGED <<store, del, deletes>>
        BY <1>1 DEF UploadStarts
    <2> QED BY <2>1, <2>2, <2>3, <2>4
<1>2. ASSUME NEW f \in Files, UploadOpens(f) PROVE StoreTypeOK'
    BY <1>2 DEF UploadOpens
<1>3. CASE UploadCloses
    BY <1>3 DEF UploadCloses
<1>4. CASE UploadCommits
    BY <1>4 DEF UploadCommits, NoWriter
<1>5. CASE UploadStops
    BY <1>5 DEF UploadStops, NoWriter
<1> QED BY <1>1, <1>2, <1>3, <1>4, <1>5 DEF UploadNext

\* Store.Delete keeps it typed.
LEMMA DeleteTyped == ASSUME StoreTypeOK, DeleteNext PROVE StoreTypeOK'
<1> USE StoreBoundsAssumption, FilesAssumption DEF StoreTypeOK, DeleterType, Copy
<1>1. CASE DeleteReads
    BY <1>1 DEF DeleteReads, NoDeleter
<1>2. CASE DeleteUncommits
    BY <1>2 DEF DeleteUncommits
<1>3. CASE DeleteRemoves
    BY <1>3 DEF DeleteRemoves, NoDeleter
<1>4. CASE DeleteStops
    BY <1>4 DEF DeleteStops, NoDeleter
<1> QED BY <1>1, <1>2, <1>3, <1>4 DEF DeleteNext

\* Starting the pool hands the feeder every file.
LEMMA StartTyped ==
    ASSUME PoolTyped, NEW staging \in BOOLEAN, PoolStarts(staging)
    PROVE  PoolTyped'
<1> USE DEF PoolTyped, PoolTypeOK, PoolType, WorkType, Busy
<1>1. pool' \in PoolType /\ pool'.todo # {}
    BY FilesAssumption DEF PoolStarts, NoPool
<1>2. PICK s : work' = [w \in Workers |-> IF w \in s THEN Ready ELSE Gone]
    BY DEF PoolStarts
<1>3. work' \in WorkType /\ \A w \in Workers : ~Busy(w)'
    BY <1>2 DEF Ready, Gone
<1> QED BY <1>1, <1>3 DEF PoolStarts

\* An empty pool is typed.
LEMMA DieTyped == ASSUME PoolTyped, PoolDies PROVE PoolTyped'
BY DEF PoolTyped, PoolTypeOK, PoolType, WorkType, PoolDies, NoPool, Gone, Busy

\* What a worker is handed leaves the files the feeder still has.
LEMMA SendTyped ==
    ASSUME PoolTyped, NEW w \in Workers, FeedSends(w)
    PROVE  PoolTyped'
<1> DEFINE f == FirstOf(pool.todo)
           left == pool.todo \ {f}
           next == IF pool.cancelled \/ pool.todo = {f} THEN "closed" ELSE pool.pc
           hand == [Ready EXCEPT !.pc = "handed", !.file = f]
<1>1. pool.pc = "feeding" /\ pool.todo # {} /\ pool \in PoolType
    BY DEF FeedSends, PoolTyped, PoolTypeOK
<1>2. f \in Files /\ left \in SUBSET Files
    BY <1>1, FirstIn DEF PoolType
<1>3. next \in {"feeding", "closed"} /\ (next = "feeding" => left # {})
    BY <1>1, FirstIn
<1>4. Ready \in [pc : {"gone", "ready", "handed", "copying"},
                file : Files \cup {NoFile}, whole : BOOLEAN]
    BY DEF Ready
<1>5. hand \in [pc : {"gone", "ready", "handed", "copying"},
               file : Files \cup {NoFile}, whole : BOOLEAN]
    BY <1>2, <1>4
<1>6. hand.file = f
    BY <1>4
<1>7. work' = [work EXCEPT ![w] = hand]
    BY DEF FeedSends
<1>8. pool' = [pool EXCEPT !.todo = left, !.pc = next]
    BY DEF FeedSends
<1> HIDE DEF f, left, next, hand
<1>9. pool' \in PoolType /\ pool'.pc = next /\ pool'.todo = left
    BY <1>1, <1>2, <1>3, <1>8 DEF PoolType
<1>10. work' \in WorkType
    BY <1>5, <1>7 DEF PoolTyped, PoolTypeOK, WorkType
<1>11. \A v \in Workers : work'[v] = IF v = w THEN hand ELSE work[v]
    BY <1>7 DEF PoolTyped, PoolTypeOK, WorkType
<1>12. \A v \in Workers : Busy(v)' => work'[v].file \in Files
    BY <1>2, <1>6, <1>11 DEF PoolTyped, Busy
<1>13. PoolTypeOK'
    BY <1>9, <1>10 DEF FeedSends, PoolTyped, PoolTypeOK
<1> QED BY <1>3, <1>9, <1>12, <1>13 DEF PoolTyped

\* Each step of a worker keeps the pool typed.
LEMMA WorkerTyped ==
    ASSUME PoolTyped, StoreTypeOK, NEW w \in Workers, WorkerNext(w)
    PROVE  PoolTyped'
<1> USE DEF PoolTyped, PoolTypeOK, PoolType, WorkType, Busy
<1>1. CASE FeedSends(w)
    BY <1>1, SendTyped
<1>2. CASE WorkerOpens(w)
    <2>1. staged' \in [Files -> Copy]
        BY <1>2 DEF WorkerOpens, Copy
    <2>2. work' \in WorkType /\ \A v \in Workers : Busy(v)' => work'[v].file \in Files
        <3> DEFINE whole == store[work[w].file] = "whole"
        <3>1. whole \in BOOLEAN
            BY Equals
        <3>2. /\ work[w].pc = "handed"
              /\ work' = [work EXCEPT ![w].pc = "copying", ![w].whole = whole]
            BY <1>2 DEF WorkerOpens
        <3> HIDE DEF whole
        <3> DEFINE open == [work[w] EXCEPT !.pc = "copying", !.whole = whole]
        <3>3. open.pc = "copying" /\ open.file = work[w].file /\ work[w].file \in Files
              /\ open \in [pc : {"gone", "ready", "handed", "copying"},
                          file : Files \cup {NoFile}, whole : BOOLEAN]
            BY <3>1, <3>2
        <3>4. work' = [work EXCEPT ![w] = open]
            BY <3>2
        <3> HIDE DEF open
        <3>5. work' \in WorkType /\ \A v \in Workers : work'[v] = IF v = w THEN open ELSE work[v]
            BY <3>3, <3>4
        <3> QED BY <3>3, <3>5
    <2> QED BY <1>2, <2>1, <2>2 DEF WorkerOpens
<1>3. CASE WorkerFetches(w)
    <2>1. staged' \in [Files -> Copy] /\ tier' \in [Files -> Copy]
        <3>1. /\ staged' \in {staged, [staged EXCEPT ![work[w].file] = "whole"]}
              /\ tier' \in {tier, [tier EXCEPT ![work[w].file] = "whole"]}
            BY <1>3 DEF WorkerFetches
        <3>2. "whole" \in Copy
            BY DEF Copy
        <3> QED BY <3>1, <3>2
    <2>2. /\ work' = [work EXCEPT ![w] = Ready]
          /\ pool' = [pool EXCEPT !.got = @ \cup {work[w].file}]
          /\ work[w].file \in Files
        BY <1>3 DEF WorkerFetches
    <2>3. work' \in WorkType /\ \A v \in Workers : Busy(v)' => work'[v].file \in Files
        BY <2>2 DEF Ready
    <2>4. pool' \in PoolType /\ pool'.pc = pool.pc /\ pool'.todo = pool.todo
        BY <2>2
    <2> QED BY <2>1, <2>3, <2>4
<1>4. CASE WorkerFails(w)
    BY <1>4 DEF WorkerFails, Gone
<1>5. CASE WorkerLeaves(w)
    BY <1>5 DEF WorkerLeaves, Gone
<1> QED BY <1>1, <1>2, <1>3, <1>4, <1>5 DEF WorkerNext

\* Each step of the pool does.
LEMMA FetchTyped == ASSUME PoolTyped, StoreTypeOK, PoolNext PROVE PoolTyped'
<1> USE DEF PoolTyped, PoolTypeOK, PoolType, Busy
<1>1. CASE FeedBreaks
    BY <1>1 DEF FeedBreaks
<1>2. CASE CallerCancels
    BY <1>2 DEF CallerCancels
<1>3. CASE PoolReturns
    BY <1>3 DEF PoolReturns
<1> QED BY <1>1, <1>2, <1>3, WorkerTyped DEF PoolNext

(* The rest of the state.                                                  *)
AgentTypeOK ==
    /\ mode \in ModeType
    /\ phase \in {"PreWarming", "Restoring", "Running", "Failed"}
    /\ phaseSeen \in {"PreWarming", "Restoring", "Running", "Failed"}
    /\ agt \in AgtType
    /\ pin \in BOOLEAN
    /\ stageManifest \in BOOLEAN
    /\ marker \in BOOLEAN
    /\ proc \in {"none", "parked", "resumed"}
    /\ missed \in BOOLEAN
    /\ restaged \in BOOLEAN
    /\ calm \in BOOLEAN
    /\ restarts \in 0..MaxRestarts

Typed == StoreTypeOK /\ PoolTyped /\ AgentTypeOK

\* The strengthened types imply the types.
LEMMA TypedTypes == Typed => TypeOK
BY DEF Typed, PoolTyped, AgentTypeOK, TypeOK

\* The initial state is typed.
LEMMA InitTyped == Init => Typed
<1> SUFFICES ASSUME Init PROVE Typed
    OBVIOUS
<1>1. StoreTypeOK
    <2>1. wr \in WriterType /\ del \in DeleterType
        BY DEF Init, StoreInit, WriterType, DeleterType, NoWriter, NoDeleter
    <2>2. store \in [Files -> Copy] /\ manifest \in BOOLEAN /\ raced \in BOOLEAN
        BY DEF Init, StoreInit, Copy
    <2>3. uploads \in 0..MaxUploads /\ deletes \in 0..MaxDeletes
        BY StoreBoundsAssumption DEF Init, StoreInit
    <2> QED BY <2>1, <2>2, <2>3 DEF StoreTypeOK
<1>2. PoolTyped
    BY DEF Init, PoolInit, PoolTyped, PoolTypeOK, PoolType, WorkType, NoPool, Gone, Copy, Busy
<1>3. AgentTypeOK
    <2>1. mode \in ModeType /\ agt \in AgtType
        BY ModesAssumption DEF Init, AgtType, NoAgt
    <2>2. restarts \in 0..MaxRestarts
        BY RestartsAssumption DEF Init
    <2> QED BY <2>1, <2>2 DEF Init, AgentTypeOK
<1> QED BY <1>1, <1>2, <1>3 DEF Typed

\* Moving on without a copy in hand keeps the worker typed.
LEMMA GoesTyped ==
    ASSUME NEW pc \in {"idle", "warming", "checkingWarm", "fetching", "warmed", "reading"},
           AgtGoes(pc)
    PROVE  agt' \in AgtType
BY DEF AgtGoes, AgtType, NoAgt

(* A file that Resolve or CRIU has seen.                                   *)
LEMMA SeesTyped ==
    ASSUME AgentTypeOK, NEW pc, ResolveSees(pc)
    PROVE  agt' \in AgtType /\ FirstOf(Files \ agt.seen) \in Files
<1>1. Files \ agt.seen # {}
    BY DEF ResolveSees, Checks, AgentTypeOK, AgtType
<1>2. FirstOf(Files \ agt.seen) \in Files
    BY <1>1, FirstIn
<1> QED BY <1>2 DEF ResolveSees, AgentTypeOK, AgtType

\* Every step of prewarm keeps every type.
LEMMA WarmTyped == ASSUME Typed, WarmNext PROVE Typed'
<1> USE DEF Typed, AgentTypeOK
<1>1. StoreTypeOK'
    BY DEF WarmNext, WarmPins, WarmWaits, WarmReads, ResolveSees, WarmIsResident, WarmFetches,
           WarmCommits, WarmFails, WarmReports, Quiet, storeVars, StoreTypeOK
<1>2. AgentTypeOK' /\ PoolTyped'
    <2>1. ASSUME UNCHANGED poolVars PROVE PoolTyped'
        BY <2>1 DEF poolVars, PoolTyped, PoolTypeOK, Busy
    <2>2. CASE WarmPins
        BY <2>1, <2>2, GoesTyped DEF WarmPins, Quiet
    <2>3. CASE WarmWaits
        BY <2>1, <2>3, GoesTyped DEF WarmWaits, Quiet
    <2>4. CASE WarmReads
        <3>1. agt' \in AgtType /\ restaged' \in BOOLEAN
            BY <2>4, GoesTyped DEF WarmReads, ModeType
        <3>2. mode.staging \in BOOLEAN
            BY DEF ModeType
        <3>3. PoolTyped'
            BY <2>1, <2>4, <3>2, StartTyped DEF WarmReads
        <3> QED BY <2>4, <3>1, <3>3 DEF WarmReads, Quiet
    <2>5. CASE ResolveSees("checkingWarm")
        <3>1. agt' \in AgtType
            BY <2>5, SeesTyped
        <3>2. PoolTyped'
            BY <2>1, <2>5 DEF ResolveSees
        <3> QED BY <2>5, <3>1, <3>2 DEF ResolveSees, Quiet
    <2>6. CASE WarmIsResident
        BY <2>1, <2>6, GoesTyped DEF WarmIsResident, Quiet
    <2>7. CASE WarmFetches
        <3>1. agt' \in AgtType
            BY <2>7, GoesTyped DEF WarmFetches
        <3>2. PoolTyped'
            BY <2>7, StartTyped DEF WarmFetches
        <3> QED BY <2>7, <3>1, <3>2 DEF WarmFetches, Quiet
    <2>8. CASE WarmCommits
        <3>1. stageManifest' \in BOOLEAN
            BY <2>8 DEF WarmCommits
        <3> QED BY <2>8, <3>1, GoesTyped, DieTyped DEF WarmCommits, Quiet
    <2>9. CASE WarmFails
        BY <2>9, GoesTyped, DieTyped DEF WarmFails, Reports, Quiet
    <2>10. CASE WarmReports
        BY <2>1, <2>10, GoesTyped DEF WarmReports, Reports, Quiet
    <2> QED BY <2>2, <2>3, <2>4, <2>5, <2>6, <2>7, <2>8, <2>9, <2>10 DEF WarmNext
<1> QED BY <1>1, <1>2

\* Every step of restore keeps every type.
LEMMA RestoreTyped == ASSUME Typed, RestoreNext PROVE Typed'
<1> USE DEF Typed, AgentTypeOK
<1>1. StoreTypeOK' /\ PoolTyped'
    BY DEF RestoreNext, RestoreBegins, RestoreReads, ResolveSees, RestoreUsesTier,
           RestoreDeclinesTier, RestoreMarks, RuncOpens, RuncRestores, RuncMissesImage,
           RestoreFailsOtherwise, RestoreFails, Quiet, storeVars, poolVars, StoreTypeOK,
           PoolTyped, PoolTypeOK, Busy
<1>2. AgentTypeOK'
    <2>1. CASE RestoreBegins
        BY <2>1, GoesTyped DEF RestoreBegins, Quiet
    <2>2. CASE RestoreReads
        BY <2>2 DEF RestoreReads, Quiet, AgtType
    <2>3. CASE ResolveSees("checking")
        <3>1. agt' \in AgtType
            BY <2>3, SeesTyped
        <3> QED BY <2>3, <3>1 DEF ResolveSees, Quiet
    <2>4. CASE RestoreUsesTier \/ RestoreDeclinesTier
        BY <2>4 DEF RestoreUsesTier, RestoreDeclinesTier, Quiet, AgtType
    <2>5. CASE RestoreMarks
        BY <2>5 DEF RestoreMarks, Quiet, AgtType
    <2>6. ASSUME NEW f \in Files, RuncOpens(f) PROVE AgentTypeOK'
        BY <2>6 DEF RuncOpens, Quiet, AgtType
    <2>7. CASE RuncRestores
        BY <2>7, GoesTyped DEF RuncRestores, Reports, Quiet
    <2>8. CASE RuncMissesImage \/ RestoreFailsOtherwise
        <3>1. RestoreFails /\ missed' \in BOOLEAN
            BY <2>8 DEF RuncMissesImage, RestoreFailsOtherwise
        <3> QED BY <3>1, GoesTyped DEF RestoreFails, Reports, Quiet
    <2> QED BY <2>1, <2>2, <2>3, <2>4, <2>5, <2>6, <2>7, <2>8 DEF RestoreNext
<1> QED BY <1>1, <1>2

\* Every step keeps every type.
LEMMA StepTyped == ASSUME Typed, [Next]_vars PROVE Typed'
<1> USE DEF Typed, AgentTypeOK
<1>1. CASE ArtifactMoves
    <2>1. StoreTypeOK'
        BY <1>1, UploadTyped, DeleteTyped DEF ArtifactMoves
    <2>2. tier' \in [Files -> Copy]
        BY <1>1 DEF ArtifactMoves, TierFollows, PoolTyped, PoolTypeOK, Copy
    <2>3. calm' \in BOOLEAN
        BY <1>1 DEF ArtifactMoves
    <2>4. AgentTypeOK'
        BY <1>1, <2>3 DEF ArtifactMoves
    <2>5. PoolTyped'
        BY <1>1, <2>2 DEF ArtifactMoves, PoolTyped, PoolTypeOK, Busy
    <2> QED BY <2>1, <2>4, <2>5
<1>2. CASE FetchGoes
    BY <1>2, FetchTyped DEF FetchGoes, storeVars, nodeVars, StoreTypeOK
<1>3. CASE WarmNext
    BY <1>3, WarmTyped
<1>4. CASE RestoreNext
    BY <1>4, RestoreTyped
<1>5. CASE ShimResumes
    BY <1>5 DEF ShimResumes, Quiet, storeVars, poolVars, StoreTypeOK, PoolTyped, PoolTypeOK, Busy
<1>6. CASE AgentRestarts
    <2>1. PoolTyped'
        BY <1>6, DieTyped DEF AgentRestarts
    <2>2. agt' \in AgtType
        BY <1>6, GoesTyped DEF AgentRestarts
    <2>3. proc' \in {"none", "parked", "resumed"} /\ restarts' \in 0..MaxRestarts
        BY <1>6, RestartsAssumption DEF AgentRestarts
    <2> QED BY <1>6, <2>1, <2>2, <2>3 DEF AgentRestarts, storeVars, StoreTypeOK
<1>7. ASSUME NEW f \in Files, TierFills(f) \/ TierEvicts(f) PROVE Typed'
    <2>1. tier' \in [Files -> Copy]
        BY <1>7 DEF TierFills, TierEvicts, PoolTyped, PoolTypeOK, Copy
    <2> QED BY <1>7, <2>1
            DEF TierFills, TierEvicts, storeVars, nodeVars, StoreTypeOK, PoolTyped, PoolTypeOK, Busy
<1>8. CASE Informed \/ UNCHANGED vars
    BY <1>8 DEF Informed, vars, storeVars, poolVars, StoreTypeOK, PoolTyped, PoolTypeOK, Busy
<1> QED BY <1>1, <1>2, <1>3, <1>4, <1>5, <1>6, <1>7, <1>8 DEF Next

(* Types are kept by every step of worker, pool, tier, uploads, deletions. *)
THEOREM NodeRestoreTypeCorrect == Spec => []TypeOK
<1>1. Typed /\ [Next]_vars => Typed'
    BY StepTyped
<1> QED BY <1>1, InitTyped, TypedTypes, PTL DEF Spec

-----------------------------------------------------------------------------
(***************************************************************************)
(* The commit protocol, file by file.  A publication that did not begin    *)
(* inside a Delete is alone while it writes, and has written what is not   *)
(* left to do; a Delete that no publication raced has taken the MANIFEST   *)
(* away before it removes a file.                                          *)
(***************************************************************************)
StoreInv ==
    /\ wr.pc = "writing" => ~manifest
    /\ ~raced =>
        /\ del.pc = "removing" => ~manifest
        /\ wr.pc = "writing" =>
            /\ del.pc = "idle"
            /\ \A f \in Files \ wr.todo : store[f] = "whole"
            /\ wr.file # NoFile => wr.file \in wr.todo /\ store[wr.file] = "part"
        /\ manifest => \A f \in Files : store[f] = "whole"

\* The publication of the initial state is committed and whole.
LEMMA InitStore == Init => StoreInv
BY DEF Init, StoreInit, StoreInv, NoWriter, NoDeleter

\* A publication keeps the store's invariant.
LEMMA UploadKeeps == ASSUME StoreTypeOK, StoreInv, UploadNext PROVE StoreInv'
<1> USE DEF StoreTypeOK, WriterType, DeleterType, StoreInv
<1>1. CASE UploadStarts
    <2>1. /\ ~manifest' /\ UNCHANGED <<store, del>>
          /\ wr' = [pc |-> "writing", todo |-> Files, file |-> NoFile]
          /\ ~raced' => del.pc = "idle"
        BY <1>1 DEF UploadStarts
    <2> QED BY <2>1
<1>2. ASSUME NEW f \in Files, UploadOpens(f) PROVE StoreInv'
    BY <1>2 DEF UploadOpens
<1>3. CASE UploadCloses
    <2>1. /\ wr.pc = "writing" /\ wr.file \in Files
          /\ wr' = [wr EXCEPT !.file = NoFile, !.todo = @ \ {wr.file}]
          /\ UNCHANGED <<manifest, del, raced>>
          /\ ~raced => store' = [store EXCEPT ![wr.file] = "whole"]
        BY <1>3 DEF UploadCloses
    <2> QED BY <2>1
<1>4. CASE UploadCommits
    BY <1>4 DEF UploadCommits, NoWriter
<1>5. CASE UploadStops
    BY <1>5 DEF UploadStops, NoWriter
<1> QED BY <1>1, <1>2, <1>3, <1>4, <1>5 DEF UploadNext

\* Store.Delete keeps it.
LEMMA DeleteKeeps == ASSUME StoreTypeOK, StoreInv, DeleteNext PROVE StoreInv'
<1> USE DEF StoreTypeOK, WriterType, DeleterType, StoreInv
<1>1. CASE DeleteReads
    BY <1>1 DEF DeleteReads, NoDeleter
<1>2. CASE DeleteUncommits
    BY <1>2 DEF DeleteUncommits
<1>3. CASE DeleteRemoves
    BY <1>3 DEF DeleteRemoves, NoDeleter
<1>4. CASE DeleteStops
    BY <1>4 DEF DeleteStops, NoDeleter
<1> QED BY <1>1, <1>2, <1>3, <1>4 DEF DeleteNext

(* Nobody but the worker that publishes and the manager that deletes       *)
(* touches the artifact.                                                   *)
LEMMA StoreMovers == [Next]_vars => ArtifactMoves \/ UNCHANGED storeVars
BY DEF Next, FetchGoes, WarmNext, WarmPins, WarmWaits, WarmReads, ResolveSees, WarmIsResident,
       WarmFetches, WarmCommits, WarmFails, WarmReports, RestoreNext, RestoreBegins,
       RestoreReads, RestoreUsesTier, RestoreDeclinesTier, RestoreMarks, RuncOpens,
       RuncRestores, RuncMissesImage, RestoreFailsOtherwise, RestoreFails, ShimResumes,
       AgentRestarts, Informed, TierFills, TierEvicts, Quiet, vars, storeVars

\* Every step keeps it.
LEMMA StoreKept == ASSUME Typed, StoreInv, [Next]_vars PROVE StoreInv'
<1>1. CASE ArtifactMoves
    BY <1>1, UploadKeeps, DeleteKeeps DEF ArtifactMoves, Typed
<1>2. CASE UNCHANGED storeVars
    BY <1>2 DEF storeVars, StoreInv
<1> QED BY <1>1, <1>2, StoreMovers

\* It says what a MANIFEST promises.
LEMMA StoreCommits == StoreInv => FilesCommitted
BY DEF StoreInv, FilesCommitted, Whole

(* FilesCommitted: whoever finds a MANIFEST finds every image it lists     *)
(* whole (ExpandTarToDir, Store.Delete).                                   *)
THEOREM ManifestCommits == Spec => []FilesCommitted
<1>1. Typed /\ StoreInv /\ [Next]_vars => Typed' /\ StoreInv'
    BY StepTyped, StoreKept
<1> QED BY <1>1, InitTyped, InitStore, StoreCommits, PTL DEF Spec

-----------------------------------------------------------------------------
(***************************************************************************)
(* The pool's books.  While nothing cancelled it every file is to be sent, *)
(* with a worker, or fetched, and there is none to be sent once the        *)
(* channel is closed.  Cancelled or not, a file is in one place only, and  *)
(* a fetched one is whole where it was staged.                             *)
(***************************************************************************)
Accounted ==
    pool.pc # "idle" /\ ~pool.cancelled =>
        \A f \in Files : \/ f \in pool.todo \/ f \in pool.got
                         \/ \E w \in Workers : Busy(w) /\ work[w].file = f

Separate ==
    /\ pool.todo \cap pool.got = {}
    /\ \A w \in Workers :
        Busy(w) => /\ work[w].file \notin pool.todo \cup pool.got
                   /\ \A v \in Workers \ {w} : Busy(v) => work[v].file # work[w].file

PoolInv ==
    /\ Accounted
    /\ Separate
    /\ pool.pc \in {"closed", "returned"} /\ ~pool.cancelled => pool.todo = {}
    /\ pool.pc = "returned" => \A w \in Workers : work[w].pc = "gone"
    /\ pool.staging => \A f \in pool.got : staged[f] = "whole"

\* Every file is accounted for when the pool starts.
LEMMA StartKeeps ==
    ASSUME PoolTyped, NEW staging \in BOOLEAN, PoolStarts(staging)
    PROVE  PoolInv'
<1>1. PICK s : work' = [w \in Workers |-> IF w \in s THEN Ready ELSE Gone]
    BY DEF PoolStarts
<1>2. \A w \in Workers : ~Busy(w)'
    BY <1>1 DEF Ready, Gone, Busy
<1>3. pool'.pc = "feeding" /\ pool'.todo = Files /\ pool'.got = {}
    BY DEF PoolStarts, NoPool
<1> QED BY <1>2, <1>3 DEF PoolInv, Accounted, Separate

\* An empty pool accounts for nothing.
LEMMA DieKeeps == ASSUME PoolDies PROVE PoolInv'
BY DEF PoolDies, PoolInv, Accounted, Separate, NoPool, Gone, Busy

\* Each step of a worker keeps the account.
LEMMA WorkerKeeps ==
    ASSUME PoolTyped, PoolInv, NEW w \in Workers, WorkerNext(w)
    PROVE  PoolInv'
<1> USE DEF PoolTyped, PoolTypeOK, PoolType, WorkType, Busy
<1>1. CASE FeedSends(w)
    <2> DEFINE f == FirstOf(pool.todo)
    <2>1. f \in pool.todo
        BY <1>1, FirstIn DEF FeedSends
    <2>2. /\ work[w].pc = "ready" /\ pool.pc = "feeding"
          /\ work' = [work EXCEPT ![w] = [Ready EXCEPT !.pc = "handed", !.file = f]]
          /\ pool' = [pool EXCEPT !.todo = @ \ {f},
                         !.pc = IF pool.cancelled \/ pool.todo = {f} THEN "closed" ELSE @]
          /\ UNCHANGED staged
        BY <1>1 DEF FeedSends
    <2> HIDE DEF f
    <2>3. /\ work'[w].pc = "handed" /\ work'[w].file = f
          /\ \A v \in Workers \ {w} : work'[v] = work[v]
        BY <2>2 DEF Ready
    <2>4. /\ pool'.todo = pool.todo \ {f} /\ pool'.got = pool.got
          /\ pool'.cancelled = pool.cancelled /\ pool'.staging = pool.staging
          /\ pool'.pc \in {"feeding", "closed"}
          /\ pool'.pc = "closed" /\ ~pool.cancelled => pool.todo = {f}
        BY <2>2
    <2>5. Accounted'
        BY <2>1, <2>2, <2>3, <2>4 DEF PoolInv, Accounted
    <2>6. Separate'
        BY <2>1, <2>2, <2>3, <2>4 DEF PoolInv, Separate
    <2> QED BY <2>2, <2>4, <2>5, <2>6 DEF PoolInv
<1>2. CASE WorkerOpens(w)
    <2>1. /\ Busy(w) /\ pool' = pool
          /\ work'[w].pc = "copying" /\ work'[w].file = work[w].file
          /\ \A v \in Workers \ {w} : work'[v] = work[v]
        BY <1>2 DEF WorkerOpens
    <2>2. staged' \in {staged, [staged EXCEPT ![work[w].file] = "part"]}
        BY <1>2 DEF WorkerOpens
    <2>3. Accounted' /\ Separate'
        BY <2>1 DEF PoolInv, Accounted, Separate
    <2>4. \A f \in pool.got : staged'[f] = staged[f]
        BY <2>1, <2>2 DEF PoolInv, Separate
    <2> QED BY <2>1, <2>3, <2>4 DEF PoolInv
<1>3. CASE WorkerFetches(w)
    <2>1. /\ Busy(w) /\ work' = [work EXCEPT ![w] = Ready]
          /\ pool' = [pool EXCEPT !.got = @ \cup {work[w].file}]
          /\ staged' = IF pool.staging THEN [staged EXCEPT ![work[w].file] = "whole"] ELSE staged
        BY <1>3 DEF WorkerFetches
    <2>2. /\ ~Busy(w)' /\ \A v \in Workers \ {w} : work'[v] = work[v]
          /\ pool'.todo = pool.todo /\ pool'.got = pool.got \cup {work[w].file}
          /\ pool'.pc = pool.pc /\ pool'.cancelled = pool.cancelled
          /\ pool'.staging = pool.staging
        BY <2>1 DEF Ready
    <2>3. Accounted' /\ Separate'
        BY <2>1, <2>2 DEF PoolInv, Accounted, Separate
    <2>4. pool.staging => \A f \in pool'.got : staged'[f] = "whole"
        BY <2>1, <2>2 DEF PoolInv
    <2>5. pool.pc # "returned"
        BY <2>1 DEF PoolInv
    <2> QED BY <2>2, <2>3, <2>4, <2>5 DEF PoolInv
<1>4. CASE WorkerFails(w)
    BY <1>4 DEF WorkerFails, Gone, PoolInv, Accounted, Separate
<1>5. CASE WorkerLeaves(w)
    BY <1>5 DEF WorkerLeaves, Gone, PoolInv, Accounted, Separate
<1> QED BY <1>1, <1>2, <1>3, <1>4, <1>5 DEF WorkerNext

\* Each step of the pool keeps it.
LEMMA FetchKeeps == ASSUME PoolTyped, PoolInv, PoolNext PROVE PoolInv'
<1> USE DEF PoolTyped, PoolTypeOK, PoolType, Busy
<1>1. CASE FeedBreaks
    BY <1>1 DEF FeedBreaks, PoolInv, Accounted, Separate
<1>2. CASE CallerCancels
    BY <1>2 DEF CallerCancels, PoolInv, Accounted, Separate
<1>3. CASE PoolReturns
    BY <1>3 DEF PoolReturns, PoolInv, Accounted, Separate
<1> QED BY <1>1, <1>2, <1>3, WorkerKeeps DEF PoolNext

(* A pool is started, works and dies; nothing else touches it or what it   *)
(* stages.                                                                 *)
LEMMA PoolMovers ==
    ASSUME Typed, [Next]_vars
    PROVE  \/ FetchGoes
           \/ \E staging \in BOOLEAN : PoolStarts(staging)
           \/ PoolDies
           \/ UNCHANGED <<pool, work, staged>>
<1>1. mode.staging \in BOOLEAN
    BY DEF Typed, AgentTypeOK, ModeType
<1> QED
    BY <1>1
    DEF Next, ArtifactMoves, WarmNext, WarmPins, WarmWaits, WarmReads, ResolveSees,
        WarmIsResident, WarmFetches, WarmCommits, WarmFails, WarmReports, RestoreNext,
        RestoreBegins, RestoreReads, RestoreUsesTier, RestoreDeclinesTier, RestoreMarks,
        RuncOpens, RuncRestores, RuncMissesImage, RestoreFailsOtherwise, RestoreFails,
        ShimResumes, AgentRestarts, Informed, TierFills, TierEvicts, vars, poolVars

\* Every step keeps it.
LEMMA PoolKept == ASSUME Typed, PoolInv, [Next]_vars PROVE PoolInv'
<1>1. CASE FetchGoes
    BY <1>1, FetchKeeps DEF FetchGoes, Typed
<1>2. CASE UNCHANGED <<pool, work, staged>>
    BY <1>2 DEF PoolInv, Accounted, Separate, Busy
<1> QED BY <1>1, <1>2, PoolMovers, StartKeeps, DieKeeps DEF Typed

\* There is no pool in the initial state.
LEMMA InitPool == Init => PoolInv
BY DEF Init, PoolInit, PoolInv, Accounted, Separate, Busy, NoPool, Gone

\* Success leaves no file but the fetched ones.
LEMMA PoolFetchedAll == Typed /\ PoolInv => FetchedAll
BY DEF Typed, PoolTyped, PoolTypeOK, PoolType, PoolInv, Accounted, Busy, FetchedAll, Fetched

(* FetchedAll: Prefetch without an error has fetched every file, whichever *)
(* workers left and in whatever order.                                     *)
THEOREM PrefetchComplete == Spec => []FetchedAll
<1>1. Typed /\ PoolInv /\ [Next]_vars => Typed' /\ PoolInv'
    BY StepTyped, PoolKept
<1> QED BY <1>1, InitTyped, InitPool, PoolFetchedAll, PTL DEF Spec

-----------------------------------------------------------------------------
(***************************************************************************)
(* A staged MANIFEST outlives the attempt that wrote it, and the next one  *)
(* replaces the files under it.  The copy of a restore says Restoring, so  *)
(* a pre-warm was reported; that one was complete, and what followed it    *)
(* began from a copy that was stale: it has completed, or is restaged.     *)
(***************************************************************************)
RestorePc == {"reading", "checking", "marking", "opening"}

\* A restore may read what was staged, or soon may.
Reported ==
    phase = "Restoring" \/ phaseSeen = "Restoring" \/ agt.pc \in RestorePc \/ agt.pc = "warmed"

StageInv ==
    /\ phaseSeen # "PreWarming" => phase # "PreWarming"
    /\ agt.pc \in RestorePc => phase # "PreWarming"
    /\ stageManifest => mode.staging
    /\ agt.pc = "checkingWarm" => ~mode.staging
    /\ agt.pc = "fetching" /\ mode.staging => phase = "PreWarming" \/ restaged
    /\ pool.pc # "idle" => pool.staging = mode.staging
    /\ agt.src = "staged" => agt.pc \in {"marking", "opening"} /\ stageManifest
    /\ Reported /\ stageManifest => (\A f \in Files : staged[f] = "whole") \/ restaged

\* Nothing is staged in the initial state.
LEMMA InitStage == Init => StageInv
BY DEF Init, PoolInit, StageInv, Reported, NoAgt, NoPool, RestorePc

\* Every step of prewarm keeps the staged copy's invariant.
LEMMA WarmStages ==
    ASSUME Typed, PoolInv, StageInv, WarmNext
    PROVE  StageInv'
<1> USE DEF StageInv, Reported, RestorePc, AgtGoes, NoAgt, Quiet, poolVars
<1>1. CASE WarmPins
    BY <1>1 DEF WarmPins
<1>2. CASE WarmWaits
    BY <1>2 DEF WarmWaits
<1>3. CASE WarmReads
    <2>1. mode.staging \in BOOLEAN /\ (stageManifest => mode.staging)
        BY DEF Typed, AgentTypeOK, ModeType
    <2>2. CASE mode.staging \/ ~mode.cached
        <3>1. /\ agt'.pc = "fetching" /\ agt'.src = "none"
              /\ restaged' = (mode.staging /\ phase # "PreWarming")
              /\ pool'.staging = mode.staging
            BY <1>3, <2>2 DEF WarmReads, PoolStarts, NoPool
        <3>2. UNCHANGED <<mode, phase, phaseSeen, stageManifest>>
            BY <1>3 DEF WarmReads
        <3> QED BY <2>1, <3>1, <3>2
    <2>3. CASE ~(mode.staging \/ ~mode.cached)
        BY <1>3, <2>1, <2>3 DEF WarmReads
    <2> QED BY <2>2, <2>3
<1>4. CASE ResolveSees("checkingWarm")
    BY <1>4 DEF ResolveSees, Checks, Typed, AgentTypeOK, AgtType
<1>5. CASE WarmIsResident
    BY <1>5 DEF WarmIsResident
<1>6. CASE WarmFetches
    <2>1. mode.staging = FALSE /\ pool'.staging = FALSE
        BY <1>6 DEF WarmFetches, Declines, Checks, PoolStarts, NoPool, Typed, AgentTypeOK, ModeType
    <2>2. /\ agt'.pc = "fetching" /\ agt'.src = "none"
          /\ UNCHANGED <<mode, phase, phaseSeen, stageManifest>>
        BY <1>6 DEF WarmFetches
    <2>3. ~stageManifest
        BY <2>1
    <2> QED BY <2>1, <2>2, <2>3
<1>7. CASE WarmCommits
    <2>1. pool.got = Files /\ pool.pc # "idle" /\ agt.pc = "fetching" /\ UNCHANGED staged
        BY <1>7, PoolFetchedAll DEF WarmCommits, FetchedAll, Fetched, PoolDies
    <2>2. mode.staging => \A f \in Files : staged[f] = "whole"
        BY <2>1 DEF PoolInv
    <2>3. (stageManifest' => mode.staging) /\ UNCHANGED <<mode, phase, phaseSeen>>
        BY <1>7 DEF WarmCommits
    <2>4. agt'.pc = "warmed" /\ agt'.src = "none" /\ pool'.pc = "idle"
        BY <1>7 DEF WarmCommits, PoolDies, NoPool
    <2> QED BY <2>1, <2>2, <2>3, <2>4
<1>8. CASE WarmFails
    <2>1. phase' = phase \/ phase' = "Failed"
        BY <1>8 DEF WarmFails, Reports
    <2>2. agt'.pc = "idle" /\ agt'.src = "none" /\ pool'.pc = "idle"
        BY <1>8 DEF WarmFails, PoolDies, NoPool
    <2>3. agt.pc = "fetching" /\ UNCHANGED <<mode, phaseSeen, stageManifest, staged, restaged>>
        BY <1>8 DEF WarmFails, PoolDies
    <2> QED BY <2>1, <2>2, <2>3
<1>9. CASE WarmReports
    BY <1>9 DEF WarmReports, Reports
<1> QED BY <1>1, <1>2, <1>3, <1>4, <1>5, <1>6, <1>7, <1>8, <1>9 DEF WarmNext

\* Every step of restore does.
LEMMA RestoreStages ==
    ASSUME Typed, StageInv, RestoreNext
    PROVE  StageInv'
<1> USE DEF StageInv, Reported, RestorePc, AgtGoes, NoAgt, Quiet, poolVars,
            Typed, AgentTypeOK, AgtType
<1>1. CASE RestoreBegins
    BY <1>1 DEF RestoreBegins
<1>2. CASE RestoreReads
    BY <1>2 DEF RestoreReads
<1>3. CASE ResolveSees("checking")
    BY <1>3 DEF ResolveSees, Checks
<1>4. CASE RestoreUsesTier \/ RestoreDeclinesTier
    BY <1>4 DEF RestoreUsesTier, RestoreDeclinesTier, Declines, Checks
<1>5. CASE RestoreMarks
    BY <1>5 DEF RestoreMarks
<1>6. ASSUME NEW f \in Files, RuncOpens(f) PROVE StageInv'
    BY <1>6 DEF RuncOpens
<1>7. CASE RuncRestores
    BY <1>7 DEF RuncRestores, Reports
<1>8. CASE RuncMissesImage \/ RestoreFailsOtherwise
    BY <1>8 DEF RuncMissesImage, RestoreFailsOtherwise, RestoreFails, Reports
<1> QED BY <1>1, <1>2, <1>3, <1>4, <1>5, <1>6, <1>7, <1>8 DEF RestoreNext

\* Every step does.
LEMMA StageKept ==
    ASSUME Typed, PoolInv, StageInv, [Next]_vars
    PROVE  StageInv'
<1> USE DEF StageInv, Reported, RestorePc
<1>1. CASE ArtifactMoves
    BY <1>1 DEF ArtifactMoves
<1>2. CASE FetchGoes
    <2>1. agt.pc = "fetching" /\ UNCHANGED <<mode, phase, phaseSeen, agt, stageManifest, restaged>>
        BY <1>2 DEF FetchGoes, nodeVars
    <2>2. pool'.staging = pool.staging /\ (pool.pc = "idle" => pool'.pc = "idle")
        BY <1>2
        DEF Typed, PoolTyped, PoolTypeOK, PoolType, FetchGoes, PoolNext, FeedBreaks,
            CallerCancels, PoolReturns, WorkerNext, FeedSends, WorkerOpens, WorkerFetches,
            WorkerFails, WorkerLeaves
    <2> QED BY <2>1, <2>2
<1>3. CASE WarmNext
    BY <1>3, WarmStages
<1>4. CASE RestoreNext
    BY <1>4, RestoreStages
<1>5. CASE ShimResumes
    BY <1>5 DEF ShimResumes, Quiet, poolVars
<1>6. CASE AgentRestarts
    BY <1>6 DEF AgentRestarts, AgtGoes, NoAgt, PoolDies, NoPool
<1>7. ASSUME NEW f \in Files, TierFills(f) \/ TierEvicts(f) PROVE StageInv'
    BY <1>7 DEF TierFills, TierEvicts, nodeVars
<1>8. CASE Informed \/ UNCHANGED vars
    BY <1>8 DEF Informed, poolVars, vars
<1> QED BY <1>1, <1>2, <1>3, <1>4, <1>5, <1>6, <1>7, <1>8 DEF Next

\* It says that a staged copy that is read is whole.
LEMMA StageReads == StageInv => StagedReadWhole
BY DEF StageInv, Reported, StagedReadWhole, Whole, RestorePc

(* StagedReadWhole: a restore that reads the staged copy finds every image *)
(* whole, wherever the agent stopped in the pre-warms before (stageImage)  *)
(* and whichever status write conflicted, unless one that was repeated     *)
(* from a stale copy of the object never staged everything again.          *)
THEOREM StagedCopyWhole == Spec => []StagedReadWhole
<1>1. Typed /\ PoolInv /\ StageInv /\ [Next]_vars => Typed' /\ PoolInv' /\ StageInv'
    BY StepTyped, PoolKept, StageKept
<1> QED BY <1>1, InitTyped, InitPool, InitStage, StageReads, PTL DEF Spec

-----------------------------------------------------------------------------
(***************************************************************************)
(* While the artifact is as restore() found it, it is committed; and while *)
(* the prefix is pinned, what was found on the tier is still there.        *)
(***************************************************************************)
TierInv ==
    calm /\ agt.pc \in {"checking", "marking", "opening"} /\ agt.src # "staged" =>
        /\ manifest
        /\ ~raced /\ pin =>
            /\ agt.pc = "checking" => \A f \in agt.seen : tier[f] = "whole"
            /\ agt.src = "tier" => \A f \in Files : tier[f] = "whole"

\* Uploads and deletions move the artifact, which ends the calm.
LEMMA ArtifactKeepsTier ==
    ASSUME Typed, StoreInv, TierInv, ArtifactMoves
    PROVE  TierInv'
<1>1. calm' => calm /\ store' = store /\ manifest' = manifest
    BY DEF ArtifactMoves
<1>2. UNCHANGED <<agt, pin>>
    BY DEF ArtifactMoves
<1>3. manifest /\ manifest' => raced' = raced
    BY DEF ArtifactMoves, UploadNext, UploadStarts, UploadOpens, UploadCloses, UploadCommits,
           UploadStops, DeleteNext, DeleteReads, DeleteUncommits, DeleteRemoves, DeleteStops
<1>4. tier' \in {tier, [f \in Files |-> IF store'[f] = "whole" THEN tier[f] ELSE "absent"]}
    BY DEF ArtifactMoves, TierFollows
<1>5. manifest /\ ~raced => \A f \in Files : store[f] = "whole"
    BY DEF StoreInv
<1>6. agt.seen \subseteq Files /\ tier \in [Files -> Copy]
    BY DEF Typed, AgentTypeOK, AgtType, PoolTyped, PoolTypeOK
<1>7. ASSUME manifest, ~raced, store' = store PROVE \A f \in Files : tier'[f] = tier[f]
    BY <1>4, <1>5, <1>6, <1>7
<1> QED BY <1>1, <1>2, <1>3, <1>6, <1>7 DEF TierInv

\* Restore checks a file of the tier before it counts on it.
LEMMA RestoreKeepsTier ==
    ASSUME Typed, StageInv, TierInv, RestoreNext
    PROVE  TierInv'
<1> USE DEF TierInv, AgtGoes, NoAgt, Quiet, poolVars, storeVars, Typed, AgentTypeOK, AgtType
<1>1. CASE RestoreBegins
    BY <1>1 DEF RestoreBegins
<1>2. CASE RestoreReads
    BY <1>2 DEF RestoreReads
<1>3. CASE ResolveSees("checking")
    BY <1>3 DEF ResolveSees, Checks
<1>4. CASE RestoreUsesTier \/ RestoreDeclinesTier
    <2>1. agt.pc = "checking" /\ UNCHANGED <<manifest, raced, tier, calm, pin>>
        BY <1>4 DEF RestoreUsesTier, RestoreDeclinesTier, Declines, Checks
    <2>2. agt.src # "staged"
        BY <2>1 DEF StageInv
    <2> QED BY <1>4, <2>1, <2>2 DEF RestoreUsesTier, RestoreDeclinesTier
<1>5. CASE RestoreMarks
    BY <1>5 DEF RestoreMarks
<1>6. ASSUME NEW f \in Files, RuncOpens(f) PROVE TierInv'
    BY <1>6 DEF RuncOpens
<1>7. CASE RuncRestores
    BY <1>7 DEF RuncRestores
<1>8. CASE RuncMissesImage \/ RestoreFailsOtherwise
    BY <1>8 DEF RuncMissesImage, RestoreFailsOtherwise, RestoreFails
<1> QED BY <1>1, <1>2, <1>3, <1>4, <1>5, <1>6, <1>7, <1>8 DEF RestoreNext

\* Every step keeps what was checked of the copy being read.
LEMMA TierKept ==
    ASSUME Typed, StoreInv, StageInv, TierInv, [Next]_vars
    PROVE  TierInv'
<1>1. CASE ArtifactMoves
    BY <1>1, ArtifactKeepsTier
<1>2. CASE FetchGoes
    BY <1>2 DEF TierInv, FetchGoes, nodeVars, storeVars
<1>3. CASE WarmNext
    <2>1. agt.pc \notin RestorePc /\ agt'.pc \notin RestorePc
        BY <1>3
        DEF WarmNext, WarmPins, WarmWaits, WarmReads, ResolveSees, Checks, WarmIsResident,
            WarmFetches, Declines, WarmCommits, WarmFails, WarmReports, AgtGoes, NoAgt,
            RestorePc, Typed, AgentTypeOK, AgtType
    <2> QED BY <2>1 DEF TierInv, RestorePc
<1>4. CASE RestoreNext
    BY <1>4, RestoreKeepsTier
<1>5. CASE ShimResumes
    BY <1>5 DEF TierInv, ShimResumes, Quiet, poolVars, storeVars
<1>6. CASE AgentRestarts
    BY <1>6 DEF TierInv, AgentRestarts, AgtGoes, NoAgt
<1>7. ASSUME NEW f \in Files, TierFills(f) PROVE TierInv'
    <2>1. tier \in [Files -> Copy] /\ agt.seen \subseteq Files
        BY DEF Typed, PoolTyped, PoolTypeOK, AgentTypeOK, AgtType
    <2>2. \A g \in Files : tier[g] = "whole" => tier'[g] = "whole"
        BY <1>7, <2>1 DEF TierFills
    <2> QED BY <1>7, <2>1, <2>2 DEF TierInv, TierFills, nodeVars, storeVars
<1>8. ASSUME NEW f \in Files, TierEvicts(f) PROVE TierInv'
    BY <1>8 DEF TierInv, TierEvicts, nodeVars, storeVars
<1>9. CASE Informed \/ UNCHANGED vars
    BY <1>9 DEF Informed, TierInv, vars, storeVars, poolVars
<1> QED BY <1>1, <1>2, <1>3, <1>4, <1>5, <1>6, <1>7, <1>8, <1>9 DEF Next

(* The one step that fails a restore for an image.                         *)
LEMMA ImageMissed ==
    ASSUME [Next]_vars, missed' # missed, missed'
    PROVE  RuncMissesImage
BY DEF Next, ArtifactMoves, FetchGoes, WarmNext, WarmPins, WarmWaits, WarmReads, ResolveSees,
       WarmIsResident, WarmFetches, WarmCommits, WarmFails, WarmReports, RestoreNext,
       RestoreBegins, RestoreReads, RestoreUsesTier, RestoreDeclinesTier, RestoreMarks,
       RuncOpens, RuncRestores, RestoreFailsOtherwise, RestoreFails, ShimResumes,
       AgentRestarts, Informed, TierFills, TierEvicts, Quiet, nodeVars, vars

\* A step that misses an image has one of the causes.
LEMMA ImageExplained ==
    ASSUME Typed, StoreInv, StageInv, TierInv, [Next]_vars
    PROVE  MissingImageExplained
<1> SUFFICES ASSUME missed', ~missed
             PROVE  IF agt.src = "staged"
                    THEN restaged
                    ELSE ~calm \/ raced \/ (agt.src = "tier" /\ ~pin)
    BY DEF MissingImageExplained
<1>1. PICK f \in Files : agt.pc = "opening" /\ Source[f] # "whole"
    BY ImageMissed DEF RuncMissesImage
<1>2. ASSUME agt.src = "staged" PROVE restaged
    BY <1>1, <1>2 DEF StageInv, Reported, RestorePc, Source
<1>3. ASSUME agt.src # "staged", calm, ~raced PROVE agt.src = "tier" /\ ~pin
    <2>1. store[f] = "whole"
        BY <1>1, <1>3 DEF TierInv, StoreInv
    <2>2. agt.src = "tier"
        BY <1>1, <1>3, <2>1 DEF Source
    <2> QED BY <1>1, <1>3, <2>2 DEF TierInv, Source
<1> QED BY <1>2, <1>3

(* ImagesLast: a restore is failed for want of an image only when the      *)
(* artifact changed, the tier it reads is not pinned, or the staged copy   *)
(* was replaced in part by a pre-warm from a stale copy of the object.     *)
THEOREM ImagesKept == Spec => ImagesLast
<1>1. Init => Typed /\ StoreInv /\ PoolInv /\ StageInv /\ TierInv
    BY InitTyped, InitStore, InitPool, InitStage DEF Init, TierInv
<1>2. Typed /\ StoreInv /\ PoolInv /\ StageInv /\ TierInv /\ [Next]_vars
        => Typed' /\ StoreInv' /\ PoolInv' /\ StageInv' /\ TierInv'
    BY StepTyped, StoreKept, PoolKept, StageKept, TierKept
<1>3. Typed /\ StoreInv /\ StageInv /\ TierInv /\ [Next]_vars => [MissingImageExplained]_vars
    BY ImageExplained
<1> QED BY <1>1, <1>2, <1>3, PTL DEF Spec, ImagesLast
=============================================================================
