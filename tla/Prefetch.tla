------------------------------ MODULE Prefetch ------------------------------
(***************************************************************************)
(* artifact.Prefetch: a feeder that hands the files of a MANIFEST to a     *)
(* pool of workers over an unbuffered channel.  A worker that fails        *)
(* records the first error, cancels the context and leaves, so the feeder  *)
(* must not wait for a worker that is not there.                           *)
(***************************************************************************)
EXTENDS ArtifactStore

CONSTANT Workers    \* at most opts.Parallelism of them are started

ASSUME WorkersAssumption == IsFiniteSet(Workers) /\ Workers # {}

VARIABLES
    pool,    \* the feeder, what the workers share, and its call's result
    work,    \* each worker, the file it was handed, was that whole when opened
    staged,  \* the copies in opts.StageDir
    tier     \* the copies fuse-client keeps on the node's NVMe device

poolVars == <<pool, work, staged, tier>>

(***************************************************************************)
(* err says that firstErr is set, cancelled that the inner context is      *)
(* done, got are the files fetched at the size the MANIFEST gives them.    *)
(***************************************************************************)
PoolType == [pc : {"idle", "feeding", "closed", "returned"}, staging : BOOLEAN,
             todo : SUBSET Files, err : BOOLEAN, cancelled : BOOLEAN, got : SUBSET Files]
NoPool == [pc |-> "idle", staging |-> FALSE, todo |-> {}, err |-> FALSE,
           cancelled |-> FALSE, got |-> {}]

WorkType == [Workers -> [pc : {"gone", "ready", "handed", "copying"},
                         file : Files \cup {NoFile}, whole : BOOLEAN]]
Gone == [pc |-> "gone", file |-> NoFile, whole |-> FALSE]
Ready == [pc |-> "ready", file |-> NoFile, whole |-> FALSE]

PoolInit ==
    /\ pool = NoPool
    /\ work = [w \in Workers |-> Gone]
    /\ staged = [f \in Files |-> "absent"]
    /\ tier = [f \in Files |-> "absent"]

\* Workers are alike: any n of them.
TheFirst(n) == CHOOSE s \in SUBSET Workers : Cardinality(s) = n

\* At least one, no more than opts.Parallelism, no more than there are files.
PoolStarts(staging) ==
    /\ pool' = [NoPool EXCEPT !.pc = "feeding", !.staging = staging, !.todo = Files]
    /\ \E n \in 1..Cardinality(Workers) :
        /\ n <= Cardinality(Files)
        /\ work' = [w \in Workers |-> IF w \in TheFirst(n) THEN Ready ELSE Gone]
    /\ UNCHANGED <<staged, tier>>

-----------------------------------------------------------------------------
\* select: a worker receives, and then the context is looked at.
FeedSends(w) ==
    /\ pool.pc = "feeding"
    /\ work[w].pc = "ready"
    /\ LET f == FirstOf(pool.todo) IN
        /\ work' = [work EXCEPT ![w] = [Ready EXCEPT !.pc = "handed", !.file = f]]
        /\ pool' = [pool EXCEPT !.todo = @ \ {f},
                       !.pc = IF pool.cancelled \/ pool.todo = {f} THEN "closed" ELSE @]
    /\ UNCHANGED <<staged, tier>>

\* Bug: the feeder only sends, it does not look at the context.
FeedIgnoresContext == FALSE

\* select: the context is done, with workers left or without.
FeedBreaks ==
    /\ pool.pc = "feeding"
    /\ pool.cancelled
    /\ pool' = [pool EXCEPT !.pc = "closed"]
    /\ UNCHANGED <<work, staged, tier>>

\* The context of the caller ends: the agent is shutting down.
CallerCancels ==
    /\ pool.pc \in {"feeding", "closed"}
    /\ ~pool.cancelled
    /\ pool' = [pool EXCEPT !.cancelled = TRUE]
    /\ UNCHANGED <<work, staged, tier>>

\* fetchOne opens the source and, staging, replaces the staged file by an empty one.
WorkerOpens(w) ==
    /\ work[w].pc = "handed"
    /\ store[work[w].file] # "absent"
    /\ work' = [work EXCEPT ![w].pc = "copying",
                            ![w].whole = (store[work[w].file] = "whole")]
    /\ staged' = IF pool.staging THEN [staged EXCEPT ![work[w].file] = "part"] ELSE staged
    /\ UNCHANGED <<pool, tier>>

\* It copied as many bytes as the MANIFEST says, of a file that was whole when it
\* was opened - and may be unlinked by now - or became so; fuse-client may keep them.
WorkerFetches(w) ==
    /\ work[w].pc = "copying"
    /\ work[w].whole \/ store[work[w].file] = "whole"
    /\ work' = [work EXCEPT ![w] = Ready]
    /\ pool' = [pool EXCEPT !.got = @ \cup {work[w].file}]
    /\ staged' = IF pool.staging THEN [staged EXCEPT ![work[w].file] = "whole"] ELSE staged
    /\ tier' \in {tier, [tier EXCEPT ![work[w].file] = "whole"]}

\* The file is missing, short or unreadable: fail, cancel, return.
WorkerFails(w) ==
    /\ work[w].pc \in {"handed", "copying"}
    /\ work' = [work EXCEPT ![w] = Gone]
    /\ pool' = [pool EXCEPT !.err = TRUE, !.cancelled = TRUE]
    /\ UNCHANGED <<staged, tier>>

\* The channel is closed, and being unbuffered it is empty.
WorkerLeaves(w) ==
    /\ pool.pc = "closed"
    /\ work[w].pc = "ready"
    /\ work' = [work EXCEPT ![w] = Gone]
    /\ UNCHANGED <<pool, staged, tier>>

\* Bug: Prefetch does not wait for its workers.
PoolReturnsAtOnce ==
    /\ pool.pc = "closed"
    /\ pool' = [pool EXCEPT !.pc = "returned"]
    /\ UNCHANGED <<work, staged, tier>>

\* wg.Wait
PoolReturns ==
    /\ pool.pc = "closed"
    /\ \A w \in Workers : work[w].pc = "gone"
    /\ pool' = [pool EXCEPT !.pc = "returned"]
    /\ UNCHANGED <<work, staged, tier>>

\* Neither firstErr nor ctx.Err.
Fetched == pool.pc = "returned" /\ ~pool.err /\ ~pool.cancelled

\* The process dies with its goroutines.
PoolDies ==
    /\ pool' = NoPool
    /\ work' = [w \in Workers |-> Gone]
    /\ UNCHANGED <<staged, tier>>

WorkerNext(w) ==
    \/ FeedSends(w)
    \/ WorkerOpens(w) \/ WorkerFetches(w) \/ WorkerFails(w) \/ WorkerLeaves(w)

PoolNext ==
    \/ FeedBreaks \/ CallerCancels \/ PoolReturns
    \/ \E w \in Workers : WorkerNext(w)

-----------------------------------------------------------------------------
PoolTypeOK ==
    /\ pool \in PoolType
    /\ work \in WorkType
    /\ staged \in [Files -> Copy]
    /\ tier \in [Files -> Copy]

(***************************************************************************)
(* Prefetch reports success only when every file of the MANIFEST was       *)
(* fetched at its size, whichever workers left, in whatever order, and     *)
(* although the feeder stops feeding when the context ends.                *)
(***************************************************************************)
FetchedAll == Fetched => pool.got = Files

(***************************************************************************)
(* A Prefetch that started returns, however many of its workers left while *)
(* the feeder had files to send; unless the process dies.                  *)
(***************************************************************************)
PrefetchEnds == (pool.pc \in {"feeding", "closed"}) ~> (pool.pc \in {"idle", "returned"})
=============================================================================
