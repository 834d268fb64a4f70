# pod-snapshotter in TLA+

pod-snapshotter checkpoints a running pod's container (CRIU under runc, GPU
memory included) into an artifact and restores such artifacts into new pods. It
is a set of Kubernetes controllers in two processes - a manager, one per
cluster, and an agent on every node - that never call each other: they meet in
the status of API objects, in annotations of nodes, in files on the node and in
an artifact store. This directory models the three kinds of object they drive -
PodSnapshot, PodRestore, SnapshotBuild -, two things that cut across them, the
files of an artifact on their way into a restore and the compatibility tuple of
nodes, and says what remains.

Paths below are relative to `src/`.

## 1. Inventory

| Component | Source | State it keeps | Operations | What makes it correct |
|---|---|---|---|---|
| PodSnapshot controller (manager) | `internal/controller/podsnapshot_controller.go` | `status`, the finalizer, the in-memory `inflight` map, a goroutine per kubelet call | `Reconcile` by phase, `reconcilePending`, `reconcileQuiescing`, `reconcileCheckpointing` with `agentCheckpoints`, `reconcileDelete` | one result per snapshot is recorded, late results are dropped, a snapshot that started ends, deletion ends |
| Quiesce reconciler (agent) | `internal/agent/quiesce_controller.go` | none | polls the shim's presence file | nothing is dumped before its shim parked it |
| Checkpoint reconciler (agent) | `internal/agent/checkpoint_controller.go` | `inflight`, the artifact directory, CRIU's work directory | `checkpoint`, `complete`, `fail`, `retry`, `clearArtifactDir` | one dump per container; Completed implies a committed artifact; every failure is recorded |
| Upload reconciler (agent) | `internal/agent/upload_controller.go` | the kubelet's tar, the artifact | claim, `upload`, `retryUpload`, `copyAtomic` | repeating it is harmless; it publishes the tar the status names |
| Artifact publication | `internal/artifact/{publish,expand,manifest}.go` | images and MANIFEST | `PublishDir`, `ExpandTarToDir`, `WriteManifestDir`, `RenamePublish` | a MANIFEST means every image is there |
| Artifact store | `internal/artifact/store.go` | - | `Stat`, `Delete` | un-commit before removal |
| Kubelet client | `internal/kubelet/client.go` | - | `Checkpoint` | a path is returned only for a tar that exists |
| Prerequisites, capabilities | `internal/agent/prereq.go` | node annotations and label | `checkAndPublish` | what is advertised is true of the running agent |
| Shim | `hack/snapshot-shim.py` | presence files | `announce_ready`, `wait_for_resume` | parks before ready, leaves only when resumed |
| PodRestore controller (manager) | `internal/controller/podrestore_controller.go`, `placeholder_pod.go` | `status`, finalizer, placeholder pod | Pending, Preparing, delete, timeout | never adopts another's pod; tears down what ran |
| Restore reconciler (agent) | `internal/agent/restore_controller.go` | staged images, pin, restored container | `prewarm`, `restore`, `checkAlive`, `teardown` | at most one restored container per object; none outlives it |
| SnapshotBuild controller (manager) | `internal/controller/snapshotbuild_controller.go`, `build_pod.go` | `status`, build pod, PodSnapshot | Pending, Building, Snapshotting, delete | its result is its own snapshot's |
| Prefetch | `internal/artifact/prefetch.go` | worker pool, job channel | `Prefetch`, `fetchOne` | ends; succeeds only when every file was fetched |
| NVMe cache | `internal/artifact/nvmecache.go` | - | `Resolve` | used only when complete |
| URIs | `internal/artifact/uri.go` | - | `Parse`, `DefaultURI`, `CheckLocalRoot` | distinct snapshots, distinct places |
| Compatibility | `api/v1alpha1/compatibility.go`, `podrestore_types.go`, and its users in `prereq.go`, `snapshotbuild_controller.go`, `podrestore_controller.go` | a node's annotation and hash label | `Matches`, `NodeHash`, `ParseCompatibility`, publishing, observing, checking | label and annotation never contradict each other, and catch up with the machine |
| runc, bundle, spec, shm, CRI, fuse clients | `internal/restore/`, `internal/cri/`, `internal/fuseclient/` | files | transformations and external calls | their failures are the callers' branches |

**How they interact.** The manager writes `status.phase` up to Checkpointing;
the quiesce reconciler moves Quiescing on; in Checkpointing either the manager's
goroutine calls the kubelet, or the agent's checkpoint reconciler runs runc; in
Checkpointed and Uploading the upload reconciler owns the object. Each status
write is optimistic and each read comes from an informer cache that lags. Three
things are shared without such a guard: the container, the artifact's place (a
function of namespace and name by default), and the tar on the node.

**What is hard.** Which process acts is decided twice, from different facts. A
dump cannot be repeated, for it takes the container. Results arrive after the
object moved on, after it was deleted, or after another of its name was created.
A step has several effects - publish, remove the tar, write the status - and a
process can stop between any two. Calls time out while their effect still
happens. `inflight` is lost in a restart.

## 2. Modules

```
SnapshotLifecycle        what a PodSnapshot promises its readers (abstract)
SnapshotState            state, the optimistic write, types
  SnapshotManager        actions of the manager's PodSnapshot reconciler
  SnapshotAgent          actions of the agent's quiesce, checkpoint, upload reconcilers
    Snapshot             both composed with user, pods, shim, informers; properties;
                         the refinement mapping to SnapshotLifecycle
      MCSnapshot         instances for TLC
      SnapshotProofs     TypeCorrect, QuiescedBeforeDump, DumpsOfPods
        KubeletProofs    KubeletForward
          LifecycleProofs  LifecycleKept
            CommitProofs   LiveDumpsNotTorn,
                           CommittedIsWhole, RecordedTarPublished (kubelet path),
                           AgentCommitsWhole, CompletedCommitted (agent path)

RestoreLifecycle         what a PodRestore promises its readers (abstract)
RestoreState             state, the optimistic write, types
  RestoreManager         actions of the manager's PodRestore reconciler
  RestoreAgent           actions of the agent's restore reconciler
    Restore              both composed with user, artifact, pod, informers; properties;
                         the refinement mapping to RestoreLifecycle
      MCRestore          instances for TLC
      RestoreProofs      RestoreInv, the four theorems that follow from it,
                         RestoreLifecycleKept

Build                    the manager's SnapshotBuild reconciler with user, pod,
                         PodSnapshot, informers; properties
  MCBuild                instance for TLC
  BuildProofs            BuildInv, PublishedInv and five theorems

ArtifactStore            a directory artifact file by file: publication, Store.Delete
  Prefetch               the worker pool that fetches it
    NodeRestore          one restore on its node: pre-warm, the three copies, CRIU,
                         the resume marker, restarts of the agent
      MCNodeRestore      instance for TLC
      NodeRestoreProofs  five theorems

Compatibility            annotation and label of nodes, the tuple of a build, the
                         selectors and checks of a restore
  MCCompatibility        instance for TLC
  CompatibilityProofs    three theorems
```

The first three families describe one object *name* each, which successive
objects (`life` = 1, 2, ...) may carry. They meet in two places: the artifact,
which `Restore` reduces to pending, committed, deleted, and the PodSnapshot a
build drives, which `Build` reduces to working, completed, failed and a worker
that may outlive it. `NodeRestore`
is the inside of two steps of `Restore`, its pre-warm and its restore, file by
file; `Compatibility` is the inside of the checks that `Restore` reduces to
`spec.fits`.

### PodSnapshot

| Variable | In the code |
|---|---|
| `obj` | the PodSnapshot in the API server: spec, `status.phase`, `.message` (only the values some code compares, or that tell failures apart), `.kubeletCheckpointPath` (`tar`), `.artifact`, deletion timestamp, finalizer |
| `cache[p]` | what process p's informer last delivered; every `r.Get` reads it |
| `pods`, `parked`, `expired` | each life's pod, whether its shim wrote ready-for-checkpoint, whether the quiesce deadline passed |
| `node` | whether the agent implements `agent-checkpoint`, and whether the annotation says so |
| `dir`, `tarball`, `tars` | the directory artifact - the dump its MANIFEST was written for, the dumps whose images it holds whole or in part, those that lost an image to a deletion after their writing began (`torn`) -, the tar artifact, the kubelet's tars on the node |
| `info` | history, read by no action's guard but that a dump is new: which pod a dump is of and whether it was parked when the dump began |
| `call` | the goroutine of `reconcileCheckpointing` and the `inflight` entry |
| `del` | a deletion by the manager between its steps: the MANIFEST read, the artifact un-committed, the files it listed removed one by one, and only then the finalizer |
| `ckpt`, `upl` | the workers of the checkpoint and upload reconcilers between their externally visible steps |

Every function of the code is one action, or one per step when other processes
can act between its effects: `checkpoint` is resolve, clear and start, dump, publish,
report; `upload` is start (un-commit), publish, remove the tar, report;
`Store.Delete` is read, un-commit, one step per dump whose files it meets, last
file. It takes no lock, and the agent's workers write there meanwhile. A
reconcile that does nothing but one status write is one action from the cached
copy `c`; `Write(c, new)` takes effect only when `c` is the stored object, which
is what a stale `resourceVersion` prevents in the code.

Abstractions:
- The copy is compared by content instead of by `resourceVersion`. Only the
  message can return to an earlier value, and then the write a re-read would
  lead to is the same one.
- `pods[l] = "starting"` stands both for a pod that is not Running and for a
  node whose prerequisites are not met: both make `reconcilePending` wait.
- `spec.valid` is false for a container, URI or quiesce annotation that cannot
  be resolved; `spec.local` is false where `CheckLocalRoot` or `MkdirAll` fails.
  A node object can always be read.
- `NodeHasNoAddress` is one action although the fallback note may be written
  just before the failure.
- A dump is whole when it went into an empty directory. `PublishDir`'s own
  checks (page images, magic numbers, digests) can only make it fail, which
  `CkptPublishFails` allows at any time.
- A runc that a stopped agent was waiting for takes the container or does not.
- All dumps use the same file names, as far as a deletion is concerned: a name
  on its list may by now be a file of another dump (`RemovesFile`). A dump that
  is in `torn` is never whole again, whatever its writer still adds.
- Images of a *failed* dump left in the directory stay there until the next
  attempt clears or overwrites them, as in the code.

**What it promises.** `SnapshotLifecycle` has four variables: the stage the
status shows, the dump it names, the dumps begun so far, and the dumps committed
at its URI. It knows no reconciler, cache, worker or restart. `Snapshot`
implements it, on the kubelet path, under the mapping `stage <- Stage, dump <-
Named, taken <- Begun, published <- Found` at the end of that module: New and
Pending are both "requested", a dump names itself through
`status.kubeletCheckpointPath`, `Begun` are the dumps the history knows, `Found`
is what has a MANIFEST or is the tar at the URI. An object that is being deleted
is "leaving" and promises nothing: its artifact goes before it does, and it may
still be reported Completed meanwhile (section 5). On the agent path the status
names no dump, and finding 3 is a promise broken there.

### PodRestore

| Variable | In the code |
|---|---|
| `rst` | the PodRestore in the API server: spec, `status.phase`, whether `targetNode` (`target`), `podName` (`named`) and `restoredContainerID` (`container`) are set, the owner of the pod `podUID` names (`pod`), the conditions ArtifactWarmed and TornDown, deletion timestamp, finalizer |
| `cache[p]` | what process p's informer last delivered of it |
| `keeper`, `seen` | the pod of the placeholder's name with the object that controls it, and the manager's cached view of it |
| `art` | whether the artifact's MANIFEST is there; it may be deleted under a restore |
| `late` | lives whose `status.timeout` has passed |
| `run` | the runc container of each life, whose id `snap-<UID>` no two objects share |
| `pins`, `stage` | what the agent keeps on the node: pin sessions, staged image directories |
| `wrk` | the restore reconciler's worker between its externally visible steps |

The agent's long functions are split where others can act: `prewarm` is start,
fetch, report; `restore` is start, runc, report; `teardown` is kill and unpin,
acknowledge. A report writes from the copy the reconcile *started* from, so
whatever happened while runc ran makes it a conflict.

Abstractions:
- There is one node and one agent, and the controller's one worker; a pinned or
  scheduled node is this one, so `targetNode` is a boolean.
- A write that changes only the message changes nothing here, since nothing
  compares it. A last write that is lost for any other reason leaves what a
  conflict leaves: the effect without the report.
- `spec.valid` is false where the source, URI or template cannot be resolved,
  `spec.fits` where the node's compatibility labels contradict the artifact's;
  `spec.fuse` says that the manager can ask for the artifact and the agent pins it.
- Staging concerns directory artifacts and is a constant, an agent flag.
- `runc restore` returns, with success or not, and may fail after the container
  came up, when its pid file cannot be read (internal/restore/runc.go:198-205).
- Removing the placeholder pod kills its cgroup, in which the restored
  processes run. This is the kubelet's doing and not the repository's.

**What it promises.** `RestoreLifecycle` has four variables: the stage the
status shows, whether the artifact was warmed, what the one runc container of
the object is doing, and whether the status names it. `Restore` implements it on
every path, under the mapping `stage <- Stage, container <- Container` at its
end: `Container` is the entry of `run` for the object that has the name now, and
"removed" is a recorded container that runc no longer knows. Two steps are there
because the code takes them: a container may start when the object has failed or
is leaving already, for runc may still be at work then, and a restore may be
reported failed although its container came up (`FailsStarted`). The containers
finding 4 is about are never recorded, so the promise that nothing recorded
outlives its object stands beside it.

### SnapshotBuild

| Variable | In the code |
|---|---|
| `bld`, `cache` | the SnapshotBuild - spec, `status.phase`, the revision whose artifact `status.artifact` names (`place`), and, as history, whose PodSnapshot was mirrored (`of`) - and the manager's copy |
| `pod`, `podSeen` | the pod `<name>-build` with its owner, and the manager's copy |
| `snap`, `snapSeen` | the PodSnapshot `<name>-snap` with its owner and the place it publishes at, and the manager's copy |
| `art` | the places with a committed artifact |
| `stray` | what a worker that no PodSnapshot waits for does at each place: its PodSnapshot was deleted at work, or it uploads once more a tar that could not be removed |
| `late` | lives whose timeout has passed |

The controller has one worker that remembers nothing and never blocks, so each
branch of a reconcile is one action; what it creates or deletes before its
status write happens even if that write is refused or never made (`MayWrite`).
A restart of the manager is such a write that is never made, followed by
informers that are up to date; it is no action of its own. The three copies lag
independently: they are three informers. An informer skips to the current
state; what it would deliver in between is left out.

The place of an artifact is `spec.revision`, which is the user's choice: nothing
keeps two objects of the name from having it in common, and in the run all do.
A PodSnapshot may complete, fail or be deleted at any time; until it completes
it un-commits what is published at its place, and completing publishes or finds
an artifact there.

Abstractions: the manager reaches the artifact store, and a removal is one step,
for only its un-commit matters to who may restore the build (what a removal does
to files written meanwhile is in `Snapshot` and `ArtifactStore`); one that fails
leaves the object and is repeated. Builds of *other* names that have the
revision in common are left out; the compatibility tuple is in `Compatibility`.

### The artifact on its node

| Variable | In the code |
|---|---|
| `store`, `manifest` | the files at the artifact's place and its MANIFEST |
| `wr`, `del` | a publication (`ExpandTarToDir`, what `writeFile` does per file) and `Store.Delete` between their steps; they are two processes and share no lock |
| `raced` | history: this publication began inside a `Delete` that had read the MANIFEST before it |
| `uploads`, `deletes`, `restarts` | counters their bounds apply to |
| `pool`, `work` | `Prefetch`: feeder, first error, cancellation, files fetched; each worker with the file it has |
| `staged`, `stageManifest` | the copy under `StageImageLocal` and its MANIFEST |
| `tier`, `pin` | what fuse-client keeps on NVMe, and whether the prefix is pinned |
| `mode` | the agent's flags: staging, a `Pinner`, an `NVMeCacheRoot` |
| `phase`, `phaseSeen` | `status.phase`, and what the agent's informer last delivered of it: every reconcile begins from the second |
| `agt` | the restore reconciler's worker: where it is, the copy of the images it reads (`src`), the files of it seen |
| `marker`, `proc` | `restore-complete` in the pod's rendezvous directory; the restored process, parked in its shim |
| `missed`, `calm`, `restaged` | history: the last restore failed for want of an image; the artifact is as `restore` found it; a pre-warm begun from a stale copy, after the one the restore follows, is replacing the staged files or never finished that |

Abstractions:
- A file is absent, partly there or whole; its bytes, size and digest are not
  modelled beyond that. `fetchOne` succeeds on a file that was whole when it was
  opened, which may have been unlinked since, or has become so.
- Any status write of the worker may conflict, and does when the phase has moved
  on under its copy (`Reports`); a conflict leaves what was done without the
  report, and the reconcile begins again. `StaleModes` bounds in which
  configurations of the agent a *pre-warm* may begin from a copy that is behind:
  in the run the one that stages, since only there does a repeated pre-warm
  replace anything; on the tier it does what any other reader does at any time.
  The theorems do not restrict it. The manager's timeout, teardown and deletion
  are the subject of `Restore`.
- The dump was taken of a workload that had parked, and the pod is there when
  the pre-warm ends.
- The tier is filled, evicted and invalidated by fuse-client and by its other
  readers at any time, as long as the restore is not finished; only an unlink or
  a rewrite takes a pinned file away. fuse-client is external.
- A restart is taken where it leaves something behind: staged files, or a marker
  and a `runc` that may still bring the process up.

### Compatibility

| Variable | In the code |
|---|---|
| `machine` | what each node really is: GPU, driver and CRIU |
| `node`, `agentSeen`, `managerSeen` | the Node's annotation and hash label, the agent's cached copy of its own, the manager's |
| `probe` | what `checkAndPublish` has determined and is about to patch |
| `bld` | a SnapshotBuild: the tuple the user pinned, and the one in its status |
| `rst` | a PodRestore with a `buildRef`: the tuple it wants, the node it is pinned to or its pod got, the annotation there at that moment |
| `changes`, `blinds`, `edits` | counters their bounds apply to |

Abstractions: an annotation is the set of fields it spells out; a digest of a
tuple is the tuple itself, that is, no two tuples share a hash; GPU and driver
are reported by one tool and miss together. An agent's cache has the agent's own
patch by its next check, minutes later, and may miss what others wrote.

## 3. Runs

`CHECK_DEADLOCK FALSE` everywhere: once the user stops creating objects and the
last one is finished the system is meant to stop.

| Run | Configuration | Checks | Shows |
|---|---|---|---|
| `snapshot_agent` | agent advertises; quiesced and not, Retain and Delete, unusable place, tar artifact; 2 dumps, 1 object, 1 restart | `TypeOK`, `DumpedParked`, `CommittedWhole`, `CompletedIsCommitted` | the agent path, and the kubelet fallback of a tar, with every interleaving of both processes, deletions file by file |
| `snapshot_kubelet` | agent old, may be upgraded by its restart; both formats, quiesced, invalid, unusable place; 2 dumps, 1 object, 1 restart | `CommittedWhole`, `PublishesRecordedTar`, `KubeletPhasesForward`, `KeepsLifecycle` | repeated kubelet calls and uploads; that the whole implements `SnapshotLifecycle` |
| `snapshot_ends` | two kubelet specs - a directory that goes with its object, a quiesced tar that stays -, under `FairSpec`; 1 dump, 1 restart, no symmetry | `SnapshotEnds`, `DeletionEnds` | the way to an end, from Quiescing to Completed or Failed, and out of deletion |
| `agent_tar` | agent spec, tar artifact | `TarFallsBack`, violated | finding 1 |
| `upload_crash` | kubelet spec, tar artifact, 1 restart | `CommittedNeverFails`, violated | finding 2 |
| `recreated_name` | default spec, 2 objects of one name, no restart | `ReentryFindsOwn`, violated | finding 3 |
| `restore_names` | 2 objects of one name, one warmed on a pinned node, one the scheduler places on a node that does not fit; no restart | `OwnPodOnly`, `RestoreFinal`, `RecordedContainerKilled`, `KeepsRestoreLifecycle` | what a late agent, a stale cache and a leftover pod can do to the next object; that the whole implements `RestoreLifecycle` |
| `restore_ends` | scheduled, invalid and misplaced specs under `FairSpec`; 1 object, 1 restart | `TypeOK`, `RestoreEnds`, `RestoreDeletionEnds`, `DeathNoticed` | the way to an end, out of deletion, and the health check |
| `restore_leaks` | 1 pinned object, fuse artifact, no restart | `TornDownBeforeGone`, violated | finding 4 |
| `build` | one build that takes its artifact with it, one that keeps pod and artifact, an invalid one, all of one revision, under `FairSpec`; 2 objects of one name | `TypeOK`, `OwnBuildPod`, `GPUFreed`, `ResultPublished`, `ResultKept`, `BuildEnds`, `BuildDeletionEnds` | what leftovers, stale copies and late workers can do to the next build at the same place, a repeated last reconcile, and the way to an end |
| `node_restore` | 2 files, 2 workers; an agent that stages, one that pins and uses the tier; stale copies where it stages; 1 upload, 1 deletion, 1 restart, under `FairSpec` | `TypeOK`, `FilesCommitted`, `FetchedAll`, `StagedReadWhole`, `ImagesLast`, `PrefetchEnds`, `RestoredResumes` | a restore against everything that happens to its images, its own repeated pre-warms included, a pool whose workers leave, and the resume handshake |
| `compatibility` | 1 node; two drivers and a machine without a GPU; nothing or the driver pinned; 1 change, 2 blind checks, 1 edit, under `FairSpec` | `TypeOK`, `LabelTrusted`, `SelectedNotRejected`, `LabelCatchesUp` | label, annotation and machine changing at different times, seen through two caches |

**Bounds.** `Dump` bounds the checkpoints ever attempted. Two are what it takes
to confuse one with another: a retried or repeated dump, a lost answer followed
by a second call. `MaxCrashes` bounds restarts of both processes together; one
falls between any two steps of either. `MaxLives` bounds the objects of the
name; one suffices for everything but the confusion of two objects, which
`recreated_name`, `restore_names` and `build` have two for: a third would only be to the
second what the second is to the first. `restore_names` has no restart, for its
2.8 million states already contain the lost reports a restart would add, as
conflicts; the theorems cover restarts. `snapshot_ends` uses one dump and two specs: a second dump adds no new way to
wait, the specs differ in every step that can make one wait (quiescing, the
un-commit of a deletion, the format), and temporal checking is the dearest.
`build` has one place, for sharing it is what could go wrong: a place of its own
is out of the other build's reach, and the theorems are about any number.
`MaxUploads`, `MaxDeletes` and `MaxRestarts` of `node_restore` are 1 each on top
of a publication that is already complete: that is enough for a publication to
replace another under a reader, for a deletion to meet either, and for a
pre-warm to be repeated over a staged copy. Two files are what it takes to have
one fetched and the other missing, and two workers to have one leave while the
other works. `compatibility` has one node, for nodes do not interact: the
theorems are about any number. One change of the machine, two checks that miss
something and one edit by others put label, annotation, machine and both caches
in every relation they can have.

**Fairness of the snapshot** (`Fairness` in `Snapshot`). Informers deliver; a reconcile that
can act is retried until it does (controller-runtime requeues errors, and each
waiting branch sets `RequeueAfter`); deadlines pass; a deletion that has
un-committed gets through its list. Strong fairness is assumed
of five outcomes that are only intermittently possible: the kubelet answers
within the timeout it was given, which ends 30 s before the goroutine's context
does (podsnapshot_controller.go:336); the answer is then recorded; an upload
retried for ever succeeds once; so does removing a MANIFEST; and a *running* container is eventually
resolved. Nothing is assumed of the user, the pod, the shim or crashes; in
particular the pod may die at any time and the shim may never park.

**Fairness of the restore** (`Fairness` in `Restore`). Weak fairness only:
informers deliver, the manager's and the agent's reconciles go on while they
have something to do, the timeout passes. Nothing is assumed of the user, the
artifact, the placeholder pod, the restored process or restarts: a pod that
never starts and an artifact that never comes are what the timeout is for.

**Fairness of the build** (`Fairness` in `Build`). The manager's informer of
builds delivers, the timeout passes, the reconcile that times a build out is
made, and the last reconcile of a deletion, retried while its update is refused.
No other reconcile is assumed, and nothing of the user, the pod, the PodSnapshot,
late workers and the other two informers.

**Fairness on the node.** `NodeRestore` assumes that goroutines of a `Prefetch`
run and that their reads end (`WF` of `FetchGoes`) and that the shim polls (`WF`
of `ShimResumes`); nothing of uploads, deletions, the tier, the reconciles or
restarts. `Compatibility` assumes per node that the agent's ticker, its patch
and its informer go on; that tools answer and patches succeed at last is the
bound `MaxBlind`, which `LabelCatchesUp` names as its condition.

## 4. Properties

- `DumpedParked` - quiesce before dump, across the manager and two of the
  agent's reconcilers, and for both checkpointers, whatever copies they act on.
- `CommittedWhole` - a MANIFEST is a commit marker: the images of the dump it
  was written for are all there, although directories are reused between
  attempts, expanded twice, un-committed by deletion and half removed. The
  exception is real and named: a `Store.Delete` that goes on removing files under
  a worker tears a dump (`torn`), which is then committed half; the property says
  that such a dump is never one that a *live* object may call its own (`Owned`):
  of its pod, or named in its status.
- `CompletedIsCommitted` - Completed means the artifact is there. Checked on the
  agent's run only: on the kubelet path it does not hold when `os.Remove` of the tar
  fails and a stale cache repeats the upload, because expansion un-commits first
  (upload_controller.go:158, expand.go:39). `PublishesRecordedTar` says what does
  hold there.
- `PublishesRecordedTar` - with several tars on the node, the artifact is the
  one the status names.
- `KubeletPhasesForward` - no stale write re-opens a snapshot.
- `KeepsLifecycle` - the refinement: on the kubelet path a snapshot names a dump
  that was taken, completes only with that very dump committed, nothing else is
  published under a completed one, and no step skips or repeats a stage, whatever
  the two processes, their stale copies and their restarts do.
- `SnapshotEnds`, `DeletionEnds` - liveness.
- `OwnPodOnly` - the placeholder pod's name is the PodRestore's, so a pod an
  earlier object left may still be there; the agent restores into the pod the
  status records, and that is never the earlier one's.
- `RestoreFinal` - the manager's timeout fires while the agent is inside runc;
  the agent's later report must not re-open what has failed.
- `RecordedContainerKilled` - the finalizer goes only after the agent killed a
  recorded container, and nothing started it in between. It is an action
  property, stated of the step that removes the object; `TornDownBeforeGone`
  is what one would like to say instead, of every container, and is finding 4.
- `KeepsRestoreLifecycle` - the refinement: one object starts at most one
  container, not before it is Restoring; Running is said of one that was started;
  the artifact is warmed at most once. The first rests on three things at once:
  runc refuses an id in use, a report from a stale copy is a conflict, and once
  teardown has killed a container no copy is left that could restore it again.
- `RestoreEnds`, `RestoreDeletionEnds`, `DeathNoticed` - liveness. The last one
  is why `checkAlive` exists: the placeholder pod stays Running when the
  container beside it dies.
- `OwnBuildPod` - from Building on the pod is found by its name only, the dump
  included; that it is the build's own rests on one test in Pending, made on a
  stale copy.
- `GPUFreed` - a completed build has deleted its pod, and no copy of the object
  from before makes it again.
- `ResultKept` - the pod is deleted before Completed is written; repeating that
  reconcile does not fail the build.
- `ResultPublished` - a completed build's own artifact is committed until the
  build is deleted, although an earlier build had the same place, its deletion is
  repeated from stale copies, and its dump may still be at work. The one thing
  that may un-commit it is a worker no PodSnapshot waits for, which publishes
  again.
- `BuildEnds`, `BuildDeletionEnds` - liveness.
- `FilesCommitted` - `CommittedWhole` file by file, with a deletion of another
  process in between; the one exception it names is in section 5.
- `FetchedAll` - the feeder stops feeding when the context ends and workers leave
  one by one; success still means every file.
- `PrefetchEnds` - the feeder sends on an unbuffered channel to workers that may
  all have left.
- `StagedReadWhole` - the staging directory is reused by every attempt, and its
  MANIFEST outlives the attempt that wrote it. A pre-warm may be interrupted,
  fail, and fail to report that; what a restore reads is whole all the same,
  unless a pre-warm was repeated from a stale copy *after* the one the restore
  follows (`restaged`), which is a defect of the code (section 5).
- `ImagesLast` - between the choice of a copy and CRIU's last open the artifact
  may be deleted, replaced or evicted; a restore fails for a missing image only
  then, never from a pinned tier it has checked, and from a staged copy only when
  it was `restaged`.
- `RestoredResumes` - the marker is there before the process is, and stays.
- `LabelTrusted` - label and annotation are patched by difference to a cached
  copy, and an empty hash is no reason to remove the label.
- `SelectedNotRejected` - the scheduler goes by the hash label, the manager by
  the annotation; what the one accepts the other rejects only when it looks at
  another annotation than the node had.
- `LabelCatchesUp` - liveness: a check that failed or was overtaken is made good.

## 5. Findings

1. *Tar with checkpointer agent* (`agent_tar`). The API documentation promises a
   silent fallback to the kubelet; the agent, whose `owns` does not ask for the
   format, takes the snapshot as well and fails it.
2. *Upload is not idempotent* (`upload_crash`). The tar is removed before
   Completed is written; repeating the reconcile after a crash or a conflict in
   between fails a published snapshot.
3. *A MANIFEST is not necessarily one's own* (`recreated_name`). With the default
   URI and policy Retain, a new object of an old name completes with the old
   pod's images.
4. *Teardown waits only for what was recorded* (`restore_leaks`). An object
   deleted while it is warmed, or while runc restores, loses its finalizer at
   once; its pin stays, and its container comes up without an object.

Met while modelling, and left out of the runs:

- A lost container is retried for ever on the agent path
  (`internal/agent/checkpoint_controller.go:151`): Checkpointing has no deadline
  there, so a pod that dies after the manager's check leaves the snapshot where
  it is. `SnapshotEnds` is therefore checked on the kubelet path.
- A staged MANIFEST survives re-staging (restore_controller.go:196,
  prefetch.go:149). When a pre-warm is repeated on a stale copy of an object that
  has moved on to Restoring, it replaces the files below the MANIFEST of the
  first; should it stop halfway, its `fail` conflicts and restore takes the
  half-written copy, contrary to the comment at restore_controller.go:202-203,
  by which that MANIFEST tells "a complete staging directory from an interrupted
  one". `NodeRestore` has every step of this; `restaged` marks it, and
  `StagedReadWhole` and `ImagesLast` except it.
- An upload or a dump that is at work inside a `Store.Delete` that has already
  read the MANIFEST (internal/artifact/store.go:88-110) has files removed under
  it that it has just written, and then commits. `raced` marks it in
  `NodeRestore`, and `FilesCommitted` and `ImagesLast` except it; in `Snapshot`
  the dump is `torn`. `CommittedWhole` says that it is no live object's - the
  object that was uploaded for is the one being deleted -, but its MANIFEST
  stays, and a later object of the name may take it for its own (finding 3).
- `Store.Delete` reports success when the MANIFEST cannot be read (:93), so an
  unreadable one, or the retry after a partial failure, leaves files behind.
- An object that is being deleted may still be reported Completed after its
  artifact is gone: neither the upload reconciler nor the PodRestore controller
  asks for the snapshot's deletion timestamp
  (podsnapshot_controller.go:75 is the only one that does).
- The result of a kubelet call started for a deleted object is recorded on an
  object created again under its name (podsnapshot_controller.go:341): the test
  for a superseded result looks at the phase only.
- A tuple that lacks a field matches every node that agrees with the rest, but its
  hash is that of a node which lacks the same field: the selector of the
  placeholder pod leaves out nodes that `Matches` would accept.
- A node whose tools stop answering keeps the hash of its old tuple beside an
  annotation without fields, which contradicts nothing: a machine changed
  meanwhile can take a restore that then fails in runc, which
  docs/testplan-gpu.md:48 says never happens.
- A restore pinned to a node whose label does not match its tuple's hash gets a
  pod the kubelet rejects, although the manager's check of the annotation passed.
- What the user pins in a build's compatibility wins over what the node reports,
  true or not.
- A SnapshotBuild tests whether the build pod is its own
  (snapshotbuild_controller.go:127), but not whether the PodSnapshot is (:185): a
  build of an old name can take up the previous one's, not yet collected, and
  complete with its artifact. Re-created from the same manifest, the build even
  names the same place, whose artifact the earlier build's deletion has removed
  or, if that was interrupted, is yet to. `ResultPublished` therefore speaks of
  builds that mirrored their own PodSnapshot (`of`).
- The worker of a PodSnapshot that was deleted at work is not cancelled, and
  un-commits and publishes at its place whatever is there by then
  (expand.go:39): with a revision in common, also under a later build that has
  completed. `ResultPublished` excepts the time it takes. Builds of different
  names that have a revision in common remove each other's artifacts likewise.
- The same controller fails a build whose pod or PodSnapshot "disappeared"
  (:155, :226) when the informer of that kind has merely not delivered the
  creation yet.
- A build deleted while its PodSnapshot works removes its artifact before that
  is published (:299), and nothing removes it afterwards.
- An upgraded agent that has not published its capability yet
  (checkpoint_controller.go:484 against
  podsnapshot_controller.go:232) dumps beside the kubelet, and then
  `CommittedWhole` does not hold. The runs therefore start from nodes that
  advertise exactly what they implement or run the old agent; the second may be
  upgraded on the way, but its specs ask for the kubelet.

## 6. Theorems

TLAPS proves, for every `Dump`, `Specs`, `Nodes`, `MaxLives` and `MaxCrashes`
that satisfy the named assumptions of `SnapshotState` and `Snapshot` (positive
`MaxLives`, a natural `MaxCrashes`, typed specs, and nodes that advertise only
what they implement):

- `TypeCorrect`: `Spec => []TypeOK`. `TypeOK` is inductive by itself, with one
  lemma per reconciler.
- `QuiescedBeforeDump`: `Spec => []DumpedParked`. `DumpedParked` speaks of the
  moment a dump began and is not inductive: a dump starts from a pod some worker
  remembers, which came from a cached copy, which came from the stored object.
  `ParkedInv` adds that the stored object and both caches say Checkpointing of
  an opted-in pod only when it is parked (`CopyParked`) and that the two workers
  remember only such pods (`PodParked`). Parking is never undone, so stale
  copies stay true - this is why quiescing needs no lock.
- `DumpsOfPods`: whatever names a dump - the status, a copy of it, an answer of
  the kubelet, a worker, a MANIFEST, the tar at the URI - names one that was taken
  of the pod of an object of this name (`OriginInv`). No hypothesis: it holds on
  both paths and with any number of objects. This is what finding 3 leaves of the
  promise that a re-entry of `checkpoint` finds its own dump.
- `KubeletForward`: `AllKubelet => (Spec => KubeletPhasesForward)`, where
  `AllKubelet` says that no spec asks for the agent. `ForwardInv` adds that no
  copy asks for the agent, that the checkpoint reconciler is therefore idle (its
  report writes whatever the phase), and that a running upload began from
  Uploading. Given that, each write starts from the current object, so the phase
  its guard saw is the phase it overwrites.

- `LifecycleKept`: `AllKubelet => (Spec => KeepsLifecycle)`. `Inv` adds to
  `ForwardInv` why stale copies are harmless (`LifeInv`): a copy, however old, of
  the object that is there now has no later phase than it, and from Checkpointed
  on names the same dump (`Remembers`); an accepted object has been seen by the
  manager and a claimed one by the agent, so an upload that goes on is of that
  object or of one that is gone; and what an upload published stays until a
  manager that saw the object's deletion deletes it. `BegunInv` adds that calls,
  tars and uploads refer only to dumps that were begun. Each step is then
  classified by what it does to the four abstract variables (`AdvanceMaps`,
  `PublicationMaps`, and stutters).
- `LiveDumpsNotTorn`: no dump in `torn` is `Owned` by a live object. No
  hypothesis: it holds on both paths. Its invariant, `OwnInv`, says that the
  manager deletes for an object that it saw deleted, and that a newer one that it
  has not read, or not turned to because it is still deleting, names no dump and
  has none, nor a call or a worker: it is New, or what a late report of an earlier
  worker made of it (`Unmet => Unworked`). Nothing locks the directory; that one
  worker does both a deletion and the acceptance of the next object is what
  stands for a lock.
- `CommittedIsWhole` and `RecordedTarPublished`: `CommittedWhole` and
  `PublishesRecordedTar`, both under `AllKubelet`. `CommitInv` adds that while a
  tar is expanded nothing is committed in its directory (`ExpandInv`), that a
  MANIFEST is over a whole or a torn dump (`Marked`), and takes from `Inv` that
  the upload's tar is the one a completed object names; `LiveDumpsNotTorn` does
  the rest. Every step changes the store in one of few ways (`StoreStep`).

On the agent path the same two promises are `AgentCommitsWhole`
(`[]CommittedWhole`) and `CompletedCommitted` (`[]CompletedIsCommitted`), for any
number of dumps and restarts of both processes, under

- `AgentDirs`: every spec with a directory asks for the agent, every node
  advertises that capability, and formats are not mixed under one name unless it
  is used once. Tars may be asked of either checkpointer. Without the last part a
  kubelet call for a tar object that is gone could be recorded on the directory
  object after it (section 5) and uploaded into its directory, beside the
  checkpointer;
- for the second also `NoLateDelete`: the name is used once, or no object takes
  its artifact with it. With two objects and a Delete policy it is false: a
  worker past its publication completes, whatever the phase, an object created
  after the deletion removed what it published (section 5).

The invariant has three parts, each checked by TLC on instances with one and
with two objects of the name before its proof:

- `OneWriter`: at any time either no kubelet call and no upload is on its way
  and every object seen asks for a directory (`KubeletSilent`), or the one object
  asks for a tar and the checkpoint worker has nothing to fill (`AgentSilent`).
  Nothing in the code locks the directory; this is what stands for a lock.
- `DumpInv`: from the reconcile that found no MANIFEST until its own is written
  there is none, and what `CkptPublishes` commits is the dump that went into the
  emptied directory: whole, or torn by a deletion that had read its MANIFEST
  before.
- `OwedInv`: the artifact is there when a worker is *about* to write Completed,
  for `complete` and the upload's report look at neither phase nor store; and a
  manager that saw a deletion saw it of an object that is not live any more.

The proof classifies every action once by its effects (`Effects`: on the object
and its copies, on the workers, on the directory, on what is owed; lemmas
`ManagerEffects`, `AgentEffects`, `EnvironmentEffects`), and then argues from the
effects alone.

For every `MaxLives`, `Specs`, `Staging` and `MaxCrashes` under the assumptions
of `RestoreState`, four theorems follow from one invariant, `RestoreInv`
(theorem `Invariance`), whose parts are:

- every copy, the caches' and the worker's, is of a life no later than the
  object's, and no object that the agent's cache saw deleted or gone comes back
  to life (`Copies`, from `Behind` and `DeletionKept`);
- an object without the finalizer is new and has no container (`Untouched`);
- the worker's copy has the phase its reconcile began from, a restore in flight
  began from a live object (`WorkPhase`); so a report that is not a conflict
  overwrites exactly that phase, which gives `RestoreFinal`;
- an object with TornDown set, and a worker about to set it, hold an object that
  is `Killed` (`Torn`, `WorkPhase`): its recorded container does not run, neither
  the agent's cache nor the API server holds a live copy of that life, and no
  restore of it is in flight. Without the last two a stale cache could start the
  container again after the kill, so `RecordedContainerKilled` is far from
  inductive.

The theorems: `RestoreTypeCorrect` (`[]TypeOK`), `NeverAdopts` (`[]OwnPodOnly`),
`FinishedStays` (`RestoreFinal`) and `KilledBeforeGone`
(`RecordedContainerKilled`).

`RestoreLifecycleKept` is the fifth, `Spec => KeepsRestoreLifecycle`, without a
hypothesis. Its invariant, `LifecycleInv`, adds to `RestoreInv`:

- what the agent's cached copy and a worker in flight say of the present object
  still holds in one direction (`Recalled`): a container they saw recorded is
  recorded, and an object they saw Restoring is that, Running or Failed;
- the status agrees with itself (`Coherent`): Pending is not yet warmed, Running
  names a container;
- a container that is recorded but unknown to runc is `Killed`, and lives to come
  have none (`RuncForgets`). Without it teardown could be followed by a second
  start of the same object, which `RestoreLifecycle` has no step for.

Each action is classified by its effects, on the object and on the containers,
and each combination of effects maps to one abstract step or to a stutter.

For `Build`, and every `MaxLives` and `Specs`, `BuildInv` (theorem
`BuildInvariance`) adds to the types: the lives of the pod's copy, the pod, the
object's copy and the object never decrease in this order (`Ordered`), so a pod
seen to be of the current life is; a build in Building or Snapshotting has made
the pod (`Made`); and a completed build has no copy from before Snapshotting
(`Settled`), which could create one. From it follow `BuildTypeCorrect`,
`BuildsOwnPod` and `FreesGPU`, and `KeepsResult` by cases on the step.
`PublishesResult` (`[]ResultPublished`) needs `PublishedInv` besides, for any set
of revisions, shared or not: the manager has read every build that it accepted or
that a PodSnapshot is of (`SnapsRead`); while a dump works no earlier result is
seen and the build is not complete (`DumpOver`); a deletion that the manager's
copy shows has happened (`DeletionSeen`); and a PodSnapshot of a live build that
completed, or was seen to, has its artifact unless a late worker is replacing it
(`Backed`). So a deletion repeated from a stale copy is from before the build's
PodSnapshot, and removes nothing of its.

For `NodeRestore`, and every `Files`, `Workers`, `Modes` and bound under the
assumptions of its three modules (finite, non-empty sets; natural bounds):

- `NodeRestoreTypeCorrect`: `[]TypeOK`, from types that add that a feeder has a
  file to send and a busy worker one to fetch (`Typed`).
- `ManifestCommits`: `[]FilesCommitted`, from `StoreInv`: a publication has
  un-committed what it writes, one that did not start inside a deletion is alone
  while it writes, and a deletion takes the MANIFEST away before a file.
- `PrefetchComplete`: `[]FetchedAll`, from `PoolInv`: as long as nobody cancelled
  every file is to be sent, with a worker, or fetched (`Accounted`), and in one of
  these places only (`Separate`).
- `StagedCopyWhole`: `[]StagedReadWhole`, from `StageInv`: a staged MANIFEST may
  stand over half-replaced files while the phase is PreWarming, but the pre-warm
  whose report led to Restoring has completed (`Reported`), and after that only a
  pre-warm that is `restaged` touches the copy. For any configuration and any
  `StaleModes`.
- `ImagesKept`: `ImagesLast`, from `TierInv`: while the artifact is as `restore`
  found it, it is committed; and while the prefix is pinned, what was found on
  the tier is still there; for a staged copy from `StageInv`.

For `Compatibility`, and every set of nodes, tuples and pins:
`CompatibilityTypeCorrect`; `LabelsTrusted` (`[]LabelTrusted`) from `LabelInv`,
which says that a node has what its agent's copy says, or has lost it - so a
patch by difference to that copy, stale as it may be, leaves label and
annotation agreeing; and `SelectedAccepted` (`SelectedNotRejected`) from
`PlacedInv`, which says that the tuple wanted matched the annotation the node had
when the pod was placed.

Each run's properties of these names show on a small instance what the theorems
state in general.

Only model-checked: the liveness properties (fairness and ENABLED are out of the
prover's reach) - `SnapshotEnds`, `DeletionEnds`, `RestoreEnds`,
`RestoreDeletionEnds`, `DeathNoticed`, `BuildEnds`, `BuildDeletionEnds`,
`PrefetchEnds`, `RestoredResumes`, `LabelCatchesUp`. Every safety property that a
passing run checks is stated by a theorem, with the hypotheses given above. The
violated properties are of course not proved.

## 7. Plan

Done: everything in section 2, with the runs of section 3 and the theorems of
section 6. What is left, in this order:

| | Module | Content |
|---|---|---|
| 1 | `SnapshotLifecycle` | the agent path, for specs whose name is used once; `OneWriter` and `OwedInv` are what its steps need |
| 2 | `Build` | the PodSnapshot of a build as an instance of `SnapshotLifecycle` instead of three states of its own; its dump would then be a variable, and the finding that a build takes up another's snapshot a property of the composition |

The modules declare their parameters as constants with named assumptions and use
no RECURSIVE operators, so that all of this can be stated about them as they are.

Not modelled, and why:

- *Artifact URIs and the local root* (`internal/artifact/uri.go`): parsing and
  joining of strings, one call at a time. The outcomes are choices of the models:
  a URI that does not resolve (`spec.valid`), a place the agent refuses
  (`spec.local`), a directory or a tar (`spec.dir`). That two objects of one name
  share a place is in `Snapshot`, by the name, and in `Build`, by the revision.
- *runc and CRIU, the bundle, spec rewriting, the rootfs diff, shm*
  (`internal/restore/`): command lines around external programs, and file and
  JSON transformations of a single process. Their only bearing on the reconcilers
  is that they may fail, and that runc may have had its effect when they do.
- *The CRI resolver* (`internal/cri`): queries, found or not found where used.
- *Process entry points, flags, charts and images, measuring scripts, CRIU
  patches*: wiring, or other programs.
- *Generated code* (`internal/pb`, deep copies, CRDs).
- Of the *prerequisite checker* the host checks, which write conditions that
  nothing in the repository compares; of *publication* the checks of bytes, which
  can only make it fail; of the *shim* the benchmark around its handshake.

## 8. Checking

```
tlc -workers 2 -config snapshot_agent.cfg MCSnapshot
tlc -workers 2 -config restore_names.cfg MCRestore
tlc -workers 2 -config build.cfg MCBuild
tlc -workers 2 -config node_restore.cfg MCNodeRestore
tlc -workers 2 -config compatibility.cfg MCCompatibility
tlapm SnapshotProofs.tla
tlapm KubeletProofs.tla
tlapm LifecycleProofs.tla
tlapm CommitProofs.tla
tlapm RestoreProofs.tla
tlapm BuildProofs.tla
tlapm NodeRestoreProofs.tla
tlapm CompatibilityProofs.tla
```
