--------------------------- MODULE ArtifactStore ---------------------------
(***************************************************************************)
(* A directory artifact file by file: the images, the MANIFEST that        *)
(* commits them, the worker that writes both and the manager that deletes  *)
(* them.  Writer and deleter are different processes and share no lock.    *)
(***************************************************************************)
EXTENDS Naturals, FiniteSets

CONSTANTS
    Files,       \* the images a MANIFEST lists
    NoFile,      \* not one of them
    MaxUploads,  \* bound on the publications started
    MaxDeletes   \* bound on the calls of Store.Delete

ASSUME FilesAssumption == IsFiniteSet(Files) /\ Files # {} /\ NoFile \notin Files
ASSUME StoreBoundsAssumption == MaxUploads \in Nat /\ MaxDeletes \in Nat

VARIABLES
    store,     \* each image at the artifact's place
    manifest,  \* is there a MANIFEST
    wr,        \* the worker that publishes
    del,       \* the manager inside Store.Delete
    raced,     \* history: this publication began while a Delete was going on
    uploads, deletes

storeVars == <<store, manifest, wr, del, raced, uploads, deletes>>

Copy == {"absent", "part", "whole"}
\* The files in the order of the MANIFEST, whichever that is.
FirstOf(fs) == CHOOSE f \in fs : TRUE
Whole(copies) == \A f \in Files : copies[f] = "whole"

WriterType == [pc : {"idle", "writing"}, todo : SUBSET Files, file : Files \cup {NoFile}]
NoWriter == [pc |-> "idle", todo |-> {}, file |-> NoFile]

DeleterType == [pc : {"idle", "uncommitting", "removing"}, todo : SUBSET Files]
NoDeleter == [pc |-> "idle", todo |-> {}]

\* A publication is complete; MaxUploads bounds those that repeat or replace it.
StoreInit ==
    /\ store = [f \in Files |-> "whole"]
    /\ manifest = TRUE
    /\ wr = NoWriter
    /\ del = NoDeleter
    /\ raced = FALSE
    /\ uploads = 0
    /\ deletes = 0

-----------------------------------------------------------------------------
\* Bug: the MANIFEST of the earlier attempt stays until it is overwritten.
UploadStartsCommitted ==
    /\ wr.pc = "idle"
    /\ uploads < MaxUploads
    /\ uploads' = uploads + 1
    /\ wr' = [pc |-> "writing", todo |-> Files, file |-> NoFile]
    /\ raced' = (del.pc # "idle")
    /\ UNCHANGED <<store, manifest, del, deletes>>

\* ExpandTarToDir removes the MANIFEST of an earlier attempt before anything else.
UploadStarts ==
    /\ wr.pc = "idle"
    /\ uploads < MaxUploads
    /\ uploads' = uploads + 1
    /\ wr' = [pc |-> "writing", todo |-> Files, file |-> NoFile]
    /\ manifest' = FALSE
    /\ raced' = (del.pc # "idle")
    /\ UNCHANGED <<store, del, deletes>>

\* writeFile unlinks the file and creates it anew ...
UploadOpens(f) ==
    /\ wr.pc = "writing" /\ wr.file = NoFile
    /\ f \in wr.todo
    /\ wr' = [wr EXCEPT !.file = f]
    /\ store' = [store EXCEPT ![f] = "part"]
    /\ UNCHANGED <<manifest, del, raced, uploads, deletes>>

\* ... writes it under its final name, and closes it.  A file that was deleted
\* while it was open may come back or not.
UploadCloses ==
    /\ wr.pc = "writing" /\ wr.file # NoFile
    /\ \/ store' = [store EXCEPT ![wr.file] = "whole"]
       \/ store[wr.file] = "absent" /\ UNCHANGED store
    /\ wr' = [wr EXCEPT !.file = NoFile, !.todo = @ \ {wr.file}]
    /\ UNCHANGED <<manifest, del, raced, uploads, deletes>>

UploadCommits ==
    /\ wr.pc = "writing" /\ wr.file = NoFile
    /\ wr.todo = {}
    /\ manifest' = TRUE
    /\ wr' = NoWriter
    /\ UNCHANGED <<store, del, raced, uploads, deletes>>

\* An error, or the agent stops: what was written stays.
UploadStops ==
    /\ wr.pc = "writing"
    /\ wr' = NoWriter
    /\ UNCHANGED <<store, manifest, del, raced, uploads, deletes>>

UploadNext ==
    \/ UploadStarts
    \/ \E f \in Files : UploadOpens(f)
    \/ UploadCloses \/ UploadCommits \/ UploadStops

-----------------------------------------------------------------------------
\* Delete reads what to remove from the MANIFEST; without one it has nothing to do.
DeleteReads ==
    /\ del.pc = "idle"
    /\ deletes < MaxDeletes
    /\ deletes' = deletes + 1
    /\ del' = IF manifest THEN [pc |-> "uncommitting", todo |-> Files] ELSE NoDeleter
    /\ UNCHANGED <<store, manifest, wr, raced, uploads>>

DeleteUncommits ==
    /\ del.pc = "uncommitting"
    /\ manifest' = FALSE
    /\ del' = [del EXCEPT !.pc = "removing"]
    /\ UNCHANGED <<store, wr, raced, uploads, deletes>>

DeleteRemoves ==
    /\ del.pc = "removing"
    /\ LET f == FirstOf(del.todo) IN
        /\ store' = [store EXCEPT ![f] = "absent"]
        /\ del' = IF del.todo = {f} THEN NoDeleter ELSE [del EXCEPT !.todo = @ \ {f}]
    /\ UNCHANGED <<manifest, wr, raced, uploads, deletes>>

\* A file cannot be read or removed, or the manager stops; the next call finds no MANIFEST.
DeleteStops ==
    /\ del.pc # "idle"
    /\ del' = NoDeleter
    /\ UNCHANGED <<store, manifest, wr, raced, uploads, deletes>>

DeleteNext ==
    \/ DeleteReads \/ DeleteUncommits \/ DeleteRemoves \/ DeleteStops

-----------------------------------------------------------------------------
StoreTypeOK ==
    /\ store \in [Files -> Copy]
    /\ manifest \in BOOLEAN
    /\ wr \in WriterType
    /\ del \in DeleterType
    /\ raced \in BOOLEAN
    /\ uploads \in 0..MaxUploads
    /\ deletes \in 0..MaxDeletes

(***************************************************************************)
(* MANIFEST is a commit marker, file by file.  Whoever finds a MANIFEST    *)
(* finds every image whole, however uploads and deletions interleave -     *)
(* unless the publication was started inside a Delete that had already     *)
(* read what to remove.                                                    *)
(***************************************************************************)
FilesCommitted == (manifest /\ ~raced) => Whole(store)
=============================================================================
