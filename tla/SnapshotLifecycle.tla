------------------------- MODULE SnapshotLifecycle -------------------------
(***************************************************************************)
(* What a PodSnapshot promises whoever reads its status: where the         *)
(* snapshot is, the dump it names, and what can be found at its URI.  No   *)
(* reconciler, cache, worker or restart is in sight; module Snapshot       *)
(* implements this one on the kubelet's path.                              *)
(***************************************************************************)
CONSTANTS Dump, NoDump

VARIABLES
    stage,     \* of the object that has the name now
    dump,      \* the dump its status names
    taken,     \* the dumps that were begun, of any object of the name
    published  \* the dumps committed at its URI

lifecycle == <<stage, dump, taken, published>>

Ended == {"completed", "failed"}
Going == {"requested", "quiescing", "dumping", "dumped", "publishing"}

Init ==
    /\ stage = "absent"
    /\ dump = NoDump
    /\ taken = {}
    /\ published = {}

Moves(from, to) ==
    /\ stage \in from
    /\ stage' = to
    /\ UNCHANGED <<taken, published>>

Created == Moves({"absent"}, "requested") /\ UNCHANGED dump

\* Quiescing is passed over by a pod that did not opt in.
Quiesces == Moves({"requested"}, "quiescing") /\ UNCHANGED dump
DumpBegins == Moves({"requested", "quiescing"}, "dumping") /\ UNCHANGED dump

\* A snapshot names a dump that was taken, once.
Recorded == Moves({"dumping"}, "dumped") /\ dump' \in taken

PublicationBegins == Moves({"dumped"}, "publishing") /\ UNCHANGED dump

\* A snapshot completes with the dump it names committed.
Completes ==
    /\ dump \in published
    /\ Moves({"publishing"}, "completed") /\ UNCHANGED dump

Fails == Moves(Going, "failed") /\ UNCHANGED dump

\* Deleted, at once or once its finalizer is dropped; nothing is promised meanwhile.
Removed ==
    /\ Moves(Going \cup Ended \cup {"leaving"}, "absent")
         \/ Moves(Going \cup Ended, "leaving")
    /\ dump' = NoDump

\* A checkpoint leaves a dump behind, whatever has become of the object.
Dumped(d) ==
    /\ d \in Dump \ taken
    /\ taken' = taken \cup {d}
    /\ UNCHANGED <<stage, dump, published>>

\* What is published under a completed snapshot is the dump it names.
Published(d) ==
    /\ d \in taken
    /\ stage = "completed" => d = dump
    /\ published' \in SUBSET (published \cup {d})
    /\ UNCHANGED <<stage, dump, taken>>

Withdrawn ==
    /\ published' \in SUBSET published
    /\ UNCHANGED <<stage, dump, taken>>

Next ==
    \/ Created \/ Quiesces \/ DumpBegins \/ Recorded \/ PublicationBegins
    \/ Completes \/ Fails \/ Removed
    \/ \E d \in Dump : Dumped(d) \/ Published(d)
    \/ Withdrawn

Spec == Init /\ [][Next]_lifecycle
=============================================================================
