----------------------------- MODULE MCRestore -----------------------------
(* Instances of Restore for TLC. *)
EXTENDS Restore

Pinned == [pinned |-> TRUE, prewarm |-> TRUE, fuse |-> TRUE, valid |-> TRUE, fits |-> TRUE]
Scheduled == [Pinned EXCEPT !.pinned = FALSE]

PinnedWay == {Pinned}

\* Objects of one name in turn: one that is warmed on a pinned node, and one
\* the scheduler sends to a node that does not fit.
InTurn == {[Pinned EXCEPT !.fuse = FALSE], [Scheduled EXCEPT !.fits = FALSE]}

\* A node the scheduler chooses and an artifact only the agent can wait for;
\* specs that nothing can be made of.
Ending == {[Scheduled EXCEPT !.fuse = FALSE], [Scheduled EXCEPT !.valid = FALSE],
           [Pinned EXCEPT !.fits = FALSE]}
=============================================================================
