------------------------------ MODULE MCBuild ------------------------------
(* Instances of Build for TLC. *)
EXTENDS Build

Once == [valid |-> TRUE, keep |-> FALSE, delete |-> TRUE, revision |-> "r1"]

\* A build whose artifact goes with it, one that keeps pod and artifact, and a
\* template that nothing can be made of.  They share the place of the artifact:
\* one of its own is out of the others' reach.
AnyBuild == {Once, [Once EXCEPT !.keep = TRUE, !.delete = FALSE], [Once EXCEPT !.valid = FALSE]}
=============================================================================
