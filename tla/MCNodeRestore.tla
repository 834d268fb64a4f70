--------------------------- MODULE MCNodeRestore ---------------------------
(* Instance of NodeRestore for TLC. *)
EXTENDS NodeRestore

Staging == [staging |-> TRUE, pinner |-> FALSE, cached |-> FALSE]

\* An agent that stages, and one that reads from the tier or through the mount.
AgentModes == {Staging, [staging |-> FALSE, pinner |-> TRUE, cached |-> TRUE]}

\* What a repeated pre-warm leaves on the tier any other reader does, too.
LateModes == {Staging}
=============================================================================
