----------------------------- MODULE MCSnapshot -----------------------------
(* Instances of Snapshot for TLC. *)
EXTENDS Snapshot, TLC

Sym == Permutations(Dump)

ForKubelet == [agent |-> FALSE, dir |-> TRUE, delete |-> FALSE, quiesce |-> FALSE,
               valid |-> TRUE, local |-> TRUE]
ForAgent == [ForKubelet EXCEPT !.agent = TRUE]

UpgradedNode == {[new |-> TRUE, advertises |-> TRUE]}
OldNode == {[new |-> FALSE, advertises |-> FALSE]}

\* What users ask of a node whose agent takes checkpoints.
AgentSpecs ==
    {[ForAgent EXCEPT !.quiesce = q, !.delete = x] : q \in BOOLEAN, x \in BOOLEAN}
        \cup {[ForAgent EXCEPT !.local = FALSE], [ForAgent EXCEPT !.dir = FALSE]}

\* What users ask of the kubelet: both formats, and what makes each step refuse.
KubeletSpecs ==
    {[ForKubelet EXCEPT !.dir = d, !.delete = x] : d \in BOOLEAN, x \in BOOLEAN}
        \cup {[ForKubelet EXCEPT !.quiesce = TRUE], [ForKubelet EXCEPT !.valid = FALSE],
              [ForKubelet EXCEPT !.local = FALSE]}

\* The two specs whose way to an end, and whose deletion, differ the most.
EndingSpecs ==
    {[ForKubelet EXCEPT !.delete = TRUE], [ForKubelet EXCEPT !.quiesce = TRUE, !.dir = FALSE]}

DefaultSpecs == {ForAgent}
AgentTarSpecs == {[ForAgent EXCEPT !.dir = FALSE]}
KubeletTarSpecs == {[ForKubelet EXCEPT !.dir = FALSE]}
=============================================================================
