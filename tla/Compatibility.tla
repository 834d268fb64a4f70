---------------------------- MODULE Compatibility ----------------------------
(***************************************************************************)
(* The environment tuple a checkpoint is bound to: the agents publish it   *)
(* on their nodes twice, as an annotation and, hashed, as a label; a build *)
(* records it; a restore has its placeholder pod select nodes by the label *)
(* and the manager then checks the annotation.  Label, annotation and      *)
(* machine are three things that change at different times, seen through   *)
(* caches.                                                                 *)
(***************************************************************************)
EXTENDS Naturals, FiniteSets

CONSTANTS
    Nodes, NoNode,
    Values, Empty,   \* what a field may hold, and the field that is not known
    NoProbe,
    Machines,        \* the tuples machines may have
    Pins,            \* what spec.compatibility of the build may be
    MaxChanges,      \* bound on the changes of machines
    MaxBlind,        \* bound on the checks that miss a field or cannot publish
    MaxEdits         \* bound on the edits of Node objects by others

Fields == {"gpu", "driver", "criu"}
Key == [Fields -> Values \cup {Empty}]
EmptyKey == [f \in Fields |-> Empty]

ASSUME EmptyAssumption == Empty \notin Values
ASSUME NodesAssumption == NoNode \notin Nodes
ASSUME ProbeAssumption == NoProbe \notin Key
ASSUME KeysAssumption == Machines \subseteq Key \ {EmptyKey} /\ Pins \subseteq Key
ASSUME BoundsAssumption == MaxChanges \in Nat /\ MaxBlind \in Nat /\ MaxEdits \in Nat

VARIABLES
    machine,      \* what each node really is
    node,         \* the Node objects
    agentSeen,    \* each agent's cached copy of its own
    managerSeen,  \* the manager's cached copies
    probe,        \* what an agent found out and is about to publish
    bld,          \* a SnapshotBuild
    rst,          \* a PodRestore with a buildRef to it
    changes, blinds, edits

nodeVars == <<machine, node, agentSeen, managerSeen, probe, changes, blinds, edits>>
vars == <<machine, node, agentSeen, managerSeen, probe, bld, rst, changes, blinds, edits>>

-----------------------------------------------------------------------------
\* An annotation is the fields it spells out; none at all is an absent annotation.
Raw == SUBSET (Fields \X (Values \cup {Empty}))
NodeCompatibility(k) == {<<f, k[f]>> : f \in Fields}

ParseCompatibility(raw) ==
    [f \in Fields |-> IF \E v \in Values : <<f, v>> \in raw
                      THEN CHOOSE v \in Values : <<f, v>> \in raw
                      ELSE Empty]

\* A digest of the tuple stands for it; a tuple without a field has none.
NodeHash(k) == k

\* Bug: a field the node does not know blocks.
MatchesKnown(k, n) == \A f \in Fields : k[f] # Empty => k[f] = n[f]

\* k.Matches(n)
Matches(k, n) == \A f \in Fields : (k[f] # Empty /\ n[f] # Empty) => k[f] = n[f]

NodeType == [ann : Raw, label : Key]
Blank == [ann |-> {}, label |-> EmptyKey]

BuildType == [pin : Key, done : BOOLEAN, key : Key]

(***************************************************************************)
(* pinned is spec.nodeName, want the tuple copied from the build, at the   *)
(* node of the running pod, ann the annotation there when it was placed.   *)
(***************************************************************************)
RestoreType == [pc : {"pending", "preparing", "placed", "restoring", "failed"},
                pinned : Nodes \cup {NoNode}, want : Key,
                at : Nodes \cup {NoNode}, ann : Raw,
                why : {"none", "incompatible", "pod"}]

Init ==
    /\ machine \in [Nodes -> Machines]
    /\ node = [n \in Nodes |-> Blank]
    /\ agentSeen = node
    /\ managerSeen = node
    /\ probe = [n \in Nodes |-> NoProbe]
    /\ bld \in [pin : Pins, done : {FALSE}, key : {EmptyKey}]
    /\ rst \in [pc : {"pending"}, pinned : Nodes \cup {NoNode}, want : {EmptyKey},
                at : {NoNode}, ann : {{}}, why : {"none"}]
    /\ changes = 0
    /\ blinds = 0
    /\ edits = 0

-----------------------------------------------------------------------------
\* nvidia-smi answers for GPU and driver at once, criu for itself, or not.
Determined(m) ==
    {k \in Key : /\ k["criu"] \in {m["criu"], Empty}
                 /\ \/ k["gpu"] = m["gpu"] /\ k["driver"] = m["driver"]
                    \/ k["gpu"] = Empty /\ k["driver"] = Empty}

\* checkAndPublish, up to the Patch.
Probes(n) ==
    /\ probe[n] = NoProbe
    /\ \E k \in Determined(machine[n]) :
        /\ probe' = [probe EXCEPT ![n] = k]
        /\ IF k = machine[n] THEN UNCHANGED blinds
           ELSE blinds < MaxBlind /\ blinds' = blinds + 1
    /\ UNCHANGED <<machine, node, agentSeen, managerSeen, bld, rst, changes, edits>>

\* Bug: a label that is there already is left alone.
PatchedKeepsLabel(obj, seen, k) ==
    [ann   |-> IF seen.ann = NodeCompatibility(k) THEN obj.ann ELSE NodeCompatibility(k),
     label |-> IF seen.label # EmptyKey \/ seen.label = NodeHash(k) THEN obj.label
               ELSE NodeHash(k)]

\* Bug: a node that carries the annotation is taken for up to date.
PatchedUnlessAnnotated(obj, seen, k) ==
    IF seen.ann = NodeCompatibility(k) THEN obj
    ELSE [ann |-> NodeCompatibility(k),
          label |-> IF NodeHash(k) = EmptyKey THEN obj.label ELSE NodeHash(k)]

(***************************************************************************)
(* The Patch holds what differs from the cached copy, and a hash that is   *)
(* empty is no reason to remove the label.                                 *)
(***************************************************************************)
Patched(obj, seen, k) ==
    [ann   |-> IF seen.ann = NodeCompatibility(k) THEN obj.ann ELSE NodeCompatibility(k),
     label |-> IF NodeHash(k) = EmptyKey \/ seen.label = NodeHash(k) THEN obj.label
               ELSE NodeHash(k)]

(***************************************************************************)
(* The agent's cache has its own write long before the next check, minutes *)
(* later.                                                                  *)
(***************************************************************************)
Publishes(n) ==
    /\ probe[n] # NoProbe
    /\ LET obj == Patched(node[n], agentSeen[n], probe[n]) IN
        /\ node' = [node EXCEPT ![n] = obj]
        /\ agentSeen' = IF obj = node[n] THEN agentSeen ELSE [agentSeen EXCEPT ![n] = obj]
    /\ probe' = [probe EXCEPT ![n] = NoProbe]
    /\ UNCHANGED <<machine, managerSeen, bld, rst, changes, blinds, edits>>

\* The Patch fails, or the agent restarts before it.
PublishFails(n) ==
    /\ probe[n] # NoProbe
    /\ blinds < MaxBlind
    /\ blinds' = blinds + 1
    /\ probe' = [probe EXCEPT ![n] = NoProbe]
    /\ UNCHANGED <<machine, node, agentSeen, managerSeen, bld, rst, changes, edits>>

\* A driver or CRIU is replaced.
MachineChanges(n) ==
    /\ changes < MaxChanges
    /\ changes' = changes + 1
    /\ machine' \in [Nodes -> Machines]
    /\ \A o \in Nodes : machine'[o] # machine[o] <=> o = n
    /\ UNCHANGED <<node, agentSeen, managerSeen, probe, bld, rst, blinds, edits>>

\* The Node is registered anew, or somebody removes a label.
NodeEdited(n) ==
    /\ edits < MaxEdits
    /\ edits' = edits + 1
    /\ node' \in {[node EXCEPT ![n] = Blank], [node EXCEPT ![n].label = EmptyKey]}
    /\ UNCHANGED <<machine, agentSeen, managerSeen, probe, bld, rst, changes, blinds>>

AgentInformed(n) ==
    /\ agentSeen[n] # node[n]
    /\ agentSeen' = [agentSeen EXCEPT ![n] = node[n]]
    /\ UNCHANGED <<machine, node, managerSeen, probe, bld, rst, changes, blinds, edits>>

ManagerInformed(n) ==
    /\ managerSeen[n] # node[n]
    /\ managerSeen' = [managerSeen EXCEPT ![n] = node[n]]
    /\ UNCHANGED <<machine, node, agentSeen, probe, bld, rst, changes, blinds, edits>>

-----------------------------------------------------------------------------
\* What the user pinned wins over what the node reports.
Merged(pin, seen) == [f \in Fields |-> IF pin[f] = Empty THEN seen[f] ELSE pin[f]]

\* The build pod runs on n; the node may not be found.
BuildObserves(n) ==
    /\ ~bld.done
    /\ \E seen \in {EmptyKey, ParseCompatibility(managerSeen[n].ann)} :
        bld' = [bld EXCEPT !.done = TRUE, !.key = Merged(bld.pin, seen)]
    /\ UNCHANGED <<nodeVars, rst>>

\* checkNodeCompatibility
Contradicted(want, n) == ~Matches(want, ParseCompatibility(managerSeen[n].ann))

\* The build is completed; a pinned node is checked before anything is created.
RestorePends ==
    /\ rst.pc = "pending" /\ bld.done
    /\ rst' = IF rst.pinned # NoNode /\ Contradicted(bld.key, rst.pinned)
              THEN [rst EXCEPT !.want = bld.key, !.pc = "failed", !.why = "incompatible"]
              ELSE [rst EXCEPT !.want = bld.key, !.pc = "preparing"]
    /\ UNCHANGED <<nodeVars, bld>>

\* The node selector of the placeholder pod.
Selects(want, n) == NodeHash(want) = EmptyKey \/ node[n].label = NodeHash(want)

\* The scheduler, or the kubelet of the pinned node, takes a pod it selects.
PodPlaced(n) ==
    /\ rst.pc = "preparing"
    /\ rst.pinned \in {n, NoNode}
    /\ Selects(rst.want, n)
    /\ rst' = [rst EXCEPT !.pc = "placed", !.at = n, !.ann = node[n].ann]
    /\ UNCHANGED <<nodeVars, bld>>

\* A pod that is pinned to a node it does not select is rejected by the kubelet.
PodRejected ==
    /\ rst.pc = "preparing" /\ rst.pinned # NoNode
    /\ ~Selects(rst.want, rst.pinned)
    /\ rst' = [rst EXCEPT !.pc = "failed", !.why = "pod"]
    /\ UNCHANGED <<nodeVars, bld>>

\* Bug: a phase the API does not know.
RestoreChecksMisspelt ==
    /\ rst.pc = "placed"
    /\ rst' = [rst EXCEPT !.pc = IF Contradicted(rst.want, rst.at) THEN "failed" ELSE "restore"]
    /\ UNCHANGED <<nodeVars, bld>>

\* The pod runs: the node it got is checked.
RestoreChecks ==
    /\ rst.pc = "placed"
    /\ rst' = IF Contradicted(rst.want, rst.at)
              THEN [rst EXCEPT !.pc = "failed", !.why = "incompatible"]
              ELSE [rst EXCEPT !.pc = "restoring"]
    /\ UNCHANGED <<nodeVars, bld>>

NodeNext(n) ==
    \/ Probes(n) \/ Publishes(n) \/ PublishFails(n)
    \/ MachineChanges(n) \/ NodeEdited(n)
    \/ AgentInformed(n) \/ ManagerInformed(n)

ManagerNext ==
    \/ \E n \in Nodes : BuildObserves(n) \/ PodPlaced(n)
    \/ RestorePends \/ PodRejected \/ RestoreChecks

Next ==
    \/ \E n \in Nodes : NodeNext(n)
    \/ ManagerNext

Spec == Init /\ [][Next]_vars

(***************************************************************************)
(* Fairness: the ticker of every agent, its Patch, and its informer.       *)
(***************************************************************************)
Fairness ==
    \A n \in Nodes :
        /\ WF_vars(Probes(n))
        /\ WF_vars(Publishes(n))
        /\ WF_vars(AgentInformed(n))

FairSpec == Spec /\ Fairness

-----------------------------------------------------------------------------
TypeOK ==
    /\ machine \in [Nodes -> Machines]
    /\ node \in [Nodes -> NodeType]
    /\ agentSeen \in [Nodes -> NodeType]
    /\ managerSeen \in [Nodes -> NodeType]
    /\ probe \in [Nodes -> Key \cup {NoProbe}]
    /\ bld \in BuildType
    /\ rst \in RestoreType
    /\ changes \in 0..MaxChanges
    /\ blinds \in 0..MaxBlind
    /\ edits \in 0..MaxEdits

(***************************************************************************)
(* Label and annotation of a node never name different tuples: where the   *)
(* label outlives what it stood for, the annotation says nothing.  It is   *)
(* never removed, and both are patched by difference to a cached copy.     *)
(***************************************************************************)
LabelTrusted ==
    \A n \in Nodes :
        LET known == ParseCompatibility(node[n].ann) IN
        (node[n].label # EmptyKey /\ known # EmptyKey) => node[n].label = NodeHash(known)

(***************************************************************************)
(* A restore whose pod the scheduler placed by the label is not failed by  *)
(* the check of the annotation, unless the manager judges by another       *)
(* annotation than the one the node had when the pod was placed.           *)
(***************************************************************************)
RejectedForCause ==
    (rst.pc = "placed" /\ rst'.why = "incompatible" /\ rst.pinned = NoNode) =>
        managerSeen[rst.at].ann # rst.ann

(***************************************************************************)
(* Every step that fails a restore as incompatible has that cause.         *)
(***************************************************************************)
SelectedNotRejected == [][RejectedForCause]_vars

(***************************************************************************)
(* Once machines stop changing and their tools answer, every node ends up  *)
(* with the label and the annotation of what it really is, whatever its    *)
(* agent's cache missed.                                                   *)
(***************************************************************************)
LabelCatchesUp ==
    \A n \in Nodes :
        <>[](node[n].label = NodeHash(machine[n])
             /\ ParseCompatibility(node[n].ann) = machine[n])
=============================================================================
