------------------------- MODULE CompatibilityProofs -------------------------
(* What a Node's label and annotation say of each other, for any number of *)
(* nodes, tuples, changes, failures and edits.                             *)
EXTENDS Compatibility, TLAPS

-----------------------------------------------------------------------------
(* Rendering a tuple into the annotation and reading it back loses nothing *)
(* (NodeCompatibility, ParseCompatibility).                                *)
LEMMA ParseRendered ==
    ASSUME NEW k \in Key
    PROVE  ParseCompatibility(NodeCompatibility(k)) = k
<1> DEFINE raw == NodeCompatibility(k)
<1>1. ASSUME NEW f \in Fields, NEW v \in Values
      PROVE  <<f, v>> \in raw <=> v = k[f]
    BY <1>1 DEF NodeCompatibility
<1>2. ASSUME NEW f \in Fields
      PROVE  ParseCompatibility(raw)[f] = k[f]
    <2>1. CASE k[f] \in Values
        BY <1>1, <1>2, <2>1 DEF ParseCompatibility
    <2>2. CASE k[f] = Empty
        BY <1>1, <1>2, <2>2, EmptyAssumption DEF ParseCompatibility
    <2> QED BY <1>2, <2>1, <2>2 DEF Key
<1> QED BY <1>2 DEF Key, ParseCompatibility

(* What is read is a tuple, whatever the annotation holds.                 *)
LEMMA ParseType == \A raw : ParseCompatibility(raw) \in Key
BY DEF ParseCompatibility, Key

(* An absent annotation reads like one that knows no field.                *)
LEMMA ParseAbsent == ParseCompatibility({}) = EmptyKey
BY DEF ParseCompatibility, EmptyKey

\* The tuple without a field is a tuple.
LEMMA EmptyKeyType == EmptyKey \in Key
BY DEF EmptyKey, Key

(* A rendered tuple is an annotation.                                      *)
LEMMA RenderedType == ASSUME NEW k \in Key PROVE NodeCompatibility(k) \in Raw
BY DEF NodeCompatibility, Raw, Key

\* A patched Node is typed.
LEMMA PatchedType ==
    ASSUME NEW obj \in NodeType, NEW seen \in NodeType, NEW k \in Key
    PROVE  Patched(obj, seen, k) \in NodeType
BY RenderedType DEF Patched, NodeType, NodeHash

\* A Node that is registered anew is typed.
LEMMA BlankType == Blank \in NodeType
BY EmptyKeyType DEF Blank, NodeType, Raw

-----------------------------------------------------------------------------
(* Every reachable state is well typed.                                    *)
LEMMA InitTyped == Init => TypeOK
<1> SUFFICES ASSUME Init PROVE TypeOK
    OBVIOUS
<1>1. node \in [Nodes -> NodeType] /\ agentSeen \in [Nodes -> NodeType]
      /\ managerSeen \in [Nodes -> NodeType]
    BY BlankType DEF Init
<1>2. bld \in BuildType
    BY EmptyKeyType, KeysAssumption DEF Init, BuildType
<1>3. rst \in RestoreType
    BY EmptyKeyType DEF Init, RestoreType, Raw
<1> QED BY <1>1, <1>2, <1>3, BoundsAssumption DEF Init, TypeOK

\* What happens on and to a node keeps every type.
LEMMA NodeTyped ==
    ASSUME TypeOK, NEW n \in Nodes, NodeNext(n)
    PROVE  TypeOK'
<1> USE BoundsAssumption
<1>1. CASE Probes(n)
    <2>1. PICK k \in Determined(machine[n]) : probe' = [probe EXCEPT ![n] = k]
        BY <1>1 DEF Probes
    <2>2. k \in Key
        BY <2>1 DEF Determined
    <2>3. probe' \in [Nodes -> Key \cup {NoProbe}]
        BY <2>1, <2>2 DEF TypeOK
    <2>4. blinds' \in 0..MaxBlind
        BY <1>1 DEF Probes, TypeOK
    <2> QED BY <1>1, <2>3, <2>4 DEF Probes, TypeOK
<1>2. CASE Publishes(n)
    <2> DEFINE obj == Patched(node[n], agentSeen[n], probe[n])
    <2>1. obj \in NodeType
        BY <1>2, PatchedType DEF Publishes, TypeOK
    <2>2. node' = [node EXCEPT ![n] = obj]
          /\ agentSeen' \in {agentSeen, [agentSeen EXCEPT ![n] = obj]}
        BY <1>2 DEF Publishes
    <2> HIDE DEF obj
    <2>3. node' \in [Nodes -> NodeType] /\ agentSeen' \in [Nodes -> NodeType]
        BY <2>1, <2>2 DEF TypeOK
    <2>4. probe' \in [Nodes -> Key \cup {NoProbe}]
        BY <1>2 DEF Publishes, TypeOK
    <2> QED BY <1>2, <2>3, <2>4 DEF Publishes, TypeOK
<1>3. CASE PublishFails(n)
    BY <1>3 DEF PublishFails, TypeOK
<1>4. CASE MachineChanges(n)
    BY <1>4 DEF MachineChanges, TypeOK
<1>5. CASE NodeEdited(n)
    <2>1. [node EXCEPT ![n] = Blank] \in [Nodes -> NodeType]
        BY BlankType DEF TypeOK
    <2>2. [node EXCEPT ![n].label = EmptyKey] \in [Nodes -> NodeType]
        BY EmptyKeyType DEF TypeOK, NodeType
    <2> QED BY <1>5, <2>1, <2>2 DEF NodeEdited, TypeOK
<1>6. CASE AgentInformed(n)
    BY <1>6 DEF AgentInformed, TypeOK
<1>7. CASE ManagerInformed(n)
    BY <1>7 DEF ManagerInformed, TypeOK
<1> QED BY <1>1, <1>2, <1>3, <1>4, <1>5, <1>6, <1>7 DEF NodeNext

\* Builds, restores and placements keep every type.
LEMMA ManagerTyped ==
    ASSUME TypeOK, ManagerNext
    PROVE  TypeOK'
<1>1. ASSUME NEW n \in Nodes, BuildObserves(n)
      PROVE  TypeOK'
    <2>1. PICK seen \in {EmptyKey, ParseCompatibility(managerSeen[n].ann)} :
            bld' = [bld EXCEPT !.done = TRUE, !.key = Merged(bld.pin, seen)]
        BY <1>1 DEF BuildObserves
    <2>2. seen \in Key
        BY <2>1, ParseType, EmptyKeyType
    <2>3. Merged(bld.pin, seen) \in Key
        BY <2>2 DEF TypeOK, BuildType, Merged, Key
    <2>4. bld' \in BuildType
        BY <2>1, <2>3 DEF TypeOK, BuildType
    <2> QED BY <1>1, <2>4 DEF BuildObserves, TypeOK, nodeVars
<1>2. ASSUME NEW n \in Nodes, PodPlaced(n)
      PROVE  TypeOK'
    BY <1>2 DEF PodPlaced, TypeOK, nodeVars, RestoreType, NodeType
<1>3. CASE RestorePends
    BY <1>3 DEF RestorePends, TypeOK, nodeVars, RestoreType, BuildType
<1>4. CASE PodRejected
    BY <1>4 DEF PodRejected, TypeOK, nodeVars, RestoreType
<1>5. CASE RestoreChecks
    BY <1>5 DEF RestoreChecks, TypeOK, nodeVars, RestoreType
<1> QED BY <1>1, <1>2, <1>3, <1>4, <1>5 DEF ManagerNext

(* Types are kept by every step of agents, manager, scheduler and others.  *)
THEOREM CompatibilityTypeCorrect == Spec => []TypeOK
<1>1. TypeOK /\ [Next]_vars => TypeOK'
    <2> SUFFICES ASSUME TypeOK, [Next]_vars PROVE TypeOK'
        OBVIOUS
    <2>1. CASE Next
        BY <2>1, NodeTyped, ManagerTyped DEF Next
    <2>2. CASE UNCHANGED vars
        BY <2>2 DEF vars, TypeOK
    <2> QED BY <2>1, <2>2
<1> QED BY <1>1, InitTyped, PTL DEF Spec

-----------------------------------------------------------------------------
(***************************************************************************)
(* What an agent's patch relies on: nobody else changed the Node since the *)
(* agent's copy was taken, but to take the label or everything away.       *)
(***************************************************************************)
Agrees(obj) ==
    LET known == ParseCompatibility(obj.ann) IN
    (obj.label # EmptyKey /\ known # EmptyKey) => obj.label = known

LabelInv ==
    \A n \in Nodes :
        /\ node[n].label \in {agentSeen[n].label, EmptyKey}
        /\ node[n].ann \in {agentSeen[n].ann, {}}
        /\ Agrees(node[n])

(* A patch computed from such a copy leaves label and annotation agreeing. *)
LEMMA PatchAgrees ==
    ASSUME NEW obj \in NodeType, NEW seen \in NodeType, NEW k \in Key,
           obj.label \in {seen.label, EmptyKey},
           obj.ann \in {seen.ann, {}}
    PROVE  Agrees(Patched(obj, seen, k))
<1> DEFINE new == Patched(obj, seen, k)
<1>1. ParseCompatibility(new.ann) \in {k, EmptyKey}
    BY ParseRendered, ParseAbsent DEF Patched
<1>2. k # EmptyKey => new.label \in {k, EmptyKey}
    BY DEF Patched, NodeHash
<1> QED BY <1>1, <1>2 DEF Agrees

\* Every step keeps label and annotation agreeing.
LEMMA LabelStep ==
    ASSUME TypeOK, LabelInv, [Next]_vars
    PROVE  LabelInv'
<1>1. ASSUME NEW n \in Nodes, Publishes(n)
      PROVE  LabelInv'
    <2> DEFINE obj == Patched(node[n], agentSeen[n], probe[n])
    <2>1. probe[n] \in Key /\ node[n] \in NodeType /\ agentSeen[n] \in NodeType
        BY <1>1 DEF Publishes, TypeOK
    <2>2. Agrees(obj)
        BY <2>1, PatchAgrees DEF LabelInv
    <2>3. node' = [node EXCEPT ![n] = obj]
          /\ agentSeen' = IF obj = node[n] THEN agentSeen ELSE [agentSeen EXCEPT ![n] = obj]
        BY <1>1 DEF Publishes
    <2> HIDE DEF obj
    <2> QED BY <2>2, <2>3 DEF LabelInv, TypeOK
<1>2. ASSUME NEW n \in Nodes, NodeEdited(n)
      PROVE  LabelInv'
    <2>1. agentSeen' = agentSeen
          /\ node' \in {[node EXCEPT ![n] = Blank], [node EXCEPT ![n].label = EmptyKey]}
        BY <1>2 DEF NodeEdited
    <2>2. node[n] \in NodeType
        BY DEF TypeOK
    <2>3. /\ node'[n] \in NodeType
          /\ node'[n].label = EmptyKey
          /\ node'[n].ann \in {node[n].ann, {}}
        <3>1. CASE node' = [node EXCEPT ![n] = Blank]
            <4>1. node'[n] = Blank
                BY <3>1 DEF TypeOK
            <4> QED BY <4>1, BlankType DEF Blank
        <3>2. CASE node' = [node EXCEPT ![n].label = EmptyKey]
            <4>1. node'[n] = [node[n] EXCEPT !.label = EmptyKey]
                BY <3>2 DEF TypeOK
            <4> QED BY <2>2, <4>1, EmptyKeyType DEF NodeType
        <3> QED BY <2>1, <3>1, <3>2
    <2>4. ASSUME NEW o \in Nodes, o # n
          PROVE  node'[o] = node[o]
        BY <2>1, <2>4 DEF TypeOK
    <2>5. Agrees(node'[n])
        BY <2>3 DEF Agrees
    <2>6. Agrees(node[n])' /\ \A o \in Nodes \ {n} : Agrees(node[o])'
        BY <2>4, <2>5 DEF LabelInv, Agrees
    <2> QED BY <2>1, <2>3, <2>4, <2>6 DEF LabelInv
<1>3. ASSUME NEW n \in Nodes, AgentInformed(n)
      PROVE  LabelInv'
    BY <1>3 DEF AgentInformed, LabelInv, TypeOK
<1>4. CASE UNCHANGED <<node, agentSeen>>
    BY <1>4 DEF LabelInv
<1> QED
    BY <1>1, <1>2, <1>3, <1>4
    DEF Next, NodeNext, ManagerNext, Probes, PublishFails, MachineChanges, ManagerInformed,
        BuildObserves, RestorePends, PodPlaced, PodRejected, RestoreChecks, nodeVars, vars

(* LabelTrusted: what a restore selects nodes by and what it is checked    *)
(* against never name different tuples.                                    *)
THEOREM LabelsTrusted == Spec => []LabelTrusted
<1>1. Init => LabelInv
    BY ParseAbsent DEF Init, LabelInv, Agrees, Blank
<1>2. TypeOK /\ LabelInv /\ [Next]_vars => LabelInv'
    BY LabelStep
<1>3. LabelInv => LabelTrusted
    BY DEF LabelInv, LabelTrusted, Agrees, NodeHash
<1> QED BY <1>1, <1>2, <1>3, CompatibilityTypeCorrect, PTL DEF Spec

-----------------------------------------------------------------------------
(***************************************************************************)
(* A pod placed by the label: the tuple wanted matched the annotation the  *)
(* node had at that moment.                                                *)
(***************************************************************************)
PlacedInv ==
    /\ rst.pc # "failed" => rst.why = "none"
    /\ rst.pc = "placed" => Matches(rst.want, ParseCompatibility(rst.ann))

\* What a pod's selector accepts, the check of the annotation accepts.
LEMMA SelectedMatches ==
    ASSUME NEW n \in Nodes, NEW want \in Key, Selects(want, n), LabelInv
    PROVE  Matches(want, ParseCompatibility(node[n].ann))
<1>1. CASE want = EmptyKey
    BY <1>1 DEF Matches, EmptyKey
<1>2. CASE want # EmptyKey
    <2>1. ParseCompatibility(node[n].ann) \in {want, EmptyKey}
        BY <1>2 DEF Selects, NodeHash, LabelInv, Agrees
    <2> QED BY <2>1 DEF Matches, EmptyKey
<1> QED BY <1>1, <1>2

\* Every step keeps what was known when the pod was placed.
LEMMA PlacedStep ==
    ASSUME TypeOK, LabelInv, PlacedInv, [Next]_vars
    PROVE  PlacedInv'
<1>1. ASSUME NEW n \in Nodes, PodPlaced(n)
      PROVE  PlacedInv'
    <2>1. rst.want \in Key
        BY DEF TypeOK, RestoreType
    <2>2. Matches(rst.want, ParseCompatibility(node[n].ann))
        BY <1>1, <2>1, SelectedMatches DEF PodPlaced
    <2>3. rst' = [rst EXCEPT !.pc = "placed", !.at = n, !.ann = node[n].ann]
          /\ rst.pc = "preparing"
        BY <1>1 DEF PodPlaced
    <2>4. rst'.why = rst.why /\ rst'.want = rst.want /\ rst'.ann = node[n].ann
        BY <2>3 DEF TypeOK, RestoreType
    <2> QED BY <2>2, <2>3, <2>4 DEF PlacedInv, TypeOK, RestoreType
<1>2. CASE RestorePends
    BY <1>2 DEF RestorePends, PlacedInv, TypeOK, RestoreType
<1>3. CASE PodRejected
    BY <1>3 DEF PodRejected, PlacedInv, TypeOK, RestoreType
<1>4. CASE RestoreChecks
    BY <1>4 DEF RestoreChecks, PlacedInv, TypeOK, RestoreType
<1>5. CASE UNCHANGED rst
    BY <1>5 DEF PlacedInv
<1> QED
    BY <1>1, <1>2, <1>3, <1>4, <1>5
    DEF Next, NodeNext, ManagerNext, Probes, Publishes, PublishFails, MachineChanges,
        NodeEdited, AgentInformed, ManagerInformed, BuildObserves, vars

(* SelectedNotRejected: a pod placed by the label is failed by the check   *)
(* of the annotation only when the manager judges by another annotation.   *)
THEOREM SelectedAccepted == Spec => SelectedNotRejected
<1>1. Init => LabelInv /\ PlacedInv
    BY ParseAbsent DEF Init, LabelInv, Agrees, Blank, PlacedInv
<1>2. TypeOK /\ LabelInv /\ PlacedInv /\ [Next]_vars => LabelInv' /\ PlacedInv'
    BY LabelStep, PlacedStep
<1>3. TypeOK /\ PlacedInv /\ [Next]_vars => [RejectedForCause]_vars
    <2> SUFFICES ASSUME TypeOK, PlacedInv, [Next]_vars, rst.pc = "placed",
                        rst'.why = "incompatible", rst.pinned = NoNode
                 PROVE  managerSeen[rst.at].ann # rst.ann
        BY DEF RejectedForCause
    <2>1. rst' # rst
        BY DEF PlacedInv
    <2>2. RestoreChecks
        BY <2>1
        DEF Next, NodeNext, ManagerNext, Probes, Publishes, PublishFails, MachineChanges,
            NodeEdited, AgentInformed, ManagerInformed, BuildObserves, RestorePends,
            PodPlaced, PodRejected, vars
    <2>3. Contradicted(rst.want, rst.at)
        BY <2>2 DEF RestoreChecks, PlacedInv, TypeOK, RestoreType
    <2> QED BY <2>3 DEF Contradicted, PlacedInv
<1> QED BY <1>1, <1>2, <1>3, CompatibilityTypeCorrect, PTL DEF Spec, SelectedNotRejected
=============================================================================
