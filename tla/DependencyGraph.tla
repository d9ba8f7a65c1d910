--------------------------- MODULE DependencyGraph ---------------------------
(***************************************************************************)
(* The node-level view that the dependency manager takes of the stage      *)
(* dependencies (core/dependency_manager/dependency_manager.go): which     *)
(* nodes wait for a node, whatever the stages, and whether that graph can  *)
(* be peeled leaf by leaf.  Operators only; AcyclicityCheck runs the same  *)
(* algorithm round by round.                                               *)
(***************************************************************************)
EXTENDS Naturals, FiniteSets

\* Every dependee with the nodes that wait for one of its stages.
generateDependencyMap(nodes, deps) ==
    [n \in nodes |-> {d.depender : d \in {e \in deps : e.dependee = n}}]

\* Seeded fault: a node that waits for itself counts as a leaf.
leavesBesidesThemselves(nodeDependers) ==
    {n \in DOMAIN nodeDependers : nodeDependers[n] \subseteq {n}}

\* The nodes of a dependency map that nobody waits for.
leafNodes(nodeDependers) ==
    {n \in DOMAIN nodeDependers : nodeDependers[n] = {}}

\* Seeded fault: the leaves stay in the lists of dependers.
unprunedDependers(nodeDependers) ==
    LET leaves == leafNodes(nodeDependers)
    IN  [n \in DOMAIN nodeDependers \ leaves |-> nodeDependers[n]]

\* The map of the next round: the leaves are gone, as keys and as dependers.
remainingNodeDependers(nodeDependers) ==
    LET leaves == leafNodes(nodeDependers)
    IN  [n \in DOMAIN nodeDependers \ leaves |-> nodeDependers[n] \ leaves]

\* The recursion of isAcyclic, unrolled: it runs out of nodes or of leaves
\* after at most as many rounds as there are nodes.
isAcyclic(nodeDependers) ==
    LET rounds == Cardinality(DOMAIN nodeDependers)
        left[i \in 0..rounds] ==
            IF i = 0 THEN nodeDependers ELSE remainingNodeDependers(left[i-1])
    IN  DOMAIN left[rounds] = {}
=============================================================================
