--------------------------- MODULE AcyclicityCheck ---------------------------
(***************************************************************************)
(* defaultDependencyManager.CheckAcyclicity and its recursive helper       *)
(* isAcyclic, one round of the recursion per step.  It is the only thing   *)
(* that stands between a topology and a deployment in which everybody      *)
(* waits for everybody.                                                    *)
(***************************************************************************)
EXTENDS DependencyGraph

CONSTANT Node

\* A topology file names finitely many nodes.
ASSUME NodeAssumption == IsFiniteSet(Node)

VARIABLES
    graph,          \* the dependency map the check was called with
    nodeDependers,  \* what is left of it in this round
    round,          \* the parameter i of isAcyclic
    rank,           \* history: the round in which a node was removed, 0 before
    verdict         \* "unknown", "acyclic" or "cyclic"

vars == <<graph, nodeDependers, round, rank, verdict>>

Init == /\ graph \in [Node -> SUBSET Node]
        /\ nodeDependers = graph
        /\ round = 1
        /\ rank = [n \in Node |-> 0]
        /\ verdict = "unknown"

\* No nodes are left.
succeed == /\ verdict = "unknown"
           /\ DOMAIN nodeDependers = {}
           /\ verdict' = "acyclic"
           /\ UNCHANGED <<graph, nodeDependers, round, rank>>

\* Nodes are left, but none of them is a leaf.
giveUp == /\ verdict = "unknown"
          /\ DOMAIN nodeDependers # {}
          /\ leafNodes(nodeDependers) = {}
          /\ verdict' = "cyclic"
          /\ UNCHANGED <<graph, nodeDependers, round, rank>>

\* Seeded fault: the recursion gets the map it started with.
recurseOnSameMap ==
    /\ verdict = "unknown"
    /\ leafNodes(nodeDependers) # {}
    /\ rank' = [n \in Node |-> IF n \in leafNodes(nodeDependers) THEN round ELSE rank[n]]
    /\ UNCHANGED <<graph, nodeDependers, round, verdict>>

\* Remove the leaves and recurse.
removeLeaves ==
    /\ verdict = "unknown"
    /\ leafNodes(nodeDependers) # {}
    /\ nodeDependers' = remainingNodeDependers(nodeDependers)
    /\ rank' = [n \in Node |-> IF n \in leafNodes(nodeDependers) THEN round ELSE rank[n]]
    /\ round' = round + 1
    /\ UNCHANGED <<graph, verdict>>

Next == succeed \/ giveUp \/ removeLeaves

Spec == Init /\ [][Next]_vars

FairSpec == Spec /\ WF_vars(Next)

\* The type of the state; rounds count from 1.
TypeOK ==
    /\ graph \in [Node -> SUBSET Node]
    /\ DOMAIN nodeDependers \subseteq Node
    /\ nodeDependers \in [DOMAIN nodeDependers -> SUBSET Node]
    /\ round \in Nat \ {0}
    /\ rank \in [Node -> Nat]
    /\ verdict \in {"unknown", "acyclic", "cyclic"}

\* What is left of the map is the original graph restricted to the nodes left:
\* pruning the lists loses no dependency between them.
RestrictedGraph == nodeDependers = [n \in DOMAIN nodeDependers |-> graph[n] \cap DOMAIN nodeDependers]

\* The nodes left are the ones without a rank, all ranks are past rounds.
RankedIffRemoved ==
    \A n \in Node : /\ n \in DOMAIN nodeDependers <=> rank[n] = 0
                    /\ rank[n] < round

\* A depender is always removed in an earlier round than its dependee.
DependersFirst ==
    \A n \in Node : rank[n] # 0 => \A d \in graph[n] : rank[d] # 0 /\ rank[d] < rank[n]

\* An "acyclic" verdict comes with a topological order of the whole graph, so
\* that no node can wait for itself through any chain of dependencies.
AcceptedIsOrdered ==
    verdict = "acyclic" => \A n \in Node : \A d \in graph[n] : rank[d] < rank[n]

\* A "cyclic" verdict comes with a set of nodes each of which is waited for by
\* another one of the set: without such a set a topology is never rejected.
RejectedHasCore ==
    verdict = "cyclic" =>
        \E core \in (SUBSET Node) \ {{}} : \A n \in core : graph[n] \cap core # {}

\* The reference: y is reached from x if it is in every set that contains what x
\* leads to and is closed under the graph.
Closed(g, S) == \A n \in S : g[n] \subseteq S
Reaches(g, x, y) == \A S \in SUBSET Node : g[x] \subseteq S /\ Closed(g, S) => y \in S
ReferenceAcyclic == \A n \in Node : ~Reaches(graph, n, n)

\* The verdict of the round by round check is the one of the reference, in which
\* a graph is acyclic if no node reaches itself, and the one of the operator that
\* NodeScheduler uses for CheckAcyclicity.
VerdictIsRight ==
    verdict # "unknown" =>
        /\ (verdict = "acyclic") = ReferenceAcyclic
        /\ (verdict = "acyclic") = isAcyclic(graph)

\* The check comes to a verdict.
Terminates == <>(verdict # "unknown")
=============================================================================
