-------------------------- MODULE MCAcyclicityCheck --------------------------
(***************************************************************************)
(* AcyclicityCheck on every graph over a small set of nodes.               *)
(***************************************************************************)
EXTENDS AcyclicityCheck, Relation

\* Reaches is the transitive closure of the graph, on the graphs in which one node
\* is not led to.
ASSUME ReachesIsTheClosure ==
    \A g \in [Node -> SUBSET (Node \ {CHOOSE n \in Node : TRUE})] :
        LET closure == TransitiveClosure([x, y \in Node |-> y \in g[x]], Node)
        IN  \A x, y \in Node : Reaches(g, x, y) <=> closure[x, y]
=============================================================================
