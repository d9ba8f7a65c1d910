------------------------ MODULE AcyclicityCheckProofs ------------------------
(***************************************************************************)
(* The verdict of CheckAcyclicity, for every set of nodes and every graph: *)
(* what it accepts has an order, what it rejects has a cycle, and the      *)
(* operator isAcyclic that NodeScheduler uses agrees with it.              *)
(***************************************************************************)
EXTENDS AcyclicityCheck, TLAPS, FiniteSetTheorems, WellFoundedInduction

\* The inductive invariant: the map left over is the restriction of the graph to
\* the nodes without a rank, and what has a rank is ordered.
Inv == TypeOK /\ RestrictedGraph /\ RankedIffRemoved /\ DependersFirst

\* A round turns the restriction of the graph to the nodes left into the one to
\* the nodes left after it.
LEMMA RoundRestricts ==
    ASSUME Inv, removeLeaves
    PROVE  /\ DOMAIN nodeDependers' = DOMAIN nodeDependers \ leafNodes(nodeDependers)
           /\ \A n \in DOMAIN nodeDependers' :
                 nodeDependers'[n] = graph[n] \cap DOMAIN nodeDependers'
<1>1. nodeDependers' = [n \in DOMAIN nodeDependers \ leafNodes(nodeDependers) |->
                           nodeDependers[n] \ leafNodes(nodeDependers)]
  BY DEF removeLeaves, remainingNodeDependers
<1>2. \A n \in DOMAIN nodeDependers : nodeDependers[n] = graph[n] \cap DOMAIN nodeDependers
  BY DEF Inv, RestrictedGraph
<1>3. leafNodes(nodeDependers) \subseteq DOMAIN nodeDependers
  BY DEF leafNodes
<1> QED
  BY <1>1, <1>2, <1>3

\* The check starts in the invariant.
LEMMA InitInv == Init => Inv
<1> SUFFICES ASSUME Init PROVE Inv
  OBVIOUS
<1>1. TypeOK
  BY DEF Init, TypeOK
<1>2. DOMAIN nodeDependers = Node
  BY DEF Init
<1>3. RestrictedGraph
  <2>1. \A n \in Node : graph[n] \cap Node = graph[n]
    BY DEF Init
  <2>2. nodeDependers = [n \in Node |-> graph[n]]
    BY DEF Init
  <2> QED
    BY <1>2, <2>1, <2>2 DEF RestrictedGraph
<1>4. RankedIffRemoved /\ DependersFirst
  BY <1>2 DEF Init, RankedIffRemoved, DependersFirst
<1> QED
  BY <1>1, <1>3, <1>4 DEF Inv

\* Every round keeps it.
LEMMA NextInv == Inv /\ [Next]_vars => Inv'
<1> SUFFICES ASSUME Inv, [Next]_vars PROVE Inv'
  OBVIOUS
<1>1. CASE succeed
  BY <1>1 DEF succeed, Inv, TypeOK, RestrictedGraph, RankedIffRemoved, DependersFirst
<1>2. CASE giveUp
  BY <1>2 DEF giveUp, Inv, TypeOK, RestrictedGraph, RankedIffRemoved, DependersFirst
<1>3. CASE removeLeaves
  <2>1. /\ DOMAIN nodeDependers' = DOMAIN nodeDependers \ leafNodes(nodeDependers)
        /\ \A n \in DOMAIN nodeDependers' :
              nodeDependers'[n] = graph[n] \cap DOMAIN nodeDependers'
    BY <1>3, RoundRestricts
  <2>2. nodeDependers' = [n \in DOMAIN nodeDependers' |-> nodeDependers'[n]]
    BY <1>3 DEF removeLeaves, remainingNodeDependers
  <2>3. graph' = graph /\ graph \in [Node -> SUBSET Node] /\ round \in Nat \ {0}
        /\ round' = round + 1 /\ rank \in [Node -> Nat]
        /\ DOMAIN nodeDependers \subseteq Node
    BY <1>3 DEF removeLeaves, Inv, TypeOK
  <2>4. TypeOK'
    <3>1. nodeDependers' \in [DOMAIN nodeDependers' -> SUBSET Node]
      BY <2>1, <2>2, <2>3
    <3>2. rank' \in [Node -> Nat]
      BY <1>3, <2>3 DEF removeLeaves
    <3> QED
      BY <1>3, <2>1, <2>3, <3>1, <3>2 DEF removeLeaves, Inv, TypeOK
  <2>5. RestrictedGraph'
    BY <2>1, <2>2, <2>3 DEF RestrictedGraph
  <2>6. \A n \in Node : rank'[n] = IF n \in leafNodes(nodeDependers) THEN round ELSE rank[n]
    BY <1>3 DEF removeLeaves
  <2>7. RankedIffRemoved'
    BY <2>1, <2>3, <2>6 DEF RankedIffRemoved, Inv, leafNodes
  <2>8. DependersFirst'
    <3> SUFFICES ASSUME NEW n \in Node, rank'[n] # 0, NEW d \in graph[n]
                 PROVE  rank'[d] # 0 /\ rank'[d] < rank'[n]
      BY <2>3 DEF DependersFirst
    <3>1. d \in Node
      BY <2>3
    <3>2. CASE n \in leafNodes(nodeDependers)
      <4>1. nodeDependers[n] = {} /\ n \in DOMAIN nodeDependers
        BY <3>2 DEF leafNodes
      <4>2. graph[n] \cap DOMAIN nodeDependers = {}
        BY <4>1 DEF Inv, RestrictedGraph
      <4>3. d \notin DOMAIN nodeDependers /\ d \notin leafNodes(nodeDependers)
        BY <4>2 DEF leafNodes
      <4>4. rank[d] # 0 /\ rank[d] < round
        BY <3>1, <4>3 DEF Inv, RankedIffRemoved
      <4> QED
        BY <2>6, <3>1, <3>2, <4>3, <4>4
    <3>3. CASE n \notin leafNodes(nodeDependers)
      <4>1. rank[n] # 0
        BY <2>6, <3>3
      <4>2. rank[d] # 0 /\ rank[d] < rank[n]
        BY <4>1 DEF Inv, DependersFirst
      <4>3. d \notin leafNodes(nodeDependers)
        BY <3>1, <4>2 DEF Inv, RankedIffRemoved, leafNodes
      <4> QED
        BY <2>6, <3>1, <3>3, <4>2, <4>3
    <3> QED
      BY <3>2, <3>3
  <2> QED
    BY <2>4, <2>5, <2>7, <2>8 DEF Inv
<1>4. CASE UNCHANGED vars
  BY <1>4 DEF vars, Inv, TypeOK, RestrictedGraph, RankedIffRemoved, DependersFirst
<1> QED
  BY <1>1, <1>2, <1>3, <1>4 DEF Next

\* The algorithm of isAcyclic keeps the restriction of the graph and removes
\* dependers before dependees, for every graph.
THEOREM InvHolds == Spec => []Inv
  BY InitInv, NextInv, PTL DEF Spec

\* The verdicts follow from the invariant at the step that gives them.
LEMMA VerdictStep ==
    Inv /\ AcceptedIsOrdered /\ RejectedHasCore /\ [Next]_vars
        => AcceptedIsOrdered' /\ RejectedHasCore'
<1> SUFFICES ASSUME Inv, AcceptedIsOrdered, RejectedHasCore, [Next]_vars
             PROVE  AcceptedIsOrdered' /\ RejectedHasCore'
  OBVIOUS
<1>1. CASE succeed
  <2>1. \A n \in Node : rank[n] # 0
    BY <1>1 DEF succeed, Inv, RankedIffRemoved
  <2> QED
    BY <1>1, <2>1 DEF succeed, Inv, DependersFirst, AcceptedIsOrdered, RejectedHasCore
<1>2. CASE giveUp
  <2> DEFINE core == DOMAIN nodeDependers
  <2>1. core \in (SUBSET Node) \ {{}}
    BY <1>2 DEF giveUp, Inv, TypeOK
  <2>2. ASSUME NEW n \in core PROVE graph[n] \cap core # {}
    <3>1. nodeDependers[n] # {}
      BY <1>2, <2>2 DEF giveUp, leafNodes
    <3> QED
      BY <2>2, <3>1 DEF Inv, RestrictedGraph
  <2> QED
    BY <1>2, <2>1, <2>2 DEF giveUp, AcceptedIsOrdered, RejectedHasCore
<1>3. CASE removeLeaves
  BY <1>3 DEF removeLeaves, AcceptedIsOrdered, RejectedHasCore
<1>4. CASE UNCHANGED vars
  BY <1>4 DEF vars, AcceptedIsOrdered, RejectedHasCore
<1> QED
  BY <1>1, <1>2, <1>3, <1>4 DEF Next

\* An accepted graph has a topological order: CheckAcyclicity lets no circular
\* wait between nodes through.
THEOREM AcceptedIsOrderedHolds == Spec => []AcceptedIsOrdered
<1>1. Init => AcceptedIsOrdered /\ RejectedHasCore
  BY DEF Init, AcceptedIsOrdered, RejectedHasCore
<1> QED
  BY <1>1, InvHolds, VerdictStep, PTL DEF Spec

\* A rejected graph contains a set of nodes that can never be peeled: no
\* resolvable topology is turned down by CheckAcyclicity for its node graph.
THEOREM RejectedHasCoreHolds == Spec => []RejectedHasCore
<1>1. Init => AcceptedIsOrdered /\ RejectedHasCore
  BY DEF Init, AcceptedIsOrdered, RejectedHasCore
<1> QED
  BY <1>1, InvHolds, VerdictStep, PTL DEF Spec

(***************************************************************************)
(* Induction on natural numbers, for a property that is given as a set.    *)
(***************************************************************************)

\* A non-empty set of natural numbers has a least element.
LEMMA LeastNumber ==
    ASSUME NEW T \in SUBSET Nat, T # {}
    PROVE  \E x \in T : \A y \in T : x <= y
<1>1. \E x \in T : \A y \in T : ~(<<y, x>> \in OpToRel(<, Nat))
  BY NatLessThanWellFounded, WFMin, Zenon
<1>2. PICK x \in T : \A y \in T : ~(<<y, x>> \in OpToRel(<, Nat))
  BY <1>1
<1>3. \A y \in T : ~(y < x)
  BY <1>2 DEF OpToRel
<1> QED
  BY <1>3

\* A set that has 0 and the successors of its elements has all natural numbers.
LEMMA SetInduction ==
    ASSUME NEW T, 0 \in T, \A n \in Nat : n \in T => n + 1 \in T
    PROVE  \A n \in Nat : n \in T
<1> DEFINE Rest == {n \in Nat : n \notin T}
<1>1. SUFFICES ASSUME Rest # {} PROVE FALSE
  OBVIOUS
<1>2. PICK x \in Rest : \A y \in Rest : x <= y
  BY <1>1, LeastNumber
<1>3. x \in Nat /\ x # 0 /\ x - 1 \in Nat /\ x - 1 \in T
  BY <1>2
<1>4. (x - 1) + 1 \in T
  BY <1>3
<1> QED
  BY <1>2, <1>3, <1>4

(***************************************************************************)
(* What the nodes of a rejected graph reach.                               *)
(***************************************************************************)

Reached(g, x) == {y \in Node : Reaches(g, x, y)}

\* A set of nodes in which everybody leads to somebody has a node that reaches
\* itself: otherwise every step leads to a node that reaches fewer nodes.
LEMMA CoreHasCycle ==
    ASSUME NEW g \in [Node -> SUBSET Node], NEW core \in (SUBSET Node) \ {{}},
           \A n \in core : g[n] \cap core # {}
    PROVE  \E n \in Node : Reaches(g, n, n)
<1> SUFFICES ASSUME \A n \in Node : ~Reaches(g, n, n) PROVE FALSE
  OBVIOUS
<1>1. \A x \in Node : \A y \in g[x] : y \in Node /\ Reached(g, y) \subseteq Reached(g, x)
  <2> SUFFICES ASSUME NEW x \in Node, NEW y \in g[x], NEW z \in Node, Reaches(g, y, z),
                      NEW S \in SUBSET Node, g[x] \subseteq S, Closed(g, S)
               PROVE  z \in S
    BY DEF Reached, Reaches
  <2>1. g[y] \subseteq S
    BY DEF Closed
  <2> QED
    BY <2>1 DEF Reaches
<1>2. \A x \in Node : \A y \in g[x] : y \in Reached(g, x) /\ y \notin Reached(g, y)
  BY DEF Reached, Reaches
<1>3. \A x \in Node : IsFiniteSet(Reached(g, x)) /\ Cardinality(Reached(g, x)) \in Nat
  BY NodeAssumption, FS_Subset, FS_CardinalityType DEF Reached
<1>4. ASSUME NEW x \in Node, NEW y \in g[x]
      PROVE  Cardinality(Reached(g, y)) < Cardinality(Reached(g, x))
  <2>1. /\ Reached(g, y) \in SUBSET Reached(g, x) /\ Reached(g, y) # Reached(g, x)
        /\ y \in Node
    BY <1>1, <1>2, <1>4
  <2>2. /\ Cardinality(Reached(g, y)) <= Cardinality(Reached(g, x))
        /\ Cardinality(Reached(g, x)) # Cardinality(Reached(g, y))
    BY <1>3, <2>1, FS_Subset
  <2> QED
    BY <1>3, <2>1, <2>2
<1> DEFINE sizes == {Cardinality(Reached(g, x)) : x \in core}
<1>5. sizes \in SUBSET Nat /\ sizes # {}
  BY <1>3
<1>6. PICK s \in sizes : \A r \in sizes : s <= r
  BY <1>5, LeastNumber
<1>7. PICK x \in core : s = Cardinality(Reached(g, x))
  OBVIOUS
<1>8. PICK y \in g[x] : y \in core
  OBVIOUS
<1>9. Cardinality(Reached(g, y)) < Cardinality(Reached(g, x))
  BY <1>4
<1>10. Cardinality(Reached(g, x)) <= Cardinality(Reached(g, y))
  BY <1>6, <1>7, <1>8
<1> HIDE DEF sizes
<1> QED
  BY <1>1, <1>3, <1>8, <1>9, <1>10

\* In a graph with an order no node reaches itself: what comes earlier is closed.
LEMMA OrderHasNoCycle ==
    ASSUME NEW g \in [Node -> SUBSET Node], NEW r \in [Node -> Nat],
           \A n \in Node : \A d \in g[n] : r[d] < r[n], NEW n \in Node
    PROVE  ~Reaches(g, n, n)
<1> DEFINE S == {m \in Node : r[m] < r[n]}
<1>1. S \in SUBSET Node /\ g[n] \subseteq S /\ n \notin S
  OBVIOUS
<1>2. Closed(g, S)
  BY DEF Closed
<1> HIDE DEF S
<1> QED
  BY <1>1, <1>2 DEF Reaches

(***************************************************************************)
(* The rounds of the operator isAcyclic.                                   *)
(***************************************************************************)

Rounds(g, n, f) ==
    f = [i \in 0..n |-> IF i = 0 THEN g ELSE remainingNodeDependers(f[i-1])]

\* The recursion defines a function, for every number of rounds.
LEMMA RoundsExist ==
    ASSUME NEW g
    PROVE  \A n \in Nat : \E f : Rounds(g, n, f)
<1> DEFINE T == {n \in Nat : \E f : Rounds(g, n, f)}
<1>1. 0 \in T
  <2> DEFINE f == [i \in 0..0 |-> g]
  <2>1. f = [i \in 0..0 |-> IF i = 0 THEN g ELSE remainingNodeDependers(f[i-1])]
    OBVIOUS
  <2> HIDE DEF f
  <2> QED
    BY <2>1 DEF Rounds
<1>2. ASSUME NEW n \in Nat, n \in T PROVE n + 1 \in T
  <2>1. PICK f : Rounds(g, n, f)
    BY <1>2
  <2> DEFINE h == [i \in 0..(n+1) |-> IF i = n + 1 THEN remainingNodeDependers(f[n]) ELSE f[i]]
  <2>2. \A i \in 0..(n+1) : h[i] = IF i = 0 THEN g ELSE remainingNodeDependers(h[i-1])
    <3> TAKE i \in 0..(n+1)
    <3>1. CASE i = n + 1
      <4>1. h[i-1] = f[n] /\ i # 0
        BY <3>1
      <4> QED
        BY <3>1, <4>1
    <3>2. CASE i # n + 1
      <4>1. i \in 0..n /\ h[i] = f[i]
        BY <3>2
      <4>2. f[i] = IF i = 0 THEN g ELSE remainingNodeDependers(f[i-1])
        BY <2>1, <4>1 DEF Rounds
      <4>3. i # 0 => h[i-1] = f[i-1]
        BY <4>1
      <4> QED
        BY <4>1, <4>2, <4>3
    <3> QED
      BY <3>1, <3>2
  <2>3. h = [i \in 0..(n+1) |-> h[i]]
    OBVIOUS
  <2>4. h = [i \in 0..(n+1) |-> IF i = 0 THEN g ELSE remainingNodeDependers(h[i-1])]
    <3> HIDE DEF h
    <3> QED
      BY <2>2, <2>3
  <2>5. Rounds(g, n + 1, h)
    <3> HIDE DEF h
    <3> QED
      BY <2>4 DEF Rounds
  <2> HIDE DEF h
  <2> QED
    BY <2>5
<1>3. \A n \in Nat : n \in T
  <2> HIDE DEF T
  <2> QED
    BY <1>1, <1>2, SetInduction
<1> QED
  BY <1>3

\* So isAcyclic looks at what is left after as many rounds as there are nodes.
LEMMA LastRound ==
    ASSUME NEW g \in [Node -> SUBSET Node]
    PROVE  \E f : /\ f[0] = g
                  /\ \A i \in Nat : i < Cardinality(Node) =>
                         f[i+1] = remainingNodeDependers(f[i])
                  /\ isAcyclic(g) = (DOMAIN f[Cardinality(Node)] = {})
<1> DEFINE n == Cardinality(Node)
           f == CHOOSE h : Rounds(g, n, h)
<1>1. n \in Nat
  BY NodeAssumption, FS_CardinalityType
<1>2. Rounds(g, n, f)
  BY <1>1, RoundsExist
<1>3. isAcyclic(g) = (DOMAIN f[n] = {})
  <2>1. DOMAIN g = Node
    OBVIOUS
  <2> QED
    BY <2>1 DEF isAcyclic, Rounds
<1>4. f[0] = g
  <2> HIDE DEF f
  <2> QED
    BY <1>1, <1>2 DEF Rounds
<1>5. ASSUME NEW i \in Nat, i < n PROVE f[i+1] = remainingNodeDependers(f[i])
  <2>1. i + 1 \in 0..n /\ i + 1 # 0 /\ (i + 1) - 1 = i
    BY <1>1, <1>5
  <2> HIDE DEF f, n
  <2> QED
    BY <1>2, <2>1 DEF Rounds
<1> HIDE DEF f
<1> QED
  BY <1>3, <1>4, <1>5

\* What is left after a round is a restriction of the graph.
Restriction(g, h) ==
    /\ DOMAIN h \subseteq Node
    /\ \A n \in DOMAIN h : h[n] = g[n] \cap DOMAIN h

LEMMA RestrictionKept ==
    ASSUME NEW g \in [Node -> SUBSET Node], NEW h, Restriction(g, h)
    PROVE  /\ Restriction(g, remainingNodeDependers(h))
           /\ DOMAIN remainingNodeDependers(h) = DOMAIN h \ leafNodes(h)
<1>1. /\ DOMAIN remainingNodeDependers(h) = DOMAIN h \ leafNodes(h)
      /\ \A n \in DOMAIN h \ leafNodes(h) : remainingNodeDependers(h)[n] = h[n] \ leafNodes(h)
  BY DEF remainingNodeDependers
<1> QED
  BY <1>1 DEF Restriction, leafNodes

\* The rounds of isAcyclic never remove a node of a set in which everybody leads
\* to somebody.
LEMMA CoreIsLeft ==
    ASSUME NEW g \in [Node -> SUBSET Node], NEW core \in (SUBSET Node) \ {{}},
           \A n \in core : g[n] \cap core # {}
    PROVE  ~isAcyclic(g)
<1>1. PICK f : /\ f[0] = g
               /\ \A i \in Nat : i < Cardinality(Node) => f[i+1] = remainingNodeDependers(f[i])
               /\ isAcyclic(g) = (DOMAIN f[Cardinality(Node)] = {})
  BY LastRound
<1> DEFINE P(i) == i <= Cardinality(Node) => Restriction(g, f[i]) /\ core \subseteq DOMAIN f[i]
           T == {i \in Nat : P(i)}
<1>2. Cardinality(Node) \in Nat
  BY NodeAssumption, FS_CardinalityType
<1>3. 0 \in T
  BY <1>1 DEF Restriction
<1>4. ASSUME NEW i \in Nat, i \in T PROVE i + 1 \in T
  <2> SUFFICES ASSUME i + 1 <= Cardinality(Node)
               PROVE  Restriction(g, f[i+1]) /\ core \subseteq DOMAIN f[i+1]
    OBVIOUS
  <2>1. Restriction(g, f[i]) /\ core \subseteq DOMAIN f[i]
    BY <1>2, <1>4
  <2>2. f[i+1] = remainingNodeDependers(f[i])
    BY <1>1, <1>2
  <2>3. core \cap leafNodes(f[i]) = {}
    BY <2>1 DEF Restriction, leafNodes
  <2> QED
    BY <2>1, <2>2, <2>3, RestrictionKept
<1>5. \A i \in Nat : i \in T
  <2> HIDE DEF T
  <2> QED
    BY <1>3, <1>4, SetInduction
<1>6. core \subseteq DOMAIN f[Cardinality(Node)]
  BY <1>2, <1>5
<1> QED
  BY <1>1, <1>6

\* In a graph with an order every round of isAcyclic removes a node, so that none
\* is left in the end.
LEMMA OrderIsPeeled ==
    ASSUME NEW g \in [Node -> SUBSET Node], NEW r \in [Node -> Nat],
           \A n \in Node : \A d \in g[n] : r[d] < r[n]
    PROVE  isAcyclic(g)
<1> DEFINE N == Cardinality(Node)
<1>1. PICK f : /\ f[0] = g
               /\ \A i \in Nat : i < N => f[i+1] = remainingNodeDependers(f[i])
               /\ isAcyclic(g) = (DOMAIN f[N] = {})
  BY LastRound
<1>2. N \in Nat
  BY NodeAssumption, FS_CardinalityType
<1>3. \A h : Restriction(g, h) =>
               IsFiniteSet(DOMAIN h) /\ Cardinality(DOMAIN h) \in Nat
  BY NodeAssumption, FS_Subset, FS_CardinalityType DEF Restriction
<1>4. ASSUME NEW h, Restriction(g, h), DOMAIN h # {} PROVE leafNodes(h) # {}
  <2> DEFINE ranks == {r[n] : n \in DOMAIN h}
  <2>1. ranks \in SUBSET Nat /\ ranks # {}
    BY <1>4 DEF Restriction
  <2>2. PICK s \in ranks : \A q \in ranks : s <= q
    BY <2>1, LeastNumber
  <2>3. PICK n \in DOMAIN h : s = r[n]
    OBVIOUS
  <2>4. n \in Node /\ r[n] \in Nat
    BY <1>4 DEF Restriction
  <2>5. ASSUME NEW d \in g[n], d \in DOMAIN h PROVE FALSE
    <3>1. r[d] < r[n] /\ d \in Node /\ r[d] \in Nat
      BY <2>4
    <3>2. r[n] <= r[d]
      BY <2>2, <2>3, <2>5
    <3> QED
      BY <2>4, <3>1, <3>2
  <2>6. h[n] = {}
    BY <1>4, <2>3, <2>5 DEF Restriction
  <2> QED
    BY <2>6 DEF leafNodes
<1> DEFINE P(i) == i <= N => Restriction(g, f[i]) /\ Cardinality(DOMAIN f[i]) <= N - i
           T == {i \in Nat : P(i)}
<1>5. 0 \in T
  <2>1. DOMAIN f[0] = Node /\ Restriction(g, f[0])
    BY <1>1 DEF Restriction
  <2> QED
    BY <1>2, <2>1
<1>6. ASSUME NEW i \in Nat, i \in T PROVE i + 1 \in T
  <2> SUFFICES ASSUME i + 1 <= N
               PROVE  Restriction(g, f[i+1]) /\ Cardinality(DOMAIN f[i+1]) <= N - (i + 1)
    OBVIOUS
  <2>1. i <= N /\ i < N /\ Restriction(g, f[i]) /\ Cardinality(DOMAIN f[i]) <= N - i
    BY <1>2, <1>6
  <2>2. f[i+1] = remainingNodeDependers(f[i])
    BY <1>1, <2>1
  <2>3. Restriction(g, f[i+1]) /\ DOMAIN f[i+1] = DOMAIN f[i] \ leafNodes(f[i])
    BY <2>1, <2>2, RestrictionKept
  <2>4. CASE DOMAIN f[i] = {}
    <3>1. DOMAIN f[i+1] = {}
      BY <2>3, <2>4
    <3>2. Cardinality(DOMAIN f[i+1]) = 0
      BY <3>1, FS_EmptySet
    <3> QED
      BY <1>2, <2>1, <2>3, <3>2
  <2>5. CASE DOMAIN f[i] # {}
    <3>1. leafNodes(f[i]) # {} /\ leafNodes(f[i]) \subseteq DOMAIN f[i]
      BY <1>4, <2>1, <2>5 DEF leafNodes
    <3>2. DOMAIN f[i+1] \in SUBSET DOMAIN f[i] /\ DOMAIN f[i+1] # DOMAIN f[i]
      BY <2>3, <3>1
    <3>3. /\ Cardinality(DOMAIN f[i+1]) <= Cardinality(DOMAIN f[i])
          /\ Cardinality(DOMAIN f[i]) # Cardinality(DOMAIN f[i+1])
      BY <1>3, <2>1, <3>2, FS_Subset
    <3>4. Cardinality(DOMAIN f[i]) \in Nat /\ Cardinality(DOMAIN f[i+1]) \in Nat
      BY <1>3, <2>1, <2>3
    <3> QED
      BY <1>2, <2>1, <2>3, <3>3, <3>4
  <2> QED
    BY <2>4, <2>5
<1>7. \A i \in Nat : i \in T
  <2> HIDE DEF T
  <2> QED
    BY <1>5, <1>6, SetInduction
<1>8. Restriction(g, f[N]) /\ Cardinality(DOMAIN f[N]) <= N - N
  BY <1>2, <1>7
<1>9. Cardinality(DOMAIN f[N]) = 0
  BY <1>2, <1>3, <1>8
<1>10. DOMAIN f[N] = {}
  BY <1>3, <1>8, <1>9, FS_EmptySet
<1> QED
  BY <1>1, <1>10

\* The verdict of the round by round check is right: it accepts a graph exactly if
\* no node reaches itself, and exactly if the operator isAcyclic does, for every
\* finite set of nodes and every graph.
THEOREM VerdictIsRightHolds == Spec => []VerdictIsRight
<1>1. Inv /\ AcceptedIsOrdered /\ RejectedHasCore => VerdictIsRight
  <2> SUFFICES ASSUME Inv, AcceptedIsOrdered, RejectedHasCore, verdict # "unknown"
               PROVE  /\ (verdict = "acyclic") = ReferenceAcyclic
                      /\ (verdict = "acyclic") = isAcyclic(graph)
    BY DEF VerdictIsRight
  <2>1. graph \in [Node -> SUBSET Node] /\ rank \in [Node -> Nat]
    BY DEF Inv, TypeOK
  <2>2. CASE verdict = "acyclic"
    <3>1. \A n \in Node : \A d \in graph[n] : rank[d] < rank[n]
      BY <2>2 DEF AcceptedIsOrdered
    <3>2. ReferenceAcyclic
      BY <2>1, <3>1, OrderHasNoCycle DEF ReferenceAcyclic
    <3>3. isAcyclic(graph)
      BY <2>1, <3>1, OrderIsPeeled
    <3>4. ReferenceAcyclic = TRUE /\ isAcyclic(graph) = TRUE
      <4>1. ReferenceAcyclic \in BOOLEAN /\ isAcyclic(graph) \in BOOLEAN
        BY DEF ReferenceAcyclic, isAcyclic
      <4> QED
        BY <3>2, <3>3, <4>1
    <3> QED
      BY <2>2, <3>4
  <2>3. CASE verdict = "cyclic"
    <3>1. PICK core \in (SUBSET Node) \ {{}} : \A n \in core : graph[n] \cap core # {}
      BY <2>3 DEF RejectedHasCore
    <3>2. ~ReferenceAcyclic
      BY <2>1, <3>1, CoreHasCycle DEF ReferenceAcyclic
    <3>3. ~isAcyclic(graph)
      BY <2>1, <3>1, CoreIsLeft
    <3>4. ReferenceAcyclic = FALSE /\ isAcyclic(graph) = FALSE
      <4>1. ReferenceAcyclic \in BOOLEAN /\ isAcyclic(graph) \in BOOLEAN
        BY DEF ReferenceAcyclic, isAcyclic
      <4> QED
        BY <3>2, <3>3, <4>1
    <3> QED
      BY <2>3, <3>4
  <2> QED
    BY <2>2, <2>3 DEF Inv, TypeOK
<1> QED
  BY <1>1, InvHolds, AcceptedIsOrderedHolds, RejectedHasCoreHolds, PTL
=============================================================================
