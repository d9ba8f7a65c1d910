--------------------------- MODULE LabLinksProofs ---------------------------

(***************************************************************************)
(* The links of a lab for every topology, filter, sequence of commands and *)
(* failures: no interface of the host is removed, a deployment that succeeded*)
(* is wired, and a destroy clears the host of the links.                   *)
(***************************************************************************)

EXTENDS LabLinks, NaturalsInduction, WellFoundedInduction, FiniteSetTheorems, TLAPS

(***************************************************************************)
(* What FlattenSeq makes: the elements of the sequences, by induction on their*)
(* number as a set of numbers.                                             *)
(***************************************************************************)

\* A set that has 1 and the successors of its elements up to n has all numbers up to n.
LEMMA SetInduction ==
    ASSUME NEW T, NEW n \in Nat, 1 \in T, \A i \in 1..n : i < n /\ i \in T => i + 1 \in T
    PROVE  \A i \in 1..n : i \in T
<1> DEFINE Rest == {i \in 1..n : i \notin T}
<1>1. SUFFICES ASSUME Rest # {} PROVE FALSE
  OBVIOUS
<1>2. Rest \in SUBSET Nat
  OBVIOUS
<1> HIDE DEF Rest
<1>3. \E x \in Rest : \A y \in Rest : ~(<<y, x>> \in OpToRel(<, Nat))
  BY <1>1, <1>2, NatLessThanWellFounded, WFMin, Zenon
<1>4. PICK x \in Rest : \A y \in Rest : ~(<<y, x>> \in OpToRel(<, Nat))
  BY <1>3
<1>5. \A y \in Rest : ~(y < x)
  BY <1>2, <1>4 DEF OpToRel
<1>6. x \in 1..n /\ x # 1 /\ x - 1 \in 1..n /\ x - 1 < n /\ x - 1 \in T
  BY <1>5 DEF Rest
<1>7. (x - 1) + 1 \in T
  BY <1>6
<1> QED BY <1>6, <1>7 DEF Rest

\* f holds what FlattenSeq has put together after each of the first n sequences.
Flattening(ss, n, f) == f = [i \in 1..n |-> IF i = 1 THEN ss[i] ELSE f[i-1] \o ss[i]]

\* The recursion of FlattenSeq defines a function.
LEMMA FlatteningExists ==
    ASSUME NEW ss, NEW m \in Nat, m # 0
    PROVE  \E f : Flattening(ss, m, f)
<1> DEFINE T == {n \in Nat : \E f : Flattening(ss, n, f)}
           Join(g, i) == g \o ss[i]
<1>1. 1 \in T
  <2> DEFINE f == [i \in 1..1 |-> ss[i]]
  <2>1. f = [i \in 1..1 |-> IF i = 1 THEN ss[i] ELSE Join(f[i-1], i)]
    <3> HIDE DEF Join
    <3> QED OBVIOUS
  <2> HIDE DEF f
  <2> QED BY <2>1 DEF Flattening
<1>2. ASSUME NEW n \in 1..m, n \in T PROVE n + 1 \in T
  <2>1. PICK f : Flattening(ss, n, f)
    BY <1>2
  <2>2. f = [i \in 1..n |-> IF i = 1 THEN ss[i] ELSE Join(f[i-1], i)]
    BY <2>1 DEF Flattening
  <2> DEFINE h == [i \in 1..(n+1) |-> IF i = n + 1 THEN Join(f[n], n + 1) ELSE f[i]]
  <2> HIDE DEF Join
  <2>3. \A i \in 1..(n+1) : h[i] = IF i = 1 THEN ss[i] ELSE Join(h[i-1], i)
    <3> TAKE i \in 1..(n+1)
    <3>1. CASE i = n + 1
      <4>1. h[i-1] = f[n] /\ i # 1
        BY <3>1
      <4> QED BY <3>1, <4>1
    <3>2. CASE i # n + 1
      <4>1. i \in 1..n /\ h[i] = f[i]
        BY <3>2
      <4>2. f[i] = IF i = 1 THEN ss[i] ELSE Join(f[i-1], i)
        BY <2>2, <4>1
      <4>3. i # 1 => h[i-1] = f[i-1]
        BY <4>1
      <4> QED BY <4>1, <4>2, <4>3
    <3> QED BY <3>1, <3>2
  <2>4. h = [i \in 1..(n+1) |-> h[i]]
    OBVIOUS
  <2> HIDE DEF h
  <2>5. h = [i \in 1..(n+1) |-> IF i = 1 THEN ss[i] ELSE Join(h[i-1], i)]
    BY <2>3, <2>4
  <2>6. Flattening(ss, n + 1, h)
    BY <2>5 DEF Flattening, Join
  <2> QED BY <2>6
<1>3. m \in T
  <2> HIDE DEF T
  <2>1. \A i \in 1..m : i \in T
    BY <1>1, <1>2, SetInduction
  <2> QED BY <2>1
<1> QED BY <1>3

\* The elements of a concatenation.
LEMMA ConcatElements ==
    ASSUME NEW S, NEW s \in Seq(S), NEW t \in Seq(S)
    PROVE  s \o t \in Seq(S) /\ ToSet(s \o t) = ToSet(s) \cup ToSet(t)
<1>1. /\ s \o t \in Seq(S) /\ Len(s \o t) = Len(s) + Len(t) /\ Len(s) \in Nat /\ Len(t) \in Nat
      /\ \A i \in 1..(Len(s) + Len(t)) :
            (s \o t)[i] = IF i <= Len(s) THEN s[i] ELSE t[i - Len(s)]
      /\ DOMAIN s = 1..Len(s) /\ DOMAIN t = 1..Len(t)
      /\ DOMAIN (s \o t) = 1..(Len(s) + Len(t))
  OBVIOUS
<1>2. ASSUME NEW x \in ToSet(s) PROVE x \in ToSet(s \o t)
  <2>1. PICK i \in 1..Len(s) : x = s[i]
    BY <1>1, <1>2 DEF ToSet
  <2>2. i \in 1..(Len(s) + Len(t)) /\ (s \o t)[i] = x
    BY <1>1, <2>1
  <2> QED BY <1>1, <2>2 DEF ToSet
<1>3. ASSUME NEW x \in ToSet(t) PROVE x \in ToSet(s \o t)
  <2>1. PICK i \in 1..Len(t) : x = t[i]
    BY <1>1, <1>3 DEF ToSet
  <2>2. i + Len(s) \in 1..(Len(s) + Len(t)) /\ (s \o t)[i + Len(s)] = x
    BY <1>1, <2>1
  <2> QED BY <1>1, <2>2 DEF ToSet
<1>4. ASSUME NEW x \in ToSet(s \o t) PROVE x \in ToSet(s) \cup ToSet(t)
  <2>1. PICK i \in 1..(Len(s) + Len(t)) : x = (s \o t)[i]
    BY <1>1, <1>4 DEF ToSet
  <2>2. i <= Len(s) \/ i - Len(s) \in 1..Len(t)
    BY <1>1
  <2> QED BY <1>1, <2>1, <2>2 DEF ToSet
<1> QED BY <1>1, <1>2, <1>3, <1>4

\* The elements of a flattened sequence.
LEMMA FlattenElements ==
    ASSUME NEW S, NEW ss, NEW n \in Nat, DOMAIN ss = 1..n, Len(ss) = n, ss \in Seq(Seq(S))
    PROVE  /\ FlattenSeq(ss) \in Seq(S)
           /\ ToSet(FlattenSeq(ss)) = UNION {ToSet(ss[i]) : i \in 1..n}
<1>1. CASE n = 0
  <2>1. ss = <<>> /\ FlattenSeq(ss) = ss
    BY <1>1 DEF FlattenSeq
  <2>2. ToSet(ss) = {}
    BY <1>1 DEF ToSet
  <2>3. 1..n = {} /\ ss \in Seq(S)
    BY <1>1, <2>1
  <2>4. UNION {ToSet(ss[i]) : i \in 1..n} = {}
    BY <2>3, Zenon
  <2> QED BY <2>1, <2>2, <2>3, <2>4
<1>2. CASE n # 0
  <2> DEFINE f == CHOOSE g : Flattening(ss, n, g)
  <2>1. Flattening(ss, n, f)
    BY <1>2, FlatteningExists
  <2>2. FlattenSeq(ss) = f[n]
    BY <1>2 DEF FlattenSeq, Flattening
  <2> HIDE DEF f
  <2>3. \A i \in 1..n : f[i] = IF i = 1 THEN ss[i] ELSE f[i-1] \o ss[i]
    BY <2>1 DEF Flattening
  <2> DEFINE T == {i \in 1..n : /\ f[i] \in Seq(S)
                                /\ ToSet(f[i]) = UNION {ToSet(ss[j]) : j \in 1..i}}
  <2>4. 1 \in T
    <3>1. f[1] = ss[1] /\ 1 \in 1..n /\ 1..1 = {1}
      BY <1>2, <2>3
    <3> QED BY <3>1
  <2>5. ASSUME NEW i \in 1..n, i < n, i \in T PROVE i + 1 \in T
    <3>a. i + 1 \in 1..n /\ i + 1 # 1 /\ (i + 1) - 1 = i
      BY <2>5
    <3>b. f[i + 1] = f[(i + 1) - 1] \o ss[i + 1]
      BY <2>3, <3>a, Zenon
    <3>1. i + 1 \in 1..n /\ f[i + 1] = f[i] \o ss[i + 1]
      BY <3>a, <3>b, Zenon
    <3>2. f[i] \in Seq(S) /\ ss[i + 1] \in Seq(S)
      BY <2>5, <3>1
    <3>3. f[i + 1] \in Seq(S) /\ ToSet(f[i + 1]) = ToSet(f[i]) \cup ToSet(ss[i + 1])
      BY <3>1, <3>2, ConcatElements
    <3>4. 1..(i + 1) = (1..i) \cup {i + 1}
      OBVIOUS
    <3>5. ToSet(f[i]) = UNION {ToSet(ss[j]) : j \in 1..i}
      BY <2>5
    <3>6. UNION {ToSet(ss[j]) : j \in 1..(i+1)} = (UNION {ToSet(ss[j]) : j \in 1..i}) \cup ToSet(ss[i+1])
      BY <3>4, Zenon
    <3>7. ToSet(f[i + 1]) = UNION {ToSet(ss[j]) : j \in 1..(i + 1)}
      BY <3>3, <3>5, <3>6, Zenon
    <3> QED BY <3>1, <3>3, <3>7
  <2>6. n \in T
    <3> HIDE DEF T
    <3>1. \A i \in 1..n : i \in T
      BY <2>4, <2>5, SetInduction
    <3> QED BY <1>2, <3>1
  <2> QED BY <2>2, <2>6
<1>3. QED BY <1>1, <1>2

(***************************************************************************)
(* What Resolve makes of a link of the topology file.                      *)
(***************************************************************************)

\* The kinds of object, and the types UnmarshalYAML makes.
Kinds == {"veth", "macvlan", "vxlan", "dummy"}
LinkTypes == {"veth", "host", "mgmt-net", "macvlan", "dummy", "vxlan", "vxlan-stitch"}

\* What UnmarshalYAML makes of a link of the file.
Definition(d) ==
  /\ d.type \in LinkTypes
  /\ DOMAIN d.eps = 1..Len(d.eps)
  /\ Len(d.eps) = IF d.type = "veth" THEN 2 ELSE 1

\* ToTypeSpecificRawLink makes a link of a type, with as many ends as the type wants.
LEMMA DefinitionOfBrief ==
    ASSUME NEW d, d.type = "brief", DOMAIN d.eps = {1, 2}, Len(d.eps) = 2
    PROVE  Definition(UnmarshalYAML(d))
<1> DEFINE S == {"macvlan", "mgmt-net", "host"}
           x == IF d.eps[1].node \in S THEN 1 ELSE 2
           a == [type |-> "veth", eps |-> d.eps, hostIf |-> ""]
           b == [type |-> d.eps[x].node, eps |-> <<d.eps[3 - x]>>, hostIf |-> d.eps[x].iface]
<1>1. UnmarshalYAML(d) = IF d.eps[x].node \notin S THEN a ELSE b
  BY DEF UnmarshalYAML, ToTypeSpecificRawLink
<1>2. Definition(a)
  BY DEF Definition, LinkTypes
<1>3. ASSUME d.eps[x].node \in S PROVE Definition(b)
  <2>1. b.type \in LinkTypes /\ b.type # "veth"
    BY <1>3 DEF LinkTypes
  <2>2. b.eps = <<d.eps[3 - x]>>
    OBVIOUS
  <2>3. DOMAIN b.eps = 1..1 /\ Len(b.eps) = 1
    BY <2>2
  <2> HIDE DEF b
  <2> QED BY <2>1, <2>3 DEF Definition
<1> HIDE DEF a, b, x
<1> QED BY <1>1, <1>2, <1>3

\* The definitions of the file, one per link of the section.
LEMMA DefinitionFact ==
    ASSUME topo \in Topologies
    PROVE  /\ Len(topo) \in Nat /\ DOMAIN Defs = 1..Len(topo) /\ Len(Defs) = Len(topo)
           /\ \A i \in 1..Len(topo) : Definition(Defs[i])
           /\ AllPlaced => \A i \in 1..Len(topo) : Placed(Defs[i])
<1>1. topo \in Seq(ToSet(topo))
  BY TopologyAssumption
<1>2. /\ Len(topo) \in Nat /\ DOMAIN topo = 1..Len(topo)
      /\ \A i \in 1..Len(topo) : topo[i] \in ToSet(topo)
  BY <1>1
<1>3. DOMAIN Defs = 1..Len(topo) /\ Len(Defs) = Len(topo)
      /\ \A i \in 1..Len(topo) : Defs[i] = UnmarshalYAML(topo[i])
  BY <1>2 DEF Defs
<1>4. ASSUME NEW i \in 1..Len(topo) PROVE Definition(Defs[i])
  <2> DEFINE d == topo[i]
  <2>1. /\ d.type \in {"brief", "veth", "host", "mgmt-net", "macvlan", "dummy", "vxlan", "vxlan-stitch"}
        /\ d.eps \in Seq(ToSet(d.eps))
        /\ Len(d.eps) = IF d.type \in {"brief", "veth"} THEN 2 ELSE 1
    BY <1>2, TopologyAssumption
  <2>2. DOMAIN d.eps = 1..Len(d.eps)
    BY <2>1
  <2> HIDE DEF d
  <2>3. CASE d.type = "brief"
    <3>1. Len(d.eps) = 2 /\ DOMAIN d.eps = {1, 2}
      BY <2>1, <2>2, <2>3
    <3> QED BY <1>3, <2>3, <3>1, DefinitionOfBrief DEF d
  <2>4. CASE d.type # "brief"
    <3>1. UnmarshalYAML(d) = d
      BY <2>4 DEF UnmarshalYAML
    <3>2. Definition(d)
      BY <2>1, <2>2, <2>4 DEF Definition, LinkTypes
    <3> QED BY <1>3, <3>1, <3>2 DEF d
  <2> QED BY <2>3, <2>4
<1>5. ASSUME AllPlaced, NEW i \in 1..Len(topo) PROVE Placed(Defs[i])
  BY <1>2, <1>3, <1>5 DEF AllPlaced
<1> QED BY <1>2, <1>3, <1>4, <1>5

EndOf(x, k, d) ==
  /\ x.eps[k].node \in {e.node : e \in ToSet(d.eps)} \cup Singletons
  /\ x.eps[k].name[1] \in {"if", "vx", "ve"}
  /\ x.eps[k].nodeless \in BOOLEAN
  /\ x.kind = "veth" => (x.eps[k].nodeless <=> x.eps[k].node \in Singletons)
  /\ x.kind # "veth" => /\ x.eps[k].node \notin Bridges \cup {"mgmt-net"}
                        /\ x.eps[k].node = "host" => x.kind = "vxlan"

\* An object of link i with definition d.
ObjectOf(x, i, d) ==
  /\ x.link = i /\ x.kind \in Kinds
  /\ Len(x.eps) = IF x.kind = "veth" THEN 2 ELSE 1
  /\ DOMAIN x.eps = 1..Len(x.eps)
  /\ \A k \in 1..Len(x.eps) : EndOf(x, k, d)
  /\ x.kind = "veth" => \E k \in {1, 2} : x.eps[k].node \notin Singletons
  /\ (\A k \in 1..Len(x.eps) : x.eps[k].node \in Bridges) => BridgesOnly(d)
  /\ d.type = "vxlan-stitch" /\ x.kind = "veth" =>
        /\ x.eps[1].node \notin Bridges \cup Singletons
        /\ x.eps[2].name[1] = "ve"

\* The object with two ends, and with one.
LEMMA VethObject ==
    ASSUME NEW i, NEW d, NEW a, NEW b, NEW x, x = Object(i, "veth", <<a, b>>),
           EndOf(x, 1, d), EndOf(x, 2, d),
           a.node \notin Singletons \/ b.node \notin Singletons,
           a.node \in Bridges /\ b.node \in Bridges => BridgesOnly(d),
           d.type = "vxlan-stitch" => a.node \notin Bridges \cup Singletons /\ b.name[1] = "ve"
    PROVE  ObjectOf(x, i, d)
<1>1. x.link = i /\ x.kind = "veth" /\ x.eps = <<a, b>>
  BY DEF Object
<1>2. Len(x.eps) = 2 /\ DOMAIN x.eps = 1..2 /\ x.eps[1] = a /\ x.eps[2] = b
  BY <1>1
<1>3. \A k \in 1..2 : k = 1 \/ k = 2
  OBVIOUS
<1>4. 1 \in 1..2 /\ 2 \in 1..2
  OBVIOUS
<1> QED BY <1>1, <1>2, <1>3, <1>4 DEF ObjectOf, Kinds

\* An object with one end, from what is known of the end.
LEMMA SingleObject ==
    ASSUME NEW i, NEW d, NEW a, NEW x, NEW kind \in Kinds \ {"veth"}, x = Object(i, kind, <<a>>),
           EndOf(x, 1, d)
    PROVE  ObjectOf(x, i, d)
<1>1. x.link = i /\ x.kind = kind /\ x.eps = <<a>>
  BY DEF Object
<1>2. Len(x.eps) = 1 /\ DOMAIN x.eps = 1..1 /\ x.eps[1] = a
  BY <1>1
<1>3. 1 \in 1..1 /\ \A k \in 1..1 : k = 1
  OBVIOUS
<1>4. x.eps[1].node \notin Bridges
  BY <1>1 DEF EndOf
<1> QED BY <1>1, <1>2, <1>3, <1>4 DEF ObjectOf, Kinds

\* A sequence of one element.
LEMMA OneElement ==
    ASSUME NEW x
    PROVE  <<x>> \in Seq({x}) /\ ToSet(<<x>>) = {x}
  BY DEF ToSet

\* A sequence of two elements.
LEMMA TwoElements ==
    ASSUME NEW x, NEW y
    PROVE  <<x>> \o <<y>> \in Seq({x, y}) /\ ToSet(<<x>> \o <<y>>) = {x, y}
<1>1. <<x>> \in Seq({x, y}) /\ <<y>> \in Seq({x, y})
  OBVIOUS
<1>2. ToSet(<<x>>) = {x} /\ ToSet(<<y>>) = {y}
  BY OneElement
<1>3. /\ <<x>> \o <<y>> \in Seq({x, y})
      /\ ToSet(<<x>> \o <<y>>) = ToSet(<<x>>) \cup ToSet(<<y>>)
  BY <1>1, ConcatElements, ZenonT(60)
<1> QED BY <1>2, <1>3, Zenon

\* The endpoint of the file as an end of a link.
LEMMA RawEnd ==
    ASSUME NEW e
    PROVE  /\ EndpointRawResolve(e).node = e.node /\ EndpointRawResolve(e).name[1] = "if"
           /\ EndpointRawResolve(e).nodeless = (e.node = "host")
  BY DEF EndpointRawResolve, NewEndpoint, Name

\* Resolve of a veth makes one object with two ends.
LEMMA ResolveVethFact ==
    ASSUME NEW i, NEW d, d.type = "veth", Definition(d), Placed(d)
    PROVE  \E x : ResolveVeth(i, d) = <<x>> /\ ObjectOf(x, i, d)
<1> DEFINE a == EndpointRawResolve(d.eps[1])
           b == EndpointRawResolve(d.eps[2])
           x == Object(i, "veth", <<a, b>>)
<1>1. ResolveVeth(i, d) = <<x>>
  BY DEF ResolveVeth
<1>2. d.eps[1] \in ToSet(d.eps) /\ d.eps[2] \in ToSet(d.eps)
  BY DEF Definition, ToSet
<1>3. \A e \in ToSet(d.eps) : e = d.eps[1] \/ e = d.eps[2]
  BY DEF Definition, ToSet
<1>4. /\ d.eps[1].node \notin Singletons \/ d.eps[2].node \notin Singletons
      /\ d.eps[1].node # "mgmt-net" /\ d.eps[2].node # "mgmt-net"
  BY <1>2, <1>3 DEF Placed
<1>5. /\ a.node = d.eps[1].node /\ a.name[1] = "if" /\ a.nodeless = (d.eps[1].node = "host")
      /\ b.node = d.eps[2].node /\ b.name[1] = "if" /\ b.nodeless = (d.eps[2].node = "host")
  BY RawEnd
<1> HIDE DEF a, b
<1>6. x.eps[1] = a /\ x.eps[2] = b /\ x.kind = "veth"
  BY DEF Object
<1>7. EndOf(x, 1, d) /\ EndOf(x, 2, d)
  <2> HIDE DEF x
  <2> QED BY <1>2, <1>4, <1>5, <1>6 DEF EndOf, Singletons
<1>8. a.node \in Bridges /\ b.node \in Bridges => BridgesOnly(d)
  BY <1>3, <1>5 DEF BridgesOnly
<1>9. ObjectOf(x, i, d)
  <2>1. x = Object(i, "veth", <<a, b>>)
    OBVIOUS
  <2> HIDE DEF x
  <2> QED BY <2>1, <1>4, <1>5, <1>7, <1>8, VethObject
<1> QED BY <1>1, <1>9

\* The other veth links: one end on a node, the other without a node.
LEMMA NodelessVeth ==
    ASSUME NEW i, NEW d, Definition(d), Placed(d), d.type \in {"host", "mgmt-net", "vxlan-stitch"},
           NEW a, a = EndpointRawResolve(d.eps[1]),
           NEW b, b.node \in Singletons, b.nodeless = TRUE, b.name[1] \in {"if", "ve"},
           d.type = "vxlan-stitch" => b.name[1] = "ve",
           NEW x, \/ x = Object(i, "veth", <<a, b>>)
                  \/ x = Object(i, "veth", <<b, a>>) /\ d.type # "vxlan-stitch"
    PROVE  ObjectOf(x, i, d)
<1>1. d.eps[1] \in ToSet(d.eps)
  BY DEF Definition, ToSet
<1>2. d.eps[1].node \notin Singletons /\ (d.type = "vxlan-stitch" => d.eps[1].node \notin Bridges)
  BY DEF Placed
<1>3. a.node = d.eps[1].node /\ a.name[1] = "if" /\ a.nodeless = FALSE
  BY <1>2, RawEnd DEF Singletons
<1>4. b.node \notin Bridges
  BY LabLinksAssumption DEF Singletons
<1>5. CASE x = Object(i, "veth", <<a, b>>)
  <2>1. x.eps[1] = a /\ x.eps[2] = b /\ x.kind = "veth"
    BY <1>5 DEF Object
  <2>2. EndOf(x, 1, d) /\ EndOf(x, 2, d)
    BY <1>1, <1>2, <1>3, <2>1 DEF EndOf
  <2> QED BY <1>2, <1>3, <1>4, <1>5, <2>2, VethObject
<1>6. CASE x = Object(i, "veth", <<b, a>>) /\ d.type # "vxlan-stitch"
  <2>1. x.eps[2] = a /\ x.eps[1] = b /\ x.kind = "veth"
    BY <1>6 DEF Object
  <2>2. EndOf(x, 1, d) /\ EndOf(x, 2, d)
    BY <1>1, <1>2, <1>3, <2>1 DEF EndOf
  <2> QED BY <1>2, <1>3, <1>4, <1>6, <2>2, VethObject
<1> QED BY <1>5, <1>6

\* The object of a link with one end.
LEMMA ResolveSingleFact ==
    ASSUME NEW i, NEW d, Definition(d), Placed(d), NEW kind \in Kinds \ {"veth"}, d.type = kind
    PROVE  ObjectOf(Object(i, kind, <<EndpointRawResolve(d.eps[1])>>), i, d)
<1> DEFINE a == EndpointRawResolve(d.eps[1])
           x == Object(i, kind, <<a>>)
<1>1. d.eps[1] \in ToSet(d.eps)
  BY DEF Definition, ToSet, Kinds
<1>2. /\ d.eps[1].node \notin Bridges \cup {"mgmt-net"}
      /\ d.eps[1].node = "host" => kind = "vxlan"
  BY DEF Placed, Kinds, Singletons
<1>3. a.node = d.eps[1].node /\ a.name[1] = "if" /\ a.nodeless \in BOOLEAN
  BY RawEnd
<1> HIDE DEF a
<1>4. x.eps[1] = a /\ x.kind = kind
  BY DEF Object
<1>5. x = Object(i, kind, <<a>>)
  OBVIOUS
<1> HIDE DEF x
<1>6. EndOf(x, 1, d)
  BY <1>1, <1>2, <1>3, <1>4 DEF EndOf
<1>7. ObjectOf(x, i, d)
  BY <1>5, <1>6, SingleObject
<1> QED BY <1>5, <1>7 DEF a

\* What a link is resolved to.
LEMMA ResolveFact ==
    ASSUME NEW i, NEW d, Definition(d), Placed(d), NEW f
    PROVE  /\ Resolve(i, d, f) \in Seq(ToSet(Resolve(i, d, f)))
           /\ \A x \in ToSet(Resolve(i, d, f)) : ObjectOf(x, i, d)
<1> DEFINE Good(s) == s \in Seq(ToSet(s)) /\ \A x \in ToSet(s) : ObjectOf(x, i, d)
           e == EndpointRawResolve(d.eps[1])
<1>a. ASSUME NEW x, ObjectOf(x, i, d) PROVE Good(<<x>>)
  BY <1>a, OneElement
<1>1. CASE ~Unfiltered(d) /\ ~isInFilter(f, d.eps)
  <2>1. Resolve(i, d, f) = <<>>
    BY <1>1 DEF Resolve
  <2>2. ToSet(<<>>) = {}
    BY DEF ToSet
  <2> QED BY <2>1, <2>2
<1>2. CASE ~(~Unfiltered(d) /\ ~isInFilter(f, d.eps))
  <2>1. CASE d.type = "veth"
    <3>1. Resolve(i, d, f) = ResolveVeth(i, d)
      BY <1>2, <2>1 DEF Resolve, ResolveType
    <3>2. PICK x : ResolveVeth(i, d) = <<x>> /\ ObjectOf(x, i, d)
      BY <2>1, ResolveVethFact
    <3> HIDE DEF Good
    <3>3. Good(Resolve(i, d, f))
      BY <1>a, <3>1, <3>2
    <3> QED BY <3>3 DEF Good
  <2>2. CASE d.type = "host"
    <3> DEFINE x == Object(i, "veth", <<e, NewEndpoint("host", Name(d.hostIf), TRUE)>>)
    <3>1. Resolve(i, d, f) = <<x>>
      BY <1>2, <2>2 DEF Resolve, ResolveType, ResolveHost
    <3>2. ObjectOf(x, i, d)
      <4> DEFINE b == NewEndpoint("host", Name(d.hostIf), TRUE)
      <4>1. b.node \in Singletons /\ b.nodeless = TRUE /\ b.name[1] = "if"
        BY DEF NewEndpoint, Name, Singletons
      <4>2. x = Object(i, "veth", <<e, b>>)
        OBVIOUS
      <4> HIDE DEF x, b, e
      <4>3. e = EndpointRawResolve(d.eps[1])
        BY DEF e
      <4> QED BY <2>2, <4>1, <4>2, <4>3, NodelessVeth
    <3> HIDE DEF Good, x
    <3>3. Good(Resolve(i, d, f))
      BY <1>a, <3>1, <3>2
    <3> QED BY <3>3 DEF Good
  <2>3. CASE d.type = "mgmt-net"
    <3> DEFINE x == Object(i, "veth", <<NewEndpoint("mgmt-net", Name(d.hostIf), TRUE), e>>)
    <3>1. Resolve(i, d, f) = <<x>>
      BY <1>2, <2>3 DEF Resolve, ResolveType, ResolveMgmtNet
    <3>2. ObjectOf(x, i, d)
      <4> DEFINE b == NewEndpoint("mgmt-net", Name(d.hostIf), TRUE)
      <4>1. b.node \in Singletons /\ b.nodeless = TRUE /\ b.name[1] = "if"
        BY DEF NewEndpoint, Name, Singletons
      <4>2. x = Object(i, "veth", <<b, e>>)
        OBVIOUS
      <4> HIDE DEF x, b, e
      <4>3. e = EndpointRawResolve(d.eps[1])
        BY DEF e
      <4> QED BY <2>3, <4>1, <4>2, <4>3, NodelessVeth
    <3> HIDE DEF Good, x
    <3>3. Good(Resolve(i, d, f))
      BY <1>a, <3>1, <3>2
    <3> QED BY <3>3 DEF Good
  <2>4. CASE d.type \in Kinds \ {"veth"}
    <3> DEFINE x == Object(i, d.type, <<e>>)
    <3>1. Resolve(i, d, f) = <<x>>
      BY <1>2, <2>4 DEF Resolve, ResolveType, ResolveMacVlan, ResolveDummy, resolveVxlan, Kinds
    <3>2. ObjectOf(x, i, d)
      BY <2>4, ResolveSingleFact
    <3> HIDE DEF Good, x
    <3>3. Good(Resolve(i, d, f))
      BY <1>a, <3>1, <3>2
    <3> QED BY <3>3 DEF Good
  <2>5. CASE d.type = "vxlan-stitch"
    <3> DEFINE a == NewEndpoint("host", VxName(d.eps[1]), TRUE)
               x == Object(i, "vxlan", <<a>>)
               y == Object(i, "veth", <<e, NewEndpoint("host", VeName(d.eps[1]), TRUE)>>)
    <3>1. Resolve(i, d, f) = <<x>> \o <<y>>
      BY <1>2, <2>5 DEF Resolve, ResolveType, resolveStitchedVxlan, resolveVxlan, resolveStitchedVEthComponent
    <3>2. ObjectOf(y, i, d)
      <4> DEFINE b == NewEndpoint("host", VeName(d.eps[1]), TRUE)
      <4>1. b.node \in Singletons /\ b.nodeless = TRUE /\ b.name[1] = "ve"
        BY DEF NewEndpoint, VeName, Singletons
      <4>2. y = Object(i, "veth", <<e, b>>)
        OBVIOUS
      <4> HIDE DEF y, b, e
      <4>3. e = EndpointRawResolve(d.eps[1])
        BY DEF e
      <4> QED BY <2>5, <4>1, <4>2, <4>3, NodelessVeth
    <3>3. ObjectOf(x, i, d)
      <4>1. a.node = "host" /\ a.name[1] = "vx" /\ a.nodeless = TRUE
        BY DEF NewEndpoint, VxName
      <4> HIDE DEF a
      <4>2. x.eps[1] = a /\ x.kind = "vxlan"
        BY DEF Object
      <4>3. x = Object(i, "vxlan", <<a>>)
        OBVIOUS
      <4> HIDE DEF x
      <4>4. EndOf(x, 1, d)
        BY <4>1, <4>2, LabLinksAssumption DEF EndOf, Singletons
      <4> QED BY <4>3, <4>4, SingleObject DEF Kinds
    <3> HIDE DEF x, y, e
    <3>4. <<x>> \o <<y>> \in Seq({x, y}) /\ ToSet(<<x>> \o <<y>>) = {x, y}
      BY TwoElements
    <3> QED BY <3>1, <3>2, <3>3, <3>4
  <2> QED BY <2>1, <2>2, <2>3, <2>4, <2>5 DEF Definition, LinkTypes, Kinds
<1> QED BY <1>1, <1>2

(***************************************************************************)
(* The objects of a filter, and the ends on a node.                        *)
(***************************************************************************)

\* CheckTopologyDefinition of the links: every end is on a node of the lab or on a singleton.
Known(f) == \A d \in ToSet(Defs) : Unfiltered(d) \/ isInFilter(f, d.eps) =>
               \A e \in ToSet(d.eps) : e.node \in Targets(f) \cup Singletons

\* The objects of the links that filter f takes.
LEMMA ResolvedFact ==
    ASSUME AllPlaced, topo \in Topologies, NEW f
    PROVE  /\ Len(Resolved(f)) \in Nat /\ DOMAIN Resolved(f) = 1..Len(Resolved(f))
           /\ \A x : x \in ToSet(Resolved(f)) <=>
                 \E i \in 1..Len(topo) : x \in ToSet(Resolve(i, Defs[i], f))
           /\ \A x \in ToSet(Resolved(f)) : /\ x.link \in 1..Len(topo)
                                            /\ ObjectOf(x, x.link, Defs[x.link])
                                            /\ x \in ToSet(Resolve(x.link, Defs[x.link], f))
<1> DEFINE n == Len(topo)
           R(i) == Resolve(i, Defs[i], f)
           ss == [i \in 1..n |-> R(i)]
           S == UNION {ToSet(R(i)) : i \in 1..n}
<1>1. /\ n \in Nat /\ Len(Defs) = n
      /\ \A i \in 1..n : Definition(Defs[i]) /\ Placed(Defs[i])
  BY DefinitionFact
<1>2. \A i \in 1..n : R(i) \in Seq(ToSet(R(i))) /\ \A x \in ToSet(R(i)) : ObjectOf(x, i, Defs[i])
  <2> TAKE i \in 1..n
  <2> DEFINE d == Defs[i]
  <2>1. Definition(d) /\ Placed(d)
    BY <1>1
  <2> HIDE DEF d
  <2>2. Resolve(i, d, f) \in Seq(ToSet(Resolve(i, d, f))) /\ \A x \in ToSet(Resolve(i, d, f)) : ObjectOf(x, i, d)
    BY <2>1, ResolveFact
  <2> QED BY <2>2 DEF d
<1>3. Resolved(f) = FlattenSeq(ss)
  BY <1>1 DEF Resolved
<1> HIDE DEF R, n
<1>4. \A i \in 1..n : R(i) \in Seq(S)
  <2> TAKE i \in 1..n
  <2>1. R(i) \in Seq(ToSet(R(i))) /\ ToSet(R(i)) \subseteq S
    BY <1>2
  <2> HIDE DEF S
  <2> QED BY <2>1
<1> HIDE DEF S
<1>5. ss \in Seq(Seq(S)) /\ DOMAIN ss = 1..n /\ Len(ss) = n /\ \A i \in 1..n : ss[i] = R(i)
  BY <1>1, <1>4
<1> HIDE DEF ss
<1>6. FlattenSeq(ss) \in Seq(S) /\ ToSet(FlattenSeq(ss)) = UNION {ToSet(ss[i]) : i \in 1..n}
  BY <1>1, <1>5, FlattenElements
<1>7. \A x : x \in ToSet(Resolved(f)) <=> \E i \in 1..n : x \in ToSet(R(i))
  BY <1>3, <1>5, <1>6
<1>8. Len(Resolved(f)) \in Nat /\ DOMAIN Resolved(f) = 1..Len(Resolved(f))
  BY <1>3, <1>6
<1>9. ASSUME NEW x \in ToSet(Resolved(f))
      PROVE  x.link \in 1..n /\ ObjectOf(x, x.link, Defs[x.link]) /\ x \in ToSet(R(x.link))
  <2>1. PICK i \in 1..n : x \in ToSet(R(i))
    BY <1>7
  <2>2. ObjectOf(x, i, Defs[i])
    BY <1>2, <2>1
  <2>3. x.link = i
    BY <2>2 DEF ObjectOf
  <2> QED BY <2>1, <2>2, <2>3
<1> QED BY <1>7, <1>8, <1>9 DEF n, R

\* A link that filter f takes is one that a wider filter takes.
LEMMA WithinFact ==
    ASSUME AllPlaced, topo \in Topologies, NEW f, NEW g, Within(f, g)
    PROVE  ToSet(Resolved(f)) \subseteq ToSet(Resolved(g))
<1> SUFFICES ASSUME NEW x \in ToSet(Resolved(f)) PROVE x \in ToSet(Resolved(g))
  OBVIOUS
<1> DEFINE i == x.link
           d == Defs[i]
<1>1. i \in 1..Len(topo) /\ x \in ToSet(Resolve(i, d, f))
  BY ResolvedFact
<1>2. ToSet(<<>>) = {}
  BY DEF ToSet
<1> HIDE DEF i, d
<1>3. Unfiltered(d) \/ isInFilter(f, d.eps)
  BY <1>1, <1>2 DEF Resolve
<1>4. isInFilter(f, d.eps) => isInFilter(g, d.eps)
  BY DEF isInFilter, Within
<1>5. Resolve(i, d, g) = Resolve(i, d, f)
  BY <1>3, <1>4 DEF Resolve
<1>6. \E j \in 1..Len(topo) : x \in ToSet(Resolve(j, Defs[j], g))
  BY <1>1, <1>5 DEF d
<1> QED BY <1>6, ResolvedFact

\* The ends of the objects are on nodes that the filter takes, or on a singleton.
LEMMA KnownFact ==
    ASSUME AllPlaced, topo \in Topologies, NEW f, Known(f), NEW x \in ToSet(Resolved(f)),
           NEW k \in 1..Len(x.eps)
    PROVE  x.eps[k].node \in Targets(f) \cup Singletons
<1> DEFINE i == x.link
           d == Defs[i]
<1>1. i \in 1..Len(topo) /\ x \in ToSet(Resolve(i, d, f)) /\ ObjectOf(x, i, d)
  BY ResolvedFact
<1>2. ToSet(<<>>) = {}
  BY DEF ToSet
<1>3. d \in ToSet(Defs)
  BY <1>1, DefinitionFact DEF ToSet
<1> HIDE DEF i, d
<1>4. Unfiltered(d) \/ isInFilter(f, d.eps)
  BY <1>1, <1>2 DEF Resolve
<1>5. x.eps[k].node \in {e.node : e \in ToSet(d.eps)} \cup Singletons
  BY <1>1 DEF ObjectOf, EndOf
<1> QED BY <1>3, <1>4, <1>5 DEF Known

\* The ends on a node.
LEMMA EndsFact ==
    ASSUME NEW os, Len(os) \in Nat, NEW n,
           \A o \in 1..Len(os) : Len(os[o].eps) \in {1, 2}
    PROVE  /\ Len(EndsOn(os, n)) \in Nat /\ DOMAIN EndsOn(os, n) = 1..Len(EndsOn(os, n))
           /\ \A y : y \in ToSet(EndsOn(os, n)) <=>
                 \E o \in 1..Len(os) : \E k \in 1..Len(os[o].eps) : y = <<o, k>> /\ os[o].eps[k].node = n
<1> DEFINE end(o, k) == IF k <= Len(os[o].eps) /\ os[o].eps[k].node = n THEN <<<<o, k>>>> ELSE <<>>
           both(o) == end(o, 1) \o end(o, 2)
           S == (1..Len(os)) \X {1, 2}
           ss == [o \in 1..Len(os) |-> both(o)]
<1>1. EndsOn(os, n) = FlattenSeq(ss)
  BY DEF EndsOn
<1>2. ASSUME NEW o \in 1..Len(os), NEW k \in {1, 2}
      PROVE  /\ end(o, k) \in Seq(S)
             /\ \A y : y \in ToSet(end(o, k)) <=>
                   k <= Len(os[o].eps) /\ os[o].eps[k].node = n /\ y = <<o, k>>
  <2>1. CASE k <= Len(os[o].eps) /\ os[o].eps[k].node = n
    <3> DEFINE y == <<o, k>>
    <3>a. y \in S
      OBVIOUS
    <3>b. end(o, k) = <<y>>
      BY <2>1
    <3>1. end(o, k) = <<y>> /\ y \in S
      BY <3>a, <3>b
    <3> HIDE DEF y, S, end
    <3>2. <<y>> \in Seq(S) /\ ToSet(<<y>>) = {y}
      BY <3>1, OneElement
    <3>3. \A z : z \in ToSet(end(o, k)) <=> z = y
      BY <3>1, <3>2, Zenon
    <3> QED BY <2>1, <3>1, <3>2, <3>3 DEF y
  <2>2. CASE ~(k <= Len(os[o].eps) /\ os[o].eps[k].node = n)
    <3>1. end(o, k) = <<>>
      BY <2>2
    <3>2. ToSet(<<>>) = {}
      BY DEF ToSet
    <3> QED BY <2>2, <3>1, <3>2
  <2> QED BY <2>1, <2>2
<1> HIDE DEF end, S
<1>3. ASSUME NEW o \in 1..Len(os)
      PROVE  both(o) \in Seq(S) /\ ToSet(both(o)) = ToSet(end(o, 1)) \cup ToSet(end(o, 2))
  BY <1>2, ConcatElements
<1> HIDE DEF both
<1>4. ss \in Seq(Seq(S)) /\ DOMAIN ss = 1..Len(os) /\ Len(ss) = Len(os) /\ \A o \in 1..Len(os) : ss[o] = both(o)
  BY <1>3
<1> HIDE DEF ss
<1>5. FlattenSeq(ss) \in Seq(S) /\ ToSet(FlattenSeq(ss)) = UNION {ToSet(ss[o]) : o \in 1..Len(os)}
  BY <1>4, FlattenElements
<1>6. Len(EndsOn(os, n)) \in Nat /\ DOMAIN EndsOn(os, n) = 1..Len(EndsOn(os, n))
  BY <1>1, <1>5
<1>7. ASSUME NEW y PROVE y \in ToSet(EndsOn(os, n)) <=> \E o \in 1..Len(os) : y \in ToSet(end(o, 1)) \cup ToSet(end(o, 2))
  BY <1>1, <1>3, <1>4, <1>5
<1>8. ASSUME NEW y, NEW o \in 1..Len(os)
      PROVE  y \in ToSet(end(o, 1)) \cup ToSet(end(o, 2)) <=>
             \E k \in 1..Len(os[o].eps) : y = <<o, k>> /\ os[o].eps[k].node = n
  <2>1. \A k \in {1, 2} : y \in ToSet(end(o, k)) <=>
            k <= Len(os[o].eps) /\ os[o].eps[k].node = n /\ y = <<o, k>>
    BY <1>2
  <2>2. \A k : k \in 1..Len(os[o].eps) <=> k \in {1, 2} /\ k <= Len(os[o].eps)
    <3>1. Len(os[o].eps) = 1 \/ Len(os[o].eps) = 2
      OBVIOUS
    <3> DEFINE l == Len(os[o].eps)
    <3> HIDE DEF l
    <3>2. l = 1 \/ l = 2
      BY <3>1 DEF l
    <3>3. \A k : k \in 1..l <=> k \in {1, 2} /\ k <= l
      BY <3>2
    <3> QED BY <3>3 DEF l
  <2> QED BY <2>1, <2>2
<1> QED BY <1>6, <1>7, <1>8

(***************************************************************************)
(* The base invariant: the process, its objects and the origin of interfaces.*)
(***************************************************************************)

\* The commands.
Deploys == {"deploy", "reconfigure", "redeploy"}
Ops == {"none", "destroy", "destroyByName"} \cup Deploys

Process(left) ==
  [op : Ops,
   pc : {"idle", "destroy", "resolve", "delete", "verify", "nodes", "hostEps", "ended"},
   filter : SUBSET Nodes, outcome : {"none", "ok", "error"}, warned : BOOLEAN,
   deleted : BOOLEAN, round : Nat, left : {left}, failed : SUBSET Nodes, hpos : Nat]

\* The types of the state.
Types ==
  /\ topo \in Topologies /\ run \in Nat /\ faults \in Nat /\ p \in Process(p.left)
  /\ cont \subseteq Containers /\ pos \in [Nodes -> Nat]
  /\ blind \in BOOLEAN /\ scope \subseteq Nodes

\* The command and how far it is.
Way ==
  /\ ~At("idle") => run > 0 /\ p.op # "none"
  /\ At("destroy") => p.op \in {"destroy", "destroyByName", "redeploy"} /\ ~p.deleted
  /\ At("delete") => p.op \in {"destroy", "redeploy", "reconfigure"} /\ p.deleted
  /\ p.pc \in {"resolve", "verify", "nodes", "hostEps"} => p.op \in Deploys
  /\ p.pc \in {"idle", "destroy", "resolve", "delete", "verify"} =>
        pos = [n \in Nodes |-> 0] /\ p.failed = {} /\ p.hpos = 1
  /\ At("nodes") => p.hpos = 1
  /\ At("hostEps") => p.failed = {} /\ p.hpos # 0

\* The links of the process are resolved.
Active == \/ p.pc \in {"delete", "verify", "nodes", "hostEps"}
          \/ Ended(Deploys, "ok") \/ (Ended({"destroy"}, "ok") /\ p.deleted)

\* The objects of the process are those of its links.
States == {"none", "half", "full", "removed"}
Objects ==
  Active => /\ objs = Resolved(p.filter) /\ Known(p.filter)
            /\ lstate \in [1..Len(objs) -> States]

\* The endpoints registered at the host node are those of the links.
HostEnds(f) == EndsOn(Resolved(f), "host")
Singles ==
  /\ "host" \in DOMAIN special /\ special["host"] \in Seq(ToSet(special["host"]))
  /\ \A j \in 1..Len(special["host"]) : special["host"][j].end \in ToSet(HostEnds(p.filter))
  /\ Active => \A x \in ToSet(HostEnds(p.filter)) :
                 \E j \in 1..Len(special["host"]) : special["host"][j].end = x
  /\ At("idle") => special["host"] = <<>>

\* An interface is the host's or was made by a process; this one has deployed nothing yet.
Origin == \A i \in ifs : /\ i.dev[1] \in 0..run
                         /\ i.dev[1] = 0 => i.ns = Root /\ i.dev = <<0, i.name, "foreign">>
                         /\ p.pc \in {"destroy", "resolve", "delete", "verify"} => i.dev[1] # run

\* The base invariant.
BaseInv == Types /\ Way /\ Objects /\ Singles /\ Origin

\* The topology file does not change.
LEMMA SameTopology ==
    ASSUME UNCHANGED topo
    PROVE  /\ Defs' = Defs /\ \A f : Resolved(f)' = Resolved(f) /\ (Known(f)' <=> Known(f))
           /\ \A f : HostEnds(f)' = HostEnds(f)
<1>1. Defs' = Defs
  BY DEF Defs
<1>2. \A f : Resolved(f)' = Resolved(f)
  BY <1>1 DEF Resolved
<1>3. \A f : Known(f)' <=> Known(f)
  BY <1>1 DEF Known
<1>4. \A f : HostEnds(f)' = HostEnds(f)
  BY <1>2 DEF HostEnds
<1> QED BY <1>1, <1>2, <1>3, <1>4

\* The object at a position, and an end of it.
LEMMA ObjectFact ==
    ASSUME AllPlaced, Types, Objects, Active, NEW o \in 1..Len(objs)
    PROVE  /\ Len(objs) \in Nat /\ DOMAIN objs = 1..Len(objs)
           /\ objs[o] \in ToSet(Resolved(p.filter)) /\ objs[o].link \in 1..Len(topo)
           /\ ObjectOf(objs[o], objs[o].link, Defs[objs[o].link])
           /\ \A k \in 1..Len(objs[o].eps) : objs[o].eps[k].node \in Targets(p.filter) \cup Singletons
<1>1. topo \in Topologies /\ objs = Resolved(p.filter) /\ Known(p.filter)
  BY DEF Types, Objects
<1>2. DOMAIN objs = 1..Len(objs) /\ Len(objs) \in Nat
  BY <1>1, ResolvedFact
<1>3. objs[o] \in ToSet(Resolved(p.filter))
  BY <1>1, <1>2 DEF ToSet
<1>4. objs[o].link \in 1..Len(topo) /\ ObjectOf(objs[o], objs[o].link, Defs[objs[o].link])
  BY <1>1, <1>3, ResolvedFact
<1>5. \A k \in 1..Len(objs[o].eps) : objs[o].eps[k].node \in Targets(p.filter) \cup Singletons
  BY <1>1, <1>3, KnownFact
<1> QED BY <1>1, <1>2, <1>3, <1>4, <1>5

\* EndsOn are the ends of the objects that are on node n.
LEMMA EndsOnFact ==
    ASSUME AllPlaced, topo \in Topologies, NEW f, NEW n
    PROVE  LET os == Resolved(f) IN
           /\ Len(EndsOn(os, n)) \in Nat /\ DOMAIN EndsOn(os, n) = 1..Len(EndsOn(os, n))
           /\ \A y : y \in ToSet(EndsOn(os, n)) <=>
                 \E o \in 1..Len(os) : \E k \in 1..Len(os[o].eps) : y = <<o, k>> /\ os[o].eps[k].node = n
<1> DEFINE os == Resolved(f)
<1>1. Len(os) \in Nat /\ DOMAIN os = 1..Len(os)
  BY ResolvedFact
<1>2. ASSUME NEW o \in 1..Len(os) PROVE Len(os[o].eps) \in {1, 2}
  <2>1. os[o] \in ToSet(os)
    BY <1>1 DEF ToSet
  <2>2. ObjectOf(os[o], os[o].link, Defs[os[o].link])
    BY <2>1, ResolvedFact
  <2> QED BY <2>2 DEF ObjectOf
<1> HIDE DEF os
<1>3. /\ Len(EndsOn(os, n)) \in Nat /\ DOMAIN EndsOn(os, n) = 1..Len(EndsOn(os, n))
      /\ \A y : y \in ToSet(EndsOn(os, n)) <=>
            \E o \in 1..Len(os) : \E k \in 1..Len(os[o].eps) : y = <<o, k>> /\ os[o].eps[k].node = n
  BY <1>1, <1>2, EndsFact
<1> QED BY <1>3 DEF os

\* What is next for the worker of node n is an end on n.
LEMMA EndFact ==
    ASSUME AllPlaced, Types, Objects, Active, NEW n, NEW j \in 1..Len(EndsOn(objs, n))
    PROVE  LET x == EndsOn(objs, n)[j] IN
           /\ x = <<x[1], x[2]>> /\ x[1] \in 1..Len(objs) /\ x[2] \in 1..Len(objs[x[1]].eps)
           /\ objs[x[1]].eps[x[2]].node = n
<1>1. topo \in Topologies /\ objs = Resolved(p.filter)
  BY DEF Types, Objects
<1>2. EndsOn(objs, n)[j] \in ToSet(EndsOn(objs, n))
  BY <1>1, EndsOnFact DEF ToSet
<1>3. \E o \in 1..Len(objs) : \E k \in 1..Len(objs[o].eps) :
         EndsOn(objs, n)[j] = <<o, k>> /\ objs[o].eps[k].node = n
  BY <1>1, <1>2, EndsOnFact
<1> QED BY <1>3

(***************************************************************************)
(* What a call of Deploy does to the interfaces.                           *)
(***************************************************************************)

\* An end under its random name on the host; and in its place.
Waiting(o, k) == Iface(Root, RandName(o, k), Dev(o))
EndIface(o, k) == SetNameMACAndUpInterface(o, k)

\* What Deploy by end k of object o may have done to the interfaces S, and its result.
Added(S, o, k, r) ==
  \A i \in r.ifs \ S : \/ i = EndIface(o, k)
                       \/ 3 - k \in 1..Len(objs[o].eps) /\ objs[o].eps[3 - k].nodeless /\ i = EndIface(o, 3 - k)
                       \/ \E m \in {1, 2} : i = Waiting(o, m)
                       \/ i = Iface(NsOf(objs[o].eps[k].node), RandName(o, k), Dev(o))
Removed(S, o, r) == \A i \in S \ r.ifs : \E m \in {1, 2} : i = Waiting(o, m)
Returned(S, o, k, r) ==
  /\ r.cost \in Nat /\ r.st \in States
  /\ Added(S, o, k, r) /\ Removed(S, o, r)

\* Deploy of a link with one end: added, or left where it failed.
LEMMA SingleReturned ==
    ASSUME NEW S, NEW o, NEW k \in {1, 2}, NEW st \in States, lstate[o] \in States,
           NEW r \in AddSingle(S, o, k, st)
    PROVE  Returned(S, o, k, r) /\ (r.ok => EndIface(o, k) \in r.ifs)
<1> DEFINE a == Result(TRUE, S \cup {EndIface(o, k)}, st, 0)
           b == Result(FALSE, S \cup {Iface(NsOf(objs[o].eps[k].node), RandName(o, k), Dev(o))}, lstate[o], 0)
           c == Result(FALSE, S \cup {Waiting(o, k)}, lstate[o], 1)
<1>1. r = a \/ r = b \/ r = c
  BY DEF AddSingle, EndIface, Waiting
<1>2. /\ a.ok /\ a.ifs = S \cup {EndIface(o, k)} /\ a.st = st /\ a.cost = 0
      /\ ~b.ok /\ b.st = lstate[o] /\ b.cost = 0
      /\ b.ifs = S \cup {Iface(NsOf(objs[o].eps[k].node), RandName(o, k), Dev(o))}
      /\ ~c.ok /\ c.ifs = S \cup {Waiting(o, k)} /\ c.st = lstate[o] /\ c.cost = 1
  BY DEF Result
<1> HIDE DEF a, b, c
<1>3. CASE r = a
  <2>1. r.cost \in Nat /\ r.st \in States
    BY <1>2, <1>3
  <2>2. Added(S, o, k, r) /\ Removed(S, o, r)
    BY <1>2, <1>3 DEF Added, Removed
  <2>3. r.ok => EndIface(o, k) \in r.ifs
    BY <1>2, <1>3
  <2> QED BY <2>1, <2>2, <2>3 DEF Returned
<1>4. CASE r = b
  <2>1. r.cost \in Nat /\ r.st \in States
    BY <1>2, <1>4
  <2>2. Added(S, o, k, r) /\ Removed(S, o, r)
    BY <1>2, <1>4 DEF Added, Removed
  <2>3. r.ok => EndIface(o, k) \in r.ifs
    BY <1>2, <1>4
  <2> QED BY <2>1, <2>2, <2>3 DEF Returned
<1>5. CASE r = c
  <2>1. r.cost \in Nat /\ r.st \in States
    BY <1>2, <1>5
  <2>2. Added(S, o, k, r) /\ Removed(S, o, r)
    BY <1>2, <1>5 DEF Added, Removed
  <2>3. r.ok => EndIface(o, k) \in r.ifs
    BY <1>2, <1>5
  <2> QED BY <2>1, <2>2, <2>3 DEF Returned
<1> QED BY <1>1, <1>3, <1>4, <1>5

\* deployBEnd: it leaves S alone, or turns what waits into the end.
LEMMA BEndCases ==
    ASSUME NEW S, NEW o, NEW k, NEW cost \in Nat, NEW r \in deployBEnd(S, o, k, cost)
    PROVE  \/ /\ ~r.ok /\ r.ifs = S /\ r.st = "half" /\ r.cost \in Nat
           \/ /\ r.ok /\ r.st = "full" /\ r.cost = cost /\ Waiting(o, k) \in S
              /\ r.ifs = (S \ {Waiting(o, k)}) \cup {EndIface(o, k)}
<1> DEFINE a == Result(FALSE, S, "half", cost)
           b == Result(TRUE, (S \ {Waiting(o, k)}) \cup {EndIface(o, k)}, "full", cost)
           c == Result(FALSE, S, "half", cost + 1)
<1>1. r = a \/ r = c \/ (r = b /\ Waiting(o, k) \in S)
  BY DEF deployBEnd, EndIface, Waiting
<1>2. /\ ~a.ok /\ a.ifs = S /\ a.st = "half" /\ a.cost = cost
      /\ b.ok /\ b.st = "full" /\ b.cost = cost
      /\ b.ifs = (S \ {Waiting(o, k)}) \cup {EndIface(o, k)}
      /\ ~c.ok /\ c.ifs = S /\ c.st = "half" /\ c.cost = cost + 1
  BY DEF Result
<1> HIDE DEF a, b, c
<1> QED BY <1>1, <1>2

\* deployAEnd: nothing, the end and its waiting peer, or both ends.
LEMMA AEndCases ==
    ASSUME NEW S, NEW o, NEW k \in {1, 2}, lstate[o] \in States, NEW r \in deployAEnd(S, o, k)
    PROVE  LET S1 == S \cup {EndIface(o, k), Waiting(o, 3 - k)} IN
           \/ ~r.ok /\ r.ifs = S /\ r.st = lstate[o] /\ r.cost \in Nat
           \/ /\ ~objs[o].eps[3 - k].nodeless
              /\ r.ok /\ r.ifs = S1 /\ r.st = "half" /\ r.cost = 0
           \/ /\ objs[o].eps[3 - k].nodeless
              /\ \/ ~r.ok /\ r.ifs = S1 /\ r.st = "half" /\ r.cost \in Nat
                 \/ /\ r.ok /\ r.st = "full" /\ r.cost = 0
                    /\ r.ifs = (S1 \ {Waiting(o, 3 - k)}) \cup {EndIface(o, 3 - k)}
<1> DEFINE S1 == S \cup {EndIface(o, k), Waiting(o, 3 - k)}
           a == Result(FALSE, S, lstate[o], 1)
           b == Result(FALSE, S, lstate[o], 0)
           c == Result(TRUE, S1, "half", 0)
<1>1. \/ r = a \/ r = b
      \/ objs[o].eps[3 - k].nodeless /\ r \in deployBEnd(S1, o, 3 - k, 0)
      \/ ~objs[o].eps[3 - k].nodeless /\ r = c
  BY DEF deployAEnd, EndIface, Waiting
<1>2. /\ ~a.ok /\ a.ifs = S /\ a.st = lstate[o] /\ a.cost = 1
      /\ ~b.ok /\ b.ifs = S /\ b.st = lstate[o] /\ b.cost = 0
      /\ c.ok /\ c.ifs = S1 /\ c.st = "half" /\ c.cost = 0
  BY DEF Result
<1> HIDE DEF a, b, c, S1
<1>3. CASE objs[o].eps[3 - k].nodeless /\ r \in deployBEnd(S1, o, 3 - k, 0)
  <2>1. \/ /\ ~r.ok /\ r.ifs = S1 /\ r.st = "half" /\ r.cost \in Nat
        \/ /\ r.ok /\ r.st = "full" /\ r.cost = 0
           /\ r.ifs = (S1 \ {Waiting(o, 3 - k)}) \cup {EndIface(o, 3 - k)}
    <3>1. 0 \in Nat /\ r \in deployBEnd(S1, o, 3 - k, 0)
      BY <1>3
    <3> DEFINE m == 3 - k
    <3> HIDE DEF m
    <3>2. r \in deployBEnd(S1, o, m, 0)
      BY <3>1 DEF m
    <3>3. \/ /\ ~r.ok /\ r.ifs = S1 /\ r.st = "half" /\ r.cost \in Nat
          \/ /\ r.ok /\ r.st = "full" /\ r.cost = 0
             /\ r.ifs = (S1 \ {Waiting(o, m)}) \cup {EndIface(o, m)}
      BY <3>2, BEndCases
    <3> QED BY <3>3 DEF m
  <2> QED BY <1>3, <2>1 DEF S1
<1>4. CASE r = a \/ r = b
  BY <1>2, <1>4
<1>5. CASE ~objs[o].eps[3 - k].nodeless /\ r = c
  BY <1>2, <1>5 DEF S1
<1> QED BY <1>1, <1>3, <1>4, <1>5

\* Deploy of an object by one of its ends.
LEMMA DeployReturned ==
    ASSUME AllPlaced, Types, Objects, Active, NEW o \in 1..Len(objs), NEW k \in 1..Len(objs[o].eps),
           NEW S, NEW r \in Deploy(S, o, k)
    PROVE  Returned(S, o, k, r) /\ (objs[o].kind # "veth" /\ r.ok => EndIface(o, k) \in r.ifs)
<1>1. /\ objs[o].kind \in Kinds /\ Len(objs[o].eps) = IF objs[o].kind = "veth" THEN 2 ELSE 1
  BY ObjectFact DEF ObjectOf
<1>2. lstate[o] \in States
  BY DEF Objects
<1>3. k \in {1, 2}
  BY <1>1
<1>4. Returned(S, o, k, Result(FALSE, S, lstate[o], 0)) /\ ~Result(FALSE, S, lstate[o], 0).ok
  BY <1>2 DEF Result, Returned, Added, Removed
<1>5. ASSUME NEW st \in States, r \in AddSingle(S, o, k, st)
      PROVE  Returned(S, o, k, r) /\ (r.ok => EndIface(o, k) \in r.ifs)
  BY <1>2, <1>3, <1>5, SingleReturned
<1>6. CASE objs[o].kind = "macvlan"
  BY <1>2, <1>4, <1>5, <1>6 DEF Deploy, DeployMacVlan
<1>7. CASE objs[o].kind = "vxlan"
  BY <1>2, <1>4, <1>5, <1>7 DEF Deploy, DeployVxlan
<1>8. CASE objs[o].kind = "dummy"
  BY <1>5, <1>8 DEF Deploy, DeployDummy, States
<1>9. CASE objs[o].kind = "veth"
  <2>1. r \in DeployVEth(S, o, k)
    BY <1>9 DEF Deploy
  <2>2. 3 - k \in {1, 2} /\ 3 - k \in 1..Len(objs[o].eps)
    BY <1>1, <1>3, <1>9
  <2>3. CASE lstate[o] = "half"
    <3>1. r \in deployBEnd(S, o, k, 0)
      BY <2>1, <2>3 DEF DeployVEth
    <3>2. \/ /\ ~r.ok /\ r.ifs = S /\ r.st = "half" /\ r.cost \in Nat
          \/ /\ r.ok /\ r.st = "full" /\ r.cost = 0 /\ Waiting(o, k) \in S
             /\ r.ifs = (S \ {Waiting(o, k)}) \cup {EndIface(o, k)}
      BY <3>1, BEndCases
    <3> QED BY <1>3, <1>9, <3>2 DEF Returned, Added, Removed, States
  <2>4. CASE lstate[o] = "full"
    <3>1. r = Result(TRUE, S, lstate[o], 0)
      BY <2>1, <2>4 DEF DeployVEth
    <3>2. r.ifs = S /\ r.st = lstate[o] /\ r.cost = 0
      BY <3>1 DEF Result
    <3> QED BY <1>2, <1>9, <3>2 DEF Returned, Added, Removed
  <2>5. CASE lstate[o] \notin {"half", "full"}
    <3>1. r \in deployAEnd(S, o, k)
      BY <2>1, <2>5 DEF DeployVEth
    <3> DEFINE m == 3 - k
               S1 == S \cup {EndIface(o, k), Waiting(o, m)}
    <3>2. \/ ~r.ok /\ r.ifs = S /\ r.st = lstate[o] /\ r.cost \in Nat
          \/ /\ ~objs[o].eps[m].nodeless
             /\ r.ok /\ r.ifs = S1 /\ r.st = "half" /\ r.cost = 0
          \/ /\ objs[o].eps[m].nodeless
             /\ \/ ~r.ok /\ r.ifs = S1 /\ r.st = "half" /\ r.cost \in Nat
                \/ /\ r.ok /\ r.st = "full" /\ r.cost = 0
                   /\ r.ifs = (S1 \ {Waiting(o, m)}) \cup {EndIface(o, m)}
      BY <1>2, <1>3, <3>1, AEndCases
    <3>3. m \in {1, 2} /\ m \in 1..Len(objs[o].eps)
      BY <2>2
    <3>4. r.cost \in Nat /\ r.st \in States
      BY <1>2, <3>2 DEF States
    <3>5. \A i \in r.ifs \ S : \/ i = EndIface(o, k) \/ i = Waiting(o, m)
                               \/ objs[o].eps[m].nodeless /\ i = EndIface(o, m)
      BY <3>2
    <3>6. \A i \in S \ r.ifs : i = Waiting(o, m)
      BY <3>2
    <3>7. Added(S, o, k, r) /\ Removed(S, o, r)
      <4>1. m = 3 - k
        OBVIOUS
      <4> HIDE DEF m
      <4> QED BY <4>1, <3>3, <3>5, <3>6 DEF Added, Removed
    <3> QED BY <1>9, <3>4, <3>7 DEF Returned
  <2> QED BY <2>3, <2>4, <2>5
<1> QED BY <1>1, <1>6, <1>7, <1>8, <1>9 DEF Kinds

\* The interfaces that Deploy makes are of the device of this run.
LEMMA NewInterfaces ==
    ASSUME NEW S, NEW o, NEW k, NEW r, Returned(S, o, k, r), NEW i \in r.ifs \ S
    PROVE  i.dev = Dev(o) /\ i.dev[1] = run
<1>1. i.dev = Dev(o)
  BY DEF Returned, Added, EndIface, Waiting, SetNameMACAndUpInterface, Iface
<1> QED BY <1>1 DEF Dev

(***************************************************************************)
(* Every step keeps the base invariant.                                    *)
(***************************************************************************)

\* The base invariant holds before the first command.
LEMMA BaseInit == AllPlaced /\ Init => BaseInv
<1> SUFFICES ASSUME AllPlaced, Init PROVE BaseInv
  OBVIOUS
<1>1. p = NoProcess /\ special = NoEndpoints /\ topo \in Topologies
  BY DEF Init
<1>2. /\ p.op = "none" /\ p.pc = "idle" /\ p.filter = {} /\ p.outcome = "none" /\ p.warned = FALSE
      /\ p.deleted = FALSE /\ p.round = 0 /\ p.left = {} /\ p.failed = {} /\ p.hpos = 1
  BY <1>1 DEF NoProcess
<1>3. Types
  <2>1. p \in Process(p.left)
    BY <1>1, <1>2 DEF NoProcess, Process, Ops
  <2>2. pos \in [Nodes -> Nat]
    BY DEF Init
  <2> QED BY <2>1, <2>2, LabLinksAssumption DEF Init, Types
<1>4. Way
  BY <1>2 DEF Init, Way, At
<1>5. ~Active
  BY <1>2 DEF Active, Ended, At
<1>6. Objects
  BY <1>5 DEF Objects
<1>7. Singles
  <2>1. "host" \in DOMAIN special /\ special["host"] = <<>>
    BY <1>1 DEF NoEndpoints, Singletons
  <2> QED BY <1>5, <2>1 DEF Singles
<1>8. Origin
  <2>1. PICK B \in SUBSET Bridges :
           ifs = {Iface(Root, n, <<0, n, "foreign">>) : n \in Foreign \cup {Name(b) : b \in B}}
    BY DEF Init
  <2>2. ASSUME NEW i \in ifs PROVE i.dev[1] \in 0..run /\ i.ns = Root /\ i.dev = <<0, i.name, "foreign">>
    <3>1. PICK n : i = Iface(Root, n, <<0, n, "foreign">>)
      BY <2>1
    <3>2. i.ns = Root /\ i.name = n /\ i.dev = <<0, n, "foreign">>
      BY <3>1 DEF Iface
    <3>3. i.dev[1] = 0 /\ run = 0
      BY <3>2 DEF Init
    <3> QED BY <3>2, <3>3
  <2> QED BY <1>2, <2>2 DEF Origin
<1> QED BY <1>3, <1>4, <1>6, <1>7, <1>8 DEF BaseInv

\* A step of the process that touches neither the links nor the kernel.
LEMMA CalmStep ==
    ASSUME AllPlaced, BaseInv,
           UNCHANGED <<topo, kernel, run, faults, special, objs, lstate, pos, blind>>, scope' \subseteq Nodes,
           p' \in Process(p'.left), p'.filter = p.filter, Way', Active' => Active,
           p'.pc # "idle",
           p'.pc \in {"destroy", "resolve", "delete", "verify"} =>
              p.pc \in {"destroy", "resolve", "delete", "verify"}
    PROVE  BaseInv'
<1>1. topo' = topo /\ p'.filter = p.filter /\ objs' = objs /\ special' = special /\ lstate' = lstate
      /\ ifs' = ifs /\ run' = run
  BY DEF kernel
<1>2. Types'
  BY DEF BaseInv, Types, kernel
<1>3. Objects'
  BY <1>1, SameTopology DEF BaseInv, Objects
<1>4. Singles'
  BY <1>1, SameTopology DEF BaseInv, Singles, At
<1>5. Origin'
  BY <1>1 DEF BaseInv, Origin
<1> QED BY <1>2, <1>3, <1>4, <1>5 DEF BaseInv

\* The process ends.
LEMMA EndStep ==
    ASSUME p \in Process(p.left), NEW x \in {"ok", "error"}, End(x)
    PROVE  /\ p' \in Process(p'.left) /\ p'.pc = "ended" /\ p'.outcome = x
           /\ p'.op = p.op /\ p'.filter = p.filter /\ p'.warned = p.warned /\ p'.deleted = p.deleted
           /\ p'.left = p.left /\ p'.failed = p.failed /\ p'.hpos = p.hpos
  BY DEF End, Process

\* The process goes on.
LEMMA GoStep ==
    ASSUME p \in Process(p.left), NEW c \in {"resolve", "delete", "verify", "nodes", "hostEps"},
           p' = [p EXCEPT !.pc = c] \/ p' = [p EXCEPT !.pc = c, !.warned = FALSE]
             \/ p' = [p EXCEPT !.pc = c, !.left = StitchedLinks]
    PROVE  /\ p' \in Process(p'.left) /\ p'.pc = c
           /\ p'.op = p.op /\ p'.filter = p.filter /\ p'.outcome = p.outcome /\ p'.deleted = p.deleted
           /\ p'.failed = p.failed /\ p'.hpos = p.hpos
<1>1. CASE p' = [p EXCEPT !.pc = c]
  BY <1>1 DEF Process
<1>2. CASE p' = [p EXCEPT !.pc = c, !.warned = FALSE]
  BY <1>2 DEF Process
<1>3. CASE p' = [p EXCEPT !.pc = c, !.left = StitchedLinks]
  BY <1>3 DEF Process
<1> QED BY <1>1, <1>2, <1>3

\* The record p is its fields.
LEMMA CalmNext ==
    ASSUME AllPlaced, BaseInv,
           DestroyNothing \/ Deleted \/ checkTopologyDefinition \/ WorkersReturned \/ DeployReturns
    PROVE  BaseInv'
<1>0. /\ p \in Process(p.left) /\ Way /\ scope \subseteq Nodes /\ pos \in [Nodes -> Nat]
      /\ p.filter \subseteq Nodes
  BY DEF BaseInv, Types, Process
<1>1. CASE DestroyNothing
  <2>1. /\ p.pc = "destroy"
        /\ \/ End("ok") /\ p.op # "redeploy"
           \/ p' = [p EXCEPT !.pc = "resolve"] /\ p.op = "redeploy"
    BY <1>1 DEF DestroyNothing, At
  <2>2. CASE End("ok") /\ p.op # "redeploy"
    <3>1. /\ p' \in Process(p'.left) /\ p'.filter = p.filter /\ p'.pc = "ended" /\ p'.op = p.op
          /\ p'.deleted = p.deleted
      BY <1>0, <2>2, EndStep
    <3>2. Way' /\ ~Active'
      BY <1>0, <2>1, <2>2, <3>1, <1>1 DEF Way, At, Active, Ended, Deploys, DestroyNothing, Working
    <3> QED BY <1>0, <1>1, <3>1, <3>2, CalmStep DEF DestroyNothing, Working, history
  <2>3. CASE p' = [p EXCEPT !.pc = "resolve"] /\ p.op = "redeploy"
    <3>1. /\ p' \in Process(p'.left) /\ p'.filter = p.filter /\ p'.pc = "resolve" /\ p'.op = p.op
          /\ p'.failed = p.failed /\ p'.hpos = p.hpos
      BY <1>0, <2>3, GoStep
    <3>2. Way' /\ ~Active'
      BY <1>0, <2>1, <2>3, <3>1, <1>1 DEF Way, At, Active, Ended, Deploys, DestroyNothing, Working
    <3> QED BY <1>0, <1>1, <2>1, <3>1, <3>2, CalmStep DEF DestroyNothing, Working, history
  <2> QED BY <2>1, <2>2, <2>3
<1>2. CASE Deleted
  <2>1. p.op \in {"destroy", "redeploy", "reconfigure"} /\ p.pc = "delete" /\ p.op \notin {"none"}
    BY <1>0, <1>2 DEF Deleted, At, Way
  <2>2. \/ p.op = "destroy" /\ End("ok") 
        \/ p.op = "redeploy" /\ p' = [p EXCEPT !.pc = "resolve", !.warned = FALSE]
        \/ p.op = "reconfigure" /\ p' = [p EXCEPT !.pc = "verify", !.warned = FALSE]
    BY <2>1, <1>2 DEF Deleted
  <2>3. CASE p.op = "destroy" /\ End("ok")
    <3>1. /\ p' \in Process(p'.left) /\ p'.filter = p.filter /\ p'.pc = "ended" /\ p'.op = p.op
      BY <1>0, <2>3, EndStep
    <3>2. Way' /\ Active
      BY <1>0, <2>1, <3>1, <1>2 DEF Way, At, Active, Deleted, Working
    <3> QED BY <1>0, <1>2, <3>1, <3>2, CalmStep DEF Deleted, Working, history
  <2>4. CASE p.op = "redeploy" /\ p' = [p EXCEPT !.pc = "resolve", !.warned = FALSE]
    <3>1. /\ p' \in Process(p'.left) /\ p'.filter = p.filter /\ p'.pc = "resolve" /\ p'.op = p.op
          /\ p'.failed = p.failed /\ p'.hpos = p.hpos
      BY <1>0, <2>4, GoStep
    <3>2. Way' /\ Active
      BY <1>0, <2>1, <2>4, <3>1, <1>2 DEF Way, At, Active, Deleted, Working, Deploys
    <3> QED BY <1>0, <1>2, <2>1, <3>1, <3>2, CalmStep DEF Deleted, Working, history
  <2>5. CASE p.op = "reconfigure" /\ p' = [p EXCEPT !.pc = "verify", !.warned = FALSE]
    <3>1. /\ p' \in Process(p'.left) /\ p'.filter = p.filter /\ p'.pc = "verify" /\ p'.op = p.op
          /\ p'.failed = p.failed /\ p'.hpos = p.hpos
      BY <1>0, <2>5, GoStep
    <3>2. Way' /\ Active
      BY <1>0, <2>1, <2>5, <3>1, <1>2 DEF Way, At, Active, Deleted, Working, Deploys
    <3> QED BY <1>0, <1>2, <2>1, <3>1, <3>2, CalmStep DEF Deleted, Working, history
  <2> QED BY <2>2, <2>3, <2>4, <2>5
<1>3. CASE checkTopologyDefinition
  <2>1. p.pc = "verify" /\ scope' \subseteq Nodes /\ Active
    BY <1>0, <1>3 DEF checkTopologyDefinition, At, Active
  <2>2. End("error") \/ p' = [p EXCEPT !.pc = "nodes"]
    BY <1>3 DEF checkTopologyDefinition
  <2>3. CASE End("error")
    <3>1. /\ p' \in Process(p'.left) /\ p'.filter = p.filter /\ p'.pc = "ended" /\ p'.op = p.op
      BY <1>0, <2>3, EndStep
    <3>2. Way'
      BY <1>0, <2>1, <3>1, <1>3 DEF Way, At, checkTopologyDefinition, Working
    <3> QED BY <1>0, <1>3, <2>1, <3>1, <3>2, CalmStep DEF checkTopologyDefinition, Working
  <2>4. CASE p' = [p EXCEPT !.pc = "nodes"]
    <3>1. /\ p' \in Process(p'.left) /\ p'.filter = p.filter /\ p'.pc = "nodes" /\ p'.op = p.op
          /\ p'.failed = p.failed /\ p'.hpos = p.hpos
      BY <1>0, <2>4, GoStep
    <3>2. Way'
      BY <1>0, <2>1, <3>1, <1>3 DEF Way, At, checkTopologyDefinition, Working
    <3> QED BY <1>0, <1>3, <2>1, <3>1, <3>2, CalmStep DEF checkTopologyDefinition, Working
  <2> QED BY <2>2, <2>3, <2>4
<1>4. CASE WorkersReturned
  <2>1. p.pc = "nodes" /\ Active
    BY <1>4 DEF WorkersReturned, At, Active
  <2>2. End("error") \/ (p.failed = {} /\ p' = [p EXCEPT !.pc = "hostEps", !.left = StitchedLinks])
    BY <1>4 DEF WorkersReturned
  <2>3. CASE End("error")
    <3>1. /\ p' \in Process(p'.left) /\ p'.filter = p.filter /\ p'.pc = "ended" /\ p'.op = p.op
      BY <1>0, <2>3, EndStep
    <3>2. Way'
      BY <1>0, <2>1, <3>1, <1>4 DEF Way, At, WorkersReturned, Working
    <3> QED BY <1>0, <1>4, <2>1, <3>1, <3>2, CalmStep DEF WorkersReturned, Working, history
  <2>4. CASE p.failed = {} /\ p' = [p EXCEPT !.pc = "hostEps", !.left = StitchedLinks]
    <3>1. /\ p' \in Process(p'.left) /\ p'.filter = p.filter /\ p'.pc = "hostEps" /\ p'.op = p.op
          /\ p'.failed = p.failed /\ p'.hpos = p.hpos
      BY <1>0, <2>4, GoStep
    <3>2. Way'
      BY <1>0, <2>1, <2>4, <3>1, <1>4 DEF Way, At, WorkersReturned, Working
    <3> QED BY <1>0, <1>4, <2>1, <3>1, <3>2, CalmStep DEF WorkersReturned, Working, history
  <2> QED BY <2>2, <2>3, <2>4
<1>5. CASE DeployReturns
  <2>1. p.pc = "hostEps" /\ Active /\ End("ok")
    BY <1>5 DEF DeployReturns, At, Active
  <2>2. /\ p' \in Process(p'.left) /\ p'.filter = p.filter /\ p'.pc = "ended" /\ p'.op = p.op
    BY <1>0, <2>1, EndStep
  <2>3. Way'
    BY <1>0, <2>1, <2>2, <1>5 DEF Way, At, DeployReturns, Working
  <2> QED BY <1>0, <1>5, <2>1, <2>2, <2>3, CalmStep DEF DeployReturns, Working, history
<1> QED BY <1>1, <1>2, <1>3, <1>4, <1>5

\* The base invariant, from what a step leaves alone of the process and its links.
LEMMA KeepStep ==
    ASSUME AllPlaced, BaseInv, UNCHANGED <<topo, run, special, objs, history>>,
           faults' \in Nat, cont' \subseteq Containers, pos' \in [Nodes -> Nat],
           p' \in Process(p'.left), p'.filter = p.filter, Way', Active,
           lstate' \in [1..Len(objs) -> States],
           p'.pc = p.pc,
           \A i \in ifs' \ ifs : i.dev[1] = run /\ p.pc \in {"nodes", "hostEps"}
    PROVE  BaseInv'
<1>1. /\ topo' = topo /\ p'.filter = p.filter /\ objs' = objs /\ special' = special
      /\ run' = run /\ p'.pc = p.pc /\ scope' = scope /\ blind' = blind
  BY DEF history
<1>2. Types'
  BY <1>1 DEF BaseInv, Types
<1>3. Objects'
  <2>1. objs = Resolved(p.filter) /\ Known(p.filter)
    BY DEF BaseInv, Objects
  <2> QED BY <1>1, <2>1, SameTopology DEF Objects
<1>4. Singles'
  BY <1>1, SameTopology DEF BaseInv, Singles, At
<1>5. Origin'
  <2>1. run \in Nat /\ (p.pc \in {"nodes", "hostEps"} => run # 0)
    BY DEF BaseInv, Types, Way, At
  <2>2. ASSUME NEW i \in ifs'
        PROVE  /\ i.dev[1] \in 0..run
               /\ i.dev[1] = 0 => i.ns = Root /\ i.dev = <<0, i.name, "foreign">>
               /\ p.pc \in {"destroy", "resolve", "delete", "verify"} => i.dev[1] # run
    <3>1. CASE i \in ifs
      BY <3>1 DEF BaseInv, Origin
    <3>2. CASE i \notin ifs
      BY <2>1, <3>2
    <3> QED BY <3>1, <3>2
  <2> QED BY <1>1, <2>2 DEF Origin
<1> QED BY <1>2, <1>3, <1>4, <1>5 DEF BaseInv

\* The links are resolved: the singletons hold the ends of the links, and no others.
LEMMA ResolveStep ==
    ASSUME AllPlaced, BaseInv, UNCHANGED <<topo, run>>, ResolveLinks, ~ResolveError(p.filter),
           p'.filter = p.filter, p'.pc \in {"delete", "verify"}
    PROVE  Objects' /\ Singles'
<1> DEFINE f == p.filter
           os == Resolved(f)
           he == EndsOn(os, "host")
           old == special["host"]
           new == [k \in 1..Len(he) |-> [round |-> p.round + 1, end |-> he[k],
                                         name |-> EpNames(os, "host")[k]]]
<1>1. /\ objs' = os /\ lstate' = [o \in 1..Len(os) |-> "none"]
      /\ special' = AddedTo(special, p.round + 1, os)
  BY DEF ResolveLinks
<1>2. special' = [n \in Singletons |->
        special[n] \o [k \in 1..Len(EndsOn(os, n)) |->
                [round |-> p.round + 1, end |-> EndsOn(os, n)[k], name |-> EpNames(os, n)[k]]]]
  BY <1>1 DEF AddedTo
<1>3. "host" \in DOMAIN special' /\ special'["host"] = old \o new
  BY <1>2 DEF Singletons
<1>4. topo \in Topologies /\ old \in Seq(ToSet(old))
  BY DEF BaseInv, Types, Singles
<1>5. Len(he) \in Nat /\ DOMAIN he = 1..Len(he)
  BY <1>4, EndsOnFact
<1>6. Known(f)
  BY DEF ResolveError, ResolveFails, Known
<1>7. Objects'
  <2>1. lstate' \in [1..Len(objs') -> States]
    BY <1>1 DEF States
  <2> QED BY <1>1, <1>6, <2>1, SameTopology DEF Objects
<1>8. \A k \in 1..Len(he) : new[k].end = he[k] /\ he[k] \in ToSet(he)
  BY <1>5 DEF ToSet
<1>9. new \in Seq(ToSet(new)) /\ Len(new) = Len(he) /\ DOMAIN new = 1..Len(he)
  BY <1>5 DEF ToSet
<1>10. \A j \in 1..Len(old) : old[j].end \in ToSet(he)
  BY DEF BaseInv, Singles, HostEnds
<1> HIDE DEF new, old, he
<1>11. /\ old \o new \in Seq(ToSet(old \o new)) /\ Len(old \o new) = Len(old) + Len(new)
       /\ Len(old) \in Nat
       /\ \A j \in 1..(Len(old) + Len(new)) :
             (old \o new)[j] = IF j <= Len(old) THEN old[j] ELSE new[j - Len(old)]
  <2> DEFINE T == ToSet(old) \cup ToSet(new)
  <2>1. old \in Seq(T) /\ new \in Seq(T)
    BY <1>4, <1>9
  <2> HIDE DEF T
  <2>2. old \o new \in Seq(T)
    BY <2>1
  <2>3. old \o new \in Seq(ToSet(old \o new))
    <3>1. ASSUME NEW s \in Seq(T) PROVE s \in Seq(ToSet(s))
      BY DEF ToSet
    <3> QED BY <2>2, <3>1
  <2> QED BY <2>1, <2>3
<1>12. \A j \in 1..Len(old \o new) : (old \o new)[j].end \in ToSet(he)
  <2> SUFFICES ASSUME NEW j \in 1..Len(old \o new) PROVE (old \o new)[j].end \in ToSet(he)
    OBVIOUS
  <2>1. CASE j <= Len(old)
    BY <1>10, <1>11, <2>1
  <2>2. CASE j > Len(old)
    <3>1. j - Len(old) \in 1..Len(he) /\ (old \o new)[j] = new[j - Len(old)]
      BY <1>5, <1>9, <1>11, <2>2
    <3> QED BY <1>8, <3>1
  <2> QED BY <1>11, <2>1, <2>2
<1>13. \A x \in ToSet(he) : \E j \in 1..Len(old \o new) : (old \o new)[j].end = x
  <2> SUFFICES ASSUME NEW x \in ToSet(he) PROVE \E j \in 1..Len(old \o new) : (old \o new)[j].end = x
    OBVIOUS
  <2>1. PICK k \in 1..Len(he) : he[k] = x
    BY <1>5 DEF ToSet
  <2>2. Len(old) + k \in 1..Len(old \o new) /\ (old \o new)[Len(old) + k] = new[k]
    BY <1>5, <1>9, <1>11
  <2> QED BY <1>8, <2>1, <2>2
<1>14. HostEnds(f)' = he
  BY SameTopology DEF HostEnds, he
<1>15. Singles'
  BY <1>3, <1>11, <1>12, <1>13, <1>14 DEF Singles, At
<1> QED BY <1>7, <1>15

\* A process starts: no endpoints, fewer runs than now.
LEMMA GiveStep ==
    ASSUME AllPlaced, BaseInv, NEW op \in Commands \ {"vxlanCreate", "vxlanDelete"},
           NEW f \in {{}} \cup Filters, GiveCommand(op, f)
    PROVE  BaseInv'
<1>1. op \in Ops \ {"none"} /\ f \in SUBSET Nodes
  BY LabLinksAssumption DEF Ops, Deploys, Nodes
<1>2. /\ p.pc = "idle" /\ run \in Nat /\ run' = run + 1 /\ topo' = topo /\ special' = special
      /\ ifs' = ifs /\ pos' = pos
  BY DEF GiveCommand, At, BaseInv, Types, kernel
<1> DEFINE c == IF op \in {"destroy", "destroyByName", "redeploy"} THEN "destroy" ELSE "resolve"
<1>3. p' = [NoProcess EXCEPT !.op = op, !.filter = f, !.pc = c]
  BY DEF GiveCommand
<1>4. /\ p' \in Process(p'.left) /\ p'.pc = c /\ p'.op = op /\ p'.filter = f /\ p'.deleted = FALSE
      /\ p'.failed = {} /\ p'.hpos = 1
  BY <1>1, <1>3 DEF NoProcess, Process
<1>5. Types'
  BY <1>2, <1>4 DEF GiveCommand, BaseInv, Types, kernel, history
<1>6. Way'
  <2>1. pos = [n \in Nodes |-> 0]
    BY <1>2 DEF BaseInv, Way
  <2>2. c \in {"destroy", "resolve"} /\ (c = "destroy" => op \in {"destroy", "destroyByName", "redeploy"})
        /\ (c = "resolve" => op \in Deploys)
    BY <1>1 DEF Ops
  <2> QED BY <1>1, <1>2, <1>4, <2>1, <2>2 DEF Way, At
<1>7. ~Active' /\ p'.pc # "idle"
  BY <1>4 DEF Active, Ended, At
<1>8. Objects'
  BY <1>7 DEF Objects
<1>9. Singles'
  <2>1. special["host"] = <<>> /\ "host" \in DOMAIN special
    BY <1>2 DEF BaseInv, Singles, At
  <2> QED BY <1>2, <1>7, <2>1 DEF Singles, At
<1>10. Origin'
  BY <1>2 DEF BaseInv, Origin
<1> QED BY <1>5, <1>6, <1>8, <1>9, <1>10 DEF BaseInv

\* The process starts to delete, or goes on to verify, with its links resolved.
LEMMA RoundStep ==
    ASSUME p \in Process(p.left),
           \/ StartDeleting([p EXCEPT !.round = @ + 1])
           \/ p' = [p EXCEPT !.pc = "verify", !.round = @ + 1]
    PROVE  /\ p' \in Process(p'.left) /\ p'.pc \in {"delete", "verify"}
           /\ p'.op = p.op /\ p'.filter = p.filter /\ p'.failed = p.failed /\ p'.hpos = p.hpos
           /\ p'.pc = "delete" => p'.deleted
<1> DEFINE q == [p EXCEPT !.round = @ + 1]
<1>0. /\ q \in Process(p.left) /\ q.op = p.op /\ q.filter = p.filter /\ q.failed = p.failed /\ q.hpos = p.hpos
  BY DEF Process
<1>1. CASE StartDeleting(q)
  <2> HIDE DEF q
  <2>1. p' = [q EXCEPT !.pc = "delete", !.left = Targets(q.filter) \cup Singletons, !.deleted = TRUE]
    BY <1>1 DEF StartDeleting
  <2> QED BY <1>0, <2>1 DEF Process
<1>2. CASE p' = [p EXCEPT !.pc = "verify", !.round = @ + 1]
  <2>1. p' = [q EXCEPT !.pc = "verify"]
    BY <1>2, <1>0 DEF Process
  <2> HIDE DEF q
  <2> QED BY <1>0, <2>1 DEF Process
<1> QED BY <1>1, <1>2

\* A command resolves its links and prepares its destroy or its deployment.
LEMMA ResolvingNext ==
    ASSUME AllPlaced, BaseInv, makeCopyForDestroy \/ DeployResolve
    PROVE  BaseInv'
<1>0. /\ p \in Process(p.left) /\ Way /\ Types /\ p.pc \in {"destroy", "resolve"}
      /\ (p.pc = "destroy" => p.op # "destroyByName")
  BY DEF BaseInv, Types, makeCopyForDestroy, DeployResolve, At
<1>1. /\ UNCHANGED <<topo, parentUp, run, ifs, tc, cont, faults, pos>>
      /\ scope' = scope
  BY DEF makeCopyForDestroy, DeployResolve, StartDeleting, Working, kernel, history
<1>2. \/ End("error") /\ UNCHANGED <<special, objs, lstate, blind>>
      \/ /\ ~ResolveError(p.filter) /\ ResolveLinks
         /\ \/ StartDeleting([p EXCEPT !.round = @ + 1]) /\ p.op \in {"destroy", "redeploy", "reconfigure"}
            \/ p' = [p EXCEPT !.pc = "verify", !.round = @ + 1] /\ UNCHANGED blind /\ p.pc = "resolve"
  <2>1. CASE makeCopyForDestroy
    <3>1. p.op \in {"destroy", "redeploy"}
      BY <2>1, <1>0 DEF Way, At, makeCopyForDestroy
    <3> QED BY <2>1, <3>1 DEF makeCopyForDestroy, history
  <2>2. CASE DeployResolve
    BY <2>2 DEF DeployResolve, history, At
  <2> QED BY <2>1, <2>2
<1>3. CASE End("error") /\ UNCHANGED <<special, objs, lstate, blind>>
  <2>1. /\ p' \in Process(p'.left) /\ p'.filter = p.filter /\ p'.pc = "ended" /\ p'.op = p.op
        /\ p'.outcome = "error"
    BY <1>0, <1>3, EndStep
  <2>2. Way' /\ ~Active'
    BY <1>0, <1>1, <2>1 DEF Way, At, Active, Ended
  <2> QED BY <1>0, <1>1, <1>3, <2>1, <2>2, CalmStep DEF Types, kernel
<1>4. CASE /\ ~ResolveError(p.filter) /\ ResolveLinks
           /\ \/ StartDeleting([p EXCEPT !.round = @ + 1]) /\ p.op \in {"destroy", "redeploy", "reconfigure"}
              \/ p' = [p EXCEPT !.pc = "verify", !.round = @ + 1] /\ UNCHANGED blind /\ p.pc = "resolve"
  <2>1. /\ p' \in Process(p'.left) /\ p'.pc \in {"delete", "verify"}
        /\ p'.op = p.op /\ p'.filter = p.filter /\ p'.failed = p.failed /\ p'.hpos = p.hpos
        /\ p'.pc = "delete" => p'.deleted
    BY <1>0, <1>4, RoundStep
  <2>2. Objects' /\ Singles'
    BY <1>1, <1>4, <2>1, ResolveStep
  <2>3. (p'.pc = "delete" => p.op \in {"destroy", "redeploy", "reconfigure"}) /\ (p'.pc = "verify" => p.pc = "resolve")
        /\ blind' \in BOOLEAN
    <3>1. CASE StartDeleting([p EXCEPT !.round = @ + 1]) /\ p.op \in {"destroy", "redeploy", "reconfigure"}
      BY <3>1, <1>0 DEF StartDeleting, Process
    <3>2. CASE p' = [p EXCEPT !.pc = "verify", !.round = @ + 1] /\ UNCHANGED blind /\ p.pc = "resolve"
      BY <3>2, <1>0 DEF Types, Process
    <3> QED BY <1>4, <3>1, <3>2
  <2>4. Types'
    BY <1>0, <1>1, <2>1, <2>3 DEF Types
  <2>5. Way'
    BY <1>0, <1>1, <2>1, <2>3 DEF Way, At
  <2>6. Origin'
    BY <1>0, <1>1 DEF BaseInv, Origin
  <2> QED BY <2>2, <2>4, <2>5, <2>6 DEF BaseInv
<1> QED BY <1>2, <1>3, <1>4

\* The process is forgotten, be it ended or killed.
LEMMA ForgottenStep ==
    ASSUME AllPlaced, BaseInv, Forgotten, UNCHANGED <<topo, run, cont, history>>, faults' \in Nat,
           \A i \in ifs' \ ifs : i.dev[1] = run /\ run # 0
    PROVE  BaseInv'
<1>1. p' = NoProcess /\ special' = NoEndpoints /\ pos' = [n \in Nodes |-> 0]
  BY DEF Forgotten
<1>2. /\ p'.op = "none" /\ p'.pc = "idle" /\ p'.filter = {} /\ p'.outcome = "none" /\ p'.warned = FALSE
      /\ p'.deleted = FALSE /\ p'.round = 0 /\ p'.left = {} /\ p'.failed = {} /\ p'.hpos = 1
  BY <1>1 DEF NoProcess
<1>3. Types'
  <2>1. p' \in Process(p'.left)
    BY <1>1, <1>2 DEF NoProcess, Process, Ops
  <2>2. pos' \in [Nodes -> Nat]
    BY <1>1
  <2> QED BY <2>1, <2>2 DEF BaseInv, Types, history
<1>4. Way'
  BY <1>1, <1>2 DEF Way, At
<1>5. ~Active'
  BY <1>2 DEF Active, Ended, At
<1>6. Objects'
  BY <1>5 DEF Objects
<1>7. Singles'
  <2>1. "host" \in DOMAIN special' /\ special'["host"] = <<>>
    BY <1>1 DEF NoEndpoints, Singletons
  <2> QED BY <1>5, <2>1 DEF Singles
<1>8. Origin'
  <2>1. ASSUME NEW i \in ifs'
        PROVE  /\ i.dev[1] \in 0..run
               /\ i.dev[1] = 0 => i.ns = Root /\ i.dev = <<0, i.name, "foreign">>
    <3>1. CASE i \in ifs
      BY <3>1 DEF BaseInv, Origin
    <3>2. CASE i \notin ifs
      BY <3>2 DEF BaseInv, Types
    <3> QED BY <3>1, <3>2
  <2> QED BY <1>2, <2>1 DEF Origin
<1> QED BY <1>3, <1>4, <1>6, <1>7, <1>8 DEF BaseInv

\* What a killed process leaves in the kernel.
LEMMA KillFact ==
    ASSUME Kill, BaseInv
    PROVE  \A i \in ifs' \ ifs : \E o, k : i = Waiting(o, k) /\ run # 0
<1>1. run # 0
  BY DEF Kill, At, BaseInv, Way, Types
<1>2. \/ ifs' = ifs
      \/ \E o : ifs' = ifs \cup {Iface(Root, RandName(o, k), Dev(o)) : k \in 1..Len(objs[o].eps)}
  BY DEF Kill
<1> QED BY <1>1, <1>2 DEF Waiting

\* A process ends, or is killed.
LEMMA LeavingNext ==
    ASSUME AllPlaced, BaseInv, Exit \/ Kill
    PROVE  BaseInv'
<1>1. CASE Exit
  BY <1>1, ForgottenStep DEF Exit, Working, kernel, BaseInv, Types
<1>2. CASE Kill
  <2>1. \A i \in ifs' \ ifs : i.dev[1] = run /\ run # 0
    BY <1>2, KillFact DEF Waiting, Iface, Dev
  <2>2. faults' \in Nat
    BY <1>2 DEF Kill, BaseInv, Types
  <2> QED BY <1>2, <2>1, <2>2, ForgottenStep DEF Kill, Working
<1> QED BY <1>1, <1>2

\* No command runs: the host and the tools for vxlan.
LEMMA IdleNext ==
    ASSUME AllPlaced, BaseInv,
           (\E i \in ifs : vxlanCreate(i)) \/ vxlanDelete \/ ParentChanges
    PROVE  BaseInv'
<1>1. /\ p.pc = "idle" /\ run \in Nat /\ run' \in Nat /\ run' >= run /\ faults \in Nat /\ faults' \in Nat
      /\ UNCHANGED <<topo, cont, p, special, objs, lstate, pos, history>>
  <2>1. run \in Nat /\ faults \in Nat
    BY DEF BaseInv, Types
  <2>2. CASE \E i \in ifs : vxlanCreate(i)
    BY <2>1, <2>2 DEF vxlanCreate, At
  <2>3. CASE vxlanDelete
    BY <2>1, <2>3 DEF vxlanDelete, At
  <2>4. CASE ParentChanges
    BY <2>1, <2>4 DEF ParentChanges, At, kernel
  <2> QED BY <2>2, <2>3, <2>4
<1>2. \A i \in ifs' \ ifs : i.dev[1] \in 1..run'
  <2>1. CASE \E i \in ifs : vxlanCreate(i)
    <3>1. PICK i \in ifs : vxlanCreate(i)
      BY <2>1
    <3> DEFINE dev == <<run', 0, "vxlan">>
    <3>2. ASSUME NEW j \in ifs' \ ifs PROVE j.dev = dev
      <4>1. j = Iface(Root, <<"clab-", run', 0, 1>>, dev) \/ j = Iface(Root, <<"vx-", i.name>>, dev)
        BY <3>1, <3>2 DEF vxlanCreate
      <4> QED BY <4>1 DEF Iface
    <3>3. dev[1] = run' /\ run' = run + 1
      BY <3>1 DEF vxlanCreate
    <3> QED BY <1>1, <3>2, <3>3
  <2>2. CASE vxlanDelete
    BY <2>2 DEF vxlanDelete
  <2>3. CASE ParentChanges
    BY <2>3 DEF ParentChanges, kernel
  <2> QED BY <2>1, <2>2, <2>3
<1>3. Types' /\ Way' /\ ~Active'
  BY <1>1 DEF BaseInv, Types, Way, Active, Ended, At, history
<1>4. Objects'
  BY <1>3 DEF Objects
<1>5. Singles'
  BY <1>1, <1>3, SameTopology DEF BaseInv, Singles, At
<1>6. Origin'
  <2>1. ASSUME NEW i \in ifs'
        PROVE  /\ i.dev[1] \in 0..run'
               /\ i.dev[1] = 0 => i.ns = Root /\ i.dev = <<0, i.name, "foreign">>
    <3>1. CASE i \in ifs
      BY <1>1, <3>1 DEF BaseInv, Origin
    <3>2. CASE i \notin ifs
      BY <1>1, <1>2, <3>2
    <3> QED BY <3>1, <3>2
  <2> QED BY <1>1, <2>1 DEF Origin
<1> QED BY <1>3, <1>4, <1>5, <1>6 DEF BaseInv

\* A destroy by name removes the containers and no link object.
LEMMA DirectNext ==
    ASSUME AllPlaced, BaseInv, deleteContainersDirect
    PROVE  BaseInv'
<1>1. /\ p.pc = "destroy" /\ p.op = "destroyByName" /\ ~p.deleted /\ p \in Process(p.left) /\ run > 0
      /\ p \in Process(p.left) /\ ifs' \subseteq ifs /\ cont' = {}
      /\ UNCHANGED <<topo, run, faults, special, objs, lstate, pos, scope, blind>> /\ End("ok")
  BY DEF deleteContainersDirect, BaseInv, Way, Types, At, Without, Working, history
<1>2. /\ p' \in Process(p'.left) /\ p'.filter = p.filter /\ p'.pc = "ended" /\ p'.op = p.op
      /\ p'.deleted = p.deleted
  BY <1>1, EndStep
<1>3. Types'
  BY <1>1, <1>2 DEF BaseInv, Types
<1>4. Way' /\ ~Active'
  BY <1>1, <1>2 DEF Way, Active, Ended, At, Deploys
<1>5. Objects'
  BY <1>4 DEF Objects
<1>6. Singles'
  BY <1>1, <1>2, <1>4, SameTopology DEF BaseInv, Singles, At
<1>7. Origin'
  BY <1>1, <1>2 DEF BaseInv, Origin
<1> QED BY <1>3, <1>4, <1>5, <1>6, <1>7 DEF BaseInv

\* Fields of the process that a command changes on its way, and those it keeps.
LEMMA LeftStep ==
    ASSUME p \in Process(p.left), NEW L, NEW w \in BOOLEAN, p' = [p EXCEPT !.left = L, !.warned = w]
    PROVE  /\ p' \in Process(p'.left) /\ p'.left = L /\ p'.warned = w
           /\ p'.failed = p.failed /\ p'.hpos = p.hpos
           /\ p'.pc = p.pc /\ p'.op = p.op /\ p'.filter = p.filter /\ p'.outcome = p.outcome
           /\ p'.deleted = p.deleted
  BY DEF Process

\* A worker gives up.
LEMMA FailedStep ==
    ASSUME p \in Process(p.left), NEW F \in SUBSET Nodes, p' = [p EXCEPT !.failed = F]
    PROVE  /\ p' \in Process(p'.left) /\ p'.failed = F /\ p'.left = p.left
           /\ p'.warned = p.warned /\ p'.hpos = p.hpos
           /\ p'.pc = p.pc /\ p'.op = p.op /\ p'.filter = p.filter /\ p'.outcome = p.outcome
           /\ p'.deleted = p.deleted
  BY DEF Process

\* The next endpoint of the host node.
LEMMA HostPosStep ==
    ASSUME p \in Process(p.left), NEW h \in Nat, NEW w \in BOOLEAN, p' = [p EXCEPT !.hpos = h, !.warned = w]
    PROVE  /\ p' \in Process(p'.left) /\ p'.hpos = h /\ p'.warned = w
           /\ p'.failed = p.failed /\ p'.left = p.left
           /\ p'.pc = p.pc /\ p'.op = p.op /\ p'.filter = p.filter /\ p'.outcome = p.outcome
           /\ p'.deleted = p.deleted
  BY DEF Process

\* What Delete removes are objects of the process.
LEMMA DeleteFact ==
    ASSUME AllPlaced, BaseInv, At("delete"), NEW n
    PROVE  /\ Delete(n) \subseteq 1..Len(objs)
           /\ \A bad \in SUBSET Delete(n) : IsFiniteSet(bad) /\ Cardinality(bad) \in Nat
<1>1. Delete(n) \subseteq 1..Len(objs)
  BY DEF Delete, Touched
<1>2. Active
  BY DEF Active, At
<1>3. Len(objs) \in Nat
  BY <1>2, ResolvedFact DEF BaseInv, Types, Objects
<1>4. IsFiniteSet(1..Len(objs))
  BY <1>3, FS_Interval
<1>5. \A bad \in SUBSET Delete(n) : IsFiniteSet(bad)
  BY <1>1, <1>4, FS_Subset
<1> QED BY <1>1, <1>5, FS_CardinalityType

\* What deleteNodes(n) does to the kernel, where bad of the removals failed.
DeleteStep(n, bad, gone) ==
  LET cost == Cardinality(bad) + (IF gone THEN 0 ELSE 1)
      S == Without(ifs, RemovedDevs(Delete(n), bad))
  IN  /\ cost <= faults
      /\ gone \/ n \in cont
      /\ faults' = faults - cost
      /\ ifs' = IF gone /\ n \in Containers THEN Without(S, DevsIn(S, n)) ELSE S
      /\ tc' = TcOf(ifs')
      /\ cont' = IF gone THEN cont \ {n} ELSE cont
      /\ p' = [p EXCEPT !.left = @ \ {n}, !.warned = @ \/ cost > 0]
      /\ lstate' = [o \in DOMAIN lstate |->
                      IF o \in Delete(n) THEN "removed" ELSE lstate[o]]

\* What deleting node n changes: interfaces and containers only disappear.
LEMMA DeletingFact ==
    ASSUME AllPlaced, BaseInv, NEW n, deleteNodes(n)
    PROVE  /\ p.pc = "delete" /\ Active /\ n \in p.left
           /\ UNCHANGED <<topo, run, parentUp, special, objs, pos, history>>
           /\ p' \in Process(p'.left) /\ p'.filter = p.filter /\ p'.pc = p.pc /\ p'.op = p.op
           /\ p'.left = p.left \ {n} /\ p'.failed = p.failed /\ p'.hpos = p.hpos
           /\ p'.deleted = p.deleted /\ p'.outcome = p.outcome
           /\ ifs' \subseteq ifs /\ cont' \subseteq cont /\ faults' \in Nat
           /\ \E bad \in SUBSET Delete(n), gone \in BOOLEAN :
                DeleteStep(n, bad, gone) /\ (~p'.warned => bad = {} /\ gone /\ ~p.warned)
<1>1. /\ p.pc = "delete" /\ Active /\ n \in p.left /\ p \in Process(p.left) /\ faults \in Nat
      /\ UNCHANGED <<topo, run, parentUp, special, objs, pos, history>> /\ At("delete")
  BY DEF deleteNodes, At, Active, BaseInv, Types, Working
<1>2. PICK bad \in SUBSET Delete(n), gone \in BOOLEAN : DeleteStep(n, bad, gone)
  BY DEF deleteNodes, DeleteStep
<1> DEFINE cost == Cardinality(bad) + (IF gone THEN 0 ELSE 1)
           w == p.warned \/ cost > 0
           L == p.left \ {n}
<1>3. cost \in Nat /\ IsFiniteSet(bad)
  BY <1>1, DeleteFact
<1>4. p' = [p EXCEPT !.left = L, !.warned = w] /\ cost <= faults /\ faults' = faults - cost
  BY <1>2 DEF DeleteStep
<1>5. w \in BOOLEAN
  BY <1>1 DEF Process
<1>6. ifs' \subseteq ifs /\ cont' \subseteq cont
  BY <1>2 DEF DeleteStep, Without
<1>7. ~w => bad = {} /\ gone /\ ~p.warned
  <2>1. ~w => cost = 0
    BY <1>3
  <2>2. Cardinality(bad) \in Nat
    BY <1>1, DeleteFact
  <2>3. ~w => Cardinality(bad) = 0 /\ gone
    BY <2>1, <2>2
  <2> QED BY <1>3, <2>3, FS_EmptySet
<1> HIDE DEF w, L
<1>8. /\ p' \in Process(p'.left) /\ p'.left = L /\ p'.warned = w /\ p'.failed = p.failed /\ p'.hpos = p.hpos
      /\ p'.pc = p.pc /\ p'.op = p.op /\ p'.filter = p.filter /\ p'.outcome = p.outcome
      /\ p'.deleted = p.deleted
  <2>1. p.failed \in SUBSET Nodes /\ p.hpos \in Nat
    BY <1>1 DEF Process
  <2> QED BY <1>1, <1>4, <1>5, <2>1, LeftStep
<1>9. faults' \in Nat
  BY <1>1, <1>3, <1>4
<1>10. ~p'.warned => bad = {} /\ gone /\ ~p.warned
  BY <1>7, <1>8
<1> HIDE DEF cost
<1> QED BY <1>1, <1>2, <1>6, <1>8, <1>9, <1>10 DEF L

\* deleteNodes keeps the base invariant.
LEMMA DeletingNext ==
    ASSUME AllPlaced, BaseInv, NEW n, deleteNodes(n)
    PROVE  BaseInv'
<1>1. /\ p.pc = "delete" /\ Active /\ n \in p.left
      /\ UNCHANGED <<topo, run, parentUp, special, objs, pos, history>>
      /\ p' \in Process(p'.left) /\ p'.filter = p.filter /\ p'.pc = p.pc /\ p'.op = p.op
      /\ p'.failed = p.failed /\ p'.hpos = p.hpos /\ p'.deleted = p.deleted
      /\ ifs' \subseteq ifs /\ cont' \subseteq cont /\ faults' \in Nat
  BY DeletingFact
<1>2. PICK bad, gone : DeleteStep(n, bad, gone)
  BY DeletingFact
<1>3. lstate' \in [1..Len(objs) -> States]
  BY <1>1, <1>2 DEF BaseInv, Objects, DeleteStep, States
<1>4. Way'
  BY <1>1 DEF BaseInv, Way, At
<1>5. cont' \subseteq Containers /\ pos' \in [Nodes -> Nat]
  BY <1>1 DEF BaseInv, Types
<1> QED BY <1>1, <1>3, <1>4, <1>5, KeepStep

\* Deploy, called by end k of object o, returned r.
DeployStep(o, k, r) ==
  /\ o \in 1..Len(objs) /\ k \in 1..Len(objs[o].eps)
  /\ r \in Deploy(ifs, o, k) /\ r.cost <= faults /\ faults' = faults - r.cost
  /\ ifs' = r.ifs /\ lstate' = [lstate EXCEPT ![o] = r.st]

\* A worker deploys the next endpoint of its node.
WorkerStep(n, o, k, r) ==
  /\ DeployStep(o, k, r) /\ objs[o].eps[k].node = n
  /\ pos[n] \in 1..Len(EndsOn(objs, n)) /\ EndsOn(objs, n)[pos[n]] = <<o, k>>
  /\ p'.left = p.left /\ p'.warned = p.warned /\ p'.hpos = p.hpos
  /\ \/ r.ok /\ pos' = [pos EXCEPT ![n] = @ + 1] /\ p'.failed = p.failed
     \/ ~r.ok /\ pos' = pos /\ p'.failed = p.failed \cup {n}

\* A worker deploys the next endpoint of its node and nothing else.
LEMMA WorkerFact ==
    ASSUME AllPlaced, BaseInv, NEW n \in Nodes, DeployEndpoints(n)
    PROVE  /\ p.pc = "nodes" /\ Active /\ UNCHANGED <<topo, run, parentUp, special, objs, tc, cont, history>>
           /\ p' \in Process(p'.left) /\ p'.filter = p.filter /\ p'.pc = p.pc /\ p'.op = p.op
           /\ p'.outcome = p.outcome /\ p'.deleted = p.deleted
           /\ \E o, k, r : WorkerStep(n, o, k, r)
<1>1. /\ p.pc = "nodes" /\ Active /\ p \in Process(p.left) /\ Types /\ Objects
      /\ UNCHANGED <<topo, run, parentUp, special, objs, tc, cont, history>> /\ Pending(n)
  BY DEF DeployEndpoints, At, Active, BaseInv, Types, Working
<1> DEFINE x == EndsOn(objs, n)[pos[n]]
<1>2. PICK r \in Deploy(ifs, x[1], x[2]) :
           /\ r.cost <= faults
           /\ faults' = faults - r.cost
           /\ ifs' = r.ifs
           /\ lstate' = [lstate EXCEPT ![x[1]] = r.st]
           /\ IF r.ok THEN pos' = [pos EXCEPT ![n] = @ + 1] /\ UNCHANGED p
              ELSE p' = [p EXCEPT !.failed = @ \cup {n}] /\ UNCHANGED pos
  BY DEF DeployEndpoints
<1>3. pos[n] \in 1..Len(EndsOn(objs, n))
  BY <1>1 DEF Pending
<1>4. /\ x = <<x[1], x[2]>> /\ x[1] \in 1..Len(objs) /\ x[2] \in 1..Len(objs[x[1]].eps)
      /\ objs[x[1]].eps[x[2]].node = n
  BY <1>1, <1>3, EndFact
<1> HIDE DEF x
<1>5. DeployStep(x[1], x[2], r)
  BY <1>2, <1>4 DEF DeployStep
<1>6. /\ p' \in Process(p'.left) /\ p'.filter = p.filter /\ p'.pc = p.pc /\ p'.op = p.op
      /\ p'.outcome = p.outcome /\ p'.deleted = p.deleted
      /\ p'.left = p.left /\ p'.warned = p.warned /\ p'.hpos = p.hpos
      /\ \/ r.ok /\ pos' = [pos EXCEPT ![n] = @ + 1] /\ p'.failed = p.failed
         \/ ~r.ok /\ pos' = pos /\ p'.failed = p.failed \cup {n}
  <2>1. CASE r.ok
    BY <1>1, <1>2, <2>1
  <2>2. CASE ~r.ok
    <3> DEFINE F == p.failed \cup {n}
    <3>1. p' = [p EXCEPT !.failed = F] /\ pos' = pos
      BY <1>2, <2>2
    <3>2. F \in SUBSET Nodes /\ p.warned \in BOOLEAN /\ p.hpos \in Nat
      BY <1>1 DEF Process
    <3> HIDE DEF F
    <3>3. /\ p' \in Process(p'.left) /\ p'.filter = p.filter /\ p'.pc = p.pc /\ p'.op = p.op
          /\ p'.outcome = p.outcome /\ p'.deleted = p.deleted
          /\ p'.left = p.left /\ p'.warned = p.warned /\ p'.hpos = p.hpos /\ p'.failed = F
      BY <1>1, <3>1, <3>2, FailedStep
    <3> QED BY <2>2, <3>1, <3>3 DEF F
  <2> QED BY <2>1, <2>2
<1>7. WorkerStep(n, x[1], x[2], r)
  BY <1>3, <1>4, <1>5, <1>6 DEF WorkerStep, x
<1> QED BY <1>1, <1>6, <1>7

\* The command deploys an endpoint of the host node.
HostStep(o, k, r) ==
  /\ DeployStep(o, k, r) /\ objs[o].eps[k].node = "host"
  /\ special["host"][p.hpos].end = <<o, k>>
  /\ p'.warned = (p.warned \/ ~r.ok)

\* The next endpoint of the host node is deployed, and nothing else.
LEMMA HostFact ==
    ASSUME AllPlaced, BaseInv, DeployHostEndpoint
    PROVE  /\ p.pc = "hostEps" /\ Active /\ UNCHANGED <<topo, run, parentUp, special, objs, tc, cont, pos, history>>
           /\ p.hpos \in 1..Len(special["host"])
           /\ p' \in Process(p'.left) /\ p'.filter = p.filter /\ p'.pc = p.pc /\ p'.op = p.op
           /\ p'.outcome = p.outcome /\ p'.deleted = p.deleted
           /\ p'.failed = p.failed /\ p'.left = p.left /\ p'.hpos = p.hpos + 1
           /\ \E o, k, r : HostStep(o, k, r)
<1>1. /\ p.pc = "hostEps" /\ Active /\ p \in Process(p.left) /\ Types /\ Objects /\ Singles /\ Way
      /\ UNCHANGED <<topo, run, parentUp, special, objs, tc, cont, pos, history>>
  BY DEF DeployHostEndpoint, At, Active, BaseInv, Types, Working
<1>2. p.hpos \in 1..Len(special["host"]) /\ p.hpos \in Nat
  <2>1. p.hpos # 0 /\ p.hpos \in Nat /\ p.hpos <= Len(special["host"]) /\ Len(special["host"]) \in Nat
    BY <1>1 DEF Way, At, Process, DeployHostEndpoint, Singles
  <2> QED BY <2>1
<1> DEFINE x == special["host"][p.hpos].end
<1>3. PICK r \in Deploy(ifs, x[1], x[2]) :
           /\ r.cost <= faults
           /\ faults' = faults - r.cost
           /\ ifs' = r.ifs
           /\ lstate' = [lstate EXCEPT ![x[1]] = r.st]
           /\ p' = [p EXCEPT !.hpos = @ + 1, !.warned = @ \/ ~r.ok]
  BY DEF DeployHostEndpoint
<1>4. /\ x = <<x[1], x[2]>> /\ x[1] \in 1..Len(objs) /\ x[2] \in 1..Len(objs[x[1]].eps)
      /\ objs[x[1]].eps[x[2]].node = "host"
  <2>1. x \in ToSet(EndsOn(objs, "host"))
    BY <1>1, <1>2 DEF Singles, HostEnds, Objects
  <2>2. objs = Resolved(p.filter) /\ topo \in Topologies
    BY <1>1 DEF Objects, Types
  <2>3. PICK o \in 1..Len(objs) : \E k \in 1..Len(objs[o].eps) : x = <<o, k>> /\ objs[o].eps[k].node = "host"
    BY <2>1, <2>2, EndsOnFact
  <2> HIDE DEF x
  <2> QED BY <2>3
<1> HIDE DEF x
<1>5. DeployStep(x[1], x[2], r)
  BY <1>3, <1>4 DEF DeployStep
<1> DEFINE w == p.warned \/ ~r.ok
           h == p.hpos + 1
<1>6. p' = [p EXCEPT !.hpos = h, !.warned = w] /\ w \in BOOLEAN /\ h \in Nat /\ p.failed \in SUBSET Nodes
  BY <1>1, <1>2, <1>3 DEF Process
<1> HIDE DEF w, h
<1>7. /\ p' \in Process(p'.left) /\ p'.filter = p.filter /\ p'.pc = p.pc /\ p'.op = p.op
      /\ p'.outcome = p.outcome /\ p'.deleted = p.deleted
      /\ p'.failed = p.failed /\ p'.left = p.left /\ p'.hpos = h /\ p'.warned = w
  BY <1>1, <1>6, HostPosStep
<1>8. HostStep(x[1], x[2], r)
  BY <1>4, <1>5, <1>7 DEF HostStep, x, w
<1> QED BY <1>1, <1>2, <1>7, <1>8 DEF h

\* What a call of Deploy adds belongs to this process and to its object.
LEMMA DeployStepFact ==
    ASSUME AllPlaced, BaseInv, Active, NEW o, NEW k, NEW r, DeployStep(o, k, r)
    PROVE  /\ faults' \in Nat /\ lstate' \in [1..Len(objs) -> States] /\ Returned(ifs, o, k, r)
           /\ \A i \in ifs' \ ifs : i.dev = Dev(o) /\ i.dev[1] = run
<1>1. /\ o \in 1..Len(objs) /\ k \in 1..Len(objs[o].eps) /\ r \in Deploy(ifs, o, k)
      /\ r.cost <= faults /\ faults' = faults - r.cost
      /\ ifs' = r.ifs /\ lstate' = [lstate EXCEPT ![o] = r.st]
  BY DEF DeployStep
<1>2. Types /\ Objects /\ faults \in Nat /\ lstate \in [1..Len(objs) -> States]
  BY DEF BaseInv, Types, Objects
<1>3. Returned(ifs, o, k, r)
  BY <1>1, <1>2, DeployReturned
<1>4. r.cost \in Nat /\ r.st \in States
  BY <1>3 DEF Returned
<1>5. faults' \in Nat /\ lstate' \in [1..Len(objs) -> States]
  BY <1>1, <1>2, <1>4
<1>6. \A i \in ifs' \ ifs : i.dev = Dev(o) /\ i.dev[1] = run
  BY <1>1, <1>3, NewInterfaces
<1> QED BY <1>3, <1>5, <1>6

\* The steps that deploy keep the base invariant.
LEMMA WorkingNext ==
    ASSUME AllPlaced, BaseInv,
           \/ \E n \in Nodes : DeployNode(n) \/ DeployEndpoints(n)
           \/ DeployHostEndpoint \/ \E i \in 1..Len(topo) : Stitch(i)
    PROVE  BaseInv'
<1>0. Types /\ Objects /\ p \in Process(p.left) /\ pos \in [Nodes -> Nat] /\ cont \subseteq Containers
  BY DEF BaseInv, Types
<1>1. CASE \E n \in Nodes : DeployNode(n)
  <2>1. PICK n \in Nodes : DeployNode(n)
    BY <1>1
  <2>2. /\ p.pc = "nodes" /\ Active /\ UNCHANGED <<topo, run, special, objs, history>> /\ p' = p /\ ifs' = ifs
        /\ faults' = faults /\ lstate' = lstate /\ cont' \subseteq Containers /\ pos' \in [Nodes -> Nat]
    BY <2>1, <1>0 DEF DeployNode, At, Active, Working
  <2>3. Way'
    BY <2>2 DEF BaseInv, Way, At
  <2> QED BY <1>0, <2>2, <2>3, KeepStep DEF Types, Objects
<1>2. CASE \E n \in Nodes : DeployEndpoints(n)
  <2>1. PICK n \in Nodes : DeployEndpoints(n)
    BY <1>2
  <2>2. /\ p.pc = "nodes" /\ Active /\ UNCHANGED <<topo, run, parentUp, special, objs, tc, cont, history>>
        /\ p' \in Process(p'.left) /\ p'.filter = p.filter /\ p'.pc = p.pc /\ p'.op = p.op
    BY <2>1, WorkerFact
  <2>3. PICK o, k, r : WorkerStep(n, o, k, r)
    BY <2>1, WorkerFact
  <2>4. DeployStep(o, k, r) /\ pos' \in [Nodes -> Nat] /\ p'.hpos = p.hpos
    BY <1>0, <2>3 DEF WorkerStep
  <2>5. /\ faults' \in Nat /\ lstate' \in [1..Len(objs) -> States]
        /\ \A i \in ifs' \ ifs : i.dev[1] = run
    BY <2>2, <2>4, DeployStepFact
  <2>6. Way'
    BY <2>2, <2>4 DEF BaseInv, Way, At
  <2> QED BY <1>0, <2>2, <2>4, <2>5, <2>6, KeepStep
<1>3. CASE DeployHostEndpoint
  <2>1. /\ p.pc = "hostEps" /\ Active /\ UNCHANGED <<topo, run, parentUp, special, objs, tc, cont, pos, history>>
        /\ p' \in Process(p'.left) /\ p'.filter = p.filter /\ p'.pc = p.pc /\ p'.op = p.op
        /\ p'.failed = p.failed /\ p'.hpos = p.hpos + 1 /\ p.hpos \in Nat
    BY <1>3, HostFact
  <2>2. PICK o, k, r : HostStep(o, k, r)
    BY <1>3, HostFact
  <2>3. DeployStep(o, k, r)
    BY <2>2 DEF HostStep
  <2>4. /\ faults' \in Nat /\ lstate' \in [1..Len(objs) -> States]
        /\ \A i \in ifs' \ ifs : i.dev[1] = run
    BY <2>1, <2>3, DeployStepFact
  <2>5. Way'
    BY <2>1 DEF BaseInv, Way, At
  <2> QED BY <1>0, <2>1, <2>3, <2>4, <2>5, KeepStep
<1>4. CASE \E i \in 1..Len(topo) : Stitch(i)
  <2>1. PICK i \in 1..Len(topo) : Stitch(i)
    BY <1>4
  <2>2. /\ p.pc = "hostEps" /\ Active /\ UNCHANGED <<topo, run, special, objs, history>>
        /\ ifs' = ifs /\ lstate' = lstate /\ cont' = cont /\ pos' = pos
    BY <2>1 DEF Stitch, At, Active, Working
  <2>3. PICK done \in 0..2, both \in BOOLEAN :
             /\ both /\ done < 2 => faults > 0
             /\ faults' = IF both /\ done < 2 THEN faults - 1 ELSE faults
             /\ p' = [p EXCEPT !.left = @ \ {i}, !.warned = @ \/ done < 2]
    BY <2>1 DEF Stitch
  <2>4. faults' \in Nat /\ (p.warned \/ done < 2) \in BOOLEAN
    <3>1. faults \in Nat /\ p.warned \in BOOLEAN
      BY <1>0 DEF Types, Process
    <3>2. (p.warned \/ done < 2) \in BOOLEAN
      BY <3>1
    <3>3. faults' \in Nat
      BY <2>3, <3>1
    <3> QED BY <3>2, <3>3
  <2>5. p.failed \in SUBSET Nodes /\ p.hpos \in Nat
    BY <1>0 DEF Process
  <2>6. /\ p' \in Process(p'.left) /\ p'.filter = p.filter /\ p'.pc = p.pc /\ p'.op = p.op
        /\ p'.failed = p.failed /\ p'.hpos = p.hpos
    <3> DEFINE L == p.left \ {i}
               w == p.warned \/ done < 2
    <3>1. p' = [p EXCEPT !.left = L, !.warned = w] /\ w \in BOOLEAN
      BY <2>3, <2>4
    <3> HIDE DEF L, w
    <3> QED BY <1>0, <2>5, <3>1, LeftStep
  <2>7. Way'
    BY <2>2, <2>6 DEF BaseInv, Way, At
  <2> QED BY <1>0, <2>2, <2>4, <2>6, <2>7, KeepStep DEF Types, Objects
<1> QED BY <1>1, <1>2, <1>3, <1>4

\* Every step keeps the base invariant.
LEMMA BaseNext == AllPlaced /\ BaseInv /\ [Next]_vars => BaseInv'
<1> SUFFICES ASSUME AllPlaced, BaseInv, [Next]_vars PROVE BaseInv'
  OBVIOUS
<1>1. CASE \E op \in Commands \ {"vxlanCreate", "vxlanDelete"} :
             \E f \in IF op \in {"destroyByName", "redeploy"} THEN {{}} ELSE Filters : GiveCommand(op, f)
  BY <1>1, GiveStep
<1>2. CASE DestroyNothing \/ Deleted \/ checkTopologyDefinition \/ WorkersReturned \/ DeployReturns
  BY <1>2, CalmNext
<1>3. CASE makeCopyForDestroy \/ DeployResolve
  BY <1>3, ResolvingNext
<1>4. CASE deleteContainersDirect
  BY <1>4, DirectNext
<1>5. CASE \E n \in Nodes \cup Singletons : deleteNodes(n)
  BY <1>5, DeletingNext
<1>6. CASE \/ \E n \in Nodes : DeployNode(n) \/ DeployEndpoints(n)
           \/ DeployHostEndpoint \/ \E i \in 1..Len(topo) : Stitch(i)
  BY <1>6, WorkingNext
<1>7. CASE Exit \/ Kill
  BY <1>7, LeavingNext
<1>8. CASE (\E i \in ifs : vxlanCreate(i)) \/ vxlanDelete \/ ParentChanges
  BY <1>8, IdleNext
<1>9. CASE UNCHANGED vars
  <2>1. UNCHANGED <<topo, ifs, tc, cont, run, faults, p, special, objs, lstate, pos, scope, blind>>
    BY <1>9 DEF vars, kernel, history
  <2>2. Types' /\ Way' /\ Origin' /\ (Active' <=> Active)
    BY <2>1 DEF BaseInv, Types, Way, Origin, Active, Ended, At
  <2>3. Objects' /\ Singles'
    BY <2>1, <2>2, SameTopology DEF BaseInv, Objects, Singles, At
  <2> QED BY <2>2, <2>3 DEF BaseInv
<1> QED BY <1>1, <1>2, <1>3, <1>4, <1>5, <1>6, <1>7, <1>8, <1>9 DEF Next

\* The base invariant holds in every state: the objects of a process are those its filter
\* resolves to, and an interface belongs to the host or to a process that has run.
THEOREM BaseTheorem == ASSUME AllPlaced PROVE Spec => []BaseInv
<1>1. Init => BaseInv
  BY BaseInit
<1>2. BaseInv /\ [Next]_vars => BaseInv'
  BY BaseNext
<1> QED BY <1>1, <1>2, PTL DEF Spec

(***************************************************************************)
(* The interfaces of the host are kept: every name that is removed was verified,*)
(* and what was verified has not changed since.                            *)
(***************************************************************************)

\* No end of a link that filter f takes has the name of an interface of the host.
Clear(f) == \A x \in ToSet(Resolved(f)) : \A k \in 1..Len(x.eps) :
               NsOf(x.eps[k].node) = Root => x.eps[k].name \notin Foreign
\* An interface of the host.
HostIface(n) == Iface(Root, n, <<0, n, "foreign">>)
ClearNow == /\ cont # {} \/ At("nodes") => Clear(scope)
            /\ At("delete") => Clear(p.filter)
\* The invariant of HostInterfacesKept.
KeptInv == HostInterfacesKept /\ (~blind => ClearNow)

\* Clear depends on the topology file only.
LEMMA SameClear ==
    ASSUME UNCHANGED topo
    PROVE  \A f : Clear(f)' <=> Clear(f)
<1>1. \A f : Resolved(f)' = Resolved(f)
  BY SameTopology
<1> QED BY <1>1 DEF Clear

\* Only a container has a namespace of its own.
LEMMA NotRoot ==
    /\ Root \notin Nodes /\ \A n \in Containers : NsOf(n) = n /\ n # Root
    /\ \A n : n \notin Containers => NsOf(n) = Root
    /\ \A n \in Singletons : n \notin Nodes /\ NsOf(n) = Root
  BY LabLinksAssumption DEF Root, Nodes, NsOf, Singletons

\* The device of an interface of the host is never moved or renamed.
LEMMA ForeignIface ==
    ASSUME BaseInv, NEW n, NEW i \in ifs, i.dev = HostIface(n).dev
    PROVE  i.ns = Root /\ i.name = n
<1>1. i.dev = <<0, n, "foreign">>
  BY DEF HostIface, Iface
<1>2. i.dev[1] = 0 /\ i.dev[2] = n
  BY <1>1
<1>3. i.ns = Root /\ i.dev = <<0, i.name, "foreign">>
  BY <1>2 DEF BaseInv, Origin
<1> QED BY <1>1, <1>3

\* A verified deployment meets no name of the host.
LEMMA VerifiedClear ==
    ASSUME AllPlaced, BaseInv, At("verify"), verifyLinks, ~blind, HostInterfacesKept
    PROVE  Clear(p.filter)
<1>1. Active /\ Types /\ Objects
  BY DEF Active, At, BaseInv
<1>2. objs = Resolved(p.filter) /\ topo \in Topologies /\ Known(p.filter) /\ p.filter \subseteq Nodes
  BY <1>1 DEF Objects, Types, Process
<1> SUFFICES ASSUME NEW x \in ToSet(objs), NEW k \in 1..Len(x.eps), NsOf(x.eps[k].node) = Root,
                    x.eps[k].name \in Foreign
             PROVE  FALSE
  BY <1>2 DEF Clear
<1> DEFINE e == x.eps[k]
<1>3. PICK o \in 1..Len(objs) : objs[o] = x
  BY <1>2, ResolvedFact DEF ToSet
<1>4. ObjectOf(x, x.link, Defs[x.link]) /\ e.node \in Targets(p.filter) \cup Singletons
  BY <1>1, <1>3, ObjectFact
<1>5. e.node \in Bridges \cup {"host", "mgmt-net"}
  BY <1>2, <1>4, NotRoot DEF Targets, Nodes, Singletons
<1>6. HostIface(e.name) \in ifs
  BY DEF HostInterfacesKept, HostIface
<1>7. Exists(ifs, NsOf(e.node), e.name)
  BY <1>6 DEF Exists, HostIface, Iface
<1>8. CASE Defs[x.link].type = "vxlan-stitch" /\ x.kind = "veth"
  <2>1. k \in {1, 2} /\ x.eps[1].node \notin Bridges \cup Singletons /\ x.eps[2].name[1] = "ve"
    BY <1>4, <1>8 DEF ObjectOf
  <2>2. CASE k = 1
    BY <1>5, <2>1, <2>2 DEF Singletons
  <2>3. CASE k = 2
    BY <2>1, <2>3, ForeignAssumption
  <2> QED BY <2>1, <2>2, <2>3
<1>9. CASE ~(Defs[x.link].type = "vxlan-stitch" /\ x.kind = "veth")
  <2>1. e \in ToSet(x.eps)
    <3>1. DOMAIN x.eps = 1..Len(x.eps)
      BY <1>4 DEF ObjectOf
    <3> QED BY <3>1 DEF ToSet
  <2>2. e \in VerifiedEps
    BY <1>3, <1>9, <2>1 DEF VerifiedEps
  <2>3. Verify(e)
    BY <2>2 DEF verifyLinks
  <2>4. CheckEndpointDoesNotExistYet(e)
    <3>1. CASE e.node = "host"
      <4>1. e.node \notin Bridges
        BY <3>1, LabLinksAssumption
      <4> HIDE DEF e
      <4>2. Verify(e) = VerifyHost(e)
        BY <3>1, <4>1 DEF Verify
      <4> QED BY <2>3, <4>2 DEF VerifyHost
    <3>2. CASE e.node # "host"
      <4>1. e.node \in Bridges \cup {"mgmt-net"}
        BY <1>5, <3>2
      <4> HIDE DEF e
      <4>2. Verify(e) = VerifyBridge(e)
        BY <3>2, <4>1 DEF Verify
      <4> QED BY <2>3, <4>2 DEF VerifyBridge
    <3> QED BY <3>1, <3>2
  <2> QED BY <1>7, <2>4 DEF CheckEndpointDoesNotExistYet
<1> QED BY <1>8, <1>9

\* What deleteNodes removes, and what keeps the interfaces of the host from it.
LEMMA DeletingKeeps ==
    ASSUME AllPlaced, BaseInv, NEW n, deleteNodes(n), Clear(p.filter), HostInterfacesKept, ~blind,
           NEW m \in Foreign
    PROVE  HostIface(m) \in ifs'
<1>1. Active /\ Types /\ Objects /\ topo \in Topologies /\ p.pc = "delete" /\ At("delete")
  BY DeletingFact DEF BaseInv, Types, At
<1>2. PICK bad \in SUBSET Delete(n), gone \in BOOLEAN : DeleteStep(n, bad, gone)
  BY DeletingFact
<1>3. HostIface(m) \in ifs
  BY DEF HostInterfacesKept, HostIface
<1> DEFINE d == HostIface(m).dev
           R == RemovedDevs(Delete(n), bad)
           S == Without(ifs, R)
<1>4. d \notin R
  <2> SUFFICES ASSUME d \in R PROVE FALSE
    OBVIOUS
  <2>1. PICK o \in Delete(n) : \E e \in ToSet(objs[o].eps) : d \in DevsAt(ifs, NsOf(e.node), {e.name})
    <3> HIDE DEF d
    <3>1. PICK o \in Delete(n) \ bad : d \in UNION {DevsAt(ifs, NsOf(e.node), {e.name}) : e \in ToSet(objs[o].eps)}
      BY DEF RemovedDevs
    <3> QED BY <3>1
  <2>2. o \in 1..Len(objs)
    BY <1>1, DeleteFact
  <2>3. PICK e \in ToSet(objs[o].eps) : d \in DevsAt(ifs, NsOf(e.node), {e.name})
    BY <2>1
  <2>4. PICK i \in ifs : i.ns = NsOf(e.node) /\ i.name = e.name /\ i.dev = d
    BY <2>3 DEF DevsAt
  <2>5. i.ns = Root /\ i.name = m
    BY <2>4, ForeignIface
  <2>6. objs[o] \in ToSet(Resolved(p.filter)) /\ ObjectOf(objs[o], objs[o].link, Defs[objs[o].link])
    BY <1>1, <2>2, ObjectFact
  <2>7. PICK k \in 1..Len(objs[o].eps) : objs[o].eps[k] = e
    BY <2>6 DEF ObjectOf, ToSet
  <2> QED BY <2>4, <2>5, <2>6, <2>7 DEF Clear
<1>5. HostIface(m) \in S
  BY <1>3, <1>4 DEF Without
<1>6. CASE gone /\ n \in Containers
  <2>1. d \notin DevsIn(S, n)
    <3> SUFFICES ASSUME d \in DevsIn(S, n) PROVE FALSE
      OBVIOUS
    <3>1. PICK i \in S : i.ns = n /\ i.dev = d
      BY DEF DevsIn
    <3>2. i \in ifs
      BY <3>1 DEF Without
    <3> QED BY <1>6, <3>1, <3>2, ForeignIface, NotRoot
  <2>2. ifs' = Without(S, DevsIn(S, n))
    BY <1>2, <1>6 DEF DeleteStep
  <2> QED BY <1>5, <2>1, <2>2 DEF Without
<1>7. CASE ~(gone /\ n \in Containers)
  BY <1>2, <1>5, <1>7 DEF DeleteStep
<1> QED BY <1>6, <1>7

\* Deploy removes nothing but an interface under its random name.
LEMMA DeployKeeps ==
    ASSUME AllPlaced, BaseInv, Active, p.pc \in {"nodes", "hostEps"}, NEW o, NEW k, NEW r, DeployStep(o, k, r),
           NEW i \in ifs, i.dev[1] # run
    PROVE  i \in ifs'
<1>1. Returned(ifs, o, k, r) /\ ifs' = r.ifs
  BY DeployStepFact DEF DeployStep
<1>2. \A j \in ifs \ r.ifs : j.dev[1] = run
  BY <1>1 DEF Returned, Removed, Waiting, Iface, Dev
<1> QED BY <1>1, <1>2

\* The steps that leave the verified links as they are.
LEMMA QuietClear ==
    ASSUME ~blind => ClearNow, UNCHANGED <<topo, scope, blind>>, cont' \subseteq cont,
           At("nodes")' => At("nodes"), At("delete")' => At("delete") /\ p'.filter = p.filter
    PROVE  ~blind' => ClearNow'
  BY SameClear DEF ClearNow, At

\* No name of the host gets as far as being removed, in the next state.
LEMMA ClearNext ==
    ASSUME AllPlaced, BaseInv, KeptInv, [Next]_vars
    PROVE  ~blind' => ClearNow'
<1>0. (~blind => ClearNow) /\ HostInterfacesKept /\ topo \in Topologies
  BY DEF KeptInv, BaseInv, Types
<1>1. CASE \E op \in Commands \ {"vxlanCreate", "vxlanDelete"} :
             \E f \in IF op \in {"destroyByName", "redeploy"} THEN {{}} ELSE Filters : GiveCommand(op, f)
  <2>1. p'.pc \in {"destroy", "resolve"}
    BY <1>1 DEF GiveCommand, NoProcess
  <2>2. UNCHANGED <<topo, scope, blind, cont>>
    BY <1>1 DEF GiveCommand, kernel, history
  <2> QED BY <1>0, <2>1, <2>2, QuietClear DEF At
<1>2. CASE DestroyNothing \/ Deleted \/ WorkersReturned \/ DeployReturns
  <2>1. UNCHANGED <<topo, scope, blind, cont>>
    BY <1>2 DEF DestroyNothing, Deleted, WorkersReturned, DeployReturns, Working, kernel, history
  <2>2. p'.pc \notin {"nodes", "delete"}
    <3>0. p \in Process(p.left)
      BY DEF BaseInv, Types
    <3>1. CASE DestroyNothing
      BY <3>0, <3>1 DEF DestroyNothing, End, Process
    <3>2. CASE Deleted
      <4>1. p.op \in {"destroy", "redeploy", "reconfigure"}
        BY <3>2 DEF Deleted, BaseInv, Way
      <4> QED BY <3>0, <3>2, <4>1 DEF Deleted, End, Process
    <3>3. CASE WorkersReturned
      BY <3>0, <3>3 DEF WorkersReturned, End, Process
    <3>4. CASE DeployReturns
      BY <3>0, <3>4 DEF DeployReturns, End, Process
    <3> QED BY <1>2, <3>1, <3>2, <3>3, <3>4
  <2> QED BY <1>0, <2>1, <2>2, QuietClear DEF At
<1>3. CASE checkTopologyDefinition
  <2>0. At("verify") /\ UNCHANGED <<topo, blind, cont>> /\ p \in Process(p.left)
    BY <1>3 DEF checkTopologyDefinition, Working, kernel, BaseInv, Types
  <2>1. CASE p' = [p EXCEPT !.pc = "nodes"] /\ scope' = p.filter /\ verifyLinks
    <3>1. p'.pc = "nodes"
      BY <2>0, <2>1 DEF Process
    <3>2. ~blind => Clear(p.filter)
      BY <1>0, <2>0, <2>1, VerifiedClear
    <3> QED BY <2>0, <2>1, <3>1, <3>2, SameClear DEF ClearNow, At
  <2>2. CASE End("error") /\ UNCHANGED scope
    <3>1. p'.pc = "ended"
      BY <2>0, <2>2 DEF End, Process
    <3> QED BY <1>0, <2>0, <2>2, <3>1, QuietClear DEF At
  <2> QED BY <1>3, <2>1, <2>2 DEF checkTopologyDefinition
<1>4. CASE makeCopyForDestroy \/ DeployResolve
  <2>0. UNCHANGED <<topo, cont, scope>> /\ p \in Process(p.left) /\ p.pc \in {"destroy", "resolve"}
    BY <1>4 DEF makeCopyForDestroy, DeployResolve, StartDeleting, Working, kernel, history, BaseInv, Types, At
  <2>1. \/ End("error") /\ UNCHANGED blind
        \/ StartDeleting([p EXCEPT !.round = @ + 1]) /\ cont # {}
        \/ p' = [p EXCEPT !.pc = "verify", !.round = @ + 1] /\ UNCHANGED blind
    BY <1>4 DEF makeCopyForDestroy, DeployResolve, history
  <2>2. CASE End("error") /\ UNCHANGED blind
    <3>1. p'.pc = "ended"
      BY <2>0, <2>2 DEF End, Process
    <3> QED BY <1>0, <2>0, <2>2, <3>1, QuietClear DEF At
  <2>3. CASE StartDeleting([p EXCEPT !.round = @ + 1]) /\ cont # {}
    <3>1. p'.pc = "delete" /\ p'.filter = p.filter /\ blind' = (blind \/ ~Within(p.filter, scope))
      BY <2>0, <2>3 DEF StartDeleting, Process
    <3>2. ASSUME ~blind' PROVE Clear(scope) /\ Clear(p.filter)
      <4>1. ~blind /\ Within(p.filter, scope)
        BY <3>1, <3>2
      <4>2. Clear(scope)
        BY <1>0, <2>3, <4>1 DEF ClearNow
      <4> QED BY <1>0, <4>1, <4>2, WithinFact DEF Clear
    <3> QED BY <2>0, <3>1, <3>2, SameClear DEF ClearNow, At
  <2>4. CASE p' = [p EXCEPT !.pc = "verify", !.round = @ + 1] /\ UNCHANGED blind
    <3>1. p'.pc = "verify"
      BY <2>0, <2>4 DEF Process
    <3> QED BY <1>0, <2>0, <2>4, <3>1, QuietClear DEF At
  <2> QED BY <2>1, <2>2, <2>3, <2>4
<1>5. CASE deleteContainersDirect
  <2>1. p'.pc = "ended" /\ UNCHANGED <<topo, scope, blind>> /\ cont' \subseteq cont
    BY <1>5 DEF deleteContainersDirect, End, Working, history, BaseInv, Types, Process
  <2> QED BY <1>0, <2>1, QuietClear DEF At
<1>6. CASE \E n \in Nodes \cup Singletons : deleteNodes(n)
  BY <1>0, <1>6, DeletingFact, QuietClear DEF At, history
<1>7. CASE \E n \in Nodes : DeployNode(n)
  <2>1. At("nodes") /\ UNCHANGED <<topo, p, scope, blind>>
    BY <1>7 DEF DeployNode, Working, history
  <2> QED BY <1>0, <2>1, SameClear DEF ClearNow, At
<1>8. CASE \E n \in Nodes : DeployEndpoints(n)
  BY <1>0, <1>8, WorkerFact, QuietClear DEF At, history
<1>9. CASE DeployHostEndpoint
  BY <1>0, <1>9, HostFact, QuietClear DEF At, history
<1>10. CASE \E i \in 1..Len(topo) : Stitch(i)
  <2>1. /\ UNCHANGED <<topo, scope, blind, cont>> /\ p \in Process(p.left)
        /\ p.pc = "hostEps" /\ \E L, w : p' = [p EXCEPT !.left = L, !.warned = w]
    BY <1>10 DEF Stitch, Working, history, At, BaseInv, Types
  <2>2. p'.pc = "hostEps"
    BY <2>1 DEF Process
  <2> QED BY <1>0, <2>1, <2>2, QuietClear DEF At
<1>11. CASE Exit \/ Kill
  <2>1. p'.pc = "idle" /\ UNCHANGED <<topo, scope, blind, cont>>
    BY <1>11 DEF Exit, Kill, Forgotten, NoProcess, Working, kernel, history
  <2> QED BY <1>0, <2>1, QuietClear DEF At
<1>12. CASE (\E i \in ifs : vxlanCreate(i)) \/ vxlanDelete \/ ParentChanges
  <2>1. UNCHANGED <<topo, scope, blind, cont, p>>
    BY <1>12 DEF vxlanCreate, vxlanDelete, ParentChanges, kernel, history
  <2> QED BY <1>0, <2>1, QuietClear DEF At
<1>13. CASE UNCHANGED vars
  <2>1. UNCHANGED <<topo, scope, blind, cont, p>>
    BY <1>13 DEF vars, kernel, history
  <2> QED BY <1>0, <2>1, QuietClear DEF At
<1> QED BY <1>1, <1>2, <1>3, <1>4, <1>5, <1>6, <1>7, <1>8, <1>9, <1>10, <1>11, <1>12, <1>13 DEF Next

\* No step removes an interface of the host.
LEMMA HostKept ==
    ASSUME AllPlaced, BaseInv, KeptInv, [Next]_vars
    PROVE  HostInterfacesKept'
<1> SUFFICES ASSUME ~blind', NEW m \in Foreign PROVE HostIface(m) \in ifs'
  BY DEF HostInterfacesKept, HostIface
<1>0. blind \in BOOLEAN /\ run \in Nat /\ (~blind => ClearNow) /\ HostInterfacesKept
  BY DEF KeptInv, BaseInv, Types
<1>1. \/ ifs \subseteq ifs' /\ UNCHANGED blind
      \/ deleteContainersDirect \/ (\E n \in Nodes \cup Singletons : deleteNodes(n))
      \/ (\E n \in Nodes : DeployEndpoints(n)) \/ DeployHostEndpoint \/ vxlanDelete
      \/ makeCopyForDestroy \/ DeployResolve
  <2>1. CASE \/ \E op \in Commands \ {"vxlanCreate", "vxlanDelete"} :
                  \E f \in IF op \in {"destroyByName", "redeploy"} THEN {{}} ELSE Filters : GiveCommand(op, f)
             \/ \E n \in Nodes : DeployNode(n)
             \/ \E i \in 1..Len(topo) : Stitch(i)
             \/ Exit \/ Kill
    BY <2>1 DEF GiveCommand, DeployNode, Stitch, Exit, Kill, kernel, history, Working
  <2>2. CASE DestroyNothing \/ Deleted \/ WorkersReturned \/ DeployReturns \/ checkTopologyDefinition
             \/ (\E i \in ifs : vxlanCreate(i)) \/ ParentChanges
    BY <2>2 DEF DestroyNothing, Deleted, WorkersReturned, DeployReturns, checkTopologyDefinition,
                vxlanCreate, ParentChanges, kernel, history
  <2>3. CASE UNCHANGED vars
    BY <2>3 DEF vars, kernel, history
  <2> QED BY <2>1, <2>2, <2>3 DEF Next
<1>2. ~blind
  BY <1>1, <1>0, DeletingFact, WorkerFact, HostFact
     DEF deleteContainersDirect, vxlanDelete, makeCopyForDestroy, DeployResolve, StartDeleting, history
<1>3. HostIface(m) \in ifs /\ ClearNow
  BY <1>0, <1>2 DEF HostInterfacesKept, HostIface
<1>4. HostIface(m).dev[1] = 0 /\ HostIface(m).dev[3] = "foreign"
  BY DEF HostIface, Iface
<1>5. CASE ifs \subseteq ifs'
  BY <1>3, <1>5
<1>6. CASE deleteContainersDirect
  <2> DEFINE d == HostIface(m).dev
  <2>1. d \notin UNION {DevsIn(ifs, n) : n \in cont}
    <3> SUFFICES ASSUME NEW n \in cont, d \in DevsIn(ifs, n) PROVE FALSE
      OBVIOUS
    <3>1. PICK i \in ifs : i.ns = n /\ i.dev = d
      BY DEF DevsIn
    <3>2. n \in Containers
      BY DEF BaseInv, Types
    <3> QED BY <3>1, <3>2, ForeignIface, NotRoot
  <2>2. ifs' = Without(ifs, UNION {DevsIn(ifs, n) : n \in cont})
    BY <1>6 DEF deleteContainersDirect
  <2> QED BY <1>3, <2>1, <2>2 DEF Without
<1>7. CASE \E n \in Nodes \cup Singletons : deleteNodes(n)
  <2>1. PICK n \in Nodes \cup Singletons : deleteNodes(n)
    BY <1>7
  <2>2. Clear(p.filter)
    BY <1>3, <2>1 DEF deleteNodes, ClearNow
  <2> QED BY <1>0, <1>2, <2>1, <2>2, DeletingKeeps
<1>8. CASE (\E n \in Nodes : DeployEndpoints(n)) \/ DeployHostEndpoint
  <2>1. Active /\ p.pc \in {"nodes", "hostEps"} /\ \E o, k, r : DeployStep(o, k, r)
    BY <1>8, WorkerFact, HostFact DEF WorkerStep, HostStep
  <2>2. run # 0
    BY <2>1 DEF BaseInv, Way, Types, At
  <2> QED BY <1>3, <1>4, <2>1, <2>2, DeployKeeps
<1>9. CASE vxlanDelete
  BY <1>3, <1>4, <1>9 DEF vxlanDelete
<1>10. CASE makeCopyForDestroy \/ DeployResolve
  BY <1>3, <1>10 DEF makeCopyForDestroy, DeployResolve, kernel
<1> QED BY <1>1, <1>5, <1>6, <1>7, <1>8, <1>9, <1>10

\* The host has its interfaces before the first command.
LEMMA KeptInit == Init => KeptInv
<1> SUFFICES ASSUME Init PROVE KeptInv
  OBVIOUS
<1>1. HostInterfacesKept
  BY DEF Init, HostInterfacesKept
<1>2. ClearNow
  BY DEF Init, ClearNow, At, NoProcess
<1> QED BY <1>1, <1>2 DEF KeptInv

\* Whatever the topology, the filters, the failures and the kills: verifyLinks keeps every
\* interface that is not the lab's from being removed by name, as long as no destroy takes
\* links that the last verified deployment had left out.
THEOREM HostInterfacesTheorem == ASSUME AllPlaced PROVE Spec => []HostInterfacesKept
<1>1. Init => BaseInv /\ KeptInv
  BY BaseInit, KeptInit
<1>2. BaseInv /\ KeptInv /\ [Next]_vars => BaseInv' /\ KeptInv'
  BY BaseNext, ClearNext, HostKept DEF KeptInv
<1>3. KeptInv => HostInterfacesKept
  BY DEF KeptInv
<1> QED BY <1>1, <1>2, <1>3, PTL DEF Spec

(***************************************************************************)
(* A deployment is wired: the state of a veth says which of its ends are in place,*)
(* and the worker of a node passes an endpoint only when it is.            *)
(***************************************************************************)

\* How far a veth is, as its DeploymentState says, and what is in the kernel.
VethState(o) ==
  objs[o].kind = "veth" =>
    /\ lstate[o] \in {"none", "removed"} => \A k \in {1, 2} : Waiting(o, k) \notin ifs
    /\ lstate[o] = "half" => \E k \in {1, 2} : EndIface(o, k) \in ifs /\ Waiting(o, k) \notin ifs
    /\ lstate[o] = "full" => \A k \in {1, 2} : EndIface(o, k) \in ifs
\* End k is deployed, and the other with it when no node deploys that one.
EndDone(o, k) ==
  /\ EndIface(o, k) \in ifs
  /\ objs[o].kind = "veth" /\ objs[o].eps[3 - k].nodeless => lstate[o] = "full"

\* The names of the ends depend on the objects and the process only.
LEMMA SameNames ==
    ASSUME UNCHANGED <<objs, run>>
    PROVE  \A o, k : EndIface(o, k)' = EndIface(o, k) /\ Waiting(o, k)' = Waiting(o, k)
  BY DEF EndIface, Waiting, SetNameMACAndUpInterface, Dev, RandName

\* A random name is not the name of an end, and belongs to one end of one object.
LEMMA Names ==
    ASSUME AllPlaced, BaseInv, Active, NEW o \in 1..Len(objs), NEW k \in 1..Len(objs[o].eps)
    PROVE  EndIface(o, k).name[1] \in {"if", "vx", "ve"}
<1>1. ObjectOf(objs[o], objs[o].link, Defs[objs[o].link])
  BY ObjectFact DEF BaseInv
<1>2. objs[o].eps[k].name[1] \in {"if", "vx", "ve"}
  BY <1>1 DEF ObjectOf, EndOf
<1> QED BY <1>2 DEF EndIface, SetNameMACAndUpInterface, Iface

\* A random name belongs to one end of one object.
LEMMA RandomNames ==
    /\ \A o, k : Waiting(o, k).name = RandName(o, k) /\ Waiting(o, k).name[1] = "clab-"
    /\ \A o, k, ns, dev : Iface(ns, RandName(o, k), dev).name = RandName(o, k)
    /\ \A o, k, u, m : RandName(o, k) = RandName(u, m) => o = u /\ k = m
<1>1. \A o, k : RandName(o, k)[1] = "clab-" /\ RandName(o, k)[3] = o /\ RandName(o, k)[4] = k
  BY DEF RandName
<1>2. \A o, k : Waiting(o, k).name = RandName(o, k)
  BY DEF Waiting, Iface
<1>3. \A o, k, ns, dev : Iface(ns, RandName(o, k), dev).name = RandName(o, k)
  BY DEF Iface
<1> QED BY <1>1, <1>2, <1>3

\* Deploy of one object leaves the ends of all and what waits for the others.
LEMMA DeployOthers ==
    ASSUME AllPlaced, BaseInv, Active, NEW o, NEW k, NEW r, DeployStep(o, k, r)
    PROVE  /\ \A i \in ifs : i.name[1] # "clab-" => i \in ifs'
           /\ \A u, m : u # o => (Waiting(u, m) \in ifs' <=> Waiting(u, m) \in ifs)
<1>1. /\ Returned(ifs, o, k, r) /\ ifs' = r.ifs /\ o \in 1..Len(objs) /\ k \in 1..Len(objs[o].eps)
      /\ lstate' = [lstate EXCEPT ![o] = r.st]
  BY DeployStepFact DEF DeployStep
<1>2. \A i \in ifs \ ifs' : \E m \in {1, 2} : i = Waiting(o, m)
  BY <1>1 DEF Returned, Removed
<1>3. \A i \in ifs : i.name[1] # "clab-" => i \in ifs'
  BY <1>2, RandomNames
<1>4. ASSUME NEW u, NEW m, u # o, Waiting(u, m) \in ifs PROVE Waiting(u, m) \in ifs'
  BY <1>2, <1>4, RandomNames
<1>5. ASSUME NEW u, NEW m, u # o, Waiting(u, m) \in ifs', Waiting(u, m) \notin ifs PROVE FALSE
  <2> DEFINE i == Waiting(u, m)
  <2>1. i.name = RandName(u, m) /\ i.name[1] = "clab-"
    BY RandomNames
  <2> HIDE DEF i
  <2>2. i \in r.ifs \ ifs
    BY <1>1, <1>5 DEF i
  <2>3. \/ i = EndIface(o, k)
        \/ 3 - k \in 1..Len(objs[o].eps) /\ i = EndIface(o, 3 - k)
        \/ \E l \in {1, 2} : i = Waiting(o, l)
        \/ i = Iface(NsOf(objs[o].eps[k].node), RandName(o, k), Dev(o))
    BY <1>1, <2>2 DEF Returned, Added
  <2>4. i # EndIface(o, k) /\ (3 - k \in 1..Len(objs[o].eps) => i # EndIface(o, 3 - k))
    BY <1>1, <2>1, Names
  <2> QED BY <1>5, <2>1, <2>3, <2>4, RandomNames
<1> QED BY <1>3, <1>4, <1>5

\* What Deploy of a veth does, by its state.
LEMMA DeployVethEffect ==
    ASSUME AllPlaced, BaseInv, Active, NEW o, NEW k, NEW r, DeployStep(o, k, r),
           objs[o].kind = "veth", VethState(o), UNCHANGED <<objs, run>>
    PROVE  /\ VethState(o)' /\ (lstate[o] = "full" => lstate'[o] = "full")
           /\ r.ok => EndDone(o, k)'
<1>1. /\ o \in 1..Len(objs) /\ k \in 1..Len(objs[o].eps) /\ r \in Deploy(ifs, o, k)
      /\ ifs' = r.ifs /\ lstate' = [lstate EXCEPT ![o] = r.st]
  BY DEF DeployStep
<1>2. lstate \in [1..Len(objs) -> States] /\ lstate'[o] = r.st /\ lstate[o] \in States
  BY <1>1 DEF BaseInv, Objects
<1> DEFINE m == 3 - k
<1>3. k \in {1, 2} /\ m \in {1, 2} /\ m # k /\ m \in 1..Len(objs[o].eps) /\ 3 - m = k
      /\ \A l \in {1, 2} : l = k \/ l = m
  <2>1. Len(objs[o].eps) = 2
    BY <1>1, ObjectFact DEF BaseInv, ObjectOf
  <2> QED BY <1>1, <2>1
<1>4. r \in DeployVEth(ifs, o, k)
  BY <1>1 DEF Deploy
<1>5. \A l \in {1, 2} : EndIface(o, l).name[1] \in {"if", "vx", "ve"}
  BY <1>1, <1>3, Names
<1>6. Waiting(o, k) # Waiting(o, m) /\ \A l \in {1, 2}, h \in {1, 2} : EndIface(o, l) # Waiting(o, h)
  BY <1>3, <1>5, RandomNames
<1> DEFINE E(l) == EndIface(o, l)
           W(l) == Waiting(o, l)
<1>7. /\ objs'[o] = objs[o] /\ (\A l : EndIface(o, l)' = E(l) /\ Waiting(o, l)' = W(l))
  BY SameNames
<1>8. VethState(o)' <=> /\ r.st \in {"none", "removed"} => \A l \in {1, 2} : W(l) \notin ifs'
                        /\ r.st = "half" => \E l \in {1, 2} : E(l) \in ifs' /\ W(l) \notin ifs'
                        /\ r.st = "full" => \A l \in {1, 2} : E(l) \in ifs'
  BY <1>2, <1>7 DEF VethState
<1>9. EndDone(o, k)' <=> E(k) \in ifs' /\ (objs[o].eps[m].nodeless => r.st = "full")
  BY <1>2, <1>7 DEF EndDone
<1>10. /\ lstate[o] \in {"none", "removed"} => \A l \in {1, 2} : W(l) \notin ifs
       /\ lstate[o] = "half" => \E l \in {1, 2} : E(l) \in ifs /\ W(l) \notin ifs
       /\ lstate[o] = "full" => \A l \in {1, 2} : E(l) \in ifs
  BY DEF VethState
<1>11. \A l, h \in {1, 2} : E(l) # W(h)
  BY <1>6
<1>12. W(k) # W(m)
  BY <1>6
<1>13. CASE lstate[o] = "half"
  <2>1. r \in deployBEnd(ifs, o, k, 0)
    BY <1>4, <1>13 DEF DeployVEth
  <2>2. \/ /\ ~r.ok /\ r.ifs = ifs /\ r.st = "half"
        \/ /\ r.ok /\ r.st = "full" /\ W(k) \in ifs
           /\ r.ifs = (ifs \ {W(k)}) \cup {E(k)}
    BY <2>1, BEndCases
  <2>3. PICK l \in {1, 2} : E(l) \in ifs /\ W(l) \notin ifs
    BY <1>10, <1>13
  <2> HIDE DEF E, W, m
  <2>4. CASE ~r.ok /\ r.ifs = ifs /\ r.st = "half"
    <3>1. VethState(o)'
      BY <1>1, <1>8, <2>3, <2>4
    <3> QED BY <1>13, <2>4, <3>1
  <2>5. CASE r.ok /\ r.st = "full" /\ W(k) \in ifs /\ r.ifs = (ifs \ {W(k)}) \cup {E(k)}
    <3>1. l = m
      BY <1>3, <2>3, <2>5
    <3>2. E(k) \in ifs' /\ E(m) \in ifs'
      BY <1>1, <1>3, <1>11, <2>3, <2>5, <3>1
    <3>3. VethState(o)'
      BY <1>3, <1>8, <2>5, <3>2
    <3>4. EndDone(o, k)'
      BY <1>9, <2>5, <3>2
    <3> QED BY <1>13, <3>3, <3>4
  <2> QED BY <2>2, <2>4, <2>5
<1>14. CASE lstate[o] = "full"
  <2>1. r = Result(TRUE, ifs, lstate[o], 0)
    BY <1>4, <1>14 DEF DeployVEth
  <2>2. r.ifs = ifs /\ r.st = "full"
    BY <2>1, <1>14 DEF Result
  <2> HIDE DEF E, W, m
  <2>3. \A l \in {1, 2} : E(l) \in ifs'
    BY <1>1, <1>10, <1>14, <2>2
  <2> QED BY <1>2, <1>3, <1>8, <1>9, <2>2, <2>3
<1>15. CASE lstate[o] \notin {"half", "full"}
  <2>1. r \in deployAEnd(ifs, o, k)
    BY <1>4, <1>15 DEF DeployVEth
  <2> DEFINE S1 == ifs \cup {E(k), W(m)}
  <2>2. \/ ~r.ok /\ r.ifs = ifs /\ r.st = lstate[o]
        \/ /\ ~objs[o].eps[m].nodeless
           /\ r.ok /\ r.ifs = S1 /\ r.st = "half"
        \/ /\ objs[o].eps[m].nodeless
           /\ \/ ~r.ok /\ r.ifs = S1 /\ r.st = "half"
              \/ /\ r.ok /\ r.st = "full"
                 /\ r.ifs = (S1 \ {W(m)}) \cup {E(m)}
    BY <1>2, <1>3, <2>1, AEndCases
  <2>3. lstate[o] \in {"none", "removed"} /\ \A l \in {1, 2} : W(l) \notin ifs
    BY <1>2, <1>10, <1>15 DEF States
  <2> HIDE DEF E, W, m
  <2>4. CASE ~r.ok /\ r.ifs = ifs /\ r.st = lstate[o]
    <3>1. VethState(o)'
      BY <1>1, <1>8, <2>3, <2>4
    <3> QED BY <2>3, <2>4, <3>1
  <2>5. CASE r.ifs = S1 /\ r.st = "half" /\ (r.ok => ~objs[o].eps[m].nodeless)
    <3>1. E(k) \in ifs' /\ W(k) \notin ifs'
      BY <1>1, <1>3, <1>11, <1>12, <2>3, <2>5
    <3>2. VethState(o)'
      BY <1>3, <1>8, <2>5, <3>1
    <3>3. r.ok => EndDone(o, k)'
      BY <1>9, <2>5, <3>1
    <3> QED BY <2>3, <3>2, <3>3
  <2>6. CASE r.ok /\ r.st = "full" /\ r.ifs = (S1 \ {W(m)}) \cup {E(m)}
    <3>1. E(k) \in ifs' /\ E(m) \in ifs'
      BY <1>1, <1>3, <1>11, <2>6
    <3>2. VethState(o)'
      BY <1>3, <1>8, <2>6, <3>1
    <3>3. EndDone(o, k)'
      BY <1>9, <2>6, <3>1
    <3> QED BY <2>3, <3>2, <3>3
  <2> QED BY <2>2, <2>4, <2>5, <2>6
<1> QED BY <1>13, <1>14, <1>15

\* Deploy of one object, seen by all of them.
LEMMA DeployEffect ==
    ASSUME AllPlaced, BaseInv, Active, NEW o, NEW k, NEW r, DeployStep(o, k, r),
           \A u \in 1..Len(objs) : VethState(u), UNCHANGED <<objs, run>>
    PROVE  /\ \A u \in 1..Len(objs) : VethState(u)'
           /\ \A u \in 1..Len(objs), m \in {1, 2} :
                 m <= Len(objs[u].eps) /\ EndIface(u, m) \in ifs => EndIface(u, m)' \in ifs'
           /\ \A u \in 1..Len(objs), m \in {1, 2} : m <= Len(objs[u].eps) /\ EndDone(u, m) => EndDone(u, m)'
           /\ r.ok => EndDone(o, k)'
<1>1. /\ o \in 1..Len(objs) /\ k \in 1..Len(objs[o].eps) /\ r \in Deploy(ifs, o, k)
      /\ ifs' = r.ifs /\ lstate' = [lstate EXCEPT ![o] = r.st]
  BY DEF DeployStep
<1>2. lstate \in [1..Len(objs) -> States] /\ lstate'[o] = r.st /\ \A u : u # o => lstate'[u] = lstate[u]
  BY <1>1 DEF BaseInv, Objects
<1>3. /\ \A i \in ifs : i.name[1] # "clab-" => i \in ifs'
      /\ \A u, m : u # o => (Waiting(u, m) \in ifs' <=> Waiting(u, m) \in ifs)
  BY DeployOthers
<1>4. ASSUME NEW u \in 1..Len(objs), NEW m \in {1, 2}, m <= Len(objs[u].eps), EndIface(u, m) \in ifs
      PROVE  EndIface(u, m) \in ifs' /\ EndIface(u, m)' = EndIface(u, m)
  <2>1. m \in 1..Len(objs[u].eps)
    <3>1. Len(objs[u].eps) \in {1, 2}
      BY ObjectFact DEF BaseInv, ObjectOf
    <3> QED BY <1>4, <3>1
  <2> QED BY <1>3, <1>4, <2>1, Names, SameNames
<1>5. ASSUME NEW u \in 1..Len(objs), objs[u].kind = "veth"
      PROVE  Len(objs[u].eps) = 2
  BY <1>5, ObjectFact DEF BaseInv, ObjectOf
<1>6. ASSUME objs[o].kind = "veth"
      PROVE  VethState(o)' /\ (lstate[o] = "full" => lstate'[o] = "full") /\ (r.ok => EndDone(o, k)')
  BY <1>1, <1>6, DeployVethEffect
<1>7. ASSUME NEW u \in 1..Len(objs) PROVE VethState(u)'
  <2>1. CASE objs[u].kind # "veth"
    BY <2>1 DEF VethState
  <2>2. CASE objs[u].kind = "veth" /\ u = o
    BY <1>6, <2>2
  <2>3. CASE objs[u].kind = "veth" /\ u # o
    <3>0. VethState(u)
      OBVIOUS
    <3>1. lstate'[u] = lstate[u] /\ Len(objs[u].eps) = 2
      BY <1>2, <1>5, <2>3
    <3>2. ASSUME NEW m \in {1, 2}, EndIface(u, m) \in ifs PROVE EndIface(u, m)' \in ifs'
      <4>1. m <= Len(objs[u].eps)
        BY <3>1
      <4> QED BY <1>4, <3>2, <4>1
    <3>3. \A m \in {1, 2} : Waiting(u, m) \notin ifs => Waiting(u, m)' \notin ifs'
      BY <1>3, <2>3, SameNames
    <3> QED BY <3>0, <3>1, <3>2, <3>3 DEF VethState
  <2> QED BY <2>1, <2>2, <2>3
<1>8. ASSUME NEW u \in 1..Len(objs), NEW m \in {1, 2}, m <= Len(objs[u].eps), EndDone(u, m)
      PROVE  EndDone(u, m)'
  <2>1. EndIface(u, m)' \in ifs'
    BY <1>4, <1>8 DEF EndDone
  <2>2. objs[u].kind = "veth" /\ lstate[u] = "full" => lstate'[u] = "full"
    BY <1>2, <1>6
  <2> QED BY <1>8, <2>1, <2>2 DEF EndDone
<1>9. r.ok => EndDone(o, k)'
  <2>1. CASE objs[o].kind = "veth"
    BY <1>6, <2>1
  <2>2. CASE objs[o].kind # "veth"
    <3>1. r.ok => EndIface(o, k) \in r.ifs
      BY <1>1, <2>2, DeployReturned DEF BaseInv
    <3> QED BY <1>1, <2>2, <3>1, SameNames DEF EndDone
  <2> QED BY <2>1, <2>2
<1>10. \A u \in 1..Len(objs), m \in {1, 2} :
                 m <= Len(objs[u].eps) /\ EndIface(u, m) \in ifs => EndIface(u, m)' \in ifs'
  BY <1>4
<1> QED BY <1>7, <1>8, <1>9, <1>10

Building == p.pc \in {"nodes", "hostEps"} \/ Ended(Deploys, "ok")
Finishing == At("hostEps") \/ Ended(Deploys, "ok")
\* The j-th endpoint of node n is deployed once its worker is past it.
Passed == \A n \in Nodes : \A j \in 1..Len(EndsOn(objs, n)) :
             j < pos[n] => EndDone(EndsOn(objs, n)[j][1], EndsOn(objs, n)[j][2])
Redirected(i) ==
  \E v, w \in tc : /\ v = <<w[2], w[1]>>
                   /\ v[1] \in DevsAt(ifs, Root, {VxName(Defs[i].eps[1])})
                   /\ v[2] \in DevsAt(ifs, Root, {VeName(Defs[i].eps[1])})
HostDone ==
  /\ \A n \in Targets(p.filter) : pos[n] > Len(EndsOn(objs, n))
  /\ \A j \in 1..Len(special["host"]) :
       j < p.hpos => \/ p.warned
                     \/ EndIface(special["host"][j].end[1], special["host"][j].end[2]) \in ifs
  /\ p.hpos <= Len(special["host"]) => p.left = StitchedLinks
  /\ p.warned \/ \A i \in StitchedLinks \ p.left : Redirected(i)
\* No link of this round is deployed yet.
Fresh == \A o \in 1..Len(objs) : lstate[o] \in {"none", "removed"}
WiredInv ==
  /\ p.pc \in {"delete", "verify"} => Fresh
  /\ Building => (\A o \in 1..Len(objs) : VethState(o)) /\ Passed
  /\ Finishing => HostDone
  /\ Ended(Deploys, "ok") => p.left = {} /\ p.hpos > Len(special["host"])

\* Links are built only here: other steps leave them alone or are not about them.
LEMMA QuietWired ==
    ASSUME WiredInv, UNCHANGED <<topo, run, objs, special>>,
           p'.pc \notin {"delete", "verify"},
           Building' => Building /\ UNCHANGED <<ifs, lstate, pos>>,
           Finishing' => Finishing /\ UNCHANGED tc /\ p'.filter = p.filter /\ p'.hpos = p.hpos
                         /\ p'.warned = p.warned /\ p'.left = p.left,
           Ended(Deploys, "ok")' => Ended(Deploys, "ok")
    PROVE  WiredInv'
<1>1. Building' => (\A o \in 1..Len(objs) : VethState(o)') /\ Passed'
  <2> SUFFICES ASSUME Building' PROVE (\A o \in 1..Len(objs) : VethState(o)') /\ Passed'
    OBVIOUS
  <2>1. Building /\ UNCHANGED <<ifs, lstate, pos, objs>>
    OBVIOUS
  <2>2. \A o \in 1..Len(objs) : VethState(o)'
    BY <2>1, SameNames DEF WiredInv, VethState
  <2>3. \A o, k : EndDone(o, k)' <=> EndDone(o, k)
    BY <2>1, SameNames DEF EndDone
  <2>4. Passed'
    BY <2>1, <2>3 DEF WiredInv, Passed
  <2> QED BY <2>2, <2>4
<1>2. Finishing' => HostDone'
  <2> SUFFICES ASSUME Finishing' PROVE HostDone'
    OBVIOUS
  <2>0. Building'
    BY DEF Finishing, Building, At
  <2>1. /\ Finishing /\ UNCHANGED <<tc, ifs, objs, special, topo, pos>> /\ p'.filter = p.filter
        /\ p'.hpos = p.hpos /\ p'.warned = p.warned /\ p'.left = p.left
    BY <2>0
  <2>2. \A i : Redirected(i)' <=> Redirected(i)
    BY <2>1, SameTopology DEF Redirected
  <2>3. StitchedLinks' = StitchedLinks
    BY <2>1, SameTopology DEF StitchedLinks
  <2>4. HostDone
    BY <2>1 DEF WiredInv
  <2>5. /\ \A n \in Targets(p.filter) : pos[n] > Len(EndsOn(objs, n))
        /\ p.hpos <= Len(special["host"]) => p.left = StitchedLinks
        /\ p.warned \/ \A i \in StitchedLinks \ p.left : Redirected(i)
    BY <2>4 DEF HostDone
  <2>6. \A j \in 1..Len(special["host"]) :
       j < p.hpos => \/ p.warned
                     \/ EndIface(special["host"][j].end[1], special["host"][j].end[2]) \in ifs
    BY <2>4 DEF HostDone
  <2> QED BY <2>1, <2>2, <2>3, <2>5, <2>6, SameNames DEF HostDone
<1>3. Ended(Deploys, "ok")' => (p.left = {})' /\ (p.hpos > Len(special["host"]))'
  <2> SUFFICES ASSUME Ended(Deploys, "ok")' PROVE (p.left = {})' /\ (p.hpos > Len(special["host"]))'
    OBVIOUS
  <2>1. Finishing' /\ Ended(Deploys, "ok")
    BY DEF Finishing
  <2> QED BY <2>1 DEF WiredInv
<1> QED BY <1>1, <1>2, <1>3 DEF WiredInv

\* A state in which nothing is being deployed asks for nothing.
LEMMA NotBuilding ==
    ASSUME p'.pc \in {"delete", "verify"} => Fresh', p'.pc \notin {"nodes", "hostEps"},
           p'.pc = "ended" => p'.op \notin Deploys \/ p'.outcome = "error"
    PROVE  WiredInv'
<1>1. ~Building' /\ ~Finishing' /\ ~Ended(Deploys, "ok")'
  BY DEF Building, Finishing, Ended, At
<1> QED BY <1>1 DEF WiredInv

\* A verified deployment starts with nothing of this run in the kernel.
LEMMA VerifiedWired ==
    ASSUME AllPlaced, BaseInv, WiredInv, checkTopologyDefinition
    PROVE  WiredInv'
<1>0. /\ p.pc = "verify" /\ At("verify") /\ p \in Process(p.left) /\ Fresh
      /\ UNCHANGED <<topo, ifs, run, special, objs, lstate, pos>>
  BY DEF checkTopologyDefinition, At, BaseInv, Types, Working, kernel, WiredInv
<1>1. CASE End("error")
  <2>1. p'.pc = "ended" /\ p'.outcome = "error"
    BY <1>0, <1>1, EndStep
  <2> QED BY <2>1, NotBuilding
<1>2. CASE p' = [p EXCEPT !.pc = "nodes"]
  <2>1. p'.pc = "nodes"
    BY <1>0, <1>2 DEF Process
  <2>2. ASSUME NEW o \in 1..Len(objs) PROVE VethState(o)'
    <3>1. lstate[o] \in {"none", "removed"} /\ lstate' = lstate
      BY <1>0 DEF Fresh
    <3>2. \A k \in {1, 2} : Waiting(o, k).dev[1] = run
      BY DEF Waiting, Iface, Dev
    <3>3. \A k \in {1, 2} : Waiting(o, k) \notin ifs
      BY <1>0, <3>2 DEF BaseInv, Origin
    <3>4. \A k \in {1, 2} : Waiting(o, k)' \notin ifs'
      BY <1>0, <3>3, SameNames
    <3> QED BY <3>1, <3>4 DEF VethState
  <2>3. Passed'
    <3>1. \A n \in Nodes : pos'[n] = 0
      BY <1>0 DEF BaseInv, Way
    <3> QED BY <3>1 DEF Passed
  <2>4. ~Finishing' /\ ~Ended(Deploys, "ok")'
    BY <2>1 DEF Finishing, Ended, At
  <2> QED BY <1>0, <2>1, <2>2, <2>3, <2>4 DEF WiredInv
<1> QED BY <1>1, <1>2 DEF checkTopologyDefinition

\* Where the workers are in the list of endpoints of their node.
LEMMA PassedEnds ==
    ASSUME AllPlaced, BaseInv, Active, NEW n, NEW j \in 1..Len(EndsOn(objs, n))
    PROVE  LET x == EndsOn(objs, n)[j] IN
           x[1] \in 1..Len(objs) /\ x[2] \in {1, 2} /\ x[2] <= Len(objs[x[1]].eps)
<1> DEFINE x == EndsOn(objs, n)[j]
<1>0. Types /\ Objects
  BY DEF BaseInv
<1>1. x[1] \in 1..Len(objs) /\ x[2] \in 1..Len(objs[x[1]].eps)
  BY <1>0, EndFact
<1>2. Len(objs[x[1]].eps) \in {1, 2}
  BY <1>1, ObjectFact DEF BaseInv, ObjectOf
<1> HIDE DEF x
<1>3. x[1] \in 1..Len(objs) /\ x[2] \in {1, 2} /\ x[2] <= Len(objs[x[1]].eps)
  <2>1. \A L \in {1, 2} : \A m \in 1..L : m \in {1, 2} /\ m <= L
    OBVIOUS
  <2> QED BY <1>1, <1>2, <2>1
<1> QED BY <1>3 DEF x

\* A worker that deploys an endpoint keeps what is wired.
LEMMA WorkerWired ==
    ASSUME AllPlaced, BaseInv, WiredInv, NEW n \in Nodes, DeployEndpoints(n)
    PROVE  WiredInv'
<1>1. /\ p.pc = "nodes" /\ Active /\ UNCHANGED <<topo, run, special, objs>>
      /\ p'.pc = p.pc /\ pos \in [Nodes -> Nat]
  BY WorkerFact DEF BaseInv, Types
<1>2. PICK o, k, r : WorkerStep(n, o, k, r)
  BY WorkerFact
<1>3. /\ DeployStep(o, k, r) /\ pos[n] \in 1..Len(EndsOn(objs, n)) /\ EndsOn(objs, n)[pos[n]] = <<o, k>>
      /\ (r.ok /\ pos' = [pos EXCEPT ![n] = @ + 1]) \/ (~r.ok /\ pos' = pos)
  BY <1>2 DEF WorkerStep
<1>4. (\A u \in 1..Len(objs) : VethState(u)) /\ Passed
  BY <1>1 DEF WiredInv, Building
<1>5. /\ \A u \in 1..Len(objs) : VethState(u)'
      /\ \A u \in 1..Len(objs), m \in {1, 2} : m <= Len(objs[u].eps) /\ EndDone(u, m) => EndDone(u, m)'
      /\ r.ok => EndDone(o, k)'
  BY <1>1, <1>3, <1>4, DeployEffect
<1>6. Passed'
  <2> SUFFICES ASSUME NEW a \in Nodes, NEW j \in 1..Len(EndsOn(objs, a)), j < pos'[a]
               PROVE  EndDone(EndsOn(objs, a)[j][1], EndsOn(objs, a)[j][2])'
    BY <1>1 DEF Passed
  <2>1. CASE j < pos[a]
    <3>1. PICK u, m : u = EndsOn(objs, a)[j][1] /\ m = EndsOn(objs, a)[j][2]
      OBVIOUS
    <3>2. EndDone(u, m)
      BY <1>4, <2>1, <3>1 DEF Passed
    <3>3. u \in 1..Len(objs) /\ m \in {1, 2} /\ m <= Len(objs[u].eps)
      BY <1>1, <3>1, PassedEnds
    <3>4. EndDone(u, m)'
      BY <1>5, <3>2, <3>3
    <3> QED BY <1>1, <3>1, <3>4
  <2>2. CASE ~(j < pos[a])
    <3>1. a = n /\ r.ok /\ j = pos[n]
      BY <1>1, <1>3, <2>2
    <3>2. EndsOn(objs, a)[j][1] = o /\ EndsOn(objs, a)[j][2] = k
      BY <1>3, <3>1
    <3> QED BY <1>1, <1>5, <3>1, <3>2
  <2> QED BY <2>1, <2>2
<1>7. ~Finishing' /\ ~Ended(Deploys, "ok")'
  BY <1>1 DEF Finishing, Ended, At
<1> QED BY <1>1, <1>5, <1>6, <1>7 DEF WiredInv

\* A worker that creates a container, or goes on without endpoints, keeps what is wired.
LEMMA NodeWired ==
    ASSUME AllPlaced, BaseInv, WiredInv, NEW n \in Nodes, DeployNode(n)
    PROVE  WiredInv'
<1>1. /\ p.pc = "nodes" /\ pos[n] = 0 /\ pos' = [pos EXCEPT ![n] = 1] /\ pos \in [Nodes -> Nat]
      /\ UNCHANGED <<topo, run, objs, special, ifs, lstate, p>>
  BY DEF DeployNode, At, Working, BaseInv, Types
<1>2. (\A u \in 1..Len(objs) : VethState(u)) /\ Passed
  BY <1>1 DEF WiredInv, Building
<1>3. \A u \in 1..Len(objs) : VethState(u)'
  BY <1>1, <1>2, SameNames DEF VethState
<1>4. Passed'
  <2>1. \A o, k : EndDone(o, k)' <=> EndDone(o, k)
    BY <1>1, SameNames DEF EndDone
  <2>2. \A a \in Nodes : \A j \in 1..Len(EndsOn(objs, a)) : j < pos'[a] => j < pos[a]
    <3> SUFFICES ASSUME NEW a \in Nodes, NEW j \in 1..Len(EndsOn(objs, a)), j < pos'[a] PROVE j < pos[a]
      OBVIOUS
    <3>1. j >= 1 /\ j \in Int
      OBVIOUS
    <3> QED BY <1>1, <3>1
  <2> QED BY <1>1, <1>2, <2>1, <2>2 DEF Passed
<1>5. ~Finishing' /\ ~Ended(Deploys, "ok")'
  BY <1>1 DEF Finishing, Ended, At
<1> QED BY <1>1, <1>3, <1>4, <1>5 DEF WiredInv

\* All endpoints of the nodes are deployed when the workers have returned.
LEMMA ReturnedWired ==
    ASSUME AllPlaced, BaseInv, WiredInv, WorkersReturned
    PROVE  WiredInv'
<1>0. /\ p.pc = "nodes" /\ p \in Process(p.left) /\ pos \in [Nodes -> Nat] /\ p.filter \subseteq Nodes
      /\ p.hpos = 1 /\ Active /\ topo \in Topologies /\ objs = Resolved(p.filter)
      /\ UNCHANGED <<topo, ifs, run, special, objs, lstate, pos>>
  BY DEF WorkersReturned, At, BaseInv, Types, Way, Working, kernel, Process, Active, Objects
<1>1. CASE End("error")
  <2>1. p'.pc = "ended" /\ p'.outcome = "error"
    BY <1>0, <1>1, EndStep
  <2> QED BY <2>1, NotBuilding
<1>2. CASE p.failed = {} /\ p' = [p EXCEPT !.pc = "hostEps", !.left = StitchedLinks]
  <2>1. p'.pc = "hostEps" /\ p'.left = StitchedLinks /\ p'.hpos = 1 /\ p'.filter = p.filter
    BY <1>0, <1>2 DEF Process
  <2>2. (\A u \in 1..Len(objs) : VethState(u)) /\ Passed
    BY <1>0 DEF WiredInv, Building
  <2>3. \A u \in 1..Len(objs) : VethState(u)'
    BY <1>0, <2>2, SameNames DEF VethState
  <2>4. Passed'
    <3>1. \A u, m : EndDone(u, m)' <=> EndDone(u, m)
      BY <1>0, SameNames DEF EndDone
    <3> QED BY <1>0, <2>2, <3>1 DEF Passed
  <2>5. StitchedLinks' = StitchedLinks
    BY <1>0, SameTopology DEF StitchedLinks
  <2>6. \A n \in Targets(p.filter) : pos[n] > Len(EndsOn(objs, n))
    <3> SUFFICES ASSUME NEW n \in Targets(p.filter) PROVE pos[n] > Len(EndsOn(objs, n))
      OBVIOUS
    <3>1. pos[n] \in Nat /\ pos[n] > 0
      BY <1>0 DEF WorkersReturned, Targets
    <3>2. pos[n] \notin 1..Len(EndsOn(objs, n))
      BY <1>2 DEF WorkersReturned, Pending
    <3>3. Len(EndsOn(objs, n)) \in Nat
      BY <1>0, EndsOnFact
    <3> QED BY <3>1, <3>2, <3>3
  <2>7. HostDone'
    <3>1. (\A n \in Targets(p.filter) : pos[n] > Len(EndsOn(objs, n)))'
      BY <1>0, <2>1, <2>6
    <3>2. p'.left = StitchedLinks' /\ p'.hpos = 1
      BY <2>1, <2>5
    <3>3. \A j \in 1..Len(special'["host"]) : ~(j < p'.hpos)
      BY <3>2
    <3> QED BY <3>1, <3>2, <3>3 DEF HostDone
  <2>8. ~Ended(Deploys, "ok")'
    BY <2>1 DEF Ended, At
  <2> QED BY <1>0, <2>1, <2>3, <2>4, <2>7, <2>8 DEF WiredInv
<1> QED BY <1>1, <1>2 DEF WorkersReturned

\* The endpoints of the host node, one after the other.
LEMMA HostWired ==
    ASSUME AllPlaced, BaseInv, WiredInv, DeployHostEndpoint
    PROVE  WiredInv'
<1>1. /\ p.pc = "hostEps" /\ Active /\ UNCHANGED <<topo, run, special, objs, pos, tc>>
      /\ p'.pc = p.pc /\ p'.filter = p.filter /\ p'.left = p.left /\ p'.hpos = p.hpos + 1
      /\ p.hpos \in 1..Len(special["host"])
  BY HostFact
<1>2. PICK o, k, r : HostStep(o, k, r)
  BY HostFact
<1>3. DeployStep(o, k, r) /\ special["host"][p.hpos].end = <<o, k>> /\ p'.warned = (p.warned \/ ~r.ok)
  BY <1>2 DEF HostStep
<1>4. (\A u \in 1..Len(objs) : VethState(u)) /\ Passed /\ HostDone
  BY <1>1 DEF WiredInv, Building, Finishing, At
<1>5. /\ \A u \in 1..Len(objs) : VethState(u)'
      /\ \A u \in 1..Len(objs), m \in {1, 2} :
            m <= Len(objs[u].eps) /\ EndIface(u, m) \in ifs => EndIface(u, m)' \in ifs'
      /\ \A u \in 1..Len(objs), m \in {1, 2} : m <= Len(objs[u].eps) /\ EndDone(u, m) => EndDone(u, m)'
      /\ r.ok => EndDone(o, k)'
  BY <1>1, <1>3, <1>4, DeployEffect
<1>6. Passed'
  <2> SUFFICES ASSUME NEW a \in Nodes, NEW j \in 1..Len(EndsOn(objs, a)), j < pos[a]
               PROVE  EndDone(EndsOn(objs, a)[j][1], EndsOn(objs, a)[j][2])'
    BY <1>1 DEF Passed
  <2>1. PICK u, m : u = EndsOn(objs, a)[j][1] /\ m = EndsOn(objs, a)[j][2]
    OBVIOUS
  <2>2. EndDone(u, m)
    BY <1>4, <2>1 DEF Passed
  <2>3. u \in 1..Len(objs) /\ m \in {1, 2} /\ m <= Len(objs[u].eps)
    BY <1>1, <2>1, PassedEnds
  <2>4. EndDone(u, m)'
    BY <1>5, <2>2, <2>3
  <2> QED BY <1>1, <2>1, <2>4
<1>7. StitchedLinks' = StitchedLinks
  BY <1>1, SameTopology DEF StitchedLinks
<1>8. p.left = StitchedLinks
  BY <1>1, <1>4 DEF HostDone
<1>9. ASSUME NEW j \in 1..Len(special["host"]), j < p.hpos + 1, ~p'.warned
      PROVE  (EndIface(special["host"][j].end[1], special["host"][j].end[2]) \in ifs)'
  <2>1. PICK u, m : u = special["host"][j].end[1] /\ m = special["host"][j].end[2]
    OBVIOUS
  <2>2. ~p.warned /\ r.ok
    BY <1>3, <1>9
  <2>3. CASE j = p.hpos
    <3>1. u = o /\ m = k
      BY <1>3, <2>1, <2>3
    <3>2. EndIface(u, m)' \in ifs'
      BY <1>5, <2>2, <3>1 DEF EndDone
    <3> QED BY <1>1, <2>1, <3>2
  <2>4. CASE j # p.hpos
    <3>1. j < p.hpos
      BY <1>1, <1>9, <2>4
    <3>2. EndIface(u, m) \in ifs
      BY <1>4, <2>1, <2>2, <3>1 DEF HostDone
    <3>3. u \in 1..Len(objs) /\ m \in {1, 2} /\ m <= Len(objs[u].eps)
      <4>1. special["host"][j].end \in ToSet(EndsOn(objs, "host"))
        BY <1>1 DEF BaseInv, Singles, HostEnds, Objects
      <4>2. topo \in Topologies /\ objs = Resolved(p.filter)
        BY <1>1 DEF BaseInv, Types, Objects
      <4>3. DOMAIN EndsOn(objs, "host") = 1..Len(EndsOn(objs, "host"))
        BY <4>2, EndsOnFact
      <4>4. PICK l \in 1..Len(EndsOn(objs, "host")) : EndsOn(objs, "host")[l] = special["host"][j].end
        BY <4>1, <4>3 DEF ToSet
      <4> QED BY <1>1, <2>1, <4>4, PassedEnds
    <3>4. EndIface(u, m)' \in ifs'
      BY <1>5, <3>2, <3>3
    <3> QED BY <1>1, <2>1, <3>4
  <2> QED BY <2>3, <2>4
<1>10. HostDone'
  <2>1. (\A n \in Targets(p.filter) : pos[n] > Len(EndsOn(objs, n)))'
    BY <1>1, <1>4 DEF HostDone
  <2>2. p'.left = StitchedLinks'
    BY <1>1, <1>7, <1>8
  <2>3. (\A j \in 1..Len(special["host"]) :
          j < p.hpos => \/ p.warned
                        \/ EndIface(special["host"][j].end[1], special["host"][j].end[2]) \in ifs)'
    BY <1>1, <1>9
  <2> QED BY <2>1, <2>2, <2>3 DEF HostDone
<1>11. ~Ended(Deploys, "ok")'
  BY <1>1 DEF Ended, At
<1> QED BY <1>1, <1>5, <1>6, <1>10, <1>11 DEF WiredInv

\* One stitched link after the other, redirected in both directions or warned about.
LEMMA StitchWired ==
    ASSUME AllPlaced, BaseInv, WiredInv, NEW i \in 1..Len(topo), Stitch(i)
    PROVE  WiredInv'
<1> DEFINE vx == VxName(Defs[i].eps[1])
           ve == VeName(Defs[i].eps[1])
           both == Exists(ifs, Root, vx) /\ Exists(ifs, Root, ve)
<1>1. /\ p.pc = "hostEps" /\ p.hpos > Len(special["host"]) /\ p \in Process(p.left)
      /\ UNCHANGED <<topo, run, ifs, special, objs, lstate, pos>>
  BY DEF Stitch, At, BaseInv, Types, Working
<1>2. PICK done \in 0..2 :
        /\ done > 0 => both
        /\ tc' = tc \cup (IF done > 0 THEN {<<DevAt(vx), DevAt(ve)>>} ELSE {})
                    \cup (IF done > 1 THEN {<<DevAt(ve), DevAt(vx)>>} ELSE {})
        /\ p' = [p EXCEPT !.left = @ \ {i}, !.warned = @ \/ done < 2]
  BY DEF Stitch
<1>3. /\ p'.pc = "hostEps" /\ p'.hpos = p.hpos /\ p'.left = p.left \ {i} /\ p'.filter = p.filter
      /\ p'.warned = (p.warned \/ done < 2)
  BY <1>1, <1>2 DEF Process
<1>4. (\A u \in 1..Len(objs) : VethState(u)) /\ Passed /\ HostDone
  BY <1>1 DEF WiredInv, Building, Finishing, At
<1>5. (\A u \in 1..Len(objs) : VethState(u)') /\ Passed'
  <2>1. \A u \in 1..Len(objs) : VethState(u)'
    BY <1>1, <1>4, SameNames DEF VethState
  <2>2. Passed'
    BY <1>1, <1>4, SameNames DEF Passed, EndDone
  <2> QED BY <2>1, <2>2
<1>6. StitchedLinks' = StitchedLinks /\ Defs' = Defs
  BY <1>1, SameTopology DEF StitchedLinks
<1>7. \A j : Redirected(j) => Redirected(j)'
  <2>1. tc \subseteq tc'
    BY <1>2
  <2> QED BY <1>1, <1>6, <2>1 DEF Redirected
<1>8. ASSUME ~p'.warned PROVE Redirected(i)'
  <2>1. done = 2 /\ both
    <3>1. ~(done < 2)
      BY <1>3, <1>8
    <3>2. done = 2
      BY <3>1
    <3>3. both
      <4> HIDE DEF both
      <4> QED BY <1>2, <3>2
    <3> QED BY <3>2, <3>3
  <2> DEFINE a == DevAt(vx)
             b == DevAt(ve)
  <2>2. DevsAt(ifs, Root, {vx}) # {} /\ DevsAt(ifs, Root, {ve}) # {}
    BY <2>1 DEF Exists, DevsAt
  <2>3. a \in DevsAt(ifs, Root, {vx}) /\ b \in DevsAt(ifs, Root, {ve})
    BY <2>2 DEF DevAt
  <2>4. <<a, b>> \in tc' /\ <<b, a>> \in tc'
    BY <1>2, <2>1
  <2> HIDE DEF a, b
  <2>5. \E v, w \in tc' : /\ v = <<w[2], w[1]>>
                          /\ v[1] \in DevsAt(ifs, Root, {vx})
                          /\ v[2] \in DevsAt(ifs, Root, {ve})
    <3> DEFINE v == <<a, b>>
               w == <<b, a>>
    <3>1. v \in tc' /\ w \in tc' /\ v = <<w[2], w[1]>> /\ v[1] = a /\ v[2] = b
      BY <2>4
    <3> QED BY <2>3, <3>1
  <2> QED BY <1>1, <1>6, <2>5 DEF Redirected
<1>9. HostDone'
  <2>1. (\A n \in Targets(p.filter) : pos[n] > Len(EndsOn(objs, n)))'
    BY <1>1, <1>3, <1>4 DEF HostDone
  <2>2. ~(p'.hpos <= Len(special'["host"]))
    <3>1. Len(special["host"]) \in Nat /\ p.hpos \in Nat
      BY <1>1 DEF BaseInv, Singles, Process
    <3> QED BY <1>1, <1>3, <3>1
  <2>3. (\A j \in 1..Len(special["host"]) :
          j < p.hpos => \/ p.warned
                        \/ EndIface(special["host"][j].end[1], special["host"][j].end[2]) \in ifs)'
    <3> SUFFICES ASSUME NEW j \in 1..Len(special["host"]), j < p.hpos, ~p'.warned
                 PROVE  (EndIface(special["host"][j].end[1], special["host"][j].end[2]) \in ifs)'
      BY <1>1, <1>3
    <3>1. PICK u, m : u = special["host"][j].end[1] /\ m = special["host"][j].end[2]
      OBVIOUS
    <3>2. EndIface(u, m) \in ifs
      BY <1>3, <1>4, <3>1 DEF HostDone
    <3>3. EndIface(u, m)' \in ifs'
      BY <1>1, <3>2, SameNames
    <3> QED BY <1>1, <3>1, <3>3
  <2>4. (p.warned \/ \A j \in StitchedLinks \ p.left : Redirected(j))'
    <3> SUFFICES ASSUME ~p'.warned, NEW j \in StitchedLinks \ p'.left PROVE Redirected(j)'
      BY <1>6
    <3>1. CASE j = i
      BY <1>8, <3>1
    <3>2. CASE j # i
      <4>1. j \in StitchedLinks \ p.left /\ ~p.warned
        BY <1>3, <3>2
      <4>2. Redirected(j)
        BY <1>4, <4>1 DEF HostDone
      <4> QED BY <1>7, <4>2
    <3> QED BY <3>1, <3>2
  <2> QED BY <2>1, <2>2, <2>3, <2>4 DEF HostDone
<1>10. ~Ended(Deploys, "ok")'
  BY <1>3 DEF Ended, At
<1> QED BY <1>1, <1>3, <1>5, <1>9, <1>10 DEF WiredInv

\* Deploy returns success with every endpoint deployed.
LEMMA ReturnWired ==
    ASSUME AllPlaced, BaseInv, WiredInv, DeployReturns
    PROVE  WiredInv'
<1>1. /\ p.pc = "hostEps" /\ p.hpos > Len(special["host"]) /\ p.left = {} /\ End("ok") /\ p \in Process(p.left)
      /\ UNCHANGED <<topo, run, ifs, tc, special, objs, lstate, pos>>
  BY DEF DeployReturns, At, BaseInv, Types, Working, kernel
<1>2. /\ p'.pc = "ended" /\ p'.hpos = p.hpos /\ p'.left = p.left /\ p'.filter = p.filter
      /\ p'.warned = p.warned
  BY <1>1, EndStep
<1>3. (\A u \in 1..Len(objs) : VethState(u)) /\ Passed /\ HostDone
  BY <1>1 DEF WiredInv, Building, Finishing, At
<1>4. (\A u \in 1..Len(objs) : VethState(u)') /\ Passed'
  <2>1. \A u \in 1..Len(objs) : VethState(u)'
    BY <1>1, <1>3, SameNames DEF VethState
  <2>2. Passed'
    BY <1>1, <1>3, SameNames DEF Passed, EndDone
  <2> QED BY <2>1, <2>2
<1>5. HostDone'
  <2>1. \A i : Redirected(i)' <=> Redirected(i)
    BY <1>1, SameTopology DEF Redirected
  <2>2. StitchedLinks' = StitchedLinks
    BY <1>1, SameTopology DEF StitchedLinks
  <2>3. (\A j \in 1..Len(special["host"]) :
          j < p.hpos => \/ p.warned
                        \/ EndIface(special["host"][j].end[1], special["host"][j].end[2]) \in ifs)'
    BY <1>1, <1>2, <1>3, SameNames DEF HostDone
  <2>4. /\ \A n \in Targets(p.filter) : pos[n] > Len(EndsOn(objs, n))
        /\ p.hpos <= Len(special["host"]) => p.left = StitchedLinks
        /\ p.warned \/ \A i \in StitchedLinks \ p.left : Redirected(i)
    BY <1>3 DEF HostDone
  <2> QED BY <1>1, <1>2, <2>1, <2>2, <2>3, <2>4 DEF HostDone
<1> QED BY <1>1, <1>2, <1>4, <1>5 DEF WiredInv

\* Every step keeps WiredInv.
LEMMA WiredNext ==
    ASSUME AllPlaced, BaseInv, WiredInv, [Next]_vars
    PROVE  WiredInv'
<1>0. p \in Process(p.left) /\ Way
  BY DEF BaseInv, Types
<1>1. CASE \E op \in Commands \ {"vxlanCreate", "vxlanDelete"} :
             \E f \in IF op \in {"destroyByName", "redeploy"} THEN {{}} ELSE Filters : GiveCommand(op, f)
  <2>1. p'.pc \in {"destroy", "resolve"}
    BY <1>1 DEF GiveCommand, NoProcess
  <2> QED BY <2>1, NotBuilding
<1>2. CASE DestroyNothing
  <2>1. p.pc = "destroy" /\ p.op # "none" /\ p.op \in {"destroy", "destroyByName", "redeploy"}
    BY <1>0, <1>2 DEF DestroyNothing, At, Way
  <2>2. p'.pc = "resolve" \/ (p'.pc = "ended" /\ p'.op = p.op /\ p.op # "redeploy")
    BY <1>0, <1>2 DEF DestroyNothing, End, Process
  <2> QED BY <2>1, <2>2, NotBuilding DEF Deploys
<1>3. CASE Deleted
  <2>1. p.pc = "delete" /\ p.op \in {"destroy", "redeploy", "reconfigure"} /\ Fresh
    BY <1>0, <1>3 DEF Deleted, At, Way, WiredInv
  <2>2. p'.pc \in {"resolve", "verify"} \/ (p'.pc = "ended" /\ p'.op = "destroy")
    BY <1>0, <1>3, <2>1 DEF Deleted, End, Process
  <2>3. Fresh'
    BY <1>3, <2>1 DEF Deleted, Fresh
  <2> QED BY <2>2, <2>3, NotBuilding DEF Deploys
<1>4. CASE makeCopyForDestroy \/ DeployResolve
  <2>1. \/ End("error")
        \/ /\ ResolveLinks
           /\ \/ StartDeleting([p EXCEPT !.round = @ + 1])
              \/ p' = [p EXCEPT !.pc = "verify", !.round = @ + 1]
    BY <1>4 DEF makeCopyForDestroy, DeployResolve
  <2>2. CASE End("error")
    BY <1>0, <2>2, EndStep, NotBuilding
  <2>3. CASE /\ ResolveLinks
             /\ \/ StartDeleting([p EXCEPT !.round = @ + 1])
                \/ p' = [p EXCEPT !.pc = "verify", !.round = @ + 1]
    <3>1. p'.pc \in {"delete", "verify"}
      BY <1>0, <2>3, RoundStep
    <3>2. Fresh'
      BY <2>3 DEF Fresh, ResolveLinks
    <3> QED BY <3>1, <3>2, NotBuilding
  <2> QED BY <2>1, <2>2, <2>3
<1>5. CASE deleteContainersDirect
  <2>1. p'.pc = "ended" /\ p'.op = "destroyByName"
    BY <1>0, <1>5 DEF deleteContainersDirect, End, Process
  <2> QED BY <2>1, NotBuilding DEF Deploys
<1>6. CASE \E n \in Nodes \cup Singletons : deleteNodes(n)
  <2>1. PICK n : deleteNodes(n)
    BY <1>6
  <2>2. p.pc = "delete" /\ p'.pc = "delete" /\ objs' = objs
    BY <2>1, DeletingFact
  <2>3. PICK bad, gone : DeleteStep(n, bad, gone)
    BY <2>1, DeletingFact
  <2>4. Fresh'
    <3>1. Fresh /\ lstate \in [1..Len(objs) -> States]
      BY <2>2 DEF WiredInv, BaseInv, Objects, Active
    <3> QED BY <2>2, <2>3, <3>1 DEF DeleteStep, Fresh
  <2> QED BY <2>2, <2>4, NotBuilding
<1>7. CASE Exit \/ Kill
  <2>1. p'.pc = "idle"
    BY <1>7 DEF Exit, Kill, Forgotten, NoProcess
  <2> QED BY <2>1, NotBuilding
<1>8. CASE (\E i \in ifs : vxlanCreate(i)) \/ vxlanDelete \/ ParentChanges
  <2>1. p'.pc = "idle"
    BY <1>8 DEF vxlanCreate, vxlanDelete, ParentChanges, At
  <2> QED BY <2>1, NotBuilding
<1>9. CASE UNCHANGED vars
  <2>1. UNCHANGED <<topo, run, objs, special, ifs, lstate, pos, tc, p>>
    BY <1>9 DEF vars, kernel
  <2>2. Fresh' <=> Fresh
    BY <2>1 DEF Fresh
  <2>3. CASE p.pc \in {"delete", "verify"}
    BY <2>1, <2>2, <2>3, NotBuilding DEF WiredInv
  <2>4. CASE p.pc \notin {"delete", "verify"}
    <3>1. (Building' <=> Building) /\ (Finishing' <=> Finishing)
          /\ (Ended(Deploys, "ok")' <=> Ended(Deploys, "ok"))
      BY <2>1 DEF Building, Finishing, Ended, At
    <3> QED BY <2>1, <2>4, <3>1, QuietWired
  <2> QED BY <2>3, <2>4
<1>10. CASE \E n \in Nodes : DeployNode(n) \/ DeployEndpoints(n)
  BY <1>10, NodeWired, WorkerWired
<1> QED BY <1>1, <1>2, <1>3, <1>4, <1>5, <1>6, <1>7, <1>8, <1>9, <1>10,
           VerifiedWired, ReturnedWired, HostWired, StitchWired, ReturnWired DEF Next

\* An end of an object is in the list of its node.
LEMMA OnNode ==
    ASSUME AllPlaced, BaseInv, Active, NEW o \in 1..Len(objs), NEW k \in 1..Len(objs[o].eps)
    PROVE  LET n == objs[o].eps[k].node IN
           /\ n \in Targets(p.filter) \cup Singletons
           /\ \E j \in 1..Len(EndsOn(objs, n)) : EndsOn(objs, n)[j] = <<o, k>>
           /\ <<o, k>> \in ToSet(EndsOn(objs, n))
<1> DEFINE n == objs[o].eps[k].node
<1>1. topo \in Topologies /\ objs = Resolved(p.filter) /\ Types /\ Objects
  BY DEF BaseInv, Types, Objects
<1>2. n \in Targets(p.filter) \cup Singletons
  BY <1>1, ObjectFact
<1>3. <<o, k>> \in ToSet(EndsOn(objs, n))
  BY <1>1, EndsOnFact
<1>4. DOMAIN EndsOn(objs, n) = 1..Len(EndsOn(objs, n))
  BY <1>1, EndsOnFact
<1> HIDE DEF n
<1>5. \E j \in 1..Len(EndsOn(objs, n)) : EndsOn(objs, n)[j] = <<o, k>>
  BY <1>3, <1>4 DEF ToSet
<1> QED BY <1>2, <1>3, <1>5 DEF n

\* The invariant says what DeploymentIsWired promises.
LEMMA WiredImplies ==
    ASSUME AllPlaced, BaseInv, WiredInv
    PROVE  DeploymentIsWired
<1> SUFFICES ASSUME Ended(Deploys, "ok")
             PROVE  /\ \A o \in 1..Len(objs) :
                         \/ objs[o].kind = "vxlan" /\ objs[o].eps[1].node = "host" /\ p.warned
                         \/ Attached(o)
                    /\ p.warned \/ \A i \in StitchedLinks : Redirected(i)
  BY DEF DeploymentIsWired, Deploys, Redirected
<1>1. /\ Active /\ (\A u \in 1..Len(objs) : VethState(u)) /\ Passed /\ HostDone
      /\ p.left = {} /\ p.hpos > Len(special["host"]) /\ Types /\ Objects
  BY DEF Active, WiredInv, Building, Finishing, BaseInv
<1>2. p.warned \/ \A i \in StitchedLinks : Redirected(i)
  BY <1>1 DEF HostDone
<1>3. ASSUME NEW o \in 1..Len(objs), NEW k \in 1..Len(objs[o].eps), objs[o].eps[k].node \in Targets(p.filter)
      PROVE  EndDone(o, k)
  <2> DEFINE n == objs[o].eps[k].node
  <2>1. PICK j \in 1..Len(EndsOn(objs, n)) : EndsOn(objs, n)[j] = <<o, k>>
    BY <1>1, OnNode
  <2>2. n \in Nodes /\ pos[n] > Len(EndsOn(objs, n)) /\ pos[n] \in Nat /\ Len(EndsOn(objs, n)) \in Nat
    <3>1. n \in Nodes
      BY <1>1, <1>3 DEF Targets, Types, Process
    <3> QED BY <1>1, <1>3, <3>1, EndsOnFact DEF HostDone, Types, Objects
  <2> HIDE DEF n
  <2>3. j < pos[n]
    BY <2>2
  <2> QED BY <1>1, <2>1, <2>2, <2>3 DEF Passed
<1>4. ASSUME NEW o \in 1..Len(objs), ~Attached(o)
      PROVE  objs[o].kind = "vxlan" /\ objs[o].eps[1].node = "host" /\ p.warned
  <2>1. PICK k \in 1..Len(objs[o].eps) : EndIface(o, k) \notin ifs
    BY <1>4 DEF Attached, EndIface
  <2>2. objs[o].eps[k].node \in Singletons
    BY <1>1, <1>3, <2>1, OnNode DEF EndDone
  <2>3. ObjectOf(objs[o], objs[o].link, Defs[objs[o].link])
    BY <1>1, ObjectFact
  <2>4. CASE objs[o].kind = "veth"
    <3>1. Len(objs[o].eps) = 2 /\ k \in {1, 2}
      BY <2>1, <2>3, <2>4 DEF ObjectOf
    <3>2. PICK m \in {1, 2} : objs[o].eps[m].node \notin Singletons
      BY <2>3, <2>4 DEF ObjectOf
    <3>3. m = 3 - k /\ k = 3 - m
      BY <2>2, <3>1, <3>2
    <3>4. m \in 1..Len(objs[o].eps)
      BY <3>1, <3>2
    <3>5. EndDone(o, m)
      BY <1>1, <1>3, <3>2, <3>4, OnNode
    <3>6. objs[o].eps[k].nodeless
      BY <2>1, <2>2, <2>3, <2>4 DEF ObjectOf, EndOf
    <3>7. lstate[o] = "full"
      BY <2>4, <3>3, <3>5, <3>6 DEF EndDone
    <3> QED BY <1>1, <2>1, <2>4, <3>1, <3>7 DEF VethState
  <2>5. CASE objs[o].kind # "veth"
    <3>1. k = 1 /\ objs[o].eps[k].node = "host" /\ objs[o].kind = "vxlan"
      <4>1. Len(objs[o].eps) = 1
        BY <2>3, <2>5 DEF ObjectOf
      <4>2. EndOf(objs[o], k, Defs[objs[o].link])
        BY <2>1, <2>3 DEF ObjectOf
      <4> QED BY <2>1, <2>2, <2>5, <4>1, <4>2 DEF EndOf, Singletons
    <3>2. <<o, k>> \in ToSet(HostEnds(p.filter))
      BY <1>1, <2>1, <3>1, OnNode DEF HostEnds, Objects
    <3>3. PICK j \in 1..Len(special["host"]) : special["host"][j].end = <<o, k>>
      BY <1>1, <3>2 DEF BaseInv, Singles
    <3>4. j < p.hpos
      <4>1. Len(special["host"]) \in Nat /\ p.hpos \in Nat
        BY <1>1 DEF BaseInv, Singles, Types, Process
      <4> QED BY <1>1, <4>1
    <3>5. p.warned
      BY <1>1, <2>1, <3>3, <3>4 DEF HostDone
    <3> QED BY <3>1, <3>5
  <2> QED BY <2>4, <2>5
<1> QED BY <1>2, <1>4

\* A deployment that returned success has both ends of every link it took in their
\* namespaces under their names, the ends of the host included, and every stitched link
\* redirected in both directions unless it warned.
THEOREM WiredTheorem == ASSUME AllPlaced PROVE Spec => []DeploymentIsWired
<1>1. Init => BaseInv /\ WiredInv
  <2>1. Init => WiredInv
    BY DEF Init, WiredInv, NoProcess, Building, Finishing, Ended, At
  <2> QED BY <2>1, BaseInit
<1>2. BaseInv /\ WiredInv /\ [Next]_vars => BaseInv' /\ WiredInv'
  BY BaseNext, WiredNext
<1>3. BaseInv /\ WiredInv => DeploymentIsWired
  BY WiredImplies
<1> QED BY <1>1, <1>2, <1>3, PTL DEF Spec

(***************************************************************************)
(* A destroy clears the host: every interface has the name of an end of its link,*)
(* and deleting the nodes removes the interfaces under those names.        *)
(***************************************************************************)

\* The interface i, of a link, has a random name or the name of an end of that link.
OfLink(i) ==
  /\ i.dev[2] \in 1..Len(topo)
  /\ \/ i.name[1] = "clab-"
     \/ \E x \in ToSet(Resolve(i.dev[2], Defs[i.dev[2]], {})) : \E k \in 1..Len(x.eps) :
           i.ns = NsOf(x.eps[k].node) /\ i.name = x.eps[k].name
\* An interface that is not the host's is on the host or in a container of the lab.
Named(i) ==
  i.dev[3] # "foreign" =>
     IF i.dev[2] = 0 THEN i.ns = Root ELSE OfLink(i) /\ (i.ns = Root \/ i.ns \in cont)
\* The links are being removed, or a destroy has removed them.
Removing == At("delete") \/ (Ended({"destroy"}, "ok") /\ p.deleted)
\* What the deleted nodes and the removed links have left, if nothing failed.
Cleared ==
  /\ \A c \in (Containers \cap Targets(p.filter)) \ p.left : \A i \in ifs : i.ns # c
  /\ \A o \in 1..Len(objs) : lstate[o] = "removed" =>
       \A k \in 1..Len(objs[o].eps) : ~Exists(ifs, NsOf(objs[o].eps[k].node), objs[o].eps[k].name)
  /\ \A o \in 1..Len(objs) : \A k \in 1..Len(objs[o].eps) :
       objs[o].eps[k].node \notin Bridges \cup p.left => lstate[o] = "removed"
\* The container of a node is created before its endpoints are deployed.
InContainer == At("nodes") => \A n \in Containers : pos[n] > 0 => n \in cont
ClearInv ==
  /\ \A i \in ifs : Named(i)
  /\ InContainer
  /\ Removing /\ ~p.warned => Cleared
  /\ Ended({"destroy"}, "ok") /\ p.deleted => p.left = {}

\* An interface of the object o of this process, under a name it may have.
LEMMA ObjectNamed ==
    ASSUME AllPlaced, BaseInv, Active, NEW o \in 1..Len(objs), NEW i, i.dev = Dev(o),
           \/ i.name[1] = "clab-"
           \/ \E k \in 1..Len(objs[o].eps) : i = EndIface(o, k)
    PROVE  OfLink(i) /\ i.dev[2] # 0
<1>1. Types /\ Objects /\ topo \in Topologies
  BY DEF BaseInv, Types
<1>2. objs[o] \in ToSet(Resolved(p.filter)) /\ objs[o].link \in 1..Len(topo)
  BY <1>1, ObjectFact
<1>3. i.dev[2] = objs[o].link
  BY DEF Dev
<1>4. Within(p.filter, {})
  BY DEF Within
<1>5. objs[o] \in ToSet(Resolved({}))
  BY <1>1, <1>2, <1>4, WithinFact
<1>6. objs[o] \in ToSet(Resolve(i.dev[2], Defs[i.dev[2]], {}))
  BY <1>1, <1>3, <1>5, ResolvedFact
<1>7. CASE \E k \in 1..Len(objs[o].eps) : i = EndIface(o, k)
  <2>1. PICK k \in 1..Len(objs[o].eps) : i = EndIface(o, k)
    BY <1>7
  <2>2. i.ns = NsOf(objs[o].eps[k].node) /\ i.name = objs[o].eps[k].name
    BY <2>1 DEF EndIface, SetNameMACAndUpInterface, Iface
  <2>3. \E x \in ToSet(Resolve(i.dev[2], Defs[i.dev[2]], {})) : \E m \in 1..Len(x.eps) :
           i.ns = NsOf(x.eps[m].node) /\ i.name = x.eps[m].name
    BY <1>6, <2>2
  <2> QED BY <1>2, <1>3, <2>3 DEF OfLink
<1>8. CASE i.name[1] = "clab-"
  BY <1>2, <1>3, <1>8 DEF OfLink
<1> QED BY <1>7, <1>8

\* Whose link an interface is depends on the topology file only.
LEMMA SameLinks ==
    ASSUME UNCHANGED topo
    PROVE  \A i : OfLink(i)' <=> OfLink(i)
<1>1. Defs' = Defs
  BY SameTopology
<1> QED BY <1>1 DEF OfLink

\* What Deploy adds is named.
LEMMA DeployNamed ==
    ASSUME AllPlaced, BaseInv, Active, NEW o, NEW k, NEW r, DeployStep(o, k, r),
           \A i \in ifs : Named(i), UNCHANGED <<topo, cont>>,
           objs[o].eps[k].node \in cont \cup Bridges \cup Singletons
    PROVE  \A i \in ifs' : Named(i)'
<1> SUFFICES ASSUME NEW i \in ifs' PROVE Named(i)'
  OBVIOUS
<1>1. /\ Returned(ifs, o, k, r) /\ ifs' = r.ifs /\ o \in 1..Len(objs) /\ k \in 1..Len(objs[o].eps)
  BY DeployStepFact DEF DeployStep
<1>2. CASE i \in ifs
  <2>1. Named(i)
    BY <1>2
  <2> QED BY <2>1, SameLinks DEF Named
<1>3. CASE i \notin ifs
  <2>0. Types /\ Objects
    BY DEF BaseInv
  <2>1. i.dev = Dev(o)
    BY <1>3, DeployStepFact
  <2>2. \/ i = EndIface(o, k)
        \/ 3 - k \in 1..Len(objs[o].eps) /\ objs[o].eps[3 - k].nodeless /\ i = EndIface(o, 3 - k)
        \/ \E m \in {1, 2} : i = Waiting(o, m)
        \/ i = Iface(NsOf(objs[o].eps[k].node), RandName(o, k), Dev(o))
    BY <1>1, <1>3 DEF Returned, Added
  <2>3. NsOf(objs[o].eps[k].node) = Root \/ NsOf(objs[o].eps[k].node) \in cont
    <3>1. cont \subseteq Containers
      BY <2>0 DEF Types
    <3> QED BY <3>1, NotRoot, LabLinksAssumption
  <2>4. ObjectOf(objs[o], objs[o].link, Defs[objs[o].link])
    BY <1>1, <2>0, ObjectFact
  <2>5. CASE i = EndIface(o, k)
    <3>1. i.ns = NsOf(objs[o].eps[k].node)
      BY <2>5 DEF EndIface, SetNameMACAndUpInterface, Iface
    <3>2. OfLink(i) /\ i.dev[2] # 0
      BY <1>1, <2>1, <2>5, ObjectNamed
    <3> QED BY <2>3, <3>1, <3>2, SameLinks DEF Named
  <2>6. CASE 3 - k \in 1..Len(objs[o].eps) /\ objs[o].eps[3 - k].nodeless /\ i = EndIface(o, 3 - k)
    <3> DEFINE m == 3 - k
    <3>1. i.ns = NsOf(objs[o].eps[m].node)
      BY <2>6 DEF EndIface, SetNameMACAndUpInterface, Iface
    <3>2. OfLink(i) /\ i.dev[2] # 0
      BY <1>1, <2>1, <2>6, ObjectNamed
    <3>3. objs[o].kind = "veth"
      <4>1. k \in Nat /\ 3 - k \in 1..Len(objs[o].eps) /\ k \in 1..Len(objs[o].eps)
        BY <1>1, <2>6
      <4>2. Len(objs[o].eps) = IF objs[o].kind = "veth" THEN 2 ELSE 1
        BY <2>4 DEF ObjectOf
      <4> QED BY <4>1, <4>2
    <3>4. m \in 1..Len(objs[o].eps) /\ objs[o].eps[m].nodeless
      BY <2>6
    <3> HIDE DEF m
    <3>5. objs[o].eps[m].node \in Singletons
      BY <2>4, <3>3, <3>4 DEF ObjectOf, EndOf
    <3>6. i.ns = Root
      BY <3>1, <3>5, NotRoot
    <3> QED BY <3>2, <3>6, SameLinks DEF Named
  <2>7. CASE \E m \in {1, 2} : i = Waiting(o, m)
    <3>1. i.name[1] = "clab-"
      BY <2>7, RandomNames
    <3>2. i.ns = Root
      BY <2>7 DEF Waiting, Iface
    <3>3. OfLink(i) /\ i.dev[2] # 0
      BY <1>1, <2>1, <3>1, ObjectNamed
    <3> QED BY <3>2, <3>3, SameLinks DEF Named
  <2>8. CASE i = Iface(NsOf(objs[o].eps[k].node), RandName(o, k), Dev(o))
    <3>1. i.name = RandName(o, k) /\ i.ns = NsOf(objs[o].eps[k].node)
      BY <2>8 DEF Iface
    <3>2. i.name[1] = "clab-"
      BY <3>1 DEF RandName
    <3>3. OfLink(i) /\ i.dev[2] # 0
      BY <1>1, <2>1, <3>2, ObjectNamed
    <3> QED BY <2>3, <3>1, <3>3, SameLinks DEF Named
  <2> QED BY <2>2, <2>5, <2>6, <2>7, <2>8
<1> QED BY <1>2, <1>3

\* Removing interfaces leaves the others named.
LEMMA FewerNamed ==
    ASSUME \A i \in ifs : Named(i), UNCHANGED topo, ifs' \subseteq ifs,
           \A i \in ifs' : i.ns \in cont => i.ns \in cont'
    PROVE  \A i \in ifs' : Named(i)'
<1> SUFFICES ASSUME NEW i \in ifs' PROVE Named(i)'
  OBVIOUS
<1>1. Named(i) /\ (i.ns \in cont => i.ns \in cont')
  OBVIOUS
<1> QED BY <1>1, SameLinks DEF Named

\* A node is deleted: its container with all in it, and its links by their names.
LEMMA DeletingCleared ==
    ASSUME AllPlaced, BaseInv, ClearInv, NEW n, deleteNodes(n)
    PROVE  (\A i \in ifs' : Named(i)') /\ (~p'.warned => Cleared')
<1>1. /\ p.pc = "delete" /\ At("delete") /\ Active /\ n \in p.left
      /\ UNCHANGED <<topo, run, special, objs>>
      /\ p'.filter = p.filter /\ p'.left = p.left \ {n} /\ ifs' \subseteq ifs
      /\ Types /\ Objects /\ cont \subseteq Containers
  BY DeletingFact DEF BaseInv, Types, At
<1>2. PICK bad \in SUBSET Delete(n), gone \in BOOLEAN :
         DeleteStep(n, bad, gone) /\ (~p'.warned => bad = {} /\ gone /\ ~p.warned)
  BY DeletingFact
<1> DEFINE S == Without(ifs, RemovedDevs(Delete(n), bad))
<1>3. /\ ifs' = (IF gone /\ n \in Containers THEN Without(S, DevsIn(S, n)) ELSE S)
      /\ cont' = (IF gone THEN cont \ {n} ELSE cont)
      /\ lstate' = [o \in DOMAIN lstate |-> IF o \in Delete(n) THEN "removed" ELSE lstate[o]]
  BY <1>2 DEF DeleteStep
<1>4. gone /\ n \in Containers => \A i \in ifs' : i.ns # n
  BY <1>3 DEF Without, DevsIn
<1>5. \A i \in ifs' : Named(i)'
  <2>1. \A i \in ifs' : i.ns \in cont => i.ns \in cont'
    BY <1>1, <1>3, <1>4
  <2> QED BY <1>1, <2>1, FewerNamed DEF ClearInv
<1>6. ASSUME ~p'.warned PROVE Cleared'
  <2>1. bad = {} /\ gone /\ ~p.warned /\ Cleared
    BY <1>1, <1>2, <1>6 DEF ClearInv, Removing
  <2>2. lstate \in [1..Len(objs) -> States] /\ ifs' \subseteq S /\ Delete(n) \subseteq 1..Len(objs)
    BY <1>1, <1>3, DeleteFact DEF Objects, Without
  <2>3. \A o \in 1..Len(objs) : lstate'[o] = IF o \in Delete(n) THEN "removed" ELSE lstate[o]
    BY <1>3, <2>2
  <2>4. \A c \in (Containers \cap Targets(p.filter)) \ p'.left : \A i \in ifs' : i.ns # c
    <3> SUFFICES ASSUME NEW c \in (Containers \cap Targets(p.filter)) \ p'.left, NEW i \in ifs' PROVE i.ns # c
      OBVIOUS
    <3>1. CASE c = n
      BY <1>4, <2>1, <3>1
    <3>2. CASE c # n
      <4>1. c \in (Containers \cap Targets(p.filter)) \ p.left /\ i \in ifs
        BY <1>1, <3>2
      <4> QED BY <2>1, <4>1 DEF Cleared
    <3> QED BY <3>1, <3>2
  <2>5. ASSUME NEW o \in 1..Len(objs), lstate'[o] = "removed", NEW k \in 1..Len(objs[o].eps)
        PROVE  ~Exists(ifs', NsOf(objs[o].eps[k].node), objs[o].eps[k].name)
    <3> DEFINE e == objs[o].eps[k]
    <3>1. CASE lstate[o] = "removed"
      <4>1. ~Exists(ifs, NsOf(e.node), e.name)
        BY <2>1, <3>1 DEF Cleared
      <4> QED BY <1>1, <4>1 DEF Exists
    <3>2. CASE lstate[o] # "removed"
      <4>1. o \in Delete(n) \ bad
        BY <2>1, <2>3, <2>5, <3>2
      <4>2. e \in ToSet(objs[o].eps)
        <5>1. DOMAIN objs[o].eps = 1..Len(objs[o].eps)
          BY <1>1, ObjectFact DEF ObjectOf
        <5> QED BY <5>1 DEF ToSet
      <4> HIDE DEF e
      <4>3. DevsAt(ifs, NsOf(e.node), {e.name}) \subseteq RemovedDevs(Delete(n), bad)
        <5> SUFFICES ASSUME NEW d \in DevsAt(ifs, NsOf(e.node), {e.name}) PROVE d \in RemovedDevs(Delete(n), bad)
          OBVIOUS
        <5>1. d \in UNION {DevsAt(ifs, NsOf(a.node), {a.name}) : a \in ToSet(objs[o].eps)}
          BY <4>2
        <5> QED BY <4>1, <5>1 DEF RemovedDevs
      <4>4. ASSUME NEW i \in S, i.ns = NsOf(e.node), i.name = e.name PROVE FALSE
        <5>1. i \in ifs /\ i.dev \notin RemovedDevs(Delete(n), bad)
          BY <4>4 DEF Without
        <5>2. i.dev \in DevsAt(ifs, NsOf(e.node), {e.name})
          BY <4>4, <5>1 DEF DevsAt
        <5> QED BY <4>3, <5>1, <5>2
      <4>5. ~Exists(ifs', NsOf(e.node), e.name)
        BY <2>2, <4>4 DEF Exists
      <4> QED BY <4>5 DEF e
    <3> QED BY <3>1, <3>2
  <2>6. ASSUME NEW o \in 1..Len(objs), NEW k \in 1..Len(objs[o].eps),
               objs[o].eps[k].node \notin Bridges \cup p'.left
        PROVE  lstate'[o] = "removed"
    <3>1. CASE objs[o].eps[k].node \notin p.left
      BY <2>1, <2>3, <2>6, <3>1 DEF Cleared
    <3>2. CASE objs[o].eps[k].node \in p.left
      <4>1. objs[o].eps[k].node = n /\ n \notin Bridges
        BY <1>1, <2>6, <3>2
      <4>2. objs[o].eps[k] \in ToSet(objs[o].eps)
        <5>1. DOMAIN objs[o].eps = 1..Len(objs[o].eps)
          BY <1>1, ObjectFact DEF ObjectOf
        <5> QED BY <5>1 DEF ToSet
      <4>3. lstate[o] # "removed" => o \in Delete(n)
        BY <4>1, <4>2 DEF Delete, Touched
      <4> QED BY <2>3, <4>3
    <3> QED BY <3>1, <3>2
  <2> QED BY <1>1, <2>4, <2>5, <2>6 DEF Cleared
<1> QED BY <1>5, <1>6

\* A destroy by name takes the interfaces with the containers.
LEMMA DirectNamed ==
    ASSUME AllPlaced, BaseInv, ClearInv, deleteContainersDirect
    PROVE  \A i \in ifs' : Named(i)'
<1>1. /\ ifs' = Without(ifs, UNION {DevsIn(ifs, n) : n \in cont}) /\ UNCHANGED topo
  BY DEF deleteContainersDirect, Working
<1>2. \A i \in ifs' : i.ns \notin cont /\ i \in ifs
  <2> SUFFICES ASSUME NEW i \in ifs' PROVE i.ns \notin cont /\ i \in ifs
    OBVIOUS
  <2>1. i \in ifs /\ i.dev \notin UNION {DevsIn(ifs, n) : n \in cont}
    BY <1>1 DEF Without
  <2>2. i.dev \in DevsIn(ifs, i.ns)
    BY <2>1 DEF DevsIn
  <2> QED BY <2>1, <2>2
<1> QED BY <1>1, <1>2, FewerNamed DEF ClearInv

\* What a killed process leaves is named.
LEMMA KillNamed ==
    ASSUME AllPlaced, BaseInv, ClearInv, Kill
    PROVE  \A i \in ifs' : Named(i)'
<1>1. UNCHANGED <<topo, cont>>
  BY DEF Kill, Working
<1> SUFFICES ASSUME NEW i \in ifs' PROVE Named(i)'
  OBVIOUS
<1>2. CASE i \in ifs
  <2>1. Named(i)
    BY <1>2 DEF ClearInv
  <2> QED BY <1>1, <2>1, SameLinks DEF Named
<1>3. CASE i \notin ifs
  <2>1. PICK n \in Nodes : /\ At("nodes") /\ Pending(n)
          /\ LET o == EndsOn(objs, n)[pos[n]][1]
             IN  ifs' = ifs \cup {Iface(Root, RandName(o, k), Dev(o)) : k \in 1..Len(objs[o].eps)}
    BY <1>3 DEF Kill
  <2> DEFINE o == EndsOn(objs, n)[pos[n]][1]
  <2>2. PICK k \in 1..Len(objs[o].eps) : i = Iface(Root, RandName(o, k), Dev(o))
    BY <1>3, <2>1
  <2>3. Active /\ Types /\ Objects /\ pos[n] \in 1..Len(EndsOn(objs, n))
    BY <2>1 DEF Active, At, BaseInv, Pending
  <2>4. o \in 1..Len(objs)
    BY <2>3, EndFact
  <2> HIDE DEF o
  <2>5. i.ns = Root /\ i.name = RandName(o, k) /\ i.dev = Dev(o)
    BY <2>2 DEF Iface
  <2>6. i.name[1] = "clab-"
    BY <2>5 DEF RandName
  <2>7. OfLink(i) /\ i.dev[2] # 0
    BY <2>3, <2>4, <2>5, <2>6, ObjectNamed
  <2> QED BY <1>1, <2>5, <2>7, SameLinks DEF Named
<1> QED BY <1>2, <1>3

\* A state in which nothing is being removed asks only for names.
LEMMA NotRemoving ==
    ASSUME \A i \in ifs' : Named(i)', InContainer', p'.pc # "delete",
           p'.pc = "ended" => p'.op # "destroy" \/ p'.outcome # "ok" \/ ~p'.deleted
    PROVE  ClearInv'
<1>1. ~Removing' /\ ~(Ended({"destroy"}, "ok") /\ p.deleted)'
  BY DEF Removing, Ended, At
<1> QED BY <1>1 DEF ClearInv

\* The steps that leave interfaces and objects alone.
LEMMA CalmCleared ==
    ASSUME AllPlaced, BaseInv, ClearInv,
           DestroyNothing \/ Deleted \/ checkTopologyDefinition \/ WorkersReturned \/ DeployReturns
    PROVE  ClearInv'
<1>0. /\ p \in Process(p.left) /\ Way /\ Types
      /\ UNCHANGED <<topo, ifs, cont, objs, lstate, pos>>
  BY DEF BaseInv, Types, DestroyNothing, Deleted, checkTopologyDefinition, WorkersReturned, DeployReturns,
         Working, kernel
<1>1. \A i \in ifs' : Named(i)'
  BY <1>0, FewerNamed DEF ClearInv
<1>2. CASE DestroyNothing
  <2>1. p.pc = "destroy" /\ ~p.deleted
    BY <1>0, <1>2 DEF DestroyNothing, At, Way
  <2>2. p'.pc \in {"resolve", "ended"} /\ p'.deleted = p.deleted
    BY <1>0, <1>2 DEF DestroyNothing, End, Process
  <2> QED BY <1>1, <2>1, <2>2, NotRemoving DEF InContainer, At
<1>3. CASE Deleted
  <2>1. p.pc = "delete" /\ p.left = {} /\ p.op \in {"destroy", "redeploy", "reconfigure"} /\ At("delete")
    BY <1>0, <1>3 DEF Deleted, At, Way
  <2>2. CASE p.op = "destroy"
    <3>1. /\ p'.pc = "ended" /\ p'.filter = p.filter /\ p'.left = p.left /\ p'.warned = p.warned
      BY <1>0, <1>3, <2>2, EndStep DEF Deleted
    <3>2. ~p.warned => Cleared
      BY <2>1 DEF ClearInv, Removing
    <3>3. ~p'.warned => Cleared'
      BY <1>0, <3>1, <3>2 DEF Cleared, Targets
    <3>4. p'.left = {} /\ InContainer'
      BY <2>1, <3>1 DEF InContainer, At
    <3> QED BY <1>1, <3>3, <3>4 DEF ClearInv
  <2>3. CASE p.op # "destroy"
    <3>1. p'.pc \in {"resolve", "verify"}
      BY <1>0, <1>3, <2>1, <2>3 DEF Deleted, Process
    <3> QED BY <1>1, <3>1, NotRemoving DEF InContainer, At
  <2> QED BY <2>2, <2>3
<1>4. CASE checkTopologyDefinition
  <2>1. p.pc = "verify" /\ pos = [n \in Nodes |-> 0]
    BY <1>0, <1>4 DEF checkTopologyDefinition, At, Way
  <2>2. p'.pc = "nodes" \/ (p'.pc = "ended" /\ p'.outcome = "error")
    BY <1>0, <1>4 DEF checkTopologyDefinition, End, Process
  <2>3. InContainer'
    <3>1. \A n \in Containers : pos'[n] = 0
      BY <1>0, <2>1 DEF Nodes
    <3> QED BY <3>1 DEF InContainer
  <2> QED BY <1>1, <2>2, <2>3, NotRemoving
<1>5. CASE WorkersReturned \/ DeployReturns
  <2>1. p.op \in Deploys
    BY <1>0, <1>5 DEF WorkersReturned, DeployReturns, At, Way
  <2>2. p'.pc \in {"hostEps", "ended"} /\ p'.op = p.op
    BY <1>0, <1>5 DEF WorkersReturned, DeployReturns, End, Process
  <2> QED BY <1>1, <2>1, <2>2, NotRemoving DEF InContainer, At, Deploys
<1> QED BY <1>2, <1>3, <1>4, <1>5

\* The process starts to delete: all its nodes are left, no link is removed.
LEMMA StartCleared ==
    ASSUME AllPlaced, BaseInv, ClearInv, makeCopyForDestroy \/ DeployResolve
    PROVE  ClearInv'
<1>0. /\ p \in Process(p.left) /\ UNCHANGED <<topo, ifs, cont>> /\ BaseInv'
  BY ResolvingNext DEF BaseInv, Types, makeCopyForDestroy, DeployResolve, Working, kernel
<1>1. \A i \in ifs' : Named(i)'
  BY <1>0, FewerNamed DEF ClearInv
<1>2. \/ End("error")
      \/ /\ ResolveLinks
         /\ \/ StartDeleting([p EXCEPT !.round = @ + 1])
            \/ p' = [p EXCEPT !.pc = "verify", !.round = @ + 1]
  BY DEF makeCopyForDestroy, DeployResolve
<1>3. CASE End("error")
  <2>1. p'.pc = "ended" /\ p'.outcome = "error"
    BY <1>0, <1>3, EndStep
  <2> QED BY <1>1, <2>1, NotRemoving DEF InContainer, At
<1>4. CASE p' = [p EXCEPT !.pc = "verify", !.round = @ + 1]
  <2>1. p'.pc = "verify"
    BY <1>0, <1>4 DEF Process
  <2> QED BY <1>1, <2>1, NotRemoving DEF InContainer, At
<1>5. CASE ResolveLinks /\ StartDeleting([p EXCEPT !.round = @ + 1])
  <2>1. p'.pc = "delete" /\ p'.left = Targets(p.filter) \cup Singletons /\ p'.filter = p.filter
    BY <1>0, <1>5 DEF StartDeleting, Process
  <2>2. Active' /\ Types' /\ Objects'
    BY <1>0, <2>1 DEF Active, BaseInv
  <2>3. topo' \in Topologies /\ objs' = Resolved(p.filter)' /\ Known(p.filter)'
    BY <2>2 DEF Types, Objects
  <2>4. \A o \in 1..Len(objs') : lstate'[o] = "none"
    BY <1>5 DEF ResolveLinks
  <2>5. \A o \in 1..Len(objs') : \A k \in 1..Len(objs'[o].eps) : objs'[o].eps[k].node \in p'.left
    <3> SUFFICES ASSUME NEW o \in 1..Len(objs'), NEW k \in 1..Len(objs'[o].eps)
                 PROVE  objs'[o].eps[k].node \in p'.left
      OBVIOUS
    <3>1. objs' = Resolved(p.filter) /\ Known(p.filter) /\ topo \in Topologies
      BY <1>0, <2>1, <2>3, SameTopology
    <3>2. objs'[o] \in ToSet(Resolved(p.filter))
      BY <3>1, ResolvedFact DEF ToSet
    <3>3. objs'[o].eps[k].node \in Targets(p.filter) \cup Singletons
      BY <3>1, <3>2, KnownFact
    <3> QED BY <2>1, <3>3
  <2>6. Cleared'
    <3>1. \A c \in (Containers \cap Targets(p'.filter)) \ p'.left : FALSE
      BY <2>1
    <3>2. \A c \in (Containers \cap Targets(p'.filter)) \ p'.left : \A i \in ifs' : i.ns # c
      BY <3>1
    <3>3. \A o \in 1..Len(objs') : lstate'[o] # "removed"
      BY <2>4
    <3> QED BY <2>5, <3>2, <3>3 DEF Cleared
  <2>7. InContainer' /\ ~(Ended({"destroy"}, "ok") /\ p.deleted)'
    BY <2>1 DEF InContainer, Ended, At
  <2> QED BY <1>1, <2>6, <2>7 DEF ClearInv
<1> QED BY <1>2, <1>3, <1>4, <1>5

\* Every step keeps ClearInv.
LEMMA ClearedNext ==
    ASSUME AllPlaced, BaseInv, ClearInv, [Next]_vars
    PROVE  ClearInv'
<1>0. p \in Process(p.left) /\ Way /\ cont \subseteq Containers /\ pos \in [Nodes -> Nat]
      /\ p.filter \subseteq Nodes
  BY DEF BaseInv, Types, Process
<1>1. CASE \E op \in Commands \ {"vxlanCreate", "vxlanDelete"} :
             \E f \in IF op \in {"destroyByName", "redeploy"} THEN {{}} ELSE Filters : GiveCommand(op, f)
  <2>1. p'.pc \in {"destroy", "resolve"} /\ UNCHANGED <<topo, ifs, cont>>
    BY <1>1 DEF GiveCommand, NoProcess, kernel
  <2>2. \A i \in ifs' : Named(i)'
    BY <2>1, FewerNamed DEF ClearInv
  <2> QED BY <2>1, <2>2, NotRemoving DEF InContainer, At
<1>2. CASE DestroyNothing \/ Deleted \/ checkTopologyDefinition \/ WorkersReturned \/ DeployReturns
  BY <1>2, CalmCleared
<1>3. CASE makeCopyForDestroy \/ DeployResolve
  BY <1>3, StartCleared
<1>4. CASE deleteContainersDirect
  <2>1. p'.pc = "ended" /\ p'.op = "destroyByName"
    BY <1>0, <1>4 DEF deleteContainersDirect, End, Process
  <2> QED BY <1>4, <2>1, DirectNamed, NotRemoving DEF InContainer, At
<1>5. CASE \E n \in Nodes \cup Singletons : deleteNodes(n)
  <2>1. PICK n : deleteNodes(n)
    BY <1>5
  <2>2. p'.pc = "delete"
    BY <2>1, DeletingFact
  <2>3. (\A i \in ifs' : Named(i)') /\ (~p'.warned => Cleared')
    BY <2>1, DeletingCleared
  <2>4. InContainer' /\ ~(Ended({"destroy"}, "ok") /\ p.deleted)'
    BY <2>2 DEF InContainer, Ended, At
  <2> QED BY <2>3, <2>4 DEF ClearInv
<1>6. CASE \E n \in Nodes : DeployNode(n)
  <2>1. PICK n \in Nodes : DeployNode(n)
    BY <1>6
  <2>2. /\ p.pc = "nodes" /\ UNCHANGED <<topo, ifs, p>> /\ cont' = cont \cup ({n} \cap Containers)
        /\ pos' = [pos EXCEPT ![n] = 1] /\ At("nodes")
    BY <2>1 DEF DeployNode, At, Working
  <2>3. \A i \in ifs' : Named(i)'
    BY <2>2, FewerNamed DEF ClearInv
  <2>4. InContainer'
    <3>1. \A c \in Containers : pos'[c] > 0 => c \in cont'
      BY <1>0, <2>2 DEF ClearInv, InContainer, Nodes
    <3> QED BY <3>1 DEF InContainer
  <2> QED BY <2>2, <2>3, <2>4, NotRemoving
<1>7. CASE \E n \in Nodes : DeployEndpoints(n)
  <2>1. PICK n \in Nodes : DeployEndpoints(n)
    BY <1>7
  <2>2. /\ p.pc = "nodes" /\ Active /\ UNCHANGED <<topo, cont>> /\ p'.pc = p.pc
    BY <2>1, WorkerFact
  <2>3. PICK o, k, r : WorkerStep(n, o, k, r)
    BY <2>1, WorkerFact
  <2>4. /\ DeployStep(o, k, r) /\ objs[o].eps[k].node = n /\ pos[n] \in 1..Len(EndsOn(objs, n))
        /\ (pos' = [pos EXCEPT ![n] = @ + 1] \/ pos' = pos)
    BY <2>3 DEF WorkerStep
  <2>5. pos[n] > 0 /\ pos[n] \in Nat
    BY <1>0, <2>4
  <2>6. n \in Containers => n \in cont
    BY <2>2, <2>5 DEF ClearInv, InContainer, At
  <2>7. \A i \in ifs' : Named(i)'
    BY <2>2, <2>4, <2>6, DeployNamed DEF ClearInv, Nodes
  <2>8. InContainer'
    <3>1. \A c \in Containers : pos'[c] > 0 => pos[c] > 0
      BY <1>0, <2>4, <2>5 DEF Nodes
    <3> QED BY <2>2, <3>1 DEF ClearInv, InContainer, At
  <2> QED BY <2>2, <2>7, <2>8, NotRemoving
<1>8. CASE DeployHostEndpoint
  <2>1. p.pc = "hostEps" /\ Active /\ UNCHANGED <<topo, cont>> /\ p'.pc = p.pc
    BY <1>8, HostFact
  <2>2. PICK o, k, r : HostStep(o, k, r)
    BY <1>8, HostFact
  <2>3. DeployStep(o, k, r) /\ objs[o].eps[k].node \in Singletons
    BY <2>2 DEF HostStep, Singletons
  <2>4. \A i \in ifs' : Named(i)'
    BY <2>1, <2>3, DeployNamed DEF ClearInv
  <2> QED BY <2>1, <2>4, NotRemoving DEF InContainer, At
<1>9. CASE \E i \in 1..Len(topo) : Stitch(i)
  <2>1. /\ UNCHANGED <<topo, ifs, cont>> /\ p.pc = "hostEps" /\ \E L, w : p' = [p EXCEPT !.left = L, !.warned = w]
    BY <1>9 DEF Stitch, Working, At
  <2>2. p'.pc = "hostEps"
    BY <1>0, <2>1 DEF Process
  <2>3. \A i \in ifs' : Named(i)'
    BY <2>1, FewerNamed DEF ClearInv
  <2> QED BY <2>2, <2>3, NotRemoving DEF InContainer, At
<1>10. CASE Exit \/ Kill
  <2>1. p'.pc = "idle"
    BY <1>10 DEF Exit, Kill, Forgotten, NoProcess
  <2>2. \A i \in ifs' : Named(i)'
    <3>1. CASE Exit
      BY <3>1, FewerNamed DEF ClearInv, Exit, Working, kernel
    <3> QED BY <1>10, <3>1, KillNamed
  <2> QED BY <2>1, <2>2, NotRemoving DEF InContainer, At
<1>11. CASE (\E i \in ifs : vxlanCreate(i)) \/ vxlanDelete \/ ParentChanges
  <2>1. p'.pc = "idle" /\ UNCHANGED <<topo, cont>>
    BY <1>11 DEF vxlanCreate, vxlanDelete, ParentChanges, At, kernel
  <2>2. \A i \in ifs' : Named(i)'
    <3>1. CASE vxlanDelete \/ ParentChanges
      <4>1. ifs' \subseteq ifs
        BY <3>1 DEF vxlanDelete, ParentChanges, kernel
      <4> QED BY <2>1, <4>1, FewerNamed DEF ClearInv
    <3>2. CASE \E i \in ifs : vxlanCreate(i)
      <4>1. PICK j \in ifs : vxlanCreate(j)
        BY <3>2
      <4> SUFFICES ASSUME NEW i \in ifs' PROVE Named(i)'
        OBVIOUS
      <4>2. CASE i \in ifs
        <5>1. Named(i)
          BY <4>2 DEF ClearInv
        <5> QED BY <2>1, <5>1, SameLinks DEF Named
      <4>3. CASE i \notin ifs
        <5>1. \E name : i = Iface(Root, name, <<run', 0, "vxlan">>)
          BY <4>1, <4>3 DEF vxlanCreate
        <5>2. i.ns = Root /\ i.dev[2] = 0
          BY <5>1 DEF Iface
        <5> QED BY <5>2 DEF Named
      <4> QED BY <4>2, <4>3
    <3> QED BY <1>11, <3>1, <3>2
  <2> QED BY <2>1, <2>2, NotRemoving DEF InContainer, At
<1>12. CASE UNCHANGED vars
  <2>1. UNCHANGED <<topo, ifs, cont, p, objs, lstate, pos>>
    BY <1>12 DEF vars, kernel
  <2>2. \A i \in ifs' : Named(i)'
    BY <2>1, FewerNamed DEF ClearInv
  <2>3. (Cleared' <=> Cleared) /\ (InContainer' <=> InContainer) /\ (Removing' <=> Removing)
        /\ (Ended({"destroy"}, "ok")' <=> Ended({"destroy"}, "ok"))
    BY <2>1 DEF Cleared, InContainer, Removing, Ended, At
  <2> QED BY <2>1, <2>2, <2>3 DEF ClearInv
<1> QED BY <1>1, <1>2, <1>3, <1>4, <1>5, <1>6, <1>7, <1>8, <1>9, <1>10, <1>11, <1>12 DEF Next

\* Before the first command the interfaces are those of the host.
LEMMA ClearedInit == AllPlaced /\ Init => ClearInv
<1> SUFFICES ASSUME AllPlaced, Init PROVE ClearInv
  OBVIOUS
<1>1. p.pc = "idle"
  BY DEF Init, NoProcess
<1>2. \A i \in ifs : Named(i)
  <2> SUFFICES ASSUME NEW i \in ifs PROVE i.dev[3] = "foreign"
    BY DEF Named
  <2>1. PICK n : i = Iface(Root, n, <<0, n, "foreign">>)
    BY DEF Init
  <2> QED BY <2>1 DEF Iface
<1> QED BY <1>1, <1>2 DEF ClearInv, InContainer, Removing, Ended, At

\* The invariant says what DestroyClearsHost promises.
LEMMA ClearedImplies ==
    ASSUME AllPlaced, BaseInv, ClearInv
    PROVE  DestroyClearsHost
<1> SUFFICES ASSUME Ended({"destroy"}, "ok"), p.deleted, p.filter = {}, ~p.warned,
                    NEW i \in ifs, i.dev[3] # "foreign", i.dev[2] # 0, ~BridgesOnly(Defs[i.dev[2]]),
                    NEW j \in ifs, j.dev = i.dev
             PROVE  j.ns = Root /\ j.name[1] = "clab-"
  BY DEF DestroyClearsHost
<1>1. Active /\ Types /\ Objects /\ Cleared /\ p.left = {} /\ cont \subseteq Containers
  BY DEF Active, ClearInv, Removing, BaseInv, Types
<1>2. OfLink(j) /\ (j.ns = Root \/ j.ns \in cont)
  BY DEF ClearInv, Named
<1>3. j.ns = Root
  <2>1. j.ns \in Containers => FALSE
    BY <1>1 DEF Cleared, Targets, Nodes
  <2> QED BY <1>1, <1>2, <2>1
<1>4. ASSUME j.name[1] # "clab-" PROVE FALSE
  <2>0. PICK x \in ToSet(Resolve(j.dev[2], Defs[j.dev[2]], {})) :
           \E k \in 1..Len(x.eps) : j.ns = NsOf(x.eps[k].node) /\ j.name = x.eps[k].name
    BY <1>2, <1>4 DEF OfLink
  <2>1. PICK k \in 1..Len(x.eps) : j.ns = NsOf(x.eps[k].node) /\ j.name = x.eps[k].name
    BY <2>0
  <2>2. topo \in Topologies /\ objs = Resolved({}) /\ j.dev[2] \in 1..Len(topo)
    BY <1>1, <1>2 DEF Types, Objects, OfLink
  <2>3. x \in ToSet(objs) /\ DOMAIN objs = 1..Len(objs)
    BY <2>1, <2>2, ResolvedFact
  <2>4. PICK o \in 1..Len(objs) : objs[o] = x
    BY <2>3 DEF ToSet
  <2>5. ObjectOf(x, x.link, Defs[x.link]) /\ x.link = j.dev[2]
    <3>1. ObjectOf(x, x.link, Defs[x.link])
      BY <1>1, <2>4, ObjectFact
    <3>2. Definition(Defs[j.dev[2]]) /\ Placed(Defs[j.dev[2]])
      BY <2>2, DefinitionFact
    <3>3. ObjectOf(x, j.dev[2], Defs[j.dev[2]])
      BY <2>1, <3>2, ResolveFact
    <3> QED BY <3>1, <3>3 DEF ObjectOf
  <2>6. PICK m \in 1..Len(x.eps) : x.eps[m].node \notin Bridges
    BY <2>5 DEF ObjectOf
  <2>7. lstate[o] = "removed"
    BY <1>1, <2>4, <2>6 DEF Cleared
  <2>8. ~Exists(ifs, NsOf(x.eps[k].node), x.eps[k].name)
    BY <1>1, <2>4, <2>7 DEF Cleared
  <2> QED BY <2>1, <2>8 DEF Exists
<1> QED BY <1>3, <1>4

\* A destroy of the whole lab that warned of nothing leaves no interface of a link under a
\* name of the lab, be the lab whole, partly deployed or left by a killed command.
THEOREM ClearedTheorem == ASSUME AllPlaced PROVE Spec => []DestroyClearsHost
<1>1. Init => BaseInv /\ ClearInv
  BY BaseInit, ClearedInit
<1>2. BaseInv /\ ClearInv /\ [Next]_vars => BaseInv' /\ ClearInv'
  BY BaseNext, ClearedNext
<1>3. BaseInv /\ ClearInv => DestroyClearsHost
  BY ClearedImplies
<1> QED BY <1>1, <1>2, <1>3, PTL DEF Spec
=============================================================================
