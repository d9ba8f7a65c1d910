----------------------------- MODULE MCLabLinks -----------------------------
(* LabLinks on topologies that have every kind of link between them.           *)
EXTENDS LabLinks

E(n, i) == [node |-> n, iface |-> i]
Brief(a, b) == [type |-> "brief", eps |-> <<a, b>>, hostIf |-> ""]
Typed(t, e) == [type |-> t, eps |-> <<e>>, hostIf |-> ""]

MCForeign == {<<"if", "taken">>}
MCFilters == {{}, {"n1"}}

MCTopologies == {
  \* a veth, a bridge port and a host link in brief notation
  <<Brief(E("n1", "e1"), E("n2", "e1")), Brief(E("br", "p1"), E("n1", "e2")),
    Brief(E("n2", "e2"), E("host", "h1"))>>,
  \* a stitched vxlan, a link between bridge and host, a port of the mgmt bridge
  <<Typed("vxlan-stitch", E("n1", "e1")), Brief(E("br", "p1"), E("host", "h1")),
    Brief(E("mgmt-net", "m1"), E("n2", "e1"))>>,
  \* links with one end, one of them on a node a filter leaves out
  <<Brief(E("n1", "e1"), E("macvlan", "parent")), Typed("dummy", E("n1", "e2")),
    Typed("vxlan", E("n2", "e1"))>>,
  \* a host link and a bridge port with a name the host uses, which a filter leaves out
  <<Brief(E("n1", "e1"), E("host", "h1")), Brief(E("n2", "e1"), E("host", "taken"))>>,
  <<Brief(E("n1", "e1"), E("host", "h1")), Brief(E("br", "taken"), E("n1", "e2"))>>,
  \* a name twice in the root namespace; an interface twice on a node
  <<Brief(E("br", "p1"), E("n1", "e1")), Brief(E("n2", "e1"), E("host", "p1"))>>,
  <<Brief(E("n1", "e1"), E("n2", "e1")), Typed("dummy", E("n1", "e1"))>>,
  \* two bridges
  <<Brief(E("br", "p1"), E("br", "p2")), Typed("dummy", E("n1", "e1"))>>}

MCRedeployTopologies == {<<Brief(E("n1", "e1"), E("host", "h1"))>>}

\* The theorems of LabLinksProofs are about topologies such as these.
ASSUME TopologiesArePlaced == AllPlaced
=============================================================================
