------------------------------ MODULE LabLinks ------------------------------
(* The links of one lab and the network namespace of the host they pass        *)
(* through: how a link of the topology file becomes link objects and endpoints *)
(* (links/*.go, Resolve), what is verified before a deployment (core/config.go *)
(* verifyLinks, verifyRootNetNSLinks), how node workers, and after them the    *)
(* deploy command itself, create the interfaces (Deploy, Stitch), and what     *)
(* destroy removes by name (Remove, GenericLinkNode.Delete).  One process runs *)
(* at a time; the nodes "host" and "mgmt-net" are singletons of the process    *)
(* and keep their endpoints from one command of the process to the next.       *)
(* The retries inside LinkVEth.Deploy are the subject of VethLink.             *)
EXTENDS Naturals, Sequences, FiniteSets, SequencesExt

CONSTANTS
  Containers,   \* nodes of the topology that are containers
  Bridges,      \* nodes of kind bridge: bridges of the host, not created here
  Topologies,   \* the link sections a run tries: sequences of link definitions
  Filters,      \* values of --node-filter a run tries, {} for none
  Commands,     \* the commands a run gives
  Foreign,      \* names of interfaces of the host that are not of the lab
  MaxCommands,  \* bound: commands given
  MaxFaults     \* bound: calls failing of themselves, kills, parent changes

ASSUME LabLinksAssumption ==
  /\ Commands \subseteq {"deploy", "reconfigure", "destroy", "destroyByName",
                         "redeploy", "vxlanCreate", "vxlanDelete"}
  /\ {MaxCommands, MaxFaults} \subseteq Nat
  /\ \A f \in Filters : f \subseteq Containers \cup Bridges
  /\ Containers \cap Bridges = {}
  /\ {"host", "mgmt-net", "macvlan", "root"} \cap (Containers \cup Bridges) = {}

\* A link has a type and as many ends as its type wants; the link section is a list.
ASSUME TopologyAssumption ==
  \A t \in Topologies :
    /\ t \in Seq(ToSet(t))
    /\ \A d \in ToSet(t) :
         /\ d.type \in {"brief", "veth", "host", "mgmt-net", "macvlan", "dummy", "vxlan",
                       "vxlan-stitch"}
         /\ d.eps \in Seq(ToSet(d.eps))
         /\ Len(d.eps) = IF d.type \in {"brief", "veth"} THEN 2 ELSE 1

\* The host has no interface with the name of the veth of a stitched link, which is not verified.
ASSUME ForeignAssumption == \A n \in Foreign : n[1] # "ve"

VARIABLES
  topo,      \* the links of the topology file
  ifs,       \* the interfaces in the kernel: namespace, name, device
  tc,        \* {<<device, device>>}: ingress of the one redirected to the other
  cont,      \* containers that exist
  parentUp,  \* the parent of macvlan links, and the route to the VTEP, exist
  run,       \* commands given so far
  faults,    \* what is left of MaxFaults
  p,         \* the process: command, program counter, filter, results
  special,   \* endpoints of the singletons, as <<round, object, end>>
  objs,      \* the link objects of the current ResolveLinks
  lstate,    \* DeploymentState of each of them
  pos,       \* per node: endpoints deployed, "new", "failed" or "deleted"
  scope,     \* history: --node-filter of the last deployment that was verified
  blind      \* history: a destroy resolved links that deployment had left out

kernel == <<ifs, tc, cont>>
history == <<scope, blind>>
vars == <<topo, kernel, parentUp, run, faults, p, special, objs, lstate, pos, history>>

Nodes == Containers \cup Bridges
Singletons == {"host", "mgmt-net"}
Root == "root"
NsOf(n) == IF n \in Containers THEN n ELSE Root

(***************************** topology file ********************************)
\* An endpoint of the file is a node and an interface.  Interface names are
\* tuples with a tag: <<"if", name>> as in the file, <<"vx", ..>> and <<"ve", ..>>
\* for the ends of a stitched link and <<"clab-", ..>> for a random name.
Name(i) == <<"if", i>>
VxName(e) == <<"vx", e.node, e.iface>>
VeName(e) == <<"ve", e.node, e.iface>>

\* Brief notation: the first endpoint on a special node decides the type.
ToTypeSpecificRawLink(d) ==
  LET linkType(x) == d.eps[x].node \in {"macvlan", "mgmt-net", "host"}
      x == IF linkType(1) THEN 1 ELSE 2
  IN  IF ~linkType(x) THEN [type |-> "veth", eps |-> d.eps, hostIf |-> ""]
      ELSE [type |-> d.eps[x].node, eps |-> <<d.eps[3 - x]>>,
            hostIf |-> d.eps[x].iface]

UnmarshalYAML(d) == IF d.type = "brief" THEN ToTypeSpecificRawLink(d) ELSE d
Defs == [i \in 1..Len(topo) |-> UnmarshalYAML(topo[i])]

(***************************** ResolveLinks *********************************)
Targets(f) == IF f = {} THEN Nodes ELSE f

isInFilter(f, eps) == f = {} \/ \A e \in ToSet(eps) : e.node \in f

\* An endpoint object; a nodeless one is deployed along with its peer.
NewEndpoint(node, name, nodeless) == [node |-> node, name |-> name, nodeless |-> nodeless]
EndpointRawResolve(e) == NewEndpoint(e.node, Name(e.iface), e.node = "host")

Object(i, kind, eps) == [link |-> i, kind |-> kind, eps |-> eps]

\* Resolve of the link types: the objects of link i.
ResolveVeth(i, d) ==
  <<Object(i, "veth", <<EndpointRawResolve(d.eps[1]), EndpointRawResolve(d.eps[2])>>)>>
ResolveHost(i, d) ==
  <<Object(i, "veth", <<EndpointRawResolve(d.eps[1]),
                        NewEndpoint("host", Name(d.hostIf), TRUE)>>)>>
ResolveMgmtNet(i, d) ==
  <<Object(i, "veth", <<NewEndpoint("mgmt-net", Name(d.hostIf), TRUE),
                        EndpointRawResolve(d.eps[1])>>)>>
ResolveMacVlan(i, d) == <<Object(i, "macvlan", <<EndpointRawResolve(d.eps[1])>>)>>
ResolveDummy(i, d) == <<Object(i, "dummy", <<EndpointRawResolve(d.eps[1])>>)>>
resolveVxlan(i, ep) == <<Object(i, "vxlan", <<ep>>)>>
resolveStitchedVEthComponent(i, d) ==
  <<Object(i, "veth", <<EndpointRawResolve(d.eps[1]),
                        NewEndpoint("host", VeName(d.eps[1]), TRUE)>>)>>
resolveStitchedVxlan(i, d) ==
  resolveVxlan(i, NewEndpoint("host", VxName(d.eps[1]), TRUE))
    \o resolveStitchedVEthComponent(i, d)

ResolveType(i, d) ==
  CASE d.type = "veth" -> ResolveVeth(i, d)
    [] d.type = "host" -> ResolveHost(i, d)
    [] d.type = "mgmt-net" -> ResolveMgmtNet(i, d)
    [] d.type = "macvlan" -> ResolveMacVlan(i, d)
    [] d.type = "dummy" -> ResolveDummy(i, d)
    [] d.type = "vxlan" -> resolveVxlan(i, EndpointRawResolve(d.eps[1]))
    [] d.type = "vxlan-stitch" -> resolveStitchedVxlan(i, d)

\* A vxlan link is resolved whatever the filter says.
Unfiltered(d) == d.type \in {"vxlan", "vxlan-stitch"}
Resolve(i, d, f) ==
  IF ~Unfiltered(d) /\ ~isInFilter(f, d.eps) THEN <<>> ELSE ResolveType(i, d)

\* Resolve returns an error: an unknown node, no macvlan parent, no route to the
\* remote of a vxlan.  For a stitched link outside the filter the nil link of its
\* veth is type-asserted: a panic, which ends the command like an error.
ResolveFails(d, f) ==
  /\ Unfiltered(d) \/ isInFilter(f, d.eps)
  /\ \/ \E e \in ToSet(d.eps) : e.node \notin Targets(f) \cup Singletons
     \/ d.type \in {"macvlan", "vxlan", "vxlan-stitch"} /\ ~parentUp

Resolved(f) == FlattenSeq([i \in 1..Len(Defs) |-> Resolve(i, Defs[i], f)])
ResolveError(f) == \E d \in ToSet(Defs) : ResolveFails(d, f)

\* <<object, end>> of the endpoints on a node, in the order AddEndpoint saw them.
EndsOn(os, n) ==
  LET end(o, k) == IF k <= Len(os[o].eps) /\ os[o].eps[k].node = n THEN <<<<o, k>>>> ELSE <<>>
  IN  FlattenSeq([o \in 1..Len(os) |-> end(o, 1) \o end(o, 2)])

EpNames(os, n) == [k \in 1..Len(EndsOn(os, n)) |->
                     os[EndsOn(os, n)[k][1]].eps[EndsOn(os, n)[k][2]].name]

\* AddEndpoint on the singletons, which already hold those of an earlier round.
AddedTo(s, r, os) ==
  [n \in Singletons |->
     s[n] \o [k \in 1..Len(EndsOn(os, n)) |->
                [round |-> r, end |-> EndsOn(os, n)[k], name |-> EpNames(os, n)[k]]]]

(******************************** kernel ************************************)
Dev(o) == <<run, objs[o].link, objs[o].kind>>
Iface(ns, name, dev) == [ns |-> ns, name |-> name, dev |-> dev]
RandName(o, k) == <<"clab-", run, o, k>>
Exists(S, ns, name) == \E i \in S : i.ns = ns /\ i.name = name
\* Deleting one end of a veth pair, or its namespace, deletes the pair.
Without(S, devs) == {i \in S : i.dev \notin devs}
DevsAt(S, ns, names) == {i.dev : i \in {j \in S : j.ns = ns /\ j.name \in names}}
DevsIn(S, ns) == {i.dev : i \in {j \in S : j.ns = ns}}
TcOf(S) == {r \in tc : \A k \in {1, 2} : \E i \in S : i.dev = r[k]}

(***************************** verification *********************************)
SpecialNames(n) == [k \in 1..Len(special[n]) |-> special[n][k].name]
NamesOf(n) == IF n \in Singletons THEN SpecialNames(n) ELSE EpNames(objs, n)

\* GetEndpoints of a stitched link returns the endpoints of its vxlan only.
VerifiedEps == UNION {ToSet(objs[o].eps) : o \in {x \in 1..Len(objs) :
                 ~(Defs[objs[x].link].type = "vxlan-stitch" /\ objs[x].kind = "veth")}}

CheckEndpointUniqueness(e) ==
  Cardinality({k \in 1..Len(NamesOf(e.node)) : NamesOf(e.node)[k] = e.name}) <= 1
CheckBridgeExists(b) == Exists(ifs, Root, Name(b))
CheckEndpointDoesNotExistYet(e) == ~Exists(ifs, NsOf(e.node), e.name)

\* Mutant: what exists in the root namespace is not looked up.
VerifyUniqueness(e) == CheckEndpointUniqueness(e)

\* Verify of EndpointHost and EndpointBridge; the others check uniqueness only.
VerifyHost(e) == CheckEndpointUniqueness(e) /\ CheckEndpointDoesNotExistYet(e)
VerifyBridge(e) ==
  /\ CheckEndpointUniqueness(e) /\ CheckEndpointDoesNotExistYet(e)
  /\ e.node \in Bridges => CheckBridgeExists(e.node)
Verify(e) ==
  CASE e.node = "host" -> VerifyHost(e)
    [] e.node \in Bridges \cup {"mgmt-net"} -> VerifyBridge(e)
    [] OTHER -> CheckEndpointUniqueness(e)

\* The host end of a macvlan is its parent interface.
VerifyMacVlan == parentUp

verifyLinks ==
  /\ \A e \in VerifiedEps : Verify(e)
  /\ \A o \in ToSet(objs) : o.kind = "macvlan" => VerifyMacVlan

\* No name twice among the endpoints of all nodes of the root namespace.
verifyRootNetNSLinks ==
  LET rootEps == UNION {{<<n, k>> : k \in 1..Len(NamesOf(n))} :
                          n \in (Bridges \cap Targets(p.filter)) \cup Singletons}
  IN  \A x, y \in rootEps : x # y => NamesOf(x[1])[x[2]] # NamesOf(y[1])[y[2]]

(******************************** Deploy ************************************)
Result(ok, S, st, cost) == [ok |-> ok, ifs |-> S, st |-> st, cost |-> cost]

\* The device moved to the node of end k and given the name of the end.
SetNameMACAndUpInterface(o, k) ==
  Iface(NsOf(objs[o].eps[k].node), objs[o].eps[k].name, Dev(o))
Free(S, e) == ~Exists(S, NsOf(e.node), e.name)

\* One attempt and no cleanup: LinkAdd, then the move, then the name.
AddSingle(S, o, k, st) ==
  {IF Free(S, objs[o].eps[k])
   THEN Result(TRUE, S \cup {SetNameMACAndUpInterface(o, k)}, st, 0)
   ELSE Result(FALSE, S \cup {Iface(NsOf(objs[o].eps[k].node), RandName(o, k), Dev(o))},
               lstate[o], 0),
   Result(FALSE, S \cup {Iface(Root, RandName(o, k), Dev(o))}, lstate[o], 1)}

DeployMacVlan(S, o, k) ==
  IF parentUp THEN AddSingle(S, o, k, lstate[o]) ELSE {Result(FALSE, S, lstate[o], 0)}

\* The kernel refuses a second vxlan device with the same VNI and port.
DeployVxlan(S, o, k) ==
  IF parentUp /\ ~\E i \in S : i.dev[3] = "vxlan" /\ i.dev[2] = objs[o].link
  THEN AddSingle(S, o, k, lstate[o]) ELSE {Result(FALSE, S, lstate[o], 0)}

DeployDummy(S, o, k) == AddSingle(S, o, k, "half")

\* LinkVEth.deployBEnd: the end waits in the root namespace under its random name.
deployBEnd(S, o, k, cost) ==
  LET waiting == Iface(Root, RandName(o, k), Dev(o))
  IN  IF waiting \notin S \/ ~Free(S, objs[o].eps[k])
      THEN {Result(FALSE, S, "half", cost)}
      ELSE {Result(TRUE, (S \ {waiting}) \cup {SetNameMACAndUpInterface(o, k)}, "full", cost),
            Result(FALSE, S, "half", cost + 1)}

\* LinkVEth.deployAEnd: a failure removes the pair again; a nodeless peer follows.
deployAEnd(S, o, k) ==
  LET S1 == S \cup {SetNameMACAndUpInterface(o, k), Iface(Root, RandName(o, 3 - k), Dev(o))}
  IN  {Result(FALSE, S, lstate[o], 1)} \cup
      (IF ~Free(S, objs[o].eps[k]) THEN {Result(FALSE, S, lstate[o], 0)}
       ELSE IF objs[o].eps[3 - k].nodeless THEN deployBEnd(S1, o, 3 - k, 0)
       ELSE {Result(TRUE, S1, "half", 0)})

\* Mutant: only a link that was never touched gets its A end deployed.
DeployVEthOnce(S, o, k) ==
  CASE lstate[o] = "half" -> deployBEnd(S, o, k, 0)
    [] lstate[o] = "none" -> deployAEnd(S, o, k)
    [] OTHER -> {Result(TRUE, S, lstate[o], 0)}

DeployVEth(S, o, k) ==
  CASE lstate[o] = "half" -> deployBEnd(S, o, k, 0)
    [] lstate[o] = "full" -> {Result(TRUE, S, lstate[o], 0)}
    [] OTHER -> deployAEnd(S, o, k)

\* Link.Deploy called by end k of object o: the results it can have.
Deploy(S, o, k) ==
  CASE objs[o].kind = "veth" -> DeployVEth(S, o, k)
    [] objs[o].kind = "macvlan" -> DeployMacVlan(S, o, k)
    [] objs[o].kind = "vxlan" -> DeployVxlan(S, o, k)
    [] objs[o].kind = "dummy" -> DeployDummy(S, o, k)

-----------------------------------------------------------------------------
NoProcess == [op |-> "none", pc |-> "idle", filter |-> {}, outcome |-> "none",
              warned |-> FALSE, deleted |-> FALSE, round |-> 0, left |-> {},
              failed |-> {}, hpos |-> 1]

NoEndpoints == [n \in Singletons |-> <<>>]

Init ==
  /\ topo \in Topologies
  /\ \E B \in SUBSET Bridges :
       ifs = {Iface(Root, n, <<0, n, "foreign">>) : n \in Foreign \cup {Name(b) : b \in B}}
  /\ tc = {} /\ cont = {} /\ parentUp = TRUE
  /\ run = 0 /\ faults = MaxFaults
  /\ p = NoProcess /\ special = NoEndpoints
  /\ objs = <<>> /\ lstate = <<>> /\ pos = [n \in Nodes |-> 0]
  /\ scope = {} /\ blind = FALSE

At(pc) == p.pc = pc
End(outcome) == p' = [p EXCEPT !.pc = "ended", !.outcome = outcome]
Working == <<topo, parentUp, run>>

\* A command starts a process; the singletons have no endpoints yet.
GiveCommand(op, f) ==
  /\ At("idle") /\ run < MaxCommands
  /\ p' = [NoProcess EXCEPT !.op = op, !.filter = f,
             !.pc = IF op \in {"destroy", "destroyByName", "redeploy"} THEN "destroy"
                    ELSE "resolve"]
  /\ run' = run + 1
  /\ UNCHANGED <<topo, kernel, parentUp, faults, special, objs, lstate, pos, history>>

\* ResolveLinks of a round: fresh link objects, singletons gain their endpoints.
ResolveLinks ==
  LET os == Resolved(p.filter)
  IN  /\ objs' = os
      /\ lstate' = [o \in 1..Len(os) |-> "none"]
      /\ special' = AddedTo(special, p.round + 1, os)

\* Every link that filter f takes is one that filter g takes.
Within(f, g) == g = {} \/ (f # {} /\ f \subseteq g)

\* destroy() goes on to deleteNodes only if one of the nodes has a container.
StartDeleting(q) ==
  /\ p' = [q EXCEPT !.pc = "delete", !.left = Targets(q.filter) \cup Singletons,
                    !.deleted = TRUE]
  /\ blind' = (blind \/ ~Within(q.filter, scope))
  /\ UNCHANGED scope

\* Destroy without container: nothing is resolved and nothing removed.
DestroyNothing ==
  /\ At("destroy") /\ cont \cap Targets(p.filter) = {}
  /\ IF p.op = "redeploy" THEN p' = [p EXCEPT !.pc = "resolve"] ELSE End("ok")
  /\ UNCHANGED <<Working, kernel, faults, special, objs, lstate, pos, history>>

\* makeCopyForDestroy with the topology file.
makeCopyForDestroy ==
  /\ At("destroy") /\ p.op # "destroyByName" /\ cont \cap Targets(p.filter) # {}
  /\ IF ResolveError(p.filter)
     THEN End("error") /\ UNCHANGED <<special, objs, lstate, history>>
     ELSE ResolveLinks /\ StartDeleting([p EXCEPT !.round = @ + 1])
  /\ UNCHANGED <<Working, kernel, faults, pos>>

\* Without the file there are no nodes and no links: containers are deleted.
deleteContainersDirect ==
  /\ At("destroy") /\ p.op = "destroyByName" /\ cont # {}
  /\ ifs' = Without(ifs, UNION {DevsIn(ifs, n) : n \in cont})
  /\ tc' = TcOf(ifs')
  /\ cont' = {}
  /\ End("ok")
  /\ UNCHANGED <<Working, faults, special, objs, lstate, pos, history>>

\* Link.Remove of the objects os: every end is deleted by its name, errors are
\* logged (the objects in bad), and the object counts as removed either way.
Touched(n) ==
  {x \in 1..Len(objs) : /\ lstate[x] # "removed"
                        /\ \E e \in ToSet(objs[x].eps) : e.node = n}
RemovedDevs(os, bad) ==
  UNION {UNION {DevsAt(ifs, NsOf(e.node), {e.name}) : e \in ToSet(objs[o].eps)} :
            o \in os \ bad}

\* Mutant: the singletons are not deleted, as GenericLinkNode once was not.
DeleteNodesOnly(n) ==
  IF n \in Bridges \cup Singletons THEN {} ELSE Touched(n)

\* The links Delete of a node removes: none for a bridge.
Delete(n) == IF n \in Bridges THEN {} ELSE Touched(n)

\* deleteNodes: a worker, or the command for a singleton, deletes node n.
deleteNodes(n) ==
  /\ At("delete") /\ n \in p.left
  /\ \E bad \in SUBSET Delete(n), gone \in BOOLEAN :
       LET cost == Cardinality(bad) + (IF gone THEN 0 ELSE 1)
           S == Without(ifs, RemovedDevs(Delete(n), bad))
       IN  /\ cost <= faults
           /\ gone \/ n \in cont
           /\ faults' = faults - cost
           /\ ifs' = IF gone /\ n \in Containers THEN Without(S, DevsIn(S, n)) ELSE S
           /\ tc' = TcOf(ifs')
           /\ cont' = IF gone THEN cont \ {n} ELSE cont
           /\ p' = [p EXCEPT !.left = @ \ {n}, !.warned = @ \/ cost > 0]
           /\ lstate' = [o \in DOMAIN lstate |->
                           IF o \in Delete(n) THEN "removed" ELSE lstate[o]]
  /\ UNCHANGED <<Working, special, objs, pos, history>>

Deleted ==
  /\ At("delete") /\ p.left = {}
  /\ CASE p.op = "destroy" -> End("ok")
       [] p.op = "redeploy" -> p' = [p EXCEPT !.pc = "resolve", !.warned = FALSE]
       [] p.op = "reconfigure" -> p' = [p EXCEPT !.pc = "verify", !.warned = FALSE]
  /\ UNCHANGED <<Working, kernel, faults, special, objs, lstate, pos, history>>

\* Deploy: ResolveLinks, and with --reconfigure destroy() on the same objects.
DeployResolve ==
  /\ At("resolve")
  /\ IF ResolveError(p.filter)
     THEN End("error") /\ UNCHANGED <<special, objs, lstate, history>>
     ELSE /\ ResolveLinks
          /\ IF p.op = "reconfigure" /\ cont \cap Targets(p.filter) # {}
             THEN StartDeleting([p EXCEPT !.round = @ + 1])
             ELSE p' = [p EXCEPT !.pc = "verify", !.round = @ + 1] /\ UNCHANGED history
  /\ UNCHANGED <<Working, kernel, faults, pos>>

\* A bridge node of the topology is a bridge of the host.
CheckDeploymentConditions(b) == Exists(ifs, Root, Name(b))

\* checkTopologyDefinition, with verifyContainersUniqueness: no container of the lab.
checkTopologyDefinition ==
  /\ At("verify")
  /\ IF /\ verifyLinks /\ verifyRootNetNSLinks
        /\ \A b \in Bridges \cap Targets(p.filter) : CheckDeploymentConditions(b)
        /\ cont = {}
     THEN p' = [p EXCEPT !.pc = "nodes"] /\ scope' = p.filter
     ELSE End("error") /\ UNCHANGED scope
  /\ UNCHANGED <<Working, kernel, faults, special, objs, lstate, pos, blind>>

\* The worker of a node creates its container (a bridge has none) ...
DeployNode(n) ==
  /\ At("nodes") /\ n \in Targets(p.filter) /\ pos[n] = 0
  /\ cont' = cont \cup ({n} \cap Containers)
  /\ pos' = [pos EXCEPT ![n] = 1]
  /\ UNCHANGED <<Working, ifs, tc, faults, p, special, objs, lstate, history>>

\* ... and then deploys its endpoints in their order, up to the first failure.
Pending(n) == /\ n \in Targets(p.filter) \ p.failed
              /\ pos[n] \in 1..Len(EndsOn(objs, n))
DeployEndpoints(n) ==
  /\ At("nodes") /\ Pending(n)
  /\ LET x == EndsOn(objs, n)[pos[n]]
     IN  \E r \in Deploy(ifs, x[1], x[2]) :
           /\ r.cost <= faults
           /\ faults' = faults - r.cost
           /\ ifs' = r.ifs
           /\ lstate' = [lstate EXCEPT ![x[1]] = r.st]
           /\ IF r.ok THEN pos' = [pos EXCEPT ![n] = @ + 1] /\ UNCHANGED p
              ELSE p' = [p EXCEPT !.failed = @ \cup {n}] /\ UNCHANGED pos
  /\ UNCHANGED <<Working, tc, cont, special, objs, history>>

\* nodesWg.Wait and the errors of the workers.
StitchedLinks == {i \in 1..Len(Defs) : /\ Defs[i].type = "vxlan-stitch"
                                       /\ \E o \in ToSet(objs) : o.link = i}
WorkersReturned ==
  /\ At("nodes")
  /\ \A n \in Targets(p.filter) : pos[n] > 0 /\ ~Pending(n)
  /\ IF p.failed # {} THEN End("error")
     ELSE p' = [p EXCEPT !.pc = "hostEps", !.left = StitchedLinks]
  /\ UNCHANGED <<Working, kernel, faults, special, objs, lstate, pos, history>>

\* Deploy on every endpoint of the host node; an error is only a warning.  The
\* verification leaves here only endpoints of this round.
DeployHostEndpoint ==
  /\ At("hostEps") /\ p.hpos <= Len(special["host"])
  /\ LET x == special["host"][p.hpos].end
     IN  \E r \in Deploy(ifs, x[1], x[2]) :
           /\ r.cost <= faults
           /\ faults' = faults - r.cost
           /\ ifs' = r.ifs
           /\ lstate' = [lstate EXCEPT ![x[1]] = r.st]
           /\ p' = [p EXCEPT !.hpos = @ + 1, !.warned = @ \/ ~r.ok]
  /\ UNCHANGED <<Working, tc, cont, special, objs, pos, history>>

\* stitch in both directions, the second only if the first succeeded.
DevAt(name) == CHOOSE d \in DevsAt(ifs, Root, {name}) : TRUE
Stitch(i) ==
  /\ At("hostEps") /\ p.hpos > Len(special["host"]) /\ i \in p.left
  /\ LET vx == VxName(Defs[i].eps[1])
         ve == VeName(Defs[i].eps[1])
         both == Exists(ifs, Root, vx) /\ Exists(ifs, Root, ve)
     IN  \E done \in 0..2 :
           /\ done > 0 => both
           /\ both /\ done < 2 => faults > 0
           /\ faults' = IF both /\ done < 2 THEN faults - 1 ELSE faults
           /\ tc' = tc \cup (IF done > 0 THEN {<<DevAt(vx), DevAt(ve)>>} ELSE {})
                       \cup (IF done > 1 THEN {<<DevAt(ve), DevAt(vx)>>} ELSE {})
           /\ p' = [p EXCEPT !.left = @ \ {i}, !.warned = @ \/ done < 2]
  /\ UNCHANGED <<Working, ifs, cont, special, objs, lstate, pos, history>>

DeployReturns ==
  /\ At("hostEps") /\ p.hpos > Len(special["host"]) /\ p.left = {}
  /\ End("ok")
  /\ UNCHANGED <<Working, kernel, faults, special, objs, lstate, pos, history>>

-----------------------------------------------------------------------------
(************************* tools vxlan, environment *************************)
Forgotten ==
  /\ p' = NoProcess /\ special' = NoEndpoints
  /\ objs' = <<>> /\ lstate' = <<>> /\ pos' = [n \in Nodes |-> 0]

Exit ==
  /\ At("ended") /\ Forgotten
  /\ UNCHANGED <<Working, kernel, faults, history>>

\* The process is killed, perhaps between LinkAdd and the move of a device.
Kill ==
  /\ p.pc \notin {"idle", "ended"} /\ faults > 0
  /\ faults' = faults - 1
  /\ \/ UNCHANGED ifs
     \/ \E n \in Nodes :
          /\ At("nodes") /\ Pending(n)
          /\ LET o == EndsOn(objs, n)[pos[n]][1]
             IN  /\ lstate[o] \in {"none", "removed"}
                 /\ ifs' = ifs \cup {Iface(Root, RandName(o, k), Dev(o)) :
                                       k \in 1..Len(objs[o].eps)}
  /\ Forgotten
  /\ UNCHANGED <<Working, tc, cont, history>>

\* vxlanCreate: a vxlan interface stitched to an interface of the host.
vxlanCreate(i) ==
  /\ At("idle") /\ "vxlanCreate" \in Commands /\ run < MaxCommands
  /\ i.ns = Root /\ i.dev[3] # "vxlan" /\ parentUp
  /\ run' = run + 1
  /\ LET dev == <<run', 0, "vxlan">>
         name == <<"vx-", i.name>>
     IN  IF Exists(ifs, Root, name)
         THEN ifs' = ifs \cup {Iface(Root, <<"clab-", run', 0, 1>>, dev)} /\ UNCHANGED tc
         ELSE /\ ifs' = ifs \cup {Iface(Root, name, dev)}
              /\ tc' = tc \cup {<<dev, i.dev>>, <<i.dev, dev>>}
  /\ UNCHANGED <<topo, cont, parentUp, faults, p, special, objs, lstate, pos, history>>

\* vxlanDelete: the vxlan interfaces of the host whose name starts with "vx-".
vxlanDelete ==
  /\ At("idle") /\ "vxlanDelete" \in Commands /\ run < MaxCommands
  /\ run' = run + 1
  /\ ifs' = {i \in ifs : ~(i.ns = Root /\ i.dev[3] = "vxlan" /\ i.name[1] \in {"vx", "vx-"})}
  /\ tc' = TcOf(ifs')
  /\ UNCHANGED <<topo, cont, parentUp, faults, p, special, objs, lstate, pos, history>>

\* The parent interface of the host goes away or comes back between commands.
ParentChanges ==
  /\ At("idle") /\ faults > 0
  /\ faults' = faults - 1 /\ parentUp' = ~parentUp
  /\ UNCHANGED <<topo, kernel, run, p, special, objs, lstate, pos, history>>

Next ==
  \/ \E op \in Commands \ {"vxlanCreate", "vxlanDelete"} :
       \E f \in IF op \in {"destroyByName", "redeploy"} THEN {{}} ELSE Filters : GiveCommand(op, f)
  \/ DestroyNothing \/ makeCopyForDestroy \/ deleteContainersDirect
  \/ \E n \in Nodes \cup Singletons : deleteNodes(n)
  \/ Deleted \/ DeployResolve \/ checkTopologyDefinition
  \/ \E n \in Nodes : DeployNode(n) \/ DeployEndpoints(n)
  \/ WorkersReturned \/ DeployHostEndpoint
  \/ \E i \in 1..Len(topo) : Stitch(i)
  \/ DeployReturns \/ Exit \/ Kill
  \/ \E i \in ifs : vxlanCreate(i)
  \/ vxlanDelete \/ ParentChanges

Spec == Init /\ [][Next]_vars

-----------------------------------------------------------------------------
(****************************** properties **********************************)
Attached(o) == \A k \in 1..Len(objs[o].eps) : SetNameMACAndUpInterface(o, k) \in ifs
Ended(op, outcome) == At("ended") /\ p.op \in op /\ p.outcome = outcome

\* A deployment that returns without error has attached every link it resolved,
\* both ends under their names, whatever the previous commands left behind; a
\* link with a host-side vxlan is complete and redirected in both directions
\* unless a warning was logged (core/deploy.go, the calls after nodesWg.Wait).
DeploymentIsWired ==
  Ended({"deploy", "reconfigure", "redeploy"}, "ok") =>
    /\ \A o \in 1..Len(objs) :
         \/ objs[o].kind = "vxlan" /\ objs[o].eps[1].node = "host" /\ p.warned
         \/ Attached(o)
    /\ p.warned \/ \A i \in StitchedLinks :
         \E v, w \in tc : /\ v = <<w[2], w[1]>>
                          /\ v[1] \in DevsAt(ifs, Root, {VxName(Defs[i].eps[1])})
                          /\ v[2] \in DevsAt(ifs, Root, {VeName(Defs[i].eps[1])})

\* Where the ends of a link may be: a link has an end on a node of the topology, the
\* management bridge is reached by a link of type mgmt-net only, a link with one
\* end and a stitched one are on a container, and a vxlan may be on the host.
Placed(d) ==
  CASE d.type = "veth" -> /\ \E e \in ToSet(d.eps) : e.node \notin Singletons
                          /\ \A e \in ToSet(d.eps) : e.node # "mgmt-net"
    [] d.type \in {"host", "mgmt-net"} -> d.eps[1].node \notin Singletons
    [] d.type = "vxlan" -> d.eps[1].node \notin Bridges \cup {"mgmt-net"}
    [] OTHER -> d.eps[1].node \notin Bridges \cup Singletons
AllPlaced == \A t \in Topologies : \A d \in ToSet(t) : Placed(UnmarshalYAML(d))

BridgesOnly(d) == d.type = "veth" /\ \A e \in ToSet(d.eps) : e.node \in Bridges

\* A destroy of the whole lab with its topology file, in which no removal failed,
\* leaves in the host's namespace no interface of the lab that ever got its name,
\* be the lab whole, partly deployed, or left by a killed command.  A link between
\* two bridges stays: Delete of a bridge removes nothing.
DestroyClearsHost ==
  Ended({"destroy"}, "ok") /\ p.deleted /\ p.filter = {} /\ ~p.warned =>
    \A i \in ifs : \/ i.dev[3] = "foreign"
                   \/ i.dev[2] = 0
                   \/ BridgesOnly(Defs[i.dev[2]])
                   \/ \A j \in ifs : j.dev = i.dev => j.ns = Root /\ j.name[1] = "clab-"

\* Interfaces are removed by name, so a name the host already used must never get
\* as far as being removed: the verification keeps every interface that is not the
\* lab's, as long as no destroy takes links that the verified deployment had left out.
HostInterfacesKept ==
  ~blind => \A n \in Foreign : Iface(Root, n, <<0, n, "foreign">>) \in ifs

\* docs/cmd/redeploy.md: redeploy "combines the destroy and deploy commands into a
\* single operation", so where nothing fails it succeeds as deploy would.
RedeployDeploys ==
  p.op = "redeploy" /\ At("ended") /\ faults = MaxFaults => p.outcome = "ok"
=============================================================================
