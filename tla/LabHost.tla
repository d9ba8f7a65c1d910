------------------------------- MODULE LabHost -------------------------------
(* The commands of containerlab that build and tear down whole labs, run by    *)
(* several processes against one host: deploy, deploy --reconfigure, destroy,  *)
(* destroy --cleanup, destroy --all, redeploy and the attach, detach and       *)
(* reattach of a tool container.  The host state is what the labs share or     *)
(* leave behind: containers, tool containers, the docker management network    *)
(* with its firewall rules, /etc/hosts, the ssh configuration files, the lab   *)
(* directories and the netns symlinks.  A process has a main goroutine and,    *)
(* after SIGINT during a deploy, the signal handler that destroys the lab      *)
(* (cmd/context.go) while the main goroutine is still running.                 *)
EXTENDS Naturals, Sequences, FiniteSets, Functions

CONSTANTS
  Labs,         \* lab names; all use the default management network "clab"
  Nodes,        \* the nodes of every lab's topology
  Procs,        \* slots for containerlab processes running at the same time
  Commands,     \* the commands a run gives (see Operations)
  Firewall,     \* "nftables" or "iptables": what NewFirewallClient returns
  MaxWorkers,   \* --max-workers of destroy, 0 for one worker per container
  MaxEvents,    \* bound: commands given, calls failing of themselves and SIGINTs
  OverlapCost,  \* bound: as how many of these a command counts beside another one
  MaxNetworks,  \* bound: docker networks ever created
  SharedDir,    \* TRUE: the topology files of all labs are in one directory
  SSHConfigDir  \* TRUE: the host has the directory /etc/ssh/ssh_config.d

Operations == {"deploy", "reconfigure", "destroy", "cleanup", "destroyAll",
               "cleanupAll", "redeploy", "attach", "detach", "reattach"}

ASSUME LabHostAssumption ==
  /\ IsFiniteSet(Labs) /\ "none" \notin Labs /\ IsFiniteSet(Nodes)
  /\ Commands \subseteq Operations
  /\ Firewall \in {"nftables", "iptables"}
  /\ {MaxWorkers, MaxEvents, OverlapCost, MaxNetworks} \subseteq Nat
  /\ {SharedDir, SSHConfigDir} \subseteq BOOLEAN

VARIABLES
  containers, \* {<<lab, node>>}: node containers, running or not
  running,    \* those of them that run and are attached to the network
  tools,      \* labs with a gotty/sshx container, attached to the network
  network,    \* bridge of the docker network "clab", 0 if there is none
  networks,   \* how many bridges were ever named
  rules,      \* {<<bridge, direction>>}: accept rules in DOCKER-USER
  hosts,      \* /etc/hosts as a sequence of lines
  ssh,        \* labs with a file in /etc/ssh/ssh_config.d
  dirs,       \* labs whose directory clab-<lab> exists
  netns,      \* {<<lab, node>>}: symlinks in /run/netns
  th,         \* the goroutines: main and signal handler of each process
  proc,       \* per process: context cancelled, handler timed out, CleanOnCancel
  budget,     \* what is left of MaxEvents
  deployed,   \* history: labs deployed with success and not touched since
  sound,      \* history: those of them whose deploy met no failing call
  clean,      \* history: no commands overlapped, none was interrupted, and no
              \* write to /etc/hosts was cut short
  leaked,     \* history: bridges whose rules could not be removed
  last        \* history: outcome of the command that returned last

host == <<containers, running, tools, network, networks, rules, hosts, ssh, dirs, netns>>
ghost == <<deployed, sound, clean, leaked, last>>
vars == <<host, th, proc, budget, ghost>>

(***************************** /etc/hosts ***********************************)
Line(part, lab) == [part |-> part, lab |-> lab]
UserLine == Line("user", "none")

\* The block appendHostsFileEntries writes for a lab.
HostsBlock(l) == <<Line("start", l), Line("entry", l), Line("end", l)>>

\* The file with a line of the user's and the blocks of labs in this order.
HostsFile(order) ==
  [i \in 1..(3 * Len(order) + 1) |->
     IF i = 1 THEN UserLine ELSE HostsBlock(order[(i + 1) \div 3])[((i + 1) % 3) + 1]]

\* The lines of DeleteEntriesFromHostsFile's output: everything outside the lab's
\* START..END; an END line is dropped and ends the skipping wherever it is.
skiplines(lines, l, i) ==
  \E s \in 1..i : /\ lines[s] = Line("start", l)
                  /\ \A k \in s..i : lines[k] # Line("end", l)
\* Mutant: the END line is not recognised as the end of the skipped part.
WithoutEntriesToEOF(lines, l) ==
  SubSeq(lines, 1, Cardinality({i \in 1..Len(lines) :
                      \A s \in 1..i : lines[s] # Line("start", l)}))
WithoutEntries(lines, l) ==
  LET kept == {i \in 1..Len(lines) :
                 /\ ~skiplines(lines, l, i)
                 /\ lines[i] # Line("end", l)}
  IN [j \in 1..Cardinality(kept) |->
        lines[CHOOSE i \in kept : Cardinality({k \in kept : k <= i}) = j]]
NoEndFound(lines, l) == lines # <<>> /\ skiplines(lines, l, Len(lines))

(***************************** goroutines ***********************************)
Threads == Procs \X {"main", "handler"}
NoThread == [pc |-> "idle", op |-> "none", lab |-> "none", in |-> "none",
             todo |-> {}, found |-> {}, bridge |-> 0, buf |-> <<>>,
             queue |-> {}, inflight |-> {}, workers |-> 0,
             err |-> FALSE, faulty |-> FALSE, sole |-> TRUE]

AllLabs(op) == op \in {"destroyAll", "cleanupAll"}
Cleanup(op) == op \in {"cleanup", "cleanupAll"}

Running(p) == th[<<p, "main">>].pc # "idle"
NodesOf(l) == {c \in containers : c[1] = l}
HasEndpoints == running # {} \/ tools # {}

\* The context a goroutine passes on is done: the root context for the main
\* goroutine, the 20 s timeout for the handler's destroy.
ctxDone(t) == IF t[2] = "main" THEN proc[t[1]].cancelled ELSE proc[t[1]].timedOut
\* A runtime call may fail: of itself, or because its context is done.
MayFail(t) == budget > 0 \/ ctxDone(t)
Fault(t) == budget' = IF ctxDone(t) THEN budget ELSE budget - 1
NoFault == UNCHANGED budget
\* A call that takes no context (files, sysctls, firewall) fails only of itself.
OwnFault == budget > 0 /\ budget' = budget - 1

At(t, pc) == th[t].pc = pc
Goto(t, pc) == th' = [th EXCEPT ![t].pc = pc]
Fail(t, pc) == th' = [th EXCEPT ![t].pc = pc, ![t].err = TRUE, ![t].faulty = TRUE]
\* An error that is only logged.
Logged(t, pc) == th' = [th EXCEPT ![t].pc = pc, ![t].faulty = TRUE]
\* An error of destroy counts, unless a reconfiguring deploy called it; a deploy
\* only logs its errors about /etc/hosts.
Counts(t) == th[t].in \notin {"deploy", "reconfigure"}

\* Where CreateNet's error leads: out of Deploy, or out of Destroy past its defer.
AfterNetError(t) == IF th[t].in = "deploy" THEN "return" ELSE "labdirs"

\* The labs a running command may touch.
Targets(t) == IF AllLabs(th[t].op) THEN Labs ELSE {th[t].lab}
Targeted(l) == \E t \in Threads : th[t].pc # "idle" /\ l \in Targets(t)

(******************** starting and ending a command *************************)
\* Any set of labs may have been deployed before.
Init ==
  /\ deployed \in SUBSET Labs
  /\ containers = deployed \X Nodes /\ running = containers
  /\ netns = containers /\ tools = {}
  /\ networks = (IF deployed = {} THEN 0 ELSE 1) /\ network = networks
  /\ rules = {r \in {<<1, "in">>, <<1, "out">>} : deployed # {}}
  /\ ssh = {l \in deployed : SSHConfigDir} /\ dirs = deployed
  /\ \E order \in Bijection(1..Cardinality(deployed), deployed) : hosts = HostsFile(order)
  /\ th = [t \in Threads |-> NoThread]
  /\ proc = [p \in Procs |->
               [cancelled |-> FALSE, timedOut |-> FALSE, CleanOnCancel |-> FALSE]]
  /\ budget = MaxEvents
  /\ sound = deployed /\ clean = TRUE /\ leaked = {}
  /\ last = [op |-> "none", lab |-> "none", ok |-> FALSE, found |-> {}, exact |-> FALSE]

\* The user gives a command, for a lab or with --all for none.
Command(p, op, l) ==
  LET others == {q \in Procs \ {p} : Running(q)}
      meets(t) == AllLabs(op) \/ l \in Targets(t)
      cost == IF others = {} THEN 1 ELSE OverlapCost
  IN
  /\ ~Running(p) /\ budget >= cost
  /\ p = CHOOSE q \in Procs : ~Running(q)
  /\ th' = [t \in Threads |->
              IF t = <<p, "main">>
              THEN [NoThread EXCEPT !.pc = "new", !.op = op, !.lab = l,
                                    !.in = IF op = "redeploy" THEN "destroy" ELSE op,
                                    !.sole = \A q \in others : ~meets(<<q, "main">>)]
              ELSE IF th[t].pc = "idle" THEN th[t]
              ELSE [th[t] EXCEPT !.sole = @ /\ ~meets(t)]]
  /\ proc' = [proc EXCEPT ![p] = [cancelled |-> FALSE, timedOut |-> FALSE,
                 CleanOnCancel |-> op \in {"deploy", "reconfigure"}]]
  /\ budget' = budget - cost
  /\ deployed' = IF AllLabs(op) THEN {} ELSE deployed \ {l}
  /\ sound' = IF AllLabs(op) THEN {} ELSE sound \ {l}
  /\ clean' = (clean /\ others = {})
  /\ last' = [last EXCEPT !.op = "none"]
  /\ UNCHANGED <<host, leaked>>

\* The process ends: os.Exit takes the other goroutine with it.
Exit(p) == th' = [t \in Threads |-> IF t[1] = p THEN NoThread ELSE th[t]]

\* The command returns: from the main goroutine it ends the process (main.go), in
\* the handler os.Exit(1) follows.  redeploy goes on with its deploy.
Return(t) ==
  LET r == th[t]
      ok == ~r.err
      p == t[1]
      up == r.in = "deploy" /\ ok /\ r.sole /\ ~proc[p].cancelled
  IN /\ At(t, "return")
     /\ IF r.op = "redeploy" /\ r.in = "destroy" /\ ok /\ t[2] = "main"
        THEN /\ th' = [th EXCEPT ![t].pc = "new", ![t].in = "deploy"]
             /\ proc' = [proc EXCEPT ![p].CleanOnCancel = TRUE]
             /\ UNCHANGED ghost
        ELSE /\ Exit(p)
             /\ deployed' = IF up THEN deployed \cup {r.lab} ELSE deployed
             /\ sound' = IF up /\ ~r.faulty THEN sound \cup {r.lab} ELSE sound
             /\ last' = [op |-> r.op, lab |-> r.lab, ok |-> ok, found |-> r.found,
                         exact |-> ~r.faulty]
             /\ UNCHANGED <<proc, clean, leaked>>
     /\ UNCHANGED <<host, budget>>

\* SIGINT or SIGTERM: the context is cancelled; without CleanOnCancel the process
\* exits at once, otherwise the handler destroys the lab with a context of its own.
SignalHandledContext(p) ==
  LET main == <<p, "main">> IN
  /\ Running(p) /\ ~proc[p].cancelled /\ budget > 0
  /\ budget' = budget - 1
  /\ clean' = FALSE
  /\ IF proc[p].CleanOnCancel
     THEN /\ proc' = [proc EXCEPT ![p].cancelled = TRUE]
          /\ th' = [th EXCEPT ![<<p, "handler">>] =
                      [NoThread EXCEPT !.pc = "new", !.op = "destroy", !.in = "destroy",
                                       !.lab = th[main].lab]]
     ELSE Exit(p) /\ UNCHANGED proc
  /\ UNCHANGED <<host, deployed, sound, leaked, last>>

\* maxCancelledDestroyTimeout passes while the handler is still destroying.
destroyTimeout(p) ==
  /\ th[<<p, "handler">>].pc # "idle" /\ ~proc[p].timedOut
  /\ proc' = [proc EXCEPT ![p].timedOut = TRUE]
  /\ UNCHANGED <<host, th, budget, ghost>>

\* NewContainerLab: a topology or option error ends the command; otherwise
\* WithMgmtNet learns the bridge of the network if it exists.
NewContainerLab(t) ==
  /\ At(t, "new")
  /\ \/ /\ th' = [th EXCEPT ![t].bridge = network,
                    ![t].pc = CASE th[t].in = "deploy" -> "inspect"
                                [] th[t].in = "reconfigure" -> "dlist"
                                [] th[t].in = "attach" -> "tlist"
                                [] th[t].in \in {"detach", "reattach"} -> "tdelete"
                                [] OTHER -> "list"]
        /\ NoFault
     \/ MayFail(t) /\ Fault(t) /\ Fail(t, "return")
  /\ UNCHANGED <<host, proc, ghost>>

(************************ the management network ****************************)
\* CreateNet, first call: the network is reused if it exists.  A bridge learnt
\* earlier is kept even if the network now has another one.
CreateNet(t) ==
  /\ At(t, "inspect")
  /\ \/ /\ th' = [th EXCEPT ![t].pc = IF network = 0 THEN "netcreate" ELSE "netrules",
                    ![t].bridge = IF @ = 0 THEN network ELSE @]
        /\ NoFault
     \/ MayFail(t) /\ Fault(t) /\ Fail(t, AfterNetError(t))
  /\ UNCHANGED <<host, proc, ghost>>

\* createMgmtBridge: docker refuses a second network of the name; the bridge is
\* the one learnt earlier or br-<id of the new network>.
createMgmtBridge(t) ==
  LET r == th[t]
      bridge == IF r.bridge # 0 THEN r.bridge ELSE networks + 1
  IN /\ At(t, "netcreate")
     /\ NoFault
     /\ IF network # 0
        THEN Fail(t, AfterNetError(t)) /\ UNCHANGED <<network, networks>>
        ELSE /\ bridge <= MaxNetworks
             /\ network' = bridge
             /\ networks' = IF bridge > networks THEN bridge ELSE networks
             /\ th' = [th EXCEPT ![t].pc = "netnew", ![t].bridge = bridge]
     /\ UNCHANGED <<containers, running, tools, rules, hosts, ssh, dirs, netns, proc, ghost>>

\* InstallForwardingRules of both clients: a rule that exists is not added twice.
InstallForwardingRules(bridge) == rules \cup {<<bridge, "out">>, <<bridge, "in">>}

\* getMgmtBridgeIPs reads the bridge; if that is gone it takes the gateways of the
\* network inspected before, which a network just created does not have.
\* postCreateNetActions then ends with the error of a sysctl (as does the caller
\* with that of the calls that follow); an error of installMgmtNetworkFwdRule is
\* only warned about and may come before either rule is installed.
postCreateNetActions(t) ==
  LET bridge == th[t].bridge
      onward == IF th[t].in = "deploy" THEN "check" ELSE "dlist"
  IN /\ th[t].pc \in {"netnew", "netrules"}
     /\ \/ /\ NoFault /\ (network # 0 \/ At(t, "netrules"))
           /\ rules' = InstallForwardingRules(bridge)
           /\ Goto(t, onward)
        \/ NoFault /\ network = 0 /\ UNCHANGED rules /\ Fail(t, AfterNetError(t))
        \/ /\ OwnFault
           /\ rules' \in {rules, InstallForwardingRules(bridge)}
           /\ Fail(t, AfterNetError(t))
        \/ /\ OwnFault
           /\ rules' \in {rules, rules \cup {<<bridge, "out">>}}
           /\ Logged(t, onward)
     /\ UNCHANGED <<containers, running, tools, network, networks, hosts, ssh, dirs, netns,
                    proc, ghost>>

\* DeleteNet, first call: skipped while endpoints are attached; the reconfiguring
\* deploy keeps the network.
DeleteNet(t) ==
  /\ At(t, "dnet")
  /\ \/ /\ NoFault
        /\ Goto(t, IF th[t].in = "reconfigure" \/ network = 0 \/ HasEndpoints
                   THEN "next" ELSE "dnetrm")
     \/ th[t].in # "reconfigure" /\ MayFail(t) /\ Fault(t) /\ Logged(t, "next")
  /\ UNCHANGED <<host, proc, ghost>>

\* NetworkRemove: docker refuses while a container is attached.  The error is
\* only logged.
NetworkRemove(t) ==
  /\ At(t, "dnetrm")
  /\ \/ NoFault /\ (network = 0 \/ HasEndpoints) /\ Goto(t, "next") /\ UNCHANGED network
     \/ NoFault /\ network # 0 /\ ~HasEndpoints /\ network' = 0 /\ Goto(t, "dnetrules")
     \/ MayFail(t) /\ Fault(t) /\ Logged(t, "next") /\ UNCHANGED network
  /\ UNCHANGED <<containers, running, tools, networks, rules, hosts, ssh, dirs, netns,
                 proc, ghost>>

\* Mutant: only the rule of the direction asked for is matched.
DeleteForwardingRulesOneWay(bridge) == rules \ {<<bridge, "out">>}
\* The nftables client deletes every containerlab rule of the interface, whatever
\* the direction asked for.
DeleteForwardingRulesNft(bridge) == {r \in rules : r[1] # bridge}
\* The iptables client deletes the rule of the direction asked for.
DeleteForwardingRulesIpt(bridge, direction) == rules \ {<<bridge, direction>>}

\* deleteMgmtNetworkFwdRule asks twice for the "out" rule; neither client deletes
\* a rule of a bridge that exists (again).  Its error is only warned about, and the
\* rules it did not get to stay, though the network is gone.
deleteMgmtNetworkFwdRule(t) ==
  LET bridge == th[t].bridge IN
  /\ At(t, "dnetrules")
  /\ \/ /\ NoFault /\ UNCHANGED leaked
        /\ rules' = IF network = bridge THEN rules
                    ELSE IF Firewall = "nftables" THEN DeleteForwardingRulesNft(bridge)
                    ELSE DeleteForwardingRulesIpt(bridge, "out")
        /\ Goto(t, "next")
     \/ /\ OwnFault /\ leaked' = leaked \cup {bridge}
        /\ \E kept \in SUBSET {<<bridge, "in">>, <<bridge, "out">>} :
             rules' = {r \in rules : r[1] = bridge => r \in kept}
        /\ Logged(t, "next")
  /\ UNCHANGED <<containers, running, tools, network, networks, hosts, ssh, dirs, netns,
                 proc, deployed, sound, clean, last>>

(******************************** deploy ************************************)
\* verifyContainersUniqueness: a container with a node's name or with the lab's
\* label makes the deploy fail.
verifyContainersUniqueness(l) == NodesOf(l) = {} /\ l \notin tools

\* checkTopologyDefinition, then the lab directory with the empty inventory and
\* export files, the CA and the authorized keys.
prepareLab(t) ==
  LET l == th[t].lab IN
  /\ At(t, "check")
  /\ \/ /\ NoFault /\ verifyContainersUniqueness(l)
        /\ dirs' = dirs \cup {l}
        /\ th' = [th EXCEPT ![t].pc = "nodes", ![t].queue = Nodes]
     \/ /\ NoFault /\ ~verifyContainersUniqueness(l)
        /\ Fail(t, "return") /\ UNCHANGED dirs
     \/ MayFail(t) /\ Fault(t) /\ Fail(t, "return") /\ dirs' \in {dirs, dirs \cup {l}}
  /\ UNCHANGED <<containers, running, tools, network, networks, rules, hosts, ssh, netns,
                 proc, ghost>>

\* createNodes: the node workers create the containers in any order; a node that
\* fails is reported and the others go on.  Docker refuses a second container of
\* the name, and may see here already that the network is gone.
createNode(t, n) ==
  LET c == <<th[t].lab, n>>
      failed == [th EXCEPT ![t].queue = @ \ {n}, ![t].err = TRUE, ![t].faulty = TRUE]
  IN
  /\ At(t, "nodes") /\ n \in th[t].queue
  /\ \/ /\ NoFault /\ c \notin containers
        /\ th' = [th EXCEPT ![t].queue = @ \ {n}, ![t].inflight = @ \cup {n}]
        /\ containers' = containers \cup {c}
     \/ /\ NoFault /\ (network = 0 \/ c \in containers)
        /\ th' = failed /\ UNCHANGED containers
     \/ MayFail(t) /\ Fault(t) /\ th' = failed /\ UNCHANGED containers
  /\ UNCHANGED <<running, tools, network, networks, rules, hosts, ssh, dirs, netns,
                 proc, ghost>>

\* StartContainer of a container created before, postStartActions with the netns
\* symlink, then the node's links.  A failure leaves behind what was done so far.
StartContainer(t, n) ==
  LET c == <<th[t].lab, n>>
      failed == [th EXCEPT ![t].inflight = @ \ {n}, ![t].err = TRUE, ![t].faulty = TRUE]
  IN
  /\ At(t, "nodes") /\ n \in th[t].inflight
  /\ \/ /\ NoFault /\ network # 0
        /\ th' = [th EXCEPT ![t].inflight = @ \ {n}]
        /\ running' = running \cup {c} /\ netns' = netns \cup {c}
     \/ NoFault /\ network = 0 /\ th' = failed /\ UNCHANGED <<running, netns>>
     \/ /\ MayFail(t) /\ Fault(t) /\ th' = failed
        /\ \/ UNCHANGED <<running, netns>>
           \/ /\ network # 0
              /\ running' = running \cup {c} /\ netns' \in {netns, netns \cup {c}}
  /\ UNCHANGED <<containers, tools, network, networks, rules, hosts, ssh, dirs,
                 proc, ghost>>

\* All node workers have ended; with a failed node the deploy returns its error,
\* else the inventories and exports are written and the containers are listed: a
\* missing one is an error.
nodesDone(t) ==
  /\ At(t, "nodes") /\ th[t].queue = {} /\ th[t].inflight = {}
  /\ \/ /\ NoFault
        /\ IF th[t].err \/ \E n \in Nodes : <<th[t].lab, n>> \notin containers
           THEN Fail(t, "return") ELSE Goto(t, "hread")
     \/ ~th[t].err /\ MayFail(t) /\ Fault(t) /\ Fail(t, "return")
  /\ UNCHANGED <<host, proc, ghost>>

\* appendHostsFileEntries after its DeleteEntriesFromHostsFile: the entries of the
\* nodes, then O_APPEND of the block.  The deploy only logs an error: that of a node
\* or of opening the file leaves no block, a write cut short leaves part of one.
appendHostsFileEntries(t) ==
  LET block == HostsBlock(th[t].lab) IN
  /\ At(t, "happend")
  /\ \/ /\ NoFault /\ UNCHANGED clean
        /\ hosts' = hosts \o block /\ Goto(t, "addssh")
     \/ MayFail(t) /\ Fault(t) /\ UNCHANGED <<hosts, clean>> /\ Logged(t, "addssh")
     \/ /\ OwnFault /\ clean' = FALSE
        /\ \E k \in 1..2 : hosts' = hosts \o SubSeq(block, 1, k)
        /\ Logged(t, "addssh")
  /\ UNCHANGED <<containers, running, tools, network, networks, rules, ssh, dirs, netns,
                 proc, deployed, sound, leaked, last>>

\* addSSHConfig writes the lab's file if the directory is there; the deploy only
\* logs its error.
addSSHConfig(t) ==
  LET written == ssh \cup {th[t].lab} IN
  /\ At(t, "addssh")
  /\ \/ NoFault /\ ssh' = (IF SSHConfigDir THEN written ELSE ssh) /\ Goto(t, "return")
     \/ SSHConfigDir /\ OwnFault /\ ssh' \in {ssh, written} /\ Logged(t, "return")
  /\ UNCHANGED <<containers, running, tools, network, networks, rules, hosts, dirs, netns,
                 proc, ghost>>

(******************************** destroy ***********************************)
\* Destroy lists the containers: by the topology's nodes, or with --all every
\* container, tool containers included.  The labs found are the keys of topos.  An
\* error ends destroy --all; ListNodesContainersIgnoreNotFound takes every error
\* for a container that is not there.
Destroy(t) ==
  LET r == th[t]
      found == IF AllLabs(r.op)
               THEN {l \in Labs : NodesOf(l) # {} \/ l \in tools}
               ELSE {l \in {r.lab} : NodesOf(l) # {}}
      listed(f, bad) == [th EXCEPT ![t].found = f, ![t].todo = f, ![t].faulty = bad,
                           ![t].pc = IF f = {} THEN "labdirs"
                                     ELSE IF AllLabs(r.op) THEN "prompt" ELSE "next"]
  IN /\ At(t, "list")
     /\ \/ NoFault /\ th' = listed(found, r.faulty)
        \/ AllLabs(r.op) /\ MayFail(t) /\ Fault(t) /\ Fail(t, "return")
        \/ /\ ~AllLabs(r.op) /\ MayFail(t) /\ Fault(t)
           /\ \E f \in SUBSET found : th' = listed(f, TRUE)
     /\ UNCHANGED <<host, proc, ghost>>

\* cliPromptToDestroyAll: "y", or anything else aborts with an error.
cliPromptToDestroyAll(t, yes) ==
  /\ At(t, "prompt")
  /\ IF yes THEN Goto(t, "next")
     ELSE Fail(t, "labdirs")
  /\ UNCHANGED <<host, proc, budget, ghost>>

\* The loop over topos, in any order; each lab gets a fresh CLab
\* (makeCopyForDestroy: NewContainerLab, then CreateNetwork).
makeCopyForDestroy(t) ==
  /\ At(t, "next")
  /\ \/ /\ th[t].in = "reconfigure" /\ Goto(t, "rmdir") /\ NoFault
     \/ /\ th[t].in # "reconfigure" /\ th[t].todo = {}
        /\ Goto(t, "labdirs") /\ NoFault
     \/ /\ th[t].in # "reconfigure"
        /\ \E l \in th[t].todo :
             th' = [th EXCEPT ![t].pc = "inspect", ![t].lab = l,
                              ![t].todo = @ \ {l}, ![t].bridge = network]
        /\ NoFault
     \/ /\ th[t].in # "reconfigure" /\ th[t].todo # {}
        /\ MayFail(t) /\ Fault(t) /\ Fail(t, "labdirs")
  /\ UNCHANGED <<host, proc, ghost>>

\* destroy lists the lab's node containers again: none, and nothing is done.  An
\* error of the listing makes containers go unseen.
destroy(t) ==
  LET r == th[t]
      listed(seen, bad) ==
        IF seen = {} THEN [th EXCEPT ![t].pc = "next", ![t].faulty = bad]
        ELSE [th EXCEPT ![t].pc = "delete", ![t].queue = Nodes, ![t].faulty = bad,
                ![t].workers = IF r.in = "reconfigure" THEN Cardinality(Nodes)
                               ELSE IF MaxWorkers = 0 THEN Cardinality(seen)
                               ELSE MaxWorkers]
  IN /\ At(t, "dlist")
     /\ \/ NoFault /\ th' = listed(NodesOf(r.lab), r.faulty)
        \/ /\ MayFail(t) /\ Fault(t)
           /\ \E seen \in SUBSET NodesOf(r.lab) : th' = listed(seen, TRUE)
     /\ UNCHANGED <<host, proc, ghost>>

\* deleteNodes: the sender hands a node to an idle worker over the unbuffered
\* channel; it does not watch the context.
deleteNodes(t) ==
  /\ At(t, "delete")
  /\ Cardinality(th[t].inflight) < th[t].workers
  /\ \E n \in th[t].queue :
       th' = [th EXCEPT ![t].queue = @ \ {n}, ![t].inflight = @ \cup {n}]
  /\ UNCHANGED <<host, proc, budget, ghost>>

\* The goroutine t after container c was removed: a start that t still has to do
\* will not find the id.
WithoutContainer(t, c) ==
  IF th[t].pc = "nodes" /\ th[t].lab = c[1] /\ c[2] \in th[t].inflight
  THEN [th[t] EXCEPT !.inflight = @ \ {c[2]}, !.err = TRUE, !.faulty = TRUE]
  ELSE th[t]

\* A worker's n.Delete; its error is only logged.
workerDeletes(t, n) ==
  LET c == <<th[t].lab, n>> IN
  /\ At(t, "delete") /\ n \in th[t].inflight
  /\ \/ /\ NoFault
        /\ containers' = containers \ {c} /\ running' = running \ {c}
        /\ th' = [u \in Threads |->
                    IF u = t THEN [th[t] EXCEPT !.inflight = @ \ {n}]
                    ELSE WithoutContainer(u, c)]
     \/ /\ MayFail(t) /\ Fault(t)
        /\ th' = [th EXCEPT ![t].inflight = @ \ {n}, ![t].faulty = TRUE]
        /\ UNCHANGED <<containers, running>>
  /\ UNCHANGED <<tools, network, networks, rules, hosts, ssh, dirs, netns, proc, ghost>>

\* Mutant: the channel is never closed.
channelLeftOpen(t) == FALSE
\* An idle worker returns: the channel is closed, or the context is done.
channelClosed(t) == th[t].queue = {}
workerReturns(t) ==
  /\ At(t, "delete")
  /\ Cardinality(th[t].inflight) < th[t].workers
  /\ channelClosed(t) \/ ctxDone(t)
  /\ th' = [th EXCEPT ![t].workers = @ - 1]
  /\ UNCHANGED <<host, proc, budget, ghost>>

\* wg.Wait, then deleteToolContainers: its errors are only logged.
deleteToolContainers(t) ==
  /\ At(t, "delete") /\ th[t].queue = {} /\ th[t].workers = 0
  /\ \/ tools' = tools \ {th[t].lab} /\ Goto(t, "hread") /\ NoFault
     \/ MayFail(t) /\ Fault(t) /\ UNCHANGED tools /\ Logged(t, "hread")
  /\ UNCHANGED <<containers, running, network, networks, rules, hosts, ssh, dirs, netns,
                 proc, ghost>>

\* An error of DeleteEntriesFromHostsFile: the deploy goes on without the block,
\* the destroy of the lab ends with it.
HostsError(t) ==
  th' = [th EXCEPT ![t].faulty = TRUE, ![t].err = @ \/ Counts(t), ![t].buf = <<>>,
                   ![t].pc = IF th[t].in = "deploy" THEN "addssh" ELSE "next"]

\* DeleteEntriesFromHostsFile reads the whole file; an unfinished block makes it
\* refuse.
DeleteEntriesFromHostsFile(t) ==
  LET l == th[t].lab IN
  /\ At(t, "hread")
  /\ \/ NoFault /\ NoEndFound(hosts, l) /\ HostsError(t)
     \/ /\ NoFault /\ ~NoEndFound(hosts, l)
        /\ th' = [th EXCEPT ![t].pc = "htrunc", ![t].buf = WithoutEntries(hosts, l)]
     \/ OwnFault /\ HostsError(t)
  /\ UNCHANGED <<host, proc, ghost>>

\* ... then truncates it ...
truncateHosts(t) ==
  /\ At(t, "htrunc")
  /\ \/ NoFault /\ hosts' = <<>> /\ Goto(t, "hwrite")
     \/ OwnFault /\ UNCHANGED hosts /\ HostsError(t)
  /\ UNCHANGED <<containers, running, tools, network, networks, rules, ssh, dirs, netns,
                 proc, ghost>>

\* ... and writes n of the lines it kept from offset 0: all, or a write cut short.
writeHosts(t) ==
  LET buf == th[t].buf
      write(n) == hosts' = SubSeq(buf, 1, n) \o SubSeq(hosts, n + 1, Len(hosts))
  IN
  /\ At(t, "hwrite")
  /\ \/ /\ NoFault /\ UNCHANGED clean /\ write(Len(buf))
        /\ th' = [th EXCEPT ![t].buf = <<>>,
                            ![t].pc = IF th[t].in = "deploy" THEN "happend" ELSE "rmfiles"]
     \/ /\ OwnFault /\ clean' = FALSE
        /\ \E n \in 0..(Len(buf) - 1) : write(n)
        /\ HostsError(t)
  /\ UNCHANGED <<containers, running, tools, network, networks, rules, ssh, dirs, netns,
                 proc, deployed, sound, leaked, last>>

RemoveSSHConfig(l) == ssh \ {l}
\* Mutant: the symlinks are matched by the node's short name.
DeleteNetnsSymlinksByNode(l) == {c \in netns : <<l, c[2]>> \notin netns}
DeleteNetnsSymlinks(l) == {c \in netns : c[1] # l}

\* The files of the lab outside its directory.  A failing removal of the ssh file is
\* only logged; one of a symlink ends destroy before the rest.
removeLabFiles(t) ==
  LET l == th[t].lab IN
  /\ At(t, "rmfiles")
  /\ \/ /\ NoFault /\ Goto(t, "dnet")
        /\ ssh' = RemoveSSHConfig(l) /\ netns' = DeleteNetnsSymlinks(l)
     \/ /\ OwnFault /\ Logged(t, "dnet")
        /\ UNCHANGED ssh /\ netns' = DeleteNetnsSymlinks(l)
     \/ /\ OwnFault
        /\ th' = [th EXCEPT ![t].pc = "next", ![t].faulty = TRUE, ![t].err = @ \/ Counts(t)]
        /\ ssh' = RemoveSSHConfig(l)
        /\ \E kept \in SUBSET netns : netns' = DeleteNetnsSymlinks(l) \cup kept
  /\ UNCHANGED <<containers, running, tools, network, networks, rules, hosts, dirs,
                 proc, ghost>>

\* The reconfiguring deploy removes the lab directory and goes on as a deploy.
removeLabDirectory(t) ==
  /\ At(t, "rmdir")
  /\ \/ /\ NoFault /\ dirs' = dirs \ {th[t].lab}
        /\ th' = [th EXCEPT ![t].pc = "inspect", ![t].in = "deploy"]
     \/ OwnFault /\ UNCHANGED dirs /\ Fail(t, "return")
  /\ UNCHANGED <<containers, running, tools, network, networks, rules, hosts, ssh, netns,
                 proc, ghost>>

\* The first directory matching clab-* beside the topology file.
labDirs(l) == IF SharedDir THEN dirs ELSE dirs \cap {l}

\* The deferred destroyLabDirs: with --cleanup it runs on every way out of
\* Destroy, and its result replaces the error.  A directory of a lab found that
\* cannot be removed is only logged.
destroyLabDirs(t) ==
  LET r == th[t]
      first == IF r.found = {} /\ ~AllLabs(r.op) THEN labDirs(r.lab) ELSE {}
      replaced(bad) == [th EXCEPT ![t].pc = "return", ![t].err = FALSE, ![t].faulty = bad]
  IN
  /\ At(t, "labdirs")
  /\ \/ ~Cleanup(r.op) /\ NoFault /\ Goto(t, "return") /\ UNCHANGED dirs
     \/ /\ Cleanup(r.op) /\ NoFault /\ th' = replaced(r.faulty)
        /\ IF first = {} THEN dirs' = dirs \ r.found
           ELSE \E d \in first : dirs' = dirs \ {d}
     \/ /\ Cleanup(r.op) /\ OwnFault /\ th' = replaced(TRUE)
        /\ \E gone \in SUBSET r.found : gone # r.found /\ dirs' = dirs \ gone
     \/ /\ Cleanup(r.op) /\ OwnFault /\ first # {}
        /\ Fail(t, "return") /\ UNCHANGED dirs
  /\ UNCHANGED <<containers, running, tools, network, networks, rules, hosts, ssh, netns,
                 proc, ghost>>

(**************************** tool containers *******************************)
\* gotty/sshx attach: an existing container is an error.
toolAttach(t) ==
  /\ At(t, "tlist")
  /\ \/ /\ NoFault
        /\ IF th[t].lab \in tools THEN Fail(t, "return") ELSE Goto(t, "tcreate")
     \/ MayFail(t) /\ Fault(t) /\ Fail(t, "return")
  /\ UNCHANGED <<host, proc, ghost>>

\* The image is pulled, the container created and started on the lab's network;
\* one that does not start is deleted again.
toolCreate(t) ==
  /\ At(t, "tcreate")
  /\ \/ /\ NoFault
        /\ IF network = 0 \/ th[t].lab \in tools
           THEN Fail(t, "return") /\ UNCHANGED tools
           ELSE tools' = tools \cup {th[t].lab} /\ Goto(t, "return")
     \/ MayFail(t) /\ Fault(t) /\ Fail(t, "return") /\ UNCHANGED tools
  /\ UNCHANGED <<containers, running, network, networks, rules, hosts, ssh, dirs, netns,
                 proc, ghost>>

\* detach returns the error of a missing container or a failing call, reattach
\* goes on.
toolDetach(t) ==
  /\ At(t, "tdelete")
  /\ \/ /\ NoFault /\ tools' = tools \ {th[t].lab}
        /\ IF th[t].in = "reattach" THEN Goto(t, "tcreate")
           ELSE IF th[t].lab \in tools THEN Goto(t, "return") ELSE Fail(t, "return")
     \/ /\ MayFail(t) /\ Fault(t) /\ UNCHANGED tools
        /\ IF th[t].in = "reattach" THEN Logged(t, "tcreate") ELSE Fail(t, "return")
  /\ UNCHANGED <<containers, running, network, networks, rules, hosts, ssh, dirs, netns,
                 proc, ghost>>

Step(t) ==
  \/ Return(t) \/ NewContainerLab(t)
  \/ CreateNet(t) \/ createMgmtBridge(t) \/ postCreateNetActions(t)
  \/ prepareLab(t)
  \/ \E n \in Nodes : createNode(t, n) \/ StartContainer(t, n)
  \/ nodesDone(t) \/ appendHostsFileEntries(t) \/ addSSHConfig(t)
  \/ Destroy(t) \/ \E yes \in BOOLEAN : cliPromptToDestroyAll(t, yes)
  \/ makeCopyForDestroy(t) \/ destroy(t)
  \/ deleteNodes(t) \/ \E n \in Nodes : workerDeletes(t, n)
  \/ workerReturns(t) \/ deleteToolContainers(t)
  \/ DeleteEntriesFromHostsFile(t) \/ truncateHosts(t) \/ writeHosts(t)
  \/ removeLabFiles(t)
  \/ DeleteNet(t) \/ NetworkRemove(t) \/ deleteMgmtNetworkFwdRule(t)
  \/ removeLabDirectory(t) \/ destroyLabDirs(t)
  \/ toolAttach(t) \/ toolCreate(t) \/ toolDetach(t)

Next ==
  \/ \E p \in Procs, op \in Commands :
       \E l \in IF AllLabs(op) THEN {"none"} ELSE Labs : Command(p, op, l)
  \/ \E p \in Procs : SignalHandledContext(p) \/ destroyTimeout(p)
  \/ \E t \in Threads : Step(t)

\* Goroutines run and runtime calls return; nobody has to give commands or signals.
Spec == Init /\ [][Next]_vars /\ \A t \in Threads : WF_vars(Step(t))

-----------------------------------------------------------------------------
(****************************** properties **********************************)
LinesOf(l) == {i \in DOMAIN hosts : hosts[i].lab = l}
Rewriting == \E t \in Threads : At(t, "hwrite")

\* Two conditions on the state a lab is left in.
Complete(l) ==
  /\ \A n \in Nodes : <<l, n>> \in running /\ <<l, n>> \in netns
  /\ l \in dirs /\ network # 0
NoTrace(l) ==
  /\ NodesOf(l) = {} /\ l \notin tools /\ l \notin ssh
  /\ LinesOf(l) = {} /\ \A c \in netns : c[1] # l

\* A lab whose deploy succeeded keeps its containers, directory, netns links and
\* network until a command is given for it, whatever the other processes do meanwhile
\* and however they are interrupted; and its ssh file, if the deploy wrote one.
DeployedLabsStay ==
  /\ \A l \in deployed : Complete(l)
  /\ SSHConfigDir => sound \subseteq ssh

\* The lines of a lab are one block in one piece.
ExactBlock(l) ==
  \E k \in 1..Len(hosts) : /\ LinesOf(l) = {k, k + 1, k + 2}
                          /\ \A j \in 1..3 : hosts[k + j - 1] = HostsBlock(l)[j]

\* As long as commands neither overlap nor are interrupted and no write to the file
\* is cut short, /etc/hosts holds the user's line, exactly one whole block for every
\* lab whose deploy met no failing call, and the network of such a lab has its two
\* accept rules - whichever calls of the commands for other labs fail.
HostFilesAreExact ==
  clean /\ ~Rewriting =>
    /\ \E u \in DOMAIN hosts : /\ hosts[u] = UserLine
                               /\ \A i \in DOMAIN hosts : hosts[i].part = "user" => i = u
    /\ \A l \in sound : ExactBlock(l)
    /\ sound # {} => {<<network, "in">>, <<network, "out">>} \subseteq rules

\* A destroy that found containers and met no failing call leaves no
\* trace of its labs, if no commands overlapped or were interrupted so far; with
\* --cleanup their directories are gone; and when no container is left on the host
\* the management network went with its firewall rules: what rules there are, an
\* earlier command left of a network whose rules it could not remove.
DestroyLeavesNothing ==
  last.op \in {"destroy", "cleanup", "destroyAll", "cleanupAll"}
    /\ clean /\ last.ok /\ last.exact =>
      /\ \A l \in last.found : NodesOf(l) = {} /\ (l \notin tools => NoTrace(l))
      /\ Cleanup(last.op) => last.found \cap dirs = {}
      /\ last.found # {} /\ ~HasEndpoints =>
           network = 0 /\ \A r \in rules : r[1] \in leaked

\* Every command ends: the pool of deleteNodes drains and the process exits, even
\* one whose context was cancelled, unless the handler's own timeout passes.
EveryCommandEnds ==
  \A p \in Procs : Running(p) ~> (~Running(p) \/ proc[p].timedOut)

\* What cliPromptToDestroyAll tells a user who does not confirm: "aborted by the
\* user. No labs were removed".
AbortRemovesNothing ==
  [][\A t \in Threads :
       th[t].pc = "labdirs" /\ th[t].err /\ th[t].todo = th[t].found
         => dirs' = dirs]_vars

\* docs/manual/network.md: the rules are removed together with the network, but for
\* those whose removal failed, which is only warned about.
RulesGoWithNetwork ==
  clean /\ network = 0 /\ (\A t \in Threads : ~At(t, "dnetrules")) =>
    \A r \in rules : r[1] \in leaked
=============================================================================
