# A TLA+ verification of containerlab

Containerlab turns a topology file into a running network lab: it creates one
container per node, wires them with links of several kinds, runs commands in them, and
later stops, restarts, saves and removes them.  This directory holds TLA+ models of the
parts of it that are hard to test: the concurrent deployment of nodes with dependencies
between their stages, the links between them, the commands that take a node down and bring
it back, whole labs that share one host, the stream of events, and what a node boots from
over several deployments.  TLC checks them on small instances; TLAPS proves the central
properties of all but one of them for all instances.

## 1. Inventory

| Part | State it keeps | Operations | What is hard |
|---|---|---|---|
| dependency manager (`core/dependency_manager`) | per node and stage a wait group, the depender entries, `mustWait` | `AddDepender`, `CheckAcyclicity`, `EnterStage`, `Done`, `MustWait` | counters shared by goroutines; everybody waiting for everybody |
| deployment scheduler (`core/clab.go`, `core/deploy.go`) | two channels, a pool of workers, the stage of each node | `createNodes`, `scheduleNodes`, `scheduleNodeWorkerF`, the end of `Deploy` | interleavings of N node goroutines and W workers, fewer workers than nodes, failing nodes, closing channels, an interrupt |
| node lifecycle (`core/stop.go`, `start.go`, `restart.go`, `nodes/default_node.go`) | container status, the symlink in `/run/netns` | `Stop`, `Start`, `Delete` with undo paths | a step of several that fails, a killed process, a container that exits meanwhile |
| interface parking (`links/parking_node.go`, `links/endpoint.go`) | which namespace each interface is in, the parking namespace | `CaptureFrom`, `RestoreTo`, `DiscoverOwnedEndpoints` | rollback of a partly done loop; a namespace that is deleted with interfaces inside |
| veth links (`links/link_veth.go`) | `DeploymentState`, `deployMutex`, the pair in the kernel | `Deploy` (`deployAEnd`, `deployBEnd`), `Remove` | two callers, retries after partial failures, recorded state against the kernel |
| all kinds of links (`links/`, `core/config.go`) | the interfaces of the host and of the nodes, traffic redirections, the endpoints of the singletons `host` and `mgmt-net` | resolving, verifying, deploying, stitching and removing links | names shared with the host, removal by name, a deployment that ends half way |
| labs on a host (`core/deploy.go`, `core/destroy.go`, `core/hostsfile.go`, `core/sshconfig.go`) | containers, `/etc/hosts`, ssh files, lab directories | `deploy`, `destroy`, `redeploy` | two processes, files rewritten without a lock, workers that return on an interrupt, which error is reported |
| management network and firewall (`runtime/docker`) | the docker network, its bridge and the accept rules | `CreateNet`, `DeleteNet`, the rules of two clients | check and use by two processes |
| interrupts and tool containers (`cmd/context.go`, `cmd/tools_gotty.go`, `cmd/tools_sshx.go`) | the context of the process | `SignalHandledContext`, attach, detach, reattach | a destroy beside the command it interrupts |
| event stream (`core/events`) | a registry of netlink watchers, a bounded channel | `Stream`, start and stop of watchers, statistics, impairments | watchers that come and go with containers, a full channel, gaps between a listing and a subscription |
| topology inheritance (`types/topology.go`, `types/stages.go`) | none, pure functions | the getters over defaults, kind, group and node | order and duplicates, a node without a body |
| configuration of a node (`core/config.go`, `nodes/`, `core/save.go`) | the files of the lab directory, the running configuration | parse, check, `PreDeploy`, boot, `PostDeploy`, save | what an earlier deployment left decides what the next one boots |
| node kinds (`nodes/*`) | none of their own | 57 registered kinds override the methods of `DefaultNode` and `VRNode` | the same promise kept in many ways |
| certificates (`cert/`, `core/certificate.go`) | certificate and key files | load or generate the CA and the nodes' certificates | two files for one thing |
| inventories, exports, graphs, netem, git and exec helpers, command line | files | sequential | mostly input and output |

How they interact: `deploy` parses the topology into node configurations, resolves the
links, verifies both against the host, creates the management network and calls
`createNodes`, which fills the dependency manager from the nodes' configuration and has it
checked for cycles, then starts the workers and one goroutine per node.  A node goroutine
blocks in `EnterStage` for the create stage and sends the node over the unbuffered
`concurrentChan`; the worker that receives it calls the node's methods stage by stage, with
`EnterStage` and `Done` of the dependency manager around them.  In the create-links stage
the workers of both ends of a link call its `Deploy`, which for a veth link a mutex
serialises.  `Deploy` waits for the workers, reads their failures from the buffered
`nodeFailCh`, deploys and stitches the links of the host and writes the host's files.
`stop`, `start`, `restart`, `save`, `destroy` and `events` are processes of their own that find what
earlier ones left in the kernel, the container engine and the file system.

`PROJECT.json` lists the components with what is left out of each, the hazards at
their lines with the properties that cover them, and the source lines of every
definition.

## 2. Modules

| Module | Models |
|---|---|
| `DependencyGraph` | the dependency map and `isAcyclic` as operators |
| `AcyclicityCheck` | `CheckAcyclicity` one round of the recursion per step; `MCAcyclicityCheck` compares the verdict with a reference definition of a cycle |
| `StagedDeployment` | the abstract promise: stages are entered in the order asked for, success means complete |
| `NodeScheduler` | dependency manager and scheduler together; implements `StagedDeployment` |
| `NodeLifecycle` | one node under stop, start, restart and delete, with its interfaces |
| `VethLink` | one veth link deployed by the workers of its two ends, with retries |
| `LabLinks` | all links of a lab over several commands, with the namespace of the host |
| `LabHost` | whole labs deployed and destroyed by several processes on one host |
| `EventStream` | `containerlab events` |
| `Topology` | the inheritance of settings, as operators |
| `NodeKinds` | the node kinds, as records of what they do differently |
| `NodeConfig` | one node of any kind from the topology file to the configuration it runs |
| `MC*` | the constants of the runs that are too long for a cfg |
| `NodeSchedulerProofs` | the theorems about `NodeScheduler`: order and counters; pool, stages and the refinement of `StagedDeployment` |
| `AcyclicityCheckProofs`, `VethLinkProofs`, `NodeLifecycleProofs`, `EventStreamProofs`, `NodeConfigProofs`, `LabHostProofs`, `LabLinksProofs` | the theorems about the module of that name |

Operators whose comment starts with "Seeded fault" or "Mutant" are the wrong variants of the
definition that follows them.  No specification uses them; `PROJECT.json`
("mutants") names for each checked property the variant that breaks it.

### NodeScheduler

`topo` is the configuration: nodes with a static management address, wait-for
entries, network modes and the stages with commands.  `createStaticDynamicDependency`,
`createWaitForDependency` and `createNamespaceSharingDependency` call `AddDependers`,
which is `AddDepender` for a set of entries: it raises the wait group `wg` of the
depender once per entry and sets `mustWait` of the dependee.  `scheduleNodes` passes
only if `isAcyclic` does.  From then on each node has a `stage` and a `pc`:

    waiting -EnterStage-> external -> sending -handOver-> working -finishWork->
    signalling -SignalDone*, Done-> waiting (next stage) or finished

Inside `Done` each `SignalDone` is a step of its own, so other nodes may move in
between.  `failNode` is the `continue` after a failed pre-deploy, deploy or
create-links; `healthError` is the `break` after a failed health check; `closeChannel`,
`workerReturn` and `collectFailures` end the pool.  `entered` and `completed` are
histories for the properties.  What is abstracted: the work of a stage is its outcome,
commands that fail are only logged by the code and have no effect here, a wait-for
list is a set (a duplicated entry would be counted and signalled twice alike), and the
wait for an external container ends in either way, as in the code.

### NodeLifecycle

`place` says for every interface whether it is in the container, in the parking
namespace or gone; a namespace that goes away takes its interfaces with it (`Lose`,
which is how the kernel treats veth interfaces).  `Tracked` are the interfaces of the
topology; the others were added at runtime and are found by listing a namespace.  The
loops of `CaptureFrom` and `RestoreTo` move one interface per step and the two
rollbacks do as well, so that the process can be killed (`kill`), the container can
exit (`containerExit`) or be started by somebody else (`dockerStart`) in between.
`Fault(f)` lets the call named f fail, `MaxFaults` times per command.  `disturbed`
records that more went wrong than one failure per command, or one of the two failures
(`cleanup`, `post-start`) that the code has no way back from; the properties that speak
about undisturbed behaviours are the ones about the error paths, and the configurations
`NodeLifecycle_kill` and `NodeLifecycle_cleanup` show what the exceptions lead to.  "running" stands for the statuses with a
joinable namespace (Running, Paused), "stopped" for the others but NotFound.  Only
veth interfaces are modelled; other kinds make `captureCandidates` fail, which is the
fault "candidates".  Nodes that skip the lifecycle (root namespace, auto-remove) are
not modelled.  An interface whose peer is in the same namespace is not recognised by
`isOwnedInterface`; a link of a node to itself is outside the model.

### VethLink

`where` is the place of each end in the kernel, `DeploymentState` what the link
records.  `choose` reads that state and `tryDeploy` acts on it in a later step, which
the mutex has to protect.  `deployAEnd` and `deployBEnd` are sets of outcomes: success, a
failure before the end is moved to its node, and one after it; each failure is
transient (EFAULT, ENODEV, ENOENT) or permanent.  `cleanup` deletes the pair by its
handle in the root namespace; after a move it no longer finds it, so the outcome "after"
leaves the pair behind, and so does a failure before the move after which the `LinkDel` of the
cleanup fails too, which the code only logs (`Uncleaned`, a fault of its own in the count of
`MaxFaults`).  The history `struck` has the faults that happened; `OrphansExplained` says that a
pair stays in the kernel for no other reason than these two.  The nodeless end (host, management bridge) is deployed by
`deployAEnd` itself, and once more by `CLab.Deploy` after the workers.

### LabLinks

`topo` is the link section of the topology file; resolving turns each definition into one or
two link objects `objs` with their endpoints, a stitched vxlan into a veth and a vxlan.  `ifs` is the kernel: interfaces by namespace and name
with the device they belong to, so that removing one end of a pair removes the other.  `p` is the
process with its command and program counter, `special` the endpoints that the singletons
`host` and `mgmt-net` keep from one command of the process to the next, `lstate` what each link
records, `pos` how far each node's worker has come.  Two variables are history: `scope`, the filter of the last
deployment whose links were verified, and `blind`, that a destroy has taken links outside of it.  Node workers interleave; each call into netlink may
fail (`MaxFaults`), and the process may be killed.  `vxlanCreate` and `vxlanDelete` are the tools
commands.  MAC addresses, MTU and the variables of interfaces are left out; the retries inside a veth
link are the subject of `VethLink`.

### LabHost

The host is `containers` and which of them are `running`, `tools`, the docker `network` by its bridge,
the accept `rules`, `/etc/hosts` as a sequence of lines, `ssh`, `dirs` and `netns`.  `th` holds the
goroutines of every process: the main one and, after an interrupt of a command with `CleanOnCancel`,
the handler that destroys the lab beside it; the first of them to end takes the other with it.  A
goroutine's `pc` follows the calls of `Deploy` and `Destroy`; every call of the runtime that looks at
the host and every call that changes it are different steps, and so are the reading, truncating and
writing of `/etc/hosts`.  The pool of `deleteNodes` is `queue`, `inflight` and `workers`; the same two sets
hold the nodes a deploy has still to create and to start.  A container
that was created and not started is found by a listing but is no endpoint of the network.  A call
may fail of itself, which uses up `budget`, or because its context is done, which does not.  The work of
a node's stages is one create and one start here; `NodeScheduler` has the rest.  All labs
use the default management network.  The firewall client, the number of workers, whether the topology
files share a directory and whether the host has `/etc/ssh/ssh_config.d` are constants.

A call that fails has the consequence that the code gives it.  `Fail` is an error that is returned; `Logged` one
that is only logged or swallowed: about `/etc/hosts` and the ssh file after a deploy, about the rules when the network is made or
removed, about `DeleteNet`, and about the listing of one lab, whose containers then count as not there.  Either
marks the goroutine `faulty`.  Four variables are history.  `deployed` has the labs whose deploy returned
success, `sound` those of them whose deploy met no failing call at all, the logged ones included; `leaked` the bridges whose rules a failing call has left;
`clean` that commands have neither overlapped nor been interrupted nor failed between the truncation of
`/etc/hosts` and the end of its write.

### EventStream

The environment starts, stops and signals containers, changes interfaces, impairments and counters,
and breaks the feed of the runtime.  It also lets the calls of a watcher fail: its namespace is not found or
not opened (`ns`), the first listing of the interfaces fails and the watcher goes on with none
(`list`), the subscription fails (`subscribe`) or its channel is closed (`updates`), after which the watcher ends and the
container is followed by nobody (`leave`).  `World` says which of these happen in a run.  The process has the main loop (`phase`), the goroutine that
announces the existing containers (`listed`), the `forwarder` of the runtime's events, and per
container a `watcher` with the states it has recorded, the updates it has not processed and the
events it has not sent.  A send blocks while `eventCh` is full; `Stop` cancels a watcher and waits for
its end.  `told`, `dead`, `unseen` and `stale` are histories: what was announced about an interface,
which starts of a container are reported dead, and which interfaces may have changed while nobody was subscribed, were missed by
a failing first listing or lost their watcher to an error (`Missed`).

### Topology, NodeKinds, NodeConfig

`Topology` has one operator per getter of `types/topology.go`; where several getters share their code one stands
for all.  `NodeKinds` describes each kind by a record that starts from
`DefaultNode` or `VRNode` and names what its own methods do differently; the header lists the fields.
`NodeConfig` takes one node of any kind through parse, links, checks, certificates, `PreDeploy`, boot,
`PostDeploy`, edits by the user, save and destroy with or without clean-up, `MaxDeploys` times on the
same lab directory.  A configuration is the set of where its content comes from (`default`, `startup`, `user`);
the text of templates is left out.  `disk` has the boot file and the storage inside of the node's
directory that some kinds use instead.  Certificates are named by the authority that signed them.  A kind issues the one of
a node in `PreDeploy`, SR Linux in `PostDeploy`; certificate and key are two files, of the CA and of the node, and a
deployment may fail before, between and after them (`NotStored`).  `PortsAsDocumented` compares the interfaces with the tables of
`docs/manual/kinds`, which are the sets `StartAtZero`, `StartAtOne` and `StartAtTwo`; kinds whose pages give no such table
are not in `Documented`.

## 3. Runs

| Run | Question | Result |
|---|---|---|
| `sched_pairs` | Two nodes; all single and double wait-for entries over all stages, static addresses, shared and external namespaces, unknown and self references. Are the order, the counters and the commands right, does nothing deadlock? | holds |
| `sched_faults` | Three nodes on two workers in chains, fans and joins, with failing stages and an interrupt. Are the channels used safely, is success complete, is `StagedDeployment` implemented? | holds |
| `sched_live` | Three nodes on two workers, one of which waits in a late stage. Does `Deploy` return with everything deployed? | holds |
| `acyclicity` | All 65536 graphs over four nodes. Does the check end with the right verdict? | holds |
| `lifecycle` | Any sequence of commands on a node with three interfaces, one of them unknown to the topology, all faults, two per command. Is every interface kept, restored, and cleaned up? | holds |
| `veth_link` | Both ends, or one of them nodeless, three attempts, up to four failures, also of the cleanup, an interrupt. Is the recorded state right, is nothing left behind but what a failing cleanup or a failure after the move explains, and does every call return? | holds |
| `links` | Eight topologies with every kind of link, all commands, with and without a node filter, failing calls, a killed process. Is a deployed lab wired, does a destroy clear the host and keep the host's own interfaces? | holds |
| `links_redeploy` | "combines the destroy and deploy commands" for a link to the host | violated: see findings |
| `lab` | Two processes, two labs, failures of any call, of those too whose errors are only logged, and interrupts. Does a deployed lab stay complete, are the host's files exact, does a destroy leave nothing, rules included? | holds |
| `lab_ends` | Two nodes on one deleting worker. Does every command end, also an interrupted one? | holds |
| `events` | A container and its interface change while events are streamed over a channel of length one, and the watcher's own calls fail. Is the output current, possible and complete, and does everything end? | holds |
| `kinds` | Every kind with settings on every level, two deployments, saves. Are the ports wired as documented, does the node boot what is asked for or saved, does its certificate verify? | holds |

Bounds.  Two nodes are enough for every pair of stages and every pair of dependency
sources to meet on the same wait group; three nodes on two workers are the smallest
pool in which nodes compete for a worker while others hold one.  Four nodes contain
cycles of every length up to four and acyclic graphs of depth four, which is more
rounds than any case of the recursion distinguishes.  With three interfaces a loop can
fail with one interface done, one in hand and one to go.  Four failures exceed the three
attempts of a link.  In `lifecycle` `MaxFaults` bounds each command, not the number of commands,
which is unbounded.

In `links` three commands are a deployment, one that is disturbed and one that has to cope with what it
left; one fault is enough for each call to fail once, and the same run with two faults (899 000 states)
holds as well.  In `lab` any set of labs may be deployed at the start.  It has three events: three commands, or fewer and a
failing call, an interrupt or a kill for each one less; a command that is given while another one runs counts for two of them (`OverlapCost`), so that
two commands overlap without a further failure, which `LabsStay` covers for any number.  Six networks exceed what three commands can create.  With one process and four events
(6.5 million states) the last two hold as well, and so does `RulesGoWithNetwork`, which `RulesTheorem` proves.
`lab_ends` has three events: a command, its interrupt, and a failure in the destroy of the handler.  In `events`
a channel of one event blocks every sender, two attempts tell the last attempt from an earlier one, and three
changes are an exit, a start and one more; failing calls are not counted.  The command has either of its two flags; with both as well
the run has 1.3 million states and holds, and with four changes and no statistics the three million states satisfy `EventsAreCurrent` and `NothingLost`.  Two deployments in `kinds` are the one that leaves something and the one
that finds it; the certificates and inherited settings do not depend on more.

Deadlock checking is on in `sched_pairs`, `sched_live` and `lifecycle`.  It is off in
`sched_faults`, where a failed node leaves its dependers waiting for ever (the hang that
`NodeScheduler_health_error` shows for another cause), and in the others, where the commands
come to an end or the bounds are used up; `AllEnd`, `EveryCommandEnds`, `Terminates` and `LinkDeployReturns` say there that
nothing stops too early.

What the properties leave out because the code does not do it is part of their statements:
`HostFilesAreExact`, `DestroyLeavesNothing` and `RulesGoWithNetwork` ask that commands did not overlap and were not interrupted
(`clean`); the first is about labs whose deploy met no failing call (`sound`), as is the ssh file in `DeployedLabsStay`, because a deploy
that could not write the files or install the rules reports success; the other two except the rules of bridges whose
removal of rules failed (`leaked`), which is only warned about; `OrphansExplained` excepts a failing cleanup and failures after the move; `EveryCommandEnds` ends with the handler's own timeout, `NothingLost` excludes changes while nobody was
subscribed and what a watcher missed that could not list or went away by an error, `HostInterfacesKept` a destroy that takes links the verified deployment had left out, and the two sets
`SavedIsLost` and `EnforceIsIgnored` name kinds.  Each exception is in the model as in the code: without it TLC finds the
counterexample.

Fairness.  Every goroutine that can move eventually does (weak fairness of the node
steps, the pool and `Deploy`, of every goroutine of `LabHost` and `EventStream`), as the Go scheduler guarantees; one of several idle workers
takes a node; `sync.Mutex` has a starvation mode, hence strong fairness of `Lock`; a `select` chooses at random among its
ready cases, hence strong fairness of a watcher's cancellation.  A
container that is polled for its health or its exit is assumed to get there: the code polls
without a timeout, so this is an assumption on the topology.  Failures, interrupts, commands, tickers and the
environment are never forced.

### Further configurations

These show that a claim of the documentation, of a comment or of a message does not hold.  Each is run as
`tlc -config <name>.cfg <module>` and ends with a counterexample.

| Configuration | Module | Property | Shows |
|---|---|---|---|
| `NodeScheduler_starvation` | `MCNodeScheduler` | `DeployReturns` | finding 2 |
| `NodeScheduler_health_error` | `MCNodeScheduler` | `DeployReturns` | finding 3 |
| `NodeLifecycle_kill` | `NodeLifecycle` | `LinksKept` | finding 4 |
| `NodeLifecycle_cleanup` | `NodeLifecycle` | `LinksKept` | finding 5 |
| `VethLink_host` | `MCVethLink` | `TransientErrorsAreRetried` | finding 6 |
| `LabHost_abort` | `LabHost` | `AbortRemovesNothing` | finding 7 |
| `NodeConfig_enforce` | `MCNodeConfig` | `StartupConfigEnforced` | finding 8 |
| `EventStream_stats` | `EventStream` | `ChangesAreNotified` | finding 9 |

## 4. Findings

1. *Redeploy of a lab with a host link.*  The link nodes of the host and of the management bridge keep the
   endpoints that the destroy resolved; the deploy in the same process finds them twice and refuses.  The lab is gone and
   not deployed (run `links_redeploy`).
2. *Starvation of the worker pool.*  `EnterStage` for stages after create is called with a
   worker in hand.  The comment in `scheduleNodes` explains why create is entered outside of
   the worker; the later stages have the same problem when there are fewer workers than nodes,
   by the default number of CPUs as well as by `--max-workers`.
3. *Health check error.*  "Continuing deployment anyways", but `Done` is not called, so whoever
   waits for the healthy stage waits for ever.  A failed node leaves its dependers waiting in
   the same way, and `Deploy` does not return to report the failure.
4. *Interrupted stop.*  The next stop fails to park what is already parked and deletes the
   parking namespace with it.
5. *Failing cleanup after a complete restore.*  `Start` stops the container it has just restored.
6. *Transient error on a host end.*  The retry deploys the wrong end.
7. *Aborted destroy.*  A user who does not confirm `destroy --all --cleanup` is told that no labs were removed;
   the deferred function removes their directories and clears the error.
8. *Enforced startup-config.*  "no matter what" (`docs/manual/nodes.md`), but SR Linux with a startup-config in CLI format
   keeps a saved configuration, and five kinds ignore the setting.
9. *Statistics hide changes.*  The statistics tick overwrites the recorded state of an interface, so that a
   change it sees first is never announced.
10. *Rules of the management network.*  `deleteMgmtNetworkFwdRule` asks twice for the outgoing rule.  The nftables client
   deletes both directions whatever it is asked for; with iptables the incoming rule stays.  `RulesGoWithNetwork` with
   `Firewall = "iptables"` shows it.
11. *Binds with the same destination.*  "the lowest level takes precedence" (`docs/manual/nodes.md`), but the merged list keeps a
   duplicate at its first place: a bind that the defaults and the node both give is overridden by another one of the kind
   in between. `BindsMostSpecific` with such a topology shows it.

Observed while modelling, without a configuration:

* Links: a failure of `deployAEnd` after the move leaves a pair whose peer name blocks every retry; an orphaned vxlan
  blocks its VNI until it is removed by hand; a veth between two bridges is never removed; a destroy fails when the
  parent of a macvlan or the route of a vxlan is gone; a filtered vxlan-stitch link ends in a failing type
  assertion (`links/link_vxlan.go`).  Names are verified for the links of the filter only: a destroy without the filter of
  its deployment removes by name what was never verified.  The veth end `ve-` of a stitched link is not verified at all.
  A link of type veth with an end on `mgmt-net` is accepted and that end is never deployed; a link with one end, or a stitched
  one, on a bridge is deployed and never removed.
* Host: a deploy that cannot rewrite `/etc/hosts` has already removed the lab's old block, and like one that cannot write the ssh file or
  install the rules it only logs the error and reports success; a destroy that cannot remove the rules leaves them when the network is
  gone, and nothing removes them later; a destroy of one lab takes an error of the listing for "no containers" and reports
  success; two commands that rewrite `/etc/hosts` at the same time, or one that is interrupted, lose lines of it;
  `destroy --cleanup` of a lab without containers removes the first lab directory beside the topology file, be it another lab's;
  a handler whose destroy runs into its timeout may block for ever on the channel of `deleteNodes`; a deploy that fails after
  the creation of a container leaves it to the next destroy.
* Events: containers that start or stop between the listing and the subscription, and interfaces that
  change between their listing and their subscription, are not seen; a watcher that cannot open the namespace of its container, or
whose netlink channel is closed, ends with a debug message and is not started again before the container is; a harmless signal stops the watcher of a container.
* Nodes: a failed stop may leave an interface down; the commands of an exit stage nobody waits for
  are never run; `StageBase.Merge` appends commands although its comment speaks of no duplicates; six kinds lose a saved
  configuration; pointer settings of a node without a body come from the defaults only; a runtime other than the default is
  found by the node's own kind only; loading a certificate does not check it against its CA.
* An interrupted `Deploy` returns success with nodes left out.

## 5. Proofs

All theorems hold for every value of the constants under the named assumptions of the modules:
finite set of nodes with distinct special values, topologies of the right shape, at least one
CPU, at least one attempt per link, finite sets of interfaces, a startup-config of every level
that is unset, full, partial or embedded, wait-for lists that are sequences, finite sets of labs and nodes of labs,
a lab name other than `"none"`, containers and bridges with names of their own, links with as many ends as their type
wants, and a host without interfaces called `ve-`.  None of them bounds the number of nodes,
workers, containers, labs, processes, failures or commands.

* `NodeSchedulerProofs`: `TypeCorrect`, `CountersAreExact`, `OrderIsRespected`.  The order alone
  is not inductive: that a zero counter means "all dependencies completed" needs the counters to
  be exact, that needs every signalled entry to be a recorded one that was signalled once and by
  a dependee that has completed the stage, and that nothing has moved while dependencies are still
  being recorded.  `OrderInv` is the conjunction of these.  The proof has one lemma per group of actions
  (setup, node, pool); the arithmetic of the counters is in lemmas on cardinalities.
* The second half of the same module, on top of `OrderInv`.  `PoolInv` ties the workers to the program counters of the nodes,
  says when the channel can have been closed and counts the reported failures: `nodeFailCh`
  has as many entries as there are nodes given up, which is what leaves room for every other
  node.  From it `OneWorker`, `ChannelSafety` and half of `SuccessTheorem`.  `StageInv`
  says which stages a node at a given stage has entered and completed and what it has signalled;
  it needs that a stage somebody waits for, or with commands, is marked `mustWait` (`Marked`), without which a
  node would pass by the stage.  From it the rest of `SuccessTheorem`, `StageExecsTheorem` and
  `EverybodySignalled`.  `Refinement` shows that each step of the scheduler is, under the
  refinement mapping, a step of `StagedDeployment` or leaves its variables alone: entering a stage is
  allowed by `OrderInv`, completing one by `StageInv`, and the outcome by `SuccessIsComplete`.
* `AcyclicityCheckProofs`: `AcceptedIsOrderedHolds`, `RejectedHasCoreHolds`, `VerdictIsRightHolds`.  The invariant says that
  the map left over is the original graph restricted to the nodes without a rank, and that every
  depender was removed in an earlier round than its dependee.  The reference of `VerdictIsRight` needs no paths: a node
  reaches another if every set that has its dependers and is closed under dependers has the other one, which
  `ReachesIsTheClosure` of `MCAcyclicityCheck` compares with the transitive closure of the library.  In an accepted graph no node
  reaches itself, because the nodes of smaller rank are such a set.  In a rejected one every node of the core has a depender in the core;
  if no node reached itself, each of these steps would lead to a node that reaches fewer nodes, and there are finitely many.
  That the operator `isAcyclic` of `DependencyGraph` gives the same verdict follows its rounds by induction (`SetInduction`).
* `VethLinkProofs`: `TypeCorrect`, `StateIsNotStale`, `SuccessIsAttachedHolds`, `OrphansTheorem`,
  `RetriesSucceed`.  The invariant adds to the first four that only the holder of the mutex is inside `Deploy`,
  that the chosen end agrees with the recorded state, and that an attempt is left whenever one is made.
  `RetryInv` counts: as long as all errors were transient and came before the move, the attempts a caller has
  used up are no more than the errors so far.
* `NodeLifecycleProofs`: `TypeCorrect`, `InterfacesSurvive`, `StartTheorem`, `DeleteTheorem`.  `LifeInv` says for each place
  a command can be in where the interfaces are: for an undisturbed command all of them are in the
  container, all are parked, or they are on the way between the two, the ones already moved being exactly those the
  rollback would move back (`Undisturbed`).  It also relates the command to its place and keeps parked interfaces
  inside of an existing namespace, and these two hold for disturbed commands as well.
* `EventStreamProofs`: `CurrentTheorem`, `DeltaTheorem`, `NothingLostTheorem`.  A die event passes the feed, the forwarder and the channel; the
  invariant `Order` says that wherever it is the start it is about is over (`DiesAreOver`), nothing is ahead of the present
  start, a watcher is stopped before its die event is in the channel (`StoppedFirst`), and a watcher that is active
  afterwards belongs to a later start (`ActiveIsLater`).  For `NothingLost` the invariant `ReportInv` accounts for every
  event under way: what the output will say about an interface when the channel and then the buffer of
  its watcher are printed (`KnownAfter`) is what the watcher remembers, and what it remembers or has yet
  to read from the kernel has the attributes of the kernel (`AttrCurrent`).  Between two starts of a container the
  feed has a stop, or the forwarder holds one, or everything about it is already reported gone (`Quiet`), so that the watcher of the next start
  begins with nothing known; a container with a start in the feed is followed later (`Starting`), any other one is followed now (`Following`).
* `NodeConfigProofs`: `PortsTheorem`, `CertificatesTheorem`, `SavedTheorem`, `StartupTheorem`, `EnforcedTheorem`, `WaitsTheorem`.  The proofs
  first establish for each of the 57 registered kinds what they need of it (`KindFact`), kind by kind from `NodeKinds`; the
  invariant then follows the configuration from the topology file to the running node: which content the boot
  file has before and after `PreDeploy` and boot (`StartupOnItsWay`, `EnforcedOnItsWay`), that a saved
  configuration stays where the next boot finds it (`SavedKept`), and which of the four certificate files
  can exist with which signer after a deployment that ended between any two of them (`CertChain`).  `PortsTheorem` needs the offset of every kind and
  which of its names are mapped with it (`PortOk`).  `WaitsTheorem` follows the loop that merges
  the wait-for lists: what `AppendMissing` has after its first `n` entries has no entry twice and has those of the list it
  started from and the first `n` of the other, for every `n`; then once per level.
* `LabHostProofs`: `LabsStay`, `HostFilesTheorem`, `DestroyTheorem`, `RulesTheorem`.  `HostInv` says that a command that is the only one for its labs really is (`Alone`), that the
  handler of an interrupted process works on the lab of that process and after its cancellation only (`HandlerIsLate`), that nobody works on
  a deployed lab (`Untouched`), what a deploy without an error has built at each of its steps (`Building`), and that a network
  with a running container is not removed (`NetworkInUse`).  Every step of a goroutine but its return is
  shown to have one `Effect`: it goes on with the same command and changes of the host only what belongs to its own lab.
  The theorem is about labs with at least one node: that the network of a lab stays is shown from a running container
  that keeps it.  And it asks for topology files in different directories, because `destroy --cleanup` of a lab without
  containers removes the first lab directory it finds beside the file (`SharedDir`): with a shared directory the property fails.
  The other three are about commands that neither overlap nor are interrupted, and keep these two hypotheses.  For
  `HostFilesTheorem` the file is the user's line and whole blocks in some order of the labs (`Holds`); reading it skips the block of one lab and
  keeps the rest in order (`Free`), appending adds a block to the end, and `CleanInv` says which of these the file and the
  buffer of the goroutine are at each of its steps, and that the bridge it knows is the network that is there, with both rules if
  a command that met no failing call relies on them (`Net`, `Sure`).  A call that is only logged takes its lab out of `sound` for good, so that the block of such a lab, which
  may be there or not, is not among those that `Holds` asks for.
  For `DestroyTheorem`, `LeftInv` says that the labs a destroy found are those it has still to do, the one it works on and those that have no trace
  left, also in the lines it has read of `/etc/hosts` before it works on the next (`Shape`, `Behind`, `Mine`), and that every rule is for the network that is there,
  for the one just removed, or for one whose removal of rules failed (`Owned`).  The last is false with iptables (finding 10), so that `DestroyTheorem` and `RulesTheorem` ask for nftables.
* `LabLinksProofs`: `HostInterfacesTheorem`, `WiredTheorem`, `ClearedTheorem`.  The link objects are a flattened sequence of what each link
  of the file resolves to, so the module first shows that flattening gives the elements of its parts (`FlattenElements`, by
  induction on a set of numbers) and which objects each type of link gives.  `BaseInv` says that the objects of a process are those of its
  filter, that the host node has exactly their endpoints, and that every interface is the host's or was made by a
  process that has run.  For `HostInterfacesTheorem`, `KeptInv` adds that no end of a link under removal, or of the scope while
  containers exist, has the name of an interface of the host.  For `WiredTheorem`, `WiredInv` says what the recorded state of each veth means in
  the kernel (`VethState`), that the endpoints a worker has passed are in place (`Passed`), the same for the host node (`HostDone`), and that a stitched link
  no longer to do is redirected (`Redirected`).  For `ClearedTheorem`, `ClearInv` says that every interface a lab made has a
  random name or the name of an end of its link (`Named`), and that during a removal without a warning nothing is left of the nodes
  and links already done (`Cleared`).
  The three have the hypothesis `AllPlaced`, which every topology of the runs satisfies (an assumption of `MCLabLinks`): a veth has an end on a
  node of the lab and none on `mgmt-net`, links with one end and stitched links are on containers, a vxlan on a container or the host.  It leaves out links
  that the parser accepts and for which the properties fail, the last of the observations on links in section 4.

Only model-checked:

* Liveness under fairness (`DeployReturns`, `AcceptedIsDeployed`, `Terminates`, `LinkDeployReturns`, `EveryCommandEnds`,
  `AllEnd`), which is out of the prover's reach.

## 6. Plan

Done: `NodeScheduler` with its graph check, `NodeLifecycle`, `VethLink`; then
`LabLinks`, `LabHost`, `EventStream`, `Topology`, `NodeKinds` and `NodeConfig`; theorems about every state machine,
with every safety property of the passing runs among them.  Left:

1. Composition of `NodeScheduler` and `LabLinks`: create-links with real links, so that a failing link
   becomes the failure of a node and of its peer.
2. The distributed chassis of SR-SIM, which is one node made of several containers.

## 7. Not modelled

* Podman, the translation of a node's configuration into API requests, image handling: calls into an engine whose
  results, success or failure, are what the models use.
* A bridge inside of the namespace of a container, the tools for single veth pairs, netem and snapshots,
  the API server: `EventStream` sees impairments as changes of the kernel.
* Inventories, exports, graphs, the text of configuration templates and X.509: sequential generation of files.
* The parsing of the command line and its tables; the commands that change the host are actions above.
* Waits for the readiness of a node, and the dialogue with it, in `PostDeploy`: they end with success or failure.
