---------------------------- MODULE NodeScheduler ----------------------------
(***************************************************************************)
(* The deployment scheduler of containerlab: CLab.createNodes records the  *)
(* dependencies between node stages and rejects cyclic ones, scheduleNodes *)
(* starts one goroutine per node that waits for the node's create stage    *)
(* and then hands the node to a pool of workers over an unbuffered         *)
(* channel, scheduleNodeWorkerF drives a node through its stages, and      *)
(* CLab.Deploy waits for the workers and collects their failures.          *)
(*                                                                         *)
(* What happens inside a stage (a container is created, links are wired,   *)
(* post-deploy tasks run) is abstracted to its outcome.                    *)
(***************************************************************************)
EXTENDS Integers, Sequences, FiniteSets, DependencyGraph

CONSTANTS
    Node,         \* the nodes of the topology (CLab.Nodes)
    Absent,       \* a name no node has, in a wait-for or a network-mode
    NoNode,       \* "no node": a network-mode other than container:<name>
    Topologies,   \* the topologies a run starts from
    MaxWorkers,   \* the --max-workers flag, 0 when it is not given
    VCpus,        \* the number of online CPUs
    Faults        \* the failures the environment may inject

\* The stages in the order a node goes through them.
Stage == {"create", "create-links", "configure", "healthy", "exit"}

\* A wait-for entry: node enters `stage` after dependee has finished `until`.
WaitFor == [node : Node, stage : Stage, dependee : Node \cup {Absent}, until : Stage]

\* What the dependency manager reads of the nodes' configuration.
Topology == [static      : SUBSET Node,
             waitFor     : SUBSET WaitFor,
             networkMode : [Node -> Node \cup {NoNode, Absent}],
             execs       : SUBSET (Node \X Stage)]

FaultKind == {"pre-deploy", "deploy", "create-links", "health", "cancel"}

ASSUME NodeAssumption == /\ IsFiniteSet(Node)
                         /\ {Absent, NoNode, "idle", "exited"} \cap Node = {}
ASSUME TopologyAssumption == Topologies \subseteq Topology
ASSUME WorkerAssumption == MaxWorkers \in Nat /\ VCpus \in Nat \ {0}
ASSUME FaultAssumption == Faults \subseteq FaultKind

\* initWorkerCount and the cap in scheduleNodes.
WorkerCount ==
    LET wanted == IF MaxWorkers > 0 THEN MaxWorkers ELSE VCpus
    IN  IF Cardinality(Node) < wanted THEN Cardinality(Node) ELSE wanted

Worker == 1..WorkerCount
Idle   == "idle"
Exited == "exited"

VARIABLES
    topo,       \* the configuration of this deployment, fixed in Init
    main,       \* where the goroutine of Deploy is
    deps,       \* the depender entries of all nodes
    wg,         \* stageWG: per node and stage, the dependencies still open
    mustWait,   \* the <<node, stage>> pairs with mustWait set
    stage,      \* the stage a node is in or waits to enter
    pc,         \* what the node's goroutine or worker is doing with it
    signalled,  \* the entries of deps that Done has signalled
    entered,    \* history: EnterStage(node, stage) returned
    completed,  \* history: the work of <<node, stage>> is done, Done was called
    worker,     \* what each worker is processing
    chanClosed, \* concurrentChan is closed
    nodeFailCh, \* the buffered failures
    cancelled   \* the context is cancelled

depVars  == <<deps, wg, mustWait>>
nodeVars == <<stage, pc, signalled, entered, completed>>
poolVars == <<worker, chanClosed, nodeFailCh>>
vars     == <<topo, main, depVars, nodeVars, poolVars, cancelled>>

(***************************************************************************)
(* Dependencies.  `why` tells apart the entries that two of the three      *)
(* sources create for the same pair of stages: each counts on its own.     *)
(***************************************************************************)
Origin == {"static", "wait-for", "netns"}
Dependency == [dependee : Node, until : Stage, depender : Node, at : Stage, why : Origin]

Dep(dependee, until, depender, at, why) ==
    [dependee |-> dependee, until |-> until, depender |-> depender, at |-> at, why |-> why]

\* Every node with a dynamic management address waits for every static one.
StaticDeps == {Dep(s, "create", d, "create", "static") : s \in topo.static, d \in Node \ topo.static}

WaitForDeps == {Dep(w.dependee, w.until, w.node, w.stage, "wait-for") : w \in topo.waitFor}

\* network-mode container:<node>; a name that is not a node is external.
NetnsDeps ==
    {Dep(topo.networkMode[n], "create", n, "create", "netns") :
        n \in {m \in Node : topo.networkMode[m] \in Node}}

\* The entries of deps that keep n from entering stage s.
Open(n, s) == {d \in deps : d.depender = n /\ d.at = s /\ d \notin signalled}

\* Seeded fault: two dependencies on the same stage are counted as one.
countOnce(new) ==
    /\ deps' = deps \cup new
    /\ wg' = [n \in Node |-> [s \in Stage |->
                IF \E d \in new : d.depender = n /\ d.at = s THEN wg[n][s] + 1 ELSE wg[n][s]]]
    /\ mustWait' = mustWait \cup {<<d.dependee, d.until>> : d \in new}

\* AddDepender for each of the entries.
AddDependers(new) ==
    /\ deps' = deps \cup new
    /\ wg' = [n \in Node |-> [s \in Stage |->
                wg[n][s] + Cardinality({d \in new : d.depender = n /\ d.at = s})]]
    /\ mustWait' = mustWait \cup {<<d.dependee, d.until>> : d \in new}

\* Seeded fault: the execs of the healthy stage are not considered.
noHealthyExecs == {x \in topo.execs : x[2] \in {"create-links", "configure"}}

\* NewDependencyNode: a stage with execs must be waited for; the create and
\* exit stages are not considered.
ExecMustWait == {x \in topo.execs : x[2] \in {"create-links", "configure", "healthy"}}

Init ==
    /\ topo \in Topologies
    /\ main = "static"
    /\ deps = {}
    /\ wg = [n \in Node |-> [s \in Stage |-> 0]]
    /\ mustWait = ExecMustWait
    /\ stage = [n \in Node |-> "create"]
    /\ pc = [n \in Node |-> "new"]
    /\ signalled = {}
    /\ entered = {}
    /\ completed = {}
    /\ worker = [w \in Worker |-> Idle]
    /\ chanClosed = FALSE
    /\ nodeFailCh = <<>>
    /\ cancelled = FALSE

(***************************************************************************)
(* createNodes, on the goroutine of Deploy.  Nothing else runs yet.        *)
(***************************************************************************)
createStaticDynamicDependency ==
    /\ main = "static"
    /\ AddDependers(StaticDeps)
    /\ main' = "wait-for"
    /\ UNCHANGED <<topo, nodeVars, poolVars, cancelled>>

\* Seeded fault: the wait-for lists are not recorded.
ignoreWaitFor ==
    /\ main = "wait-for"
    /\ \A w \in topo.waitFor : w.dependee \in Node
    /\ main' = "netns"
    /\ UNCHANGED <<topo, depVars, nodeVars, poolVars, cancelled>>

createWaitForDependency ==
    /\ main = "wait-for"
    /\ \A w \in topo.waitFor : w.dependee \in Node
    /\ AddDependers(WaitForDeps)
    /\ main' = "netns"
    /\ UNCHANGED <<topo, nodeVars, poolVars, cancelled>>

\* The entries added before the unknown node is met are never looked at again.
dependeeNotFound ==
    /\ main = "wait-for"
    /\ \E w \in topo.waitFor : w.dependee \notin Node
    /\ main' = "rejected"
    /\ UNCHANGED <<topo, depVars, nodeVars, poolVars, cancelled>>

createNamespaceSharingDependency ==
    /\ main = "netns"
    /\ AddDependers(NetnsDeps)
    /\ main' = "check"
    /\ UNCHANGED <<topo, nodeVars, poolVars, cancelled>>

cyclicDependencies ==
    /\ main = "check"
    /\ ~ isAcyclic(generateDependencyMap(Node, deps))
    /\ main' = "rejected"
    /\ UNCHANGED <<topo, depVars, nodeVars, poolVars, cancelled>>

\* CheckAcyclicity passes, the workers and the node goroutines are started.
scheduleNodes ==
    /\ main = "check"
    /\ isAcyclic(generateDependencyMap(Node, deps))
    /\ main' = "running"
    /\ pc' = [n \in Node |-> "waiting"]
    /\ UNCHANGED <<topo, depVars, stage, signalled, entered, completed, poolVars, cancelled>>

(***************************************************************************)
(* EnterStage, by the node's goroutine for create and by its worker later. *)
(***************************************************************************)
\* Seeded fault: EnterStage does not wait.
enterStageAtOnce(n) ==
    /\ pc[n] = "waiting"
    /\ entered' = entered \cup {<<n, stage[n]>>}
    /\ pc' = [pc EXCEPT ![n] = IF stage[n] = "create" THEN "external" ELSE "working"]
    /\ UNCHANGED <<topo, main, depVars, stage, signalled, completed, poolVars, cancelled>>

EnterStage(n) ==
    /\ pc[n] = "waiting"
    /\ wg[n][stage[n]] = 0
    /\ entered' = entered \cup {<<n, stage[n]>>}
    /\ pc' = [pc EXCEPT ![n] = IF stage[n] = "create" THEN "external" ELSE "working"]
    /\ UNCHANGED <<topo, main, depVars, stage, signalled, completed, poolVars, cancelled>>

\* Returns at once without an external network namespace, and otherwise when
\* the container runs or after 15 minutes: the caller goes on in both cases.
waitForExternalNodeDependencies(n) ==
    /\ pc[n] = "external"
    /\ pc' = [pc EXCEPT ![n] = "sending"]
    /\ UNCHANGED <<topo, main, depVars, stage, signalled, entered, completed, poolVars, cancelled>>

\* workerChan <- node meets node, ok := <-input.
handOver(n, w) ==
    /\ pc[n] = "sending"
    /\ worker[w] = Idle
    /\ ~ chanClosed
    /\ worker' = [worker EXCEPT ![w] = n]
    /\ pc' = [pc EXCEPT ![n] = "working"]
    /\ UNCHANGED <<topo, main, depVars, stage, signalled, entered, completed,
                   chanClosed, nodeFailCh, cancelled>>

\* workerFuncChWG.Wait and close(concurrentChan).  After an interrupted Deploy
\* has returned nobody receives any more, and the close has no effect.
closeChannel ==
    /\ main = "running"
    /\ ~ chanClosed
    /\ \A n \in Node : pc[n] \in {"working", "signalling", "failed", "finished"}
                       \/ (pc[n] = "waiting" /\ stage[n] # "create")
    /\ chanClosed' = TRUE
    /\ UNCHANGED <<topo, main, depVars, nodeVars, worker, nodeFailCh, cancelled>>

(***************************************************************************)
(* scheduleNodeWorkerF.                                                    *)
(***************************************************************************)
\* Seeded fault: a worker keeps the node it has finished.
keepWorker(n) == worker

\* The worker of n, if it has one.
releaseWorker(n) == [w \in Worker |-> IF worker[w] = n THEN Idle ELSE worker[w]]

\* Seeded fault: the healthy stage is left out.
skipHealthy(n, s) ==
    IF s = "create" THEN "create-links"
    ELSE IF s = "create-links" THEN "configure"
    ELSE IF s = "configure" /\ <<n, "exit">> \in mustWait THEN "exit"
    ELSE ""

\* The stage after s in the worker's code, "" after the last one.
nextStage(n, s) ==
    IF s = "create" THEN "create-links"
    ELSE IF s = "create-links" THEN "configure"
    ELSE IF s = "configure" /\ <<n, "healthy">> \in mustWait THEN "healthy"
    ELSE IF s \in {"configure", "healthy"} /\ <<n, "exit">> \in mustWait THEN "exit"
    ELSE ""

\* n leaves its stage: it waits for the next one, or its worker is free again.
leaveStage(n) ==
    LET s == nextStage(n, stage[n])
    IN  IF s # ""
        THEN /\ stage' = [stage EXCEPT ![n] = s]
             /\ pc' = [pc EXCEPT ![n] = "waiting"]
             /\ UNCHANGED worker
        ELSE /\ pc' = [pc EXCEPT ![n] = "finished"]
             /\ worker' = releaseWorker(n)
             /\ UNCHANGED stage

\* The work of the stage and the on-exit execs of Done.  In the healthy and
\* exit stages this is the poll that finds the container healthy or stopped.
finishWork(n) ==
    /\ pc[n] = "working"
    /\ completed' = completed \cup {<<n, stage[n]>>}
    /\ pc' = [pc EXCEPT ![n] = "signalling"]
    /\ UNCHANGED <<topo, main, depVars, stage, signalled, entered, poolVars, cancelled>>

\* Seeded fault: a depender may be signalled twice.
signalAgain(n, d) ==
    /\ pc[n] = "signalling"
    /\ d.dependee = n /\ d.until = stage[n]
    /\ wg' = [wg EXCEPT ![d.depender][d.at] = @ - 1]
    /\ signalled' = signalled \cup {d}
    /\ UNCHANGED <<topo, main, deps, mustWait, stage, pc, entered, completed,
                   poolVars, cancelled>>

\* One iteration of the loop of Done.
SignalDone(n, d) ==
    /\ pc[n] = "signalling"
    /\ d.dependee = n /\ d.until = stage[n]
    /\ d \notin signalled
    /\ wg' = [wg EXCEPT ![d.depender][d.at] = @ - 1]
    /\ signalled' = signalled \cup {d}
    /\ UNCHANGED <<topo, main, deps, mustWait, stage, pc, entered, completed,
                   poolVars, cancelled>>

\* Seeded fault: Done returns before all dependers are signalled.
doneWithoutSignalling(n) ==
    /\ pc[n] = "signalling"
    /\ leaveStage(n)
    /\ UNCHANGED <<topo, main, depVars, signalled, entered, completed,
                   chanClosed, nodeFailCh, cancelled>>

\* The loop of Done is over.
Done(n) ==
    /\ pc[n] = "signalling"
    /\ \A d \in deps : d.dependee = n /\ d.until = stage[n] => d \in signalled
    /\ leaveStage(n)
    /\ UNCHANGED <<topo, main, depVars, signalled, entered, completed,
                   chanClosed, nodeFailCh, cancelled>>

\* The failures that make the worker give the node up without Done.
StageFault == {<<"create", "pre-deploy">>, <<"create", "deploy">>,
               <<"create-links", "create-links">>}

\* Seeded fault: a failure is logged and not reported.
failSilently(n) ==
    /\ pc[n] = "working"
    /\ \E f \in Faults : <<stage[n], f>> \in StageFault
    /\ pc' = [pc EXCEPT ![n] = "failed"]
    /\ worker' = releaseWorker(n)
    /\ UNCHANGED <<topo, main, depVars, stage, signalled, entered, completed,
                   chanClosed, nodeFailCh, cancelled>>

\* Seeded fault: the worker goes on with the node after reporting its failure.
failAndGoOn(n) ==
    /\ pc[n] = "working"
    /\ \E f \in Faults : <<stage[n], f>> \in StageFault
    /\ Len(nodeFailCh) < Cardinality(Node)
    /\ nodeFailCh' = Append(nodeFailCh, n)
    /\ UNCHANGED <<topo, main, depVars, nodeVars, worker, chanClosed, cancelled>>

failNode(n) ==
    /\ pc[n] = "working"
    /\ \E f \in Faults : <<stage[n], f>> \in StageFault
    /\ Len(nodeFailCh) < Cardinality(Node)
    /\ nodeFailCh' = Append(nodeFailCh, n)
    /\ pc' = [pc EXCEPT ![n] = "failed"]
    /\ worker' = releaseWorker(n)
    /\ UNCHANGED <<topo, main, depVars, stage, signalled, entered, completed,
                   chanClosed, cancelled>>

\* "error checking for node health": the loop is left without Done.
healthError(n) ==
    /\ pc[n] = "working"
    /\ stage[n] = "healthy"
    /\ "health" \in Faults
    /\ leaveStage(n)
    /\ UNCHANGED <<topo, main, depVars, signalled, entered, completed,
                   chanClosed, nodeFailCh, cancelled>>

\* Seeded fault: an idle worker does not wait for a node.
returnWhenIdle(w) ==
    /\ main = "running"
    /\ worker[w] = Idle
    /\ worker' = [worker EXCEPT ![w] = Exited]
    /\ UNCHANGED <<topo, main, depVars, nodeVars, chanClosed, nodeFailCh, cancelled>>

\* The select of an idle worker: the channel is closed or the context done.
workerReturn(w) ==
    /\ main = "running"
    /\ worker[w] = Idle
    /\ chanClosed \/ cancelled
    /\ worker' = [worker EXCEPT ![w] = Exited]
    /\ UNCHANGED <<topo, main, depVars, nodeVars, chanClosed, nodeFailCh, cancelled>>

cancelContext ==
    /\ "cancel" \in Faults
    /\ main = "running"
    /\ ~ cancelled
    /\ cancelled' = TRUE
    /\ UNCHANGED <<topo, main, depVars, nodeVars, poolVars>>

\* nodesWg.Wait, close(nodeFailCh) and the errors of the failed nodes.
collectFailures ==
    /\ main = "running"
    /\ \A w \in Worker : worker[w] = Exited
    /\ main' = IF nodeFailCh = <<>> THEN "deployed" ELSE "failed"
    /\ UNCHANGED <<topo, depVars, nodeVars, poolVars, cancelled>>

Returned == {"rejected", "deployed", "failed"}

\* Deploy has returned; goroutines that are still blocked stay blocked.
terminated == main \in Returned /\ UNCHANGED vars

Setup == \/ createStaticDynamicDependency
         \/ createWaitForDependency
         \/ dependeeNotFound
         \/ createNamespaceSharingDependency
         \/ cyclicDependencies
         \/ scheduleNodes

NodeStep(n) == \/ EnterStage(n)
               \/ waitForExternalNodeDependencies(n)
               \/ \E w \in Worker : handOver(n, w)
               \/ finishWork(n)
               \/ \E d \in deps : SignalDone(n, d)
               \/ Done(n)

NodeFault(n) == failNode(n) \/ healthError(n)

PoolStep == \/ closeChannel
            \/ \E w \in Worker : workerReturn(w)
            \/ collectFailures

Next == \/ Setup
        \/ \E n \in Node : NodeStep(n) \/ NodeFault(n)
        \/ PoolStep
        \/ cancelContext
        \/ terminated

Spec == Init /\ [][Next]_vars

\* Fairness: every goroutine that can move eventually does, a container that is
\* polled for its health or its exit eventually is healthy or exits, and the
\* injected failures and the cancellation are never forced.
Fairness == /\ WF_vars(Setup)
            /\ \A n \in Node : WF_vars(NodeStep(n))
            /\ WF_vars(closeChannel)
            /\ \A w \in Worker : WF_vars(workerReturn(w))
            /\ WF_vars(collectFailures)

FairSpec == Spec /\ Fairness

(***************************************************************************)
(* Safety.                                                                 *)
(***************************************************************************)
PC == {"new", "waiting", "external", "sending", "working", "signalling", "failed", "finished"}
Main == {"static", "wait-for", "netns", "check", "running"} \cup Returned

\* The type of the state: in particular a wait group never goes negative,
\* which would panic in SignalDone (depender_node_stage.go).
TypeOK ==
    /\ topo \in Topology
    /\ main \in Main
    /\ deps \subseteq Dependency
    /\ wg \in [Node -> [Stage -> Nat]]
    /\ mustWait \subseteq Node \X Stage
    /\ stage \in [Node -> Stage]
    /\ pc \in [Node -> PC]
    /\ signalled \subseteq Dependency
    /\ entered \subseteq Node \X Stage
    /\ completed \subseteq Node \X Stage
    /\ worker \in [Worker -> Node \cup {Idle, Exited}]
    /\ chanClosed \in BOOLEAN
    /\ nodeFailCh \in Seq(Node)
    /\ cancelled \in BOOLEAN

\* Nodes with a dynamic management address are created after every node with a
\* static one (createStaticDynamicDependency), whatever the other dependencies.
StaticBeforeDynamic ==
    \A d \in Node \ topo.static : <<d, "create">> \in entered =>
        \A s \in topo.static : <<s, "create">> \in completed

\* A node enters a stage only after every stage in its wait-for list is finished
\* by the other node (docs/manual/nodes.md, wait-for).
WaitForHonoured ==
    \A w \in topo.waitFor :
        <<w.node, w.stage>> \in entered => <<w.dependee, w.until>> \in completed

\* The owner of a shared network namespace is created before the node joining it
\* (createNamespaceSharingDependency).
NetnsOwnerFirst ==
    \A n \in Node : topo.networkMode[n] \in Node /\ <<n, "create">> \in entered =>
        <<topo.networkMode[n], "create">> \in completed

\* The order of deployment that the topology asks for, in all three ways.
OrderRespected == StaticBeforeDynamic /\ WaitForHonoured /\ NetnsOwnerFirst

\* The wait groups count exactly the recorded dependencies that Done has not
\* signalled: duplicates over several sources of dependencies included.
CountersExact ==
    \A n \in Node, s \in Stage : wg[n][s] = Cardinality(Open(n, s))

\* What a worker does with its node.
InWorker(n) == \/ pc[n] \in {"working", "signalling"}
               \/ pc[n] = "waiting" /\ stage[n] # "create"

\* The channel hands every node to exactly one worker, which keeps it until the
\* node is finished or given up.
OneWorkerPerNode ==
    /\ \A v, w \in Worker : worker[v] = worker[w] /\ worker[v] \in Node => v = w
    /\ \A n \in Node : InWorker(n) <=> \E w \in Worker : worker[w] = n

\* The two channels of a deployment are used safely.  concurrentChan is closed only
\* when no node can be sent to it any more (the send would panic); "Buffered so
\* workers never block reporting a failure" (createNodes): nodeFailCh has room for
\* the failure of every node in a worker; and when Deploy has closed nodeFailCh no
\* worker is left that could send to it.
ChannelsAreSafe ==
    /\ chanClosed => \A n \in Node : InWorker(n) \/ pc[n] \in {"failed", "finished"}
    /\ \A n \in Node : InWorker(n) => Len(nodeFailCh) < Cardinality(Node)
    /\ main \in {"deployed", "failed"} => \A n \in Node : ~ InWorker(n)

\* Deploy reports success only if every node went through all the stages of its
\* own, unless the deployment was interrupted; a failed node makes it fail.
SuccessIsComplete ==
    /\ main = "deployed" /\ ~ cancelled =>
          \A n \in Node : pc[n] = "finished" /\ <<n, "configure">> \in completed
    /\ main \in {"deployed", "failed"} /\ (\E n \in Node : pc[n] = "failed") => main = "failed"

\* The commands of the stages a node goes through on its own are run: a healthy
\* stage is entered for its execs even if nobody waits for it (NewDependencyNode).
StageExecsRun ==
    main = "deployed" /\ ~ cancelled =>
        {x \in topo.execs : x[2] # "exit"} \subseteq entered

\* Nothing is left unsignalled by a node that is finished: its dependers cannot
\* wait for it any more, except for a healthy stage given up on an error.
NothingLeftToSignal ==
    \A d \in deps : pc[d.dependee] = "finished" =>
        \/ d \in signalled
        \/ d.until = "healthy" /\ "health" \in Faults

(***************************************************************************)
(* Refinement of the promise to the author of the topology.                *)
(***************************************************************************)
Required == {[dependee |-> d.dependee, until |-> d.until, depender |-> d.depender, at |-> d.at] :
                d \in StaticDeps \cup WaitForDeps \cup NetnsDeps}

Promise == INSTANCE StagedDeployment WITH
    Requirement <- [dependee : Node \cup {Absent}, until : Stage, depender : Node, at : Stage],
    needs       <- Required,
    abandoned   <- {n \in Node : pc[n] = "failed"},
    outcome     <- IF main \in Returned THEN main ELSE "pending"

\* Every behaviour of the scheduler is one of the promised deployment.
KeepsPromise == Promise!Spec

(***************************************************************************)
(* Liveness.                                                               *)
(***************************************************************************)
\* Deploy returns: no accepted topology leaves it waiting for ever.
DeployReturns == <>(main \in Returned)

\* A topology that passes the checks of createNodes gets all its nodes deployed.
AcceptedIsDeployed == main = "running" ~> \A n \in Node : pc[n] = "finished"
=============================================================================
