------------------------- MODULE NodeSchedulerProofs -------------------------
(***************************************************************************)
(* The order of deployment, then the worker pool and the refinement, for   *)
(* every topology, number of workers and combination of failures.          *)
(***************************************************************************)
EXTENDS NodeScheduler, FiniteSetTheorems, TLAPS

(***************************************************************************)
(* The inductive invariant, in parts.                                      *)
(***************************************************************************)

\* TypeOK without the sign of the wait groups, which needs CountersExact.
TypeInv ==
    /\ topo \in Topology
    /\ main \in Main
    /\ deps \subseteq Dependency
    /\ wg \in [Node -> [Stage -> Int]]
    /\ mustWait \subseteq Node \X Stage
    /\ stage \in [Node -> Stage]
    /\ pc \in [Node -> PC]
    /\ signalled \subseteq Dependency
    /\ entered \subseteq Node \X Stage
    /\ completed \subseteq Node \X Stage
    /\ worker \in [Worker -> Node \cup {Idle, Exited}]
    /\ chanClosed \in BOOLEAN
    /\ nodeFailCh \in Seq(Node)
    /\ cancelled \in BOOLEAN

KnownDependees == \A w \in topo.waitFor : w.dependee \in Node

\* The dependencies recorded so far are the ones the topology asks for.
DepsRecorded ==
    /\ main = "static" => deps = {}
    /\ main = "wait-for" => deps = StaticDeps
    /\ main = "netns" => KnownDependees /\ deps = StaticDeps \cup WaitForDeps
    /\ main \in {"check", "running", "deployed", "failed"} =>
          KnownDependees /\ deps = StaticDeps \cup WaitForDeps \cup NetnsDeps

\* No node moves before the dependencies are recorded and checked.
NotStarted ==
    main \in {"static", "wait-for", "netns", "check", "rejected"} =>
        /\ \A n \in Node : pc[n] = "new" /\ stage[n] = "create"
        /\ entered = {} /\ completed = {} /\ signalled = {}
        /\ \A w \in Worker : worker[w] = Idle
        /\ ~ chanClosed
        /\ nodeFailCh = <<>>

\* Only the dependencies on a completed stage are signalled.
SignalledCompleted ==
    \A d \in signalled : d \in deps /\ <<d.dependee, d.until>> \in completed

WorkCompleted == \A n \in Node : pc[n] = "signalling" => <<n, stage[n]>> \in completed

\* A stage is entered only when all its dependencies are signalled.
EnteredUnblocked ==
    \A d \in deps : <<d.depender, d.at>> \in entered => d \in signalled

OrderInv == /\ TypeInv /\ DepsRecorded /\ NotStarted /\ CountersExact
            /\ SignalledCompleted /\ WorkCompleted /\ EnteredUnblocked

(***************************************************************************)
(* Facts about dependencies.                                               *)
(***************************************************************************)

\* There are finitely many possible dependencies.
LEMMA DependencyFinite == IsFiniteSet(Dependency)
<1> DEFINE T == (Node \X Stage) \X ((Node \X Stage) \X Origin)
           f == [d \in Dependency |->
                    <<<<d.dependee, d.until>>, <<<<d.depender, d.at>>, d.why>>>>]
<1>1. IsFiniteSet(Stage) /\ IsFiniteSet(Origin)
  <2>1. Stage = ((((({} \cup {"create"}) \cup {"create-links"}) \cup {"configure"})
                   \cup {"healthy"}) \cup {"exit"})
    BY DEF Stage
  <2>2. Origin = ((({} \cup {"static"}) \cup {"wait-for"}) \cup {"netns"})
    BY DEF Origin
  <2>3. IsFiniteSet(Stage)
    BY <2>1, FS_EmptySet, FS_AddElement, Zenon
  <2>4. IsFiniteSet(Origin)
    BY <2>2, FS_EmptySet, FS_AddElement, Zenon
  <2> QED
    BY <2>3, <2>4
<1>2. IsFiniteSet(Node \X Stage)
  BY <1>1, NodeAssumption, FS_Product
<1>3. IsFiniteSet((Node \X Stage) \X Origin)
  BY <1>1, <1>2, FS_Product
<1>4. IsFiniteSet(T)
  BY <1>2, <1>3, FS_Product
<1>5. f \in [Dependency -> T]
  BY DEF Dependency
<1>6. ASSUME NEW a \in Dependency, NEW b \in Dependency, f[a] = f[b] PROVE a = b
  <2>1. /\ a.dependee = b.dependee /\ a.until = b.until
        /\ a.depender = b.depender /\ a.at = b.at /\ a.why = b.why
    BY <1>6
  <2> QED
    BY <2>1 DEF Dependency
<1>7. f \in Injection(Dependency, T)
  BY <1>5, <1>6 DEF Injection, IsInjective
<1> QED
  BY <1>4, <1>7, FS_Injection

\* The dependencies of the three sources are dependencies between nodes.
LEMMA DepTypes ==
    ASSUME topo \in Topology
    PROVE  /\ StaticDeps \subseteq Dependency
           /\ NetnsDeps \subseteq Dependency
           /\ KnownDependees => WaitForDeps \subseteq Dependency
<1>1. StaticDeps \subseteq Dependency
  BY DEF StaticDeps, Dep, Dependency, Topology, Stage, Origin
<1>2. NetnsDeps \subseteq Dependency
  BY DEF NetnsDeps, Dep, Dependency, Stage, Origin
<1>3. ASSUME KnownDependees PROVE WaitForDeps \subseteq Dependency
  BY <1>3 DEF KnownDependees, WaitForDeps, Dep, Dependency, Topology, WaitFor, Origin
<1> QED
  BY <1>1, <1>2, <1>3

\* Each source creates entries of its own: nothing it adds is already there.
LEMMA DepsDisjoint ==
    /\ \A d \in StaticDeps : d.why = "static"
    /\ \A d \in WaitForDeps : d.why = "wait-for"
    /\ \A d \in NetnsDeps : d.why = "netns"
  BY DEF StaticDeps, WaitForDeps, NetnsDeps, Dep

\* The cardinality of a disjoint union.
LEMMA CardDisjoint ==
    ASSUME NEW S, NEW T, IsFiniteSet(S), IsFiniteSet(T), S \cap T = {}
    PROVE  /\ Cardinality(S \cup T) = Cardinality(S) + Cardinality(T)
           /\ Cardinality(S) \in Nat /\ Cardinality(T) \in Nat
<1>1. Cardinality(S \cup T) = Cardinality(S) + Cardinality(T) - Cardinality(S \cap T)
  BY FS_Union
<1>2. Cardinality(S \cap T) = 0 /\ Cardinality(S) \in Nat /\ Cardinality(T) \in Nat
  BY FS_EmptySet, FS_CardinalityType
<1> QED
  BY <1>1, <1>2

\* The wait groups count what AddDepender adds.
LEMMA AddKeepsCounts ==
    ASSUME TypeInv, CountersExact, signalled = {}, signalled' = {},
           NEW new \in SUBSET Dependency, new \cap deps = {}, AddDependers(new)
    PROVE  CountersExact' /\ wg' \in [Node -> [Stage -> Int]]
<1> SUFFICES ASSUME NEW n \in Node, NEW s \in Stage
             PROVE  wg'[n][s] = Cardinality(Open(n, s)') /\ wg'[n][s] \in Int
  <2>1. wg' = [n \in Node |-> [s \in Stage |-> wg'[n][s]]]
    BY DEF AddDependers
  <2> QED
    BY <2>1 DEF CountersExact
<1> DEFINE added == {d \in new : d.depender = n /\ d.at = s}
<1>1. IsFiniteSet(added) /\ IsFiniteSet(Open(n, s))
  <2>1. added \in SUBSET Dependency /\ Open(n, s) \in SUBSET Dependency
    BY DEF TypeInv, Open
  <2> QED
    BY <2>1, DependencyFinite, FS_Subset
<1>2. Open(n, s)' = Open(n, s) \cup added
  BY DEF Open, AddDependers
<1>3. Open(n, s) \cap added = {}
  BY DEF Open
<1> HIDE DEF added
<1>4. /\ Cardinality(Open(n, s)') = Cardinality(Open(n, s)) + Cardinality(added)
      /\ Cardinality(added) \in Nat /\ Cardinality(Open(n, s)) \in Nat
  BY <1>1, <1>2, <1>3, CardDisjoint
<1>5. wg'[n][s] = wg[n][s] + Cardinality(added)
  BY DEF AddDependers, added
<1>6. wg[n][s] = Cardinality(Open(n, s))
  BY DEF CountersExact
<1> QED
  BY <1>4, <1>5, <1>6

\* One signal takes one off the wait group it belongs to.
LEMMA SignalKeepsCounts ==
    ASSUME TypeInv, CountersExact, NEW n \in Node, NEW d \in deps, SignalDone(n, d)
    PROVE  CountersExact' /\ wg' \in [Node -> [Stage -> Int]]
<1>1. d \in Dependency /\ d.depender \in Node /\ d.at \in Stage
  BY DEF TypeInv, Dependency
<1>2. wg' \in [Node -> [Stage -> Int]]
  BY <1>1 DEF SignalDone, TypeInv
<1>3. ASSUME NEW m \in Node, NEW s \in Stage
      PROVE  wg'[m][s] = Cardinality(Open(m, s)')
  <2>1. wg[m][s] = Cardinality(Open(m, s)) /\ wg[m][s] \in Int
    BY DEF CountersExact, TypeInv
  <2>2. CASE m = d.depender /\ s = d.at
    <3>1. IsFiniteSet(Open(m, s))
      <4>1. Open(m, s) \in SUBSET Dependency
        BY DEF Open, TypeInv
      <4> QED
        BY <4>1, DependencyFinite, FS_Subset
    <3>2. d \in Open(m, s) /\ Open(m, s)' = Open(m, s) \ {d}
      BY <2>2 DEF Open, SignalDone
    <3>3. Cardinality(Open(m, s)') = Cardinality(Open(m, s)) - 1
      BY <3>1, <3>2, FS_RemoveElement
    <3>4. wg'[m][s] = wg[m][s] - 1
      BY <1>1, <2>2 DEF SignalDone, TypeInv
    <3> QED
      BY <2>1, <3>3, <3>4
  <2>3. CASE ~ (m = d.depender /\ s = d.at)
    <3>1. Open(m, s)' = Open(m, s)
      BY <2>3 DEF Open, SignalDone
    <3>2. wg'[m][s] = wg[m][s]
      BY <1>1, <2>3 DEF SignalDone, TypeInv
    <3> QED
      BY <2>1, <3>1, <3>2
  <2> QED
    BY <2>2, <2>3
<1> QED
  BY <1>2, <1>3 DEF CountersExact

\* nextStage names a stage or nothing.
LEMMA NextStageType ==
    ASSUME NEW n \in Node, NEW s \in Stage PROVE nextStage(n, s) \in Stage \cup {""}
  BY DEF nextStage, Stage

\* Leaving a stage keeps the types.
LEMMA LeaveStageType ==
    ASSUME TypeInv, NEW n \in Node, leaveStage(n)
    PROVE  /\ stage' \in [Node -> Stage]
           /\ pc' \in [Node -> PC]
           /\ worker' \in [Worker -> Node \cup {Idle, Exited}]
<1>1. nextStage(n, stage[n]) \in Stage \cup {""}
  BY NextStageType DEF TypeInv
<1>2. CASE nextStage(n, stage[n]) # ""
  BY <1>1, <1>2 DEF leaveStage, TypeInv, PC
<1>3. CASE nextStage(n, stage[n]) = ""
  BY <1>3 DEF leaveStage, releaseWorker, TypeInv, PC
<1> QED
  BY <1>2, <1>3

(***************************************************************************)
(* The invariant holds initially and is kept by every action.              *)
(***************************************************************************)

\* The dependencies are empty and every counter is zero before createNodes.
LEMMA InitOrderInv == Init => OrderInv
<1> SUFFICES ASSUME Init PROVE OrderInv
  OBVIOUS
<1>1. topo \in Topology
  BY TopologyAssumption DEF Init
<1>2. TypeInv
  <2>1. mustWait \subseteq Node \X Stage
    BY <1>1 DEF Init, ExecMustWait, Topology
  <2>2. wg \in [Node -> [Stage -> Int]] /\ stage \in [Node -> Stage] /\ pc \in [Node -> PC]
    BY DEF Init, PC, Stage
  <2>3. worker \in [Worker -> Node \cup {Idle, Exited}] /\ nodeFailCh \in Seq(Node)
    BY DEF Init
  <2>4. main \in Main /\ chanClosed \in BOOLEAN /\ cancelled \in BOOLEAN
    BY DEF Init, Main
  <2>5. deps = {} /\ signalled = {} /\ entered = {} /\ completed = {}
    BY DEF Init
  <2> QED
    BY <1>1, <2>1, <2>2, <2>3, <2>4, <2>5 DEF TypeInv
<1>3. CountersExact
  <2>1. \A n \in Node, s \in Stage : Open(n, s) = {} /\ wg[n][s] = 0
    BY DEF Init, Open
  <2> QED
    BY <2>1, FS_EmptySet DEF CountersExact
<1>4. DepsRecorded /\ NotStarted
  BY DEF Init, DepsRecorded, NotStarted
<1>5. SignalledCompleted /\ WorkCompleted /\ EnteredUnblocked
  BY DEF Init, SignalledCompleted, WorkCompleted, EnteredUnblocked
<1> QED
  BY <1>2, <1>3, <1>4, <1>5 DEF OrderInv

\* A setup step that records new dependencies of one source.
LEMMA RecordStep ==
    ASSUME OrderInv, main \in {"static", "wait-for", "netns"},
           NEW new \in SUBSET Dependency, new \cap deps = {}, AddDependers(new),
           main' \in {"wait-for", "netns", "check"},
           UNCHANGED <<topo, nodeVars, poolVars, cancelled>>, DepsRecorded'
    PROVE  OrderInv'
<1>1. signalled = {} /\ signalled' = {} /\ entered = {}
  BY DEF OrderInv, NotStarted, nodeVars
<1>2. CountersExact' /\ wg' \in [Node -> [Stage -> Int]]
  BY <1>1, AddKeepsCounts DEF OrderInv
<1>3. TypeInv'
  <2>1. deps' \subseteq Dependency /\ mustWait' \subseteq Node \X Stage
    BY DEF AddDependers, OrderInv, TypeInv, Dependency
  <2> QED
    BY <1>2, <2>1 DEF OrderInv, TypeInv, Main, nodeVars, poolVars
<1>4. NotStarted' /\ SignalledCompleted' /\ WorkCompleted' /\ EnteredUnblocked'
  BY <1>1 DEF OrderInv, NotStarted, SignalledCompleted, WorkCompleted, EnteredUnblocked,
              nodeVars, poolVars
<1> QED
  BY <1>2, <1>3, <1>4 DEF OrderInv

\* The steps of createNodes.
LEMMA SetupOrderInv == OrderInv /\ Setup => OrderInv'
<1> SUFFICES ASSUME OrderInv, Setup PROVE OrderInv'
  OBVIOUS
<1>t. topo \in Topology
  BY DEF OrderInv, TypeInv
<1>1. CASE createStaticDynamicDependency
  <2>1. deps = {} /\ deps' = StaticDeps /\ StaticDeps' = StaticDeps
    BY <1>1 DEF createStaticDynamicDependency, AddDependers, OrderInv, DepsRecorded, StaticDeps
  <2>2. DepsRecorded'
    BY <1>1, <2>1 DEF createStaticDynamicDependency, DepsRecorded
  <2> QED
    BY <1>t, <1>1, <2>1, <2>2, DepTypes, RecordStep DEF createStaticDynamicDependency
<1>2. CASE createWaitForDependency
  <2>1. KnownDependees /\ deps = StaticDeps
    BY <1>2 DEF createWaitForDependency, KnownDependees, OrderInv, DepsRecorded
  <2>2. topo' = topo /\ deps' = StaticDeps \cup WaitForDeps /\ main' = "netns"
    BY <1>2, <2>1 DEF createWaitForDependency, AddDependers
  <2>3. DepsRecorded'
    BY <2>1, <2>2 DEF DepsRecorded, KnownDependees, StaticDeps, WaitForDeps
  <2>4. WaitForDeps \cap deps = {}
    BY <2>1, DepsDisjoint
  <2> QED
    BY <1>t, <1>2, <2>1, <2>3, <2>4, DepTypes, RecordStep DEF createWaitForDependency
<1>3. CASE dependeeNotFound
  BY <1>3 DEF dependeeNotFound, OrderInv, TypeInv, DepsRecorded, NotStarted, CountersExact, Open,
              SignalledCompleted, WorkCompleted, EnteredUnblocked, Main, Returned,
              depVars, nodeVars, poolVars
<1>4. CASE createNamespaceSharingDependency
  <2>1. KnownDependees /\ deps = StaticDeps \cup WaitForDeps
    BY <1>4 DEF createNamespaceSharingDependency, OrderInv, DepsRecorded
  <2>2. topo' = topo /\ deps' = StaticDeps \cup WaitForDeps \cup NetnsDeps /\ main' = "check"
    BY <1>4, <2>1 DEF createNamespaceSharingDependency, AddDependers
  <2>3. DepsRecorded'
    BY <2>1, <2>2 DEF DepsRecorded, KnownDependees, StaticDeps, WaitForDeps, NetnsDeps
  <2>4. NetnsDeps \cap deps = {}
    BY <2>1, DepsDisjoint
  <2> QED
    BY <1>t, <1>4, <2>3, <2>4, DepTypes, RecordStep DEF createNamespaceSharingDependency
<1>5. CASE cyclicDependencies
  BY <1>5 DEF cyclicDependencies, OrderInv, TypeInv, DepsRecorded, NotStarted, CountersExact, Open,
              SignalledCompleted, WorkCompleted, EnteredUnblocked, Main, Returned,
              depVars, nodeVars, poolVars
<1>6. CASE scheduleNodes
  <2>1. TypeInv' /\ CountersExact'
    BY <1>6 DEF scheduleNodes, OrderInv, TypeInv, CountersExact, Open, Main, PC, depVars, poolVars
  <2>2. DepsRecorded'
    BY <1>6 DEF scheduleNodes, OrderInv, DepsRecorded, KnownDependees, StaticDeps, WaitForDeps,
                NetnsDeps, depVars
  <2>3. NotStarted' /\ SignalledCompleted' /\ WorkCompleted' /\ EnteredUnblocked'
    BY <1>6 DEF scheduleNodes, OrderInv, TypeInv, NotStarted, SignalledCompleted, WorkCompleted,
                EnteredUnblocked, depVars
  <2> QED
    BY <2>1, <2>2, <2>3 DEF OrderInv
<1> QED
  BY <1>1, <1>2, <1>3, <1>4, <1>5, <1>6 DEF Setup

\* A node that moves has been started.
LEMMA MovingNode ==
    ASSUME OrderInv, NEW n \in Node, pc[n] # "new"
    PROVE  main \in {"running", "deployed", "failed"}
  BY DEF OrderInv, TypeInv, NotStarted, Main, Returned

\* Steps that leave the recorded dependencies alone.
LEMMA SameDeps ==
    ASSUME OrderInv, UNCHANGED <<topo, deps>>,
           main' = main \/ (main = "running" /\ main' \in {"deployed", "failed"})
    PROVE  DepsRecorded'
  BY DEF OrderInv, DepsRecorded, KnownDependees, StaticDeps, WaitForDeps, NetnsDeps

\* Steps that add no dependency, signal none and let no node in.
LEMMA QuietStep ==
    ASSUME OrderInv, TypeInv', NotStarted', UNCHANGED <<topo, deps, wg, signalled, entered>>,
           main' = main \/ (main = "running" /\ main' \in {"deployed", "failed"}),
           completed \subseteq completed',
           \A m \in Node : pc'[m] = "signalling" => <<m, stage'[m]>> \in completed'
    PROVE  OrderInv'
<1>1. DepsRecorded'
  BY SameDeps
<1>2. CountersExact'
  BY DEF OrderInv, CountersExact, Open
<1>3. SignalledCompleted' /\ WorkCompleted' /\ EnteredUnblocked'
  BY DEF OrderInv, SignalledCompleted, WorkCompleted, EnteredUnblocked
<1> QED
  BY <1>1, <1>2, <1>3 DEF OrderInv

\* Leaving a stage keeps what the order of deployment rests on.
LEMMA LeaveStageOrder ==
    ASSUME OrderInv, NEW n \in Node, pc[n] # "new", leaveStage(n),
           UNCHANGED <<topo, main, depVars, signalled, entered, completed,
                       chanClosed, nodeFailCh, cancelled>>
    PROVE  OrderInv'
<1>1. TypeInv'
  BY LeaveStageType DEF OrderInv, TypeInv, depVars
<1>2. \A m \in Node : pc'[m] = "signalling" => pc[m] = "signalling" /\ stage'[m] = stage[m]
  BY DEF leaveStage, OrderInv, TypeInv
<1>3. NotStarted'
  BY MovingNode DEF NotStarted
<1> QED
  BY <1>1, <1>2, <1>3, QuietStep DEF OrderInv, WorkCompleted, depVars

\* The steps of a node's goroutine and of its worker.
LEMMA NodeOrderInv ==
    ASSUME OrderInv, NEW n \in Node, NodeStep(n) \/ NodeFault(n)
    PROVE  OrderInv'
<1>1. CASE EnterStage(n)
  <2>1. Open(n, stage[n]) = {}
    <3>1. Cardinality(Open(n, stage[n])) = 0
      BY <1>1 DEF EnterStage, OrderInv, CountersExact, TypeInv
    <3>2. Open(n, stage[n]) \in SUBSET Dependency
      BY DEF Open, OrderInv, TypeInv
    <3>3. IsFiniteSet(Open(n, stage[n]))
      BY <3>2, DependencyFinite, FS_Subset
    <3> QED
      BY <3>1, <3>3, FS_EmptySet
  <2>2. EnteredUnblocked'
    BY <1>1, <2>1 DEF EnterStage, Open, OrderInv, EnteredUnblocked, depVars
  <2>3. DepsRecorded'
    BY <1>1, SameDeps DEF EnterStage, depVars
  <2>4. NotStarted'
    BY <1>1, MovingNode DEF EnterStage, NotStarted
  <2>5. TypeInv'
    BY <1>1 DEF EnterStage, OrderInv, TypeInv, PC, depVars, poolVars
  <2>6. CountersExact' /\ SignalledCompleted' /\ WorkCompleted'
    BY <1>1 DEF EnterStage, OrderInv, TypeInv, CountersExact, Open, SignalledCompleted,
                WorkCompleted, depVars
  <2> QED
    BY <2>2, <2>3, <2>4, <2>5, <2>6 DEF OrderInv
<1>2. CASE waitForExternalNodeDependencies(n)
  <2>1. NotStarted'
    BY <1>2, MovingNode DEF waitForExternalNodeDependencies, NotStarted
  <2>2. TypeInv'
    BY <1>2 DEF waitForExternalNodeDependencies, OrderInv, TypeInv, PC, depVars, poolVars
  <2>3. \A m \in Node : pc'[m] = "signalling" => <<m, stage'[m]>> \in completed'
    BY <1>2 DEF waitForExternalNodeDependencies, OrderInv, TypeInv, WorkCompleted
  <2> QED
    BY <1>2, <2>1, <2>2, <2>3, QuietStep DEF waitForExternalNodeDependencies, depVars
<1>3. CASE \E w \in Worker : handOver(n, w)
  <2> PICK w \in Worker : handOver(n, w)
    BY <1>3
  <2>1. NotStarted'
    BY MovingNode DEF handOver, NotStarted
  <2>2. TypeInv'
    BY DEF handOver, OrderInv, TypeInv, PC, depVars
  <2>3. \A m \in Node : pc'[m] = "signalling" => <<m, stage'[m]>> \in completed'
    BY DEF handOver, OrderInv, TypeInv, WorkCompleted
  <2> QED
    BY <2>1, <2>2, <2>3, QuietStep DEF handOver, depVars
<1>4. CASE finishWork(n)
  <2>1. NotStarted'
    BY <1>4, MovingNode DEF finishWork, NotStarted
  <2>2. TypeInv'
    BY <1>4 DEF finishWork, OrderInv, TypeInv, PC, depVars, poolVars
  <2>3. \A m \in Node : pc'[m] = "signalling" => <<m, stage'[m]>> \in completed'
    BY <1>4 DEF finishWork, OrderInv, TypeInv, WorkCompleted
  <2> QED
    BY <1>4, <2>1, <2>2, <2>3, QuietStep DEF finishWork, depVars
<1>5. CASE \E d \in deps : SignalDone(n, d)
  <2> PICK d \in deps : SignalDone(n, d)
    BY <1>5
  <2>1. CountersExact' /\ wg' \in [Node -> [Stage -> Int]]
    BY SignalKeepsCounts DEF OrderInv
  <2>2. <<d.dependee, d.until>> \in completed
    BY DEF SignalDone, OrderInv, WorkCompleted
  <2>3. DepsRecorded'
    BY SameDeps DEF SignalDone
  <2>4. NotStarted'
    BY MovingNode DEF SignalDone, NotStarted
  <2>5. TypeInv'
    BY <2>1 DEF SignalDone, OrderInv, TypeInv, poolVars
  <2>6. SignalledCompleted' /\ WorkCompleted' /\ EnteredUnblocked'
    BY <2>2 DEF SignalDone, OrderInv, SignalledCompleted, WorkCompleted, EnteredUnblocked
  <2> QED
    BY <2>1, <2>3, <2>4, <2>5, <2>6 DEF OrderInv
<1>6. CASE Done(n)
  BY <1>6, LeaveStageOrder DEF Done
<1>7. CASE failNode(n)
  <2>1. NotStarted'
    BY <1>7, MovingNode DEF failNode, NotStarted
  <2>2. TypeInv'
    <3>1. nodeFailCh' \in Seq(Node)
      BY <1>7 DEF failNode, OrderInv, TypeInv
    <3>2. worker' \in [Worker -> Node \cup {Idle, Exited}] /\ pc' \in [Node -> PC]
      BY <1>7 DEF failNode, releaseWorker, OrderInv, TypeInv, PC
    <3> QED
      BY <1>7, <3>1, <3>2 DEF failNode, OrderInv, TypeInv, depVars
  <2>3. \A m \in Node : pc'[m] = "signalling" => <<m, stage'[m]>> \in completed'
    BY <1>7 DEF failNode, OrderInv, TypeInv, WorkCompleted
  <2> QED
    BY <1>7, <2>1, <2>2, <2>3, QuietStep DEF failNode, depVars
<1>8. CASE healthError(n)
  BY <1>8, LeaveStageOrder DEF healthError
<1> QED
  BY <1>1, <1>2, <1>3, <1>4, <1>5, <1>6, <1>7, <1>8 DEF NodeStep, NodeFault

\* The steps of the pool and of Deploy, and the cancellation.
LEMMA PoolOrderInv ==
    ASSUME OrderInv, PoolStep \/ cancelContext \/ UNCHANGED vars
    PROVE  OrderInv'
<1>1. UNCHANGED <<topo, deps, wg, signalled, entered, completed, pc, stage>>
  BY DEF PoolStep, closeChannel, workerReturn, collectFailures, cancelContext,
         depVars, nodeVars, vars
<1>2. main' = main \/ (main = "running" /\ main' \in {"deployed", "failed"})
  BY DEF PoolStep, closeChannel, workerReturn, collectFailures, cancelContext, vars
<1>3. TypeInv'
  <2>1. worker' \in [Worker -> Node \cup {Idle, Exited}]
    BY DEF OrderInv, TypeInv, PoolStep, closeChannel, workerReturn, collectFailures,
           cancelContext, poolVars, vars
  <2>2. mustWait' = mustWait /\ nodeFailCh' = nodeFailCh
    BY DEF PoolStep, closeChannel, workerReturn, collectFailures, cancelContext,
           depVars, poolVars, vars
  <2>3. chanClosed' \in BOOLEAN /\ cancelled' \in BOOLEAN
    BY DEF OrderInv, TypeInv, PoolStep, closeChannel, workerReturn, collectFailures,
           cancelContext, poolVars, vars
  <2> QED
    BY <1>1, <1>2, <2>1, <2>2, <2>3 DEF OrderInv, TypeInv, Main, Returned
<1>4. NotStarted'
  <2>1. CASE main = "running"
    BY <1>2, <2>1 DEF NotStarted
  <2>2. CASE main # "running"
    <3>1. UNCHANGED <<main, worker, chanClosed, nodeFailCh>>
      BY <2>2 DEF PoolStep, closeChannel, workerReturn, collectFailures, cancelContext,
                  poolVars, vars
    <3> QED
      BY <1>1, <3>1 DEF OrderInv, NotStarted
  <2> QED
    BY <2>1, <2>2
<1> QED
  BY <1>1, <1>2, <1>3, <1>4, QuietStep DEF OrderInv, WorkCompleted

\* Every step of createNodes, of a node and of the worker pool keeps it.
LEMMA NextOrderInv == OrderInv /\ [Next]_vars => OrderInv'
  BY SetupOrderInv, NodeOrderInv, PoolOrderInv DEF Next, terminated

\* The invariant holds in every reachable state.
THEOREM OrderInvHolds == Spec => []OrderInv
  BY InitOrderInv, NextOrderInv, PTL DEF Spec

(***************************************************************************)
(* What it establishes.                                                    *)
(***************************************************************************)

\* A wait group that counts a finite set is never negative.
LEMMA CountersNatural == ASSUME OrderInv PROVE TypeOK
<1>1. ASSUME NEW n \in Node, NEW s \in Stage PROVE wg[n][s] \in Nat
  <2>1. Open(n, s) \in SUBSET Dependency
    BY DEF Open, OrderInv, TypeInv
  <2>2. IsFiniteSet(Open(n, s))
    BY <2>1, DependencyFinite, FS_Subset
  <2> QED
    BY <2>2, FS_CardinalityType DEF OrderInv, CountersExact
<1>2. wg \in [Node -> [Stage -> Nat]]
  BY <1>1 DEF OrderInv, TypeInv
<1> QED
  BY <1>2 DEF OrderInv, TypeInv, TypeOK

\* The scheduler is type correct; in particular no wait group of a stage ever
\* goes negative, so SignalDone never panics.
THEOREM TypeCorrect == Spec => []TypeOK
  BY OrderInvHolds, CountersNatural, PTL

\* The wait groups count the recorded and unsignalled dependencies exactly.
THEOREM CountersAreExact == Spec => []CountersExact
<1>1. OrderInv => CountersExact
  BY DEF OrderInv
<1> QED
  BY <1>1, OrderInvHolds, PTL

\* Each dependency of the topology is recorded once a node has moved, and the
\* recorded ones are completed when the stage they hold back is entered.
LEMMA OrderFollows == ASSUME OrderInv PROVE OrderRespected
<1>1. CASE entered = {}
  BY <1>1 DEF OrderRespected, StaticBeforeDynamic, WaitForHonoured, NetnsOwnerFirst
<1>2. CASE entered # {}
  <2>1. main \in {"running", "deployed", "failed"}
    BY <1>2 DEF OrderInv, NotStarted, TypeInv, Main, Returned
  <2>2. deps = StaticDeps \cup WaitForDeps \cup NetnsDeps
    BY <2>1 DEF OrderInv, DepsRecorded
  <2>3. \A d \in deps : <<d.depender, d.at>> \in entered => <<d.dependee, d.until>> \in completed
    BY DEF OrderInv, EnteredUnblocked, SignalledCompleted
  <2>4. StaticBeforeDynamic
    <3> SUFFICES ASSUME NEW d \in Node \ topo.static, <<d, "create">> \in entered,
                        NEW s \in topo.static
                 PROVE  <<s, "create">> \in completed
      BY DEF StaticBeforeDynamic
    <3>1. Dep(s, "create", d, "create", "static") \in deps
      BY <2>2 DEF StaticDeps
    <3> QED
      BY <2>3, <3>1 DEF Dep
  <2>5. WaitForHonoured
    <3> SUFFICES ASSUME NEW w \in topo.waitFor, <<w.node, w.stage>> \in entered
                 PROVE  <<w.dependee, w.until>> \in completed
      BY DEF WaitForHonoured
    <3>1. Dep(w.dependee, w.until, w.node, w.stage, "wait-for") \in deps
      BY <2>2 DEF WaitForDeps
    <3> QED
      BY <2>3, <3>1 DEF Dep
  <2>6. NetnsOwnerFirst
    <3> SUFFICES ASSUME NEW n \in Node, topo.networkMode[n] \in Node, <<n, "create">> \in entered
                 PROVE  <<topo.networkMode[n], "create">> \in completed
      BY DEF NetnsOwnerFirst
    <3>1. Dep(topo.networkMode[n], "create", n, "create", "netns") \in deps
      BY <2>2 DEF NetnsDeps
    <3> QED
      BY <2>3, <3>1 DEF Dep
  <2> QED
    BY <2>4, <2>5, <2>6 DEF OrderRespected
<1> QED
  BY <1>1, <1>2

\* Whatever the workers, the failures and the interleaving, no stage is entered
\* before everything the topology makes it wait for is completed.
THEOREM OrderIsRespected == Spec => []OrderRespected
  BY OrderInvHolds, OrderFollows, PTL

(***************************************************************************)
(* The worker pool of the scheduler and the stages of a node, for every    *)
(* topology, every number of workers and every combination of failures:    *)
(* the channels are safe, success is complete, nothing is left to signal,  *)
(* and the scheduler implements StagedDeployment.                          *)
(***************************************************************************)

(***************************************************************************)
(* The inductive invariant of the pool.                                    *)
(***************************************************************************)
GivenUp == {n \in Node : pc[n] = "failed"}

\* The first clause of ChannelsAreSafe: concurrentChan is closed when every node
\* has been handed over.
ClosedLate ==
    chanClosed => \A n \in Node : InWorker(n) \/ pc[n] \in {"failed", "finished"}

\* One failure is buffered per node that was given up.
FailuresCounted == Len(nodeFailCh) = Cardinality(GivenUp)

\* Why a worker has returned, and what Deploy has seen when it has returned.
ReturnsJustified ==
    /\ \A w \in Worker : worker[w] = Exited => chanClosed \/ cancelled
    /\ main \in {"deployed", "failed"} => \A w \in Worker : worker[w] = Exited
    /\ main = "deployed" => nodeFailCh = <<>>
    /\ main = "failed" => nodeFailCh # <<>>

PoolInv == OneWorkerPerNode /\ ClosedLate /\ FailuresCounted /\ ReturnsJustified

(***************************************************************************)
(* The inductive invariant of the stages of a node.                        *)
(***************************************************************************)

\* The stages before s, those included that a node may leave out.
Passed(s) == IF s = "create" THEN {}
             ELSE IF s = "create-links" THEN {"create"}
             ELSE IF s = "configure" THEN {"create", "create-links"}
             ELSE IF s = "healthy" THEN {"create", "create-links", "configure"}
             ELSE {"create", "create-links", "configure", "healthy"}

\* A node is in a stage once EnterStage has returned.
Inside(n) == pc[n] \notin {"new", "waiting"}

\* A node has entered exactly the stages on its way: only healthy is ever left out,
\* and only if nobody waits for it.
EnteredOnTheWay ==
    \A n \in Node, s \in Stage :
        <<n, s>> \in entered <=>
            \/ s \in Passed(stage[n]) /\ (s = "healthy" => <<n, s>> \in mustWait)
            \/ s = stage[n] /\ Inside(n)

\* It has completed nothing else, and all that it cannot go on without.
CompletedOnTheWay ==
    \A n \in Node, s \in Stage :
        /\ <<n, s>> \in completed =>
              s \in Passed(stage[n]) \/ (s = stage[n] /\ pc[n] \in {"signalling", "finished"})
        /\ s \in Passed(stage[n]) /\ s # "healthy" => <<n, s>> \in completed

\* A finished node has no stage ahead, and its configure stage is behind it.
FinishedAtTheEnd ==
    \A n \in Node : pc[n] = "finished" =>
        nextStage(n, stage[n]) = "" /\ <<n, "configure">> \in completed

\* Stages that somebody waits for, or with commands, are marked, and a node is in an
\* optional stage only if it is.
Marked ==
    /\ \A d \in deps : <<d.dependee, d.until>> \in mustWait
    /\ ExecMustWait \subseteq mustWait
    /\ \A n \in Node : stage[n] \in {"healthy", "exit"} => <<n, stage[n]>> \in mustWait

\* Nobody is left waiting for a stage that a node has left behind.
SignalledBehind ==
    \A d \in deps :
        pc[d.dependee] = "finished" \/ d.until \in Passed(stage[d.dependee]) =>
            \/ d \in signalled
            \/ d.until = "healthy" /\ "health" \in Faults

StageInv == EnteredOnTheWay /\ CompletedOnTheWay /\ FinishedAtTheEnd /\ Marked /\ SignalledBehind

(***************************************************************************)
(* The pool.                                                               *)
(***************************************************************************)

\* The next stage is never create: its node is in a worker.
LEMMA NextStageLater ==
    ASSUME NEW n \in Node, NEW s \in Stage PROVE nextStage(n, s) # "create"
  BY DEF nextStage, Stage

\* No channel is in use and no worker has a node before createNodes.
LEMMA InitPoolInv == Init => PoolInv
<1> SUFFICES ASSUME Init PROVE PoolInv
  OBVIOUS
<1>1. OneWorkerPerNode
  BY NodeAssumption DEF Init, OneWorkerPerNode, InWorker, Idle
<1>2. FailuresCounted
  <2>1. GivenUp = {}
    BY DEF GivenUp, Init
  <2> QED
    BY <2>1, FS_EmptySet DEF FailuresCounted, Init
<1>3. ClosedLate /\ ReturnsJustified
  BY DEF Init, ClosedLate, ReturnsJustified, Idle, Exited
<1> QED
  BY <1>1, <1>2, <1>3 DEF PoolInv

\* A step that gives up no node keeps the count of the failures.
LEMMA SameFailures ==
    ASSUME FailuresCounted, nodeFailCh' = nodeFailCh,
           \A m \in Node : pc'[m] = "failed" <=> pc[m] = "failed"
    PROVE  FailuresCounted'
<1>1. GivenUp' = GivenUp
  BY DEF GivenUp
<1> QED
  BY <1>1 DEF FailuresCounted

\* createNodes has the nodes and the workers for itself.
LEMMA SetupPoolInv ==
    ASSUME OrderInv, PoolInv, Setup PROVE PoolInv'
<1>1. /\ \A n \in Node : pc[n] = "new" /\ stage[n] = "create"
      /\ \A w \in Worker : worker[w] = Idle
      /\ ~ chanClosed
      /\ UNCHANGED <<stage, worker, chanClosed, nodeFailCh, cancelled>>
  BY DEF OrderInv, NotStarted, Setup, createStaticDynamicDependency, createWaitForDependency,
         dependeeNotFound, createNamespaceSharingDependency, cyclicDependencies, scheduleNodes,
         nodeVars, poolVars
<1>2. pc' = pc \/ pc' = [n \in Node |-> "waiting"]
  BY DEF Setup, createStaticDynamicDependency, createWaitForDependency,
         dependeeNotFound, createNamespaceSharingDependency, cyclicDependencies, scheduleNodes,
         nodeVars
<1>3. main' \notin {"deployed", "failed"}
  BY DEF Setup, createStaticDynamicDependency, createWaitForDependency,
         dependeeNotFound, createNamespaceSharingDependency, cyclicDependencies, scheduleNodes
<1>4. OneWorkerPerNode'
  BY <1>1, <1>2, NodeAssumption DEF OneWorkerPerNode, InWorker, Idle
<1>5. FailuresCounted'
  BY <1>1, <1>2, SameFailures DEF PoolInv
<1>6. ClosedLate' /\ ReturnsJustified'
  BY <1>1, <1>3 DEF PoolInv, ClosedLate, ReturnsJustified, Idle, Exited
<1> QED
  BY <1>4, <1>5, <1>6 DEF PoolInv

\* A node that moves without changing hands.
LEMMA SameHands ==
    ASSUME TypeInv, PoolInv, NEW n \in Node,
           pc' = [pc EXCEPT ![n] = pc'[n]], stage' = [stage EXCEPT ![n] = stage'[n]],
           InWorker(n)' <=> InWorker(n),
           pc[n] \notin {"failed", "finished"}, pc'[n] # "failed",
           UNCHANGED <<main, worker, chanClosed, nodeFailCh, cancelled>>
    PROVE  PoolInv'
<1>1. \A m \in Node : m # n => pc'[m] = pc[m] /\ stage'[m] = stage[m]
  BY DEF TypeInv
<1>2. \A m \in Node : InWorker(m)' <=> InWorker(m)
  BY <1>1 DEF InWorker
<1>3. OneWorkerPerNode'
  BY <1>2 DEF PoolInv, OneWorkerPerNode
<1>4. FailuresCounted'
  BY <1>1, SameFailures DEF PoolInv
<1>5. ClosedLate' /\ ReturnsJustified'
  BY <1>1, <1>2 DEF PoolInv, ClosedLate, ReturnsJustified
<1> QED
  BY <1>3, <1>4, <1>5 DEF PoolInv

\* A node whose worker is done with it.
LEMMA WorkerReleased ==
    ASSUME TypeInv, PoolInv, NEW n \in Node, InWorker(n),
           pc' = [pc EXCEPT ![n] = "finished"] \/ pc' = [pc EXCEPT ![n] = "failed"],
           worker' = releaseWorker(n), stage' = stage
    PROVE  /\ OneWorkerPerNode'
           /\ main \notin {"deployed", "failed"}
           /\ \A w \in Worker : worker'[w] = Exited => worker[w] = Exited
           /\ chanClosed' = chanClosed => ClosedLate'
<1>1. \A m \in Node : m # n => (InWorker(m)' <=> InWorker(m))
  BY DEF InWorker, TypeInv
<1>2. ~ InWorker(n)' /\ pc'[n] \in {"failed", "finished"}
  BY DEF InWorker, TypeInv
<1>3. \A w \in Worker : worker'[w] = IF worker[w] = n THEN Idle ELSE worker[w]
  BY DEF releaseWorker
<1>4. Idle \notin Node /\ Exited \notin Node /\ Idle # Exited
  BY NodeAssumption DEF Idle, Exited
<1>5. OneWorkerPerNode'
  <2>1. \A v, w \in Worker : worker'[v] = worker'[w] /\ worker'[v] \in Node => v = w
    BY <1>3, <1>4 DEF PoolInv, OneWorkerPerNode
  <2>2. ASSUME NEW m \in Node PROVE InWorker(m)' <=> \E w \in Worker : worker'[w] = m
    BY <1>1, <1>2, <1>3, <1>4 DEF PoolInv, OneWorkerPerNode
  <2> QED
    BY <2>1, <2>2 DEF OneWorkerPerNode
<1>6. main \notin {"deployed", "failed"}
  BY <1>4 DEF PoolInv, OneWorkerPerNode, ReturnsJustified
<1>7. chanClosed' = chanClosed => ClosedLate'
  BY <1>1, <1>2 DEF PoolInv, ClosedLate, TypeInv
<1> QED
  BY <1>3, <1>4, <1>5, <1>6, <1>7

\* Leaving a stage: on to the next one, or out of the pool.
LEMMA LeaveStagePool ==
    ASSUME OrderInv, PoolInv, NEW n \in Node, pc[n] \in {"working", "signalling"}, leaveStage(n),
           UNCHANGED <<main, chanClosed, nodeFailCh, cancelled>>
    PROVE  PoolInv'
<1>1. TypeInv /\ InWorker(n)
  BY DEF OrderInv, InWorker
<1>2. CASE nextStage(n, stage[n]) # ""
  <2>1. /\ stage' = [stage EXCEPT ![n] = nextStage(n, stage[n])]
        /\ pc' = [pc EXCEPT ![n] = "waiting"]
        /\ worker' = worker
    BY <1>2 DEF leaveStage
  <2>2. nextStage(n, stage[n]) # "create"
    BY <1>1, NextStageLater DEF TypeInv
  <2>3. pc'[n] = "waiting" /\ stage'[n] # "create"
    BY <1>1, <2>1, <2>2 DEF TypeInv
  <2>4. InWorker(n)'
    BY <2>3 DEF InWorker
  <2>5. pc' = [pc EXCEPT ![n] = pc'[n]] /\ stage' = [stage EXCEPT ![n] = stage'[n]]
    BY <1>1, <2>1 DEF TypeInv
  <2> QED
    BY <1>1, <2>1, <2>3, <2>4, <2>5, SameHands
<1>3. CASE nextStage(n, stage[n]) = ""
  <2>1. pc' = [pc EXCEPT ![n] = "finished"] /\ worker' = releaseWorker(n) /\ stage' = stage
    BY <1>3 DEF leaveStage
  <2>2. /\ OneWorkerPerNode' /\ ClosedLate'
        /\ \A w \in Worker : worker'[w] = Exited => worker[w] = Exited
        /\ main \notin {"deployed", "failed"}
    BY <1>1, <2>1, WorkerReleased
  <2>3. ReturnsJustified'
    BY <2>2 DEF PoolInv, ReturnsJustified
  <2>4. FailuresCounted'
    BY <1>1, <2>1, SameFailures DEF PoolInv, TypeInv
  <2> QED
    BY <2>2, <2>3, <2>4 DEF PoolInv
<1> QED
  BY <1>2, <1>3

\* The steps of a node's goroutine and of its worker.
LEMMA NodePoolInv ==
    ASSUME OrderInv, PoolInv, NEW n \in Node, NodeStep(n) \/ NodeFault(n)
    PROVE  PoolInv'
<1>0. TypeInv
  BY DEF OrderInv
<1>1. CASE EnterStage(n)
  <2>1. pc'[n] = (IF stage[n] = "create" THEN "external" ELSE "working") /\ pc[n] = "waiting"
    BY <1>0, <1>1 DEF EnterStage, TypeInv
  <2>2. pc' = [pc EXCEPT ![n] = pc'[n]] /\ stage' = [stage EXCEPT ![n] = stage'[n]]
    BY <1>0, <1>1 DEF EnterStage, TypeInv
  <2>3. InWorker(n)' <=> InWorker(n)
    BY <1>1, <2>1 DEF EnterStage, InWorker
  <2>4. pc[n] \notin {"failed", "finished"} /\ pc'[n] # "failed"
    BY <2>1
  <2>5. UNCHANGED <<main, worker, chanClosed, nodeFailCh, cancelled>>
    BY <1>1 DEF EnterStage, poolVars
  <2> QED
    BY <1>0, <2>2, <2>3, <2>4, <2>5, SameHands
<1>2. CASE waitForExternalNodeDependencies(n)
  <2>1. pc[n] = "external" /\ pc'[n] = "sending" /\ pc' = [pc EXCEPT ![n] = pc'[n]]
    BY <1>0, <1>2 DEF waitForExternalNodeDependencies, TypeInv
  <2>2. stage' = [stage EXCEPT ![n] = stage'[n]]
    BY <1>0, <1>2 DEF waitForExternalNodeDependencies, TypeInv
  <2>3. InWorker(n)' <=> InWorker(n)
    BY <2>1 DEF InWorker
  <2> QED
    BY <1>0, <1>2, <2>1, <2>2, <2>3, SameHands DEF waitForExternalNodeDependencies, poolVars
<1>3. CASE \E w \in Worker : handOver(n, w)
  <2> PICK w \in Worker : handOver(n, w)
    BY <1>3
  <2>1. /\ pc[n] = "sending" /\ worker[w] = Idle /\ ~ chanClosed
        /\ worker' = [worker EXCEPT ![w] = n] /\ pc' = [pc EXCEPT ![n] = "working"]
        /\ UNCHANGED <<main, stage, chanClosed, nodeFailCh, cancelled>>
    BY DEF handOver
  <2>2. Idle \notin Node /\ Exited \notin Node /\ Idle # Exited
    BY NodeAssumption DEF Idle, Exited
  <2>3. /\ \A m \in Node : m # n => (InWorker(m)' <=> InWorker(m))
        /\ InWorker(n)' /\ ~ InWorker(n)
    BY <1>0, <2>1 DEF InWorker, TypeInv
  <2>4. \A v \in Worker : worker'[v] = IF v = w THEN n ELSE worker[v]
    BY <1>0, <2>1 DEF TypeInv
  <2>5. OneWorkerPerNode'
    <3>1. \A v, x \in Worker : worker'[v] = worker'[x] /\ worker'[v] \in Node => v = x
      BY <2>3, <2>4 DEF PoolInv, OneWorkerPerNode
    <3>2. ASSUME NEW m \in Node PROVE InWorker(m)' <=> \E v \in Worker : worker'[v] = m
      BY <2>1, <2>2, <2>3, <2>4 DEF PoolInv, OneWorkerPerNode
    <3> QED
      BY <3>1, <3>2 DEF OneWorkerPerNode
  <2>6. FailuresCounted'
    BY <1>0, <2>1, SameFailures DEF PoolInv, TypeInv
  <2>7. ClosedLate' /\ ReturnsJustified'
    BY <2>1, <2>2, <2>4 DEF PoolInv, ClosedLate, ReturnsJustified
  <2> QED
    BY <2>5, <2>6, <2>7 DEF PoolInv
<1>4. CASE finishWork(n)
  <2>1. pc[n] = "working" /\ pc'[n] = "signalling" /\ pc' = [pc EXCEPT ![n] = pc'[n]]
    BY <1>0, <1>4 DEF finishWork, TypeInv
  <2>2. stage' = [stage EXCEPT ![n] = stage'[n]]
    BY <1>0, <1>4 DEF finishWork, TypeInv
  <2>3. InWorker(n)' <=> InWorker(n)
    BY <2>1 DEF InWorker
  <2> QED
    BY <1>0, <1>4, <2>1, <2>2, <2>3, SameHands DEF finishWork, poolVars
<1>5. CASE \E d \in deps : SignalDone(n, d)
  <2>1. pc[n] = "signalling" /\ UNCHANGED <<main, stage, pc, worker, chanClosed, nodeFailCh, cancelled>>
    BY <1>5 DEF SignalDone, poolVars
  <2>2. InWorker(n)' <=> InWorker(n)
    BY <2>1 DEF InWorker
  <2>3. pc' = [pc EXCEPT ![n] = pc'[n]] /\ stage' = [stage EXCEPT ![n] = stage'[n]]
    BY <1>0, <2>1 DEF TypeInv
  <2> QED
    BY <1>0, <2>1, <2>2, <2>3, SameHands
<1>6. CASE Done(n)
  BY <1>6, LeaveStagePool DEF Done
<1>7. CASE failNode(n)
  <2>1. /\ pc[n] = "working" /\ pc' = [pc EXCEPT ![n] = "failed"]
        /\ nodeFailCh' = Append(nodeFailCh, n) /\ worker' = releaseWorker(n)
        /\ UNCHANGED <<main, stage, chanClosed, cancelled>>
    BY <1>7 DEF failNode
  <2>2. InWorker(n)
    BY <2>1 DEF InWorker
  <2>3. /\ OneWorkerPerNode' /\ ClosedLate'
        /\ \A w \in Worker : worker'[w] = Exited => worker[w] = Exited
        /\ main \notin {"deployed", "failed"}
    BY <1>0, <2>1, <2>2, WorkerReleased
  <2>4. ReturnsJustified'
    BY <2>1, <2>3 DEF PoolInv, ReturnsJustified
  <2>5. FailuresCounted'
    <3>1. GivenUp' = GivenUp \cup {n} /\ n \notin GivenUp
      BY <1>0, <2>1 DEF GivenUp, TypeInv
    <3>2. IsFiniteSet(GivenUp)
      <4>1. GivenUp \in SUBSET Node
        BY DEF GivenUp
      <4> QED
        BY <4>1, NodeAssumption, FS_Subset
    <3>3. Cardinality(GivenUp') = Cardinality(GivenUp) + 1
      BY <3>1, <3>2, FS_AddElement
    <3>4. Len(nodeFailCh') = Len(nodeFailCh) + 1
      BY <1>0, <2>1 DEF TypeInv
    <3> QED
      BY <3>3, <3>4 DEF PoolInv, FailuresCounted
  <2> QED
    BY <2>3, <2>4, <2>5 DEF PoolInv
<1>8. CASE healthError(n)
  BY <1>8, LeaveStagePool DEF healthError
<1> QED
  BY <1>1, <1>2, <1>3, <1>4, <1>5, <1>6, <1>7, <1>8 DEF NodeStep, NodeFault

\* The close of the channel, the return of the workers and of Deploy.
LEMMA PoolPoolInv ==
    ASSUME OrderInv, PoolInv, PoolStep \/ cancelContext \/ UNCHANGED vars
    PROVE  PoolInv'
<1>0. TypeInv
  BY DEF OrderInv
<1>1. UNCHANGED <<pc, stage, nodeFailCh>>
  BY DEF PoolStep, closeChannel, workerReturn, collectFailures, cancelContext,
         nodeVars, poolVars, vars
<1>2. \A n \in Node : InWorker(n)' <=> InWorker(n)
  BY <1>1 DEF InWorker
<1>3. FailuresCounted'
  BY <1>1, SameFailures DEF PoolInv
<1>4. CASE closeChannel
  <2>1. ClosedLate'
    BY <1>1, <1>4 DEF closeChannel, ClosedLate, InWorker
  <2>2. OneWorkerPerNode' /\ ReturnsJustified'
    BY <1>1, <1>2, <1>4 DEF closeChannel, PoolInv, OneWorkerPerNode, ReturnsJustified
  <2> QED
    BY <1>3, <2>1, <2>2 DEF PoolInv
<1>5. CASE \E w \in Worker : workerReturn(w)
  <2> PICK w \in Worker : workerReturn(w)
    BY <1>5
  <2>1. /\ main = "running" /\ worker[w] = Idle /\ (chanClosed \/ cancelled)
        /\ UNCHANGED <<main, chanClosed, cancelled>>
    BY DEF workerReturn
  <2>2. \A v \in Worker : worker'[v] = IF v = w THEN Exited ELSE worker[v]
    BY <1>0 DEF workerReturn, TypeInv
  <2>3. Idle \notin Node /\ Exited \notin Node
    BY NodeAssumption DEF Idle, Exited
  <2>4. OneWorkerPerNode'
    BY <1>2, <2>1, <2>2, <2>3 DEF PoolInv, OneWorkerPerNode
  <2>5. ClosedLate' /\ ReturnsJustified'
    BY <1>1, <1>2, <2>1, <2>2 DEF PoolInv, ClosedLate, ReturnsJustified
  <2> QED
    BY <1>3, <2>4, <2>5 DEF PoolInv
<1>6. CASE collectFailures
  BY <1>1, <1>2, <1>3, <1>6
     DEF collectFailures, PoolInv, OneWorkerPerNode, ClosedLate, ReturnsJustified, poolVars
<1>7. CASE cancelContext \/ UNCHANGED vars
  BY <1>1, <1>2, <1>3, <1>7
     DEF cancelContext, vars, PoolInv, OneWorkerPerNode, ClosedLate, ReturnsJustified, poolVars
<1> QED
  BY <1>4, <1>5, <1>6, <1>7 DEF PoolStep

\* Every step of the scheduler keeps the invariant of the pool.
LEMMA NextPoolInv == OrderInv /\ PoolInv /\ [Next]_vars => PoolInv'
  BY SetupPoolInv, NodePoolInv, PoolPoolInv DEF Next, terminated

\* The invariant of the pool holds in every reachable state.
THEOREM PoolInvHolds == Spec => []PoolInv
  BY InitPoolInv, NextPoolInv, OrderInvHolds, PTL DEF Spec

(***************************************************************************)
(* The stages of a node.                                                   *)
(***************************************************************************)

\* The way to the next stage: the stage that is left, and a healthy stage that
\* is left out.
LEMMA PassedNext ==
    ASSUME NEW n \in Node, NEW s \in Stage, nextStage(n, s) # "", NEW t \in Stage
    PROVE  /\ t \in Passed(nextStage(n, s)) <=>
                 \/ t \in Passed(s) \/ t = s
                 \/ t = "healthy" /\ s = "configure" /\ <<n, "healthy">> \notin mustWait
           /\ nextStage(n, s) \in {"healthy", "exit"} => <<n, nextStage(n, s)>> \in mustWait
           /\ nextStage(n, s) \notin Passed(s) /\ nextStage(n, s) # s
           /\ s \notin Passed(s)
  BY DEF Passed, nextStage, Stage

\* Nothing is entered, and the marks are those of the stages with commands.
LEMMA InitStageInv == Init => StageInv
  BY DEF Init, StageInv, EnteredOnTheWay, CompletedOnTheWay, FinishedAtTheEnd, Marked,
         SignalledBehind, Passed, Inside

\* createNodes only adds dependencies and marks, before any node moves.
LEMMA SetupStageInv ==
    ASSUME OrderInv, StageInv, Setup PROVE StageInv'
<1>1. /\ \A n \in Node : pc[n] = "new" /\ stage[n] = "create"
      /\ entered = {} /\ completed = {}
      /\ UNCHANGED <<topo, stage, entered, completed>>
  BY DEF OrderInv, NotStarted, Setup, createStaticDynamicDependency, createWaitForDependency,
         dependeeNotFound, createNamespaceSharingDependency, cyclicDependencies, scheduleNodes,
         nodeVars
<1>2. \A n \in Node : pc'[n] \in {"new", "waiting"}
  BY <1>1 DEF Setup, createStaticDynamicDependency, createWaitForDependency,
         dependeeNotFound, createNamespaceSharingDependency, cyclicDependencies, scheduleNodes,
         nodeVars
<1>3. EnteredOnTheWay' /\ CompletedOnTheWay'
  BY <1>1, <1>2 DEF EnteredOnTheWay, CompletedOnTheWay, Passed, Inside
<1>4. FinishedAtTheEnd'
  BY <1>2 DEF FinishedAtTheEnd
<1>5. ASSUME NEW new, AddDependers(new) PROVE Marked'
  BY <1>1, <1>5 DEF AddDependers, StageInv, Marked, ExecMustWait
<1>6. Marked'
  <2>1. CASE \E new : AddDependers(new)
    BY <1>5, <2>1
  <2>2. CASE UNCHANGED depVars
    BY <1>1, <2>2 DEF depVars, StageInv, Marked, ExecMustWait
  <2> QED
    BY <2>1, <2>2 DEF Setup, createStaticDynamicDependency, createWaitForDependency,
         dependeeNotFound, createNamespaceSharingDependency, cyclicDependencies, scheduleNodes
<1>7. deps' \subseteq Dependency
  BY SetupOrderInv DEF OrderInv, TypeInv
<1>8. SignalledBehind'
  <2> SUFFICES ASSUME NEW d \in deps'
               PROVE  ~ (pc'[d.dependee] = "finished" \/ d.until \in Passed(stage'[d.dependee]))
    BY DEF SignalledBehind, Passed
  <2>1. d.dependee \in Node
    BY <1>7 DEF Dependency
  <2> QED
    BY <1>1, <1>2, <2>1 DEF Passed
<1> QED
  BY <1>3, <1>4, <1>6, <1>8 DEF StageInv

\* A node that moves within its stage.
LEMMA WithinStage ==
    ASSUME TypeInv, StageInv, NEW n \in Node, pc' = [pc EXCEPT ![n] = pc'[n]],
           Inside(n), Inside(n)', pc[n] # "finished", pc'[n] # "finished",
           pc[n] = "signalling" => pc'[n] = "signalling",
           UNCHANGED <<topo, deps, mustWait, stage, entered, completed>>,
           signalled \subseteq signalled'
    PROVE  StageInv'
<1>1. \A m \in Node : m # n => pc'[m] = pc[m]
  BY DEF TypeInv
<1>2. \A m \in Node : /\ Inside(m)' <=> Inside(m)
                      /\ pc'[m] = "finished" <=> pc[m] = "finished"
                      /\ pc[m] = "signalling" => pc'[m] = "signalling"
  BY <1>1 DEF Inside
<1>3. EnteredOnTheWay'
  BY <1>2 DEF StageInv, EnteredOnTheWay, Passed
<1>4. CompletedOnTheWay'
  BY <1>2 DEF StageInv, CompletedOnTheWay, Passed
<1>5. FinishedAtTheEnd' /\ Marked'
  BY <1>2 DEF StageInv, FinishedAtTheEnd, nextStage, Marked, ExecMustWait
<1>6. SignalledBehind'
  <2>1. \A d \in deps : d.dependee \in Node
    BY DEF TypeInv, Dependency
  <2> QED
    BY <1>2, <2>1 DEF StageInv, SignalledBehind, Passed
<1> QED
  BY <1>3, <1>4, <1>5, <1>6 DEF StageInv

\* A node that leaves its stage, after Done or after an error of its health check.
LEMMA LeaveStageStages ==
    ASSUME OrderInv, StageInv, NEW n \in Node, leaveStage(n),
           pc[n] \in {"working", "signalling"},
           <<n, stage[n]>> \in completed \/ (stage[n] = "healthy" /\ "health" \in Faults),
           \A d \in deps : d.dependee = n /\ d.until = stage[n] =>
               d \in signalled \/ (d.until = "healthy" /\ "health" \in Faults),
           UNCHANGED <<topo, depVars, signalled, entered, completed>>
    PROVE  StageInv'
<1>0. TypeInv /\ stage[n] \in Stage /\ UNCHANGED <<deps, mustWait>>
  BY DEF OrderInv, TypeInv, depVars
<1>1. \A m \in Node : m # n => pc'[m] = pc[m] /\ stage'[m] = stage[m]
  BY <1>0 DEF leaveStage, TypeInv
<1>2. \A d \in deps : d.dependee \in Node /\ d.until \in Stage
  BY <1>0 DEF TypeInv, Dependency
<1>3. CASE nextStage(n, stage[n]) # ""
  <2> DEFINE s == nextStage(n, stage[n])
  <2>1. pc'[n] = "waiting" /\ stage'[n] = s
    BY <1>0, <1>3 DEF leaveStage, TypeInv
  <2>2. ASSUME NEW t \in Stage
        PROVE  /\ t \in Passed(s) <=>
                     \/ t \in Passed(stage[n]) \/ t = stage[n]
                     \/ t = "healthy" /\ stage[n] = "configure" /\ <<n, "healthy">> \notin mustWait
               /\ s \in {"healthy", "exit"} => <<n, s>> \in mustWait
               /\ s \notin Passed(stage[n]) /\ s # stage[n]
               /\ stage[n] \notin Passed(stage[n])
    BY <1>0, <1>3, PassedNext
  <2> HIDE DEF s
  <2>3. EnteredOnTheWay'
    <3> SUFFICES ASSUME NEW m \in Node, NEW t \in Stage
                 PROVE  <<m, t>> \in entered <=>
                            \/ t \in Passed(stage'[m]) /\ (t = "healthy" => <<m, t>> \in mustWait)
                            \/ t = stage'[m] /\ Inside(m)'
      BY <1>0 DEF EnteredOnTheWay, Passed
    <3>1. CASE m # n
      BY <1>1, <3>1 DEF StageInv, EnteredOnTheWay, Inside
    <3>2. CASE m = n
      <4>1. Inside(n) /\ ~ Inside(n)'
        BY <2>1 DEF Inside
      <4>2. <<n, t>> \in entered <=>
               \/ t \in Passed(stage[n]) /\ (t = "healthy" => <<n, t>> \in mustWait)
               \/ t = stage[n]
        BY <4>1 DEF StageInv, EnteredOnTheWay
      <4>3. t = stage[n] /\ t = "healthy" => <<n, t>> \in mustWait
        BY DEF StageInv, Marked
      <4>4. t \in Passed(s) <=>
                 \/ t \in Passed(stage[n]) \/ t = stage[n]
                 \/ t = "healthy" /\ stage[n] = "configure" /\ <<n, "healthy">> \notin mustWait
        BY <2>2
      <4> QED
        BY <2>1, <3>2, <4>1, <4>2, <4>3, <4>4
    <3> QED
      BY <3>1, <3>2
  <2>4. CompletedOnTheWay'
    <3> SUFFICES ASSUME NEW m \in Node, NEW t \in Stage
                 PROVE  /\ <<m, t>> \in completed =>
                             \/ t \in Passed(stage'[m])
                             \/ t = stage'[m] /\ pc'[m] \in {"signalling", "finished"}
                        /\ t \in Passed(stage'[m]) /\ t # "healthy" => <<m, t>> \in completed
      BY DEF CompletedOnTheWay, Passed
    <3>1. CASE m # n
      BY <1>1, <3>1 DEF StageInv, CompletedOnTheWay
    <3>2. CASE m = n
      <4>1. t \in Passed(s) <=>
                 \/ t \in Passed(stage[n]) \/ t = stage[n]
                 \/ t = "healthy" /\ stage[n] = "configure" /\ <<n, "healthy">> \notin mustWait
        BY <2>2
      <4>2. /\ <<n, t>> \in completed => t \in Passed(stage[n]) \/ t = stage[n]
            /\ t \in Passed(stage[n]) /\ t # "healthy" => <<n, t>> \in completed
        BY DEF StageInv, CompletedOnTheWay
      <4> QED
        BY <2>1, <3>2, <4>1, <4>2
    <3> QED
      BY <3>1, <3>2
  <2>5. FinishedAtTheEnd'
    BY <1>0, <1>1, <2>1 DEF StageInv, FinishedAtTheEnd, nextStage
  <2>6. Marked'
    BY <1>0, <1>1, <2>1, <2>2 DEF StageInv, Marked, ExecMustWait
  <2>7. SignalledBehind'
    <3> SUFFICES ASSUME NEW d \in deps,
                        pc'[d.dependee] = "finished" \/ d.until \in Passed(stage'[d.dependee])
                 PROVE  d \in signalled \/ (d.until = "healthy" /\ "health" \in Faults)
      BY <1>0 DEF SignalledBehind, Passed
    <3>1. CASE d.dependee # n
      BY <1>1, <1>2, <3>1 DEF StageInv, SignalledBehind
    <3>2. CASE d.dependee = n
      <4>1. d.until \in Passed(stage[n]) \/ d.until = stage[n]
            \/ (d.until = "healthy" /\ <<n, "healthy">> \notin mustWait)
        BY <1>2, <2>1, <2>2, <3>2
      <4>2. <<n, d.until>> \in mustWait
        BY <3>2 DEF StageInv, Marked
      <4> QED
        BY <3>2, <4>1, <4>2 DEF StageInv, SignalledBehind
    <3> QED
      BY <3>1, <3>2
  <2> QED
    BY <2>3, <2>4, <2>5, <2>6, <2>7 DEF StageInv
<1>4. CASE nextStage(n, stage[n]) = ""
  <2>1. pc'[n] = "finished" /\ stage' = stage
    BY <1>0, <1>4 DEF leaveStage, TypeInv
  <2>2. \A m \in Node : Inside(m)' <=> Inside(m)
    BY <1>1, <2>1 DEF Inside
  <2>3. EnteredOnTheWay'
    BY <1>0, <2>1, <2>2 DEF StageInv, EnteredOnTheWay, Passed
  <2>4. CompletedOnTheWay' /\ Marked'
    BY <1>0, <1>1, <2>1 DEF StageInv, CompletedOnTheWay, Passed, Marked, ExecMustWait
  <2>5. <<n, "configure">> \in completed
    <3>1. stage[n] \in {"configure", "healthy", "exit"}
      BY <1>0, <1>4 DEF nextStage, Stage
    <3>2. stage[n] # "configure" => "configure" \in Passed(stage[n])
      BY <3>1 DEF Passed
    <3> QED
      BY <3>2 DEF StageInv, CompletedOnTheWay, Stage
  <2>6. FinishedAtTheEnd'
    BY <1>0, <1>1, <1>4, <2>1, <2>5 DEF StageInv, FinishedAtTheEnd, nextStage
  <2>7. SignalledBehind'
    <3> SUFFICES ASSUME NEW d \in deps,
                        pc'[d.dependee] = "finished" \/ d.until \in Passed(stage[d.dependee])
                 PROVE  d \in signalled \/ (d.until = "healthy" /\ "health" \in Faults)
      BY <1>0, <2>1 DEF SignalledBehind, Passed
    <3>1. CASE d.dependee # n
      BY <1>1, <1>2, <3>1 DEF StageInv, SignalledBehind
    <3>2. CASE d.dependee = n
      <4>1. <<n, d.until>> \in mustWait
        BY <3>2 DEF StageInv, Marked
      <4>2. d.until \in Passed(stage[n]) \/ d.until = stage[n]
        BY <1>0, <1>2, <1>4, <4>1 DEF Passed, nextStage, Stage
      <4> QED
        BY <3>2, <4>2 DEF StageInv, SignalledBehind
    <3> QED
      BY <3>1, <3>2
  <2> QED
    BY <2>3, <2>4, <2>6, <2>7 DEF StageInv
<1> QED
  BY <1>3, <1>4
\* The steps of a node's goroutine and of its worker.
LEMMA NodeStageInv ==
    ASSUME OrderInv, StageInv, NEW n \in Node, NodeStep(n) \/ NodeFault(n)
    PROVE  StageInv'
<1>0. TypeInv /\ \A d \in deps : d.dependee \in Node
  BY DEF OrderInv, TypeInv, Dependency
<1>1. CASE EnterStage(n)
  <2>1. /\ \A m \in Node : m # n => pc'[m] = pc[m]
        /\ pc[n] = "waiting" /\ pc'[n] \in {"external", "working"}
        /\ entered' = entered \cup {<<n, stage[n]>>}
        /\ UNCHANGED <<topo, deps, mustWait, stage, signalled, completed>>
    BY <1>0, <1>1 DEF EnterStage, TypeInv, depVars
  <2>2. EnteredOnTheWay'
    BY <2>1 DEF StageInv, EnteredOnTheWay, Passed, Inside
  <2>3. \A m \in Node : pc'[m] \in {"signalling", "finished"} \/ pc[m] \in {"signalling", "finished"} =>
                            pc'[m] = pc[m]
    BY <2>1
  <2>4. CompletedOnTheWay'
    BY <2>1, <2>3 DEF StageInv, CompletedOnTheWay, Passed
  <2>5. FinishedAtTheEnd' /\ Marked'
    BY <2>1, <2>3 DEF StageInv, FinishedAtTheEnd, nextStage, Marked, ExecMustWait
  <2>6. SignalledBehind'
    BY <1>0, <2>1, <2>3 DEF StageInv, SignalledBehind, Passed
  <2> QED
    BY <2>2, <2>4, <2>5, <2>6 DEF StageInv
<1>2. CASE waitForExternalNodeDependencies(n)
  <2>1. pc[n] = "external" /\ pc'[n] = "sending" /\ pc' = [pc EXCEPT ![n] = pc'[n]]
    BY <1>0, <1>2 DEF waitForExternalNodeDependencies, TypeInv
  <2>2. UNCHANGED <<topo, deps, mustWait, stage, entered, completed, signalled>>
    BY <1>2 DEF waitForExternalNodeDependencies, depVars
  <2> QED
    BY <1>0, <2>1, <2>2, WithinStage DEF Inside
<1>3. CASE \E w \in Worker : handOver(n, w)
  <2>1. pc[n] = "sending" /\ pc'[n] = "working" /\ pc' = [pc EXCEPT ![n] = pc'[n]]
    BY <1>0, <1>3 DEF handOver, TypeInv
  <2>2. UNCHANGED <<topo, deps, mustWait, stage, entered, completed, signalled>>
    BY <1>3 DEF handOver, depVars
  <2> QED
    BY <1>0, <2>1, <2>2, WithinStage DEF Inside
<1>4. CASE finishWork(n)
  <2>1. /\ \A m \in Node : m # n => pc'[m] = pc[m]
        /\ pc[n] = "working" /\ pc'[n] = "signalling"
        /\ completed' = completed \cup {<<n, stage[n]>>}
        /\ UNCHANGED <<topo, deps, mustWait, stage, signalled, entered>>
    BY <1>0, <1>4 DEF finishWork, TypeInv, depVars
  <2>2. EnteredOnTheWay'
    BY <2>1 DEF StageInv, EnteredOnTheWay, Passed, Inside
  <2>3. CompletedOnTheWay'
    BY <2>1 DEF StageInv, CompletedOnTheWay, Passed
  <2>4. FinishedAtTheEnd' /\ Marked'
    BY <2>1 DEF StageInv, FinishedAtTheEnd, nextStage, Marked, ExecMustWait
  <2>5. SignalledBehind'
    BY <1>0, <2>1 DEF StageInv, SignalledBehind, Passed
  <2> QED
    BY <2>2, <2>3, <2>4, <2>5 DEF StageInv
<1>5. CASE \E d \in deps : SignalDone(n, d)
  <2>1. /\ pc[n] = "signalling" /\ pc' = pc /\ signalled \subseteq signalled'
        /\ UNCHANGED <<topo, deps, mustWait, stage, entered, completed>>
    BY <1>5 DEF SignalDone
  <2>2. pc' = [pc EXCEPT ![n] = pc'[n]] /\ pc'[n] = "signalling"
    BY <1>0, <2>1 DEF TypeInv
  <2> QED
    BY <1>0, <2>1, <2>2, WithinStage DEF Inside
<1>6. CASE Done(n)
  <2>1. <<n, stage[n]>> \in completed
    BY <1>6 DEF Done, OrderInv, WorkCompleted
  <2> QED
    BY <1>6, <2>1, LeaveStageStages DEF Done
<1>7. CASE failNode(n)
  <2>1. pc[n] = "working" /\ pc'[n] = "failed" /\ pc' = [pc EXCEPT ![n] = pc'[n]]
    BY <1>0, <1>7 DEF failNode, TypeInv
  <2>2. UNCHANGED <<topo, deps, mustWait, stage, entered, completed, signalled>>
    BY <1>7 DEF failNode, depVars
  <2> QED
    BY <1>0, <2>1, <2>2, WithinStage DEF Inside
<1>8. CASE healthError(n)
  <2>1. stage[n] = "healthy" /\ "health" \in Faults
    BY <1>8 DEF healthError
  <2> QED
    BY <1>8, <2>1, LeaveStageStages DEF healthError
<1> QED
  BY <1>1, <1>2, <1>3, <1>4, <1>5, <1>6, <1>7, <1>8 DEF NodeStep, NodeFault

\* The pool moves no node from one stage to another.
LEMMA PoolStageInv ==
    ASSUME StageInv, PoolStep \/ cancelContext \/ UNCHANGED vars
    PROVE  StageInv'
<1>1. UNCHANGED <<topo, deps, mustWait, stage, pc, signalled, entered, completed>>
  BY DEF PoolStep, closeChannel, workerReturn, collectFailures, cancelContext,
         depVars, nodeVars, vars
<1> QED
  BY <1>1 DEF StageInv, EnteredOnTheWay, CompletedOnTheWay, FinishedAtTheEnd, Marked,
              SignalledBehind, Inside, Passed, nextStage, ExecMustWait

\* Every step of the scheduler keeps the invariant of the stages.
LEMMA NextStageInv == OrderInv /\ StageInv /\ [Next]_vars => StageInv'
  BY SetupStageInv, NodeStageInv, PoolStageInv DEF Next, terminated

\* The invariant of the stages holds in every reachable state.
THEOREM StageInvHolds == Spec => []StageInv
  BY InitStageInv, NextStageInv, OrderInvHolds, PTL DEF Spec

(***************************************************************************)
(* What the two invariants establish.                                      *)
(***************************************************************************)

\* A node is in exactly one worker from the channel to its end, however the
\* goroutines are scheduled.
THEOREM OneWorker == Spec => []OneWorkerPerNode
<1>1. PoolInv => OneWorkerPerNode
  BY DEF PoolInv
<1> QED
  BY <1>1, PoolInvHolds, PTL

\* There is a worker as soon as there is a node.
LEMMA SomeWorker == ASSUME Node # {} PROVE 1 \in Worker
<1>1. Cardinality(Node) \in Nat \ {0}
  BY NodeAssumption, FS_CardinalityType, FS_EmptySet
<1> QED
  BY <1>1, WorkerAssumption DEF Worker, WorkerCount

\* There is room for the failure of a node that is in a worker.
LEMMA RoomForFailure ==
    ASSUME PoolInv, NEW n \in Node, InWorker(n)
    PROVE  Len(nodeFailCh) < Cardinality(Node)
<1>1. GivenUp \subseteq Node \ {n}
  BY DEF GivenUp, InWorker
<1>2. IsFiniteSet(Node \ {n}) /\ Cardinality(Node \ {n}) = Cardinality(Node) - 1
  BY NodeAssumption, FS_RemoveElement
<1>3. Cardinality(GivenUp) <= Cardinality(Node \ {n})
  BY <1>1, <1>2, FS_Subset
<1>4. Cardinality(Node) \in Nat /\ Cardinality(Node \ {n}) \in Nat /\ Cardinality(GivenUp) \in Nat
  BY <1>1, <1>2, NodeAssumption, FS_CardinalityType, FS_Subset
<1> QED
  BY <1>2, <1>3, <1>4 DEF PoolInv, FailuresCounted

\* No node is in a worker when all of them have returned.
LEMMA NobodyInside ==
    ASSUME PoolInv, \A w \in Worker : worker[w] = Exited PROVE \A n \in Node : ~ InWorker(n)
<1>1. \A w \in Worker : worker[w] \notin Node
  BY NodeAssumption DEF Exited
<1> QED
  BY <1>1 DEF PoolInv, OneWorkerPerNode

\* No send of the scheduler meets a closed channel, and no worker blocks when it
\* reports a failure: concurrentChan is closed late enough, nodeFailCh is large
\* enough and is closed when nobody is left to use it.
THEOREM ChannelSafety == Spec => []ChannelsAreSafe
<1>1. PoolInv => ChannelsAreSafe
  BY RoomForFailure, NobodyInside DEF PoolInv, ClosedLate, ReturnsJustified, ChannelsAreSafe
<1> QED
  BY <1>1, PoolInvHolds, PTL

\* When the workers have returned without a failure and without an interrupt every
\* node is finished.
LEMMA AllFinished ==
    ASSUME PoolInv, \A w \in Worker : worker[w] = Exited, nodeFailCh = <<>>, ~ cancelled
    PROVE  \A n \in Node : pc[n] = "finished"
<1> SUFFICES ASSUME NEW n \in Node PROVE pc[n] = "finished"
  OBVIOUS
<1>1. chanClosed
  BY SomeWorker DEF PoolInv, ReturnsJustified
<1>2. pc[n] \in {"failed", "finished"}
  BY <1>1, NobodyInside DEF PoolInv, ClosedLate
<1>3. GivenUp = {}
  <2>1. GivenUp \in SUBSET Node
    BY DEF GivenUp
  <2>2. IsFiniteSet(GivenUp)
    BY <2>1, NodeAssumption, FS_Subset
  <2>3. Cardinality(GivenUp) = 0
    BY DEF PoolInv, FailuresCounted
  <2> QED
    BY <2>2, <2>3, FS_EmptySet
<1> QED
  BY <1>2, <1>3 DEF GivenUp

\* A node that was given up has left its failure in nodeFailCh.
LEMMA FailureReported ==
    ASSUME TypeInv, PoolInv PROVE nodeFailCh = <<>> <=> GivenUp = {}
<1>1. GivenUp \in SUBSET Node
  BY DEF GivenUp
<1>2. IsFiniteSet(GivenUp)
  BY <1>1, NodeAssumption, FS_Subset
<1>3. Cardinality(GivenUp) = 0 <=> GivenUp = {}
  BY <1>2, FS_EmptySet
<1>4. nodeFailCh = <<>> <=> Len(nodeFailCh) = 0
  BY DEF TypeInv
<1> QED
  BY <1>3, <1>4 DEF PoolInv, FailuresCounted

\* Deploy reports success only for a complete deployment, and failure whenever a
\* node was given up.
THEOREM SuccessTheorem == Spec => []SuccessIsComplete
<1>1. OrderInv /\ PoolInv /\ StageInv => SuccessIsComplete
  <2> SUFFICES ASSUME OrderInv, PoolInv, StageInv PROVE SuccessIsComplete
    OBVIOUS
  <2>1. main = "deployed" /\ ~ cancelled =>
            \A n \in Node : pc[n] = "finished" /\ <<n, "configure">> \in completed
    BY AllFinished DEF PoolInv, ReturnsJustified, StageInv, FinishedAtTheEnd
  <2>2. main = "deployed" => GivenUp = {}
    BY FailureReported DEF OrderInv, PoolInv, ReturnsJustified
  <2> QED
    BY <2>1, <2>2 DEF SuccessIsComplete, GivenUp
<1> QED
  BY <1>1, OrderInvHolds, PoolInvHolds, StageInvHolds, PTL

\* The commands of every stage but exit have run when Deploy has succeeded: a
\* healthy stage with commands is never left out.
THEOREM StageExecsTheorem == Spec => []StageExecsRun
<1>1. OrderInv /\ PoolInv /\ StageInv => StageExecsRun
  <2> SUFFICES ASSUME OrderInv, PoolInv, StageInv, main = "deployed", ~ cancelled,
                      NEW x \in topo.execs, x[2] # "exit"
               PROVE  x \in entered
    BY DEF StageExecsRun
  <2>1. PICK n \in Node, s \in Stage : x = <<n, s>>
    BY DEF OrderInv, TypeInv, Topology
  <2>2. pc[n] = "finished" /\ nextStage(n, stage[n]) = "" /\ stage[n] \in Stage
    BY AllFinished DEF PoolInv, ReturnsJustified, StageInv, FinishedAtTheEnd, OrderInv, TypeInv
  <2>3. s = "healthy" => <<n, s>> \in mustWait
    BY <2>1 DEF StageInv, Marked, ExecMustWait
  <2>4. s \in Passed(stage[n]) \/ s = stage[n]
    BY <2>1, <2>2, <2>3 DEF Passed, nextStage, Stage
  <2>5. Inside(n)
    BY <2>2 DEF Inside
  <2> QED
    BY <2>1, <2>3, <2>4, <2>5 DEF StageInv, EnteredOnTheWay
<1> QED
  BY <1>1, OrderInvHolds, PoolInvHolds, StageInvHolds, PTL

\* A finished node has signalled everybody who waits for one of its stages, but for
\* a healthy stage that it left with an error.
THEOREM EverybodySignalled == Spec => []NothingLeftToSignal
<1>1. StageInv => NothingLeftToSignal
  BY DEF StageInv, SignalledBehind, NothingLeftToSignal
<1> QED
  BY <1>1, StageInvHolds, PTL
(***************************************************************************)
(* The scheduler implements StagedDeployment.                              *)
(***************************************************************************)
Outcome == IF main \in Returned THEN main ELSE "pending"

\* What the topology asks for never changes, and nothing has happened at first.
LEMMA PromiseInit == Init => Promise!Init
<1> SUFFICES ASSUME Init PROVE Promise!Init
  OBVIOUS
<1>1. topo \in Topology
  BY TopologyAssumption DEF Init
<1>2. ASSUME NEW d \in StaticDeps \cup WaitForDeps \cup NetnsDeps
      PROVE  d.dependee \in Node \cup {Absent} /\ d.until \in Stage /\ d.depender \in Node /\ d.at \in Stage
  BY <1>1 DEF StaticDeps, WaitForDeps, NetnsDeps, Dep, Topology, WaitFor, Stage
<1>3. Required \subseteq [dependee : Node \cup {Absent}, until : Stage, depender : Node, at : Stage]
  BY <1>2 DEF Required
<1>4. {n \in Node : pc[n] = "failed"} = {}
  BY DEF Init
<1>5. main \notin Returned
  BY DEF Init, Returned
<1> QED
  BY <1>3, <1>4, <1>5 DEF Init, Promise!Init

\* The requirements are a function of the topology.
LEMMA SameRequired == ASSUME topo' = topo PROVE Required' = Required
  BY DEF Required, StaticDeps, WaitForDeps, NetnsDeps

\* Steps that the promise does not see.
LEMMA PromiseStutter ==
    ASSUME UNCHANGED <<topo, entered, completed, cancelled>>, Outcome' = Outcome,
           \A m \in Node : pc'[m] = "failed" <=> pc[m] = "failed"
    PROVE  UNCHANGED Promise!vars
<1>1. {n \in Node : pc[n] = "failed"}' = {n \in Node : pc[n] = "failed"}
  OBVIOUS
<1> QED
  BY <1>1, SameRequired DEF Promise!vars, Outcome

\* createNodes: a topology is turned down before anything is entered.
LEMMA SetupPromise ==
    ASSUME OrderInv, Setup PROVE Promise!Next \/ UNCHANGED Promise!vars
<1>1. /\ \A n \in Node : pc[n] = "new" /\ pc'[n] # "failed"
      /\ entered = {} /\ main \notin Returned
      /\ UNCHANGED <<topo, entered, completed, cancelled>>
  BY DEF OrderInv, NotStarted, Setup, createStaticDynamicDependency, createWaitForDependency,
         dependeeNotFound, createNamespaceSharingDependency, cyclicDependencies, scheduleNodes,
         nodeVars, Returned
<1>2. main' = "rejected" \/ main' \notin Returned
  BY DEF Setup, createStaticDynamicDependency, createWaitForDependency, dependeeNotFound,
         createNamespaceSharingDependency, cyclicDependencies, scheduleNodes, Returned
<1>3. CASE main' \notin Returned
  BY <1>1, <1>3, PromiseStutter DEF Outcome
<1>4. CASE main' = "rejected"
  <2>1. {n \in Node : pc[n] = "failed"}' = {n \in Node : pc[n] = "failed"}
    BY <1>1
  <2>2. Promise!Reject
    BY <1>1, <1>4, <2>1, SameRequired DEF Promise!Reject, Returned
  <2> QED
    BY <2>2 DEF Promise!Next
<1> QED
  BY <1>2, <1>3, <1>4

\* EnterStage: everything the topology makes the stage wait for is completed.
LEMMA EnterPromise ==
    ASSUME OrderInv, StageInv, NEW n \in Node, EnterStage(n)
    PROVE  Promise!Enter(n, stage[n])
<1>0. /\ TypeInv /\ stage[n] \in Stage /\ pc[n] = "waiting"
      /\ \A m \in Node : pc'[m] = "failed" <=> pc[m] = "failed"
      /\ entered' = entered \cup {<<n, stage[n]>>}
      /\ UNCHANGED <<topo, main, completed, cancelled>>
  BY DEF OrderInv, TypeInv, EnterStage
<1>1. main \in {"running", "deployed", "failed"}
  BY <1>0, MovingNode
<1>2. {m \in Node : pc[m] = "failed"}' = {m \in Node : pc[m] = "failed"}
  BY <1>0
<1>3. <<n, stage[n]>> \notin entered
  <2>1. stage[n] \notin Passed(stage[n])
    BY DEF Passed
  <2> QED
    BY <1>0, <2>1 DEF StageInv, EnteredOnTheWay, Inside
<1>4. ASSUME NEW r \in Required, r.depender = n, r.at = stage[n]
      PROVE  <<r.dependee, r.until>> \in completed
  <2>1. deps = StaticDeps \cup WaitForDeps \cup NetnsDeps
    BY <1>1 DEF OrderInv, DepsRecorded
  <2>2. PICK d \in deps : r = [dependee |-> d.dependee, until |-> d.until,
                               depender |-> d.depender, at |-> d.at]
    BY <1>4, <2>1 DEF Required
  <2>3. OrderInv' /\ deps' = deps
    BY NodeOrderInv DEF NodeStep, EnterStage, depVars
  <2>4. d \in signalled' /\ signalled' = signalled
    BY <1>0, <1>4, <2>2, <2>3 DEF OrderInv, EnteredUnblocked, EnterStage
  <2> QED
    BY <2>2, <2>4 DEF OrderInv, SignalledCompleted
<1>5. ASSUME NEW b \in Promise!Before(stage[n]) PROVE <<n, b>> \in completed
  <2>1. b \in Stage /\ b \in Passed(stage[n]) /\ b # "healthy"
    BY <1>0, <1>5 DEF Promise!Before, Passed, Stage
  <2> QED
    BY <2>1 DEF StageInv, CompletedOnTheWay
<1> QED
  BY <1>0, <1>1, <1>2, <1>3, <1>4, <1>5, SameRequired DEF Promise!Enter, Returned

\* The work of a stage ends while Deploy is waiting for it.
LEMMA WorkingPending ==
    ASSUME OrderInv, PoolInv, NEW n \in Node, pc[n] \in {"working", "signalling"}
    PROVE  main \notin Returned
<1>1. InWorker(n)
  BY DEF InWorker
<1>2. main \in {"running", "deployed", "failed"}
  BY MovingNode
<1> QED
  BY <1>1, <1>2, NobodyInside DEF PoolInv, ReturnsJustified, Returned

\* The steps of a node: it enters a stage, completes it or is given up.
LEMMA NodePromise ==
    ASSUME OrderInv, PoolInv, StageInv, NEW n \in Node, NodeStep(n) \/ NodeFault(n)
    PROVE  Promise!Next \/ UNCHANGED Promise!vars
<1>0. TypeInv /\ stage[n] \in Stage
  BY DEF OrderInv, TypeInv
<1>1. CASE EnterStage(n)
  BY <1>0, <1>1, EnterPromise DEF Promise!Next
<1>2. CASE finishWork(n)
  <2>1. /\ pc[n] = "working" /\ \A m \in Node : pc'[m] = "failed" <=> pc[m] = "failed"
        /\ completed' = completed \cup {<<n, stage[n]>>}
        /\ UNCHANGED <<topo, main, entered, cancelled>>
    BY <1>0, <1>2 DEF finishWork, TypeInv
  <2>2. {m \in Node : pc[m] = "failed"}' = {m \in Node : pc[m] = "failed"}
    BY <2>1
  <2>3. stage[n] \notin Passed(stage[n])
    BY DEF Passed
  <2>4. <<n, stage[n]>> \in entered \ completed
    BY <1>0, <2>1, <2>3 DEF StageInv, EnteredOnTheWay, CompletedOnTheWay, Inside
  <2>5. main \notin Returned
    BY <2>1, WorkingPending
  <2>6. Promise!Complete(n, stage[n])
    BY <2>1, <2>2, <2>4, <2>5, SameRequired DEF Promise!Complete
  <2> QED
    BY <1>0, <2>6 DEF Promise!Next
<1>3. CASE failNode(n)
  <2>1. /\ pc[n] = "working" /\ pc'[n] = "failed"
        /\ \A m \in Node : m # n => pc'[m] = pc[m]
        /\ UNCHANGED <<topo, main, entered, completed, cancelled>>
    BY <1>0, <1>3 DEF failNode, TypeInv
  <2>2. {m \in Node : pc[m] = "failed"}' = {m \in Node : pc[m] = "failed"} \cup {n}
    BY <2>1
  <2>3. main \notin Returned
    BY <2>1, WorkingPending
  <2>4. Promise!Abandon(n)
    BY <2>1, <2>2, <2>3, SameRequired DEF Promise!Abandon
  <2> QED
    BY <2>4 DEF Promise!Next
<1>4. CASE Done(n) \/ healthError(n)
  <2>1. \A m \in Node : pc'[m] = "failed" <=> pc[m] = "failed"
    BY <1>0, <1>4 DEF Done, healthError, leaveStage, TypeInv
  <2>2. UNCHANGED <<topo, main, entered, completed, cancelled>>
    BY <1>4 DEF Done, healthError
  <2> QED
    BY <2>1, <2>2, PromiseStutter DEF Outcome
<1>5. CASE \/ waitForExternalNodeDependencies(n) \/ \E w \in Worker : handOver(n, w)
           \/ \E d \in deps : SignalDone(n, d)
  <2>1. \A m \in Node : pc'[m] = "failed" <=> pc[m] = "failed"
    BY <1>0, <1>5 DEF waitForExternalNodeDependencies, handOver, SignalDone, TypeInv
  <2>2. UNCHANGED <<topo, main, entered, completed, cancelled>>
    BY <1>5 DEF waitForExternalNodeDependencies, handOver, SignalDone
  <2> QED
    BY <2>1, <2>2, PromiseStutter DEF Outcome
<1> QED
  BY <1>1, <1>2, <1>3, <1>4, <1>5 DEF NodeStep, NodeFault

\* Deploy returns the outcome that its failures ask for; an interrupt is seen.
LEMMA PoolPromise ==
    ASSUME OrderInv, PoolInv, StageInv, PoolStep \/ cancelContext \/ UNCHANGED vars
    PROVE  Promise!Next \/ UNCHANGED Promise!vars
<1>1. UNCHANGED <<topo, pc, entered, completed>>
  BY DEF PoolStep, closeChannel, workerReturn, collectFailures, cancelContext, nodeVars, vars
<1>2. {n \in Node : pc[n] = "failed"}' = {n \in Node : pc[n] = "failed"}
  BY <1>1
<1>3. CASE closeChannel \/ (\E w \in Worker : workerReturn(w)) \/ UNCHANGED vars
  <2>1. UNCHANGED <<main, cancelled>>
    BY <1>3 DEF closeChannel, workerReturn, vars
  <2> QED
    BY <1>1, <2>1, PromiseStutter DEF Outcome
<1>4. CASE cancelContext
  <2>1. Promise!Cancel
    BY <1>1, <1>2, <1>4, SameRequired DEF cancelContext, Promise!Cancel, Returned
  <2> QED
    BY <2>1 DEF Promise!Next
<1>5. CASE collectFailures
  <2>1. /\ main = "running" /\ main' = IF nodeFailCh = <<>> THEN "deployed" ELSE "failed"
        /\ UNCHANGED <<cancelled, nodeFailCh>>
    BY <1>5 DEF collectFailures, poolVars
  <2>2. nodeFailCh = <<>> <=> {n \in Node : pc[n] = "failed"} = {}
    BY FailureReported DEF OrderInv, GivenUp
  <2>3. CASE nodeFailCh = <<>>
    <3>1. ~ cancelled => \A n \in Node : pc[n] = "finished"
      BY <1>5, <2>3, AllFinished DEF collectFailures
    <3>2. ~ cancelled => \A n \in Node : <<n, "configure">> \in completed
      BY <3>1 DEF StageInv, FinishedAtTheEnd
    <3>3. Promise!Succeed
      BY <1>1, <1>2, <2>1, <2>2, <2>3, <3>2, SameRequired DEF Promise!Succeed, Returned
    <3> QED
      BY <3>3 DEF Promise!Next
  <2>4. CASE nodeFailCh # <<>>
    <3>1. Promise!Fail
      BY <1>1, <1>2, <2>1, <2>2, <2>4, SameRequired DEF Promise!Fail, Returned
    <3> QED
      BY <3>1 DEF Promise!Next
  <2> QED
    BY <2>3, <2>4
<1> QED
  BY <1>3, <1>4, <1>5 DEF PoolStep

\* Every step of the scheduler is a step of the promise or invisible in it.
LEMMA NextPromise ==
    OrderInv /\ PoolInv /\ StageInv /\ [Next]_vars =>
        [Promise!Next]_(Promise!vars)
  BY SetupPromise, NodePromise, PoolPromise DEF Next, terminated

\* Every behaviour of the scheduler, with its workers, channels and wait groups, is a
\* behaviour of the deployment that the author of the topology is promised.
THEOREM Refinement == Spec => KeepsPromise
  BY PromiseInit, NextPromise, OrderInvHolds, PoolInvHolds, StageInvHolds, PTL
     DEF Spec, KeepsPromise, Promise!Spec
=============================================================================
