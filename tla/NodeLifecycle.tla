---------------------------- MODULE NodeLifecycle ----------------------------
(***************************************************************************)
(* The lifecycle of one deployed node: containerlab stop, start, restart   *)
(* and destroy of the node (core/stop.go, start.go, restart.go and the     *)
(* methods of nodes/default_node.go they call).                            *)
(*                                                                         *)
(* The network namespace of a container dies with it, and every veth       *)
(* interface in it.  So that a stopped node keeps its links, Stop moves    *)
(* the node's interfaces to a parking namespace of their own first, and    *)
(* Start moves them back (links/parking_node.go, links/endpoint.go).       *)
(* Each command is a process of its own that finds the state the previous  *)
(* one left behind; the endpoint objects of a process start out owned by   *)
(* the node (ResolveLinks), wherever the interfaces are.                   *)
(***************************************************************************)
EXTENDS Naturals, FiniteSets

CONSTANTS
    Iface,      \* the node's dataplane interfaces
    Tracked,    \* the ones of the topology; the others are found at runtime
    Faults,     \* what the environment may do to a command
    MaxFaults   \* how many of its calls may fail in one command

\* Calls that fail, and what happens to the process or the container unasked.
FaultKind == {"pre-stop", "netns", "candidates", "move", "discover", "activate", "symlink",
              "cleanup", "stop", "start", "post-start", "remove", "delete",
              "kill", "exit", "docker-start"}

ASSUME IfaceAssumption == Tracked \subseteq Iface /\ IsFiniteSet(Iface)
ASSUME FaultAssumption == Faults \subseteq FaultKind /\ MaxFaults \in Nat

VARIABLES
    status,    \* of the container: "running", "stopped" or "notfound"
    place,     \* where each interface is: "container", "parking" or "gone"
    up,        \* the interfaces that are up
    parkNs,    \* the parking namespace exists
    symlink,   \* what /run/netns/<node> points to: "container", "parking" or "none"
    cmd,       \* the command that runs or ran last
    pc,        \* where it is, "idle" between commands
    todo,      \* the endpoints still to be moved
    moved,     \* the endpoints moved by the current loop
    caller,    \* who called RestoreTo
    started,   \* this Start has started the container
    hasParkingState, \* this Start has found the parking namespace
    result,    \* of the last command: "none", "ok" or "error"
    faults,    \* the failures this command has met
    disturbed, \* history: more went wrong than one failure the code prepares for
    removed    \* history: somebody has asked to delete the node

worldVars == <<status, place, up, parkNs, symlink>>
loopVars  == <<todo, moved, caller>>
startVars == <<started, hasParkingState>>
faultVars == <<faults, disturbed>>
vars == <<worldVars, cmd, pc, loopVars, startVars, result, faultVars, removed>>

Command == {"stop", "start", "restart", "delete"}

Init ==
    /\ status = "running"
    /\ place = [i \in Iface |-> "container"]
    /\ up = Iface
    /\ parkNs = FALSE
    /\ symlink = "container"
    /\ cmd = "none" /\ pc = "idle"
    /\ todo = {} /\ moved = {} /\ caller = "none"
    /\ started = FALSE /\ hasParkingState = FALSE
    /\ result = "none"
    /\ faults = 0 /\ disturbed = FALSE
    /\ removed = FALSE

In(p) == {i \in Iface : place[i] = p}
Joinable == status = "running"

\* A call made by this step fails in the way f.  The code prepares for one
\* failure, except for those of the calls that are named here.
Fault(f) ==
    /\ f \in Faults
    /\ faults < MaxFaults
    /\ faults' = faults + 1
    /\ disturbed' = (disturbed \/ faults > 0 \/ f \in {"cleanup", "post-start"})
NoFault == UNCHANGED faultVars

Goto(l) == pc' = l /\ UNCHANGED result
Return(r) == pc' = "idle" /\ result' = r

\* The interfaces of a namespace that goes away are lost.
Lose(p) == /\ place' = [i \in Iface |-> IF place[i] = p THEN "gone" ELSE place[i]]
           /\ up' = up \ In(p)

\* cleanupParkingNetNS deletes the parking namespace if there is one.
cleanupParkingNetNS ==
    /\ parkNs' = FALSE
    /\ Lose("parking")
    /\ NoFault

cleanupFails == parkNs /\ Fault("cleanup") /\ UNCHANGED <<parkNs, place, up>>

\* The container stops: its namespace goes.
containerStops == status' = "stopped" /\ Lose("container")

\* moveLink sets an interface down and then moves it.
Moved(i, p) == place' = [place EXCEPT ![i] = p] /\ up' = up \ {i}

\* LinkContainerNS fails: the old symlink may already be removed.
LinkFails == symlink' \in {symlink, "none"} /\ Fault("symlink")

(***************************************************************************)
(* Commands.  A new process knows nothing of the last one.                 *)
(***************************************************************************)
begin(c) ==
    /\ pc = "idle"
    /\ cmd' = c
    /\ pc' = IF c \in {"stop", "restart"} THEN "stop" ELSE c
    /\ todo' = {} /\ moved' = {} /\ caller' = "none"
    /\ started' = FALSE /\ hasParkingState' = FALSE
    /\ result' = "none"
    /\ faults' = 0
    /\ removed' = (removed \/ c = "delete")
    /\ UNCHANGED <<worldVars, disturbed>>

\* Stop is over without an error: RestartNodes goes on with Start.
StopOk == IF cmd = "restart" THEN Goto("start") ELSE Return("ok")

\* Stop up to its pre-stop hook.
Stop ==
    /\ pc = "stop"
    /\ \/ status = "stopped" /\ StopOk /\ NoFault
       \/ status = "notfound" /\ Return("error") /\ NoFault
       \/ status = "running" /\ Goto("park") /\ NoFault
       \/ status = "running" /\ Fault("pre-stop") /\ Return("error")
    /\ UNCHANGED <<worldVars, cmd, loopVars, startVars, removed>>

\* ParkEndpoints: CreateOrGetNamedNetNS.
ParkEndpoints ==
    /\ pc = "park"
    /\ \/ parkNs' = TRUE /\ Goto("capture") /\ NoFault
       \/ Fault("netns") /\ Return("error") /\ UNCHANGED parkNs
    /\ UNCHANGED <<status, place, up, symlink, cmd, loopVars, startVars, removed>>

\* Seeded fault: interfaces unknown to the topology are not parked.
trackedCandidatesOnly ==
    /\ pc = "capture"
    /\ todo' = Tracked
    /\ Goto("capture-move")
    /\ UNCHANGED <<worldVars, cmd, moved, caller, startVars, faultVars, removed>>

\* captureCandidates: all endpoints of the topology, and those found in the
\* container.  It fails without a namespace to look into, when the namespace
\* cannot be listed, and for links other than veth.
captureCandidates ==
    /\ pc = "capture"
    /\ \/ /\ Joinable /\ NoFault
          /\ todo' = Tracked \cup In("container")
          /\ Goto("capture-move")
       \/ ~ Joinable /\ NoFault /\ Goto("capture-rollback") /\ UNCHANGED todo
       \/ Joinable /\ Fault("candidates") /\ Goto("capture-rollback") /\ UNCHANGED todo
    /\ UNCHANGED <<worldVars, cmd, moved, caller, startVars, removed>>

\* CaptureFrom: one endpoint moves to the parking namespace.
CaptureFrom(i) ==
    /\ pc = "capture-move"
    /\ i \in todo
    /\ Joinable /\ place[i] = "container"
    /\ Moved(i, "parking")
    /\ todo' = todo \ {i}
    /\ moved' = moved \cup {i}
    /\ UNCHANGED <<status, parkNs, symlink, cmd, pc, caller, startVars, result, faultVars, removed>>

\* It cannot be moved, because it is not in the container or because the move
\* fails, which leaves it behind up or already set down.
captureFails(i) ==
    /\ pc = "capture-move"
    /\ i \in todo
    /\ \/ ~ (Joinable /\ place[i] = "container") /\ UNCHANGED up /\ NoFault
       \/ Joinable /\ place[i] = "container" /\ up' \in {up, up \ {i}} /\ Fault("move")
    /\ Goto("capture-rollback")
    /\ UNCHANGED <<status, place, parkNs, symlink, cmd, loopVars, startVars, removed>>

\* The endpoints already moved go back and up; errors are ignored.
captureRollback(i) ==
    /\ pc = "capture-rollback"
    /\ i \in moved
    /\ moved' = moved \ {i}
    /\ \/ /\ Joinable
          /\ place' = [place EXCEPT ![i] = "container"]
          /\ \/ up' = up \cup {i} /\ NoFault
             \/ UNCHANGED up /\ Fault("activate")
       \/ Joinable /\ Fault("move") /\ UNCHANGED <<place, up>>
       \/ ~ Joinable /\ NoFault /\ UNCHANGED <<place, up>>
    /\ UNCHANGED <<status, parkNs, symlink, cmd, pc, todo, caller, startVars, result, removed>>

\* CaptureFrom has failed: ParkEndpoints removes the parking namespace.
captureAbort ==
    /\ pc = "capture-rollback"
    /\ moved = {}
    /\ cleanupParkingNetNS \/ cleanupFails
    /\ Return("error")
    /\ UNCHANGED <<status, symlink, cmd, loopVars, startVars, removed>>

\* RepointSymlink at the end of ParkEndpoints.
RepointSymlink ==
    /\ pc = "capture-move"
    /\ todo = {}
    /\ \/ symlink' = "parking" /\ Goto("stop-container") /\ NoFault /\ UNCHANGED caller
       \/ LinkFails /\ Goto("restore") /\ caller' = "ParkEndpoints"
    /\ UNCHANGED <<status, place, up, parkNs, cmd, todo, moved, startVars, removed>>

\* LifecycleStopContainers, at the end of Stop.
LifecycleStopContainers ==
    /\ pc = "stop-container"
    /\ \/ ~ Joinable /\ StopOk /\ NoFault /\ UNCHANGED <<status, place, up, caller>>
       \/ Joinable /\ containerStops /\ StopOk /\ NoFault /\ UNCHANGED caller
       \/ /\ Joinable /\ Fault("stop") /\ Goto("restore") /\ caller' = "Stop"
          /\ UNCHANGED <<status, place, up>>
    /\ UNCHANGED <<parkNs, symlink, cmd, todo, moved, startVars, removed>>

\* linkContainerNetNSSymlink after a Stop that had to be undone.
relinkAfterStop ==
    /\ pc = "relink"
    /\ \/ Joinable /\ symlink' = "container" /\ NoFault
       \/ Joinable /\ LinkFails
       \/ ~ Joinable /\ UNCHANGED symlink /\ NoFault
    /\ Return("error")
    /\ UNCHANGED <<status, place, up, parkNs, cmd, loopVars, startVars, removed>>

(***************************************************************************)
(* RestoreTo and what its callers do with its result.                      *)
(***************************************************************************)
\* RestoreTo starts with the interfaces found in the parking namespace, if there
\* is one (RestoreEndpoints, DiscoverOwnedEndpoints).
DiscoverOwnedEndpoints ==
    /\ pc = "restore"
    /\ moved' = {}
    /\ \/ parkNs /\ NoFault /\ Goto("restore-move") /\ todo' = In("parking")
       \/ parkNs /\ Fault("discover") /\ Goto("restore-failed") /\ UNCHANGED todo
       \/ ~ parkNs /\ NoFault /\ Goto("restore-failed") /\ UNCHANGED todo
    /\ UNCHANGED <<worldVars, cmd, caller, startVars, removed>>

\* Seeded fault: a restored interface is left down.
restoreWithoutActivation(i) ==
    /\ pc = "restore-move"
    /\ i \in todo
    /\ Joinable
    /\ Moved(i, "container")
    /\ todo' = todo \ {i}
    /\ moved' = moved \cup {i}
    /\ UNCHANGED <<status, parkNs, symlink, cmd, pc, caller, startVars, result, faultVars, removed>>

\* One endpoint is moved back and brought up.
RestoreTo(i) ==
    /\ pc = "restore-move"
    /\ i \in todo
    /\ Joinable
    /\ place' = [place EXCEPT ![i] = "container"]
    /\ up' = up \cup {i}
    /\ todo' = todo \ {i}
    /\ moved' = moved \cup {i}
    /\ UNCHANGED <<status, parkNs, symlink, cmd, pc, caller, startVars, result, faultVars, removed>>

\* It cannot be moved, or not be activated: then it has to go back as well.
restoreFails(i) ==
    /\ pc = "restore-move"
    /\ i \in todo
    /\ \/ ~ Joinable /\ NoFault /\ UNCHANGED <<place, moved>>
       \/ Joinable /\ Fault("move") /\ UNCHANGED <<place, moved>>
       \/ /\ Joinable /\ Fault("activate")
          /\ place' = [place EXCEPT ![i] = "container"]
          /\ moved' = moved \cup {i}
    /\ Goto("restore-rollback")
    /\ UNCHANGED <<status, up, parkNs, symlink, cmd, todo, caller, startVars, removed>>

restoreRollback(i) ==
    /\ pc = "restore-rollback"
    /\ i \in moved
    /\ moved' = moved \ {i}
    /\ \/ Joinable /\ place[i] = "container" /\ NoFault /\ Moved(i, "parking")
       \/ ~ (Joinable /\ place[i] = "container") /\ NoFault /\ UNCHANGED <<place, up>>
       \/ /\ Joinable /\ place[i] = "container" /\ Fault("move")
          /\ up' \in {up, up \ {i}} /\ UNCHANGED place
    /\ UNCHANGED <<status, parkNs, symlink, cmd, pc, todo, caller, startVars, result, removed>>

restoreGivesUp ==
    /\ pc = "restore-rollback"
    /\ moved = {}
    /\ Goto("restore-failed")
    /\ UNCHANGED <<worldVars, cmd, loopVars, startVars, faultVars, removed>>

\* Where the callers of RestoreTo go on; Start tells success from failure.
AfterRestore(ok) ==
    \/ caller = "ParkEndpoints" /\ Return("error")
    \/ caller = "Stop" /\ Goto("relink")
    \/ caller = "Start" /\ Goto(IF ok THEN "start-link" ELSE "start-undo")

\* All endpoints are back: the parking namespace is removed.  RestoreEndpoints
\* fails when that fails.
RestoreEndpoints ==
    /\ pc = "restore-move"
    /\ todo = {}
    /\ \/ cleanupParkingNetNS /\ AfterRestore(TRUE)
       \/ cleanupFails /\ AfterRestore(FALSE)
    /\ UNCHANGED <<status, symlink, cmd, loopVars, startVars, removed>>

\* ParkEndpoints removes the parking namespace even then, Stop and Start leave it.
restoreFailed ==
    /\ pc = "restore-failed"
    /\ \/ caller = "ParkEndpoints" /\ (cleanupParkingNetNS \/ cleanupFails)
       \/ caller # "ParkEndpoints" /\ NoFault /\ UNCHANGED <<place, up, parkNs>>
    /\ AfterRestore(FALSE)
    /\ UNCHANGED <<status, symlink, cmd, loopVars, startVars, removed>>

(***************************************************************************)
(* Start.                                                                  *)
(***************************************************************************)
\* Start up to LifecycleStartContainers, which also repoints the symlink.
Start ==
    /\ pc = "start"
    /\ hasParkingState' = parkNs
    /\ \/ /\ status = "notfound" /\ Return("error") /\ NoFault
          /\ UNCHANGED <<status, symlink, started>>
       \/ /\ status = "running" /\ NoFault
          /\ IF parkNs THEN Goto("start-restore") ELSE Return("ok")
          /\ UNCHANGED <<status, symlink, started>>
       \/ /\ status = "stopped" /\ NoFault
          /\ started' = TRUE
          /\ status' = "running" /\ symlink' = "container"
          /\ IF parkNs THEN Goto("start-restore") ELSE Return("ok")
       \/ /\ status = "stopped" /\ Fault("start") /\ Return("error")
          /\ UNCHANGED <<status, symlink, started>>
       \/ /\ status = "stopped" /\ Fault("post-start") /\ Return("error")
          /\ status' = "running" /\ symlink' \in {symlink, "none"}
          /\ UNCHANGED started
    /\ UNCHANGED <<place, up, parkNs, cmd, loopVars, removed>>

startRestore ==
    /\ pc = "start-restore"
    /\ caller' = "Start"
    /\ Goto("restore")
    /\ UNCHANGED <<worldVars, cmd, todo, moved, startVars, faultVars, removed>>

\* The restore failed: a container that this Start started is stopped again.
undoStart ==
    /\ pc = "start-undo"
    /\ \/ started /\ Joinable /\ NoFault /\ containerStops
       \/ started /\ Joinable /\ Fault("stop") /\ UNCHANGED <<status, place, up>>
       \/ ~ (started /\ Joinable) /\ NoFault /\ UNCHANGED <<status, place, up>>
    /\ Goto("start-repoint")
    /\ UNCHANGED <<parkNs, symlink, cmd, loopVars, startVars, removed>>

\* LinkContainerNS to the parking namespace.
repointToParking ==
    /\ pc = "start-repoint"
    /\ \/ symlink' = "parking" /\ NoFault
       \/ LinkFails
    /\ Return("error")
    /\ UNCHANGED <<status, place, up, parkNs, cmd, loopVars, startVars, removed>>

\* linkContainerNetNSSymlink at the end of Start.
linkContainerNetNSSymlink ==
    /\ pc = "start-link"
    /\ \/ Joinable /\ symlink' = "container" /\ Return("ok") /\ NoFault
       \/ Joinable /\ LinkFails /\ Return("error")
       \/ ~ Joinable /\ UNCHANGED symlink /\ Return("error") /\ NoFault
    /\ UNCHANGED <<status, place, up, parkNs, cmd, loopVars, startVars, removed>>

(***************************************************************************)
(* Delete, with its deferred cleanup, and the environment.                 *)
(***************************************************************************)
\* The links of the topology and of the parked interfaces are removed.  A veth
\* link that cannot be removed is only logged (LinkVEth.Remove), while an error on
\* a parked interface without a link, or on finding the parked ones, ends Delete.
Delete ==
    /\ pc = "delete"
    /\ LET links == Tracked \cup In("parking")
       IN  \E gone \in SUBSET links :
              /\ \/ gone = links /\ NoFault /\ Goto("delete-container")
                 \/ links \ gone \subseteq Tracked /\ Fault("remove") /\ Goto("delete-container")
                 \/ ~ (links \ gone \subseteq Tracked) /\ Fault("remove") /\ Goto("delete-failed")
                 \/ parkNs /\ gone = {} /\ Fault("discover") /\ Goto("delete-failed")
              /\ place' = [i \in Iface |-> IF i \in gone THEN "gone" ELSE place[i]]
              /\ up' = up \ gone
    /\ UNCHANGED <<status, parkNs, symlink, cmd, loopVars, startVars, removed>>

\* Nothing to do when the container is not found.
DeleteContainer ==
    /\ pc = "delete-container"
    /\ \/ status' = "notfound" /\ Lose("container") /\ NoFault /\ Goto("delete-done")
       \/ /\ status # "notfound" /\ Fault("delete") /\ Goto("delete-failed")
          /\ UNCHANGED <<status, place, up>>
    /\ UNCHANGED <<parkNs, symlink, cmd, loopVars, startVars, removed>>

\* Seeded fault: the parking namespace is not removed on errors.
cleanupOnSuccessOnly ==
    /\ pc \in {"delete-done", "delete-failed"}
    /\ IF pc = "delete-done" THEN cleanupParkingNetNS ELSE NoFault /\ UNCHANGED <<parkNs, place, up>>
    /\ Return(IF pc = "delete-done" THEN "ok" ELSE "error")
    /\ UNCHANGED <<status, symlink, cmd, loopVars, startVars, removed>>

deferredCleanup ==
    /\ pc \in {"delete-done", "delete-failed"}
    /\ \/ cleanupParkingNetNS /\ Return(IF pc = "delete-done" THEN "ok" ELSE "error")
       \/ cleanupFails /\ Return("error")
    /\ UNCHANGED <<status, symlink, cmd, loopVars, startVars, removed>>

\* The containerlab process is killed, perhaps while it moves an interface: after
\* the interface was set down, or after it arrived and before it is brought up.
kill ==
    /\ "kill" \in Faults
    /\ pc # "idle"
    /\ \/ UNCHANGED <<place, up>>
       \/ /\ pc \in {"capture-move", "restore-rollback"}
          /\ \E i \in (todo \cup moved) \cap In("container") : up' = up \ {i}
          /\ UNCHANGED place
       \/ /\ pc \in {"restore-move", "capture-rollback"} /\ Joinable
          /\ \E i \in (todo \cup moved) \cap In("parking") : Moved(i, "container")
    /\ pc' = "idle" /\ result' = "none" /\ disturbed' = TRUE
    /\ UNCHANGED <<status, parkNs, symlink, cmd, loopVars, startVars, faults, removed>>

\* The container exits on its own.
containerExit ==
    /\ "exit" \in Faults
    /\ status = "running"
    /\ containerStops
    /\ disturbed' = TRUE
    /\ UNCHANGED <<parkNs, symlink, cmd, pc, loopVars, startVars, result, faults, removed>>

\* Somebody else starts the container.
dockerStart ==
    /\ "docker-start" \in Faults
    /\ status = "stopped"
    /\ status' = "running"
    /\ disturbed' = TRUE
    /\ UNCHANGED <<place, up, parkNs, symlink, cmd, pc, loopVars, startVars, result, faults, removed>>

IfaceStep(i) == \/ CaptureFrom(i) \/ captureFails(i) \/ captureRollback(i)
                \/ RestoreTo(i) \/ restoreFails(i) \/ restoreRollback(i)

CommandStep ==
    \/ Stop \/ ParkEndpoints \/ captureCandidates \/ captureAbort \/ RepointSymlink
    \/ LifecycleStopContainers \/ relinkAfterStop
    \/ DiscoverOwnedEndpoints \/ restoreGivesUp \/ RestoreEndpoints \/ restoreFailed
    \/ Start \/ startRestore \/ undoStart \/ repointToParking \/ linkContainerNetNSSymlink
    \/ Delete \/ DeleteContainer \/ deferredCleanup
    \/ \E i \in Iface : IfaceStep(i)

Next == \/ \E c \in Command : begin(c)
        \/ CommandStep
        \/ kill \/ containerExit \/ dockerStart

Spec == Init /\ [][Next]_vars

(***************************************************************************)
(* Properties.  `disturbed` tells apart the behaviours in which a command  *)
(* meets at most one failure that its error paths prepare for.             *)
(***************************************************************************)
\* The type of the state.
TypeOK ==
    /\ status \in {"running", "stopped", "notfound"}
    /\ place \in [Iface -> {"container", "parking", "gone"}]
    /\ up \subseteq Iface
    /\ parkNs \in BOOLEAN
    /\ symlink \in {"container", "parking", "none"}
    /\ cmd \in Command \cup {"none"}
    /\ pc \in {"idle", "stop", "park", "capture", "capture-move", "capture-rollback",
               "stop-container", "relink", "restore", "restore-move", "restore-rollback",
               "restore-failed", "start", "start-restore", "start-undo", "start-repoint",
               "start-link", "delete", "delete-container", "delete-done", "delete-failed"}
    /\ todo \subseteq Iface /\ moved \subseteq Iface
    /\ caller \in {"none", "ParkEndpoints", "Stop", "Start"}
    /\ started \in BOOLEAN /\ hasParkingState \in BOOLEAN
    /\ result \in {"none", "ok", "error"}
    /\ faults \in 0..MaxFaults
    /\ removed \in BOOLEAN /\ disturbed \in BOOLEAN

\* "without losing their dataplane links" (core/stop.go, StopNodes): an interface
\* is gone only after the node was to be deleted.
LinksKept == removed \/ In("gone") = {}

\* No sequence of stop, start and restart loses an interface, also when a call of
\* each of these commands fails and the command has to undo what it has done: between
\* commands the interfaces are all attached to a running container or all parked for
\* a stopped one, and the symlink follows them (nodes/default_node.go, Stop, Start).
NoInterfaceLost ==
    ~ disturbed =>
        /\ LinksKept
        /\ pc = "idle" /\ ~ removed =>
              \/ status = "running" /\ In("container") = Iface /\ ~ parkNs /\ symlink # "parking"
              \/ status = "stopped" /\ In("parking") = Iface /\ parkNs /\ symlink # "container"

\* A Start that reports success, after whatever happened before and meanwhile, leaves
\* no interface parked and no parking namespace (RestoreEndpoints); after a Stop it has
\* brought every interface back up and made the namespace of the node point to the
\* container again.
StartRestores ==
    pc = "idle" /\ cmd \in {"start", "restart"} /\ result = "ok" =>
        /\ ~ parkNs /\ In("parking") = {}
        /\ hasParkingState /\ ~ removed /\ ~ disturbed =>
              In("container") = Iface /\ up = Iface /\ symlink = "container"

\* Deleting a node leaves no parking namespace behind, failed or not, and when it
\* reports success nothing of the node is left at all (Delete, default_node.go).
DeleteCleansUp ==
    pc = "idle" /\ cmd = "delete" /\ result # "none" =>
        /\ parkNs => disturbed
        /\ result = "ok" => ~ parkNs /\ status = "notfound" /\ In("gone") = Iface
=============================================================================
