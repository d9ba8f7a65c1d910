------------------------------- MODULE VethLink -------------------------------
(***************************************************************************)
(* The deployment of one veth link (links/link_veth.go).  In the           *)
(* create-links stage the worker of each of the two nodes calls            *)
(* LinkVEth.Deploy for its own endpoint: the first call creates the pair   *)
(* and moves its end (deployAEnd), the second one moves the other end      *)
(* (deployBEnd).  An end without a node (host, management bridge) is moved *)
(* right after the first one; for a host end CLab.Deploy calls Deploy      *)
(* again once all workers are done.                                        *)
(*                                                                         *)
(* The choice between the two and the attempt itself are steps of their    *)
(* own, which deployMutex is to keep together; how far an attempt gets is  *)
(* its outcome.  The pair is a kernel object: both ends exist or none.     *)
(***************************************************************************)
EXTENDS Naturals, FiniteSets

CONSTANTS
    linkDeployRetries,  \* attempts per call of Deploy
    Faults,             \* where a netlink call may fail, see FaultKind
    MaxFaults           \* how many of them may fail in one deployment

End == {0, 1}
Peer(e) == 1 - e

\* <<before or after the end is in its node, transient or permanent>>, and the
\* removal of the pair by cleanup, whose error is only logged.
Uncleaned == <<"cleanup", "logged">>
FaultKind == ({"before", "after"} \X {"transient", "permanent"}) \cup {Uncleaned}

ASSUME RetriesAssumption == linkDeployRetries \in Nat \ {0}
ASSUME FaultAssumption == Faults \subseteq FaultKind /\ MaxFaults \in Nat

VARIABLES
    nodeless,         \* the ends that belong to no node
    DeploymentState,  \* of the link
    where,            \* each end: "none", "root" (random name), "moved" or "up" in its node
    pc,               \* the call of Deploy for each end
    attempt,          \* the attempts it has made
    deployMutex,      \* the end whose call holds the mutex, or Free
    faults,           \* the failures met so far
    struck,           \* history: their kinds
    cancelled         \* the context is cancelled

vars == <<nodeless, DeploymentState, where, pc, attempt, deployMutex, faults, struck, cancelled>>

Free == 2

Init ==
    /\ nodeless \in {{}, {0}, {1}}
    /\ DeploymentState = "not"
    /\ where = [e \in End |-> "none"]
    /\ pc = [e \in End |-> "idle"]
    /\ attempt = [e \in End |-> 0]
    /\ deployMutex = Free
    /\ faults = 0
    /\ struck = {}
    /\ cancelled = FALSE

(***************************************************************************)
(* Outcomes of an attempt: what becomes of the ends, and the error.        *)
(***************************************************************************)
Outcome(w, state, err, f) == [where |-> w, state |-> state, err |-> err, struck |-> f]

\* The failures that may strike now, before or after the end is in its node.
Failures(k) == IF faults < MaxFaults THEN {f \in Faults : f[1] = k} ELSE {}

\* Those before the move after which the LinkDel of cleanup fails too.
WithFailingCleanup == {f \in Failures("before") : Uncleaned \in Faults /\ faults + 1 < MaxFaults}

\* Seeded fault: the state is set before the end is in its node.
fullBeforeTheMove(w, e) ==
    IF w[e] # "root"
    THEN {Outcome(w, DeploymentState, "permanent", {})}
    ELSE {Outcome([w EXCEPT ![e] = "up"], "full", "nil", {})}
         \cup {Outcome(w, "full", f[2], {f}) : f \in Failures("before")}
         \cup {Outcome([w EXCEPT ![e] = "moved"], "full", f[2], {f}) : f \in Failures("after")}

\* deployBEnd: its end is looked up in the root namespace, moved and set up.
BEnd(w, e) ==
    IF w[e] # "root"
    THEN {Outcome(w, DeploymentState, "permanent", {})}
    ELSE {Outcome([w EXCEPT ![e] = "up"], "full", "nil", {})}
         \cup {Outcome(w, "half", f[2], {f}) : f \in Failures("before")}
         \cup {Outcome([w EXCEPT ![e] = "moved"], "half", f[2], {f}) : f \in Failures("after")}

\* Seeded fault: a failed deployAEnd leaves the pair behind.
nothingCleanedUp(w, e) ==
    IF \E x \in End : w[x] = "root"
    THEN {Outcome(w, DeploymentState, "permanent", {})}
    ELSE {Outcome([x \in End |-> IF x = e THEN "up" ELSE "root"], "half", "nil", {})}
         \cup {Outcome([x \in End |-> "root"], DeploymentState, f[2], {f}) : f \in Failures("before")}

\* deployAEnd up to its own end: LinkAdd, which finds leftovers of the same names,
\* the move and the setup.  cleanup finds the pair only before the move, and may
\* itself fail to remove it.
AEnd(w, e) ==
    IF \E x \in End : w[x] = "root"
    THEN {Outcome(w, DeploymentState, "permanent", {})}
    ELSE {Outcome([x \in End |-> IF x = e THEN "up" ELSE "root"], "half", "nil", {})}
         \cup {Outcome([x \in End |-> "none"], DeploymentState, f[2], {f}) : f \in Failures("before")}
         \cup {Outcome([x \in End |-> "root"], DeploymentState, f[2], {f, Uncleaned}) : f \in WithFailingCleanup}
         \cup {Outcome([x \in End |-> IF x = e THEN "moved" ELSE "root"],
                       DeploymentState, f[2], {f}) : f \in Failures("after")}

deployBEnd(e) == BEnd(where, e)

\* Seeded fault: the end without a node is not deployed.
leaveNodelessEnd(e) == AEnd(where, e)

\* The other end follows at once if it has no node.
deployAEnd(e) ==
    LET A == AEnd(where, e)
    IN  IF Peer(e) \notin nodeless THEN A
        ELSE {o \in A : o.err # "nil"} \cup UNION {BEnd(o.where, Peer(e)) : o \in {a \in A : a.err = "nil"}}

(***************************************************************************)
(* Deploy.                                                                 *)
(***************************************************************************)
\* The worker of the node calls; for an end without a node it is CLab.Deploy,
\* after the workers and only if none of them has failed.
Deploy(e) ==
    /\ pc[e] = "idle"
    /\ e \in nodeless => pc[Peer(e)] = "ok"
    /\ pc' = [pc EXCEPT ![e] = "lock"]
    /\ UNCHANGED <<nodeless, DeploymentState, where, attempt, deployMutex, faults, struck, cancelled>>

\* Seeded fault: Deploy does not lock.
withoutLock(e) ==
    /\ pc[e] = "lock"
    /\ pc' = [pc EXCEPT ![e] = "try"]
    /\ UNCHANGED <<nodeless, DeploymentState, where, attempt, deployMutex, faults, struck, cancelled>>

Lock(e) ==
    /\ pc[e] = "lock"
    /\ deployMutex = Free
    /\ deployMutex' = e
    /\ pc' = [pc EXCEPT ![e] = "try"]
    /\ UNCHANGED <<nodeless, DeploymentState, where, attempt, faults, struck, cancelled>>

\* Seeded fault: an error return does not unlock.
returnLocked(e, r) ==
    /\ pc' = [pc EXCEPT ![e] = r]
    /\ deployMutex' = IF r = "ok" THEN Free ELSE deployMutex

\* Deploy returns r and unlocks.
Return(e, r) ==
    /\ pc' = [pc EXCEPT ![e] = r]
    /\ deployMutex' = Free

\* The pause between attempts, with the mutex held.
backOff(e) ==
    /\ pc' = [pc EXCEPT ![e] = "backoff"]
    /\ UNCHANGED deployMutex

\* The switch of the retry loop on DeploymentState.
choose(e) ==
    /\ pc[e] = "try"
    /\ \/ DeploymentState = "full" /\ Return(e, "ok")
       \/ /\ DeploymentState # "full"
          /\ pc' = [pc EXCEPT ![e] = IF DeploymentState = "half" THEN "B" ELSE "A"]
          /\ UNCHANGED deployMutex
    /\ UNCHANGED <<nodeless, DeploymentState, where, attempt, faults, struck, cancelled>>

\* The attempt itself.
tryDeploy(e) ==
    /\ pc[e] \in {"A", "B"}
    /\ \E o \in IF pc[e] = "A" THEN deployAEnd(e) ELSE deployBEnd(e) :
          /\ where' = o.where
          /\ DeploymentState' = o.state
          /\ faults' = faults + Cardinality(o.struck)
          /\ struck' = struck \cup o.struck
          /\ \/ o.err = "nil" /\ Return(e, "ok")
             \/ o.err = "permanent" /\ Return(e, "error")
             \/ o.err = "transient" /\ backOff(e)
    /\ attempt' = [attempt EXCEPT ![e] = @ + 1]
    /\ UNCHANGED <<nodeless, cancelled>>

\* The select after a transient error, and the end of the loop.
endBackoff(e) ==
    /\ pc[e] = "backoff"
    /\ \/ cancelled /\ Return(e, "error")
       \/ attempt[e] = linkDeployRetries /\ Return(e, "error")
       \/ attempt[e] < linkDeployRetries /\ pc' = [pc EXCEPT ![e] = "try"] /\ UNCHANGED deployMutex
    /\ UNCHANGED <<nodeless, DeploymentState, where, attempt, faults, struck, cancelled>>

cancel == /\ ~ cancelled
          /\ cancelled' = TRUE
          /\ UNCHANGED <<nodeless, DeploymentState, where, pc, attempt, deployMutex, faults, struck>>

Step(e) == Deploy(e) \/ Lock(e) \/ choose(e) \/ tryDeploy(e) \/ endBackoff(e)

Next == cancel \/ \E e \in End : Step(e)

Spec == Init /\ [][Next]_vars

\* Both callers keep running and sync.Mutex starves nobody.
FairSpec == Spec /\ \A e \in End : WF_vars(Step(e)) /\ SF_vars(Lock(e))

(***************************************************************************)
(* Properties.                                                             *)
(***************************************************************************)
\* The type of the state: the retry loop of Deploy is bounded.
TypeOK ==
    /\ nodeless \in SUBSET End
    /\ DeploymentState \in {"not", "half", "full"}
    /\ where \in [End -> {"none", "root", "moved", "up"}]
    /\ pc \in [End -> {"idle", "lock", "try", "A", "B", "backoff", "ok", "error"}]
    /\ attempt \in [End -> 0..linkDeployRetries]
    /\ deployMutex \in End \cup {Free}
    /\ faults \in Nat
    /\ struck \subseteq FaultKind
    /\ cancelled \in BOOLEAN

\* "we only deploy the link once, even if multiple nodes call deploy on the same
\* link" (Deploy): whoever is told that Deploy succeeded has its end in place, and
\* the other end too if nobody else will bring it.
SuccessIsAttached ==
    \A e \in End : pc[e] = "ok" =>
        /\ where[e] = "up"
        /\ Peer(e) \in nodeless => where[Peer(e)] = "up"

\* The recorded state of the link agrees with the kernel: what the second caller
\* of Deploy decides on is not stale.
StateMatchesKernel ==
    /\ DeploymentState = "full" => \A e \in End : where[e] = "up"
    /\ DeploymentState = "half" => \E e \in End : where[e] = "up" /\ where[Peer(e)] # "none"
    /\ DeploymentState = "not"  => \A e \in End : where[e] # "up"

\* "preventing orphaned interfaces from blocking retries" (deployAEnd): a link that
\* is not deployed has left an interface exactly when a call failed after the move,
\* where cleanup finds nothing, or the LinkDel of cleanup failed itself; neither a
\* retry nor the other caller ever gets past what cleanup has left.
OrphansExplained ==
    /\ DeploymentState = "not" =>
           ((\E e \in End : where[e] # "none") <=> (\E f \in struck : f[1] \in {"after", "cleanup"}))
    /\ (\E f \in struck : f[1] = "cleanup") =>
           DeploymentState = "not" /\ \A e \in End : pc[e] # "ok"

\* "making each retry idempotent" (Deploy): transient errors, fewer than there are
\* attempts, never make Deploy fail.
TransientErrorsAreRetried ==
    (\A f \in struck : f[2] = "transient") /\ faults < linkDeployRetries /\ ~ cancelled =>
        \A e \in End : pc[e] # "error"

\* That is so for a link between two nodes as long as the errors come before the
\* move: what cleanup has removed is made again, the end in its node stays.
NodeLinksAreRetried ==
    nodeless = {} /\ (\A f \in struck : f[1] = "before") => TransientErrorsAreRetried

\* Every call of Deploy returns: the workers are not kept for ever.
LinkDeployReturns == \A e \in End : pc[e] = "lock" ~> pc[e] \in {"ok", "error"}
=============================================================================
