--------------------------- MODULE StagedDeployment ---------------------------
(***************************************************************************)
(* What a deployment promises the author of a topology, without workers,   *)
(* channels or counters: a node enters a stage only when everything that   *)
(* stage waits for has finished, a node goes through its own stages in     *)
(* order, and a deployment is reported as successful only when every node  *)
(* got through its mandatory stages.  NodeScheduler implements it.         *)
(***************************************************************************)
CONSTANTS Node, Stage, Requirement

VARIABLES
    needs,      \* the requirements of this deployment, fixed from the start
    entered,    \* the <<node, stage>> pairs entered so far
    completed,  \* the <<node, stage>> pairs completed so far
    abandoned,  \* nodes whose deployment failed
    cancelled,  \* the user has interrupted the deployment
    outcome     \* "pending", "rejected", "failed" or "deployed"

vars == <<needs, entered, completed, abandoned, cancelled, outcome>>

\* The stages of the same node that must be completed before stage s.
Before(s) == IF s = "create" THEN {}
             ELSE IF s = "create-links" THEN {"create"}
             ELSE IF s = "configure" THEN {"create", "create-links"}
             ELSE {"create", "create-links", "configure"}

Init == /\ needs \subseteq Requirement
        /\ entered = {}
        /\ completed = {}
        /\ abandoned = {}
        /\ cancelled = FALSE
        /\ outcome = "pending"

\* A topology whose requirements cannot be met is turned down untouched.
Reject == /\ outcome = "pending"
          /\ entered = {}
          /\ outcome' = "rejected"
          /\ UNCHANGED <<needs, entered, completed, abandoned, cancelled>>

Enter(n, s) ==
    /\ outcome # "rejected"
    /\ n \notin abandoned
    /\ <<n, s>> \notin entered
    /\ \A r \in needs : r.depender = n /\ r.at = s => <<r.dependee, r.until>> \in completed
    /\ \A b \in Before(s) : <<n, b>> \in completed
    /\ entered' = entered \cup {<<n, s>>}
    /\ UNCHANGED <<needs, completed, abandoned, cancelled, outcome>>

Complete(n, s) ==
    /\ n \notin abandoned
    /\ <<n, s>> \in entered \ completed
    /\ outcome = "pending"
    /\ completed' = completed \cup {<<n, s>>}
    /\ UNCHANGED <<needs, entered, abandoned, cancelled, outcome>>

Abandon(n) ==
    /\ outcome = "pending"
    /\ n \notin abandoned
    /\ abandoned' = abandoned \cup {n}
    /\ UNCHANGED <<needs, entered, completed, cancelled, outcome>>

Cancel == /\ outcome = "pending"
          /\ ~ cancelled
          /\ cancelled' = TRUE
          /\ UNCHANGED <<needs, entered, completed, abandoned, outcome>>

\* Success needs every node through its mandatory stages, unless cancelled.
Succeed == /\ outcome = "pending"
           /\ abandoned = {}
           /\ cancelled \/ \A n \in Node : <<n, "configure">> \in completed
           /\ outcome' = "deployed"
           /\ UNCHANGED <<needs, entered, completed, abandoned, cancelled>>

Fail == /\ outcome = "pending"
        /\ abandoned # {}
        /\ outcome' = "failed"
        /\ UNCHANGED <<needs, entered, completed, abandoned, cancelled>>

Next == \/ Reject \/ Cancel \/ Succeed \/ Fail
        \/ \E n \in Node : Abandon(n)
        \/ \E n \in Node, s \in Stage : Enter(n, s) \/ Complete(n, s)

Spec == Init /\ [][Next]_vars
=============================================================================
