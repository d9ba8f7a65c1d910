---------------------------- MODULE LabHostProofs ----------------------------
(***************************************************************************)
(* Labs on one host for every number of labs, nodes and processes: a lab   *)
(* that was deployed with success stays as it is until a command is given  *)
(* for it; while commands do not overlap, /etc/hosts holds exactly the     *)
(* blocks of the labs, and a destroy leaves nothing of its labs behind.    *)
(***************************************************************************)
EXTENDS LabHost, FiniteSetTheorems, TLAPS

(***************************************************************************)
(* The invariant.                                                          *)
(***************************************************************************)

\* Where a goroutine can be; while it writes the files of a deploy; in a deploy.
Pc == {"idle", "new", "inspect", "netcreate", "netnew", "netrules", "check", "nodes", "hread", "htrunc",
       "hwrite", "happend", "addssh", "list", "prompt", "next", "dlist", "delete", "rmfiles",
       "dnet", "dnetrm", "dnetrules", "rmdir", "labdirs", "tlist", "tcreate", "tdelete", "return"}
Writing == {"hread", "htrunc", "hwrite", "happend", "addssh"}
DeployPc ==
    {"new", "inspect", "netcreate", "netnew", "netrules", "check", "nodes", "return"} \cup Writing

\* A goroutine that keeps the lines b of /etc/hosts and has w workers.
Op == Operations \cup {"none"}
Goroutine(b, w) ==
    [pc : Pc, op : Op, lab : Labs \cup {"none"}, in : Op, todo : SUBSET Labs,
     found : SUBSET Labs, bridge : Nat, buf : {b}, queue : SUBSET Nodes,
     inflight : SUBSET Nodes, workers : {w}, err : BOOLEAN, faulty : BOOLEAN, sole : BOOLEAN]
Process == [cancelled : BOOLEAN, timedOut : BOOLEAN, CleanOnCancel : BOOLEAN]

HostTypes ==
    /\ DOMAIN th = Threads /\ th = [t \in Threads |-> th[t]]
    /\ \A t \in Threads : th[t] \in Goroutine(th[t].buf, th[t].workers)
    /\ proc \in [Procs -> Process]
    /\ network \in Nat /\ networks \in Nat
    /\ deployed \subseteq Labs /\ sound \subseteq deployed

Active(t) == th[t].pc # "idle"

\* A command for one lab finds no other; a deploy is one of these.
OneLab(t) ==
    Active(t) =>
        /\ th[t].todo \subseteq th[t].found
        /\ ~AllLabs(th[t].op) => th[t].lab \in Labs /\ th[t].found \subseteq {th[t].lab}
        /\ th[t].in \in {"deploy", "reconfigure"} => ~AllLabs(th[t].op) /\ t[2] = "main"
        /\ th[t].in = "deploy" => th[t].pc \in DeployPc
        /\ th[t].pc = "rmdir" => th[t].in = "reconfigure"

\* The signal handler destroys the lab of an interrupted command for one lab.
HandlerIsLate(p) ==
    /\ Active(<<p, "main">>) /\ proc[p].CleanOnCancel => ~AllLabs(th[<<p, "main">>].op)
    /\ Active(<<p, "handler">>) =>
          /\ Active(<<p, "main">>) /\ proc[p].cancelled
          /\ th[<<p, "handler">>].op = "destroy" /\ th[<<p, "handler">>].in = "destroy"
          /\ ~AllLabs(th[<<p, "main">>].op)
          /\ th[<<p, "handler">>].lab = th[<<p, "main">>].lab

\* A command that is said to be the only one for its labs is.
Alone(p, q) ==
    p # q /\ Active(<<p, "main">>) /\ Active(<<q, "main">>) /\ th[<<p, "main">>].sole =>
        Targets(<<p, "main">>) \cap Targets(<<q, "main">>) = {}

\* Nobody works on a lab that counts as deployed.
Untouched == \A l \in deployed : ~Targeted(l)

\* What a deploy without an error so far has done for its lab.
Up(l, n) == <<l, n>> \in running /\ <<l, n>> \in netns
Built(r) ==
    r.in = "deploy" /\ ~r.err =>
        /\ r.pc \in {"nodes", "return"} \cup Writing => r.lab \in dirs
        /\ r.pc = "nodes" => \A n \in Nodes : n \in r.queue \/ n \in r.inflight \/ Up(r.lab, n)
        /\ r.pc \in {"return"} \cup Writing => \A n \in Nodes : Up(r.lab, n)
        /\ r.pc = "return" /\ ~r.faulty /\ SSHConfigDir => r.lab \in ssh
Building ==
    \A p \in Procs :
        Active(<<p, "main">>) /\ th[<<p, "main">>].sole /\ ~proc[p].cancelled
            => Built(th[<<p, "main">>])

\* Docker does not remove a network with a container attached.
NetworkInUse == running # {} => network # 0

\* What is there for a deployed lab, the network aside.
Present(l) == l \in dirs /\ \A n \in Nodes : Up(l, n)

HostInv ==
    /\ HostTypes
    /\ \A t \in Threads : OneLab(t)
    /\ \A p \in Procs : HandlerIsLate(p)
    /\ \A p, q \in Procs : Alone(p, q)
    /\ Untouched /\ Building /\ NetworkInUse
    /\ \A l \in deployed : Present(l)
    /\ SSHConfigDir => sound \subseteq ssh

(***************************************************************************)
(* What a step of a goroutine other than its return does.                  *)
(***************************************************************************)

\* The record of a goroutine after a step of its own: the same command, at most
\* moved on to a lab it has found.
Onward(t, r) ==
    /\ r \in Goroutine(r.buf, r.workers) /\ r.pc # "idle"
    /\ r.op = th[t].op /\ r.sole = th[t].sole
    /\ r.lab \in {th[t].lab} \cup th[t].todo
    /\ r.todo \subseteq r.found
    /\ ~AllLabs(r.op) => r.found \subseteq {th[t].lab}
    /\ r.in = th[t].in \/ (r.in = "deploy" /\ th[t].in = "reconfigure")
    /\ r.in = "deploy" => r.pc \in DeployPc
    /\ r.pc = "rmdir" => r.in = "reconfigure"

\* What a deploy without an error has done after a step that leaves it in r.
UpAfter(l, n) == <<l, n>> \in running' /\ <<l, n>> \in netns'
BuiltAfter(r) ==
    r.in = "deploy" /\ ~r.err =>
        /\ r.pc \in {"nodes", "return"} \cup Writing => r.lab \in dirs'
        /\ r.pc = "nodes" =>
              \A n \in Nodes : n \in r.queue \/ n \in r.inflight \/ UpAfter(r.lab, n)
        /\ r.pc \in {"return"} \cup Writing => \A n \in Nodes : UpAfter(r.lab, n)
        /\ r.pc = "return" /\ ~r.faulty /\ SSHConfigDir => r.lab \in ssh'

\* Another goroutine only learns that a container of its lab is gone.
Undisturbed(t, u) ==
    \/ th'[u] = th[u]
    \/ /\ th[u].lab = th[t].lab /\ th[u].pc = "nodes"
       /\ \E i \in SUBSET Nodes :
            th'[u] = [th[u] EXCEPT !.inflight = i, !.err = TRUE, !.faulty = TRUE]

\* Of the host it changes what belongs to its own lab, and the network only as docker
\* allows.
Elsewhere(t) ==
    /\ \A l \in Labs : ~AllLabs(th[t].op) /\ l # th[t].lab =>
          /\ l \in dirs => l \in dirs'
          /\ l \in ssh => l \in ssh'
          /\ \A n \in Nodes : Up(l, n) => UpAfter(l, n)
    /\ network' \in Nat /\ networks' \in Nat /\ NetworkInUse'

Effect(t) ==
    /\ UNCHANGED <<proc, deployed, sound, last>> /\ (clean' => clean) /\ leaked \subseteq leaked'
    /\ DOMAIN th' = Threads /\ th' = [u \in Threads |-> th'[u]]
    /\ Onward(t, th'[t]) /\ \A u \in Threads \ {t} : Undisturbed(t, u)
    /\ Elsewhere(t)
    /\ Built(th[t]) => BuiltAfter(th'[t])

\* A step that changes of the goroutines only its own.
LEMMA OwnStepAfter ==
    ASSUME HostInv, NEW t \in Threads, NEW r, th' = [th EXCEPT ![t] = r],
           UNCHANGED <<proc, deployed, sound, last>>, clean' => clean, leaked \subseteq leaked',
           Elsewhere(t), Onward(t, r), Built(th[t]) => BuiltAfter(r)
    PROVE  Effect(t)
<1>1. /\ DOMAIN th' = Threads /\ th' = [u \in Threads |-> th'[u]] /\ th'[t] = r
      /\ \A u \in Threads \ {t} : th'[u] = th[u]
  BY DEF HostInv, HostTypes
<1> QED BY <1>1 DEF Effect, Undisturbed

\* And nothing of the history.
LEMMA OwnStep ==
    ASSUME HostInv, NEW t \in Threads, NEW r, th' = [th EXCEPT ![t] = r],
           UNCHANGED <<proc, ghost>>, Elsewhere(t), Onward(t, r), Built(th[t]) => BuiltAfter(r)
    PROVE  Effect(t)
  BY OwnStepAfter DEF ghost

\* A goroutine that goes on with its command.
Same(t, r) ==
    /\ r \in Goroutine(r.buf, r.workers) /\ r.pc \notin {"idle", "rmdir"}
    /\ r.op = th[t].op /\ r.sole = th[t].sole /\ r.lab = th[t].lab /\ r.in = th[t].in
    /\ r.todo = th[t].todo /\ r.found = th[t].found
    /\ r.in = "deploy" => r.pc \in DeployPc

\* Going on with a command is what a step may do.
LEMMA SameOnward ==
    ASSUME NEW t \in Threads, OneLab(t), Active(t), NEW r, Same(t, r)
    PROVE  Onward(t, r)
  BY DEF OneLab, Same, Onward

\* A step that leaves the host alone.
LEMMA HostSame ==
    ASSUME HostInv, NEW t \in Threads, UNCHANGED host
    PROVE  Elsewhere(t)
  BY DEF HostInv, HostTypes, host, Elsewhere, NetworkInUse, Up, UpAfter

\* What is known of a goroutine that is active.
LEMMA Known ==
    ASSUME HostInv, NEW t \in Threads
    PROVE  /\ th[t] \in Goroutine(th[t].buf, th[t].workers) /\ OneLab(t)
           /\ network \in Nat /\ networks \in Nat /\ NetworkInUse
  BY DEF HostInv, HostTypes

(***************************************************************************)
(* The management network.                                                 *)
(***************************************************************************)

\* NewContainerLab chooses the way of the command.
LEMMA NewContainerLabStep ==
    ASSUME HostInv, NEW t \in Threads, NewContainerLab(t)
    PROVE  Effect(t)
<1>1. /\ th[t] \in Goroutine(th[t].buf, th[t].workers) /\ OneLab(t) /\ network \in Nat
      /\ th[t].pc = "new" /\ Active(t) /\ UNCHANGED <<proc, ghost>> /\ Elsewhere(t)
  BY Known, HostSame DEF NewContainerLab, At, Active
<1> DEFINE way == CASE th[t].in = "deploy" -> "inspect"
                    [] th[t].in = "reconfigure" -> "dlist"
                    [] th[t].in = "attach" -> "tlist"
                    [] th[t].in \in {"detach", "reattach"} -> "tdelete"
                    [] OTHER -> "list"
           ok == [th[t] EXCEPT !.bridge = network, !.pc = way]
           failed == [th[t] EXCEPT !.pc = "return", !.err = TRUE, !.faulty = TRUE]
<1>2. th' = [th EXCEPT ![t] = ok] \/ th' = [th EXCEPT ![t] = failed]
  BY DEF NewContainerLab, Fail
<1>3. /\ way \in {"inspect", "dlist", "tlist", "tdelete", "list"}
      /\ th[t].in = "deploy" => way = "inspect"
  OBVIOUS
<1> HIDE DEF way
<1>4. Same(t, ok) /\ Same(t, failed) /\ failed.err = TRUE /\ ok.pc = way
  BY <1>1, <1>3 DEF Same, Goroutine, Pc, DeployPc
<1>5. BuiltAfter(ok) /\ BuiltAfter(failed)
  BY <1>3, <1>4 DEF BuiltAfter, Writing
<1> HIDE DEF ok, failed
<1> QED BY <1>1, <1>2, <1>4, <1>5, OwnStep, SameOnward

\* CreateNet looks for the network.
LEMMA CreateNetStep ==
    ASSUME HostInv, NEW t \in Threads, CreateNet(t)
    PROVE  Effect(t)
<1>1. /\ th[t] \in Goroutine(th[t].buf, th[t].workers) /\ OneLab(t) /\ network \in Nat
      /\ th[t].pc = "inspect" /\ Active(t) /\ UNCHANGED <<proc, ghost>> /\ Elsewhere(t)
  BY Known, HostSame DEF CreateNet, At, Active
<1> DEFINE ok == [th[t] EXCEPT !.pc = IF network = 0 THEN "netcreate" ELSE "netrules",
                               !.bridge = IF @ = 0 THEN network ELSE @]
           failed == [th[t] EXCEPT !.pc = AfterNetError(t), !.err = TRUE, !.faulty = TRUE]
<1>2. th' = [th EXCEPT ![t] = ok] \/ th' = [th EXCEPT ![t] = failed]
  BY DEF CreateNet, Fail
<1>4. Same(t, ok) /\ Same(t, failed) /\ failed.err = TRUE /\ ok.pc \in {"netcreate", "netrules"}
  BY <1>1 DEF Same, Goroutine, Pc, DeployPc, AfterNetError
<1>5. BuiltAfter(ok) /\ BuiltAfter(failed)
  BY <1>4 DEF BuiltAfter, Writing
<1> HIDE DEF ok, failed
<1> QED BY <1>1, <1>2, <1>4, <1>5, OwnStep, SameOnward

\* createMgmtBridge makes a network, unless there is one.
LEMMA CreateBridgeStep ==
    ASSUME HostInv, NEW t \in Threads, createMgmtBridge(t)
    PROVE  Effect(t)
<1> DEFINE bridge == IF th[t].bridge # 0 THEN th[t].bridge ELSE networks + 1
           ok == [th[t] EXCEPT !.pc = "netnew", !.bridge = bridge]
           failed == [th[t] EXCEPT !.pc = AfterNetError(t), !.err = TRUE, !.faulty = TRUE]
<1>1. /\ th[t] \in Goroutine(th[t].buf, th[t].workers) /\ OneLab(t) /\ network \in Nat
      /\ networks \in Nat /\ NetworkInUse
      /\ th[t].pc = "netcreate" /\ Active(t) /\ UNCHANGED <<proc, ghost>>
      /\ UNCHANGED <<running, ssh, dirs, netns>>
  BY Known DEF createMgmtBridge, At, Active
<1>2. bridge \in Nat /\ bridge # 0
  BY <1>1 DEF Goroutine
<1>3. \/ th' = [th EXCEPT ![t] = ok] /\ network' = bridge /\ networks' \in {bridge, networks}
      \/ th' = [th EXCEPT ![t] = failed] /\ UNCHANGED <<network, networks>>
  BY DEF createMgmtBridge, Fail
<1> HIDE DEF bridge
<1>4. Elsewhere(t)
  BY <1>1, <1>2, <1>3 DEF Elsewhere, NetworkInUse, Up, UpAfter
<1>5. Same(t, ok) /\ Same(t, failed) /\ failed.err = TRUE /\ ok.pc = "netnew"
  BY <1>1, <1>2 DEF Same, Goroutine, Pc, DeployPc, AfterNetError
<1>6. BuiltAfter(ok) /\ BuiltAfter(failed)
  BY <1>5 DEF BuiltAfter, Writing
<1> HIDE DEF ok, failed
<1> QED BY <1>1, <1>3, <1>4, <1>5, <1>6, OwnStep, SameOnward

\* postCreateNetActions installs the rules.
LEMMA NetRulesStep ==
    ASSUME HostInv, NEW t \in Threads, postCreateNetActions(t)
    PROVE  Effect(t)
<1> DEFINE ok == [th[t] EXCEPT !.pc = IF th[t].in = "deploy" THEN "check" ELSE "dlist"]
           warned == [th[t] EXCEPT !.pc = IF th[t].in = "deploy" THEN "check" ELSE "dlist",
                                   !.faulty = TRUE]
           failed == [th[t] EXCEPT !.pc = AfterNetError(t), !.err = TRUE, !.faulty = TRUE]
<1>1. /\ th[t] \in Goroutine(th[t].buf, th[t].workers) /\ OneLab(t) /\ network \in Nat
      /\ networks \in Nat /\ NetworkInUse
      /\ th[t].pc \in {"netnew", "netrules"} /\ Active(t) /\ UNCHANGED <<proc, ghost>>
      /\ UNCHANGED <<running, network, networks, ssh, dirs, netns>>
  BY Known DEF postCreateNetActions, At, Active
<1>2. \/ th' = [th EXCEPT ![t] = ok] \/ th' = [th EXCEPT ![t] = warned]
      \/ th' = [th EXCEPT ![t] = failed]
  BY DEF postCreateNetActions, Fail, Goto, Logged
<1>3. Elsewhere(t)
  BY <1>1 DEF Elsewhere, NetworkInUse, Up, UpAfter
<1>4. /\ Same(t, ok) /\ Same(t, warned) /\ Same(t, failed) /\ failed.err = TRUE
      /\ ok.pc \in {"check", "dlist"} /\ warned.pc \in {"check", "dlist"}
  BY <1>1, ZenonT(40) DEF Same, Goroutine, Pc, DeployPc, AfterNetError
<1>5. BuiltAfter(ok) /\ BuiltAfter(warned) /\ BuiltAfter(failed)
  BY <1>4 DEF BuiltAfter, Writing
<1> HIDE DEF ok, warned, failed
<1> QED BY <1>1, <1>2, <1>3, <1>4, <1>5, OwnStep, SameOnward

\* DeleteNet looks for attached containers.
LEMMA DeleteNetStep ==
    ASSUME HostInv, NEW t \in Threads, DeleteNet(t)
    PROVE  Effect(t)
<1> DEFINE ok == [th[t] EXCEPT !.pc = IF th[t].in = "reconfigure" \/ network = 0 \/ HasEndpoints
                                      THEN "next" ELSE "dnetrm"]
           failed == [th[t] EXCEPT !.pc = "next", !.faulty = TRUE]
<1>1. /\ th[t] \in Goroutine(th[t].buf, th[t].workers) /\ OneLab(t)
      /\ th[t].pc = "dnet" /\ Active(t) /\ UNCHANGED <<proc, ghost>> /\ Elsewhere(t)
  BY Known, HostSame DEF DeleteNet, At, Active
<1>2. th' = [th EXCEPT ![t] = ok] \/ th' = [th EXCEPT ![t] = failed]
  BY DEF DeleteNet, Goto, Logged
<1>3. th[t].in # "deploy"
  BY <1>1 DEF OneLab, DeployPc, Writing
<1>4. Same(t, ok) /\ Same(t, failed)
  BY <1>1, <1>3 DEF Same, Goroutine, Pc
<1>5. BuiltAfter(ok) /\ BuiltAfter(failed)
  BY <1>3, <1>4 DEF BuiltAfter, Same
<1> HIDE DEF ok, failed
<1> QED BY <1>1, <1>2, <1>4, <1>5, OwnStep, SameOnward

\* Docker removes a network only if no container is attached to it.
LEMMA NetworkRemoveStep ==
    ASSUME HostInv, NEW t \in Threads, NetworkRemove(t)
    PROVE  Effect(t)
<1> DEFINE kept == [th[t] EXCEPT !.pc = "next"]
           failed == [th[t] EXCEPT !.pc = "next", !.faulty = TRUE]
           gone == [th[t] EXCEPT !.pc = "dnetrules"]
<1>1. /\ th[t] \in Goroutine(th[t].buf, th[t].workers) /\ OneLab(t) /\ network \in Nat
      /\ networks \in Nat /\ NetworkInUse
      /\ th[t].pc = "dnetrm" /\ Active(t) /\ UNCHANGED <<proc, ghost>>
      /\ UNCHANGED <<running, networks, ssh, dirs, netns>>
  BY Known DEF NetworkRemove, At, Active
<1>2. /\ \/ th' = [th EXCEPT ![t] = kept] \/ th' = [th EXCEPT ![t] = gone]
         \/ th' = [th EXCEPT ![t] = failed]
      /\ network' = network \/ (network' = 0 /\ running = {})
  BY DEF NetworkRemove, Goto, Logged, HasEndpoints
<1>3. Elsewhere(t)
  BY <1>1, <1>2 DEF Elsewhere, NetworkInUse, Up, UpAfter
<1>4. th[t].in # "deploy"
  BY <1>1 DEF OneLab, DeployPc, Writing
<1>5. Same(t, kept) /\ Same(t, gone) /\ Same(t, failed)
  BY <1>1, <1>4 DEF Same, Goroutine, Pc
<1>6. BuiltAfter(kept) /\ BuiltAfter(gone) /\ BuiltAfter(failed)
  BY <1>4, <1>5 DEF BuiltAfter, Same
<1> HIDE DEF kept, gone, failed
<1> QED BY <1>1, <1>2, <1>3, <1>5, <1>6, OwnStep, SameOnward

\* deleteMgmtNetworkFwdRule removes rules.
LEMMA DeleteRulesStep ==
    ASSUME HostInv, NEW t \in Threads, deleteMgmtNetworkFwdRule(t)
    PROVE  Effect(t)
<1> DEFINE ok == [th[t] EXCEPT !.pc = "next"]
           failed == [th[t] EXCEPT !.pc = "next", !.faulty = TRUE]
<1>1. /\ th[t] \in Goroutine(th[t].buf, th[t].workers) /\ OneLab(t) /\ network \in Nat
      /\ networks \in Nat /\ NetworkInUse
      /\ th[t].pc = "dnetrules" /\ Active(t) /\ UNCHANGED <<proc, deployed, sound, clean, last>>
      /\ UNCHANGED <<running, network, networks, ssh, dirs, netns>> /\ leaked \subseteq leaked'
  BY Known DEF deleteMgmtNetworkFwdRule, At, Active
<1>2. th' = [th EXCEPT ![t] = ok] \/ th' = [th EXCEPT ![t] = failed]
  BY DEF deleteMgmtNetworkFwdRule, Goto, Logged
<1>3. Elsewhere(t)
  BY <1>1 DEF Elsewhere, NetworkInUse, Up, UpAfter
<1>4. th[t].in # "deploy"
  BY <1>1 DEF OneLab, DeployPc, Writing
<1>5. Same(t, ok) /\ Same(t, failed)
  BY <1>1, <1>4 DEF Same, Goroutine, Pc
<1>6. BuiltAfter(ok) /\ BuiltAfter(failed)
  BY <1>4, <1>5 DEF BuiltAfter, Same
<1> HIDE DEF ok, failed
<1> QED BY <1>1, <1>2, <1>3, <1>5, <1>6, OwnStepAfter, SameOnward

(***************************************************************************)
(* The steps of a deploy.                                                  *)
(***************************************************************************)

\* prepareLab makes the lab directory.
LEMMA PrepareStep ==
    ASSUME HostInv, NEW t \in Threads, prepareLab(t)
    PROVE  Effect(t)
<1> DEFINE ok == [th[t] EXCEPT !.pc = "nodes", !.queue = Nodes]
           failed == [th[t] EXCEPT !.pc = "return", !.err = TRUE, !.faulty = TRUE]
<1>1. /\ th[t] \in Goroutine(th[t].buf, th[t].workers) /\ OneLab(t) /\ network \in Nat
      /\ networks \in Nat /\ NetworkInUse
      /\ th[t].pc = "check" /\ Active(t) /\ UNCHANGED <<proc, ghost>>
      /\ UNCHANGED <<running, network, networks, ssh, netns>>
  BY Known DEF prepareLab, At, Active
<1>2. \/ th' = [th EXCEPT ![t] = ok] /\ dirs' = dirs \cup {th[t].lab}
      \/ th' = [th EXCEPT ![t] = failed] /\ dirs' \in {dirs, dirs \cup {th[t].lab}}
  BY DEF prepareLab, Fail
<1>3. Elsewhere(t)
  BY <1>1, <1>2 DEF Elsewhere, NetworkInUse, Up, UpAfter
<1>4. /\ Same(t, ok) /\ Same(t, failed) /\ failed.err = TRUE
      /\ ok.pc = "nodes" /\ ok.queue = Nodes /\ ok.lab = th[t].lab
  BY <1>1 DEF Same, Goroutine, Pc, DeployPc
<1>5. BuiltAfter(failed) /\ (dirs' = dirs \cup {th[t].lab} => BuiltAfter(ok))
  BY <1>4 DEF BuiltAfter, Writing
<1> HIDE DEF ok, failed
<1> QED BY <1>1, <1>2, <1>3, <1>4, <1>5, OwnStep, SameOnward

\* A node's container is created.
LEMMA CreateNodeStep ==
    ASSUME HostInv, NEW t \in Threads, NEW n \in Nodes, createNode(t, n)
    PROVE  Effect(t)
<1> DEFINE ok == [th[t] EXCEPT !.queue = @ \ {n}, !.inflight = @ \cup {n}]
           failed == [th[t] EXCEPT !.queue = @ \ {n}, !.err = TRUE, !.faulty = TRUE]
<1>1. /\ th[t] \in Goroutine(th[t].buf, th[t].workers) /\ OneLab(t) /\ network \in Nat
      /\ networks \in Nat /\ NetworkInUse
      /\ th[t].pc = "nodes" /\ Active(t) /\ UNCHANGED <<proc, ghost>>
      /\ UNCHANGED <<running, network, networks, ssh, dirs, netns>>
  BY Known DEF createNode, At, Active
<1>2. th' = [th EXCEPT ![t] = ok] \/ th' = [th EXCEPT ![t] = failed]
  BY DEF createNode
<1>3. Elsewhere(t)
  BY <1>1 DEF Elsewhere, NetworkInUse, Up, UpAfter
<1>4. /\ Same(t, ok) /\ Same(t, failed) /\ failed.err = TRUE /\ ok.err = th[t].err
      /\ ok.pc = "nodes" /\ ok.queue = th[t].queue \ {n}
      /\ ok.inflight = th[t].inflight \cup {n}
  BY <1>1, ZenonT(40) DEF Same, Goroutine, Pc, DeployPc
<1>5. BuiltAfter(failed) /\ (Built(th[t]) => BuiltAfter(ok))
  BY <1>1, <1>4 DEF Built, BuiltAfter, Writing, Same, Up, UpAfter
<1> HIDE DEF ok, failed
<1> QED BY <1>1, <1>2, <1>3, <1>4, <1>5, OwnStep, SameOnward

\* A node's container is started, which needs the network.
LEMMA StartContainerStep ==
    ASSUME HostInv, NEW t \in Threads, NEW n \in Nodes, StartContainer(t, n)
    PROVE  Effect(t)
<1> DEFINE c == <<th[t].lab, n>>
           ok == [th[t] EXCEPT !.inflight = @ \ {n}]
           failed == [th[t] EXCEPT !.inflight = @ \ {n}, !.err = TRUE, !.faulty = TRUE]
<1>1. /\ th[t] \in Goroutine(th[t].buf, th[t].workers) /\ OneLab(t) /\ network \in Nat
      /\ networks \in Nat /\ NetworkInUse
      /\ th[t].pc = "nodes" /\ Active(t) /\ UNCHANGED <<proc, ghost>>
      /\ UNCHANGED <<network, networks, ssh, dirs>>
  BY Known DEF StartContainer, At, Active
<1>2. /\ \/ /\ th' = [th EXCEPT ![t] = ok]
            /\ running' = running \cup {c} /\ netns' = netns \cup {c}
         \/ th' = [th EXCEPT ![t] = failed]
      /\ running' = running \/ (running' = running \cup {c} /\ network # 0)
      /\ netns' \in {netns, netns \cup {c}}
  BY DEF StartContainer
<1>3. Elsewhere(t)
  BY <1>1, <1>2 DEF Elsewhere, NetworkInUse, Up, UpAfter
<1>4. /\ Same(t, ok) /\ Same(t, failed) /\ failed.err = TRUE /\ ok.err = th[t].err
      /\ ok.pc = "nodes" /\ ok.queue = th[t].queue /\ ok.inflight = th[t].inflight \ {n}
  BY <1>1 DEF Same, Goroutine, Pc, DeployPc
<1>5. /\ BuiltAfter(failed)
      /\ /\ Built(th[t])
         /\ running' = running \cup {c} /\ netns' = netns \cup {c}
         => BuiltAfter(ok)
  BY <1>1, <1>4 DEF Built, BuiltAfter, Writing, Same, Up, UpAfter
<1> HIDE DEF ok, failed
<1> QED BY <1>1, <1>2, <1>3, <1>4, <1>5, OwnStep, SameOnward

\* The workers have ended; without an error every node is up.
LEMMA NodesDoneStep ==
    ASSUME HostInv, NEW t \in Threads, nodesDone(t)
    PROVE  Effect(t)
<1> DEFINE ok == [th[t] EXCEPT !.pc = "hread"]
           failed == [th[t] EXCEPT !.pc = "return", !.err = TRUE, !.faulty = TRUE]
<1>1. /\ th[t] \in Goroutine(th[t].buf, th[t].workers) /\ OneLab(t)
      /\ th[t].pc = "nodes" /\ th[t].queue = {} /\ th[t].inflight = {}
      /\ Active(t) /\ UNCHANGED <<proc, ghost>> /\ Elsewhere(t)
      /\ UNCHANGED <<running, netns, dirs>>
  BY Known, HostSame DEF nodesDone, At, Active, host
<1>2. th' = [th EXCEPT ![t] = ok] \/ th' = [th EXCEPT ![t] = failed]
  BY DEF nodesDone, Fail, Goto
<1>4. /\ Same(t, ok) /\ Same(t, failed) /\ failed.err = TRUE /\ ok.pc = "hread"
      /\ ok.err = th[t].err
  BY <1>1 DEF Same, Goroutine, Pc, DeployPc, Writing
<1>5. BuiltAfter(failed) /\ (Built(th[t]) => BuiltAfter(ok))
  BY <1>1, <1>4 DEF Built, BuiltAfter, Writing, Same, Up, UpAfter
<1> HIDE DEF ok, failed
<1> QED BY <1>1, <1>2, <1>4, <1>5, OwnStep, SameOnward

\* The block of the lab is appended to /etc/hosts.
LEMMA AppendStep ==
    ASSUME HostInv, NEW t \in Threads, appendHostsFileEntries(t)
    PROVE  Effect(t)
<1> DEFINE ok == [th[t] EXCEPT !.pc = "addssh"]
           failed == [th[t] EXCEPT !.pc = "addssh", !.faulty = TRUE]
<1>1. /\ th[t] \in Goroutine(th[t].buf, th[t].workers) /\ OneLab(t) /\ network \in Nat
      /\ networks \in Nat /\ NetworkInUse
      /\ th[t].pc = "happend" /\ Active(t) /\ UNCHANGED <<proc, deployed, sound, leaked, last>>
      /\ UNCHANGED <<running, network, networks, ssh, dirs, netns>> /\ (clean' => clean)
  BY Known DEF appendHostsFileEntries, At, Active
<1>2. th' = [th EXCEPT ![t] = ok] \/ th' = [th EXCEPT ![t] = failed]
  BY DEF appendHostsFileEntries, Goto, Logged
<1>3. Elsewhere(t)
  BY <1>1 DEF Elsewhere, NetworkInUse, Up, UpAfter
<1>4. /\ Same(t, ok) /\ ok.pc = "addssh" /\ ok.err = th[t].err
      /\ Same(t, failed) /\ failed.pc = "addssh" /\ failed.err = th[t].err
  BY <1>1 DEF Same, Goroutine, Pc, DeployPc, Writing
<1>5. Built(th[t]) => BuiltAfter(ok) /\ BuiltAfter(failed)
  BY <1>1, <1>4 DEF Built, BuiltAfter, Writing, Same, Up, UpAfter
<1> HIDE DEF ok, failed
<1> QED BY <1>1, <1>2, <1>3, <1>4, <1>5, OwnStepAfter, SameOnward

\* The ssh configuration is the last file of a deploy.
LEMMA AddSSHStep ==
    ASSUME HostInv, NEW t \in Threads, addSSHConfig(t)
    PROVE  Effect(t)
<1> DEFINE ok == [th[t] EXCEPT !.pc = "return"]
           failed == [th[t] EXCEPT !.pc = "return", !.faulty = TRUE]
<1>1. /\ th[t] \in Goroutine(th[t].buf, th[t].workers) /\ OneLab(t) /\ network \in Nat
      /\ networks \in Nat /\ NetworkInUse
      /\ th[t].pc = "addssh" /\ Active(t) /\ UNCHANGED <<proc, ghost>>
      /\ UNCHANGED <<running, network, networks, dirs, netns>>
      /\ ssh' \in {ssh, ssh \cup {th[t].lab}}
  BY Known DEF addSSHConfig, At, Active
<1>2. \/ th' = [th EXCEPT ![t] = ok] /\ (SSHConfigDir => th[t].lab \in ssh')
      \/ th' = [th EXCEPT ![t] = failed]
  BY DEF addSSHConfig, Goto, Logged
<1>3. Elsewhere(t)
  BY <1>1 DEF Elsewhere, NetworkInUse, Up, UpAfter
<1>4. /\ Same(t, ok) /\ ok.pc = "return" /\ ok.err = th[t].err
      /\ Same(t, failed) /\ failed.pc = "return" /\ failed.err = th[t].err /\ failed.faulty
  BY <1>1 DEF Same, Goroutine, Pc, DeployPc, Writing
<1>5. Built(th[t]) => /\ (SSHConfigDir => th[t].lab \in ssh') => BuiltAfter(ok)
                      /\ BuiltAfter(failed)
  BY <1>1, <1>4 DEF Built, BuiltAfter, Writing, Same, Up, UpAfter
<1> HIDE DEF ok, failed
<1> QED BY <1>1, <1>2, <1>3, <1>4, <1>5, OwnStep, SameOnward

(***************************************************************************)
(* The steps of a destroy.                                                 *)
(***************************************************************************)

\* Destroy lists the containers: for one lab it finds that lab or none.
LEMMA DestroyStep ==
    ASSUME HostInv, NEW t \in Threads, Destroy(t)
    PROVE  Effect(t)
<1> DEFINE found == IF AllLabs(th[t].op)
                    THEN {l \in Labs : NodesOf(l) # {} \/ l \in tools}
                    ELSE {l \in {th[t].lab} : NodesOf(l) # {}}
           pc(f) == IF f = {} THEN "labdirs" ELSE IF AllLabs(th[t].op) THEN "prompt" ELSE "next"
           ok(f, bad) == [th[t] EXCEPT !.found = f, !.todo = f, !.faulty = bad, !.pc = pc(f)]
           failed == [th[t] EXCEPT !.pc = "return", !.err = TRUE, !.faulty = TRUE]
<1>1. /\ th[t] \in Goroutine(th[t].buf, th[t].workers) /\ OneLab(t)
      /\ th[t].pc = "list" /\ Active(t) /\ UNCHANGED <<proc, ghost>> /\ Elsewhere(t)
  BY Known, HostSame DEF Destroy, At, Active
<1>2. \/ \E f \in SUBSET found, bad \in BOOLEAN : th' = [th EXCEPT ![t] = ok(f, bad)]
      \/ th' = [th EXCEPT ![t] = failed]
  <2>1. \/ th' = [th EXCEPT ![t] = ok(found, th[t].faulty)]
        \/ \E f \in SUBSET found : th' = [th EXCEPT ![t] = ok(f, TRUE)]
        \/ th' = [th EXCEPT ![t] = failed]
    <3> DEFINE listed(f, bad) == [th EXCEPT ![t].found = f, ![t].todo = f, ![t].faulty = bad,
                                            ![t].pc = pc(f)]
    <3>1. \/ th' = listed(found, th[t].faulty)
          \/ \E f \in SUBSET found : th' = listed(f, TRUE)
          \/ Fail(t, "return")
      BY Zenon DEF Destroy
    <3>2. \A f, bad : listed(f, bad) = [th EXCEPT ![t] = ok(f, bad)]
      OBVIOUS
    <3>3. Fail(t, "return") => th' = [th EXCEPT ![t] = failed]
      BY DEF Fail
    <3> HIDE DEF listed, ok, failed
    <3> QED BY <3>1, <3>2, <3>3
  <2>2. th[t].faulty \in BOOLEAN
    BY <1>1 DEF Goroutine
  <2> QED BY <2>1, <2>2
<1>3. th[t].in # "deploy"
  BY <1>1 DEF OneLab, DeployPc, Writing
<1>4. /\ found \subseteq Labs /\ (~AllLabs(th[t].op) => found \subseteq {th[t].lab})
  BY <1>1 DEF OneLab
<1> HIDE DEF found
<1>6. ASSUME NEW f \in SUBSET found, NEW bad \in BOOLEAN
      PROVE  Onward(t, ok(f, bad)) /\ BuiltAfter(ok(f, bad))
  <2> DEFINE r == ok(f, bad)
  <2>1. PICK c \in {"labdirs", "prompt", "next"} : c = pc(f)
    OBVIOUS
  <2> HIDE DEF pc
  <2>2. /\ r \in Goroutine(r.buf, r.workers) /\ r.pc = c /\ r.op = th[t].op
        /\ r.sole = th[t].sole /\ r.lab = th[t].lab /\ r.todo = f /\ r.found = f
        /\ r.in = th[t].in
    BY <1>1, <1>4, <2>1 DEF Goroutine, Pc
  <2> HIDE DEF r
  <2> QED BY <1>3, <1>4, <2>1, <2>2 DEF Onward, BuiltAfter, r
<1>7. Same(t, failed)
  BY <1>1, <1>3 DEF Same, Goroutine, Pc
<1>8. BuiltAfter(failed)
  BY <1>3, <1>7 DEF BuiltAfter, Same
<1> HIDE DEF ok, failed
<1>9. CASE \E f \in SUBSET found, bad \in BOOLEAN : th' = [th EXCEPT ![t] = ok(f, bad)]
  BY <1>1, <1>6, <1>9, OwnStep
<1> QED BY <1>1, <1>2, <1>7, <1>8, <1>9, OwnStep, SameOnward

\* The user confirms the destroy of all labs, or does not.
LEMMA PromptStep ==
    ASSUME HostInv, NEW t \in Threads, NEW yes \in BOOLEAN, cliPromptToDestroyAll(t, yes)
    PROVE  Effect(t)
<1> DEFINE ok == [th[t] EXCEPT !.pc = "next"]
           failed == [th[t] EXCEPT !.pc = "labdirs", !.err = TRUE, !.faulty = TRUE]
<1>1. /\ th[t] \in Goroutine(th[t].buf, th[t].workers) /\ OneLab(t)
      /\ th[t].pc = "prompt" /\ Active(t) /\ UNCHANGED <<proc, ghost>> /\ Elsewhere(t)
  BY Known, HostSame DEF cliPromptToDestroyAll, At, Active
<1>2. th' = [th EXCEPT ![t] = ok] \/ th' = [th EXCEPT ![t] = failed]
  BY DEF cliPromptToDestroyAll, Fail, Goto
<1>3. th[t].in # "deploy"
  BY <1>1 DEF OneLab, DeployPc, Writing
<1>4. Same(t, ok) /\ Same(t, failed)
  BY <1>1, <1>3 DEF Same, Goroutine, Pc
<1>5. BuiltAfter(ok) /\ BuiltAfter(failed)
  BY <1>3, <1>4 DEF BuiltAfter, Same
<1> HIDE DEF ok, failed
<1> QED BY <1>1, <1>2, <1>4, <1>5, OwnStep, SameOnward

\* makeCopyForDestroy goes on to one of the labs that were found.
LEMMA MakeCopyStep ==
    ASSUME HostInv, NEW t \in Threads, makeCopyForDestroy(t)
    PROVE  Effect(t)
<1> DEFINE lab(l) == [th[t] EXCEPT !.pc = "inspect", !.lab = l, !.todo = @ \ {l},
                                   !.bridge = network]
           rmdir == [th[t] EXCEPT !.pc = "rmdir"]
           done == [th[t] EXCEPT !.pc = "labdirs"]
           failed == [th[t] EXCEPT !.pc = "labdirs", !.err = TRUE, !.faulty = TRUE]
<1>1. /\ th[t] \in Goroutine(th[t].buf, th[t].workers) /\ OneLab(t) /\ network \in Nat
      /\ th[t].pc = "next" /\ Active(t) /\ UNCHANGED <<proc, ghost>> /\ Elsewhere(t)
  BY Known, HostSame DEF makeCopyForDestroy, At, Active
<1>2. \/ th' = [th EXCEPT ![t] = rmdir] /\ th[t].in = "reconfigure"
      \/ th' = [th EXCEPT ![t] = done]
      \/ \E l \in th[t].todo : th' = [th EXCEPT ![t] = lab(l)]
      \/ th' = [th EXCEPT ![t] = failed]
  BY ZenonT(40) DEF makeCopyForDestroy, Fail, Goto
<1>3. th[t].in # "deploy"
  BY <1>1 DEF OneLab, DeployPc, Writing
<1>4. Same(t, done) /\ Same(t, failed)
  BY <1>1, <1>3 DEF Same, Goroutine, Pc
<1>5. BuiltAfter(done) /\ BuiltAfter(failed)
  BY <1>3, <1>4 DEF BuiltAfter, Same
<1>6. th[t].in = "reconfigure" => Onward(t, rmdir) /\ BuiltAfter(rmdir)
  BY <1>1 DEF Onward, BuiltAfter, Goroutine, Pc, OneLab
<1>7. ASSUME NEW l \in th[t].todo PROVE Onward(t, lab(l)) /\ BuiltAfter(lab(l))
  <2>1. l \in Labs
    BY <1>1 DEF Goroutine
  <2>2. /\ lab(l) \in Goroutine(lab(l).buf, lab(l).workers) /\ lab(l).pc = "inspect"
        /\ lab(l).lab = l /\ lab(l).todo = th[t].todo \ {l} /\ lab(l).found = th[t].found
        /\ lab(l).op = th[t].op /\ lab(l).sole = th[t].sole /\ lab(l).in = th[t].in
    BY <1>1, <2>1 DEF Goroutine, Pc
  <2> QED BY <1>1, <1>3, <1>7, <2>2 DEF Onward, BuiltAfter, OneLab
<1> HIDE DEF lab, rmdir, done, failed
<1>8. CASE \E l \in th[t].todo : th' = [th EXCEPT ![t] = lab(l)]
  BY <1>1, <1>7, <1>8, OwnStep
<1> QED BY <1>1, <1>2, <1>4, <1>5, <1>6, <1>8, OwnStep, SameOnward

\* destroy lists the containers of the lab and starts the workers.
LEMMA ListStep ==
    ASSUME HostInv, NEW t \in Threads, destroy(t)
    PROVE  Effect(t)
<1> DEFINE w(seen) == IF th[t].in = "reconfigure" THEN Cardinality(Nodes)
                      ELSE IF MaxWorkers = 0 THEN Cardinality(seen) ELSE MaxWorkers
           none(bad) == [th[t] EXCEPT !.pc = "next", !.faulty = bad]
           some(v, bad) == [th[t] EXCEPT !.pc = "delete", !.queue = Nodes, !.faulty = bad,
                                         !.workers = v]
<1>1. /\ th[t] \in Goroutine(th[t].buf, th[t].workers) /\ OneLab(t)
      /\ th[t].pc = "dlist" /\ Active(t) /\ UNCHANGED <<proc, ghost>> /\ Elsewhere(t)
  BY Known, HostSame DEF destroy, At, Active
<1>2. \E bad \in BOOLEAN : \/ th' = [th EXCEPT ![t] = none(bad)]
                           \/ \E v : th' = [th EXCEPT ![t] = some(v, bad)]
  <2>1. th[t].faulty \in BOOLEAN
    BY <1>1 DEF Goroutine
  <2>2. \E bad \in {TRUE, th[t].faulty}, seen \in SUBSET NodesOf(th[t].lab) :
          \/ th' = [th EXCEPT ![t] = none(bad)]
          \/ th' = [th EXCEPT ![t] = some(w(seen), bad)]
    <3> DEFINE listed(seen, bad) ==
                 IF seen = {} THEN [th EXCEPT ![t].pc = "next", ![t].faulty = bad]
                 ELSE [th EXCEPT ![t].pc = "delete", ![t].queue = Nodes, ![t].faulty = bad,
                                 ![t].workers = w(seen)]
    <3>1. \/ th' = listed(NodesOf(th[t].lab), th[t].faulty)
          \/ \E seen \in SUBSET NodesOf(th[t].lab) : th' = listed(seen, TRUE)
      BY Zenon DEF destroy
    <3> HIDE DEF w
    <3>2. \A seen, bad : listed(seen, bad) \in {[th EXCEPT ![t] = none(bad)],
                                                [th EXCEPT ![t] = some(w(seen), bad)]}
      OBVIOUS
    <3> HIDE DEF listed, none, some
    <3>3. NodesOf(th[t].lab) \in SUBSET NodesOf(th[t].lab)
      OBVIOUS
    <3>4. PICK bad \in {TRUE, th[t].faulty}, seen \in SUBSET NodesOf(th[t].lab) :
             th' = listed(seen, bad)
      BY <3>1, <3>3
    <3>5. listed(seen, bad) \in {[th EXCEPT ![t] = none(bad)], [th EXCEPT ![t] = some(w(seen), bad)]}
      BY <3>2
    <3>6. \/ th' = [th EXCEPT ![t] = none(bad)] \/ th' = [th EXCEPT ![t] = some(w(seen), bad)]
      BY <3>4, <3>5
    <3> WITNESS bad \in {TRUE, th[t].faulty}, seen \in SUBSET NodesOf(th[t].lab)
    <3> QED BY <3>6
  <2> QED BY <2>1, <2>2
<1>3. th[t].in # "deploy"
  BY <1>1 DEF OneLab, DeployPc, Writing, Goroutine
<1>4. ASSUME NEW bad \in BOOLEAN, NEW v
      PROVE  /\ Onward(t, none(bad)) /\ BuiltAfter(none(bad))
             /\ Onward(t, some(v, bad)) /\ BuiltAfter(some(v, bad))
  <2>1. Same(t, none(bad)) /\ Same(t, some(v, bad))
    BY <1>1, <1>3 DEF Same, Goroutine, Pc
  <2>2. BuiltAfter(none(bad)) /\ BuiltAfter(some(v, bad))
    BY <1>3, <2>1 DEF BuiltAfter, Same
  <2> HIDE DEF none, some
  <2> QED BY <1>1, <2>1, <2>2, SameOnward
<1> HIDE DEF none, some
<1> QED BY <1>1, <1>2, <1>4, OwnStep

\* A node is handed to a worker.
LEMMA HandOutStep ==
    ASSUME HostInv, NEW t \in Threads, deleteNodes(t)
    PROVE  Effect(t)
<1> DEFINE ok(n) == [th[t] EXCEPT !.queue = @ \ {n}, !.inflight = @ \cup {n}]
<1>1. /\ th[t] \in Goroutine(th[t].buf, th[t].workers) /\ OneLab(t)
      /\ th[t].pc = "delete" /\ Active(t) /\ UNCHANGED <<proc, ghost>> /\ Elsewhere(t)
  BY Known, HostSame DEF deleteNodes, At, Active
<1>2. PICK n \in th[t].queue : th' = [th EXCEPT ![t] = ok(n)]
  BY DEF deleteNodes
<1>3. th[t].in # "deploy" /\ n \in Nodes
  BY <1>1, <1>2 DEF OneLab, DeployPc, Writing, Goroutine
<1>4. Same(t, ok(n))
  BY <1>1, <1>3, ZenonT(40) DEF Same, Goroutine, Pc
<1>5. BuiltAfter(ok(n))
  BY <1>3, <1>4 DEF BuiltAfter, Same
<1> HIDE DEF ok
<1> QED BY <1>1, <1>2, <1>4, <1>5, OwnStep, SameOnward

\* A worker deletes a container of the lab; a start of it that is still to come fails.
LEMMA WorkerDeletesStep ==
    ASSUME HostInv, NEW t \in Threads, NEW n \in Nodes, workerDeletes(t, n)
    PROVE  Effect(t)
<1> DEFINE c == <<th[t].lab, n>>
           ok == [th[t] EXCEPT !.inflight = @ \ {n}]
           failed == [th[t] EXCEPT !.inflight = @ \ {n}, !.faulty = TRUE]
<1>1. /\ th[t] \in Goroutine(th[t].buf, th[t].workers) /\ OneLab(t) /\ network \in Nat
      /\ networks \in Nat /\ NetworkInUse
      /\ th[t].pc = "delete" /\ Active(t) /\ UNCHANGED <<proc, ghost>>
      /\ UNCHANGED <<network, networks, ssh, dirs, netns>>
  BY Known DEF workerDeletes, At, Active
<1>2. \/ /\ running' = running \ {c}
         /\ th' = [u \in Threads |-> IF u = t THEN ok ELSE WithoutContainer(u, c)]
      \/ th' = [th EXCEPT ![t] = failed] /\ running' = running
  BY DEF workerDeletes
<1>3. Elsewhere(t)
  BY <1>1, <1>2 DEF Elsewhere, NetworkInUse, Up, UpAfter
<1>4. th[t].in # "deploy"
  BY <1>1 DEF OneLab, DeployPc, Writing
<1>5. Same(t, ok) /\ Same(t, failed)
  BY <1>1, <1>4 DEF Same, Goroutine, Pc
<1>6. BuiltAfter(ok) /\ BuiltAfter(failed)
  BY <1>4, <1>5 DEF BuiltAfter, Same
<1>7. CASE th' = [u \in Threads |-> IF u = t THEN ok ELSE WithoutContainer(u, c)]
  <2>1. th'[t] = ok /\ DOMAIN th' = Threads /\ th' = [u \in Threads |-> th'[u]]
    BY <1>7
  <2>2. ASSUME NEW u \in Threads \ {t} PROVE Undisturbed(t, u)
    <3>1. th'[u] = WithoutContainer(u, c)
      BY <1>7, <2>2
    <3>2. th[u].inflight \ {n} \in SUBSET Nodes
      BY Known DEF Goroutine
    <3> QED BY <3>1, <3>2 DEF WithoutContainer, Undisturbed
  <2> HIDE DEF ok
  <2> QED BY <2>1, <2>2, <1>1, <1>3, <1>5, <1>6, SameOnward DEF Effect, ghost
<1> HIDE DEF ok, failed
<1> QED BY <1>1, <1>2, <1>3, <1>5, <1>6, <1>7, OwnStep, SameOnward

\* A worker returns.
LEMMA WorkerReturnsStep ==
    ASSUME HostInv, NEW t \in Threads, workerReturns(t)
    PROVE  Effect(t)
<1> DEFINE w == th[t].workers - 1
           ok == [th[t] EXCEPT !.workers = w]
<1>1. /\ th[t] \in Goroutine(th[t].buf, th[t].workers) /\ OneLab(t)
      /\ th[t].pc = "delete" /\ Active(t) /\ UNCHANGED <<proc, ghost>> /\ Elsewhere(t)
  BY Known, HostSame DEF workerReturns, At, Active
<1>2. th' = [th EXCEPT ![t] = ok]
  BY DEF workerReturns
<1> HIDE DEF w
<1>3. th[t].in # "deploy"
  BY <1>1 DEF OneLab, DeployPc, Writing
<1>4. Same(t, ok)
  BY <1>1, <1>3 DEF Same, Goroutine, Pc
<1>5. BuiltAfter(ok)
  BY <1>3, <1>4 DEF BuiltAfter, Same
<1> HIDE DEF ok
<1> QED BY <1>1, <1>2, <1>4, <1>5, OwnStep, SameOnward

\* The tool containers of the lab are deleted.
LEMMA DeleteToolsStep ==
    ASSUME HostInv, NEW t \in Threads, deleteToolContainers(t)
    PROVE  Effect(t)
<1> DEFINE ok == [th[t] EXCEPT !.pc = "hread"]
           failed == [th[t] EXCEPT !.pc = "hread", !.faulty = TRUE]
<1>1. /\ th[t] \in Goroutine(th[t].buf, th[t].workers) /\ OneLab(t) /\ network \in Nat
      /\ networks \in Nat /\ NetworkInUse
      /\ th[t].pc = "delete" /\ Active(t) /\ UNCHANGED <<proc, ghost>>
      /\ UNCHANGED <<running, network, networks, ssh, dirs, netns>>
  BY Known DEF deleteToolContainers, At, Active
<1>2. th' = [th EXCEPT ![t] = ok] \/ th' = [th EXCEPT ![t] = failed]
  BY DEF deleteToolContainers, Goto, Logged
<1>3. Elsewhere(t)
  BY <1>1 DEF Elsewhere, NetworkInUse, Up, UpAfter
<1>4. th[t].in # "deploy"
  BY <1>1 DEF OneLab, DeployPc, Writing
<1>5. Same(t, ok) /\ Same(t, failed)
  BY <1>1, <1>4 DEF Same, Goroutine, Pc
<1>6. BuiltAfter(ok) /\ BuiltAfter(failed)
  BY <1>4, <1>5 DEF BuiltAfter, Same
<1> HIDE DEF ok, failed
<1> QED BY <1>1, <1>2, <1>3, <1>5, <1>6, OwnStep, SameOnward

\* /etc/hosts is read, by a deploy and by a destroy.
LEMMA ReadHostsStep ==
    ASSUME HostInv, NEW t \in Threads, DeleteEntriesFromHostsFile(t)
    PROVE  Effect(t)
<1> DEFINE b == WithoutEntries(hosts, th[t].lab)
           e == th[t].err \/ Counts(t)
           ok == [th[t] EXCEPT !.pc = "htrunc", !.buf = b]
           refused == [th[t] EXCEPT !.faulty = TRUE, !.err = e, !.buf = <<>>,
                                    !.pc = IF th[t].in = "deploy" THEN "addssh" ELSE "next"]
<1>1. /\ th[t] \in Goroutine(th[t].buf, th[t].workers) /\ OneLab(t)
      /\ th[t].pc = "hread" /\ Active(t) /\ UNCHANGED <<proc, ghost>> /\ Elsewhere(t)
      /\ UNCHANGED <<running, netns, dirs>>
  BY Known, HostSame DEF DeleteEntriesFromHostsFile, At, Active, host
<1>2. th' = [th EXCEPT ![t] = ok] \/ th' = [th EXCEPT ![t] = refused]
  BY DEF DeleteEntriesFromHostsFile, HostsError
<1>3. e \in BOOLEAN /\ (~e => ~th[t].err)
  BY <1>1 DEF Goroutine, Counts
<1> HIDE DEF b, e
<1>4. /\ Same(t, ok) /\ ok.pc = "htrunc" /\ ok.err = th[t].err
      /\ Same(t, refused) /\ refused.err = e /\ refused.pc \in {"addssh", "next"}
  BY <1>1, <1>3, ZenonT(40) DEF Same, Goroutine, Pc, DeployPc, Writing
<1>5. Built(th[t]) => BuiltAfter(ok) /\ BuiltAfter(refused)
  BY <1>1, <1>3, <1>4 DEF Built, BuiltAfter, Writing, Same, Up, UpAfter
<1> HIDE DEF ok, refused
<1> QED BY <1>1, <1>2, <1>4, <1>5, OwnStep, SameOnward

\* /etc/hosts is truncated.
LEMMA TruncateStep ==
    ASSUME HostInv, NEW t \in Threads, truncateHosts(t)
    PROVE  Effect(t)
<1> DEFINE ok == [th[t] EXCEPT !.pc = "hwrite"]
           e == th[t].err \/ Counts(t)
           refused == [th[t] EXCEPT !.faulty = TRUE, !.err = e, !.buf = <<>>,
                                    !.pc = IF th[t].in = "deploy" THEN "addssh" ELSE "next"]
<1>1. /\ th[t] \in Goroutine(th[t].buf, th[t].workers) /\ OneLab(t) /\ network \in Nat
      /\ networks \in Nat /\ NetworkInUse
      /\ th[t].pc = "htrunc" /\ Active(t) /\ UNCHANGED <<proc, ghost>>
      /\ UNCHANGED <<running, network, networks, ssh, dirs, netns>>
  BY Known DEF truncateHosts, At, Active
<1>2. th' = [th EXCEPT ![t] = ok] \/ th' = [th EXCEPT ![t] = refused]
  BY DEF truncateHosts, Goto, HostsError
<1>3. Elsewhere(t)
  BY <1>1 DEF Elsewhere, NetworkInUse, Up, UpAfter
<1>6. e \in BOOLEAN /\ (~e => ~th[t].err)
  BY <1>1 DEF Goroutine, Counts
<1> HIDE DEF e
<1>4. /\ Same(t, ok) /\ ok.pc = "hwrite" /\ ok.err = th[t].err
      /\ Same(t, refused) /\ refused.err = e /\ refused.pc \in {"addssh", "next"}
  BY <1>1, <1>6 DEF Same, Goroutine, Pc, DeployPc, Writing
<1>5. Built(th[t]) => BuiltAfter(ok) /\ BuiltAfter(refused)
  BY <1>1, <1>4, <1>6 DEF Built, BuiltAfter, Writing, Same, Up, UpAfter
<1> HIDE DEF ok, refused
<1> QED BY <1>1, <1>2, <1>3, <1>4, <1>5, OwnStep, SameOnward

\* /etc/hosts is written.
LEMMA WriteHostsStep ==
    ASSUME HostInv, NEW t \in Threads, writeHosts(t)
    PROVE  Effect(t)
<1> DEFINE ok == [th[t] EXCEPT !.buf = <<>>,
                               !.pc = IF th[t].in = "deploy" THEN "happend" ELSE "rmfiles"]
           e == th[t].err \/ Counts(t)
           refused == [th[t] EXCEPT !.faulty = TRUE, !.err = e, !.buf = <<>>,
                                    !.pc = IF th[t].in = "deploy" THEN "addssh" ELSE "next"]
<1>1. /\ th[t] \in Goroutine(th[t].buf, th[t].workers) /\ OneLab(t) /\ network \in Nat
      /\ networks \in Nat /\ NetworkInUse
      /\ th[t].pc = "hwrite" /\ Active(t) /\ UNCHANGED <<proc, deployed, sound, leaked, last>>
      /\ UNCHANGED <<running, network, networks, ssh, dirs, netns>>
  BY Known DEF writeHosts, At, Active
<1>7. clean' => clean
  BY DEF writeHosts
<1>2. th' = [th EXCEPT ![t] = ok] \/ th' = [th EXCEPT ![t] = refused]
  BY DEF writeHosts, HostsError
<1>3. Elsewhere(t)
  BY <1>1 DEF Elsewhere, NetworkInUse, Up, UpAfter
<1>6. e \in BOOLEAN /\ (~e => ~th[t].err)
  BY <1>1 DEF Goroutine, Counts
<1> HIDE DEF e
<1>4. /\ Same(t, ok) /\ ok.pc \in {"happend", "rmfiles"} /\ ok.err = th[t].err
      /\ Same(t, refused) /\ refused.err = e /\ refused.pc \in {"addssh", "next"}
  BY <1>1, <1>6, ZenonT(40) DEF Same, Goroutine, Pc, DeployPc, Writing
<1>5. Built(th[t]) => BuiltAfter(ok) /\ BuiltAfter(refused)
  BY <1>1, <1>4, <1>6 DEF Built, BuiltAfter, Writing, Same, Up, UpAfter
<1> HIDE DEF ok, refused
<1> QED BY <1>1, <1>2, <1>3, <1>4, <1>5, <1>7, OwnStepAfter, SameOnward

\* The ssh file and the netns links of the lab are removed.
LEMMA RemoveFilesStep ==
    ASSUME HostInv, NEW t \in Threads, removeLabFiles(t)
    PROVE  Effect(t)
<1> DEFINE ok == [th[t] EXCEPT !.pc = "dnet"]
           logged == [th[t] EXCEPT !.pc = "dnet", !.faulty = TRUE]
           e == th[t].err \/ Counts(t)
           failed == [th[t] EXCEPT !.pc = "next", !.faulty = TRUE, !.err = e]
<1>1. /\ th[t] \in Goroutine(th[t].buf, th[t].workers) /\ OneLab(t) /\ network \in Nat
      /\ networks \in Nat /\ NetworkInUse
      /\ th[t].pc = "rmfiles" /\ Active(t) /\ UNCHANGED <<proc, ghost>>
      /\ UNCHANGED <<running, network, networks, dirs>>
      /\ ssh' \in {ssh, ssh \ {th[t].lab}}
      /\ \A c \in netns : c[1] # th[t].lab => c \in netns'
  BY Known DEF removeLabFiles, At, Active, RemoveSSHConfig, DeleteNetnsSymlinks
<1>2. \/ th' = [th EXCEPT ![t] = ok] \/ th' = [th EXCEPT ![t] = logged]
      \/ th' = [th EXCEPT ![t] = failed]
  BY DEF removeLabFiles, Goto, Logged
<1>3. Elsewhere(t)
  BY <1>1 DEF Elsewhere, NetworkInUse, Up, UpAfter
<1>4. th[t].in # "deploy" /\ e \in BOOLEAN
  BY <1>1 DEF OneLab, DeployPc, Writing, Counts, Goroutine
<1> HIDE DEF e
<1>5. Same(t, ok) /\ Same(t, logged) /\ Same(t, failed)
  BY <1>1, <1>4 DEF Same, Goroutine, Pc
<1>6. BuiltAfter(ok) /\ BuiltAfter(logged) /\ BuiltAfter(failed)
  BY <1>4, <1>5 DEF BuiltAfter, Same
<1> HIDE DEF ok, logged, failed
<1> QED BY <1>1, <1>2, <1>3, <1>5, <1>6, OwnStep, SameOnward

\* A reconfiguring deploy removes the lab directory and becomes a deploy.
LEMMA RemoveDirectoryStep ==
    ASSUME HostInv, NEW t \in Threads, removeLabDirectory(t)
    PROVE  Effect(t)
<1> DEFINE ok == [th[t] EXCEPT !.pc = "inspect", !.in = "deploy"]
           failed == [th[t] EXCEPT !.pc = "return", !.err = TRUE, !.faulty = TRUE]
<1>1. /\ th[t] \in Goroutine(th[t].buf, th[t].workers) /\ OneLab(t) /\ network \in Nat
      /\ networks \in Nat /\ NetworkInUse
      /\ th[t].pc = "rmdir" /\ Active(t) /\ UNCHANGED <<proc, ghost>>
      /\ UNCHANGED <<running, network, networks, ssh, netns>> /\ dirs' \in {dirs, dirs \ {th[t].lab}}
  BY Known DEF removeLabDirectory, At, Active
<1>2. th' = [th EXCEPT ![t] = ok] \/ th' = [th EXCEPT ![t] = failed]
  BY DEF removeLabDirectory, Fail
<1>3. Elsewhere(t)
  BY <1>1 DEF Elsewhere, NetworkInUse, Up, UpAfter
<1>4. /\ ok \in Goroutine(ok.buf, ok.workers) /\ ok.pc = "inspect" /\ ok.in = "deploy"
      /\ ok.op = th[t].op /\ ok.sole = th[t].sole /\ ok.lab = th[t].lab
      /\ ok.todo = th[t].todo /\ ok.found = th[t].found
  BY <1>1 DEF Goroutine, Pc, Op, Operations
<1>5. Onward(t, ok) /\ BuiltAfter(ok)
  BY <1>1, <1>4 DEF Onward, OneLab, DeployPc, BuiltAfter, Writing
<1>6. Same(t, failed) /\ failed.err
  BY <1>1 DEF Same, Goroutine, Pc, DeployPc
<1>7. BuiltAfter(failed)
  BY <1>6 DEF BuiltAfter
<1> HIDE DEF ok, failed
<1> QED BY <1>1, <1>2, <1>3, <1>5, <1>6, <1>7, OwnStep, SameOnward

\* The deferred destroyLabDirs removes the directories of the labs that were found; if
\* there were none, one beside the topology file, which is the lab's own as long as the
\* topology files do not share a directory.
LEMMA LabDirsStep ==
    ASSUME HostInv, ~SharedDir, NEW t \in Threads, destroyLabDirs(t)
    PROVE  Effect(t)
<1> DEFINE ok == [th[t] EXCEPT !.pc = "return"]
           cleaned(bad) == [th[t] EXCEPT !.pc = "return", !.err = FALSE, !.faulty = bad]
           failed == [th[t] EXCEPT !.pc = "return", !.err = TRUE, !.faulty = TRUE]
<1>1. /\ th[t] \in Goroutine(th[t].buf, th[t].workers) /\ OneLab(t) /\ network \in Nat
      /\ networks \in Nat /\ NetworkInUse
      /\ th[t].pc = "labdirs" /\ Active(t) /\ UNCHANGED <<proc, ghost>>
      /\ UNCHANGED <<running, network, networks, ssh, netns>>
  BY Known DEF destroyLabDirs, At, Active
<1>2. /\ \/ th' = [th EXCEPT ![t] = ok] \/ th' = [th EXCEPT ![t] = cleaned(TRUE)]
         \/ th' = [th EXCEPT ![t] = cleaned(th[t].faulty)] \/ th' = [th EXCEPT ![t] = failed]
      /\ \/ dirs' = dirs \/ \E gone \in SUBSET th[t].found : dirs' = dirs \ gone
         \/ \E d \in labDirs(th[t].lab) : dirs' = dirs \ {d}
  BY DEF destroyLabDirs, Goto, Fail
<1>8. th[t].faulty \in BOOLEAN
  BY <1>1 DEF Goroutine
<1>3. ~AllLabs(th[t].op) => th[t].found \subseteq {th[t].lab}
  BY <1>1 DEF OneLab
<1>4. Elsewhere(t)
  BY <1>1, <1>2, <1>3 DEF Elsewhere, NetworkInUse, Up, UpAfter, labDirs
<1>5. th[t].in # "deploy"
  BY <1>1 DEF OneLab, DeployPc, Writing
<1>6. /\ Same(t, ok) /\ Same(t, failed)
      /\ Same(t, cleaned(TRUE)) /\ Same(t, cleaned(th[t].faulty))
  BY <1>1, <1>5, <1>8 DEF Same, Goroutine, Pc
<1>7. /\ BuiltAfter(ok) /\ BuiltAfter(failed)
      /\ BuiltAfter(cleaned(TRUE)) /\ BuiltAfter(cleaned(th[t].faulty))
  BY <1>5, <1>6 DEF BuiltAfter, Same
<1> HIDE DEF ok, cleaned, failed
<1> QED BY <1>1, <1>2, <1>4, <1>6, <1>7, OwnStep, SameOnward

\* A tool container is attached or detached.
LEMMA ToolStep ==
    ASSUME HostInv, NEW t \in Threads, toolAttach(t) \/ toolCreate(t) \/ toolDetach(t)
    PROVE  Effect(t)
<1> DEFINE ok(pc) == [th[t] EXCEPT !.pc = pc]
           logged == [th[t] EXCEPT !.pc = "tcreate", !.faulty = TRUE]
           failed == [th[t] EXCEPT !.pc = "return", !.err = TRUE, !.faulty = TRUE]
<1>1. /\ th[t] \in Goroutine(th[t].buf, th[t].workers) /\ OneLab(t) /\ network \in Nat
      /\ networks \in Nat /\ NetworkInUse
      /\ th[t].pc \in {"tlist", "tcreate", "tdelete"} /\ Active(t) /\ UNCHANGED <<proc, ghost>>
      /\ UNCHANGED <<running, network, networks, ssh, dirs, netns>>
  BY Known DEF toolAttach, toolCreate, toolDetach, At, Active, host
<1>2. \/ th' = [th EXCEPT ![t] = ok("tcreate")] \/ th' = [th EXCEPT ![t] = ok("return")]
      \/ th' = [th EXCEPT ![t] = failed] \/ th' = [th EXCEPT ![t] = logged]
  BY DEF toolAttach, toolCreate, toolDetach, Goto, Fail, Logged
<1>3. Elsewhere(t)
  BY <1>1 DEF Elsewhere, NetworkInUse, Up, UpAfter
<1>4. th[t].in # "deploy"
  BY <1>1 DEF OneLab, DeployPc, Writing
<1>5. Same(t, ok("tcreate")) /\ Same(t, ok("return")) /\ Same(t, failed) /\ Same(t, logged)
  BY <1>1, <1>4 DEF Same, Goroutine, Pc
<1>6. /\ BuiltAfter(ok("tcreate")) /\ BuiltAfter(ok("return")) /\ BuiltAfter(failed)
      /\ BuiltAfter(logged)
  BY <1>4, <1>5 DEF BuiltAfter, Same
<1> HIDE DEF ok, failed, logged
<1> QED BY <1>1, <1>2, <1>3, <1>5, <1>6, OwnStep, SameOnward

(***************************************************************************)
(* The invariant is kept.                                                  *)
(***************************************************************************)

\* The handler of a process works on the same lab as the command it interrupts.
LEMMA MainTargets ==
    ASSUME HostInv, NEW q \in Procs, NEW g \in {"main", "handler"}, Active(<<q, g>>)
    PROVE  Active(<<q, "main">>) /\ Targets(<<q, g>>) = Targets(<<q, "main">>)
<1>1. CASE g = "main"
  BY <1>1
<1>2. CASE g = "handler"
  <2>1. /\ Active(<<q, "main">>) /\ th[<<q, g>>].op = "destroy"
        /\ ~AllLabs(th[<<q, "main">>].op) /\ th[<<q, g>>].lab = th[<<q, "main">>].lab
    BY <1>2 DEF HostInv, HandlerIsLate
  <2>2. ~AllLabs(th[<<q, g>>].op)
    BY <2>1 DEF AllLabs
  <2> QED BY <2>1, <2>2 DEF Targets
<1> QED BY <1>1, <1>2

\* A step of a goroutine does not touch a lab that nobody works on.
LEMMA NotMine ==
    ASSUME HostInv, NEW t \in Threads, Active(t), NEW l \in Labs, l \notin Targets(t)
    PROVE  ~AllLabs(th[t].op) /\ l # th[t].lab
  BY DEF Targets

\* A step of a goroutine keeps the invariant.
LEMMA EffectKeeps ==
    ASSUME HostInv, NEW t \in Threads, Active(t), Effect(t)
    PROVE  HostInv'
<1> USE DEF ghost
<1>1. /\ UNCHANGED <<proc, deployed, sound>> /\ Onward(t, th'[t]) /\ Elsewhere(t)
      /\ \A u \in Threads \ {t} : Undisturbed(t, u)
      /\ DOMAIN th' = Threads /\ th' = [u \in Threads |-> th'[u]]
      /\ Built(th[t]) => BuiltAfter(th'[t])
  BY DEF Effect
<1>2. \A u \in Threads : th[u] \in Goroutine(th[u].buf, th[u].workers) /\ OneLab(u)
  BY Known
<1>3. ASSUME NEW u \in Threads
      PROVE  /\ th'[u] \in Goroutine(th'[u].buf, th'[u].workers)
             /\ th'[u].op = th[u].op /\ th'[u].sole = th[u].sole
             /\ Active(u)' = Active(u)
             /\ OneLab(u)' /\ (u # t => th'[u].in = th[u].in)
             /\ Active(u) /\ ~AllLabs(th[u].op) => th'[u].lab = th[u].lab
  <2>1. CASE u = t
    <3>1. th'[t] \in Goroutine(th'[t].buf, th'[t].workers) /\ th'[t].pc # "idle"
      BY <1>1 DEF Onward
    <3>2. ~AllLabs(th[t].op) => th'[t].lab = th[t].lab
      BY <1>1, <1>2 DEF Onward, OneLab
    <3>3. OneLab(t)'
      BY <1>1, <1>2, <3>2 DEF Onward, OneLab
    <3> QED BY <1>1, <2>1, <3>1, <3>2, <3>3 DEF Onward, Active
  <2>2. CASE u # t /\ th'[u] = th[u]
    BY <1>2, <2>2 DEF Active, OneLab
  <2>3. CASE u # t /\ th'[u] # th[u]
    <3>1. PICK i \in SUBSET Nodes :
             th'[u] = [th[u] EXCEPT !.inflight = i, !.err = TRUE, !.faulty = TRUE]
      BY <1>1, <2>3 DEF Undisturbed
    <3>2. /\ th'[u] \in Goroutine(th'[u].buf, th'[u].workers)
          /\ th'[u].op = th[u].op /\ th'[u].sole = th[u].sole /\ th'[u].pc = th[u].pc
          /\ th'[u].lab = th[u].lab /\ th'[u].in = th[u].in /\ th'[u].todo = th[u].todo
          /\ th'[u].found = th[u].found
      BY <1>2, <3>1 DEF Goroutine
    <3> QED BY <1>2, <3>2 DEF Active, OneLab
  <2> QED BY <2>1, <2>2, <2>3
<1>4. ASSUME NEW u \in Threads, Active(u) PROVE Targets(u)' = Targets(u)
  BY <1>3, <1>4 DEF Targets
<1>5. HostTypes'
  BY <1>1, <1>3 DEF HostTypes, HostInv, Elsewhere
<1>6. ASSUME NEW p \in Procs PROVE HandlerIsLate(p)'
  <2>1. <<p, "main">> \in Threads /\ <<p, "handler">> \in Threads
    BY DEF Threads
  <2>2. HandlerIsLate(p)
    BY DEF HostInv
  <2>3. Active(<<p, "handler">>) =>
           th'[<<p, "handler">>].in = "destroy"
           /\ th'[<<p, "handler">>].lab = th[<<p, "handler">>].lab
    <3>1. SUFFICES ASSUME Active(<<p, "handler">>)
                   PROVE  /\ th'[<<p, "handler">>].in = "destroy"
                          /\ th'[<<p, "handler">>].lab = th[<<p, "handler">>].lab
      OBVIOUS
    <3>2. th[<<p, "handler">>].op = "destroy" /\ th[<<p, "handler">>].in = "destroy"
      BY <2>2, <3>1 DEF HandlerIsLate
    <3>3. th'[<<p, "handler">>].lab = th[<<p, "handler">>].lab
      BY <1>3, <2>1, <3>1, <3>2 DEF AllLabs
    <3>4. CASE t = <<p, "handler">>
      BY <1>1, <3>2, <3>3, <3>4 DEF Onward
    <3>5. CASE t # <<p, "handler">>
      BY <1>3, <2>1, <3>2, <3>3, <3>5
    <3> QED BY <3>4, <3>5
  <2>4. /\ th'[<<p, "main">>].op = th[<<p, "main">>].op
        /\ Active(<<p, "main">>)' = Active(<<p, "main">>)
        /\ Active(<<p, "handler">>)' = Active(<<p, "handler">>)
        /\ th'[<<p, "handler">>].op = th[<<p, "handler">>].op
        /\ Active(<<p, "main">>) /\ ~AllLabs(th[<<p, "main">>].op)
              => th'[<<p, "main">>].lab = th[<<p, "main">>].lab
    BY <1>3, <2>1
  <2> QED BY <1>1, <2>2, <2>3, <2>4 DEF HandlerIsLate
<1>7. ASSUME NEW p \in Procs, NEW q \in Procs PROVE Alone(p, q)'
  <2>1. <<p, "main">> \in Threads /\ <<q, "main">> \in Threads /\ Alone(p, q)
    BY DEF Threads, HostInv
  <2> QED BY <1>3, <1>4, <2>1 DEF Alone
<1>8. Untouched'
  BY <1>1, <1>3, <1>4 DEF HostInv, Untouched, Targeted, Active
<1>9. ASSUME NEW l \in deployed PROVE Present(l)'
  <2>1. l \in Labs /\ l \notin Targets(t) /\ Present(l)
    BY DEF HostInv, HostTypes, Untouched, Targeted, Active
  <2>2. ~AllLabs(th[t].op) /\ l # th[t].lab
    BY <2>1, NotMine
  <2> QED BY <1>1, <2>1, <2>2 DEF Elsewhere, Present, Up, UpAfter
<1>11. ASSUME SSHConfigDir, NEW l \in sound PROVE l \in ssh'
  <2>1. l \in Labs /\ l \notin Targets(t) /\ l \in ssh
    BY <1>11 DEF HostInv, HostTypes, Untouched, Targeted, Active
  <2>2. ~AllLabs(th[t].op) /\ l # th[t].lab
    BY <2>1, NotMine
  <2> QED BY <1>1, <2>1, <2>2 DEF Elsewhere
<1>10. Building'
  <2> SUFFICES ASSUME NEW p \in Procs, Active(<<p, "main">>)', th'[<<p, "main">>].sole,
                      ~proc'[p].cancelled
               PROVE  Built(th[<<p, "main">>])'
    BY DEF Building
  <2> DEFINE u == <<p, "main">>
  <2>1. u \in Threads /\ Active(u) /\ th[u].sole /\ ~proc[p].cancelled
    BY <1>1, <1>3 DEF Threads
  <2>2. Built(th[u])
    BY <2>1 DEF HostInv, Building
  <2>3. CASE u = t
    BY <1>1, <2>2, <2>3 DEF Built, BuiltAfter, Up, UpAfter
  <2>4. CASE u # t /\ th[u].in = "deploy"
    <3>1. PICK q \in Procs, g \in {"main", "handler"} : t = <<q, g>>
      BY DEF Threads
    <3>2. q # p
      BY <2>1, <2>4, <3>1 DEF HostInv, HandlerIsLate
    <3>3. Active(<<q, "main">>) /\ Targets(t) = Targets(<<q, "main">>)
      BY <3>1, MainTargets
    <3>4. Targets(u) \cap Targets(t) = {}
      BY <2>1, <3>2, <3>3 DEF HostInv, Alone
    <3>5. th[u].lab \in Labs /\ th[u].lab \in Targets(u)
      BY <1>2, <2>1, <2>4 DEF OneLab, Targets
    <3>6. ~AllLabs(th[t].op) /\ th[u].lab # th[t].lab
      BY <3>4, <3>5, NotMine
    <3>7. th'[u] = th[u]
      BY <1>1, <2>1, <2>4, <3>6 DEF Undisturbed
    <3>8. /\ th[u].lab \in dirs => th[u].lab \in dirs'
          /\ th[u].lab \in ssh => th[u].lab \in ssh'
          /\ \A n \in Nodes : Up(th[u].lab, n) => UpAfter(th[u].lab, n)
      BY <1>1, <3>5, <3>6 DEF Elsewhere
    <3> QED BY <2>2, <3>7, <3>8 DEF Built, Up, UpAfter
  <2>5. CASE u # t /\ th[u].in # "deploy"
    <3>1. th'[u].in # "deploy"
      BY <1>3, <2>1, <2>5
    <3> QED BY <3>1 DEF Built
  <2> QED BY <2>3, <2>4, <2>5
<1> QED BY <1>1, <1>3, <1>5, <1>6, <1>7, <1>8, <1>9, <1>10, <1>11 DEF HostInv, Elsewhere

\* All steps of a goroutine but its return.
LEMMA StepEffect ==
    ASSUME HostInv, ~SharedDir, NEW t \in Threads, Step(t), ~Return(t)
    PROVE  Effect(t)
<1>1. ASSUME NEW n \in Nodes, createNode(t, n) \/ StartContainer(t, n) PROVE Effect(t)
  BY <1>1, CreateNodeStep, StartContainerStep
<1>2. ASSUME NEW n \in Nodes, workerDeletes(t, n) PROVE Effect(t)
  BY <1>2, WorkerDeletesStep
<1>3. ASSUME NEW yes \in BOOLEAN, cliPromptToDestroyAll(t, yes) PROVE Effect(t)
  BY <1>3, PromptStep
<1>4. CASE NewContainerLab(t) \/ CreateNet(t) \/ createMgmtBridge(t) \/ postCreateNetActions(t)
           \/ DeleteNet(t) \/ NetworkRemove(t) \/ deleteMgmtNetworkFwdRule(t)
  BY <1>4, NewContainerLabStep, CreateNetStep, CreateBridgeStep, NetRulesStep, DeleteNetStep,
     NetworkRemoveStep, DeleteRulesStep
<1>5. CASE prepareLab(t) \/ nodesDone(t) \/ appendHostsFileEntries(t) \/ addSSHConfig(t)
           \/ toolAttach(t) \/ toolCreate(t) \/ toolDetach(t)
  BY <1>5, PrepareStep, NodesDoneStep, AppendStep, AddSSHStep, ToolStep
<1>6. CASE Destroy(t) \/ makeCopyForDestroy(t) \/ destroy(t) \/ deleteNodes(t)
           \/ workerReturns(t) \/ deleteToolContainers(t)
  BY <1>6, DestroyStep, MakeCopyStep, ListStep, HandOutStep, WorkerReturnsStep, DeleteToolsStep
<1>7. CASE DeleteEntriesFromHostsFile(t) \/ truncateHosts(t) \/ writeHosts(t)
           \/ removeLabFiles(t) \/ removeLabDirectory(t) \/ destroyLabDirs(t)
  BY <1>7, ReadHostsStep, TruncateStep, WriteHostsStep, RemoveFilesStep, RemoveDirectoryStep,
     LabDirsStep
<1> QED BY <1>1, <1>2, <1>3, <1>4, <1>5, <1>6, <1>7 DEF Step

\* A goroutine that makes a step is active.
LEMMA StepIsActive ==
    ASSUME NEW t \in Threads, Step(t)
    PROVE  Active(t)
<1> USE DEF At, Active
<1>1. CASE Return(t) \/ NewContainerLab(t) \/ CreateNet(t) \/ createMgmtBridge(t)
           \/ postCreateNetActions(t) \/ prepareLab(t)
           \/ \E n \in Nodes : createNode(t, n) \/ StartContainer(t, n)
  BY <1>1 DEF Return, NewContainerLab, CreateNet, createMgmtBridge, postCreateNetActions,
              prepareLab, createNode, StartContainer
<1>2. CASE nodesDone(t) \/ appendHostsFileEntries(t) \/ addSSHConfig(t) \/ Destroy(t)
           \/ (\E yes \in BOOLEAN : cliPromptToDestroyAll(t, yes))
           \/ makeCopyForDestroy(t) \/ destroy(t) \/ deleteNodes(t)
           \/ \E n \in Nodes : workerDeletes(t, n)
  BY <1>2 DEF nodesDone, appendHostsFileEntries, addSSHConfig, Destroy, cliPromptToDestroyAll,
              makeCopyForDestroy, destroy, deleteNodes, workerDeletes
<1>3. CASE workerReturns(t) \/ deleteToolContainers(t) \/ DeleteEntriesFromHostsFile(t)
           \/ truncateHosts(t) \/ writeHosts(t) \/ removeLabFiles(t)
  BY <1>3 DEF workerReturns, deleteToolContainers, DeleteEntriesFromHostsFile, truncateHosts,
              writeHosts, removeLabFiles
<1>4. CASE DeleteNet(t) \/ NetworkRemove(t) \/ deleteMgmtNetworkFwdRule(t)
           \/ removeLabDirectory(t) \/ destroyLabDirs(t)
           \/ toolAttach(t) \/ toolCreate(t) \/ toolDetach(t)
  BY <1>4 DEF DeleteNet, NetworkRemove, deleteMgmtNetworkFwdRule, removeLabDirectory,
              destroyLabDirs, toolAttach, toolCreate, toolDetach
<1> QED BY <1>1, <1>2, <1>3, <1>4 DEF Step

\* The record of no goroutine.
LEMMA NoThreadType == NoThread \in Goroutine(NoThread.buf, NoThread.workers)
  BY DEF NoThread, Goroutine, Pc, Op

\* The process p ends, and its lab counts as deployed if it is complete and nobody else
\* works on it.
LEMMA ExitKeeps ==
    ASSUME HostInv, NEW p \in Procs, Exit(p), UNCHANGED <<host, proc>>,
           NEW D \in SUBSET Labs, deployed' = deployed \cup D,
           \A l \in D : Present(l) /\ \A t \in Threads : t[1] # p /\ Active(t) => l \notin Targets(t),
           sound' \subseteq deployed', SSHConfigDir => sound' \subseteq ssh
    PROVE  HostInv'
<1> USE DEF host
<1>1. /\ DOMAIN th' = Threads /\ th' = [u \in Threads |-> th'[u]]
      /\ \A u \in Threads : th'[u] = IF u[1] = p THEN NoThread ELSE th[u]
  BY DEF Exit
<1>2. \A u \in Threads : ~Active(u)' \/ (u[1] # p /\ th'[u] = th[u] /\ Active(u))
  BY <1>1 DEF Active, NoThread
<1>3. HostTypes'
  <2>1. \A u \in Threads : th'[u] \in Goroutine(th'[u].buf, th'[u].workers)
    BY <1>1, NoThreadType DEF HostInv, HostTypes
  <2> QED BY <1>1, <2>1 DEF HostInv, HostTypes
<1>4. \A u \in Threads : OneLab(u)'
  BY <1>2 DEF HostInv, OneLab, Active
<1>5. ASSUME NEW q \in Procs PROVE HandlerIsLate(q)'
  <2>1. <<q, "main">> \in Threads /\ <<q, "handler">> \in Threads /\ HandlerIsLate(q)
    BY DEF Threads, HostInv
  <2>2. CASE q = p
    BY <1>2, <2>1, <2>2 DEF HandlerIsLate
  <2>3. CASE q # p
    <3>1. /\ th'[<<q, "main">>] = th[<<q, "main">>]
          /\ th'[<<q, "handler">>] = th[<<q, "handler">>]
      BY <1>1, <2>1, <2>3
    <3> QED BY <2>1, <3>1 DEF HandlerIsLate, Active
  <2> QED BY <2>2, <2>3
<1>6. ASSUME NEW q \in Procs, NEW r \in Procs PROVE Alone(q, r)'
  <2>1. <<q, "main">> \in Threads /\ <<r, "main">> \in Threads /\ Alone(q, r)
    BY DEF Threads, HostInv
  <2> QED BY <1>2, <2>1 DEF Alone, Targets
<1>7. Untouched'
  <2> SUFFICES ASSUME NEW l \in deployed \cup D, NEW u \in Threads, Active(u)', l \in Targets(u)'
               PROVE  FALSE
    BY DEF Untouched, Targeted, Active
  <2>1. u[1] # p /\ Active(u) /\ Targets(u)' = Targets(u)
    BY <1>2 DEF Targets
  <2> QED BY <2>1 DEF HostInv, Untouched, Targeted, Active
<1>8. Building'
  <2> SUFFICES ASSUME NEW q \in Procs, Active(<<q, "main">>)', th'[<<q, "main">>].sole,
                      ~proc[q].cancelled
               PROVE  Built(th[<<q, "main">>])'
    BY DEF Building
  <2>1. <<q, "main">> \in Threads
    BY DEF Threads
  <2>2. th'[<<q, "main">>] = th[<<q, "main">>] /\ Active(<<q, "main">>)
    BY <1>2, <2>1
  <2> QED BY <2>2 DEF HostInv, Building, Built, Up
<1>9. NetworkInUse' /\ \A l \in deployed' : Present(l)'
  BY DEF HostInv, NetworkInUse, Present, Up
<1> QED BY <1>3, <1>4, <1>5, <1>6, <1>7, <1>8, <1>9 DEF HostInv

\* A command returns: redeploy goes on, the others end their process.
LEMMA ReturnKeeps ==
    ASSUME HostInv, NEW t \in Threads, Return(t)
    PROVE  HostInv'
<1> USE DEF host, ghost
<1>1. PICK p \in Procs, g \in {"main", "handler"} : t = <<p, g>>
  BY DEF Threads
<1>2. /\ th[t].pc = "return" /\ Active(t) /\ t[1] = p /\ t[2] = g
      /\ th[t] \in Goroutine(th[t].buf, th[t].workers) /\ OneLab(t)
  BY <1>1, Known DEF Return, At, Active
<1>3. CASE th[t].op = "redeploy" /\ th[t].in = "destroy" /\ ~th[t].err /\ t[2] = "main"
  <2> DEFINE r == [th[t] EXCEPT !.pc = "new", !.in = "deploy"]
  <2>1. /\ th' = [th EXCEPT ![t] = r] /\ proc' = [proc EXCEPT ![p].CleanOnCancel = TRUE]
        /\ UNCHANGED <<host, ghost>>
    BY <1>2, <1>3 DEF Return
  <2>2. /\ r \in Goroutine(r.buf, r.workers) /\ r.pc = "new" /\ r.in = "deploy"
        /\ r.op = "redeploy" /\ r.lab = th[t].lab /\ r.sole = th[t].sole
        /\ r.todo = th[t].todo /\ r.found = th[t].found
    BY <1>2, <1>3 DEF Goroutine, Pc, Op, Operations
  <2> HIDE DEF r
  <2>3. /\ th'[t] = r /\ DOMAIN th' = Threads /\ th' = [u \in Threads |-> th'[u]]
        /\ \A u \in Threads \ {t} : th'[u] = th[u]
    BY <2>1 DEF HostInv, HostTypes
  <2>4. /\ proc' \in [Procs -> Process]
        /\ \A q \in Procs : proc'[q].cancelled = proc[q].cancelled
        /\ \A q \in Procs \ {p} : proc'[q] = proc[q]
    BY <2>1 DEF HostInv, HostTypes, Process
  <2>5. HostTypes'
    <3>1. \A u \in Threads : th'[u] \in Goroutine(th'[u].buf, th'[u].workers)
      BY <2>2, <2>3 DEF HostInv, HostTypes
    <3> QED BY <2>1, <2>3, <2>4, <3>1 DEF HostInv, HostTypes
  <2>6. ~AllLabs(th[t].op)
    BY <1>3 DEF AllLabs
  <2>7. \A u \in Threads : OneLab(u)'
    <3>1. OneLab(t)'
      BY <1>2, <1>3, <2>2, <2>3, <2>6 DEF OneLab, Active, DeployPc
    <3>2. \A u \in Threads \ {t} : OneLab(u)'
      BY <2>3 DEF HostInv, OneLab, Active
    <3> QED BY <3>1, <3>2
  <2>8. \A u \in Threads : /\ Active(u)' = Active(u) /\ Targets(u)' = Targets(u)
                           /\ th'[u].sole = th[u].sole /\ th'[u].op = th[u].op
                           /\ th'[u].lab = th[u].lab
    BY <1>2, <1>3, <2>2, <2>3 DEF Active, Targets
  <2>9. ASSUME NEW q \in Procs PROVE HandlerIsLate(q)'
    <3>1. <<q, "main">> \in Threads /\ <<q, "handler">> \in Threads /\ HandlerIsLate(q)
      BY DEF Threads, HostInv
    <3>2. <<q, "handler">> # t
      BY <1>2, <1>3
    <3>3. th'[<<q, "handler">>] = th[<<q, "handler">>]
      BY <2>3, <3>1, <3>2
    <3>4. q # p => proc'[q] = proc[q]
      BY <2>4
    <3>5. q = p => ~AllLabs(th[<<q, "main">>].op)
      BY <1>1, <1>2, <1>3, <2>6
    <3> QED BY <2>4, <2>8, <3>1, <3>3, <3>4, <3>5 DEF HandlerIsLate
  <2>10. ASSUME NEW q \in Procs, NEW s \in Procs PROVE Alone(q, s)'
    <3>1. <<q, "main">> \in Threads /\ <<s, "main">> \in Threads /\ Alone(q, s)
      BY DEF Threads, HostInv
    <3> QED BY <2>8, <3>1 DEF Alone
  <2>11. Untouched'
    BY <2>1, <2>8 DEF HostInv, Untouched, Targeted, Active
  <2>12. Building'
    <3> SUFFICES ASSUME NEW q \in Procs, Active(<<q, "main">>)', th'[<<q, "main">>].sole,
                        ~proc'[q].cancelled
                 PROVE  Built(th[<<q, "main">>])'
      BY DEF Building
    <3>1. <<q, "main">> \in Threads
      BY DEF Threads
    <3>2. CASE <<q, "main">> = t
      BY <2>2, <2>3, <3>2 DEF Built, Writing
    <3>3. CASE <<q, "main">> # t
      <4>1. th'[<<q, "main">>] = th[<<q, "main">>]
        BY <2>3, <3>1, <3>3
      <4> QED BY <2>1, <2>4, <2>8, <3>1, <4>1 DEF HostInv, Building, Built, Up
    <3> QED BY <3>2, <3>3
  <2>13. /\ NetworkInUse' /\ \A l \in deployed' : Present(l)'
         /\ SSHConfigDir => sound' \subseteq ssh'
    BY <2>1 DEF HostInv, NetworkInUse, Present, Up
  <2> QED BY <2>5, <2>7, <2>9, <2>10, <2>11, <2>12, <2>13 DEF HostInv
<1>4. CASE ~(th[t].op = "redeploy" /\ th[t].in = "destroy" /\ ~th[t].err /\ t[2] = "main")
  <2>1. /\ Exit(p) /\ UNCHANGED <<host, proc>>
        /\ deployed' = IF th[t].in = "deploy" /\ ~th[t].err /\ th[t].sole /\ ~proc[p].cancelled
                       THEN deployed \cup {th[t].lab} ELSE deployed
        /\ sound' = IF /\ th[t].in = "deploy" /\ ~th[t].err /\ th[t].sole
                       /\ ~proc[p].cancelled /\ ~th[t].faulty
                    THEN sound \cup {th[t].lab} ELSE sound
    BY <1>2, <1>4 DEF Return
  <2>a. sound \subseteq deployed /\ (SSHConfigDir => sound \subseteq ssh)
    BY DEF HostInv, HostTypes
  <2>2. CASE ~(th[t].in = "deploy" /\ ~th[t].err /\ th[t].sole /\ ~proc[p].cancelled)
    <3> DEFINE D == {l \in Labs : FALSE}
    <3>1. D \in SUBSET Labs /\ deployed' = deployed \cup D
      BY <2>1, <2>2
    <3>2. \A l \in D : /\ Present(l)
                       /\ \A u \in Threads : u[1] # p /\ Active(u) => l \notin Targets(u)
      OBVIOUS
    <3>3. sound' \subseteq deployed' /\ (SSHConfigDir => sound' \subseteq ssh)
      BY <2>1, <2>2, <2>a
    <3> HIDE DEF D
    <3> QED BY <2>1, <3>1, <3>2, <3>3, ExitKeeps
  <2>3. CASE th[t].in = "deploy" /\ ~th[t].err /\ th[t].sole /\ ~proc[p].cancelled
    <3>1. ~AllLabs(th[t].op) /\ th[t].lab \in Labs /\ g = "main"
      BY <1>2, <2>3 DEF OneLab
    <3>2. Built(th[t])
      BY <1>1, <1>2, <2>3, <3>1 DEF HostInv, Building
    <3>3. Present(th[t].lab)
      BY <1>2, <2>3, <3>2 DEF Built, Present, Writing
    <3>4. ASSUME NEW u \in Threads, u[1] # p, Active(u) PROVE th[t].lab \notin Targets(u)
      <4>1. PICK q \in Procs, h \in {"main", "handler"} : u = <<q, h>>
        BY DEF Threads
      <4>2. q # p
        BY <3>4, <4>1
      <4>3. Active(<<q, "main">>) /\ Targets(u) = Targets(<<q, "main">>)
        BY <3>4, <4>1, MainTargets
      <4>4. Targets(t) \cap Targets(<<q, "main">>) = {}
        BY <1>1, <1>2, <2>3, <3>1, <4>2, <4>3 DEF HostInv, Alone
      <4> QED BY <3>1, <4>3, <4>4 DEF Targets
    <3>5. deployed' = deployed \cup {th[t].lab} /\ {th[t].lab} \in SUBSET Labs
      BY <2>1, <2>3, <3>1
    <3>6. \A l \in {th[t].lab} : /\ Present(l)
                                 /\ \A u \in Threads : u[1] # p /\ Active(u) => l \notin Targets(u)
      BY <3>3, <3>4
    <3>7. SSHConfigDir /\ ~th[t].faulty => th[t].lab \in ssh
      BY <1>2, <2>3, <3>2 DEF Built
    <3>8. sound' \subseteq deployed' /\ (SSHConfigDir => sound' \subseteq ssh)
      BY <2>1, <2>3, <2>a, <3>5, <3>7
    <3> QED BY <2>1, <3>5, <3>6, <3>8, ExitKeeps
  <2> QED BY <2>2, <2>3
<1> QED BY <1>3, <1>4

\* A command is given: the labs it is for do not count as deployed any more, and whoever
\* works on one of them is not the only one.
LEMMA CommandKeeps ==
    ASSUME HostInv, NEW p \in Procs, NEW op \in Commands,
           NEW l \in IF AllLabs(op) THEN {"none"} ELSE Labs, Command(p, op, l)
    PROVE  HostInv'
<1> USE DEF host
<1> DEFINE m == <<p, "main">>
           others == {q \in Procs \ {p} : Running(q)}
           meets(t) == AllLabs(op) \/ l \in Targets(t)
           s == \A q \in others : ~meets(<<q, "main">>)
           i == IF op = "redeploy" THEN "destroy" ELSE op
           new == [NoThread EXCEPT !.pc = "new", !.op = op, !.lab = l, !.in = i, !.sole = s]
           old(t) == [th[t] EXCEPT !.sole = th[t].sole /\ ~meets(t)]
<1>a. ~Active(m) /\ m \in Threads
  <2>1. ~Running(p)
    BY Zenon DEF Command
  <2> QED BY <2>1 DEF Running, Active, Threads
<1>b. /\ UNCHANGED host
      /\ proc' = [proc EXCEPT ![p] = [cancelled |-> FALSE, timedOut |-> FALSE,
                      CleanOnCancel |-> op \in {"deploy", "reconfigure"}]]
      /\ deployed' = IF AllLabs(op) THEN {} ELSE deployed \ {l}
      /\ sound' = IF AllLabs(op) THEN {} ELSE sound \ {l}
  BY Zenon DEF Command
<1>c. th' = [t \in Threads |-> IF t = m THEN new
                               ELSE IF th[t].pc = "idle" THEN th[t] ELSE old(t)]
  BY Zenon DEF Command
<1>1. /\ ~Active(m) /\ m \in Threads /\ UNCHANGED host
      /\ th' = [t \in Threads |-> IF t = m THEN new
                                  ELSE IF th[t].pc = "idle" THEN th[t] ELSE old(t)]
      /\ proc' = [proc EXCEPT ![p] = [cancelled |-> FALSE, timedOut |-> FALSE,
                     CleanOnCancel |-> op \in {"deploy", "reconfigure"}]]
      /\ deployed' = IF AllLabs(op) THEN {} ELSE deployed \ {l}
      /\ sound' = IF AllLabs(op) THEN {} ELSE sound \ {l}
  BY <1>a, <1>b, <1>c
<1>2. /\ op \in Operations /\ op \in Op /\ i \in Op /\ s \in BOOLEAN /\ l \in Labs \cup {"none"}
      /\ i \in {"deploy", "reconfigure"} => i = op /\ ~AllLabs(op)
      /\ op \in {"deploy", "reconfigure"} => ~AllLabs(op)
      /\ ~AllLabs(op) => l \in Labs
  BY LabHostAssumption DEF Op, AllLabs, Operations
<1> HIDE DEF s, i
<1>3. /\ new \in Goroutine(new.buf, new.workers) /\ new.pc = "new" /\ new.op = op /\ new.lab = l
      /\ new.in = i /\ new.sole = s /\ new.todo = {} /\ new.found = {}
  BY <1>2 DEF NoThread, Goroutine, Pc
<1>4. ASSUME NEW t \in Threads, Active(t)
      PROVE  /\ old(t) \in Goroutine(old(t).buf, old(t).workers)
             /\ old(t).sole => th[t].sole /\ ~meets(t)
             /\ old(t).pc = th[t].pc /\ old(t).op = th[t].op /\ old(t).lab = th[t].lab
             /\ old(t).in = th[t].in /\ old(t).todo = th[t].todo /\ old(t).found = th[t].found
             /\ old(t).err = th[t].err /\ old(t).queue = th[t].queue
             /\ old(t).inflight = th[t].inflight /\ old(t).faulty = th[t].faulty
  <2> DEFINE b == th[t].sole /\ ~meets(t)
  <2>1. th[t] \in Goroutine(th[t].buf, th[t].workers)
    BY Known
  <2>2. b \in BOOLEAN /\ (b => th[t].sole /\ ~meets(t)) /\ old(t) = [th[t] EXCEPT !.sole = b]
    OBVIOUS
  <2> HIDE DEF b, meets, old
  <2> QED BY <2>1, <2>2 DEF Goroutine
<1> HIDE DEF new, old
<1>5. /\ DOMAIN th' = Threads /\ th' = [u \in Threads |-> th'[u]] /\ th'[m] = new
      /\ \A u \in Threads : u # m /\ Active(u) => th'[u] = old(u)
      /\ \A u \in Threads : u # m /\ ~Active(u) => th'[u] = th[u]
  BY <1>1 DEF Active
<1>6. /\ Active(m)'
      /\ \A u \in Threads : u # m => Active(u)' = Active(u) /\ th'[u].op = th[u].op
                                      /\ th'[u].lab = th[u].lab /\ Targets(u)' = Targets(u)
  <2>1. \A u \in Threads : u # m => /\ th'[u].pc = th[u].pc /\ th'[u].op = th[u].op
                                    /\ th'[u].lab = th[u].lab
    BY <1>4, <1>5
  <2> QED BY <1>3, <1>5, <2>1 DEF Active, Targets
<1>7. /\ proc' \in [Procs -> Process] /\ \A q \in Procs \ {p} : proc'[q] = proc[q]
      /\ proc'[p].CleanOnCancel => ~AllLabs(op)
  <2> DEFINE c == op \in {"deploy", "reconfigure"}
  <2>1. c \in BOOLEAN /\ (c => ~AllLabs(op))
    BY <1>2
  <2>2. proc' = [proc EXCEPT ![p] = [cancelled |-> FALSE, timedOut |-> FALSE,
                                     CleanOnCancel |-> c]]
    BY <1>1
  <2> HIDE DEF c
  <2>3. [cancelled |-> FALSE, timedOut |-> FALSE, CleanOnCancel |-> c] \in Process
    BY <2>1 DEF Process
  <2>4. proc \in [Procs -> Process]
    BY DEF HostInv, HostTypes
  <2>5. /\ proc'[p] = [cancelled |-> FALSE, timedOut |-> FALSE, CleanOnCancel |-> c]
        /\ \A q \in Procs \ {p} : proc'[q] = proc[q]
    BY <2>2, <2>4
  <2> QED BY <2>1, <2>2, <2>3, <2>4, <2>5
<1>8. HostTypes'
  <2>1. \A u \in Threads : th'[u] \in Goroutine(th'[u].buf, th'[u].workers)
    BY <1>3, <1>4, <1>5, Known
  <2> QED BY <1>1, <1>5, <1>7, <2>1 DEF HostInv, HostTypes
<1>9. ASSUME NEW u \in Threads PROVE OneLab(u)'
  <2>1. CASE u = m
    BY <1>2, <1>3, <1>5, <2>1 DEF OneLab, DeployPc
  <2>2. CASE u # m
    BY <1>4, <1>5, <1>6, <2>2, Known DEF OneLab, Active
  <2> QED BY <2>1, <2>2
<1>10. ASSUME NEW q \in Procs PROVE HandlerIsLate(q)'
  <2>1. <<q, "main">> \in Threads /\ <<q, "handler">> \in Threads /\ HandlerIsLate(q)
    BY DEF Threads, HostInv
  <2>2. CASE q = p
    <3>1. ~Active(<<q, "handler">>)'
      BY <1>1, <1>6, <2>1, <2>2 DEF HandlerIsLate
    <3> QED BY <1>3, <1>5, <1>7, <2>2, <3>1 DEF HandlerIsLate
  <2>3. CASE q # p
    <3>1. <<q, "main">> # m /\ <<q, "handler">> # m
      BY <2>3
    <3>2. Active(<<q, "handler">>) => th'[<<q, "handler">>].in = th[<<q, "handler">>].in
      BY <1>4, <1>5, <2>1, <3>1
    <3> QED BY <1>6, <1>7, <2>1, <2>3, <3>1, <3>2 DEF HandlerIsLate
  <2> QED BY <2>2, <2>3
<1>11. ASSUME NEW q \in Procs, NEW r \in Procs PROVE Alone(q, r)'
  <2> SUFFICES ASSUME q # r, Active(<<q, "main">>)', Active(<<r, "main">>)',
                      th'[<<q, "main">>].sole
               PROVE  (Targets(<<q, "main">>) \cap Targets(<<r, "main">>) = {})'
    BY DEF Alone
  <2>1. <<q, "main">> \in Threads /\ <<r, "main">> \in Threads /\ Alone(q, r)
    BY DEF Threads, HostInv
  <2>2. CASE q = p
    <3>1. <<r, "main">> # m /\ Active(<<r, "main">>) /\ s
      BY <1>3, <1>5, <1>6, <2>1, <2>2
    <3>2. ~AllLabs(op) /\ l \notin Targets(<<r, "main">>)
      BY <2>2, <3>1 DEF s, Running, Active
    <3>3. Targets(m)' = {l} /\ Targets(<<r, "main">>)' = Targets(<<r, "main">>)
      BY <1>3, <1>5, <1>6, <2>1, <3>1, <3>2 DEF Targets
    <3> QED BY <2>2, <3>2, <3>3
  <2>3. CASE q # p
    <3>1. <<q, "main">> # m /\ Active(<<q, "main">>) /\ Targets(<<q, "main">>)' = Targets(<<q, "main">>)
      BY <1>6, <2>1, <2>3
    <3>2. th[<<q, "main">>].sole /\ ~AllLabs(op) /\ l \notin Targets(<<q, "main">>)
      BY <1>4, <1>5, <2>1, <3>1
    <3>3. CASE r = p
      <4>1. Targets(m)' = {l}
        BY <1>3, <1>5, <3>2 DEF Targets
      <4> QED BY <3>1, <3>2, <3>3, <4>1
    <3>4. CASE r # p
      <4>1. <<r, "main">> # m
        BY <3>4
      <4> QED BY <1>6, <2>1, <3>1, <3>2, <4>1 DEF Alone
    <3> QED BY <3>3, <3>4
  <2> QED BY <2>2, <2>3
<1>12. Untouched'
  <2> SUFFICES ASSUME NEW k \in deployed', NEW u \in Threads, Active(u)', k \in Targets(u)'
               PROVE  FALSE
    BY DEF Untouched, Targeted, Active
  <2>1. ~AllLabs(op) /\ k \in deployed /\ k # l
    BY <1>1
  <2>2. CASE u = m
    BY <1>3, <1>5, <2>1, <2>2 DEF Targets
  <2>3. CASE u # m
    BY <1>6, <2>1, <2>3 DEF HostInv, Untouched, Targeted, Active
  <2> QED BY <2>2, <2>3
<1>13. Building'
  <2> SUFFICES ASSUME NEW q \in Procs, Active(<<q, "main">>)', th'[<<q, "main">>].sole,
                      ~proc'[q].cancelled
               PROVE  Built(th[<<q, "main">>])'
    BY DEF Building
  <2>1. <<q, "main">> \in Threads
    BY DEF Threads
  <2>2. CASE q = p
    BY <1>3, <1>5, <2>2 DEF Built, Writing
  <2>3. CASE q # p
    <3>1. <<q, "main">> # m /\ Active(<<q, "main">>)
      BY <1>6, <2>1, <2>3
    <3>2. th'[<<q, "main">>] = old(<<q, "main">>) /\ th[<<q, "main">>].sole /\ ~proc[q].cancelled
      BY <1>4, <1>5, <1>7, <2>1, <2>3, <3>1
    <3>3. Built(th[<<q, "main">>])
      BY <3>1, <3>2 DEF HostInv, Building
    <3> QED BY <1>1, <1>4, <2>1, <3>1, <3>2, <3>3 DEF Built, Up
  <2> QED BY <2>2, <2>3
<1>14. /\ NetworkInUse' /\ \A k \in deployed' : Present(k)'
       /\ SSHConfigDir => sound' \subseteq ssh'
  BY <1>1 DEF HostInv, NetworkInUse, Present, Up
<1> QED BY <1>8, <1>9, <1>10, <1>11, <1>12, <1>13, <1>14 DEF HostInv

\* An interrupt ends the process, or starts the handler for the lab of the command.
LEMMA SignalKeeps ==
    ASSUME HostInv, NEW p \in Procs, SignalHandledContext(p)
    PROVE  HostInv'
<1> USE DEF host
<1> DEFINE m == <<p, "main">>
           h == <<p, "handler">>
           new == [NoThread EXCEPT !.pc = "new", !.op = "destroy", !.in = "destroy",
                                   !.lab = th[m].lab]
<1>1. /\ m \in Threads /\ h \in Threads /\ m # h /\ Active(m) /\ ~proc[p].cancelled
      /\ UNCHANGED <<host, deployed, sound>>
      /\ sound \subseteq deployed /\ (SSHConfigDir => sound \subseteq ssh)
      /\ th[m] \in Goroutine(th[m].buf, th[m].workers) /\ OneLab(m) /\ HandlerIsLate(p)
  BY Known DEF SignalHandledContext, Running, Active, Threads, HostInv, HostTypes
<1>2. CASE ~proc[p].CleanOnCancel
  <2> DEFINE D == {l \in Labs : FALSE}
  <2>1. Exit(p) /\ UNCHANGED proc /\ D \in SUBSET Labs /\ deployed' = deployed \cup D
    BY <1>1, <1>2 DEF SignalHandledContext
  <2>2. \A l \in D : /\ Present(l)
                     /\ \A u \in Threads : u[1] # p /\ Active(u) => l \notin Targets(u)
    OBVIOUS
  <2> HIDE DEF D
  <2> QED BY <1>1, <2>1, <2>2, ExitKeeps
<1>3. CASE proc[p].CleanOnCancel
  <2>1. /\ th' = [th EXCEPT ![h] = new] /\ proc' = [proc EXCEPT ![p].cancelled = TRUE]
    BY <1>3 DEF SignalHandledContext
  <2>2. ~AllLabs(th[m].op) /\ ~Active(h)
    BY <1>1, <1>3 DEF HandlerIsLate
  <2>3. /\ new \in Goroutine(new.buf, new.workers) /\ new.pc = "new" /\ new.op = "destroy"
        /\ new.in = "destroy" /\ new.lab = th[m].lab /\ new.todo = {} /\ new.found = {}
    <3>1. th[m].lab \in Labs \cup {"none"}
      BY <1>1 DEF Goroutine
    <3> QED BY <3>1 DEF NoThread, Goroutine, Pc, Op, Operations
  <2> HIDE DEF new
  <2>4. /\ DOMAIN th' = Threads /\ th' = [u \in Threads |-> th'[u]] /\ th'[h] = new
        /\ \A u \in Threads \ {h} : th'[u] = th[u]
    BY <1>1, <2>1 DEF HostInv, HostTypes
  <2>5. /\ proc' \in [Procs -> Process] /\ \A q \in Procs \ {p} : proc'[q] = proc[q]
    BY <2>1 DEF HostInv, HostTypes, Process
  <2>6. proc'[p].cancelled
    BY <2>1 DEF HostInv, HostTypes, Process
  <2>7. HostTypes'
    <3>1. \A u \in Threads : th'[u] \in Goroutine(th'[u].buf, th'[u].workers)
      BY <2>3, <2>4, Known
    <3> QED BY <1>1, <2>4, <2>5, <3>1 DEF HostInv, HostTypes
  <2>8. ASSUME NEW u \in Threads PROVE OneLab(u)'
    <3>1. CASE u = h
      BY <1>1, <2>2, <2>3, <2>4, <3>1 DEF OneLab
    <3>2. CASE u # h
      BY <2>4, <3>2, Known DEF OneLab, Active
    <3> QED BY <3>1, <3>2
  <2>9. ASSUME NEW q \in Procs PROVE HandlerIsLate(q)'
    <3>1. <<q, "main">> \in Threads /\ <<q, "handler">> \in Threads /\ HandlerIsLate(q)
      BY DEF Threads, HostInv
    <3>2. CASE q = p
      BY <1>1, <2>2, <2>3, <2>4, <2>6, <3>2 DEF HandlerIsLate, Active
    <3>3. CASE q # p
      <4>1. /\ th'[<<q, "main">>] = th[<<q, "main">>]
            /\ th'[<<q, "handler">>] = th[<<q, "handler">>]
        BY <2>4, <3>1, <3>3
      <4> QED BY <2>5, <3>1, <3>3, <4>1 DEF HandlerIsLate, Active
    <3> QED BY <3>2, <3>3
  <2>10. \A q \in Procs : /\ <<q, "main">> \in Threads
                          /\ th'[<<q, "main">>] = th[<<q, "main">>]
                          /\ Targets(<<q, "main">>)' = Targets(<<q, "main">>)
                          /\ Active(<<q, "main">>)' = Active(<<q, "main">>)
    BY <2>4 DEF Threads, Targets, Active
  <2>11. \A q, r \in Procs : Alone(q, r)'
    BY <2>10 DEF HostInv, Alone
  <2>12. Untouched'
    <3> SUFFICES ASSUME NEW k \in deployed, NEW u \in Threads, Active(u)', k \in Targets(u)'
                 PROVE  FALSE
      BY <1>1 DEF Untouched, Targeted, Active
    <3>1. CASE u = h
      <4>1. k = th[m].lab
        BY <2>3, <2>4, <3>1 DEF Targets, AllLabs
      <4> QED BY <1>1, <2>2, <4>1 DEF HostInv, Untouched, Targeted, Targets, Active
    <3>2. CASE u # h
      BY <2>4, <3>2 DEF HostInv, Untouched, Targeted, Targets, Active
    <3> QED BY <3>1, <3>2
  <2>13. Building'
    <3> SUFFICES ASSUME NEW q \in Procs, Active(<<q, "main">>)', th'[<<q, "main">>].sole,
                        ~proc'[q].cancelled
                 PROVE  Built(th[<<q, "main">>])'
      BY DEF Building
    <3>1. q # p
      BY <2>6
    <3> QED BY <1>1, <2>5, <2>10, <3>1 DEF HostInv, Building, Built, Up
  <2>14. /\ NetworkInUse' /\ \A k \in deployed' : Present(k)'
         /\ SSHConfigDir => sound' \subseteq ssh'
    BY <1>1 DEF HostInv, NetworkInUse, Present, Up
  <2> QED BY <2>7, <2>8, <2>9, <2>11, <2>12, <2>13, <2>14 DEF HostInv
<1> QED BY <1>2, <1>3

\* What does not concern the invariant: the handler's timeout, and stuttering.
LEMMA TimeoutKeeps ==
    ASSUME HostInv, UNCHANGED <<host, th, deployed, sound>>, proc' \in [Procs -> Process],
           \A q \in Procs : /\ proc'[q].cancelled = proc[q].cancelled
                            /\ proc'[q].CleanOnCancel = proc[q].CleanOnCancel
    PROVE  HostInv'
<1> USE DEF host
<1>1. /\ HostTypes' /\ NetworkInUse' /\ \A k \in deployed' : Present(k)'
      /\ SSHConfigDir => sound' \subseteq ssh'
  BY DEF HostInv, HostTypes, NetworkInUse, Present, Up
<1>2. (\A t \in Threads : OneLab(t))' /\ Untouched'
  BY DEF HostInv, OneLab, Active, Untouched, Targeted, Targets
<1>3. (\A q \in Procs : HandlerIsLate(q))' /\ (\A q, r \in Procs : Alone(q, r))'
  BY DEF HostInv, HandlerIsLate, Alone, Active, Targets
<1>4. Building'
  BY DEF HostInv, Building, Built, Active, Up
<1> QED BY <1>1, <1>2, <1>3, <1>4 DEF HostInv

\* At the start no command is running, and the labs deployed before are there.
LEMMA HostInit == Init => HostInv
<1> SUFFICES ASSUME Init PROVE HostInv
  OBVIOUS
<1>1. \A t \in Threads : th[t] = NoThread /\ ~Active(t)
  BY DEF Init, Active, NoThread
<1>2. HostTypes
  <2>1. \A t \in Threads : th[t] \in Goroutine(th[t].buf, th[t].workers)
    BY <1>1, NoThreadType
  <2>2. [cancelled |-> FALSE, timedOut |-> FALSE, CleanOnCancel |-> FALSE] \in Process
    BY DEF Process
  <2> QED BY <2>1, <2>2 DEF Init, HostTypes
<1>3. \A p \in Procs : ~Active(<<p, "main">>) /\ ~Active(<<p, "handler">>)
  BY <1>1 DEF Threads
<1>4. /\ (\A t \in Threads : OneLab(t)) /\ (\A p \in Procs : HandlerIsLate(p))
      /\ (\A p, q \in Procs : Alone(p, q)) /\ Untouched /\ Building
  BY <1>1, <1>3 DEF OneLab, HandlerIsLate, Alone, Untouched, Targeted, Building, Active
<1>5. /\ NetworkInUse /\ \A l \in deployed : Present(l)
      /\ SSHConfigDir => sound \subseteq ssh
  BY DEF Init, NetworkInUse, Present, Up
<1> QED BY <1>2, <1>4, <1>5 DEF HostInv

\* Every step keeps the invariant.
LEMMA HostNext ==
    ASSUME ~SharedDir
    PROVE  HostInv /\ [Next]_vars => HostInv'
<1> SUFFICES ASSUME HostInv, [Next]_vars PROVE HostInv'
  OBVIOUS
<1>1. ASSUME NEW p \in Procs, NEW op \in Commands,
             NEW l \in IF AllLabs(op) THEN {"none"} ELSE Labs, Command(p, op, l)
      PROVE  HostInv'
  BY <1>1, CommandKeeps
<1>2. ASSUME NEW p \in Procs, SignalHandledContext(p) PROVE HostInv'
  BY <1>2, SignalKeeps
<1>3. ASSUME NEW p \in Procs, destroyTimeout(p) PROVE HostInv'
  <2>1. proc \in [Procs -> Process]
    BY DEF HostInv, HostTypes
  <2>2. proc' = [proc EXCEPT ![p].timedOut = TRUE] /\ UNCHANGED <<host, th, deployed, sound>>
    BY <1>3 DEF destroyTimeout, ghost
  <2>3. /\ proc' \in [Procs -> Process]
        /\ \A q \in Procs : /\ proc'[q].cancelled = proc[q].cancelled
                            /\ proc'[q].CleanOnCancel = proc[q].CleanOnCancel
    BY <2>1, <2>2 DEF Process
  <2> QED BY <2>2, <2>3, TimeoutKeeps
<1>4. ASSUME NEW t \in Threads, Step(t) PROVE HostInv'
  BY <1>4, ReturnKeeps, StepEffect, StepIsActive, EffectKeeps
<1>5. CASE UNCHANGED vars
  <2>1. proc' \in [Procs -> Process]
    BY <1>5 DEF HostInv, HostTypes, vars
  <2> QED BY <1>5, <2>1, TimeoutKeeps DEF vars, ghost
<1> QED BY <1>1, <1>2, <1>3, <1>4, <1>5 DEF Next

\* The invariant holds in every reachable state.
THEOREM HostInvHolds ==
    ASSUME ~SharedDir
    PROVE  Spec => []HostInv
  BY HostInit, HostNext, PTL DEF Spec

\* A lab with at least one node that was deployed with success keeps its containers, its
\* directory, netns links and the management network until a command is given for it - and
\* its ssh file, if its deploy met no failing call on a host with /etc/ssh/ssh_config.d -,
\* whatever any number of other processes do to other labs meanwhile, whichever of their
\* calls fail and however they are interrupted.  The topology files are in different
\* directories: in a shared one destroy --cleanup may remove the directory of another lab.
THEOREM LabsStay ==
    ASSUME ~SharedDir, Nodes # {}
    PROVE  Spec => []DeployedLabsStay
<1>1. HostInv => DeployedLabsStay
  <2> SUFFICES ASSUME HostInv, NEW l \in deployed PROVE Complete(l)
    BY DEF DeployedLabsStay, HostInv
  <2>1. Present(l) /\ NetworkInUse
    BY DEF HostInv
  <2> QED BY <2>1 DEF Present, NetworkInUse, Complete, Up
<1> QED BY <1>1, HostInvHolds, PTL

(***************************************************************************)
(* /etc/hosts as a sequence of whole blocks, and what                      *)
(* DeleteEntriesFromHostsFile does to it.                                  *)
(***************************************************************************)

Lines == [part : {"user", "start", "entry", "end"}, lab : Labs \cup {"none"}]

\* The file is the user's line and whole blocks of different labs.
Whole(s, o) ==
    /\ s \in Seq(Lines) /\ o \in Seq(Labs)
    /\ \A i, j \in 1..Len(o) : o[i] = o[j] => i = j
    /\ Len(s) = 3 * Len(o) + 1 /\ s[1] = UserLine
    /\ \A j \in 1..Len(o) : /\ s[3 * j - 1] = Line("start", o[j])
                            /\ s[3 * j] = Line("entry", o[j])
                            /\ s[3 * j + 1] = Line("end", o[j])
Covers(o, D) == \A l \in D : \E j \in 1..Len(o) : o[j] = l
Holds(s, D) == \E o \in Seq(Labs) : Whole(s, o) /\ Covers(o, D)
Free(s, l, D) ==
    \E o \in Seq(Labs) : Whole(s, o) /\ Covers(o, D) /\ \A j \in 1..Len(o) : o[j] # l

\* A function on 1..n is a sequence of length n.
LEMMA MakeSeq ==
    ASSUME NEW S, NEW n \in Nat, NEW f \in [1..n -> S]
    PROVE  f \in Seq(S) /\ Len(f) = n
  OBVIOUS

\* Lines are equal only if they are the same part of the same lab.
LEMMA SameLine ==
    ASSUME NEW p, NEW q, NEW k, NEW l
    PROVE  /\ Line(p, k).part = p /\ Line(p, k).lab = k
           /\ Line(p, k) = Line(q, l) => p = q /\ k = l
  BY DEF Line

\* Every line is the user's or belongs to the block of a lab.
LEMMA Places ==
    ASSUME NEW s, NEW o, Whole(s, o), NEW i \in 1..Len(s)
    PROVE  \/ i = 1 /\ s[i] = UserLine
           \/ \E m \in 1..Len(o) : /\ \/ i = 3 * m - 1 /\ s[i] = Line("start", o[m])
                                      \/ i = 3 * m /\ s[i] = Line("entry", o[m])
                                      \/ i = 3 * m + 1 /\ s[i] = Line("end", o[m])
<1>1. /\ Len(o) \in Nat /\ Len(s) = 3 * Len(o) + 1 /\ s[1] = UserLine
      /\ \A j \in 1..Len(o) : /\ s[3 * j - 1] = Line("start", o[j])
                              /\ s[3 * j] = Line("entry", o[j])
                              /\ s[3 * j + 1] = Line("end", o[j])
  BY DEF Whole
<1>2. PICK n : n = Len(o)
  OBVIOUS
<1>3. n \in Nat /\ i \in 1..(3 * n + 1)
  BY <1>1, <1>2
<1>4. i # 1 => \E m \in 1..n : i = 3 * m - 1 \/ i = 3 * m \/ i = 3 * m + 1
  <2> SUFFICES ASSUME i # 1 PROVE \E m \in 1..n : i = 3 * m - 1 \/ i = 3 * m \/ i = 3 * m + 1
    OBVIOUS
  <2>1. PICK m \in Nat : i + 1 = 3 * m \/ i + 1 = 3 * m + 1 \/ i + 1 = 3 * m + 2
    <3>1. (i + 1) \div 3 \in Nat /\ (i + 1) % 3 \in 0..2
          /\ i + 1 = 3 * ((i + 1) \div 3) + ((i + 1) % 3)
      BY <1>3
    <3> QED BY <3>1
  <2> QED BY <1>3, <2>1
<1> QED BY <1>1, <1>2, <1>4

\* The lines of a lab are its block, and no others.
LEMMA BlockLines ==
    ASSUME NEW s, NEW o, Whole(s, o), NEW m \in 1..Len(o), NEW i \in 1..Len(s), "none" \notin Labs
    PROVE  /\ s[i].lab = o[m] => i \in {3 * m - 1, 3 * m, 3 * m + 1}
           /\ s[i] = Line("start", o[m]) => i = 3 * m - 1
           /\ s[i] = Line("end", o[m]) => i = 3 * m + 1
<1>1. o[m] \in Labs /\ o[m] # "none"
  BY DEF Whole
<1>2. CASE i = 1 /\ s[i] = UserLine
  BY <1>1, <1>2, SameLine DEF UserLine
<1>3. CASE \E k \in 1..Len(o) : /\ \/ i = 3 * k - 1 /\ s[i] = Line("start", o[k])
                                   \/ i = 3 * k /\ s[i] = Line("entry", o[k])
                                   \/ i = 3 * k + 1 /\ s[i] = Line("end", o[k])
  <2>1. PICK k \in 1..Len(o) : \/ i = 3 * k - 1 /\ s[i] = Line("start", o[k])
                               \/ i = 3 * k /\ s[i] = Line("entry", o[k])
                               \/ i = 3 * k + 1 /\ s[i] = Line("end", o[k])
    BY <1>3
  <2>2. s[i].lab = o[k] /\ (s[i] = Line("start", o[m]) \/ s[i] = Line("end", o[m]) => o[k] = o[m])
    BY <2>1 DEF Line
  <2>3. o[k] = o[m] => k = m
    BY DEF Whole
  <2>4. /\ s[i] = Line("start", o[m]) => i = 3 * k - 1
        /\ s[i] = Line("end", o[m]) => i = 3 * k + 1
    BY <2>1 DEF Line
  <2> QED BY <2>1, <2>2, <2>3, <2>4
<1> QED BY <1>2, <1>3, Places

\* A lab without a block has no line.
LEMMA NoBlock ==
    ASSUME NEW s, NEW o, Whole(s, o), NEW l, \A j \in 1..Len(o) : o[j] # l, NEW i \in 1..Len(s)
    PROVE  /\ l # "none" => s[i].lab # l
           /\ s[i] # Line("start", l) /\ s[i] # Line("end", l)
<1>2. CASE i = 1 /\ s[i] = UserLine
  BY <1>2, SameLine DEF UserLine
<1>3. CASE \E k \in 1..Len(o) : /\ \/ i = 3 * k - 1 /\ s[i] = Line("start", o[k])
                                   \/ i = 3 * k /\ s[i] = Line("entry", o[k])
                                   \/ i = 3 * k + 1 /\ s[i] = Line("end", o[k])
  BY <1>3 DEF Line
<1> QED BY <1>2, <1>3, Places
\* How many of the numbers kept there are, and how many of them up to each.
Counted(kept, n, a, b) ==
    /\ Cardinality(kept) = n - (b - a)
    /\ \A i \in kept : Cardinality({k \in kept : k <= i}) = IF i <= a THEN i ELSE i - (b - a)

\* The numbers up to n without those from a + 1 to b, counted.
LEMMA CountKept ==
    ASSUME NEW n \in Nat, NEW a \in Nat, NEW b \in Nat, a <= b, b <= n,
           NEW kept, kept = {i \in 1..n : i <= a \/ i > b}
    PROVE  Counted(kept, n, a, b)
<1>1. ASSUME NEW x \in Nat, b <= x, x <= n
      PROVE  Cardinality({k \in kept : k <= x}) = x - (b - a)
  <2>1. {k \in kept : k <= x} = (1..x) \ ((a + 1)..b)
    BY <1>1
  <2>2. IsFiniteSet(1..x) /\ Cardinality(1..x) = x
    <3>1. IsFiniteSet(1..x) /\ Cardinality(1..x) = IF 1 > x THEN 0 ELSE x - 1 + 1
      BY <1>1, FS_Interval
    <3> QED BY <1>1, <3>1
  <2>3. IsFiniteSet((a + 1)..b) /\ Cardinality((a + 1)..b) = b - a
    <3>1. IsFiniteSet((a + 1)..b)
          /\ Cardinality((a + 1)..b) = IF a + 1 > b THEN 0 ELSE b - (a + 1) + 1
      BY FS_Interval
    <3> QED BY <3>1
  <2>4. (1..x) \cap ((a + 1)..b) = (a + 1)..b
    BY <1>1
  <2>5. Cardinality((1..x) \ ((a + 1)..b)) = Cardinality(1..x) - Cardinality((1..x) \cap ((a + 1)..b))
    BY <2>2, FS_Difference
  <2> QED BY <1>1, <2>1, <2>2, <2>3, <2>4, <2>5
<1>2. ASSUME NEW i \in kept PROVE Cardinality({k \in kept : k <= i}) = IF i <= a THEN i ELSE i - (b - a)
  <2>1. i \in Nat /\ 1 <= i /\ i <= n /\ (i <= a \/ i > b)
    BY <1>2
  <2>2. CASE i <= a
    <3>1. {k \in kept : k <= i} = 1..i
      BY <2>1, <2>2
    <3>2. Cardinality(1..i) = IF 1 > i THEN 0 ELSE i - 1 + 1
      BY <2>1, FS_Interval
    <3>3. Cardinality(1..i) = i
      BY <2>1, <3>2
    <3>4. Cardinality({k \in kept : k <= i}) = i
      BY <3>1, <3>3, Zenon
    <3> QED BY <2>2, <3>4
  <2>3. CASE i > b
    <3>1. ~(i <= a) /\ b <= i
      BY <2>1, <2>3
    <3>2. Cardinality({k \in kept : k <= i}) = i - (b - a)
      BY <1>1, <2>1, <3>1
    <3> QED BY <3>1, <3>2
  <2> QED BY <2>1, <2>2, <2>3
<1>3. {k \in kept : k <= n} = kept
  OBVIOUS
<1>4. Cardinality({k \in kept : k <= n}) = n - (b - a)
  BY <1>1
<1> QED BY <1>2, <1>3, <1>4 DEF Counted

\* The lines of s without those from a + 1 to b.
Dropped(s, n, a, b) == [j \in 1..(n - (b - a)) |-> IF j <= a THEN s[j] ELSE s[j + (b - a)]]

\* What is left when the lines from a + 1 to b are dropped.
LEMMA DropLines ==
    ASSUME NEW s, NEW l, NEW n \in Nat, n = Len(s), NEW a \in Nat, NEW b \in Nat, a <= b, b <= n,
           \A i \in 1..n : (~skiplines(s, l, i) /\ s[i] # Line("end", l)) <=> (i <= a \/ i > b)
    PROVE  WithoutEntries(s, l) = Dropped(s, n, a, b)
<1> DEFINE keep == {i \in 1..Len(s) : ~skiplines(s, l, i) /\ s[i] # Line("end", l)}
<1>1. keep = {i \in 1..n : i <= a \/ i > b}
  OBVIOUS
<1>2. PICK kept : kept = keep
  OBVIOUS
<1>3. WithoutEntries(s, l) = [j \in 1..Cardinality(kept) |->
                                s[CHOOSE i \in kept : Cardinality({k \in kept : k <= i}) = j]]
  BY <1>2 DEF WithoutEntries
<1> HIDE DEF keep
<1>4. kept = {i \in 1..n : i <= a \/ i > b}
  BY <1>1, <1>2
<1>5. /\ Cardinality(kept) = n - (b - a)
      /\ \A i \in kept : Cardinality({k \in kept : k <= i}) = IF i <= a THEN i ELSE i - (b - a)
  <2>1. Counted(kept, n, a, b)
    BY <1>4, CountKept
  <2> QED BY <2>1, Zenon DEF Counted
<1>6. ASSUME NEW j \in 1..(n - (b - a))
      PROVE  s[CHOOSE i \in kept : Cardinality({k \in kept : k <= i}) = j]
               = IF j <= a THEN s[j] ELSE s[j + (b - a)]
  <2> DEFINE c == IF j <= a THEN j ELSE j + (b - a)
  <2>1. c \in kept /\ (IF c <= a THEN c ELSE c - (b - a)) = j
    BY <1>4
  <2>2. \A i \in kept : (IF i <= a THEN i ELSE i - (b - a)) = j => i = c
    BY <1>4
  <2>3. PICK d : d = c
    OBVIOUS
  <2> HIDE DEF c
  <2>4. d \in kept /\ Cardinality({k \in kept : k <= d}) = j
    BY <1>5, <2>1, <2>3
  <2>5. \A i \in kept : Cardinality({k \in kept : k <= i}) = j => i = d
    BY <1>5, <2>2, <2>3
  <2>6. (CHOOSE i \in kept : Cardinality({k \in kept : k <= i}) = j) = d
    BY <2>4, <2>5
  <2>7. s[c] = IF j <= a THEN s[j] ELSE s[j + (b - a)]
    BY DEF c
  <2> QED BY <2>3, <2>6, <2>7, Zenon
<1> QED BY <1>3, <1>5, <1>6 DEF Dropped

\* A lab's block is skipped from its START line to its END line.
LEMMA SkippedBlock ==
    ASSUME NEW s, NEW o, Whole(s, o), NEW m \in 1..Len(o), "none" \notin Labs, NEW i \in 1..Len(s)
    PROVE  /\ skiplines(s, o[m], i) <=> i \in {3 * m - 1, 3 * m}
           /\ s[i] = Line("end", o[m]) <=> i = 3 * m + 1
<1>1. /\ Len(s) \in Nat /\ Len(o) \in Nat /\ Len(s) = 3 * Len(o) + 1
      /\ s[3 * m - 1] = Line("start", o[m]) /\ s[3 * m + 1] = Line("end", o[m])
  BY DEF Whole
<1>2. \A k \in 1..Len(s) : /\ s[k] = Line("start", o[m]) <=> k = 3 * m - 1
                           /\ s[k] = Line("end", o[m]) <=> k = 3 * m + 1
  <2> SUFFICES ASSUME NEW k \in 1..Len(s)
               PROVE  /\ s[k] = Line("start", o[m]) <=> k = 3 * m - 1
                      /\ s[k] = Line("end", o[m]) <=> k = 3 * m + 1
    OBVIOUS
  <2>1. /\ s[k] = Line("start", o[m]) => k = 3 * m - 1
        /\ s[k] = Line("end", o[m]) => k = 3 * m + 1
    BY BlockLines
  <2> QED BY <1>1, <2>1, Zenon
<1>3. ASSUME skiplines(s, o[m], i) PROVE i \in {3 * m - 1, 3 * m}
  <2>1. PICK k \in 1..i : /\ s[k] = Line("start", o[m])
                          /\ \A x \in k..i : s[x] # Line("end", o[m])
    BY <1>3 DEF skiplines
  <2>2. k = 3 * m - 1
    BY <1>1, <1>2, <2>1
  <2>3. ~(3 * m + 1 \in k..i)
    BY <1>1, <2>1
  <2> QED BY <1>1, <2>2, <2>3
<1>4. ASSUME i \in {3 * m - 1, 3 * m} PROVE skiplines(s, o[m], i)
  <2>1. 3 * m - 1 \in 1..i
    BY <1>1, <1>4
  <2>2. \A x \in (3 * m - 1)..i : s[x] # Line("end", o[m])
    BY <1>1, <1>2, <1>4
  <2> QED BY <1>1, <2>1, <2>2 DEF skiplines
<1> QED BY <1>2, <1>3, <1>4
\* The order o2 of blocks is the order o without the lab l.
Less(o, l, o2) ==
    /\ \A j \in 1..Len(o2) : o2[j] # l /\ \E i \in 1..Len(o) : o2[j] = o[i]
    /\ \A i \in 1..Len(o) : o[i] # l => \E j \in 1..Len(o2) : o2[j] = o[i]

\* Without a block of the lab the file stays as it is.
LEMMA NothingToDrop ==
    ASSUME NEW s, NEW o, Whole(s, o), NEW l, \A j \in 1..Len(o) : o[j] # l
    PROVE  /\ ~NoEndFound(s, l)
           /\ Whole(WithoutEntries(s, l), o) /\ Less(o, l, o)
<1>1. Len(s) \in Nat /\ s \in Seq(Lines) /\ o \in Seq(Labs)
  BY DEF Whole
<1>2. PICK n \in Nat : n = Len(s)
  BY <1>1
<1>3. \A i \in 1..Len(s) : s[i] # Line("start", l) /\ s[i] # Line("end", l)
  BY NoBlock
<1>4. \A i \in 1..n : ~skiplines(s, l, i) /\ s[i] # Line("end", l)
  <2> SUFFICES ASSUME NEW i \in 1..n PROVE ~skiplines(s, l, i)
    BY <1>2, <1>3
  <2>1. \A k \in 1..i : k \in 1..Len(s)
    BY <1>2
  <2> QED BY <1>3, <2>1 DEF skiplines
<1>5. ~NoEndFound(s, l)
  <2>1. s # <<>> => Len(s) \in 1..n
    BY <1>1, <1>2
  <2> QED BY <1>4, <2>1 DEF NoEndFound
<1>6. WithoutEntries(s, l) = s
  <2>1. \A i \in 1..n : (~skiplines(s, l, i) /\ s[i] # Line("end", l)) <=> (i <= n \/ i > n)
    BY <1>4
  <2>2. n <= n
    OBVIOUS
  <2>3. WithoutEntries(s, l) = Dropped(s, n, n, n)
    BY <1>2, <2>1, <2>2, DropLines
  <2>4. Dropped(s, n, n, n) = [j \in 1..n |-> s[j]]
    BY DEF Dropped
  <2>5. s = [j \in 1..n |-> s[j]]
    BY <1>1, <1>2
  <2> QED BY <2>3, <2>4, <2>5
<1> QED BY <1>5, <1>6 DEF Less

\* The file without the block of a lab.
LEMMA BlockDropped ==
    ASSUME NEW s, NEW o, Whole(s, o), "none" \notin Labs, NEW m \in 1..Len(o)
    PROVE  /\ ~NoEndFound(s, o[m])
           /\ \E o2 \in Seq(Labs) : Whole(WithoutEntries(s, o[m]), o2) /\ Less(o, o[m], o2)
<1>1. /\ Len(s) \in Nat /\ s \in Seq(Lines) /\ o \in Seq(Labs) /\ Len(o) \in Nat
      /\ Len(s) = 3 * Len(o) + 1 /\ s[1] = UserLine
      /\ \A i, j \in 1..Len(o) : o[i] = o[j] => i = j
      /\ \A j \in 1..Len(o) : /\ s[3 * j - 1] = Line("start", o[j])
                              /\ s[3 * j] = Line("entry", o[j])
                              /\ s[3 * j + 1] = Line("end", o[j])
  BY DEF Whole
<1>2. PICK n \in Nat : n = Len(s)
  BY <1>1
<1>3. PICK k \in Nat : k = Len(o)
  BY <1>1
<1>4. n = 3 * k + 1 /\ m \in 1..k
  BY <1>1, <1>2, <1>3
<1>5. \A i \in 1..n : /\ skiplines(s, o[m], i) <=> i \in {3 * m - 1, 3 * m}
                      /\ s[i] = Line("end", o[m]) <=> i = 3 * m + 1
  BY <1>2, SkippedBlock
<1>6. ~NoEndFound(s, o[m])
  <2>1. n \in 1..n /\ n \notin {3 * m - 1, 3 * m}
    BY <1>4
  <2> QED BY <1>2, <1>5, <2>1 DEF NoEndFound
<1> DEFINE a == 3 * m - 2
           b == 3 * m + 1
           s2 == [j \in 1..(n - 3) |-> IF j <= a THEN s[j] ELSE s[j + 3]]
           o2 == [j \in 1..(k - 1) |-> IF j < m THEN o[j] ELSE o[j + 1]]
<1>7. WithoutEntries(s, o[m]) = s2
  <2>1. a \in Nat /\ b \in Nat /\ a <= b /\ b <= n /\ b - a = 3
    BY <1>4
  <2>2. \A i \in 1..n : (~skiplines(s, o[m], i) /\ s[i] # Line("end", o[m])) <=> (i <= a \/ i > b)
    BY <1>4, <1>5
  <2> HIDE DEF a, b
  <2>3. WithoutEntries(s, o[m]) = Dropped(s, n, a, b)
    BY <1>2, <2>1, <2>2, DropLines
  <2> QED BY <2>1, <2>3 DEF Dropped
<1>8. s2 \in Seq(Lines) /\ Len(s2) = n - 3 /\ o2 \in Seq(Labs) /\ Len(o2) = k - 1
  <2>1. \A j \in 1..n : s[j] \in Lines
    BY <1>1, <1>2
  <2>2. \A j \in 1..k : o[j] \in Labs
    BY <1>1, <1>3
  <2>3. n - 3 \in Nat /\ k - 1 \in Nat
    BY <1>4
  <2>4. s2 \in [1..(n - 3) -> Lines] /\ o2 \in [1..(k - 1) -> Labs]
    BY <1>4, <2>1, <2>2
  <2> HIDE DEF s2, o2
  <2> QED BY <2>3, <2>4, MakeSeq
<1>9. Less(o, o[m], o2)
  <2>1. \A j \in 1..(k - 1) : o2[j] # o[m] /\ \E i \in 1..k : o2[j] = o[i]
    <3> TAKE j \in 1..(k - 1)
    <3> DEFINE i == IF j < m THEN j ELSE j + 1
    <3>1. i \in 1..k /\ i # m /\ o2[j] = o[i]
      BY <1>4
    <3> QED BY <1>1, <1>3, <3>1
  <2>2. \A i \in 1..k : o[i] # o[m] => \E j \in 1..(k - 1) : o2[j] = o[i]
    <3> SUFFICES ASSUME NEW i \in 1..k, o[i] # o[m] PROVE \E j \in 1..(k - 1) : o2[j] = o[i]
      OBVIOUS
    <3>1. i # m
      OBVIOUS
    <3> DEFINE j == IF i < m THEN i ELSE i - 1
    <3>2. j \in 1..(k - 1) /\ o2[j] = o[i]
      BY <1>4, <3>1
    <3> QED BY <3>2
  <2> HIDE DEF o2
  <2> QED BY <1>3, <1>8, <2>1, <2>2 DEF Less
<1>10. \A i, j \in 1..(k - 1) : o2[i] = o2[j] => i = j
  <2> SUFFICES ASSUME NEW i \in 1..(k - 1), NEW j \in 1..(k - 1), o2[i] = o2[j] PROVE i = j
    OBVIOUS
  <2> DEFINE x == IF i < m THEN i ELSE i + 1
             y == IF j < m THEN j ELSE j + 1
  <2>1. x \in 1..k /\ y \in 1..k /\ o2[i] = o[x] /\ o2[j] = o[y]
    BY <1>4
  <2>2. x = y
    BY <1>1, <1>3, <2>1
  <2> QED BY <1>4, <2>2
<1>11. \A j \in 1..(k - 1) : /\ s2[3 * j - 1] = Line("start", o2[j])
                             /\ s2[3 * j] = Line("entry", o2[j])
                             /\ s2[3 * j + 1] = Line("end", o2[j])
  <2> TAKE j \in 1..(k - 1)
  <2>1. CASE j < m
    <3>1. /\ 3 * j - 1 \in 1..(n - 3) /\ 3 * j \in 1..(n - 3) /\ 3 * j + 1 \in 1..(n - 3)
          /\ 3 * j - 1 <= a /\ 3 * j <= a /\ 3 * j + 1 <= a
      BY <1>4, <2>1
    <3>2. /\ s2[3 * j - 1] = s[3 * j - 1] /\ s2[3 * j] = s[3 * j] /\ s2[3 * j + 1] = s[3 * j + 1]
          /\ o2[j] = o[j] /\ j \in 1..k
      BY <1>4, <2>1, <3>1
    <3> QED BY <1>1, <1>3, <3>2, Zenon
  <2>2. CASE ~(j < m)
    <3>1. /\ 3 * j - 1 \in 1..(n - 3) /\ 3 * j \in 1..(n - 3) /\ 3 * j + 1 \in 1..(n - 3)
          /\ ~(3 * j - 1 <= a) /\ ~(3 * j <= a) /\ ~(3 * j + 1 <= a)
      BY <1>4, <2>2
    <3>2. /\ s2[3 * j - 1] = s[3 * (j + 1) - 1] /\ s2[3 * j] = s[3 * (j + 1)]
          /\ s2[3 * j + 1] = s[3 * (j + 1) + 1]
          /\ o2[j] = o[j + 1] /\ j + 1 \in 1..k
      BY <1>4, <2>2, <3>1
    <3> QED BY <1>1, <1>3, <3>2, Zenon
  <2> QED BY <2>1, <2>2
<1>12. n - 3 = 3 * (k - 1) + 1 /\ s2[1] = UserLine
  BY <1>1, <1>4
<1> HIDE DEF s2, o2
<1>13. Whole(s2, o2)
  BY <1>8, <1>10, <1>11, <1>12 DEF Whole
<1> QED BY <1>6, <1>7, <1>8, <1>9, <1>13

\* DeleteEntriesFromHostsFile takes the block of the lab out of the file.
LEMMA EntriesOrder ==
    ASSUME NEW s, NEW o, Whole(s, o), NEW l
    PROVE  /\ ~NoEndFound(s, l)
           /\ \E o2 \in Seq(Labs) : Whole(WithoutEntries(s, l), o2) /\ Less(o, l, o2)
<1>1. CASE \A j \in 1..Len(o) : o[j] # l
  <2>1. o \in Seq(Labs)
    BY DEF Whole
  <2> QED BY <1>1, <2>1, NothingToDrop
<1>2. CASE \E j \in 1..Len(o) : o[j] = l
  BY <1>2, BlockDropped, LabHostAssumption
<1> QED BY <1>1, <1>2

\* It never misses an END line, and the blocks of the deployed labs stay.
LEMMA EntriesDeleted ==
    ASSUME NEW s, NEW l, NEW D, Holds(s, D), l \notin D
    PROVE  ~NoEndFound(s, l) /\ Free(WithoutEntries(s, l), l, D)
<1>1. PICK o \in Seq(Labs) : Whole(s, o) /\ Covers(o, D)
  BY DEF Holds
<1>2. ~NoEndFound(s, l) /\ \E o2 \in Seq(Labs) : Whole(WithoutEntries(s, l), o2) /\ Less(o, l, o2)
  BY <1>1, EntriesOrder
<1>3. PICK o2 \in Seq(Labs) : Whole(WithoutEntries(s, l), o2) /\ Less(o, l, o2)
  BY <1>2
<1>4. Covers(o2, D)
  BY <1>1, <1>3, Zenon DEF Covers, Less
<1> QED BY <1>2, <1>3, <1>4, Zenon DEF Free, Less

\* The lab has no line in the file.
NoLine(s, l) == \A i \in DOMAIN s : s[i].lab # l

\* It leaves no line of the lab, and adds none of another.
LEMMA LinesDeleted ==
    ASSUME NEW s, NEW l, NEW D, Holds(s, D), NEW k \in Labs, k = l \/ NoLine(s, k)
    PROVE  NoLine(WithoutEntries(s, l), k)
<1>1. PICK o \in Seq(Labs) : Whole(s, o)
  BY DEF Holds
<1>2. PICK o2 \in Seq(Labs) : Whole(WithoutEntries(s, l), o2) /\ Less(o, l, o2)
  BY <1>1, EntriesOrder
<1>3. NoLine(s, k) => \A i \in 1..Len(o) : o[i] # k
  <2> SUFFICES ASSUME NoLine(s, k), NEW i \in 1..Len(o) PROVE o[i] # k
    OBVIOUS
  <2>1. s[3 * i - 1] = Line("start", o[i]) /\ Len(s) = 3 * Len(o) + 1 /\ DOMAIN s = 1..Len(s)
        /\ Len(o) \in Nat
    BY <1>1 DEF Whole
  <2>2. 3 * i - 1 \in DOMAIN s
    BY <2>1
  <2> QED BY <2>1, <2>2 DEF NoLine, Line
<1>4. \A j \in 1..Len(o2) : o2[j] # k
  BY <1>2, <1>3 DEF Less
<1>5. PICK s2 : s2 = WithoutEntries(s, l)
  OBVIOUS
<1>6. Whole(s2, o2) /\ DOMAIN s2 = 1..Len(s2) /\ k # "none"
  BY <1>2, <1>5, LabHostAssumption DEF Whole
<1>7. \A i \in 1..Len(s2) : s2[i].lab # k
  BY <1>4, <1>6, NoBlock
<1> QED BY <1>5, <1>6, <1>7 DEF NoLine

\* appendHostsFileEntries adds a block.
LEMMA BlockAppended ==
    ASSUME NEW s, NEW l \in Labs, NEW D, Free(s, l, D)
    PROVE  Holds(s \o HostsBlock(l), D \cup {l}) 
<1>1. PICK o \in Seq(Labs) : Whole(s, o) /\ Covers(o, D) /\ \A j \in 1..Len(o) : o[j] # l
  BY DEF Free
<1>2. PICK k \in Nat : k = Len(o)
  BY <1>1
<1>3. /\ s \in Seq(Lines) /\ Len(s) = 3 * k + 1 /\ s[1] = UserLine
      /\ \A i, j \in 1..k : o[i] = o[j] => i = j
      /\ \A j \in 1..k : /\ s[3 * j - 1] = Line("start", o[j])
                         /\ s[3 * j] = Line("entry", o[j])
                         /\ s[3 * j + 1] = Line("end", o[j])
  BY <1>1, <1>2 DEF Whole
<1>4. PICK s2 : s2 = s \o HostsBlock(l)
  OBVIOUS
<1>5. PICK o2 : o2 = Append(o, l)
  OBVIOUS
<1>6. HostsBlock(l) \in Seq(Lines) /\ Len(HostsBlock(l)) = 3
  BY DEF HostsBlock, Lines, Line
<1>7. /\ s2 \in Seq(Lines) /\ Len(s2) = 3 * k + 4
      /\ \A i \in 1..(3 * k + 1) : s2[i] = s[i]
      /\ s2[3 * k + 2] = Line("start", l) /\ s2[3 * k + 3] = Line("entry", l)
      /\ s2[3 * k + 4] = Line("end", l)
  BY <1>3, <1>4, <1>6 DEF HostsBlock
<1>8. o2 \in Seq(Labs) /\ Len(o2) = k + 1 /\ o2[k + 1] = l /\ \A i \in 1..k : o2[i] = o[i]
  BY <1>1, <1>2, <1>5
<1>9. \A i, j \in 1..(k + 1) : o2[i] = o2[j] => i = j
  <2> TAKE i, j \in 1..(k + 1)
  <2>1. \A m \in 1..k : o2[m] # l
    BY <1>1, <1>2, <1>8
  <2>2. CASE i = k + 1 /\ j = k + 1
    BY <2>2
  <2>3. CASE i = k + 1 /\ j \in 1..k
    BY <1>8, <2>1, <2>3
  <2>4. CASE i \in 1..k /\ j = k + 1
    BY <1>8, <2>1, <2>4
  <2>5. CASE i \in 1..k /\ j \in 1..k
    BY <1>3, <1>8, <2>5
  <2> QED BY <2>2, <2>3, <2>4, <2>5
<1>10. \A j \in 1..(k + 1) : /\ s2[3 * j - 1] = Line("start", o2[j])
                             /\ s2[3 * j] = Line("entry", o2[j])
                             /\ s2[3 * j + 1] = Line("end", o2[j])
  <2> TAKE j \in 1..(k + 1)
  <2>1. CASE j = k + 1
    <3>1. 3 * j - 1 = 3 * k + 2 /\ 3 * j = 3 * k + 3 /\ 3 * j + 1 = 3 * k + 4
      BY <2>1
    <3> QED BY <1>7, <1>8, <2>1, <3>1
  <2>2. CASE j # k + 1
    <3>1. /\ j \in 1..k
          /\ 3 * j - 1 \in 1..(3 * k + 1) /\ 3 * j \in 1..(3 * k + 1) /\ 3 * j + 1 \in 1..(3 * k + 1)
      BY <2>2
    <3> QED BY <1>3, <1>7, <1>8, <3>1, Zenon
  <2> QED BY <2>1, <2>2
<1>11. s2[1] = UserLine /\ 3 * k + 4 = 3 * (k + 1) + 1
  BY <1>3, <1>7
<1>12. Whole(s2, o2)
  BY <1>7, <1>8, <1>9, <1>10, <1>11 DEF Whole
<1>13. Covers(o2, D \cup {l})
  BY <1>1, <1>2, <1>8 DEF Covers
<1> QED BY <1>4, <1>8, <1>12, <1>13 DEF Holds

(***************************************************************************)
(* /etc/hosts and the rules of the network while commands do not overlap.  *)
(***************************************************************************)

\* Where a command knows the bridge of the network that is there.
Knowing == {"list", "prompt", "inspect", "netcreate", "netnew", "netrules", "check",
            "nodes", "dlist", "delete", "hread", "htrunc", "hwrite", "rmfiles", "dnet",
            "dnetrm", "rmdir"}
Knows(r) == r.pc \in Knowing \/ (r.pc = "next" /\ r.in = "reconfigure")
\* A deploy past CreateNet that met no failing call.
Sure(r) ==
    /\ r.in = "deploy" /\ ~r.faulty
    /\ r.pc \in {"check", "nodes", "hread", "htrunc", "hwrite", "happend", "addssh", "return"}
\* A step that leaves /etc/hosts alone, and neither is about to rewrite it nor ends a deploy.
Quiet(t) ==
    /\ hosts' = hosts /\ th[t].pc # "hwrite"
    /\ th'[t].pc \notin {"htrunc", "hwrite", "happend"}
    /\ th'[t].in = "deploy" /\ ~th'[t].faulty => th'[t].pc \notin {"addssh", "return"}
\* A step that leaves the network and its rules alone and keeps what is known of the bridge.
Steady(t) ==
    /\ UNCHANGED <<network, rules>>
    /\ Sure(th'[t]) => Sure(th[t])
    /\ th'[t].pc \in {"netnew", "netrules"} => network # 0
    /\ th[t].pc # "dnetrules" /\ th'[t].pc # "dnetrules"
    /\ th'[t].pc = "dnetrm" => th'[t].in # "reconfigure"
    /\ Knows(th'[t]) => th'[t].bridge = network \/ (th'[t].bridge = th[t].bridge /\ Knows(th[t]))


\* The fields of a goroutine.
Fields == {"pc", "op", "lab", "in", "todo", "found", "bridge", "buf", "queue", "inflight",
           "workers", "err", "faulty", "sole"}

\* What is known of the goroutines.
LEMMA Records ==
    ASSUME HostInv, NEW t \in Threads
    PROVE  /\ DOMAIN th[t] = Fields /\ OneLab(t) /\ DOMAIN th = Threads
  <1>1. th[t] \in Goroutine(th[t].buf, th[t].workers) /\ DOMAIN th = Threads /\ OneLab(t)
    BY Known DEF HostInv, HostTypes
  <1> QED BY <1>1 DEF Goroutine, Fields

\* The steps that leave /etc/hosts, the network and its rules alone.
LEMMA QuietSteps ==
    ASSUME HostInv, NEW t \in Threads,
           \/ NewContainerLab(t) \/ CreateNet(t) \/ prepareLab(t)
           \/ \E n \in Nodes : createNode(t, n) \/ StartContainer(t, n) \/ workerDeletes(t, n)
           \/ nodesDone(t) \/ Destroy(t) \/ \E yes \in BOOLEAN : cliPromptToDestroyAll(t, yes)
           \/ makeCopyForDestroy(t) \/ destroy(t) \/ deleteNodes(t) \/ workerReturns(t)
           \/ removeLabFiles(t) \/ DeleteNet(t) \/ removeLabDirectory(t) \/ destroyLabDirs(t)
           \/ toolAttach(t) \/ toolCreate(t) \/ toolDetach(t)
    PROVE  Quiet(t) /\ Steady(t)
<1>1. DOMAIN th[t] = Fields /\ OneLab(t) /\ DOMAIN th = Threads
  BY Records
<1>2. CASE NewContainerLab(t)
  <2>1. /\ th[t].pc = "new" /\ UNCHANGED <<hosts, network, rules>>
        /\ \/ /\ th'[t].bridge = network
              /\ th'[t].pc \in {"inspect", "dlist", "tlist", "tdelete", "list"}
           \/ th'[t].pc = "return" /\ th'[t].faulty
    BY <1>1, <1>2 DEF NewContainerLab, At, Fail, Fields, host
  <2> QED BY <2>1 DEF Quiet, Steady, Knows, Knowing, Sure
<1>3. CASE CreateNet(t)
  <2>1. /\ th[t].pc = "inspect" /\ UNCHANGED <<hosts, network, rules>>
        /\ \/ /\ th'[t].bridge = IF th[t].bridge = 0 THEN network ELSE th[t].bridge
              /\ th'[t].pc = IF network = 0 THEN "netcreate" ELSE "netrules"
           \/ th'[t].pc \in {"return", "labdirs"} /\ th'[t].faulty
    BY <1>1, <1>3 DEF CreateNet, At, Fail, Fields, host, AfterNetError
  <2> QED BY <2>1 DEF Quiet, Steady, Knows, Knowing, Sure
<1>4. CASE prepareLab(t)
  BY <1>1, <1>4 DEF prepareLab, Fail, At, Fields, Quiet, Steady, Knows, Knowing, Sure
<1>5. CASE nodesDone(t)
  BY <1>1, <1>5 DEF nodesDone, Fail, Goto, Logged, host, At, Fields, Quiet, Steady, Knows, Knowing, Sure
<1>6. CASE Destroy(t)
  <2>1. /\ th[t].pc = "list" /\ UNCHANGED <<hosts, network, rules>>
        /\ \/ /\ th'[t].bridge = th[t].bridge /\ th'[t].in = th[t].in
              /\ th'[t].pc \in {"labdirs", "prompt", "next"}
           \/ th'[t].pc = "return" /\ th'[t].faulty
    <3> DEFINE pc(f) == IF f = {} THEN "labdirs" ELSE IF AllLabs(th[t].op) THEN "prompt" ELSE "next"
               listed(f, bad) == [th EXCEPT ![t].found = f, ![t].todo = f, ![t].faulty = bad,
                                            ![t].pc = pc(f)]
    <3>1. /\ th[t].pc = "list" /\ UNCHANGED <<hosts, network, rules>>
          /\ \/ \E f, bad : th' = listed(f, bad)
             \/ Fail(t, "return")
      BY <1>6, Zenon DEF Destroy, At, host
    <3>2. ASSUME NEW f, NEW bad, th' = listed(f, bad)
          PROVE  /\ th'[t].bridge = th[t].bridge /\ th'[t].in = th[t].in
                 /\ th'[t].pc \in {"labdirs", "prompt", "next"}
      BY <1>1, <3>2 DEF Fields
    <3> HIDE DEF listed
    <3> QED BY <1>1, <3>1, <3>2 DEF Fail, Fields
  <2> QED BY <2>1 DEF Quiet, Steady, Knows, Knowing, Sure
<1>7. CASE makeCopyForDestroy(t)
  <2>1. /\ th[t].pc = "next" /\ UNCHANGED <<hosts, network, rules>>
        /\ \/ /\ th'[t].bridge = th[t].bridge /\ th'[t].in = th[t].in
              /\ th[t].in = "reconfigure" /\ th'[t].pc = "rmdir"
           \/ th'[t].pc = "labdirs"
           \/ th'[t].pc = "inspect" /\ th'[t].bridge = network
    <3>1. /\ th[t].pc = "next" /\ UNCHANGED <<hosts, network, rules>>
          /\ \/ th[t].in = "reconfigure" /\ Goto(t, "rmdir")
             \/ Goto(t, "labdirs") \/ Fail(t, "labdirs")
             \/ \E l \in th[t].todo :
                  th' = [th EXCEPT ![t].pc = "inspect", ![t].lab = l,
                                   ![t].todo = @ \ {l}, ![t].bridge = network]
      BY <1>7, Zenon DEF makeCopyForDestroy, At, host
    <3>2. ASSUME NEW l, th' = [th EXCEPT ![t].pc = "inspect", ![t].lab = l,
                                         ![t].todo = @ \ {l}, ![t].bridge = network]
          PROVE  th'[t].pc = "inspect" /\ th'[t].bridge = network
      BY <1>1, <3>2 DEF Fields
    <3>3. ASSUME Goto(t, "rmdir")
          PROVE  th'[t].bridge = th[t].bridge /\ th'[t].in = th[t].in /\ th'[t].pc = "rmdir"
      BY <1>1, <3>3 DEF Goto, Fields
    <3>4. ASSUME Goto(t, "labdirs") \/ Fail(t, "labdirs") PROVE th'[t].pc = "labdirs"
      BY <1>1, <3>4 DEF Fail, Goto, Logged, Fields
    <3> QED BY <3>1, <3>2, <3>3, <3>4
  <2> QED BY <2>1 DEF Quiet, Steady, Knows, Knowing, Sure
<1>8. CASE destroy(t)
  <2> DEFINE listed(seen, bad, w) ==
               IF seen = {} THEN [th EXCEPT ![t].pc = "next", ![t].faulty = bad]
               ELSE [th EXCEPT ![t].pc = "delete", ![t].queue = Nodes, ![t].faulty = bad,
                               ![t].workers = w]
  <2>1. /\ th[t].pc = "dlist" /\ UNCHANGED <<hosts, network, rules>>
        /\ \E seen, bad, w : th' = listed(seen, bad, w)
    BY <1>8, Zenon DEF destroy, At, host
  <2>2. ASSUME NEW seen, NEW bad, NEW w, th' = listed(seen, bad, w)
        PROVE  /\ th'[t].bridge = th[t].bridge /\ th'[t].in = th[t].in
               /\ th'[t].pc \in {"next", "delete"}
    BY <1>1, <2>2 DEF Fields
  <2> HIDE DEF listed
  <2> QED BY <2>1, <2>2 DEF Quiet, Steady, Knows, Knowing, Sure
<1>9. CASE deleteNodes(t)
  BY <1>1, <1>9 DEF deleteNodes, host, At, Fields, Quiet, Steady, Knows, Knowing, Sure
<1>10. CASE workerReturns(t)
  BY <1>1, <1>10 DEF workerReturns, host, At, Fields, Quiet, Steady, Knows, Knowing, Sure
<1>11. CASE removeLabFiles(t)
  BY <1>1, <1>11 DEF removeLabFiles, Goto, Logged, Counts, At, Fields, Quiet, Steady, Knows, Knowing, Sure
<1>12. CASE DeleteNet(t)
  BY <1>1, <1>12 DEF DeleteNet, Goto, Logged, host, At, Fields, Quiet, Steady, Knows, Knowing, Sure
<1>13. CASE removeLabDirectory(t)
  BY <1>1, <1>13 DEF removeLabDirectory, Fail, At, Fields, Quiet, Steady, Knows, Knowing, Sure
<1>14. CASE destroyLabDirs(t)
  BY <1>1, <1>14 DEF destroyLabDirs, Fail, Goto, OneLab, Active, DeployPc, Writing,
                     At, Fields, Quiet, Steady, Knows, Knowing, Sure
<1>15. CASE toolAttach(t)
  BY <1>1, <1>15 DEF toolAttach, Fail, Goto, Logged, host, OneLab, Active, DeployPc, Writing,
                     At, Fields, Quiet, Steady, Knows, Knowing, Sure
<1>16. CASE toolCreate(t)
  BY <1>1, <1>16 DEF toolCreate, Fail, Goto, Logged, OneLab, Active, DeployPc, Writing,
                     At, Fields, Quiet, Steady, Knows, Knowing, Sure
<1>17. CASE toolDetach(t)
  BY <1>1, <1>17 DEF toolDetach, Fail, Goto, Logged, OneLab, Active, DeployPc, Writing,
                     At, Fields, Quiet, Steady, Knows, Knowing, Sure
<1>18. ASSUME NEW n \in Nodes, createNode(t, n) PROVE Quiet(t) /\ Steady(t)
  <2>1. /\ th[t].pc = "nodes" /\ UNCHANGED <<hosts, network, rules>>
        /\ th'[t].pc = "nodes" /\ th'[t].in = th[t].in /\ th'[t].bridge = th[t].bridge
        /\ th'[t].faulty = th[t].faulty \/ th'[t].faulty = TRUE
    <3>1. /\ th[t].pc = "nodes" /\ UNCHANGED <<hosts, network, rules>>
          /\ \/ th' = [th EXCEPT ![t].queue = @ \ {n}, ![t].inflight = @ \cup {n}]
             \/ th' = [th EXCEPT ![t].queue = @ \ {n}, ![t].err = TRUE, ![t].faulty = TRUE]
      BY <1>18, Zenon DEF createNode, At
    <3> QED BY <1>1, <3>1 DEF Fields
  <2> QED BY <2>1 DEF Quiet, Steady, Knows, Knowing, Sure
<1>19. ASSUME NEW n \in Nodes, StartContainer(t, n) PROVE Quiet(t) /\ Steady(t)
  <2>1. /\ th[t].pc = "nodes" /\ UNCHANGED <<hosts, network, rules>>
        /\ th'[t].pc = "nodes" /\ th'[t].in = th[t].in /\ th'[t].bridge = th[t].bridge
        /\ th'[t].faulty = th[t].faulty \/ th'[t].faulty = TRUE
    <3>1. /\ th[t].pc = "nodes" /\ UNCHANGED <<hosts, network, rules>>
          /\ \/ th' = [th EXCEPT ![t].inflight = @ \ {n}]
             \/ th' = [th EXCEPT ![t].inflight = @ \ {n}, ![t].err = TRUE, ![t].faulty = TRUE]
      BY <1>19, Zenon DEF StartContainer, At
    <3> QED BY <1>1, <3>1 DEF Fields
  <2> QED BY <2>1 DEF Quiet, Steady, Knows, Knowing, Sure
<1>20. ASSUME NEW n \in Nodes, workerDeletes(t, n) PROVE Quiet(t) /\ Steady(t)
  BY <1>1, <1>20 DEF workerDeletes, At, Fields, Quiet, Steady, Knows, Knowing, Sure
<1>21. ASSUME NEW yes \in BOOLEAN, cliPromptToDestroyAll(t, yes) PROVE Quiet(t) /\ Steady(t)
  BY <1>1, <1>21 DEF cliPromptToDestroyAll, Fail, Goto, Logged, host, OneLab, Active, DeployPc, Writing,
                      At, Fields, Quiet, Steady, Knows, Knowing, Sure
<1> QED BY <1>2, <1>3, <1>4, <1>5, <1>6, <1>7, <1>8, <1>9, <1>10, <1>11, <1>12,
        <1>13, <1>14, <1>15, <1>16, <1>17, <1>18, <1>19, <1>20, <1>21

\* A command that neither overlaps another nor is interrupted.
Single ==
    /\ \A t, u \in Threads : Active(t) /\ Active(u) => t = u
    /\ \A t \in Threads : Active(t) => t[2] = "main" /\ ~proc[t[1]].cancelled

\* /etc/hosts while such a command is at r: whole blocks, one for every lab whose deploy met no
\* failing call, except between its truncation and its being written; then the goroutine has them.
Files(r) ==
    /\ r.pc # "hwrite" => Holds(hosts, sound)
    /\ r.pc \in {"htrunc", "hwrite"} => Free(r.buf, r.lab, sound)
    /\ r.pc = "hwrite" => hosts = <<>>
    /\ r.pc = "happend" => Free(hosts, r.lab, sound) /\ r.in = "deploy"
    /\ r.in = "deploy" /\ ~r.faulty /\ r.pc \in {"addssh", "return"} =>
          Holds(hosts, sound \cup {r.lab})

\* The rules of the network that is there: it has them if a deploy met no failing call.
Ruled == {<<network, "in">>, <<network, "out">>} \subseteq rules
Net(r) ==
    /\ Knows(r) => r.bridge = network
    /\ r.pc \in {"netnew", "netrules"} => network # 0
    /\ r.pc \in {"dnetrm", "dnetrules"} => r.in # "reconfigure"
    /\ r.pc = "dnetrules" => network = 0
    /\ Sure(r) => Ruled
    /\ network # 0 /\ sound # {} => Ruled

Resting == Holds(hosts, sound) /\ (network # 0 /\ sound # {} => Ruled)

CleanInv ==
    clean => /\ Single
             /\ \A t \in Threads : Active(t) => Files(th[t]) /\ Net(th[t])
             /\ (\A t \in Threads : ~Active(t)) => Resting

\* A running command is not for a lab that counts as deployed.
LEMMA NotDeployed ==
    ASSUME HostInv, NEW t \in Threads, Active(t)
    PROVE  th[t].lab \notin deployed /\ th[t].lab \notin sound
<1> SUFFICES ASSUME th[t].lab \in deployed PROVE FALSE
  BY DEF HostInv, HostTypes
<1>1. th[t].lab \in Labs
  BY DEF HostInv, HostTypes
<1>2. th[t].lab \in Targets(t)
  BY <1>1 DEF Targets
<1> QED BY <1>2 DEF HostInv, Untouched, Targeted, Active

\* Steps that leave /etc/hosts alone keep what is known of it.
LEMMA QuietKeeps ==
    ASSUME NEW t \in Threads, sound' = sound, Quiet(t), Files(th[t])
    PROVE  Files(th[t])'
  BY DEF Quiet, Files

\* Steps that leave the network alone keep what is known of it.
LEMMA SteadyKeeps ==
    ASSUME NEW t \in Threads, sound' = sound, Steady(t), Net(th[t])
    PROVE  Net(th[t])'
<1>1. Knows(th'[t]) => th'[t].bridge = network
  BY DEF Steady, Net
<1>2. Ruled' = Ruled
  BY DEF Steady, Ruled
<1> QED BY <1>1, <1>2 DEF Steady, Net, Knows

\* A deployed lab has the network.
LEMMA DeployedHasNetwork == ASSUME HostInv, Nodes # {}, sound # {} PROVE network # 0
<1>1. PICK l \in deployed : Present(l)
  BY DEF HostInv, HostTypes
<1> QED BY <1>1 DEF HostInv, NetworkInUse, Present, Up

\* The steps that change the network or its rules.
LEMMA NetSteps ==
    ASSUME HostInv, Nodes # {}, NEW t \in Threads, sound' = sound,
           \/ createMgmtBridge(t) \/ postCreateNetActions(t)
           \/ NetworkRemove(t) \/ deleteMgmtNetworkFwdRule(t)
    PROVE  Quiet(t) /\ (Net(th[t]) => Net(th[t])')
<1>1. DOMAIN th[t] = Fields /\ OneLab(t) /\ DOMAIN th = Threads /\ network \in Nat /\ networks \in Nat
  BY Records, Known
<1>2. CASE createMgmtBridge(t)
  <2>1. /\ th[t].pc = "netcreate" /\ UNCHANGED <<hosts, rules>>
        /\ \/ /\ UNCHANGED network /\ network # 0
              /\ th'[t].faulty /\ th'[t].pc \in {"return", "labdirs"}
           \/ /\ network = 0 /\ th'[t].pc = "netnew" /\ th'[t].bridge = network'
              /\ th[t].bridge = 0 => network' # 0
    BY <1>1, <1>2 DEF createMgmtBridge, At, Fail, Fields, AfterNetError
  <2>2. Quiet(t)
    BY <2>1 DEF Quiet
  <2>3. network = 0 => sound = {}
    BY DeployedHasNetwork
  <2> QED BY <2>1, <2>2, <2>3 DEF Net, Knows, Knowing, Ruled, Sure
<1>3. CASE postCreateNetActions(t)
  <2>1. /\ th[t].pc \in {"netnew", "netrules"} /\ UNCHANGED <<hosts, network>>
        /\ rules \subseteq rules'
        /\ \/ th'[t].faulty /\ th'[t].pc \in {"return", "labdirs"}
           \/ /\ rules' = InstallForwardingRules(th[t].bridge) \/ th'[t].faulty
              /\ th'[t].bridge = th[t].bridge /\ th'[t].pc \in {"check", "dlist"}
    BY <1>1, <1>3 DEF postCreateNetActions, Fail, Goto, Logged, Fields, AfterNetError,
                      InstallForwardingRules
  <2>2. Quiet(t)
    BY <2>1 DEF Quiet
  <2> QED BY <2>1, <2>2 DEF Net, Knows, Knowing, Ruled, Sure, InstallForwardingRules
<1>4. CASE NetworkRemove(t)
  <2>1. /\ th[t].pc = "dnetrm" /\ UNCHANGED <<hosts, rules>> /\ th'[t].in = th[t].in
        /\ \/ UNCHANGED network /\ th'[t].pc = "next"
           \/ network' = 0 /\ th'[t].pc = "dnetrules"
    BY <1>1, <1>4 DEF NetworkRemove, At, Goto, Logged, Fields
  <2>2. Quiet(t)
    BY <2>1 DEF Quiet
  <2> QED BY <2>1, <2>2 DEF Net, Knows, Knowing, Ruled, Sure
<1>5. CASE deleteMgmtNetworkFwdRule(t)
  <2>1. /\ th[t].pc = "dnetrules" /\ UNCHANGED <<hosts, network>> /\ th'[t].in = th[t].in
        /\ th'[t].pc = "next"
    <3>1. Goto(t, "next") \/ Logged(t, "next")
      BY <1>5, Zenon DEF deleteMgmtNetworkFwdRule
    <3>2. th[t].pc = "dnetrules" /\ UNCHANGED <<hosts, network>>
      BY <1>5 DEF deleteMgmtNetworkFwdRule, At
    <3> QED BY <1>1, <3>1, <3>2 DEF Goto, Logged, Fields
  <2>2. Quiet(t)
    BY <2>1 DEF Quiet
  <2> QED BY <2>1, <2>2 DEF Net, Knows, Knowing, Sure
<1> QED BY <1>2, <1>3, <1>4, <1>5

\* Nothing after a sequence.
LEMMA EmptyTail == ASSUME NEW S, NEW s \in Seq(S) PROVE s \o <<>> = s
  OBVIOUS

\* writeHosts finds the file empty and leaves in it what was kept.
LEMMA WriteIsBuffer ==
    ASSUME NEW t \in Threads, writeHosts(t), clean', Files(th[t])
    PROVE  hosts' = th[t].buf
<1>1. Free(th[t].buf, th[t].lab, sound) /\ hosts = <<>>
  BY DEF writeHosts, At, Files
<1>2. th[t].buf \in Seq(Lines)
  BY <1>1 DEF Free, Whole
<1>3. /\ hosts' = SubSeq(th[t].buf, 1, Len(th[t].buf))
                    \o SubSeq(hosts, Len(th[t].buf) + 1, Len(hosts))
      /\ SubSeq(th[t].buf, 1, Len(th[t].buf)) = th[t].buf
  <2>1. hosts' = SubSeq(th[t].buf, 1, Len(th[t].buf))
                   \o SubSeq(hosts, Len(th[t].buf) + 1, Len(hosts))
    BY Zenon DEF writeHosts
  <2> QED BY <1>2, <2>1
<1>4. SubSeq(hosts, Len(th[t].buf) + 1, Len(hosts)) = <<>>
  BY <1>1, <1>2
<1> QED BY <1>2, <1>3, <1>4, EmptyTail

\* The steps that rewrite /etc/hosts and the one after.
LEMMA HostsSteps ==
    ASSUME HostInv, NEW t \in Threads, Active(t), sound' = sound, clean',
           \/ DeleteEntriesFromHostsFile(t) \/ truncateHosts(t) \/ writeHosts(t)
           \/ appendHostsFileEntries(t) \/ addSSHConfig(t)
    PROVE  Steady(t) /\ (Files(th[t]) => Files(th[t])')
<1>1. DOMAIN th[t] = Fields /\ OneLab(t) /\ DOMAIN th = Threads /\ th[t].lab \notin sound
  BY Records, NotDeployed
<1>2. ASSUME HostsError(t)
      PROVE  /\ th'[t].pc \in {"next", "addssh"} /\ th'[t].faulty /\ th'[t].in = th[t].in
             /\ th'[t].lab = th[t].lab /\ th'[t].bridge = th[t].bridge
  BY <1>1, <1>2 DEF HostsError, Fields
<1>3. CASE DeleteEntriesFromHostsFile(t)
  <2>1. /\ th[t].pc = "hread" /\ UNCHANGED <<hosts, network, rules>>
        /\ \/ HostsError(t)
           \/ th' = [th EXCEPT ![t].pc = "htrunc", ![t].buf = WithoutEntries(hosts, th[t].lab)]
    BY <1>3, Zenon DEF DeleteEntriesFromHostsFile, At, host
  <2>2. /\ th'[t].bridge = th[t].bridge /\ th'[t].in = th[t].in /\ th'[t].lab = th[t].lab
        /\ \/ th'[t].pc \in {"next", "addssh"} /\ th'[t].faulty
           \/ /\ th'[t].pc = "htrunc" /\ th'[t].buf = WithoutEntries(hosts, th[t].lab)
              /\ th'[t].faulty = th[t].faulty
    BY <1>1, <1>2, <2>1 DEF Fields
  <2>3. Steady(t)
    BY <2>1, <2>2 DEF Steady, Knows, Knowing, Sure
  <2>4. ASSUME Files(th[t]) PROVE Files(th[t])'
    <3>1. Holds(hosts, sound)
      BY <2>1, <2>4 DEF Files
    <3>2. Free(WithoutEntries(hosts, th[t].lab), th[t].lab, sound)
      BY <1>1, <3>1, EntriesDeleted
    <3> QED BY <2>1, <2>2, <3>1, <3>2 DEF Files
  <2> QED BY <2>3, <2>4
<1>4. CASE truncateHosts(t)
  <2>1. /\ th[t].pc = "htrunc" /\ UNCHANGED <<network, rules>>
        /\ \/ hosts' = <<>> /\ Goto(t, "hwrite")
           \/ UNCHANGED hosts /\ HostsError(t)
    BY <1>4, Zenon DEF truncateHosts, At
  <2>2. /\ th'[t].bridge = th[t].bridge /\ th'[t].in = th[t].in /\ th'[t].lab = th[t].lab
        /\ \/ UNCHANGED hosts /\ th'[t].pc \in {"next", "addssh"} /\ th'[t].faulty
           \/ /\ hosts' = <<>> /\ th'[t].pc = "hwrite" /\ th'[t].buf = th[t].buf
              /\ th'[t].faulty = th[t].faulty
    BY <1>1, <1>2, <2>1 DEF Goto, Fields
  <2> QED BY <2>1, <2>2 DEF Steady, Knows, Knowing, Sure, Files
<1>5. CASE writeHosts(t)
  <2>1. /\ th[t].pc = "hwrite" /\ UNCHANGED <<network, rules>>
        /\ th' = [th EXCEPT ![t].buf = <<>>,
                            ![t].pc = IF th[t].in = "deploy" THEN "happend" ELSE "rmfiles"]
    BY <1>5 DEF writeHosts, At
  <2>2. /\ th'[t].bridge = th[t].bridge /\ th'[t].lab = th[t].lab /\ th'[t].in = th[t].in
        /\ th'[t].pc = (IF th[t].in = "deploy" THEN "happend" ELSE "rmfiles")
        /\ th'[t].faulty = th[t].faulty
    BY <1>1, <2>1 DEF Fields
  <2>3. Steady(t)
    BY <2>1, <2>2 DEF Steady, Knows, Knowing, Sure
  <2>4. ASSUME Files(th[t]) PROVE Files(th[t])'
    <3>1. Free(th[t].buf, th[t].lab, sound) /\ hosts = <<>>
      BY <2>1, <2>4 DEF Files
    <3>2. hosts' = th[t].buf
      BY <1>5, <2>4, WriteIsBuffer
    <3>3. Holds(th[t].buf, sound)
      BY <3>1 DEF Free, Holds
    <3> QED BY <2>2, <3>1, <3>2, <3>3 DEF Files
  <2> QED BY <2>3, <2>4
<1>6. CASE appendHostsFileEntries(t)
  <2>1. /\ th[t].pc = "happend" /\ UNCHANGED <<network, rules>>
        /\ \/ hosts' = hosts \o HostsBlock(th[t].lab) /\ Goto(t, "addssh")
           \/ UNCHANGED hosts /\ Logged(t, "addssh")
    BY <1>6, Zenon DEF appendHostsFileEntries, At
  <2>2. /\ th'[t].bridge = th[t].bridge /\ th'[t].lab = th[t].lab /\ th'[t].in = th[t].in
        /\ th'[t].pc = "addssh"
        /\ \/ hosts' = hosts \o HostsBlock(th[t].lab) /\ th'[t].faulty = th[t].faulty
           \/ UNCHANGED hosts /\ th'[t].faulty
    BY <1>1, <2>1 DEF Goto, Logged, Fields
  <2>3. Steady(t)
    BY <2>1, <2>2 DEF Steady, Knows, Knowing, Sure
  <2>4. ASSUME Files(th[t]) PROVE Files(th[t])'
    <3>1. Free(hosts, th[t].lab, sound) /\ th[t].in = "deploy" /\ Holds(hosts, sound)
      BY <2>1, <2>4 DEF Files
    <3>2. th[t].lab \in Labs
      BY <1>1, <3>1 DEF OneLab
    <3>3. Holds(hosts \o HostsBlock(th[t].lab), sound \cup {th[t].lab})
      BY <3>1, <3>2, BlockAppended
    <3>4. Holds(hosts \o HostsBlock(th[t].lab), sound)
      BY <3>3 DEF Holds, Covers
    <3> QED BY <2>2, <3>1, <3>3, <3>4 DEF Files
  <2> QED BY <2>3, <2>4
<1>7. CASE addSSHConfig(t)
  <2>1. /\ th[t].pc = "addssh" /\ UNCHANGED <<hosts, network, rules>>
        /\ Goto(t, "return") \/ Logged(t, "return")
    BY <1>7, Zenon DEF addSSHConfig, At
  <2>2. /\ th'[t].bridge = th[t].bridge /\ th'[t].lab = th[t].lab /\ th'[t].in = th[t].in
        /\ th'[t].pc = "return" /\ (th'[t].faulty = th[t].faulty \/ th'[t].faulty = TRUE)
    BY <1>1, <2>1 DEF Goto, Logged, Fields
  <2> QED BY <2>1, <2>2 DEF Steady, Knows, Knowing, Sure, Files
<1> QED BY <1>3, <1>4, <1>5, <1>6, <1>7

\* Every step of a goroutine but its return leaves the network or /etc/hosts alone.
LEMMA StepKinds ==
    ASSUME HostInv, ~SharedDir, NEW t \in Threads, Step(t), ~Return(t), clean'
    PROVE  /\ Active(t) /\ sound' = sound
           /\ \/ Quiet(t) /\ Steady(t)
              \/ Steady(t) /\ (Files(th[t]) => Files(th[t])')
              \/ createMgmtBridge(t) \/ postCreateNetActions(t)
              \/ NetworkRemove(t) \/ deleteMgmtNetworkFwdRule(t)
<1>1. Active(t) /\ Effect(t)
  BY StepIsActive, StepEffect
<1>2. sound' = sound
  BY <1>1 DEF Effect, ghost
<1>3. CASE \/ NewContainerLab(t) \/ CreateNet(t) \/ prepareLab(t)
           \/ \E n \in Nodes : createNode(t, n) \/ StartContainer(t, n) \/ workerDeletes(t, n)
           \/ nodesDone(t) \/ Destroy(t) \/ \E yes \in BOOLEAN : cliPromptToDestroyAll(t, yes)
           \/ makeCopyForDestroy(t) \/ destroy(t) \/ deleteNodes(t) \/ workerReturns(t)
           \/ removeLabFiles(t) \/ DeleteNet(t) \/ removeLabDirectory(t) \/ destroyLabDirs(t)
           \/ toolAttach(t) \/ toolCreate(t) \/ toolDetach(t)
  BY <1>1, <1>2, <1>3, QuietSteps
<1>4. CASE \/ DeleteEntriesFromHostsFile(t) \/ truncateHosts(t) \/ writeHosts(t)
           \/ appendHostsFileEntries(t) \/ addSSHConfig(t)
  BY <1>1, <1>2, <1>4, HostsSteps
<1>5. CASE deleteToolContainers(t)
  <2>1. DOMAIN th[t] = Fields /\ OneLab(t) /\ DOMAIN th = Threads
    BY Records
  <2>2. /\ th[t].pc = "delete" /\ UNCHANGED <<hosts, network, rules>>
        /\ Goto(t, "hread") \/ Logged(t, "hread") 
    BY <1>5, Zenon DEF deleteToolContainers, At
  <2>3. /\ th'[t].pc = "hread" /\ th'[t].in = th[t].in /\ th'[t].bridge = th[t].bridge
        /\ th[t].in # "deploy"
    BY <1>1, <2>1, <2>2 DEF Goto, Logged, Fields, OneLab, DeployPc, Writing
  <2>4. Quiet(t) /\ Steady(t)
    BY <2>2, <2>3 DEF Quiet, Steady, Knows, Knowing, Sure
  <2> QED BY <1>1, <1>2, <2>4
<1> QED BY <1>1, <1>2, <1>3, <1>4, <1>5 DEF Step

\* A step of the only command, other than its return.
LEMMA StepCleans ==
    ASSUME HostInv, ~SharedDir, Nodes # {}, NEW t \in Threads, Step(t), ~Return(t), clean'
    PROVE  /\ Files(th[t]) => Files(th[t])'
           /\ Net(th[t]) => Net(th[t])'
<1>1. sound' = sound
  BY StepKinds
<1>2. CASE Quiet(t) /\ Steady(t)
  BY <1>1, <1>2, QuietKeeps, SteadyKeeps
<1>3. CASE Steady(t) /\ (Files(th[t]) => Files(th[t])')
  BY <1>1, <1>3, SteadyKeeps
<1>4. CASE \/ createMgmtBridge(t) \/ postCreateNetActions(t)
           \/ NetworkRemove(t) \/ deleteMgmtNetworkFwdRule(t)
  BY <1>1, <1>4, NetSteps, QuietKeeps
<1> QED BY <1>2, <1>3, <1>4, StepKinds

\* It keeps what is known of /etc/hosts and the network.
LEMMA StepKeepsClean ==
    ASSUME HostInv, CleanInv, ~SharedDir, Nodes # {}, NEW t \in Threads, Step(t), ~Return(t)
    PROVE  CleanInv'
<1> SUFFICES ASSUME clean' PROVE CleanInv'
  BY DEF CleanInv
<1>1. Active(t) /\ Effect(t)
  BY StepIsActive, StepEffect
<1>2. /\ clean /\ UNCHANGED <<proc, sound>> /\ th'[t].pc # "idle"
      /\ \A u \in Threads \ {t} : Undisturbed(t, u)
  BY <1>1 DEF Effect, Onward
<1>3. Single /\ Files(th[t]) /\ Net(th[t])
  BY <1>1, <1>2 DEF CleanInv
<1>4. \A u \in Threads \ {t} : th'[u] = th[u] /\ ~Active(u)
  BY <1>1, <1>2, <1>3 DEF Single, Active, Undisturbed
<1>5. Single'
  BY <1>1, <1>2, <1>3, <1>4 DEF Single, Active
<1>6. Files(th[t])' /\ Net(th[t])'
  BY <1>3, StepCleans
<1>7. \A u \in Threads : Active(u)' => u = t
  BY <1>4 DEF Active
<1>8. Active(t)'
  BY <1>2 DEF Active
<1> QED BY <1>5, <1>6, <1>7, <1>8 DEF CleanInv

\* The command returns, and its lab counts as deployed only if its block is there.
LEMMA ReturnKeepsClean ==
    ASSUME HostInv, CleanInv, NEW t \in Threads, Return(t)
    PROVE  CleanInv'
<1> SUFFICES ASSUME clean' PROVE CleanInv'
  BY DEF CleanInv
<1>1. /\ Active(t) /\ th[t].pc = "return" /\ UNCHANGED <<host, clean>> /\ clean
      /\ UNCHANGED <<hosts, network, rules>>
  BY DEF Return, At, Active, ghost, host
<1>2. Single /\ Files(th[t]) /\ Net(th[t]) /\ t \in Procs \X {"main", "handler"}
  BY <1>1 DEF CleanInv, Threads
<1>3. DOMAIN th[t] = Fields /\ DOMAIN th = Threads
  BY Records
<1>4. CASE /\ th' = [th EXCEPT ![t].pc = "new", ![t].in = "deploy"]
           /\ proc' = [proc EXCEPT ![t[1]].CleanOnCancel = TRUE] /\ UNCHANGED ghost
  <2>1. th'[t].pc = "new" /\ \A u \in Threads \ {t} : th'[u] = th[u] /\ ~Active(u)
    BY <1>1, <1>2, <1>3, <1>4 DEF Fields, Single
  <2>2. proc'[t[1]].cancelled = proc[t[1]].cancelled
    <3>1. t[1] \in Procs /\ proc \in [Procs -> Process]
      BY <1>2 DEF HostInv, HostTypes
    <3> QED BY <1>4, <3>1 DEF Process
  <2>3. \A u \in Threads : Active(u)' => u = t
    BY <2>1 DEF Active
  <2>4. Active(t)' /\ t[2] = "main" /\ ~proc'[t[1]].cancelled
    BY <1>1, <1>2, <2>1, <2>2 DEF Active, Single
  <2>5. Single'
    BY <2>3, <2>4 DEF Single
  <2>6. Files(th[t])' /\ Net(th[t])'
    BY <1>1, <1>2, <1>4, <2>1 DEF Files, Net, Knows, Knowing, Ruled, Sure, ghost
  <2> QED BY <2>3, <2>4, <2>5, <2>6 DEF CleanInv
<1>5. CASE /\ Exit(t[1])
           /\ \/ sound' = sound
              \/ th[t].in = "deploy" /\ ~th[t].faulty /\ sound' = sound \cup {th[t].lab}
  <2>1. \A u \in Threads : ~Active(u)'
    <3>1. \A u \in Threads : u # t => ~Active(u)
      BY <1>1, <1>2 DEF Single
    <3> QED BY <1>5, <3>1 DEF Exit, Active, NoThread
  <2>2. Holds(hosts, sound')
    BY <1>1, <1>2, <1>5 DEF Files
  <2>3. Resting'
    BY <1>1, <1>2, <1>5, <2>2 DEF Net, Resting, Ruled, Sure
  <2> QED BY <2>1, <2>3 DEF CleanInv, Single
<1> QED BY <1>4, <1>5 DEF Return

\* A command starts while none is running, or what follows is no longer clean.
LEMMA CommandKeepsClean ==
    ASSUME HostInv, CleanInv, NEW p \in Procs, NEW op \in Commands,
           NEW l \in IF AllLabs(op) THEN {"none"} ELSE Labs, Command(p, op, l)
    PROVE  CleanInv'
<1> SUFFICES ASSUME clean' PROVE CleanInv'
  BY DEF CleanInv
<1> DEFINE m == <<p, "main">>
<1>1. /\ clean /\ ~Running(p) /\ \A q \in Procs \ {p} : ~Running(q)
      /\ UNCHANGED <<hosts, network, rules>> /\ sound' \subseteq sound
      /\ proc' = [proc EXCEPT ![p] = [cancelled |-> FALSE, timedOut |-> FALSE,
                    CleanOnCancel |-> op \in {"deploy", "reconfigure"}]]
  BY DEF Command, host
<1>2. \A u \in Threads : ~Active(u)
  <2>1. \A q \in Procs : HandlerIsLate(q) /\ ~Active(<<q, "main">>)
    BY <1>1 DEF HostInv, Running, Active
  <2>2. \A q \in Procs : ~Active(<<q, "handler">>)
    BY <2>1 DEF HandlerIsLate
  <2> QED BY <2>1, <2>2 DEF Threads
<1>3. Resting
  BY <1>1, <1>2 DEF CleanInv
<1>4. \A u \in Threads \ {m} : th'[u] = th[u]
  BY <1>2 DEF Command, Active
<1>5. m \in Threads /\ th'[m].pc = "new"
  BY DEF Command, Threads, NoThread
<1>6. ~proc'[p].cancelled
  BY <1>1 DEF HostInv, HostTypes
<1>7. \A u \in Threads : Active(u)' => u = m
  BY <1>2, <1>4 DEF Active
<1>8. Active(m)' /\ Single'
  BY <1>5, <1>6, <1>7 DEF Single, Active
<1>9. Holds(hosts, sound')
  BY <1>1, <1>3 DEF Resting, Holds, Covers
<1>10. Files(th[m])' /\ Net(th[m])'
  BY <1>1, <1>3, <1>5, <1>9 DEF Files, Net, Knows, Knowing, Ruled, Sure, Resting
<1> QED BY <1>5, <1>7, <1>8, <1>10 DEF CleanInv

\* The blocks of HostsFile.
LEMMA FileIsWhole ==
    ASSUME NEW o \in Seq(Labs), \A i, j \in 1..Len(o) : o[i] = o[j] => i = j
    PROVE  Whole(HostsFile(o), o)
<1>1. PICK k \in Nat : k = Len(o)
  OBVIOUS
<1> DEFINE line(i) == IF i = 1 THEN UserLine ELSE HostsBlock(o[(i + 1) \div 3])[((i + 1) % 3) + 1]
<1>2. HostsFile(o) = [i \in 1..(3 * k + 1) |-> line(i)]
  BY <1>1 DEF HostsFile
<1>3. ASSUME NEW j \in 1..k
      PROVE  /\ 3 * j - 1 \in 1..(3 * k + 1) /\ line(3 * j - 1) = Line("start", o[j])
             /\ 3 * j \in 1..(3 * k + 1) /\ line(3 * j) = Line("entry", o[j])
             /\ 3 * j + 1 \in 1..(3 * k + 1) /\ line(3 * j + 1) = Line("end", o[j])
  <2>1. /\ (3 * j - 1 + 1) \div 3 = j /\ ((3 * j - 1 + 1) % 3) + 1 = 1 /\ 3 * j - 1 # 1
        /\ (3 * j + 1) \div 3 = j /\ ((3 * j + 1) % 3) + 1 = 2 /\ 3 * j # 1
        /\ (3 * j + 1 + 1) \div 3 = j /\ ((3 * j + 1 + 1) % 3) + 1 = 3 /\ 3 * j + 1 # 1
    OBVIOUS
  <2>2. /\ 3 * j - 1 \in 1..(3 * k + 1) /\ 3 * j \in 1..(3 * k + 1) /\ 3 * j + 1 \in 1..(3 * k + 1)
    OBVIOUS
  <2>3. /\ HostsBlock(o[j])[1] = Line("start", o[j]) /\ HostsBlock(o[j])[2] = Line("entry", o[j])
        /\ HostsBlock(o[j])[3] = Line("end", o[j])
    BY DEF HostsBlock
  <2> QED BY <2>1, <2>2, <2>3
<1>4. line(1) = UserLine /\ 1 \in 1..(3 * k + 1)
  OBVIOUS
<1>5. \A i \in 1..(3 * k + 1) : line(i) \in Lines
  <2> SUFFICES ASSUME NEW i \in 1..(3 * k + 1), i # 1 PROVE line(i) \in Lines
    <3>1. UserLine \in Lines
      BY DEF UserLine, Line, Lines
    <3> QED BY <1>4, <3>1
  <2>1. /\ (i + 1) \div 3 \in 1..k /\ ((i + 1) % 3) + 1 \in 1..3
    BY SMTT(30)
  <2>2. \A x \in Labs : \A y \in 1..3 : HostsBlock(x)[y] \in Lines
    BY DEF HostsBlock, Lines, Line
  <2> QED BY <1>1, <2>1, <2>2
<1> HIDE DEF line
<1>6. HostsFile(o) \in [1..(3 * k + 1) -> Lines] /\ 3 * k + 1 \in Nat
  BY <1>2, <1>5
<1>7. HostsFile(o) \in Seq(Lines) /\ Len(HostsFile(o)) = 3 * k + 1
  BY <1>6, MakeSeq
<1>8. HostsFile(o)[1] = UserLine
  BY <1>2, <1>4
<1>9. \A j \in 1..k : /\ HostsFile(o)[3 * j - 1] = Line("start", o[j])
                        /\ HostsFile(o)[3 * j] = Line("entry", o[j])
                        /\ HostsFile(o)[3 * j + 1] = Line("end", o[j])
  BY <1>2, <1>3
<1> QED BY <1>1, <1>7, <1>8, <1>9 DEF Whole

\* The labs deployed before have their blocks and rules.
LEMMA CleanInit == Init => CleanInv
<1> SUFFICES ASSUME Init PROVE CleanInv
  OBVIOUS
<1>1. \A t \in Threads : ~Active(t)
  BY DEF Init, Active, NoThread
<1>2. deployed \subseteq Labs /\ Cardinality(deployed) \in Nat
  <2>1. deployed \subseteq Labs
    BY DEF Init
  <2> QED BY <2>1, LabHostAssumption, FS_Subset, FS_CardinalityType
<1>3. PICK o \in Bijection(1..Cardinality(deployed), deployed) : hosts = HostsFile(o)
  BY DEF Init
<1>4. PICK n \in Nat : n = Cardinality(deployed)
  BY <1>2
<1>5. /\ o \in [1..n -> deployed] /\ \A i, j \in 1..n : o[i] = o[j] => i = j
      /\ \A l \in deployed : \E j \in 1..n : o[j] = l
  BY <1>3, <1>4 DEF Bijection, Injection, Surjection, IsInjective
<1>6. o \in Seq(Labs) /\ Len(o) = n
  BY <1>2, <1>5, MakeSeq
<1>7. Whole(hosts, o) /\ Covers(o, deployed)
  BY <1>3, <1>5, <1>6, FileIsWhole DEF Covers
<1>8. sound = deployed /\ (network # 0 => Ruled)
  BY DEF Init, Ruled
<1> QED BY <1>1, <1>6, <1>7, <1>8 DEF CleanInv, Single, Resting, Holds

\* Every step keeps what is known of /etc/hosts and the rules.
LEMMA CleanNext ==
    ASSUME ~SharedDir, Nodes # {}
    PROVE  HostInv /\ CleanInv /\ [Next]_vars => CleanInv'
<1> SUFFICES ASSUME HostInv, CleanInv, [Next]_vars PROVE CleanInv'
  OBVIOUS
<1>1. ASSUME NEW p \in Procs, NEW op \in Commands,
             NEW l \in IF AllLabs(op) THEN {"none"} ELSE Labs, Command(p, op, l)
      PROVE  CleanInv'
  BY <1>1, CommandKeepsClean
<1>2. ASSUME NEW p \in Procs, SignalHandledContext(p) PROVE CleanInv'
  BY <1>2 DEF SignalHandledContext, CleanInv
<1>3. ASSUME UNCHANGED <<host, th, ghost>>,
             \A q \in Procs : proc'[q].cancelled = proc[q].cancelled
      PROVE  CleanInv'
  <2>1. \A t \in Threads : t[1] \in Procs
    BY DEF Threads
  <2>2. Single => Single'
    BY <1>3, <2>1 DEF Single, Active
  <2>3. /\ Resting => Resting'
        /\ \A t \in Threads : Files(th[t]) /\ Net(th[t]) => Files(th[t])' /\ Net(th[t])'
    BY <1>3 DEF Resting, Files, Net, Ruled, Sure, Knows, host, ghost
  <2> QED BY <1>3, <2>2, <2>3 DEF CleanInv, Active, ghost
<1>4. ASSUME NEW p \in Procs, destroyTimeout(p) PROVE CleanInv'
  <2>1. proc \in [Procs -> Process]
    BY DEF HostInv, HostTypes
  <2>2. UNCHANGED <<host, th, ghost>> /\ \A q \in Procs : proc'[q].cancelled = proc[q].cancelled
    BY <1>4, <2>1 DEF destroyTimeout, Process
  <2> QED BY <1>3, <2>2
<1>5. ASSUME NEW t \in Threads, Step(t) PROVE CleanInv'
  BY <1>5, StepKeepsClean, ReturnKeepsClean
<1>6. CASE UNCHANGED vars
  BY <1>3, <1>6 DEF vars
<1> QED BY <1>1, <1>2, <1>4, <1>5, <1>6 DEF Next

\* What is known of /etc/hosts and the rules holds in every reachable state.
THEOREM CleanInvHolds ==
    ASSUME ~SharedDir, Nodes # {}
    PROVE  Spec => []CleanInv
<1>1. Spec => []HostInv
  BY HostInvHolds
<1>2. Init => CleanInv
  BY CleanInit
<1>3. HostInv /\ CleanInv /\ [Next]_vars => CleanInv'
  BY CleanNext
<1> QED BY <1>1, <1>2, <1>3, PTL DEF Spec

\* As long as commands neither overlap nor are interrupted and no write to /etc/hosts is cut
\* short, the file holds the user's line once and exactly one whole block for every lab whose
\* deploy met no failing call, whichever other calls fail - those of DeleteEntriesFromHostsFile
\* and appendHostsFileEntries, that the deploy only logs, included - and however often labs are
\* deployed and destroyed; and the network of such a lab has both accept rules, although an
\* error of installMgmtNetworkFwdRule is only warned about.  The labs have at least one node and
\* topology files in different directories.
THEOREM HostFilesTheorem ==
    ASSUME ~SharedDir, Nodes # {}
    PROVE  Spec => []HostFilesAreExact
<1>1. HostInv /\ CleanInv => HostFilesAreExact
  <2> SUFFICES ASSUME HostInv, CleanInv, clean, ~Rewriting
               PROVE  /\ \E u \in DOMAIN hosts : /\ hosts[u] = UserLine
                                                /\ \A i \in DOMAIN hosts :
                                                      hosts[i].part = "user" => i = u
                      /\ \A l \in sound : ExactBlock(l)
                      /\ sound # {} => {<<network, "in">>, <<network, "out">>} \subseteq rules
    BY DEF HostFilesAreExact
  <2>1. Holds(hosts, sound)
    BY DEF CleanInv, Files, Resting, Rewriting, At
  <2>2. PICK o \in Seq(Labs) : Whole(hosts, o) /\ Covers(o, sound)
    BY <2>1 DEF Holds
  <2>3. hosts \in Seq(Lines) /\ Len(hosts) \in Nat /\ 1 \in 1..Len(hosts) /\ hosts[1] = UserLine
        /\ DOMAIN hosts = 1..Len(hosts) /\ Len(hosts) = 3 * Len(o) + 1 /\ Len(o) \in Nat
    BY <2>2 DEF Whole
  <2>4. \A i \in 1..Len(hosts) : hosts[i].part = "user" => i = 1
    <3> SUFFICES ASSUME NEW i \in 1..Len(hosts), i # 1 PROVE hosts[i].part # "user"
      OBVIOUS
    <3>1. PICK m \in 1..Len(o) : \/ i = 3 * m - 1 /\ hosts[i] = Line("start", o[m])
                                 \/ i = 3 * m /\ hosts[i] = Line("entry", o[m])
                                 \/ i = 3 * m + 1 /\ hosts[i] = Line("end", o[m])
      BY <2>2, Places
    <3> QED BY <3>1 DEF Line
  <2>5. ASSUME NEW l \in sound PROVE ExactBlock(l)
    <3>1. PICK m \in 1..Len(o) : o[m] = l
      BY <2>2 DEF Covers
    <3>2. /\ hosts[3 * m - 1] = Line("start", l) /\ hosts[3 * m] = Line("entry", l)
          /\ hosts[3 * m + 1] = Line("end", l)
      BY <2>2, <3>1 DEF Whole
    <3>3. 3 * m - 1 \in 1..Len(hosts) /\ 3 * m \in 1..Len(hosts) /\ 3 * m + 1 \in 1..Len(hosts)
      BY <2>3
    <3>4. \A i \in 1..Len(hosts) : hosts[i].lab = l => i \in {3 * m - 1, 3 * m, 3 * m + 1}
      BY <2>2, <3>1, BlockLines, LabHostAssumption
    <3>5. hosts[3 * m - 1].lab = l /\ hosts[3 * m].lab = l /\ hosts[3 * m + 1].lab = l
      BY <3>2 DEF Line
    <3>6. LinesOf(l) = {3 * m - 1, 3 * m, 3 * m + 1}
      BY <2>3, <3>3, <3>4, <3>5 DEF LinesOf
    <3>7. /\ LinesOf(l) = {3 * m - 1, 3 * m - 1 + 1, 3 * m - 1 + 2}
          /\ \A j \in 1..3 : hosts[3 * m - 1 + j - 1] = HostsBlock(l)[j]
      <4>1. 3 * m - 1 + 1 = 3 * m /\ 3 * m - 1 + 2 = 3 * m + 1 /\ 3 * m - 1 + 1 - 1 = 3 * m - 1
            /\ 3 * m - 1 + 2 - 1 = 3 * m /\ 3 * m - 1 + 3 - 1 = 3 * m + 1
        OBVIOUS
      <4>2. /\ HostsBlock(l)[1] = Line("start", l) /\ HostsBlock(l)[2] = Line("entry", l)
            /\ HostsBlock(l)[3] = Line("end", l)
        BY DEF HostsBlock
      <4>3. \A j \in 1..3 : j = 1 \/ j = 2 \/ j = 3
        OBVIOUS
      <4> QED BY <3>2, <3>6, <4>1, <4>2, <4>3
    <3> QED BY <3>3, <3>7 DEF ExactBlock
  <2>6. ASSUME sound # {} PROVE Ruled
    <3>2. network # 0
      BY <2>6, DeployedHasNetwork
    <3>3. CASE \A t \in Threads : ~Active(t)
      BY <2>6, <3>2, <3>3 DEF CleanInv, Resting
    <3>4. ASSUME NEW t \in Threads, Active(t) PROVE Ruled
      BY <2>6, <3>2, <3>4 DEF CleanInv, Net
    <3> QED BY <3>3, <3>4
  <2> QED BY <2>3, <2>4, <2>5, <2>6 DEF Ruled
<1> QED BY <1>1, HostInvHolds, CleanInvHolds, PTL

(***************************************************************************)
(* What a destroy leaves behind.                                           *)
(***************************************************************************)

\* Where a destroy works on one lab; after it has deleted the containers.
Working == {"inspect", "netcreate", "netnew", "netrules", "dlist", "delete", "hread", "htrunc",
            "hwrite", "rmfiles", "dnet", "dnetrm", "dnetrules"}
Past == {"hread", "htrunc", "hwrite", "rmfiles", "dnet", "dnetrm", "dnetrules"}

\* A destroy that met no failing call so far.
Live(r) == r.op \in {"destroy", "cleanup", "destroyAll", "cleanupAll"} /\ ~r.faulty

\* The way of a destroy: the labs it found are those it has still to do, the one it works on
\* and those it is done with; no worker is busy but while it deletes containers.
Shape(r) ==
    /\ r.in = r.op /\ r.pc \in {"new", "list", "prompt", "next", "labdirs", "return"} \cup Working
    /\ r.pc \in {"new", "list"} => r.found = {} /\ r.todo = {}
    /\ r.pc = "prompt" => r.todo = r.found
    /\ r.pc \in {"labdirs", "return"} => r.todo = {}
    /\ r.pc \in Working => r.lab \in r.found /\ r.lab \notin r.todo
    /\ r.pc # "delete" => r.inflight = {}
    /\ r.pc = "delete" => r.workers \in Nat /\ Cardinality(r.inflight) <= r.workers

\* A lab still to do has a container or a tool container.
Here(l) == NodesOf(l) # {} \/ l \in tools
Ahead(r) ==
    /\ \A l \in r.todo : Here(l)
    /\ r.pc \in {"inspect", "netcreate", "netnew", "netrules", "dlist"} => Here(r.lab)

\* A lab it is done with has no containers, and nothing else but for a tool container.
Done(l) == NodesOf(l) = {} /\ (l \notin tools => NoTrace(l))
Behind(r) == \A l \in r.found \ r.todo : l # r.lab \/ r.pc \notin Working => Done(l)

\* What it has done for the lab it works on, and what it has read of /etc/hosts.
Mine(r) ==
    /\ r.pc = "delete" => \A n \in Nodes : <<r.lab, n>> \in containers => n \in r.queue \cup r.inflight
    /\ r.pc \in Past => NodesOf(r.lab) = {} /\ r.lab \notin tools
    /\ r.pc \in {"htrunc", "hwrite"} => \A l \in r.found \ r.todo : l \in tools \/ NoLine(r.buf, l)
    /\ r.pc \in {"rmfiles", "dnet", "dnetrm", "dnetrules"} => NoLine(hosts, r.lab)
    /\ r.pc \in {"dnet", "dnetrm", "dnetrules"} => NoTrace(r.lab)

\* The network is gone unless a container is attached, and the directories with --cleanup.
Close(r) ==
    /\ r.pc \in {"next", "labdirs", "return"} /\ r.found # r.todo => HasEndpoints \/ network = 0
    /\ r.pc = "return" /\ Cleanup(r.op) => r.found \cap dirs = {}

Destroying(r) == Live(r) => Shape(r) /\ Ahead(r) /\ Behind(r) /\ Mine(r) /\ Close(r)

\* Every rule is for the network that is there, or for the one just removed, or could not be
\* removed with its network.
Kept(x) == x[1] \in leaked \/ (x[1] # 0 /\ x[1] = network)
Owned(r) ==
    \A x \in rules : \/ Kept(x)
                     \/ x[1] # 0 /\ network = 0 /\ r.pc = "dnetrules" /\ x[1] = r.bridge

\* Containers are named by a lab and a node.
Named == containers \subseteq (Labs \cup {"none"}) \X Nodes

LeftInv ==
    /\ Named /\ "op" \in DOMAIN last
    /\ clean => /\ \A t \in Threads : Active(t) =>
                      Destroying(th[t]) /\ Owned(th[t]) /\ last.op = "none"
                /\ (\A t \in Threads : ~Active(t)) => \A x \in rules : Kept(x)
    /\ DestroyLeavesNothing


\* The host as it is for a step that leaves it alone.
LEMMA HostAlone ==
    ASSUME UNCHANGED host
    PROVE  /\ \A l : /\ NodesOf(l)' = NodesOf(l) /\ (Here(l)' <=> Here(l)) /\ (Done(l)' <=> Done(l))
                     /\ (NoTrace(l)' <=> NoTrace(l))
           /\ HasEndpoints' <=> HasEndpoints
           /\ UNCHANGED <<containers, tools, hosts, network, rules, dirs>>
  BY DEF host, NodesOf, Here, Done, NoTrace, LinesOf, HasEndpoints

\* A lab that is done stays so while things are only removed.
LEMMA DoneStays ==
    ASSUME NEW l, Done(l), containers' \subseteq containers, netns' \subseteq netns,
           ssh' \subseteq ssh, l \in tools <=> l \in tools',
           l \notin tools /\ NoLine(hosts, l) => NoLine(hosts', l)
    PROVE  Done(l)'
<1>1. NodesOf(l)' = {}
  BY DEF Done, NodesOf
<1>2. ASSUME l \notin tools' PROVE NoTrace(l)'
  <2>1. NoTrace(l)
    BY <1>2 DEF Done
  <2>2. NoLine(hosts, l)
    BY <2>1 DEF NoTrace, LinesOf, NoLine
  <2>3. LinesOf(l)' = {}
    BY <1>2, <2>2 DEF LinesOf, NoLine
  <2> QED BY <1>1, <1>2, <2>1, <2>3 DEF NoTrace
<1> QED BY <1>1, <1>2 DEF Done

\* The steps of a destroy before it works on a lab.
LEMMA PlanSteps ==
    ASSUME HostInv, NEW t \in Threads, Destroying(th[t]),
           \/ NewContainerLab(t) \/ Destroy(t) \/ (\E yes \in BOOLEAN : cliPromptToDestroyAll(t, yes))
           \/ makeCopyForDestroy(t) \/ CreateNet(t)
    PROVE  Destroying(th[t])'
<1> SUFFICES ASSUME Live(th'[t])
             PROVE  (Shape(th[t]) /\ Ahead(th[t]) /\ Behind(th[t]) /\ Mine(th[t]) /\ Close(th[t]))'
  BY DEF Destroying, Live
<1>1. DOMAIN th[t] = Fields /\ DOMAIN th = Threads /\ OneLab(t)
  BY Records
<1>2. CASE NewContainerLab(t)
  <2>1. /\ UNCHANGED host /\ th[t].pc = "new" /\ Live(th[t])
        /\ th'[t].in = th[t].in /\ th'[t].op = th[t].op
        /\ th'[t].found = th[t].found /\ th'[t].todo = th[t].todo /\ th'[t].inflight = th[t].inflight
        /\ th[t].in \in {"destroy", "cleanup", "destroyAll", "cleanupAll"} => th'[t].pc = "list"
    BY <1>1, <1>2 DEF NewContainerLab, At, Fail, Fields, Live
  <2>2. Shape(th[t]) /\ th[t].op \in {"destroy", "cleanup", "destroyAll", "cleanupAll"}
    BY <2>1 DEF Destroying, Live
  <2> QED BY <2>1, <2>2 DEF Shape, Ahead, Behind, Mine, Close, Working, Past
<1>3. CASE Destroy(t)
  <2> DEFINE found == IF AllLabs(th[t].op)
                      THEN {l \in Labs : NodesOf(l) # {} \/ l \in tools}
                      ELSE {l \in {th[t].lab} : NodesOf(l) # {}}
             pc(f) == IF f = {} THEN "labdirs" ELSE IF AllLabs(th[t].op) THEN "prompt" ELSE "next"
             listed(f, bad) == [th EXCEPT ![t].found = f, ![t].todo = f, ![t].faulty = bad,
                                          ![t].pc = pc(f)]
  <2>1. /\ UNCHANGED host /\ th[t].pc = "list"
        /\ \/ th' = listed(found, th[t].faulty)
           \/ Fail(t, "return")
           \/ \E f : th' = listed(f, TRUE)
    BY <1>3, Zenon DEF Destroy, At
  <2>2. \A l \in found : Here(l)
    BY DEF Here
  <2>3. pc(found) \in {"labdirs", "prompt", "next"} /\ (pc(found) = "labdirs" => found = {})
    OBVIOUS
  <2>4. PICK f, c : f = found /\ c = pc(found)
    OBVIOUS
  <2>5. ASSUME NEW g, th' = listed(g, TRUE) PROVE FALSE
    BY <1>1, <2>5 DEF Fields, Live
  <2>6. ~Fail(t, "return")
    BY <1>1 DEF Fail, Fields, Live
  <2>7. /\ th'[t].found = f /\ th'[t].todo = f /\ th'[t].pc = c /\ th'[t].in = th[t].in
        /\ th'[t].op = th[t].op /\ th'[t].inflight = th[t].inflight /\ Live(th[t])
    <3> HIDE DEF found
    <3>1. th' = listed(found, th[t].faulty)
      BY <2>1, <2>5, <2>6
    <3> QED BY <1>1, <2>4, <3>1 DEF Fields, Live
  <2> HIDE DEF found, pc, listed
  <2>8. Shape(th[t]) /\ \A l \in f : Here(l)'
    BY <2>1, <2>2, <2>4, <2>7, HostAlone DEF Destroying
  <2> QED BY <2>1, <2>3, <2>4, <2>7, <2>8 DEF Shape, Ahead, Behind, Mine, Close, Working, Past
<1>4. ASSUME NEW yes \in BOOLEAN, cliPromptToDestroyAll(t, yes)
      PROVE  (Shape(th[t]) /\ Ahead(th[t]) /\ Behind(th[t]) /\ Mine(th[t]) /\ Close(th[t]))'
  <2>1. /\ UNCHANGED host /\ th[t].pc = "prompt" /\ Live(th[t])
        /\ th'[t].in = th[t].in /\ th'[t].op = th[t].op
        /\ th'[t].found = th[t].found /\ th'[t].todo = th[t].todo /\ th'[t].inflight = th[t].inflight
        /\ th'[t].pc = "next"
    BY <1>1, <1>4 DEF cliPromptToDestroyAll, At, Fail, Goto, Fields, Live
  <2>2. Shape(th[t]) /\ Ahead(th[t])
    BY <2>1 DEF Destroying
  <2> QED BY <2>1, <2>2, HostAlone DEF Shape, Ahead, Behind, Mine, Close, Working, Past
<1>5. CASE makeCopyForDestroy(t)
  <2>1. /\ UNCHANGED host /\ th[t].pc = "next"
        /\ \/ th[t].in = "reconfigure" /\ Goto(t, "rmdir")
           \/ Goto(t, "labdirs") /\ th[t].todo = {}
           \/ Fail(t, "labdirs")
           \/ \E l \in th[t].todo :
                th' = [th EXCEPT ![t].pc = "inspect", ![t].lab = l,
                                 ![t].todo = @ \ {l}, ![t].bridge = network]
    BY <1>5, Zenon DEF makeCopyForDestroy, At
  <2>2. CASE \E l \in th[t].todo :
                th' = [th EXCEPT ![t].pc = "inspect", ![t].lab = l,
                                 ![t].todo = @ \ {l}, ![t].bridge = network]
    <3>1. PICK l \in th[t].todo :
                th' = [th EXCEPT ![t].pc = "inspect", ![t].lab = l,
                                 ![t].todo = @ \ {l}, ![t].bridge = network]
      BY <2>2
    <3>2. /\ th'[t].pc = "inspect" /\ th'[t].lab = l /\ th'[t].todo = th[t].todo \ {l}
          /\ th'[t].in = th[t].in
          /\ th'[t].op = th[t].op /\ th'[t].found = th[t].found /\ th'[t].inflight = th[t].inflight
          /\ Live(th[t])
      BY <1>1, <3>1 DEF Fields, Live
    <3>3. Shape(th[t]) /\ Ahead(th[t]) /\ Behind(th[t]) /\ l \in th[t].found
      BY <1>1, <2>1, <3>1, <3>2 DEF Destroying, OneLab, Active
    <3>4. Shape(th[t])' /\ Mine(th[t])' /\ Close(th[t])'
      BY <2>1, <3>2, <3>3 DEF Shape, Mine, Close, Working, Past
    <3>5. Ahead(th[t])'
      BY <2>1, <3>1, <3>2, <3>3, HostAlone DEF Ahead
    <3>6. Behind(th[t])'
      BY <2>1, <3>2, <3>3, HostAlone DEF Behind, Working
    <3> QED BY <3>4, <3>5, <3>6
  <2>3. CASE Goto(t, "labdirs") /\ th[t].todo = {}
    <3>1. /\ th'[t].pc = "labdirs" /\ th'[t].lab = th[t].lab /\ th'[t].todo = th[t].todo
          /\ th'[t].in = th[t].in
          /\ th'[t].op = th[t].op /\ th'[t].found = th[t].found /\ th'[t].inflight = th[t].inflight
          /\ Live(th[t])
      BY <1>1, <2>3 DEF Goto, Fields, Live
    <3>2. Shape(th[t]) /\ Behind(th[t]) /\ Close(th[t])
      BY <3>1 DEF Destroying
    <3>3. Shape(th[t])' /\ Mine(th[t])' /\ Ahead(th[t])'
      BY <2>1, <2>3, <3>1, <3>2 DEF Shape, Mine, Ahead, Working, Past
    <3>4. Behind(th[t])' /\ Close(th[t])'
      BY <2>1, <3>1, <3>2, HostAlone DEF Behind, Close, Working
    <3> QED BY <3>3, <3>4
  <2>4. CASE Fail(t, "labdirs")
    BY <1>1, <2>4 DEF Fail, Fields, Live
  <2>5. CASE th[t].in = "reconfigure" /\ Goto(t, "rmdir")
    <3>1. Live(th[t]) /\ th[t].op # "reconfigure"
      BY <1>1, <2>5 DEF Goto, Fields, Live
    <3> QED BY <2>5, <3>1 DEF Destroying, Shape
  <2> QED BY <2>1, <2>2, <2>3, <2>4, <2>5
<1>6. CASE CreateNet(t)
  <2>1. /\ UNCHANGED host /\ th[t].pc = "inspect" /\ Live(th[t])
        /\ th'[t].in = th[t].in /\ th'[t].op = th[t].op
        /\ th'[t].found = th[t].found /\ th'[t].todo = th[t].todo /\ th'[t].inflight = th[t].inflight
        /\ th'[t].pc \in {"netcreate", "netrules"} /\ th'[t].lab = th[t].lab
    BY <1>1, <1>6 DEF CreateNet, At, Fail, Fields, Live
  <2>2. Shape(th[t]) /\ Ahead(th[t]) /\ Behind(th[t])
    BY <2>1 DEF Destroying
  <2>3. Shape(th[t])' /\ Mine(th[t])' /\ Close(th[t])'
    BY <2>1, <2>2 DEF Shape, Mine, Close, Working, Past
  <2> QED BY <2>1, <2>2, <2>3, HostAlone DEF Ahead, Behind, Working
<1> QED BY <1>2, <1>3, <1>4, <1>5, <1>6

\* The steps of a destroy that make the network of its copy of the lab.
LEMMA CopyNetSteps ==
    ASSUME HostInv, NEW t \in Threads, Destroying(th[t]),
           createMgmtBridge(t) \/ postCreateNetActions(t)
    PROVE  Destroying(th[t])'
<1> SUFFICES ASSUME Live(th'[t])
             PROVE  (Shape(th[t]) /\ Ahead(th[t]) /\ Behind(th[t]) /\ Mine(th[t]) /\ Close(th[t]))'
  BY DEF Destroying, Live
<1>1. DOMAIN th[t] = Fields /\ DOMAIN th = Threads /\ OneLab(t)
      /\ th[t] \in Goroutine(th[t].buf, th[t].workers)
  BY Records, Known
<1>2. /\ UNCHANGED <<containers, tools, ssh, hosts, netns>>
      /\ \/ th[t].pc = "netcreate" /\ th'[t].pc = "netnew"
         \/ th[t].pc \in {"netnew", "netrules"} /\ th'[t].pc \in {"check", "dlist"}
      /\ th'[t].in = th[t].in /\ th'[t].op = th[t].op
      /\ th'[t].found = th[t].found /\ th'[t].todo = th[t].todo /\ th'[t].lab = th[t].lab /\ Live(th[t])
      /\ th'[t].inflight = th[t].inflight /\ (th[t].in # "deploy" => th'[t].pc # "check")
  <2>1. CASE createMgmtBridge(t)
    BY <1>1, <2>1 DEF createMgmtBridge, At, Fail, Fields, Live
  <2>2. CASE postCreateNetActions(t)
    BY <1>1, <2>2 DEF postCreateNetActions, Fail, Goto, Logged, Fields, Live
  <2> QED BY <2>1, <2>2
<1>3. Shape(th[t]) /\ Ahead(th[t]) /\ Behind(th[t]) /\ th[t].op # "deploy"
  BY <1>2 DEF Destroying, Live
<1>4. Shape(th[t])' /\ Mine(th[t])' /\ Close(th[t])'
  BY <1>2, <1>3 DEF Shape, Mine, Close, Working, Past
<1>5. \A l : (Here(l)' <=> Here(l)) /\ (Done(l)' <=> Done(l))
  BY <1>2 DEF Here, Done, NodesOf, NoTrace, LinesOf
<1>6. Ahead(th[t])'
  BY <1>2, <1>3, <1>5 DEF Ahead
<1>7. Behind(th[t])'
  <2>1. th[t].pc \in Working /\ th'[t].pc \in Working
    BY <1>2, <1>3 DEF Shape, Working
  <2> QED BY <1>2, <1>3, <1>5, <2>1 DEF Behind
<1> QED BY <1>4, <1>6, <1>7

\* The list of the containers, and their deletion by the workers.
LEMMA DeleteSteps ==
    ASSUME HostInv, Named, NEW t \in Threads, Destroying(th[t]),
           \/ destroy(t) \/ deleteNodes(t) \/ (\E n \in Nodes : workerDeletes(t, n))
           \/ workerReturns(t) \/ deleteToolContainers(t)
    PROVE  Destroying(th[t])'
<1> SUFFICES ASSUME Live(th'[t])
             PROVE  (Shape(th[t]) /\ Ahead(th[t]) /\ Behind(th[t]) /\ Mine(th[t]) /\ Close(th[t]))'
  BY DEF Destroying, Live
<1>1. DOMAIN th[t] = Fields /\ DOMAIN th = Threads /\ OneLab(t)
      /\ th[t] \in Goroutine(th[t].buf, th[t].workers)
  BY Records, Known
<1>2. IsFiniteSet(Nodes) /\ th[t].inflight \subseteq Nodes /\ IsFiniteSet(th[t].inflight)
      /\ Cardinality(th[t].inflight) \in Nat
  <2>1. IsFiniteSet(Nodes) /\ th[t].inflight \subseteq Nodes
    BY <1>1, LabHostAssumption DEF Goroutine
  <2> QED BY <2>1, FS_Subset, FS_CardinalityType
<1>3. CASE destroy(t)
  <2> DEFINE count == Cardinality(NodesOf(th[t].lab))
             some == IF th[t].in = "reconfigure" THEN Cardinality(Nodes)
                     ELSE IF MaxWorkers = 0 THEN count ELSE MaxWorkers
             listed(seen, bad, k) ==
               IF seen = {} THEN [th EXCEPT ![t].pc = "next", ![t].faulty = bad]
               ELSE [th EXCEPT ![t].pc = "delete", ![t].queue = Nodes, ![t].faulty = bad,
                               ![t].workers = k]
  <2>1. /\ UNCHANGED host /\ th[t].pc = "dlist"
        /\ \/ th' = listed(NodesOf(th[t].lab), th[t].faulty, some)
           \/ \E seen, k : th' = listed(seen, TRUE, k)
    BY <1>3, Zenon DEF destroy, At
  <2>2. IsFiniteSet(NodesOf(th[t].lab)) /\ count \in Nat
    <3>1. IsFiniteSet(Labs \cup {"none"})
      BY LabHostAssumption, FS_AddElement
    <3>2. IsFiniteSet((Labs \cup {"none"}) \X Nodes)
      BY <1>2, <3>1, FS_Product
    <3>3. NodesOf(th[t].lab) \subseteq (Labs \cup {"none"}) \X Nodes
      BY DEF NodesOf, Named
    <3>4. IsFiniteSet(NodesOf(th[t].lab))
      BY <3>2, <3>3, FS_Subset
    <3> QED BY <3>4, FS_CardinalityType
  <2>3. some \in Nat
    <3>1. MaxWorkers \in Nat /\ Cardinality(Nodes) \in Nat
      BY <1>2, LabHostAssumption, FS_CardinalityType
    <3> QED BY <2>2, <3>1
  <2>4. PICK w : w = some
    OBVIOUS
  <2>a. ASSUME NEW seen, NEW k, th' = listed(seen, TRUE, k) PROVE FALSE
    BY <1>1, <2>a DEF Fields, Live
  <2> HIDE DEF count, some
  <2>b. th' = listed(NodesOf(th[t].lab), th[t].faulty, w)
    BY <2>1, <2>4, <2>a
  <2>5. Live(th[t]) /\ th'[t].in = th[t].in /\ th'[t].op = th[t].op
        /\ th'[t].found = th[t].found /\ th'[t].todo = th[t].todo /\ th'[t].lab = th[t].lab
        /\ th'[t].inflight = th[t].inflight
        /\ \/ th'[t].pc = "next" /\ NodesOf(th[t].lab) = {}
           \/ th'[t].pc = "delete" /\ th'[t].queue = Nodes /\ th'[t].workers = w
    BY <1>1, <2>b DEF Fields, Live
  <2> HIDE DEF listed
  <2>6. Shape(th[t]) /\ Ahead(th[t]) /\ Behind(th[t])
    BY <2>5 DEF Destroying
  <2>7. Cardinality({}) = 0 /\ th[t].inflight = {}
    BY <2>1, <2>6, FS_EmptySet DEF Shape
  <2>8. Shape(th[t])'
    BY <2>1, <2>3, <2>4, <2>5, <2>6, <2>7 DEF Shape, Working
  <2>9. Ahead(th[t])'
    BY <2>1, <2>5, <2>6, HostAlone DEF Ahead
  <2>10. Mine(th[t])'
    BY <2>5 DEF Mine, Past
  <2>11. NodesOf(th[t].lab) = {} => th[t].lab \in tools /\ Done(th[t].lab) /\ HasEndpoints
    BY <2>1, <2>6 DEF Ahead, Here, Done, HasEndpoints
  <2>12. Behind(th[t])'
    BY <2>1, <2>5, <2>6, <2>11, HostAlone DEF Behind, Working
  <2>13. Close(th[t])'
    BY <2>1, <2>5, <2>11, HostAlone DEF Close
  <2> QED BY <2>8, <2>9, <2>10, <2>12, <2>13
<1>4. CASE deleteNodes(t)
  <2>1. PICK n \in th[t].queue : th' = [th EXCEPT ![t].queue = @ \ {n}, ![t].inflight = @ \cup {n}]
    BY <1>4 DEF deleteNodes
  <2>2. /\ UNCHANGED host /\ th[t].pc = "delete" /\ Cardinality(th[t].inflight) < th[t].workers
        /\ Live(th[t]) /\ th'[t].in = th[t].in /\ th'[t].op = th[t].op
        /\ th'[t].found = th[t].found /\ th'[t].todo = th[t].todo /\ th'[t].lab = th[t].lab
        /\ th'[t].pc = th[t].pc /\ th'[t].queue = th[t].queue \ {n}
        /\ th'[t].inflight = th[t].inflight \cup {n} /\ th'[t].workers = th[t].workers
    BY <1>1, <1>4, <2>1 DEF deleteNodes, At, Fields, Live
  <2>3. Shape(th[t]) /\ Ahead(th[t]) /\ Behind(th[t]) /\ Mine(th[t])
    BY <2>2 DEF Destroying
  <2>4. Cardinality(th[t].inflight \cup {n}) \in Nat
        /\ Cardinality(th[t].inflight \cup {n}) <= Cardinality(th[t].inflight) + 1
    <3>1. /\ IsFiniteSet(th[t].inflight \cup {n})
          /\ Cardinality(th[t].inflight \cup {n})
               = IF n \in th[t].inflight THEN Cardinality(th[t].inflight)
                                         ELSE Cardinality(th[t].inflight) + 1
      BY <1>2, FS_AddElement
    <3> QED BY <1>2, <3>1
  <2>5. Shape(th[t])'
    BY <1>2, <2>2, <2>3, <2>4 DEF Shape, Working
  <2>6. Mine(th[t])' /\ Close(th[t])'
    BY <2>2, <2>3, HostAlone DEF Mine, Close, Past
  <2> QED BY <2>2, <2>3, <2>5, <2>6, HostAlone DEF Ahead, Behind, Working
<1>5. ASSUME NEW n \in Nodes, workerDeletes(t, n)
      PROVE  (Shape(th[t]) /\ Ahead(th[t]) /\ Behind(th[t]) /\ Mine(th[t]) /\ Close(th[t]))'
  <2>1. /\ th[t].pc = "delete" /\ UNCHANGED <<tools, network, hosts, ssh, dirs, netns>>
        /\ Live(th[t]) /\ th'[t].in = th[t].in /\ th'[t].op = th[t].op
        /\ th'[t].found = th[t].found /\ th'[t].todo = th[t].todo /\ th'[t].lab = th[t].lab
        /\ th'[t].pc = th[t].pc /\ th'[t].queue = th[t].queue
        /\ th'[t].inflight = th[t].inflight \ {n} /\ th'[t].workers = th[t].workers
        /\ containers' = containers \ {<<th[t].lab, n>>}
    BY <1>1, <1>5 DEF workerDeletes, At, Fields, Live
  <2>2. Shape(th[t]) /\ Ahead(th[t]) /\ Behind(th[t]) /\ Mine(th[t])
    BY <2>1 DEF Destroying
  <2>3. Cardinality(th[t].inflight \ {n}) <= Cardinality(th[t].inflight)
        /\ Cardinality(th[t].inflight \ {n}) \in Nat
    <3>1. th[t].inflight \ {n} \subseteq th[t].inflight
      OBVIOUS
    <3> QED BY <1>2, <3>1, FS_Subset, FS_CardinalityType
  <2>4. Shape(th[t])'
    BY <1>2, <2>1, <2>2, <2>3 DEF Shape, Working
  <2>5. Mine(th[t])' /\ Close(th[t])'
    BY <2>1, <2>2 DEF Mine, Close, Past
  <2>6. ASSUME NEW l, l # th[t].lab PROVE Here(l)' <=> Here(l)
    BY <2>1, <2>6 DEF Here, NodesOf
  <2>7. Ahead(th[t])'
    BY <2>1, <2>2, <2>6 DEF Ahead, Shape, Working
  <2>8. \A l : Done(l) => Done(l)'
    BY <2>1, DoneStays
  <2> QED BY <2>1, <2>2, <2>4, <2>5, <2>7, <2>8 DEF Behind, Working
<1>6. CASE workerReturns(t)
  <2>1. /\ UNCHANGED host /\ th[t].pc = "delete" /\ Cardinality(th[t].inflight) < th[t].workers
        /\ Live(th[t]) /\ th'[t].in = th[t].in /\ th'[t].op = th[t].op
        /\ th'[t].found = th[t].found /\ th'[t].todo = th[t].todo /\ th'[t].lab = th[t].lab
        /\ th'[t].pc = th[t].pc /\ th'[t].queue = th[t].queue
        /\ th'[t].inflight = th[t].inflight /\ th'[t].workers = th[t].workers - 1
    BY <1>1, <1>6 DEF workerReturns, At, Fields, Live
  <2>2. Shape(th[t]) /\ Ahead(th[t]) /\ Behind(th[t]) /\ Mine(th[t])
    BY <2>1 DEF Destroying
  <2>3. Shape(th[t])'
    BY <1>2, <2>1, <2>2 DEF Shape, Working
  <2>4. Mine(th[t])' /\ Close(th[t])'
    BY <2>1, <2>2, HostAlone DEF Mine, Close, Past
  <2> QED BY <2>1, <2>2, <2>3, <2>4, HostAlone DEF Ahead, Behind, Working
<1>7. CASE deleteToolContainers(t)
  <2>1. /\ th[t].pc = "delete" /\ th[t].queue = {} /\ th[t].workers = 0
        /\ UNCHANGED <<containers, network, hosts, ssh, dirs, netns>>
        /\ Live(th[t]) /\ th'[t].in = th[t].in /\ th'[t].op = th[t].op
        /\ th'[t].found = th[t].found /\ th'[t].todo = th[t].todo /\ th'[t].lab = th[t].lab
        /\ th'[t].pc = "hread" /\ th'[t].inflight = th[t].inflight
        /\ tools' = tools \ {th[t].lab}
    BY <1>1, <1>7 DEF deleteToolContainers, Goto, Logged, At, Fields, Live
  <2>2. Shape(th[t]) /\ Ahead(th[t]) /\ Behind(th[t]) /\ Mine(th[t])
    BY <2>1 DEF Destroying
  <2>3. th[t].inflight = {}
    <3>1. Cardinality(th[t].inflight) = 0
      BY <1>2, <2>1, <2>2 DEF Shape
    <3> QED BY <1>2, <3>1, FS_EmptySet
  <2>4. NodesOf(th[t].lab) = {}
    <3> SUFFICES ASSUME NEW c \in containers, c[1] = th[t].lab PROVE FALSE
      BY DEF NodesOf
    <3>1. c[2] \in Nodes /\ c = <<th[t].lab, c[2]>>
      BY DEF Named
    <3> QED BY <2>1, <2>2, <2>3, <3>1 DEF Mine
  <2>5. Shape(th[t])'
    BY <2>1, <2>2, <2>3 DEF Shape, Working
  <2>6. Mine(th[t])' /\ Close(th[t])'
    <3>1. NodesOf(th[t].lab)' = {}
      BY <2>1, <2>4 DEF NodesOf
    <3> QED BY <2>1, <3>1 DEF Mine, Close
  <2>7. ASSUME NEW l, l # th[t].lab PROVE Here(l)' <=> Here(l)
    BY <2>1, <2>7 DEF Here, NodesOf
  <2>8. Ahead(th[t])'
    BY <2>1, <2>2, <2>7 DEF Ahead, Shape, Working
  <2>9. \A l : l # th[t].lab /\ Done(l) => Done(l)'
    BY <2>1, DoneStays
  <2> QED BY <2>1, <2>2, <2>5, <2>6, <2>8, <2>9 DEF Behind, Working
<1> QED BY <1>3, <1>4, <1>5, <1>6, <1>7

\* The lines of the lab are taken out of /etc/hosts, then its other files go.
LEMMA FileSteps ==
    ASSUME HostInv, NEW t \in Threads, Active(t), clean', Files(th[t]), Destroying(th[t]),
           \/ DeleteEntriesFromHostsFile(t) \/ truncateHosts(t) \/ writeHosts(t) \/ removeLabFiles(t)
    PROVE  Destroying(th[t])'
<1> SUFFICES ASSUME Live(th'[t])
             PROVE  (Shape(th[t]) /\ Ahead(th[t]) /\ Behind(th[t]) /\ Mine(th[t]) /\ Close(th[t]))'
  BY DEF Destroying, Live
<1>1. DOMAIN th[t] = Fields /\ DOMAIN th = Threads /\ OneLab(t)
  BY Records
<1>2. th[t].found \subseteq Labs /\ th[t].lab \notin sound
  BY Known, NotDeployed DEF Goroutine
<1>a. ~HostsError(t)
  BY <1>1 DEF HostsError, Fields, Live
<1>3. CASE DeleteEntriesFromHostsFile(t)
  <2>1. th[t].pc = "hread" /\ UNCHANGED host
    BY <1>3 DEF DeleteEntriesFromHostsFile, At
  <2>2. Holds(hosts, sound)
    BY <2>1 DEF Files
  <2>3. th' = [th EXCEPT ![t].pc = "htrunc", ![t].buf = WithoutEntries(hosts, th[t].lab)]
    BY <1>3, <1>a, Zenon DEF DeleteEntriesFromHostsFile
  <2>4. Live(th[t]) /\ th'[t].in = th[t].in /\ th'[t].op = th[t].op
        /\ th'[t].found = th[t].found /\ th'[t].todo = th[t].todo /\ th'[t].lab = th[t].lab
        /\ th'[t].pc = "htrunc" /\ th'[t].buf = WithoutEntries(hosts, th[t].lab)
        /\ th'[t].inflight = th[t].inflight
    BY <1>1, <2>3 DEF Fields, Live
  <2>5. Shape(th[t]) /\ Ahead(th[t]) /\ Behind(th[t]) /\ Mine(th[t])
    BY <2>4 DEF Destroying
  <2>6. ASSUME NEW l \in th[t].found \ th[t].todo, l \notin tools PROVE NoLine(th'[t].buf, l)
    <3>1. l = th[t].lab \/ Done(l)
      BY <2>5 DEF Behind
    <3>2. l = th[t].lab \/ NoLine(hosts, l)
      BY <2>6, <3>1 DEF Done, NoTrace, LinesOf, NoLine
    <3> QED BY <1>2, <2>2, <2>4, <3>2, LinesDeleted
  <2>7. Shape(th[t])' /\ Close(th[t])'
    BY <2>1, <2>4, <2>5 DEF Shape, Close, Working
  <2>8. Mine(th[t])'
    BY <2>1, <2>4, <2>5, <2>6, HostAlone DEF Mine, Past
  <2> QED BY <2>1, <2>4, <2>5, <2>7, <2>8, HostAlone DEF Ahead, Behind, Working
<1>4. CASE truncateHosts(t)
  <2>1. /\ th[t].pc = "htrunc" /\ UNCHANGED <<containers, tools, ssh, netns>> /\ hosts' = <<>>
        /\ Live(th[t]) /\ th'[t].in = th[t].in /\ th'[t].op = th[t].op
        /\ th'[t].found = th[t].found /\ th'[t].todo = th[t].todo /\ th'[t].lab = th[t].lab
        /\ th'[t].pc = "hwrite" /\ th'[t].buf = th[t].buf /\ th'[t].inflight = th[t].inflight
    <3>1. /\ th[t].pc = "htrunc" /\ UNCHANGED <<containers, tools, ssh, netns>> /\ hosts' = <<>>
          /\ Goto(t, "hwrite")
      BY <1>4, <1>a DEF truncateHosts, At
    <3> QED BY <1>1, <3>1 DEF Goto, Fields, Live
  <2>2. Shape(th[t]) /\ Ahead(th[t]) /\ Behind(th[t]) /\ Mine(th[t])
    BY <2>1 DEF Destroying
  <2>3. Shape(th[t])' /\ Close(th[t])'
    BY <2>1, <2>2 DEF Shape, Close, Working
  <2>4. Mine(th[t])' /\ Ahead(th[t])'
    BY <2>1, <2>2 DEF Mine, Ahead, Here, Past, NodesOf
  <2>5. \A l : Done(l) => Done(l)'
    BY <2>1, DoneStays DEF NoLine
  <2> QED BY <2>1, <2>2, <2>3, <2>4, <2>5 DEF Behind, Working
<1>5. CASE writeHosts(t)
  <2>1. /\ th[t].pc = "hwrite" /\ UNCHANGED <<containers, tools, ssh, netns>>
        /\ Live(th[t]) /\ th'[t].in = th[t].in /\ th'[t].op = th[t].op
        /\ th'[t].found = th[t].found /\ th'[t].todo = th[t].todo /\ th'[t].lab = th[t].lab
        /\ th'[t].pc = (IF th[t].in = "deploy" THEN "happend" ELSE "rmfiles")
        /\ th'[t].inflight = th[t].inflight
    <3>1. /\ th[t].pc = "hwrite" /\ UNCHANGED <<containers, tools, ssh, netns>>
          /\ th' = [th EXCEPT ![t].buf = <<>>,
                              ![t].pc = IF th[t].in = "deploy" THEN "happend" ELSE "rmfiles"]
      BY <1>5, <1>a DEF writeHosts, At
    <3> QED BY <1>1, <3>1 DEF Fields, Live
  <2>2. hosts' = th[t].buf
    BY <1>5, WriteIsBuffer
  <2>3. Shape(th[t]) /\ Ahead(th[t]) /\ Behind(th[t]) /\ Mine(th[t]) /\ th[t].op # "deploy"
    BY <2>1 DEF Destroying, Live
  <2>4. th'[t].pc = "rmfiles"
    BY <2>1, <2>3 DEF Shape
  <2>5. Shape(th[t])' /\ Close(th[t])'
    BY <2>1, <2>3, <2>4 DEF Shape, Close, Working
  <2>6. NodesOf(th[t].lab)' = {} /\ th[t].lab \notin tools /\ NoLine(hosts', th[t].lab)
    BY <2>1, <2>2, <2>3 DEF Mine, Past, NodesOf, Shape, Working
  <2>7. Mine(th[t])' /\ Ahead(th[t])'
    BY <2>1, <2>3, <2>4, <2>6 DEF Mine, Ahead, Here, NodesOf
  <2>8. \A l \in th[t].found \ th[t].todo : l \notin tools => NoLine(hosts', l)
    BY <2>1, <2>2, <2>3 DEF Mine
  <2>9. \A l \in th[t].found \ th[t].todo : Done(l) => Done(l)'
    BY <2>1, <2>8, DoneStays
  <2> QED BY <2>1, <2>3, <2>4, <2>5, <2>7, <2>9 DEF Behind, Working
<1>6. CASE removeLabFiles(t)
  <2>1. /\ th[t].pc = "rmfiles" /\ UNCHANGED <<containers, tools, hosts>>
        /\ Live(th[t]) /\ th'[t].in = th[t].in /\ th'[t].op = th[t].op
        /\ th'[t].found = th[t].found /\ th'[t].todo = th[t].todo /\ th'[t].lab = th[t].lab
        /\ th'[t].pc = "dnet" /\ th'[t].inflight = th[t].inflight
        /\ ssh' = ssh \ {th[t].lab} /\ netns' = {c \in netns : c[1] # th[t].lab}
    <3>1. th[t].pc = "rmfiles" /\ UNCHANGED <<containers, tools, hosts>>
      BY <1>6 DEF removeLabFiles, At
    <3>2. ~Logged(t, "dnet")
          /\ th' # [th EXCEPT ![t].pc = "next", ![t].faulty = TRUE, ![t].err = @ \/ Counts(t)]
      BY <1>1 DEF Logged, Fields, Live
    <3>3. Goto(t, "dnet") /\ ssh' = RemoveSSHConfig(th[t].lab) /\ netns' = DeleteNetnsSymlinks(th[t].lab)
      BY <1>6, <3>2, Zenon DEF removeLabFiles
    <3> QED BY <1>1, <3>1, <3>3 DEF Goto, Fields, Live, RemoveSSHConfig, DeleteNetnsSymlinks
  <2>2. Shape(th[t]) /\ Ahead(th[t]) /\ Behind(th[t]) /\ Mine(th[t])
    BY <2>1 DEF Destroying
  <2>3. Shape(th[t])' /\ Close(th[t])'
    BY <2>1, <2>2 DEF Shape, Close, Working
  <2>4. /\ NodesOf(th[t].lab)' = {} /\ th[t].lab \notin tools' /\ NoLine(hosts', th[t].lab)
        /\ th[t].lab \notin ssh' /\ \A c \in netns' : c[1] # th[t].lab
    BY <2>1, <2>2 DEF Mine, Past, NodesOf
  <2>5. LinesOf(th[t].lab)' = {}
    BY <2>1, <2>4 DEF LinesOf, NoLine
  <2>6. Mine(th[t])' /\ Ahead(th[t])'
    BY <2>1, <2>2, <2>4, <2>5 DEF Mine, Ahead, Here, NodesOf, NoTrace
  <2>7. \A l : Done(l) => Done(l)'
    BY <2>1, DoneStays
  <2> QED BY <2>1, <2>2, <2>3, <2>6, <2>7 DEF Behind, Working
<1> QED BY <1>3, <1>4, <1>5, <1>6

\* The network goes if nothing is attached, and at the end the directories.
LEMMA EndSteps ==
    ASSUME HostInv, NEW t \in Threads, Net(th[t]), Destroying(th[t]),
           \/ DeleteNet(t) \/ NetworkRemove(t) \/ deleteMgmtNetworkFwdRule(t) \/ destroyLabDirs(t)
    PROVE  Destroying(th[t])'
<1> SUFFICES ASSUME Live(th'[t])
             PROVE  (Shape(th[t]) /\ Ahead(th[t]) /\ Behind(th[t]) /\ Mine(th[t]) /\ Close(th[t]))'
  BY DEF Destroying, Live
<1>1. DOMAIN th[t] = Fields /\ DOMAIN th = Threads /\ OneLab(t)
  BY Records
<1>2. CASE DeleteNet(t) \/ NetworkRemove(t) \/ deleteMgmtNetworkFwdRule(t)
  <2>1. /\ th[t].pc \in {"dnet", "dnetrm", "dnetrules"}
        /\ UNCHANGED <<containers, running, tools, ssh, hosts, netns>>
        /\ Live(th[t]) /\ th'[t].in = th[t].in /\ th'[t].op = th[t].op
        /\ th'[t].found = th[t].found /\ th'[t].todo = th[t].todo /\ th'[t].lab = th[t].lab
        /\ th'[t].inflight = th[t].inflight
        /\ \/ th'[t].pc \in {"dnetrm", "dnetrules"}
           \/ th'[t].pc = "next" /\ (th[t].in = "reconfigure" \/ network' = 0 \/ HasEndpoints)
    <3>1. CASE DeleteNet(t)
      BY <1>1, <3>1 DEF DeleteNet, Goto, Logged, At, Fields, Live, host
    <3>2. CASE NetworkRemove(t)
      BY <1>1, <3>2 DEF NetworkRemove, Goto, Logged, At, Fields, Live
    <3>3. CASE deleteMgmtNetworkFwdRule(t)
      <4>1. ~Logged(t, "next")
        BY <1>1 DEF Logged, Fields, Live
      <4>2. /\ th[t].pc = "dnetrules" /\ Goto(t, "next")
            /\ UNCHANGED <<containers, running, tools, network, ssh, hosts, netns>>
        BY <3>3, <4>1 DEF deleteMgmtNetworkFwdRule, At
      <4> QED BY <1>1, <4>2 DEF Goto, Fields, Live, Net
    <3> QED BY <1>2, <3>1, <3>2, <3>3
  <2>2. Shape(th[t]) /\ Ahead(th[t]) /\ Behind(th[t]) /\ Mine(th[t]) /\ th[t].op # "reconfigure"
    BY <2>1 DEF Destroying, Live
  <2>3. Shape(th[t])'
    BY <2>1, <2>2 DEF Shape, Working
  <2>4. \A l : /\ NodesOf(l)' = NodesOf(l) /\ (Here(l)' <=> Here(l)) /\ (Done(l)' <=> Done(l))
               /\ (NoTrace(l)' <=> NoTrace(l))
    BY <2>1 DEF NodesOf, Here, Done, NoTrace, LinesOf
  <2>5. Done(th[t].lab)
    BY <2>1, <2>2 DEF Mine, Done, NoTrace
  <2>6. Close(th[t])'
    BY <2>1, <2>2 DEF Close, Shape, HasEndpoints
  <2>7. Mine(th[t])'
    BY <2>1, <2>2, <2>4 DEF Mine, Past
  <2>8. Ahead(th[t])'
    BY <2>1, <2>2, <2>4 DEF Ahead
  <2>9. Behind(th[t])'
    BY <2>1, <2>2, <2>4, <2>5 DEF Behind, Working
  <2> QED BY <2>3, <2>6, <2>7, <2>8, <2>9
<1>3. CASE destroyLabDirs(t)
  <2>1. /\ th[t].pc = "labdirs" /\ UNCHANGED <<containers, running, tools, network, ssh, hosts, netns>>
        /\ Live(th[t]) /\ th'[t].in = th[t].in /\ th'[t].op = th[t].op
        /\ th'[t].found = th[t].found /\ th'[t].todo = th[t].todo /\ th'[t].lab = th[t].lab
        /\ th'[t].inflight = th[t].inflight /\ th'[t].pc = "return"
    BY <1>1, <1>3 DEF destroyLabDirs, Goto, Fail, At, Fields, Live
  <2>2. Cleanup(th[t].op) => th[t].found = {} \/ dirs' = dirs \ th[t].found
    <3>1. /\ th' # [th EXCEPT ![t].pc = "return", ![t].err = FALSE, ![t].faulty = TRUE]
          /\ ~Fail(t, "return")
      BY <1>1 DEF Fail, Fields, Live
    <3> QED BY <1>3, <3>1 DEF destroyLabDirs
  <2>3. Shape(th[t]) /\ Ahead(th[t]) /\ Behind(th[t]) /\ Close(th[t])
    BY <2>1 DEF Destroying
  <2>4. Shape(th[t])' /\ Mine(th[t])'
    BY <2>1, <2>3 DEF Shape, Mine, Working, Past
  <2>5. Close(th[t])'
    BY <2>1, <2>2, <2>3 DEF Close, HasEndpoints
  <2>6. \A l : (Here(l)' <=> Here(l)) /\ (Done(l)' <=> Done(l))
    BY <2>1 DEF Here, Done, NodesOf, NoTrace, LinesOf
  <2>7. Ahead(th[t])' /\ Behind(th[t])'
    BY <2>1, <2>3, <2>6 DEF Ahead, Behind, Working
  <2> QED BY <2>4, <2>5, <2>7
<1> QED BY <1>2, <1>3

\* The other steps are not of a destroy.
LEMMA OtherSteps ==
    ASSUME HostInv, NEW t \in Threads, Destroying(th[t]),
           \/ prepareLab(t) \/ (\E n \in Nodes : createNode(t, n) \/ StartContainer(t, n))
           \/ nodesDone(t) \/ appendHostsFileEntries(t) \/ addSSHConfig(t) \/ removeLabDirectory(t)
           \/ toolAttach(t) \/ toolCreate(t) \/ toolDetach(t)
    PROVE  Destroying(th[t])'
<1>1. DOMAIN th[t] = Fields /\ DOMAIN th = Threads
  BY Records
<1>2. th[t].pc \in {"check", "nodes", "happend", "addssh", "rmdir", "tlist", "tcreate", "tdelete"}
      /\ (Live(th'[t]) => Live(th[t]))
  <2>1. CASE prepareLab(t) \/ nodesDone(t)
    BY <1>1, <2>1 DEF prepareLab, nodesDone, Fail, Goto, At, Fields, Live
  <2>2. CASE \E n \in Nodes : createNode(t, n) \/ StartContainer(t, n)
    <3>1. ASSUME NEW n \in Nodes, createNode(t, n)
          PROVE  th[t].pc = "nodes" /\ (Live(th'[t]) => Live(th[t]))
      <4>1. /\ th[t].pc = "nodes"
            /\ \/ th' = [th EXCEPT ![t].queue = @ \ {n}, ![t].inflight = @ \cup {n}]
               \/ th' = [th EXCEPT ![t].queue = @ \ {n}, ![t].err = TRUE, ![t].faulty = TRUE]
        BY <3>1, Zenon DEF createNode, At
      <4>2. th'[t].op = th[t].op /\ (th'[t].faulty = th[t].faulty \/ th'[t].faulty)
        BY <1>1, <4>1 DEF Fields
      <4> QED BY <4>1, <4>2 DEF Live
    <3>2. ASSUME NEW n \in Nodes, StartContainer(t, n)
          PROVE  th[t].pc = "nodes" /\ (Live(th'[t]) => Live(th[t]))
      <4>1. /\ th[t].pc = "nodes"
            /\ \/ th' = [th EXCEPT ![t].inflight = @ \ {n}]
               \/ th' = [th EXCEPT ![t].inflight = @ \ {n}, ![t].err = TRUE, ![t].faulty = TRUE]
        BY <3>2, Zenon DEF StartContainer, At
      <4>2. th'[t].op = th[t].op /\ (th'[t].faulty = th[t].faulty \/ th'[t].faulty)
        BY <1>1, <4>1 DEF Fields
      <4> QED BY <4>1, <4>2 DEF Live
    <3> QED BY <2>2, <3>1, <3>2
  <2>3. CASE appendHostsFileEntries(t) \/ addSSHConfig(t) \/ removeLabDirectory(t)
    <3>1. /\ th[t].pc \in {"happend", "addssh", "rmdir"}
          /\ \/ Goto(t, "addssh") \/ Goto(t, "return") \/ Logged(t, "addssh") \/ Logged(t, "return")
             \/ Fail(t, "return") \/ th' = [th EXCEPT ![t].pc = "inspect", ![t].in = "deploy"]
      BY <2>3, Zenon DEF appendHostsFileEntries, addSSHConfig, removeLabDirectory, At
    <3> QED BY <1>1, <3>1 DEF Goto, Logged, Fail, Fields, Live
  <2>4. CASE toolAttach(t) \/ toolCreate(t) \/ toolDetach(t)
    BY <1>1, <2>4 DEF toolAttach, toolCreate, toolDetach, Fail, Goto, Logged, At, Fields, Live
  <2> QED BY <2>1, <2>2, <2>3, <2>4
<1>3. Live(th[t]) => FALSE
  BY <1>2 DEF Destroying, Shape, Working
<1> QED BY <1>2, <1>3 DEF Destroying, Live

\* A step of the only command keeps what a destroy has done.
LEMMA StepDestroys ==
    ASSUME HostInv, Named, NEW t \in Threads, Step(t), ~Return(t), clean',
           Files(th[t]), Net(th[t]), Destroying(th[t])
    PROVE  Destroying(th[t])'
<1>1. Active(t)
  BY StepIsActive
<1>2. CASE \/ NewContainerLab(t) \/ Destroy(t) \/ (\E yes \in BOOLEAN : cliPromptToDestroyAll(t, yes))
           \/ makeCopyForDestroy(t) \/ CreateNet(t)
  BY <1>2, PlanSteps
<1>3. CASE createMgmtBridge(t) \/ postCreateNetActions(t)
  BY <1>3, CopyNetSteps
<1>4. CASE \/ destroy(t) \/ deleteNodes(t) \/ (\E n \in Nodes : workerDeletes(t, n))
           \/ workerReturns(t) \/ deleteToolContainers(t)
  BY <1>4, DeleteSteps
<1>5. CASE \/ DeleteEntriesFromHostsFile(t) \/ truncateHosts(t) \/ writeHosts(t) \/ removeLabFiles(t)
  BY <1>1, <1>5, FileSteps
<1>6. CASE \/ DeleteNet(t) \/ NetworkRemove(t) \/ deleteMgmtNetworkFwdRule(t) \/ destroyLabDirs(t)
  BY <1>6, EndSteps
<1>7. CASE \/ prepareLab(t) \/ (\E n \in Nodes : createNode(t, n) \/ StartContainer(t, n))
           \/ nodesDone(t) \/ appendHostsFileEntries(t) \/ addSSHConfig(t) \/ removeLabDirectory(t)
           \/ toolAttach(t) \/ toolCreate(t) \/ toolDetach(t)
  BY <1>7, OtherSteps
<1> QED BY <1>2, <1>3, <1>4, <1>5, <1>6, <1>7 DEF Step

\* With the nftables client every rule goes with its network, or is known to be left.
LEMMA StepOwns ==
    ASSUME HostInv, ~SharedDir, Firewall = "nftables", NEW t \in Threads, Step(t), ~Return(t), clean',
           Net(th[t]), Owned(th[t])
    PROVE  Owned(th[t])'
<1>1. DOMAIN th[t] = Fields /\ DOMAIN th = Threads
  BY Records
<1>2. leaked \subseteq leaked' /\ network \in Nat
  BY StepIsActive, StepEffect, Known DEF Effect
<1>3. CASE Steady(t)
  <2>1. \A x \in rules : Kept(x)
    BY <1>3 DEF Steady, Owned
  <2> QED BY <1>2, <1>3, <2>1 DEF Steady, Owned, Kept
<1>4. CASE createMgmtBridge(t)
  <2>1. th[t].pc = "netcreate" /\ UNCHANGED rules /\ (network # 0 => network' = network)
    BY <1>4 DEF createMgmtBridge, At
  <2>2. \A x \in rules : x[1] \in leaked \/ (network # 0 /\ x[1] = network)
    BY <2>1 DEF Owned, Kept
  <2> QED BY <1>2, <2>1, <2>2 DEF Owned, Kept
<1>5. CASE postCreateNetActions(t)
  <2>1. /\ th[t].pc \in {"netnew", "netrules"} /\ UNCHANGED network
        /\ rules' \subseteq InstallForwardingRules(th[t].bridge)
    BY <1>5 DEF postCreateNetActions, InstallForwardingRules
  <2>2. th[t].bridge = network /\ network # 0
    BY <2>1 DEF Net, Knows, Knowing
  <2>3. \A x \in rules : Kept(x)
    BY <2>1 DEF Owned
  <2>4. \A x \in rules' : x[1] \in leaked \/ (x[1] # 0 /\ x[1] = network')
    BY <2>1, <2>2, <2>3 DEF InstallForwardingRules, Kept
  <2> QED BY <1>2, <2>4 DEF Owned, Kept
<1>6. CASE NetworkRemove(t)
  <2>1. /\ th[t].pc = "dnetrm" /\ UNCHANGED rules /\ th'[t].bridge = th[t].bridge
        /\ network' = network \/ (network' = 0 /\ th'[t].pc = "dnetrules")
    BY <1>1, <1>6 DEF NetworkRemove, At, Goto, Logged, Fields
  <2>2. th[t].bridge = network /\ \A x \in rules : Kept(x)
    BY <2>1 DEF Net, Knows, Knowing, Owned
  <2> QED BY <1>2, <2>1, <2>2 DEF Owned, Kept
<1>7. CASE deleteMgmtNetworkFwdRule(t)
  <2>1. /\ th[t].pc = "dnetrules" /\ UNCHANGED network
        /\ \/ rules' = IF network = th[t].bridge THEN rules ELSE DeleteForwardingRulesNft(th[t].bridge)
           \/ rules' \subseteq rules /\ th[t].bridge \in leaked'
    <3>1. ASSUME NEW kept, rules' = {r \in rules : r[1] = th[t].bridge => r \in kept}
          PROVE  rules' \subseteq rules
      BY <3>1
    <3>2. /\ th[t].pc = "dnetrules" /\ UNCHANGED network
          /\ \/ rules' = IF network = th[t].bridge THEN rules
                         ELSE DeleteForwardingRulesNft(th[t].bridge)
             \/ /\ leaked' = leaked \cup {th[t].bridge}
                /\ \E kept : rules' = {r \in rules : r[1] = th[t].bridge => r \in kept}
      BY <1>7 DEF deleteMgmtNetworkFwdRule, At
    <3> QED BY <3>1, <3>2
  <2>2. network = 0 /\ \A x \in rules : x[1] \in leaked \/ (x[1] # 0 /\ x[1] = th[t].bridge)
    BY <2>1 DEF Net, Owned, Kept
  <2>3. \A x \in rules' : x[1] \in leaked'
    BY <1>2, <2>1, <2>2 DEF DeleteForwardingRulesNft
  <2> QED BY <2>3 DEF Owned, Kept
<1> QED BY <1>3, <1>4, <1>5, <1>6, <1>7, StepKinds

\* Only createNode adds a container, named by its lab and node.
LEMMA StepNames ==
    ASSUME HostInv, Named, NEW t \in Threads, Step(t)
    PROVE  Named'
<1>1. CASE \/ Return(t) \/ NewContainerLab(t) \/ CreateNet(t) \/ createMgmtBridge(t)
           \/ postCreateNetActions(t) \/ prepareLab(t) \/ nodesDone(t)
           \/ appendHostsFileEntries(t) \/ addSSHConfig(t) \/ Destroy(t)
  BY <1>1 DEF Return, NewContainerLab, CreateNet, createMgmtBridge, postCreateNetActions, prepareLab,
              nodesDone, appendHostsFileEntries, addSSHConfig, Destroy, host, Named
<1>2. ASSUME NEW n \in Nodes, createNode(t, n) PROVE Named'
  <2>1. th[t].lab \in Labs \cup {"none"}
    BY Known DEF Goroutine
  <2>2. containers' \subseteq containers \cup {<<th[t].lab, n>>}
    BY <1>2 DEF createNode
  <2> QED BY <2>1, <2>2 DEF Named
<1>3. ASSUME NEW n \in Nodes, StartContainer(t, n) \/ workerDeletes(t, n) PROVE Named'
  BY <1>3 DEF StartContainer, workerDeletes, Named
<1>4. CASE \/ (\E yes \in BOOLEAN : cliPromptToDestroyAll(t, yes))
           \/ makeCopyForDestroy(t) \/ destroy(t) \/ deleteNodes(t) \/ workerReturns(t)
           \/ deleteToolContainers(t) \/ DeleteEntriesFromHostsFile(t) \/ truncateHosts(t)
           \/ writeHosts(t) \/ removeLabFiles(t)
  BY <1>4 DEF cliPromptToDestroyAll, makeCopyForDestroy, destroy, deleteNodes, workerReturns,
              deleteToolContainers, DeleteEntriesFromHostsFile, truncateHosts, writeHosts,
              removeLabFiles, host, Named
<1>5. CASE \/ DeleteNet(t) \/ NetworkRemove(t) \/ deleteMgmtNetworkFwdRule(t)
           \/ removeLabDirectory(t) \/ destroyLabDirs(t)
           \/ toolAttach(t) \/ toolCreate(t) \/ toolDetach(t)
  BY <1>5 DEF DeleteNet, NetworkRemove, deleteMgmtNetworkFwdRule, removeLabDirectory,
              destroyLabDirs, toolAttach, toolCreate, toolDetach, host, Named
<1> QED BY <1>1, <1>2, <1>3, <1>4, <1>5 DEF Step

\* A step before the return of the command.
LEMMA StepKeepsLeft ==
    ASSUME HostInv, CleanInv, LeftInv, ~SharedDir, Firewall = "nftables",
           NEW t \in Threads, Step(t), ~Return(t)
    PROVE  LeftInv'
<1>1. Active(t) /\ Effect(t) /\ Named'
  BY StepIsActive, StepEffect, StepNames DEF LeftInv
<1>2. /\ UNCHANGED last /\ (clean' => clean) /\ th'[t].pc # "idle"
      /\ \A u \in Threads \ {t} : Undisturbed(t, u)
  BY <1>1 DEF Effect, Onward
<1>3. CASE ~clean'
  BY <1>1, <1>2, <1>3 DEF LeftInv, DestroyLeavesNothing
<1>4. CASE clean'
  <2>1. /\ Single /\ Files(th[t]) /\ Net(th[t]) /\ Destroying(th[t]) /\ Owned(th[t])
        /\ last.op = "none" /\ Named
    BY <1>1, <1>2, <1>4 DEF CleanInv, LeftInv
  <2>2. \A u \in Threads \ {t} : ~Active(u)'
    BY <1>1, <1>2, <2>1 DEF Single, Active, Undisturbed
  <2>3. Destroying(th[t])' /\ Owned(th[t])'
    BY <1>4, <2>1, StepDestroys, StepOwns
  <2>4. DestroyLeavesNothing'
    BY <1>2, <2>1 DEF DestroyLeavesNothing
  <2>5. Active(t)'
    BY <1>2 DEF Active
  <2>6. \A u \in Threads : Active(u)' => Destroying(th[u])' /\ Owned(th[u])' /\ last'.op = "none"
    BY <1>2, <2>1, <2>2, <2>3
  <2> QED BY <1>1, <1>2, <2>4, <2>5, <2>6 DEF LeftInv
<1> QED BY <1>3, <1>4

\* A destroy that returns has done all of it.
LEMMA ReturnKeepsLeft ==
    ASSUME HostInv, CleanInv, LeftInv, NEW t \in Threads, Return(t)
    PROVE  LeftInv'
<1>1. /\ Active(t) /\ th[t].pc = "return" /\ UNCHANGED <<host, clean, leaked>> /\ Named'
  BY StepNames DEF Return, At, Active, ghost, LeftInv, Step
<1>2. /\ "op" \in DOMAIN last'
      /\ \/ /\ th' = [th EXCEPT ![t].pc = "new", ![t].in = "deploy"] /\ th[t].op = "redeploy"
            /\ UNCHANGED last
         \/ /\ Exit(t[1])
            /\ last' = [op |-> th[t].op, lab |-> th[t].lab, ok |-> ~th[t].err, found |-> th[t].found,
                        exact |-> ~th[t].faulty]
  BY DEF Return, ghost, LeftInv
<1>3. CASE ~clean
  BY <1>1, <1>2, <1>3 DEF LeftInv, DestroyLeavesNothing
<1>4. CASE clean
  <2>1. /\ Single /\ Destroying(th[t]) /\ Owned(th[t]) /\ last.op = "none"
    BY <1>1, <1>4 DEF CleanInv, LeftInv
  <2>2. \A u \in Threads \ {t} : ~Active(u)
    BY <1>1, <2>1 DEF Single
  <2>3. \A x \in rules : Kept(x)
    BY <1>1, <2>1 DEF Owned
  <2>a. (\A x \in rules : Kept(x))'
    BY <1>1, <2>3 DEF Kept, host
  <2>4. CASE /\ th' = [th EXCEPT ![t].pc = "new", ![t].in = "deploy"] /\ th[t].op = "redeploy"
             /\ UNCHANGED last
    <3>1. DOMAIN th[t] = Fields /\ DOMAIN th = Threads
      BY Records
    <3>2. th'[t].pc = "new" /\ th'[t].op = "redeploy" /\ \A u \in Threads \ {t} : th'[u] = th[u]
      BY <2>4, <3>1 DEF Fields
    <3>3. Destroying(th[t])' /\ Owned(th[t])'
      BY <1>1, <2>a, <3>2 DEF Destroying, Live, Owned, host
    <3>4. DestroyLeavesNothing'
      BY <2>1, <2>4 DEF DestroyLeavesNothing
    <3>5. Active(t)' /\ \A u \in Threads \ {t} : ~Active(u)'
      BY <2>2, <3>2 DEF Active
    <3> QED BY <1>1, <1>2, <2>1, <2>4, <3>3, <3>4, <3>5 DEF LeftInv
  <2>5. CASE /\ Exit(t[1])
             /\ last' = [op |-> th[t].op, lab |-> th[t].lab, ok |-> ~th[t].err, found |-> th[t].found,
                         exact |-> ~th[t].faulty]
    <3>1. \A u \in Threads : ~Active(u)'
      BY <2>2, <2>5 DEF Exit, Active, NoThread
    <3>2. DestroyLeavesNothing'
      <4> SUFFICES ASSUME last'.op \in {"destroy", "cleanup", "destroyAll", "cleanupAll"}, last'.exact
                   PROVE  /\ \A l \in last'.found : NodesOf(l)' = {} /\ (l \notin tools' => NoTrace(l)')
                          /\ Cleanup(last'.op) => last'.found \cap dirs' = {}
                          /\ last'.found # {} /\ ~HasEndpoints' =>
                               network' = 0 /\ \A x \in rules' : x[1] \in leaked'
        BY DEF DestroyLeavesNothing
      <4>1. last'.op = th[t].op /\ last'.found = th[t].found /\ Live(th[t])
        BY <2>5 DEF Live
      <4>2. Shape(th[t]) /\ Behind(th[t]) /\ Close(th[t])
        BY <2>1, <4>1 DEF Destroying
      <4>3. th[t].todo = {} /\ \A l \in th[t].found : Done(l)
        BY <1>1, <4>2 DEF Shape, Behind, Working
      <4>4. \A l \in th[t].found : NodesOf(l)' = {} /\ (l \notin tools' => NoTrace(l)')
        BY <1>1, <4>3, HostAlone DEF Done
      <4>5. Cleanup(th[t].op) => th[t].found \cap dirs' = {}
        BY <1>1, <4>2 DEF Close, host
      <4>6. th[t].found # {} /\ ~HasEndpoints' => network = 0
        BY <1>1, <4>2, <4>3, HostAlone DEF Close
      <4>7. network = 0 => \A x \in rules : x[1] \in leaked
        BY <2>3 DEF Kept
      <4> QED BY <1>1, <4>1, <4>4, <4>5, <4>6, <4>7 DEF host
    <3> QED BY <1>1, <1>2, <2>a, <3>1, <3>2 DEF LeftInv
  <2> QED BY <1>2, <2>4, <2>5
<1> QED BY <1>3, <1>4

\* A command starts with nothing found.
LEMMA CommandKeepsLeft ==
    ASSUME HostInv, LeftInv, NEW p \in Procs, NEW op \in Commands,
           NEW l \in IF AllLabs(op) THEN {"none"} ELSE Labs, Command(p, op, l)
    PROVE  LeftInv'
<1> DEFINE m == <<p, "main">>
<1>1. /\ UNCHANGED <<host, leaked>> /\ clean' = (clean /\ {q \in Procs \ {p} : Running(q)} = {}) /\ ~Running(p)
      /\ last' = [last EXCEPT !.op = "none"]
  BY DEF Command
<1>2. Named' /\ "op" \in DOMAIN last' /\ last'.op = "none" /\ DestroyLeavesNothing'
  BY <1>1 DEF LeftInv, Named, host, DestroyLeavesNothing
<1>3. ASSUME clean'
      PROVE  /\ \A u \in Threads : Active(u)' => Destroying(th[u])' /\ Owned(th[u])'
             /\ Active(m)' /\ m \in Threads
  <2>1. \A u \in Threads : ~Active(u)
    <3>1. \A q \in Procs : HandlerIsLate(q) /\ ~Active(<<q, "main">>)
      BY <1>1, <1>3 DEF HostInv, Running, Active
    <3>2. \A q \in Procs : ~Active(<<q, "handler">>)
      BY <3>1 DEF HandlerIsLate
    <3> QED BY <3>1, <3>2 DEF Threads
  <2>2. clean /\ \A x \in rules : Kept(x)
    BY <1>1, <1>3, <2>1 DEF LeftInv
  <2>3. m \in Threads /\ \A u \in Threads \ {m} : ~Active(u)'
    <3>1. \A u \in Threads \ {m} : th'[u] = th[u]
      BY <2>1 DEF Command, Active
    <3> QED BY <2>1, <3>1 DEF Active, Threads
  <2>4. /\ th'[m].pc = "new" /\ th'[m].op = op /\ th'[m].in = (IF op = "redeploy" THEN "destroy" ELSE op)
        /\ th'[m].found = {} /\ th'[m].todo = {} /\ th'[m].inflight = {}
    BY <2>3 DEF Command, NoThread
  <2>5. Destroying(th[m])'
    BY <2>4 DEF Destroying, Live, Shape, Ahead, Behind, Mine, Close, Working, Past
  <2>6. Owned(th[m])'
    BY <1>1, <2>2, <2>4 DEF Owned, Kept, host
  <2>7. Active(m)'
    BY <2>4 DEF Active
  <2> QED BY <2>3, <2>5, <2>6, <2>7
<1> QED BY <1>2, <1>3 DEF LeftInv

\* Before the first command.
LEMMA LeftInit == Init => LeftInv
<1> SUFFICES ASSUME Init PROVE LeftInv
  OBVIOUS
<1>1. \A t \in Threads : ~Active(t)
  BY DEF Init, Active, NoThread
<1>2. Named /\ "op" \in DOMAIN last /\ last.op = "none"
  BY DEF Init, Named
<1>3. \A x \in rules : Kept(x)
  BY DEF Init, Kept
<1> QED BY <1>1, <1>2, <1>3 DEF LeftInv, DestroyLeavesNothing

\* Every step keeps it.
LEMMA LeftNext ==
    ASSUME ~SharedDir, Firewall = "nftables"
    PROVE  HostInv /\ CleanInv /\ LeftInv /\ [Next]_vars => LeftInv'
<1> SUFFICES ASSUME HostInv, CleanInv, LeftInv, [Next]_vars PROVE LeftInv'
  OBVIOUS
<1>1. ASSUME NEW p \in Procs, NEW op \in Commands,
             NEW l \in IF AllLabs(op) THEN {"none"} ELSE Labs, Command(p, op, l)
      PROVE  LeftInv'
  BY <1>1, CommandKeepsLeft
<1>2. ASSUME NEW p \in Procs, SignalHandledContext(p) PROVE LeftInv'
  BY <1>2 DEF SignalHandledContext, LeftInv, Named, DestroyLeavesNothing, host
<1>3. ASSUME UNCHANGED <<host, th, ghost>> PROVE LeftInv'
  <2>1. Named' /\ "op" \in DOMAIN last' /\ UNCHANGED <<clean, leaked, last, rules, network, th>>
    BY <1>3 DEF LeftInv, Named, host, ghost
  <2>2. \A t \in Threads : Active(t)' = Active(t) /\ (Owned(th[t]) => Owned(th[t])')
    BY <2>1 DEF Active, Owned, Kept
  <2>a. (\A x \in rules : Kept(x)) => (\A x \in rules : Kept(x))'
    BY <2>1 DEF Kept
  <2>3. ASSUME NEW t \in Threads, Destroying(th[t]) PROVE Destroying(th[t])'
    BY <1>3, <2>3, HostAlone DEF Destroying, Live, Shape, Ahead, Behind, Mine, Close
  <2>4. DestroyLeavesNothing => DestroyLeavesNothing'
    BY <1>3, <2>1, HostAlone DEF DestroyLeavesNothing
  <2> QED BY <2>1, <2>2, <2>3, <2>4, <2>a DEF LeftInv
<1>4. ASSUME NEW p \in Procs, destroyTimeout(p) PROVE LeftInv'
  BY <1>3, <1>4 DEF destroyTimeout
<1>5. ASSUME NEW t \in Threads, Step(t) PROVE LeftInv'
  BY <1>5, StepKeepsLeft, ReturnKeepsLeft
<1>6. CASE UNCHANGED vars
  BY <1>3, <1>6 DEF vars
<1> QED BY <1>1, <1>2, <1>4, <1>5, <1>6 DEF Next

\* What a destroy has done so far, in every reachable state.
THEOREM LeftInvHolds ==
    ASSUME ~SharedDir, Nodes # {}, Firewall = "nftables"
    PROVE  Spec => []LeftInv
<1>1. Spec => []HostInv /\ []CleanInv
  BY HostInvHolds, CleanInvHolds
<1>2. Init => LeftInv
  BY LeftInit
<1>3. HostInv /\ CleanInv /\ LeftInv /\ [Next]_vars => LeftInv'
  BY LeftNext
<1> QED BY <1>1, <1>2, <1>3, PTL DEF Spec

\* A destroy, of one lab or with --all of any number of them, that found containers and met no
\* failing call leaves no container, tool container, ssh file, netns link or line in /etc/hosts of
\* the labs it found and with --cleanup no directory, and when nothing is left on the host no
\* network, if no commands overlapped, were interrupted or cut a write to /etc/hosts short so far;
\* whichever calls of the commands before it failed, and for any number of workers.  The rules
\* left then are of networks whose rules an earlier command could not remove, which it only warns
\* about.  With the iptables client this is false: the rule of one direction stays.
THEOREM DestroyTheorem ==
    ASSUME ~SharedDir, Nodes # {}, Firewall = "nftables"
    PROVE  Spec => []DestroyLeavesNothing
<1>1. LeftInv => DestroyLeavesNothing
  BY DEF LeftInv
<1> QED BY <1>1, LeftInvHolds, PTL

\* With the nftables client the rules are removed together with the network, as
\* docs/manual/network.md has it, whichever calls fail but the removal of the rules itself: when
\* there is no network, a rule belongs to one whose removal of rules failed and was only warned
\* about - or the command is between the removal of the network and that of its rules.
THEOREM RulesTheorem ==
    ASSUME ~SharedDir, Nodes # {}, Firewall = "nftables"
    PROVE  Spec => []RulesGoWithNetwork
<1>1. LeftInv => RulesGoWithNetwork
  <2> SUFFICES ASSUME LeftInv, clean, network = 0, \A t \in Threads : ~At(t, "dnetrules")
               PROVE  \A x \in rules : x[1] \in leaked
    BY DEF RulesGoWithNetwork
  <2>1. CASE \A t \in Threads : ~Active(t)
    BY <2>1 DEF LeftInv, Kept
  <2>2. ASSUME NEW t \in Threads, Active(t) PROVE \A x \in rules : x[1] \in leaked
    BY <2>2 DEF LeftInv, Owned, Kept, At
  <2> QED BY <2>1, <2>2
<1> QED BY <1>1, LeftInvHolds, PTL

=============================================================================
