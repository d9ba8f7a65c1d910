----------------------------- MODULE NodeConfig -----------------------------
(***************************************************************************)
(* One node of any kind from its topology file to its configuration, over  *)
(* several deployments that share a lab directory.                         *)
(*                                                                         *)
(* Parsing resolves the settings of the node (module Topology), links give *)
(* it endpoints, the deployment conditions are checked, the certificate    *)
(* authority and the node's certificate are loaded or generated, PreDeploy *)
(* leaves a boot configuration in the lab directory, the container boots   *)
(* from it and PostDeploy configures the running node. The user changes    *)
(* the running configuration, saves it, and destroys the lab with or       *)
(* without its directory. What the kinds do differently is in NodeKinds.   *)
(*                                                                         *)
(* A configuration is the set of what it contains: "default" (what the     *)
(* image or containerlab's template brings), "startup" (the startup-config *)
(* of the topology) and "user" (what was changed on the running node).     *)
(***************************************************************************)
EXTENDS NodeKinds, Topology

CONSTANTS
    Topologies,     \* the topology files: records of Topology and Links
    MaxDeploys      \* bound: deployments of the lab

ASSUME MaxDeploysAssumption == MaxDeploys \in Nat \ {0}

(* A startup-config is a complete one, a partial one by the name of its file*)
(* or its format, or text inside the topology file.                         *)
ASSUME StartupAssumption ==
    \A t \in Topologies : \A i \in 1..4 :
        Levels(t)[i].startup \in {Unset, "full", "partial", "embedded"}

(* The links section names interfaces of the node.                          *)
ASSUME LinksAssumption ==
    \A t \in Topologies : t.Links \in Seq([form : Forms, port : Nat])

(* wait-for is a list of entries, here by their names.                      *)
ASSUME WaitForAssumption ==
    \A t \in Topologies : \A i \in 1..4 : Levels(t)[i].stage.waitFor \in Seq(STRING)

VARIABLES
    topo,       \* the topology file
    phase,      \* how far the deployment of the node has come
    cfg,        \* NodeConfig: the settings of the node
    eps,        \* names in the kernel of the node's endpoints
    disk,       \* the node's directory: the boot file and the inner storage
    certs,      \* the CA and the node certificate in .tls, by who signed them
    running,    \* the configuration of the running node
    deploys,    \* deployments started
    fresh,      \* the node's directory had no files at PreDeploy (iol: firstBoot)
    touched,    \* history: the user changed the node in this deployment
    saved       \* history: what the last successful save saved

vars == <<topo, phase, cfg, eps, disk, certs, running, deploys, fresh, touched, saved>>

Absent == {"absent"}
Layers == {"default", "startup", "user"}
NoDisk == [boot |-> Absent, inner |-> Absent]

(* A certificate is named by the authority that signed it: the ones made    *)
(* for the lab are numbered; a file without its key cannot be loaded.       *)
NoCert == 0
ExternalCA == 1000
NoCerts == [ca |-> NoCert, caKey |-> FALSE, node |-> NoCert, nodeKey |-> FALSE, made |-> 0]

Kind == Registry[cfg.kind]
NoCfg == [kind |-> Unset]

Init ==
    /\ topo \in Topologies
    /\ phase = "file" /\ cfg = NoCfg /\ eps = << >>
    /\ disk = NoDisk /\ certs = NoCerts /\ running = Absent
    /\ deploys = 0 /\ fresh = TRUE /\ touched = FALSE /\ saved = Absent

Fail == phase' = "failed"

----------------------------------------------------------------------------
(* Parsing.                                                                 *)

(* A startup-config inside the topology file becomes embedded.partial.cfg,  *)
(* and a downloaded one is a file of its own name.                          *)
processStartupConfig(t) ==
    LET startup == GetNodeStartupConfig(t) IN IF startup = "embedded" THEN "partial" ELSE startup

createNodeCfg(t) ==
    [kind |-> GetNodeKind(t), group |-> GetNodeGroup(t),
     startup |-> processStartupConfig(t),
     enforce |-> GetNodeEnforceStartupConfig(t) = "true",
     suppress |-> GetNodeSuppressStartupConfig(t) = "true",
     license |-> GetNodeLicense(t), networkMode |-> GetNodeNetworkMode(t),
     issue |-> GetCertificateConfig(t) = "true",
     binds |-> GetNodeBinds(t), env |-> GetNodeEnv(t), stage |-> GetStages(t),
     credentials |-> Credentials(t, "admin")]

(* The kinds with TLS always on overwrite the certificate settings in Init. *)
NewNode ==
    /\ phase = "file" /\ deploys < MaxDeploys
    /\ deploys' = deploys + 1 /\ eps' = << >> /\ touched' = FALSE
    /\ IF GetNodeKind(topo) \notin DOMAIN Registry
       THEN Fail /\ cfg' = NoCfg
       ELSE LET c == createNodeCfg(topo)
            IN /\ cfg' = [c EXCEPT !.issue = @ \/ Registry[c.kind].issue]
               /\ phase' = "parsed"
    /\ UNCHANGED <<topo, disk, certs, running, fresh, saved>>

----------------------------------------------------------------------------
(* Endpoints.                                                               *)

(* Mutant: the first port is taken to be port 0.                            *)
CalculateInterfaceIndexFromZero(n, port) == port + n.first

CalculateInterfaceIndex(n, port) == port - n.offset + n.first

GetMappedInterfaceName(n, name) ==
    [form |-> n.mapped, port |-> CalculateInterfaceIndex(n, name.port)]

(* Whether the mapping of an alias is an error.                             *)
Unmapped(n, name) == CalculateInterfaceIndex(n, name.port) < n.first

(* SR Linux and SR-SIM: every index of the name counts from one.            *)
GetMappedInterfaceNameSrl(n, name) == [form |-> n.mapped, port |-> name.port]

(* Groups of four ports; e0/0 is the management interface and is left as it *)
(* is, for CheckInterfaceName to refuse.                                    *)
iolMappedInterfaceName(name) ==
    IF name.port = 0 THEN name
    ELSE [form |-> "eth", port |-> (name.port \div 4) * 4 + (name.port % 4)]

Added(name) == eps' = Append(eps, name) /\ UNCHANGED phase
Refused == Fail /\ UNCHANGED eps

(* DefaultNode.AddEndpoint: what looks like an alias is mapped.             *)
AddEndpoint(name) ==
    /\ Kind.add = "default"
    /\ IF ~Kind.alias \/ name.form # "alias" THEN Added(name)
       ELSE IF Unmapped(Kind, name) THEN Refused
            ELSE Added(GetMappedInterfaceName(Kind, name))

AddEndpointSrl(name) ==
    /\ Kind.add = "srl"
    /\ IF name.form # "alias" THEN Added(name)
       ELSE IF name.port < 1 THEN Refused ELSE Added(GetMappedInterfaceNameSrl(Kind, name))

(* VRNode.AddEndpoint: what is not ethN, N > 0, must be an alias.           *)
AddEndpointVr(name) ==
    /\ Kind.add = "vr"
    /\ IF ~Kind.alias \/ (name.form = "eth" /\ name.port > 0) THEN Added(name)
       ELSE IF name.form # "alias" \/ Unmapped(Kind, name) THEN Refused
            ELSE Added(GetMappedInterfaceName(Kind, name))

(* spirent_stc: every name must match the pattern, port1 to port9.          *)
AddEndpointStrict(name) ==
    /\ Kind.add = "strict"
    /\ IF name.form # "alias" \/ name.port \notin 1..9 \/ Unmapped(Kind, name) THEN Refused
       ELSE Added(GetMappedInterfaceName(Kind, name))

AddEndpointIol(name) ==
    /\ Kind.add = "iol"
    /\ Added(IF name.form = "alias" THEN iolMappedInterfaceName(name) ELSE name)

(* ResolveLinks adds the endpoints of the links section in order.           *)
ResolveLink ==
    /\ phase = "parsed" /\ Len(eps) < Len(topo.Links)
    /\ LET name == topo.Links[Len(eps) + 1]
       IN \/ AddEndpoint(name) \/ AddEndpointVr(name) \/ AddEndpointStrict(name)
          \/ AddEndpointSrl(name) \/ AddEndpointIol(name)
    /\ UNCHANGED <<topo, cfg, disk, certs, running, deploys, fresh, touched, saved>>

----------------------------------------------------------------------------
(* Deployment conditions.                                                   *)

CheckEndpointUniqueness == \A i, j \in DOMAIN eps : i # j => eps[i] # eps[j]

CheckInterfaceOverlap == CheckEndpointUniqueness

IsMgmt(n, name) == name.port = 0 /\ name.form \in n.zero

CheckInterfaceName(n) ==
    /\ n.overlap => CheckInterfaceOverlap
    /\ \A i \in DOMAIN eps :
         /\ eps[i].form \in n.forms
         /\ IsMgmt(n, eps[i]) =>
               \/ n.mgmt = "allowed"
               \/ n.mgmt = "unmanaged" /\ cfg.networkMode = "none"

VerifyLicenseFileExists(n) == cfg.license = Unset => n.license # "required"

(* verifyLinks, then the conditions of the node. The host may lack what the *)
(* kind requires, and files that were named may be missing.                 *)
CheckDeploymentConditions ==
    /\ phase = "parsed" /\ Len(eps) = Len(topo.Links)
    /\ \/ /\ CheckEndpointUniqueness
          /\ CheckInterfaceName(Kind)
          /\ VerifyLicenseFileExists(Kind)
          /\ phase' = "checked"
       \/ /\ \/ ~CheckEndpointUniqueness
             \/ ~CheckInterfaceName(Kind)
             \/ ~VerifyLicenseFileExists(Kind)
             \/ Kind.virt                           \* VerifyHostRequirements
             \/ cfg.startup # Unset                 \* VerifyStartupConfig
             \/ cfg.license # Unset
          /\ Fail
    /\ UNCHANGED <<topo, cfg, eps, disk, certs, running, deploys, fresh, touched, saved>>

----------------------------------------------------------------------------
(* Certificates.                                                            *)

LoadCaCert == certs.ca # NoCert /\ certs.caKey
LoadNodeCert == certs.node # NoCert /\ certs.nodeKey

(* Mutant: the stored CA is not looked for.                                 *)
GenerateCA ==
    IF topo.CA = "external" THEN certs
    ELSE [certs EXCEPT !.ca = certs.made + 1, !.caKey = TRUE, !.made = @ + 1]

(* The CA that signs: the external one, the stored one, or a new one.       *)
LoadOrGenerateCA ==
    IF topo.CA = "external" \/ LoadCaCert THEN certs
    ELSE [certs EXCEPT !.ca = certs.made + 1, !.caKey = TRUE, !.made = @ + 1]

(* Certificate.Write writes the certificate, then its key: the program may  *)
(* end between the two.                                                     *)
certificateAuthoritySetup ==
    /\ phase = "checked"
    /\ \/ certs' = LoadOrGenerateCA /\ phase' = "authorised"
       \/ /\ LoadOrGenerateCA # certs
          /\ certs' = [LoadOrGenerateCA EXCEPT !.caKey = FALSE] /\ Fail
    /\ UNCHANGED <<topo, cfg, eps, disk, running, deploys, fresh, touched, saved>>

CACert == IF topo.CA = "external" THEN ExternalCA ELSE certs.ca

(* A certificate that can be loaded is used, whoever signed it.             *)
LoadOrGenerateCertificate ==
    IF ~cfg.issue \/ LoadNodeCert THEN certs
    ELSE [certs EXCEPT !.node = CACert, !.nodeKey = TRUE]

(* The certificate is stored, if the kind issues it at this point.          *)
StoreNodeCert(when) ==
    certs' = IF Kind.cert = when THEN LoadOrGenerateCertificate ELSE certs

(* It is not: nothing was written, or the certificate and not its key.      *)
NotStored(when) ==
    /\ Kind.cert = when /\ LoadOrGenerateCertificate # certs
    /\ certs' \in {certs, [certs EXCEPT !.node = CACert]}

----------------------------------------------------------------------------
(* The boot configuration that PreDeploy leaves.                            *)

ErrIncompatibleOptions == cfg.enforce /\ cfg.suppress
ErrNoStartupConfig == cfg.enforce /\ cfg.startup = Unset
CannotGenerate == ErrIncompatibleOptions \/ ErrNoStartupConfig

(* Mutant: an existing file is overwritten.                                 *)
GenerateConfigAlways(old, template) == IF cfg.suppress THEN old ELSE template

(* Mutant: an existing file is kept, enforced or not.                       *)
GenerateConfigOnce(old, template) ==
    IF cfg.suppress \/ old # Absent THEN old ELSE template

GenerateConfig(old, template) ==
    IF cfg.suppress \/ (~cfg.enforce /\ old # Absent) THEN old ELSE template

Template == IF cfg.startup = Unset THEN {"default"} ELSE {"startup"}

Boot(content) == disk' = [disk EXCEPT !.boot = content] /\ phase' = "prepared"

LoadNothing == Kind.load \in {"none", "direct"} /\ Boot(disk.boot)

(* Errors of GenerateConfig are only logged here.                           *)
LoadStartupConfigFileVr ==
    /\ Kind.load = "vr"
    /\ Boot(IF cfg.startup = Unset \/ CannotGenerate THEN disk.boot
            ELSE GenerateConfig(disk.boot, {"startup"}))

GenerateFromTemplate ==
    /\ Kind.load = "generate"
    /\ IF CannotGenerate THEN Fail /\ UNCHANGED disk
       ELSE Boot(GenerateConfig(disk.boot, Template))

createARCOSFiles == Kind.load = "always" /\ Boot(Template)

(* cloud-init files only: any other name is refused.                        *)
createCiscoSdwanFiles ==
    /\ Kind.load = "copyOnce"
    /\ \/ Boot(IF cfg.startup = Unset \/ disk.boot # Absent THEN disk.boot ELSE {"startup"})
       \/ cfg.startup # Unset /\ Fail /\ UNCHANGED disk

(* What SaveConfig wrote replaces the consolidated file; otherwise the      *)
(* startup configuration does, and the default one is appended.             *)
consolidate ==
    /\ Kind.load = "consolidate"
    /\ Boot(IF disk.inner # Absent THEN disk.inner
            ELSE {"default"} \cup (IF cfg.startup # Unset THEN {"startup"}
                                   ELSE disk.boot \ Absent))

createVrSROSFiles ==
    /\ Kind.load = "vrsros"
    /\ Boot(IF cfg.startup \in {Unset, "partial"} \/ disk.boot # Absent \/ CannotGenerate
            THEN disk.boot ELSE GenerateConfig(disk.boot, {"startup"}))

(* A configuration in CLI format is left to PostDeploy.                     *)
createSRLFiles ==
    /\ Kind.load = "srl"
    /\ IF cfg.startup # "full" THEN Boot(disk.boot)
       ELSE IF CannotGenerate THEN Fail /\ UNCHANGED disk
            ELSE Boot(GenerateConfig(disk.boot, {"startup"}))

(* The NVRAM is created, empty, unless it is there; the boot file is        *)
(* emptied.                                                                 *)
CreateIOLFiles == Kind.load = "nvram" /\ Boot({})

LoadBootConfig ==
    \/ LoadNothing \/ LoadStartupConfigFileVr \/ GenerateFromTemplate \/ createARCOSFiles
    \/ createCiscoSdwanFiles \/ consolidate \/ createVrSROSFiles \/ createSRLFiles
    \/ CreateIOLFiles

PreDeploy ==
    /\ phase = "authorised"
    /\ fresh' = (disk = NoDisk)
    /\ \/ StoreNodeCert("pre") /\ LoadBootConfig
       \/ NotStored("pre") /\ Fail /\ UNCHANGED disk
    /\ UNCHANGED <<topo, cfg, eps, running, deploys, touched, saved>>

----------------------------------------------------------------------------
(* Boot and PostDeploy.                                                     *)

(* External: the image reads its inner storage if that has a configuration, *)
(* the mounted boot file otherwise.                                         *)
Booted(d) ==
    LET source == IF Kind.store = "inner" /\ d.inner # Absent THEN d.inner ELSE d.boot
    IN {"default"} \cup (IF Kind.mount THEN source \ Absent ELSE {})
                   \cup (IF Kind.load = "direct" THEN Template ELSE {})

(* CreateContainer and StartContainer; an image may not be there.           *)
Deploy ==
    /\ phase = "prepared"
    /\ \/ /\ phase' = "deployed"
          /\ running' = IF Kind.extern /\ running # Absent THEN running ELSE Booted(disk)
       \/ Fail /\ UNCHANGED running
    /\ UNCHANGED <<topo, cfg, eps, disk, certs, deploys, fresh, touched, saved>>

Ready == phase' = "ready"

PostNothing == Kind.post = "none" /\ Ready /\ UNCHANGED <<disk, running>>

(* Addresses are configured and the running configuration is written.       *)
PostSave ==
    /\ Kind.post = "save" /\ Ready
    /\ disk' = [disk EXCEPT !.boot = running] /\ UNCHANGED running

(* Nothing is saved either when the container has ended or did not become   *)
(* healthy in time.                                                         *)
srosPostSave ==
    /\ Kind.post = "saveUnlessFull" /\ Ready /\ UNCHANGED running
    /\ \/ cfg.startup # "full" /\ disk' = [disk EXCEPT !.boot = running]
       \/ UNCHANGED disk

(* The image waits for this file. A node with an NVRAM that is not booted   *)
(* for the first time is told on its console to set its address and to      *)
(* write its memory, which nobody waits for.                                *)
genBootConfig ==
    /\ Kind.post = "bootConfig" /\ Ready
    /\ LET d == [disk EXCEPT !.boot = {"default"} \cup (Template \cap {"startup"})]
       IN /\ running' = Booted(d)
          /\ \/ disk' = d
             \/ Kind.store = "inner" /\ ~fresh /\ disk' = [d EXCEPT !.inner = running']

(* vr-sros: the partial configuration, if there was none before, and the    *)
(* public keys of the host, if it has any, are applied and saved.           *)
applyPartialConfig ==
    /\ Kind.post = "partial" /\ Ready
    /\ LET partial == cfg.startup = "partial" /\ disk.boot = Absent
       IN \/ /\ running' = running \cup (IF partial THEN {"startup"} ELSE {})
             /\ disk' = [disk EXCEPT !.boot = running']
          \/ ~partial /\ UNCHANGED <<disk, running>>

(* SR Linux: a configuration that exists is left alone.                     *)
addOverlayCLIConfig ==
    /\ Kind.post = "overlay" /\ Ready
    /\ IF disk.boot # Absent THEN UNCHANGED <<disk, running>>
       ELSE /\ running' = running \cup (IF cfg.startup = "partial" THEN {"startup"} ELSE {})
            /\ disk' = [disk EXCEPT !.boot = running']

Configure ==
    \/ PostNothing \/ PostSave \/ srosPostSave \/ genBootConfig \/ applyPartialConfig
    \/ addOverlayCLIConfig

Degraded == phase' = "degraded" /\ UNCHANGED <<disk, running>>

(* An error of PostDeploy is logged by the worker; IOL gives up when it     *)
(* cannot find the management veth, and reports no error.                   *)
PostDeploy ==
    /\ phase = "deployed"
    /\ \/ StoreNodeCert("post") /\ (Configure \/ (Kind.post # "none" /\ Degraded))
       \/ NotStored("post") /\ Degraded
    /\ UNCHANGED <<topo, cfg, eps, deploys, fresh, touched, saved>>

----------------------------------------------------------------------------
(* The life of the node.                                                    *)

Up == phase \in {"deployed", "ready", "degraded"}

(* External: the user configures the node.                                  *)
UserEdits ==
    /\ Up /\ "user" \notin running
    /\ running' = running \cup {"user"} /\ touched' = TRUE
    /\ UNCHANGED <<topo, phase, cfg, eps, disk, certs, deploys, fresh, saved>>

(* Save logs the error of a node; a kind without a SaveConfig does nothing. *)
SaveConfig ==
    /\ Up /\ Kind.save # "none"
    /\ saved' = running
    /\ disk' = IF Kind.save # "file" THEN disk
               ELSE IF Kind.store = "inner" THEN [disk EXCEPT !.inner = running]
               ELSE [disk EXCEPT !.boot = running]
    /\ UNCHANGED <<topo, phase, cfg, eps, certs, running, deploys, fresh, touched>>

(* With --cleanup the lab directory goes too. What is not a container of    *)
(* the lab stays as it is.                                                  *)
Destroy(cleanup) ==
    /\ Up \/ phase = "failed"
    /\ phase' = "file" /\ cfg' = NoCfg /\ eps' = << >>
    /\ running' = IF cfg # NoCfg /\ Kind.extern THEN running ELSE Absent
    /\ IF cleanup THEN /\ disk' = NoDisk /\ saved' = Absent
                       /\ certs' = [NoCerts EXCEPT !.made = certs.made]
       ELSE UNCHANGED <<disk, saved, certs>>
    /\ UNCHANGED <<topo, deploys, fresh, touched>>

Next ==
    \/ NewNode \/ ResolveLink \/ CheckDeploymentConditions \/ certificateAuthoritySetup
    \/ PreDeploy \/ Deploy \/ PostDeploy \/ UserEdits \/ SaveConfig
    \/ \E cleanup \in BOOLEAN : Destroy(cleanup)

Spec == Init /\ [][Next]_vars

----------------------------------------------------------------------------
(* Properties.                                                              *)

Checked == phase \notin {"file", "parsed", "failed"}
Settled == phase = "ready" /\ ~touched
UsesStartup(n) == n.load # "none" \/ n.post = "bootConfig"

(* docs/manual/kinds: the number of the first data port in the names of the *)
(* kinds that have names of their own, and the interface it is in the       *)
(* kernel.                                                                  *)
StartAtZero ==
    {"cisco_asav", "cisco_xrv", "cisco_xrv9k", "cisco_ftdv", "cisco_vios", "juniper_vmx",
     "juniper_vjunosevolved", "juniper_vjunosswitch", "juniper_vqfx", "juniper_vsrx",
     "juniper_cjunosevolved"}
StartAtOne ==
    {"aruba_aoscx", "arista_veos", "cisco_cat9kv", "cisco_n9kv", "paloalto_panos", "freebsd",
     "openbsd", "nokia_sros", "f5_bigip_ve", "cisco_iol", "nokia_srlinux", "nokia_srsim"}
StartAtTwo == {"cisco_c8000v", "cisco_csr1000v", "fortinet_fortigate", "mikrotik_ros"}

Documented == StartAtZero \cup StartAtOne \cup StartAtTwo
FirstPort(kind) == IF kind \in StartAtZero THEN 0 ELSE IF kind \in StartAtOne THEN 1 ELSE 2
FirstInterface(kind) == IF kind = "juniper_cjunosevolved" THEN 4 ELSE 1

(* docs/manual/kinds: the ports of a node, by the names its own system uses *)
(* for them, are its data interfaces in the kernel in the same order from   *)
(* the documented first one on, whatever offset the kind computes with, and *)
(* a port below the first one is never wired.                               *)
PortsAsDocumented ==
    Checked /\ cfg.kind \in Documented =>
        \A i \in DOMAIN eps :
            topo.Links[i].form = "alias" =>
                /\ topo.Links[i].port >= FirstPort(cfg.kind)
                /\ eps[i].port - FirstInterface(cfg.kind)
                      = topo.Links[i].port - FirstPort(cfg.kind)

(* A node whose directory is empty boots with the startup-config that the   *)
(* topology file gives it on the most specific level, unless it is          *)
(* suppressed. Some images do not get the directory with the configuration, *)
(* and a save before PostDeploy has run looks like a configuration that was *)
(* there before.                                                            *)
StartupIsBooted ==
    /\ Settled /\ fresh /\ ~cfg.suppress /\ saved = Absent
    /\ UsesStartup(Kind) /\ Kind.mount
    /\ \E i \in 1..4 : Levels(topo)[i].startup # Unset
    => "startup" \in running

(* Kinds whose storage or file is not mounted, or that write the boot       *)
(* configuration at every deployment.                                       *)
SavedIsLost ==
    {"cisco_c8000", "fdio_vpp", "checkpoint_cloudguard", "ipinfusion_ocnos", "cisco_ftdv",
     "cisco_vios"}

(* What SaveConfig reported as saved survives destroy and deploy as long as *)
(* the lab directory is kept and the startup-config is not enforced, for    *)
(* all kinds but the ones that lose it.                                     *)
SavedConfigIsBooted ==
    phase = "ready" /\ saved # Absent /\ ~cfg.enforce /\ cfg.kind \notin SavedIsLost
        => saved \subseteq running

(* Kinds that keep a saved configuration although it is enforced.           *)
EnforceIsIgnored ==
    {"nokia_sros", "cisco_sdwan", "sixwind_vsr", "cisco_iol", "cisco_xrd"}

Enforced == FirstSet([i \in 1..4 |-> Levels(topo)[i].enforce], "false") = "true"

(* docs/manual/nodes.md: with enforce-startup-config the node boots from    *)
(* the startup-config and from nothing else, "no matter what".              *)
StartupConfigEnforced ==
    /\ Settled /\ Enforced /\ cfg.startup # Unset /\ ~cfg.suppress
    /\ UsesStartup(Kind) /\ Kind.mount
    => "startup" \in running /\ "user" \notin running

(* With enforce-startup-config the node boots from the startup-config and   *)
(* from nothing else, whatever was saved before, except for the kinds       *)
(* above, for SR Linux with a configuration in CLI format, and where the    *)
(* setting does not reach a node without a body.                            *)
EnforcedStartupIsBooted ==
    \/ cfg = NoCfg \/ topo.Node.null
    \/ cfg.kind \in EnforceIsIgnored
    \/ cfg.kind = "nokia_srlinux" /\ cfg.startup = "partial"
    \/ StartupConfigEnforced

(* PreDeploy, or PostDeploy, got as far as the certificate of the node.     *)
Certified ==
    \/ Kind.cert = "pre" /\ phase \in {"prepared", "deployed", "ready", "degraded"}
    \/ Kind.cert = "post" /\ phase = "ready"

(* A node that got its certificate has its key as well, and the certificate *)
(* was signed by the CA of the lab, also after deployments that ended in    *)
(* the middle of writing the CA or the certificate, and after redeployments *)
(* with or without the lab directory.                                       *)
CertificatesVerify ==
    cfg # NoCfg /\ cfg.issue /\ Certified
        => LoadNodeCert /\ certs.node = CACert /\ (topo.CA = "external" \/ LoadCaCert)

(* The stages of the node wait for everything that any level asks for, and  *)
(* for each of it once: a dependency is counted once in the dependency      *)
(* manager and signalled once.                                              *)
WaitsKeptOnce ==
    cfg # NoCfg =>
        LET waits == cfg.stage.waitFor
        IN /\ \A i \in 1..4 : ToSet(Levels(topo)[i].stage.waitFor) \subseteq ToSet(waits)
           /\ \A i, j \in DOMAIN waits : i # j => waits[i] # waits[j]

(* Of the binds with the same destination the one of the most specific      *)
(* level is mounted.                                                        *)
BindsMostSpecific ==
    cfg # NoCfg =>
        \A i \in 1..4 : \A b \in ToSet(Levels(topo)[i].binds) :
            (\A j \in 1..(i - 1) : \A c \in ToSet(Levels(topo)[j].binds) : c.dst # b.dst)
                => b \in cfg.binds
=============================================================================
