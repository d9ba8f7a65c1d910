-------------------------- MODULE NodeConfigProofs --------------------------
(***************************************************************************)
(* The configuration of a node for every topology file, every kind and     *)
(* every number of deployments: certificates, endpoints, and what of the   *)
(* startup-config and of a saved configuration the node boots from.        *)
(***************************************************************************)
EXTENDS NodeConfig, TLAPS, WellFoundedInduction

(***************************************************************************)
(* What the proofs need to know about the kinds.                           *)
(***************************************************************************)

Loads == {"none", "direct", "vr", "generate", "always", "copyOnce", "consolidate", "vrsros",
          "srl", "nvram"}
Posts == {"none", "save", "saveUnlessFull", "bootConfig", "partial", "overlay"}

\* What holds of every registered kind k with the methods n.
KindFact(k, n) ==
    /\ n.load \in Loads /\ n.post \in Posts /\ n.store \in {"boot", "inner"}
    \* The mapping of the names of the kind agrees with the documented first port.
    /\ n.mapped \in Forms /\ n.first \in Int /\ n.offset \in Int
    /\ k \in Documented =>
          /\ n.alias /\ n.add \in {"vr", "srl", "iol"} /\ "alias" \notin n.forms
          /\ n.add = "vr" => /\ n.first - n.offset = FirstInterface(k) - FirstPort(k)
                             /\ FirstPort(k) \in {0, n.offset}
          /\ n.add # "vr" => FirstInterface(k) = 1 /\ FirstPort(k) = 1
    \* What SaveConfig writes is what the node boots from.
    /\ n.save # "none" /\ k \notin SavedIsLost =>
          /\ n.save = "file" /\ n.mount /\ ~ n.extern
          /\ n.load \notin {"always", "direct"}
          /\ n.load = "consolidate" \/ n.post = "bootConfig" => n.store = "inner"
    \* The kinds that boot from a startup-config.
    /\ UsesStartup(n) /\ n.mount =>
          /\ ~ n.extern
          /\ n.post = "bootConfig" => n.load \in {"none", "nvram"}
    /\ n.load = "nvram" => n.store = "inner" /\ n.post = "bootConfig"
    /\ n.load = "srl" => n.post = "overlay"
    /\ n.load = "vrsros" => n.post = "partial"
    /\ n.load = "direct" => n.save = "none" /\ n.post = "none"
    /\ UsesStartup(n) /\ n.mount /\ k \notin EnforceIsIgnored =>
          /\ n.store = "boot"
          /\ n.load \in {"none", "vr", "generate", "always", "srl", "direct"}
          /\ n.load = "srl" => k = "nokia_srlinux"

\* The kinds that differ from VRNode in the first port and in what is mounted.
LEMMA VmKinds ==
    /\ KindFact("aruba_aoscx", aruba_aoscx)
    /\ KindFact("arista_veos", arista_veos)
    /\ KindFact("cisco_asav", cisco_asav)
    /\ KindFact("cisco_c8000v", cisco_c8000v)
    /\ KindFact("cisco_cat9kv", cisco_cat9kv)
    /\ KindFact("cisco_csr1000v", cisco_csr1000v)
    /\ KindFact("cisco_n9kv", cisco_n9kv)
    /\ KindFact("cisco_xrv", cisco_xrv)
    /\ KindFact("cisco_xrv9k", cisco_xrv9k)
    /\ KindFact("fortinet_fortigate", fortinet_fortigate)
  BY DEF KindFact, UsesStartup, Loads, Posts, SavedIsLost, EnforceIsIgnored, Forms,
         Documented, StartAtZero, StartAtOne, StartAtTwo, FirstPort, FirstInterface,
         VRNodeAlias, VRNode, DefaultNode, aruba_aoscx, arista_veos, cisco_asav,
         cisco_c8000v, cisco_cat9kv, cisco_csr1000v, cisco_n9kv, cisco_xrv, cisco_xrv9k,
         fortinet_fortigate

\* The same, continued.
LEMMA VmKindsJuniper ==
    /\ KindFact("juniper_cjunosevolved", juniper_cjunosevolved)
    /\ KindFact("juniper_vjunosevolved", juniper_vjunosevolved)
    /\ KindFact("juniper_vjunosswitch", juniper_vjunosswitch)
    /\ KindFact("juniper_vmx", juniper_vmx)
    /\ KindFact("juniper_vqfx", juniper_vqfx)
    /\ KindFact("juniper_vsrx", juniper_vsrx)
    /\ KindFact("paloalto_panos", paloalto_panos)
    /\ KindFact("dell_ftosv", dell_ftosv)
    /\ KindFact("huawei_vrp", huawei_vrp)
  BY DEF KindFact, UsesStartup, Loads, Posts, SavedIsLost, EnforceIsIgnored, Forms,
         Documented, StartAtZero, StartAtOne, StartAtTwo, FirstPort, FirstInterface,
         VRNodeAlias, VRNode, DefaultNode, juniper_cjunosevolved, juniper_vjunosevolved,
         juniper_vjunosswitch, juniper_vmx, juniper_vqfx, juniper_vsrx, paloalto_panos,
         dell_ftosv, huawei_vrp

\* The kinds that also differ from it in the files they use.
LEMMA VmKindsFiles ==
    /\ KindFact("cisco_ftdv", cisco_ftdv)
    /\ KindFact("checkpoint_cloudguard", checkpoint_cloudguard)
    /\ KindFact("ipinfusion_ocnos", ipinfusion_ocnos)
    /\ KindFact("mikrotik_ros", mikrotik_ros)
    /\ KindFact("freebsd", freebsd)
    /\ KindFact("openbsd", openbsd)
    /\ KindFact("cisco_vios", cisco_vios)
    /\ KindFact("cisco_sdwan", cisco_sdwan)
    /\ KindFact("nokia_sros", nokia_sros)
  BY DEF KindFact, UsesStartup, Loads, Posts, SavedIsLost, EnforceIsIgnored, Forms,
         Documented, StartAtZero, StartAtOne, StartAtTwo, FirstPort, FirstInterface,
         VRNodeAlias, VRNode, DefaultNode, sdwanFiles, vrsrosPostDeploy, vrsrosInit,
         cisco_ftdv, checkpoint_cloudguard, ipinfusion_ocnos, mikrotik_ros, freebsd,
         openbsd, cisco_vios, cisco_sdwan, nokia_sros

\* The kinds that differ from DefaultNode in a few fields.
LEMMA PlainKinds ==
    /\ KindFact("sonic_vm", sonic_vm)
    /\ KindFact("dell_sonic", dell_sonic)
    /\ KindFact("generic_vm", generic_vm)
    /\ KindFact("f5_bigip_ve", f5_bigip_ve)
    /\ KindFact("openwrt", openwrt)
    /\ KindFact("cisco_c8000", cisco_c8000)
    /\ KindFact("fdio_vpp", fdio_vpp)
    /\ KindFact("veesix_osvbng", veesix_osvbng)
    /\ KindFact("arrcus_arcos", arrcus_arcos)
    /\ KindFact("cumulus_cvx", cumulus_cvx)
    /\ KindFact("sonic_vs", sonic_vs)
    /\ KindFact("rare", rare)
    /\ KindFact("spirent_stc", spirent_stc)
    /\ KindFact("linux", linux)
    /\ KindFact("keysight_ixia_c_one", keysight_ixia_c_one)
    /\ KindFact("k8s_kind", k8s_kind)
    /\ KindFact("ext_container", ext_container)
    /\ KindFact("host", host)
    /\ KindFact("bridge", bridge)
    /\ KindFact("ovs_bridge", ovs_bridge)
  BY DEF KindFact, UsesStartup, Loads, Posts, SavedIsLost, EnforceIsIgnored, Forms,
         Documented, StartAtZero, StartAtOne, StartAtTwo, FirstPort, FirstInterface,
         GenericVM, DefaultNode, Eth0UnlessManaged, sonic_vm, dell_sonic, generic_vm,
         f5_bigip_ve, openwrt, cisco_c8000, fdio_vpp, veesix_osvbng, arrcus_arcos,
         cumulus_cvx, sonic_vs, rare, spirent_stc, linux, keysight_ixia_c_one, k8s_kind,
         ext_container, host, bridge, ovs_bridge

\* The network operating systems in a container whose files are made in several steps.
LEMMA NosKinds ==
    /\ KindFact("arista_ceos", arista_ceos)
    /\ KindFact("juniper_crpd", juniper_crpd)
    /\ KindFact("juniper_csrx", juniper_csrx)
    /\ KindFact("cisco_xrd", cisco_xrd)
    /\ KindFact("cisco_iol", cisco_iol)
    /\ KindFact("vyosnetworks_vyos", vyosnetworks_vyos)
    /\ KindFact("sixwind_vsr", sixwind_vsr)
    /\ KindFact("nokia_srlinux", nokia_srlinux)
    /\ KindFact("nokia_srsim", nokia_srsim)
  BY DEF KindFact, UsesStartup, Loads, Posts, SavedIsLost, EnforceIsIgnored, Forms,
         Documented, StartAtZero, StartAtOne, StartAtTwo, FirstPort, FirstInterface,
         ceosPostDeploy, createCEOSFiles, ceosInit, DefaultNode, crpdFiles, csrxFiles,
         createXRDFiles, iolInterfaces, iolBootConfig, iolInit, vyosPostDeploy,
         createVyosFiles, addDefaultConfigVsr, Eth0UnlessManaged, srlInterfaces, srlFiles,
         srlPostDeploy, srlInit, srosInterfaces, srosPostDeploy, createSROSFiles, srosInit,
         arista_ceos, juniper_crpd, juniper_csrx, cisco_xrd, cisco_iol, vyosnetworks_vyos,
         sixwind_vsr, nokia_srlinux, nokia_srsim

\* KindFact holds for every kind that is registered.
LEMMA Kinds == \A k \in DOMAIN Registry : KindFact(k, Registry[k])
<1>1. DOMAIN Registry =
        {"aruba_aoscx", "arista_veos", "cisco_asav", "cisco_c8000v", "cisco_cat9kv",
         "cisco_csr1000v", "cisco_n9kv", "cisco_xrv", "cisco_xrv9k", "fortinet_fortigate",
         "juniper_cjunosevolved", "juniper_vjunosevolved", "juniper_vjunosswitch",
         "juniper_vmx", "juniper_vqfx", "juniper_vsrx", "paloalto_panos", "dell_ftosv",
         "huawei_vrp", "cisco_ftdv", "checkpoint_cloudguard", "ipinfusion_ocnos",
         "mikrotik_ros", "freebsd", "openbsd", "cisco_sdwan", "cisco_vios", "nokia_sros",
         "sonic_vm", "dell_sonic", "generic_vm", "f5_bigip_ve", "openwrt", "arista_ceos",
         "juniper_crpd", "juniper_csrx", "cisco_xrd", "cisco_c8000", "cisco_iol",
         "vyosnetworks_vyos", "sixwind_vsr", "fdio_vpp", "veesix_osvbng", "arrcus_arcos",
         "cumulus_cvx", "sonic_vs", "rare", "spirent_stc", "nokia_srlinux", "nokia_srsim",
         "linux", "keysight_ixia_c_one", "k8s_kind", "ext_container", "host", "bridge",
         "ovs_bridge"}
  BY DEF Registry
<1>2. /\ Registry["aruba_aoscx"] = aruba_aoscx /\ Registry["arista_veos"] = arista_veos
      /\ Registry["cisco_asav"] = cisco_asav /\ Registry["cisco_c8000v"] = cisco_c8000v
      /\ Registry["cisco_cat9kv"] = cisco_cat9kv
      /\ Registry["cisco_csr1000v"] = cisco_csr1000v
      /\ Registry["cisco_n9kv"] = cisco_n9kv /\ Registry["cisco_xrv"] = cisco_xrv
      /\ Registry["cisco_xrv9k"] = cisco_xrv9k
      /\ Registry["fortinet_fortigate"] = fortinet_fortigate
      /\ Registry["juniper_cjunosevolved"] = juniper_cjunosevolved
      /\ Registry["juniper_vjunosevolved"] = juniper_vjunosevolved
      /\ Registry["juniper_vjunosswitch"] = juniper_vjunosswitch
      /\ Registry["juniper_vmx"] = juniper_vmx /\ Registry["juniper_vqfx"] = juniper_vqfx
      /\ Registry["juniper_vsrx"] = juniper_vsrx
      /\ Registry["paloalto_panos"] = paloalto_panos
      /\ Registry["dell_ftosv"] = dell_ftosv /\ Registry["huawei_vrp"] = huawei_vrp
      /\ Registry["cisco_ftdv"] = cisco_ftdv
      /\ Registry["checkpoint_cloudguard"] = checkpoint_cloudguard
      /\ Registry["ipinfusion_ocnos"] = ipinfusion_ocnos
      /\ Registry["mikrotik_ros"] = mikrotik_ros /\ Registry["freebsd"] = freebsd
      /\ Registry["openbsd"] = openbsd /\ Registry["cisco_sdwan"] = cisco_sdwan
      /\ Registry["cisco_vios"] = cisco_vios /\ Registry["nokia_sros"] = nokia_sros
      /\ Registry["sonic_vm"] = sonic_vm /\ Registry["dell_sonic"] = dell_sonic
      /\ Registry["generic_vm"] = generic_vm /\ Registry["f5_bigip_ve"] = f5_bigip_ve
      /\ Registry["openwrt"] = openwrt /\ Registry["arista_ceos"] = arista_ceos
      /\ Registry["juniper_crpd"] = juniper_crpd
      /\ Registry["juniper_csrx"] = juniper_csrx /\ Registry["cisco_xrd"] = cisco_xrd
      /\ Registry["cisco_c8000"] = cisco_c8000 /\ Registry["cisco_iol"] = cisco_iol
      /\ Registry["vyosnetworks_vyos"] = vyosnetworks_vyos
      /\ Registry["sixwind_vsr"] = sixwind_vsr /\ Registry["fdio_vpp"] = fdio_vpp
      /\ Registry["veesix_osvbng"] = veesix_osvbng
      /\ Registry["arrcus_arcos"] = arrcus_arcos /\ Registry["cumulus_cvx"] = cumulus_cvx
      /\ Registry["sonic_vs"] = sonic_vs /\ Registry["rare"] = rare
      /\ Registry["spirent_stc"] = spirent_stc
      /\ Registry["nokia_srlinux"] = nokia_srlinux
      /\ Registry["nokia_srsim"] = nokia_srsim /\ Registry["linux"] = linux
      /\ Registry["keysight_ixia_c_one"] = keysight_ixia_c_one
      /\ Registry["k8s_kind"] = k8s_kind /\ Registry["ext_container"] = ext_container
      /\ Registry["host"] = host /\ Registry["bridge"] = bridge
      /\ Registry["ovs_bridge"] = ovs_bridge
  BY DEF Registry
<1> QED BY <1>1, <1>2, VmKinds, VmKindsJuniper, VmKindsFiles, PlainKinds, NosKinds

(***************************************************************************)
(* The inductive invariant, in parts.                                      *)
(***************************************************************************)

\* The settings of the node, which every deployment computes anew from the topology.
NodeCfg(t) == LET c == createNodeCfg(t) IN [c EXCEPT !.issue = @ \/ Registry[c.kind].issue]

Registered == GetNodeKind(topo) \in DOMAIN Registry

C == NodeCfg(topo)
N == Registry[C.kind]

\* A configuration that runs or was saved is not empty; a file may be.
Contents == {Absent} \cup ((SUBSET Layers) \ {{}})
Files    == Contents \cup {{}}
Phases   == {"file", "parsed", "checked", "authorised", "prepared", "deployed", "ready",
             "degraded", "failed"}

StateTypes ==
    /\ topo \in Topologies /\ phase \in Phases
    /\ disk \in [boot : Files, inner : Contents]
    /\ running \in Contents /\ saved \in Contents
    /\ Up => running # Absent

CertTypes == certs \in [ca : Nat, caKey : BOOLEAN, node : Nat, nodeKey : BOOLEAN, made : Nat]

\* While the node is deployed its settings are those of the topology file, and its kind
\* is registered.
Configured ==
    \/ phase \in {"file", "failed"} /\ cfg = NoCfg
    \/ phase # "file" /\ Registered /\ cfg = C

\* A node certificate that can be loaded was signed by a CA that can be loaded, whenever
\* the program has ended.
CertChain ==
    /\ LoadNodeCert => certs.node = CACert /\ (topo.CA = "external" \/ LoadCaCert)
    /\ phase \in {"authorised", "prepared", "deployed", "ready", "degraded"} =>
          topo.CA = "external" \/ LoadCaCert
    /\ cfg # NoCfg /\ cfg.issue /\ Certified => LoadNodeCert

\* The endpoint of the i-th link is the one that is documented for its port.
PortOk(i) ==
    /\ topo.Links[i].port >= FirstPort(C.kind)
    /\ eps[i].port - FirstInterface(C.kind) = topo.Links[i].port - FirstPort(C.kind)

\* A name of the kind that was added is mapped, or left for the check to refuse.
Wired ==
    /\ eps \in Seq([form : Forms, port : Int])
    /\ Registered /\ C.kind \in Documented =>
          \A i \in DOMAIN eps :
             topo.Links[i].form = "alias" =>
                PortOk(i) \/ (~ Checked /\ eps[i].form = "alias")

\* A saved configuration is in the file or the storage the node boots from, between the
\* deployments too, and in the running node.
SavedKept ==
    Registered /\ saved # Absent /\ ~ C.enforce /\ C.kind \notin SavedIsLost =>
        /\ N.save # "none"
        /\ N.store = "inner" => saved \subseteq disk.inner
        /\ N.store = "boot" => saved \subseteq disk.boot
        /\ Up => saved \subseteq running

\* The startup-config is to be used and the node boots from what PreDeploy leaves.
Uses == Registered /\ UsesStartup(N) /\ N.mount /\ C.startup # Unset /\ ~ C.suppress

\* A configuration in CLI format that PostDeploy will apply.
LeftToPostDeploy == N.load \in {"vrsros", "srl"} /\ C.startup = "partial"

\* The way of the startup-config into the running node, from an empty directory.
StartupOnItsWay ==
    Uses /\ fresh /\ saved = Absent =>
        /\ phase \in {"prepared", "deployed"} => disk.inner = Absent
        /\ phase \in {"prepared", "deployed"} /\ LeftToPostDeploy => disk.boot = Absent
        /\ phase = "prepared" =>
              "startup" \in disk.boot \/ LeftToPostDeploy \/ N.load \in {"none", "direct", "nvram"}
        /\ phase = "deployed" =>
              "startup" \in running \/ LeftToPostDeploy \/ N.post = "bootConfig"
        /\ phase = "ready" => "startup" \in running

\* The same where it is enforced, whatever the directory holds.
EnforcedOnItsWay ==
    /\ Registered /\ N.load = "direct" => disk.boot = Absent
    /\ Uses /\ C.enforce /\ C.kind \notin EnforceIsIgnored
            /\ ~ (C.kind = "nokia_srlinux" /\ C.startup = "partial") =>
        /\ phase = "prepared" =>
              disk.boot = {"startup"} \/ N.load = "direct" \/ N.post = "bootConfig"
        /\ phase = "deployed" /\ ~ touched =>
              ("startup" \in running /\ "user" \notin running) \/ N.post = "bootConfig"
        /\ phase = "ready" /\ ~ touched => "startup" \in running /\ "user" \notin running

ConfInv == /\ StateTypes /\ CertTypes /\ Configured /\ Wired /\ CertChain /\ SavedKept
           /\ StartupOnItsWay /\ EnforcedOnItsWay

(***************************************************************************)
(* Lemmas about the settings.                                              *)
(***************************************************************************)

\* FirstSet returns the value of some level, and a set one if any level sets it.
LEMMA FirstSetFact ==
    ASSUME NEW v, DOMAIN v = 1..4, NEW o
    PROVE  /\ FirstSet(v, o) = o \/ \E i \in 1..4 : FirstSet(v, o) = v[i]
           /\ (\E i \in 1..4 : v[i] # Unset) => FirstSet(v, o) # Unset
<1> DEFINE S == {i \in DOMAIN v : v[i] # Unset}
<1>1. CASE S = {}
  BY <1>1 DEF FirstSet
<1>2. CASE S # {}
  <2>1. \E x \in S : \A y \in S : x <= y
    <3>1. S \subseteq 1..4
      OBVIOUS
    <3>2. \A x \in 1..4 : x = 1 \/ x = 2 \/ x = 3 \/ x = 4
      OBVIOUS
    <3> HIDE DEF S
    <3>3. CASE 1 \in S
      BY <3>1, <3>3
    <3>4. CASE 1 \notin S /\ 2 \in S
      BY <3>1, <3>2, <3>4
    <3>5. CASE 1 \notin S /\ 2 \notin S /\ 3 \in S
      BY <3>1, <3>2, <3>5
    <3>6. CASE 1 \notin S /\ 2 \notin S /\ 3 \notin S
      <4>1. \A x \in S : x = 4
        BY <3>1, <3>2, <3>6
      <4>2. 4 \in S
        BY <1>2, <4>1
      <4> QED BY <4>1, <4>2
    <3> QED BY <3>3, <3>4, <3>5, <3>6
  <2>2. Min(S) \in S
    <3> HIDE DEF S
    <3> QED BY <2>1 DEF Min
  <2>3. FirstSet(v, o) = v[Min(S)]
    BY <1>2 DEF FirstSet
  <2> HIDE DEF S
  <2>4. Min(S) \in 1..4 /\ v[Min(S)] # Unset
    BY <2>2 DEF S
  <2> QED BY <2>3, <2>4
<1> QED BY <1>1, <1>2

\* The settings that the proofs look at.
LEMMA CfgFields ==
    ASSUME topo \in Topologies
    PROVE  /\ C.kind = GetNodeKind(topo)
           /\ C.startup \in {Unset, "full", "partial"}
           /\ (\E i \in 1..4 : Levels(topo)[i].startup # Unset) => C.startup # Unset
           /\ ~ topo.Node.null => (C.enforce <=> Enforced)
<1>1. /\ C.kind = createNodeCfg(topo).kind /\ C.startup = createNodeCfg(topo).startup
      /\ C.enforce = createNodeCfg(topo).enforce
  BY DEF C, NodeCfg, createNodeCfg
<1>2. /\ createNodeCfg(topo).kind = GetNodeKind(topo)
      /\ createNodeCfg(topo).startup = processStartupConfig(topo)
  BY DEF createNodeCfg
<1>3. createNodeCfg(topo).enforce = (GetNodeEnforceStartupConfig(topo) = "true")
  BY Zenon DEF createNodeCfg
<1> DEFINE v == [i \in 1..4 |-> Levels(topo)[i]["startup"]]
<1>4. /\ GetNodeStartupConfig(topo) = Unset \/ \E i \in 1..4 : GetNodeStartupConfig(topo) = v[i]
      /\ (\E i \in 1..4 : v[i] # Unset) => GetNodeStartupConfig(topo) # Unset
  <2>1. DOMAIN v = 1..4 /\ GetNodeStartupConfig(topo) = FirstSet(v, Unset)
    BY DEF GetNodeStartupConfig, getField
  <2> HIDE DEF v
  <2> QED BY <2>1, FirstSetFact
<1>5. \A i \in 1..4 : v[i] \in {Unset, "full", "partial", "embedded"}
  BY StartupAssumption
<1>6. /\ processStartupConfig(topo) \in {Unset, "full", "partial"}
      /\ GetNodeStartupConfig(topo) # Unset => processStartupConfig(topo) # Unset
  <2> HIDE DEF v
  <2> QED BY <1>4, <1>5 DEF processStartupConfig, Unset
<1>7. ~ topo.Node.null => (GetNodeEnforceStartupConfig(topo) = "true" <=> Enforced)
  BY DEF GetNodeEnforceStartupConfig, getFieldPtr, Enforced
<1> QED BY <1>1, <1>2, <1>3, <1>4, <1>6, <1>7

(***************************************************************************)
(* What a step keeps if it leaves the relevant variables alone.            *)
(***************************************************************************)

\* A deployment in progress has the settings of the topology file.
LEMMA InProgress ==
    ASSUME ConfInv, phase \notin {"file", "failed"}
    PROVE  /\ Registered /\ cfg = C /\ Kind = N /\ KindFact(C.kind, N)
           /\ C.kind = GetNodeKind(topo)
<1>1. Registered /\ cfg = C
  BY DEF ConfInv, Configured
<1>2. C.kind = GetNodeKind(topo)
  BY CfgFields DEF ConfInv, StateTypes
<1>3. KindFact(C.kind, N)
  BY <1>1, <1>2, Kinds DEF Registered, N
<1> QED BY <1>1, <1>2, <1>3 DEF Kind, N

\* The settings are constant, because the topology file is.
LEMMA Frame ==
    ASSUME topo' = topo
    PROVE  /\ C' = C /\ N' = N /\ (Registered' <=> Registered) /\ (Uses' <=> Uses)
           /\ (LeftToPostDeploy' <=> LeftToPostDeploy)
  BY DEF C, N, Registered, Uses, LeftToPostDeploy

\* Before PreDeploy, and after a failure, nothing is said about the running node.
LEMMA EarlyStep ==
    ASSUME ConfInv, topo' = topo, UNCHANGED <<disk, running, saved>>,
           phase' \in {"file", "parsed", "checked", "authorised", "failed"}
    PROVE  StateTypes' /\ SavedKept' /\ StartupOnItsWay' /\ EnforcedOnItsWay'
<1>1. StateTypes'
  BY DEF ConfInv, StateTypes, Up, Phases
<1>2. SavedKept'
  BY Frame DEF ConfInv, SavedKept, Up
<1>3. StartupOnItsWay'
  BY DEF StartupOnItsWay
<1>4. EnforcedOnItsWay'
  BY Frame DEF ConfInv, EnforcedOnItsWay
<1> QED BY <1>1, <1>2, <1>3, <1>4

\* The certificates are kept by every step that does not write them.
LEMMA CertsKept ==
    ASSUME ConfInv, UNCHANGED <<topo, certs>>,
           phase' \in {"authorised", "prepared", "deployed", "ready", "degraded"} =>
              phase \in {"authorised", "prepared", "deployed", "ready", "degraded"},
           phase' \in {"prepared", "deployed", "ready", "degraded"} =>
              cfg' = cfg /\ phase \in {"prepared", "deployed", "ready", "degraded"},
           phase' = "ready" => phase = "ready"
    PROVE  CertTypes' /\ CertChain'
<1>1. Certified' => Certified /\ cfg' = cfg
  BY DEF Certified, Kind
<1> QED BY <1>1 DEF ConfInv, CertTypes, CertChain, LoadNodeCert, LoadCaCert, CACert

\* Whether the certificate could be stored or not, the one that can be loaded verifies, and
\* a node that needs one and got as far has it.
LEMMA IssueStep ==
    ASSUME ConfInv, UNCHANGED <<topo, cfg>>, phase \in {"authorised", "deployed"},
           NEW w, StoreNodeCert(w) \/ NotStored(w),
           Certified' => StoreNodeCert(w) /\ (Kind.cert = w \/ Certified)
    PROVE  CertTypes' /\ CertChain'
<1>1. certs \in [ca : Nat, caKey : BOOLEAN, node : Nat, nodeKey : BOOLEAN, made : Nat]
  BY DEF ConfInv, CertTypes
<1>2. topo.CA = "external" \/ LoadCaCert
  BY DEF ConfInv, CertChain
<1>3. CACert \in Nat /\ CACert # NoCert
  BY <1>1, <1>2 DEF CACert, LoadCaCert, ExternalCA, NoCert
<1>4. CASE certs' = certs
  <2>1. Certified' /\ cfg.issue /\ cfg # NoCfg => LoadNodeCert
    <3>1. ASSUME Certified', cfg.issue, ~ LoadNodeCert, cfg # NoCfg PROVE FALSE
      <4>1. StoreNodeCert(w) /\ Kind.cert = w
        BY <3>1 DEF ConfInv, CertChain
      <4>2. certs' = [certs EXCEPT !.node = CACert, !.nodeKey = TRUE]
        BY <3>1, <4>1 DEF StoreNodeCert, LoadOrGenerateCertificate
      <4> QED BY <1>1, <1>3, <1>4, <3>1, <4>2 DEF LoadNodeCert
    <3> QED BY <3>1
  <2> QED BY <1>2, <1>4, <2>1 DEF ConfInv, CertTypes, CertChain, LoadNodeCert, LoadCaCert, CACert
<1>5. CASE certs' # certs
  <2>1. PICK b \in BOOLEAN : /\ certs' = [certs EXCEPT !.node = CACert, !.nodeKey = b]
                             /\ StoreNodeCert(w) => b
    <3>1. CASE StoreNodeCert(w)
      BY <1>5, <3>1 DEF StoreNodeCert, LoadOrGenerateCertificate
    <3>2. CASE NotStored(w) /\ ~ StoreNodeCert(w)
      <4>1. certs' = [certs EXCEPT !.node = CACert]
        BY <1>5, <3>2 DEF NotStored
      <4>2. certs' = [certs EXCEPT !.node = CACert, !.nodeKey = certs.nodeKey]
        BY <1>1, <4>1
      <4> QED BY <1>1, <3>2, <4>2
    <3> QED BY <3>1, <3>2
  <2>2. /\ certs' \in [ca : Nat, caKey : BOOLEAN, node : Nat, nodeKey : BOOLEAN, made : Nat]
        /\ certs'.ca = certs.ca /\ certs'.node = CACert /\ certs'.caKey = certs.caKey
        /\ certs'.nodeKey = b
    BY <1>1, <1>3, <2>1
  <2>3. CACert' = CACert /\ (LoadCaCert' <=> LoadCaCert)
    BY <2>2 DEF CACert, LoadCaCert
  <2>4. Certified' => LoadNodeCert'
    BY <1>3, <2>1, <2>2 DEF LoadNodeCert
  <2>5. CertTypes'
    BY <2>2 DEF CertTypes
  <2> QED BY <1>2, <2>2, <2>3, <2>4, <2>5 DEF CertChain
<1> QED BY <1>4, <1>5

\* The endpoints are kept by every step after the check.
LEMMA EndpointsKept ==
    ASSUME ConfInv, UNCHANGED <<topo, eps>>, Checked' => Checked
    PROVE  Wired'
  BY Frame DEF ConfInv, Wired, PortOk

\* The settings are kept while the deployment is in progress or fails.
LEMMA SettingsKept ==
    ASSUME ConfInv, UNCHANGED <<topo, cfg>>, phase \notin {"file", "failed"}, phase' # "file"
    PROVE  Configured'
<1>1. Registered /\ cfg = C
  BY InProgress
<1> QED BY <1>1, Frame DEF Configured

(***************************************************************************)
(* The steps.                                                              *)
(***************************************************************************)

\* NewNode computes the settings anew.
LEMMA NewNodeStep ==
    ASSUME ConfInv, NewNode
    PROVE  ConfInv'
<1>1. /\ phase = "file" /\ UNCHANGED <<topo, disk, certs, running, saved>>
      /\ phase' \in {"parsed", "failed"}
  BY DEF NewNode, Fail
<1>2. StateTypes' /\ SavedKept' /\ StartupOnItsWay' /\ EnforcedOnItsWay'
  BY <1>1, EarlyStep
<1>3. CertTypes' /\ CertChain'
  BY <1>1, CertsKept
<1>4. Wired'
  <2>1. eps' = << >>
    BY DEF NewNode
  <2> QED BY <2>1 DEF Wired
<1>5. Configured'
  <2>1. CASE GetNodeKind(topo) \notin DOMAIN Registry
    BY <2>1 DEF NewNode, Fail, Configured, NoCfg
  <2>2. CASE GetNodeKind(topo) \in DOMAIN Registry
    <3>1. cfg' = NodeCfg(topo) /\ phase' = "parsed"
      BY <2>2 DEF NewNode, NodeCfg
    <3>2. C' = C /\ Registered'
      BY <1>1, <2>2, Frame DEF Registered
    <3> QED BY <3>1, <3>2 DEF Configured, C
  <2> QED BY <2>1, <2>2
<1> QED BY <1>2, <1>3, <1>4, <1>5 DEF ConfInv

\* The index of an alias is the documented one; what is below the first port is refused.
LEMMA MappedFact ==
    ASSUME NEW k, NEW n, KindFact(k, n), k \in Documented, NEW p \in Nat
    PROVE  /\ CalculateInterfaceIndex(n, p) \in Int
           /\ n.add = "vr" /\ ~ (CalculateInterfaceIndex(n, p) < n.first) =>
                 /\ p >= FirstPort(k)
                 /\ CalculateInterfaceIndex(n, p) - FirstInterface(k) = p - FirstPort(k)
<1>1. /\ n.first \in Int /\ n.offset \in Int
      /\ n.add = "vr" => /\ n.first - n.offset = FirstInterface(k) - FirstPort(k)
                         /\ FirstPort(k) \in {0, n.offset}
  BY DEF KindFact
<1>2. FirstInterface(k) \in Int /\ FirstPort(k) \in Int
  BY DEF FirstInterface, FirstPort
<1> QED BY <1>1, <1>2 DEF CalculateInterfaceIndex

\* ResolveLink adds an endpoint or fails.
LEMMA ResolveStep ==
    ASSUME ConfInv, ResolveLink
    PROVE  ConfInv'
<1>1. /\ phase = "parsed" /\ UNCHANGED <<topo, cfg, disk, certs, running, saved>>
      /\ phase' \in {"parsed", "failed"}
  BY DEF ResolveLink, AddEndpoint, AddEndpointVr, AddEndpointStrict, AddEndpointSrl,
         AddEndpointIol, Added, Refused, Fail
<1>2. StateTypes' /\ SavedKept' /\ StartupOnItsWay' /\ EnforcedOnItsWay'
  BY <1>1, EarlyStep
<1>3. CertTypes' /\ CertChain' /\ Configured'
  BY <1>1, CertsKept, SettingsKept
<1>4. Wired'
  <2>1. Registered /\ Kind = N /\ KindFact(C.kind, N)
    BY <1>1, InProgress
  <2>2. /\ eps \in Seq([form : Forms, port : Int]) /\ Len(eps) < Len(topo.Links)
        /\ topo.Links \in Seq([form : Forms, port : Nat])
    BY LinksAssumption DEF ConfInv, Wired, StateTypes, ResolveLink
  <2>3. ~ Checked /\ ~ Checked'
    BY <1>1 DEF Checked
  <2>4. CASE eps' = eps
    BY <1>1, <2>3, <2>4, EndpointsKept
  <2>5. CASE eps' # eps
    <3>1. PICK name : name = topo.Links[Len(eps) + 1]
      OBVIOUS
    <3>2. name \in [form : Forms, port : Nat] /\ name.form \in Forms /\ name.port \in Nat
      <4>1. Len(eps) \in Nat /\ Len(eps) + 1 \in 1..Len(topo.Links)
        BY <2>2
      <4>2. ASSUME NEW S, NEW q \in Seq(S), NEW k \in 1..Len(q) PROVE q[k] \in S
        OBVIOUS
      <4>3. name \in [form : Forms, port : Nat]
        BY <2>2, <3>1, <4>1, <4>2
      <4> QED BY <4>3
    <3>3. \/ AddEndpoint(name) \/ AddEndpointVr(name) \/ AddEndpointStrict(name)
          \/ AddEndpointSrl(name) \/ AddEndpointIol(name)
      BY <3>1 DEF ResolveLink
    <3>4. N.mapped \in Forms /\ N.first \in Int /\ N.offset \in Int
      BY <2>1 DEF KindFact
    <3>5. PICK new \in [form : Forms, port : Int] :
             /\ eps' = Append(eps, new)
             /\ C.kind \in Documented /\ name.form = "alias" =>
                   \/ /\ name.port >= FirstPort(C.kind)
                      /\ new.port - FirstInterface(C.kind) = name.port - FirstPort(C.kind)
                   \/ new.form = "alias"
      <4>1. C.kind \in Documented => N.alias /\ N.add \in {"vr", "srl", "iol"}
        BY <2>1 DEF KindFact
      <4>2. name \in [form : Forms, port : Int]
        BY <3>2
      <4>3. CASE Added(name) /\ (C.kind \in Documented => name.form # "alias" \/ N.add = "iol")
        BY <4>2, <4>3 DEF Added
      <4>4. CASE AddEndpoint(name)
        <5>1. N.add = "default"
          BY <2>1, <4>4 DEF AddEndpoint
        <5>2. GetMappedInterfaceName(N, name) \in [form : Forms, port : Int]
          BY <3>2, <3>4 DEF GetMappedInterfaceName, CalculateInterfaceIndex
        <5>3. Added(name) \/ Added(GetMappedInterfaceName(N, name))
          BY <2>1, <2>5, <4>4 DEF AddEndpoint, Refused
        <5> QED BY <4>1, <4>2, <5>1, <5>2, <5>3 DEF Added
      <4>5. CASE AddEndpointStrict(name)
        <5>1. N.add = "strict"
          BY <2>1, <4>5 DEF AddEndpointStrict
        <5>2. GetMappedInterfaceName(N, name) \in [form : Forms, port : Int]
          BY <3>2, <3>4 DEF GetMappedInterfaceName, CalculateInterfaceIndex
        <5>3. Added(GetMappedInterfaceName(N, name))
          BY <2>1, <2>5, <4>5 DEF AddEndpointStrict, Refused
        <5> QED BY <4>1, <5>1, <5>2, <5>3 DEF Added
      <4>6. CASE AddEndpointVr(name)
        <5>1. N.add = "vr"
          BY <2>1, <4>6 DEF AddEndpointVr
        <5>2. CASE ~ N.alias \/ (name.form = "eth" /\ name.port > 0)
          BY <2>1, <4>1, <4>2, <4>6, <5>2 DEF AddEndpointVr, Added
        <5>3. CASE ~ (~ N.alias \/ (name.form = "eth" /\ name.port > 0))
          <6>1. Added(GetMappedInterfaceName(N, name)) /\ ~ Unmapped(N, name)
            BY <2>1, <2>5, <4>6, <5>3 DEF AddEndpointVr, Refused
          <6>2. PICK q : q = CalculateInterfaceIndex(N, name.port)
            OBVIOUS
          <6>3. q \in Int
            BY <3>2, <3>4, <6>2 DEF CalculateInterfaceIndex
          <6>4. C.kind \in Documented =>
                   /\ name.port >= FirstPort(C.kind)
                   /\ q - FirstInterface(C.kind) = name.port - FirstPort(C.kind)
            BY <2>1, <3>2, <5>1, <6>1, <6>2, MappedFact DEF Unmapped
          <6>5. GetMappedInterfaceName(N, name) = [form |-> N.mapped, port |-> q]
            BY <6>2 DEF GetMappedInterfaceName
          <6>6. /\ [form |-> N.mapped, port |-> q] \in [form : Forms, port : Int]
                /\ [form |-> N.mapped, port |-> q].port = q
            BY <3>4, <6>3
          <6>7. eps' = Append(eps, [form |-> N.mapped, port |-> q])
            BY <6>1, <6>5 DEF Added
          <6> QED BY <6>4, <6>6, <6>7
        <5> QED BY <5>2, <5>3
      <4>7. CASE AddEndpointSrl(name)
        <5>1. N.add = "srl"
          BY <2>1, <4>7 DEF AddEndpointSrl
        <5>2. CASE name.form # "alias"
          BY <4>3, <4>7, <5>2 DEF AddEndpointSrl
        <5>3. CASE name.form = "alias"
          <6>1. name.port >= 1 /\ eps' = Append(eps, [form |-> N.mapped, port |-> name.port])
            BY <2>1, <2>5, <3>2, <4>7, <5>3
               DEF AddEndpointSrl, Refused, Added, GetMappedInterfaceNameSrl
          <6>2. C.kind \in Documented => FirstInterface(C.kind) = 1 /\ FirstPort(C.kind) = 1
            BY <2>1, <5>1 DEF KindFact
          <6>3. /\ [form |-> N.mapped, port |-> name.port] \in [form : Forms, port : Int]
                /\ [form |-> N.mapped, port |-> name.port].port = name.port
            BY <3>2, <3>4
          <6> QED BY <3>2, <6>1, <6>2, <6>3
        <5> QED BY <5>2, <5>3
      <4>8. CASE AddEndpointIol(name)
        <5>1. N.add = "iol"
          BY <2>1, <4>8 DEF AddEndpointIol
        <5>2. CASE name.form # "alias" \/ name.port = 0
          BY <4>2, <4>8, <5>2 DEF AddEndpointIol, iolMappedInterfaceName, Added
        <5>3. CASE name.form = "alias" /\ name.port # 0
          <6>1. (name.port \div 4) * 4 + (name.port % 4) = name.port
            BY <3>2
          <6>2. eps' = Append(eps, [form |-> "eth", port |-> name.port])
            BY <4>8, <5>3, <6>1 DEF AddEndpointIol, iolMappedInterfaceName, Added
          <6>3. C.kind \in Documented => FirstInterface(C.kind) = 1 /\ FirstPort(C.kind) = 1
            BY <2>1, <5>1 DEF KindFact
          <6>4. /\ [form |-> "eth", port |-> name.port] \in [form : Forms, port : Int]
                /\ [form |-> "eth", port |-> name.port].port = name.port
            BY <3>2 DEF Forms
          <6> QED BY <3>2, <5>3, <6>2, <6>3, <6>4
        <5> QED BY <5>2, <5>3
      <4> QED BY <3>3, <4>4, <4>5, <4>6, <4>7, <4>8
    <3>6. /\ eps' \in Seq([form : Forms, port : Int]) /\ DOMAIN eps' = 1..(Len(eps) + 1)
          /\ DOMAIN eps = 1..Len(eps) /\ Len(eps) \in Nat
          /\ eps'[Len(eps) + 1] = new /\ \A i \in 1..Len(eps) : eps'[i] = eps[i]
      BY <2>2, <3>5
    <3>7. ASSUME C.kind \in Documented, NEW i \in DOMAIN eps', topo.Links[i].form = "alias"
          PROVE  \/ /\ topo.Links[i].port >= FirstPort(C.kind)
                    /\ eps'[i].port - FirstInterface(C.kind) = topo.Links[i].port - FirstPort(C.kind)
                 \/ eps'[i].form = "alias"
      <4>1. CASE i = Len(eps) + 1
        BY <3>1, <3>5, <3>6, <3>7, <4>1
      <4>2. CASE i \in 1..Len(eps)
        <5>1. PortOk(i) \/ eps[i].form = "alias"
          BY <2>1, <3>6, <3>7, <4>2 DEF ConfInv, Wired
        <5> QED BY <3>6, <4>2, <5>1 DEF PortOk
      <4> QED BY <3>6, <4>1, <4>2
    <3> QED BY <1>1, <2>3, <3>6, <3>7, Frame DEF Wired, PortOk
  <2> QED BY <2>4, <2>5
<1> QED BY <1>2, <1>3, <1>4 DEF ConfInv

\* A node that passes CheckDeploymentConditions has no name left that was not mapped.
LEMMA CheckStep ==
    ASSUME ConfInv, CheckDeploymentConditions
    PROVE  ConfInv'
<1>1. /\ phase = "parsed" /\ UNCHANGED <<topo, cfg, eps, disk, certs, running, saved>>
      /\ phase' \in {"checked", "failed"}
  BY DEF CheckDeploymentConditions, Fail
<1>2. StateTypes' /\ SavedKept' /\ StartupOnItsWay' /\ EnforcedOnItsWay'
  BY <1>1, EarlyStep
<1>3. CertTypes' /\ CertChain' /\ Configured'
  BY <1>1, CertsKept, SettingsKept
<1>4. Wired'
  <2>1. CASE phase' = "failed"
    <3>1. ~ Checked'
      BY <2>1 DEF Checked
    <3> QED BY <1>1, <3>1, EndpointsKept
  <2>2. CASE phase' = "checked"
    <3>1. CheckInterfaceName(Kind)
      BY <2>2 DEF CheckDeploymentConditions, Fail
    <3>2. Kind = N /\ (C.kind \in Documented => "alias" \notin N.forms)
      BY <1>1, InProgress DEF KindFact
    <3>3. C.kind \in Documented => \A i \in DOMAIN eps : eps[i].form # "alias"
      BY <3>1, <3>2 DEF CheckInterfaceName
    <3> QED BY <1>1, <3>3, Frame DEF ConfInv, Wired, PortOk
  <2> QED BY <1>1, <2>1, <2>2
<1> QED BY <1>2, <1>3, <1>4 DEF ConfInv

\* The CA that is left can be loaded, or no node certificate can.
LEMMA AuthorityStep ==
    ASSUME ConfInv, certificateAuthoritySetup
    PROVE  ConfInv'
<1>1. /\ phase = "checked" /\ UNCHANGED <<topo, cfg, eps, disk, running, saved>>
      /\ phase' \in {"authorised", "failed"}
  BY DEF certificateAuthoritySetup, Fail
<1>2. StateTypes' /\ SavedKept' /\ StartupOnItsWay' /\ EnforcedOnItsWay'
  BY <1>1, EarlyStep
<1>3. Configured' /\ Wired'
  BY <1>1, SettingsKept, EndpointsKept DEF Checked
<1>4. certs \in [ca : Nat, caKey : BOOLEAN, node : Nat, nodeKey : BOOLEAN, made : Nat]
  BY DEF ConfInv, CertTypes
<1>5. CASE topo.CA = "external" \/ LoadCaCert
  <2>1. certs' = certs /\ phase' = "authorised"
    BY <1>5 DEF certificateAuthoritySetup, LoadOrGenerateCA
  <2>2. CertTypes' /\ CertChain'
    BY <1>1, <1>5, <2>1
       DEF ConfInv, CertTypes, CertChain, LoadNodeCert, LoadCaCert, CACert, Certified
  <2> QED BY <1>2, <1>3, <2>2 DEF ConfInv
<1>6. CASE topo.CA # "external" /\ ~ LoadCaCert
  <2>1. ~ LoadNodeCert
    BY <1>6 DEF ConfInv, CertChain
  <2> DEFINE n == certs.made + 1
  <2>2. n \in Nat /\ n # NoCert
    BY <1>4 DEF NoCert
  <2>3. LoadOrGenerateCA = [certs EXCEPT !.ca = n, !.caKey = TRUE, !.made = n]
    BY <1>4, <1>6 DEF LoadOrGenerateCA
  <2> HIDE DEF n
  <2>4. PICK b \in BOOLEAN :
           /\ certs' = [certs EXCEPT !.ca = n, !.caKey = b, !.made = n]
           /\ phase' = "authorised" => b
    <3>1. CASE certs' = LoadOrGenerateCA
      BY <2>3, <3>1
    <3>2. CASE certs' = [LoadOrGenerateCA EXCEPT !.caKey = FALSE] /\ Fail
      <4>1. certs' = [certs EXCEPT !.ca = n, !.caKey = FALSE, !.made = n]
        BY <1>4, <2>2, <2>3, <3>2
      <4> QED BY <3>2, <4>1 DEF Fail
    <3> QED BY <3>1, <3>2 DEF certificateAuthoritySetup
  <2>5. /\ certs' \in [ca : Nat, caKey : BOOLEAN, node : Nat, nodeKey : BOOLEAN, made : Nat]
        /\ certs'.ca = n /\ certs'.node = certs.node /\ certs'.nodeKey = certs.nodeKey
        /\ certs'.caKey = b
    BY <1>4, <2>2, <2>4
  <2>6. CertTypes' /\ ~ LoadNodeCert'
    BY <2>1, <2>5 DEF CertTypes, LoadNodeCert
  <2>7. phase' = "authorised" => LoadCaCert'
    BY <2>2, <2>4, <2>5 DEF LoadCaCert
  <2>8. CertChain'
    BY <1>1, <2>6, <2>7 DEF CertChain, Certified
  <2> QED BY <1>2, <1>3, <2>6, <2>8 DEF ConfInv
<1> QED BY <1>5, <1>6

\* Configurations: the two that PreDeploy writes, and one that was saved or runs.
LEMMA ContentFacts ==
    /\ {"startup"} \in Contents /\ {"default"} \in Contents /\ Absent \in Contents
    /\ Contents \subseteq Files /\ {} \in Files
    /\ \A x \in Files : x = Absent \/ (x \subseteq Layers /\ "absent" \notin x)
    /\ \A x \in Contents : x = Absent \/ (x \subseteq Layers /\ x # {} /\ "absent" \notin x)
    /\ \A x : x \subseteq Layers /\ x # {} => x \in Contents /\ x # Absent
    /\ \A x \in Contents : \A y \in Files : x # Absent /\ x \subseteq y => y # Absent
<1>1. "absent" \notin Layers /\ "startup" \in Layers /\ "default" \in Layers
  BY DEF Layers
<1>2. \A x : x \in Contents <=> x = Absent \/ (x \subseteq Layers /\ x # {})
  BY DEF Contents
<1>3. Absent = {"absent"}
  BY DEF Absent
<1>4. {"startup"} # {} /\ {"startup"} \subseteq Layers
  BY <1>1
<1>5. {"default"} # {} /\ {"default"} \subseteq Layers
  BY <1>1
<1>6. \A x \in Contents : x = Absent \/ (x \subseteq Layers /\ x # {} /\ "absent" \notin x)
  BY <1>1, <1>2
<1>7. \A x : x \subseteq Layers /\ x # {} => x \in Contents /\ x # Absent
  BY <1>1, <1>2, <1>3
<1>8. \A x \in Contents : \A y \in Files : x # Absent /\ x \subseteq y => y # Absent
  BY <1>1, <1>2, <1>3 DEF Files
<1>9. /\ Contents \subseteq Files /\ {} \in Files
      /\ \A x \in Files : x = Absent \/ (x \subseteq Layers /\ "absent" \notin x)
  BY <1>6 DEF Files
<1> QED BY <1>2, <1>4, <1>5, <1>6, <1>7, <1>8, <1>9

\* What PreDeploy leaves as the boot configuration.
BootFact(b) ==
    /\ ~ C.enforce /\ disk.boot # Absent /\ N.load \notin {"always", "consolidate", "nvram"} =>
          b = disk.boot
    /\ Uses /\ disk = NoDisk =>
          /\ "startup" \in b \/ LeftToPostDeploy \/ N.load \in {"none", "direct", "nvram"}
          /\ LeftToPostDeploy => b = Absent
    /\ Uses /\ C.enforce /\ (N.load = "srl" => C.startup = "full")
            /\ N.load \in {"vr", "generate", "always", "srl"} => b = {"startup"}
    /\ N.load = "direct" => b = disk.boot

\* Every kind leaves such a configuration, or fails and leaves the old one.
LEMMA PreDeployBoot ==
    ASSUME ConfInv, PreDeploy
    PROVE  \/ phase' = "failed" /\ UNCHANGED disk
           \/ /\ phase' = "prepared"
              /\ \E b \in Files : disk' = [disk EXCEPT !.boot = b] /\ BootFact(b)
<1>1. /\ phase = "authorised" /\ Registered /\ cfg = C /\ Kind = N /\ KindFact(C.kind, N)
      /\ C.startup \in {Unset, "full", "partial"}
  BY InProgress, CfgFields DEF PreDeploy, ConfInv, StateTypes
<1>2. disk \in [boot : Files, inner : Contents] /\ disk.boot \in Files /\ disk.inner \in Contents
  BY DEF ConfInv, StateTypes
<1>3. /\ {"startup"} \in Contents /\ {"default"} \in Contents /\ Absent \in Contents
      /\ Template \in Contents /\ (C.startup # Unset => Template = {"startup"})
      /\ Absent = {"absent"} /\ Contents \subseteq Files /\ {} \in Files
  BY <1>1, ContentFacts DEF Template, Absent
<1>4. disk = NoDisk => disk.boot = Absent /\ disk.inner = Absent
  BY DEF NoDisk
<1>5. Uses => UsesStartup(N) /\ C.startup # Unset /\ ~ C.suppress
  BY DEF Uses
<1>6. CannotGenerate <=> (C.enforce /\ (C.suppress \/ C.startup = Unset))
  BY <1>1 DEF CannotGenerate, ErrIncompatibleOptions, ErrNoStartupConfig
<1>7. ASSUME NEW b, b \in Files, Boot(b), BootFact(b)
      PROVE  /\ phase' = "prepared"
             /\ \E x \in Files : disk' = [disk EXCEPT !.boot = x] /\ BootFact(x)
  BY <1>7 DEF Boot
<1>8. Unset # "full" /\ Unset # "partial"
  BY DEF Unset
<1>9. \A t : GenerateConfig(disk.boot, t) =
          IF C.suppress \/ (~ C.enforce /\ disk.boot # Absent) THEN disk.boot ELSE t
  BY <1>1 DEF GenerateConfig
<1>10. CASE LoadNothing
  <2>1. BootFact(disk.boot) /\ Boot(disk.boot)
    BY <1>1, <1>10 DEF LoadNothing, BootFact, LeftToPostDeploy
  <2> QED BY <1>2, <1>7, <2>1
<1>11. CASE LoadStartupConfigFileVr
  <2> DEFINE b == IF C.startup = Unset \/ CannotGenerate THEN disk.boot
                  ELSE GenerateConfig(disk.boot, {"startup"})
  <2>1. N.load = "vr" /\ Boot(b)
    BY <1>1, <1>11 DEF LoadStartupConfigFileVr
  <2>2. b \in Files
    BY <1>2, <1>3, <1>9
  <2>3. BootFact(b)
    BY <1>3, <1>4, <1>5, <1>6, <1>9, <2>1 DEF BootFact, LeftToPostDeploy
  <2> HIDE DEF b
  <2> QED BY <1>7, <2>1, <2>2, <2>3
<1>12. CASE GenerateFromTemplate
  <2> DEFINE b == GenerateConfig(disk.boot, Template)
  <2>1. CASE CannotGenerate
    BY <1>12, <2>1 DEF GenerateFromTemplate, Fail
  <2>2. CASE ~ CannotGenerate
    <3>1. N.load = "generate" /\ Boot(b)
      BY <1>1, <1>12, <2>2 DEF GenerateFromTemplate
    <3>2. b \in Files
      BY <1>2, <1>3, <1>9
    <3>3. BootFact(b)
      BY <1>3, <1>4, <1>5, <1>6, <1>9, <2>2, <3>1 DEF BootFact, LeftToPostDeploy
    <3> HIDE DEF b
    <3> QED BY <1>7, <3>1, <3>2, <3>3
  <2> QED BY <2>1, <2>2
<1>13. CASE createARCOSFiles
  <2>1. N.load = "always" /\ Boot(Template)
    BY <1>1, <1>13 DEF createARCOSFiles
  <2>2. BootFact(Template)
    BY <1>3, <1>5, <2>1 DEF BootFact, LeftToPostDeploy
  <2> QED BY <1>3, <1>7, <2>1, <2>2
<1>14. CASE createCiscoSdwanFiles
  <2> DEFINE b == IF C.startup = Unset \/ disk.boot # Absent THEN disk.boot ELSE {"startup"}
  <2>1. N.load = "copyOnce" /\ (Boot(b) \/ (Fail /\ UNCHANGED disk))
    BY <1>1, <1>14 DEF createCiscoSdwanFiles
  <2>2. b \in Files
    BY <1>2, <1>3
  <2>3. BootFact(b)
    BY <1>3, <1>4, <1>5, <2>1 DEF BootFact, LeftToPostDeploy
  <2> HIDE DEF b
  <2> QED BY <1>7, <2>1, <2>2, <2>3 DEF Fail
<1>15. CASE consolidate
  <2> DEFINE b == IF disk.inner # Absent THEN disk.inner
                  ELSE {"default"} \cup (IF C.startup # Unset THEN {"startup"}
                                         ELSE disk.boot \ Absent)
  <2>1. N.load = "consolidate" /\ Boot(b)
    BY <1>1, <1>15 DEF consolidate
  <2>2. b \in Files
    <3>1. CASE disk.inner # Absent
      BY <1>2, <1>3, <3>1
    <3>2. CASE disk.inner = Absent
      <4>1. b \subseteq Layers /\ b # {}
        BY <1>2, <3>2, ContentFacts DEF Layers, Absent
      <4> QED BY <1>3, <4>1, ContentFacts
    <3> QED BY <3>1, <3>2
  <2>3. BootFact(b)
    BY <1>3, <1>4, <1>5, <2>1 DEF BootFact, LeftToPostDeploy
  <2> HIDE DEF b
  <2> QED BY <1>7, <2>1, <2>2, <2>3
<1>16. CASE createVrSROSFiles
  <2> DEFINE b == IF C.startup \in {Unset, "partial"} \/ disk.boot # Absent \/ CannotGenerate
                  THEN disk.boot ELSE GenerateConfig(disk.boot, {"startup"})
  <2>1. N.load = "vrsros" /\ Boot(b)
    BY <1>1, <1>16 DEF createVrSROSFiles
  <2>2. b \in Files
    BY <1>2, <1>3, <1>9
  <2>3. BootFact(b)
    BY <1>1, <1>3, <1>4, <1>5, <1>6, <1>9, <2>1 DEF BootFact, LeftToPostDeploy
  <2> HIDE DEF b
  <2> QED BY <1>7, <2>1, <2>2, <2>3
<1>17. CASE createSRLFiles
  <2> DEFINE b == IF C.startup # "full" THEN disk.boot ELSE GenerateConfig(disk.boot, {"startup"})
  <2>1. N.load = "srl" /\ (Boot(b) \/ (Fail /\ UNCHANGED disk))
    BY <1>1, <1>17 DEF createSRLFiles
  <2>2. b \in Files
    BY <1>2, <1>3, <1>9
  <2>3. BootFact(b)
    BY <1>1, <1>3, <1>4, <1>5, <1>8, <1>9, <2>1 DEF BootFact, LeftToPostDeploy
  <2> HIDE DEF b
  <2> QED BY <1>7, <2>1, <2>2, <2>3 DEF Fail
<1>18. CASE CreateIOLFiles
  <2>1. N.load = "nvram" /\ Boot({})
    BY <1>1, <1>18 DEF CreateIOLFiles
  <2>2. BootFact({})
    BY <2>1 DEF BootFact, LeftToPostDeploy
  <2> QED BY <1>3, <1>7, <2>1, <2>2
<1>19. CASE NotStored("pre") /\ Fail /\ UNCHANGED disk
  BY <1>19 DEF Fail
<1> QED BY <1>10, <1>11, <1>12, <1>13, <1>14, <1>15, <1>16, <1>17, <1>18, <1>19
        DEF PreDeploy, LoadBootConfig

\* PreDeploy gives the node a certificate of the CA and its boot configuration.
LEMMA PreDeployStep ==
    ASSUME ConfInv, PreDeploy
    PROVE  ConfInv'
<1>1. /\ phase = "authorised" /\ UNCHANGED <<topo, cfg, eps, running, saved>>
      /\ phase' \in {"prepared", "failed"}
  BY PreDeployBoot DEF PreDeploy
<1>2. Registered /\ cfg = C /\ Kind = N /\ KindFact(C.kind, N)
  BY <1>1, InProgress
<1>3. Configured' /\ Wired'
  BY <1>1, SettingsKept, EndpointsKept DEF Checked
<1>4. CertTypes' /\ CertChain'
  <2>1. Certified' => phase' = "prepared" /\ Kind.cert = "pre"
    BY <1>1 DEF Certified, Kind
  <2>2. phase' = "prepared" => StoreNodeCert("pre")
    BY DEF PreDeploy, Fail
  <2>3. StoreNodeCert("pre") \/ NotStored("pre")
    BY DEF PreDeploy
  <2> QED BY <1>1, <2>1, <2>2, <2>3, IssueStep
<1>5. CASE phase' = "failed" /\ UNCHANGED disk
  <2>1. StateTypes' /\ SavedKept' /\ StartupOnItsWay' /\ EnforcedOnItsWay'
    BY <1>1, <1>5, EarlyStep
  <2> QED BY <1>3, <1>4, <2>1 DEF ConfInv
<1>6. CASE /\ phase' = "prepared"
           /\ \E b \in Files : disk' = [disk EXCEPT !.boot = b] /\ BootFact(b)
  <2>1. PICK b \in Files : disk' = [disk EXCEPT !.boot = b] /\ BootFact(b)
    BY <1>6
  <2>2. /\ disk \in [boot : Files, inner : Contents] /\ disk.boot \in Files
        /\ saved \in Contents
    BY DEF ConfInv, StateTypes
  <2>3. /\ disk' \in [boot : Files, inner : Contents]
        /\ disk'.boot = b /\ disk'.inner = disk.inner
    BY <2>1, <2>2
  <2>4. StateTypes'
    BY <1>1, <1>6, <2>3 DEF ConfInv, StateTypes, Phases, Up
  <2>5. SavedKept'
    <3> SUFFICES ASSUME saved # Absent, ~ C.enforce, C.kind \notin SavedIsLost
                 PROVE  /\ N.save # "none"
                        /\ N.store = "inner" => saved \subseteq disk'.inner
                        /\ N.store = "boot" => saved \subseteq disk'.boot
      BY <1>1, <1>6, Frame DEF SavedKept, Up
    <3>1. /\ N.save # "none"
          /\ N.store = "inner" => saved \subseteq disk.inner
          /\ N.store = "boot" => saved \subseteq disk.boot
      BY <1>2 DEF ConfInv, SavedKept
    <3>2. N.store = "boot" => disk.boot # Absent
      BY <2>2, <3>1, ContentFacts
    <3>3. N.load # "always" /\ (N.load \in {"consolidate", "nvram"} => N.store = "inner")
      BY <1>2, <3>1 DEF KindFact
    <3>4. N.store = "boot" => b = disk.boot
      BY <2>1, <3>2, <3>3 DEF BootFact
    <3> QED BY <2>3, <3>1, <3>4
  <2>6. StartupOnItsWay'
    <3>1. fresh' => disk = NoDisk
      BY Zenon DEF PreDeploy
    <3>2. disk = NoDisk => disk.inner = Absent
      BY DEF NoDisk
    <3>3. Uses /\ disk = NoDisk =>
             /\ "startup" \in b \/ LeftToPostDeploy \/ N.load \in {"none", "direct", "nvram"}
             /\ LeftToPostDeploy => b = Absent
      BY <2>1 DEF BootFact
    <3> QED BY <1>1, <1>6, <2>3, <3>1, <3>2, <3>3, Frame DEF StartupOnItsWay
  <2>7. EnforcedOnItsWay'
    <3>1. N.load = "direct" => disk'.boot = Absent
      BY <1>2, <2>1, <2>3 DEF BootFact, ConfInv, EnforcedOnItsWay
    <3>2. ASSUME Uses, C.enforce, C.kind \notin EnforceIsIgnored,
                 ~ (C.kind = "nokia_srlinux" /\ C.startup = "partial")
          PROVE  b = {"startup"} \/ N.load = "direct" \/ N.post = "bootConfig"
      <4>1. C.startup = "full" \/ C.startup = "partial"
        BY <3>2, CfgFields DEF Uses, ConfInv, StateTypes
      <4>2. /\ N.load \in {"none", "vr", "generate", "always", "srl", "direct"}
            /\ N.load = "srl" => C.startup = "full"
            /\ N.load = "none" => N.post = "bootConfig"
        BY <1>2, <3>2, <4>1 DEF KindFact, Uses, UsesStartup
      <4> QED BY <2>1, <3>2, <4>2 DEF BootFact
    <3> QED BY <1>1, <1>6, <2>3, <3>1, <3>2, Frame DEF EnforcedOnItsWay
  <2> QED BY <1>3, <1>4, <2>4, <2>5, <2>6, <2>7 DEF ConfInv
<1> QED BY <1>5, <1>6, PreDeployBoot

\* A node boots from the storage if that has a configuration, from the file otherwise.
LEMMA BootedFact ==
    ASSUME NEW d \in [boot : Files, inner : Contents], Kind = N, cfg = C,
           KindFact(C.kind, N)
    PROVE  /\ Booted(d) \in Contents /\ Booted(d) # Absent
           /\ N.mount /\ N.store = "inner" /\ d.inner # Absent => d.inner \subseteq Booted(d)
           /\ N.mount /\ (N.store = "boot" \/ d.inner = Absent) => d.boot \ Absent \subseteq Booted(d)
           /\ N.load = "direct" /\ C.startup # Unset => "startup" \in Booted(d)
           /\ N.store = "boot" /\ "user" \notin d.boot => "user" \notin Booted(d)
<1> DEFINE s == IF N.store = "inner" /\ d.inner # Absent THEN d.inner ELSE d.boot
           m == IF N.mount THEN s \ Absent ELSE {}
           t == IF N.load = "direct" THEN Template ELSE {}
<1>1. Booted(d) = {"default"} \cup m \cup t
  BY DEF Booted
<1>2. s \in Files
  BY ContentFacts
<1>3. Template \subseteq Layers /\ "user" \notin Template /\ (C.startup # Unset => Template = {"startup"})
  BY DEF Template, Layers
<1>4. m \subseteq Layers /\ t \subseteq Layers
  <2>1. s \ Absent \subseteq Layers
    BY <1>2, ContentFacts
  <2> HIDE DEF s
  <2> QED BY <1>3, <2>1
<1>5. Booted(d) \in Contents /\ Booted(d) # Absent
  <2> HIDE DEF m, t
  <2>1. {"default"} \cup m \cup t \subseteq Layers
    BY <1>4 DEF Layers
  <2>2. {"default"} \cup m \cup t # {}
    OBVIOUS
  <2> QED BY <1>1, <2>1, <2>2, ContentFacts
<1>6. N.mount /\ N.store = "inner" /\ d.inner # Absent => d.inner \subseteq Booted(d)
  <2>1. d.inner # Absent => d.inner \ Absent = d.inner
    <3>1. d.inner # Absent => "absent" \notin d.inner
      BY ContentFacts
    <3> QED BY <3>1 DEF Absent
  <2> QED BY <1>1, <2>1
<1>7. N.mount /\ (N.store = "boot" \/ d.inner = Absent) => d.boot \ Absent \subseteq Booted(d)
  BY <1>1
<1>8. N.load = "direct" /\ C.startup # Unset => "startup" \in Booted(d)
  BY <1>1, <1>3
<1>9. N.store = "boot" /\ "user" \notin d.boot => "user" \notin Booted(d)
  BY <1>1, <1>3
<1> QED BY <1>5, <1>6, <1>7, <1>8, <1>9

\* The container boots.
LEMMA DeployStep ==
    ASSUME ConfInv, Deploy
    PROVE  ConfInv'
<1>1. /\ phase = "prepared" /\ UNCHANGED <<topo, cfg, eps, disk, certs, fresh, touched, saved>>
      /\ \/ phase' = "failed" /\ UNCHANGED running
         \/ /\ phase' = "deployed"
            /\ running' = IF Kind.extern /\ running # Absent THEN running ELSE Booted(disk)
  BY DEF Deploy, Fail
<1>2. Registered /\ cfg = C /\ Kind = N /\ KindFact(C.kind, N)
  BY <1>1, InProgress
<1>3. Configured' /\ Wired' /\ CertTypes' /\ CertChain'
  BY <1>1, SettingsKept, EndpointsKept, CertsKept DEF Checked
<1>4. CASE phase' = "failed" /\ UNCHANGED running
  BY <1>1, <1>3, <1>4, EarlyStep DEF ConfInv
<1>5. CASE /\ phase' = "deployed"
           /\ running' = IF Kind.extern /\ running # Absent THEN running ELSE Booted(disk)
  <2>1. disk \in [boot : Files, inner : Contents] /\ disk.boot \in Files /\ saved \in Contents
    BY DEF ConfInv, StateTypes
  <2>2. /\ Booted(disk) \in Contents /\ Booted(disk) # Absent
        /\ N.mount /\ N.store = "inner" /\ disk.inner # Absent => disk.inner \subseteq Booted(disk)
        /\ N.mount /\ (N.store = "boot" \/ disk.inner = Absent) =>
              disk.boot \ Absent \subseteq Booted(disk)
        /\ N.load = "direct" /\ C.startup # Unset => "startup" \in Booted(disk)
        /\ N.store = "boot" /\ "user" \notin disk.boot => "user" \notin Booted(disk)
    BY <1>2, <2>1, BootedFact
  <2>3. StateTypes'
    BY <1>1, <1>5, <2>2 DEF ConfInv, StateTypes, Phases
  <2>4. SavedKept'
    <3> SUFFICES ASSUME saved # Absent, ~ C.enforce, C.kind \notin SavedIsLost
                 PROVE  /\ N.save # "none"
                        /\ N.store = "inner" => saved \subseteq disk.inner
                        /\ N.store = "boot" => saved \subseteq disk.boot
                        /\ saved \subseteq running'
      BY <1>1, Frame DEF SavedKept
    <3>1. /\ N.save # "none"
          /\ N.store = "inner" => saved \subseteq disk.inner
          /\ N.store = "boot" => saved \subseteq disk.boot
      BY <1>2 DEF ConfInv, SavedKept
    <3>2. N.mount /\ ~ N.extern /\ N.store \in {"inner", "boot"}
      BY <1>2, <3>1 DEF KindFact
    <3>3. running' = Booted(disk)
      BY <1>2, <1>5, <3>2
    <3>4. "absent" \notin saved
      BY <2>1, ContentFacts
    <3>5. CASE N.store = "inner"
      <4>1. disk.inner # Absent
        BY <2>1, <3>1, <3>5, ContentFacts
      <4> QED BY <2>2, <3>1, <3>2, <3>3, <3>5, <4>1
    <3>6. CASE N.store = "boot"
      <4>1. saved \subseteq disk.boot \ Absent
        BY <3>1, <3>4, <3>6 DEF Absent
      <4> QED BY <2>2, <3>1, <3>2, <3>3, <3>6, <4>1
    <3> QED BY <3>2, <3>5, <3>6
  <2>5. "startup" \in disk.boot => "startup" \in disk.boot \ Absent
    BY DEF Absent
  <2>6. StartupOnItsWay'
    <3> SUFFICES ASSUME Uses, fresh, saved = Absent
                 PROVE  /\ disk.inner = Absent /\ (LeftToPostDeploy => disk.boot = Absent)
                        /\ "startup" \in running' \/ LeftToPostDeploy \/ N.post = "bootConfig"
      BY <1>1, <1>5, Frame DEF StartupOnItsWay
    <3>1. /\ disk.inner = Absent /\ (LeftToPostDeploy => disk.boot = Absent)
          /\ "startup" \in disk.boot \/ LeftToPostDeploy \/ N.load \in {"none", "direct", "nvram"}
      BY <1>1 DEF ConfInv, StartupOnItsWay
    <3>2. N.mount /\ ~ N.extern /\ C.startup # Unset /\ (N.load \in {"none", "nvram"} => N.post = "bootConfig")
      BY <1>2 DEF KindFact, Uses, UsesStartup
    <3>3. running' = Booted(disk)
      BY <1>2, <1>5, <3>2
    <3> QED BY <2>2, <2>5, <3>1, <3>2, <3>3
  <2>7. EnforcedOnItsWay'
    <3>1. N.load = "direct" => disk.boot = Absent
      BY <1>2 DEF ConfInv, EnforcedOnItsWay
    <3>2. ASSUME Uses, C.enforce, C.kind \notin EnforceIsIgnored,
                 ~ (C.kind = "nokia_srlinux" /\ C.startup = "partial")
          PROVE  ("startup" \in running' /\ "user" \notin running') \/ N.post = "bootConfig"
      <4>1. disk.boot = {"startup"} \/ N.load = "direct" \/ N.post = "bootConfig"
        BY <1>1, <3>2 DEF ConfInv, EnforcedOnItsWay
      <4>2. N.mount /\ ~ N.extern /\ C.startup # Unset /\ N.store = "boot"
        BY <1>2, <3>2 DEF KindFact, Uses
      <4>3. running' = Booted(disk)
        BY <1>2, <1>5, <4>2
      <4>4. "user" \notin Absent
        BY DEF Absent
      <4>5. CASE N.load = "direct"
        BY <2>2, <3>1, <4>2, <4>3, <4>4, <4>5
      <4>6. CASE disk.boot = {"startup"}
        BY <2>2, <2>5, <4>2, <4>3, <4>6
      <4> QED BY <4>1, <4>5, <4>6
    <3> QED BY <1>1, <1>2, <1>5, <3>1, <3>2, Frame DEF EnforcedOnItsWay
  <2> QED BY <1>3, <2>3, <2>4, <2>6, <2>7 DEF ConfInv
<1> QED BY <1>1, <1>4, <1>5

\* What PostDeploy does to the file and the running node, for every kind.
PostFact ==
    /\ disk' \in [boot : Files, inner : Contents]
    /\ running' \in Contents /\ running' # Absent
    /\ disk'.inner = disk.inner \/ (~ fresh /\ disk'.inner = running' /\ N.post = "bootConfig")
    /\ N.post = "none" => UNCHANGED disk
    /\ \/ UNCHANGED <<disk, running>> /\ (phase' = "ready" =>
             N.post # "bootConfig" /\ (LeftToPostDeploy => disk.boot # Absent))
       \/ /\ disk'.boot = running' /\ running \subseteq running' /\ N.post # "bootConfig"
          /\ "user" \in running' => "user" \in running
          /\ LeftToPostDeploy /\ disk.boot = Absent => "startup" \in running'
       \/ /\ N.post = "bootConfig"
          /\ running' = Booted([disk EXCEPT !.boot = disk'.boot])
          /\ disk'.boot = {"default"} \cup (Template \cap {"startup"})

\* Every branch of PostDeploy does that.
LEMMA PostDeployFact ==
    ASSUME ConfInv, PostDeploy
    PROVE  PostFact
<1>1. phase = "deployed" /\ Registered /\ cfg = C /\ Kind = N /\ KindFact(C.kind, N)
  BY InProgress DEF PostDeploy
<1>2. /\ disk \in [boot : Files, inner : Contents] /\ running \in Contents /\ running # Absent
  BY <1>1 DEF ConfInv, StateTypes, Up
<1>3. running \subseteq Layers /\ running # {}
  BY <1>2, ContentFacts
<1>4. LeftToPostDeploy => /\ C.startup = "partial"
                          /\ N.load = "vrsros" => N.post = "partial"
                          /\ N.load = "srl" => N.post = "overlay"
                          /\ N.load \in {"vrsros", "srl"}
  BY <1>1 DEF KindFact, LeftToPostDeploy
<1>5. ASSUME disk' = [disk EXCEPT !.boot = running'], running' \in Contents, running' # Absent
      PROVE  /\ disk' \in [boot : Files, inner : Contents]
             /\ disk'.inner = disk.inner /\ disk'.boot = running'
  BY <1>2, <1>5, ContentFacts
<1>6. CASE Degraded
  BY <1>2, <1>6 DEF Degraded, PostFact
<1>7. CASE PostNothing
  BY <1>1, <1>2, <1>4, <1>7 DEF PostNothing, PostFact
<1>8. CASE PostSave
  <2>1. N.post = "save" /\ running' = running /\ disk' = [disk EXCEPT !.boot = running']
    BY <1>1, <1>8 DEF PostSave
  <2> QED BY <1>2, <1>4, <1>5, <2>1 DEF PostFact
<1>9. CASE srosPostSave
  <2>1. N.post = "saveUnlessFull" /\ running' = running
    BY <1>1, <1>9 DEF srosPostSave
  <2>2. CASE disk' = disk
    BY <1>2, <1>4, <2>1, <2>2 DEF PostFact
  <2>3. CASE disk' = [disk EXCEPT !.boot = running']
    BY <1>2, <1>4, <1>5, <2>1, <2>3 DEF PostFact
  <2> QED BY <1>9, <2>1, <2>2, <2>3 DEF srosPostSave
<1>10. CASE genBootConfig
  <2> DEFINE b == {"default"} \cup (Template \cap {"startup"})
  <2>1. b \subseteq Layers /\ b # {}
    BY DEF Layers
  <2>2. b \in Files
    BY <2>1, ContentFacts
  <2>3. PICK d : d = [disk EXCEPT !.boot = b]
    OBVIOUS
  <2>4. /\ N.post = "bootConfig" /\ running' = Booted(d)
        /\ disk' = d \/ (~ fresh /\ disk' = [d EXCEPT !.inner = running'])
    BY <1>1, <1>10, <2>3 DEF genBootConfig
  <2> HIDE DEF b
  <2>5. d \in [boot : Files, inner : Contents] /\ d.inner = disk.inner /\ d.boot = b
    BY <1>2, <2>2, <2>3
  <2>6. running' \in Contents /\ running' # Absent
    BY <1>1, <2>4, <2>5, BootedFact
  <2>7. /\ disk' \in [boot : Files, inner : Contents] /\ disk'.boot = b
        /\ disk'.inner = disk.inner \/ (~ fresh /\ disk'.inner = running')
    BY <2>4, <2>5, <2>6
  <2>8. running' = Booted([disk EXCEPT !.boot = disk'.boot])
    BY <2>3, <2>4, <2>7
  <2> QED BY <2>4, <2>6, <2>7, <2>8 DEF PostFact, b
<1>11. CASE applyPartialConfig
  <2>1. CASE disk' = [disk EXCEPT !.boot = running']
             /\ running' = running \cup (IF C.startup = "partial" /\ disk.boot = Absent
                                         THEN {"startup"} ELSE {})
    <3>1. N.post = "partial"
      BY <1>1, <1>11 DEF applyPartialConfig
    <3>2. running' \subseteq Layers /\ running' # {}
      BY <1>3, <2>1 DEF Layers
    <3>3. running' \in Contents /\ running' # Absent
      BY <3>2, ContentFacts
    <3> QED BY <1>4, <1>5, <2>1, <3>1, <3>3 DEF PostFact
  <2>2. CASE ~ (C.startup = "partial" /\ disk.boot = Absent) /\ UNCHANGED <<disk, running>>
    <3>1. N.post = "partial"
      BY <1>1, <1>11 DEF applyPartialConfig
    <3> QED BY <1>2, <1>4, <2>2, <3>1 DEF PostFact
  <2> QED BY <1>1, <1>11, <2>1, <2>2 DEF applyPartialConfig
<1>12. CASE addOverlayCLIConfig
  <2>1. CASE disk.boot = Absent
    <3>1. /\ N.post = "overlay" /\ disk' = [disk EXCEPT !.boot = running']
          /\ running' = running \cup (IF C.startup = "partial" THEN {"startup"} ELSE {})
      BY <1>1, <1>12, <2>1 DEF addOverlayCLIConfig
    <3>2. running' \subseteq Layers /\ running' # {}
      BY <1>3, <3>1 DEF Layers
    <3>3. running' \in Contents /\ running' # Absent
      BY <3>2, ContentFacts
    <3> QED BY <1>4, <1>5, <3>1, <3>3 DEF PostFact
  <2>2. CASE disk.boot # Absent
    BY <1>1, <1>2, <1>4, <1>12, <2>2 DEF addOverlayCLIConfig, PostFact
  <2> QED BY <2>1, <2>2
<1> QED BY <1>6, <1>7, <1>8, <1>9, <1>10, <1>11, <1>12 DEF PostDeploy, Configure

\* PostDeploy completes the configuration.
LEMMA PostDeployStep ==
    ASSUME ConfInv, PostDeploy
    PROVE  ConfInv'
<1>1. /\ phase = "deployed" /\ UNCHANGED <<topo, cfg, eps, fresh, touched, saved>>
      /\ phase' \in {"ready", "degraded"}
  BY DEF PostDeploy, Configure, Degraded, PostNothing, PostSave, srosPostSave, genBootConfig, applyPartialConfig,
         addOverlayCLIConfig, Ready
<1>2. Registered /\ cfg = C /\ Kind = N /\ KindFact(C.kind, N)
  BY <1>1, InProgress
<1>3. PostFact
  BY PostDeployFact
<1>4. Configured' /\ Wired' /\ CertTypes' /\ CertChain'
  <2>1. Configured' /\ Wired'
    BY <1>1, SettingsKept, EndpointsKept DEF Checked
  <2>2. StoreNodeCert("post") \/ (NotStored("post") /\ phase' = "degraded" /\ Kind.cert = "post")
    BY DEF PostDeploy, Degraded, NotStored
  <2>3. Certified' => Certified \/ (Kind.cert = "post" /\ phase' = "ready")
    BY <1>1 DEF Certified, Kind
  <2>4. Certified => Kind.cert = "pre"
    BY <1>1 DEF Certified
  <2>5. Certified' => StoreNodeCert("post") /\ (Kind.cert = "post" \/ Certified)
    BY <2>2, <2>3, <2>4
  <2> QED BY <1>1, <2>1, <2>2, <2>5, IssueStep
<1>5. /\ disk \in [boot : Files, inner : Contents] /\ saved \in Contents
      /\ disk' \in [boot : Files, inner : Contents]
      /\ disk'.inner = disk.inner \/ (~ fresh /\ disk'.inner = running')
      /\ running' \in Contents /\ running' # Absent
  BY <1>3 DEF PostFact, ConfInv, StateTypes
<1>6. StateTypes'
  BY <1>1, <1>5 DEF ConfInv, StateTypes, Phases
<1>7. N.post = "bootConfig" /\ running' = Booted([disk EXCEPT !.boot = disk'.boot]) =>
        /\ N.mount /\ N.store = "inner" /\ disk.inner # Absent => disk.inner \subseteq running'
        /\ N.mount /\ (N.store = "boot" \/ disk.inner = Absent) =>
              disk'.boot \ Absent \subseteq running'
        /\ N.store = "boot" /\ "user" \notin disk'.boot => "user" \notin running'
  <2>1. PICK d : d = [disk EXCEPT !.boot = disk'.boot]
    OBVIOUS
  <2>2. d \in [boot : Files, inner : Contents] /\ d.boot = disk'.boot /\ d.inner = disk.inner
    BY <1>5, <2>1
  <2> QED BY <1>2, <2>1, <2>2, BootedFact
<1>8. SavedKept'
  <2> SUFFICES ASSUME saved # Absent, ~ C.enforce, C.kind \notin SavedIsLost
               PROVE  /\ N.save # "none"
                      /\ N.store = "inner" => saved \subseteq disk'.inner
                      /\ N.store = "boot" => saved \subseteq disk'.boot
                      /\ saved \subseteq running'
    BY <1>1, Frame DEF SavedKept
  <2>1. /\ N.save # "none" /\ saved \subseteq running
        /\ N.store = "inner" => saved \subseteq disk.inner
        /\ N.store = "boot" => saved \subseteq disk.boot
    BY <1>1, <1>2 DEF ConfInv, SavedKept, Up
  <2>2. N.mount /\ (N.post = "bootConfig" => N.store = "inner")
    BY <1>2, <2>1 DEF KindFact
  <2>3. CASE UNCHANGED <<disk, running>>
    BY <2>1, <2>3
  <2>4. CASE disk'.boot = running' /\ running \subseteq running' /\ N.post # "bootConfig"
    <3>1. disk'.inner = disk.inner
      BY <1>3, <2>4 DEF PostFact
    <3> QED BY <2>1, <2>4, <3>1
  <2>5. CASE N.post = "bootConfig" /\ running' = Booted([disk EXCEPT !.boot = disk'.boot])
    <3>1. disk.inner # Absent
      BY <1>5, <2>1, <2>2, <2>5, ContentFacts DEF ConfInv, StateTypes
    <3>2. saved \subseteq running'
      BY <1>7, <2>1, <2>2, <2>5, <3>1
    <3> QED BY <1>5, <2>1, <2>2, <2>5, <3>2
  <2> QED BY <1>3, <2>3, <2>4, <2>5 DEF PostFact
<1>9. Uses => /\ "startup" \in ({"default"} \cup (Template \cap {"startup"})) \ Absent
              /\ "user" \notin {"default"} \cup (Template \cap {"startup"})
  BY <1>2 DEF Uses, Template, Absent
<1>10. StartupOnItsWay'
  <2> SUFFICES ASSUME Uses, fresh, saved = Absent, phase' = "ready"
               PROVE  "startup" \in running'
    BY <1>1, Frame DEF StartupOnItsWay
  <2>1. /\ disk.inner = Absent /\ (LeftToPostDeploy => disk.boot = Absent)
        /\ "startup" \in running \/ LeftToPostDeploy \/ N.post = "bootConfig"
    BY <1>1 DEF ConfInv, StartupOnItsWay
  <2>2. CASE UNCHANGED <<disk, running>> /\ N.post # "bootConfig"
             /\ (LeftToPostDeploy => disk.boot # Absent)
    BY <2>1, <2>2
  <2>3. CASE /\ disk'.boot = running' /\ running \subseteq running' /\ N.post # "bootConfig"
             /\ LeftToPostDeploy /\ disk.boot = Absent => "startup" \in running'
    BY <2>1, <2>3
  <2>4. CASE /\ N.post = "bootConfig" /\ running' = Booted([disk EXCEPT !.boot = disk'.boot])
             /\ disk'.boot = {"default"} \cup (Template \cap {"startup"})
    <3>1. N.mount /\ disk.inner = Absent
      BY <1>5, <2>1 DEF Uses
    <3> QED BY <1>7, <1>9, <2>4, <3>1
  <2> QED BY <1>3, <2>2, <2>3, <2>4 DEF PostFact
<1>11. EnforcedOnItsWay'
  <2>1. N.load = "direct" => disk'.boot = Absent
    <3>1. N.load = "direct" => N.post = "none" /\ disk.boot = Absent
      BY <1>2 DEF KindFact, ConfInv, EnforcedOnItsWay
    <3> QED BY <1>3, <3>1 DEF PostFact
  <2>2. ASSUME Uses, C.enforce, C.kind \notin EnforceIsIgnored, ~ touched, phase' = "ready",
               ~ (C.kind = "nokia_srlinux" /\ C.startup = "partial")
        PROVE  "startup" \in running' /\ "user" \notin running'
    <3>1. ("startup" \in running /\ "user" \notin running) \/ N.post = "bootConfig"
      BY <1>1, <2>2 DEF ConfInv, EnforcedOnItsWay
    <3>2. N.mount /\ N.store = "boot"
      BY <1>2, <2>2 DEF KindFact, Uses
    <3>3. CASE UNCHANGED <<disk, running>> /\ N.post # "bootConfig"
      BY <3>1, <3>3
    <3>4. CASE /\ running \subseteq running' /\ N.post # "bootConfig"
               /\ "user" \in running' => "user" \in running
      BY <3>1, <3>4
    <3>5. CASE /\ N.post = "bootConfig" /\ running' = Booted([disk EXCEPT !.boot = disk'.boot])
               /\ disk'.boot = {"default"} \cup (Template \cap {"startup"})
      BY <1>7, <1>9, <2>2, <3>2, <3>5
    <3> QED BY <1>3, <2>2, <3>3, <3>4, <3>5 DEF PostFact
  <2> QED BY <1>1, <1>2, <2>1, <2>2, Frame DEF EnforcedOnItsWay
<1> QED BY <1>4, <1>6, <1>8, <1>10, <1>11 DEF ConfInv

\* The user changes the running configuration.
LEMMA EditStep ==
    ASSUME ConfInv, UserEdits
    PROVE  ConfInv'
<1>1. /\ phase \in {"deployed", "ready", "degraded"} /\ running' = running \cup {"user"}
      /\ UNCHANGED <<topo, phase, cfg, eps, disk, certs, fresh, saved>>
  BY DEF UserEdits, Up
<1>2. touched'
  BY Zenon DEF UserEdits
<1>3. Configured' /\ Wired' /\ CertTypes' /\ CertChain'
  BY <1>1, SettingsKept, EndpointsKept, CertsKept DEF Checked
<1>4. StateTypes'
  <2>1. running \subseteq Layers
    BY <1>1, ContentFacts DEF ConfInv, StateTypes, Up
  <2>2. running' \subseteq Layers /\ running' # {}
    BY <1>1, <2>1 DEF Layers
  <2>3. running' \in Contents /\ running' # Absent
    BY <2>2, ContentFacts
  <2> QED BY <1>1, <2>3 DEF ConfInv, StateTypes
<1>5. SavedKept'
  BY <1>1, Frame DEF ConfInv, SavedKept, Up
<1>6. StartupOnItsWay'
  BY <1>1, Frame DEF ConfInv, StartupOnItsWay
<1>7. EnforcedOnItsWay'
  BY <1>1, <1>2, Frame DEF ConfInv, EnforcedOnItsWay
<1> QED BY <1>3, <1>4, <1>5, <1>6, <1>7 DEF ConfInv

\* SaveConfig puts the running configuration where the node boots from.
LEMMA SaveStep ==
    ASSUME ConfInv, SaveConfig
    PROVE  ConfInv'
<1>1. /\ phase \in {"deployed", "ready", "degraded"} /\ Kind.save # "none" /\ saved' = running
      /\ disk' = IF Kind.save # "file" THEN disk
                 ELSE IF Kind.store = "inner" THEN [disk EXCEPT !.inner = running]
                 ELSE [disk EXCEPT !.boot = running]
      /\ UNCHANGED <<topo, phase, cfg, eps, certs, running, fresh, touched>>
  BY DEF SaveConfig, Up
<1>2. Registered /\ cfg = C /\ Kind = N /\ KindFact(C.kind, N)
  BY <1>1, InProgress
<1>3. Configured' /\ Wired' /\ CertTypes' /\ CertChain'
  BY <1>1, SettingsKept, EndpointsKept, CertsKept DEF Checked
<1>4. disk \in [boot : Files, inner : Contents] /\ running \in Contents /\ running # Absent
  BY <1>1 DEF ConfInv, StateTypes, Up
<1>5. /\ disk' \in [boot : Files, inner : Contents]
      /\ N.save = "file" /\ N.store = "inner" => disk'.inner = running
      /\ N.save = "file" /\ N.store = "boot" => disk'.boot = running
  BY <1>1, <1>2, <1>4, ContentFacts
<1>6. StateTypes'
  BY <1>1, <1>4, <1>5 DEF ConfInv, StateTypes, Up
<1>7. SavedKept'
  <2> SUFFICES ASSUME C.kind \notin SavedIsLost
               PROVE  /\ N.save # "none"
                      /\ N.store = "inner" => running \subseteq disk'.inner
                      /\ N.store = "boot" => running \subseteq disk'.boot
    BY <1>1, Frame DEF SavedKept
  <2>1. N.save = "file"
    BY <1>1, <1>2 DEF KindFact
  <2> QED BY <1>1, <1>2, <1>5, <2>1
<1>8. StartupOnItsWay'
  BY <1>1, <1>4 DEF StartupOnItsWay, Absent
<1>9. EnforcedOnItsWay'
  <2>1. N.load # "direct"
    BY <1>1, <1>2 DEF KindFact
  <2> QED BY <1>1, <2>1, Frame DEF ConfInv, EnforcedOnItsWay
<1> QED BY <1>3, <1>6, <1>7, <1>8, <1>9 DEF ConfInv

\* A destroy leaves the directory as it is, or empty.
LEMMA DestroyStep ==
    ASSUME ConfInv, NEW cleanup \in BOOLEAN, Destroy(cleanup)
    PROVE  ConfInv'
<1>1. /\ phase' = "file" /\ cfg' = NoCfg /\ running' \in {running, Absent}
      /\ UNCHANGED topo
      /\ \/ /\ disk' = NoDisk /\ saved' = Absent
            /\ certs' = [NoCerts EXCEPT !.made = certs.made]
         \/ UNCHANGED <<disk, saved, certs>>
  BY DEF Destroy
<1>2. Configured' /\ Wired'
  <2>1. eps' = << >>
    BY DEF Destroy
  <2> QED BY <1>1, <2>1 DEF Configured, Wired
<1>3. StartupOnItsWay'
  BY <1>1 DEF StartupOnItsWay
<1>4. NoDisk \in [boot : Files, inner : Contents] /\ NoDisk.boot = Absent /\ Absent \in Contents
  BY ContentFacts DEF NoDisk
<1>5. StateTypes'
  BY <1>1, <1>4 DEF ConfInv, StateTypes, Phases, Up
<1>6. SavedKept'
  BY <1>1, Frame DEF ConfInv, SavedKept, Up
<1>7. EnforcedOnItsWay'
  BY <1>1, <1>4, Frame DEF ConfInv, EnforcedOnItsWay
<1>8. CertTypes' /\ CertChain'
  <2>1. CASE UNCHANGED certs
    BY <1>1, <2>1, CertsKept
  <2>2. CASE certs' = [NoCerts EXCEPT !.made = certs.made]
    <3>1. certs.made \in Nat
      BY DEF ConfInv, CertTypes
    <3>2. /\ NoCerts \in [ca : Nat, caKey : BOOLEAN, node : Nat, nodeKey : BOOLEAN, made : Nat]
          /\ NoCerts.node = NoCert
      BY DEF NoCerts, NoCert
    <3>3. /\ certs' \in [ca : Nat, caKey : BOOLEAN, node : Nat, nodeKey : BOOLEAN, made : Nat]
          /\ certs'.node = NoCert
      BY <2>2, <3>1, <3>2
    <3> QED BY <1>1, <3>3 DEF CertTypes, CertChain, LoadNodeCert
  <2> QED BY <1>1, <2>1, <2>2
<1> QED BY <1>2, <1>3, <1>5, <1>6, <1>7, <1>8 DEF ConfInv

(***************************************************************************)
(* The theorems.                                                           *)
(***************************************************************************)

\* The invariant holds at the start: nothing is deployed and the directory is empty.
LEMMA ConfInit == Init => ConfInv
<1> SUFFICES ASSUME Init PROVE ConfInv
  OBVIOUS
<1>1. /\ topo \in Topologies /\ phase = "file" /\ cfg = NoCfg /\ disk = NoDisk /\ certs = NoCerts
      /\ running = Absent /\ saved = Absent /\ eps = << >>
  BY DEF Init
<1>2. NoDisk \in [boot : Files, inner : Contents] /\ NoDisk.boot = Absent /\ Absent \in Contents
  BY ContentFacts DEF NoDisk
<1>3. StateTypes
  BY <1>1, <1>2 DEF StateTypes, Phases, Up
<1>4. /\ NoCerts \in [ca : Nat, caKey : BOOLEAN, node : Nat, nodeKey : BOOLEAN, made : Nat]
      /\ NoCerts.node = NoCert
  BY DEF NoCerts, NoCert
<1>5. CertTypes /\ CertChain
  BY <1>1, <1>4 DEF CertTypes, CertChain, LoadNodeCert
<1>6. Configured /\ Wired /\ SavedKept /\ StartupOnItsWay /\ EnforcedOnItsWay
  BY <1>1, <1>2 DEF Configured, Wired, SavedKept, StartupOnItsWay,
                    EnforcedOnItsWay
<1> QED BY <1>3, <1>5, <1>6 DEF ConfInv

\* Every step keeps it.
LEMMA ConfNext == ConfInv /\ [Next]_vars => ConfInv'
<1> SUFFICES ASSUME ConfInv, [Next]_vars PROVE ConfInv'
  OBVIOUS
<1>1. CASE UNCHANGED vars
  <2> USE <1>1 DEF vars
  <2>1. StateTypes' /\ CertTypes' /\ CertChain' /\ Wired'
    BY EndpointsKept DEF ConfInv, StateTypes, Up, CertTypes, CertChain, LoadNodeCert, LoadCaCert,
           CACert, Kind, Checked, Certified
  <2>2. Configured' /\ SavedKept'
    BY Frame DEF ConfInv, Configured, SavedKept, Up
  <2>3. StartupOnItsWay' /\ EnforcedOnItsWay'
    BY Frame DEF ConfInv, StartupOnItsWay, EnforcedOnItsWay
  <2> QED BY <2>1, <2>2, <2>3 DEF ConfInv
<1> QED BY <1>1, NewNodeStep, ResolveStep, CheckStep, AuthorityStep, PreDeployStep, DeployStep,
           PostDeployStep, EditStep, SaveStep, DestroyStep DEF Next

\* The invariant holds in every reachable state.
THEOREM ConfInvHolds == Spec => []ConfInv
  BY ConfInit, ConfNext, PTL DEF Spec

\* Every port of a checked node, named as its own system names it, is the interface that is
\* documented for it, for every list of links and every registered kind.
THEOREM PortsTheorem == Spec => []PortsAsDocumented
<1>1. ConfInv => PortsAsDocumented
  <2> SUFFICES ASSUME ConfInv, Checked, cfg.kind \in Documented, NEW i \in DOMAIN eps,
                      topo.Links[i].form = "alias"
               PROVE  /\ topo.Links[i].port >= FirstPort(cfg.kind)
                      /\ eps[i].port - FirstInterface(cfg.kind)
                            = topo.Links[i].port - FirstPort(cfg.kind)
    BY DEF PortsAsDocumented
  <2>1. Registered /\ cfg = C
    BY InProgress DEF Checked
  <2> QED BY <2>1 DEF ConfInv, Wired, PortOk
<1> QED BY <1>1, ConfInvHolds, PTL

\* The certificate of a node that got as far as to have one verifies against the CA of the
\* lab and has its key, however often the lab was deployed before and wherever a deployment
\* ended, between the two files of a certificate too.
THEOREM CertificatesTheorem == Spec => []CertificatesVerify
<1>1. ConfInv => CertificatesVerify
  <2> SUFFICES ASSUME ConfInv, cfg # NoCfg, cfg.issue, Certified
               PROVE  LoadNodeCert /\ certs.node = CACert /\ (topo.CA = "external" \/ LoadCaCert)
    BY DEF CertificatesVerify
  <2> QED BY DEF ConfInv, CertChain
<1> QED BY <1>1, ConfInvHolds, PTL

\* What SaveConfig reported as saved is in the running node after every later deployment
\* that keeps the directory, for every kind but the six that lose it.
THEOREM SavedTheorem == Spec => []SavedConfigIsBooted
<1>1. ConfInv => SavedConfigIsBooted
  <2> SUFFICES ASSUME ConfInv, phase = "ready", saved # Absent, ~ cfg.enforce,
                      cfg.kind \notin SavedIsLost
               PROVE  saved \subseteq running
    BY DEF SavedConfigIsBooted
  <2>1. Registered /\ cfg = C
    BY InProgress
  <2> QED BY <2>1 DEF ConfInv, SavedKept, Up
<1> QED BY <1>1, ConfInvHolds, PTL

\* A node whose directory is empty boots with the startup-config that some level of the
\* topology file gives it.
THEOREM StartupTheorem == Spec => []StartupIsBooted
<1>1. ConfInv => StartupIsBooted
  <2> SUFFICES ASSUME ConfInv, Settled, fresh, ~ cfg.suppress, saved = Absent,
                      UsesStartup(Kind), Kind.mount,
                      \E i \in 1..4 : Levels(topo)[i].startup # Unset
               PROVE  "startup" \in running
    BY DEF StartupIsBooted
  <2>1. phase = "ready"
    BY DEF Settled
  <2>2. Registered /\ cfg = C /\ Kind = N
    BY <2>1, InProgress
  <2>3. C.startup # Unset
    BY CfgFields DEF ConfInv, StateTypes
  <2>4. Uses
    BY <2>2, <2>3 DEF Uses
  <2> QED BY <2>1, <2>4 DEF ConfInv, StartupOnItsWay
<1> QED BY <1>1, ConfInvHolds, PTL

\* With enforce-startup-config the node boots from the startup-config and nothing else,
\* whatever was saved before, except for the kinds that ignore it.
THEOREM EnforcedTheorem == Spec => []EnforcedStartupIsBooted
<1>1. ConfInv => EnforcedStartupIsBooted
  <2> SUFFICES ASSUME ConfInv, ~ topo.Node.null, cfg.kind \notin EnforceIsIgnored,
                      ~ (cfg.kind = "nokia_srlinux" /\ cfg.startup = "partial"),
                      Settled, Enforced, cfg.startup # Unset, ~ cfg.suppress,
                      UsesStartup(Kind), Kind.mount
               PROVE  "startup" \in running /\ "user" \notin running
    BY DEF EnforcedStartupIsBooted, StartupConfigEnforced
  <2>1. phase = "ready" /\ ~ touched
    BY DEF Settled
  <2>2. Registered /\ cfg = C /\ Kind = N
    BY <2>1, InProgress
  <2>3. C.enforce
    BY CfgFields DEF ConfInv, StateTypes
  <2>4. Uses
    BY <2>2 DEF Uses
  <2> QED BY <2>1, <2>2, <2>3, <2>4 DEF ConfInv, EnforcedOnItsWay
<1> QED BY <1>1, ConfInvHolds, PTL

(***************************************************************************)
(* The merged lists of wait-for, by induction on the loop of AppendMissing.*)
(***************************************************************************)

\* A set that has 0 and the successors of its elements has all natural numbers: there is
\* no least number that it misses.
LEMMA SetInduction ==
    ASSUME NEW T, 0 \in T, \A n \in Nat : n \in T => n + 1 \in T
    PROVE  \A n \in Nat : n \in T
<1> DEFINE Rest == {n \in Nat : n \notin T}
<1>1. SUFFICES ASSUME Rest # {} PROVE FALSE
  OBVIOUS
<1>2. Rest \in SUBSET Nat
  OBVIOUS
<1> HIDE DEF Rest
<1>3. \E x \in Rest : \A y \in Rest : ~(<<y, x>> \in OpToRel(<, Nat))
  BY <1>1, <1>2, NatLessThanWellFounded, WFMin, Zenon
<1>4. PICK x \in Rest : \A y \in Rest : ~(<<y, x>> \in OpToRel(<, Nat))
  BY <1>3
<1>5. \A y \in Rest : ~(y < x)
  BY <1>2, <1>4 DEF OpToRel
<1>6. x \in Nat /\ x # 0 /\ x - 1 \in Nat /\ x - 1 \in T
  BY <1>5 DEF Rest
<1>7. (x - 1) + 1 \in T
  BY <1>6
<1> QED BY <1>6, <1>7 DEF Rest

\* f holds what the loop has merged after every entry of new.
Merging(s, new, n, f) ==
    f = [i \in 0..n |-> IF i = 0 THEN s
                        ELSE IF new[i] \in ToSet(f[i-1]) THEN f[i-1]
                        ELSE Append(f[i-1], new[i])]

\* The recursion defines a function, for every length.
LEMMA MergingExists ==
    ASSUME NEW s, NEW new
    PROVE  \A n \in Nat : \E f : Merging(s, new, n, f)
<1> DEFINE T == {n \in Nat : \E f : Merging(s, new, n, f)}
           Next1(g, i) == IF new[i] \in ToSet(g) THEN g ELSE Append(g, new[i])
<1>1. 0 \in T
  <2> DEFINE f == [i \in 0..0 |-> s]
  <2>1. f = [i \in 0..0 |-> IF i = 0 THEN s ELSE Next1(f[i-1], i)]
    <3> HIDE DEF Next1
    <3> QED OBVIOUS
  <2> HIDE DEF f
  <2> QED BY <2>1 DEF Merging
<1>2. ASSUME NEW n \in Nat, n \in T PROVE n + 1 \in T
  <2>1. PICK f : Merging(s, new, n, f)
    BY <1>2
  <2>2. f = [i \in 0..n |-> IF i = 0 THEN s ELSE Next1(f[i-1], i)]
    BY <2>1 DEF Merging
  <2> DEFINE h == [i \in 0..(n+1) |-> IF i = n + 1 THEN Next1(f[n], n + 1) ELSE f[i]]
  <2> HIDE DEF Next1
  <2>3. \A i \in 0..(n+1) : h[i] = IF i = 0 THEN s ELSE Next1(h[i-1], i)
    <3> TAKE i \in 0..(n+1)
    <3>1. CASE i = n + 1
      <4>1. h[i-1] = f[n] /\ i # 0
        BY <3>1
      <4> QED BY <3>1, <4>1
    <3>2. CASE i # n + 1
      <4>1. i \in 0..n /\ h[i] = f[i]
        BY <3>2
      <4>2. f[i] = IF i = 0 THEN s ELSE Next1(f[i-1], i)
        BY <2>2, <4>1
      <4>3. i # 0 => h[i-1] = f[i-1]
        BY <4>1
      <4> QED BY <4>1, <4>2, <4>3
    <3> QED BY <3>1, <3>2
  <2>4. h = [i \in 0..(n+1) |-> h[i]]
    OBVIOUS
  <2> HIDE DEF h
  <2>5. h = [i \in 0..(n+1) |-> IF i = 0 THEN s ELSE Next1(h[i-1], i)]
    BY <2>3, <2>4
  <2>6. Merging(s, new, n + 1, h)
    BY <2>5 DEF Merging, Next1
  <2> QED BY <2>6
<1>3. \A n \in Nat : n \in T
  <2> HIDE DEF T
  <2> QED BY <1>1, <1>2, SetInduction
<1> QED BY <1>3

Distinct(s) == \A i, j \in DOMAIN s : i # j => s[i] # s[j]

\* Append, position by position.
LEMMA AppendFact ==
    ASSUME NEW S, NEW g \in Seq(S), NEW x \in S
    PROVE  \E n \in Nat : /\ DOMAIN g = 1..n /\ DOMAIN Append(g, x) = 1..(n + 1)
                          /\ Append(g, x) \in Seq(S)
                          /\ Append(g, x)[n + 1] = x
                          /\ \A i \in 1..n : Append(g, x)[i] = g[i]
<1>1. Len(g) \in Nat /\ DOMAIN g = 1..Len(g) /\ Append(g, x) \in Seq(S)
  OBVIOUS
<1>2. Len(Append(g, x)) = Len(g) + 1
  OBVIOUS
<1>3. DOMAIN Append(g, x) = 1..(Len(g) + 1)
  BY <1>1, <1>2
<1>4. Append(g, x)[Len(g) + 1] = x
  OBVIOUS
<1>5. \A i \in 1..Len(g) : Append(g, x)[i] = g[i]
  OBVIOUS
<1> QED BY <1>1, <1>3, <1>4, <1>5

\* One turn of the loop adds the entry and repeats none.
LEMMA TurnFact ==
    ASSUME NEW S, NEW g \in Seq(S), Distinct(g), NEW x \in S,
           NEW r, x \in ToSet(g) => r = g, x \notin ToSet(g) => r = Append(g, x)
    PROVE  r \in Seq(S) /\ Distinct(r) /\ ToSet(r) = ToSet(g) \cup {x}
<1>1. CASE x \in ToSet(g)
  BY <1>1, Zenon
<1>2. CASE x \notin ToSet(g)
  <2>1. r = Append(g, x)
    BY <1>2, Zenon
  <2>2. PICK n \in Nat : /\ DOMAIN g = 1..n /\ DOMAIN r = 1..(n + 1)
                         /\ r \in Seq(S) /\ r[n + 1] = x
                         /\ \A i \in 1..n : r[i] = g[i]
    <3>1. \E n \in Nat : /\ DOMAIN g = 1..n /\ DOMAIN Append(g, x) = 1..(n + 1)
                         /\ Append(g, x) \in Seq(S) /\ Append(g, x)[n + 1] = x
                         /\ \A i \in 1..n : Append(g, x)[i] = g[i]
      BY AppendFact
    <3> QED BY <2>1, <3>1, Zenon
  <2>3. \A i : i \in 1..(n + 1) <=> i \in 1..n \/ i = n + 1
    OBVIOUS
  <2>4. \A i \in 1..n : g[i] # x
    BY <1>2, <2>2, Zenon DEF ToSet
  <2>5. Distinct(r)
    <3> SUFFICES ASSUME NEW i \in 1..(n + 1), NEW j \in 1..(n + 1), i # j PROVE r[i] # r[j]
      BY <2>2, Zenon DEF Distinct
    <3>1. CASE i \in 1..n /\ j \in 1..n
      <4>1. r[i] = g[i] /\ r[j] = g[j] /\ g[i] # g[j]
        BY <2>2, <3>1, Zenon DEF Distinct
      <4> QED BY <4>1, Zenon
    <3>2. CASE i \in 1..n /\ j = n + 1
      <4>1. r[i] = g[i] /\ r[j] = x /\ g[i] # x
        BY <2>2, <2>4, <3>2, Zenon
      <4> QED BY <4>1, Zenon
    <3>3. CASE i = n + 1 /\ j \in 1..n
      <4>1. r[i] = x /\ r[j] = g[j] /\ g[j] # x
        BY <2>2, <2>4, <3>3, Zenon
      <4> QED BY <4>1, Zenon
    <3> QED BY <2>3, <3>1, <3>2, <3>3, Zenon
  <2>6. \A y \in ToSet(r) : y \in ToSet(g) \cup {x}
    BY <2>2, <2>3, Zenon DEF ToSet
  <2>7. \A y \in ToSet(g) \cup {x} : y \in ToSet(r)
    BY <2>2, <2>3, Zenon DEF ToSet
  <2>8. ToSet(r) = ToSet(g) \cup {x}
    BY <2>6, <2>7, Zenon
  <2> QED BY <2>2, <2>5, <2>8
<1> QED BY <1>1, <1>2

\* The merged list has what both lists have, and nothing twice if s has not.
LEMMA AppendMissingFact ==
    ASSUME NEW S, NEW s \in Seq(S), NEW new \in Seq(S), Distinct(s)
    PROVE  /\ AppendMissing(s, new) \in Seq(S) /\ Distinct(AppendMissing(s, new))
           /\ ToSet(AppendMissing(s, new)) = ToSet(s) \cup ToSet(new)
<1> DEFINE n == Len(new)
           f == CHOOSE g : Merging(s, new, n, g)
<1>1. n \in Nat /\ DOMAIN new = 1..n /\ \A i \in 1..n : new[i] \in S
  OBVIOUS
<1>2. Merging(s, new, n, f)
  BY <1>1, MergingExists
<1>3. AppendMissing(s, new) = f[n]
  BY DEF AppendMissing, Merging
<1> HIDE DEF f
<1>4. f[0] = s
  BY <1>1, <1>2 DEF Merging
<1>5. ASSUME NEW i \in Nat, i < n
      PROVE  f[i+1] = IF new[i+1] \in ToSet(f[i]) THEN f[i] ELSE Append(f[i], new[i+1])
  <2>1. i + 1 \in 0..n /\ i + 1 # 0 /\ (i + 1) - 1 = i
    BY <1>1, <1>5
  <2> HIDE DEF n
  <2> QED BY <1>2, <2>1 DEF Merging
<1> DEFINE Part(i) == {new[k] : k \in 1..i}
           P(i) == i <= n => f[i] \in Seq(S) /\ Distinct(f[i]) /\ ToSet(f[i]) = ToSet(s) \cup Part(i)
           T == {i \in Nat : P(i)}
<1>6. 0 \in T
  <2>1. Part(0) = {}
    OBVIOUS
  <2> QED BY <1>4, <2>1
<1>7. ASSUME NEW i \in Nat, i \in T PROVE i + 1 \in T
  <2> SUFFICES ASSUME i + 1 <= n
               PROVE  /\ f[i+1] \in Seq(S) /\ Distinct(f[i+1])
                      /\ ToSet(f[i+1]) = ToSet(s) \cup Part(i + 1)
    OBVIOUS
  <2>1. i < n /\ i <= n /\ i + 1 \in 1..n
    BY <1>1
  <2>2. f[i] \in Seq(S) /\ Distinct(f[i]) /\ ToSet(f[i]) = ToSet(s) \cup Part(i)
    BY <1>7, <2>1
  <2>3. new[i+1] \in S
    BY <1>1, <2>1
  <2>4. /\ f[i+1] \in Seq(S) /\ Distinct(f[i+1])
        /\ ToSet(f[i+1]) = ToSet(f[i]) \cup {new[i+1]}
    <3>1. f[i+1] = IF new[i+1] \in ToSet(f[i]) THEN f[i] ELSE Append(f[i], new[i+1])
      BY <1>5, <2>1
    <3>2. PICK now, entry, after : now = f[i] /\ entry = new[i+1] /\ after = f[i+1]
      OBVIOUS
    <3>3. now \in Seq(S) /\ Distinct(now) /\ entry \in S
      BY <2>2, <2>3, <3>2
    <3>4. entry \in ToSet(now) => after = now
      BY <3>1, <3>2
    <3>5. entry \notin ToSet(now) => after = Append(now, entry)
      BY <3>1, <3>2
    <3>6. after \in Seq(S) /\ Distinct(after) /\ ToSet(after) = ToSet(now) \cup {entry}
      BY <3>3, <3>4, <3>5, TurnFact
    <3> QED BY <3>2, <3>6
  <2>5. Part(i + 1) = Part(i) \cup {new[i+1]}
    <3>1. \A k : k \in 1..(i+1) <=> k \in 1..i \/ k = i + 1
      OBVIOUS
    <3> QED BY <3>1
  <2> QED BY <2>2, <2>4, <2>5
<1>8. \A i \in Nat : i \in T
  <2> HIDE DEF T
  <2> QED BY <1>6, <1>7, SetInduction
<1>9. f[n] \in Seq(S) /\ Distinct(f[n]) /\ ToSet(f[n]) = ToSet(s) \cup Part(n)
  <2>1. n \in T /\ n <= n
    <3> HIDE DEF T, n
    <3> QED BY <1>1, <1>8
  <2> HIDE DEF n, Part
  <2> QED BY <2>1
<1>10. Part(n) = ToSet(new)
  BY <1>1 DEF ToSet
<1> QED BY <1>3, <1>9, <1>10

\* GetStages merges the lists of the four levels.
LEMMA StagesFact ==
    ASSUME topo \in Topologies
    PROVE  LET waits == GetStages(topo).waitFor
           IN /\ \A i \in 1..4 : ToSet(Levels(topo)[i].stage.waitFor) \subseteq ToSet(waits)
              /\ Distinct(waits)
<1> DEFINE w(i) == Levels(topo)[i].stage.waitFor
           m4 == AppendMissing(<< >>, w(4))
           m3 == AppendMissing(m4, w(3))
           m2 == AppendMissing(m3, w(2))
           m1 == AppendMissing(m2, w(1))
<1>1. GetStages(topo).waitFor = m1
  BY DEF GetStages, MergeStage, EmptyStage
<1>2. \A i \in 1..4 : w(i) \in Seq(STRING)
  BY WaitForAssumption
<1>3. w(1) \in Seq(STRING) /\ w(2) \in Seq(STRING) /\ w(3) \in Seq(STRING) /\ w(4) \in Seq(STRING)
  <2> HIDE DEF w
  <2> QED BY <1>2
<1> HIDE DEF w
<1>4. << >> \in Seq(STRING) /\ Distinct(<< >>)
  BY DEF Distinct
<1>5. m4 \in Seq(STRING) /\ Distinct(m4) /\ ToSet(w(4)) \subseteq ToSet(m4)
  <2>1. /\ m4 \in Seq(STRING) /\ Distinct(m4)
        /\ ToSet(m4) = ToSet(<< >>) \cup ToSet(w(4))
    BY <1>3, <1>4, AppendMissingFact, Zenon
  <2> HIDE DEF m4
  <2> QED BY <2>1, Zenon
<1> HIDE DEF m4
<1>6. m3 \in Seq(STRING) /\ Distinct(m3) /\ ToSet(m3) = ToSet(m4) \cup ToSet(w(3))
  BY <1>3, <1>5, AppendMissingFact
<1> HIDE DEF m3
<1>7. m2 \in Seq(STRING) /\ Distinct(m2) /\ ToSet(m2) = ToSet(m3) \cup ToSet(w(2))
  BY <1>3, <1>6, AppendMissingFact
<1> HIDE DEF m2
<1>8. m1 \in Seq(STRING) /\ Distinct(m1) /\ ToSet(m1) = ToSet(m2) \cup ToSet(w(1))
  BY <1>3, <1>7, AppendMissingFact
<1> HIDE DEF m1
<1>9. /\ ToSet(w(1)) \subseteq ToSet(m1) /\ ToSet(w(2)) \subseteq ToSet(m1)
      /\ ToSet(w(3)) \subseteq ToSet(m1) /\ ToSet(w(4)) \subseteq ToSet(m1)
  BY <1>5, <1>6, <1>7, <1>8
<1>10. \A i \in 1..4 : ToSet(w(i)) \subseteq ToSet(m1)
  <2>1. \A i \in 1..4 : i = 1 \/ i = 2 \/ i = 3 \/ i = 4
    OBVIOUS
  <2> QED BY <1>9, <2>1, Zenon
<1> QED BY <1>1, <1>8, <1>10 DEF w

\* The stages of a node wait for everything that any level of the topology file asks for,
\* and for each of it once, for lists of any length.
THEOREM WaitsTheorem == Spec => []WaitsKeptOnce
<1>1. ConfInv => WaitsKeptOnce
  <2> SUFFICES ASSUME ConfInv, cfg # NoCfg
               PROVE  LET waits == cfg.stage.waitFor
                      IN /\ \A i \in 1..4 : ToSet(Levels(topo)[i].stage.waitFor) \subseteq ToSet(waits)
                         /\ \A i, j \in DOMAIN waits : i # j => waits[i] # waits[j]
    BY DEF WaitsKeptOnce
  <2>1. cfg = C /\ topo \in Topologies
    BY DEF ConfInv, Configured, StateTypes
  <2>2. cfg.stage = GetStages(topo)
    BY <2>1 DEF C, NodeCfg, createNodeCfg
  <2> QED BY <2>1, <2>2, StagesFact DEF Distinct
<1> QED BY <1>1, ConfInvHolds, PTL
=============================================================================
