----------------------------- MODULE NodeKinds -----------------------------
(***************************************************************************)
(* The node kinds. Every kind embeds DefaultNode or VRNode and overrides   *)
(* some of its methods; here every kind is a record that differs from the  *)
(* record of its base in what the overriding methods do differently:       *)
(*                                                                         *)
(*   add, alias, offset, first, mapped   AddEndpoint and the mapping of    *)
(*       the kind's own interface names to names in the kernel             *)
(*   forms, zero, mgmt, overlap          CheckInterfaceName                *)
(*   virt, license                       CheckDeploymentConditions         *)
(*   cert, issue                         when a certificate is issued: by  *)
(*       PreDeploy, by PostDeploy or never                                 *)
(*   load                                the boot configuration PreDeploy  *)
(*       leaves in the lab directory                                       *)
(*   mount, store                        what of it the node boots from    *)
(*   post                                the configuration PostDeploy adds *)
(*   save                                where SaveConfig writes           *)
(*   extern                              the node is no container of the   *)
(*       lab: nothing is created and Delete removes nothing                *)
(*                                                                         *)
(* A name of an interface is [form, port]: "eth" is ethN, "alias" the long *)
(* name of the kind (Gi0/0/0/N, ethernet-1/N, ...), "short" the kind's own *)
(* name in the kernel (e1-N, etN, swpN, ...), "other" any other word.      *)
(***************************************************************************)
EXTENDS Integers, FiniteSets

Forms == {"eth", "alias", "short", "other"}

DefaultNode ==
    [add |-> "default", alias |-> FALSE, offset |-> 0, first |-> 0, mapped |-> "eth",
     forms |-> Forms, zero |-> {"eth"}, mgmt |-> "allowed", overlap |-> TRUE,
     virt |-> FALSE, license |-> "none", cert |-> "pre", issue |-> FALSE,
     load |-> "none", mount |-> TRUE, store |-> "boot", post |-> "none", save |-> "none",
     extern |-> FALSE]

VRNode ==
    [DefaultNode EXCEPT !.add = "vr", !.first = 1, !.forms = {"eth"}, !.mgmt = "never",
                        !.virt = TRUE, !.load = "vr", !.save = "file"]

VRNodeAlias(offset) == [VRNode EXCEPT !.alias = TRUE, !.offset = offset]

(* GenericVMInterfaceCheck: ethN with N > 0, without a check of overlaps.   *)
GenericVM == [DefaultNode EXCEPT !.forms = {"eth"}, !.mgmt = "never", !.overlap = FALSE]

(* eth0 only if the container runtime does not provide it.                  *)
Eth0UnlessManaged == [DefaultNode EXCEPT !.mgmt = "unmanaged", !.overlap = FALSE]

----------------------------------------------------------------------------
(* Virtual machines in a container.                                         *)

aruba_aoscx == VRNodeAlias(1)
arista_veos == VRNodeAlias(1)
cisco_asav == VRNodeAlias(0)
cisco_c8000v == VRNodeAlias(2)
cisco_cat9kv == VRNodeAlias(1)
cisco_csr1000v == VRNodeAlias(2)
cisco_n9kv == VRNodeAlias(1)
cisco_xrv == VRNodeAlias(0)
cisco_xrv9k == VRNodeAlias(0)
fortinet_fortigate == VRNodeAlias(2)
juniper_cjunosevolved == VRNodeAlias(-3)
juniper_vjunosevolved == VRNodeAlias(0)
juniper_vjunosswitch == VRNodeAlias(0)
juniper_vmx == VRNodeAlias(0)
juniper_vqfx == VRNodeAlias(0)
juniper_vsrx == VRNodeAlias(0)
paloalto_panos == VRNodeAlias(1)
dell_ftosv == VRNode
huawei_vrp == VRNode

(* These do not mount the directory with the startup configuration.         *)
cisco_ftdv == [VRNodeAlias(0) EXCEPT !.mount = FALSE]
checkpoint_cloudguard == [VRNode EXCEPT !.mount = FALSE]
ipinfusion_ocnos == [VRNode EXCEPT !.mount = FALSE]

(* SaveConfig exports the configuration over SSH and drops the address of   *)
(* the management interface.                                                *)
mikrotik_ros == VRNodeAlias(2)

(* No startup configuration; SaveConfig runs a backup into the config       *)
(* directory, which the image restores.                                     *)
freebsd == [VRNodeAlias(1) EXCEPT !.load = "none"]
openbsd == [VRNodeAlias(1) EXCEPT !.load = "none"]

(* The pattern of the aliases is ethN itself. The startup configuration is  *)
(* copied unless there is one, whatever enforce-startup-config says.        *)
sdwanFiles(n) == [n EXCEPT !.load = "copyOnce"]
cisco_sdwan == [sdwanFiles(VRNode) EXCEPT !.offset = 1]

(* PostDeploy writes the boot configuration, every time.                    *)
cisco_vios == [VRNodeAlias(0) EXCEPT !.load = "none", !.post = "bootConfig"]

(* A full configuration is kept if one exists, a partial one is applied by  *)
(* PostDeploy if none exists; SaveConfig makes the node write its startup   *)
(* configuration, in the mounted directory.                                 *)
vrsrosInit == [VRNodeAlias(1) EXCEPT !.license = "warn"]
vrsrosPostDeploy(n) == [n EXCEPT !.load = "vrsros", !.post = "partial"]
nokia_sros == vrsrosPostDeploy(vrsrosInit)

sonic_vm == [GenericVM EXCEPT !.virt = TRUE, !.load = "vr", !.save = "file"]
dell_sonic == [GenericVM EXCEPT !.virt = TRUE, !.load = "vr", !.save = "file"]
generic_vm == [GenericVM EXCEPT !.virt = TRUE]
f5_bigip_ve ==
    [GenericVM EXCEPT !.virt = TRUE, !.add = "vr", !.alias = TRUE, !.offset = 1, !.first = 1]
openwrt == [DefaultNode EXCEPT !.cert = "none"]

----------------------------------------------------------------------------
(* Network operating systems in a container.                                *)

(* PostDeploy configures the management interface and writes memory.        *)
ceosInit == [DefaultNode EXCEPT !.issue = TRUE, !.save = "file"]
createCEOSFiles(n) == [n EXCEPT !.load = "generate"]
ceosPostDeploy(n) == [n EXCEPT !.post = "save"]
arista_ceos ==
    [ceosPostDeploy(createCEOSFiles(ceosInit))
        EXCEPT !.forms = {"eth", "short"}, !.zero = {"eth", "short"}, !.mgmt = "never",
               !.overlap = FALSE]
crpdFiles(n) == [n EXCEPT !.load = "generate"]
juniper_crpd == [crpdFiles(DefaultNode) EXCEPT !.save = "file"]
csrxFiles(n) == [n EXCEPT !.load = "generate"]
juniper_csrx == [csrxFiles(DefaultNode) EXCEPT !.save = "file"]

(* First boot reads the file of GenerateConfig, later ones the storage.     *)
createXRDFiles(n) == [n EXCEPT !.load = "generate", !.forms = {"short"}, !.zero = {},
                               !.overlap = FALSE]
cisco_xrd == [createXRDFiles(DefaultNode) EXCEPT !.store = "inner", !.save = "file"]
(* The storage of this one is not mounted.                                  *)
cisco_c8000 ==
    [DefaultNode EXCEPT !.forms = {"short"}, !.zero = {}, !.overlap = FALSE,
                        !.load = "generate", !.save = "inside"]

(* PreDeploy creates the NVRAM once and an empty boot file every time;      *)
(* PostDeploy writes the boot configuration, which is read only while the   *)
(* NVRAM is empty.                                                          *)
iolInit == [DefaultNode EXCEPT !.store = "inner", !.load = "nvram"]
iolBootConfig(n) == [n EXCEPT !.post = "bootConfig"]
iolInterfaces(n) == [n EXCEPT !.add = "iol", !.alias = TRUE, !.forms = {"eth"}, !.mgmt = "never"]
cisco_iol == [iolInterfaces(iolBootConfig(iolInit)) EXCEPT !.save = "file"]

createVyosFiles(n) == [n EXCEPT !.load = "generate", !.save = "file"]
vyosPostDeploy(n) ==
    [n EXCEPT !.post = "save", !.forms = {"eth"}, !.mgmt = "never", !.overlap = FALSE]
vyosnetworks_vyos == [vyosPostDeploy(createVyosFiles(DefaultNode)) EXCEPT !.issue = TRUE]

(* What SaveConfig writes takes precedence over the startup configuration,  *)
(* enforced or not.                                                         *)
addDefaultConfigVsr(n) == [n EXCEPT !.load = "consolidate"]
sixwind_vsr ==
    [addDefaultConfigVsr(Eth0UnlessManaged) EXCEPT !.cert = "none", !.store = "inner", !.save = "file"]

(* SaveConfig is not implemented and reports success.                       *)
fdio_vpp ==
    [Eth0UnlessManaged EXCEPT !.cert = "none", !.load = "generate", !.save = "pretend"]
veesix_osvbng == [Eth0UnlessManaged EXCEPT !.cert = "none", !.load = "generate"]

(* The startup configuration is written at every deployment.                *)
arrcus_arcos ==
    [DefaultNode EXCEPT !.forms = {"short"}, !.zero = {}, !.overlap = FALSE, !.load = "always"]
cumulus_cvx == [DefaultNode EXCEPT !.forms = {"short"}, !.zero = {}, !.overlap = FALSE]
sonic_vs == DefaultNode
rare == DefaultNode

(* Names that do not match the pattern are refused when they are added.     *)
spirent_stc == [DefaultNode EXCEPT !.add = "strict", !.alias = TRUE, !.cert = "none"]

----------------------------------------------------------------------------
(* SR Linux.                                                                *)

(* The certificate is issued by PostDeploy, when the addresses are known.   *)
srlInit == [DefaultNode EXCEPT !.issue = TRUE, !.cert = "post"]
srlPostDeploy(n) == [n EXCEPT !.post = "overlay", !.save = "file"]
srlFiles(n) == [n EXCEPT !.load = "srl"]
srlInterfaces(n) ==
    [n EXCEPT !.add = "srl", !.alias = TRUE, !.mapped = "short", !.forms = {"short"},
              !.zero = {"short"}, !.mgmt = "unmanaged"]
nokia_srlinux == srlInterfaces(srlFiles(srlPostDeploy(srlInit)))

(* SR-SIM: PostDeploy makes the node save its configuration, unless a full  *)
(* startup configuration was given.                                         *)
srosInit == [DefaultNode EXCEPT !.virt = TRUE, !.license = "required"]
createSROSFiles(n) == [n EXCEPT !.load = "generate"]
srosPostDeploy(n) == [n EXCEPT !.post = "saveUnlessFull"]
srosInterfaces(n) ==
    [n EXCEPT !.add = "srl", !.alias = TRUE, !.mapped = "short", !.forms = {"short", "eth"},
              !.mgmt = "unmanaged"]
nokia_srsim == [srosInterfaces(srosPostDeploy(createSROSFiles(srosInit))) EXCEPT !.save = "file"]

----------------------------------------------------------------------------
(* Plain containers, and nodes that are no containers of the lab.           *)

linux == Eth0UnlessManaged
keysight_ixia_c_one == DefaultNode
(* The startup configuration is the one of the cluster, at its creation.    *)
k8s_kind == [DefaultNode EXCEPT !.load = "direct"]
ext_container == [DefaultNode EXCEPT !.extern = TRUE]
host == [DefaultNode EXCEPT !.extern = TRUE]
(* The bridge must exist; the checks of DefaultNode are not made.           *)
bridge == [DefaultNode EXCEPT !.extern = TRUE, !.overlap = FALSE]
ovs_bridge == [DefaultNode EXCEPT !.extern = TRUE, !.overlap = FALSE]

(* The registry: RegisterNodes.                                             *)
Registry ==
    [aruba_aoscx |-> aruba_aoscx, arista_veos |-> arista_veos, cisco_asav |-> cisco_asav,
     cisco_c8000v |-> cisco_c8000v, cisco_cat9kv |-> cisco_cat9kv,
     cisco_csr1000v |-> cisco_csr1000v, cisco_n9kv |-> cisco_n9kv, cisco_xrv |-> cisco_xrv,
     cisco_xrv9k |-> cisco_xrv9k, fortinet_fortigate |-> fortinet_fortigate,
     juniper_cjunosevolved |-> juniper_cjunosevolved,
     juniper_vjunosevolved |-> juniper_vjunosevolved,
     juniper_vjunosswitch |-> juniper_vjunosswitch, juniper_vmx |-> juniper_vmx,
     juniper_vqfx |-> juniper_vqfx, juniper_vsrx |-> juniper_vsrx,
     paloalto_panos |-> paloalto_panos, dell_ftosv |-> dell_ftosv, huawei_vrp |-> huawei_vrp,
     cisco_ftdv |-> cisco_ftdv, checkpoint_cloudguard |-> checkpoint_cloudguard,
     ipinfusion_ocnos |-> ipinfusion_ocnos, mikrotik_ros |-> mikrotik_ros, freebsd |-> freebsd,
     openbsd |-> openbsd, cisco_sdwan |-> cisco_sdwan, cisco_vios |-> cisco_vios,
     nokia_sros |-> nokia_sros, sonic_vm |-> sonic_vm, dell_sonic |-> dell_sonic,
     generic_vm |-> generic_vm, f5_bigip_ve |-> f5_bigip_ve, openwrt |-> openwrt,
     arista_ceos |-> arista_ceos, juniper_crpd |-> juniper_crpd, juniper_csrx |-> juniper_csrx,
     cisco_xrd |-> cisco_xrd, cisco_c8000 |-> cisco_c8000, cisco_iol |-> cisco_iol,
     vyosnetworks_vyos |-> vyosnetworks_vyos, sixwind_vsr |-> sixwind_vsr, fdio_vpp |-> fdio_vpp,
     veesix_osvbng |-> veesix_osvbng, arrcus_arcos |-> arrcus_arcos, cumulus_cvx |-> cumulus_cvx,
     sonic_vs |-> sonic_vs, rare |-> rare, spirent_stc |-> spirent_stc,
     nokia_srlinux |-> nokia_srlinux, nokia_srsim |-> nokia_srsim, linux |-> linux,
     keysight_ixia_c_one |-> keysight_ixia_c_one, k8s_kind |-> k8s_kind,
     ext_container |-> ext_container, host |-> host, bridge |-> bridge,
     ovs_bridge |-> ovs_bridge]
=============================================================================
