----------------------------- MODULE MCClusterApply -----------------------------
EXTENDS ClusterApply, TLC

CONSTANTS c0, c1, c2, w0, none

Called(id, chars) == [id |-> id, chars |-> chars, dns1123 |-> TRUE]
Operators == Range10(200, 4, 8)
Taint(key, effect) == [key |-> key, effect |-> effect]

\* A file that says no more than it has to: one node, with an address of its own.
Sparse == [x \in Fields |->
    CASE x = "name" -> Called("dev", MaxClusterNameLength)
      [] x = "location" -> "hel1"
      [] x = "adminCIDRs" -> {Operators}
      [] x = "talosVersion" -> 14
      [] x = "controlPlanes" -> {First}
      [] x = "workerPools" -> <<>>
      [] OTHER -> Unset]

Pool(chars, type, taints) ==
    [name |-> Called("pool", chars), nodes |-> Workers, serverType |-> type, taints |-> taints]

\* One of every optional field; a network that is not the default one, and all
\* of it the nodes'; two taints.
Full(controlPlanes, type) ==
    [Sparse EXCEPT
       !.apiVersion = "v1", !.kind = "Cluster",
       !.domain = <<"dev", "example", "com">>, !.dnsZone = <<"example", "com">>,
       !.networkZone = "eu-central",
       !.ipRange = Range10(16, 0, 16), !.nodeSubnet = Range10(16, 0, 16),
       !.podCIDR = Range10(17, 0, 16), !.serviceCIDR = Range10(18, 0, 16),
       !.routingMode = "tunnel", !.allowICMP = TRUE,
       !.configVersion = 13, !.architecture = "arm", !.kubernetesVersion = 2,
       !.controlPlanes = controlPlanes, !.serverType = type,
       !.workerPools = <<Pool(MaxServerName - MaxClusterNameLength - 3, type,
                              <<Taint("gpu", "NoSchedule"), Taint("spot", "NoExecute")>>)>>]

Small == Full({First}, Unset)

\* Files that stand: one machine with no public address; one or three
\* control-plane nodes with a worker, of the default types or of a larger one;
\* and a type that Hetzner has withdrawn.
Standing ==
    {[Sparse EXCEPT !.publicIPv4 = FALSE], Small,
     Full(ControlPlanes, Unset), Full(ControlPlanes, "cax31"),
     [Sparse EXCEPT !.serverType = "cx21"]}

\* Files with one thing wrong.
Wrong ==
    {[Small EXCEPT !.apiVersion = "v2"], [Small EXCEPT !.kind = "Node"],
     [Small EXCEPT !.name = Unset], [Small EXCEPT !.name.dns1123 = FALSE],
     [Small EXCEPT !.name.chars = @ + 1],
     [Small EXCEPT !.domain = <<"dev">>], [Small EXCEPT !.domain = Unset],
     [Small EXCEPT !.dnsZone = <<"example", "org">>],
     [Small EXCEPT !.location = "moon"], [Small EXCEPT !.networkZone = "us-east"],
     [Small EXCEPT !.nodeSubnet = Malformed],
     [Small EXCEPT !.nodeSubnet = Range10(16, 1, 16)],
     [Small EXCEPT !.nodeSubnet = Range10(16, 0, 20)],
     [Small EXCEPT !.nodeSubnet = Range10(19, 0, 8)],
     [Small EXCEPT !.podCIDR = Range10(16, 1, 8)],
     [Small EXCEPT !.serviceCIDR = Range10(16, 0, 20)],
     [Small EXCEPT !.serviceCIDR = Range10(17, 3, 8)],
     [Small EXCEPT !.adminCIDRs = {}], [Small EXCEPT !.adminCIDRs = {Range10(0, 0, AddressBits)}],
     [Small EXCEPT !.talosVersion = Malformed], [Small EXCEPT !.configVersion = 15],
     [Small EXCEPT !.kubernetesVersion = Malformed], [Small EXCEPT !.routingMode = "bgp"],
     [Small EXCEPT !.architecture = "mips"],
     [Small EXCEPT !.workerPools[1].name.chars = @ + 1],
     [Small EXCEPT !.workerPools[1].taints = <<Malformed>>],
     [Small EXCEPT !.workerPools[1].taints =
         <<Taint("gpu", "NoSchedule"), Taint("gpu", "NoExecute")>>],
     [Small EXCEPT !.nodeSubnet.family = 6, !.ipRange.family = 6]}

MCFiles == Standing \cup Wrong
MCOffered == [cx23 |-> "x86", cx33 |-> "x86", cax11 |-> "arm", cax21 |-> "arm", cax31 |-> "arm"]

\* The control-plane nodes after the first are alike.
MCSymmetry == Permutations(ControlPlanes \ {First})
=============================================================================
