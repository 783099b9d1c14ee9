----------------------------- MODULE MachineConfig -----------------------------
(***************************************************************************)
(* What a machine is configured with: the patches internal/pkg/clusterspec *)
(* builds from the variables file, put together per machine by             *)
(* NewControlPlane and NewWorkerPool.  A constant of the patches that      *)
(* nothing here depends on (the CNI, kube-proxy, the audit policy) is   *)
(* left out.                                                               *)
(***************************************************************************)
EXTENDS ClusterFile

\* Mutant: the second interface, there or not.
PrivateInterfaceSecond(publicIPv4) == "eth1"

\* Hetzner attaches the public interface first, when there is one.
PrivateInterface(publicIPv4) == IF publicIPv4 THEN "eth1" ELSE "eth0"

\* The first address of the network after its own.
NetworkGateway(ipRange) == Masked(ipRange).base + 1

\* What holds the machine's secrets, and what holds etcd.
buildVolumeEncryption == {"STATE", "EPHEMERAL"}

\* What every machine of a cluster has in common: where kubelet takes its
\* address from, and the route pods on other machines are reached by.
BuildClusterPatch(f) ==
    [nodeIPs |-> f.nodeSubnet,
     interface |-> PrivateInterface(PublicIPv4Enabled(f)),
     route |-> [network |-> f.podCIDR, gateway |-> NetworkGateway(f.ipRange)],
     pods |-> f.podCIDR, services |-> f.serviceCIDR,
     allowSchedulingOnControlPlanes |-> TotalWorkers(f) = 0,
     encrypted |-> buildVolumeEncryption]

\* Taints are keyed, so the last of a key is the one that stays.
NodeTaints(taints) ==
    [k \in {taints[i].key : i \in DOMAIN taints} |->
       LET last == CHOOSE i \in DOMAIN taints :
                     /\ taints[i].key = k
                     /\ \A j \in DOMAIN taints : taints[j].key = k => j <= i
       IN  taints[last].effect]

\* A certificate names each address once, and none that is empty.
dedupe(values) == {values[i] : i \in DOMAIN values} \ {Unset}

BuildNodePatch(sans, taints) ==
    [certSANs |-> dedupe(sans), nodeTaints |-> NodeTaints(taints)]

\* The members of etcd find each other inside the network.
BuildEtcdPatch(f) == f.nodeSubnet

\* Mutant: the certificate does not name the endpoint.
controlPlaneConfigOwnNames(f, address, private, endpoint) ==
    [cluster |-> BuildClusterPatch(f),
     etcd |-> BuildEtcdPatch(f),
     endpoint |-> endpoint,
     contract |-> ConfigContract(f),
     node |-> BuildNodePatch(<<address, private>>, <<>>)]

\* The patches of a control-plane machine, for the endpoint it serves.
controlPlaneConfig(f, address, private, endpoint) ==
    [cluster |-> BuildClusterPatch(f),
     etcd |-> BuildEtcdPatch(f),
     endpoint |-> endpoint,
     contract |-> ConfigContract(f),
     node |-> BuildNodePatch(<<address, private, endpoint>>, <<>>)]

\* Those of a worker, which Talos refuses an etcd section.
workerConfig(f, pool, address, private, endpoint) ==
    [cluster |-> BuildClusterPatch(f),
     etcd |-> Unset,
     endpoint |-> endpoint,
     contract |-> ConfigContract(f),
     node |-> BuildNodePatch(<<address, private>>, pool.taints)]
=============================================================================
