--------------------------- MODULE ClusterResources ---------------------------
(***************************************************************************)
(* The Pulumi program of the cluster tier: which resources a topology      *)
(* makes, and what each of them waits for.  One operator per constructor,  *)
(* a set of pairs <<resource, what it waits for>>: a DependsOn, a parent,  *)
(* or an output of the one among the inputs of the other.  Left out are    *)
(* resources nothing here tells apart: the spread group, made before the   *)
(* servers as their subnet is, the API's service, which hangs from its     *)
(* load balancer alone, and the ingress addresses (LayerComponents).       *)
(***************************************************************************)
EXTENDS MachineConfig

CONSTANTS
    ControlPlanes,  \* the control-plane nodes of the largest topology
    First,          \* the one of ordinal 0
    Workers         \* worker nodes

ASSUME ResourcesAssumption ==
    /\ First \in ControlPlanes
    /\ Workers \cap ControlPlanes = {}

Nodes == ControlPlanes \cup Workers

\* A resource is its kind and the node it belongs to.
Server(n) == <<"server", n>>
Config(n) == <<"config", n>>
PrimaryIp(n) == <<"ipv4", n>>
The(kind) == <<kind, First>>

Pairs(rs, ds) == rs \X ds

\* The subnet hangs from its network.
NewNetwork == {<<The("subnet"), The("network")>>}

\* The firewall selects its servers by a label: it waits for nothing.
NewFirewall == {The("firewall")}

newFoundation == {The("network"), The("subnet")} \cup NewFirewall

\* The root of trust, and the patches every machine is configured with.
newMachineConfig == {The("secrets")}

\* Mutant: the target waits for the subnet, not for the attachment.
apiEndpointSubnetOnly ==
    {<<The("api-network"), The("api")>>, <<The("api-network"), The("subnet")>>,
     <<The("api-targets"), The("api")>>, <<The("api-targets"), The("subnet")>>}

\* A private target needs a load balancer that is already in the network.
apiEndpointAddress ==
    {<<The("api-network"), The("api")>>, <<The("api-network"), The("subnet")>>,
     <<The("api-targets"), The("api")>>, <<The("api-targets"), The("subnet")>>,
     <<The("api-targets"), The("api-network")>>}

\* A control-plane server takes a Primary IP that outlives it.
newPrimaryIP == {<<Server(n), PrimaryIp(n)>> : n \in ControlPlanes}

\* Mutant: the servers wait for the subnet only.
newServerNoPerimeter ==
    newPrimaryIP
      \cup Pairs({Server(n) : n \in Nodes}, {The("subnet")})

\* No server before the subnet it takes an address in and the perimeter around
\* it.
newServer ==
    newPrimaryIP
      \cup Pairs({Server(n) : n \in Nodes}, {The("subnet"), The("firewall")})

\* Each machine is configured on its own, with the secrets and, when there is a
\* load balancer, the address of its attachment; the bootstrap waits for every
\* one of them, and the kubeconfig for the bootstrap.
NewControlPlane ==
    Pairs({The("bootstrap")}, {Config(n) : n \in ControlPlanes})
      \cup {<<The("kubeconfig"), The("bootstrap")>>}
      \cup {<<Config(n), Server(n)>> : n \in ControlPlanes}
      \cup Pairs({Config(n) : n \in ControlPlanes}, {The("secrets"), The("api-network")})

\* Mutant: the pool is not given the bootstrap.
NewWorkerPoolAtOnce == {<<Config(w), Server(w)>> : w \in Workers}

\* A worker is configured once there is a cluster to join.
NewWorkerPool ==
    {<<Config(w), Server(w)>> : w \in Workers}
      \cup Pairs({Config(w) : w \in Workers}, {The("bootstrap")})

NewCluster ==
    NewNetwork \cup apiEndpointAddress \cup newServer \cup NewControlPlane
      \cup NewWorkerPool

\* What the program registers for a file.
Made(controlPlanes, workers, publicIPv4, balanced) ==
    newFoundation \cup newMachineConfig
      \cup {The("bootstrap"), The("kubeconfig")}
      \cup {Server(n) : n \in controlPlanes \cup workers}
      \cup {Config(n) : n \in controlPlanes \cup workers}
      \cup {PrimaryIp(n) : n \in {c \in controlPlanes : publicIPv4}}
      \cup (IF balanced THEN {The("api"), The("api-network"), The("api-targets")} ELSE {})

Registered(t) ==
    Made(t.controlPlanes, WorkersOf(t), PublicIPv4Enabled(t), APILoadBalanced(t))

Resources == Made(ControlPlanes, Workers, TRUE, TRUE)

\* Everything above a resource: no chain of dependencies is longer than the
\* one from a worker's configuration, over the bootstrap, the configurations
\* and the load balancer's attachment, to the network.
WaitsFor(rs) == {p[2] : p \in {q \in NewCluster : q[1] \in rs}}
Up(rs) == rs \cup WaitsFor(rs)
Above == [r \in Resources |-> Up(Up(Up(Up(WaitsFor({r})))))]

\* What carries pulumi.Protect: the machines etcd lives on and their addresses,
\* the endpoint, and the cluster's CA.
Protected ==
    {Server(n) : n \in ControlPlanes} \cup {PrimaryIp(n) : n \in ControlPlanes}
      \cup {The("api"), The("secrets")}

\* Mutants: the configuration, with the same inputs, is not tied to its server;
\* the bootstrap is not tied to the first one.
ReplacedWithBootstrapOnly(servers) == {r \in {The("bootstrap")} : Server(First) \in servers}

ReplacedWithConfigOnly(servers) == {Config(n) : n \in {m \in Nodes : Server(m) \in servers}}

\* ReplaceWith: a machine that is new needs its configuration again, and the
\* first one the bootstrap.
ReplacedWith(servers) ==
    {Config(n) : n \in {m \in Nodes : Server(m) \in servers}}
      \cup {r \in {The("bootstrap")} : Server(First) \in servers}
=============================================================================
