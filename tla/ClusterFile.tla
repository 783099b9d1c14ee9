------------------------------ MODULE ClusterFile ------------------------------
(***************************************************************************)
(* The variables file of a cluster, infra/cluster/cluster.<stack>.yaml:    *)
(* the defaults a sparse file takes, what validation refuses, and the      *)
(* perimeter built from it (internal/pkg/clusterspec).  The counts, names  *)
(* and address slots of the pools are NodeAddresses'.                      *)
(*                                                                         *)
(* A name is its length and whether it has the dns1123 shape, a domain the *)
(* sequence of its labels, a version its rank.  A range is its family, its *)
(* first address and its host bits.                                        *)
(***************************************************************************)
EXTENDS Integers, Sequences, FiniteSets

CONSTANTS
    AddressBits,  \* bits of an address: what 10.0.0.0/8 has, for both families
    Unset,        \* a field the file leaves out
    Malformed     \* a value its parser refuses

ASSUME FileAssumption == AddressBits \in Nat /\ AddressBits >= 24 /\ Unset # Malformed /\ Unset \notin Int

\* The addresses of a range with this many host bits.
Size(host) == 2 ^ host

\* What is used of powers of two.
ASSUME SizeAssumption ==
    \A h \in 0..AddressBits :
        /\ Size(h) \in Nat \ {0}
        /\ \A g \in 0..AddressBits : /\ g <= h => Size(h) % Size(g) = 0
                                     /\ g < h => Size(g) < Size(h)

Prefix == [family : {4, 6}, base : Nat, host : 0..AddressBits]
Name == [id : STRING, chars : Nat, dns1123 : BOOLEAN]

\* A range as it stands in a file: what it says parses, or it does not.
AnyRange == Prefix \cup {Unset, Malformed}

\* What a file can say; controlPlanes and nodes are the nodes of a count.
Fields == {"apiVersion", "kind", "name", "domain", "dnsZone", "location", "networkZone",
           "ipRange", "nodeSubnet", "podCIDR", "serviceCIDR", "routingMode", "adminCIDRs",
           "publicIPv4", "allowICMP", "talosVersion", "configVersion", "architecture",
           "kubernetesVersion", "controlPlanes", "serverType", "apiLoadBalancerType",
           "workerPools"}
PoolFields == {"name", "nodes", "serverType", "taints"}

MaxServerName == 63
RoleControlPlane == [id |-> "control-plane", chars |-> 13, dns1123 |-> TRUE]
NodeNameSuffix == 1 + RoleControlPlane.chars + 1 + 1
MaxClusterNameLength == MaxServerName - NodeNameSuffix

TaintEffects == {"NoSchedule", "PreferNoSchedule", "NoExecute"}
RoutingModes == {"native", "tunnel"}
Architectures == {"x86", "arm"}

validLocations ==
    [fsn1 |-> "eu-central", nbg1 |-> "eu-central", hel1 |-> "eu-central",
     ash |-> "us-east", hil |-> "us-west", sin |-> "ap-southeast"]
Locations == DOMAIN validLocations

-----------------------------------------------------------------------------
(* Ranges.                                                                  *)

Leading(p, bits) == p.base \div Size(bits)
Masked(p) == [p EXCEPT !.base = Leading(p, p.host) * Size(p.host)]

\* A range is given, parses, and starts at its first address.
parsePrefix(v) == v \notin {Unset, Malformed} /\ v = Masked(v)

\* Mutant: the two intersect, which is what this once asked.
containsOverlap(outer, inner) ==
    outer.family = inner.family
      /\ LET h == IF outer.host > inner.host THEN outer.host ELSE inner.host
         IN  Leading(outer, h) = Leading(inner, h)

\* inner sits wholly in outer: it is no wider, and starts inside.
contains(outer, inner) ==
    /\ outer.family = inner.family
    /\ outer.host >= inner.host
    /\ Leading(Masked(inner), outer.host) = Leading(outer, outer.host)

Overlaps(p, q) ==
    /\ p.family = q.family
    /\ LET h == IF p.host > q.host THEN p.host ELSE q.host
       IN  Leading(p, h) = Leading(q, h)

-----------------------------------------------------------------------------
(* ApplyDefaults: an omitted field takes the value fixed for it.            *)

Range10(x, y, host) == [family |-> 4, base |-> x * 65536 + y * 256, host |-> host]
DefaultIPRange == Range10(0, 0, 16)
DefaultNodeSubnet == Range10(0, 1, 8)
DefaultPodCIDR == Range10(244, 0, 16)
DefaultServiceCIDR == Range10(96, 0, 20)

defaultServerTypes ==
    [x86 |-> [controlPlane |-> "cx23", worker |-> "cx33"],
     arm |-> [controlPlane |-> "cax11", worker |-> "cax21"]]
DefaultServerType(role, architecture) ==
    IF architecture \in Architectures THEN defaultServerTypes[architecture][role] ELSE Unset

setIfEmpty(field, value) == IF field = Unset THEN value ELSE field

\* The zone follows from the location, and the server types from the
\* architecture, once that is known; a load balancer only for several nodes.
ApplyDefaults(f) ==
    LET architecture == setIfEmpty(f.architecture, "x86") IN
    [f EXCEPT
       !.apiVersion = setIfEmpty(@, "v1"), !.kind = setIfEmpty(@, "Cluster"),
       !.networkZone = setIfEmpty(@, IF f.location \in Locations
                                       THEN validLocations[f.location] ELSE Unset),
       !.ipRange = setIfEmpty(@, DefaultIPRange),
       !.nodeSubnet = setIfEmpty(@, DefaultNodeSubnet),
       !.podCIDR = setIfEmpty(@, DefaultPodCIDR),
       !.serviceCIDR = setIfEmpty(@, DefaultServiceCIDR),
       !.routingMode = setIfEmpty(@, "native"),
       !.architecture = architecture,
       !.kubernetesVersion = setIfEmpty(@, 1),
       !.serverType = setIfEmpty(@, DefaultServerType("controlPlane", architecture)),
       !.apiLoadBalancerType =
           IF Cardinality(f.controlPlanes) > 1 THEN setIfEmpty(@, "lb11") ELSE @,
       !.workerPools =
           [i \in DOMAIN @ |->
              [@[i] EXCEPT !.serverType =
                  setIfEmpty(@, DefaultServerType("worker", architecture))]],
       !.publicIPv4 = setIfEmpty(@, TRUE), !.allowICMP = setIfEmpty(@, FALSE)]

PublicIPv4Enabled(f) == f.publicIPv4 # FALSE
ICMPAllowed(f) == f.allowICMP = TRUE
APILoadBalanced(f) == Cardinality(f.controlPlanes) > 1

Pools(f) == DOMAIN f.workerPools
WorkersOf(f) == UNION {f.workerPools[i].nodes : i \in Pools(f)}
TotalWorkers(f) == Cardinality(WorkersOf(f))

\* Unpinned, the version the machines run.
ConfigContract(f) == setIfEmpty(f.configVersion, f.talosVersion)

\* What YAML makes of a file, as far as validation relies on it.
DecodedFile(f) ==
    /\ DOMAIN f = Fields
    /\ f.name \in Name \cup {Unset}
    /\ f.talosVersion \in Nat \cup {Unset, Malformed}
    /\ f.ipRange \in AnyRange /\ f.nodeSubnet \in AnyRange
    /\ f.podCIDR \in AnyRange /\ f.serviceCIDR \in AnyRange
    /\ f.adminCIDRs \subseteq AnyRange
    /\ \A i \in Pools(f) : /\ DOMAIN f.workerPools[i] = PoolFields
                            /\ f.workerPools[i].name \in Name \cup {Unset}
                            /\ DOMAIN f.workerPools[i].taints \subseteq Nat

-----------------------------------------------------------------------------
(* Validate.  Every problem is reported; a file with none is accepted.      *)

Digits(n) == IF n < 10 THEN 1 ELSE 2
NodeNameLength(f, pool, count) ==
    f.name.chars + 1 + pool.chars + 1 + Digits(IF count = 0 THEN 0 ELSE count - 1)

\* Mutant: only the cluster's own name is measured.
validateNodeNamesFloor(f) == TRUE

\* The longest name of each pool; a pool without a name is told of elsewhere.
validateNodeNames(f) ==
    f.name # Unset /\ f.name.chars <= MaxClusterNameLength =>
        /\ NodeNameLength(f, RoleControlPlane, Cardinality(f.controlPlanes)) <= MaxServerName
        /\ \A i \in Pools(f) : LET pool == f.workerPools[i] IN
             pool.name # Unset =>
                 NodeNameLength(f, pool.name, Cardinality(pool.nodes)) <= MaxServerName

\* Two labels at least.
domainName(d) == d # Malformed /\ Len(d) >= 2

validateDNSZone(f) ==
    f.dnsZone # Unset => /\ domainName(f.dnsZone)
                         /\ f.domain \notin {Unset, Malformed}
                         /\ \E i \in DOMAIN f.domain : SubSeq(f.domain, i, Len(f.domain)) = f.dnsZone

validateIdentity(f) ==
    /\ f.apiVersion = "v1" /\ f.kind = "Cluster"
    /\ f.name # Unset
    /\ f.name.chars <= MaxClusterNameLength /\ f.name.dns1123
    /\ f.domain # Unset => domainName(f.domain)
    /\ validateDNSZone(f)

validatePlacement(f) ==
    /\ f.location \in Locations
    /\ f.networkZone = validLocations[f.location]

Ranges(f) == <<f.ipRange, f.podCIDR, f.serviceCIDR>>

\* Mutant: the service range is compared with nothing.
validateNetworkPodOnly(f) ==
    /\ parsePrefix(f.nodeSubnet) /\ \A i \in 1..3 : parsePrefix(Ranges(f)[i])
    /\ contains(f.ipRange, f.nodeSubnet)
    /\ ~Overlaps(f.ipRange, f.podCIDR)
    /\ f.adminCIDRs # {}
    /\ \A p \in f.adminCIDRs : parsePrefix(p) /\ p.host # AddressBits

\* What parses is compared; nobody is let in by default, and a range that is
\* the whole internet is not one somebody means.
validateNetwork(f) ==
    /\ parsePrefix(f.nodeSubnet) /\ \A i \in 1..3 : parsePrefix(Ranges(f)[i])
    /\ contains(f.ipRange, f.nodeSubnet)
    /\ \A i, j \in 1..3 : i < j => ~Overlaps(Ranges(f)[i], Ranges(f)[j])
    /\ f.adminCIDRs # {}
    /\ \A p \in f.adminCIDRs : parsePrefix(p) /\ p.host # AddressBits

\* What was generated for a newer Talos is not what the machines can read.
validateConfigContract(f) ==
    f.configVersion # Unset =>
        /\ f.configVersion # Malformed
        /\ f.talosVersion \notin {Unset, Malformed} => f.configVersion <= f.talosVersion

validateVersions(f) ==
    /\ f.talosVersion \notin {Unset, Malformed}
    /\ validateConfigContract(f)
    /\ f.kubernetesVersion # Malformed
    /\ f.routingMode \in RoutingModes
    /\ f.architecture \in Architectures

\* The types: what NodeAddresses leaves out of validateControlPlane and
\* validateWorkerPools.
validateTypes(f) ==
    /\ APILoadBalanced(f) => f.apiLoadBalancerType # Unset
    /\ f.serverType # Unset
    /\ \A i \in Pools(f) : LET pool == f.workerPools[i] IN
         /\ pool.name # Unset /\ pool.name.dns1123
         /\ pool.serverType # Unset

\* A taint that Malformed stands for has no =, no : or an effect of no name.
ParseTaint(taint) == taint # Malformed /\ taint.effect \in TaintEffects

\* Mutant: only the shape of a taint is looked at.
validateTaintsShape(taints) == \A i \in DOMAIN taints : ParseTaint(taints[i])

\* A machine keeps one taint of a key, so a second would be lost.
validateTaints(taints) ==
    /\ \A i \in DOMAIN taints : ParseTaint(taints[i])
    /\ \A i, j \in DOMAIN taints : taints[i].key = taints[j].key => i = j

Validate(f) ==
    /\ validateIdentity(f)
    /\ validatePlacement(f)
    /\ validateNetwork(f)
    /\ validateVersions(f)
    /\ validateTypes(f)
    /\ \A i \in Pools(f) : validateTaints(f.workerPools[i].taints)
    /\ validateNodeNames(f)

\* Nodes have IPv4 addresses: the layout takes no other subnet.
NewAddressing(f) == f.nodeSubnet.family = 4

-----------------------------------------------------------------------------
(* The perimeter: what may reach a machine from outside its network.        *)

PortKubeAPI == 6443
PortTalosdAPI == 50000

portedProtocols == {"tcp", "udp"}
portlessProtocols == {"icmp", "gre", "esp"}

Rule(protocol, port, sources) == [protocol |-> protocol, port |-> port, sources |-> sources]

validRule(rule) ==
    /\ rule.sources # {}
    /\ rule.protocol \in portedProtocols => rule.port # Unset
    /\ rule.protocol \in portlessProtocols => rule.port = Unset

BuildFirewallRules(f) ==
    {Rule("tcp", PortKubeAPI, f.adminCIDRs), Rule("tcp", PortTalosdAPI, f.adminCIDRs)}
      \cup {r \in {Rule("icmp", Unset, f.adminCIDRs)} : ICMPAllowed(f)}

-----------------------------------------------------------------------------
(* What a file has to say for a cluster to stand, by the addresses the      *)
(* ranges hold and not by their bits.                                       *)

FirstAddress(p) == p.base
LastAddress(p) == p.base + Size(p.host) - 1
Inside(p, q) == p.family = q.family /\ FirstAddress(q) <= FirstAddress(p) /\ LastAddress(p) <= LastAddress(q)
Apart(p, q) == p.family # q.family \/ LastAddress(p) < FirstAddress(q) \/ LastAddress(q) < FirstAddress(p)

\* An address is a machine's, a pod's or a service's, and the operators alone
\* are let in, by name.
SoundPerimeter(f) ==
    /\ Apart(f.nodeSubnet, f.podCIDR)
    /\ Apart(f.nodeSubnet, f.serviceCIDR)
    /\ Apart(f.podCIDR, f.serviceCIDR)
    /\ \A r \in BuildFirewallRules(f) :
         /\ validRule(r)
         /\ \A p \in r.sources : LastAddress(p) - FirstAddress(p) + 1 < Size(AddressBits)
    /\ \A port \in {PortKubeAPI, PortTalosdAPI} :
         \E r \in BuildFirewallRules(f) : r.port = port
=============================================================================
