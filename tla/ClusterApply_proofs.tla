-------------------------- MODULE ClusterApply_proofs --------------------------
(***************************************************************************)
(* What an apply and a teardown keep, for any nodes, files, server types,  *)
(* runs and failures.  First of the file itself: the arithmetic of         *)
(* ClusterFile on ranges is the inclusion and the disjointness of what     *)
(* they hold, and a file that validation lets through has a perimeter that *)
(* is sound.                                                               *)
(***************************************************************************)
EXTENDS ClusterApply, FiniteSetTheorems, TLAPS

----------------------------------------------------------------------------
(* The ranges and the perimeter of a file.                                  *)


(* The quotient and what it leaves.                                        *)
LEMMA DivBounds ==
  ASSUME NEW a \in Nat, NEW t \in Nat, t > 0
  PROVE  /\ a \div t \in Nat
         /\ (a \div t) * t <= a
         /\ a < (a \div t) * t + t
  BY SMT

(* Multiples keep the order of what they are multiples of.                 *)
LEMMA MultipleOrder ==
  ASSUME NEW x \in Nat, NEW y \in Nat, NEW t \in Nat, t > 0
  PROVE  /\ x < y => x * t + t <= y * t
         /\ x <= y <=> x * t <= y * t
  BY SMT

(* Only one multiple is that close below.                                  *)
LEMMA DivUnique ==
  ASSUME NEW a \in Nat, NEW t \in Nat, t > 0, NEW q \in Nat,
         q * t <= a, a < q * t + t
  PROVE  a \div t = q
<1>1. /\ a \div t \in Nat
      /\ (a \div t) * t <= a
      /\ a < (a \div t) * t + t
  BY DivBounds
<1>2. /\ a \div t < q => (a \div t) * t + t <= q * t
      /\ q < a \div t => q * t + t <= (a \div t) * t
  BY <1>1, MultipleOrder
<1> QED BY <1>1, <1>2, SMT

LEMMA ModZero ==
  ASSUME NEW a \in Nat, NEW t \in Nat, t > 0, a % t = 0
  PROVE  \E k \in Nat : a = k * t
  BY SMT

(* A block of s that starts in an aligned block of a multiple of s ends in *)
(* it too.                                                                 *)
LEMMA BlockInBlock ==
  ASSUME NEW s \in Nat, s > 0, NEW t \in Nat, NEW k \in Nat, t = k * s,
         NEW r \in Nat, NEW q \in Nat,
         q * t <= r * s, r * s < q * t + t
  PROVE  r * s + s <= q * t + t
<1>1. q * t + t = (q * k + k) * s /\ q * k + k \in Nat
  BY SMT
<1>2. r < q * k + k
  <2>1. q * k + k <= r => (q * k + k) * s <= r * s
    BY <1>1, MultipleOrder
  <2> QED BY <2>1, <1>1, SMT
<1>3. r * s + s <= (q * k + k) * s
  BY <1>1, <1>2, MultipleOrder
<1> QED BY <1>1, <1>3
-----------------------------------------------------------------------------
(* Ranges as parsePrefix leaves them.                                       *)

LEMMA Aligned ==
  ASSUME NEW p \in Prefix, p = Masked(p)
  PROVE  /\ p.base \in Nat
         /\ p.host \in 0..AddressBits
         /\ Size(p.host) \in Nat /\ Size(p.host) > 0
         /\ Leading(p, p.host) \in Nat
         /\ p.base = Leading(p, p.host) * Size(p.host)
<1>1. p.base \in Nat /\ p.host \in 0..AddressBits
  BY DEF Prefix
<1>2. Size(p.host) \in Nat /\ Size(p.host) > 0
  BY <1>1, SizeAssumption
<1>3. Leading(p, p.host) \in Nat
  BY <1>1, <1>2, DivBounds DEF Leading
<1>4. p.base = [p EXCEPT !.base = Leading(p, p.host) * Size(p.host)].base
  BY DEF Masked
<1>5. [p EXCEPT !.base = Leading(p, p.host) * Size(p.host)].base
        = Leading(p, p.host) * Size(p.host)
  BY DEF Prefix
<1> QED BY <1>1, <1>2, <1>3, <1>4, <1>5

(* The narrower of two aligned ranges is inside the wider or beside it, and *)
(* the leading bits say which.                                              *)
LEMMA InsideOrBeside ==
  ASSUME NEW p \in Prefix, p = Masked(p), NEW q \in Prefix, q = Masked(q),
         p.host <= q.host, p.family = q.family
  PROVE  /\ Leading(p, q.host) = Leading(q, q.host) => Inside(p, q)
         /\ Leading(p, q.host) # Leading(q, q.host) => Apart(p, q) /\ ~Inside(p, q)
<1> DEFINE S == Size(p.host)
           T == Size(q.host)
           r == Leading(p, p.host)
           l == Leading(p, q.host)
           m == Leading(q, q.host)
<1>1. /\ S \in Nat /\ S > 0 /\ r \in Nat /\ p.base = r * S /\ p.base \in Nat
      /\ T \in Nat /\ T > 0 /\ m \in Nat /\ q.base = m * T /\ q.base \in Nat
  BY Aligned
<1>2. /\ l \in Nat
      /\ l * T <= p.base
      /\ p.base < l * T + T
  BY <1>1, DivBounds DEF Leading
<1>3. PICK k \in Nat : T = k * S
  <2>1. p.host \in 0..AddressBits /\ q.host \in 0..AddressBits
    BY Aligned
  <2>2. T % S = 0
    BY <2>1, SizeAssumption
  <2> QED BY <1>1, <2>2, ModZero
<1> HIDE DEF S, T, r, l, m
<1>4. p.base + S <= l * T + T
  BY <1>1, <1>2, <1>3, BlockInBlock
<1>5. /\ l < m => l * T + T <= m * T
      /\ m < l => m * T + T <= l * T
  BY <1>1, <1>2, MultipleOrder
<1>6. l * T \in Nat /\ m * T \in Nat
  BY <1>1, <1>2
<1>7. l = m => q.base <= p.base /\ p.base + S - 1 <= q.base + T - 1
  BY <1>1, <1>2, <1>4, <1>6
<1>8. l # m => p.base + S - 1 < q.base \/ q.base + T - 1 < p.base
  BY <1>1, <1>2, <1>4, <1>5, <1>6
<1>9. l # m => ~(q.base <= p.base /\ p.base + S - 1 <= q.base + T - 1)
  BY <1>1, <1>8
<1> QED
  BY <1>7, <1>8, <1>9 DEF S, T, l, m, Inside, Apart, FirstAddress, LastAddress

(* A range that is wider is inside no narrower one.                         *)
LEMMA WiderIsNotInside ==
  ASSUME NEW p \in Prefix, p = Masked(p), NEW q \in Prefix, q = Masked(q),
         q.host < p.host
  PROVE  ~Inside(p, q)
<1>1. /\ p.host \in 0..AddressBits /\ p.base \in Nat /\ Size(p.host) \in Nat
      /\ q.host \in 0..AddressBits /\ q.base \in Nat /\ Size(q.host) \in Nat
  BY Aligned
<1>2. Size(q.host) < Size(p.host)
  BY <1>1, SizeAssumption
<1> QED BY <1>1, <1>2 DEF Inside, FirstAddress, LastAddress

(* contains (config.go) is inclusion: inner has no address outer has not.   *)
THEOREM ContainsIsInclusion ==
  ASSUME NEW p \in Prefix, p = Masked(p), NEW q \in Prefix, q = Masked(q)
  PROVE  contains(q, p) <=> Inside(p, q)
<1>1. p.host \in Int /\ q.host \in Int
  BY Aligned
<1>2. CASE p.family # q.family
  BY <1>2 DEF contains, Inside
<1>3. CASE q.host < p.host
  BY <1>1, <1>3, WiderIsNotInside DEF contains
<1>4. CASE p.family = q.family /\ p.host <= q.host
  BY <1>1, <1>4, InsideOrBeside DEF contains
<1> QED BY <1>1, <1>2, <1>3, <1>4

(* Ranges that do not overlap (netip, as validateNetwork asks it) share no  *)
(* address, whichever is given first.                                       *)
THEOREM OverlapsIsSharing ==
  ASSUME NEW p \in Prefix, p = Masked(p), NEW q \in Prefix, q = Masked(q),
         ~Overlaps(p, q)
  PROVE  Apart(p, q) /\ Apart(q, p)
<1>1. p.host \in Int /\ q.host \in Int
  BY Aligned
<1>2. CASE p.family # q.family
  BY <1>2 DEF Apart
<1>3. CASE p.family = q.family /\ q.host < p.host
  <2>1. Leading(q, p.host) # Leading(p, p.host)
    BY <1>1, <1>3 DEF Overlaps
  <2>2. Apart(q, p)
    BY <1>1, <1>3, <2>1, InsideOrBeside
  <2> QED BY <2>2 DEF Apart
<1>4. CASE p.family = q.family /\ p.host <= q.host
  <2>1. Leading(p, q.host) # Leading(q, q.host)
    BY <1>1, <1>4 DEF Overlaps
  <2>2. Apart(p, q)
    BY <1>4, <2>1, InsideOrBeside
  <2> QED BY <2>2 DEF Apart
<1> QED BY <1>1, <1>2, <1>3, <1>4
-----------------------------------------------------------------------------
(* What is inside something is beside all that is beside it.                *)
LEMMA InsideKeepsApart ==
  ASSUME NEW p \in Prefix, p = Masked(p), NEW q \in Prefix, q = Masked(q),
         NEW o \in Prefix, o = Masked(o), Inside(p, q), Apart(q, o)
  PROVE  Apart(p, o)
<1>1. /\ p.base \in Nat /\ Size(p.host) \in Nat
      /\ q.base \in Nat /\ Size(q.host) \in Nat
      /\ o.base \in Nat /\ Size(o.host) \in Nat
  BY Aligned
<1> QED BY <1>1 DEF Inside, Apart, FirstAddress, LastAddress

(* A file that validation accepts has no address in two of the node subnet, *)
(* the pods and the services, though the subnet itself is compared with     *)
(* neither of the others, and its perimeter opens the two APIs to ranges    *)
(* that somebody named, none of which is the whole internet: for every      *)
(* file, of any ranges of any size.                                         *)
THEOREM ValidateIsSound ==
  ASSUME NEW f, f.ipRange \in AnyRange, f.nodeSubnet \in AnyRange,
         f.podCIDR \in AnyRange, f.serviceCIDR \in AnyRange,
         f.adminCIDRs \subseteq AnyRange, Validate(f)
  PROVE  SoundPerimeter(f) /\ Inside(f.nodeSubnet, f.ipRange)
<1>1. ASSUME NEW v \in AnyRange, parsePrefix(v) PROVE v \in Prefix /\ v = Masked(v)
  BY <1>1 DEF AnyRange, parsePrefix
<1>2. validateNetwork(f)
  BY DEF Validate
<1>3. Ranges(f)[1] = f.ipRange /\ Ranges(f)[2] = f.podCIDR /\ Ranges(f)[3] = f.serviceCIDR
  BY DEF Ranges
<1>4. /\ f.nodeSubnet \in Prefix /\ f.nodeSubnet = Masked(f.nodeSubnet)
      /\ f.ipRange \in Prefix /\ f.ipRange = Masked(f.ipRange)
      /\ f.podCIDR \in Prefix /\ f.podCIDR = Masked(f.podCIDR)
      /\ f.serviceCIDR \in Prefix /\ f.serviceCIDR = Masked(f.serviceCIDR)
  <2>1. /\ parsePrefix(f.nodeSubnet)
        /\ parsePrefix(Ranges(f)[1]) /\ parsePrefix(Ranges(f)[2]) /\ parsePrefix(Ranges(f)[3])
    BY <1>2 DEF validateNetwork
  <2> QED BY <1>1, <1>3, <2>1
<1>5. ~Overlaps(f.ipRange, f.podCIDR)
  <2>1. ~Overlaps(Ranges(f)[1], Ranges(f)[2])
    BY <1>2 DEF validateNetwork
  <2> QED BY <1>3, <2>1
<1>6. ~Overlaps(f.ipRange, f.serviceCIDR)
  <2>1. ~Overlaps(Ranges(f)[1], Ranges(f)[3])
    BY <1>2 DEF validateNetwork
  <2> QED BY <1>3, <2>1
<1>7. ~Overlaps(f.podCIDR, f.serviceCIDR)
  <2>1. ~Overlaps(Ranges(f)[2], Ranges(f)[3])
    BY <1>2 DEF validateNetwork
  <2> QED BY <1>3, <2>1
<1>8. Inside(f.nodeSubnet, f.ipRange)
  BY <1>2, <1>4, ContainsIsInclusion DEF validateNetwork
<1>9. /\ Apart(f.nodeSubnet, f.podCIDR)
      /\ Apart(f.nodeSubnet, f.serviceCIDR)
      /\ Apart(f.podCIDR, f.serviceCIDR)
  BY <1>4, <1>5, <1>6, <1>7, <1>8, OverlapsIsSharing, InsideKeepsApart
<1>10. \A p \in f.adminCIDRs : LastAddress(p) - FirstAddress(p) + 1 < Size(AddressBits)
  <2> SUFFICES ASSUME NEW p \in f.adminCIDRs
               PROVE  LastAddress(p) - FirstAddress(p) + 1 < Size(AddressBits)
    OBVIOUS
  <2>1. parsePrefix(p) /\ p.host # AddressBits /\ p \in AnyRange
    BY <1>2 DEF validateNetwork
  <2>2. p \in Prefix /\ p = Masked(p)
    BY <1>1, <2>1
  <2>3. p.base \in Nat /\ p.host \in 0..AddressBits /\ Size(p.host) \in Nat
    BY <2>2, Aligned
  <2>4. AddressBits \in 0..AddressBits /\ p.host < AddressBits
    BY <2>1, <2>3, FileAssumption
  <2>5. Size(p.host) < Size(AddressBits) /\ Size(AddressBits) \in Nat
    BY <2>3, <2>4, SizeAssumption
  <2> QED BY <2>3, <2>5 DEF LastAddress, FirstAddress
<1>11. f.adminCIDRs # {}
  BY <1>2 DEF validateNetwork
<1>12. \A rule \in BuildFirewallRules(f) : validRule(rule) /\ rule.sources = f.adminCIDRs
  BY <1>11, FileAssumption
     DEF BuildFirewallRules, Rule, validRule, portedProtocols, portlessProtocols,
         PortKubeAPI, PortTalosdAPI
<1>13. \A port \in {PortKubeAPI, PortTalosdAPI} :
         \E rule \in BuildFirewallRules(f) : rule.port = port
  <2>1. /\ Rule("tcp", PortKubeAPI, f.adminCIDRs) \in BuildFirewallRules(f)
        /\ Rule("tcp", PortTalosdAPI, f.adminCIDRs) \in BuildFirewallRules(f)
    BY DEF BuildFirewallRules
  <2>2. \A port : Rule("tcp", port, f.adminCIDRs).port = port
    BY DEF Rule
  <2> QED BY <2>1, <2>2
<1> QED BY <1>8, <1>9, <1>10, <1>12, <1>13 DEF SoundPerimeter

----------------------------------------------------------------------------
(* What an accepted file is.                                                *)

\* The defaults leave what a file says of its nodes, its name and its version.
LEMMA DefaultsKeep ==
  ASSUME NEW f \in Files
  PROVE  LET t == ApplyDefaults(f) IN
         /\ t.controlPlanes = f.controlPlanes
         /\ t.name = f.name
         /\ t.talosVersion = f.talosVersion
         /\ t.adminCIDRs = f.adminCIDRs
         /\ t.ipRange = setIfEmpty(f.ipRange, DefaultIPRange)
         /\ t.nodeSubnet = setIfEmpty(f.nodeSubnet, DefaultNodeSubnet)
         /\ t.podCIDR = setIfEmpty(f.podCIDR, DefaultPodCIDR)
         /\ t.serviceCIDR = setIfEmpty(f.serviceCIDR, DefaultServiceCIDR)
<1>1. DOMAIN f = Fields
  BY FilesAssumption DEF DecodedFile
<1> QED
  BY <1>1 DEF ApplyDefaults, Fields

LEMMA DefaultsKeepPools ==
  ASSUME NEW f \in Files
  PROVE  LET t == ApplyDefaults(f) IN
         /\ Pools(t) = Pools(f)
         /\ \A i \in Pools(f) : /\ t.workerPools[i].name = f.workerPools[i].name
                                /\ t.workerPools[i].nodes = f.workerPools[i].nodes
                                /\ t.workerPools[i].taints = f.workerPools[i].taints
<1>1. DOMAIN f = Fields /\ \A i \in Pools(f) : DOMAIN f.workerPools[i] = PoolFields
  BY FilesAssumption DEF DecodedFile
<1>2. DOMAIN ApplyDefaults(f).workerPools = DOMAIN f.workerPools
  BY <1>1 DEF ApplyDefaults, Fields
<1>3. ASSUME NEW i \in DOMAIN f.workerPools
      PROVE  /\ ApplyDefaults(f).workerPools[i].name = f.workerPools[i].name
             /\ ApplyDefaults(f).workerPools[i].nodes = f.workerPools[i].nodes
             /\ ApplyDefaults(f).workerPools[i].taints = f.workerPools[i].taints
  BY <1>1 DEF ApplyDefaults, Fields, Pools, PoolFields
<1> QED
  BY <1>2, <1>3 DEF Pools

\* The nodes of an accepted file are among those there are, the first one always.
LEMMA AcceptedNodes ==
  ASSUME NEW t \in Accepted
  PROVE  /\ First \in t.controlPlanes
         /\ t.controlPlanes \subseteq ControlPlanes
         /\ WorkersOf(t) \subseteq Workers
<1>1. PICK f \in Files : t = ApplyDefaults(f)
  BY DEF Accepted, Plans, LoadTopology
<1>2. t.controlPlanes = f.controlPlanes
  BY <1>1, DefaultsKeep
<1>3. WorkersOf(t) = WorkersOf(f)
  BY <1>1, DefaultsKeepPools DEF WorkersOf
<1> QED
  BY <1>2, <1>3, ApplyAssumption

\* What validation is told is of the types a parsed file has.
LEMMA AcceptedTyped ==
  ASSUME NEW t \in Accepted
  PROVE  /\ Validate(t)
         /\ t.name \in Name \cup {Unset}
         /\ t.talosVersion \in Nat \cup {Unset, Malformed}
         /\ \A i \in Pools(t) : /\ t.workerPools[i].name \in Name \cup {Unset}
                                /\ DOMAIN t.workerPools[i].taints \subseteq Nat
         /\ t.ipRange \in AnyRange /\ t.nodeSubnet \in AnyRange
         /\ t.podCIDR \in AnyRange /\ t.serviceCIDR \in AnyRange
         /\ t.adminCIDRs \subseteq AnyRange
<1>1. PICK f \in Files : t = ApplyDefaults(f) /\ Validate(t)
  BY DEF Accepted, Plans, LoadTopology
<1>2. {DefaultIPRange, DefaultNodeSubnet, DefaultPodCIDR, DefaultServiceCIDR} \subseteq AnyRange
  BY FileAssumption
     DEF DefaultIPRange, DefaultNodeSubnet, DefaultPodCIDR, DefaultServiceCIDR, Range10,
         AnyRange, Prefix
<1>3. DecodedFile(f)
  BY FilesAssumption
<1>4. \A i \in Pools(t) : /\ t.workerPools[i].name \in Name \cup {Unset}
                         /\ DOMAIN t.workerPools[i].taints \subseteq Nat
  BY <1>1, <1>3, DefaultsKeepPools DEF DecodedFile
<1>5. /\ t.name = f.name /\ t.talosVersion = f.talosVersion
      /\ t.adminCIDRs = f.adminCIDRs
      /\ t.ipRange = setIfEmpty(f.ipRange, DefaultIPRange)
      /\ t.nodeSubnet = setIfEmpty(f.nodeSubnet, DefaultNodeSubnet)
      /\ t.podCIDR = setIfEmpty(f.podCIDR, DefaultPodCIDR)
      /\ t.serviceCIDR = setIfEmpty(f.serviceCIDR, DefaultServiceCIDR)
  BY <1>1, DefaultsKeep
<1> QED
  BY <1>1, <1>2, <1>3, <1>4, <1>5 DEF setIfEmpty, DecodedFile

\* Its perimeter is sound, and its subnet lies in its network.
LEMMA AcceptedSound ==
  ASSUME NEW t \in Accepted
  PROVE  SoundPerimeter(t) /\ Inside(t.nodeSubnet, t.ipRange)
  BY AcceptedTyped, ValidateIsSound

\* A pool's first node has the shortest name of it.
LEMMA ShortestName ==
  ASSUME NEW t, NEW name, NEW count, t.name.chars \in Nat, name.chars \in Nat,
         NodeNameLength(t, name, count) <= MaxServerName
  PROVE  ~(NodeNameLength(t, name, 1) > MaxServerName)
<1>1. \A x : Digits(x) \in {1, 2}
  BY DEF Digits
<1>2. Digits(IF 1 = 0 THEN 0 ELSE 1 - 1) = 1
  BY DEF Digits
<1> QED
  BY <1>1, <1>2 DEF NodeNameLength, MaxServerName

\* Hetzner can make all of it.
LEMMA AcceptedIsPossible ==
  ASSUME NEW t \in Accepted, NEW r \in Registered(t)
  PROVE  r \notin Impossible(t)
<1>1. Validate(t)
  BY AcceptedTyped
<1>2. /\ Inside(t.nodeSubnet, t.ipRange)
      /\ t.networkZone = validLocations[t.location]
  BY <1>1, AcceptedSound DEF Validate, validatePlacement
<1>3. ASSUME r = The("api") PROVE t.apiLoadBalancerType # Unset
  <2>1. APILoadBalanced(t)
    BY <1>3 DEF Registered, Made, The, Server, Config, PrimaryIp, newFoundation, NewFirewall,
                newMachineConfig
  <2> QED
    BY <1>1, <2>1 DEF Validate, validateTypes
<1>4. ASSUME NEW n \in WorkersOf(t)
      PROVE  ~(NodeNameLength(t, t.workerPools[PoolOf(t, n)].name, 1) > MaxServerName)
  <2> DEFINE i == PoolOf(t, n)
  <2>1. i \in Pools(t)
    BY DEF WorkersOf, PoolOf
  <2>2. t.workerPools[i].name # Unset /\ t.name # Unset /\ t.name.chars <= MaxClusterNameLength
    BY <1>1, <2>1 DEF Validate, validateTypes, validateIdentity
  <2>3. NodeNameLength(t, t.workerPools[i].name, Cardinality(t.workerPools[i].nodes))
          <= MaxServerName
    BY <1>1, <2>1, <2>2 DEF Validate, validateNodeNames
  <2>4. t.name.chars \in Nat /\ t.workerPools[i].name.chars \in Nat
    BY <2>1, <2>2, AcceptedTyped DEF Name
  <2> QED
    BY <2>3, <2>4, ShortestName
<1> QED
  BY <1>2, <1>3, <1>4 DEF Impossible, The, Server

----------------------------------------------------------------------------
(* The graph.                                                               *)

\* A resource comes from one constructor only.
LEMMA Distinct ==
  /\ \A m, n : Server(m) = Server(n) <=> m = n
  /\ \A m, n : Config(m) = Config(n) <=> m = n
  /\ \A m, n : Server(m) # Config(n) /\ Server(m) # PrimaryIp(n) /\ Config(m) # PrimaryIp(n)
  /\ \A n, k : k \notin {"server", "config"} => Server(n) # The(k) /\ Config(n) # The(k)
  /\ \A k, l : k # l => The(k) # The(l)
  BY DEF Server, Config, PrimaryIp, The

\* What a file makes for every cluster, and for each of its nodes.
LEMMA RegisteredAlways ==
  ASSUME NEW t \in Accepted
  PROVE  /\ Registered(t) \subseteq Resources
         /\ NodesOf(t) \subseteq Nodes
         /\ The("firewall") \in Registered(t)
         /\ The("subnet") \in Registered(t)
         /\ The("secrets") \in Registered(t)
         /\ The("bootstrap") \in Registered(t)
<1>1. t.controlPlanes \subseteq ControlPlanes /\ WorkersOf(t) \subseteq Workers
  BY AcceptedNodes
<1>2. Registered(t) \subseteq Resources
  BY <1>1 DEF Registered, Resources, Made
<1>3. NodesOf(t) \subseteq Nodes
  BY <1>1 DEF NodesOf, Nodes
<1> QED
  BY <1>2, <1>3 DEF Registered, Made, newFoundation, NewFirewall, newMachineConfig

LEMMA RegisteredNodes ==
  ASSUME NEW t, NEW n
  PROVE  /\ Server(n) \in Registered(t) <=> n \in NodesOf(t)
         /\ Config(n) \in Registered(t) <=> n \in NodesOf(t)
  BY DEF Registered, Made, newFoundation, NewFirewall, newMachineConfig, NodesOf,
         Server, Config, The, PrimaryIp

\* The load balancer comes with its attachment.
LEMMA RegisteredBalancer ==
  ASSUME NEW t
  PROVE  /\ The("api") \in Registered(t) <=> APILoadBalanced(t)
         /\ The("api-network") \in Registered(t) <=> APILoadBalanced(t)
         /\ The("api-targets") \in Registered(t) <=> APILoadBalanced(t)
  BY DEF Registered, Made, newFoundation, NewFirewall, newMachineConfig,
         Server, Config, The, PrimaryIp

LEMMA ResourcesAre ==
  /\ \A n \in Nodes : Server(n) \in Resources /\ Config(n) \in Resources
  /\ {The("firewall"), The("subnet"), The("secrets"), The("bootstrap"),
       The("api-network"), The("api-targets")} \subseteq Resources
  BY DEF Resources, Made, newFoundation, NewFirewall, newMachineConfig, Nodes

\* What waits for another directly.
LEMMA DirectlyAbove ==
  ASSUME NEW r \in Resources, NEW q, <<r, q>> \in NewCluster
  PROVE  q \in Above[r]
<1>1. q \in WaitsFor({r})
  BY DEF WaitsFor
<1> QED
  BY <1>1 DEF Above, Up

\* And over one between.
LEMMA IndirectlyAbove ==
  ASSUME NEW r \in Resources, NEW m, NEW q, <<r, m>> \in NewCluster, <<m, q>> \in NewCluster
  PROVE  q \in Above[r]
<1>1. m \in WaitsFor({r})
  BY DEF WaitsFor
<1>2. q \in Up(WaitsFor({r}))
  BY <1>1 DEF WaitsFor, Up
<1> QED
  BY <1>2 DEF Above, Up

\* The order the properties rest on.
LEMMA Chain ==
  /\ \A n \in Nodes : /\ The("firewall") \in Above[Server(n)]
                       /\ The("subnet") \in Above[Server(n)]
                       /\ Server(n) \in Above[Config(n)]
  /\ \A w \in Workers : The("bootstrap") \in Above[Config(w)]
  /\ Server(First) \in Above[The("bootstrap")]
  /\ The("api-network") \in Above[The("api-targets")]
<1>1. ASSUME NEW n \in Nodes
      PROVE  /\ <<Server(n), The("firewall")>> \in NewCluster
             /\ <<Server(n), The("subnet")>> \in NewCluster
             /\ <<Config(n), Server(n)>> \in NewCluster
  BY DEF NewCluster, newServer, NewControlPlane, NewWorkerPool, Pairs, Nodes
<1>2. ASSUME NEW w \in Workers PROVE <<Config(w), The("bootstrap")>> \in NewCluster
  BY DEF NewCluster, NewWorkerPool, Pairs
<1>3. First \in Nodes /\ <<The("bootstrap"), Config(First)>> \in NewCluster
  BY ResourcesAssumption DEF NewCluster, NewControlPlane, Pairs, Nodes
<1>4. <<The("api-targets"), The("api-network")>> \in NewCluster
  BY DEF NewCluster, apiEndpointAddress
<1>5. Workers \subseteq Nodes
  BY DEF Nodes
<1>6. Server(First) \in Above[The("bootstrap")]
  BY <1>1, <1>3, ResourcesAre, IndirectlyAbove
<1> QED
  BY <1>1, <1>2, <1>4, <1>5, <1>6, ResourcesAre, DirectlyAbove

----------------------------------------------------------------------------
(* The invariant.                                                           *)

\* Where a control-plane node is reached, whatever its type.
Address(t, n) == IF PublicIPv4Enabled(t) THEN PrimaryIp(n) ELSE PrivateIp(n)

\* The plan of a run is an accepted file.
PlanInv ==
    /\ plan \in Accepted
    /\ outcome # "running" => todo = {}

\* What a run of apply has still to make or to remove is in its list, and what
\* it keeps is in nobody's way.
ComingInv ==
    Running /\ task = "apply" =>
        /\ \A r \in Registered(plan) : r \in stack \/ <<"create", r>> \in todo
        /\ \A r \in stack : r \in Registered(plan) \/ <<"remove", r>> \in todo
        /\ \A r \in Resources :
              /\ <<"create", r>> \in todo => r \in Registered(plan)
              /\ <<"remove", r>> \in todo => r \notin Registered(plan)
              /\ <<"update", r>> \in todo => \E n \in NodesOf(plan) : r = Config(n)

\* A teardown only removes, and in the end everything but what it excludes.
LeavingInv ==
    Running /\ task # "apply" =>
        /\ \A r \in Resources : {<<"create", r>>, <<"delete", r>>, <<"update", r>>} \cap todo = {}
        /\ \A r \in stack : r = The("secrets") \/ <<"remove", r>> \in todo
        /\ published = {}
        /\ task # "secrets:destroy" => <<"remove", The("secrets")>> \notin todo

\* What is deleted is a server, and it and what goes with it come again.
DeletesInv ==
    \A r \in Resources : <<"delete", r>> \in todo =>
        /\ \E n \in Nodes : r = Server(n)
        /\ <<"create", r>> \in todo
        /\ \A q \in ReplacedWith({r}) \cap Registered(plan) : <<"create", q>> \in todo

\* A server that stands has a machine and what it was made after, and only
\* one that stands is configured.
StandInv ==
    \A n \in Nodes :
        /\ Server(n) \in stack => /\ {The("firewall"), The("subnet")} \subseteq stack
                                   /\ machine[n] # NoType
        /\ config[n] # Unset => Server(n) \in stack

\* Where the bootstrap is recorded there is a first server, with the etcd it
\* began.
EtcdInv ==
    /\ disk[First] # "stale"
    /\ dropsFirst /\ The("bootstrap") \in stack => Server(First) \in stack /\ disk[First] = "data"

\* What a machine has was the last that was sent to it, and one whose
\* configuration is in the state has one.
InputsInv ==
    \A n \in Nodes : /\ config[n] # Unset => config[n] = inputs[n]
                     /\ dropsFirst /\ Config(n) \in stack => config[n] # Unset

\* A node was sent the configuration of the plan, or will be.
ConfiguredInv ==
    /\ Running /\ task = "apply" =>
          \A n \in NodesOf(plan) : \/ inputs[n] = ConfigOf(plan, n)
                                  \/ <<"create", Config(n)>> \in todo
                                  \/ <<"update", Config(n)>> \in todo
    /\ task = "apply" /\ outcome = "ok" =>
          /\ Registered(plan) \subseteq stack
          /\ \A n \in NodesOf(plan) : inputs[n] = ConfigOf(plan, n)

\* What is published are addresses of the cluster that stands.
AddressInv ==
    /\ \A p \in published : /\ p[1] \in ControlPlanes /\ p[2] = Address(plan, p[1])
                            /\ The("firewall") \in stack
    /\ \A n \in ControlPlanes :
          config[n] # Unset => Address(plan, n) \in config[n].node.certSANs

ApplyInv ==
    /\ TypeOK /\ PlanInv /\ ComingInv /\ LeavingInv /\ DeletesInv /\ StandInv
    /\ EtcdInv /\ ConfiguredInv /\ InputsInv /\ AddressInv /\ vain = {}

\* What of a file the steps rely on.
LEMMA PlanFacts ==
  ASSUME NEW t \in Accepted
  PROVE  /\ t \in Plans
         /\ First \in NodesOf(t)
         /\ \A n \in NodesOf(t) : TypeOf(t, n) \in Types
         /\ \A n \in NodesOf(t) \cap ControlPlanes : n \in t.controlPlanes
         /\ \A n \in ControlPlanes : \A type : NodeAddress(t, n, type) = Address(t, n)
<1>1. t \in Plans
  BY DEF Accepted
<1>2. First \in NodesOf(t)
  BY AcceptedNodes DEF NodesOf
<1>3. \A n \in NodesOf(t) : TypeOf(t, n) \in Types
  BY <1>1 DEF Types
<1>4. \A n \in NodesOf(t) \cap ControlPlanes : n \in t.controlPlanes
  BY AcceptedNodes, ResourcesAssumption DEF NodesOf
<1>5. \A n \in ControlPlanes : \A type : NodeAddress(t, n, type) = Address(t, n)
  BY DEF NodeAddress, Address, StableAddress
<1> QED
  BY <1>1, <1>2, <1>3, <1>4, <1>5

LEMMA SomeTypes ==
  /\ NoType \in Types
  /\ NoType \notin DOMAIN Offered
  /\ MaxRuns \in Nat /\ MaxFaults \in Nat
  /\ First \in Nodes
  /\ First \in ControlPlanes
  /\ ControlPlanes \subseteq Nodes
<1>1. NoType \in Types
  BY DEF Types
<1>2. NoType \notin DOMAIN Offered
  BY ApplyAssumption, Zenon
<1>4. MaxRuns \in Nat /\ MaxFaults \in Nat
  BY ApplyAssumption, Zenon
<1>3. First \in ControlPlanes /\ ControlPlanes \subseteq Nodes
  BY ResourcesAssumption DEF Nodes
<1> QED
  BY <1>1, <1>2, <1>3, <1>4

\* The address a control-plane node is reached at is in its certificate.
LEMMA NamesItsAddress ==
  ASSUME NEW t \in Accepted, NEW n \in NodesOf(t) \cap ControlPlanes
  PROVE  Address(t, n) \in ConfigOf(t, n).node.certSANs
<1>1. n \in t.controlPlanes /\ AddressIn(t, n) = Address(t, n)
  BY PlanFacts DEF AddressIn
<1>2. ConfigOf(t, n).node = BuildNodePatch(<<Address(t, n), PrivateIp(n), Endpoint(t)>>, <<>>)
  BY <1>1 DEF ConfigOf, controlPlaneConfig
<1>3. Address(t, n) # Unset
  BY UnsetAssumption DEF Address
<1> DEFINE v == <<Address(t, n), PrivateIp(n), Endpoint(t)>>
<1>4. 1 \in DOMAIN v /\ v[1] = Address(t, n)
  OBVIOUS
<1>5. Address(t, n) \in dedupe(v)
  BY <1>3, <1>4 DEF dedupe
<1> QED
  BY <1>2, <1>5 DEF BuildNodePatch

LEMMA InitApply == Init => ApplyInv
<1> SUFFICES ASSUME Init PROVE ApplyInv
  OBVIOUS
<1>1. plan \in Accepted /\ task = "none" /\ outcome = "ok" /\ todo = {} /\ vain = {}
  BY DEF Init
<1>2. CASE /\ stack = {} /\ machine = [n \in Nodes |-> NoType]
           /\ config = [n \in Nodes |-> Unset] /\ inputs = config
           /\ disk = [n \in ControlPlanes |-> "empty"] /\ peers = {} /\ published = {}
  <2>1. TypeOK
    BY <1>1, <1>2, PlanFacts, SomeTypes, ApplyAssumption DEF Init, TypeOK
  <2>2. PlanInv /\ ComingInv /\ LeavingInv /\ DeletesInv
    BY <1>1 DEF PlanInv, ComingInv, LeavingInv, DeletesInv, Running
  <2>3. StandInv /\ AddressInv /\ EtcdInv /\ ConfiguredInv /\ InputsInv
    BY <1>1, <1>2, SomeTypes DEF StandInv, AddressInv, EtcdInv, ConfiguredInv, InputsInv, Running
  <2> QED
    BY <1>1, <2>1, <2>2, <2>3 DEF ApplyInv
<1>3. CASE /\ Creatable(plan)
           /\ stack = Registered(plan)
           /\ machine = [n \in Nodes |-> IF n \in NodesOf(plan) THEN TypeOf(plan, n) ELSE NoType]
           /\ config = [n \in Nodes |-> IF n \in NodesOf(plan) THEN ConfigOf(plan, n) ELSE Unset]
           /\ inputs = config
           /\ disk = [n \in ControlPlanes |-> IF n \in plan.controlPlanes THEN "data" ELSE "empty"]
           /\ peers = plan.controlPlanes
           /\ published = Exported(plan)
  <2>1. /\ \A n \in NodesOf(plan) : TypeOf(plan, n) # NoType /\ TypeOf(plan, n) \in Types
        /\ NodesOf(plan) \subseteq Nodes
        /\ plan.controlPlanes \subseteq ControlPlanes
        /\ plan.controlPlanes \subseteq NodesOf(plan)
        /\ First \in plan.controlPlanes
    BY <1>1, <1>3, SomeTypes, PlanFacts, AcceptedNodes, RegisteredAlways, RegisteredNodes DEF Creatable, NodesOf
  <2>2. TypeOK
    BY <1>1, <1>3, <2>1, PlanFacts, SomeTypes, RegisteredAlways, RegisteredNodes, ApplyAssumption DEF Init, TypeOK
  <2>3. PlanInv /\ ComingInv /\ LeavingInv /\ DeletesInv
    BY <1>1 DEF PlanInv, ComingInv, LeavingInv, DeletesInv, Running
  <2>4. StandInv
    <3>1. The("firewall") \in stack /\ The("subnet") \in stack
      BY <1>1, <1>3, RegisteredAlways, RegisteredNodes
    <3>2. ASSUME NEW n \in Nodes PROVE Server(n) \in stack <=> n \in NodesOf(plan)
      <4>1. stack = Registered(plan)
        BY <1>3
      <4> QED
        BY <4>1, RegisteredNodes
    <3> QED
      BY <1>3, <2>1, <3>1, <3>2 DEF StandInv
  <2>5. EtcdInv /\ ConfiguredInv
    BY <1>1, <1>3, <2>1, SomeTypes, RegisteredAlways, RegisteredNodes DEF EtcdInv, ConfiguredInv, Running
  <2>7. InputsInv
    <3>1. ASSUME NEW n \in Nodes, Config(n) \in stack PROVE config[n] # Unset
      <4>1. stack = Registered(plan)
        BY <1>3
      <4>2. n \in NodesOf(plan)
        BY <1>1, <3>1, <4>1, RegisteredNodes
      <4>3. ConfigOf(plan, n) # Unset
        BY <1>1, <4>2, UnsetAssumption
      <4> QED
        BY <1>3, <4>2, <4>3
    <3> QED
      BY <1>3, <3>1 DEF InputsInv
  <2>6. AddressInv
    <3>1. ASSUME NEW p \in published
          PROVE  p[1] \in ControlPlanes /\ p[2] = Address(plan, p[1])
      BY <1>1, <1>3, <2>1, PlanFacts DEF Exported, ClientKubeconfig, talosconfigFor, AddressIn
    <3>2. The("firewall") \in stack
      BY <1>1, <1>3, RegisteredAlways, RegisteredNodes
    <3>3. ASSUME NEW n \in ControlPlanes, config[n] # Unset
          PROVE  Address(plan, n) \in config[n].node.certSANs
      BY <1>1, <1>3, <3>3, SomeTypes, NamesItsAddress
    <3> QED
      BY <3>1, <3>2, <3>3 DEF AddressInv
  <2> QED
    BY <1>1, <2>2, <2>3, <2>4, <2>5, <2>6, <2>7 DEF ApplyInv
<1> QED
  BY <1>2, <1>3 DEF Init

----------------------------------------------------------------------------
(* The start of a run.                                                      *)

\* What the preview plans, by kind of step.
LEMMA PlannedIs ==
  ASSUME NEW t, NEW r
  PROVE  LET again == Replaced(t) \cup ReplacedWith(Replaced(t)) IN
         /\ <<"delete", r>> \in Planned(t) <=> r \in Replaced(t)
         /\ <<"create", r>> \in Planned(t) <=>
               r \in Registered(t) /\ (r \in again \/ (r \in Resources /\ r \notin stack))
         /\ <<"update", r>> \in Planned(t) <=> r \in Updated(t) /\ r \notin again
         /\ <<"remove", r>> \in Planned(t) <=> r \in stack /\ r \notin Registered(t)
  BY DEF Planned, Steps

LEMMA ReplacedAre ==
  ASSUME NEW t, NEW r \in Replaced(t)
  PROVE  /\ r \in stack /\ r \in Registered(t)
         /\ \E n \in Nodes : r = Server(n)
         /\ ReplacedWith({r}) \subseteq ReplacedWith(Replaced(t))
  BY DEF Replaced, ServerNodes, ReplacedWith

LEMMA UpdatedAre ==
  ASSUME NEW t \in Accepted, NEW r \in Updated(t)
  PROVE  /\ r \in stack
         /\ \E n \in NodesOf(t) : r = Config(n)
  BY DEF Updated

LEMMA PlannedTyped ==
  ASSUME NEW t \in Accepted, stack \subseteq Resources
  PROVE  Planned(t) \subseteq {"delete", "create", "update", "remove"} \X Resources
<1>1. Registered(t) \subseteq Resources
  BY RegisteredAlways
<1>2. Replaced(t) \subseteq Resources /\ Updated(t) \subseteq Resources
  BY ReplacedAre, UpdatedAre
<1> QED
  BY <1>1, <1>2 DEF Planned, Steps

LEMMA CountsRuns ==
  ASSUME TypeOK, runs < MaxRuns
  PROVE  runs + 1 \in 0..MaxRuns
  BY SomeTypes DEF TypeOK

LEMMA ApplyRefusedKeeps ==
  ASSUME ApplyInv, ApplyRefused
  PROVE  ApplyInv'
<1>1. TypeOK'
  <2>1. runs' \in 0..MaxRuns
    BY SomeTypes, CountsRuns DEF ApplyInv, ApplyRefused, Idle
  <2> QED
    BY <2>1 DEF ApplyInv, ApplyRefused, Idle, TypeOK, world, state
<1>2. PlanInv' /\ ComingInv' /\ LeavingInv' /\ DeletesInv'
  BY DEF ApplyInv, ApplyRefused, PlanInv, ComingInv, LeavingInv, DeletesInv, Running
<1>3. StandInv' /\ EtcdInv' /\ InputsInv' /\ AddressInv' /\ vain' = {}
  BY DEF ApplyInv, ApplyRefused, StandInv, EtcdInv, InputsInv, AddressInv, world, state
<1>4. ConfiguredInv'
  BY DEF ApplyInv, ApplyRefused, ConfiguredInv, Running
<1> QED
  BY <1>1, <1>2, <1>3, <1>4 DEF ApplyInv

\* Applying keeps the addressing of the cluster there is.
LEMMA ApplyAddresses ==
  ASSUME ApplyInv, NEW t \in Accepted, Editable(t), plan' = t, UNCHANGED <<state, world, published>>
  PROVE  AddressInv'
<1>1. AddressInv /\ StandInv
  BY DEF ApplyInv
<1>2. stack # {} => \A n : Address(t, n) = Address(plan, n)
  BY DEF Editable, Address
<1>3. ASSUME NEW n \in ControlPlanes, config[n] # Unset PROVE stack # {}
  BY <1>1, <1>3, SomeTypes DEF StandInv
<1> QED
  BY <1>1, <1>2, <1>3 DEF AddressInv, world, state

LEMMA ApplyKeeps ==
  ASSUME ApplyInv, NEW t \in Accepted, NEW readable, NEW force, NEW found \in BOOLEAN,
         Apply(t, readable, force, found)
  PROVE  ApplyInv'
<1>1. /\ TypeOK /\ PlanInv /\ StandInv /\ EtcdInv /\ InputsInv /\ vain = {}
      /\ Idle /\ Editable(t) /\ task' = "apply" /\ plan' = t
      /\ UNCHANGED <<state, world, published, vain, dropsFirst, faults>>
      /\ image' = found /\ runs' = runs + 1
  BY DEF ApplyInv, Apply
<1>2. \/ outcome' = "running" /\ todo' = Planned(t)
      \/ outcome' = "refused" /\ todo' = {}
  BY DEF Apply
<1>3. stack \subseteq Resources
  BY <1>1 DEF TypeOK
<1>4. TypeOK'
  <2>1. runs' \in 0..MaxRuns
    BY <1>1, CountsRuns DEF Idle
  <2>2. todo' \subseteq {"delete", "create", "update", "remove"} \X Resources
    BY <1>2, <1>3, PlannedTyped
  <2>3. plan' \in Plans
    BY <1>1, PlanFacts
  <2> QED
    BY <1>1, <1>2, <2>1, <2>2, <2>3 DEF TypeOK, world, state
<1>5. PlanInv'
  BY <1>1, <1>2 DEF PlanInv
<1>6. StandInv' /\ EtcdInv' /\ InputsInv' /\ vain' = {}
  BY <1>1 DEF StandInv, EtcdInv, InputsInv, world, state
<1>7. AddressInv'
  BY <1>1, ApplyAddresses
<1>8. LeavingInv'
  BY <1>1 DEF LeavingInv
<1>9. CASE outcome' = "refused" /\ todo' = {}
  <2>1. ComingInv' /\ DeletesInv' /\ ConfiguredInv'
    BY <1>1, <1>9 DEF ComingInv, DeletesInv, ConfiguredInv, Running
  <2> QED
    BY <1>4, <1>5, <1>6, <1>7, <1>8, <2>1 DEF ApplyInv
<1>10. CASE outcome' = "running" /\ todo' = Planned(t)
  <2>1. ComingInv'
    <3>1. ASSUME NEW r \in Registered(t) PROVE r \in stack \/ <<"create", r>> \in Planned(t)
      BY PlannedIs, RegisteredAlways
    <3>3. ASSUME NEW r \in stack PROVE r \in Registered(t) \/ <<"remove", r>> \in Planned(t)
      BY PlannedIs
    <3>2. ASSUME NEW r \in Resources
          PROVE  /\ <<"create", r>> \in Planned(t) => r \in Registered(t)
                 /\ <<"remove", r>> \in Planned(t) => r \notin Registered(t)
                 /\ <<"update", r>> \in Planned(t) => \E n \in NodesOf(t) : r = Config(n)
      BY PlannedIs, UpdatedAre
    <3> QED
      BY <1>1, <1>10, <3>1, <3>2, <3>3 DEF ComingInv, state
  <2>2. DeletesInv'
    <3>1. ASSUME NEW r \in Resources, <<"delete", r>> \in Planned(t)
          PROVE  /\ \E n \in Nodes : r = Server(n)
                 /\ <<"create", r>> \in Planned(t)
                 /\ \A q \in ReplacedWith({r}) \cap Registered(t) : <<"create", q>> \in Planned(t)
      BY <3>1, PlannedIs, ReplacedAre
    <3> QED
      BY <1>1, <1>10, <3>1 DEF DeletesInv
  <2>3. ConfiguredInv'
    <3>1. ASSUME NEW n \in NodesOf(t)
          PROVE  \/ inputs[n] = ConfigOf(t, n)
                 \/ <<"create", Config(n)>> \in Planned(t)
                 \/ <<"update", Config(n)>> \in Planned(t)
      <4>1. Config(n) \in Registered(t) /\ n \in Nodes /\ Config(n) \in Resources
        BY RegisteredNodes, RegisteredAlways
      <4>2. CASE Config(n) \in ReplacedWith(Replaced(t)) \/ Config(n) \notin stack
        BY <4>1, <4>2, PlannedIs
      <4>3. CASE /\ Config(n) \notin ReplacedWith(Replaced(t)) /\ Config(n) \in stack
                 /\ inputs[n] # ConfigOf(t, n)
        <5>1. Server(n) \notin Replaced(t)
          BY <4>1, <4>3 DEF ReplacedWith
        <5>2. Config(n) \in Updated(t)
          BY <4>3, <5>1 DEF Updated
        <5>3. Config(n) \notin Replaced(t)
          BY Distinct DEF Replaced
        <5> QED
          BY <4>3, <5>2, <5>3, PlannedIs
      <4> QED
        BY <4>2, <4>3
    <3> QED
      BY <1>1, <1>10, <3>1 DEF ConfiguredInv, world, state, ConfigOf
  <2> QED
    BY <1>4, <1>5, <1>6, <1>7, <1>8, <2>1, <2>2, <2>3 DEF ApplyInv
<1> QED
  BY <1>2, <1>9, <1>10

\* Both teardowns start the same way, with one exclusion between them.
LEMMA TeardownKeeps ==
  ASSUME ApplyInv, Idle, task' \in {"destroy", "secrets:destroy"}, runs' = runs + 1,
         \/ outcome' = "running" /\ todo' = Steps("remove", stack \ {The("secrets")})
         \/ outcome' = "running" /\ todo' = Steps("remove", stack) /\ task' = "secrets:destroy"
         \/ outcome' = "refused" /\ todo' = {},
         published' = {}, UNCHANGED <<plan, image, state, world, vain, dropsFirst, faults>>
  PROVE  ApplyInv'
<1>1. TypeOK /\ PlanInv /\ StandInv /\ EtcdInv /\ InputsInv /\ AddressInv /\ vain = {}
  BY DEF ApplyInv
<1>2. todo' \subseteq {"remove"} \X stack
  BY DEF Steps
<1>3. TypeOK'
  <2>1. runs' \in 0..MaxRuns
    BY <1>1, CountsRuns DEF Idle
  <2>2. todo' \subseteq {"delete", "create", "update", "remove"} \X Resources
    BY <1>1, <1>2 DEF TypeOK
  <2> QED
    BY <1>1, <2>1, <2>2 DEF TypeOK, world, state, Steps
<1>4. PlanInv' /\ ComingInv'
  BY <1>1 DEF PlanInv, ComingInv
<1>5. LeavingInv' /\ DeletesInv'
  BY <1>2 DEF LeavingInv, DeletesInv, Running, Steps, state
<1>6. StandInv' /\ EtcdInv' /\ ConfiguredInv' /\ InputsInv' /\ AddressInv' /\ vain' = {}
  BY <1>1 DEF StandInv, EtcdInv, ConfiguredInv, InputsInv, AddressInv, world, state
<1> QED
  BY <1>3, <1>4, <1>5, <1>6 DEF ApplyInv

LEMMA DestroyKeeps ==
  ASSUME ApplyInv, Destroy \/ SecretsDestroy
  PROVE  ApplyInv'
  BY TeardownKeeps DEF Destroy, SecretsDestroy

----------------------------------------------------------------------------
(* The steps of a run.                                                      *)

\* A step is of a kind, of a resource there is.
LEMMA TodoTyped ==
  ASSUME TypeOK, NEW kind, NEW r, <<kind, r>> \in todo
  PROVE  kind \in {"delete", "create", "update", "remove"} /\ r \in Resources
  BY DEF TypeOK

\* What changes is changed by an apply, after everything it waits for.
LEMMA AfterItsChain ==
  ASSUME ApplyInv, Running, NEW kind \in {"create", "delete", "update"}, NEW r,
         <<kind, r>> \in todo, Above[r] \cap Changing = {}
  PROVE  /\ task = "apply" /\ r \in Resources
         /\ \A q \in Above[r] \cap Registered(plan) : q \in stack
         /\ \A q \in Above[r] \cap Resources : <<"delete", q>> \notin todo
<1>1. r \in Resources
  BY TodoTyped DEF ApplyInv
<1>2. task = "apply"
  BY <1>1 DEF ApplyInv, LeavingInv
<1>3. ASSUME NEW q \in Above[r] \cap Resources
      PROVE  <<"create", q>> \notin todo /\ <<"delete", q>> \notin todo
  BY DEF Changing
<1>4. Registered(plan) \subseteq Resources
  BY RegisteredAlways DEF ApplyInv, PlanInv
<1>5. ASSUME NEW q \in Above[r] \cap Registered(plan) PROVE q \in stack
  BY <1>2, <1>3, <1>4 DEF ApplyInv, ComingInv
<1> QED
  BY <1>1, <1>2, <1>3, <1>5

LEMMA CreateFacts ==
  ASSUME ApplyInv, NEW r, MayCreate(r)
  PROVE  /\ Running /\ task = "apply" /\ r \in Registered(plan) /\ r \in Resources
         /\ <<"create", r>> \in todo /\ <<"delete", r>> \notin todo
         /\ \A q \in Above[r] \cap Registered(plan) : q \in stack
         /\ \A q \in Above[r] \cap Resources : <<"delete", q>> \notin todo
<1>1. /\ Running /\ <<"create", r>> \in todo /\ <<"delete", r>> \notin todo
      /\ Above[r] \cap Changing = {}
  BY DEF MayCreate
<1>2. /\ task = "apply" /\ r \in Resources
      /\ \A q \in Above[r] \cap Registered(plan) : q \in stack
      /\ \A q \in Above[r] \cap Resources : <<"delete", q>> \notin todo
  BY <1>1, AfterItsChain
<1>3. r \in Registered(plan)
  BY <1>1, <1>2 DEF ApplyInv, ComingInv
<1> QED
  BY <1>1, <1>2, <1>3

\* What a create leaves of the lists, whatever it made.
LEMMA CreatedKeeps ==
  ASSUME ApplyInv, NEW r, MayCreate(r), Done("create", r), stack' = stack \cup {r}, SameRun,
         UNCHANGED <<outcome, published>>
  PROVE  PlanInv' /\ ComingInv' /\ LeavingInv' /\ DeletesInv'
<1>1. /\ Running /\ task = "apply" /\ r \in Registered(plan) /\ r \in Resources
      /\ <<"create", r>> \in todo /\ <<"delete", r>> \notin todo
      /\ \A q \in Above[r] \cap Resources : <<"delete", q>> \notin todo
  BY CreateFacts
<1>2. /\ task' = task /\ plan' = plan /\ outcome' = outcome /\ todo' = todo \ {<<"create", r>>}
  BY DEF SameRun, Done
<1>3. PlanInv' /\ ComingInv' /\ LeavingInv'
  BY <1>1, <1>2 DEF ApplyInv, PlanInv, ComingInv, LeavingInv, Running
<1>4. DeletesInv'
  <2> SUFFICES ASSUME NEW q \in Resources, <<"delete", q>> \in todo'
               PROVE  /\ \E n \in Nodes : q = Server(n)
                      /\ <<"create", q>> \in todo'
                      /\ \A p \in ReplacedWith({q}) \cap Registered(plan)' : <<"create", p>> \in todo'
    BY DEF DeletesInv
  <2>1. <<"delete", q>> \in todo /\ q # r
    BY <1>1, <1>2
  <2>2. /\ \E n \in Nodes : q = Server(n)
        /\ <<"create", q>> \in todo
        /\ \A p \in ReplacedWith({q}) \cap Registered(plan) : <<"create", p>> \in todo
    BY <2>1 DEF ApplyInv, DeletesInv
  <2>3. r \notin ReplacedWith({q})
    <3>1. \A n \in Nodes : r = Config(n) => Server(n) \in Above[r] /\ Server(n) \in Resources
      BY Chain, ResourcesAre
    <3>2. r = The("bootstrap") => Server(First) \in Above[r] /\ Server(First) \in Resources
      BY Chain, ResourcesAre, SomeTypes
    <3> QED
      BY <1>1, <2>1, <3>1, <3>2 DEF ReplacedWith
  <2>4. Registered(plan)' = Registered(plan)
    BY <1>2
  <2> QED
    BY <1>2, <2>1, <2>2, <2>3, <2>4
<1> QED
  BY <1>3, <1>4

\* A run that stops forgets its list and keeps what it did.
LEMMA StopKeeps ==
  ASSUME ApplyInv, Running, Stop, UNCHANGED state
  PROVE  PlanInv' /\ ComingInv' /\ LeavingInv' /\ DeletesInv' /\ ConfiguredInv'
  BY DEF ApplyInv, Stop, SameRun, PlanInv, ComingInv, LeavingInv, DeletesInv, ConfiguredInv, Running

\* What a step does not touch stays typed.
LEMMA StoppedTyped ==
  ASSUME ApplyInv, Running, Stop, UNCHANGED <<state, world>>, vain' = {}, faults' \in 0..MaxFaults
  PROVE  TypeOK'
  BY DEF ApplyInv, Stop, SameRun, TypeOK, world, state

LEMMA StandingKeeps ==
  ASSUME ApplyInv, UNCHANGED <<state, world, published, plan, dropsFirst>>
  PROVE  StandInv' /\ EtcdInv' /\ InputsInv' /\ AddressInv'
  BY DEF ApplyInv, StandInv, EtcdInv, InputsInv, AddressInv, world, state, Address

\* What the subnet carries finds it there.
LEMMA SubnetFirst ==
  ASSUME ApplyInv, NEW n \in Nodes, MayCreate(Server(n))
  PROVE  The("subnet") \in stack /\ The("firewall") \in stack
  BY CreateFacts, Chain, RegisteredAlways DEF ApplyInv, PlanInv

LEMMA ServerRefusedKeeps ==
  ASSUME ApplyInv, NEW n \in Nodes, ServerRefused(n)
  PROVE  ApplyInv'
<1>1. /\ Running /\ Stop /\ MayCreate(Server(n)) /\ UNCHANGED <<state, world, published, faults>>
      /\ vain' = vain \cup (IF The("subnet") \in stack THEN {} ELSE {Server(n)})
  BY DEF ServerRefused, MayCreate
<1>2. vain' = {}
  BY <1>1, SubnetFirst DEF ApplyInv
<1>3. TypeOK'
  BY <1>1, <1>2, StoppedTyped DEF ApplyInv, TypeOK
<1> QED
  BY <1>1, <1>2, <1>3, StopKeeps, StandingKeeps DEF ApplyInv, Stop, SameRun

LEMMA BootstrapRefusedKeeps ==
  ASSUME ApplyInv, BootstrapRefused
  PROVE  ApplyInv'
<1>1. /\ Running /\ Stop /\ UNCHANGED <<state, world, published, vain, faults>>
  BY DEF BootstrapRefused, MayCreate
<1>2. TypeOK'
  BY <1>1, StoppedTyped DEF ApplyInv, TypeOK
<1> QED
  BY <1>1, <1>2, StopKeeps, StandingKeeps DEF ApplyInv, Stop, SameRun

LEMMA FaultKeeps ==
  ASSUME ApplyInv, Fault
  PROVE  ApplyInv'
<1>1. /\ Running /\ Stop /\ UNCHANGED <<state, world, published, vain>>
      /\ faults' = faults \/ (faults < MaxFaults /\ faults' = faults + 1)
  BY DEF Fault
<1>2. faults' \in 0..MaxFaults
  BY <1>1, SomeTypes DEF ApplyInv, TypeOK
<1>3. TypeOK'
  BY <1>1, <1>2, StoppedTyped DEF ApplyInv, TypeOK
<1> QED
  BY <1>1, <1>3, StopKeeps, StandingKeeps DEF ApplyInv, Stop, SameRun

LEMMA KilledCreatingKeeps ==
  ASSUME ApplyInv, NEW n \in Nodes, KilledCreating(n)
  PROVE  ApplyInv'
<1>1. /\ Running /\ Stop /\ MayCreate(Server(n)) /\ ServerAccepted(n) /\ NewMachine(n)
      /\ UNCHANGED <<state, published, vain>> /\ faults < MaxFaults /\ faults' = faults + 1
  BY DEF KilledCreating, MayCreate
<1>2. n \in NodesOf(plan)
  BY <1>1, CreateFacts, RegisteredNodes
<1>3. TypeOf(plan, n) \in Types /\ TypeOf(plan, n) # NoType
  BY <1>1, <1>2, PlanFacts, SomeTypes DEF ServerAccepted, ApplyInv, PlanInv
<1>4. faults' \in 0..MaxFaults
  BY <1>1, SomeTypes DEF ApplyInv, TypeOK
<1>5. TypeOK'
  BY <1>1, <1>3, <1>4 DEF ApplyInv, TypeOK, Stop, SameRun, NewMachine, state
<1>6. StandInv' /\ EtcdInv' /\ InputsInv' /\ AddressInv' /\ vain' = {}
  BY <1>1, <1>3 DEF ApplyInv, TypeOK, StandInv, EtcdInv, InputsInv, AddressInv, Stop, SameRun,
              NewMachine, Address, state
<1> QED
  BY <1>1, <1>5, <1>6, StopKeeps DEF ApplyInv

LEMMA CreateServerKeeps ==
  ASSUME ApplyInv, NEW n \in Nodes, CreateServer(n)
  PROVE  ApplyInv'
<1>1. /\ Running /\ MayCreate(Server(n)) /\ ServerAccepted(n) /\ NewMachine(n)
      /\ Done("create", Server(n)) /\ stack' = stack \cup {Server(n)} /\ SameRun
      /\ vain' = vain \cup ({Server(n)} \cap Impossible(plan))
      /\ UNCHANGED <<outcome, inputs, published, faults>>
  BY DEF CreateServer, MayCreate
<1>2. /\ task = "apply" /\ Server(n) \in Registered(plan) /\ Server(n) \in Resources
      /\ plan \in Accepted /\ n \in NodesOf(plan)
  BY <1>1, CreateFacts, RegisteredNodes DEF ApplyInv, PlanInv
<1>3. TypeOf(plan, n) \in Types /\ TypeOf(plan, n) # NoType
  BY <1>1, <1>2, PlanFacts, SomeTypes DEF ServerAccepted
<1>4. vain' = {}
  BY <1>1, <1>2, AcceptedIsPossible DEF ApplyInv
<1>5. TypeOK'
  BY <1>1, <1>2, <1>3, <1>4 DEF ApplyInv, TypeOK, Done, SameRun, NewMachine, Running
<1>6. PlanInv' /\ ComingInv' /\ LeavingInv' /\ DeletesInv'
  BY <1>1, CreatedKeeps
<1>7. StandInv'
  BY <1>1, <1>3, SubnetFirst, Distinct DEF ApplyInv, TypeOK, StandInv, NewMachine
<1>8. EtcdInv' /\ InputsInv' /\ AddressInv'
  BY <1>1, Distinct DEF ApplyInv, EtcdInv, InputsInv, AddressInv, SameRun, NewMachine, Address
<1>9. ConfiguredInv'
  BY <1>1, Distinct DEF ApplyInv, ConfiguredInv, Running, SameRun, Done, NewMachine
<1> QED
  BY <1>4, <1>5, <1>6, <1>7, <1>8, <1>9 DEF ApplyInv

LEMMA FinishKeeps ==
  ASSUME ApplyInv, Finish
  PROVE  ApplyInv'
<1>1. /\ Running /\ todo = {} /\ outcome' = "ok" /\ SameRun
      /\ published' = (IF task = "apply" THEN Exported(plan) ELSE published)
      /\ UNCHANGED <<todo, state, world, vain, faults>>
  BY DEF Finish
<1>2. plan \in Accepted
  BY DEF ApplyInv, PlanInv
<1>3. TypeOK'
  BY <1>1 DEF ApplyInv, TypeOK, SameRun, world, state
<1>4. /\ PlanInv' /\ ComingInv' /\ LeavingInv' /\ DeletesInv' /\ StandInv' /\ EtcdInv' /\ InputsInv'
      /\ vain' = {}
  BY <1>1 DEF ApplyInv, PlanInv, ComingInv, LeavingInv, DeletesInv, StandInv, EtcdInv, InputsInv, Running,
              SameRun, world, state
<1>5. ConfiguredInv'
  BY <1>1 DEF ApplyInv, ComingInv, ConfiguredInv, SameRun, world, state, Running
<1>6. AddressInv'
  <2>1. /\ AddressInv /\ plan' = plan /\ stack' = stack /\ config' = config
        /\ \A n : Address(plan, n)' = Address(plan, n)
    BY <1>1 DEF ApplyInv, SameRun, world, state, Address
  <2>2. ASSUME task = "apply", NEW p \in Exported(plan)
        PROVE  /\ p[1] \in ControlPlanes /\ p[2] = Address(plan, p[1])
               /\ The("firewall") \in stack
    <3>1. The("firewall") \in stack
      BY <1>1, <1>2, <2>2, RegisteredAlways DEF ApplyInv, ComingInv
    <3>2. p[1] \in ControlPlanes /\ p[2] = AddressIn(plan, p[1])
      BY <1>2, AcceptedNodes DEF Exported, ClientKubeconfig, talosconfigFor
    <3> QED
      BY <1>2, <3>1, <3>2, PlanFacts DEF AddressIn
  <2> QED
    BY <1>1, <2>1, <2>2 DEF AddressInv
<1> QED
  BY <1>3, <1>4, <1>5, <1>6 DEF ApplyInv

LEMMA DeleteServerKeeps ==
  ASSUME ApplyInv, NEW n \in Nodes, DeleteServer(n)
  PROVE  ApplyInv'
<1> DEFINE S == Server(n)
           gone == {S} \cup (IF dropsFirst THEN ReplacedWith({S}) ELSE {})
<1>1. /\ Running /\ <<"delete", S>> \in todo /\ Above[S] \cap Changing = {}
      /\ todo' = todo \ {<<"delete", S>>} /\ stack' = stack \ gone
      /\ MachineGone(n) /\ SameRun /\ UNCHANGED <<outcome, inputs, published, vain, faults>>
  BY DEF DeleteServer, MayDelete, Done
<1>2. task = "apply" /\ S \in Resources
  BY <1>1, AfterItsChain
<1>3. /\ <<"create", S>> \in todo
      /\ \A q \in ReplacedWith({S}) \cap Registered(plan) : <<"create", q>> \in todo
  BY <1>1, <1>2 DEF ApplyInv, DeletesInv
<1>4. /\ The("firewall") \notin gone /\ The("subnet") \notin gone
      /\ \A m \in Nodes : m # n => Server(m) \notin gone
      /\ Config(n) \in ReplacedWith({S})
      /\ n = First => The("bootstrap") \in ReplacedWith({S})
  BY DEF ReplacedWith, Server, Config, The
<1> HIDE DEF gone
<1>5. /\ machine' = [machine EXCEPT ![n] = NoType] /\ config' = [config EXCEPT ![n] = Unset]
      /\ disk' = [m \in ControlPlanes |-> IF m = n THEN "empty" ELSE disk[m]] /\ peers' = peers
  BY <1>1 DEF MachineGone
<1>6. TypeOK'
  BY <1>1, <1>5, SomeTypes DEF ApplyInv, TypeOK, SameRun, Running
<1>7. PlanInv' /\ LeavingInv'
  BY <1>1, <1>2 DEF ApplyInv, PlanInv, LeavingInv, SameRun, Running
<1>8. ComingInv'
  <2>1. ASSUME NEW r \in Registered(plan) PROVE r \in stack' \/ <<"create", r>> \in todo'
    <3>1. r \in stack \/ <<"create", r>> \in todo
      BY <1>1, <1>2 DEF ApplyInv, ComingInv
    <3>2. r \in gone => <<"create", r>> \in todo
      BY <1>3 DEF gone
    <3> QED
      BY <1>1, <3>1, <3>2
  <2> QED
    BY <1>1, <1>2, <2>1 DEF ApplyInv, ComingInv, SameRun, Running
<1>9. DeletesInv'
  BY <1>1 DEF ApplyInv, DeletesInv, SameRun
<1>10. StandInv'
  BY <1>1, <1>4, <1>5 DEF ApplyInv, StandInv, TypeOK, gone
<1>11. EtcdInv'
  <2>1. CASE n = First
    BY <1>1, <1>4, <1>5, <2>1, SomeTypes DEF EtcdInv, SameRun, gone
  <2>2. CASE n # First
    BY <1>1, <1>4, <1>5, <2>2, SomeTypes DEF ApplyInv, EtcdInv, SameRun
  <2> QED
    BY <2>1, <2>2
<1>12. ConfiguredInv'
  <2>1. ASSUME NEW m \in NodesOf(plan)
        PROVE  \/ inputs'[m] = ConfigOf(plan, m)
               \/ <<"create", Config(m)>> \in todo'
               \/ <<"update", Config(m)>> \in todo'
    <3>1. \/ inputs[m] = ConfigOf(plan, m)
          \/ <<"create", Config(m)>> \in todo
          \/ <<"update", Config(m)>> \in todo
      BY <1>1, <1>2 DEF ApplyInv, ConfiguredInv
    <3>2. m = n => <<"create", Config(m)>> \in todo
      BY <1>3, <1>4, RegisteredNodes
    <3> QED
      BY <1>1, <1>5, <3>1, <3>2
  <2> QED
    BY <1>1, <2>1 DEF ConfiguredInv, SameRun, Running, ConfigOf
<1>13. InputsInv'
  BY <1>1, <1>4, <1>5 DEF ApplyInv, TypeOK, InputsInv, SameRun, gone
<1>14. AddressInv'
  BY <1>1, <1>4, <1>5 DEF ApplyInv, TypeOK, AddressInv, SameRun, Address
<1> QED
  BY <1>1, <1>6, <1>7, <1>8, <1>9, <1>10, <1>11, <1>12, <1>13, <1>14 DEF ApplyInv

LEMMA DeleteByHandKeeps ==
  ASSUME ApplyInv, NEW n \in Nodes, DeleteByHand(n)
  PROVE  ApplyInv'
<1>1. /\ ~Running /\ Server(n) \notin stack /\ MachineGone(n)
      /\ UNCHANGED <<engine, state, published, vain, dropsFirst, runs, faults>>
  BY DEF DeleteByHand
<1>2. /\ machine' = [machine EXCEPT ![n] = NoType] /\ config' = [config EXCEPT ![n] = Unset]
      /\ disk' = [m \in ControlPlanes |-> IF m = n THEN "empty" ELSE disk[m]] /\ peers' = peers
  BY <1>1 DEF MachineGone
<1>3. TypeOK'
  BY <1>1, <1>2, SomeTypes DEF ApplyInv, TypeOK, engine, state
<1>4. PlanInv' /\ ComingInv' /\ LeavingInv' /\ DeletesInv'
  BY <1>1 DEF ApplyInv, PlanInv, ComingInv, LeavingInv, DeletesInv, Running, engine, state
<1>5. StandInv' /\ EtcdInv' /\ AddressInv'
  BY <1>1, <1>2, SomeTypes
     DEF ApplyInv, TypeOK, StandInv, EtcdInv, AddressInv, engine, state, Address
<1>6. ConfiguredInv'
  BY <1>1, <1>2, RegisteredNodes DEF ApplyInv, ConfiguredInv, Running, engine, state
<1>7. InputsInv'
  BY <1>1, <1>2 DEF ApplyInv, TypeOK, InputsInv, StandInv, state
<1> QED
  BY <1>1, <1>3, <1>4, <1>5, <1>6, <1>7 DEF ApplyInv

LEMMA RemoveKeeps ==
  ASSUME ApplyInv, NEW r \in Resources, Remove(r)
  PROVE  ApplyInv'
<1>1. /\ Running /\ <<"remove", r>> \in todo /\ Changing = {}
      /\ \A d \in Resources : <<"remove", d>> \in todo => r \notin Above[d]
      /\ todo' = todo \ {<<"remove", r>>} /\ stack' = stack \ {r} /\ SameRun
      /\ UNCHANGED <<outcome, inputs, published, vain, faults>>
  BY DEF Remove, MayRemove, Done
<1>2. \/ \E n \in Nodes : r = Server(n) /\ MachineGone(n)
      \/ (\A n \in Nodes : r # Server(n)) /\ UNCHANGED world
  BY DEF Remove, Server
<1>3. /\ plan \in Accepted /\ stack \subseteq Resources
      /\ task = "apply" => r \notin Registered(plan)
      /\ task # "apply" => /\ published = {}
                           /\ \A d \in stack : d = The("secrets") \/ <<"remove", d>> \in todo
  BY <1>1 DEF ApplyInv, PlanInv, TypeOK, ComingInv, LeavingInv
<1>4. PlanInv' /\ ComingInv' /\ LeavingInv'
  BY <1>1 DEF ApplyInv, PlanInv, ComingInv, LeavingInv, SameRun, Running
<1>5. DeletesInv'
  BY <1>1 DEF ApplyInv, DeletesInv, SameRun
<1>6. ASSUME r = The("firewall") \/ r = The("subnet")
      PROVE  task # "apply" /\ \A n \in Nodes : Server(n) \notin stack
  <2>1. task # "apply"
    BY <1>3, <1>6, RegisteredAlways
  <2>2. \A n \in Nodes : Server(n) # The("secrets")
    BY Distinct
  <2> QED
    BY <1>1, <1>3, <1>6, <2>1, <2>2, Chain, ResourcesAre
<1>7. ASSUME r = Server(First), The("bootstrap") \in stack
      PROVE  FALSE
  <2>1. task # "apply"
    BY <1>3, <1>7, RegisteredNodes, PlanFacts
  <2>2. The("bootstrap") # The("secrets")
    BY Distinct
  <2> QED
    BY <1>1, <1>3, <1>7, <2>1, <2>2, Chain, ResourcesAre
<1>10. ASSUME NEW n \in Nodes, r = Server(n) PROVE Config(n) \notin stack
  <2> SUFFICES ASSUME Config(n) \in stack PROVE FALSE
    OBVIOUS
  <2>1. Config(n) \in Resources /\ Config(n) # The("secrets")
    BY <1>3, Distinct
  <2>2. task = "apply" => Config(n) \notin Registered(plan)
    BY <1>3, <1>10, RegisteredNodes
  <2>3. <<"remove", Config(n)>> \in todo
    BY <1>1, <1>3, <2>1, <2>2 DEF ApplyInv, ComingInv
  <2> QED
    BY <1>1, <1>10, <2>1, <2>3, Chain
<1>8. CASE \E n \in Nodes : r = Server(n) /\ MachineGone(n)
  <2>1. PICK n \in Nodes : r = Server(n) /\ MachineGone(n)
    BY <1>8
  <2>2. /\ machine' = [machine EXCEPT ![n] = NoType] /\ config' = [config EXCEPT ![n] = Unset]
        /\ disk' = [m \in ControlPlanes |-> IF m = n THEN "empty" ELSE disk[m]] /\ peers' = peers
    BY <2>1 DEF MachineGone
  <2>3. /\ r # The("firewall") /\ r # The("subnet") /\ r # The("bootstrap")
        /\ \A m \in Nodes : Server(m) = r <=> m = n
    BY <2>1, Distinct
  <2>4. TypeOK'
    BY <1>1, <2>2, SomeTypes DEF ApplyInv, TypeOK, SameRun, Running
  <2>5. StandInv'
    BY <1>1, <2>2, <2>3 DEF ApplyInv, TypeOK, StandInv
  <2>6. EtcdInv'
    BY <1>1, <1>7, <2>1, <2>2, <2>3, SomeTypes DEF ApplyInv, EtcdInv, SameRun
  <2>7. ConfiguredInv'
    BY <1>1, <1>3, <2>1, <2>2, RegisteredNodes DEF ApplyInv, ConfiguredInv, SameRun, Running, ConfigOf
  <2>8. AddressInv'
    BY <1>1, <2>2, <2>3 DEF ApplyInv, TypeOK, AddressInv, SameRun, Address
  <2>9. InputsInv'
    BY <1>1, <1>10, <2>1, <2>2 DEF ApplyInv, TypeOK, InputsInv, SameRun
  <2> QED
    BY <1>1, <1>4, <1>5, <2>4, <2>5, <2>6, <2>7, <2>8, <2>9 DEF ApplyInv
<1>9. CASE (\A n \in Nodes : r # Server(n)) /\ UNCHANGED world
  <2>1. TypeOK'
    BY <1>1, <1>9 DEF ApplyInv, TypeOK, SameRun, Running, world, state
  <2>2. StandInv'
    BY <1>1, <1>6, <1>9 DEF ApplyInv, StandInv, world, state
  <2>3. EtcdInv'
    BY <1>1, <1>9, SomeTypes DEF ApplyInv, EtcdInv, SameRun, world, state
  <2>4. ConfiguredInv'
    BY <1>1, <1>9 DEF ApplyInv, ConfiguredInv, SameRun, Running, ConfigOf, world, state
  <2>5. AddressInv'
    <3>1. r = The("firewall") => published = {}
      BY <1>3, <1>6
    <3> QED
      BY <1>1, <1>9, <3>1 DEF ApplyInv, AddressInv, SameRun, Address, world, state
  <2>6. InputsInv'
    BY <1>1, <1>9 DEF ApplyInv, InputsInv, SameRun, world
  <2> QED
    BY <1>1, <1>4, <1>5, <2>1, <2>2, <2>3, <2>4, <2>5, <2>6 DEF ApplyInv
<1> QED
  BY <1>2, <1>8, <1>9

LEMMA ConfigureKeeps ==
  ASSUME ApplyInv, NEW n \in Nodes, Configure(n)
  PROVE  ApplyInv'
<1>1. /\ Running /\ stack' = stack \cup {Config(n)} /\ SameRun
      /\ config' = [config EXCEPT ![n] = ConfigOf(plan, n)]
      /\ inputs' = [inputs EXCEPT ![n] = ConfigOf(plan, n)]
      /\ UNCHANGED <<outcome, machine, disk, peers, published, vain, faults>>
      /\ Above[Config(n)] \cap Changing = {}
      /\ \/ MayCreate(Config(n)) /\ Done("create", Config(n))
         \/ <<"update", Config(n)>> \in todo /\ Done("update", Config(n))
  BY DEF Configure, MayCreate, MayUpdate
<1>2. /\ task = "apply" /\ Config(n) \in Resources
      /\ \A q \in Above[Config(n)] \cap Registered(plan) : q \in stack
  BY <1>1, AfterItsChain DEF MayCreate
<1>3. n \in NodesOf(plan)
  <2>1. CASE MayCreate(Config(n))
    BY <2>1, CreateFacts, RegisteredNodes
  <2>2. CASE <<"update", Config(n)>> \in todo
    <3>1. PICK m \in NodesOf(plan) : Config(n) = Config(m)
      BY <1>1, <1>2, <2>2 DEF ApplyInv, ComingInv
    <3> QED
      BY <3>1, Distinct
  <2> QED
    BY <1>1, <2>1, <2>2
<1>4. Server(n) \in stack
  BY <1>2, <1>3, Chain, RegisteredNodes
<1>5. PlanInv' /\ ComingInv' /\ LeavingInv' /\ DeletesInv'
  <2>1. CASE MayCreate(Config(n)) /\ Done("create", Config(n))
    BY <1>1, <2>1, CreatedKeeps
  <2>2. CASE <<"update", Config(n)>> \in todo /\ Done("update", Config(n))
    <3>1. Config(n) \in Registered(plan)
      BY <1>3, RegisteredNodes
    <3> QED
      BY <1>1, <1>2, <2>2, <3>1
         DEF ApplyInv, PlanInv, ComingInv, LeavingInv, DeletesInv, SameRun, Done, Running
  <2> QED
    BY <1>1, <2>1, <2>2
<1>6. todo' \subseteq todo /\ \A m, kind : m # n /\ <<kind, Config(m)>> \in todo => <<kind, Config(m)>> \in todo'
  BY <1>1, Distinct DEF Done
<1>7. machine[n] # NoType
  BY <1>4 DEF ApplyInv, StandInv
<1>8. TypeOK'
  BY <1>1, <1>2, <1>6, <1>7 DEF ApplyInv, TypeOK, SameRun, Running
<1>9. StandInv' /\ EtcdInv'
  <2>1. \A r : r # Config(n) => (r \in stack' <=> r \in stack)
    BY <1>1
  <2>2. /\ \A m \in Nodes : Server(m) # Config(n)
        /\ The("firewall") # Config(n) /\ The("subnet") # Config(n) /\ The("bootstrap") # Config(n)
    BY Distinct
  <2>3. \A m \in Nodes : config'[m] # Unset => m = n \/ config[m] # Unset
    BY <1>1 DEF ApplyInv, TypeOK
  <2>4. StandInv'
    BY <1>1, <1>4, <1>7, <2>1, <2>2, <2>3 DEF ApplyInv, StandInv
  <2>5. First \in Nodes
    BY ResourcesAssumption DEF Nodes
  <2>6. EtcdInv'
    BY <1>1, <2>1, <2>2, <2>5 DEF ApplyInv, EtcdInv, SameRun
  <2> QED
    BY <2>4, <2>6
<1>10. ConfiguredInv'
  <2>1. ASSUME NEW m \in NodesOf(plan)
        PROVE  \/ inputs'[m] = ConfigOf(plan, m)
               \/ <<"create", Config(m)>> \in todo'
               \/ <<"update", Config(m)>> \in todo'
    BY <1>1, <1>2, <1>6 DEF ApplyInv, TypeOK, ConfiguredInv
  <2> QED
    BY <1>1, <2>1 DEF ConfiguredInv, SameRun, Running, ConfigOf
<1>11. AddressInv'
  <2>1. n \in ControlPlanes => Address(plan, n) \in ConfigOf(plan, n).node.certSANs
    BY <1>3, NamesItsAddress DEF ApplyInv, PlanInv
  <2> QED
    BY <1>1, <2>1 DEF ApplyInv, TypeOK, AddressInv, SameRun, Address
<1>12. InputsInv'
  <2>1. ConfigOf(plan, n) # Unset
    BY <1>3, UnsetAssumption DEF ApplyInv, PlanInv
  <2>2. \A m \in Nodes : Config(m) \in stack' => m = n \/ Config(m) \in stack
    BY <1>1, Distinct
  <2> QED
    BY <1>1, <2>1, <2>2 DEF ApplyInv, TypeOK, InputsInv, SameRun
<1> QED
  BY <1>1, <1>5, <1>8, <1>9, <1>10, <1>11, <1>12 DEF ApplyInv

LEMMA BootstrapKeeps ==
  ASSUME ApplyInv, Bootstrap
  PROVE  ApplyInv'
<1>1. /\ MayCreate(The("bootstrap")) /\ Done("create", The("bootstrap"))
      /\ stack' = stack \cup {The("bootstrap")} /\ SameRun
      /\ UNCHANGED <<outcome, inputs, machine, config, published, vain, faults>>
      /\ \/ /\ disk[First] = "empty"
            /\ disk' = [n \in ControlPlanes |->
                          IF n = First THEN "data"
                          ELSE IF disk[n] = "empty" THEN "empty" ELSE "stale"]
            /\ peers' = {First}
         \/ disk[First] # "empty" /\ UNCHANGED <<disk, peers>>
  BY DEF Bootstrap
<1>2. /\ Running /\ task = "apply" /\ The("bootstrap") \in Resources
      /\ Server(First) \in stack
  BY <1>1, CreateFacts, Chain, RegisteredNodes, PlanFacts DEF ApplyInv, PlanInv
<1>3. PlanInv' /\ ComingInv' /\ LeavingInv' /\ DeletesInv'
  BY <1>1, CreatedKeeps
<1>4. TypeOK'
  BY <1>1, <1>2, SomeTypes DEF ApplyInv, TypeOK, SameRun, Done, Running
<1>5. disk'[First] = "data"
  BY <1>1, SomeTypes DEF ApplyInv, TypeOK, EtcdInv
<1>6. EtcdInv'
  BY <1>1, <1>2, <1>5 DEF EtcdInv
<1>7. StandInv' /\ AddressInv'
  BY <1>1, Distinct DEF ApplyInv, StandInv, AddressInv, SameRun, Address
<1>8. \A n \in Nodes : Config(n) # The("bootstrap")
  BY Distinct
<1>9. InputsInv'
  BY <1>1, <1>8 DEF ApplyInv, InputsInv, SameRun
<1>10. ConfiguredInv'
  <2>1. NodesOf(plan) \subseteq Nodes
    BY <1>2, RegisteredAlways DEF ApplyInv, PlanInv
  <2>2. \A n \in Nodes : \A kind : <<kind, Config(n)>> \in todo => <<kind, Config(n)>> \in todo'
    BY <1>1, <1>8 DEF Done
  <2> QED
    BY <1>1, <1>2, <2>1, <2>2 DEF ApplyInv, ConfiguredInv, SameRun, Running, ConfigOf
<1> QED
  BY <1>1, <1>3, <1>4, <1>6, <1>7, <1>9, <1>10 DEF ApplyInv

LEMMA JoinKeeps ==
  ASSUME ApplyInv, NEW n \in ControlPlanes, Join(n)
  PROVE  ApplyInv'
<1>1. /\ disk' = [disk EXCEPT ![n] = "data"] /\ peers' = peers \cup {n}
      /\ UNCHANGED <<engine, state, machine, config, published, vain, dropsFirst, runs, faults>>
  BY DEF Join
<1>2. TypeOK' /\ EtcdInv'
  BY <1>1, SomeTypes DEF ApplyInv, TypeOK, EtcdInv, engine, state
<1>3. PlanInv' /\ ComingInv' /\ LeavingInv' /\ DeletesInv'
  BY <1>1 DEF ApplyInv, PlanInv, ComingInv, LeavingInv, DeletesInv, Running, engine, state
<1>4. StandInv' /\ AddressInv' /\ ConfiguredInv' /\ InputsInv'
  BY <1>1 DEF ApplyInv, StandInv, AddressInv, ConfiguredInv, InputsInv, Running, engine, state, Address, ConfigOf
<1> QED
  BY <1>1, <1>2, <1>3, <1>4 DEF ApplyInv

LEMMA CreatePlainKeeps ==
  ASSUME ApplyInv, NEW r \in Resources, CreatePlain(r)
  PROVE  ApplyInv'
<1>1. /\ r \in Plain /\ MayCreate(r) /\ Done("create", r) /\ stack' = stack \cup {r} /\ SameRun
      /\ vain' = vain \cup ({r} \cap (TooEarly \cup Impossible(plan)))
      /\ UNCHANGED <<outcome, inputs, world, published, faults>>
  BY DEF CreatePlain
<1>2. /\ Running /\ task = "apply" /\ r \in Registered(plan) /\ plan \in Accepted
      /\ \A q \in Above[r] \cap Registered(plan) : q \in stack
  BY <1>1, CreateFacts DEF ApplyInv, PlanInv
<1>3. \A n \in Nodes : r # Server(n) /\ r # Config(n)
  BY <1>1 DEF Plain
<1>4. r # The("bootstrap")
  BY <1>1 DEF Plain
<1>5. vain' = {}
  <2>1. r = The("api-targets") => The("api-network") \in stack
    BY <1>2, Chain, RegisteredBalancer
  <2> QED
    BY <1>1, <1>2, <2>1, AcceptedIsPossible DEF ApplyInv, TooEarly
<1>6. PlanInv' /\ ComingInv' /\ LeavingInv' /\ DeletesInv'
  BY <1>1, CreatedKeeps
<1>7. TypeOK'
  BY <1>1, <1>5 DEF ApplyInv, TypeOK, SameRun, Done, Running, world, state
<1>8. StandInv' /\ EtcdInv' /\ InputsInv' /\ AddressInv'
  BY <1>1, <1>3, <1>4, SomeTypes 
     DEF ApplyInv, StandInv, EtcdInv, InputsInv, AddressInv, SameRun, Address, world
<1>9. ConfiguredInv'
  <2>1. NodesOf(plan) \subseteq Nodes
    BY <1>2, RegisteredAlways
  <2> QED
    BY <1>1, <1>2, <1>3, <2>1 DEF ApplyInv, ConfiguredInv, SameRun, Done, Running, ConfigOf, world, state
<1> QED
  BY <1>5, <1>6, <1>7, <1>8, <1>9 DEF ApplyInv

LEMMA StepApply == ApplyInv /\ [Next]_vars => ApplyInv'
<1> SUFFICES ASSUME ApplyInv, [Next]_vars PROVE ApplyInv'
  OBVIOUS
<1>1. CASE UNCHANGED vars
  BY <1>1 DEF vars, engine, world, state, ApplyInv, TypeOK, PlanInv, ComingInv, LeavingInv, DeletesInv,
              StandInv, EtcdInv, ConfiguredInv, InputsInv, AddressInv, Running, Address, ConfigOf
<1>2. CASE Next
  <2>1. CASE \E t \in Accepted, readable, force, found \in BOOLEAN :
                 Apply(t, readable, force, found)
    BY <2>1, ApplyKeeps
  <2>2. CASE ApplyRefused \/ Destroy \/ SecretsDestroy
    BY <2>2, ApplyRefusedKeeps, DestroyKeeps
  <2>3. CASE \E n \in Nodes : \/ DeleteServer(n) \/ CreateServer(n) \/ ServerRefused(n)
                             \/ KilledCreating(n) \/ DeleteByHand(n) \/ Configure(n)
    BY <2>3, DeleteServerKeeps, CreateServerKeeps, ServerRefusedKeeps, KilledCreatingKeeps,
       DeleteByHandKeeps, ConfigureKeeps
  <2>4. CASE Bootstrap \/ BootstrapRefused \/ \E n \in ControlPlanes : Join(n)
    BY <2>4, BootstrapKeeps, BootstrapRefusedKeeps, JoinKeeps
  <2>5. CASE \E r \in Resources : CreatePlain(r) \/ Remove(r)
    BY <2>5, CreatePlainKeeps, RemoveKeeps
  <2>6. CASE Fault \/ Finish
    BY <2>6, FaultKeeps, FinishKeeps
  <2> QED
    BY <1>2, <2>1, <2>2, <2>3, <2>4, <2>5, <2>6 DEF Next
<1> QED
  BY <1>1, <1>2

\* The inductive invariant of the runs holds of every behavior.
THEOREM ApplyHolds == Spec => []ApplyInv
<1> QED
  BY InitApply, StepApply, PTL DEF Spec

----------------------------------------------------------------------------
(* What follows from it.                                                    *)

\* The state, the plan and the counters of a run are of their types.
THEOREM ApplyTypeCorrect == Spec => []TypeOK
<1>1. ApplyInv => TypeOK
  BY DEF ApplyInv
<1> QED
  BY <1>1, ApplyHolds, PTL

\* No server stands outside its perimeter, whatever a run had done when it
\* stopped (newFoundation before newControlPlane and newWorkerPools).
THEOREM PerimeterHolds == Spec => []PerimeterFirst
<1>1. ASSUME ApplyInv PROVE PerimeterFirst
  <2>1. plan \in SoundPlans
    BY <1>1, AcceptedSound DEF ApplyInv, PlanInv, SoundPlans
  <2> QED
    BY <1>1, <2>1 DEF ApplyInv, StandInv, PerimeterFirst, ServerNodes
<1> QED
  BY <1>1, ApplyHolds, PTL

\* Hetzner is asked for nothing it refuses for coming too early or cannot make.
THEOREM RequestsHold == Spec => []RequestsAreSound
<1>1. ApplyInv => RequestsAreSound
  BY DEF ApplyInv, RequestsAreSound
<1> QED
  BY <1>1, ApplyHolds, PTL

\* An apply that says it is done leaves a cluster with an etcd (the bootstrap
\* is replaced with the first server).
THEOREM SuccessHasEtcd == Spec => []DoneHasEtcd
<1>1. ASSUME ApplyInv, task = "apply", outcome = "ok", dropsFirst
      PROVE  Live # {}
  <2>1. The("bootstrap") \in stack
    BY <1>1, RegisteredAlways DEF ApplyInv, PlanInv, ConfiguredInv
  <2>2. disk[First] = "data"
    BY <1>1, <2>1 DEF ApplyInv, EtcdInv
  <2> QED
    BY <2>2, SomeTypes DEF Live
<1>2. ApplyInv => DoneHasEtcd
  BY <1>1 DEF DoneHasEtcd
<1> QED
  BY <1>2, ApplyHolds, PTL

\* An exported kubeconfig names addresses the nodes keep (newPrimaryIP).
THEOREM PublishedHolds == Spec => []PublishedReaches
<1>1. ASSUME ApplyInv, NEW p \in published
      PROVE  /\ p[2] = NodeAddress(plan, p[1], machine[p[1]])
             /\ config[p[1]] # Unset => p[2] \in config[p[1]].node.certSANs
  BY <1>1, PlanFacts DEF ApplyInv, PlanInv, AddressInv
<1>2. ApplyInv => PublishedReaches
  BY <1>1 DEF PublishedReaches
<1> QED
  BY <1>2, ApplyHolds, PTL

\* The cluster's CA leaves the state with cluster:secrets:destroy only, which
\* is the one task that does not exclude it.
THEOREM CaIsKept == Spec => CaSurvives
<1> DEFINE ca == The("secrets")
           Kept == ca \in stack \ stack' => task = "secrets:destroy"
<1>1. ASSUME ApplyInv, Next, ca \in stack, ca \notin stack'
      PROVE  task = "secrets:destroy"
  <2>1. CASE \E n \in Nodes : DeleteServer(n)
    BY <1>1, <2>1, Distinct DEF DeleteServer, ReplacedWith
  <2>2. CASE \E r \in Resources : Remove(r)
    <3>1. Running /\ <<"remove", ca>> \in todo
      BY <1>1, <2>2 DEF Remove, MayRemove
    <3>2. ca \in Resources /\ ca \in Registered(plan)
      BY <1>1, ResourcesAre, RegisteredAlways DEF ApplyInv, PlanInv
    <3> QED
      BY <1>1, <3>1, <3>2 DEF ApplyInv, TypeOK, ComingInv, LeavingInv, Running
  <2>3. CASE ~(\E n \in Nodes : DeleteServer(n)) /\ ~(\E r \in Resources : Remove(r))
    BY <1>1, <2>3
       DEF Next, ApplyRefused, Apply, Destroy, SecretsDestroy, CreateServer, ServerRefused,
           KilledCreating, DeleteByHand, Configure, Bootstrap, BootstrapRefused, Join,
           CreatePlain, Fault, Finish, state
  <2> QED
    BY <2>1, <2>2, <2>3
<1>2. ApplyInv /\ [Next]_vars => [Kept]_vars
  BY <1>1
<1> QED
  BY <1>2, ApplyHolds, PTL DEF Spec, CaSurvives

\* A worker is configured when there is an etcd to join (NewWorkerPool is given
\* the bootstrap).
THEOREM WorkersFindACluster == Spec => WorkersJoinACluster
<1> DEFINE Told == \E w \in Workers : config[w] = Unset /\ config'[w] # Unset
           Joins == dropsFirst /\ Told => Live # {}
<1>1. ASSUME ApplyInv, NEW w \in Workers, Configure(w), dropsFirst
      PROVE  Live # {}
  <2>1. /\ Running /\ Above[Config(w)] \cap Changing = {}
        /\ <<"create", Config(w)>> \in todo \/ <<"update", Config(w)>> \in todo
    BY <1>1 DEF Configure, MayCreate, MayUpdate
  <2>2. The("bootstrap") \in stack
    BY <1>1, <2>1, AfterItsChain, Chain, RegisteredAlways DEF ApplyInv, PlanInv
  <2>3. disk[First] = "data"
    BY <1>1, <2>2 DEF ApplyInv, EtcdInv
  <2> QED
    BY <2>3, SomeTypes DEF Live
<1>2. ASSUME ApplyInv, Next, NEW w \in Workers, config[w] = Unset, config'[w] # Unset
      PROVE  Configure(w)
  <2>1. DOMAIN config = Nodes /\ w \in Nodes
    BY <1>2 DEF ApplyInv, TypeOK, Nodes
  <2>2. ASSUME NEW n \in Nodes, MachineGone(n) PROVE FALSE
    BY <1>2, <2>1, <2>2 DEF MachineGone
  <2>3. ASSUME NEW n \in Nodes, Configure(n) PROVE n = w
    BY <1>2, <2>1, <2>3 DEF Configure
  <2>4. CASE \E n \in Nodes : Configure(n)
    BY <2>3, <2>4
  <2>5. CASE \E r \in Resources : Remove(r)
    BY <1>2, <2>2, <2>5 DEF Remove, Server, world, state
  <2>6. CASE \E n \in Nodes : DeleteServer(n) \/ DeleteByHand(n)
    BY <2>2, <2>6 DEF DeleteServer, DeleteByHand
  <2>7. CASE config' = config
    BY <1>2, <2>7
  <2> QED
    BY <1>2, <2>4, <2>5, <2>6, <2>7
       DEF Next, ApplyRefused, Apply, Destroy, SecretsDestroy, CreateServer, ServerRefused,
           KilledCreating, NewMachine, Bootstrap, BootstrapRefused, Join,
           CreatePlain, Fault, Finish, world, state
<1>3. ApplyInv /\ [Next]_vars => [Joins]_vars
  BY <1>1, <1>2
<1> QED
  BY <1>3, ApplyHolds, PTL DEF Spec, WorkersJoinACluster

\* The last taint of a key is the only one.
LEMMA TaintsAreKept ==
  ASSUME NEW taints, DOMAIN taints \subseteq Nat, validateTaints(taints), NEW i \in DOMAIN taints
  PROVE  NodeTaints(taints)[taints[i].key] = taints[i].effect
<1> DEFINE k == taints[i].key
           Last(l) == /\ taints[l].key = k
                      /\ \A j \in DOMAIN taints : taints[j].key = k => j <= l
<1>1. \A j \in DOMAIN taints : taints[j].key = k => j = i
  BY DEF validateTaints
<1>2. Last(i)
  BY <1>1
<1>3. (CHOOSE l \in DOMAIN taints : Last(l)) = i
  BY <1>1, <1>2
<1> QED
  BY <1>3 DEF NodeTaints

\* What a machine is told of an accepted file fits it.
LEMMA ConfigFits ==
  ASSUME plan \in Accepted, NEW n \in NodesOf(plan), config[n] = ConfigOf(plan, n)
  PROVE  FitsItsMachine(n)
<1> DEFINE c == ConfigOf(plan, n)
<1>1. /\ Validate(plan)
      /\ plan.talosVersion \in Nat \cup {Unset, Malformed}
      /\ \A i \in Pools(plan) : DOMAIN plan.workerPools[i].taints \subseteq Nat
  BY AcceptedTyped
<1>2. c.cluster = BuildClusterPatch(plan) /\ c.contract = ConfigContract(plan)
  BY DEF ConfigOf, controlPlaneConfig, workerConfig
<1>3. c.cluster.interface = PrivateNic(plan)
  BY <1>2 DEF BuildClusterPatch, PrivateInterface, PrivateNic
<1>4. c.cluster.route = [network |-> plan.podCIDR, gateway |-> FirstAddress(plan.ipRange) + 1]
  <2>1. plan.ipRange = Masked(plan.ipRange)
    BY <1>1 DEF Validate, validateNetwork, parsePrefix, Ranges
  <2> QED
    BY <1>2, <2>1 DEF BuildClusterPatch, NetworkGateway, FirstAddress
<1>5. c.cluster.allowSchedulingOnControlPlanes \/ WorkersOf(plan) # {}
  <2>1. WorkersOf(plan) = {} => TotalWorkers(plan) = 0
    BY FS_EmptySet DEF TotalWorkers
  <2>2. c.cluster.allowSchedulingOnControlPlanes = (TotalWorkers(plan) = 0)
    BY <1>2 DEF BuildClusterPatch
  <2> QED
    BY <2>1, <2>2
<1>6. n \in plan.controlPlanes => c.etcd = plan.nodeSubnet
  BY DEF ConfigOf, controlPlaneConfig, BuildEtcdPatch
<1>7. ASSUME n \in WorkersOf(plan), NEW i \in DOMAIN plan.workerPools[PoolOf(plan, n)].taints
      PROVE  LET taints == plan.workerPools[PoolOf(plan, n)].taints IN
             c.node.nodeTaints[taints[i].key] = taints[i].effect
  <2> DEFINE taints == plan.workerPools[PoolOf(plan, n)].taints
  <2>1. n \notin plan.controlPlanes
    BY <1>7, AcceptedNodes, ResourcesAssumption
  <2>2. PoolOf(plan, n) \in Pools(plan)
    BY <1>7 DEF WorkersOf, PoolOf
  <2>3. c.node.nodeTaints = NodeTaints(taints)
    BY <2>1 DEF ConfigOf, workerConfig, BuildNodePatch
  <2>4. validateTaints(taints) /\ DOMAIN taints \subseteq Nat
    BY <1>1, <2>2 DEF Validate
  <2> QED
    BY <1>7, <2>3, <2>4, TaintsAreKept
<1>8. n \in plan.controlPlanes => {"STATE", "EPHEMERAL"} \subseteq c.cluster.encrypted
  BY <1>2 DEF BuildClusterPatch, buildVolumeEncryption
<1>9. c.contract <= plan.talosVersion
  BY <1>1, <1>2
     DEF ConfigContract, setIfEmpty, Validate, validateVersions, validateConfigContract
<1> QED
  BY <1>3, <1>4, <1>5, <1>6, <1>7, <1>8, <1>9 DEF FitsItsMachine

\* Every machine is told of one endpoint, and it is an address.
LEMMA EndpointIsServed ==
  ASSUME NEW t \in Accepted, NEW n \in NodesOf(t), NEW c \in t.controlPlanes
  PROVE  ConfigOf(t, n).endpoint \in ConfigOf(t, c).node.certSANs
<1>1. ConfigOf(t, n).endpoint = Endpoint(t)
  BY DEF ConfigOf, controlPlaneConfig, workerConfig
<1>2. Endpoint(t) # Unset
  BY UnsetAssumption, PlanFacts, SomeTypes DEF Endpoint, AddressIn, Address
<1> DEFINE v == <<AddressIn(t, c), PrivateIp(c), Endpoint(t)>>
<1>3. ConfigOf(t, c).node = BuildNodePatch(v, <<>>)
  BY DEF ConfigOf, controlPlaneConfig
<1>4. 3 \in DOMAIN v /\ v[3] = Endpoint(t)
  OBVIOUS
<1>5. Endpoint(t) \in dedupe(v)
  BY <1>2, <1>4 DEF dedupe
<1> QED
  BY <1>1, <1>3, <1>5 DEF BuildNodePatch

\* After an apply that says it is done every machine has been configured, if
\* Pulumi deletes what is replaced with a server first, and every one that has
\* a configuration fits it and names an endpoint the API servers answer for.
THEOREM SuccessIsConfigured == Spec => []DoneIsConfigured
<1>1. ASSUME ApplyInv, task = "apply", outcome = "ok", NEW n \in NodesOf(plan)
      PROVE  /\ config[n] # Unset => config[n] = ConfigOf(plan, n)
             /\ dropsFirst => config[n] # Unset
  <2>1. plan \in Accepted /\ Registered(plan) \subseteq stack /\ inputs[n] = ConfigOf(plan, n)
    BY <1>1 DEF ApplyInv, PlanInv, ConfiguredInv
  <2>2. n \in Nodes /\ Config(n) \in stack
    BY <2>1, RegisteredNodes, RegisteredAlways
  <2> QED
    BY <1>1, <2>1, <2>2 DEF ApplyInv, InputsInv
<1>2. ASSUME ApplyInv, task = "apply", outcome = "ok", NEW n \in NodesOf(plan), config[n] # Unset
      PROVE  /\ FitsItsMachine(n)
             /\ \A c \in plan.controlPlanes :
                   config[c] # Unset => config[n].endpoint \in config[c].node.certSANs
  <2>1. plan \in Accepted /\ config[n] = ConfigOf(plan, n)
    BY <1>1, <1>2 DEF ApplyInv, PlanInv
  <2>2. ASSUME NEW c \in plan.controlPlanes, config[c] # Unset
        PROVE  config[n].endpoint \in config[c].node.certSANs
    <3>1. config[c] = ConfigOf(plan, c)
      BY <1>1, <1>2, <2>2 DEF NodesOf
    <3> QED
      BY <2>1, <3>1, EndpointIsServed
  <2> QED
    BY <2>1, <2>2, ConfigFits
<1>3. ApplyInv => DoneIsConfigured
  BY <1>1, <1>2 DEF DoneIsConfigured
<1> QED
  BY <1>3, ApplyHolds, PTL
=============================================================================
