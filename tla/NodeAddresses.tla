---------------------------- MODULE NodeAddresses ----------------------------
(***************************************************************************)
(* Which private address each node of a topology is given, and which       *)
(* topologies validation lets through: internal/pkg/clusterspec.           *)
(*                                                                         *)
(* Addresses are offsets into network.nodeSubnet.  A topology is what the  *)
(* addressing reads of a variables file: the size of the control plane and *)
(* the worker pools in their order, each with a name, a count and the      *)
(* slice it is pinned to, if any.                                          *)
(***************************************************************************)
EXTENDS Integers, Sequences

CONSTANTS Stride,       \* PoolAddressStride
          SubnetSize,   \* addresses in network.nodeSubnet
          CheckedSize,  \* 2^maxHostBitsChecked
          PoolNames,    \* what a pool can be called, RoleControlPlane included
          ControlPlane, \* RoleControlPlane
          Unpinned      \* an addressSlot that is not set

ASSUME AddressingAssumption ==
    /\ Stride \in Nat
    /\ SubnetSize \in Nat \ {0}
    /\ CheckedSize \in Nat \ {0}
    /\ ControlPlane \in PoolNames
    /\ Unpinned \notin Int

Pool == [name : PoolNames, count : Int, slot : Int \cup {Unpinned}]
Topology == [controlPlanes : Int, pools : Seq(Pool)]

reservedPerSubnet == 2
loadBalancerAddresses == 2
controlPlaneCapacity == Stride - reservedPerSubnet - loadBalancerAddresses

(* An address the layout cannot give: the plan stops with an error.        *)
Refused == -1

At(offset) == IF offset >= SubnetSize THEN Refused ELSE offset

ControlPlaneIP(o) ==
    IF o >= controlPlaneCapacity THEN Refused ELSE At(reservedPerSubnet + o)

WorkerIP(slot, o) ==
    IF o >= Stride THEN Refused ELSE At((slot + 1) * Stride + o)

APILoadBalancerIP == At(Stride - 1)
IngressLoadBalancerIP == At(Stride - 2)

(* Pools are numbered from 1 here and from 0 in the code.                  *)
PoolSlot(t, i) == IF t.pools[i].slot = Unpinned THEN i - 1 ELSE t.pools[i].slot

-----------------------------------------------------------------------------
(* Validate, as far as it bears on names and addresses.                    *)

Pools(t) == DOMAIN t.pools

validateControlPlane(t) ==
    /\ t.controlPlanes \in 1..controlPlaneCapacity
    /\ t.controlPlanes % 2 = 1

validateWorkerPools(t) ==
    /\ \A i \in Pools(t) : t.pools[i].name # ControlPlane
    /\ \A i, j \in Pools(t) : t.pools[i].name = t.pools[j].name => i = j
    /\ \A i \in Pools(t) : t.pools[i].count \in 0..Stride

\* Mutant: two pools clash only when both are pinned to one slot.
validatePoolSlotsPinnedOnly(t) ==
    \A i, j \in Pools(t) : /\ PoolSlot(t, i) >= 0
                           /\ t.pools[i].slot = t.pools[j].slot =>
                                  i = j \/ t.pools[i].slot = Unpinned

validatePoolSlots(t) ==
    \A i, j \in Pools(t) : /\ PoolSlot(t, i) >= 0
                           /\ PoolSlot(t, i) = PoolSlot(t, j) => i = j

(* needed <= capacity, with needed = (highest slot + reservedSlices) *     *)
(* PoolAddressStride; a subnet wider than CheckedSize is not checked, and  *)
(* with no pools the highest slot is -1, so one slice must still fit.      *)
validatePoolCapacity(t) ==
    SubnetSize <= CheckedSize =>
        /\ Stride <= SubnetSize
        /\ \A i \in Pools(t) : (PoolSlot(t, i) + 2) * Stride <= SubnetSize

Valid(t) == /\ controlPlaneCapacity >= 1  \* NewAddressing
            /\ validateControlPlane(t)
            /\ validateWorkerPools(t)
            /\ validatePoolSlots(t)
            /\ validatePoolCapacity(t)

-----------------------------------------------------------------------------
(* The servers a topology asks for.  A place is a pool (0 the control      *)
(* plane) and an ordinal; NodeName makes <cluster>-<pool>-<ordinal> of it, *)
(* which two places share only with both their pool's name and ordinal.    *)

Count(t, i) == IF i = 0 THEN t.controlPlanes ELSE t.pools[i].count
Places(t) == UNION {{i} \X (0..Count(t, i) - 1) : i \in 0..Len(t.pools)}

NodeName(t, p) == <<IF p[1] = 0 THEN ControlPlane ELSE t.pools[p[1]].name, p[2]>>
AddressOf(t, p) == IF p[1] = 0 THEN ControlPlaneIP(p[2])
                               ELSE WorkerIP(PoolSlot(t, p[1]), p[2])

(* What the layout promises of a topology validation let through: no two   *)
(* nodes share a name or an address, no node sits on a load balancer's or  *)
(* one of the subnet's first two, and the balancers differ.                *)
Sound(t) ==
    /\ \A p, q \in Places(t) : NodeName(t, p) = NodeName(t, q) => p = q
    /\ \A p, q \in Places(t) : /\ AddressOf(t, p) = AddressOf(t, q)
                               /\ AddressOf(t, p) # Refused
                               => p = q
    /\ \A p \in Places(t) :
         AddressOf(t, p) \notin {0, 1} \cup ({APILoadBalancerIP, IngressLoadBalancerIP} \ {Refused})
    /\ APILoadBalancerIP = IngressLoadBalancerIP => APILoadBalancerIP = Refused

(* Nothing the topology asks for is refused by the layout.                 *)
Fits(t) ==
    /\ \A p \in Places(t) : AddressOf(t, p) # Refused
    /\ Refused \notin {APILoadBalancerIP, IngressLoadBalancerIP}
=============================================================================
