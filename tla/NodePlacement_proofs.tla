------------------------ MODULE NodePlacement_proofs ------------------------
(***************************************************************************)
(* What the layout and an apply promise for every stride, every subnet,    *)
(* every set of variables files and every number of edits and faults.      *)
(***************************************************************************)
EXTENDS NodePlacement, TLAPS

USE AddressingAssumption

(* One slice ends before the next one starts.                              *)
LEMMA SliceOrder ==
    ASSUME NEW x \in Nat, NEW y \in Nat, x < y
    PROVE  (x + 1) * Stride <= y * Stride
<1>1. PICK k \in Nat : y = x + 1 + k
  <2>1. y - x - 1 \in Nat /\ y = x + 1 + (y - x - 1)  OBVIOUS
  <2> QED  BY <2>1
<1>2. y * Stride = (x + 1) * Stride + k * Stride  BY <1>1
<1>3. k * Stride >= 0  OBVIOUS
<1>4. (x + 1) * Stride \in Int /\ k * Stride \in Int  OBVIOUS
<1> QED  BY <1>2, <1>3, <1>4

(* Two workers share an offset only in one slice and at one ordinal.       *)
LEMMA OffsetsDiffer ==
    ASSUME NEW x \in Nat, NEW y \in Nat, NEW o \in 0..Stride - 1, NEW r \in 0..Stride - 1,
           (x + 1) * Stride + o = (y + 1) * Stride + r
    PROVE  x = y /\ o = r
<1>1. /\ (x + 1) * Stride \in Int /\ (y + 1) * Stride \in Int
      /\ (x + 1 + 1) * Stride = (x + 1) * Stride + Stride
      /\ (y + 1 + 1) * Stride = (y + 1) * Stride + Stride
  OBVIOUS
<1>2. ~(x < y)
  <2> SUFFICES ASSUME x < y PROVE FALSE  OBVIOUS
  <2>1. (x + 1 + 1) * Stride <= (y + 1) * Stride
    BY SliceOrder, x + 1 < y + 1, x + 1 \in Nat, y + 1 \in Nat
  <2> QED  BY <2>1, <1>1
<1>3. ~(y < x)
  <2> SUFFICES ASSUME y < x PROVE FALSE  OBVIOUS
  <2>1. (y + 1 + 1) * Stride <= (x + 1) * Stride
    BY SliceOrder, y + 1 < x + 1, x + 1 \in Nat, y + 1 \in Nat
  <2> QED  BY <2>1, <1>1
<1>4. x = y  BY <1>2, <1>3
<1> QED  BY <1>4, <1>1

(* A worker's offset is past the control plane's slice.                    *)
LEMMA WorkersAbove ==
    ASSUME NEW x \in Nat, NEW o \in Nat
    PROVE  /\ (x + 1) * Stride + o \in Nat
           /\ (x + 1) * Stride + o >= Stride
<1>1. (x + 1) * Stride = x * Stride + Stride /\ x * Stride \in Nat  OBVIOUS
<1> QED  BY <1>1

(* Shape of a place: which pool it is in and how far it counts.            *)
LEMMA PlaceShape ==
    ASSUME NEW t \in Topology, Valid(t), NEW p \in Places(t)
    PROVE  /\ p = <<p[1], p[2]>>
           /\ p[1] \in 0..Len(t.pools)
           /\ p[2] \in Nat
           /\ p[1] = 0 => p[2] < controlPlaneCapacity
           /\ p[1] # 0 => /\ p[1] \in Pools(t)
                          /\ p[2] < Stride
                          /\ PoolSlot(t, p[1]) \in Nat
                          /\ t.pools[p[1]].name \in PoolNames \ {ControlPlane}
<1>1. PICK i \in 0..Len(t.pools) : p \in {i} \X (0..Count(t, i) - 1)
  BY DEF Places
<1>2. t.pools \in Seq(Pool) /\ Len(t.pools) \in Nat /\ t.controlPlanes \in Int
  BY DEF Topology
<1>3. controlPlaneCapacity \in Int
  BY DEF controlPlaneCapacity, reservedPerSubnet, loadBalancerAddresses
<1>4. CASE i = 0
  <2>1. t.controlPlanes \in 1..controlPlaneCapacity  BY DEF Valid, validateControlPlane
  <2> QED  BY <1>1, <1>2, <1>3, <1>4, <2>1 DEF Count
<1>5. CASE i # 0
  <2>1. i \in Pools(t) /\ t.pools[i] \in Pool  BY <1>2, <1>5 DEF Pools
  <2>2. t.pools[i].count \in 0..Stride /\ t.pools[i].name # ControlPlane
    BY <2>1 DEF Valid, validateWorkerPools
  <2>3. PoolSlot(t, i) >= 0  BY <2>1 DEF Valid, validatePoolSlots
  <2>4. PoolSlot(t, i) \in Int  BY <2>1, <1>2 DEF PoolSlot, Pool
  <2> QED  BY <1>1, <1>5, <2>1, <2>2, <2>3, <2>4 DEF Count, Pool
<1> QED  BY <1>4, <1>5

(* Where a place's address is, when it has one.                            *)
LEMMA AddressShape ==
    ASSUME NEW t \in Topology, Valid(t), NEW p \in Places(t), AddressOf(t, p) # Refused
    PROVE  /\ AddressOf(t, p) \in 0..SubnetSize - 1
           /\ p[1] = 0 => AddressOf(t, p) = 2 + p[2] /\ AddressOf(t, p) < Stride - 2
           /\ p[1] # 0 => /\ AddressOf(t, p) = (PoolSlot(t, p[1]) + 1) * Stride + p[2]
                          /\ AddressOf(t, p) >= Stride
<1>1. CASE p[1] = 0
  BY <1>1, PlaceShape DEF AddressOf, ControlPlaneIP, At, Refused, reservedPerSubnet,
                          controlPlaneCapacity, loadBalancerAddresses
<1>2. CASE p[1] # 0
  <2> DEFINE off == (PoolSlot(t, p[1]) + 1) * Stride + p[2]
  <2>1. off \in Nat /\ off >= Stride  BY <1>2, PlaceShape, WorkersAbove
  <2>2. AddressOf(t, p) = off /\ ~(off >= SubnetSize)
    BY <1>2, PlaceShape DEF AddressOf, WorkerIP, At, Refused
  <2> HIDE DEF off
  <2>3. AddressOf(t, p) \in 0..SubnetSize - 1 /\ AddressOf(t, p) >= Stride  BY <2>1, <2>2
  <2> QED  BY <1>2, <2>2, <2>3 DEF off
<1> QED  BY <1>1, <1>2

(* Whatever the stride and the subnet, a file that validates gives every   *)
(* server a name and an address of its own, off the load balancers and the *)
(* subnet's first two addresses.                                           *)
THEOREM ValidIsSound ==
    ASSUME NEW t \in Topology, Valid(t)
    PROVE  Sound(t)
<1>0. Stride >= 5
  BY DEF Valid, controlPlaneCapacity, reservedPerSubnet, loadBalancerAddresses
<1>1. ASSUME NEW p \in Places(t), NEW q \in Places(t), NodeName(t, p) = NodeName(t, q)
      PROVE  p = q
  <2>1. p[2] = q[2] /\ (p[1] = 0 <=> q[1] = 0)  BY <1>1, PlaceShape DEF NodeName
  <2>2. CASE p[1] = 0  BY <2>1, <2>2, PlaceShape
  <2>3. CASE p[1] # 0
    <3>1. p[1] \in Pools(t) /\ q[1] \in Pools(t)  BY <2>1, <2>3, PlaceShape
    <3>2. t.pools[p[1]].name = t.pools[q[1]].name  BY <1>1, <2>1, <2>3 DEF NodeName
    <3>3. p[1] = q[1]  BY <3>1, <3>2 DEF Valid, validateWorkerPools
    <3> QED  BY <2>1, <3>3, PlaceShape
  <2> QED  BY <2>2, <2>3
<1>2. ASSUME NEW p \in Places(t), NEW q \in Places(t),
             AddressOf(t, p) = AddressOf(t, q), AddressOf(t, p) # Refused
      PROVE  p = q
  <2>1. p[1] = 0 <=> q[1] = 0
    <3>1. CASE p[1] = 0  BY <1>2, <3>1, AddressShape
    <3>2. CASE q[1] = 0  BY <1>2, <3>2, AddressShape
    <3> QED  BY <3>1, <3>2
  <2>2. CASE p[1] = 0
    <3>1. 2 + p[2] = 2 + q[2]  BY <1>2, <2>1, <2>2, AddressShape
    <3> QED  BY <2>1, <2>2, <3>1, PlaceShape
  <2>3. CASE p[1] # 0
    <3>1. /\ p[2] \in 0..Stride - 1 /\ q[2] \in 0..Stride - 1
          /\ PoolSlot(t, p[1]) \in Nat /\ PoolSlot(t, q[1]) \in Nat
          /\ p[1] \in Pools(t) /\ q[1] \in Pools(t)
      BY <2>1, <2>3, PlaceShape
    <3>2. (PoolSlot(t, p[1]) + 1) * Stride + p[2] = (PoolSlot(t, q[1]) + 1) * Stride + q[2]
      BY <1>2, <2>1, <2>3, AddressShape
    <3>3. PoolSlot(t, p[1]) = PoolSlot(t, q[1]) /\ p[2] = q[2]
      BY <3>1, <3>2, OffsetsDiffer
    <3>4. p[1] = q[1]  BY <3>1, <3>3 DEF Valid, validatePoolSlots
    <3> QED  BY <3>3, <3>4, PlaceShape
  <2> QED  BY <2>2, <2>3
<1>3. ASSUME NEW p \in Places(t)
      PROVE  AddressOf(t, p) \notin
               {0, 1} \cup ({APILoadBalancerIP, IngressLoadBalancerIP} \ {Refused})
  <2>1. CASE AddressOf(t, p) = Refused  BY <2>1 DEF Refused
  <2>2. CASE AddressOf(t, p) # Refused
    <3>1. APILoadBalancerIP \in {Refused, Stride - 1} /\ IngressLoadBalancerIP \in {Refused, Stride - 2}
      BY DEF APILoadBalancerIP, IngressLoadBalancerIP, At
    <3>2. CASE p[1] = 0  BY <2>2, <3>1, <3>2, PlaceShape, AddressShape, <1>0
    <3>3. CASE p[1] # 0  BY <2>2, <3>1, <3>3, AddressShape, <1>0
    <3> QED  BY <3>2, <3>3
  <2> QED  BY <2>1, <2>2
<1>4. APILoadBalancerIP = IngressLoadBalancerIP => APILoadBalancerIP = Refused
  BY <1>0 DEF APILoadBalancerIP, IngressLoadBalancerIP, At, Refused
<1> QED  BY <1>1, <1>2, <1>3, <1>4 DEF Sound

(* In a subnet the capacity check looks at, the layout refuses nothing a   *)
(* valid file asks for: no plan stops on an address.                       *)
THEOREM ValidFits ==
    ASSUME NEW t \in Topology, Valid(t), SubnetSize <= CheckedSize
    PROVE  Fits(t)
<1>0. Stride >= 5 /\ Stride <= SubnetSize
  BY DEF Valid, validatePoolCapacity, controlPlaneCapacity, reservedPerSubnet, loadBalancerAddresses
<1>1. ASSUME NEW p \in Places(t) PROVE AddressOf(t, p) # Refused
  <2>1. CASE p[1] = 0
    BY <2>1, <1>0, PlaceShape DEF AddressOf, ControlPlaneIP, At, Refused, reservedPerSubnet,
                                  controlPlaneCapacity, loadBalancerAddresses
  <2>2. CASE p[1] # 0
    <3> DEFINE slot == PoolSlot(t, p[1])
    <3>1. slot \in Nat /\ p[2] \in Nat /\ p[2] < Stride /\ p[1] \in Pools(t)
      BY <2>2, PlaceShape
    <3>2. (slot + 2) * Stride <= SubnetSize  BY <3>1 DEF Valid, validatePoolCapacity
    <3>3. AddressOf(t, p) = At((slot + 1) * Stride + p[2])
      BY <2>2, <3>1 DEF AddressOf, WorkerIP
    <3> HIDE DEF slot
    <3>4. (slot + 2) * Stride = (slot + 1) * Stride + Stride /\ (slot + 1) * Stride \in Nat
      BY <3>1
    <3>5. (slot + 1) * Stride + p[2] < SubnetSize /\ (slot + 1) * Stride + p[2] \in Nat
      BY <3>1, <3>2, <3>4
    <3> QED  BY <3>3, <3>5 DEF At, Refused
  <2> QED  BY <2>1, <2>2
<1>2. Refused \notin {APILoadBalancerIP, IngressLoadBalancerIP}
  BY <1>0 DEF APILoadBalancerIP, IngressLoadBalancerIP, At, Refused
<1> QED  BY <1>1, <1>2 DEF Fits

-----------------------------------------------------------------------------
(* The servers a file is applied with: names of nodes, at addresses of the *)
(* subnet.                                                                 *)
LEMMA WantedShape ==
    ASSUME NEW t \in Applicable
    PROVE  /\ Wanted(t) = [n \in DOMAIN Wanted(t) |-> Wanted(t)[n]]
           /\ \A n \in DOMAIN Wanted(t) : n \in PoolNames \X Nat /\ Wanted(t)[n] \in 0..SubnetSize - 1
<1>1. t \in Topology /\ Valid(t) /\ Fits(t)  BY PlacementAssumption DEF Applicable
<1>2. ASSUME NEW n \in NodeNames(t)
      PROVE  n \in PoolNames \X Nat /\ AddressOf(t, PlaceNamed(t, n)) \in 0..SubnetSize - 1
  <2> DEFINE q == PlaceNamed(t, n)
  <2>1. q \in Places(t) /\ NodeName(t, q) = n  BY DEF NodeNames, PlaceNamed
  <2> HIDE DEF q
  <2>2. AddressOf(t, q) # Refused  BY <1>1, <2>1 DEF Fits
  <2>3. AddressOf(t, q) \in 0..SubnetSize - 1  BY <1>1, <2>1, <2>2, AddressShape
  <2>4. n \in PoolNames \X Nat  BY <1>1, <2>1, PlaceShape DEF NodeName
  <2> QED  BY <2>3, <2>4 DEF q
<1>3. DOMAIN Wanted(t) = NodeNames(t)  BY DEF Wanted
<1>4. \A n \in NodeNames(t) : Wanted(t)[n] = AddressOf(t, PlaceNamed(t, n))  BY DEF Wanted
<1>5. Wanted(t) = [n \in DOMAIN Wanted(t) |-> Wanted(t)[n]]  BY DEF Wanted
<1> QED  BY <1>2, <1>3, <1>4, <1>5

LEMMA InitPlacement == Init => PlacementInv
<1> SUFFICES ASSUME Init PROVE PlacementInv  OBVIOUS
<1>1. TypeOK
  <2>1. DOMAIN servers = {}  BY DEF Init
  <2>2. forced \in BOOLEAN  BY DEF Init
  <2>3. edits \in 0..MaxEdits /\ faults \in 0..MaxFaults  BY PlacementAssumption DEF Init
  <2>4. topology \in Topologies /\ plan \in Topologies /\ apply = "idle"  BY DEF Init
  <2> QED  BY <2>1, <2>2, <2>3, <2>4 DEF TypeOK
<1>2. servers = [n \in DOMAIN servers |-> servers[n]]  BY DEF Init
<1> QED  BY <1>1, <1>2 DEF Init, PlacementInv

LEMMA NextPlacement == PlacementInv /\ [Next]_vars => PlacementInv'
<1> SUFFICES ASSUME PlacementInv, [Next]_vars PROVE PlacementInv'  OBVIOUS
<1> USE PlacementAssumption
<1>1. ASSUME NEW t \in Topologies, Edit(t) PROVE PlacementInv'
  BY <1>1 DEF Edit, PlacementInv, TypeOK, Protected, Moved, Dropped, Missing
<1>2. CASE Start
  <2>1. topology \in Applicable /\ plan' = topology /\ wanted' = Wanted(plan')
    BY <1>2 DEF Start
  <2>2. ~forced' => Protected(wanted)'  = {}
    BY <1>2 DEF Start, Protected, Moved, Dropped
  <2>3. TypeOK'  BY <1>2 DEF Start, PlacementInv, TypeOK
  <2> QED  BY <1>2, <2>1, <2>2, <2>3 DEF Start, PlacementInv
<1>3. ASSUME NEW n \in Known, Leave(n) PROVE PlacementInv'
  <2>1. servers' = [m \in DOMAIN servers \ {n} |-> servers[m]]
    BY <1>3 DEF Leave, Restrict
  <2>2. DOMAIN servers' = DOMAIN servers \ {n} /\ \A m \in DOMAIN servers' : servers'[m] = servers[m]
    BY <2>1
  <2>3. TypeOK'  BY <1>3, <2>2 DEF Leave, PlacementInv, TypeOK
  <2>4. Protected(wanted)' \subseteq Protected(wanted)
    BY <1>3, <2>2 DEF Leave, Protected, Moved, Dropped
  <2> QED  BY <1>3, <2>1, <2>3, <2>4 DEF Leave, Stepping, PlacementInv
<1>4. ASSUME NEW n \in Known, Create(n) PROVE PlacementInv'
  <2>1. servers' = [m \in DOMAIN servers \cup {n} |-> IF m = n THEN wanted[n] ELSE servers[m]]
    BY <1>4 DEF Create
  <2>2. /\ DOMAIN servers' = DOMAIN servers \cup {n}
        /\ servers'[n] = wanted[n]
        /\ \A m \in DOMAIN servers : m # n => servers'[m] = servers[m]
    BY <2>1
  <2>3. /\ n \in DOMAIN wanted \ DOMAIN servers
        /\ n \in PoolNames \X Nat /\ wanted[n] \in 0..SubnetSize - 1
    BY <1>4, WantedShape DEF Create, Missing, Stepping, PlacementInv
  <2>4. TypeOK'  BY <1>4, <2>2, <2>3 DEF Create, PlacementInv, TypeOK
  <2>5. Protected(wanted)' \subseteq Protected(wanted)
    BY <1>4, <2>2, <2>3 DEF Create, Protected, Moved, Dropped
  <2>6. servers' = [m \in DOMAIN servers' |-> servers'[m]]  BY <2>1
  <2> QED  BY <1>4, <2>4, <2>5, <2>6 DEF Create, Stepping, PlacementInv
<1>5. ASSUME NEW n \in Known, CreateRefused(n) PROVE PlacementInv'
  BY <1>5 DEF CreateRefused, PlacementInv, TypeOK, Protected, Moved, Dropped, Missing
<1>6. ASSUME NEW n \in Known, Drop(n) PROVE PlacementInv'
  <2>1. servers' = [m \in DOMAIN servers \ {n} |-> servers[m]]
    BY <1>6 DEF Drop, Restrict
  <2>2. DOMAIN servers' = DOMAIN servers \ {n} /\ \A m \in DOMAIN servers' : servers'[m] = servers[m]
    BY <2>1
  <2>3. TypeOK'  BY <1>6, <2>2 DEF Drop, PlacementInv, TypeOK
  <2>4. Protected(wanted)' \subseteq Protected(wanted)
    BY <1>6, <2>2 DEF Drop, Protected, Moved, Dropped
  <2>5. Moved(wanted)' = {} /\ Missing(wanted)' = {}
    BY <1>6, <2>2 DEF Drop, PlacementInv, Moved, Missing, Dropped
  <2> QED  BY <1>6, <2>1, <2>3, <2>4, <2>5 DEF Drop, PlacementInv
<1>7. CASE Fault
  BY <1>7 DEF Fault, PlacementInv, TypeOK, Protected, Moved, Dropped, Missing
<1>8. CASE Placed
  BY <1>8 DEF Placed, PlacementInv, TypeOK, Protected, Moved, Dropped, Missing
<1>9. CASE Finish
  <2>1. DOMAIN servers = DOMAIN wanted /\ \A n \in DOMAIN wanted : servers[n] = wanted[n]
    BY <1>9 DEF Finish, PlacementInv, Moved, Dropped, Missing
  <2>2. wanted = [n \in DOMAIN wanted |-> wanted[n]]
    BY <1>9, WantedShape DEF Finish, PlacementInv
  <2>3. servers = wanted  BY <2>1, <2>2 DEF PlacementInv
  <2> QED  BY <1>9, <2>3 DEF Finish, PlacementInv, TypeOK
<1>10. CASE GiveUp
  BY <1>10 DEF GiveUp, PlacementInv, TypeOK
<1>11. CASE Again
  BY <1>11 DEF Again, PlacementInv, TypeOK
<1>12. CASE UNCHANGED vars
  BY <1>12 DEF vars, PlacementInv, TypeOK, Protected, Moved, Dropped, Missing
<1> QED
  BY <1>1, <1>2, <1>3, <1>4, <1>5, <1>6, <1>7, <1>8, <1>9, <1>10, <1>11, <1>12 DEF Next

LEMMA PlacementInvariant == Spec => []PlacementInv
<1> QED  BY InitPlacement, NextPlacement, PTL DEF Spec

(* Every server that ever stands has a node's name and an address inside   *)
(* the subnet.                                                             *)
THEOREM PlacementTypeCorrect == Spec => []TypeOK
<1>1. PlacementInv => TypeOK  BY DEF PlacementInv
<1> QED  BY <1>1, PlacementInvariant, PTL

(* Whatever files are written, and whenever, an apply acts on one whose    *)
(* names and addresses clash nowhere.                                      *)
THEOREM PlansAreSound == Spec => []PlanIsSound
<1>1. PlacementInv => PlanIsSound
  BY ValidIsSound, PlacementAssumption DEF PlacementInv, PlanIsSound, Applicable
<1> QED  BY <1>1, PlacementInvariant, PTL

(* Success means the servers of the file and no other.                     *)
THEOREM SuccessIsWanted == Spec => []DoneIsWanted
<1>1. PlacementInv => DoneIsWanted  BY DEF PlacementInv, DoneIsWanted
<1> QED  BY <1>1, PlacementInvariant, PTL

(* Protect, looked at once before the first step, covers every later one.  *)
THEOREM ControlPlaneIsKept == Spec => ControlPlaneStays
<1> DEFINE Kept == \A n \in DOMAIN servers :
                      n[1] = ControlPlane /\ n \notin DOMAIN servers' => forced
<1>1. ASSUME PlacementInv, [Next]_vars PROVE [Kept]_vars
  <2>1. ASSUME NEW n \in Known, Leave(n) PROVE Kept
    <3>1. DOMAIN servers' = DOMAIN servers \ {n}  BY <2>1 DEF Leave, Restrict
    <3>2. ~forced => n \notin Protected(wanted)
      BY <1>1, <2>1 DEF Leave, Stepping, PlacementInv
    <3> QED  BY <2>1, <3>1, <3>2 DEF Leave, Protected, PlacementInv, TypeOK
  <2>2. ASSUME NEW n \in Known, Drop(n) PROVE Kept
    <3>1. DOMAIN servers' = DOMAIN servers \ {n}  BY <2>2 DEF Drop, Restrict
    <3>2. ~forced => n \notin Protected(wanted)
      BY <1>1, <2>2 DEF Drop, PlacementInv
    <3> QED  BY <2>2, <3>1, <3>2 DEF Drop, Protected, PlacementInv, TypeOK
  <2>3. ASSUME NEW n \in Known, Create(n) PROVE Kept
    BY <2>3 DEF Create
  <2>4. CASE UNCHANGED servers  BY <2>4
  <2> QED
    BY <1>1, <2>1, <2>2, <2>3, <2>4
       DEF Next, Edit, Start, Fault, Placed, Finish, GiveUp, Again, CreateRefused, vars
<1> QED  BY <1>1, PlacementInvariant, PTL DEF Spec, ControlPlaneStays
=============================================================================
