--------------------------- MODULE Orphans_proofs ---------------------------
(***************************************************************************)
(* A report that gets through names nothing that was in use all along, for *)
(* any clusters, stacks and resources, any number of them, and whatever    *)
(* the world does between two calls.                                       *)
(***************************************************************************)
EXTENDS Orphans, TLAPS

----------------------------------------------------------------------------
(* The inductive invariant.                                                 *)

\* Listed, and claimed at every moment since.
Busy == inventory \ idle

\* The calls before the listing of servers, of states, and the later ones.
Listing   == {"volumes", "balancers", "servers", "others"}
AfterServers == Reading \ {"volumes", "balancers", "servers"}
AfterStacks  == {"judge", "pvs", "released", "services", "nodes", "judged"}

Kinds ==
    /\ pc \in Reading \cup {"off"}
    /\ exists \subseteq Resources /\ inventory \subseteq Resources
    /\ state \subseteq Things /\ services \subseteq Balancers /\ nodes \subseteq Servers
    /\ pv \in [Volumes -> {"none", "bound", "released"}]
    /\ unread \in Seq(Stacks)
    /\ claims \in [volumes : SUBSET Volumes, released : SUBSET Volumes,
                   services : SUBSET Balancers, nodes : SUBSET Servers]

\* What a cluster says, it says while it has a server, and what a state holds
\* is held by a stack that is there.
WorldInv ==
    /\ \A v \in Volumes : pv[v] # "none" => Alive(ClusterOf[v])
    /\ \A b \in services : Alive(ClusterOf[b])
    /\ \A r \in state : StackOf[r] \in kept

\* What was read so far belongs to this run.
FreshInv ==
    /\ pc = "off" => inventory = {} /\ held = {}
    /\ pc \in Listing => unread = Dirs
    /\ pc \in AfterStacks => unread = <<>>
    /\ pc \notin {"released", "services", "nodes", "judged"} => claims = NoClaims

BusyInv == \A r \in Busy : ~Unclaimed(r)

\* No server of this cluster when they were listed: nothing of it is busy.
GoneInv ==
    pc \in AfterServers /\ ClusterServers = {} =>
        \A r \in Busy \cap (Volumes \cup Balancers) : ClusterOf[r] # Mine

\* A busy thing is held by a state that is read, or is still to be read, or is
\* a node of this cluster that no state holds.
HeldInv ==
    login => \A r \in Busy \cap Things :
        \/ r \in held
        \/ \E i \in 1..Len(unread) : unread[i] = StackOf[r]
        \/ r \in nodes \ state /\ ClusterOf[r] = Mine

ClaimsInv ==
    /\ \A v \in Busy \cap Volumes :
         /\ v \notin claims.released
         /\ pc \in {"released", "services", "nodes", "judged"} => v \in claims.volumes
    /\ pc \in {"nodes", "judged"} => Busy \cap Balancers \subseteq claims.services
    /\ pc = "judged" /\ login => Busy \cap Servers \subseteq claims.nodes \cup held

OrphansInv ==
    /\ Kinds /\ WorldInv /\ FreshInv /\ BusyInv /\ GoneInv /\ HeldInv /\ ClaimsInv
    /\ ReportedWasIdle

----------------------------------------------------------------------------
(* What it is for a thing to be busy.                                       *)

LEMMA BusyVolume ==
    ASSUME Kinds, BusyInv, NEW v \in Busy, v \in Volumes
    PROVE  ClusterOf[v] = Mine /\ pv[v] = "bound"
BY OrphansAssumption DEF Kinds, BusyInv, Unclaimed, Resources, Things

LEMMA BusyBalancer ==
    ASSUME Kinds, BusyInv, NEW b \in Busy, b \in Balancers
    PROVE  ClusterOf[b] = Mine /\ b \in services
BY OrphansAssumption DEF Kinds, BusyInv, Unclaimed, Resources, Things

LEMMA BusyThing ==
    ASSUME Kinds, BusyInv, NEW r \in Busy, r \in Things
    PROVE  r \in state \/ (r \in nodes \ state /\ ClusterOf[r] = Mine)
BY OrphansAssumption DEF Kinds, BusyInv, Unclaimed, Resources, Things

LEMMA InitOrphans == Init => OrphansInv
BY OrphansAssumption
   DEF Init, OrphansInv, Kinds, WorldInv, FreshInv, BusyInv, GoneInv, HeldInv, ClaimsInv,
       ReportedWasIdle, Busy, Reading, Listing, AfterServers, AfterStacks, NoClaims

----------------------------------------------------------------------------
(* The calls of the report.                                                 *)

\* A call leaves the world alone, so what it said still holds.
LEMMA StillWorld ==
    ASSUME WorldInv, UNCHANGED world PROVE WorldInv'
BY DEF WorldInv, world, Alive

\* A listing adds what is claimed to what is busy, and the rest is idle.
LEMMA ListOrphans ==
    ASSUME OrphansInv, NEW kind \in {"volumes", "balancers", "servers", "others"},
           NEW members \in SUBSET Resources, NEW next \in Listing \cup {"stacks"},
           List(kind, members, next),
           kind = "servers" <=> next = "others", kind = "others" <=> next = "stacks",
           kind = "servers" => members = Servers,
           kind = "others" => members = Others
    PROVE  OrphansInv'
<1> USE DEF OrphansInv, Listing
<1>1. Kinds'
  BY DEF Kinds, List, world, Reading
<1>2. WorldInv'
  BY StillWorld DEF List
<1>3. FreshInv'
  BY DEF FreshInv, List, AfterStacks
<1>4. BusyInv'
  BY DEF BusyInv, Busy, Unclaimed, List, world
<1>5. ASSUME pc' \in AfterServers, ClusterServers' = {},
             NEW r \in Busy' \cap (Volumes \cup Balancers), ClusterOf[r] = Mine
      PROVE  FALSE
  <2>1. CASE kind = "servers"
    <3>1. ~Alive(Mine)
      BY <1>5, <2>1 DEF ClusterServers, List, Alive
    <3>2. r \in Busy
      BY <2>1, <1>5, OrphansAssumption DEF Busy, List, Things
    <3> QED
      BY <3>1, <3>2, <1>5, BusyVolume, BusyBalancer DEF WorldInv
  <2>2. CASE kind = "others"
    <3>1. ClusterServers = {}
      BY <1>5 DEF ClusterServers, List
    <3>2. r \in Busy
      BY <2>2, <1>5, OrphansAssumption DEF Busy, List, Things
    <3> QED
      BY <2>2, <3>1, <3>2, <1>5 DEF GoneInv, AfterServers, Reading, List
  <2> QED
    BY <1>5, <2>1, <2>2 DEF List, AfterServers, Reading
<1>6. ASSUME NEW r \in Busy' \cap Things
      PROVE  \E i \in 1..Len(unread') : unread'[i] = StackOf[r]
  BY <1>6, OrphansAssumption DEF FreshInv, List, Stacks, Things
<1>7. ClaimsInv'
  BY DEF ClaimsInv, FreshInv, NoClaims, List
<1>8. ReportedWasIdle'
  BY DEF ReportedWasIdle, List
<1> QED
  BY <1>1, <1>2, <1>3, <1>4, <1>5, <1>6, <1>7, <1>8 DEF GoneInv, HeldInv

LEMMA InventoryOrphans == OrphansInv /\ Inventory => OrphansInv'
BY ListOrphans, OrphansAssumption
   DEF Inventory, Listing, Resources, Things, List

LEMMA ReadHeldOrphans == OrphansInv /\ ReadHeld => OrphansInv'
<1> SUFFICES ASSUME OrphansInv, ReadHeld PROVE OrphansInv'
  OBVIOUS
<1> USE DEF OrphansInv
<1>1. UNCHANGED <<world, login, inventory, claims, report, moves, idle, settled>> /\ pc = "stacks"
  BY DEF ReadHeld
<1>2. Busy' = Busy /\ ClusterServers' = ClusterServers
  BY <1>1 DEF Busy, ClusterServers
<1>3. unread' \in Seq(Stacks) /\ pc' \in {"stacks", "judge"} /\ (pc' = "judge" => unread' = <<>>)
  <2>1. unread \in Seq(Stacks)
    BY DEF Kinds
  <2>2. unread # <<>> => Tail(unread) \in Seq(Stacks)
    BY <2>1
  <2> QED
    BY <2>1, <2>2 DEF ReadHeld
<1>4. Kinds' /\ WorldInv' /\ FreshInv'
  <2>1. Kinds'
    BY <1>1, <1>3 DEF Kinds, world, Reading
  <2> QED
    BY <1>1, <1>3, <2>1, StillWorld DEF FreshInv, Listing, AfterStacks
<1>5. BusyInv' /\ GoneInv' /\ ClaimsInv' /\ ReportedWasIdle'
  BY <1>1, <1>2, <1>3
     DEF BusyInv, Unclaimed, GoneInv, ClaimsInv, ReportedWasIdle, AfterServers, Reading, world
<1>6. ASSUME login, NEW r \in Busy \cap Things
      PROVE  \/ r \in held'
             \/ \E i \in 1..Len(unread') : unread'[i] = StackOf[r]
             \/ r \in nodes \ state /\ ClusterOf[r] = Mine
  <2>1. CASE r \in held
    BY <2>1 DEF ReadHeld
  <2>2. CASE r \in nodes \ state /\ ClusterOf[r] = Mine
    BY <2>2
  <2>3. ASSUME NEW i \in 1..Len(unread), unread[i] = StackOf[r], i # 1
        PROVE  \E j \in 1..Len(unread') : unread'[j] = StackOf[r]
    <3>1. unread # <<>> /\ unread' = Tail(unread)
      BY <2>3 DEF ReadHeld, Kinds
    <3>2. i - 1 \in 1..Len(Tail(unread)) /\ Tail(unread)[i - 1] = unread[i]
      BY <2>3, <3>1 DEF Kinds
    <3> QED
      BY <2>3, <3>1, <3>2
  <2>4. CASE Len(unread) > 0 /\ unread[1] = StackOf[r] /\ r \in state
    BY <1>6, <2>4 DEF ReadHeld, WorldInv, Kinds
  <2>5. r \in state \/ (r \in nodes \ state /\ ClusterOf[r] = Mine)
    BY BusyThing
  <2>6. \/ r \in held
        \/ \E i \in 1..Len(unread) : unread[i] = StackOf[r]
        \/ r \in nodes \ state /\ ClusterOf[r] = Mine
    BY <1>6 DEF HeldInv
  <2>7. ASSUME NEW i \in 1..Len(unread), unread[i] = StackOf[r], i = 1
        PROVE  Len(unread) > 0 /\ unread[1] = StackOf[r]
    BY <2>7 DEF Kinds
  <2> QED
    BY <2>1, <2>2, <2>3, <2>4, <2>5, <2>6, <2>7
<1>7. HeldInv'
  BY <1>1, <1>2, <1>6 DEF HeldInv, world
<1> QED
  BY <1>4, <1>5, <1>7

LEMMA ClusterClaimsOrphans == OrphansInv /\ ClusterClaims => OrphansInv'
<1> SUFFICES ASSUME OrphansInv, ClusterClaims PROVE OrphansInv'
  OBVIOUS
<1> USE DEF OrphansInv
<1>1. /\ UNCHANGED <<world, login, found, report, moves, idle, settled>>
      /\ pc = "judge"
      /\ pc' = IF ClusterServers # {} THEN "pvs" ELSE "judged"
  BY DEF ClusterClaims
<1>2. Busy' = Busy /\ ClusterServers' = ClusterServers /\ unread = <<>>
  BY <1>1 DEF Busy, ClusterServers, found, FreshInv, AfterStacks
<1>3. Kinds' /\ WorldInv' /\ FreshInv' /\ BusyInv' /\ GoneInv' /\ HeldInv' /\ ReportedWasIdle'
  BY <1>1, <1>2, StillWorld
     DEF Kinds, FreshInv, BusyInv, Unclaimed, GoneInv, HeldInv, ReportedWasIdle, world, found,
         Reading, Listing, AfterServers, AfterStacks
<1>4. CASE ClusterServers # {}
  BY <1>1, <1>2, <1>3, <1>4 DEF ClaimsInv, found
<1>5. CASE ClusterServers = {}
  <2>1. Busy \cap (Volumes \cup Balancers) = {}
    BY <1>1, <1>5, BusyVolume, BusyBalancer DEF GoneInv, AfterServers, Reading
  <2>2. login => Busy \cap Servers \subseteq held
    BY <1>2, <1>5 DEF HeldInv, Busy, ClusterServers, Things
  <2> QED
    BY <1>1, <1>2, <1>3, <2>1, <2>2 DEF ClaimsInv, found
<1> QED
  BY <1>4, <1>5

LEMMA ReadClaimsOrphans == OrphansInv /\ ReadClaims => OrphansInv'
<1> SUFFICES ASSUME OrphansInv, ReadClaims PROVE OrphansInv'
  OBVIOUS
<1> USE DEF OrphansInv
<1>1. /\ UNCHANGED <<world, login, inventory, unread, held, stacks, report, moves, idle, settled>>
      /\ pc \in {"pvs", "released", "services", "nodes"}
      /\ pc' \in {"released", "services", "nodes", "judged"}
  BY DEF ReadClaims
<1>2. Busy' = Busy /\ ClusterServers' = ClusterServers /\ unread = <<>>
  BY <1>1 DEF Busy, ClusterServers, FreshInv, AfterStacks
<1>3. claims' \in [volumes : SUBSET Volumes, released : SUBSET Volumes,
                  services : SUBSET Balancers, nodes : SUBSET Servers]
  BY DEF ReadClaims, Kinds
<1>4. Kinds' /\ WorldInv' /\ FreshInv' /\ BusyInv' /\ GoneInv' /\ HeldInv' /\ ReportedWasIdle'
  BY <1>1, <1>2, <1>3, StillWorld
     DEF Kinds, FreshInv, BusyInv, Unclaimed, GoneInv, HeldInv, ReportedWasIdle, world,
         Reading, Listing, AfterServers, AfterStacks
<1>5. CASE pc = "pvs"
  <2>1. claims = NoClaims
    BY <1>5 DEF FreshInv
  <2>2. Busy \cap Volumes \subseteq claims'.volumes /\ claims'.released = {} /\ pc' = "released"
    BY <1>5, <2>1, BusyVolume DEF ReadClaims, NoClaims
  <2> QED
    BY <1>1, <1>2, <1>4, <2>2 DEF ClaimsInv
<1>6. CASE pc = "released"
  <2>1. /\ claims'.released = {v \in Volumes : ClusterOf[v] = Mine /\ pv[v] = "released"}
        /\ claims'.volumes = claims.volumes
        /\ pc' = "services"
    BY <1>6 DEF ReadClaims, Kinds
  <2>2. ASSUME NEW v \in Busy \cap Volumes
        PROVE  v \notin claims'.released /\ v \in claims'.volumes
    BY <1>6, <2>1, BusyVolume DEF ClaimsInv
  <2> QED
    BY <1>1, <1>2, <1>4, <2>1, <2>2 DEF ClaimsInv
<1>7. CASE pc = "services"
  <2>1. /\ claims'.services = {b \in services : ClusterOf[b] = Mine}
        /\ claims'.released = claims.released /\ claims'.volumes = claims.volumes
        /\ pc' = "nodes"
    BY <1>7 DEF ReadClaims, Kinds
  <2>2. Busy \cap Balancers \subseteq claims'.services
    BY <2>1, BusyBalancer
  <2> QED
    BY <1>1, <1>2, <1>4, <1>7, <2>1, <2>2 DEF ClaimsInv
<1>8. CASE pc = "nodes"
  <2>1. /\ claims'.nodes = {s \in nodes : ClusterOf[s] = Mine}
        /\ claims'.released = claims.released /\ claims'.volumes = claims.volumes
        /\ claims'.services = claims.services
        /\ pc' = "judged"
    BY <1>8 DEF ReadClaims, Kinds
  <2>2. login => Busy \cap Servers \subseteq claims'.nodes \cup held
    BY <1>2, <2>1 DEF HeldInv, Things
  <2> QED
    BY <1>1, <1>2, <1>4, <1>8, <2>1, <2>2 DEF ClaimsInv
<1> QED
  BY <1>1, <1>5, <1>6, <1>7, <1>8

\* A process that ends takes with it all that was read.
LEMMA ExitOrphans ==
    ASSUME Kinds, WorldInv, Exit
    PROVE  Kinds' /\ WorldInv' /\ FreshInv' /\ BusyInv' /\ GoneInv' /\ HeldInv' /\ ClaimsInv'
<1>1. pc' = "off" /\ inventory' = {} /\ held' = {} /\ unread' = <<>> /\ claims' = NoClaims /\ UNCHANGED world
  BY DEF Exit
<1>2. Busy' = {}
  BY <1>1 DEF Busy
<1> QED
  BY <1>1, <1>2, StillWorld
     DEF Kinds, FreshInv, BusyInv, GoneInv, HeldInv, ClaimsInv, NoClaims, Reading, Listing,
         AfterServers, AfterStacks, world

\* What is busy at the judgement is claimed by what was read.
LEMMA JudgeOrphans == OrphansInv /\ Judge => OrphansInv'
<1> SUFFICES ASSUME OrphansInv, Judge PROVE OrphansInv'
  OBVIOUS
<1> USE DEF OrphansInv
<1>1. ASSUME login, NEW r \in Findings, r \notin idle
      PROVE  FALSE
  <2>1. r \in Busy /\ pc = "judged" /\ unread = <<>>
    BY <1>1 DEF Judge, FreshInv, AfterStacks, Busy, Findings, VolumeFindings, LoadBalancerFindings,
                ServerFindings, ResourceFindings
  <2>2. r \notin VolumeFindings
    BY <2>1 DEF VolumeFindings, ClaimsInv
  <2>3. r \notin LoadBalancerFindings
    BY <2>1 DEF LoadBalancerFindings, ClaimsInv
  <2>4. r \notin ServerFindings
    BY <1>1, <2>1 DEF ServerFindings, ClaimsInv
  <2>5. r \notin ResourceFindings
    BY <1>1, <2>1, OrphansAssumption DEF ResourceFindings, HeldInv, Kinds, Things
  <2> QED
    BY <1>1, <2>2, <2>3, <2>4, <2>5 DEF Findings
<1>2. ReportedWasIdle'
  BY <1>1 DEF ReportedWasIdle, Judge, Exit
<1> QED
  BY <1>2, ExitOrphans DEF Judge

LEMMA FailOrphans == OrphansInv /\ Fail => OrphansInv'
BY ExitOrphans DEF OrphansInv, Fail, ReportedWasIdle

LEMMA StartOrphans == OrphansInv /\ Start => OrphansInv'
<1> SUFFICES ASSUME OrphansInv, Start PROVE OrphansInv'
  OBVIOUS
<1> USE DEF OrphansInv
<1>1. Busy' = {} /\ claims' = NoClaims /\ unread' = Dirs
  BY DEF Start, FreshInv, Busy
<1> QED
  BY <1>1, StillWorld, OrphansAssumption
     DEF Start, Kinds, FreshInv, BusyInv, GoneInv, HeldInv, ClaimsInv, ReportedWasIdle, NoClaims,
         Reading, Listing, AfterServers, AfterStacks, world

----------------------------------------------------------------------------
(* The world.                                                               *)

\* What the world's steps keep, and that no node comes to be held: a state
\* records a server before it joins.
WorldKept ==
    /\ exists' \subseteq Resources /\ state' \subseteq Things
    /\ services' \subseteq Balancers /\ nodes' \subseteq Servers /\ pv' \in [Volumes -> {"none", "bound", "released"}]
    /\ WorldInv'
    /\ nodes \cap state' \subseteq state

LEMMA MoreServersAlive ==
    ASSUME exists \cap Servers \subseteq exists', NEW c, Alive(c) PROVE Alive(c)'
BY DEF Alive

LEMMA ThingSteps ==
    ASSUME OrphansInv, NEW r \in Things,
           CreateThing(r) \/ Record(r) \/ DeleteThing(r) \/ Forget(r)
    PROVE  WorldKept
<1> USE OrphansAssumption DEF OrphansInv, Kinds, WorldInv, WorldKept
<1>1. CASE CreateThing(r)
  BY <1>1, MoreServersAlive DEF CreateThing, Resources
<1>2. CASE Record(r)
  BY <1>2, MoreServersAlive DEF Record
<1>3. CASE DeleteThing(r)
  <2>1. ASSUME NEW x \in Volumes \cup Balancers, x \notin GoneWith(r), Alive(ClusterOf[x])
        PROVE  Alive(ClusterOf[x])'
    BY <1>3, <2>1 DEF DeleteThing, GoneWith, Alive
  <2> QED
    BY <1>3, <2>1 DEF DeleteThing
<1>4. CASE Forget(r)
  BY <1>4, MoreServersAlive DEF Forget
<1> QED
  BY <1>1, <1>2, <1>3, <1>4

LEMMA OtherSteps ==
    ASSUME OrphansInv,
           \/ \E k \in Stacks : RemoveStack(k)
           \/ \E s \in Servers : Membership(s)
           \/ \E v \in Volumes : VolumeStep(v)
           \/ \E b \in Balancers : BalancerStep(b)
    PROVE  WorldKept
<1> USE OrphansAssumption DEF OrphansInv, Kinds, WorldInv, WorldKept
<1>1. ASSUME NEW k \in Stacks, RemoveStack(k) PROVE WorldKept
  BY <1>1, MoreServersAlive DEF RemoveStack
<1>2. ASSUME NEW s \in Servers, Membership(s) PROVE WorldKept
  BY <1>2, MoreServersAlive DEF Membership
<1>3. ASSUME NEW v \in Volumes, VolumeStep(v) PROVE WorldKept
  <2>1. exists \cap Servers \subseteq exists' /\ exists' \subseteq Resources
    BY <1>3 DEF VolumeStep, Resources
  <2>2. pv' \in [Volumes -> {"none", "bound", "released"}]
    BY <1>3 DEF VolumeStep
  <2>3. \A w \in Volumes : pv'[w] # "none" => Alive(ClusterOf[w])
    BY <1>3 DEF VolumeStep
  <2> QED
    BY <1>3, <2>1, <2>2, <2>3, MoreServersAlive DEF VolumeStep
<1>4. ASSUME NEW b \in Balancers, BalancerStep(b) PROVE WorldKept
  <2>1. exists \cap Servers \subseteq exists' /\ exists' \subseteq Resources
    BY <1>4 DEF BalancerStep, Resources
  <2>2. services' \subseteq Balancers /\ \A c \in services' : Alive(ClusterOf[c])
    BY <1>4 DEF BalancerStep
  <2> QED
    BY <1>4, <2>1, <2>2, MoreServersAlive DEF BalancerStep
<1> QED
  BY <1>1, <1>2, <1>3, <1>4

LEMMA WorldOrphans == OrphansInv /\ World => OrphansInv'
<1> SUFFICES ASSUME OrphansInv, World PROVE OrphansInv'
  OBVIOUS
<1> USE DEF OrphansInv
<1>1. WorldKept
  BY ThingSteps, OtherSteps DEF World
<1>2. /\ UNCHANGED <<login, pc, inventory, unread, held, claims>>
      /\ report' = {}
      /\ idle' = IF pc = "off" THEN {} ELSE idle \cup {r \in inventory : Unclaimed(r)'}
  BY DEF World, found
<1>3. Busy' \subseteq Busy /\ ClusterServers' = ClusterServers
  BY <1>2 DEF Busy, FreshInv, ClusterServers
<1>4. BusyInv'
  BY <1>2, <1>3 DEF BusyInv, Busy, FreshInv
<1>5. Kinds' /\ WorldInv' /\ FreshInv' /\ GoneInv' /\ ClaimsInv' /\ ReportedWasIdle'
  BY <1>1, <1>2, <1>3 DEF Kinds, WorldKept, FreshInv, GoneInv, ClaimsInv, ReportedWasIdle
<1>6. ASSUME login, NEW r \in Busy' \cap Things
      PROVE  \/ r \in held
             \/ \E i \in 1..Len(unread) : unread[i] = StackOf[r]
             \/ r \in nodes' \ state' /\ ClusterOf[r] = Mine
  <2>1. CASE r \in nodes \ state
    <3>1. r \notin state'
      BY <1>1, <2>1 DEF WorldKept
    <3>2. ~Unclaimed(r)'
      BY <1>4 DEF BusyInv
    <3>3. r \in nodes' /\ ClusterOf[r] = Mine
      BY <1>1, <3>1, <3>2, OrphansAssumption DEF WorldKept, Unclaimed, Things, Resources
    <3> QED
      BY <3>1, <3>3
  <2> QED
    BY <1>3, <1>6, <2>1 DEF HeldInv
<1>7. HeldInv'
  BY <1>2, <1>6 DEF HeldInv
<1> QED
  BY <1>4, <1>5, <1>7

----------------------------------------------------------------------------

\* The inductive invariant holds of every behavior.
THEOREM OrphansHold == Spec => []OrphansInv
<1>1. OrphansInv /\ UNCHANGED vars => OrphansInv'
  BY StillWorld
     DEF OrphansInv, vars, found, world, Kinds, FreshInv, BusyInv, Unclaimed, GoneInv, HeldInv,
         ClaimsInv, ReportedWasIdle, Busy, ClusterServers
<1>2. OrphansInv /\ [Next]_vars => OrphansInv'
  BY <1>1, StartOrphans, InventoryOrphans, ReadHeldOrphans, ClusterClaimsOrphans,
     ReadClaimsOrphans, JudgeOrphans, FailOrphans, WorldOrphans DEF Next
<1> QED
  BY InitOrphans, <1>2, PTL DEF Spec

\* Whatever applies, destroys and controllers do between the report's calls, it
\* names nothing that was in use all along.
THEOREM NothingInUseIsReported == Spec => []ReportedWasIdle
<1>1. OrphansInv => ReportedWasIdle
  BY DEF OrphansInv
<1> QED
  BY <1>1, OrphansHold, PTL

----------------------------------------------------------------------------
(* What is settled is found.                                                *)

\* A settled resource stays there, unclaimed; it is listed when its kind is, no
\* state holds it, and of what the cluster says only that it is released counts.
SettledInv ==
    /\ pc # "off" => \A r \in settled :
         /\ r \in exists /\ Unclaimed(r) /\ r \notin held
         /\ r \notin claims.services /\ r \notin claims.nodes
         /\ r \in claims.volumes =>
              /\ ClusterOf[r] = Mine
              /\ pc = "released" => pv[r] = "released"
              /\ pc # "released" => r \in claims.released
         /\ pc # "volumes" /\ r \in Volumes => r \in inventory
         /\ pc \notin {"volumes", "balancers"} /\ r \in Balancers => r \in inventory
         /\ pc \notin {"volumes", "balancers", "servers"} /\ r \in Servers => r \in inventory
         /\ pc \notin Listing /\ r \in Others => r \in inventory
    /\ SettledIsReported

LEMMA SettledStart == OrphansInv /\ SettledInv /\ Start => SettledInv'
BY OrphansAssumption
   DEF OrphansInv, FreshInv, SettledInv, Start, NoClaims, Unclaimed, SettledIsReported, Listing, world

LEMMA SettledInventory == OrphansInv /\ SettledInv /\ Inventory => SettledInv'
<1> SUFFICES ASSUME OrphansInv, SettledInv, Inventory PROVE SettledInv'
  OBVIOUS
<1>1. UNCHANGED <<world, held, claims, report, settled>> /\ pc \in Listing
      /\ inventory \subseteq inventory' /\ pc' \notin {"off", "volumes"}
  BY DEF Inventory, List, Listing
<1>2. claims = NoClaims
  BY <1>1 DEF OrphansInv, FreshInv, Listing
<1>3. ASSUME NEW r \in settled
      PROVE  /\ r \in exists' /\ Unclaimed(r)' /\ r \notin held'
             /\ r \notin claims'.services /\ r \notin claims'.nodes /\ r \notin claims'.volumes
             /\ r \in Volumes => r \in inventory'
             /\ pc' \notin {"volumes", "balancers"} /\ r \in Balancers => r \in inventory'
             /\ pc' \notin {"volumes", "balancers", "servers"} /\ r \in Servers => r \in inventory'
             /\ pc' \notin Listing /\ r \in Others => r \in inventory'
  <2>1. r \in exists /\ Unclaimed(r) /\ r \notin held
    BY <1>1, <1>3 DEF SettledInv, Listing
  <2>2. Unclaimed(r)'
    BY <1>1, <2>1 DEF Unclaimed, world
  <2>3. r \in Volumes => r \in inventory'
    BY <1>1, <1>3, <2>1 DEF SettledInv, Inventory, List, Listing
  <2>4. pc' # "balancers" /\ r \in Balancers => r \in inventory'
    BY <1>1, <1>3, <2>1 DEF SettledInv, Inventory, List, Listing
  <2>5. pc' \notin {"balancers", "servers"} /\ r \in Servers => r \in inventory'
    BY <1>1, <1>3, <2>1 DEF SettledInv, Inventory, List, Listing
  <2>6. pc' \notin Listing /\ r \in Others => r \in inventory'
    BY <1>1, <1>3, <2>1 DEF SettledInv, Inventory, List, Listing
  <2> QED
    BY <1>1, <1>2, <2>1, <2>2, <2>3, <2>4, <2>5, <2>6 DEF world, NoClaims, Listing
<1> QED
  BY <1>1, <1>3 DEF SettledInv, SettledIsReported

LEMMA SettledReads ==
    OrphansInv /\ SettledInv /\ (ReadHeld \/ ClusterClaims) => SettledInv'
<1> SUFFICES ASSUME OrphansInv, SettledInv, ReadHeld \/ ClusterClaims PROVE SettledInv'
  OBVIOUS
<1>1. /\ UNCHANGED <<world, inventory, claims, report, settled>>
      /\ pc \in {"stacks", "judge"} /\ pc' \in {"stacks", "judge", "pvs", "judged"}
      /\ held' \subseteq held \cup state
  BY DEF ReadHeld, ClusterClaims, found
<1>2. claims = NoClaims
  BY <1>1 DEF OrphansInv, FreshInv
<1> QED
  BY <1>1, <1>2 DEF SettledInv, SettledIsReported, Unclaimed, Listing, world, NoClaims

LEMMA SettledClaims == OrphansInv /\ SettledInv /\ ReadClaims => SettledInv'
<1> SUFFICES ASSUME OrphansInv, SettledInv, ReadClaims PROVE SettledInv'
  OBVIOUS
<1>1. /\ UNCHANGED <<world, inventory, held, report, settled>>
      /\ pc \in {"pvs", "released", "services", "nodes"}
      /\ pc' \in {"released", "services", "nodes", "judged"}
      /\ (pc' = "released") <=> (pc = "pvs")
  BY DEF ReadClaims
<1>2. claims \in [volumes : SUBSET Volumes, released : SUBSET Volumes,
                  services : SUBSET Balancers, nodes : SUBSET Servers]
  BY DEF OrphansInv, Kinds
<1>3. ASSUME NEW r \in settled
      PROVE  /\ Unclaimed(r)'
             /\ r \notin claims'.services /\ r \notin claims'.nodes
             /\ r \in claims'.volumes =>
                  /\ ClusterOf[r] = Mine
                  /\ pc' = "released" => pv'[r] = "released"
                  /\ pc' # "released" => r \in claims'.released
  <2>1. Unclaimed(r) /\ r \in exists /\ exists \subseteq Resources
    BY <1>1, <1>3 DEF SettledInv, OrphansInv, Kinds
  <2>2. /\ r \notin claims.services /\ r \notin claims.nodes
        /\ r \in claims.volumes =>
             /\ ClusterOf[r] = Mine
             /\ pc = "released" => pv[r] = "released"
             /\ pc # "released" => r \in claims.released
    BY <1>1, <1>3 DEF SettledInv
  <2>3. CASE pc = "pvs"
    <3>1. claims'.volumes = {v \in Volumes : ClusterOf[v] = Mine /\ pv[v] # "none"}
          /\ claims'.services = claims.services /\ claims'.nodes = claims.nodes
      BY <1>2, <2>3 DEF ReadClaims
    <3>2. ASSUME r \in claims'.volumes PROVE pv[r] = "released"
      <4>1. r \in Volumes /\ ClusterOf[r] = Mine /\ pv[r] # "none"
        BY <3>1, <3>2
      <4>2. pv[r] # "bound"
        BY <2>1, <4>1, OrphansAssumption DEF Unclaimed, Resources, Things
      <4>3. pv[r] \in {"none", "bound", "released"}
        BY <4>1 DEF OrphansInv, Kinds
      <4> QED
        BY <4>1, <4>2, <4>3
    <3> QED
      BY <1>1, <2>1, <2>2, <2>3, <3>1, <3>2 DEF Unclaimed, world
  <2>4. CASE pc = "released"
    <3>1. claims'.released = {v \in Volumes : ClusterOf[v] = Mine /\ pv[v] = "released"}
          /\ claims'.services = claims.services /\ claims'.nodes = claims.nodes
          /\ claims'.volumes = claims.volumes
      BY <1>2, <2>4 DEF ReadClaims
    <3> QED
      BY <1>1, <1>2, <2>1, <2>2, <2>4, <3>1 DEF Unclaimed, world
  <2>5. CASE pc = "services"
    <3>1. claims'.services = {b \in services : ClusterOf[b] = Mine}
          /\ claims'.released = claims.released /\ claims'.nodes = claims.nodes
          /\ claims'.volumes = claims.volumes
      BY <1>2, <2>5 DEF ReadClaims
    <3> QED
      BY <1>1, <2>1, <2>2, <2>5, <3>1, OrphansAssumption
         DEF Unclaimed, world, OrphansInv, Kinds, Resources, Things
  <2>6. CASE pc = "nodes"
    <3>1. claims'.nodes = {s \in nodes : ClusterOf[s] = Mine}
          /\ claims'.released = claims.released /\ claims'.services = claims.services
          /\ claims'.volumes = claims.volumes
      BY <1>2, <2>6 DEF ReadClaims
    <3> QED
      BY <1>1, <2>1, <2>2, <2>6, <3>1, OrphansAssumption
         DEF Unclaimed, world, OrphansInv, Kinds, Resources, Things
  <2> QED
    BY <1>1, <2>3, <2>4, <2>5, <2>6
<1> QED
  BY <1>1, <1>3 DEF SettledInv, SettledIsReported, Listing, world

LEMMA SettledJudge == OrphansInv /\ SettledInv /\ Judge => SettledInv'
<1> SUFFICES ASSUME OrphansInv, SettledInv, Judge, NEW r \in settled PROVE r \in Findings
  BY DEF Judge, Exit, SettledInv, SettledIsReported
<1>1. r \in Resources
  BY DEF Judge, SettledInv, OrphansInv, Kinds
<1>2. CASE r \in Volumes
  BY <1>2 DEF Judge, SettledInv, Findings, VolumeFindings
<1>3. CASE r \in Balancers
  BY <1>3 DEF Judge, SettledInv, Findings, LoadBalancerFindings
<1>4. CASE r \in Servers
  BY <1>4 DEF Judge, SettledInv, Findings, ServerFindings
<1>5. CASE r \in Others
  BY <1>5 DEF Judge, SettledInv, Findings, ResourceFindings, Listing
<1> QED
  BY <1>1, <1>2, <1>3, <1>4, <1>5 DEF Resources, Things

LEMMA SettledWorld == OrphansInv /\ SettledInv /\ World => SettledInv'
<1> SUFFICES ASSUME OrphansInv, SettledInv, World PROVE SettledInv'
  OBVIOUS
<1>1. /\ UNCHANGED <<pc, inventory, held, claims>>
      /\ settled' = IF pc = "off" THEN {}
                      ELSE {r \in settled : /\ r \in exists' /\ Unclaimed(r)'
                                            /\ r \in Volumes => pv'[r] = pv[r]}
  BY DEF World, found
<1>2. claims.volumes \subseteq Volumes
  BY DEF OrphansInv, Kinds
<1> QED
  BY <1>1, <1>2 DEF SettledInv, SettledIsReported

\* A report that gets through misses no orphan that was left alone from its
\* first call to its last.
THEOREM OrphansAreReported == Spec => []SettledIsReported
<1>1. Init => SettledInv
  BY DEF Init, SettledInv, SettledIsReported
<1>2. OrphansInv /\ SettledInv /\ Fail => SettledInv'
  BY DEF Fail, Exit, SettledInv, SettledIsReported
<1>3. OrphansInv /\ SettledInv /\ UNCHANGED vars => SettledInv'
  BY DEF SettledInv, SettledIsReported, vars, world, found, Unclaimed
<1>4. OrphansInv /\ SettledInv /\ [Next]_vars => SettledInv'
  BY <1>2, <1>3, SettledStart, SettledInventory, SettledReads, SettledClaims, SettledJudge,
     SettledWorld DEF Next
<1>5. SettledInv => SettledIsReported
  BY DEF SettledInv
<1> QED
  BY <1>1, <1>4, <1>5, OrphansHold, PTL DEF Spec
=============================================================================
