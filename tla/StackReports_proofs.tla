--------------------------- MODULE StackReports_proofs ---------------------------
(***************************************************************************)
(* What the layers' records are worth, for any platforms, configurations,  *)
(* commands, faults, kills and reports: an apply that ends well, a destroy *)
(* that does, and a report that reassures.                                 *)
(***************************************************************************)
EXTENDS StackReports, Integers, TLAPS, WellFoundedInduction, FiniteSetTheorems

----------------------------------------------------------------------------
(* The inductive invariant.                                                 *)

\* Where a command of each kind can be.
PhaseInv ==
    /\ whole => all
    /\ phase = "idle" => left = {}
    /\ phase = "next" => verb \in {"apply", "destroy", "refresh"}
    /\ phase \in {"plan", "creating"} => verb = "apply"
    /\ phase = "reading" => verb = "refresh"
    /\ phase = "deleting" => verb \in {"apply", "destroy"}
    /\ phase = "cluster" => verb \in {"apply", "destroy"} /\ whole
    /\ phase = "cluster" /\ verb = "destroy" => left = {}
    /\ phase \in {"plan", "cluster"} /\ verb = "apply" /\ all => left = world.layers
    /\ phase \in {"creating", "deleting", "reading"} => left # {}

\* What a killed update leaves is pending, and is all that no state records.
RecordsInv ==
    /\ pending \in [world.layers -> SUBSET Resource]
    /\ \A l \in world.layers : pending[l] \subseteq ResourcesOf(l)
    /\ spent["kills"] = 0 => \A l \in world.layers : pending[l] = {}
    /\ \A r \in live : r \in recorded \/ \E l \in world.layers : r \in pending[l]
    /\ \A r \in recorded : \E l \in world.layers : r \in ResourcesOf(l)
    /\ ~rebuilt => recorded \subseteq live

\* The layers a command over all of them has finished are as it leaves them.
Ended == phase = "idle" /\ outcome = "succeeded"
Unedited == planned[3] = spent["edits"]

LayersInv ==
    /\ planned[3] <= spent["edits"]
    /\ verb = "destroy" /\ all /\ (phase \in {"next", "deleting", "cluster"} \/ Ended) =>
           \A l \in world.layers \ left : Recorded(l) = {}
    /\ verb = "apply" /\ all /\ (phase \in {"next", "creating", "deleting"} \/ Ended) /\ Unedited =>
           \A l \in world.layers \ left : Recorded(l) = Declared(l, settings)
    /\ verb = "apply" /\ phase \in {"creating", "deleting"} /\ Unedited => config = settings
    /\ verb = "apply" /\ phase = "deleting" => Wanted(At) \subseteq recorded

\* What runs has what it needs of its own layer; every other need is the first
\* layer's, which an apply of every layer takes first; and what an apply has
\* come to delete from ran its program to the end.
Upheld ==
    spent["kills"] = 0 => \A l \in Layer : \A r \in live \intersect ResourcesOf(l) :
                              Needs(r) \intersect ResourcesOf(l) \subseteq live

FirstIsThere ==
    verb = "apply" /\ all /\ phase \in {"next", "creating", "deleting"} /\ 1 \notin left =>
        ResourcesOf(1) \subseteq recorded

ProgramEnded == verb = "apply" /\ phase = "deleting" => ~ProgramFails(At, config)

WaitsInv == Upheld /\ FirstIsThere /\ ProgramEnded

\* The checkpoint says that an update runs, or how it ended; a tier that failed
\* and was replaced by another checkout does not publish what this one reads.
StacksInv ==
    /\ last \in [Project -> {"never", "running", "failed", "interrupted", "succeeded"}]
    /\ phase \in {"creating", "deleting", "reading"} => last[At] = "running"
    /\ phase = "cluster" => last[0] = "running"
    /\ phase = "failing" => published # "ours" \/ \E p \in Project : last[p] = "failed"

\* While nothing happens the rows say what is there.
RowIs(p) == IF report = "status" THEN StatusRow(p) ELSE DriftRow(p)

RowsInv ==
    /\ report \in {"none", "status", "drift"}
    /\ report # "none" /\ calm => \A p \in DOMAIN rows : rows[p].err \/ rows[p] = RowIs(p)

WatchedInv == TypeOK /\ PhaseInv /\ RecordsInv /\ LayersInv /\ WaitsInv /\ StacksInv /\ RowsInv

----------------------------------------------------------------------------
(* What the tables say of a layer's resources.                              *)

LEMMA ComponentsAre ==
    /\ Components(1) = {"cni", "hcloud", "hcloud-ccm", "hcloud-csi"}
    /\ Components(2) = {"allow", "default-deny"}
    /\ Components(3) = {"cert-manager", "external-secrets", "image-policies", "keda",
                        "kubelet-serving-cert-approver", "letsencrypt", "metrics-server",
                        "policy-controller", "pulumi-esc"}
    /\ Components(4) = {"load-balancer", "traefik"}
    /\ Components(5) = {"argo-cd", "repository-credential", "root"}
<1>1. \A l \in Layer : Components(l) = {Table[l][i][1] : i \in DOMAIN Table[l]}
  BY DEF Components, Keys, Elements
<1>2. Components(1) = {NodePlatform[i][1] : i \in 1..4}
  BY <1>1 DEF Layer, Table, NodePlatform
<1>3. Components(2) = {NetworkPolicy[i][1] : i \in 1..2}
  BY <1>1 DEF Layer, Table, NetworkPolicy
<1>4. Components(3) = {ClusterServices[i][1] : i \in 1..9}
  BY <1>1 DEF Layer, Table, ClusterServices
<1>5. Components(4) = {Ingress[i][1] : i \in 1..2}
  BY <1>1 DEF Layer, Table, Ingress
<1>6. Components(5) = {Gitops[i][1] : i \in 1..3}
  BY <1>1 DEF Layer, Table, Gitops
<1>7. /\ 1..4 = {1, 2, 3, 4} /\ 1..2 = {1, 2} /\ 1..3 = {1, 2, 3}
      /\ 1..9 = {1, 2, 3, 4, 5, 6, 7, 8, 9}
  OBVIOUS
<1>8. Components(1) = {"cni", "hcloud", "hcloud-ccm", "hcloud-csi"}
  BY <1>2, <1>7 DEF NodePlatform
<1>9. Components(2) = {"allow", "default-deny"}
  BY <1>3, <1>7 DEF NetworkPolicy
<1>10. Components(4) = {"load-balancer", "traefik"}
  BY <1>5, <1>7 DEF Ingress
<1>11. Components(5) = {"argo-cd", "repository-credential", "root"}
  BY <1>6, <1>7 DEF Gitops
<1>12. Components(3) = {"cert-manager", "external-secrets", "image-policies", "keda",
                        "kubelet-serving-cert-approver", "letsencrypt", "metrics-server",
                        "policy-controller", "pulumi-esc"}
  BY <1>4, <1>7 DEF ClusterServices
<1> QED
  BY <1>8, <1>9, <1>10, <1>11, <1>12

\* A resource is one layer's.
LEMMA LayersApart ==
    ASSUME NEW l \in Layer, NEW m \in Layer, l # m
    PROVE  ResourcesOf(l) \intersect ResourcesOf(m) = {}
<1> DEFINE Of(k) == Components(k) \union (IF k = 4 THEN {"records"} ELSE {})
<1>1. Of(l) \intersect Of(m) = {}
  BY ComponentsAre DEF Layer
<1>2. \A k : \A r \in ResourcesOf(k) : r[1] \in Of(k)
  BY DEF ResourcesOf, PartsOf
<1> QED
  BY <1>1, <1>2

\* What a layer's program declares is of its layer.
LEMMA DeclaredOfLayer ==
    ASSUME NEW l, NEW s
    PROVE  Declared(l, s) \subseteq ResourcesOf(l)
<1> DEFINE Made == Deployed(l, s) \union (IF l = 4 /\ s.domain /\ s.dnsZone THEN {"records"} ELSE {})
           Of == Components(l) \union (IF l = 4 THEN {"records"} ELSE {})
<1>1. Made \subseteq Of
  BY DEF Deployed
<1>2. \A A, B : A \subseteq B => PartsOf(A) \subseteq PartsOf(B)
  BY DEF PartsOf
<1>3. Declared(l, s) = PartsOf(Made) /\ ResourcesOf(l) = PartsOf(Of)
  BY DEF Declared, ResourcesOf
<1> QED
  BY <1>1, <1>2, <1>3

\* Of the layers that are left, one comes first.
LEMMA LeastLeft ==
    ASSUME left \subseteq Layer, left # {}
    PROVE  \E l \in left : \A m \in left : l <= m
<1> DEFINE Least(l) == l \in left /\ \A m \in left : l <= m
<1>0. \A m \in left : m = 1 \/ m = 2 \/ m = 3 \/ m = 4 \/ m = 5
  BY DEF Layer
<1>1. 1 \in left => Least(1)
  BY <1>0
<1>2. 1 \notin left /\ 2 \in left => Least(2)
  BY <1>0
<1>3. 1 \notin left /\ 2 \notin left /\ 3 \in left => Least(3)
  BY <1>0
<1>4. 1 \notin left /\ 2 \notin left /\ 3 \notin left /\ 4 \in left => Least(4)
  BY <1>0
<1>5. 1 \notin left /\ 2 \notin left /\ 3 \notin left /\ 4 \notin left => Least(5)
  BY <1>0
<1> QED
  BY <1>1, <1>2, <1>3, <1>4, <1>5

\* And one comes last.
LEMMA MostLeft ==
    ASSUME left \subseteq Layer, left # {}
    PROVE  \E l \in left : \A m \in left : m <= l
<1> DEFINE Most(l) == l \in left /\ \A m \in left : m <= l
<1>0. \A m \in left : m = 1 \/ m = 2 \/ m = 3 \/ m = 4 \/ m = 5
  BY DEF Layer
<1>1. 5 \in left => Most(5)
  BY <1>0
<1>2. 5 \notin left /\ 4 \in left => Most(4)
  BY <1>0
<1>3. 5 \notin left /\ 4 \notin left /\ 3 \in left => Most(3)
  BY <1>0
<1>4. 5 \notin left /\ 4 \notin left /\ 3 \notin left /\ 2 \in left => Most(2)
  BY <1>0
<1>5. 5 \notin left /\ 4 \notin left /\ 3 \notin left /\ 2 \notin left => Most(1)
  BY <1>0
<1> QED
  BY <1>1, <1>2, <1>3, <1>4, <1>5

\* The layer at hand is one of those that are left.
LEMMA AtIsLeft ==
    ASSUME left \subseteq Layer, left # {}
    PROVE  At \in left
<1>1. \E l \in left : \A m \in left : IF verb = "destroy" THEN m <= l ELSE l <= m
  BY LeastLeft, MostLeft
<1> QED
  BY <1>1 DEF At

----------------------------------------------------------------------------
(* What waits for what.                                                     *)

\* A set of numbers has a least one.
LEMMA LeastIsThere ==
    ASSUME NEW S \in SUBSET Nat, S # {}
    PROVE  \E m \in S : \A x \in S : m <= x
<1> DEFINE Upto(x) == {y \in S : y <= x}
           Family == {Upto(x) : x \in S}
<1>1. \A x \in S : IsFiniteSet(Upto(x))
  <2> SUFFICES ASSUME NEW x \in S  PROVE IsFiniteSet(Upto(x))
    OBVIOUS
  <2>1. x \in Nat /\ \A y \in S : y <= x => y \in 0..x
    OBVIOUS
  <2>2. IsFiniteSet(0..x)
    BY <2>1, FS_Interval
  <2> QED
    BY <2>1, <2>2, FS_Subset
<1>2. Family \subseteq FiniteSubsetsOf(S)
  BY <1>1 DEF FiniteSubsetsOf
<1>3. PICK T \in Family : \A U \in Family : ~(<<U, T>> \in StrictSubsetOrdering(S))
  <2>1. IsWellFoundedOn(StrictSubsetOrdering(S), FiniteSubsetsOf(S))
    BY FS_StrictSubsetOrderingWellFounded
  <2>2. Family # {}
    OBVIOUS
  <2> HIDE DEF Family
  <2> QED
    BY <1>2, <2>1, <2>2, WFMin
<1>4. PICK m \in S : T = Upto(m)
  BY <1>3
<1>5. ASSUME NEW y \in S, y < m  PROVE FALSE
  <2>1. /\ m \in Nat /\ y \in Nat /\ m <= m /\ ~(m <= y)
        /\ \A z \in S : z <= y => z <= m
    BY <1>5
  <2>2. Upto(y) \subseteq Upto(m) /\ m \in Upto(m) /\ m \notin Upto(y)
    BY <2>1
  <2>3. <<Upto(y), T>> \in StrictSubsetOrdering(S)
    BY <2>2, <1>4 DEF StrictSubsetOrdering
  <2> QED
    BY <2>3, <1>3
<1> QED
  BY <1>5

\* The place of a component in its layer, the records behind all of them, and
\* of a resource in its component.
Place(l, c) == IF c = "records" THEN Len(Order[l]) + 1
               ELSE CHOOSE k \in DOMAIN Order[l] : Order[l][k] = c

PartPlace(part) ==
    CASE part = "target" -> 2
      [] part \in {"label", "store", "application", "attachment", "services"} -> 1
      [] OTHER -> 0

Weight(l, r) == 3 * Place(l, r[1]) + PartPlace(r[2])

LEMMA PlaceIs ==
    ASSUME NEW l \in Layer, NEW c \in Components(l)
    PROVE  /\ Place(l, c) \in Nat \ {0} /\ Place(l, c) <= Len(Order[l])
           /\ Len(Order[l]) \in Nat /\ c # "records"
           /\ \A a \in After(c) : a \in Components(l) /\ Place(l, a) < Place(l, c)
<1>1. /\ Order[l] \in Seq(Components(l)) /\ \E k \in DOMAIN Order[l] : Order[l][k] = c
      /\ \A i, j \in DOMAIN Order[l] : Order[l][i] = Order[l][j] => i = j
      /\ \A i \in DOMAIN Order[l] : After(Order[l][i]) \subseteq {Order[l][j] : j \in 1..(i - 1)}
  <2>1. /\ Order[l] \in Seq(Components(l)) /\ Elements(Order[l]) = Components(l)
        /\ \A i, j \in DOMAIN Order[l] : Order[l][i] = Order[l][j] => i = j
        /\ \A i \in DOMAIN Order[l] : After(Order[l][i]) \subseteq {Order[l][j] : j \in 1..(i - 1)}
    BY OrderAssumption, Zenon
  <2>2. \E k \in DOMAIN Order[l] : Order[l][k] = c
    BY <2>1, Zenon DEF Elements
  <2> QED
    BY <2>1, <2>2, Zenon
<1>2. PICK n \in Nat : n = Len(Order[l]) /\ DOMAIN Order[l] = 1..n
  BY <1>1
<1>3. \A d \in Components(l) : d # "records"
  BY ComponentsAre DEF Layer
<1>4. \A k \in 1..n : Order[l][k] \in Components(l) /\ Place(l, Order[l][k]) = k
  <2>1. \A k \in 1..n : Order[l][k] \in Components(l)
    BY <1>1, <1>2
  <2> QED
    BY <1>1, <1>2, <1>3, <2>1 DEF Place
<1>5. PICK k \in 1..n : Order[l][k] = c
  BY <1>1, <1>2
<1>6. Place(l, c) = k
  BY <1>4, <1>5
<1>7. ASSUME NEW a \in After(c)  PROVE a \in Components(l) /\ Place(l, a) < Place(l, c)
  <2>1. PICK j \in 1..(k - 1) : Order[l][j] = a
    <3>1. k \in DOMAIN Order[l]
      BY <1>2, <1>5, Zenon
    <3>2. After(c) \subseteq {Order[l][j] : j \in 1..(k - 1)}
      BY <1>1, <1>5, <3>1, Zenon
    <3> QED
      BY <3>2
  <2>2. j \in 1..n /\ j < k
    BY <1>2
  <2> QED
    BY <1>4, <1>6, <2>1, <2>2
<1> QED
  BY <1>2, <1>3, <1>5, <1>6, <1>7

\* A resource is a part of a component of its layer, or the records.
LEMMA ResourceIs ==
    ASSUME NEW l \in Layer, NEW r \in ResourcesOf(l)
    PROVE  \E c, part : /\ r = <<c, part>> /\ part \in Parts(c)
                        /\ c \in Components(l) \/ (c = "records" /\ l = 4)
BY DEF ResourcesOf, PartsOf

LEMMA ResourceIf ==
    ASSUME NEW l \in Layer, NEW c, NEW part \in Parts(c), c \in Components(l) \/ (c = "records" /\ l = 4)
    PROVE  <<c, part>> \in ResourcesOf(l)
BY DEF ResourcesOf, PartsOf

LEMMA ReturnedIs ==
    ASSUME NEW l \in Layer, NEW c \in Components(l)
    PROVE  Returned(c) \in ResourcesOf(l) /\ Returned(c)[1] = c
<1>1. \E part \in Parts(c) : Returned(c) = <<c, part>>
  <2>1. "pulumi-esc" \notin Charts /\ "root" \notin Charts /\ "load-balancer" \notin Charts
    BY DEF Charts, Namespace
  <2> QED
    BY <2>1, ComponentsAre DEF Returned, Parts, Layer
<1> QED
  BY <1>1, ResourceIf

LEMMA WeightIs ==
    ASSUME NEW l \in Layer, NEW r \in ResourcesOf(l)
    PROVE  Weight(l, r) \in 0..(3 * Len(Order[l]) + 5) /\ Len(Order[l]) \in Nat
<1>1. PICK c, part : r = <<c, part>> /\ (c \in Components(l) \/ (c = "records" /\ l = 4))
  BY ResourceIs
<1>2. Len(Order[l]) \in Nat
  BY OrderAssumption
<1>3. Place(l, c) \in Nat /\ Place(l, c) <= Len(Order[l]) + 1
  <2>1. CASE c = "records"
    BY <1>2, <2>1 DEF Place
  <2>2. CASE c \in Components(l)
    BY <1>2, <2>2, PlaceIs
  <2> QED
    BY <1>1, <2>1, <2>2
<1>4. PartPlace(part) \in 0..2
  BY DEF PartPlace
<1> QED
  BY <1>1, <1>2, <1>3, <1>4 DEF Weight

\* What a resource follows is of its layer, and before it.
LEMMA Before ==
    ASSUME NEW l \in Layer, NEW r \in ResourcesOf(l),
           NEW q \in Within(r) \union {Returned(a) : a \in After(r[1])}
    PROVE  q \in ResourcesOf(l) /\ Weight(l, q) < Weight(l, r)
<1>1. PICK c, part : r = <<c, part>> /\ part \in Parts(c) /\ (c \in Components(l) \/ (c = "records" /\ l = 4))
  BY ResourceIs
<1>2. Len(Order[l]) \in Nat
  BY OrderAssumption
<1>3. PartPlace(part) \in Nat /\ PartPlace(q[2]) \in 0..2
  BY DEF PartPlace
<1>4. CASE q \in {Returned(a) : a \in After(c)}
  <2>1. PICK a \in After(c) : q = Returned(a)
    BY <1>4
  <2>2. c \in Components(l)
    <3>1. "records" \notin Component
      BY ComponentsAre DEF Component, Layer
    <3> QED
      BY <1>1, <2>1, <3>1 DEF After
  <2>3. a \in Components(l) /\ Place(l, a) < Place(l, c)
    BY <2>1, <2>2, PlaceIs
  <2>4. q \in ResourcesOf(l) /\ q[1] = a
    BY <2>1, <2>3, ReturnedIs
  <2>5. Place(l, a) \in Nat /\ Place(l, c) \in Nat
    BY <2>2, <2>3, PlaceIs
  <2>6. Weight(l, q) = 3 * Place(l, a) + PartPlace(q[2]) /\ Weight(l, r) = 3 * Place(l, c) + PartPlace(part)
    BY <1>1, <2>4 DEF Weight
  <2> QED
    BY <1>3, <2>3, <2>4, <2>5, <2>6
<1>5. CASE q \in Within(r)
  <2>1. CASE part = "rrsets"
    <3>1. q = <<"load-balancer", "balancer">>
      BY <1>1, <1>5, <2>1 DEF Within
    <3>2. c = "records" /\ l = 4
      <4>1. c # "records" => part \in {"release", "label", "credential", "store", "project",
                "application", "balancer", "attachment", "services", "target", "object"}
        BY <1>1 DEF Parts
      <4>2. "records" \notin Components(l)
        BY PlaceIs
      <4> QED
        BY <1>1, <2>1, <4>1, <4>2
    <3>3. "load-balancer" \in Components(4) /\ "balancer" \in Parts("load-balancer")
      BY ComponentsAre DEF Parts, Charts, Namespace
    <3>4. Place(l, "load-balancer") \in Nat /\ Place(l, "load-balancer") <= Len(Order[l])
      BY <3>2, <3>3, PlaceIs DEF Layer
    <3>5. q \in ResourcesOf(l)
      BY <3>1, <3>2, <3>3, ResourceIf
    <3>6. Weight(l, q) = 3 * Place(l, "load-balancer") + PartPlace("balancer") /\ PartPlace("balancer") = 0
      BY <3>1 DEF Weight, PartPlace
    <3>7. Weight(l, r) = 3 * (Len(Order[l]) + 1) + PartPlace(part)
      BY <1>1, <3>2 DEF Weight, Place
    <3> QED
      BY <1>2, <1>3, <3>4, <3>5, <3>6, <3>7
  <2>2. CASE part # "rrsets"
    <3>1. q[1] = c /\ q = <<c, q[2]>> /\ PartPlace(q[2]) < PartPlace(part)
      BY <1>1, <1>5, <2>2 DEF Within, PartPlace
    <3>2. q[2] \in Parts(c)
      BY <1>1, <1>5, <2>2 DEF Within, Parts
    <3>3. q \in ResourcesOf(l)
      BY <1>1, <3>1, <3>2, ResourceIf
    <3>4. Place(l, c) \in Nat
      BY <1>1, <1>2, PlaceIs DEF Place
    <3>5. Weight(l, q) = 3 * Place(l, c) + PartPlace(q[2]) /\ Weight(l, r) = 3 * Place(l, c) + PartPlace(part)
      BY <1>1, <3>1 DEF Weight
    <3> QED
      BY <1>3, <3>1, <3>3, <3>4, <3>5
  <2> QED
    BY <2>1, <2>2
<1> QED
  BY <1>1, <1>4, <1>5

\* Of resources of one layer, one comes first and one comes last.
LEMMA FirstAndLast ==
    ASSUME NEW l \in Layer, NEW S \in SUBSET ResourcesOf(l), S # {}
    PROVE  /\ \E r \in S : \A q \in S : Weight(l, r) <= Weight(l, q)
           /\ \E r \in S : \A q \in S : Weight(l, q) <= Weight(l, r)
<1> DEFINE top == 3 * Len(Order[l]) + 5
           Up == {Weight(l, r) : r \in S}
           Down == {top - Weight(l, r) : r \in S}
<1>1. top \in Nat /\ \A r \in S : Weight(l, r) \in 0..top
  <2>1. Len(Order[l]) \in Nat
    BY OrderAssumption
  <2> QED
    BY <2>1, WeightIs
<1>2. Up \in SUBSET Nat /\ Up # {}
  BY <1>1
<1>3. Down \in SUBSET Nat /\ Down # {}
  <2> HIDE DEF top
  <2> QED
    BY <1>1
<1>4. PICK u \in Up : \A x \in Up : u <= x
  <2> HIDE DEF Up
  <2> QED
    BY <1>2, LeastIsThere
<1>5. PICK d \in Down : \A x \in Down : d <= x
  <2> HIDE DEF Down
  <2> QED
    BY <1>3, LeastIsThere
<1>6. \E r \in S : \A q \in S : Weight(l, r) <= Weight(l, q)
  BY <1>4
<1>7. \E r \in S : \A q \in S : Weight(l, q) <= Weight(l, r)
  <2>1. PICK r \in S : d = top - Weight(l, r)
    BY <1>5
  <2>2. \A q \in S : top - Weight(l, r) <= top - Weight(l, q)
    BY <1>5, <2>1
  <2> HIDE DEF top
  <2> QED
    BY <1>1, <2>2
<1> QED
  BY <1>6, <1>7

\* A program that does not fail declares every component that does not decline.
LEMMA MadeAre ==
    ASSUME NEW l \in Layer, NEW s, ~ProgramFails(l, s)
    PROVE  Deployed(l, s) = {c \in Components(l) : ~Declines(c, s)}
<1>1. \A i \in DOMAIN Order[l] : Order[l][i] \in Components(l) /\ \A j \in 1..i : j \in DOMAIN Order[l]
  <2>1. Order[l] \in Seq(Components(l))
    BY OrderAssumption
  <2> QED
    BY <2>1
<1>2. \A c \in Components(l) : \E k \in DOMAIN Order[l] : Order[l][k] = c
  BY OrderAssumption DEF Elements
<1> QED
  BY <1>1, <1>2 DEF Deployed, ProgramFails

\* The rows of the tables, and what each component follows.
LEMMA RowsAre ==
    Rows = {<<"cni", {}>>, <<"hcloud", {"cni"}>>, <<"hcloud-ccm", {"cni", "hcloud"}>>,
            <<"hcloud-csi", {"hcloud", "hcloud-ccm"}>>}
           \union {<<"allow", {}>>, <<"default-deny", {"allow"}>>}
           \union {<<"cert-manager", {}>>, <<"external-secrets", {}>>,
                   <<"image-policies", {"policy-controller"}>>, <<"keda", {}>>,
                   <<"kubelet-serving-cert-approver", {}>>, <<"letsencrypt", {"cert-manager"}>>,
                   <<"metrics-server", {"kubelet-serving-cert-approver"}>>,
                   <<"policy-controller", {}>>, <<"pulumi-esc", {"external-secrets"}>>}
           \union {<<"load-balancer", {}>>, <<"traefik", {}>>}
           \union {<<"argo-cd", {}>>, <<"repository-credential", {"argo-cd"}>>,
                   <<"root", {"argo-cd", "repository-credential"}>>}
<1>1. Rows = Elements(Table[1]) \union Elements(Table[2]) \union Elements(Table[3])
             \union Elements(Table[4]) \union Elements(Table[5])
  BY DEF Rows, Layer
<1>2. /\ Table[1] = NodePlatform /\ Table[2] = NetworkPolicy /\ Table[3] = ClusterServices
      /\ Table[4] = Ingress /\ Table[5] = Gitops
  BY DEF Table
<1>3. Elements(NodePlatform) = {<<"cni", {}>>, <<"hcloud", {"cni"}>>,
          <<"hcloud-ccm", {"cni", "hcloud"}>>, <<"hcloud-csi", {"hcloud", "hcloud-ccm"}>>}
  <2>1. Elements(NodePlatform) = {NodePlatform[i] : i \in {1, 2, 3, 4}}
    BY DEF Elements, NodePlatform
  <2> QED
    BY <2>1 DEF NodePlatform
<1>4. Elements(NetworkPolicy) = {<<"allow", {}>>, <<"default-deny", {"allow"}>>}
  <2>1. Elements(NetworkPolicy) = {NetworkPolicy[i] : i \in {1, 2}}
    BY DEF Elements, NetworkPolicy
  <2> QED
    BY <2>1 DEF NetworkPolicy
<1>5. Elements(ClusterServices) = {<<"cert-manager", {}>>, <<"external-secrets", {}>>,
          <<"image-policies", {"policy-controller"}>>, <<"keda", {}>>,
          <<"kubelet-serving-cert-approver", {}>>, <<"letsencrypt", {"cert-manager"}>>,
          <<"metrics-server", {"kubelet-serving-cert-approver"}>>,
          <<"policy-controller", {}>>, <<"pulumi-esc", {"external-secrets"}>>}
  <2>1. Elements(ClusterServices) = {ClusterServices[i] : i \in {1, 2, 3, 4, 5, 6, 7, 8, 9}}
    BY DEF Elements, ClusterServices
  <2> QED
    BY <2>1 DEF ClusterServices
<1>6. Elements(Ingress) = {<<"load-balancer", {}>>, <<"traefik", {}>>}
  <2>1. Elements(Ingress) = {Ingress[i] : i \in {1, 2}}
    BY DEF Elements, Ingress
  <2> QED
    BY <2>1 DEF Ingress
<1>7. Elements(Gitops) = {<<"argo-cd", {}>>, <<"repository-credential", {"argo-cd"}>>,
          <<"root", {"argo-cd", "repository-credential"}>>}
  <2>1. Elements(Gitops) = {Gitops[i] : i \in {1, 2, 3}}
    BY DEF Elements, Gitops
  <2> QED
    BY <2>1 DEF Gitops
<1> QED
  BY <1>1, <1>2, <1>3, <1>4, <1>5, <1>6, <1>7

LEMMA FollowersAre ==
    /\ After("hcloud-ccm") = {"cni", "hcloud"} /\ After("hcloud-csi") = {"hcloud", "hcloud-ccm"}
    /\ After("image-policies") = {"policy-controller"} /\ After("letsencrypt") = {"cert-manager"}
    /\ After("metrics-server") = {"kubelet-serving-cert-approver"}
    /\ After("pulumi-esc") = {"external-secrets"} /\ After("repository-credential") = {"argo-cd"}
    /\ After("root") = {"argo-cd", "repository-credential"}
<1>1. ASSUME NEW c \in Component, NEW A, <<c, A>> \in Rows, \A row \in Rows : row[1] = c => row = <<c, A>>
      PROVE  After(c) = A
  <2>1. (CHOOSE row \in Rows : row[1] = c) = <<c, A>>
    BY <1>1
  <2> QED
    BY <1>1, <2>1 DEF After, Named
<1>2. {"hcloud-ccm", "hcloud-csi", "image-policies", "letsencrypt", "metrics-server", "pulumi-esc",
       "repository-credential", "root"} \subseteq Component
  BY ComponentsAre DEF Component, Layer
<1>3. After("hcloud-ccm") = {"cni", "hcloud"}
  <2>1. <<"hcloud-ccm", {"cni", "hcloud"}>> \in Rows
    BY RowsAre
  <2>2. \A row \in Rows : row[1] = "hcloud-ccm" => row = <<"hcloud-ccm", {"cni", "hcloud"}>>
    BY RowsAre
  <2> QED
    BY <1>1, <1>2, <2>1, <2>2
<1>4. After("hcloud-csi") = {"hcloud", "hcloud-ccm"}
  <2>1. <<"hcloud-csi", {"hcloud", "hcloud-ccm"}>> \in Rows
    BY RowsAre
  <2>2. \A row \in Rows : row[1] = "hcloud-csi" => row = <<"hcloud-csi", {"hcloud", "hcloud-ccm"}>>
    BY RowsAre
  <2> QED
    BY <1>1, <1>2, <2>1, <2>2
<1>5. After("image-policies") = {"policy-controller"}
  <2>1. <<"image-policies", {"policy-controller"}>> \in Rows
    BY RowsAre
  <2>2. \A row \in Rows : row[1] = "image-policies" => row = <<"image-policies", {"policy-controller"}>>
    BY RowsAre
  <2> QED
    BY <1>1, <1>2, <2>1, <2>2
<1>6. After("letsencrypt") = {"cert-manager"}
  <2>1. <<"letsencrypt", {"cert-manager"}>> \in Rows
    BY RowsAre
  <2>2. \A row \in Rows : row[1] = "letsencrypt" => row = <<"letsencrypt", {"cert-manager"}>>
    BY RowsAre
  <2> QED
    BY <1>1, <1>2, <2>1, <2>2
<1>7. After("metrics-server") = {"kubelet-serving-cert-approver"}
  <2>1. <<"metrics-server", {"kubelet-serving-cert-approver"}>> \in Rows
    BY RowsAre
  <2>2. \A row \in Rows : row[1] = "metrics-server" => row = <<"metrics-server", {"kubelet-serving-cert-approver"}>>
    BY RowsAre
  <2> QED
    BY <1>1, <1>2, <2>1, <2>2
<1>8. After("pulumi-esc") = {"external-secrets"}
  <2>1. <<"pulumi-esc", {"external-secrets"}>> \in Rows
    BY RowsAre
  <2>2. \A row \in Rows : row[1] = "pulumi-esc" => row = <<"pulumi-esc", {"external-secrets"}>>
    BY RowsAre
  <2> QED
    BY <1>1, <1>2, <2>1, <2>2
<1>9. After("repository-credential") = {"argo-cd"}
  <2>1. <<"repository-credential", {"argo-cd"}>> \in Rows
    BY RowsAre
  <2>2. \A row \in Rows : row[1] = "repository-credential" => row = <<"repository-credential", {"argo-cd"}>>
    BY RowsAre
  <2> QED
    BY <1>1, <1>2, <2>1, <2>2
<1>10. After("root") = {"argo-cd", "repository-credential"}
  <2>1. <<"root", {"argo-cd", "repository-credential"}>> \in Rows
    BY RowsAre
  <2>2. \A row \in Rows : row[1] = "root" => row = <<"root", {"argo-cd", "repository-credential"}>>
    BY RowsAre
  <2> QED
    BY <1>1, <1>2, <2>1, <2>2
<1> QED
  BY <1>3, <1>4, <1>5, <1>6, <1>7, <1>8, <1>9, <1>10

\* The components that have a choice.
Chosen == {"default-deny", "letsencrypt", "keda", "pulumi-esc", "repository-credential", "root"}

LEMMA OnlyTheChosenDecline ==
    ASSUME NEW c, NEW s, c \notin Chosen
    PROVE  ~Declines(c, s)
BY DEF Chosen, Declines, Verdict, Cni

\* What a resource needs is what it follows, but for the cni under the driver
\* two components further on, or is the first layer's.
LEMMA NeedsAre ==
    ASSUME NEW l \in Layer, NEW r \in ResourcesOf(l), NEW n \in Needs(r)
    PROVE  \/ n \in Within(r) \union {Returned(a) : a \in After(r[1]) \ Chosen}
           \/ l = 1 /\ r[1] = "hcloud-csi" /\ n = <<"cni", "release">>
           \/ l # 1 /\ n \in ResourcesOf(1)
<1>1. PICK c, part : r = <<c, part>> /\ part \in Parts(c) /\ (c \in Components(l) \/ (c = "records" /\ l = 4))
  BY ResourceIs
<1>2. Charts = {"cni", "hcloud-ccm", "hcloud-csi", "cert-manager", "external-secrets",
                "keda", "metrics-server", "policy-controller", "traefik", "argo-cd"}
  BY DEF Charts, Namespace
<1>3. /\ Returned("cni") = <<"cni", "release">> /\ Returned("hcloud-ccm") = <<"hcloud-ccm", "release">>
      /\ Returned("hcloud") = <<"hcloud", "object">>
      /\ Returned("cert-manager") = <<"cert-manager", "release">>
      /\ Returned("external-secrets") = <<"external-secrets", "release">>
      /\ Returned("policy-controller") = <<"policy-controller", "release">>
      /\ Returned("argo-cd") = <<"argo-cd", "release">>
      /\ Returned("kubelet-serving-cert-approver") = <<"kubelet-serving-cert-approver", "object">>
  BY <1>2 DEF Returned
<1>4. {<<"cni", "release">>, <<"hcloud-ccm", "release">>, <<"hcloud", "object">>} \subseteq ResourcesOf(1)
  <2>1. {"cni", "hcloud-ccm", "hcloud"} \subseteq Components(1)
    BY ComponentsAre
  <2> QED
    BY <1>3, <2>1, ReturnedIs DEF Layer
<1>5. Components(1) = {"cni", "hcloud", "hcloud-ccm", "hcloud-csi"}
  BY ComponentsAre
<1>6. l = 1 <=> c \in Components(1)
  BY <1>1, ComponentsAre DEF Layer
<1>7. /\ r[1] = c /\ r[2] = part
      /\ part = "label" => c \in {"cert-manager", "external-secrets", "keda", "traefik", "argo-cd"}
  <2>1. /\ \A d \in {"cni", "hcloud-ccm", "hcloud-csi", "metrics-server"} : Namespace[d] = "kube-system"
        /\ Namespace["policy-controller"] = "cosign-system"
    BY DEF Namespace
  <2>2. part = "label" => c \in Charts /\ VerifiesImages(Namespace[c])
    BY <1>1 DEF Parts
  <2> QED
    BY <1>1, <1>2, <2>1, <2>2 DEF VerifiesImages
<1>8. CASE c \in {"cni", "hcloud"}
  <2>1. Needs(r) = {}
    BY <1>7, <1>8 DEF Needs
  <2> QED
    BY <2>1
<1>9. CASE c = "hcloud-ccm"
  <2>1. Needs(r) = {<<"cni", "release">>, <<"hcloud", "object">>}
    BY <1>7, <1>9 DEF Needs
  <2>2. {"cni", "hcloud"} \subseteq After(r[1]) \ Chosen
    BY <1>7, <1>9, FollowersAre DEF Chosen
  <2> QED
    BY <1>3, <2>1, <2>2
<1>10. CASE c = "hcloud-csi"
  <2>1. Needs(r) = {<<"cni", "release">>, <<"hcloud-ccm", "release">>} \union {<<"hcloud", "object">>}
    BY <1>7, <1>10 DEF Needs
  <2>2. {"hcloud", "hcloud-ccm"} \subseteq After(r[1]) \ Chosen /\ l = 1 /\ r[1] = "hcloud-csi"
    BY <1>5, <1>6, <1>7, <1>10, FollowersAre DEF Chosen
  <2> QED
    BY <1>3, <2>1, <2>2
<1>11. CASE c \in {"allow", "default-deny"}
  <2>1. Needs(r) = {<<"cni", "release">>}
    BY <1>7, <1>11 DEF Needs
  <2>2. l # 1
    BY <1>5, <1>6, <1>11
  <2> QED
    BY <1>4, <2>1, <2>2
<1>12. CASE c \in {"letsencrypt", "pulumi-esc", "image-policies"}
  <2>1. \E a \in After(r[1]) \ Chosen : Needs(r) = {Returned(a)}
    <3>1. CASE c = "letsencrypt"
      <4>1. Needs(r) = {<<"cert-manager", "release">>}
        BY <1>7, <3>1 DEF Needs
      <4>2. "cert-manager" \in After(r[1]) \ Chosen
        BY <1>7, <3>1, FollowersAre DEF Chosen
      <4> QED
        BY <1>3, <4>1, <4>2
    <3>2. CASE c = "pulumi-esc"
      <4>1. Needs(r) = {<<"external-secrets", "release">>}
        BY <1>7, <3>2 DEF Needs
      <4>2. "external-secrets" \in After(r[1]) \ Chosen
        BY <1>7, <3>2, FollowersAre DEF Chosen
      <4> QED
        BY <1>3, <4>1, <4>2
    <3>3. CASE c = "image-policies"
      <4>1. Needs(r) = {<<"policy-controller", "release">>}
        BY <1>7, <3>3 DEF Needs
      <4>2. "policy-controller" \in After(r[1]) \ Chosen
        BY <1>7, <3>3, FollowersAre DEF Chosen
      <4> QED
        BY <1>3, <4>1, <4>2
    <3> QED
      BY <1>12, <3>1, <3>2, <3>3
  <2> QED
    BY <2>1
<1>13. CASE c = "metrics-server"
  <2>1. Needs(r) = {<<"cni", "release">>, <<"hcloud-ccm", "release">>}
                   \union {<<"kubelet-serving-cert-approver", "object">>}
    BY <1>7, <1>13 DEF Needs
  <2>2. "kubelet-serving-cert-approver" \in After(r[1]) \ Chosen /\ l # 1
    BY <1>5, <1>6, <1>7, <1>13, FollowersAre DEF Chosen
  <2> QED
    BY <1>3, <1>4, <2>1, <2>2
<1>14. CASE c \in {"repository-credential", "root"}
  <2>1. Needs(r) = {<<"argo-cd", "release">>}
    BY <1>7, <1>14 DEF Needs
  <2>2. "argo-cd" \in After(r[1]) \ Chosen
    BY <1>7, <1>14, FollowersAre DEF Chosen
  <2> QED
    BY <1>3, <2>1, <2>2
<1>15. CASE c \in {"load-balancer", "records"}
  <2>1. Needs(r) = Within(r)
    BY <1>7, <1>15 DEF Needs
  <2> QED
    BY <2>1
<1>16. CASE c \in {"cert-manager", "external-secrets", "keda", "kubelet-serving-cert-approver",
                   "policy-controller", "traefik", "argo-cd"}
  <2>1. CASE part = "label"
    <3>1. Needs(r) = {<<c, "release">>}
      BY <1>7, <1>16, <2>1 DEF Needs
    <3>2. Within(r) = {<<c, "release">>}
      BY <1>7, <2>1 DEF Within
    <3> QED
      BY <3>1, <3>2
  <2>2. CASE part # "label"
    <3>1. Needs(r) = {<<"cni", "release">>, <<"hcloud-ccm", "release">>}
      BY <1>7, <1>16, <2>2 DEF Needs
    <3>2. l # 1
      BY <1>5, <1>6, <1>16
    <3> QED
      BY <1>4, <3>1, <3>2
  <2> QED
    BY <2>1, <2>2
<1> QED
  <2>1. c \in Components(1) \union Components(2) \union Components(3) \union Components(4)
             \union Components(5) \union {"records"}
    BY <1>1 DEF Layer
  <2> QED
    BY <2>1, <1>8, <1>9, <1>10, <1>11, <1>12, <1>13, <1>14, <1>15, <1>16, ComponentsAre

\* What a program declares holds what it follows.
LEMMA DeclaredIf ==
    ASSUME NEW l \in Layer, NEW s, NEW q \in ResourcesOf(l), q[1] \in Deployed(l, s)
    PROVE  q \in Declared(l, s)
BY ResourceIs DEF Declared, PartsOf

LEMMA DeclaredClosed ==
    ASSUME NEW l \in Layer, NEW s, ~ProgramFails(l, s), NEW r \in Declared(l, s), NEW q \in Follows(r, s)
    PROVE  q \in Declared(l, s)
<1>1. r \in ResourcesOf(l) /\ Deployed(l, s) = {c \in Components(l) : ~Declines(c, s)}
  BY DeclaredOfLayer, MadeAre
<1>2. q \in ResourcesOf(l)
  BY <1>1, Before DEF Follows
<1>3. CASE q \in {Returned(a) : a \in {b \in After(r[1]) : ~Declines(b, s)}}
  <2>1. PICK a \in After(r[1]) : q = Returned(a) /\ ~Declines(a, s)
    BY <1>3
  <2>2. r[1] \in Components(l)
    <3>1. "records" \notin Component
      BY ComponentsAre DEF Component, Layer
    <3> QED
      BY <1>1, <2>1, <3>1, ResourceIs DEF After
  <2>3. a \in Components(l) /\ q[1] = a
    BY <2>1, <2>2, PlaceIs, ReturnedIs
  <2> QED
    BY <1>1, <1>2, <2>1, <2>3, DeclaredIf
<1>4. CASE q \in Within(r)
  <2>1. PICK c, part : /\ r = <<c, part>> /\ part \in Parts(c)
                       /\ c \in Deployed(l, s) \/ (c = "records" /\ l = 4)
    BY DEF Declared, PartsOf
  <2>2. CASE part = "rrsets"
    <3>1. q[1] = "load-balancer"
      BY <1>4, <2>1, <2>2 DEF Within
    <3>2. "load-balancer" \in Components(l)
      BY <1>2, <3>1, ResourceIs
    <3> QED
      BY <1>1, <1>2, <3>1, <3>2, OnlyTheChosenDecline, DeclaredIf DEF Chosen
  <2>3. CASE part # "rrsets"
    <3>1. q[1] = c
      BY <1>4, <2>1, <2>3 DEF Within
    <3>2. c # "records"
      BY <2>1, <2>3 DEF Parts, Charts, Namespace
    <3> QED
      BY <1>2, <2>1, <3>1, <3>2, DeclaredIf
  <2> QED
    BY <2>2, <2>3
<1> QED
  BY <1>3, <1>4 DEF Follows

\* The first layer's program, where it does not fail, declares all of it.
LEMMA FirstLayerIsWhole ==
    ASSUME NEW s, ~ProgramFails(1, s)
    PROVE  Declared(1, s) = ResourcesOf(1)
<1>1. 1 \in Layer /\ Components(1) \intersect Chosen = {}
  BY ComponentsAre DEF Layer, Chosen
<1>2. Deployed(1, s) = Components(1)
  BY <1>1, MadeAre, OnlyTheChosenDecline
<1> QED
  BY <1>2 DEF Declared, ResourcesOf

----------------------------------------------------------------------------
(* What a step can do.                                                      *)

LEMMA WorldIs ==
    ASSUME TypeOK
    PROVE  /\ world \in World /\ world.layers \subseteq Layer /\ 0 \notin Layer
           /\ \A b \in Bound : world[b] \in Nat
<1>1. world \in World
  BY PlatformAssumption DEF TypeOK
<1>2. world.layers \subseteq Layer
  BY <1>1 DEF World
<1>3. \A b \in Bound : world[b] \in Nat
  BY <1>1 DEF World, Bound
<1> QED
  BY <1>1, <1>2, <1>3 DEF Layer

\* A command begins with the layers it is for.
LEMMA CommandBegins ==
    ASSUME Command
    PROVE  \E v \in Verb, a, w \in BOOLEAN, S \in SUBSET world.layers :
              /\ Begin(v, S, a, w)
              /\ (a => S = world.layers) /\ (w => a)
              /\ \/ v = "apply" /\ w /\ phase' = "cluster"
                 \/ v = "apply" /\ ~w /\ phase' = "plan"
                 \/ v \in {"destroy", "refresh"} /\ phase' = "next"
<1>1. CASE TaskUp
  BY <1>1 DEF TaskUp, Goto, Verb
<1>2. CASE TaskDestroy
  BY <1>2 DEF TaskDestroy, Goto, Verb
<1>3. ASSUME NEW S \in SUBSET world.layers, NEW a \in BOOLEAN, a => S = world.layers,
             PlatformApply(S, a) \/ PlatformDestroy(S, a) \/ PlatformRefresh(S, a)
      PROVE  \E v \in Verb : \E w \in BOOLEAN :
                /\ Begin(v, S, a, w) /\ (w => a)
                /\ \/ v = "apply" /\ w /\ phase' = "cluster"
                   \/ v = "apply" /\ ~w /\ phase' = "plan"
                   \/ v \in {"destroy", "refresh"} /\ phase' = "next"
  BY <1>3 DEF PlatformApply, PlatformDestroy, PlatformRefresh, Goto, Verb
<1>4. CASE \E c \in {<<world.layers, TRUE>>} \union {<<{l}, FALSE>> : l \in world.layers} :
             PlatformApply(c[1], c[2]) \/ PlatformDestroy(c[1], c[2]) \/ PlatformRefresh(c[1], c[2])
  <2>1. PICK c \in {<<world.layers, TRUE>>} \union {<<{l}, FALSE>> : l \in world.layers} :
          PlatformApply(c[1], c[2]) \/ PlatformDestroy(c[1], c[2]) \/ PlatformRefresh(c[1], c[2])
    BY <1>4
  <2>2. c[1] \in SUBSET world.layers /\ c[2] \in BOOLEAN /\ (c[2] => c[1] = world.layers)
    <3>1. CASE c = <<world.layers, TRUE>>
      BY <3>1
    <3>2. CASE c \in {<<{l}, FALSE>> : l \in world.layers}
      <4>1. PICK l \in world.layers : c = <<{l}, FALSE>>
        BY <3>2
      <4>2. c[1] = {l} /\ c[2] = FALSE
        BY <4>1
      <4> QED
        BY <4>2
    <3> QED
      BY <3>1, <3>2
  <2> QED
    BY <1>3, <2>1, <2>2
<1> QED
  BY <1>1, <1>2, <1>4 DEF Command

\* The bounds are spent one at a time.
LEMMA Spent ==
    ASSUME TypeOK, NEW b \in Bound, Spend(b)
    PROVE  /\ spent' \in [Bound -> Nat] /\ \A c \in Bound : spent'[c] <= world[c]
           /\ spent'[b] = spent[b] + 1 /\ \A c \in Bound \ {b} : spent'[c] = spent[c]
<1>1. spent \in [Bound -> Nat] /\ \A c \in Bound : spent[c] <= world[c]
  BY DEF TypeOK
<1>2. \A c \in Bound : world[c] \in Nat
  BY WorldIs
<1>3. spent[b] < world[b] /\ spent' = [spent EXCEPT ![b] = @ + 1]
  BY DEF Spend
<1> QED
  BY <1>1, <1>2, <1>3

----------------------------------------------------------------------------
(* The types.                                                               *)

LEMMA InitTyped == Init => TypeOK
<1> SUFFICES ASSUME Init  PROVE TypeOK
  OBVIOUS
<1>1. world \in World /\ settings \in world.settings
  BY PlatformAssumption DEF Init
<1>2. \A b \in Bound : world[b] \in Nat
  BY <1>1 DEF World, Bound
<1>3. spent \in [Bound -> Nat] /\ \A b \in Bound : spent[b] <= world[b]
  BY <1>2 DEF Init
<1>4. planned \in world.settings \X Published \X (0..world.edits)
  <2>1. planned = <<settings, "none", 0>>
    BY DEF Init, Now, Bound
  <2>2. world.edits \in Nat
    BY <1>1 DEF World
  <2> QED
    BY <1>1, <2>1, <2>2 DEF Published
<1> QED
  BY <1>3, <1>4 DEF Init, TypeOK, Published, Verb, Phase, Outcome

\* The configuration, the tier's outputs and the count of the edits, now.
LEMMA NowTyped == TypeOK => Now \in world.settings \X Published \X (0..world.edits)
<1> SUFFICES ASSUME TypeOK  PROVE Now \in world.settings \X Published \X (0..world.edits)
  OBVIOUS
<1>1. spent["edits"] \in Nat /\ spent["edits"] <= world.edits /\ world.edits \in Nat
  BY WorldIs DEF TypeOK, Bound
<1> QED
  BY <1>1 DEF Now, TypeOK

\* What a layer's program declares are resources.
LEMMA WantedTyped ==
    ASSUME TypeOK, left # {}
    PROVE  Wanted(At) \subseteq ResourcesOf(At) /\ Wanted(At) \subseteq Resource /\ At \in world.layers
<1>1. At \in left /\ At \in Layer
  BY AtIsLeft, WorldIs DEF TypeOK
<1>2. ResourcesOf(At) \subseteq Resource
  BY <1>1 DEF Resource
<1> QED
  BY <1>1, <1>2, DeclaredOfLayer DEF Wanted, TypeOK

\* A step that leaves the world, the configurations and the bounds alone.
LEMMA TypedMove ==
    ASSUME TypeOK, UNCHANGED <<world, settings, config, published, up, planned, spent>>,
           live' \subseteq Resource, recorded' \subseteq Resource, reaching' \subseteq Layer,
           UNCHANGED command, phase' \in Phase, outcome' \in Outcome, rebuilt' \in BOOLEAN,
           left' \subseteq left
    PROVE  TypeOK'
BY DEF TypeOK, command

LEMMA TypedTask ==
    ASSUME TypeOK, PhaseInv, Task
    PROVE  TypeOK'
<1>1. CASE Plan
  BY <1>1, NowTyped DEF Plan, Ends, Goto, TypeOK, command, tier, Phase, Outcome
<1>2. CASE ClusterStep
  <2>1. /\ up' \in BOOLEAN /\ published' \in Published /\ live' \subseteq Resource
        /\ reaching' \subseteq Layer /\ phase' \in Phase /\ outcome' \in Outcome
        /\ rebuilt' \in BOOLEAN /\ left' \subseteq left
    BY <1>2 DEF ClusterStep, ClusterComes, ClusterGoes, Ends, Goto, TypeOK, Phase, Outcome, Published
  <2> QED
    BY <1>2, <2>1 DEF ClusterStep, TypeOK, command
<1>3. CASE NextLayer
  <2>1. reaching' \subseteq Layer
    BY <1>3, WantedTyped, WorldIs DEF NextLayer, TypeOK
  <2>2. phase' \in Phase
    BY <1>3 DEF NextLayer, Goto, Phase
  <2> QED
    BY <1>3, <2>1, <2>2 DEF NextLayer, TypeOK, command, tier
<1>4. CASE LastLayer
  BY <1>4, TypedMove DEF LastLayer, Ends, Goto, TypeOK, tier, Phase, Outcome
<1>5. CASE Refuse \/ Created \/ ReadFails
  BY <1>5, TypedMove DEF Refuse, Created, ReadFails, Goto, TypeOK, tier, Phase
<1>6. CASE LayerDone \/ Read
  <2>1. rebuilt' \in BOOLEAN
    BY <1>6 DEF LayerDone, Read, TypeOK
  <2> QED
    BY <1>6, <2>1, TypedMove DEF LayerDone, Read, Finished, Goto, TypeOK, tier, Phase
<1>7. CASE Stop
  BY <1>7, TypedMove DEF Stop, Ends, TypeOK, tier, Phase, Outcome
<1>8. ASSUME NEW r \in Wanted(At), phase = "creating", Create(r) \/ CreateFails(r)  PROVE TypeOK'
  <2>1. r \in Resource
    BY <1>8, WantedTyped DEF PhaseInv
  <2> QED
    BY <1>8, <2>1, TypedMove DEF Create, CreateFails, Goto, TypeOK, tier, Phase
<1>9. ASSUME NEW r \in recorded, Delete(r) \/ DeleteFails(r)  PROVE TypeOK'
  BY <1>9, TypedMove DEF Delete, DeleteFails, Goto, TypeOK, tier, Phase
<1> QED
  BY <1>1, <1>2, <1>3, <1>4, <1>5, <1>6, <1>7, <1>8, <1>9 DEF Task

LEMMA TypedStep ==
    ASSUME TypeOK, PhaseInv, [Next]_vars
    PROVE  TypeOK'
<1>1. CASE Command
  <2>1. PICK v \in Verb, a \in BOOLEAN, w \in BOOLEAN, S \in SUBSET world.layers :
           Begin(v, S, a, w) /\ phase' \in {"cluster", "plan", "next"}
    BY <1>1, CommandBegins
  <2>2. spent' \in [Bound -> Nat] /\ \A b \in Bound : spent'[b] <= world[b]
    BY <2>1, Spent DEF Begin, Bound
  <2> QED
    BY <2>1, <2>2 DEF Begin, TypeOK, tier, Phase, Outcome
<1>2. CASE Task
  BY <1>2, TypedTask
<1>3. CASE Fault
  <2>1. spent' \in [Bound -> Nat] /\ \A b \in Bound : spent'[b] <= world[b]
    BY <1>3, Spent DEF Fault, Bound
  <2> QED
    BY <1>3, <2>1 DEF Fault, Goto, TypeOK, tier, command, Phase
<1>4. CASE Kill
  <2>1. spent' \in [Bound -> Nat] /\ \A b \in Bound : spent'[b] <= world[b]
    BY <1>4, Spent DEF Kill, Bound
  <2>2. live' \subseteq Resource
    BY <1>4, WantedTyped DEF Kill, PhaseInv, TypeOK
  <2> QED
    BY <1>4, <2>1, <2>2 DEF Kill, Ends, TypeOK, tier, command, Phase, Outcome
<1>5. CASE Edit
  <2>1. spent' \in [Bound -> Nat] /\ \A b \in Bound : spent'[b] <= world[b]
    BY <1>5, Spent DEF Edit, Bound
  <2> QED
    BY <1>5, <2>1 DEF Edit, TypeOK, tier, command
<1>6. CASE Stray
  <2>1. spent' \in [Bound -> Nat] /\ \A b \in Bound : spent'[b] <= world[b]
    BY <1>6, Spent DEF Stray, Bound
  <2>2. up' \in BOOLEAN /\ published' \in Published /\ live' \subseteq Resource /\ rebuilt' \in BOOLEAN
    BY <1>6 DEF Stray, ClusterGoes, Published, TypeOK
  <2> QED
    BY <1>6, <2>1, <2>2 DEF Stray, TypeOK, command
<1>7. CASE UNCHANGED vars
  BY <1>7 DEF vars, TypeOK, tier, command
<1> QED
  BY <1>1, <1>2, <1>3, <1>4, <1>5, <1>6, <1>7 DEF Next

\* The steps that are reports, and the recovery of a layer.
LEMMA TypedReport ==
    ASSUME TypeOK, Report \/ \E l \in world.layers : Recover(l)
    PROVE  TypeOK'
<1>1. ASSUME UNCHANGED <<world, settings, tier, live, reaching, command, phase, left, config,
                         planned, rebuilt>>,
             recorded' \subseteq Resource, outcome' \in Outcome,
             UNCHANGED spent \/ \E b \in Bound : Spend(b)
      PROVE  TypeOK'
  <2>1. spent' \in [Bound -> Nat] /\ \A b \in Bound : spent'[b] <= world[b]
    BY <1>1, Spent DEF TypeOK
  <2> QED
    BY <1>1, <2>1 DEF TypeOK, tier, command
<1>2. CASE \E l \in world.layers : Recover(l)
  BY <1>1, <1>2 DEF Recover, TypeOK, Bound, Outcome
<1>3. CASE Report
  BY <1>1, <1>3 DEF Report, Ask, ReadProject, Rendered, vars, TypeOK, Bound
<1> QED
  BY <1>2, <1>3

----------------------------------------------------------------------------
(* Where a command is.                                                      *)

LEMMA PhaseStep ==
    ASSUME TypeOK, PhaseInv, [Next]_vars
    PROVE  PhaseInv'
<1> USE DEF PhaseInv
<1>1. CASE Command
  <2>1. PICK v \in Verb, a \in BOOLEAN, w \in BOOLEAN, S \in SUBSET world.layers :
           /\ Begin(v, S, a, w)
           /\ (a => S = world.layers) /\ (w => a)
           /\ \/ v = "apply" /\ w /\ phase' = "cluster"
              \/ v = "apply" /\ ~w /\ phase' = "plan"
              \/ v \in {"destroy", "refresh"} /\ phase' = "next"
    BY <1>1, CommandBegins
  <2> QED
    BY <2>1 DEF Begin
<1>2. CASE Task
  <2>1. CASE Plan
    BY <2>1 DEF Plan, Ends, Goto, command
  <2>2. CASE ClusterStep
    BY <2>2 DEF ClusterStep, Ends, Goto, command
  <2>3. CASE NextLayer
    BY <2>3 DEF NextLayer, Goto, command, TypeOK, Verb
  <2>4. CASE LastLayer
    BY <2>4 DEF LastLayer, Ends, Goto, command
  <2>5. CASE Refuse \/ Created \/ ReadFails
    BY <2>5 DEF Refuse, Created, ReadFails, Goto, command
  <2>6. CASE LayerDone \/ Read \/ Stop
    BY <2>6 DEF LayerDone, Read, Stop, Ends, Finished, Goto, command
  <2>7. ASSUME NEW r, phase = "creating", Create(r) \/ CreateFails(r)  PROVE PhaseInv'
    BY <2>7 DEF Create, CreateFails, Goto, command
  <2>8. ASSUME NEW r, Delete(r) \/ DeleteFails(r)  PROVE PhaseInv'
    BY <2>8 DEF Delete, DeleteFails, Goto, command
  <2> QED
    BY <1>2, <2>1, <2>2, <2>3, <2>4, <2>5, <2>6, <2>7, <2>8 DEF Task
<1>3. CASE Fault \/ Kill
  BY <1>3 DEF Fault, Kill, Ends, Goto, command
<1>4. CASE Edit \/ Stray
  BY <1>4 DEF Edit, Stray, command
<1>5. CASE UNCHANGED vars
  BY <1>5 DEF vars, command
<1> QED
  BY <1>1, <1>2, <1>3, <1>4, <1>5 DEF Next

\* Where the layer at hand is, it is the layer of the command.
LEMMA AtStays == UNCHANGED <<left, verb>> => At' = At
BY DEF At

----------------------------------------------------------------------------
(* What the states record.                                                  *)

\* A step that leaves the records, and what is there, alone.
LEMMA RecordsKeep ==
    ASSUME RecordsInv, UNCHANGED <<world, live, recorded, pending, rebuilt>>,
           spent'["kills"] = 0 => spent["kills"] = 0
    PROVE  RecordsInv'
BY DEF RecordsInv

\* No command but a killed one leaves anything pending.
LEMMA PendingKeeps ==
    ASSUME Books, ~(phase = "creating" /\ phase' = "idle")
    PROVE  UNCHANGED pending
BY DEF Books

\* The cluster goes: nothing is there that was not, and what is recorded and
\* gone is told by `rebuilt`.
LEMMA GoesKeeps ==
    ASSUME TypeOK, RecordsInv, ClusterGoes, UNCHANGED <<world, recorded, pending>>,
           spent'["kills"] = spent["kills"]
    PROVE  RecordsInv'
<1>1. live' \subseteq live /\ (~rebuilt' => ~rebuilt)
  BY DEF ClusterGoes, TypeOK
<1>2. ~rebuilt' => recorded' \subseteq live'
  BY DEF ClusterGoes, RecordsInv, TypeOK
<1> QED
  BY <1>1, <1>2 DEF RecordsInv

LEMMA RecordsStep ==
    ASSUME TypeOK, PhaseInv, RecordsInv, Next, Books
    PROVE  RecordsInv'
<1>1. CASE Command
  <2>1. /\ UNCHANGED <<world, live, recorded, rebuilt>> /\ spent'["kills"] = spent["kills"]
        /\ phase = "idle"
    BY <1>1, CommandBegins, Spent DEF Begin, Bound
  <2> QED
    BY <2>1, RecordsKeep, PendingKeeps
<1>2. CASE Plan \/ NextLayer \/ LastLayer \/ Refuse \/ Created \/ ReadFails \/ LayerDone \/ Stop
  <2>1. /\ UNCHANGED <<world, live, recorded, rebuilt, spent>>
        /\ ~(phase = "creating" /\ phase' = "idle")
    BY <1>2 DEF Plan, NextLayer, LastLayer, Refuse, Created, ReadFails, LayerDone, Stop, Goto
  <2> QED
    BY <2>1, RecordsKeep, PendingKeeps
<1>3. CASE ClusterStep
  <2>1. phase = "cluster" /\ UNCHANGED <<world, recorded, spent, pending>>
    BY <1>3, PendingKeeps DEF ClusterStep
  <2>2. ClusterGoes \/ UNCHANGED <<live, rebuilt>>
    BY <1>3 DEF ClusterStep
  <2> QED
    BY <2>1, <2>2, RecordsKeep, GoesKeeps
<1>4. CASE Read
  <2>1. /\ recorded' \subseteq recorded /\ recorded \ recorded' \subseteq Resource \ live
        /\ UNCHANGED <<world, live, spent, pending>>
        /\ rebuilt' = (rebuilt /\ \E r \in recorded' : r \notin live)
    BY <1>4, PendingKeeps DEF Read, TypeOK
  <2> QED
    BY <2>1 DEF RecordsInv
<1>5. ASSUME NEW r \in Wanted(At), phase = "creating", Create(r) \/ CreateFails(r)
      PROVE  RecordsInv'
  <2>1. UNCHANGED <<world, rebuilt, spent, pending>>
    BY <1>5, PendingKeeps DEF Create, CreateFails, Goto
  <2>2. r \in ResourcesOf(At) /\ At \in world.layers
    BY <1>5, WantedTyped DEF PhaseInv
  <2>3. UNCHANGED <<live, recorded>> \/ (live' = live \union {r} /\ recorded' = recorded \union {r})
    BY <1>5 DEF Create, CreateFails
  <2> QED
    BY <2>1, <2>2, <2>3 DEF RecordsInv
<1>6. ASSUME NEW r \in recorded, Delete(r) \/ DeleteFails(r)  PROVE RecordsInv'
  <2>1. UNCHANGED <<world, rebuilt, spent, pending>>
    BY <1>6, PendingKeeps DEF Delete, DeleteFails, Goto
  <2>2. UNCHANGED <<live, recorded>> \/ (live' = live \ {r} /\ recorded' = recorded \ {r})
    BY <1>6 DEF Delete, DeleteFails
  <2> QED
    BY <2>1, <2>2 DEF RecordsInv
<1>7. CASE Fault
  <2>1. UNCHANGED <<world, live, recorded, rebuilt>> /\ spent'["kills"] = spent["kills"] /\ phase' = "failing"
    BY <1>7, Spent DEF Fault, Goto, Bound
  <2> QED
    BY <2>1, RecordsKeep, PendingKeeps
<1>8. CASE Kill
  <2>1. spent'["kills"] = spent["kills"] + 1 /\ spent["kills"] \in Nat /\ phase' = "idle"
    BY <1>8, Spent DEF Kill, Ends, Bound, TypeOK
  <2>2. UNCHANGED <<world, recorded, rebuilt>>
    BY <1>8 DEF Kill
  <2>3. CASE phase = "creating"
    <3>1. PICK r \in Wanted(At) :
            live' \subseteq live \union {r} /\ pending' = [pending EXCEPT ![At] = @ \union {r}]
      BY <2>1, <2>3 DEF Books
    <3>2. r \in ResourcesOf(At) /\ r \in Resource /\ At \in world.layers
      BY <2>3, WantedTyped DEF PhaseInv
    <3>3. live \subseteq live'
      BY <1>8 DEF Kill
    <3> QED
      BY <2>1, <2>2, <3>1, <3>2, <3>3 DEF RecordsInv
  <2>4. CASE phase # "creating"
    <3>1. UNCHANGED <<live, pending>>
      BY <1>8, <2>4, PendingKeeps DEF Kill
    <3> QED
      BY <2>1, <2>2, <3>1, RecordsKeep
  <2> QED
    BY <2>3, <2>4
<1>9. CASE Edit
  <2>1. /\ UNCHANGED <<world, live, recorded, rebuilt, phase>> /\ spent'["kills"] = spent["kills"]
    BY <1>9, Spent DEF Edit, Bound
  <2> QED
    BY <2>1, RecordsKeep, PendingKeeps
<1>10. CASE Stray
  <2>1. UNCHANGED <<world, recorded, phase>> /\ spent'["kills"] = spent["kills"]
    BY <1>10, Spent DEF Stray, Bound
  <2>2. ClusterGoes \/ UNCHANGED <<live, rebuilt>>
    BY <1>10 DEF Stray
  <2> QED
    BY <2>1, <2>2, RecordsKeep, GoesKeeps, PendingKeeps
<1> QED
  BY <1>1, <1>2, <1>3, <1>4, <1>5, <1>6, <1>7, <1>8, <1>9, <1>10 DEF Next, Task

----------------------------------------------------------------------------
(* The layers a command has finished.                                       *)

\* A step away from everything that is said of them.
LEMMA LayersIdle ==
    ASSUME LayersInv, UNCHANGED <<planned, spent>>,
           phase' \notin {"next", "creating", "deleting", "cluster"}, ~Ended'
    PROVE  LayersInv'
BY DEF LayersInv, Unedited

\* A step that changes nothing they are, unless it leaves the plan behind.
LEMMA LayersKeep ==
    ASSUME LayersInv, TypeOK, UNCHANGED <<world, left, verb, all, recorded, planned, config>>,
           spent'["edits"] \in Nat, spent["edits"] <= spent'["edits"],
           phase' = phase, outcome' = outcome,
           spent'["edits"] = spent["edits"] => settings' = settings
    PROVE  LayersInv'
<1>1. planned[3] \in Nat /\ spent["edits"] \in Nat
  BY DEF TypeOK, Bound
<1>2. Unedited' => spent'["edits"] = spent["edits"] /\ Unedited
  BY <1>1 DEF LayersInv, Unedited
<1>3. At' = At /\ Wanted(At)' = Wanted(At)
  BY AtStays DEF Wanted
<1>4. \A l : Recorded(l)' = Recorded(l)
  BY DEF Recorded
<1>5. Ended' <=> Ended
  BY DEF Ended
<1>6. planned'[3] <= spent'["edits"]
  BY <1>1 DEF LayersInv
<1> QED
  BY <1>2, <1>3, <1>4, <1>5, <1>6 DEF LayersInv

\* What changes in one layer changes in no other.
LEMMA OtherLayers ==
    ASSUME TypeOK, left # {}, NEW r \in ResourcesOf(At), UNCHANGED <<world, left>>,
           recorded' = recorded \union {r} \/ recorded' = recorded \ {r}
    PROVE  \A l \in world.layers \ left : Recorded(l)' = Recorded(l)
<1>1. At \in left /\ At \in Layer /\ world.layers \subseteq Layer
  BY AtIsLeft, WorldIs DEF TypeOK
<1>2. \A l \in world.layers \ left : r \notin ResourcesOf(l)
  BY <1>1, LayersApart
<1> QED
  BY <1>2 DEF Recorded

LEMMA LayersTask ==
    ASSUME TypeOK, PhaseInv, LayersInv, Task, TypeOK'
    PROVE  LayersInv'
<1>0. planned[3] \in Nat /\ spent["edits"] \in Nat
  BY DEF TypeOK, Bound
<1>1. CASE Plan
  <2>1. /\ planned' = <<settings, published, spent["edits"]>> /\ phase = "plan" /\ verb = "apply"
        /\ UNCHANGED <<world, settings, recorded, verb, all, config, spent>>
    BY <1>1 DEF Plan, Now, PhaseInv, command
  <2>2. planned'[3] = spent["edits"]
    BY <2>1
  <2>3. CASE phase' = "next" /\ left' = left
    BY <1>0, <2>1, <2>2, <2>3 DEF LayersInv, PhaseInv, Ended
  <2>4. CASE phase' = "idle" /\ outcome' = "failed"
    BY <1>0, <2>1, <2>2, <2>4 DEF LayersInv, Ended
  <2> QED
    BY <1>1, <2>3, <2>4 DEF Plan, Ends, Goto
<1>2. CASE ClusterStep
  <2>1. /\ phase = "cluster" /\ UNCHANGED <<world, settings, recorded, verb, all, config, planned, spent>>
    BY <1>2 DEF ClusterStep, command
  <2>2. CASE verb = "apply"
    <3>1. phase' = "plan"
      BY <1>2, <2>2 DEF ClusterStep, Goto
    <3> QED
      BY <2>1, <2>2, <3>1, LayersIdle DEF Ended
  <2>3. CASE verb = "destroy"
    <3>1. phase' = "idle" /\ left = {}
      BY <1>2, <2>3 DEF ClusterStep, Ends, PhaseInv
    <3> QED
      BY <2>1, <2>3, <3>1 DEF LayersInv, Ended, Recorded
  <2> QED
    BY <1>2, <2>2, <2>3 DEF ClusterStep
<1>3. CASE NextLayer
  <2>1. /\ phase = "next" /\ left # {} /\ config' = settings
        /\ UNCHANGED <<world, settings, recorded, verb, all, left, planned, spent>>
    BY <1>3 DEF NextLayer, command
  <2>2. phase' \in {"creating", "deleting", "reading"} /\ (phase' = "deleting" <=> verb = "destroy")
    BY <1>3 DEF NextLayer, Goto
  <2> QED
    BY <2>1, <2>2 DEF LayersInv, Ended, Recorded, Unedited
<1>4. CASE LastLayer
  <2>1. /\ phase = "next" /\ left = {} /\ phase' \in {"idle", "cluster"} /\ left' = left
        /\ UNCHANGED <<world, settings, recorded, verb, all, config, planned, spent>>
        /\ (verb = "apply" => phase' = "idle")
    BY <1>4 DEF LastLayer, Ends, Goto, command
  <2> QED
    BY <2>1 DEF LayersInv, Ended, Recorded, Unedited
<1>5. CASE Refuse \/ ReadFails \/ Stop
  <2>1. phase' \in {"failing", "idle"} /\ (phase' = "idle" => outcome' = "failed") /\ UNCHANGED <<planned, spent>>
    BY <1>5 DEF Refuse, ReadFails, Stop, Ends, Goto
  <2> QED
    BY <2>1, LayersIdle DEF Ended
<1>6. CASE Created
  <2>1. /\ phase = "creating" /\ phase' = "deleting" /\ Wanted(At) \subseteq recorded /\ verb = "apply"
        /\ UNCHANGED <<world, settings, recorded, verb, all, left, config, planned, spent>>
    BY <1>6 DEF Created, Goto, command, PhaseInv
  <2>2. Wanted(At)' = Wanted(At)
    BY <2>1, AtStays DEF Wanted
  <2> QED
    BY <2>1, <2>2 DEF LayersInv, Ended, Recorded, Unedited
<1>7. CASE LayerDone
  <2>1. /\ phase = "deleting" /\ phase' = "next" /\ Surplus = {} /\ left' = left \ {At}
        /\ UNCHANGED <<world, settings, recorded, verb, all, config, planned, spent>>
    BY <1>7 DEF LayerDone, Finished, Goto, command
  <2>2. verb \in {"apply", "destroy"} /\ Wanted(At) \subseteq ResourcesOf(At)
    BY <2>1, WantedTyped DEF PhaseInv
  <2>3. verb = "destroy" => Recorded(At) = {}
    BY <2>1 DEF Surplus
  <2>4. verb = "apply" /\ Unedited => Recorded(At) = Declared(At, settings)
    BY <2>1, <2>2 DEF Surplus, LayersInv, Recorded, Wanted
  <2>5. \A l : Recorded(l)' = Recorded(l) /\ Declared(l, settings)' = Declared(l, settings)
    BY <2>1 DEF Recorded
  <2>6. world'.layers \ left' \subseteq (world.layers \ left) \union {At}
    BY <2>1
  <2> QED
    BY <2>1, <2>2, <2>3, <2>4, <2>5, <2>6 DEF LayersInv, Unedited
<1>8. CASE Read
  <2>1. /\ verb = "refresh" /\ UNCHANGED <<verb, planned, spent>> /\ phase' = "next"
    BY <1>8 DEF Read, Goto, command, PhaseInv
  <2> QED
    BY <2>1 DEF LayersInv
<1>9. ASSUME NEW r \in Wanted(At), phase = "creating", Create(r) \/ CreateFails(r)
      PROVE  LayersInv'
  <2>1. CASE CreateFails(r)
    BY <2>1, LayersIdle DEF CreateFails, Goto, Ended
  <2>2. CASE Create(r)
    <3>1. /\ UNCHANGED <<world, settings, verb, all, left, config, planned, spent>> /\ phase' = "creating"
          /\ recorded' = recorded \union {r}
      BY <1>9, <2>2 DEF Create, command
    <3>2. \A l \in world.layers \ left : Recorded(l)' = Recorded(l)
      BY <1>9, <3>1, OtherLayers, WantedTyped DEF PhaseInv
    <3> QED
      BY <1>9, <3>1, <3>2 DEF LayersInv, Ended, Unedited, PhaseInv
  <2> QED
    BY <1>9, <2>1, <2>2
<1>10. ASSUME NEW r \in recorded, Delete(r) \/ DeleteFails(r)  PROVE LayersInv'
  <2>1. CASE DeleteFails(r)
    BY <2>1, LayersIdle DEF DeleteFails, Goto, Ended
  <2>2. CASE Delete(r)
    <3>1. /\ UNCHANGED <<world, settings, verb, all, left, config, planned, spent>>
          /\ phase = "deleting" /\ phase' = "deleting"
          /\ recorded' = recorded \ {r} /\ r \in Surplus
      BY <2>2 DEF Delete, Removable, command
    <3>2. r \in ResourcesOf(At) /\ (verb = "apply" => r \notin Wanted(At))
      BY <3>1 DEF Surplus, Recorded
    <3>3. \A l \in world.layers \ left : Recorded(l)' = Recorded(l)
      BY <3>1, <3>2, OtherLayers DEF PhaseInv
    <3>4. Wanted(At)' = Wanted(At)
      BY <3>1, AtStays DEF Wanted
    <3> QED
      BY <3>1, <3>2, <3>3, <3>4 DEF LayersInv, Ended, Unedited
  <2> QED
    BY <1>10, <2>1, <2>2
<1> QED
  BY <1>1, <1>2, <1>3, <1>4, <1>5, <1>6, <1>7, <1>8, <1>9, <1>10 DEF Task

LEMMA LayersStep ==
    ASSUME TypeOK, PhaseInv, LayersInv, [Next]_vars, TypeOK'
    PROVE  LayersInv'
<1>0. planned[3] \in Nat /\ spent["edits"] \in Nat /\ spent'["edits"] \in Nat
  BY DEF TypeOK, Bound
<1>1. CASE Command
  <2>1. PICK v \in Verb, a \in BOOLEAN, w \in BOOLEAN, S \in SUBSET world.layers :
           /\ Begin(v, S, a, w) /\ (a => S = world.layers)
           /\ \/ v = "apply" /\ phase' \in {"cluster", "plan"}
              \/ v \in {"destroy", "refresh"} /\ phase' = "next"
    BY <1>1, CommandBegins
  <2>2. spent'["edits"] = spent["edits"]
    BY <2>1, Spent DEF Begin, Bound
  <2> QED
    BY <2>1, <2>2 DEF Begin, LayersInv, Ended, Unedited
<1>2. CASE Task
  BY <1>2, LayersTask
<1>3. CASE Fault \/ Kill
  <2>1. /\ spent'["edits"] = spent["edits"] /\ planned' = planned
        /\ phase' \in {"failing", "idle"} /\ (phase' = "idle" => outcome' = "killed")
    BY <1>3, Spent DEF Fault, Kill, Goto, Ends, Bound
  <2> QED
    BY <2>1 DEF LayersInv, Ended
<1>4. CASE Edit
  <2>1. spent'["edits"] = spent["edits"] + 1
    BY <1>4, Spent DEF Edit, Bound
  <2> QED
    BY <1>0, <1>4, <2>1, LayersKeep DEF Edit, command
<1>5. CASE Stray
  <2>1. spent'["edits"] = spent["edits"]
    BY <1>5, Spent DEF Stray, Bound
  <2> QED
    BY <1>0, <1>5, <2>1, LayersKeep DEF Stray, command
<1>6. CASE UNCHANGED vars
  BY <1>0, <1>6, LayersKeep DEF vars, command
<1> QED
  BY <1>1, <1>2, <1>3, <1>4, <1>5, <1>6 DEF Next

----------------------------------------------------------------------------
(* What needs what, of the things that are there.                           *)

\* A step that touches nothing of it.
LEMMA WaitsKeep ==
    ASSUME WaitsInv, UNCHANGED <<live, left, verb, all, config>>, recorded \subseteq recorded',
           phase' = phase \/ phase' \notin {"next", "creating", "deleting"},
           spent'["kills"] = 0 => spent["kills"] = 0
    PROVE  WaitsInv'
<1>1. Upheld'
  BY DEF WaitsInv, Upheld
<1>2. FirstIsThere'
  BY DEF WaitsInv, FirstIsThere
<1>3. ProgramEnded'
  BY AtStays DEF WaitsInv, ProgramEnded
<1> QED
  BY <1>1, <1>2, <1>3 DEF WaitsInv

\* The layer at hand is one of the platform's, and none that is finished.
LEMMA AtIs ==
    ASSUME TypeOK, left # {}
    PROVE  At \in left /\ At \in world.layers /\ At \in Layer /\ 1 \in Layer
BY AtIsLeft, WorldIs DEF TypeOK, Layer

\* Nothing that is there follows what may be removed: it would be going too,
\* or the program that keeps it declares what it follows.
LEMMA NothingFollows ==
    ASSUME TypeOK, PhaseInv, RecordsInv, WaitsInv, phase = "deleting", spent["kills"] = 0,
           NEW d, Removable(d), NEW q \in live \intersect ResourcesOf(At)
    PROVE  d \notin Within(q) \union {Returned(a) : a \in After(q[1]) \ Chosen}
<1> SUFFICES ASSUME d \in Within(q) \union {Returned(a) : a \in After(q[1]) \ Chosen}
             PROVE  FALSE
  OBVIOUS
<1>1. left # {} /\ verb \in {"apply", "destroy"} /\ At \in Layer
  BY AtIs DEF PhaseInv
<1>2. q \in Recorded(At)
  BY DEF RecordsInv, Recorded
<1>3. d \in Surplus /\ q \notin Surplus
  BY DEF Removable
<1>4. verb = "apply" /\ q \in Wanted(At) /\ d \notin Wanted(At)
  BY <1>1, <1>2, <1>3 DEF Surplus
<1>5. d \in Follows(q, config)
  BY OnlyTheChosenDecline DEF Follows
<1>6. d \in Wanted(At)
  BY <1>1, <1>4, <1>5, DeclaredClosed DEF Wanted, WaitsInv, ProgramEnded
<1> QED
  BY <1>4, <1>6

\* What the layer's own driver needs, it needs of the controller too.
LEMMA DriverNeeds ==
    LET csi == {r \in ResourcesOf(1) : r[1] = "hcloud-csi"}
        ccm == <<"hcloud-ccm", "release">>
    IN /\ ccm \in ResourcesOf(1) /\ \A r \in csi : ccm \in Needs(r)
       /\ ccm \in {Returned(a) : a \in After("hcloud-csi") \ Chosen}
       /\ <<"cni", "release">> \in {Returned(a) : a \in After(ccm[1]) \ Chosen}
       /\ <<"cni", "release">> \in Needs(ccm) \intersect ResourcesOf(1)
<1>1. "hcloud-ccm" \in Components(1) /\ "hcloud-ccm" \in Charts /\ "cni" \in Charts /\ 1 \in Layer
  BY ComponentsAre DEF Charts, Namespace, Layer
<1>2. Returned("hcloud-ccm") = <<"hcloud-ccm", "release">> /\ Returned("cni") = <<"cni", "release">>
  BY <1>1 DEF Returned
<1>3. <<"hcloud-ccm", "release">> \in ResourcesOf(1)
  BY <1>1, <1>2, ReturnedIs
<1>4. ASSUME NEW r \in ResourcesOf(1), r[1] = "hcloud-csi"
      PROVE  <<"hcloud-ccm", "release">> \in Needs(r)
  <2>1. PICK c, part : r = <<c, part>> /\ part \in Parts(c)
    BY <1>1, ResourceIs
  <2>2. c = "hcloud-csi" /\ Namespace["hcloud-csi"] = "kube-system" /\ "hcloud-csi" \in Charts
    BY <1>4, <2>1 DEF Namespace, Charts
  <2>3. r[2] # "label"
    BY <2>1, <2>2 DEF Parts, VerifiesImages
  <2> QED
    BY <1>4, <2>3 DEF Needs
<1>5. "cni" \in After("hcloud-ccm") \ Chosen /\ "hcloud-ccm" \in After("hcloud-csi") \ Chosen
  BY FollowersAre DEF Chosen
<1>6. <<"cni", "release">> \in Needs(<<"hcloud-ccm", "release">>)
  BY DEF Needs
<1>7. <<"cni", "release">> \in ResourcesOf(1)
  <2>1. "cni" \in Components(1)
    BY ComponentsAre
  <2> QED
    BY <1>1, <1>2, <2>1, ReturnedIs
<1> QED
  BY <1>2, <1>3, <1>4, <1>5, <1>6, <1>7

\* What is removed, nothing that is there needs.
LEMMA NothingNeeds ==
    ASSUME TypeOK, PhaseInv, RecordsInv, WaitsInv, phase = "deleting", spent["kills"] = 0,
           NEW d, Removable(d), NEW q \in live \intersect ResourcesOf(At)
    PROVE  d \notin Needs(q)
<1> SUFFICES ASSUME d \in Needs(q)  PROVE FALSE
  OBVIOUS
<1>1. At \in Layer /\ 1 \in Layer
  BY AtIs DEF PhaseInv
<1>2. d \in ResourcesOf(At)
  BY DEF Removable, Surplus, Recorded
<1>3. d \notin Within(q) \union {Returned(a) : a \in After(q[1]) \ Chosen}
  BY NothingFollows
<1>4. ~(At # 1 /\ d \in ResourcesOf(1))
  BY <1>1, <1>2, LayersApart
<1>5. At = 1 /\ q[1] = "hcloud-csi" /\ d = <<"cni", "release">>
  BY <1>1, <1>3, <1>4, NeedsAre
<1>6. PICK m : /\ m = <<"hcloud-ccm", "release">> /\ m \in ResourcesOf(1) /\ m \in Needs(q)
               /\ d \in {Returned(a) : a \in After(m[1]) \ Chosen}
  BY <1>5, DriverNeeds
<1>7. m \in live
  BY <1>1, <1>5, <1>6 DEF WaitsInv, Upheld
<1> QED
  BY <1>5, <1>6, <1>7, NothingFollows

\* What is Hetzner's needs only Hetzner's.
LEMMA HetznersNeeds ==
    ASSUME NEW l \in Layer, NEW q \in ResourcesOf(l), ~InCluster(q),
           NEW n \in Needs(q) \union NeedsToGo(q)
    PROVE  ~InCluster(n)
<1>1. PICK c, part : q = <<c, part>> /\ part \in Parts(c)
  BY ResourceIs
<1>2. c \in {"load-balancer", "records"}
  BY <1>1 DEF InCluster
<1>3. part \in {"balancer", "attachment", "services", "target", "rrsets"}
  BY <1>1, <1>2 DEF Parts, Charts, Namespace
<1>4. n \in Within(q)
  BY <1>1, <1>2, <1>3 DEF Needs, NeedsToGo
<1>5. n[1] = "load-balancer"
  <2>1. CASE part = "rrsets"
    BY <1>1, <1>4, <2>1 DEF Within
  <2>2. CASE part # "rrsets"
    <3>1. c = "load-balancer"
      BY <1>1, <1>2, <1>3, <2>2 DEF Parts, Charts, Namespace
    <3> QED
      BY <1>1, <1>3, <1>4, <2>2, <3>1 DEF Within
  <2> QED
    BY <2>1, <2>2
<1> QED
  BY <1>5 DEF InCluster

LEMMA UpheldStep ==
    ASSUME TypeOK, PhaseInv, RecordsInv, WaitsInv, Next, spent'["kills"] = 0
    PROVE  \A l \in Layer : \A r \in live' \intersect ResourcesOf(l) :
               Needs(r) \intersect ResourcesOf(l) \subseteq live'
<1>0. spent["kills"] \in Nat
  BY DEF TypeOK, Bound
<1> SUFFICES ASSUME spent["kills"] = 0
             PROVE  \A l \in Layer : \A r \in live' \intersect ResourcesOf(l) :
                        Needs(r) \intersect ResourcesOf(l) \subseteq live'
  <2>1. CASE UNCHANGED spent
    BY <2>1
  <2>2. CASE \E b \in Bound : Spend(b)
    BY <1>0, <2>2, Spent DEF Bound
  <2>3. UNCHANGED spent \/ \E b \in Bound : Spend(b)
    <3>1. CASE Command
      BY <3>1, CommandBegins DEF Begin, Bound
    <3>2. CASE Task
      BY <3>2 DEF Task, Plan, ClusterStep, NextLayer, LastLayer, Refuse, Created, LayerDone, Read,
                  ReadFails, Stop, Create, CreateFails, Delete, DeleteFails
    <3> QED
      BY <3>1, <3>2 DEF Next, Fault, Kill, Edit, Stray, Bound
  <2> QED
    BY <2>1, <2>2, <2>3
<1>1. \A l \in Layer : \A r \in live \intersect ResourcesOf(l) :
          Needs(r) \intersect ResourcesOf(l) \subseteq live
  BY DEF WaitsInv, Upheld
<1>2. CASE live' = live
  BY <1>1, <1>2
<1>3. ASSUME NEW r, Create(r)
      PROVE  \A l \in Layer : \A q \in live' \intersect ResourcesOf(l) :
                 Needs(q) \intersect ResourcesOf(l) \subseteq live'
  <2>1. live' = live \union {r} /\ Needs(r) \subseteq live
    BY <1>3 DEF Create
  <2> QED
    BY <1>1, <2>1
<1>4. ASSUME NEW d, Delete(d)
      PROVE  \A l \in Layer : \A q \in live' \intersect ResourcesOf(l) :
                 Needs(q) \intersect ResourcesOf(l) \subseteq live'
  <2>1. live' = live \ {d} /\ Removable(d) /\ phase = "deleting"
    BY <1>4 DEF Delete
  <2>2. d \in ResourcesOf(At) /\ At \in Layer
    BY <2>1, AtIs DEF Removable, Surplus, Recorded, PhaseInv
  <2> SUFFICES ASSUME NEW l \in Layer, NEW q \in live \intersect ResourcesOf(l),
                      d \in Needs(q), d \in ResourcesOf(l)
               PROVE  FALSE
    BY <1>1, <2>1
  <2>3. l = At
    BY <2>2, LayersApart
  <2> QED
    BY <2>1, <2>3, NothingNeeds
<1>5. CASE ClusterGoes
  <2>1. live' = {r \in live : ~InCluster(r)}
    BY <1>5 DEF ClusterGoes
  <2> SUFFICES ASSUME NEW l \in Layer, NEW q \in live \intersect ResourcesOf(l), ~InCluster(q),
                      NEW n \in Needs(q) \intersect ResourcesOf(l)
               PROVE  n \in live /\ ~InCluster(n)
    BY <2>1
  <2> QED
    BY <1>1, HetznersNeeds
<1>6. ~Kill
  BY <1>0, Spent DEF Kill, Bound
<1>7. CASE Task
  <2>1. CASE Plan \/ NextLayer \/ LastLayer \/ Refuse \/ Created \/ LayerDone \/ Read \/ ReadFails \/ Stop
    BY <1>2, <2>1 DEF Plan, NextLayer, LastLayer, Refuse, Created, LayerDone, Read, ReadFails, Stop
  <2>2. CASE ClusterStep
    BY <1>2, <1>5, <2>2 DEF ClusterStep
  <2>3. ASSUME NEW r, Create(r) \/ CreateFails(r) \/ Delete(r) \/ DeleteFails(r)
        PROVE  live' = live \/ Create(r) \/ Delete(r)
    BY <2>3 DEF CreateFails, DeleteFails
  <2> QED
    BY <1>2, <1>3, <1>4, <1>7, <2>1, <2>2, <2>3 DEF Task
<1>8. CASE Command \/ Fault \/ Edit \/ Stray
  <2>1. CASE Command
    BY <1>2, <2>1, CommandBegins DEF Begin
  <2> QED
    BY <1>2, <1>5, <1>8, <2>1 DEF Fault, Edit, Stray
<1> QED
  BY <1>6, <1>7, <1>8 DEF Next

\* The first layer's program, run to its end, leaves all of the layer recorded.
LEMMA FirstStep ==
    ASSUME TypeOK, PhaseInv, LayersInv, WaitsInv, Next
    PROVE  FirstIsThere'
<1> SUFFICES ASSUME verb' = "apply", all', phase' \in {"next", "creating", "deleting"}, 1 \notin left'
             PROVE  ResourcesOf(1) \subseteq recorded'
  BY DEF FirstIsThere
<1>0. world.layers \subseteq Layer /\ 1 \in world.layers
  BY WorldIs DEF World
<1>1. ASSUME UNCHANGED <<verb, all, left>>, phase \in {"next", "creating", "deleting"},
             recorded \subseteq recorded'
      PROVE  ResourcesOf(1) \subseteq recorded'
  BY <1>1 DEF WaitsInv, FirstIsThere
<1>2. CASE Command
  BY <1>0, <1>2, CommandBegins DEF Begin
<1>3. CASE Task
  <2>1. CASE Plan
    BY <1>0, <2>1 DEF Plan, Ends, Goto, PhaseInv, command
  <2>2. CASE ClusterStep
    BY <2>2 DEF ClusterStep, Ends, Goto
  <2>3. CASE NextLayer \/ Created
    BY <1>1, <2>3 DEF NextLayer, Created, command
  <2>4. CASE LastLayer
    BY <2>4 DEF LastLayer, Ends, Goto
  <2>5. CASE Refuse \/ ReadFails \/ Stop
    BY <2>5 DEF Refuse, ReadFails, Stop, Ends, Goto
  <2>6. CASE Read
    BY <2>6 DEF Read, PhaseInv, command
  <2>7. CASE LayerDone
    <3>1. /\ phase = "deleting" /\ verb = "apply" /\ all /\ left' = left \ {At} /\ recorded' = recorded
      BY <2>7 DEF LayerDone, Finished, command
    <3>2. CASE At = 1
      <4>1. Wanted(1) \subseteq recorded /\ ~ProgramFails(1, config)
        BY <3>1, <3>2 DEF LayersInv, WaitsInv, ProgramEnded
      <4> QED
        BY <3>1, <4>1, FirstLayerIsWhole DEF Wanted
    <3>3. CASE At # 1
      BY <3>1, <3>3 DEF WaitsInv, FirstIsThere
    <3> QED
      BY <3>2, <3>3
  <2>8. ASSUME NEW r, phase = "creating", Create(r) \/ CreateFails(r)
        PROVE  ResourcesOf(1) \subseteq recorded'
    BY <1>1, <2>8 DEF Create, CreateFails, Goto, command
  <2>9. ASSUME NEW r \in recorded, Delete(r)  PROVE ResourcesOf(1) \subseteq recorded'
    <3>1. /\ phase = "deleting" /\ recorded' = recorded \ {r} /\ r \in Surplus
          /\ UNCHANGED <<verb, all, left>>
      BY <2>9 DEF Delete, Removable, command
    <3>2. r \in ResourcesOf(At) /\ At \in left /\ At \in Layer /\ 1 \in Layer
      BY <3>1, AtIs DEF Surplus, Recorded, PhaseInv
    <3>3. At # 1
      BY <3>1, <3>2
    <3>4. r \notin ResourcesOf(1)
      BY <3>2, <3>3, LayersApart
    <3>5. ResourcesOf(1) \subseteq recorded
      BY <3>1 DEF WaitsInv, FirstIsThere
    <3> QED
      BY <3>1, <3>4, <3>5
  <2>10. ASSUME NEW r, DeleteFails(r)  PROVE FALSE
    BY <2>10 DEF DeleteFails, Goto
  <2> QED
    BY <1>3, <2>1, <2>2, <2>3, <2>4, <2>5, <2>6, <2>7, <2>8, <2>9, <2>10 DEF Task
<1>4. CASE Fault \/ Kill
  BY <1>4 DEF Fault, Kill, Ends, Goto
<1>5. CASE Edit \/ Stray
  BY <1>1, <1>5 DEF Edit, Stray, command
<1> QED
  BY <1>2, <1>3, <1>4, <1>5 DEF Next

\* An apply deletes once its program has run to the end.
LEMMA EndedStep ==
    ASSUME TypeOK, PhaseInv, WaitsInv, Next
    PROVE  ProgramEnded'
<1> SUFFICES ASSUME verb' = "apply", phase' = "deleting"  PROVE ~ProgramFails(At, config)'
  BY DEF ProgramEnded
<1>1. ASSUME UNCHANGED <<verb, left, config, phase>>  PROVE ~ProgramFails(At, config)'
  BY <1>1, AtStays DEF WaitsInv, ProgramEnded
<1>2. CASE Command
  BY <1>2, CommandBegins
<1>3. CASE Task
  <2>1. CASE Plan \/ ClusterStep \/ LastLayer \/ Refuse \/ ReadFails \/ Stop \/ Read \/ LayerDone
    BY <2>1 DEF Plan, ClusterStep, LastLayer, Refuse, ReadFails, Stop, Read, LayerDone, Ends, Goto
  <2>2. CASE NextLayer
    BY <2>2 DEF NextLayer, Goto, command
  <2>3. CASE Created
    <3>1. ~ProgramFails(At, config) /\ UNCHANGED <<verb, left, config>>
      BY <2>3 DEF Created, Refuses, command
    <3> QED
      BY <3>1, AtStays
  <2>4. ASSUME NEW r, phase = "creating", Create(r) \/ CreateFails(r)  PROVE FALSE
    BY <2>4 DEF Create, CreateFails, Goto
  <2>5. ASSUME NEW r, Delete(r) \/ DeleteFails(r)  PROVE ~ProgramFails(At, config)'
    BY <1>1, <2>5 DEF Delete, DeleteFails, Goto, command
  <2> QED
    BY <1>3, <2>1, <2>2, <2>3, <2>4, <2>5 DEF Task
<1>4. CASE Fault \/ Kill
  BY <1>4 DEF Fault, Kill, Ends, Goto
<1>5. CASE Edit \/ Stray
  BY <1>1, <1>5 DEF Edit, Stray, command
<1> QED
  BY <1>2, <1>3, <1>4, <1>5 DEF Next

LEMMA WaitsStep ==
    ASSUME TypeOK, PhaseInv, RecordsInv, LayersInv, WaitsInv, [Next]_vars
    PROVE  WaitsInv'
<1>1. CASE Next
  BY <1>1, UpheldStep, FirstStep, EndedStep DEF WaitsInv, Upheld
<1>2. CASE UNCHANGED vars
  BY <1>2, WaitsKeep DEF vars, command
<1> QED
  BY <1>1, <1>2

----------------------------------------------------------------------------
(* What the checkpoints say.                                                *)

\* An update that goes on is running, and one that failed has failed.
LEMMA BooksSay ==
    ASSUME TypeOK, StacksInv, Books, world' = world, NEW p \in Project
    PROVE  /\ last' \in [Project -> {"never", "running", "failed", "interrupted", "succeeded"}]
           /\ last[p] = "running" /\ ~Begins(p) /\ phase' = "failing" => last'[p] = "failed"
           /\ last[p] = "running" /\ ~Begins(p) /\ phase' \in {"creating", "deleting", "reading", "cluster"}
                 => last'[p] = "running"
           /\ Begins(p) => last'[p] = "running"
           /\ last[p] = "failed" /\ ~Begins(p) /\ ~(p = 0 /\ tier' # tier) => last'[p] = "failed"
<1>1. /\ last' = [q \in Project |-> IF Begins(q) THEN "running"
                                   ELSE IF last[q] = "running" THEN Going
                                   ELSE IF q = 0 /\ phase # "cluster" /\ tier' # tier THEN "succeeded"
                                   ELSE last[q]]
  BY DEF Books
<1>2. Going \in {"failed", "interrupted", "succeeded", "running"}
  BY DEF Going
<1>3. phase' = "failing" => Going = "failed"
  BY DEF Going
<1>4. phase' \in {"creating", "deleting", "reading", "cluster"} => Going = "running"
  BY DEF Going
<1>5. last \in [Project -> {"never", "running", "failed", "interrupted", "succeeded"}]
  BY DEF StacksInv
<1>6. Project' = Project
  BY DEF Project
<1> QED
  BY <1>1, <1>2, <1>3, <1>4, <1>5, <1>6

LEMMA StacksStep ==
    ASSUME TypeOK, PhaseInv, StacksInv, Next, Books, TypeOK'
    PROVE  StacksInv'
<1> DEFINE Updating == {"creating", "deleting", "reading"}
<1>0. /\ last \in [Project -> {"never", "running", "failed", "interrupted", "succeeded"}]
      /\ phase \in Updating => last[At] = "running"
      /\ phase = "cluster" => last[0] = "running"
      /\ phase = "failing" => published # "ours" \/ \E p \in Project : last[p] = "failed"
  BY DEF StacksInv
<1>a. Project = {0} \union world.layers /\ 0 \notin world.layers /\ (left # {} => At \in world.layers)
  BY WorldIs, WantedTyped DEF Project
<1>b. world' = world => Project' = Project
  BY DEF Project
\* A step to a phase in which nothing is updated.
<1>1. ASSUME world' = world, phase' \in {"idle", "plan", "next"}  PROVE StacksInv'
  BY <1>1, <1>a, <1>b, BooksSay DEF StacksInv
\* A step of the update that goes on, and one that fails.
<1>2. ASSUME world' = world, phase \in Updating, phase' \in Updating, UNCHANGED <<left, verb>>
      PROVE  StacksInv'
  <2>1. ~Begins(At) /\ At \in Project /\ At' = At
    BY <1>2, <1>a, AtStays DEF Begins, PhaseInv
  <2>2. last'[At] = "running"
    BY <1>0, <1>2, <2>1, BooksSay
  <2> QED
    BY <1>2, <1>b, <2>1, <2>2, BooksSay DEF StacksInv
<1>3. ASSUME world' = world, phase \in Updating \union {"cluster"}, phase' = "failing"
      PROVE  StacksInv'
  <2>1. PICK p \in Project : last[p] = "running" /\ ~Begins(p)
    BY <1>0, <1>3, <1>a DEF Begins, PhaseInv
  <2>2. last'[p] = "failed"
    BY <1>3, <2>1, BooksSay
  <2> QED
    BY <1>3, <1>b, <2>2, BooksSay DEF StacksInv
\* What happens beside them.
<1>4. ASSUME world' = world, phase' = phase, UNCHANGED <<left, verb>>,
             phase = "cluster" => published' = published,
             tier' = tier \/ published' # "ours"
      PROVE  StacksInv'
  <2>1. CASE phase \in Updating
    BY <1>2, <1>4, <2>1
  <2>2. CASE phase = "cluster"
    <3>1. last'[0] = "running"
      BY <1>0, <1>4, <1>a, <2>2, BooksSay DEF Begins
    <3> QED
      BY <1>4, <1>b, <2>2, <3>1, BooksSay, <1>a DEF StacksInv
  <2>3. CASE phase = "failing"
    <3>1. CASE published' # "ours"
      BY <1>4, <1>b, <2>3, <3>1, BooksSay, <1>a DEF StacksInv
    <3>2. CASE published' = "ours" /\ tier' = tier
      <4>1. published' = published
        BY <3>2 DEF tier
      <4>2. PICK p \in Project : last[p] = "failed"
        BY <1>0, <2>3, <3>2, <4>1
      <4>3. ~Begins(p)
        BY <1>4, <2>3 DEF Begins
      <4>4. last'[p] = "failed"
        BY <1>4, <3>2, <4>2, <4>3, BooksSay
      <4> QED
        BY <1>4, <1>b, <2>3, <4>2, <4>4, BooksSay DEF StacksInv
    <3> QED
      BY <1>4, <3>1, <3>2
  <2>4. CASE phase \in {"idle", "plan", "next"}
    BY <1>1, <1>4, <2>4
  <2> QED
    BY <2>1, <2>2, <2>3, <2>4 DEF TypeOK, Phase
\* The tier's update begins.
<1>5. ASSUME world' = world, phase # "cluster", phase' = "cluster"  PROVE StacksInv'
  <2>1. Begins(0) /\ 0 \in Project
    BY <1>5, <1>a DEF Begins
  <2> QED
    BY <1>5, <1>b, <2>1, BooksSay DEF StacksInv
<1>6. CASE Command
  <2>1. phase' \in {"cluster", "plan", "next"} /\ world' = world /\ phase = "idle"
    BY <1>6, CommandBegins DEF Begin
  <2> QED
    BY <1>1, <1>5, <2>1
<1>7. CASE Task
  <2>1. CASE Plan \/ ClusterStep \/ LayerDone \/ Read \/ Stop
    <3>1. phase' \in {"idle", "plan", "next"} /\ world' = world
      BY <2>1 DEF Plan, ClusterStep, LayerDone, Read, Stop, Ends, Goto
    <3> QED
      BY <1>1, <3>1
  <2>2. CASE NextLayer
    <3>1. /\ world' = world /\ phase = "next" /\ left # {} /\ phase' \in Updating
          /\ UNCHANGED <<left, verb>>
      BY <2>2 DEF NextLayer, Goto, command
    <3>2. Begins(At) /\ At' = At /\ At \in Project
      BY <1>a, <3>1, AtStays DEF Begins
    <3> QED
      BY <1>b, <3>1, <3>2, BooksSay DEF StacksInv
  <2>3. CASE LastLayer
    <3>1. world' = world /\ phase = "next" /\ phase' \in {"cluster", "idle"}
      BY <2>3 DEF LastLayer, Ends, Goto
    <3> QED
      BY <1>1, <1>5, <3>1
  <2>4. CASE Refuse \/ ReadFails
    BY <1>3, <2>4 DEF Refuse, ReadFails, Goto
  <2>5. CASE Created
    BY <1>2, <2>5 DEF Created, Goto, command
  <2>6. ASSUME NEW r, phase = "creating", Create(r) \/ CreateFails(r)  PROVE StacksInv'
    BY <1>2, <1>3, <2>6 DEF Create, CreateFails, Goto, command
  <2>7. ASSUME NEW r, Delete(r) \/ DeleteFails(r)  PROVE StacksInv'
    BY <1>2, <1>3, <2>7 DEF Delete, DeleteFails, Goto, command
  <2> QED
    BY <1>7, <2>1, <2>2, <2>3, <2>4, <2>5, <2>6, <2>7 DEF Task
<1>8. CASE Fault
  BY <1>3, <1>8 DEF Fault, Goto
<1>9. CASE Kill
  BY <1>1, <1>9 DEF Kill, Ends
<1>10. CASE Edit
  BY <1>4, <1>10 DEF Edit, command, tier
<1>11. CASE Stray
  <2>1. published' # "ours" /\ phase # "cluster"
    BY <1>11 DEF Stray, ClusterGoes
  <2> QED
    BY <1>4, <1>11, <2>1 DEF Stray, command
<1> QED
  BY <1>6, <1>7, <1>8, <1>9, <1>10, <1>11 DEF Next

----------------------------------------------------------------------------
(* The reports, and a layer recovered.                                      *)

LEMMA RecoverStep ==
    ASSUME TypeOK, PhaseInv, RecordsInv, LayersInv, WaitsInv, StacksInv, RowsInv,
           NEW l \in world.layers, Recover(l), TypeOK'
    PROVE  PhaseInv' /\ RecordsInv' /\ LayersInv' /\ WaitsInv' /\ StacksInv' /\ RowsInv'
<1>1. /\ phase = "idle" /\ phase' = "idle" /\ outcome' = "none" /\ calm' = FALSE
      /\ recorded' = recorded \union (pending[l] \intersect live)
      /\ pending' = [pending EXCEPT ![l] = {}]
      /\ last' = [last EXCEPT ![l] = "succeeded"]
      /\ UNCHANGED <<world, live, left, verb, all, whole, planned, rebuilt, report, rows>>
  BY DEF Recover, command
<1>2. spent'["kills"] = spent["kills"] /\ spent'["edits"] = spent["edits"]
  BY Spent DEF Recover, Bound
<1>3. PhaseInv'
  BY <1>1 DEF PhaseInv
<1>4. RecordsInv'
  BY <1>1, <1>2 DEF RecordsInv
<1>5. LayersInv'
  BY <1>1, <1>2 DEF LayersInv, Ended
<1>6. StacksInv'
  BY <1>1 DEF StacksInv, Project
<1>7. RowsInv'
  BY <1>1 DEF RowsInv
<1>8. WaitsInv'
  BY <1>1, <1>2, WaitsKeep DEF Recover
<1> QED
  BY <1>3, <1>4, <1>5, <1>6, <1>7, <1>8

\* A report looks, and changes no more than its own rows.
LEMMA ReportStep ==
    ASSUME TypeOK, PhaseInv, RecordsInv, LayersInv, WaitsInv, StacksInv, RowsInv, Report, TypeOK'
    PROVE  PhaseInv' /\ RecordsInv' /\ LayersInv' /\ WaitsInv' /\ StacksInv' /\ RowsInv'
<1>1. /\ UNCHANGED <<world, settings, tier, live, recorded, reaching, command, phase, left,
                     config, planned, outcome, rebuilt, stacks>>
      /\ spent'["kills"] = spent["kills"] /\ spent'["edits"] = spent["edits"]
  <2>1. UNCHANGED spent \/ Spend("reports") \/ Spend("faults")
    BY DEF Report, Ask, ReadProject, Rendered, vars
  <2>2. spent'["kills"] = spent["kills"] /\ spent'["edits"] = spent["edits"]
    BY <2>1, Spent DEF Bound
  <2> QED
    BY <2>2 DEF Report, Ask, ReadProject, Rendered, vars
<1>2. PhaseInv'
  BY <1>1 DEF PhaseInv, command
<1>3. RecordsInv'
  BY <1>1, RecordsKeep DEF stacks
<1>4. LayersInv'
  BY <1>1, LayersKeep DEF command, TypeOK, Bound
<1>5. StacksInv'
  BY <1>1, AtStays DEF StacksInv, Project, stacks, command, tier
<1>6. \A p : StatusRow(p)' = StatusRow(p)
  BY <1>1 DEF StatusRow, stacks, tier
<1>7. \A p : DriftRow(p)' = DriftRow(p)
  BY <1>1 DEF DriftRow, Recorded, Reaches, stacks, tier
<1>8. RowsInv'
  <2>1. CASE \E k \in {"status", "drift"} : Ask(k)
    BY <2>1 DEF Ask, RowsInv
  <2>2. ASSUME NEW p \in Project, ReadProject(p)  PROVE RowsInv'
    <3>1. /\ UNCHANGED <<report, calm>> /\ DOMAIN rows' = DOMAIN rows \union {p}
          /\ \A q \in DOMAIN rows : rows'[q] = rows[q] \/ q = p
          /\ rows'[p] = RowIs(p) \/ rows'[p] = [None EXCEPT !.err = TRUE]
      BY <2>2 DEF ReadProject, RowIs
    <3>2. [None EXCEPT !.err = TRUE].err
      BY DEF None
    <3>3. \A q : RowIs(q)' = RowIs(q)
      BY <1>6, <1>7, <3>1 DEF RowIs
    <3>4. p \notin DOMAIN rows
      BY <2>2 DEF ReadProject
    <3> QED
      BY <3>1, <3>2, <3>3, <3>4 DEF RowsInv
  <2>3. CASE Rendered
    BY <2>3 DEF Rendered, RowsInv
  <2> QED
    BY <2>1, <2>2, <2>3 DEF Report
<1>9. WaitsInv'
  BY <1>1, WaitsKeep DEF command
<1> QED
  BY <1>2, <1>3, <1>4, <1>5, <1>8, <1>9

----------------------------------------------------------------------------
(* The theorems.                                                            *)

LEMMA InitWatched == WatchedInit => WatchedInv
<1> SUFFICES ASSUME WatchedInit  PROVE WatchedInv
  OBVIOUS
<1>1. /\ Init /\ last = [p \in Project |-> "never"] /\ pending = [l \in world.layers |-> {}]
      /\ report = "none"
  BY DEF WatchedInit
<1>2. /\ verb = "none" /\ whole = FALSE /\ phase = "idle" /\ left = {} /\ live = {} /\ recorded = {}
      /\ planned = <<settings, published, spent["edits"]>> /\ spent["edits"] = 0
  BY <1>1 DEF Init, Now, Bound
<1>3. TypeOK
  BY <1>1, InitTyped
<1>4. PhaseInv
  BY <1>2 DEF PhaseInv
<1>5. RecordsInv
  BY <1>1, <1>2 DEF RecordsInv
<1>6. LayersInv
  BY <1>2 DEF LayersInv
<1>7. StacksInv /\ RowsInv
  BY <1>1, <1>2 DEF StacksInv, RowsInv
<1>8. WaitsInv
  BY <1>2 DEF WaitsInv, Upheld, FirstIsThere, ProgramEnded
<1> QED
  BY <1>3, <1>4, <1>5, <1>6, <1>7, <1>8 DEF WatchedInv

LEMMA NextWatched == WatchedInv /\ [WatchedNext]_<<vars, stacks, reading>> => WatchedInv'
<1> SUFFICES ASSUME WatchedInv, [WatchedNext]_<<vars, stacks, reading>>  PROVE WatchedInv'
  OBVIOUS
<1>0. TypeOK /\ PhaseInv /\ RecordsInv /\ LayersInv /\ WaitsInv /\ StacksInv /\ RowsInv
  BY DEF WatchedInv
<1>1. CASE Next /\ Books /\ calm' = FALSE /\ UNCHANGED <<report, rows>>
  <2>1. TypeOK' /\ PhaseInv'
    BY <1>0, <1>1, TypedStep, PhaseStep
  <2>2. RecordsInv' /\ LayersInv' /\ WaitsInv' /\ StacksInv'
    BY <1>0, <1>1, <2>1, RecordsStep, LayersStep, WaitsStep, StacksStep
  <2>3. RowsInv'
    BY <1>0, <1>1 DEF RowsInv
  <2> QED
    BY <2>1, <2>2, <2>3 DEF WatchedInv
<1>2. ASSUME NEW l \in world.layers, Recover(l)  PROVE WatchedInv'
  BY <1>0, <1>2, TypedReport, RecoverStep DEF WatchedInv
<1>3. CASE Report
  BY <1>0, <1>3, TypedReport, ReportStep DEF WatchedInv
<1>4. CASE UNCHANGED <<vars, stacks, reading>>
  <2>1. UNCHANGED vars /\ UNCHANGED <<last, pending, applied, report, rows, calm>>
    BY <1>4 DEF stacks, reading
  <2>2. TypeOK' /\ PhaseInv'
    BY <1>0, <2>1, TypedStep, PhaseStep
  <2>3. LayersInv' /\ WaitsInv'
    BY <1>0, <2>1, <2>2, LayersStep, WaitsStep
  <2>4. RecordsInv'
    BY <1>0, <2>1, RecordsKeep DEF vars
  <2>5. StacksInv'
    BY <1>0, <2>1, AtStays DEF StacksInv, Project, vars, tier, command
  <2>6. \A p : RowIs(p)' = RowIs(p)
    BY <2>1 DEF RowIs, StatusRow, DriftRow, Recorded, Reaches, vars, tier
  <2>7. RowsInv'
    BY <1>0, <2>1, <2>6 DEF RowsInv
  <2> QED
    BY <2>2, <2>3, <2>4, <2>5, <2>7 DEF WatchedInv
<1> QED
  BY <1>1, <1>2, <1>3, <1>4 DEF WatchedNext

LEMMA WatchedInvAlways == WatchedSpec => []WatchedInv
BY InitWatched, NextWatched, PTL DEF WatchedSpec

\* A platform's stacks, its commands and what they have spent of the bounds
\* stay in their ranges; the layers a command has left are the platform's.
THEOREM PlatformTypesAreRight == WatchedSpec => []TypeOK
<1>1. WatchedInv => TypeOK
  BY DEF WatchedInv
<1> QED
  BY <1>1, WatchedInvAlways, PTL

\* An update that creates has something left to create, or is done, or its
\* program fails: of what is left, the first can be created.
LEMMA NoCreateDeadlock ==
    ASSUME TypeOK, PhaseInv, phase = "creating", ~Refuses(At, config, published),
           ~(Wanted(At) \subseteq recorded)
    PROVE  \E r \in Wanted(At) : Startable(r)
<1>1. At \in Layer /\ Wanted(At) \subseteq ResourcesOf(At)
  BY AtIs, WantedTyped DEF PhaseInv
<1>2. PICK r \in Wanted(At) \ recorded : \A q \in Wanted(At) \ recorded : Weight(At, r) <= Weight(At, q)
  BY <1>1, FirstAndLast
<1>3. ~ProgramFails(At, config) /\ published = "ours" /\ ~Unresolved(r, config)
  BY <1>2 DEF Refuses, Wanted
<1>4. ASSUME NEW q \in Follows(r, config)  PROVE q \in recorded
  <2>1. q \in Wanted(At)
    BY <1>1, <1>2, <1>3, DeclaredClosed DEF Wanted
  <2>2. Weight(At, q) < Weight(At, r)
    <3>1. q \in Within(r) \union {Returned(a) : a \in After(r[1])}
      BY DEF Follows
    <3> QED
      BY <1>1, <1>2, <3>1, Before
  <2>3. Weight(At, q) \in Int /\ Weight(At, r) \in Int
    BY <1>1, <1>2, <2>1, WeightIs
  <2> QED
    BY <1>2, <2>1, <2>2, <2>3
<1> QED
  BY <1>2, <1>3, <1>4 DEF Startable

\* Of what goes, the last can go.
LEMMA NoDeleteDeadlock ==
    ASSUME TypeOK, PhaseInv, phase = "deleting", Surplus # {}
    PROVE  \E r \in Surplus : Removable(r)
<1>1. At \in Layer /\ Surplus \subseteq ResourcesOf(At)
  BY AtIs DEF PhaseInv, Surplus, Recorded
<1>2. PICK r \in Surplus : \A q \in Surplus : Weight(At, q) <= Weight(At, r)
  BY <1>1, FirstAndLast
<1>3. ASSUME NEW q \in Surplus, r \in Within(q) \union {Returned(a) : a \in After(q[1])}  PROVE FALSE
  <2>1. Weight(At, r) < Weight(At, q)
    BY <1>1, <1>3, Before
  <2>2. Weight(At, q) \in Int /\ Weight(At, r) \in Int
    BY <1>1, <1>2, WeightIs
  <2> QED
    BY <1>2, <2>1, <2>2
<1> QED
  BY <1>2, <1>3 DEF Removable

\* What an apply of every layer creates finds what it needs.
LEMMA NeedsAreMet ==
    ASSUME WatchedInv, all, ~rebuilt, spent["kills"] = 0, phase = "creating",
           NEW r, Startable(r), NEW n \in Needs(r)
    PROVE  n \in live
<1>0. TypeOK /\ PhaseInv /\ RecordsInv /\ WaitsInv /\ recorded \subseteq live
  BY DEF WatchedInv, RecordsInv
<1>1. /\ left # {} /\ verb = "apply" /\ At \in Layer /\ At \in left /\ 1 \in Layer
      /\ r \in ResourcesOf(At) /\ Follows(r, config) \subseteq live
  BY <1>0, AtIs, WantedTyped DEF PhaseInv, Startable
<1>2. CASE n \in Within(r) \union {Returned(a) : a \in After(r[1]) \ Chosen}
  BY <1>1, <1>2, OnlyTheChosenDecline DEF Follows
<1>3. CASE At = 1 /\ r[1] = "hcloud-csi" /\ n = <<"cni", "release">>
  <2>1. PICK m \in ResourcesOf(1) : /\ m \in {Returned(a) : a \in After(r[1]) \ Chosen}
                                    /\ n \in Needs(m) \intersect ResourcesOf(1)
    BY <1>3, DriverNeeds
  <2>2. m \in live
    BY <1>1, <2>1, OnlyTheChosenDecline DEF Follows
  <2> QED
    BY <1>0, <1>1, <2>1, <2>2 DEF WaitsInv, Upheld
<1>4. CASE At # 1 /\ n \in ResourcesOf(1)
  <2>1. 1 \notin left
    <3>1. \E l \in left : \A m \in left : l <= m
      BY <1>0, <1>1, LeastLeft, WorldIs DEF TypeOK
    <3>2. \A m \in left : At <= m
      BY <1>1, <3>1 DEF At
    <3> QED
      BY <1>1, <1>4, <3>2 DEF Layer
  <2> QED
    BY <1>0, <1>1, <1>4, <2>1 DEF WaitsInv, FirstIsThere
<1> QED
  BY <1>1, <1>2, <1>3, <1>4, NeedsAre

\* No update of any platform comes to a point where everything left waits for
\* something else, and an apply of every layer, on a cluster nobody took away,
\* creates nothing before what it has to find running: the dependencies of the
\* tables, less what declined, and the order of the layers suffice.
THEOREM NothingWaitsForWhatIsMissing == WatchedSpec => []NothingWaitsInVain
<1>1. WatchedInv => NothingWaitsInVain
  <2> SUFFICES ASSUME WatchedInv  PROVE NothingWaitsInVain
    OBVIOUS
  <2>1. TypeOK /\ PhaseInv
    BY DEF WatchedInv
  <2> QED
    BY <2>1, NoCreateDeadlock, NoDeleteDeadlock, NeedsAreMet DEF NothingWaitsInVain
<1> QED
  BY <1>1, WatchedInvAlways, PTL

\* What a resource needs, to run or to go, is of its own layer or of the first.
LEMMA NeedsAreNear ==
    ASSUME NEW l \in Layer, NEW q \in ResourcesOf(l), NEW n \in Needs(q) \union NeedsToGo(q)
    PROVE  /\ n \in ResourcesOf(l) \union ResourcesOf(1)
           /\ n \in ResourcesOf(l) => n \in Needs(q)
<1>1. 1 \in Layer /\ <<"cni", "release">> \in ResourcesOf(1)
  BY DriverNeeds DEF Layer
<1>2. CASE n \in Needs(q)
  <2>1. CASE n \in Within(q) \union {Returned(a) : a \in After(q[1]) \ Chosen}
    BY <1>2, <2>1, Before
  <2> QED
    BY <1>1, <1>2, <2>1, NeedsAre
<1>3. CASE q = <<"root", "application">>
  <2>1. <<"argo-cd", "release">> \in Needs(q)
    BY <1>3 DEF Needs
  <2>2. l # 1
    BY <1>3, ResourceIs, ComponentsAre DEF Layer
  <2>3. NeedsToGo(q) = {<<"argo-cd", "release">>, <<"cni", "release">>}
    BY <1>3 DEF NeedsToGo
  <2> QED
    BY <1>1, <1>2, <2>1, <2>2, <2>3, LayersApart
<1>4. CASE q # <<"root", "application">>
  BY <1>2, <1>4 DEF NeedsToGo
<1> QED
  BY <1>3, <1>4

\* What a command over every layer deletes, nothing that is there needs: of its
\* own layer none does, and when the first layer's turn comes the others are
\* gone, or all of it is declared.
LEMMA DeletesTheLast ==
    ASSUME WatchedInv, all, phase = "deleting", spent["kills"] = 0,
           NEW d, Removable(d), NEW q \in live
    PROVE  d \notin Needs(q) \union NeedsToGo(q)
<1> SUFFICES ASSUME d \in Needs(q) \union NeedsToGo(q)  PROVE FALSE
  OBVIOUS
<1>0. TypeOK /\ PhaseInv /\ RecordsInv /\ LayersInv /\ WaitsInv
  BY DEF WatchedInv
<1>1. /\ left # {} /\ verb \in {"apply", "destroy"} /\ At \in left /\ At \in Layer /\ 1 \in Layer
      /\ left \subseteq Layer
  BY <1>0, AtIs, WorldIs DEF PhaseInv, TypeOK
<1>2. q \in recorded
  BY <1>0 DEF RecordsInv
<1>3. PICK l \in world.layers : q \in ResourcesOf(l)
  BY <1>0, <1>2 DEF RecordsInv
<1>4. d \in Surplus /\ d \in ResourcesOf(At) /\ l \in Layer
  BY <1>0, <1>3, WorldIs DEF Removable, Surplus, Recorded
<1>5. d \in ResourcesOf(l) \union ResourcesOf(1) /\ (d \in ResourcesOf(l) => d \in Needs(q))
  BY <1>3, <1>4, NeedsAreNear
<1>6. CASE l = At
  BY <1>0, <1>3, <1>4, <1>5, <1>6, NothingNeeds
<1>7. CASE l # At
  <2>1. d \notin ResourcesOf(l)
    BY <1>1, <1>4, <1>7, LayersApart
  <2>2. At = 1
    BY <1>1, <1>4, <1>5, <2>1, LayersApart
  <2>3. CASE verb = "destroy"
    <3>1. \A m \in left : m <= 1
      <4>1. \E k \in left : \A m \in left : m <= k
        BY <1>1, MostLeft
      <4> QED
        BY <2>2, <2>3, <4>1 DEF At
    <3>2. l \notin left
      BY <1>4, <1>7, <2>2, <3>1 DEF Layer
    <3> QED
      BY <1>0, <1>2, <1>3, <2>3, <3>2 DEF LayersInv, Recorded
  <2>4. CASE verb = "apply"
    <3>1. ~ProgramFails(1, config)
      BY <1>0, <2>2, <2>4 DEF WaitsInv, ProgramEnded
    <3>2. Wanted(1) = ResourcesOf(1)
      BY <3>1, FirstLayerIsWhole DEF Wanted
    <3> QED
      BY <1>4, <2>2, <2>4, <3>2 DEF Surplus
  <2> QED
    BY <1>1, <2>3, <2>4
<1> QED
  BY <1>6, <1>7

\* Over every layer of any platform nothing goes before what needs it, whatever
\* failed or was edited, and whatever went with the cluster: the layers in
\* reverse, and within one the dependencies of its table, suffice.
THEOREM DependantsAlwaysGoFirst == WatchedSpec => DependantsGoFirst
<1> DEFINE Kept == (all /\ phase = "deleting" /\ spent["kills"] = 0) =>
              \A q \in live' : \A n \in Needs(q) \union NeedsToGo(q) : n \in live => n \in live'
<1>1. WatchedInv /\ [WatchedNext]_<<vars, stacks, reading>> => [Kept]_vars
  <2> SUFFICES ASSUME WatchedInv, WatchedNext, all, phase = "deleting", spent["kills"] = 0,
                      NEW q \in live', NEW n \in Needs(q) \union NeedsToGo(q), n \in live
               PROVE  n \in live'
    BY DEF vars
  <2>1. CASE live \subseteq live'
    BY <2>1
  <2>2. ASSUME NEW d, Delete(d)  PROVE n \in live'
    <3>1. live' = live \ {d} /\ Removable(d)
      BY <2>2 DEF Delete
    <3> QED
      BY <3>1, DeletesTheLast
  <2>3. CASE ClusterGoes
    <3>1. live' = {r \in live : ~InCluster(r)}
      BY <2>3 DEF ClusterGoes
    <3>2. PICK l \in Layer : q \in ResourcesOf(l)
      BY <3>1, WorldIs DEF WatchedInv, TypeOK, Resource
    <3> QED
      BY <3>1, <3>2, HetznersNeeds
  <2>4. CASE Next
    <3>1. CASE Command \/ Fault \/ Edit
      BY <2>1, <3>1, CommandBegins DEF WatchedInv, Begin, Fault, Edit
    <3>2. CASE Kill
      BY <2>1, <3>2 DEF Kill
    <3>3. CASE Stray
      BY <2>1, <2>3, <3>3 DEF Stray
    <3>4. CASE Task
      <4>1. CASE Plan \/ NextLayer \/ LastLayer \/ Refuse \/ Created \/ LayerDone \/ Read
                 \/ ReadFails \/ Stop
        BY <2>1, <4>1 DEF Plan, NextLayer, LastLayer, Refuse, Created, LayerDone, Read, ReadFails, Stop
      <4>2. ~ClusterStep
        BY DEF ClusterStep
      <4>3. ASSUME NEW r, Delete(r) \/ DeleteFails(r)  PROVE n \in live'
        BY <2>1, <2>2, <4>3 DEF DeleteFails
      <4> QED
        BY <3>4, <4>1, <4>2, <4>3 DEF Task
    <3> QED
      BY <2>4, <3>1, <3>2, <3>3, <3>4 DEF Next
  <2>5. CASE \E l \in world.layers : Recover(l)
    BY <2>1, <2>5 DEF Recover
  <2>6. CASE Report
    BY <2>1, <2>6 DEF Report, Ask, ReadProject, Rendered, vars
  <2> QED
    BY <2>4, <2>5, <2>6 DEF WatchedNext
<1>2. WatchedSpec => [][Kept]_vars
  BY <1>1, WatchedInvAlways, PTL DEF WatchedSpec
<1> QED
  BY <1>2 DEF DependantsGoFirst

\* An apply of every layer that ends well leaves what the configuration asks
\* for and nothing else, for any layers and configurations and after any
\* commands, failures and edits before it: what a layer's update creates and
\* deletes is its own, and no later layer's update touches it.
THEOREM AnApplyThatEndsWellInstalls == WatchedSpec => []SuccessIsInstalled
<1>1. WatchedInv => SuccessIsInstalled
  <2> SUFFICES ASSUME WatchedInv, phase = "idle", verb = "apply", all, outcome = "succeeded",
                      ~rebuilt, spent["kills"] = 0, planned[3] = spent["edits"]
               PROVE  live = UNION {Declared(l, settings) : l \in world.layers}
    BY DEF SuccessIsInstalled
  <2>1. \A l \in world.layers : Recorded(l) = Declared(l, settings)
    <3>1. left = {}
      BY DEF WatchedInv, PhaseInv
    <3> QED
      BY <3>1 DEF WatchedInv, LayersInv, Ended, Unedited
  <2>2. live = recorded
    BY DEF WatchedInv, RecordsInv
  <2>3. \A r \in recorded : \E l \in world.layers : r \in Recorded(l)
    BY DEF WatchedInv, RecordsInv, Recorded
  <2> QED
    BY <2>1, <2>2, <2>3 DEF Recorded
<1> QED
  BY <1>1, WatchedInvAlways, PTL

\* A destroy of everything that ends well leaves no state that describes
\* anything, and, where no process was killed, nothing that is there.
THEOREM ADestroyThatEndsWellIsComplete == WatchedSpec => []DestroyLeavesNothing
<1>1. WatchedInv => DestroyLeavesNothing
  <2> SUFFICES ASSUME WatchedInv, phase = "idle", verb = "destroy", whole, outcome = "succeeded"
               PROVE  recorded = {} /\ (live = {} \/ spent["kills"] > 0)
    BY DEF DestroyLeavesNothing
  <2>1. left = {} /\ all
    BY DEF WatchedInv, PhaseInv
  <2>2. \A l \in world.layers : Recorded(l) = {}
    BY <2>1 DEF WatchedInv, LayersInv, Ended
  <2>3. recorded = {}
    BY <2>2 DEF WatchedInv, RecordsInv, Recorded
  <2>4. spent["kills"] = 0 => live = {}
    BY <2>3 DEF WatchedInv, RecordsInv
  <2>5. spent["kills"] \in Nat
    BY DEF WatchedInv, TypeOK, Bound
  <2> QED
    BY <2>3, <2>4, <2>5
<1> QED
  BY <1>1, WatchedInvAlways, PTL

\* A report that reassures is right about the state it was made in, for any
\* platform and in whatever order its stacks are read.
THEOREM ReportsCanBeBelieved == WatchedSpec => []ReportsReassureRightly
<1>1. WatchedInv => ReportsReassureRightly
  <2> SUFFICES ASSUME WatchedInv, Joined, calm
               PROVE  /\ report = "status" /\ Summary = "ok" =>
                            /\ published = "ours" /\ live \subseteq recorded
                            /\ phase \in {"idle", "next", "plan"}
                      /\ report = "drift" /\ ~Drifted => recorded \subseteq live
    BY DEF ReportsReassureRightly
  <2>0. TypeOK /\ PhaseInv /\ RecordsInv /\ StacksInv /\ RowsInv
    BY DEF WatchedInv
  <2>1. \A p \in Project : rows[p].err \/ rows[p] = RowIs(p)
    BY <2>0 DEF RowsInv, Joined
  <2>2. 0 \in Project /\ world.layers \subseteq Project /\ 0 \notin world.layers
    BY <2>0, WorldIs DEF Project
  <2>3. ASSUME report = "status", Summary = "ok"
        PROVE  published = "ours" /\ live \subseteq recorded /\ phase \in {"idle", "next", "plan"}
    <3>1. \A p \in Project : /\ ~rows[p].err /\ ~Notes(p)
                             /\ rows[p].result \notin {"failed", "interrupted", "never", "running"}
      BY <2>3 DEF Summary
    <3>2. \A p \in Project : /\ rows[p].result = last[p]
                             /\ rows[p].pending = (IF p = 0 THEN {} ELSE pending[p])
                             /\ rows[p].contract = (IF p = 0 THEN published ELSE applied[p])
      BY <2>1, <2>3, <3>1 DEF RowIs, StatusRow, None
    <3>3. published = "ours"
      BY <2>2, <3>1, <3>2 DEF Notes
    <3>4. \A l \in world.layers : pending[l] = {}
      BY <2>2, <3>1, <3>2 DEF Notes
    <3>5. live \subseteq recorded
      BY <2>0, <3>4 DEF RecordsInv
    <3>6. \A p \in Project : last[p] \notin {"failed", "running"}
      BY <3>1, <3>2
    <3>7. phase # "failing" /\ phase # "cluster"
      BY <2>0, <2>2, <3>3, <3>6 DEF StacksInv
    <3>8. phase \notin {"creating", "deleting", "reading"}
      BY <2>0, <2>2, <3>6, WantedTyped DEF StacksInv, PhaseInv
    <3> QED
      BY <2>0, <3>3, <3>5, <3>7, <3>8 DEF TypeOK, Phase
  <2>4. ASSUME report = "drift", ~Drifted  PROVE recorded \subseteq live
    <3>1. \A p \in Project : ~rows[p].err /\ rows[p].changes = {}
      BY <2>4 DEF Drifted
    <3>2. \A p \in world.layers : rows[p] = DriftRow(p) /\ p # 0
      BY <2>1, <2>2, <2>4, <3>1 DEF RowIs
    <3>3. [None EXCEPT !.err = TRUE].err
      BY DEF None
    <3>4. ASSUME NEW p \in world.layers  PROVE Recorded(p) \subseteq live
      <4>1. rows[p] = [None EXCEPT !.result = last[p], !.changes = Recorded(p) \ live]
        BY <2>2, <3>1, <3>2, <3>3, <3>4 DEF DriftRow
      <4>2. rows[p].changes = Recorded(p) \ live
        BY <4>1 DEF None
      <4> QED
        BY <2>2, <3>1, <4>2
    <3> QED
      BY <2>0, <3>4 DEF RecordsInv, Recorded
  <2> QED
    BY <2>3, <2>4
<1> QED
  BY <1>1, WatchedInvAlways, PTL
=============================================================================
