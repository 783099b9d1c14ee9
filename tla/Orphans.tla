------------------------------ MODULE Orphans ------------------------------
(***************************************************************************)
(* `cluster:orphans`: what the Hetzner project holds is listed kind by     *)
(* kind, then every stack's state is exported, then the cluster is asked   *)
(* what it uses, and what nothing accounts for is reported.  Each of these *)
(* is a call of its own, and everything moves in between: applies create   *)
(* and record, destroys delete and forget, the CSI driver provisions, the  *)
(* cloud controller makes balancers, clusters come and go.                 *)
(***************************************************************************)
EXTENDS Naturals, Sequences, FiniteSets

CONSTANTS
    Volumes,    \* what the CSI drivers may create
    Balancers,  \* what the cloud controller managers may create for Services
    Servers,    \* the clusters' servers, made by stacks
    Others,     \* everything else a stack makes
    Clusters, Mine,     \* the clusters in the project, and the one asked about
    ClusterOf,  \* of each volume, balancer and server
    Dirs,       \* the project directories' stacks, in the order they are read
    StackOf,    \* of each server and other thing
    MaxMoves    \* bound: what the world does while a report runs

Stacks == {Dirs[i] : i \in 1..Len(Dirs)}

ASSUME OrphansAssumption ==
    /\ Dirs \in Seq(Stacks)
    /\ Mine \in Clusters
    /\ ClusterOf \in [Volumes \cup Balancers \cup Servers -> Clusters]
    /\ StackOf \in [Servers \cup Others -> Stacks]
    /\ Volumes \cap (Balancers \cup Servers \cup Others) = {}
    /\ Balancers \cap (Servers \cup Others) = {}
    /\ Servers \cap Others = {}
    /\ MaxMoves \in Nat

VARIABLES
    exists,     \* what the Hetzner API would list
    state,      \* what the stacks' states record
    kept,       \* the stacks there are
    pv,         \* the PersistentVolume of each volume: none, bound, released
    services,   \* the balancers whose Service is there
    nodes,      \* the servers that are Kubernetes nodes
    login,      \* whether the operator is logged in where the stacks are
    pc,         \* the next call of the report
    inventory,  \* what it listed
    unread,     \* the project directories it has yet to read
    held,       \* what the exported states hold
    stacks,     \* how many there were
    claims,     \* what the cluster said
    report,     \* what the last run printed
    moves,      \* the world's steps since the report started
    idle,       \* history: listed, and claimed by nothing at some moment since
    settled     \* history: there, left alone and claimed by nothing all along

world == <<exists, state, kept, pv, services, nodes>>
found == <<inventory, unread, held, stacks, claims>>
vars == <<world, login, pc, found, report, moves, idle, settled>>

Things == Servers \cup Others
Resources == Volumes \cup Balancers \cup Things

Alive(c) == \E s \in Servers : ClusterOf[s] = c /\ s \in exists

\* No state records it and nothing in the cluster asked about uses it.
Unclaimed(r) ==
    /\ r \notin state
    /\ r \in Resources \ Others /\ ClusterOf[r] = Mine =>
         /\ r \in Volumes => pv[r] # "bound"
         /\ r \notin services
         /\ r \notin nodes

NoClaims == [volumes |-> {}, released |-> {}, services |-> {}, nodes |-> {}]

Reading == {"volumes", "balancers", "servers", "others", "stacks", "judge",
            "pvs", "released", "services", "nodes", "judged"}

Init ==
    /\ exists = {} /\ state = {} /\ kept = {}
    /\ pv = [v \in Volumes |-> "none"]
    /\ services = {} /\ nodes = {}
    /\ login = TRUE
    /\ pc = "off"
    /\ inventory = {} /\ unread = <<>> /\ held = {} /\ stacks = 0
    /\ claims = NoClaims /\ report = {}
    /\ moves = 0 /\ idle = {} /\ settled = {}

----------------------------------------------------------------------------
(* The judgement.  A volume or a balancer that a stack made is one of       *)
(* Others, judged by the states alone.  Left out: a primary address that is *)
(* assigned and the snapshot of the pinned Talos version are never reported.*)

\* Mutant: only a missing PersistentVolume makes an orphan.
VolumeFindingsByName == {v \in inventory \cap Volumes : v \notin claims.volumes}

VolumeFindings ==
    {v \in inventory \cap Volumes : v \in claims.released \/ v \notin claims.volumes}

LoadBalancerFindings ==
    {b \in inventory \cap Balancers : b \notin claims.services}

ServerFindings ==
    {s \in inventory \cap Servers : s \notin claims.nodes /\ s \notin held}

ResourceFindings == {r \in inventory \cap Others : r \notin held}

Findings == VolumeFindings \cup LoadBalancerFindings \cup ServerFindings
              \cup ResourceFindings

ClusterServers == {s \in inventory \cap Servers : ClusterOf[s] = Mine}

----------------------------------------------------------------------------
(* The report: one call at a time.                                          *)

\* The operator's login may show another backend, with none of these stacks.
Start ==
    /\ pc = "off"
    /\ pc' = "volumes"
    /\ login' \in BOOLEAN
    /\ unread' = Dirs
    /\ report' = {}
    /\ idle' = {}
    /\ settled' = {r \in exists : Unclaimed(r)}
    /\ UNCHANGED <<world, inventory, held, stacks, claims, moves>>

\* A listing sees its kind as it is at that moment.
List(kind, members, next) ==
    /\ pc = kind
    /\ inventory' = inventory \cup (exists \cap members)
    /\ idle' = idle \cup {r \in exists \cap members : Unclaimed(r)}
    /\ pc' = next
    /\ UNCHANGED <<world, login, unread, held, stacks, claims, report, moves, settled>>

\* Mutant: the servers are listed before the volumes and the balancers.
InventoryServersFirst ==
    \/ List("volumes", Servers, "balancers")
    \/ List("balancers", Volumes, "servers")
    \/ List("servers", Balancers, "others")
    \/ List("others", Others, "stacks")

Inventory ==
    \/ List("volumes", Volumes, "balancers")
    \/ List("balancers", Balancers, "servers")
    \/ List("servers", Servers, "others")
    \/ List("others", Others, "stacks")

ReadHeld ==
    /\ pc = "stacks"
    /\ \/ /\ unread # <<>>
          /\ unread' = Tail(unread)
          /\ IF login /\ Head(unread) \in kept
               THEN /\ held' = held \cup {r \in state : StackOf[r] = Head(unread)}
                    /\ stacks' = stacks + 1
               ELSE UNCHANGED <<held, stacks>>
          /\ UNCHANGED pc
       \/ /\ unread = <<>>
          /\ pc' = "judge"
          /\ UNCHANGED <<unread, held, stacks>>
    /\ UNCHANGED <<world, login, inventory, claims, report, moves, idle, settled>>

\* No stacks while the cluster's servers exist is a wrong backend, and a
\* cluster without servers claims nothing: only with servers is it asked.
ClusterClaims ==
    /\ pc = "judge"
    /\ ClusterServers # {} => stacks > 0
    /\ pc' = IF ClusterServers # {} THEN "pvs" ELSE "judged"
    /\ UNCHANGED <<world, login, found, report, moves, idle, settled>>

\* Four listings through kubectl, each of what the cluster says then; the
\* released volumes are a listing of their own.
ReadClaims ==
    /\ Alive(Mine)
    /\ \/ /\ pc = "pvs" /\ pc' = "released"
          /\ claims' = [claims EXCEPT !.volumes =
                          {v \in Volumes : ClusterOf[v] = Mine /\ pv[v] # "none"}]
       \/ /\ pc = "released" /\ pc' = "services"
          /\ claims' = [claims EXCEPT !.released =
                          {v \in Volumes : ClusterOf[v] = Mine /\ pv[v] = "released"}]
       \/ /\ pc = "services" /\ pc' = "nodes"
          /\ claims' = [claims EXCEPT !.services = {b \in services : ClusterOf[b] = Mine}]
       \/ /\ pc = "nodes" /\ pc' = "judged"
          /\ claims' = [claims EXCEPT !.nodes = {s \in nodes : ClusterOf[s] = Mine}]
    /\ UNCHANGED <<world, login, inventory, unread, held, stacks, report, moves, idle, settled>>

\* The process ends, and what it read with it.
Exit ==
    /\ pc' = "off"
    /\ inventory' = {} /\ unread' = <<>> /\ held' = {} /\ stacks' = 0
    /\ claims' = NoClaims
    /\ moves' = 0
    /\ UNCHANGED <<world, login>>

Judge ==
    /\ pc = "judged"
    /\ report' = Findings
    /\ Exit
    /\ UNCHANGED <<idle, settled>>

\* Any call may fail, the timeout ends any, a stack may go between the listing
\* and its export, and an empty backend is refused: nothing is printed.
Fail ==
    /\ pc \in Reading \ {"judged"}
    /\ report' = {} /\ idle' = {} /\ settled' = {}
    /\ Exit

----------------------------------------------------------------------------
(* The world.                                                               *)

\* An apply makes a thing, then records it, a server before it can be a node.
CreateThing(r) ==
    /\ r \notin exists
    /\ exists' = exists \cup {r}
    /\ kept' = kept \cup {StackOf[r]}
    /\ UNCHANGED <<state, pv, services, nodes>>

Record(r) ==
    /\ r \in exists \ (state \cup nodes)
    /\ StackOf[r] \in kept
    /\ state' = state \cup {r}
    /\ UNCHANGED <<exists, kept, pv, services, nodes>>

\* The last server of a cluster takes the API server along, with all it said.
GoneWith(r) ==
    {x \in Volumes \cup Balancers \cup Servers :
        /\ r \in Servers /\ ClusterOf[x] = ClusterOf[r]
        /\ \A s \in Servers \ {r} : s \in exists => ClusterOf[s] # ClusterOf[r]}

\* A destroy, or a hand in the console.
DeleteThing(r) ==
    /\ r \in exists
    /\ exists' = exists \ {r}
    /\ pv' = [v \in Volumes |-> IF v \in GoneWith(r) THEN "none" ELSE pv[v]]
    /\ services' = services \ GoneWith(r)
    /\ nodes' = nodes \ GoneWith(r)
    /\ UNCHANGED <<state, kept>>

Forget(r) ==
    /\ r \in state \ exists
    /\ state' = state \ {r}
    /\ UNCHANGED <<exists, kept, pv, services, nodes>>

\* `pulumi stack rm`, with --force when it still holds something.
RemoveStack(k) ==
    /\ k \in kept
    /\ kept' = kept \ {k}
    /\ state' = {r \in state : StackOf[r] # k}
    /\ UNCHANGED <<exists, pv, services, nodes>>

\* A server becomes a node, and a node is deleted.
Membership(s) ==
    /\ \/ s \in (exists \cap state) \ nodes /\ nodes' = nodes \cup {s}
       \/ s \in nodes /\ nodes' = nodes \ {s}
    /\ UNCHANGED <<exists, state, kept, pv, services>>

\* The CSI driver makes a volume before its PersistentVolume, and removes it
\* before it; a retained one stays, and its PersistentVolume may be deleted.
VolumeStep(v) ==
    /\ \/ /\ Alive(ClusterOf[v]) /\ v \notin exists /\ pv[v] = "none"
          /\ exists' = exists \cup {v} /\ UNCHANGED pv
       \/ /\ Alive(ClusterOf[v]) /\ v \in exists /\ pv[v] = "none"
          /\ pv' = [pv EXCEPT ![v] = "bound"] /\ UNCHANGED exists
       \/ /\ pv[v] = "bound"
          /\ pv' = [pv EXCEPT ![v] = "released"] /\ UNCHANGED exists
       \/ /\ pv[v] = "released"
          /\ pv' = [pv EXCEPT ![v] = "none"] /\ UNCHANGED exists
       \/ /\ v \in exists /\ pv[v] # "bound"
          /\ exists' = exists \ {v} /\ UNCHANGED pv
    /\ UNCHANGED <<state, kept, services, nodes>>

\* The cloud controller makes a balancer for a Service, and removes it with it
\* unless the finalizer was taken off.
BalancerStep(b) ==
    /\ \/ /\ Alive(ClusterOf[b]) /\ b \notin services \cup exists
          /\ services' = services \cup {b} /\ UNCHANGED exists
       \/ /\ b \in services \ exists
          /\ exists' = exists \cup {b} /\ UNCHANGED services
       \/ /\ b \in exists
          /\ exists' = exists \ {b} /\ UNCHANGED services
       \/ /\ b \in services
          /\ services' = services \ {b} /\ UNCHANGED exists
    /\ UNCHANGED <<state, kept, pv, nodes>>

\* What a run printed is about the world it read: it is dropped when the world
\* moves on without one.
World ==
    /\ pc = "off" \/ moves < MaxMoves
    /\ moves' = IF pc = "off" THEN 0 ELSE moves + 1
    /\ \/ \E r \in Things : CreateThing(r) \/ Record(r) \/ DeleteThing(r) \/ Forget(r)
       \/ \E k \in Stacks : RemoveStack(k)
       \/ \E s \in Servers : Membership(s)
       \/ \E v \in Volumes : VolumeStep(v)
       \/ \E b \in Balancers : BalancerStep(b)
    /\ report' = {}
    /\ idle' = IF pc = "off" THEN {} ELSE idle \cup {r \in inventory : Unclaimed(r)'}
    /\ settled' = IF pc = "off" THEN {}
                  ELSE {r \in settled : /\ r \in exists' /\ Unclaimed(r)'
                                        /\ r \in Volumes => pv'[r] = pv[r]}
    /\ UNCHANGED <<login, pc, found>>

Next == Start \/ Inventory \/ ReadHeld \/ ClusterClaims \/ ReadClaims \/ Judge
          \/ Fail \/ World

Spec == Init /\ [][Next]_vars

----------------------------------------------------------------------------

\* The report names nothing that was in use all along: whatever applies,
\* destroys and controllers did between the listings, the exports and the
\* kubectl calls, no state held it and nothing in the cluster used it at some
\* moment after it was listed.  A login that shows no stacks, with the
\* cluster's servers gone, is the exception the code leaves: RefuseEmptyBackend
\* takes that for a finished teardown.
ReportedWasIdle == login => report \subseteq idle

\* A run that gets through misses no orphan: whatever was there, left alone and
\* claimed by nothing from its first call to its last is in the report, with
\* the cluster up, half torn down or gone.
SettledIsReported == pc = "off" => settled \subseteq report
=============================================================================
