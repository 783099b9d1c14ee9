----------------------------- MODULE ClusterApply -----------------------------
(***************************************************************************)
(* `cluster:apply`, `cluster:destroy` and `cluster:secrets:destroy` over   *)
(* the resources of one cluster.  Pulumi takes the steps of a run in any   *)
(* order the dependencies allow and stops at the first that fails; Hetzner *)
(* and Talos answer the calls; etcd lives on the machines.                 *)
(***************************************************************************)
EXTENDS ClusterResources

CONSTANTS
    Files,       \* what the variables file may say
    Offered,     \* the server types this project can create, with their architecture
    NoType,      \* no machine
    MayShrink,   \* the operator may take control-plane nodes out of the file
    MaxRuns,     \* bound: tasks started
    MaxFaults    \* bound: calls that fail, runs that are killed

ASSUME FilesAssumption == \A f \in Files : DecodedFile(f)

ASSUME ApplyAssumption ==
    /\ \A f \in Files : /\ First \in f.controlPlanes
                         /\ f.controlPlanes \subseteq ControlPlanes
                         /\ WorkersOf(f) \subseteq Workers
    /\ NoType \notin DOMAIN Offered
    /\ MayShrink \in BOOLEAN
    /\ MaxRuns \in Nat /\ MaxFaults \in Nat

VARIABLES
    task,        \* the task that runs, or ran last
    outcome,     \* how it ended, "running" before that
    plan,        \* the file the last apply went by
    image,       \* there is a snapshot of its Talos version
    todo,        \* the steps of the run that are left: <<step, resource>>
    stack,       \* the resources in Pulumi's state
    machine,     \* the type of each server that exists
    config,      \* the configuration each machine has, or Unset
    inputs,      \* the configuration last sent to each node, or Unset: what
                 \* Pulumi's state has of Config(n) as long as it holds it
    disk,        \* what etcd has on each control-plane machine
    peers,       \* the members etcd's newest history knows
    published,   \* the nodes the exported kubeconfig names, with an address
    vain,        \* history: what Hetzner was asked for and cannot give
    dropsFirst,  \* Pulumi deletes what is replaced with a server before it
    runs, faults

engine == <<task, outcome, plan, image, todo>>
world == <<machine, config, disk, peers>>
state == <<stack, inputs>>
vars == <<engine, state, world, published, vain, dropsFirst, runs, faults>>

-----------------------------------------------------------------------------
(* The files, as the program reads them.                                    *)

LoadTopology(f) == ApplyDefaults(f)
Plans == {LoadTopology(f) : f \in Files}
Accepted == {t \in Plans : Validate(t) /\ NewAddressing(t)}

PoolOf(t, n) == CHOOSE i \in Pools(t) : n \in t.workerPools[i].nodes
TypeOf(t, n) ==
    IF n \in t.controlPlanes THEN t.serverType
    ELSE t.workerPools[PoolOf(t, n)].serverType
NodesOf(t) == t.controlPlanes \cup WorkersOf(t)
Types == {NoType} \cup UNION {{TypeOf(t, n) : n \in NodesOf(t)} : t \in Plans}

ServerNodes(rs) == {n \in Nodes : Server(n) \in rs}
Live == {n \in ControlPlanes : disk[n] = "data"}
Quorum == 2 * Cardinality(Live \cap peers) > Cardinality(peers)

\* Mutant: a control-plane node's address is not kept for the next machine.
StableAddressNever == FALSE

\* A control-plane node's public address outlives the machine.
StableAddress == TRUE

PrivateIp(n) == <<"private", n>>

\* Where a machine of this type is reached.
NodeAddress(t, n, type) ==
    IF ~PublicIPv4Enabled(t) THEN PrivateIp(n)
    ELSE IF n \in ControlPlanes /\ StableAddress THEN PrimaryIp(n)
    ELSE <<"public", n, type>>

\* Where a machine of the file is reached.
AddressIn(t, n) == NodeAddress(t, n, TypeOf(t, n))

\* The load balancer, or the one node there is.
Endpoint(t) == IF APILoadBalanced(t) THEN The("api-network") ELSE AddressIn(t, First)

\* Every type exists, and boots what the snapshot was built for.
Creatable(t) ==
    \A n \in NodesOf(t) : /\ TypeOf(t, n) \in DOMAIN Offered
                          /\ Offered[TypeOf(t, n)] = t.architecture

\* One context for each control-plane node, at its own address.
ClientKubeconfig(t) == {<<n, AddressIn(t, n)>> : n \in t.controlPlanes}

\* The first node's only: one that is silent is not passed over.
talosconfigFor(t) == {<<First, AddressIn(t, First)>>}

Exported(t) == ClientKubeconfig(t) \cup talosconfigFor(t)

\* The configuration of a machine.
ConfigOf(t, n) ==
    IF n \in t.controlPlanes
      THEN controlPlaneConfig(t, AddressIn(t, n), PrivateIp(n), Endpoint(t))
      ELSE workerConfig(t, t.workerPools[PoolOf(t, n)], AddressIn(t, n), PrivateIp(n), Endpoint(t))

\* Unset is no address and no configuration.
ASSUME UnsetAssumption ==
    /\ \A n \in ControlPlanes : Unset \notin {PrimaryIp(n), PrivateIp(n), The("api-network")}
    /\ \A t \in Accepted : \A n \in NodesOf(t) : ConfigOf(t, n) # Unset

\* No cluster yet, or one that an apply built to the end.
Init ==
    /\ task = "none" /\ outcome = "ok"
    /\ plan \in Accepted
    /\ image = TRUE
    /\ todo = {}
    /\ \/ /\ stack = {}
          /\ machine = [n \in Nodes |-> NoType]
          /\ config = [n \in Nodes |-> Unset] /\ inputs = config
          /\ disk = [n \in ControlPlanes |-> "empty"]
          /\ peers = {}
          /\ published = {}
       \/ /\ Creatable(plan)
          /\ stack = Registered(plan)
          /\ machine = [n \in Nodes |-> IF n \in NodesOf(plan) THEN TypeOf(plan, n) ELSE NoType]
          /\ config = [n \in Nodes |-> IF n \in NodesOf(plan) THEN ConfigOf(plan, n) ELSE Unset]
          /\ inputs = config
          /\ disk = [n \in ControlPlanes |-> IF n \in plan.controlPlanes THEN "data" ELSE "empty"]
          /\ peers = plan.controlPlanes
          /\ published = Exported(plan)
    /\ vain = {}
    /\ dropsFirst \in BOOLEAN
    /\ runs = 0 /\ faults = 0

-----------------------------------------------------------------------------
(* A run: what the preview makes of the program and the state.              *)

Idle == outcome # "running" /\ runs < MaxRuns

Steps(kind, rs) == {kind} \X rs

\* A server whose type changed is deleted, then created.  A new location or
\* private address has the same done to it, and to more; files here keep theirs.
Replaced(t) ==
    {Server(n) : n \in {m \in ServerNodes(stack \cap Registered(t)) : machine[m] # TypeOf(t, m)}}

\* A configuration is sent again, to the machine that is there, when the file
\* asks for another than the state says was sent.  What the machine has, one
\* that was made since the last was sent among them, is not looked at.
Updated(t) ==
    {Config(n) : n \in {m \in NodesOf(t) : /\ Config(m) \in stack
                                          /\ Server(m) \notin Replaced(t)
                                          /\ inputs[m] # ConfigOf(t, m)}}

Planned(t) ==
    LET again == Replaced(t) \cup ReplacedWith(Replaced(t)) IN
    Steps("delete", Replaced(t))
      \cup Steps("create", Registered(t) \cap (again \cup (Resources \ stack)))
      \cup Steps("update", Updated(t) \ again)
      \cup Steps("remove", stack \ Registered(t))

Refused(t) == Protected \cap (Replaced(t) \cup (stack \ Registered(t)))

\* The list of server types may not be readable; read, it has to hold the type.
ValidateServerTypes(t, readable) == readable => Creatable(t)

\* The operator keeps to the control plane and the addressing of the cluster
\* there is, or may shrink the one.
Editable(t) ==
    \/ stack = {}
    \/ /\ MayShrink \/ plan.controlPlanes \subseteq t.controlPlanes
       /\ PublicIPv4Enabled(plan) = PublicIPv4Enabled(t)

\* A file that is refused ends the task before anything is asked of Hetzner.
ApplyRefused ==
    /\ Idle
    /\ Plans # Accepted
    /\ task' = "apply" /\ runs' = runs + 1
    /\ outcome' = "refused" /\ todo' = {}
    /\ UNCHANGED <<plan, image, state, world, published, vain, dropsFirst, faults>>

\* Mutant: the server types are looked at once the resources are registered.
ApplyRegistersFirst(t, readable, force, found) ==
    /\ Idle /\ Editable(t)
    /\ task' = "apply" /\ runs' = runs + 1
    /\ plan' = t /\ image' = found
    /\ outcome' = (IF ValidateServerTypes(t, readable) THEN "running" ELSE "refused")
    /\ todo' = Planned(t)
    /\ UNCHANGED <<state, world, published, vain, dropsFirst, faults>>

\* A type nobody offers, or a protected resource without
\* replace_control_plane=yes, and nothing is touched.
Apply(t, readable, force, found) ==
    /\ Idle /\ Editable(t)
    /\ task' = "apply" /\ runs' = runs + 1
    /\ plan' = t /\ image' = found
    /\ IF ValidateServerTypes(t, readable) /\ (force \/ Refused(t) = {})
         THEN outcome' = "running" /\ todo' = Planned(t)
         ELSE outcome' = "refused" /\ todo' = {}
    /\ UNCHANGED <<state, world, published, vain, dropsFirst, faults>>

\* Mutant: the teardown is not told what to keep.
DestroyAll ==
    /\ Idle
    /\ task' = "destroy" /\ runs' = runs + 1
    /\ outcome' = "running"
    /\ todo' = Steps("remove", stack)
    /\ published' = {}
    /\ UNCHANGED <<plan, image, state, world, vain, dropsFirst, faults>>

\* The exclusion has to name the one secrets bundle before it is relied on.
\* What the stack exports names nothing from here on.
Destroy ==
    /\ Idle
    /\ task' = "destroy" /\ runs' = runs + 1
    /\ IF The("secrets") \in stack
         THEN outcome' = "running" /\ todo' = Steps("remove", stack \ {The("secrets")})
         ELSE outcome' = "refused" /\ todo' = {}
    /\ published' = {}
    /\ UNCHANGED <<plan, image, state, world, vain, dropsFirst, faults>>

\* Everything that is left, the secrets among it.
SecretsDestroy ==
    /\ Idle
    /\ task' = "secrets:destroy" /\ runs' = runs + 1
    /\ outcome' = "running"
    /\ todo' = Steps("remove", stack)
    /\ published' = {}
    /\ UNCHANGED <<plan, image, state, world, vain, dropsFirst, faults>>

-----------------------------------------------------------------------------
(* The steps of a run.                                                      *)

Running == outcome = "running"

\* A step waits for those of everything its resource depends on, and a create
\* for the delete it replaces.
Changing == {r \in Resources : \E kind \in {"create", "delete", "update"} : <<kind, r>> \in todo}

\* No server can be registered without the snapshot of its Talos version, an
\* existing one among them.
lookupTalosImage == image

MayDelete(r) ==
    /\ Running
    /\ <<"delete", r>> \in todo
    /\ Above[r] \cap Changing = {}

MayCreate(r) ==
    /\ Running
    /\ <<"create", r>> \in todo /\ <<"delete", r>> \notin todo
    /\ Above[r] \cap Changing = {}
    /\ r \in {Server(n) : n \in Nodes} => lookupTalosImage

MayUpdate(r) ==
    /\ Running
    /\ <<"update", r>> \in todo
    /\ Above[r] \cap Changing = {}

\* What the program no longer has goes last, dependents first.
MayRemove(r) ==
    /\ Running
    /\ <<"remove", r>> \in todo
    /\ Changing = {}
    /\ \A d \in Resources : <<"remove", d>> \in todo => r \notin Above[d]

Done(kind, r) == todo' = todo \ {<<kind, r>>}
SameRun == UNCHANGED <<task, plan, image, dropsFirst, runs>>

\* The run ends at a call that fails; what it did stays.
Stop ==
    /\ outcome' = "failed"
    /\ todo' = {}
    /\ SameRun

\* A machine that goes takes its disk with it.
MachineGone(n) ==
    /\ machine' = [machine EXCEPT ![n] = NoType]
    /\ config' = [config EXCEPT ![n] = Unset]
    /\ disk' = [m \in ControlPlanes |-> IF m = n THEN "empty" ELSE disk[m]]
    /\ UNCHANGED peers

DeleteServer(n) ==
    /\ MayDelete(Server(n))
    /\ Done("delete", Server(n))
    /\ stack' = stack \ ({Server(n)} \cup (IF dropsFirst THEN ReplacedWith({Server(n)}) ELSE {}))
    /\ MachineGone(n)
    /\ SameRun /\ UNCHANGED <<outcome, inputs, published, vain, faults>>

\* "load balancer is not attached to a network": what Hetzner refuses for
\* coming too early.  RequestsAreSound is that nothing does, so what a refusal
\* does to the run is left out.
TooEarly == IF The("api-network") \in stack THEN {} ELSE {The("api-targets")}

\* What Hetzner never makes of a file: a subnet outside its network or the
\* location's zone, a load balancer of no type, a server whose name is too long.
Impossible(t) ==
    {r \in {The("subnet")} : \/ ~Inside(t.nodeSubnet, t.ipRange)
                             \/ t.networkZone # validLocations[t.location]}
      \cup {r \in {The("api")} : t.apiLoadBalancerType = Unset}
      \cup {Server(n) : n \in {m \in WorkersOf(t) :
              NodeNameLength(t, t.workerPools[PoolOf(t, m)].name, 1) > MaxServerName}}

\* Hetzner wants the subnet there and the name free.
ServerAccepted(n) ==
    /\ The("subnet") \in stack
    /\ machine[n] = NoType
    /\ TypeOf(plan, n) \in DOMAIN Offered
    /\ Offered[TypeOf(plan, n)] = plan.architecture

\* A new machine boots into maintenance mode.
NewMachine(n) ==
    /\ machine' = [machine EXCEPT ![n] = TypeOf(plan, n)]
    /\ UNCHANGED <<config, disk, peers>>

CreateServer(n) ==
    /\ MayCreate(Server(n))
    /\ ServerAccepted(n)
    /\ Done("create", Server(n))
    /\ stack' = stack \cup {Server(n)}
    /\ NewMachine(n)
    /\ vain' = vain \cup ({Server(n)} \cap Impossible(plan))
    /\ SameRun /\ UNCHANGED <<outcome, inputs, published, faults>>

ServerRefused(n) ==
    /\ MayCreate(Server(n))
    /\ ~ServerAccepted(n)
    /\ vain' = vain \cup (IF The("subnet") \in stack THEN {} ELSE {Server(n)})
    /\ Stop
    /\ UNCHANGED <<state, world, published, faults>>

\* Pulumi dies after Hetzner made the server and before it is written down.
KilledCreating(n) ==
    /\ faults < MaxFaults
    /\ faults' = faults + 1
    /\ MayCreate(Server(n))
    /\ ServerAccepted(n)
    /\ NewMachine(n)
    /\ Stop
    /\ UNCHANGED <<state, published, vain>>

\* A machine Pulumi does not know of is deleted by hand.
DeleteByHand(n) ==
    /\ ~Running
    /\ machine[n] # NoType /\ Server(n) \notin stack
    /\ MachineGone(n)
    /\ UNCHANGED <<engine, state, published, vain, dropsFirst, runs, faults>>

Configure(n) ==
    /\ \/ MayCreate(Config(n)) /\ Done("create", Config(n))
       \/ MayUpdate(Config(n)) /\ Done("update", Config(n))
    /\ stack' = stack \cup {Config(n)}
    /\ config' = [config EXCEPT ![n] = ConfigOf(plan, n)]
    /\ inputs' = [inputs EXCEPT ![n] = ConfigOf(plan, n)]
    /\ SameRun
    /\ UNCHANGED <<outcome, machine, disk, peers, published, vain, faults>>

\* The first node starts an etcd of its own: what the others still hold is of
\* another history.  Asked of a node that has data, Talos refuses, and whether
\* the provider takes that for an error is not this repository's.
Bootstrap ==
    /\ MayCreate(The("bootstrap"))
    /\ IF disk[First] = "empty"
         THEN /\ disk' = [n \in ControlPlanes |->
                            IF n = First THEN "data"
                            ELSE IF disk[n] = "empty" THEN "empty" ELSE "stale"]
              /\ peers' = {First}
         ELSE UNCHANGED <<disk, peers>>
    /\ Done("create", The("bootstrap"))
    /\ stack' = stack \cup {The("bootstrap")}
    /\ SameRun
    /\ UNCHANGED <<outcome, inputs, machine, config, published, vain, faults>>

BootstrapRefused ==
    /\ MayCreate(The("bootstrap"))
    /\ disk[First] # "empty"
    /\ Stop
    /\ UNCHANGED <<state, world, published, vain, faults>>

\* A configured machine without data joins the etcd that answers.
Join(n) ==
    /\ config[n] # Unset /\ disk[n] = "empty"
    /\ Quorum
    /\ disk' = [disk EXCEPT ![n] = "data"]
    /\ peers' = peers \cup {n}
    /\ UNCHANGED <<engine, state, machine, config, published, vain,
                   dropsFirst, runs, faults>>

Plain == Resources \ ({Server(n) : n \in Nodes} \cup {Config(n) : n \in Nodes}
                        \cup {The("bootstrap")})

CreatePlain(r) ==
    /\ r \in Plain
    /\ MayCreate(r)
    /\ vain' = vain \cup ({r} \cap (TooEarly \cup Impossible(plan)))
    /\ Done("create", r)
    /\ stack' = stack \cup {r}
    /\ SameRun /\ UNCHANGED <<outcome, inputs, world, published, faults>>

Remove(r) ==
    /\ MayRemove(r)
    /\ Done("remove", r)
    /\ stack' = stack \ {r}
    /\ IF r \in {Server(n) : n \in Nodes} THEN MachineGone(r[2]) ELSE UNCHANGED world
    /\ SameRun /\ UNCHANGED <<outcome, inputs, published, vain, faults>>

\* A quota, a timeout, a call that failed; without a snapshot the program fails
\* whatever it had to do.
Fault ==
    /\ Running
    /\ \/ task = "apply" /\ ~lookupTalosImage /\ UNCHANGED faults
       \/ faults < MaxFaults /\ todo # {} /\ faults' = faults + 1
    /\ Stop
    /\ UNCHANGED <<state, world, published, vain>>

\* A run that came through publishes its outputs.
Finish ==
    /\ Running
    /\ todo = {}
    /\ task = "apply" => lookupTalosImage
    /\ outcome' = "ok"
    /\ published' = IF task = "apply" THEN Exported(plan) ELSE published
    /\ SameRun
    /\ UNCHANGED <<todo, state, world, vain, faults>>

Next ==
    \/ ApplyRefused
    \/ \E t \in Accepted, readable, force, found \in BOOLEAN : Apply(t, readable, force, found)
    \/ Destroy \/ SecretsDestroy
    \/ \E n \in Nodes : DeleteServer(n) \/ CreateServer(n) \/ ServerRefused(n)
                          \/ KilledCreating(n) \/ DeleteByHand(n) \/ Configure(n)
    \/ Bootstrap \/ BootstrapRefused
    \/ \E n \in ControlPlanes : Join(n)
    \/ \E r \in Resources : CreatePlain(r) \/ Remove(r)
    \/ Fault \/ Finish

Spec == Init /\ [][Next]_vars

-----------------------------------------------------------------------------
TypeOK ==
    /\ task \in {"none", "apply", "destroy", "secrets:destroy"}
    /\ outcome \in {"running", "ok", "failed", "refused"}
    /\ plan \in Plans /\ image \in BOOLEAN
    /\ todo \subseteq {"delete", "create", "update", "remove"} \X Resources
    /\ todo # {} => outcome = "running"
    /\ stack \subseteq Resources
    /\ machine \in [Nodes -> Types]
    /\ DOMAIN config = Nodes /\ DOMAIN inputs = Nodes
    /\ \A n \in Nodes : config[n] # Unset => machine[n] # NoType
    /\ disk \in [ControlPlanes -> {"empty", "data", "stale"}]
    /\ peers \subseteq ControlPlanes
    /\ vain \subseteq Resources
    /\ runs \in 0..MaxRuns /\ faults \in 0..MaxFaults

\* What the files allow, once for all states.
SoundPlans == {t \in Accepted : SoundPerimeter(t)}

(* No server Pulumi knows of stands without the perimeter around it and    *)
(* the subnet under it, whatever an apply or a teardown had done when it   *)
(* stopped: newControlPlane and newWorkerPools depend on both.  And the    *)
(* file that let it be built has no address in two of the subnet, the pods *)
(* and the services, and lets in nobody but ranges somebody named.         *)
PerimeterFirst ==
    \A n \in ServerNodes(stack) :
        {The("firewall"), The("subnet")} \subseteq stack /\ plan \in SoundPlans

(* Hetzner is never asked for something too early, a server before its     *)
(* subnet or a private target before the load balancer is in the network,  *)
(* which failed the first HA apply of this repository; nor for what it     *)
(* cannot make, which it says when the rest of the cluster stands: a file  *)
(* that says so is refused before anything is asked.                       *)
RequestsAreSound == vain = {}

(* An apply that reports success leaves an etcd somewhere: "the tool says  *)
(* done and the cluster has no etcd" does not happen, a first server       *)
(* replaced by an apply that stopped before the bootstrap included,        *)
(* provided Pulumi deletes what is replaced with the server before it.     *)
DoneHasEtcd == task = "apply" /\ outcome = "ok" /\ dropsFirst => Live # {}

(* After an apply that reports success every control-plane node will be a  *)
(* member of an etcd that answers.                                         *)
DoneHasQuorum == task = "apply" /\ outcome = "ok" => Quorum

(* A worker gets its configuration only when there is an etcd for it to    *)
(* join, in a first apply and in one that replaces machines of both kinds. *)
WorkersJoinACluster ==
    [][dropsFirst /\ (\E w \in Workers : config[w] = Unset /\ config'[w] # Unset) => Live # {}]_vars

(* Between two teardowns every address an exported kubeconfig names is the *)
(* address of that node, while and after its machine is replaced, and      *)
(* whatever part of the replacing apply was done; and the machine, once it *)
(* is configured, has it in its certificate.                               *)
PublishedReaches ==
    \A p \in published : machine[p[1]] # NoType =>
        /\ p[2] = NodeAddress(plan, p[1], machine[p[1]])
        /\ config[p[1]] # Unset => p[2] \in config[p[1]].node.certSANs

\* The interface its private address is on, of those Hetzner gave it.
PrivateNic(t) ==
    LET nics == IF PublicIPv4Enabled(t) THEN <<"public", "private">> ELSE <<"private">>
    IN  IF nics[1] = "private" THEN "eth0" ELSE "eth1"

\* Pods on other machines are reached through the network's gateway, the one
\* neighbour on the interface; pods have somewhere to run; every taint of the
\* file is on the node; etcd's disk can be read on this machine alone; Talos
\* can read what it was given.
FitsItsMachine(n) ==
    LET c == config[n] IN
    /\ c.cluster.interface = PrivateNic(plan)
    /\ c.cluster.route = [network |-> plan.podCIDR,
                          gateway |-> FirstAddress(plan.ipRange) + 1]
    /\ c.cluster.allowSchedulingOnControlPlanes \/ WorkersOf(plan) # {}
    /\ n \in plan.controlPlanes => c.etcd = plan.nodeSubnet
    /\ n \in WorkersOf(plan) =>
         LET taints == plan.workerPools[PoolOf(plan, n)].taints IN
         \A i \in DOMAIN taints : c.node.nodeTaints[taints[i].key] = taints[i].effect
    /\ n \in plan.controlPlanes => {"STATE", "EPHEMERAL"} \subseteq c.cluster.encrypted
    /\ c.contract <= plan.talosVersion

(* After an apply that reports success every machine of the file has its   *)
(* configuration, one it had before the apply included, provided Pulumi    *)
(* deletes what is replaced with a server before it: a configuration still *)
(* in the state, of a machine made anew, has inputs that are identical, so *)
(* nothing else would send it again.  And whatever configuration a machine *)
(* has fits it, and every API server has in its certificate the endpoint   *)
(* each machine was told of: the move from one control-plane node to three *)
(* takes the endpoint, and with it every machine, to the load balancer.    *)
DoneIsConfigured ==
    LET Configured(ns) == {n \in ns : config[n] # Unset} IN
    task = "apply" /\ outcome = "ok" =>
        /\ dropsFirst => Configured(NodesOf(plan)) = NodesOf(plan)
        /\ \A n \in Configured(NodesOf(plan)) :
              /\ FitsItsMachine(n)
              /\ \A c \in Configured(plan.controlPlanes) :
                    config[n].endpoint \in config[c].node.certSANs

(* Only cluster:secrets:destroy takes the cluster's CA out of the state.   *)
CaSurvives ==
    [][The("secrets") \in stack \ stack' => task = "secrets:destroy"]_vars
=============================================================================
