--------------------------- MODULE RollingUpgrade ---------------------------
(***************************************************************************)
(* `cluster:upgrade:talos` and `cluster:reboot`: a loop over the members   *)
(* of a running cluster that takes one node down at a time, stopped at any *)
(* command and typed again.  Nodes, etcd's quorum and the API server are   *)
(* the world the loop runs in.                                             *)
(***************************************************************************)
EXTENDS Naturals, FiniteSets

CONSTANTS
    ControlPlanes,  \* the control-plane nodes
    Workers,        \* the others
    First,          \* the control-plane node the kubeconfig points at
    Stacks,         \* the environments with a topology in infra/cluster
    Mine,           \* the one being upgraded
    Versions,       \* Talos versions a topology may pin
    Oldest,         \* the one the cluster was built with
    MaxFaults,      \* bound: commands that fail, nodes that die
    MaxEdits        \* bound: edits of a topology

ASSUME RollingAssumption ==
    /\ First \in ControlPlanes
    /\ IsFiniteSet(ControlPlanes)
    /\ ControlPlanes \cap Workers = {}
    /\ Mine \in Stacks
    /\ Oldest \in Versions
    /\ MaxFaults \in Nat /\ MaxEdits \in Nat

VARIABLES
    pinned,     \* talos.version in each topology
    task,       \* the task last started
    pc,         \* where its script is
    installer,  \* the version its installer image is of
    listed,     \* the members it read
    todo,       \* those the loop has not come to
    at,         \* the node it is on
    node,       \* each machine: up, down until it boots, dead until repaired
    talos,      \* the version each machine runs
    cordoned,   \* the nodes marked unschedulable
    unplanned,  \* history: nodes out that no running task is waiting for
    faults, edits

script == <<task, pc, installer, listed, todo, at>>
cluster == <<node, talos, cordoned>>
vars == <<pinned, script, cluster, unplanned, faults, edits>>

Nodes == ControlPlanes \cup Workers

Up == {n \in Nodes : node[n] = "up"}

\* etcd answers while most of its members do.
Quorum == 2 * Cardinality({n \in ControlPlanes : node[n] = "up"})
            > Cardinality(ControlPlanes)

\* The kubeconfig's current context is the first node, and kubectl does not
\* fail over.
KubeAnswers == Quorum /\ node[First] = "up"

\* Every topology names the same version.
Agreed == Cardinality({pinned[s] : s \in Stacks}) = 1

OnNode == {"drain", "install", "reboot", "wait", "ready", "uncordon"}
Running == {"members", "installer", "next"} \cup OnNode

Init ==
    /\ \E v \in Versions : pinned = [s \in Stacks |-> v]
    /\ task = "reboot" /\ pc = "idle"
    /\ installer = Oldest
    /\ listed = {} /\ todo = {} /\ at = First
    /\ node = [n \in Nodes |-> "up"]
    /\ talos = [n \in Nodes |-> Oldest]
    /\ cordoned = {}
    /\ unplanned = {}
    /\ faults = 0 /\ edits = 0

----------------------------------------------------------------------------
(* The script.                                                              *)

\* Mutant: an upgrade that refuses a cluster an earlier run left a node of
\* unschedulable.
StartUpgradeClean ==
    /\ pc \notin Running
    /\ task' = "upgrade"
    /\ pc' = IF Agreed /\ cordoned = {} THEN "members" ELSE "failed"
    /\ listed' = {} /\ todo' = {} /\ at' = First /\ installer' = Oldest
    /\ UNCHANGED <<pinned, cluster, unplanned, faults, edits>>

\* upgrade:talos goes on only when the topologies agree; nothing else has to
\* be true of the cluster, whatever an earlier run left.
StartUpgrade ==
    /\ pc \notin Running
    /\ task' = "upgrade"
    /\ pc' = IF Agreed THEN "members" ELSE "failed"
    /\ listed' = {} /\ todo' = {} /\ at' = First /\ installer' = Oldest
    /\ UNCHANGED <<pinned, cluster, unplanned, faults, edits>>

StartReboot ==
    /\ pc \notin Running
    /\ task' = "reboot"
    /\ pc' = "members"
    /\ listed' = {} /\ todo' = {} /\ at' = First /\ installer' = Oldest
    /\ UNCHANGED <<pinned, cluster, unplanned, faults, edits>>

\* `talosctl get members` needs etcd, so what it lists has control planes in it.
\* It may or may not still name a machine that is out.
ReadMembers ==
    /\ pc = "members"
    /\ Quorum
    /\ \E out \in SUBSET (Nodes \ Up) :
         /\ listed' = Up \cup out
         /\ todo' = Up \cup out
    /\ pc' = IF task = "upgrade" THEN "installer" ELSE "next"
    /\ UNCHANGED <<pinned, task, installer, at, cluster, unplanned, faults, edits>>

\* The image comes from the stack's own topology, read again.
ReadInstaller ==
    /\ pc = "installer"
    /\ installer' = pinned[Mine]
    /\ pc' = "next"
    /\ UNCHANGED <<pinned, task, listed, todo, at, cluster, unplanned, faults, edits>>

\* Mutant: the reboot's loop drains too.
NextNodeDrains ==
    /\ pc = "next"
    /\ \E n \in todo :
         /\ task = "reboot" /\ todo \cap Workers # {} => n \in Workers
         /\ at' = n
         /\ todo' = todo \ {n}
    /\ pc' = "drain"
    /\ UNCHANGED <<pinned, task, installer, listed, cluster, unplanned, faults, edits>>

\* The upgrade takes nodes as talosctl lists them, the reboot workers first.
NextNode ==
    /\ pc = "next"
    /\ \E n \in todo :
         /\ task = "reboot" /\ todo \cap Workers # {} => n \in Workers
         /\ at' = n
         /\ todo' = todo \ {n}
    /\ pc' = IF task = "upgrade" THEN "drain" ELSE "reboot"
    /\ UNCHANGED <<pinned, task, installer, listed, cluster, unplanned, faults, edits>>

Finish ==
    /\ pc = "next" /\ todo = {}
    /\ pc' = "done"
    /\ at' = First
    /\ UNCHANGED <<pinned, task, installer, listed, todo, cluster, unplanned, faults, edits>>

\* kubectl drain cordons first and evicts then: evictions that outlast its
\* timeout are a Stop, the node cordoned.
Drain ==
    /\ pc = "drain"
    /\ KubeAnswers
    /\ cordoned' = cordoned \cup {at}
    /\ pc' = "install"
    /\ UNCHANGED <<pinned, task, installer, listed, todo, at, node, talos, unplanned,
                   faults, edits>>

Install ==
    /\ pc = "install"
    /\ node[at] = "up"
    /\ node' = [node EXCEPT ![at] = "down"]
    /\ talos' = [talos EXCEPT ![at] = installer]
    /\ pc' = "wait"
    /\ UNCHANGED <<pinned, task, installer, listed, todo, at, cordoned, unplanned,
                   faults, edits>>

\* Mutant: every node left is rebooted with one command.
RebootTheRest ==
    /\ pc = "reboot"
    /\ node[at] = "up"
    /\ node' = [n \in Nodes |->
                 IF n \in todo \cup {at} /\ node[n] = "up" THEN "down" ELSE node[n]]
    /\ pc' = "wait"
    /\ UNCHANGED <<pinned, task, installer, listed, todo, at, talos, cordoned,
                   unplanned, faults, edits>>

Reboot ==
    /\ pc = "reboot"
    /\ node[at] = "up"
    /\ node' = [node EXCEPT ![at] = "down"]
    /\ pc' = "wait"
    /\ UNCHANGED <<pinned, task, installer, listed, todo, at, talos, cordoned,
                   unplanned, faults, edits>>

\* Mutant: the commands are sent with --wait=false.
WaitedForNothing ==
    /\ pc = "wait"
    /\ pc' = IF task = "upgrade" THEN "ready" ELSE "next"
    /\ UNCHANGED <<pinned, task, installer, listed, todo, at, cluster, unplanned,
                   faults, edits>>

\* talosctl's wait: it returns when the machine runs again.
Waited ==
    /\ pc = "wait"
    /\ node[at] = "up"
    /\ pc' = IF task = "upgrade" THEN "ready" ELSE "next"
    /\ UNCHANGED <<pinned, task, installer, listed, todo, at, cluster, unplanned,
                   faults, edits>>

\* kubectl wait returns once the node's Ready condition says so.  The condition
\* lags the machine, so it may be the one left from before: the wait ends at any
\* time the API server answers.
WaitReady ==
    /\ pc = "ready"
    /\ KubeAnswers
    /\ pc' = "uncordon"
    /\ UNCHANGED <<pinned, task, installer, listed, todo, at, cluster, unplanned,
                   faults, edits>>

\* Mutant: the node stays cordoned.
UncordonForgotten ==
    /\ pc = "uncordon"
    /\ KubeAnswers
    /\ pc' = "next"
    /\ UNCHANGED <<pinned, task, installer, listed, todo, at, cluster, unplanned,
                   faults, edits>>

Uncordon ==
    /\ pc = "uncordon"
    /\ KubeAnswers
    /\ cordoned' = cordoned \ {at}
    /\ pc' = "next"
    /\ UNCHANGED <<pinned, task, installer, listed, todo, at, node, talos,
                   unplanned, faults, edits>>

\* A command that cannot succeed in this cluster.
Hopeless ==
    \/ pc = "members" /\ ~Quorum
    \/ pc \in {"drain", "ready", "uncordon"} /\ ~KubeAnswers
    \/ pc \in {"install", "reboot"} /\ node[at] # "up"
    \/ pc \in {"wait", "ready"} /\ node[at] = "dead"

\* `set -e`: a command that fails, or the operator, ends the task where it is,
\* the node it was on still out or cordoned.  Nothing is undone, and what the
\* script had read is gone.
Stop ==
    /\ pc \in Running
    /\ \/ Hopeless /\ faults' = faults
       \/ faults < MaxFaults /\ faults' = faults + 1
    /\ pc' = "failed"
    /\ listed' = {} /\ todo' = {} /\ at' = First /\ installer' = Oldest
    /\ unplanned' = Nodes \ Up
    /\ UNCHANGED <<pinned, task, cluster, edits>>

\* An operator pins a version in a topology.
Edit ==
    /\ edits < MaxEdits
    /\ \E s \in Stacks : \E v \in Versions \ {pinned[s]} :
         pinned' = [pinned EXCEPT ![s] = v]
    /\ edits' = edits + 1
    /\ UNCHANGED <<script, cluster, unplanned, faults>>

----------------------------------------------------------------------------
(* The machines.                                                            *)

Boot(n) ==
    /\ node[n] = "down"
    /\ node' = [node EXCEPT ![n] = "up"]
    /\ unplanned' = unplanned \ {n}
    /\ UNCHANGED <<pinned, script, talos, cordoned, faults, edits>>

\* A machine fails by itself, or does not come back from what was asked of it.
Die(n) ==
    /\ faults < MaxFaults
    /\ node[n] # "dead"
    /\ node' = [node EXCEPT ![n] = "dead"]
    /\ unplanned' = unplanned \cup {n}
    /\ faults' = faults + 1
    /\ UNCHANGED <<pinned, script, talos, cordoned, edits>>

\* `hcloud:reset`, `hcloud:poweron`.
Repair(n) ==
    /\ node[n] = "dead"
    /\ node' = [node EXCEPT ![n] = "up"]
    /\ unplanned' = unplanned \ {n}
    /\ UNCHANGED <<pinned, script, talos, cordoned, faults, edits>>

Loop ==
    \/ ReadMembers \/ ReadInstaller \/ NextNode \/ Finish
    \/ Drain \/ Install \/ Reboot \/ Waited \/ WaitReady \/ Uncordon

Next ==
    \/ StartUpgrade \/ StartReboot \/ Loop \/ Stop \/ Edit
    \/ \E n \in Nodes : Boot(n) \/ Die(n) \/ Repair(n)

Spec == Init /\ [][Next]_vars

\* A command that can succeed does, or fails; a machine told to reboot boots, a
\* dead one is repaired, and an operator whose
\* upgrade did not go through types it again.
Fairness ==
    /\ WF_vars(Loop)
    /\ WF_vars(Hopeless /\ Stop)
    /\ SF_vars(StartUpgrade)
    /\ \A n \in Nodes : WF_vars(Boot(n)) /\ WF_vars(Repair(n))

FairSpec == Spec /\ Fairness

----------------------------------------------------------------------------
(* What must hold.                                                          *)

\* Every variable keeps its type.
TypeOK ==
    /\ pinned \in [Stacks -> Versions]
    /\ task \in {"upgrade", "reboot"}
    /\ pc \in Running \cup {"idle", "failed", "done"}
    /\ pc \in {"installer", "drain", "install", "ready", "uncordon"} => task = "upgrade"
    /\ pc = "reboot" => task = "reboot"
    /\ installer \in Versions
    /\ listed \subseteq Nodes /\ todo \subseteq listed
    /\ at \in Nodes
    /\ node \in [Nodes -> {"up", "down", "dead"}]
    /\ talos \in [Nodes -> Versions]
    /\ cordoned \subseteq Nodes
    /\ unplanned \subseteq Nodes
    /\ faults \in 0..MaxFaults /\ edits \in 0..MaxEdits

\* The loops have at most one node out, the one they wait for: any other that
\* is out failed, or was given up by a run that ended while it was out.  A run
\* started over a node left out does not count it: that is the part of "one
\* node at a time" the tasks do not keep.
OneAtATime ==
    \A n \in Nodes : node[n] # "up" /\ n \notin unplanned => pc = "wait" /\ n = at

\* With three control planes or more, no run costs etcd its quorum by itself,
\* in whatever order the nodes are listed and wherever earlier runs ended.
QuorumKept ==
    unplanned = {} /\ Cardinality(ControlPlanes) >= 3 => Quorum

\* An upgrade that ends well has every member it read on its installer's
\* version and schedulable, those an earlier run left cordoned included.
DoneIsWhole ==
    pc = "done" /\ task = "upgrade" =>
        \A n \in listed : talos[n] = installer /\ n \notin cordoned

\* What DoneIsWhole needs to be inductive: the nodes the loop is through with.
Passed == listed \ (todo \cup IF pc \in OnNode THEN {at} ELSE {})

WholeSoFar ==
    /\ pc \in {"next", "done"} \cup OnNode /\ task = "upgrade" =>
         \A n \in Passed : talos[n] = installer /\ n \notin cordoned
    /\ pc = "installer" => todo = listed
    /\ pc = "done" => todo = {}
    /\ pc \in {"wait", "ready", "uncordon"} /\ task = "upgrade" => talos[at] = installer

RollingInv == TypeOK /\ OneAtATime /\ WholeSoFar

\* The pinned version is what every node runs, and every node takes pods.
Rolled == cordoned = {} /\ \A n \in Nodes : talos[n] = pinned[Mine]

\* Once the topologies agree for good, runs that are typed again until they go
\* through leave every node upgraded and schedulable.
Converges == <>[]Agreed => []<>Rolled
=============================================================================
