---------------------------- MODULE PlatformWalk ----------------------------
(***************************************************************************)
(* The platform's life in commands: `task up` and `task destroy` of        *)
(* Taskfile.yaml, platform:apply, :destroy and :refresh of                 *)
(* tasks/platform.task.yaml, over the five layers of LayerComponents.      *)
(* Each layer is a Pulumi stack of its own: what its state records, what   *)
(* is live, and which kubeconfig its provider holds can part from one      *)
(* another, because a command stops at the first layer that fails, because *)
(* the process is killed, and because the cluster tier is destroyed and    *)
(* built again beside them.                                                *)
(***************************************************************************)
EXTENDS LayerComponents

CONSTANTS Worlds   \* the platforms a behaviour is played on

Published == {"none", "older", "ours", "newer"}

\* The layers there are (the first one always: the others need it), the
\* configurations an operator writes, and how often a step fails, the process
\* is killed, a configuration is edited, the cluster tier is destroyed or
\* applied by another checkout on its own, and a report on the stacks is asked
\* for.
World == [layers : {S \in SUBSET Layer : 1 \in S}, settings : SUBSET Settings,
          faults : Nat, kills : Nat, edits : Nat, strays : Nat, commands : Nat,
          reports : Nat]

ASSUME PlatformAssumption == Worlds \subseteq World

VARIABLES
    world,
    settings,   \* the stacks' configuration, as the operator has it
    up,         \* the cluster stands
    published,  \* the contract version of the outputs the tier's stack holds
    live,       \* the resources there are
    recorded,   \* those the layers' states record
    reaching,   \* the layers whose recorded provider reaches the cluster
    verb, all, whole,   \* the command, over every layer or one, from the root
    phase, left,        \* where it is, and the layers it has not finished
    config,     \* what the program of the layer at hand has read
    planned,    \* the configuration and contract the plan was made with
    outcome,    \* how the last command ended
    rebuilt,    \* the cluster went away under the layers' records
    spent       \* of the bounds

command == <<verb, all, whole>>
tier    == <<up, published>>
vars    == <<world, settings, tier, live, recorded, reaching, command, phase,
             left, config, planned, outcome, rebuilt, spent>>

Verb    == {"none", "apply", "destroy", "refresh"}
Phase   == {"idle", "plan", "cluster", "next", "creating", "deleting", "reading", "failing"}
Outcome == {"none", "succeeded", "failed", "killed"}
Bound   == {"faults", "kills", "edits", "strays", "commands", "reports"}

TypeOK ==
    /\ world \in Worlds
    /\ settings \in world.settings /\ config \in world.settings
    /\ up \in BOOLEAN /\ published \in Published
    /\ live \subseteq Resource /\ recorded \subseteq Resource
    /\ reaching \subseteq Layer
    /\ verb \in Verb /\ all \in BOOLEAN /\ whole \in BOOLEAN
    /\ phase \in Phase /\ outcome \in Outcome /\ rebuilt \in BOOLEAN
    /\ left \subseteq world.layers
    /\ planned \in world.settings \X Published \X (0..world.edits)
    /\ spent \in [Bound -> Nat] /\ \A b \in Bound : spent[b] <= world[b]

\* What a plan is made with; an edit that is undone is one all the same.
Now == <<settings, published, spent["edits"]>>

Init ==
    /\ world \in Worlds
    /\ settings \in world.settings /\ config = settings
    /\ up = FALSE /\ published = "none"
    /\ live = {} /\ recorded = {} /\ reaching = {}
    /\ verb = "none" /\ all = FALSE /\ whole = FALSE
    /\ phase = "idle" /\ left = {} /\ outcome = "none"
    /\ rebuilt = FALSE
    /\ spent = [b \in Bound |-> 0]
    /\ planned = Now

Spend(b) == spent[b] < world[b] /\ spent' = [spent EXCEPT ![b] = @ + 1]
Goto(p) == phase' = p
Ends(o) == phase' = "idle" /\ outcome' = o /\ left' = {}

\* Mutant: a destroy goes down the list as an apply does.
AtForward == CHOOSE l \in left : \A m \in left : l <= m

\* The layers are taken in order; `reverse-words` has a destroy take the last first.
At == CHOOSE l \in left : \A m \in left : IF verb = "destroy" THEN m <= l ELSE l <= m

Finished == left' = left \ {At}

Recorded(l) == recorded \intersect ResourcesOf(l)
Wanted(l) == Declared(l, config)

\* A layer's provider reaches what it deletes or reads: Hetzner always, the
\* cluster while it stands and is the one the recorded kubeconfig is for.
Reaches(l, r) == InCluster(r) => up /\ l \in reaching

\* The program, run now, cannot end well: a component returns an error, the
\* contract check does, or there is no token.
Refuses(l, s, p) ==
    \/ ProgramFails(l, s) \/ p # "ours"
    \/ \E r \in Declared(l, s) : Unresolved(r, s)

----------------------------------------------------------------------------
(* Commands.                                                                *)

Begin(v, S, a, w) ==
    /\ phase = "idle" /\ Spend("commands")
    /\ verb' = v /\ all' = a /\ whole' = w /\ outcome' = "none"
    /\ left' = S
    /\ UNCHANGED <<world, settings, tier, live, recorded, reaching, config, planned, rebuilt>>

\* "Bring up everything from nothing: cluster, then every layer in order."
TaskUp == Begin("apply", world.layers, TRUE, TRUE) /\ Goto("cluster")

\* Mutant: the servers first, which is quicker.
TaskDestroyServersFirst == Begin("destroy", world.layers, TRUE, TRUE) /\ Goto("cluster")

\* "Every layer, then the cluster."
TaskDestroy == Begin("destroy", world.layers, TRUE, TRUE) /\ Goto("next")

\* platform:apply shows the plan first, the others have none to show.
PlatformApply(S, a) == Begin("apply", S, a, FALSE) /\ Goto("plan")
PlatformDestroy(S, a) == Begin("destroy", S, a, FALSE) /\ Goto("next")
PlatformRefresh(S, a) == Begin("refresh", S, a, FALSE) /\ Goto("next")

Command ==
    \/ TaskUp \/ TaskDestroy
    \/ \E c \in {<<world.layers, TRUE>>} \union {<<{l}, FALSE>> : l \in world.layers} :
          PlatformApply(c[1], c[2]) \/ PlatformDestroy(c[1], c[2]) \/ PlatformRefresh(c[1], c[2])

\* Every layer of the command is previewed before the question is asked, and
\* a preview runs the program.
Plan ==
    /\ phase = "plan"
    /\ planned' = Now
    /\ IF \E l \in left : Refuses(l, settings, published)
       THEN Ends("failed") ELSE Goto("next") /\ UNCHANGED <<left, outcome>>
    /\ UNCHANGED <<world, settings, tier, live, recorded, reaching, command, config, rebuilt, spent>>

\* Mutant: a missing output reads as an empty one.
ClusterGoesBlank ==
    /\ up' = FALSE /\ published' = ""
    /\ live' = {r \in live : ~InCluster(r)}
    /\ rebuilt' = (rebuilt \/ \E r \in recorded : InCluster(r))

\* The cluster goes: what ran in it is gone, and the tier's outputs with it.
ClusterGoes ==
    /\ up' = FALSE /\ published' = "none"
    /\ live' = {r \in live : ~InCluster(r)}
    /\ rebuilt' = (rebuilt \/ \E r \in recorded : InCluster(r))

\* A new cluster may or may not be reached with the old one's kubeconfig: the
\* certificate authority is kept, the endpoint need not be.
ClusterComes ==
    /\ up' = TRUE /\ published' = "ours"
    /\ IF up THEN UNCHANGED reaching ELSE reaching' \in {reaching, {}}

\* cluster:apply and cluster:destroy as the steps of `up` and `destroy`.
ClusterStep ==
    /\ phase = "cluster"
    /\ \/ /\ verb = "apply" /\ ClusterComes /\ Goto("plan")
          /\ UNCHANGED <<live, left, outcome, rebuilt>>
       \/ verb = "destroy" /\ ClusterGoes /\ Ends("succeeded") /\ UNCHANGED reaching
    /\ UNCHANGED <<world, settings, recorded, command, config, planned, spent>>

\* A layer's turn.  `up` gives its provider the kubeconfig of the cluster that
\* stands; destroy and refresh run no program and keep the recorded one.
NextLayer ==
    /\ phase = "next" /\ left # {}
    /\ Goto(CASE verb = "apply" -> "creating" [] verb = "destroy" -> "deleting" [] OTHER -> "reading")
    /\ config' = settings
    /\ reaching' = IF verb = "apply" /\ up THEN reaching \union {At} ELSE reaching
    /\ UNCHANGED <<world, settings, tier, live, recorded, command, left, planned, outcome, rebuilt, spent>>

LastLayer ==
    /\ phase = "next" /\ left = {}
    /\ IF verb = "destroy" /\ whole THEN Goto("cluster") /\ UNCHANGED <<left, outcome>>
       ELSE Ends("succeeded")
    /\ UNCHANGED <<world, settings, tier, live, recorded, reaching, command, config, planned, rebuilt, spent>>

----------------------------------------------------------------------------
(* A layer's update.                                                        *)

Startable(r) ==
    /\ r \in Wanted(At) \ recorded
    /\ ~Unresolved(r, config) /\ published # "none"
    /\ Follows(r, config) \subseteq recorded

Create(r) ==
    /\ phase = "creating" /\ Startable(r)
    /\ Needs(r) \subseteq live /\ (InCluster(r) => up)
    /\ live' = live \union {r} /\ recorded' = recorded \union {r}
    /\ UNCHANGED <<world, settings, tier, reaching, command, phase, left, config, planned,
                   outcome, rebuilt, spent>>

\* What it needs is not there: it is waited for until its timeout, and an
\* atomic release takes itself back.  Or a killed process left one.
CreateFails(r) ==
    /\ phase = "creating" /\ Startable(r)
    /\ ~(Needs(r) \subseteq live) \/ (InCluster(r) /\ ~up) \/ r \in live
    /\ Goto("failing")
    /\ UNCHANGED <<world, settings, tier, live, recorded, reaching, command, left, config,
                   planned, outcome, rebuilt, spent>>

\* The program fails, or an output it exports does; what the engine had
\* started by then is done.
Refuse ==
    /\ phase = "creating" /\ Refuses(At, config, published)
    /\ Goto("failing")
    /\ UNCHANGED <<world, settings, tier, live, recorded, reaching, command, left, config,
                   planned, outcome, rebuilt, spent>>

\* Everything declared is there: what is recorded and no longer declared goes.
Created ==
    /\ phase = "creating" /\ ~Refuses(At, config, published)
    /\ Wanted(At) \subseteq recorded
    /\ Goto("deleting")
    /\ UNCHANGED <<world, settings, tier, live, recorded, reaching, command, left, config,
                   planned, outcome, rebuilt, spent>>

Surplus == IF verb = "apply" THEN Recorded(At) \ Wanted(At) ELSE Recorded(At)

\* Mutant: the deletes of an update are all carried out at once.
RemovableAtOnce(r) == r \in Surplus

\* Nothing that goes depends on it; what stays had its dependencies renewed.
Removable(r) == r \in Surplus /\ \A q \in Surplus : r \notin Within(q) \union
                                     {Returned(a) : a \in After(q[1])}

Delete(r) ==
    /\ phase = "deleting" /\ Removable(r)
    /\ Reaches(At, r) /\ (r \in live => NeedsToGo(r) \subseteq live)
    /\ live' = live \ {r} /\ recorded' = recorded \ {r}
    /\ UNCHANGED <<world, settings, tier, reaching, command, phase, left, config, planned,
                   outcome, rebuilt, spent>>

\* "An unreachable cluster fails the operation instead of dropping every
\* resource from state"; a finalizer nobody answers is waited for in vain.
DeleteFails(r) ==
    /\ phase = "deleting" /\ Removable(r)
    /\ ~(Reaches(At, r) /\ (r \in live => NeedsToGo(r) \subseteq live))
    /\ Goto("failing")
    /\ UNCHANGED <<world, settings, tier, live, recorded, reaching, command, left, config,
                   planned, outcome, rebuilt, spent>>

\* A refresh drops what is not there any more from the state.
Read ==
    /\ phase = "reading"
    /\ \A r \in Recorded(At) : Reaches(At, r)
    /\ recorded' = recorded \ (Recorded(At) \ live)
    /\ Finished /\ Goto("next")
    /\ rebuilt' = (rebuilt /\ \E r \in recorded' : r \notin live)
    /\ UNCHANGED <<world, settings, tier, live, reaching, command, config, planned, outcome, spent>>

ReadFails ==
    /\ phase = "reading"
    /\ \E r \in Recorded(At) : ~Reaches(At, r)
    /\ Goto("failing")
    /\ UNCHANGED <<world, settings, tier, live, recorded, reaching, command, left, config,
                   planned, outcome, rebuilt, spent>>

LayerDone ==
    /\ phase = "deleting" /\ Surplus = {}
    /\ Finished /\ Goto("next")
    /\ UNCHANGED <<world, settings, tier, live, recorded, reaching, command, config, planned,
                   outcome, rebuilt, spent>>

\* Mutant: the loop goes on to the next layer.
StopGoesOn ==
    /\ phase = "failing" /\ left # {}
    /\ Finished /\ Goto("next")
    /\ UNCHANGED <<world, settings, tier, live, recorded, reaching, command, config, planned,
                   outcome, rebuilt, spent>>

\* set -e: the command ends with the layer.
Stop ==
    /\ phase = "failing" /\ Ends("failed")
    /\ UNCHANGED <<world, settings, tier, live, recorded, reaching, command, config, planned,
                   rebuilt, spent>>

----------------------------------------------------------------------------
(* What happens to them.                                                    *)

Fault ==
    /\ phase \in {"cluster", "creating", "deleting", "reading"} /\ Spend("faults")
    /\ Goto("failing")
    /\ UNCHANGED <<world, settings, tier, live, recorded, reaching, command, left, config,
                   planned, outcome, rebuilt>>

\* The process is killed: at once, or with a resource made and not recorded.
Kill ==
    /\ phase \in {"cluster", "creating", "deleting", "reading"} /\ Spend("kills")
    /\ Ends("killed")
    /\ \/ UNCHANGED live
       \/ /\ phase = "creating"
          /\ \E r \in Wanted(At) : /\ Startable(r) /\ Needs(r) \subseteq live
                                   /\ live' = live \union {r}
    /\ UNCHANGED <<world, settings, tier, recorded, reaching, command, config, planned, rebuilt>>

Edit ==
    /\ Spend("edits") /\ settings' \in world.settings \ {settings}
    /\ UNCHANGED <<world, tier, live, recorded, reaching, command, phase, left, config, planned,
                   outcome, rebuilt>>

\* cluster:destroy on its own, or the tier applied from another checkout.
Stray ==
    /\ phase # "cluster" /\ up /\ Spend("strays")
    /\ \/ ClusterGoes
       \/ published' \in {"older", "newer"} /\ UNCHANGED <<up, live, rebuilt>>
    /\ UNCHANGED <<world, settings, recorded, reaching, command, phase, left, config, planned,
                   outcome>>

Task == \/ Plan \/ ClusterStep \/ NextLayer \/ LastLayer \/ Refuse \/ Created \/ LayerDone
        \/ Read \/ ReadFails \/ Stop
        \/ phase = "creating" /\ \E r \in Wanted(At) : Create(r) \/ CreateFails(r)
        \/ \E r \in recorded : Delete(r) \/ DeleteFails(r)

Next == Command \/ Task \/ Fault \/ Kill \/ Edit \/ Stray

Spec == Init /\ [][Next]_vars

----------------------------------------------------------------------------
(* Properties.                                                              *)

\* No update comes to a point where everything left to create, or everything
\* left to delete, waits for something else.  And an apply of every layer, on a
\* cluster nobody took away from under it, creates nothing before what it has
\* to find running: what the tables name, what they leave to the order of the
\* layers, and what a declined component drops from the chain come to the same.
NothingWaitsInVain ==
    /\ phase = "creating" => \/ Refuses(At, config, published) \/ Wanted(At) \subseteq recorded
                             \/ \E r \in Wanted(At) : Startable(r)
    /\ phase = "deleting" => Surplus = {} \/ \E r \in Surplus : Removable(r)
    /\ (all /\ ~rebuilt /\ spent["kills"] = 0 /\ phase = "creating" /\ up) =>
          \A r \in Wanted(At) : Startable(r) => Needs(r) \subseteq live

\* A command over every layer takes nothing away from what still needs it, to
\* run or to go: "a layer's dependants must go first, or the CNI is removed
\* while workloads still need to talk".  A layer named by itself is the
\* operator's to order.
DependantsGoFirst ==
    [][(all /\ phase = "deleting" /\ spent["kills"] = 0) =>
          \A q \in live' : \A n \in Needs(q) \union NeedsToGo(q) : n \in live => n \in live']_vars

\* An apply of every layer that ends well leaves what the configuration asks
\* for and nothing else, whatever failed before it, unless the cluster was
\* replaced under the records, the process was killed, or somebody edited.
SuccessIsInstalled ==
    (/\ phase = "idle" /\ verb = "apply" /\ all /\ outcome = "succeeded"
     /\ ~rebuilt /\ spent["kills"] = 0 /\ planned[3] = spent["edits"])
        => live = UNION {Declared(l, settings) : l \in world.layers}

\* A destroy of everything that ends well leaves nothing behind: no load
\* balancer at Hetzner, and no state that describes what no longer exists.
DestroyLeavesNothing ==
    (phase = "idle" /\ verb = "destroy" /\ whole /\ outcome = "succeeded")
        => recorded = {} /\ (live = {} \/ spent["kills"] > 0)
=============================================================================
