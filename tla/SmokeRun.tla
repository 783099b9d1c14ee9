------------------------------ MODULE SmokeRun ------------------------------
(***************************************************************************)
(* The whole of internal/pkg/clustersmoke: nine checks in one order, none   *)
(* of which stops the others, each a few calls to an API server whose       *)
(* objects move between the calls.  The storage check is SmokeStorage's;    *)
(* the cross-node check creates a pod of a fixed name; the others only      *)
(* read.  What moves in the cluster is external and bounded by a scene.     *)
(***************************************************************************)
EXTENDS SmokeStorage, SequencesExt

CONSTANTS
    Node, Replica,    \* numbered as their names sort
    Nothing,          \* no node, no prober, no class, nothing read
    Scenes            \* per world, what its behaviours may start from

Order == <<"nodes", "crossNode", "storage", "dataVolumes", "secretStores",
           "networkPolicies", "loadBalancers", "externalMetrics", "imageAdmission">>
Checks == Range(Order)
Unset(c) == c = Nothing

\* A node: Ready, and a target of load balancers; the parts of a cluster the
\* checks read.
Health == [ready : BOOLEAN, target : BOOLEAN]

Readable(c) ==
    /\ DOMAIN c = {"nodes", "dns", "silent", "services", "labelled", "claims", "classes",
                   "default", "stores", "policies", "metrics", "admission"}
    /\ DOMAIN c.nodes \subseteq Node
    /\ c.nodes \in [DOMAIN c.nodes -> Health]
    /\ c.dns \in [Replica -> [state : {"unborn", "placed", "running", "gone"}, node : Node]]
    /\ c.silent \subseteq Replica
    /\ \A k \in DOMAIN c.claims : DOMAIN c.claims[k] = {"ns", "class", "volume"}
    /\ c.metrics \in {"absent", "served", "failing"}

ASSUME RunAssumption ==
    /\ Node \subseteq Nat /\ Replica \subseteq Nat /\ IsFiniteSet(Replica)
    /\ Nothing \notin Node /\ Nothing \notin Checks
    /\ \A w \in Worlds : \A s \in Scenes[w] : Readable(s.cluster)

VARIABLES
    step,      \* per run, the call it makes next
    seen,      \* per run, what the check under way has read
    told,      \* per run, the check it judged last, and the verdict
    failed,    \* per run, whether a check of it failed: its exit status
    prober,    \* the pod of that name
    cluster,   \* what the checks read, beside the storage probe's objects
    scene,     \* the checks that are played out, and how often the cluster
               \* still moves, by kind
    steady     \* per run, what has been wrong ever since the run began

storage == <<pc, class, round, target, verdict, latest, world, objects>>
results == <<told, failed>>
runVars == <<vars, step, seen, results, prober, cluster, scene, steady>>

\* What the checks call a fault, said of one state of the cluster.
Survives(k) ==
    LET claimed == cluster.claims[k]
        named   == IF claimed.class = Nothing THEN cluster.default ELSE claimed.class
    IN IF claimed.volume # "none" THEN claimed.volume
       ELSE IF named \in DOMAIN cluster.classes THEN cluster.classes[named] ELSE "unknown"

Wrong ==
    {<<"nodes", n>> : n \in {m \in DOMAIN cluster.nodes : ~cluster.nodes[m].ready}}
    \union {<<"crossNode", i>> : i \in {j \in cluster.silent : cluster.dns[j].state = "running"}}
    \union {<<"dataVolumes", k>> : k \in {c \in DOMAIN cluster.claims :
                cluster.claims[c].ns \in cluster.labelled /\ Survives(c) # "Retain"}}
    \union {<<"secretStores", s>> : s \in {t \in DOMAIN cluster.stores : ~cluster.stores[t]}}
    \union {<<"networkPolicies", p>> : p \in {q \in DOMAIN cluster.policies : ~cluster.policies[q]}}
    \union {<<"loadBalancers", s>> : s \in {t \in DOMAIN cluster.services :
                ~cluster.services[t]}}
    \union {<<"loadBalancers", "targets", 0>> : x \in {y \in {DOMAIN cluster.services} :
                y # {} /\ DOMAIN cluster.nodes # {}
                /\ \A n \in DOMAIN cluster.nodes : ~cluster.nodes[n].target}}
    \union {<<"externalMetrics", m>> : m \in {cluster.metrics} \ {"absent", "served"}}
    \union {<<"imageAdmission", a>> : a \in {cluster.admission} \ {"unlabelled", "refused"}}

RunInit ==
    /\ Init /\ \E s \in Scenes[world] : cluster = s.cluster /\ scene = [played |-> s.played, moves |-> s.moves]
    /\ step = [r \in Runs |-> "idle"] /\ seen = [r \in Runs |-> Nothing]
    /\ told = [r \in Runs |-> <<Nothing, Nothing>>] /\ failed = [r \in Runs |-> FALSE]
    /\ prober = Nothing /\ steady = [r \in Runs |-> {}]

----------------------------------------------------------------------------
(* The judgements, of what was read.                                        *)

NodesReady(nodes) ==
    IF DOMAIN nodes # {} /\ \A n \in DOMAIN nodes : nodes[n].ready THEN "passed" ELSE "failed"

\* Where every DNS replica is on another node, or nowhere.
PlanCrossNode(nodes, dnsNodes) ==
    LET ready == {n \in DOMAIN nodes : nodes[n].ready}
        free  == ready \ dnsNodes
    IN IF Cardinality(ready) < 2 \/ dnsNodes = {} \/ free = {} THEN Nothing ELSE Min(free)

CrossNodeVerdict(exits) ==
    IF exits # <<>> /\ \A i \in DOMAIN exits : exits[i] = "ok" THEN "passed" ELSE "failed"

\* Of the reclaim policies found; "unknown" is a class nobody found.
DataVolumesAreRetained(policies, labelled) ==
    IF labelled = {} THEN "skipped"
    ELSE IF policies \subseteq {"Retain"} THEN "passed" ELSE "failed"

\* The shape of the two checks that read a condition off a custom resource:
\* no resource, or no such kind, proves nothing; no condition is not True.
Conditions(items) ==
    IF DOMAIN items = {} THEN "skipped"
    ELSE IF \A i \in DOMAIN items : items[i] THEN "passed" ELSE "failed"
SecretStoresAreReady(stores)      == Conditions(stores)
NetworkPoliciesAreValid(policies) == Conditions(policies)

loadBalancerTargets(nodes) == {n \in DOMAIN nodes : nodes[n].target}

ExternalAddresses(services, nodes) ==
    IF DOMAIN services = {} THEN "skipped"
    ELSE IF \/ DOMAIN nodes # {} /\ loadBalancerTargets(nodes) = {}
            \/ \E s \in DOMAIN services : ~services[s]
         THEN "failed" ELSE "passed"

\* Mutant: a group that is registered reads as served.
GroupIsListed(metrics) == IF metrics = "absent" THEN "skipped" ELSE "passed"

ExternalMetricsServed(metrics) ==
    CASE metrics = "failing" -> "failed" [] metrics = "served" -> "passed" [] OTHER -> "skipped"

\* Only the policy-controller's own refusal says that images are checked.
ImageAdmission(attempt) ==
    CASE attempt = "unlabelled" -> "skipped" [] attempt = "refused" -> "passed" [] OTHER -> "failed"

----------------------------------------------------------------------------
(* The run.                                                                 *)

Over == {"idle", "over", "killed", "panicked"}

Place(c) == CHOOSE i \in DOMAIN Order : Order[i] = c

\* The first check from the i-th on that is played out.
FirstFrom(i) ==
    LET played == {j \in i..Len(Order) : Order[j] \in scene.played}
    IN IF played = {} THEN "over" ELSE Order[Min(played)]
After(c) == FirstFrom(Place(c) + 1)

To(r, l) == step' = [step EXCEPT ![r] = l]
Reads(r, what, l) == seen' = [seen EXCEPT ![r] = what] /\ To(r, l) /\ UNCHANGED results
\* The verdict of a check, which stops none of the others.
Says(r, c, v, l) ==
    /\ told' = [told EXCEPT ![r] = <<c, v>>]
    /\ failed' = [failed EXCEPT ![r] = @ \/ v = "failed"]
    /\ seen' = [seen EXCEPT ![r] = Nothing] /\ To(r, l)
OnlyReads == UNCHANGED <<storage, prober, cluster, scene, steady>>

Begin(r) ==
    /\ step[r] = "idle" /\ (world.overlap \/ \A s \in Runs : step[s] \in Over)
    /\ To(r, FirstFrom(1)) /\ latest' = r /\ steady' = [steady EXCEPT ![r] = Wrong]
    /\ UNCHANGED <<pc, class, round, target, verdict, faulted, world, objects, bounds,
                   seen, results, prober, cluster, scene>>

\* One call and its verdict; a call that fails fails the check.
Ask(r, c, v) ==
    /\ step[r] = c /\ OnlyReads
    /\ \/ Says(r, c, v, After(c)) /\ NoFault
       \/ Says(r, c, "failed", After(c)) /\ Fault(r)

\* One call of several: what it read, or the end of the check.
Call(r, here, c, what, l) ==
    /\ step[r] = here /\ OnlyReads
    /\ \/ Reads(r, what, l) /\ NoFault
       \/ Says(r, c, "failed", After(c)) /\ Fault(r)

checkNodes(r) == Ask(r, "nodes", NodesReady(cluster.nodes))

----------------------------------------------------------------------------
(* The cross-node check.                                                    *)

ListNodes(r) ==
    Call(r, "crossNode", "crossNode", [nodes |-> cluster.nodes], "listDns")

\* A listing has its items by name.
Listings(S) == {s \in [1..Cardinality(S) -> S] : \A i, j \in DOMAIN s : i < j => s[i] < s[j]}

\* Mutant: any Ready node will do.
ListDnsAnywhere(r) ==
    /\ step[r] = "listDns" /\ OnlyReads
    /\ LET ready   == {n \in DOMAIN seen[r].nodes : seen[r].nodes[n].ready}
           running == {i \in Replica : cluster.dns[i].state = "running"}
       IN IF running = {} \/ Cardinality(ready) < 2
          THEN Says(r, "crossNode", "skipped", After("crossNode")) /\ NoFault
          ELSE \E asks \in Listings(running) :
                 Reads(r, [probe |-> Min(ready), asks |-> asks], "deleteProber") /\ NoFault

\* Every replica that is placed is one to keep away from; those that have an
\* address are the ones to ask.
ListDns(r) ==
    /\ step[r] = "listDns" /\ OnlyReads
    /\ LET placed  == {i \in Replica : cluster.dns[i].state \in {"placed", "running"}}
           running == {i \in Replica : cluster.dns[i].state = "running"}
           probe   == PlanCrossNode(seen[r].nodes, {cluster.dns[i].node : i \in placed})
       IN \/ /\ NoFault
             /\ IF Unset(probe) THEN Says(r, "crossNode", "skipped", After("crossNode"))
                ELSE IF running = {} THEN Says(r, "crossNode", "failed", After("crossNode"))
                ELSE \E asks \in Listings(running) :
                       Reads(r, [probe |-> probe, asks |-> asks], "deleteProber")
          \/ Fault(r) /\ Says(r, "crossNode", "failed", After("crossNode"))

MarkDeleted == prober' = IF Unset(prober) THEN prober ELSE [prober EXCEPT !.deleted = TRUE]

\* `deleteProber`, before the probe and deferred behind it: an error is logged.
\* A run that panicked ends behind the deferred one.
DeleteProber(r, here, l) ==
    /\ step[r] = here /\ To(r, l)
    /\ \/ MarkDeleted /\ NoFault
       \/ UNCHANGED prober /\ Fault(r)
    /\ UNCHANGED <<storage, cluster, scene, steady, seen, results>>

ClearProber(r) == DeleteProber(r, "deleteProber", "waitProber")
DropProber(r)  ==
    DeleteProber(r, "dropProber", IF told[r][1] = "crossNode" THEN After("crossNode") ELSE "panicked")

\* Mutant: a prober that is still there is taken for this run's.
WaitProberReuse(r) ==
    /\ step[r] = "waitProber" /\ OnlyReads /\ NoFault
    /\ Reads(r, seen[r], IF Unset(prober) THEN "createProber" ELSE "waitAnswers")

WaitProber(r) ==
    /\ step[r] = "waitProber" /\ OnlyReads
    /\ \/ Unset(prober) /\ Reads(r, seen[r], "createProber") /\ NoFault
       \/ ~Unset(prober) /\ Says(r, "crossNode", "failed", "dropProber") /\ NoFault
       \/ Says(r, "crossNode", "failed", "dropProber") /\ Fault(r)

\* Pinned to its node: one container a replica, each asking its address.
CreateProber(r) ==
    /\ step[r] = "createProber"
    /\ \/ /\ Unset(prober) /\ NoFault /\ Reads(r, seen[r], "waitAnswers")
          /\ prober' = [owner |-> r, node |-> seen[r].probe, asks |-> seen[r].asks,
                        exits |-> [i \in DOMAIN seen[r].asks |-> "none"], deleted |-> FALSE]
       \/ /\ ~Unset(prober) /\ NoFault
          /\ Says(r, "crossNode", "failed", "dropProber") /\ UNCHANGED prober
       \/ Fault(r) /\ Says(r, "crossNode", "failed", "dropProber") /\ UNCHANGED prober
    /\ UNCHANGED <<storage, cluster, scene, steady>>

\* One reading of the pod of that name, whoever created it.  It is over when
\* as many containers ended as this run asks replicas; one of another number
\* of replicas may then lack the container this run looks up, which panics.
\* Anything less is another wait, or past proberTimeout a failure.
WaitForProber(r) ==
    /\ step[r] = "waitAnswers" /\ OnlyReads
    /\ LET mine     == DOMAIN seen[r].asks
           finished == IF Unset(prober) THEN {}
                       ELSE {i \in DOMAIN prober.exits : prober.exits[i] # "none"}
       IN \/ /\ Cardinality(finished) = Cardinality(mine) /\ finished = mine /\ NoFault
             /\ Says(r, "crossNode", CrossNodeVerdict([i \in mine |-> prober.exits[i]]), "dropProber")
          \/ /\ Cardinality(finished) = Cardinality(mine) /\ finished # mine /\ NoFault
             /\ Reads(r, Nothing, "dropProber")
          \/ /\ Cardinality(finished) # Cardinality(mine) /\ NoFault
             /\ Says(r, "crossNode", "failed", "dropProber")
          \/ Fault(r) /\ Says(r, "crossNode", "failed", "dropProber")

----------------------------------------------------------------------------
(* The storage check, and the volumes that hold data.                       *)

\* SmokeStorage's check, from its start to the end of its last cleanup.
checkStorage(r) ==
    /\ step[r] = "storage" /\ UNCHANGED <<prober, cluster, scene, steady>>
    /\ \/ pc[r] # "done" /\ (Start(r) \/ Check(r)) /\ UNCHANGED <<step, seen, results>>
       \/ pc[r] = "done" /\ UNCHANGED vars /\ Says(r, "storage", verdict[r], After("storage"))

ListNamespaces(r) ==
    Call(r, "dataVolumes", "dataVolumes", [labelled |-> cluster.labelled], "listClasses")

ListClasses(r) ==
    Call(r, "listClasses", "dataVolumes",
         [labelled |-> seen[r].labelled, todo |-> seen[r].labelled, bound |-> {}, policies |-> {},
          classes |-> cluster.classes, default |-> cluster.default],
         "readVolumes")

\* What the class of an unbound claim says; the default one's if it names none.
ClassPolicy(found, k) ==
    LET named == IF cluster.claims[k].class = Nothing THEN found.default ELSE cluster.claims[k].class
    IN IF named \in DOMAIN found.classes THEN found.classes[named] ELSE "unknown"

\* Mutant: what a claim is bound to is not looked at.
ListClaimsByClass(r) ==
    /\ step[r] = "readVolumes" /\ seen[r].bound = {} /\ seen[r].todo # {}
    /\ LET ns == CHOOSE n \in seen[r].todo : TRUE
           here == {k \in DOMAIN cluster.claims : cluster.claims[k].ns = ns}
       IN Call(r, "readVolumes", "dataVolumes",
               [seen[r] EXCEPT !.todo = @ \ {ns},
                               !.policies = @ \union {ClassPolicy(seen[r], k) : k \in here}],
               "readVolumes")

\* The claims of one namespace; the volumes of those bound are read after it.
ListClaims(r) ==
    /\ step[r] = "readVolumes" /\ seen[r].bound = {} /\ seen[r].todo # {}
    /\ LET ns    == CHOOSE n \in seen[r].todo : TRUE
           here  == {k \in DOMAIN cluster.claims : cluster.claims[k].ns = ns}
           bound == {k \in here : cluster.claims[k].volume # "none"}
       IN Call(r, "readVolumes", "dataVolumes",
               [seen[r] EXCEPT !.todo = @ \ {ns}, !.bound = bound,
                               !.policies = @ \union {ClassPolicy(seen[r], k) : k \in here \ bound}],
               "readVolumes")

\* A bound claim is judged by its volume's own policy.
ReadDataVolume(r) ==
    /\ step[r] = "readVolumes" /\ seen[r].bound # {}
    /\ LET k == CHOOSE c \in seen[r].bound : TRUE
           v == cluster.claims[k].volume
       IN IF v = "lost"
          THEN OnlyReads /\ Says(r, "dataVolumes", "failed", After("dataVolumes")) /\ NoFault
          ELSE Call(r, "readVolumes", "dataVolumes",
                    [seen[r] EXCEPT !.bound = @ \ {k}, !.policies = @ \union {v}],
                    "readVolumes")

JudgeVolumes(r) ==
    /\ step[r] = "readVolumes" /\ seen[r].bound = {} /\ seen[r].todo = {} /\ NoFault /\ OnlyReads
    /\ Says(r, "dataVolumes", DataVolumesAreRetained(seen[r].policies, seen[r].labelled),
            After("dataVolumes"))

----------------------------------------------------------------------------
(* The checks that only read.                                               *)

checkSecretStores(r)    == Ask(r, "secretStores", SecretStoresAreReady(cluster.stores))
checkNetworkPolicies(r) == Ask(r, "networkPolicies", NetworkPoliciesAreValid(cluster.policies))
checkExternalMetrics(r) == Ask(r, "externalMetrics", ExternalMetricsServed(cluster.metrics))

ListServices(r) ==
    Call(r, "loadBalancers", "loadBalancers", cluster.services, "listTargets")

checkLoadBalancers(r) ==
    /\ step[r] = "listTargets" /\ OnlyReads
    /\ \/ /\ NoFault
          /\ Says(r, "loadBalancers", ExternalAddresses(seen[r], cluster.nodes), After("loadBalancers"))
       \/ Fault(r) /\ Says(r, "loadBalancers", "failed", After("loadBalancers"))

\* The namespaces, and then a pod submitted to the first as a dry run.
ListPolicedNamespaces(r) ==
    /\ step[r] = "imageAdmission" /\ OnlyReads
    /\ \/ /\ NoFault
          /\ IF cluster.admission = "unlabelled"
             THEN Says(r, "imageAdmission", ImageAdmission("unlabelled"), After("imageAdmission"))
             ELSE Reads(r, Nothing, "submit")
       \/ Fault(r) /\ Says(r, "imageAdmission", "failed", After("imageAdmission"))

SubmitPod(r) ==
    /\ step[r] = "submit" /\ OnlyReads
    /\ \/ /\ NoFault
          /\ Says(r, "imageAdmission",
                  ImageAdmission(IF cluster.admission = "unlabelled" THEN "admitted" ELSE cluster.admission),
                  After("imageAdmission"))
       \/ Fault(r) /\ Says(r, "imageAdmission", "failed", After("imageAdmission"))

\* The process ends between two calls; nothing deferred runs.
KillRun(r) ==
    /\ \/ Kill(r) /\ step[r] = "storage"
       \/ /\ step[r] \notin Over \union {"storage"} /\ kills < world.kills
          /\ kills' = kills + 1 /\ UNCHANGED <<storage, faulted, faults>>
    /\ To(r, "killed") /\ UNCHANGED <<seen, results, prober, cluster, scene, steady>>

Step(r) ==
    \/ checkNodes(r) \/ ListNodes(r) \/ ListDns(r) \/ ClearProber(r) \/ WaitProber(r)
    \/ CreateProber(r) \/ WaitForProber(r) \/ DropProber(r)
    \/ checkStorage(r) \/ ListNamespaces(r) \/ ListClasses(r) \/ ListClaims(r)
    \/ ReadDataVolume(r) \/ JudgeVolumes(r) \/ checkSecretStores(r) \/ checkNetworkPolicies(r)
    \/ ListServices(r) \/ checkLoadBalancers(r) \/ checkExternalMetrics(r)
    \/ ListPolicedNamespaces(r) \/ SubmitPod(r)

----------------------------------------------------------------------------
(* The cluster.                                                             *)

\* A container of the prober ends: its replica answered, from its own node or
\* across nodes, or it did not.
ProbeEnds ==
    /\ ~Unset(prober) /\ cluster.nodes[prober.node].ready
    /\ \E i \in DOMAIN prober.exits :
          LET asked == cluster.dns[prober.asks[i]]
          IN /\ prober.exits[i] = "none"
             /\ prober' = [prober EXCEPT !.exits[i] =
                   IF /\ ~prober.deleted /\ asked.state = "running"
                      /\ asked.node = prober.node \/ prober.asks[i] \notin cluster.silent
                   THEN "ok" ELSE "error"]
    /\ UNCHANGED <<vars, step, seen, results, cluster, scene, steady>>

ProberGone ==
    /\ ~Unset(prober) /\ prober.deleted /\ cluster.nodes[prober.node].ready
    /\ prober' = Nothing
    /\ UNCHANGED <<vars, step, seen, results, cluster, scene, steady>>

\* One thing of the cluster changes; what was wrong and no longer is, is no
\* longer steady.
Becomes(kind, c) ==
    /\ scene.moves[kind] > 0 /\ scene' = [scene EXCEPT !.moves[kind] = @ - 1] /\ cluster' = c
    /\ steady' = [r \in Runs |-> steady[r] \intersect Wrong']
    /\ UNCHANGED <<vars, step, seen, results, prober>>

NodeTurns == \E n \in DOMAIN cluster.nodes : Becomes("nodes", [cluster EXCEPT !.nodes[n].ready = ~@])

\* A replica is replaced, takes an address, or stops answering other nodes.
DnsMoves ==
    \E i \in Replica :
        \/ /\ cluster.dns[i].state = "unborn"
           /\ \E n \in DOMAIN cluster.nodes :
                 Becomes("dns", [cluster EXCEPT !.dns[i] = [state |-> "placed", node |-> n]])
        \/ cluster.dns[i].state = "placed" /\ Becomes("dns", [cluster EXCEPT !.dns[i].state = "running"])
        \/ cluster.dns[i].state = "running" /\ Becomes("dns", [cluster EXCEPT !.dns[i].state = "gone"])
        \/ /\ cluster.dns[i].state = "running"
           /\ Becomes("dns", [cluster EXCEPT !.silent = SymDiff(@, {i})])

\* A claim binds, its volume is patched or lost, a class is made again, the
\* default moves, a namespace is labelled or no longer.
DataMoves ==
    \/ \E k \in DOMAIN cluster.claims : \E v \in Policy \union {"lost"} :
            /\ cluster.claims[k].volume # v
            /\ cluster.claims[k].volume = "none" => v = Survives(k)
            /\ cluster.claims[k].volume # "lost"
            /\ Becomes("data", [cluster EXCEPT !.claims[k].volume = v])
    \/ \E c \in DOMAIN cluster.classes, p \in Policy :
            Becomes("data", [cluster EXCEPT !.classes[c] = p])
    \/ \E c \in DOMAIN cluster.classes : Becomes("data", [cluster EXCEPT !.default = c])
    \/ \E k \in DOMAIN cluster.claims :
            Becomes("data", [cluster EXCEPT !.labelled = SymDiff(@, {cluster.claims[k].ns})])

\* A controller changes its mind about what it owns.
StatusMoves ==
    \/ \E s \in DOMAIN cluster.stores : Becomes("status", [cluster EXCEPT !.stores[s] = ~@])
    \/ \E p \in DOMAIN cluster.policies : Becomes("status", [cluster EXCEPT !.policies[p] = ~@])
    \/ \E s \in DOMAIN cluster.services : Becomes("status", [cluster EXCEPT !.services[s] = ~@])
    \/ \E n \in DOMAIN cluster.nodes : Becomes("status", [cluster EXCEPT !.nodes[n].target = ~@])
    \/ \E m \in {"absent", "served", "failing"} \ {cluster.metrics} :
            Becomes("status", [cluster EXCEPT !.metrics = m])
    \/ \E a \in {"unlabelled", "refused", "refusedByAnother", "admitted", "error"} \ {cluster.admission} :
            Becomes("status", [cluster EXCEPT !.admission = a])

RunNext ==
    \/ \E r \in Runs : Begin(r) \/ Step(r) \/ KillRun(r)
    \/ Cluster /\ UNCHANGED <<step, seen, results, prober, cluster, scene, steady>>
    \/ ProbeEnds \/ ProberGone
    \/ NodeTurns \/ DnsMoves \/ DataMoves \/ StatusMoves

RunSteps == RunInit /\ [][RunNext]_runVars

\* As Spec: a started run goes on, and accepted deletions end.
RunFairness ==
    /\ \A r \in Runs : WF_runVars(Step(r)) /\ WF_vars(Reclaim(r))
    /\ WF_vars(PodGone) /\ WF_vars(ClaimGone) /\ WF_runVars(ProberGone)

RunSpec == RunSteps /\ RunFairness

----------------------------------------------------------------------------
(* Properties.                                                              *)

RunTypeOK ==
    /\ TypeOK
    /\ step \in [Runs -> Over \union Checks \union
            {"listDns", "deleteProber", "waitProber", "createProber", "waitAnswers", "dropProber",
             "listClasses", "readVolumes", "listTargets", "submit"}]
    /\ told \in [Runs -> (Checks \X {"passed", "failed", "skipped"}) \union {<<Nothing, Nothing>>}]
    /\ failed \in [Runs -> BOOLEAN]
    /\ ~Unset(prober) =>
            /\ prober.owner \in Runs /\ prober.node \in DOMAIN cluster.nodes
            /\ DOMAIN prober.exits = DOMAIN prober.asks

\* "Finding both in one run": what was wrong all through a run fails its check
\* and the run, whatever else moved, failed or was skipped between the calls,
\* and whatever killed runs left.  A replica that answers no other node may go
\* unasked, where no node is free to ask from, but it is never passed over,
\* except by runs at once, one of which may take the other's prober for its own.
WrongThroughoutIsReported ==
    \A r \in Runs : \A w \in steady[r] :
        /\ told[r][1] = w[1] => \/ told[r][2] = "failed"
                                \/ w[1] = "crossNode" /\ (told[r][2] = "skipped" \/ world.overlap)
        /\ step[r] = "over" /\ w[1] \in scene.played \ {"crossNode"} => failed[r]

\* Whatever killed runs left behind, a later run that completes with no call
\* failing leaves the cluster with no probe in it, until another run starts;
\* but for a prober on a node that went, which nobody can end, and one that a
\* run with no node to probe from never looks for.
NextRunRepairs ==
    \A r \in Runs :
        (~world.overlap /\ step[r] = "over" /\ ~faulted[r] /\ latest = r
            /\ (told[r][1] = "crossNode" => told[r][2] = "passed"))
            ~> ((claim = NoRun /\ pod = NoRun /\ (Unset(prober) \/ ~cluster.nodes[prober.node].ready))
                \/ latest # r)

\* Runs that overlap fail each other, or panic on each other's prober, but the
\* last one to finish leaves no probe and no volume of a deleting class.
OverlapLeavesNothing ==
    (world.overlap /\ \A r \in Runs : step[r] \in {"over", "panicked"} /\ ~faulted[r])
        ~> (/\ claim = NoRun /\ pod = NoRun /\ Unset(prober)
            /\ \A r \in Runs : volume[r].at \in {"none", "gone"})
=============================================================================
