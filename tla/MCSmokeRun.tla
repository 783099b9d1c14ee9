----------------------------- MODULE MCSmokeRun -----------------------------
EXTENDS SmokeRun

\* The two classes layers/10-node-platform registers, and one that binds at
\* once, which --storage-class may name.
Deleting  == [late |-> TRUE, reclaim |-> "Delete"]
Retaining == [late |-> TRUE, reclaim |-> "Retain"]
Immediate == [late |-> FALSE, reclaim |-> "Delete"]

OneByOne == [classes |-> {Deleting, Retaining}, overlap |-> FALSE, kills |-> 1, faults |-> 1]
AtOnce   == [classes |-> {Deleting, Immediate}, overlap |-> TRUE, kills |-> 0, faults |-> 0]
Network  == [classes |-> {Immediate}, overlap |-> FALSE, kills |-> 1, faults |-> 0]
Crossed  == [classes |-> {Immediate}, overlap |-> TRUE, kills |-> 0, faults |-> 0]
Objects  == [classes |-> {Immediate}, overlap |-> FALSE, kills |-> 0, faults |-> 0]
Failing  == [classes |-> {Immediate}, overlap |-> FALSE, kills |-> 0, faults |-> 1]

Up     == [ready |-> TRUE, target |-> TRUE]
On(n)  == [state |-> "running", node |-> n]
Unborn == [state |-> "unborn", node |-> 1]
Empty  == <<>>

Bare == [nodes |-> [n \in 1..2 |-> Up], dns |-> [i \in Replica |-> IF i = 1 THEN On(1) ELSE Unborn],
         silent |-> {}, services |-> Empty, labelled |-> {}, claims |-> Empty, classes |-> Empty,
         default |-> Nothing, stores |-> Empty, policies |-> Empty,
         metrics |-> "absent", admission |-> "unlabelled"]

Still == [nodes |-> 0, dns |-> 0, data |-> 0, status |-> 0]

\* One replica that may be silent for other nodes, on a node or the other.
Wired == {[Bare EXCEPT !.silent = s, !.dns[1] = d] : s \in {{}, {1}}, d \in {On(1), On(2)}}

\* Two claims in a namespace of data, one bound and one that names no class.
Claims == ("a" :> [ns |-> "data", class |-> "hcloud", volume |-> "Retain"])
          @@ ("b" :> [ns |-> "data", class |-> Nothing, volume |-> "none"])
Filled == [Bare EXCEPT
    !.nodes = [n \in 1..1 |-> Up], !.dns[1] = On(1),
    !.labelled = {"data"}, !.claims = Claims,
    !.classes = ("hcloud" :> "Delete") @@ ("database" :> "Retain"), !.default = "database"]
Served == [Bare EXCEPT
    !.nodes = [n \in 1..1 |-> Up], !.dns[1] = On(1),
    !.services = ("traefik" :> TRUE), !.stores = ("store" :> TRUE), !.policies = ("deny" :> TRUE),
    !.metrics = "served", !.admission = "refused"]

Plays(checks, clusters, moves) ==
    {[cluster |-> c, played |-> checks, moves |-> moves] : c \in clusters}

MCScenes == [w \in {OneByOne, AtOnce, Network, Crossed, Objects, Failing} |->
    CASE w \in {OneByOne, AtOnce} -> Plays({"storage"}, {Bare}, Still)
      [] w = Network -> Plays({"crossNode"}, Wired, [Still EXCEPT !.nodes = 1, !.dns = 1])
      [] w = Crossed -> Plays({"crossNode"}, {Bare}, [Still EXCEPT !.dns = 2])
      [] w = Objects -> Plays({"dataVolumes"}, {Filled}, [Still EXCEPT !.data = 2])
            \union Plays(Checks \ {"storage", "dataVolumes", "crossNode"}, {Served},
                         [Still EXCEPT !.status = 1, !.nodes = 1])
            \union Plays({"loadBalancers", "externalMetrics"}, {Served}, [Still EXCEPT !.status = 2])
            \union Plays(Checks, {Bare}, Still)
      [] w = Failing -> Plays(Checks \ {"storage"}, {Bare, Filled, Served}, Still)]
MCWorlds == DOMAIN MCScenes
=============================================================================
