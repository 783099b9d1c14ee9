---------------------------- MODULE NodePlacement ----------------------------
(***************************************************************************)
(* cluster:apply carries the servers of a cluster from one topology to the *)
(* next.  A server whose address moves is deleted and then created again   *)
(* under the same name (DeleteBeforeReplace); a server the topology no     *)
(* longer has is deleted last, and only when nothing before it failed;     *)
(* Hetzner gives an address to one server at a time and refuses the        *)
(* second.  Apply is run again until it succeeds.                          *)
(***************************************************************************)
EXTENDS NodeAddresses, FiniteSets

CONSTANTS Topologies,  \* the variables files an operator may write
          MaxEdits,    \* edits of the file
          MaxFaults    \* steps the cloud fails for a reason of its own

ASSUME PlacementAssumption ==
    /\ Topologies \subseteq Topology
    /\ Topologies # {}
    /\ MaxEdits \in Nat /\ MaxFaults \in Nat

VARIABLES topology, \* the variables file
          plan,     \* the topology the running, or the last, apply read
          wanted,   \* the addresses it computed from it
          servers,  \* the private address of each server that exists
          apply,    \* what the apply is doing
          forced,   \* it was given replace_control_plane=yes
          edits, faults

vars == <<topology, plan, wanted, servers, apply, forced, edits, faults>>

Restrict(f, S) == [n \in S |-> f[n]]

(* The server each name stands for in a file, with its address.            *)
NodeNames(t) == {NodeName(t, p) : p \in Places(t)}
PlaceNamed(t, n) == CHOOSE p \in Places(t) : NodeName(t, p) = n
Wanted(t) == [n \in NodeNames(t) |-> AddressOf(t, PlaceNamed(t, n))]

(* The program reads the file, validates it and computes every address.    *)
Applicable == {t \in Topologies : Valid(t) /\ Fits(t)}

Held == {servers[n] : n \in DOMAIN servers}

\* Mutant: IgnoreChanges covers the private network as it does the public one.
MovedIgnored(w) == {}

(* The servers to replace: the private address is an input that forces it. *)
Moved(w) == {n \in DOMAIN servers \cap DOMAIN w : servers[n] # w[n]}
Dropped(w) == DOMAIN servers \ DOMAIN w
Missing(w) == DOMAIN w \ DOMAIN servers

(* The first apply makes the cluster: there is no server before it.        *)
Init == /\ topology \in Topologies
        /\ plan = topology
        /\ wanted = [n \in {} |-> 0]
        /\ servers = [n \in {} |-> 0]
        /\ apply = "idle"
        /\ forced = FALSE
        /\ edits = 0
        /\ faults = 0

(* The operator rewrites the file, while an apply runs or not.             *)
Edit(t) ==
    /\ edits < MaxEdits
    /\ t # topology
    /\ topology' = t
    /\ edits' = edits + 1
    /\ UNCHANGED <<plan, wanted, servers, apply, forced, faults>>

\* Mutant: Protect stops a replacement and lets a delete through.
ProtectedOnlyIfMoved(w) == {n \in Moved(w) : n[1] = ControlPlane}

(* What pulumi.Protect refuses in preview, before anything is touched.     *)
Protected(w) == {n \in Moved(w) \cup Dropped(w) : n[1] = ControlPlane}

(* The preview meets Protect once the file is accepted.                    *)
Start ==
    /\ apply = "idle"
    /\ topology \in Applicable
    /\ plan' = topology
    /\ wanted' = Wanted(topology)
    /\ forced' \in BOOLEAN
    /\ forced' \/ Protected(wanted') = {}
    /\ apply' = "updating"
    /\ UNCHANGED <<topology, servers, edits, faults>>

(* Steps already on their way finish after one of them failed.             *)
Stepping == apply \in {"updating", "failing"}

(* The delete half of a replacement.                                       *)
Leave(n) ==
    /\ Stepping
    /\ n \in Moved(wanted)
    /\ servers' = Restrict(servers, DOMAIN servers \ {n})
    /\ UNCHANGED <<topology, plan, wanted, apply, forced, edits, faults>>

(* A server that is not there is created; its address is free.             *)
Create(n) ==
    /\ Stepping
    /\ n \in Missing(wanted)
    /\ wanted[n] \notin Held
    /\ servers' = [m \in DOMAIN servers \cup {n} |->
                      IF m = n THEN wanted[n] ELSE servers[m]]
    /\ UNCHANGED <<topology, plan, wanted, apply, forced, edits, faults>>

(* Another server still holds its address: the cloud refuses, and the      *)
(* apply fails.                                                            *)
CreateRefused(n) ==
    /\ apply = "updating"
    /\ n \in Missing(wanted)
    /\ wanted[n] \in Held
    /\ apply' = "failing"
    /\ UNCHANGED <<topology, plan, wanted, servers, forced, edits, faults>>

(* A quota, a timeout, a server that did not come up.                      *)
Fault ==
    /\ apply \in {"updating", "deleting"}
    /\ faults < MaxFaults
    /\ faults' = faults + 1
    /\ apply' = "failing"
    /\ UNCHANGED <<topology, plan, wanted, servers, forced, edits>>

\* Mutant: the servers of the plan are not awaited before the deletes.
PlacedNeverChecked ==
    /\ apply = "updating"
    /\ apply' = "deleting"
    /\ UNCHANGED <<topology, plan, wanted, servers, forced, edits, faults>>

(* Everything the program declares is settled: what is left goes.          *)
Placed ==
    /\ apply = "updating"
    /\ Moved(wanted) = {} /\ Missing(wanted) = {}
    /\ apply' = "deleting"
    /\ UNCHANGED <<topology, plan, wanted, servers, forced, edits, faults>>

Drop(n) ==
    /\ apply = "deleting"
    /\ n \in Dropped(wanted)
    /\ servers' = Restrict(servers, DOMAIN servers \ {n})
    /\ UNCHANGED <<topology, plan, wanted, apply, forced, edits, faults>>

Finish ==
    /\ apply = "deleting"
    /\ Dropped(wanted) = {}
    /\ apply' = "done"
    /\ UNCHANGED <<topology, plan, wanted, servers, forced, edits, faults>>

GiveUp ==
    /\ apply = "failing"
    /\ apply' = "failed"
    /\ UNCHANGED <<topology, plan, wanted, servers, forced, edits, faults>>

(* Somebody runs cluster:apply again: after a failure, or for a new file.  *)
Again ==
    /\ apply = "failed" \/ (apply = "done" /\ plan # topology)
    /\ apply' = "idle"
    /\ UNCHANGED <<topology, plan, wanted, servers, forced, edits, faults>>

Known == DOMAIN servers \cup DOMAIN wanted

Next ==
    \/ \E t \in Topologies : Edit(t)
    \/ Start \/ Fault \/ Placed \/ Finish \/ GiveUp \/ Again
    \/ \E n \in Known : Leave(n) \/ Create(n) \/ CreateRefused(n) \/ Drop(n)

(* A run dispatches every server that has to move or to be made, in        *)
(* parallel with the one that fails it: replacements and creations that    *)
(* are possible in run after run are not put off for ever (strong          *)
(* fairness).  The operator runs apply until it is through.                *)
Fairness ==
    /\ WF_vars(Start) /\ WF_vars(Again)
    /\ WF_vars(Placed) /\ WF_vars(Finish) /\ WF_vars(GiveUp)
    /\ SF_vars(\E n \in Known : Leave(n))
    /\ SF_vars(\E n \in Known : Create(n))
    /\ WF_vars(\E n \in Known : CreateRefused(n))
    /\ WF_vars(\E n \in Known : Drop(n))

Spec == Init /\ [][Next]_vars
FairSpec == Spec /\ Fairness

-----------------------------------------------------------------------------
TypeOK ==
    /\ topology \in Topologies
    /\ plan \in Topologies
    /\ \A n \in DOMAIN servers : n \in PoolNames \X Nat /\ servers[n] \in 0..SubnetSize - 1
    /\ apply \in {"idle", "updating", "deleting", "failing", "failed", "done"}
    /\ forced \in BOOLEAN
    /\ edits \in 0..MaxEdits
    /\ faults \in 0..MaxFaults

(* Whatever files an operator writes, the one an apply acts on gives every *)
(* server a name and an address of its own, away from the load balancers'  *)
(* and the subnet's reserved ones.                                         *)
PlanIsSound == apply # "idle" => Sound(plan)

(* An apply that ends well has left exactly the servers of its file, each  *)
(* at its address, whatever the applies that failed before it left.        *)
DoneIsWanted == apply = "done" => servers = Wanted(plan)

(* No step of an apply takes a control-plane server unless the apply was   *)
(* given replace_control_plane=yes: the check is made before the first     *)
(* step, and the delete comes after the last.                              *)
ControlPlaneStays ==
    [][\A n \in DOMAIN servers : n[1] = ControlPlane /\ n \notin DOMAIN servers'
           => forced]_vars

(* The inductive invariant behind the three: what each stage of an apply   *)
(* knows of the file it read and of the servers that stand.                *)
PlacementInv ==
    /\ TypeOK
    /\ servers = [n \in DOMAIN servers |-> servers[n]]
    /\ apply # "idle" => plan \in Applicable /\ wanted = Wanted(plan)
    /\ apply \in {"updating", "failing", "deleting"} /\ ~forced => Protected(wanted) = {}
    /\ apply = "deleting" => Moved(wanted) = {} /\ Missing(wanted) = {}
    /\ apply = "done" => servers = wanted

(* An address the file gives to one server is held by another the file     *)
(* drops, and so only deletes last.                                        *)
Blocked == LET w == Wanted(topology)
           IN \E n \in Missing(w) \cup Moved(w), m \in Dropped(w) : w[n] = servers[m]

(* Applied until it is through, a file the program accepts is what stands, *)
(* unless its servers need an address that a server it drops still holds.  *)
Unimpeded == topology \in Applicable /\ ~Blocked
Settled == apply = "done" /\ servers = Wanted(topology)
ApplyConvergesUnblocked == <>[]Unimpeded => <>Settled

(* "Provision or converge the Talos cluster (idempotent)": any file the    *)
(* program accepts is what stands after enough applies.                    *)
ApplyConverges == <>[](topology \in Applicable) => <>Settled
=============================================================================
