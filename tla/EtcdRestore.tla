---------------------------- MODULE EtcdRestore ----------------------------
(***************************************************************************)
(* `task cluster:etcd:restore`: wipe every control-plane node together,     *)
(* pass after pass, until each of them reports its etcd Preparing, then     *)
(* bootstrap one of them from the snapshot.  The script talks to machines   *)
(* that reboot, rejoin each other and fall over while it is reading them,   *)
(* so every read, every wait and every remote call is a step of its own.    *)
(*                                                                          *)
(* What a Talos node does (Boot, Join, Wipe, Crash) is external to the      *)
(* repository and is modelled from what the script relies on; where the     *)
(* script's comments leave the order open, the model allows every order.    *)
(***************************************************************************)
EXTENDS Naturals, FiniteSets, EtcdSnapshot

CONSTANTS
    Nodes,         \* the control-plane nodes tools/nodes lists
    First,         \* the first of them in the order of that list
    Snapshots,     \* the snapshot files the operator may name
    MaxSurprises,  \* bound: steps of the world that land behind a read
    MaxRuns,       \* bound: times the operator starts the task
    LateWipes      \* may a reset still be ahead of a node whose `talosctl
                   \* reset` has already returned an error?

ASSUME RestoreAssumption ==
    /\ IsFiniteSet(Nodes) /\ First \in Nodes
    /\ Snapshots \subseteq Snapshot
    /\ MaxSurprises \in Nat /\ MaxRuns \in Nat \ {0}
    /\ LateWipes \in BOOLEAN

VARIABLES
    \* the script
    pc,            \* where the task is
    snapshot,      \* the file it was given
    seen,          \* read as Preparing in this pass
    pending,       \* read as anything else in this pass
    asked,         \* pending nodes whose `version` has been asked
    unreachable,   \* those of them that did not answer
    job,           \* the background `talosctl reset` of each node
    expired,       \* the clock has passed `deadline`
    runs,          \* times the task was started
    \* the machines
    svc,           \* "Down", or the STATE of the etcd service
    data,          \* which history EPHEMERAL holds: 0 for none
    dead,          \* machines that never come back
    epoch,         \* the newest history: a bootstrap starts another
    surprises      \* spent of MaxSurprises

script == <<pc, snapshot, seen, pending, asked, unreachable, expired, runs>>
pass   == <<seen, pending, asked, unreachable>>
nodes  == <<svc, data, dead, epoch>>
vars   == <<script, job, nodes, surprises>>

Ended == {"restored", "rejected", "unread", "timedOut", "bootstrapFailed", "aborted"}

TypeOK ==
    /\ pc \in {"verify", "scan", "decide", "reach", "wait", "bootstrap"} \union Ended
    /\ snapshot \in Snapshots
    /\ seen \subseteq Nodes /\ pending \subseteq Nodes
    /\ asked \subseteq Nodes /\ unreachable \subseteq Nodes
    /\ job \in [Nodes -> {"none", "sent", "wiped", "late"}]
    /\ expired \in BOOLEAN /\ runs \in 1..MaxRuns
    /\ svc \in [Nodes -> {"Down", "Preparing", "Running"}]
    /\ data \in [Nodes -> Nat] /\ epoch \in Nat
    /\ dead \subseteq Nodes
    /\ surprises \in 0..MaxSurprises

\* A member somebody can join: it runs, and it has a history.
Alive(n) == svc[n] = "Running" /\ data[n] # 0

\* The incident the task is run for: each node may be up or down, may still
\* hold the cluster's history or have lost it, and may be gone for good.
Init ==
    /\ pc = "verify" /\ snapshot \in Snapshots
    /\ seen = {} /\ pending = {} /\ asked = {} /\ unreachable = {}
    /\ job = [n \in Nodes |-> "none"]
    /\ expired = FALSE /\ runs = 1
    /\ data \in [Nodes -> {0, 1}] /\ epoch = 1
    /\ dead \in SUBSET Nodes
    /\ svc \in [Nodes -> {"Down", "Preparing", "Running"}]
    /\ \A n \in Nodes : /\ n \in dead => svc[n] = "Down"
                        /\ svc[n] = "Preparing" => data[n] = 0
                        /\ svc[n] = "Running" => data[n] # 0
    /\ surprises = 0

Surprise == surprises < MaxSurprises /\ surprises' = surprises + 1

----------------------------------------------------------------------------
(* The script.                                                              *)

FreshPass == seen' = {} /\ pending' = {} /\ asked' = {} /\ unreachable' = {}

\* Mutant: the verdict of `verify` is printed and not acted on.
CheckSnapshotIgnored ==
    /\ pc = "verify" /\ pc' = "scan"
    /\ UNCHANGED <<snapshot, pass, expired, runs, job, nodes, surprises>>

\* Before anything is wiped.
CheckSnapshot ==
    /\ pc = "verify"
    /\ pc' = IF Verify(snapshot) THEN "scan" ELSE "rejected"
    /\ UNCHANGED <<snapshot, pass, expired, runs, job, nodes, surprises>>

\* Mutant: a node that does not answer is passed over, as one that is Preparing.
ReadStatePassesOver(n) ==
    /\ pc = "scan" /\ n \notin seen \union pending
    /\ IF svc[n] = "Running" THEN pending' = pending \union {n} /\ UNCHANGED seen
                             ELSE seen' = seen \union {n} /\ UNCHANGED pending
    /\ pc' = IF seen' \union pending' = Nodes THEN "decide" ELSE "scan"
    /\ UNCHANGED <<snapshot, asked, unreachable, expired, runs, job, nodes, surprises>>

\* `talosctl service etcd` of one node, piped into awk under `set -o pipefail`:
\* an answer that does not arrive, of a node that is down or by a surprise,
\* ends the task there.
ReadState(n) ==
    /\ pc = "scan" /\ n \notin seen \union pending
    /\ \/ /\ svc[n] = "Preparing" /\ seen' = seen \union {n} /\ UNCHANGED pending
          /\ pc' = IF seen' \union pending = Nodes THEN "decide" ELSE "scan"
          /\ UNCHANGED <<asked, unreachable, surprises>>
       \/ /\ svc[n] = "Running" /\ pending' = pending \union {n} /\ UNCHANGED seen
          /\ pc' = IF seen \union pending' = Nodes THEN "decide" ELSE "scan"
          /\ UNCHANGED <<asked, unreachable, surprises>>
       \/ /\ FreshPass /\ pc' = "unread"
          /\ IF svc[n] = "Down" THEN UNCHANGED surprises ELSE Surprise
    /\ UNCHANGED <<snapshot, expired, runs, job, nodes>>

\* Mutant: a task that ran out of time is in a state of its own.
DecideElsewhere ==
    /\ pc = "decide"
    /\ pc' = IF pending = {} THEN "bootstrap" ELSE IF expired THEN "expired" ELSE "reach"
    /\ UNCHANGED <<snapshot, pass, expired, runs, job, nodes, surprises>>

\* No node pending leaves the loop before the deadline is looked at.
Decide ==
    /\ pc = "decide"
    /\ pc' = IF pending = {} THEN "bootstrap"
             ELSE IF expired THEN "timedOut" ELSE "reach"
    /\ UNCHANGED <<snapshot, pass, expired, runs, job, nodes, surprises>>

\* `talosctl version` of one pending node.
AskVersion(n) ==
    /\ pc = "reach" /\ n \in pending \ asked
    /\ asked' = asked \union {n}
    /\ unreachable' = IF svc[n] = "Down" THEN unreachable \union {n} ELSE unreachable
    /\ UNCHANGED <<pc, snapshot, seen, pending, expired, runs, job, nodes, surprises>>

\* Mutant: the first loop this task had, one node reset at a time.
ToWipeOneByOne == IF pending = {} THEN {} ELSE {CHOOSE n \in pending : TRUE}

\* The nodes the pass resets once all of them answered.
ToWipe == pending

\* Together, as background jobs the script then waits for.
StartWipes ==
    /\ pc = "reach" /\ asked = pending /\ unreachable = {}
    /\ job' = [n \in Nodes |-> IF n \in ToWipe THEN "sent" ELSE job[n]]
    /\ pc' = "wait"
    /\ UNCHANGED <<snapshot, pass, expired, runs, nodes, surprises>>

\* Somebody went down since it was read: sleep, and read every node again.
SkipWipes ==
    /\ pc = "reach" /\ asked = pending /\ unreachable # {}
    /\ FreshPass /\ pc' = "scan"
    /\ UNCHANGED <<snapshot, expired, runs, job, nodes, surprises>>

\* Mutants: the jobs are started and not waited for; a node read as Preparing
\* once is not read again.
WaitReturnsAtOnce ==
    /\ pc = "wait"
    /\ FreshPass /\ pc' = "scan"
    /\ UNCHANGED <<snapshot, expired, runs, job, nodes, surprises>>

WaitReturnsRemembering ==
    /\ pc = "wait" /\ \A n \in Nodes : job[n] \in {"none", "late"}
    /\ pending' = {} /\ asked' = {} /\ unreachable' = {} /\ pc' = "scan"
    /\ UNCHANGED <<snapshot, seen, expired, runs, job, nodes, surprises>>

\* `wait || true`: every job returned, with whatever result.
WaitReturns ==
    /\ pc = "wait" /\ \A n \in Nodes : job[n] \in {"none", "late"}
    /\ FreshPass /\ pc' = "scan"
    /\ UNCHANGED <<snapshot, expired, runs, job, nodes, surprises>>

\* `talosctl bootstrap --recover-from` on the first node.  Talos refuses it
\* unless that node's etcd waits for one; an answer may be lost.
Bootstrap ==
    /\ pc = "bootstrap"
    /\ FreshPass
    /\ \/ /\ svc[First] = "Preparing"
          /\ epoch' = epoch + 1
          /\ data' = [data EXCEPT ![First] = epoch + 1]
          /\ svc' = [svc EXCEPT ![First] = "Running"]
          /\ \/ pc' = "restored" /\ UNCHANGED surprises
             \/ pc' = "bootstrapFailed" /\ Surprise
       \/ /\ svc[First] # "Preparing"
          /\ pc' = "bootstrapFailed" /\ UNCHANGED <<svc, data, epoch, surprises>>
    /\ UNCHANGED <<snapshot, expired, runs, job, dead>>

\* The operator's machine stops the task, wherever it is.  Resets already
\* accepted are not taken back.
Abort ==
    /\ pc \notin Ended /\ runs < MaxRuns
    /\ LateWipes \/ \A n \in Nodes : job[n] # "sent"
    /\ FreshPass /\ pc' = "aborted"
    /\ job' = [n \in Nodes |-> IF job[n] = "sent" THEN "late"
                               ELSE IF job[n] = "wiped" THEN "none" ELSE job[n]]
    /\ UNCHANGED <<snapshot, expired, runs, nodes, surprises>>

\* The operator starts the task again, perhaps with another file.
Rerun ==
    /\ pc \in Ended /\ runs < MaxRuns
    /\ runs' = runs + 1 /\ pc' = "verify" /\ snapshot' \in Snapshots
    /\ expired' = FALSE /\ FreshPass
    /\ UNCHANGED <<job, nodes, surprises>>

\* Seconds pass.
DeadlinePasses ==
    /\ pc \notin Ended \union {"verify"} /\ ~expired
    /\ expired' = TRUE
    /\ UNCHANGED <<pc, snapshot, pass, runs, job, nodes, surprises>>

----------------------------------------------------------------------------
(* The machines.                                                            *)

\* The reset lands: etcd stops, EPHEMERAL is wiped, the node reboots.
Wipe(n) ==
    /\ job[n] \in {"sent", "late"} /\ svc[n] # "Down"
    /\ job' = [job EXCEPT ![n] = IF job[n] = "sent" THEN "wiped" ELSE "none"]
    /\ data' = [data EXCEPT ![n] = 0]
    /\ svc' = [svc EXCEPT ![n] = "Down"]
    /\ UNCHANGED <<script, dead, epoch, surprises>>

\* `reset --wait` returns once the node is back, or early with an error: on a
\* node that never got the call, after the wipe, or -- when LateWipes -- while
\* the wipe is still to come.
JobReturns(n) ==
    /\ \/ job[n] = "wiped" /\ svc[n] # "Down" /\ UNCHANGED surprises
          /\ job' = [job EXCEPT ![n] = "none"]
       \/ job[n] = "sent" /\ svc[n] = "Down" /\ UNCHANGED surprises
          /\ job' = [job EXCEPT ![n] = "none"]
       \/ job[n] \in {"sent", "wiped"} /\ Surprise
          /\ job' = [job EXCEPT ![n] = "none"]
       \/ job[n] = "sent" /\ LateWipes /\ Surprise
          /\ job' = [job EXCEPT ![n] = "late"]
    /\ UNCHANGED <<script, nodes>>

\* A node comes up.  Coming up before another node's reset has landed is a
\* surprise: a reset stops etcd in seconds and a reboot takes minutes.
Boot(n) ==
    /\ svc[n] = "Down" /\ n \notin dead
    /\ svc' = [svc EXCEPT ![n] = IF data[n] = 0 THEN "Preparing" ELSE "Running"]
    /\ IF \E m \in Nodes : job[m] = "sent" THEN Surprise ELSE UNCHANGED surprises
    /\ UNCHANGED <<script, job, data, dead, epoch>>

\* A node with no data finds a member that has some, joins it and syncs.
\* Doing so after the script read it as Preparing is a surprise.
Join(n) ==
    /\ svc[n] = "Preparing"
    /\ \E m \in Nodes : Alive(m) /\ data' = [data EXCEPT ![n] = data[m]]
    /\ svc' = [svc EXCEPT ![n] = "Running"]
    /\ IF n \in seen THEN Surprise ELSE UNCHANGED surprises
    /\ UNCHANGED <<script, job, dead, epoch>>

\* A node goes down by itself; an accepted reset dies with the power.
Crash(n) ==
    /\ svc[n] # "Down" /\ Surprise
    /\ svc' = [svc EXCEPT ![n] = "Down"]
    /\ job' = [job EXCEPT ![n] = IF job[n] = "late" THEN "none" ELSE job[n]]
    /\ UNCHANGED <<script, data, dead, epoch>>

----------------------------------------------------------------------------
Script ==
    \/ CheckSnapshot \/ Decide \/ StartWipes \/ SkipWipes \/ WaitReturns
    \/ Bootstrap
    \/ \E n \in Nodes : ReadState(n) \/ AskVersion(n)

Operator == Abort \/ Rerun \/ DeadlinePasses

Machines == \E n \in Nodes : Wipe(n) \/ JobReturns(n) \/ Boot(n) \/ Join(n) \/ Crash(n)

Next == Script \/ Operator \/ Machines

Spec == Init /\ [][Next]_vars

\* The script runs until it ends, a machine that can boot, join or act on a
\* reset eventually does, and a job whose node is back eventually returns.
\* Nothing is assumed of crashes, of the operator or of the clock.
FairSpec ==
    /\ Spec /\ WF_vars(Script)
    /\ \A n \in Nodes : /\ WF_vars(Wipe(n)) /\ WF_vars(JobReturns(n))
                        /\ WF_vars(Boot(n)) /\ WF_vars(Join(n))

----------------------------------------------------------------------------
(* Properties.                                                              *)

\* The control plane never holds two histories: no member keeps data from
\* before the restore once another carries the snapshot.  What the wiping
\* passes, the rereads and the wait are there for.
OneHistory ==
    \A m, n \in Nodes : data[m] # 0 /\ data[n] # 0 => data[m] = data[n]

\* A node that never answers saves the others: while one machine is dead the
\* task takes no data from any node, because no pass gets past reading it.
DeadNodeStopsTheWipe ==
    [][dead # {} => \A n \in Nodes : data[n] # 0 => data'[n] # 0]_vars

\* Nothing is lost for a file that could not be restored anyway: a node loses
\* its data only under a snapshot that passed `tools/etcd verify`.
OnlyAVerifiedSnapshotWipes ==
    [][(\E n \in Nodes : data[n] # 0 /\ data'[n] = 0) => Verify(snapshot)]_vars

\* The loop is not endless when every machine comes back.  Unless the deadline
\* passes or the operator stops the run, passes of resets converge to a
\* bootstrap, or one of them reads a node that does not answer, which ends the
\* task.  And the wait for the resets keeps a pass from reading a node that
\* its own resets have rebooting: on machines that all answer when the run
\* starts, its resets being all that takes them down, it restores.
PassesConverge ==
    (/\ dead = {} /\ Verify(snapshot) /\ [](~expired /\ pc # "aborted"))
        => /\ <>(pc \in {"restored", "bootstrapFailed", "unread"})
           /\ (\A n \in Nodes : svc[n] # "Down") /\ [](surprises = 0)
                => <>(pc = "restored")

\* "Wipe [...], wait for each to come back with etcd in Preparing, then
\* bootstrap one": once a run has wiped a node, _CL_RECOVER_TIMEOUT is what
\* ends it short of a bootstrap, as long as every machine does come back.
WaitsForEachNode ==
    dead = {} => []((\E n \in Nodes : job[n] = "wiped") => [](pc = "unread" => expired))

\* Why OneHistory holds, as the invariant that carries it.
\* No reset is outstanding outside the wait for it.
ResetsSettle ==
    \A n \in Nodes : job[n] # "late" /\ (job[n] = "sent" => pc = "wait")

\* A node read as Preparing may have joined a member behind the read, but
\* that member, or the one it had its data from, is still to be read.
ReadsPointOn ==
    pc \in {"scan", "decide"} =>
        ((\E n \in seen : data[n] # 0) => \E m \in Nodes \ seen : data[m] # 0)

\* What the loop is left with.
Emptied == pc = "bootstrap" => \A n \in Nodes : data[n] = 0

HistoryInv ==
    /\ OneHistory /\ ResetsSettle /\ ReadsPointOn /\ Emptied
    /\ pc = "verify" => seen = {}
    /\ pc = "decide" => seen \union pending = Nodes
    /\ \A n \in Nodes : svc[n] = "Preparing" => data[n] = 0
    /\ pc \in {"scan", "decide", "reach", "wait", "bootstrap"} => Verify(snapshot)

\* Why DeadNodeStopsTheWipe holds: a dead node is never read, so no pass that
\* meets one gets any further.
DeadInv ==
    dead # {} =>
        /\ \A n \in dead : svc[n] = "Down"
        /\ \A n \in Nodes : job[n] = "none"
        /\ (seen \union pending) \intersect dead = {}
        /\ pc \in {"verify", "scan"} \union Ended

\* The whole loop, against what a restore promises: data is lost, copied from
\* a member that has it, and begun anew only on a control plane with none.
History == INSTANCE ControlPlaneHistory WITH Nodes <- Nodes, First <- First, data <- data, epoch <- epoch

ImplementsHistory == History!Spec
============================================================================
