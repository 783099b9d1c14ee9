----------------------------- MODULE EtcdBackup -----------------------------
(***************************************************************************)
(* `cluster:etcd:snapshot`, `etcd:upload` and `etcd:download`: snapshots    *)
(* taken into .backups/ on the machines of several operators, stored in one *)
(* restic repository beside the Talos secrets bundle, kept to the last N of *)
(* each, and read back.  Any upload may stop between two commands; machines *)
(* are lost; the cluster may be rebuilt under new secrets and keep its name.*)
(*                                                                          *)
(* An era is one secrets bundle.  A snapshot belongs to the era it was      *)
(* taken in, and the verdict of `tools/etcd verify`, which reads the        *)
(* cluster's name and the file's structure, does not see it.                *)
(***************************************************************************)
EXTENDS Naturals, Sequences, FiniteSets, SequencesExt

CONSTANTS
    Machines,     \* operators' machines, each with a .backups/ of its own
    Keep,         \* _CL_BACKUP_KEEP
    MaxTaken,     \* bound: snapshots taken
    MaxUploads,   \* bound: uploads started
    MaxDownloads, \* bound: downloads
    MaxStops,     \* bound: uploads that stop half-way
    MaxEras,      \* bound: secrets bundles the cluster ever had
    MaxLosses     \* bound: machines lost

ASSUME BackupAssumption ==
    /\ Keep \in Nat \ {0} /\ MaxEras \in Nat \ {0}
    /\ {MaxTaken, MaxUploads, MaxDownloads, MaxStops, MaxLosses} \subseteq Nat

NoSnapshot == [stamp |-> 0, era |-> 0, whole |-> FALSE]
NoBundle == 0     \* what restic stores when tools/secrets wrote nothing

VARIABLES
    era,                    \* the secrets bundle the cluster runs under
    taken,                  \* snapshots ever taken; each has a second, a name of its own
    local,                  \* per machine: the snapshots in its .backups/
    pc, picked, mine,       \* per machine: its upload, the file, the id stored
    points,                 \* the repository's etcd series: [id, stamp, era]
    bundles,                \* its secrets series: [id, era]
    ids, uploads, downloads, stops, losses,
    stored                  \* some upload has finished

repository == <<points, bundles, ids>>
counters == <<uploads, downloads, stops, losses>>
vars == <<era, taken, local, pc, picked, mine, repository, counters, stored>>

Steps == {"verify", "etcd", "secrets", "forgetSecrets", "forgetEtcd", "check"}
File == [stamp : 1..MaxTaken, era : 1..MaxEras, whole : BOOLEAN]
Point == [id : Nat, stamp : 1..MaxTaken, era : 1..MaxEras]
Bundle == [id : Nat, era : 0..MaxEras]

TypeOK ==
    /\ era \in 1..MaxEras /\ taken \in 0..MaxTaken
    /\ local \in [Machines -> SUBSET File]
    /\ pc \in [Machines -> Steps \union {"idle", "done", "failed"}]
    /\ picked \in [Machines -> File \union {NoSnapshot}]
    /\ \A m \in Machines : pc[m] \in Steps => picked[m] # NoSnapshot
    /\ points \in Seq(Point) /\ bundles \in Seq(Bundle)
    /\ ids \in Nat /\ mine \in [Machines -> Nat] /\ uploads \in 0..MaxUploads
    /\ downloads \in 0..MaxDownloads /\ stops \in 0..MaxStops /\ losses \in 0..MaxLosses
    /\ stored \in BOOLEAN

Init ==
    /\ era = 1 /\ taken = 0
    /\ local = [m \in Machines |-> {}]
    /\ pc = [m \in Machines |-> "idle"]
    /\ picked = [m \in Machines |-> NoSnapshot] /\ mine = [m \in Machines |-> 0]
    /\ points = <<>> /\ bundles = <<>> /\ ids = 0
    /\ uploads = 0 /\ downloads = 0 /\ stops = 0 /\ losses = 0
    /\ stored = FALSE

Goto(m, l) == pc' = [pc EXCEPT ![m] = l]
Idle(m) == pc[m] \in {"idle", "done", "failed"}

----------------------------------------------------------------------------
\* `etcd:snapshot`.  A file that does not read back fails the task and stays.
Take(m) ==
    /\ taken < MaxTaken /\ taken' = taken + 1
    /\ \E whole \in BOOLEAN :
         local' = [local EXCEPT ![m] = @ \union {[stamp |-> taken + 1, era |-> era, whole |-> whole]}]
    /\ UNCHANGED <<era, pc, picked, mine, repository, counters, stored>>

\* Mutant: neither the "no snapshot to upload" refusal nor the verification.
PickUnchecked(m) ==
    /\ Idle(m) /\ uploads < MaxUploads /\ uploads' = uploads + 1
    /\ picked' = [picked EXCEPT ![m] = NoSnapshot] /\ Goto(m, "etcd")
    /\ UNCHANGED <<era, taken, local, mine, repository, downloads, stops, losses, stored>>

\* The file an upload is for: the default, or one the operator names.
Pick(m) ==
    /\ Idle(m) /\ uploads < MaxUploads /\ uploads' = uploads + 1
    /\ \E f \in local[m] : picked' = [picked EXCEPT ![m] = f]
    /\ Goto(m, "verify")
    /\ UNCHANGED <<era, taken, local, mine, repository, downloads, stops, losses, stored>>

\* Before anything reaches the box.
VerifyPicked(m) ==
    /\ pc[m] = "verify"
    /\ Goto(m, IF picked[m].whole THEN "etcd" ELSE "failed")
    /\ UNCHANGED <<era, taken, local, picked, mine, repository, counters, stored>>

\* `restic init` when there is no repository, then `restic backup --tag etcd`.
BackupEtcd(m) ==
    /\ pc[m] = "etcd"
    /\ ids' = ids + 1 /\ mine' = [mine EXCEPT ![m] = ids + 1]
    /\ points' = Append(points, [id |-> ids + 1, stamp |-> picked[m].stamp, era |-> picked[m].era])
    /\ Goto(m, "secrets")
    /\ UNCHANGED <<era, taken, local, picked, bundles, counters, stored>>

\* Mutant: no pipefail, so a bundle that was never written does not stop it.
BackupSecretsNoPipefail(m) ==
    /\ pc[m] = "secrets" /\ ids' = ids + 1 /\ Goto(m, "forgetSecrets")
    /\ \/ bundles' = Append(bundles, [id |-> ids + 1, era |-> era]) /\ UNCHANGED stops
       \/ /\ stops < MaxStops /\ stops' = stops + 1
          /\ bundles' = Append(bundles, [id |-> ids + 1, era |-> NoBundle])
    /\ UNCHANGED <<era, taken, local, picked, mine, points, uploads, downloads, losses, stored>>

\* `tools/secrets | restic backup --stdin`: restic stores what came through the
\* pipe, and only then does pipefail end the script.
BackupSecrets(m) ==
    /\ pc[m] = "secrets" /\ ids' = ids + 1
    /\ \/ /\ bundles' = Append(bundles, [id |-> ids + 1, era |-> era])
          /\ Goto(m, "forgetSecrets") /\ UNCHANGED stops
       \/ /\ stops < MaxStops /\ stops' = stops + 1
          /\ bundles' = Append(bundles, [id |-> ids + 1, era |-> NoBundle])
          /\ Goto(m, "failed")
    /\ UNCHANGED <<era, taken, local, picked, mine, points, uploads, downloads, losses, stored>>

\* `forget --keep-last`, one series at a time: grouped by host and tag.
LastKept(series) == SubSeq(series, IF Len(series) > Keep THEN Len(series) - Keep + 1 ELSE 1, Len(series))

\* Mutant: --group-by host without the tag: both kinds in one series.
ForgetSecretsUngrouped(m) ==
    LET All == {points[i].id : i \in DOMAIN points} \union {bundles[j].id : j \in DOMAIN bundles}
        Kept(r) == Cardinality({id \in All : id > r.id}) < Keep
    IN /\ pc[m] = "forgetSecrets" /\ Goto(m, "forgetEtcd")
       /\ bundles' = SelectSeq(bundles, Kept) /\ points' = SelectSeq(points, Kept)
       /\ UNCHANGED <<era, taken, local, picked, mine, ids, counters, stored>>

ForgetSecrets(m) ==
    /\ pc[m] = "forgetSecrets" /\ Goto(m, "forgetEtcd")
    /\ bundles' = LastKept(bundles)
    /\ UNCHANGED <<era, taken, local, picked, mine, points, ids, counters, stored>>

ForgetEtcd(m) ==
    /\ pc[m] = "forgetEtcd" /\ Goto(m, "check")
    /\ points' = LastKept(points)
    /\ UNCHANGED <<era, taken, local, picked, mine, bundles, ids, counters, stored>>

Finish(m) ==
    /\ pc[m] = "check" /\ Goto(m, "done") /\ stored' = TRUE
    /\ UNCHANGED <<era, taken, local, picked, mine, repository, counters>>

\* A command fails, or the machine dies: set -e, and nothing is undone.
Stop(m) ==
    /\ pc[m] \in Steps /\ stops < MaxStops /\ stops' = stops + 1
    /\ Goto(m, "failed")
    /\ UNCHANGED <<era, taken, local, picked, mine, repository, uploads, downloads, losses, stored>>

\* `etcd:download`, of the newest or of an id.  Another file of that name would
\* end the task; names carry the second, so here there is none.
Download(m) ==
    /\ downloads < MaxDownloads /\ downloads' = downloads + 1
    /\ \E i \in DOMAIN points :
         local' = [local EXCEPT ![m] = @ \union
                     {[stamp |-> points[i].stamp, era |-> points[i].era, whole |-> TRUE]}]
    /\ UNCHANGED <<era, taken, pc, picked, mine, repository, uploads, stops, losses, stored>>

LoseMachine(m) ==
    /\ losses < MaxLosses /\ losses' = losses + 1
    /\ local' = [local EXCEPT ![m] = {}]
    /\ Goto(m, "idle")
    /\ UNCHANGED <<era, taken, picked, mine, repository, uploads, downloads, stops, stored>>

\* `cluster:secrets:destroy` and `cluster:apply`: another bundle, the same name.
Rebuild ==
    /\ era < MaxEras /\ era' = era + 1
    /\ UNCHANGED <<taken, local, pc, picked, mine, repository, counters, stored>>

Upload(m) ==
    \/ VerifyPicked(m) \/ BackupEtcd(m) \/ BackupSecrets(m)
    \/ ForgetSecrets(m) \/ ForgetEtcd(m) \/ Finish(m)

Next ==
    \/ Rebuild
    \/ \E m \in Machines :
         Take(m) \/ Pick(m) \/ Upload(m) \/ Stop(m) \/ Download(m) \/ LoseMachine(m)

Spec == Init /\ [][Next]_vars

----------------------------------------------------------------------------
Newer(series, id) == Cardinality({i \in DOMAIN series : series[i].id > id})
Opens(b, p) == b.era = p.era
Restorable == \E i \in DOMAIN points, j \in DOMAIN bundles : Opens(bundles[j], points[i])

\* An upload of a snapshot of the running cluster that says "uploaded" has
\* stored a backup: its snapshot is in the repository, unless retention made
\* room for Keep newer ones, and a bundle that opens it.  (While fewer than Keep
\* uploads stop: Keep bundles that were never written, stored behind this
\* upload's back, would be the Keep its forget keeps.)
StoredAsAPair(m) ==
    /\ (\E i \in DOMAIN points : points[i].id = mine[m]) \/ Newer(points, mine[m]) >= Keep
    /\ stops < Keep => \E j \in DOMAIN bundles : bundles[j].era = picked[m].era

\* Once one upload has finished, the repository can restore the cluster for as
\* long as it keeps its secrets, and fewer than Keep uploads stop: no later
\* upload, finished or stopped, takes the last pair out of it.
StaysRestorable == stored /\ era = 1 /\ stops < Keep => Restorable

\* The bundle `secrets:download` hands out, "default the newest", is a bundle
\* and not what a failed pipe left.
NewestBundleIsWhole ==
    (\A m \in Machines : Idle(m)) /\ bundles # <<>> => Last(bundles).era # NoBundle

==================================================
