----------------------------- MODULE BackupTier -----------------------------
(***************************************************************************)
(* The backup tier under the uploads of EtcdBackup: `backup:token`,         *)
(* `backup:apply` and `backup:destroy` over the resources infra/backup      *)
(* declares, the Storage Box as Hetzner has it, the restic repository on it *)
(* and the key it was initialised with, and `cluster:recovery-kit`, which   *)
(* copies that key out of Pulumi's state.                                   *)
(*                                                                          *)
(* Any apply or destroy may stop between two resources; the program's       *)
(* password alphabet is newer than the generator an older program left; the *)
(* token may be of the wrong Hetzner project; the cluster's own token may   *)
(* fall into hands that delete what it reaches.                             *)
(***************************************************************************)
EXTENDS EtcdBackup

CONSTANT Worlds   \* bounds of a behaviour, and the tier it starts from

ASSUME WorldAssumption == \A w \in Worlds :
    /\ w.tier \in {"none", "applied", "legacy"}
    /\ {w.taken, w.uploads, w.downloads, w.losses, w.eras, w.kits} \subseteq Nat
    /\ w.changes \in Nat \ {0}

VARIABLES
    world,     \* the bounds this behaviour keeps
    tier,      \* configuration, Pulumi's state and its outputs
    standing,  \* the box at Hetzner: [id, account, project]
    repoKey,   \* the key its repository was initialised with, 0 for no repository
    held,      \* per machine: the outputs its upload has read
    kit, kits, \* the recovery kit being taken, and those in a password store
    changes,   \* what has been done to the tier; an apply numbers what it makes with it
    past       \* "blind", "torn": what no refusal covers, see Readable

tierVars == <<world, tier, standing, repoKey, held, kit, kits, changes, past>>
allVars == <<vars, tierVars>>

None == 0
NoOutputs == [box |-> None, account |-> None, key |-> None]
NoBox == [id |-> None, account |-> None, project |-> "none"]
NoKit == [began |-> None, stored |-> FALSE, taking |-> FALSE]

Projects == {"none", "own", "cluster"}
Types == {"bx11", "bx21"}
Outputs == [box : Nat, account : Nat, key : Nat]
Tier == [token : Projects, servers : BOOLEAN, wanted : Types, phase : {"idle", "apply", "destroy"},
         generator : Nat, inputs : {"before", "now"}, stash : Nat,
         box : Nat, type : Types, account : Nat, outputs : Outputs]
Kit == [began : Nat, stored : BOOLEAN, box : Nat, key : Nat]

TierShape ==
    /\ tier \in Tier /\ held \in [Machines -> Outputs]
    /\ standing \in [id : Nat, account : Nat, project : Projects]
    /\ kit \in [began : Nat, stored : BOOLEAN, taking : BOOLEAN] /\ kits \subseteq Kit
    /\ repoKey \in Nat /\ changes \in Nat \ {0} /\ past \subseteq {"blind", "torn"}

TierTypeOK ==
    /\ TypeOK /\ TierShape
    /\ world \in Worlds /\ changes <= world.changes /\ Cardinality(kits) <= world.kits

\* A tier never applied; one applied by this program; one an earlier program
\* applied, whose generator has other inputs and no stash beside it.
TierAt(state) == [
    token |-> IF state = "none" THEN "none" ELSE "own", servers |-> TRUE, wanted |-> "bx11",
    phase |-> "idle",
    generator |-> IF state = "none" THEN None ELSE 1,
    inputs |-> IF state = "legacy" THEN "before" ELSE "now",
    stash |-> IF state = "applied" THEN 1 ELSE None,
    box |-> IF state = "none" THEN None ELSE 1, type |-> "bx11",
    account |-> IF state = "none" THEN None ELSE 1,
    outputs |-> IF state = "none" THEN NoOutputs ELSE [box |-> 1, account |-> 1, key |-> 1]]

TierInit ==
    /\ Init /\ world \in Worlds
    /\ tier = TierAt(world.tier)
    /\ standing = IF world.tier = "none" THEN NoBox ELSE [id |-> 1, account |-> 1, project |-> "own"]
    /\ repoKey = None /\ held = [m \in Machines |-> NoOutputs]
    /\ kit = NoKit /\ kits = {} /\ changes = 1 /\ past = {}

----------------------------------------------------------------------------
\* What the operator, and the rest of the world, do to the tier.

Count == changes' = changes + 1
Settled == tier.phase = "idle"

\* `backup:token`, of whichever project the operator issued it in.  (While a box
\* stands, a token of another project changes nothing of it: the provider no
\* longer finds what its state holds.)
SetToken(project) ==
    /\ Settled /\ tier.box = None /\ tier.token # project /\ Count
    /\ tier' = [tier EXCEPT !.token = project]
    /\ UNCHANGED <<vars, world, standing, repoKey, held, kit, kits, past>>

\* storageBoxType, or the cluster's location.
EditType ==
    /\ Settled /\ tier.wanted = "bx11" /\ Count
    /\ tier' = [tier EXCEPT !.wanted = "bx21"]
    /\ UNCHANGED <<vars, world, standing, repoKey, held, kit, kits, past>>

\* The cluster's servers are destroyed, or applied again.
ServersMove ==
    /\ Count /\ tier' = [tier EXCEPT !.servers = ~@]
    /\ UNCHANGED <<vars, world, standing, repoKey, held, kit, kits, past>>

\* Whoever holds the cluster's token clears the delete protection of a box in
\* its project and deletes it.
ClusterCompromised ==
    /\ standing.project = "cluster" /\ standing' = NoBox
    /\ points' = <<>> /\ bundles' = <<>> /\ repoKey' = None
    /\ UNCHANGED <<era, taken, local, pc, picked, mine, ids, counters, stored,
                   world, tier, held, kit, kits, changes, past>>

----------------------------------------------------------------------------
\* `backup:apply`.

\* The question put to Hetzner: are the cluster's servers visible to this token?
SeparateProject == ~(tier.token = "cluster" /\ tier.servers)

\* Protect: a change that would replace the box fails in the preview.
BoxStays == tier.box = None \/ tier.type = tier.wanted

\* Mutant: the token is required and the project it reaches is not looked at.
PreviewAnyProject == tier.token # "none" /\ BoxStays

\* What a preview refuses.
Preview == tier.token # "none" /\ SeparateProject /\ BoxStays

StartApply ==
    /\ Settled /\ Preview /\ Count
    /\ tier' = [tier EXCEPT !.phase = "apply"]
    /\ past' = past \union (IF tier.token = "cluster" /\ ~tier.servers THEN {"blind"} ELSE {})
    /\ UNCHANGED <<vars, world, standing, repoKey, held, kit, kits>>

\* Mutant: no IgnoreChanges, so the generator of an earlier program is replaced.
DrawKeyAgain ==
    /\ tier.phase = "apply" /\ (tier.generator = None \/ tier.inputs # "now")
    /\ tier' = [tier EXCEPT !.generator = changes, !.inputs = "now"]
    /\ UNCHANGED <<vars, world, standing, repoKey, held, kit, kits, changes, past>>

\* A generator that exists ignores its inputs.
DrawKey ==
    /\ tier.phase = "apply" /\ tier.generator = None
    /\ tier' = [tier EXCEPT !.generator = changes, !.inputs = "now"]
    /\ UNCHANGED <<vars, world, standing, repoKey, held, kit, kits, changes, past>>

\* The stash keeps what it was created with.
StashKey ==
    /\ tier.phase = "apply" /\ tier.generator # None /\ tier.stash = None
    /\ tier' = [tier EXCEPT !.stash = tier.generator]
    /\ UNCHANGED <<vars, world, standing, repoKey, held, kit, kits, changes, past>>

CreateBox ==
    /\ tier.phase = "apply" /\ tier.box = None
    /\ tier' = [tier EXCEPT !.box = changes, !.type = tier.wanted]
    /\ standing' = [id |-> changes, account |-> None, project |-> tier.token]
    /\ UNCHANGED <<vars, world, repoKey, held, kit, kits, changes, past>>

CreateAccount ==
    /\ tier.phase = "apply" /\ tier.account = None
    /\ tier.box # None /\ tier.box = standing.id
    /\ tier' = [tier EXCEPT !.account = changes]
    /\ standing' = [standing EXCEPT !.account = changes]
    /\ UNCHANGED <<vars, world, repoKey, held, kit, kits, changes, past>>

\* The outputs, last; the refusal of a shared project is one of them.
Publish ==
    /\ tier.phase = "apply" /\ SeparateProject
    /\ tier.stash # None /\ tier.account # None
    /\ tier' = [tier EXCEPT !.phase = "idle",
         !.outputs = [box |-> tier.box, account |-> tier.account, key |-> tier.stash]]
    /\ UNCHANGED <<vars, world, standing, repoKey, held, kit, kits, changes, past>>

----------------------------------------------------------------------------
\* `backup:destroy ignore_protect=yes`: from the state, without the program.
StartDestroy ==
    /\ Settled /\ {tier.generator, tier.stash, tier.box, tier.account} # {None} /\ Count
    /\ tier' = [tier EXCEPT !.phase = "destroy"]
    /\ UNCHANGED <<vars, world, standing, repoKey, held, kit, kits, past>>

DeleteAccount ==
    /\ tier.phase = "destroy" /\ tier.account # None
    /\ tier' = [tier EXCEPT !.account = None]
    /\ standing' = [standing EXCEPT !.account = None]
    /\ UNCHANGED <<vars, world, repoKey, held, kit, kits, changes, past>>

\* The provider clears the delete protection; the repository goes with the box.
DeleteBox ==
    /\ tier.phase = "destroy" /\ tier.account = None /\ tier.box # None
    /\ tier' = [tier EXCEPT !.box = None] /\ standing' = NoBox
    /\ points' = <<>> /\ bundles' = <<>> /\ repoKey' = None /\ stored' = FALSE
    /\ UNCHANGED <<era, taken, local, pc, picked, mine, ids, counters,
                   world, held, kit, kits, changes, past>>

\* The stash before the generator it was created from; neither waits for the box.
ForgetKey ==
    /\ tier.phase = "destroy"
    /\ \/ tier.stash # None /\ tier' = [tier EXCEPT !.stash = None]
       \/ /\ tier.stash = None /\ tier.generator # None
          /\ tier' = [tier EXCEPT !.generator = None]
    /\ UNCHANGED <<vars, world, standing, repoKey, held, kit, kits, changes, past>>

FinishDestroy ==
    /\ tier.phase = "destroy" /\ {tier.generator, tier.stash, tier.box, tier.account} = {None}
    /\ tier' = [tier EXCEPT !.phase = "idle", !.outputs = NoOutputs]
    /\ past' = past \ {"torn"}
    /\ UNCHANGED <<vars, world, standing, repoKey, held, kit, kits, changes>>

\* A resource fails, or pulumi is interrupted: the outputs stay as they were.
StopTier ==
    /\ tier.phase # "idle" /\ stops < MaxStops /\ stops' = stops + 1
    /\ tier' = [tier EXCEPT !.phase = "idle"]
    /\ past' = past \union (IF tier.phase = "destroy" /\ tier.stash = None /\ standing # NoBox
                            THEN {"torn"} ELSE {})
    /\ UNCHANGED <<era, taken, local, pc, picked, mine, repository, uploads, downloads, losses, stored,
                   world, standing, repoKey, held, kit, kits, changes>>

TierStep ==
    \/ \E project \in {"own", "cluster"} : SetToken(project)
    \/ EditType \/ ServersMove \/ ClusterCompromised
    \/ StartApply \/ DrawKey \/ StashKey \/ CreateBox \/ CreateAccount \/ Publish
    \/ StartDestroy \/ DeleteAccount \/ DeleteBox \/ ForgetKey \/ FinishDestroy \/ StopTier

----------------------------------------------------------------------------
\* The uploads and downloads, which reach the repository through the outputs.

Connects(o) == o.box # None /\ o.box = standing.id /\ o.account = standing.account
Opened(o) == Connects(o) /\ repoKey = o.key

\* _CL_BACKUP_REPO: all five outputs, or the command that makes them.
ReadOutputs(m) ==
    /\ pc[m] = "etcd" /\ held[m] = NoOutputs
    /\ held' = [held EXCEPT ![m] = tier.outputs]
    /\ Goto(m, IF tier.outputs = NoOutputs THEN "failed" ELSE "etcd")
    /\ UNCHANGED <<era, taken, local, picked, mine, repository, counters, stored,
                   world, tier, standing, repoKey, kit, kits, changes, past>>

\* `restic cat config` finds no repository.
InitRepository(m) ==
    /\ pc[m] = "etcd" /\ Connects(held[m]) /\ repoKey = None
    /\ repoKey' = held[m].key
    /\ UNCHANGED <<vars, world, tier, standing, held, kit, kits, changes, past>>

Restic(m) ==
    /\ Opened(held[m])
    /\ BackupEtcd(m) \/ BackupSecrets(m) \/ ForgetSecrets(m) \/ ForgetEtcd(m) \/ Finish(m)
    /\ UNCHANGED tierVars

\* The box is gone, or its repository is under another key: `restic init`
\* refuses one that is there, and every other command fails to open it.
Refused(m) ==
    /\ pc[m] \in Steps \ {"verify"} /\ held[m] # NoOutputs
    /\ ~Opened(held[m]) /\ ~(pc[m] = "etcd" /\ Connects(held[m]) /\ repoKey = None)
    /\ Goto(m, "failed")
    /\ UNCHANGED <<era, taken, local, picked, mine, repository, counters, stored, tierVars>>

Uploads(m) ==
    \/ /\ Pick(m) /\ held' = [held EXCEPT ![m] = NoOutputs]
       /\ UNCHANGED <<world, tier, standing, repoKey, kit, kits, changes, past>>
    \/ VerifyPicked(m) /\ UNCHANGED tierVars
    \/ ReadOutputs(m) \/ InitRepository(m) \/ Restic(m) \/ Refused(m)

Downloads(m) == Opened(tier.outputs) /\ Download(m) /\ UNCHANGED tierVars

Elsewhere ==
    /\ Rebuild \/ \E m \in Machines : Take(m) \/ Stop(m) \/ LoseMachine(m)
    /\ UNCHANGED tierVars

----------------------------------------------------------------------------
\* `cluster:recovery-kit`: the bundle first, which the cluster tier always has
\* here, and then the backup tier's outputs.
StartKit ==
    /\ ~kit.taking
    /\ kit' = [began |-> standing.id, stored |-> stored, taking |-> TRUE]
    /\ UNCHANGED <<vars, world, tier, standing, repoKey, held, kits, changes, past>>

PutAway(outputs) == kits' = kits \union
    {[began |-> kit.began, stored |-> kit.stored, box |-> outputs.box, key |-> outputs.key]}

\* A stack that answers: its outputs, or MISSING when it has none.
KitOutputs ==
    /\ kit.taking /\ PutAway(tier.outputs) /\ kit' = NoKit
    /\ UNCHANGED <<vars, world, tier, standing, repoKey, held, changes, past>>

\* Mutant: whatever could not be read is noted as missing.
KitUnreadableIsMissing ==
    /\ kit.taking /\ kit' = NoKit /\ PutAway(NoOutputs)
    /\ UNCHANGED <<vars, world, tier, standing, repoKey, held, changes, past>>

\* One that does not: MISSING when Pulumi lists no such stack, else an error
\* and no kit.  `backup:token` creates the stack.
KitUnreadable ==
    /\ kit.taking /\ kit' = NoKit
    /\ IF tier.token = "none" THEN PutAway(NoOutputs) ELSE UNCHANGED kits
    /\ UNCHANGED <<vars, world, tier, standing, repoKey, held, changes, past>>

TakeKit == StartKit \/ KitOutputs \/ KitUnreadable

----------------------------------------------------------------------------
InWorld ==
    /\ taken <= world.taken /\ uploads <= world.uploads /\ downloads <= world.downloads
    /\ losses <= world.losses /\ era <= world.eras /\ changes <= world.changes
    /\ Cardinality(kits) + (IF kit.taking THEN 1 ELSE 0) <= world.kits

TierNext ==
    /\ TierStep \/ TakeKit \/ Elsewhere \/ \E m \in Machines : Uploads(m) \/ Downloads(m)
    /\ InWorld'

TierSpec == TierInit /\ [][TierNext]_allVars

----------------------------------------------------------------------------
\* Two sequences no refusal covers.  "blind": an apply with the cluster's token
\* while the cluster has no servers to see.  "torn": a destroy that forgot the
\* key and stopped before the box, after which an apply draws another one.
Unrefused == past # {}

\* Once an upload has finished, and until a destroy of the tier takes the box,
\* the tier's outputs name the box that stands and the key of the repository on
\* it, and the repository restores the cluster: through applies of a newer
\* program, finished or not, or of another box type.
StaysReadable ==
    stored /\ ~Unrefused =>
        /\ tier.outputs.box = standing.id /\ tier.outputs.key = repoKey
        /\ StaysRestorable

\* An upload that ends has stored its snapshot with a bundle for it, where its
\* last command still finds the repository: a box destroyed under it ends it
\* with an error.
UploadedMeansBackup ==
    \A m \in Machines :
        pc[m] = "check" /\ Opened(held[m]) /\ picked[m].era = era => StoredAsAPair(m)

\* "With it, the snapshots are readable": a recovery kit that names the box that
\* stands has the key of the repository on it, and a kit begun after an upload
\* had finished names that box for as long as it stands.
KitsOpen ==
    repoKey # None /\ ~Unrefused => \A k \in kits :
        /\ k.box = standing.id => k.key = repoKey
        /\ k.stored /\ k.began = standing.id => k.box = standing.id
=============================================================================
