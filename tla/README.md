# A TLA+ verification of hetzner-iac

hetzner-iac builds a Talos Kubernetes cluster on Hetzner Cloud: Go programs that
Pulumi runs, Go tools, and the tasks in `tasks/*.yaml` that an operator types.
Nothing in it is a long-running server. What makes it hard is that every task is
a script against machines and services that move while it runs: a command is
stopped half-way and typed again, two operators run one at the same time, a node
reboots between two reads, an API accepts a call and its effect comes later.
The modules here model those scripts together with the world they run in.

## The system

| Component | Where | State it keeps | Operations | What is hard, and what makes it correct |
|---|---|---|---|---|
| etcd restore | `tasks/cluster.task.yaml` 1279–1436, `tools/etcd`, `tools/nodes` | nodes' etcd data; the passes of a loop | verify, read states, ask, reset in parallel, wait, bootstrap | nodes rejoin each other and reboot between reads; the control plane must never hold two histories, and data must not be lost for a snapshot that cannot be restored |
| etcd backup | `cluster.task.yaml` 1239–1277, 1439–1670 | `.backups/` of each machine; two restic series | snapshot, upload, download, secrets:destroy | a snapshot opens only with its secrets bundle; uploads interleave and stop; retention trims two series separately |
| cluster smoke test | `internal/pkg/clustersmoke`, `tools/smoke` | a claim, a pod, a volume and a prober under fixed names | nine checks, two of which write | deletions are asynchronous, runs are killed and overlap, what is read moves between two calls; nothing billed may stay behind, and no fault may be passed over |
| addressing and validation | `internal/pkg/clusterspec` config, addressing, firewall, labels | none: a function of the variables file | ApplyDefaults, Validate, ControlPlaneIP, WorkerIP, BuildFirewallRules | distinct names and addresses, ranges that do not overlap, and a perimeter, for every file validation accepts |
| machine configuration | `internal/pkg/clusterspec/machineconfig.go` | none: a function of the file | the cluster, node and etcd patches | a patch that does not fit its machine shows only once the machine runs |
| cluster apply | `internal/pkg/hetzner`, `infra/cluster`, `cluster.task.yaml` 454–535 | Pulumi state; servers, network, load balancers, machine configurations | plan, apply | replacements are delete-first and parallel, removals come last, failures stop the rest; a protected server must never go, and applies must converge |
| rolling upgrade, reboot, stop | `cluster.task.yaml` 618–674, 1672–1756 | which nodes are up, cordoned, upgraded | upgrade:talos, upgrade:k8s, reboot, stop | one node at a time, stopped and started again |
| teardown | `cluster.task.yaml` 537–616, `Taskfile.yaml` | the secrets bundle, the stacks | destroy, secrets:destroy | the bundle outlives a destroy |
| orphans report | `tools/orphans` | what stacks hold, what the project holds | inventory, claims, report | two readings of things that move |
| platform | `tasks/platform.task.yaml`, `Taskfile.yaml`, `internal/pkg/layer`, `internal/pkg/clusterref`, `layers/` | five layer stacks, each with its records, its provider's kubeconfig and what is live | up, destroy, plan, apply, refresh | ordered walk over independent stacks, stopped anywhere, beside a cluster tier that goes and comes |
| backup tier | `infra/backup`, `tasks/backup.task.yaml` | Pulumi state, the key generator and its stash, box, subaccount, outputs | token, apply, destroy | the key never changes under a repository; a token of the wrong project; a destroy that stops half-way |
| state export, recovery kit | `cluster.task.yaml` 1121–1225, `tools/recoverykit` | local copies | export, recovery-kit | one project of several failing; a kit that is missing what it could not read |
| credentials | `cluster.task.yaml` 687–850, `internal/pkg/talossecrets`, `tools/token`, `tools/secrets` | files on one machine | kubeconfig, talosconfig, kubeconfig:add | partly written files |
| image bake | `tools/image` | snapshots in the project | check, upload | check-then-act |
| reports | `tools/stackstatus`, `internal/pkg/stackstatus`, `tools/stackdrift` | none | one reader per stack, joined | rows of different moments; a report that reassures must be right |
| development tools | `tools/charts`, `policy`, `internal/ci`, `tools/taskshell`, … | none | render, pin, lint | no concurrency |

Interactions: the variables file becomes a topology, the topology the graph of
resources and the machines' configurations, and the graph what a run of Pulumi
may do and in which order. The restore reads what the backup stored (a snapshot
and the bundle that opens it) and runs on the nodes the apply made. The platform
layers read the cluster's outputs through a stack reference, which a contract
version guards; the reports read every stack; the smoke test runs against the
storage classes layer 10 installs.

`PROJECT.json` lists every component with its status, the source lines each
definition stands for, and the hazards at the line where each bites, those no
property covers yet included.

## The modules

```
ClusterFile <- MachineConfig <- ClusterResources <- ClusterApply
NodeAddresses <- NodePlacement          LayerComponents <- PlatformWalk <- StackReports
EtcdSnapshot <- EtcdRestore -> ControlPlaneHistory      SmokeStorage <- SmokeRun
EtcdBackup <- BackupTier        RollingUpgrade        Orphans
```

`<-` is EXTENDS, `->` a refinement.

**ClusterFile** is `internal/pkg/clusterspec` over one variables file: the
defaults (`ApplyDefaults`), what is refused (`Validate` and its parts, with
`contains` and `Overlaps` on address bits), and the firewall built from it. A name
is its length and whether it has the dns1123 shape, a version its rank, a range
its family, first address and host bits. `SoundPerimeter` says what a file has to
say in terms of the addresses ranges *hold*, which is not how the code asks.
**MachineConfig** is what a machine is configured with, built from the same
file. Both are operators only.

**ClusterResources** is the Pulumi program as a graph: one operator per
constructor, a set of pairs *resource, what it waits for* (a `DependsOn`, a
parent, or an output among the inputs); which resources a file makes, what is
protected, and what `ReplaceWith` ties to a server. **ClusterApply** runs it.
`Planned` is what the preview makes of file and state; a step of `todo` may be
taken when nothing above it is left to do (`MayCreate`, `MayDelete`, `MayUpdate`)
and removals come last, dependents first; any step may fail, and the run ends
there with what it did. `stack` is Pulumi's state; `machine`, `config`, `disk`
and `peers` are the servers, what they are configured with, and their etcd;
`published` is the exported kubeconfig, and `inputs` what the state records each
machine was last configured with: that, and not what the machine has, is what a
preview compares with the file (`Updated`). `cluster:destroy` and
`cluster:secrets:destroy` are runs of removals over the same state. What Hetzner,
Talos and etcd do to a call (`ServerRefused`, `Bootstrap`, `Join`) is external.

**NodeAddresses** is the address layout and the part of validation that bears on
names, counts and slots. An address is an offset into the node subnet.
**NodePlacement** is `cluster:apply` on the servers alone, in the detail
ClusterApply leaves out: a create is refused while another server holds its
address, what the file dropped is deleted last and only if nothing failed, the
file may be rewritten at any moment, and the apply is run again until it is
through.

**LayerComponents** is the programs under `layers/`: five tables of components
with what each follows, the order `Deploy` puts them in, which decline or fail by
the configuration, the resources each makes, and (external, from the comments on
the tables) what each has to find running. **PlatformWalk** is the commands over
them: `up`, `destroy`, `platform:apply`, `:destroy`, `:refresh`, over every layer
or one, layer by layer and resource by resource, with the cluster tier destroyed,
rebuilt or applied from another checkout beside them. `recorded` is what the
layers' states hold, `live` what exists, `reaching` the layers whose recorded
kubeconfig is the cluster's: the three part when a command fails or is killed.
**StackReports** adds what Pulumi keeps beside a state (last result, pending
operations, the contract output) and the two reports that read it, one project
after another while commands go on, and what `Recovery` tells the operator to do.

**EtcdSnapshot** is `tools/etcd verify`: which snapshot files are let through.
**EtcdRestore** is the restore task against the control plane. `pc`, `seen`,
`pending`, `asked`, `unreachable`, `job` and `expired` are the script's
variables; `svc`, `data`, `dead` and `epoch` are the machines. Each read, each
`version` call, the parallel start of resets, `wait || true`, and the bootstrap
are an action; so is everything a machine does (`Wipe`, `JobReturns`, `Boot`,
`Join`, `Crash`). The scan order is left open, which covers the list order of
`tools/nodes`. A read that gets no answer ends the task (`unread`), since the
script's assignment is a pipeline under `set -euo pipefail`. **ControlPlaneHistory** is the abstract specification: nodes with
a history, of which data is lost, copied from a member that has it, or begun anew
when no node has any. `EtcdRestore!ImplementsHistory` says the task refines it.

**EtcdBackup** is snapshots, uploads and downloads of several machines, one
action per command of the upload script (verify, backup of the snapshot, backup
of the bundle, two forgets, check), with `Stop` between any two, machines lost,
and the cluster rebuilt under a new bundle (`Rebuild`, an *era*).
**BackupTier** puts the backup tier under it. `tier` is the stack of
`infra/backup`: its token, its phase, the resources in its state and its outputs;
`standing` is the box Hetzner has, `repoKey` the key the repository on it was
initialised with. An apply takes one action per resource (`DrawKey`, `StashKey`,
`CreateBox`, `CreateAccount`, `Publish`), a destroy likewise, and `StopTier` ends
either between two. An upload reads the outputs once (`held`), may initialise the
repository, and is refused when what it read no longer opens it. `kit` is a
`cluster:recovery-kit` being taken, in two reads, and `kits` those in a password
store. Numbers of boxes and keys are the change that made them (`changes`). The
tier may start as an earlier program left it: a generator with other inputs and
no stash.

**SmokeStorage** is the smoke test's storage check: applying the claim and the
pod, waiting for the bind, releasing the volume, deferred deletion, the waits of
the next run, killed and overlapping runs, and the Kubernetes and CSI side
(finalizers, grace periods, late binding). **SmokeRun** is the whole run: nine
checks in one order, none of which stops the others. The cross-node check plans
where to probe from, makes its prober, and asks each DNS replica; the others
read, in one or several calls, objects that move between the calls.

**RollingUpgrade** is `upgrade:talos` and `reboot`: the topologies' versions are
compared, the members read once, and each node is drained, upgraded or rebooted,
waited for and uncordoned, one action per command. `Stop` is any command failing,
and the operator's Ctrl-C. `talosctl get members` needs etcd, as the comment above
`_CL_CONTROL_PLANE` says, and `kubectl` needs the first node. The Ready condition
may be a stale one, so the wait for it ends whenever the API server answers.

**Orphans** is `cluster:orphans`: four listings of the Hetzner project in their
order, one step per project directory whose stacks are exported, the refusal of
an empty backend, four `kubectl` listings, and the judgement; `Fail` is any of
them failing. Around it moves the world, in steps of its own: applies that create
and then record, destroys that delete and then forget, stacks removed, servers
that become nodes, the CSI driver, the cloud controller.

The `MC*` modules hold only the sets and functions a `.cfg` names; the
`*_proofs` modules hold the theorems. Operators marked *Mutant* are broken
variants of the definition below them, the plausible bugs that show each property
can fail.

## What the runs check

| Run | Question, and what it shows |
|---|---|
| `cluster_apply` | Two of apply, destroy and secrets:destroy, by 5 files that stand and 28 with one thing wrong each, over no cluster or a whole one, steps in any order the graph allows, one call failing or pulumi killed. A wrong file asks nothing of Hetzner (`RequestsAreSound`); no server stands outside its perimeter; success leaves an etcd and every machine configured, the ones that were there before included, if what is replaced with a server goes first, and configurations that fit their machines and each other in any case; workers join something; an exported kubeconfig stays right; the CA stays. |
| `platform` | Two or three commands over two to four layers, six configurations, one failure or kill, one edit, the cluster tier replaced. Every resource an apply of all layers creates finds what it needs although a declined component drops out of the chain (`NothingWaitsInVain`), and no command over all layers removes what something left standing needs to run or to go, the CNI under Argo CD's finalizer for one (`DependantsGoFirst`); success of a walk over all layers means exactly what is asked for is installed; a destroy leaves nothing; a status or drift report that reassures is right, read row by row beside all of it. |
| `restore` | Three nodes in every state an incident leaves, four kinds of snapshot, two starts of the task, aborts, two surprises. One history; a machine that never answers saves the others' data; only a verified snapshot costs data; the task refines ControlPlaneHistory. Every machine coming back, the passes come to an end without the deadline, at a bootstrap or at a read that gets no answer, and on machines that answer when the task starts and that only its resets take down, one run restores (`PassesConverge`: what the wait for the resets is there for). |
| `restore_answers` | *Expected violation.* One reset returns an error while its node reboots, `wait \|\| true` goes on, and the next pass ends the task at the node that does not answer: the wipe is done, the time is not up, and nothing waits for the node. |
| `backup_retention` | Two machines, three uploads that interleave, one stopped, one machine lost, one rebuild; and uploads and a recovery kit while the tier under them is given a token, applied, destroyed, applied again, each stopped once. Once an upload has finished the outputs name the box that stands and its repository's key, and it holds a snapshot with the bundle that opens it; every upload that reports success stored both; a recovery kit opens the repository. |
| `backup_empty_bundle` | *Expected violation.* `tools/secrets` failing leaves an empty bundle as the newest. |
| `smoke_run` | Two runs of the nine checks, in sequence with one killed and one call failing, or at once. What was wrong from the first call to the last fails its check and the run (`WrongThroughoutIsReported`); no leftover is read as a result; a pass gives its volume back; the next run repairs what a killed one left; overlapping runs leave nothing. |
| `smoke_leak` | *Expected violation.* On a retaining class a claim that binds after `releaseProbeVolume` read it leaves its volume. |
| `placement` | Every file of up to two pools, pinned, unpinned, clashing, too large or too many, edited once at any moment, one failing step: plans are sound, success is the file, the control plane stays without `replace_control_plane=yes`, and applies converge unless `Blocked`. |
| `placement_converges` | *Expected violation.* Without the exception applies do not converge: a pool that takes over a removed or renamed pool's slice needs addresses that are released last. |
| `rolling_upgrade` | Three control planes and a worker, upgrades and reboots stopped at any command and typed again, one machine dying, topologies edited: etcd keeps its quorum unless a node was left out, success is every listed member on the installer's version and schedulable, reruns converge. |
| `orphans` | One volume, one balancer, one server and one other thing, two stacks, a login that may show none: the report names nothing that was in use all along, whichever calls the world's steps fall between, and misses nothing that was lost all along. |

Findings, with the lines they disagree with, are in `PROJECT.json`.

### Bounds

*cluster_apply.* Two runs and one failure are a task that stops half-way and the
one that meets what it left; the theorems have no such bound. The files are one
per rule of validation, and those that stand cover one and three control-plane
nodes, a changed server type, a withdrawn one, and no public address. The operator
does not change `publicIPv4` of a cluster that stands, nor shrink its control
plane (`Editable`; `MayShrink = TRUE` was also run). `AddressBits = 24`: TLC's
integers do not hold 2^32, so addresses are those below `10.0.0.0/8` and its
like in IPv6; the proofs take any number of bits. Control-plane nodes after the
first are symmetric.

*platform.* Each element of `MCWorlds` is a set of layers with the configurations
and the faults that bear on them, chosen so that every component is created,
declines and fails somewhere, and each pair of layers whose order matters is
walked together.

*smoke_run.* Two runs are enough because the names are fixed: whatever a third
meets, a second has met. A scene plays some of the checks and skips the others,
which is sound because no check reads what another writes; one scene plays all
nine.

*restore.* Three control-plane nodes are the smallest cluster in which a node can
rejoin a member behind the script's back while a third is still to be read; two
surprises allow a crash and a missed read in one pass, and two starts an abort
followed by a rerun. One surprise is what `restore_answers` needs.

*backup.* Keep = 2 with three uploads makes retention drop a pair while two
uploads interleave; `StaysRestorable` holds as long as fewer uploads stop
half-way than Keep (`MaxStops < Keep`), since each leaves an unpaired snapshot.
Worlds (`MCWorlds`): one tier nobody touches, in which the uploads interleave, and
three that move, from no tier, an applied one, and one of an earlier program, with
one or two uploads and one kit. Four changes are a token, an apply, a destroy and
an apply. The token of another project is given only while no box stands: the
provider would not find what its state holds.

*placement.* Stride 7 leaves three control-plane addresses between the reserved
ones and the balancers; slots 0, 2 and unpinned include a gap and a clash between
a position and a pin, and a subnet of 32 is what slot 2 just fits. One edit is a
whole change of file, and one fault stops an apply at any step.

*rolling_upgrade.* Three control planes are the smallest whose quorum survives one
node; the worker makes reboot's order matter. One failure is enough for a run to
be abandoned with a node out and a second to start over it. Two edits make the
topologies disagree and agree again.

*orphans.* The judgement looks at each resource on its own, so one of each kind is
enough, with one server that is a whole cluster. A volume is lost to sight in
three steps of the world between two calls.

### Assumptions about what is outside

* Pulumi takes steps as soon as what they depend on is done, updates the state
  after a call returns, and deletes what the program no longer has at the end.
  Whether it deletes what `ReplaceWith` ties to a server before that server is not
  decided here: `dropsFirst` is both, and `DoneHasEtcd` and `WorkersJoinACluster`
  are claimed for the order in which it does, and so is the clause of
  `DoneIsConfigured` that every machine has a configuration: in the other order an
  apply that stops after the server's delete leaves a configuration in the state
  whose inputs do not change, and the next apply has no reason to send it
  (`controlplane.go:153`).
* A bootstrap of a node that has data may be taken for an error or not.
* A killed layer update leaves a resource made and not recorded, and a pending
  operation that names it; a new cluster may or may not be reached with the old
  one's kubeconfig; each row of a report is read at one moment.
* Kubernetes carries out accepted deletions; a pod on a node that is gone is not
  ended by anybody.
* `LateWipes = FALSE`: a reset lands before its `talosctl` returns. With it TRUE
  `OneHistory` fails, because `wait || true` takes an error for the end of the
  reset.

### Fairness

`EtcdRestore!FairSpec`: the script runs on, a machine that can boot, join or act
on a reset does, a `talosctl` whose node is back returns. Nothing is assumed of
crashes, of the operator or of the clock. `SmokeRun!RunSpec`: a run that is not
killed goes on, and Kubernetes carries out accepted deletions.
`NodePlacement!Fairness`: the operator runs apply until it is through; within a
run the engine takes each kind of step that stays possible. Replacements and
creations get *strong* fairness, because a failing step elsewhere can disable
them for the rest of a run and the engine dispatches them in parallel in each
run. `RollingUpgrade!Fairness`: a command that can succeed or can only fail does,
a machine boots or is repaired, and the operator types the upgrade again (strong,
because reboots may be started instead). The others state no liveness: a Pulumi
run or a report ends or is cut off.

## What is proved

Every safety property a passing run checks is a theorem for every value of the
constants, 46 theorems in eight modules; the properties left to TLC are the
liveness properties named at the end of this section.

`ClusterApply_proofs`, of the file first, for ranges of any size: `contains` is
inclusion and `~Overlaps` is disjointness of what two ranges hold, since two
aligned blocks are nested or apart (`InsideOrBeside`); and `ValidateIsSound`, that
a file validation accepts has a sound perimeter. Used of powers of two:
`SizeAssumption`, that the smaller divides the larger, which TLC evaluates.

Of the runs, for any nodes, files, server types, runs, failures and
kills, shrinking included: all eight properties of the run
(`ApplyTypeCorrect`, `PerimeterHolds`, `RequestsHold`, `SuccessHasEtcd`,
`WorkersFindACluster`, `PublishedHolds`, `SuccessIsConfigured`, `CaIsKept`), from
`ApplyHolds`. None is inductive: each speaks of a state at the end of a run, and
the invariant `ApplyInv` says how the list of steps leads there. What of the plan
is not in the state is in the list (`ComingInv`), so a step with nothing above it
left to do finds all of it in the state (`AfterItsChain`, with `Chain` for the
graph); what a machine was last sent is what the plan asks or will be sent again
(`ConfiguredInv`), and what it has is what it was last sent, of which there is
something where its configuration is in the state and `dropsFirst` holds
(`InputsInv`);
where the bootstrap is recorded there is a first server with data (`EtcdInv`),
which is kept because a delete takes the bootstrap with the first server and puts
it back in the list (`DeletesInv`); a teardown keeps what it excludes
(`LeavingInv`). Assumptions, all evaluated by TLC on the run's constants: a file
is of the types YAML parsing gives it (`FilesAssumption`), and the value that
stands for "unset" is no address and no configuration (`UnsetAssumption`).

`EtcdRestore_proofs`, for any nodes, snapshots, number of surprises and starts:

* `TypeCorrect`, `NeverTwoHistories`, `WipesOnlyForAVerifiedSnapshot` and
  `RestoreImplementsHistory`, from the inductive invariant `HistoryInv`.
  `OneHistory` alone is not inductive: a bootstrap starts a new history, so one
  must know every node is empty when the script gets there (`Emptied`); that
  follows from a read only if a node that gained data behind its read has a
  member, still to be read, it got it from (`ReadsPointOn`), and no reset
  outlives the wait (`ResetsSettle`). Assumption: `LateWipes = FALSE`.
* `ADeadNodeSavesTheOthers`, from `DeadInv`: a dead node is never read, so no
  pass gets beyond its reads, and none to its resets. No assumption on
  `LateWipes`.

`NodePlacement_proofs`, for every stride, subnet, set of files, and number of
edits and faults:

* `ValidIsSound`: validation implies distinct names and addresses, clear of
  the balancers and the reserved ones. The argument is `OffsetsDiffer`: two
  workers at one offset are in one slice, since a slice ends before the next
  starts; slots are distinct by `validatePoolSlots`.
* `ValidFits`: in a subnet the capacity check looks at, no address is refused.
* `PlacementTypeCorrect`, `PlansAreSound`, `SuccessIsWanted` and
  `ControlPlaneIsKept`, from `PlacementInv`: while an apply runs, its plan was
  accepted, its addresses are that plan's, and, unless forced, no control-plane
  server is among those to move or to drop.

`RollingUpgrade_proofs`, for any nodes, environments, versions and failures:
`RollingHolds`, and from it `RollingTypeCorrect`, `LoopsTakeOne`,
`RollingKeepsQuorum` and `SuccessIsWhole`. `RollingInv` adds to the properties
what the loop has achieved so far (`WholeSoFar`: the nodes it is through with are
upgraded and uncordoned, the one it is past installing has the version). The
quorum follows by counting: a set of three or more keeps its majority without any
one element.

`Orphans_proofs`, for any resources, stacks, clusters and steps of the world:

* `NothingInUseIsReported`, from `OrphansInv`. What was claimed at every moment
  since it was listed (`Busy`) either is held by a state already read, or is to be
  read, or is a node no state records yet (`HeldInv`); a busy volume is bound and
  a busy balancer has its Service, so each kubectl listing finds it
  (`ClaimsInv`); and if no server was listed, nothing of the cluster is busy,
  since the listing of servers comes after those of volumes and balancers
  (`GoneInv`). It assumes a login that shows the stacks.
* `OrphansAreReported`, from `SettledInv`: what nothing claims and nobody touches
  is listed with its kind, enters no `held` and no `claims`, except a volume among
  the PersistentVolumes, which is then Released when that is asked.

`BackupTier_proofs`, for any number of machines, applies, destroys, stops, uploads
and kits:

* `KitsAlwaysOpen` and, of the outputs, `OutputsAlwaysOpen`, from `KitInv`. A
  number names the change that made a box, so a new box has one that no output,
  upload or kit mentions (`FreshInv`); whatever mentions the box that stands was
  read from outputs that named it, and since the first of those they carry one
  key, the stash's or, before there was a stash, the generator's (`KeyInv`); what
  was stored when a kit was begun was stored through outputs that named that box
  (`StoredInv`).
* `TierTypesAreRight`, `TheBackupStaysReadable` and `EveryUploadIsABackup`, from
  `TierInv`, for any Keep. A series drops from its front, and the ids along the
  snapshots rise, so a snapshot is dropped only once Keep newer ones are there
  (`Outlived`). The bundles need counting: an upload that stops in its pipe leaves
  at most one empty bundle, so among Keep bundles one is whole while fewer than
  Keep uploads have stopped (`WholeIsKept`, by cardinality), and since eras never
  fall along a series (`Eras`) it is no older than the one it outlived. An upload
  that read outputs of a box that has gone claims nothing (`Mentions`).

`SmokeRun_proofs`, for any clusters, runs and moves of the world: `RunTypesAreRight`,
`FaultsAreReported` and `ResultsAreOwn`, from `RunInv`. `WrongThroughoutIsReported`
speaks of the end of a check, so the invariant says what a run holds between the
calls of one: of each thing that was wrong all along and that the check is about,
that it is still to be read, or was read as wrong (`HoldsProbe`, `HoldsVolumes`,
`HoldsServices`), that the prober a run waits for is its own and asks what the run
planned (`ProberInv`), and that a check that is behind has told it (`Behind`).
Assumption: `RunAssumption`, what scenes are made of.

`StackReports_proofs`, for any layers, configurations, commands, faults, kills,
edits and reports, from `WatchedInv`:

* `AnApplyThatEndsWellInstalls` and `ADestroyThatEndsWellIsComplete`. The layers a
  walk has finished are as it leaves them (`LayersInv`), because no resource is in
  two layers (`LayersApart`) and an update touches its own; what exists is recorded
  or pending (`RecordsInv`).
* `ReportsCanBeBelieved`: while nothing happens each row read is what would be
  read now (`RowsInv`), and a phase in which something is wrong has a stack that
  says so (`StacksInv`).
* `NothingWaitsForWhatIsMissing`. That no update is stuck follows from a weight:
  three times a component's place in its layer plus its part's rank, which rises
  along every dependency (`Before`), so what comes first of what is left can be
  created, and what comes last of what goes can be deleted (`NoCreateDeadlock`,
  `NoDeleteDeadlock`). That what is created finds what it needs takes `WaitsInv`: what
  runs has what it needs of its own layer (`Upheld`, kept by a delete because the
  program that ran to its end declares whatever its resources follow), and an
  apply of every layer has all of the first one by the time it is past it
  (`FirstIsThere`, since no component of that layer can decline). `NeedsAre` is the
  fact about the tables: each need is a dependency on a component that cannot
  decline, or the first layer's, or the driver's on the cni, which it has through
  the controller.
* `DependantsAlwaysGoFirst`: what goes is needed by nothing of its own layer
  (`NothingNeeds`), and all that another layer can need is the first one's
  (`NeedsAreNear`); when the first layer's turn to be destroyed comes the records
  of the others are empty (`LayersInv`), and an apply declares all of it
  (`FirstLayerIsWhole`).
* `PlatformTypesAreRight`.

It uses one fact about `Order` that is found by evaluation: `OrderAssumption`, that
the five tables' orders hold every component once and behind what it follows. It
mentions no constant, so TLC's evaluation of it on the `platform` run settles it;
`Order` is recursive, and what a recursion computes is beyond the prover.

What the proofs and their review made of the model, where a first statement was
false or could not be relied on:

* `PassesConverge` had every restore end in a bootstrap, of a script that read a
  node without an answer as one more to wait for. It does not: see the finding.
* `DoneIsConfigured` had every machine configured in either order of deletes, of a
  preview that looked at the machines instead of the recorded inputs.
* `NothingWaitsInVain` spoke of deletes too, where all that needed anything to go
  was a finalizer and its chart; that is now `DependantsGoFirst`, over all needs.
* `DestroyLeavesNothing`: a destroy that ends well after a kill, followed by the
  recovery of a layer, has a state again; a recovery is an operation of its own and
  forgets the outcome of the command before it.
* `WrongThroughoutIsReported`: a load balancer's targets are the conjunction of
  two status reads, and one that failed at each read was not one that failed all
  along; and two runs at once may read one another's prober, since
  `waitForProber` compares counts only (`run.go:1034`).
* The clause of `UploadedMeansBackup` on bundles excepted uploads that Keep newer
  bundles had outlived; no exception is needed while fewer than Keep uploads stop.
* Which layer is next was read from a sequence; it is now the least or greatest of
  the layers that are left.
* Two `CASE`s of StackReports had arms that overlap. TLC takes the first; TLA+
  takes any.

Only model-checked: all liveness (`PassesConverge`,
`ApplyConvergesUnblocked`, `Converges`, `PassGivesBackItsVolume`, `NextRunRepairs`, `OverlapLeavesNothing`),
which the prover does not reach: it has no rule for fairness.

## What does not hold, and what was seen beside it

`ClusterApply!DoneHasQuorum` is stated and is in no run: it fails. Taking
`controlPlane.count` from 3 to 1 deletes two etcd members that never leave, and a
forced replacement of three that stops after the first and is run again
bootstraps beside a member of the old history; both applies report success. The
repository claims only that etcd does not survive a replacement.

`upgrade:talos` and `reboot` do not look for nodes an earlier run left out: a
second start can take a second node down, and with it the quorum. `QuorumKept`
excepts those nodes. With no server of the cluster and a login that shows other
stacks than those that made what is left, `cluster:orphans` reports everything
they hold; and it reports what a second cluster in the project made dynamically,
since only one cluster is asked.

Two sequences of the backup tier are excepted from `StaysReadable` and `KitsOpen`
(`past`). A destroy that has forgotten the key and stops before the box, followed
by an apply, draws a new key for a box whose repository has the old one: uploads
then fail, since `restic init` refuses a repository that is there, and kits carry
a key that opens nothing (`torn`). And `separateProject` asks whether the token
sees the cluster's servers, so a token of the cluster's own project is let through
while the cluster has none (`blind`).

Seen while modelling, and claimed by no property:

* `tools/recoverykit/main.go:10` says that re-applying `infra/backup` generates a
  new repository password; the stash (`infra/backup/main.go:161`) keeps the first.
* `publicIPv4` taken from true to false: `ignoreChanges` keeps a control-plane
  server's public interface (`server.go:169`), and its configuration then names
  `eth0` as the private one (`machineconfig.go:95`).
* `internal/pkg/clusterref/clusterref.go:20` says every output is gated on the
  contract version; the gate is one check in the program, and a resource whose
  inputs are other outputs may have been started before it fails (`Refuse`).
* `internal/pkg/layer/runner.go` says of `DeleteUnreachable` that the provider
  does not set `clusterIdentifier`; a few lines above it does.
* `Recovery` is printed for the pending operations of an update that is still
  running too, and a refresh after a failed apply makes its row green.
* Of two smoke runs at once that saw different numbers of DNS replicas, one may
  read the exit of a container that has not ended, and panic (`run.go:1034`; the
  model has it as `panicked`); a run whose cross-node check is skipped leaves a
  killed run's prober, and nobody ends one on a node that went (both are excepted
  in `NextRunRepairs`).

## What is not modelled

*Partly modelled.* ClusterApply replaces a server for its type only: a new
location (which takes the API load balancer along), another private address, and
the replacement of a network or of a primary address are left out, and so is the
bootstrap's `ReplaceOnChanges("node")`; NodePlacement has the private addresses.
PlatformWalk leaves out `target=`, with which one command touches part of a layer.
StackReports books one pending create for a killed update, no pending update or
delete, and no more than one at a time. BackupTier leaves out the Storage Box's failures other than
being gone, and the rotation of the passwords of box and subaccount, which an
upload reads with the rest. RollingUpgrade leaves out `upgrade:k8s`, which rolls
inside one `talosctl` command, and `stop`, which takes every node down on
purpose. Orphans leaves out addresses and snapshots, judged by their own fields,
and the import of a live node by hand. MachineConfig leaves out constants nothing
depends on and the YAML; the layers leave out the values of the charts, so an
update in place cannot be told from no change, and `platform:init`. The era of an
old snapshot is not visible to `verify`, which compares cluster names: a snapshot
from before a rebuild uploads beside a bundle that does not open it.

*Not modelled.* State export, the credentials and the image bake write files or snapshots once,
one operator at a time; what two at once could do to the bake and to
`kubeconfig:add` is listed among the hazards. The stack helper asks one question
of the backend. Chart and manifest tooling, the policy pack, the shared libraries
and the repository's own checks keep no state of a cluster's. Each is in
`PROJECT.json` with its reason.

## Plan

1. An abstract specification of a layer's update that both apply and destroy
   implement, and of the repository the uploads trim, each with its refinement
   proved.
2. What the liveness runs show, without fairness: that each of those walks is
   well-founded (a measure every step of the script lowers).
3. Image bake and `kubeconfig:add` as two operators at one set of files.
