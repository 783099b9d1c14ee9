---------------------------- MODULE SmokeStorage ----------------------------
(***************************************************************************)
(* The storage check of internal/pkg/clustersmoke: clear what a killed run  *)
(* left, wait for it to be gone, create a claim and a pod to consume it,    *)
(* wait for Bound, and clean up on every way out.  The names are fixed, so  *)
(* runs meet each other's objects; deletions take time; and the driver that *)
(* provisions, binds and reclaims volumes works behind the check's back.    *)
(*                                                                          *)
(* A run creates one claim at most, so a claim, its consumer and its volume *)
(* are named by the run that created them.  The cluster's controllers are   *)
(* external and are modelled from what the check relies on.                 *)
(***************************************************************************)
EXTENDS Naturals, FiniteSets

CONSTANTS
    Runs,        \* runs of the check, in any order
    NoRun,       \* no object of that name
    Worlds       \* what a behaviour is played in: the storage classes, whether
                 \* a run may start while another is going, and the bounds on
                 \* the runs that are killed and the API calls that fail

Policy == {"Delete", "Retain"}
Class  == [late : BOOLEAN, reclaim : Policy]
World  == [classes : SUBSET Class, overlap : BOOLEAN, kills : Nat, faults : Nat]

ASSUME SmokeAssumption ==
    /\ NoRun \notin Runs
    /\ Worlds \subseteq World

VARIABLES
    pc, class, round, target, verdict, faulted,   \* per run
    claim, claimDeleted,      \* the run whose claim the name holds; being deleted
    pod, podDeleted,          \* the same of the consumer
    volume,                   \* per run, the volume of its claim
    latest,                   \* the run that started last
    world,
    kills, faults

run     == <<class, round, target, verdict, faulted, latest, world>>
objects == <<claim, claimDeleted, pod, podDeleted, volume>>
bounds  == <<kills, faults>>
vars    == <<pc, run, objects, bounds>>

Cleaning == {"deletePod", "readClaim", "readVolume", "patch", "deleteClaim"}
Probing  == {"waitPod", "waitClaim", "createClaim", "createPod", "waitBound"}
Active   == Cleaning \union Probing
Owner    == Runs \union {NoRun}
Volume   == [at : {"none", "provisioned", "bound", "released", "gone"}, policy : Policy]

TypeOK ==
    /\ pc \in [Runs -> Active \union {"idle", "done", "killed"}]
    /\ world \in Worlds
    /\ class \in [Runs -> world.classes] /\ round \in [Runs -> 1..2]
    /\ target \in [Runs -> Owner] /\ faulted \in [Runs -> BOOLEAN]
    /\ verdict \in [Runs -> {"none", "passed", "failed"}]
    /\ claim \in Owner /\ pod \in Owner /\ latest \in Owner
    /\ claimDeleted \in BOOLEAN /\ podDeleted \in BOOLEAN
    /\ volume \in [Runs -> Volume]
    /\ kills \in 0..world.kills /\ faults \in 0..world.faults

Init ==
    /\ pc = [r \in Runs |-> "idle"]
    /\ world \in Worlds /\ class \in [Runs -> world.classes]
    /\ round = [r \in Runs |-> 1] /\ target = [r \in Runs |-> NoRun]
    /\ verdict = [r \in Runs |-> "none"] /\ faulted = [r \in Runs |-> FALSE]
    /\ claim = NoRun /\ pod = NoRun /\ claimDeleted = FALSE /\ podDeleted = FALSE
    /\ volume = [r \in Runs |-> [at |-> "none", policy |-> "Delete"]]
    /\ latest = NoRun /\ kills = 0 /\ faults = 0

Late(r) == class[r].late
Goto(r, l) == pc' = [pc EXCEPT ![r] = l]

\* An API call that fails with anything but NotFound.
Fault(r) ==
    /\ faults < world.faults /\ faults' = faults + 1
    /\ faulted' = [faulted EXCEPT ![r] = TRUE]
    /\ UNCHANGED kills
NoFault == UNCHANGED <<faulted, bounds>>

BoundClaim == claim # NoRun /\ volume[claim].at = "bound"

----------------------------------------------------------------------------
(* The check.                                                               *)

\* Where `cleanupStorageProbe` begins.
Clean(r) == IF Late(r) THEN "deletePod" ELSE "readClaim"

Start(r) ==
    /\ pc[r] = "idle"
    /\ world.overlap \/ \A s \in Runs : pc[s] \notin Active
    /\ \/ Goto(r, Clean(r)) /\ UNCHANGED verdict /\ NoFault
       \/ Goto(r, "done") /\ Fault(r) /\ verdict' = [verdict EXCEPT ![r] = "failed"]
    /\ latest' = r
    /\ UNCHANGED <<class, round, target, world, objects>>

DeletePod(r) ==
    /\ pc[r] = "deletePod" /\ Goto(r, "readClaim")
    /\ \/ podDeleted' = (pod # NoRun) /\ NoFault
       \/ Fault(r) /\ UNCHANGED podDeleted
    /\ UNCHANGED <<class, round, target, verdict, latest, world, claim, claimDeleted, pod, volume>>

\* `releaseProbeVolume`: a claim that cannot be read, or names no volume, is
\* deleted as it is.
ReadClaim(r) ==
    /\ pc[r] = "readClaim"
    /\ \/ /\ BoundClaim /\ NoFault
          /\ target' = [target EXCEPT ![r] = claim] /\ Goto(r, "readVolume")
       \/ ~BoundClaim /\ NoFault /\ Goto(r, "deleteClaim") /\ UNCHANGED target
       \/ Fault(r) /\ Goto(r, "deleteClaim") /\ UNCHANGED target
    /\ UNCHANGED <<class, round, verdict, latest, world, objects>>

\* Mutant: the volume's policy is never looked at.
ReadVolumeBlind(r) ==
    /\ pc[r] = "readVolume" /\ Goto(r, "deleteClaim") /\ NoFault
    /\ UNCHANGED <<class, round, target, verdict, latest, world, objects>>

ReadVolume(r) ==
    /\ pc[r] = "readVolume"
    /\ \/ /\ NoFault
          /\ IF volume[target[r]].at # "gone" /\ volume[target[r]].policy = "Retain"
             THEN Goto(r, "patch") ELSE Goto(r, "deleteClaim")
       \/ Fault(r) /\ Goto(r, "deleteClaim")
    /\ UNCHANGED <<class, round, target, verdict, latest, world, objects>>

\* Hand the volume back to its driver.
PatchVolume(r) ==
    /\ pc[r] = "patch" /\ Goto(r, "deleteClaim")
    /\ \/ volume' = [volume EXCEPT ![target[r]].policy = "Delete"] /\ NoFault
       \/ Fault(r) /\ UNCHANGED volume
    /\ UNCHANGED <<class, round, target, verdict, latest, world, claim, claimDeleted, pod, podDeleted>>

\* The end of a cleanup: of the one before the probe, or of the deferred one.
DeleteClaim(r) ==
    /\ pc[r] = "deleteClaim"
    /\ \/ claimDeleted' = (claim # NoRun) /\ NoFault
       \/ Fault(r) /\ UNCHANGED claimDeleted
    /\ Goto(r, IF round[r] = 2 THEN "done" ELSE IF Late(r) THEN "waitPod" ELSE "waitClaim")
    /\ UNCHANGED <<class, round, target, verdict, latest, world, claim, pod, podDeleted, volume>>

\* Mutants: only a pass cleans up; a verdict of its own for a failed wait.
FinishUndeferred(r, v) ==
    /\ verdict' = [verdict EXCEPT ![r] = v] /\ round' = [round EXCEPT ![r] = 2]
    /\ Goto(r, IF v = "passed" THEN Clean(r) ELSE "done")

FinishTimedOut(r, v) ==
    /\ verdict' = [verdict EXCEPT ![r] = IF v = "failed" THEN "timed out" ELSE v]
    /\ round' = [round EXCEPT ![r] = 2] /\ Goto(r, Clean(r))

\* Every way out of the check runs the deferred cleanup.
Finish(r, v) ==
    /\ verdict' = [verdict EXCEPT ![r] = v] /\ round' = [round EXCEPT ![r] = 2]
    /\ Goto(r, Clean(r))

\* `waitGone`, of the consumer and then of the claim; past deletionTimeout
\* the check fails.
WaitGone(r, here, gone, next) ==
    /\ pc[r] = here
    /\ \/ gone /\ Goto(r, next) /\ UNCHANGED <<round, verdict>> /\ NoFault
       \/ ~gone /\ Finish(r, "failed") /\ NoFault
       \/ Fault(r) /\ Finish(r, "failed")
    /\ UNCHANGED <<class, target, latest, world, objects>>

WaitPod(r) == WaitGone(r, "waitPod", pod = NoRun, "waitClaim")

\* Mutant: a claim still there is used.
WaitClaimReuse(r) ==
    WaitGone(r, "waitClaim", TRUE, IF claim = NoRun THEN "createClaim" ELSE "waitBound")

WaitClaim(r) == WaitGone(r, "waitClaim", claim = NoRun, "createClaim")

CreateClaim(r) ==
    /\ pc[r] = "createClaim"
    /\ \/ /\ claim = NoRun /\ claim' = r /\ claimDeleted' = FALSE /\ NoFault
          /\ Goto(r, IF Late(r) THEN "createPod" ELSE "waitBound")
          /\ UNCHANGED <<round, verdict>>
       \/ claim # NoRun /\ Finish(r, "failed") /\ NoFault /\ UNCHANGED <<claim, claimDeleted>>
       \/ Fault(r) /\ Finish(r, "failed") /\ UNCHANGED <<claim, claimDeleted>>
    /\ UNCHANGED <<class, target, latest, world, pod, podDeleted, volume>>

CreatePod(r) ==
    /\ pc[r] = "createPod"
    /\ \/ /\ pod = NoRun /\ pod' = r /\ podDeleted' = FALSE /\ NoFault
          /\ Goto(r, "waitBound") /\ UNCHANGED <<round, verdict>>
       \/ pod # NoRun /\ Finish(r, "failed") /\ NoFault /\ UNCHANGED <<pod, podDeleted>>
       \/ Fault(r) /\ Finish(r, "failed") /\ UNCHANGED <<pod, podDeleted>>
    /\ UNCHANGED <<class, target, latest, world, claim, claimDeleted, volume>>

\* One reading of the claim of that name, whoever created it; not Bound before
\* BindTimeout reads as another wait, not Bound after it as a failure.
WaitBound(r) ==
    /\ pc[r] = "waitBound"
    /\ \/ BoundClaim /\ Finish(r, "passed") /\ NoFault
       \/ ~BoundClaim /\ Finish(r, "failed") /\ NoFault
       \/ Fault(r) /\ Finish(r, "failed")
    /\ UNCHANGED <<class, target, latest, world, objects>>

\* The process ends between two calls; nothing deferred runs.
Kill(r) ==
    /\ pc[r] \in Active /\ kills < world.kills
    /\ Goto(r, "killed") /\ kills' = kills + 1
    /\ UNCHANGED <<run, objects, faults>>

----------------------------------------------------------------------------
(* The cluster.                                                             *)

\* The grace period ends.
PodGone ==
    /\ pod # NoRun /\ podDeleted /\ pod' = NoRun /\ podDeleted' = FALSE
    /\ UNCHANGED <<pc, run, claim, claimDeleted, volume, bounds>>

\* The driver creates the volume, for a late-binding class once a consumer is
\* there, and then the claim is bound to it.
Provision ==
    /\ claim # NoRun /\ ~claimDeleted /\ volume[claim].at = "none"
    /\ Late(claim) => pod # NoRun /\ ~podDeleted
    /\ volume' = [volume EXCEPT ![claim] = [at |-> "provisioned", policy |-> class[claim].reclaim]]
    /\ UNCHANGED <<pc, run, claim, claimDeleted, pod, podDeleted, bounds>>

Bind ==
    /\ claim # NoRun /\ ~claimDeleted /\ volume[claim].at = "provisioned"
    /\ volume' = [volume EXCEPT ![claim].at = "bound"]
    /\ UNCHANGED <<pc, run, claim, claimDeleted, pod, podDeleted, bounds>>

\* The protection finalizer holds a bound claim until its consumer is gone.
ClaimGone ==
    /\ claim # NoRun /\ claimDeleted
    /\ pod = NoRun \/ volume[claim].at # "bound"
    /\ claim' = NoRun /\ claimDeleted' = FALSE
    /\ volume' = IF volume[claim].at \in {"provisioned", "bound"}
                 THEN [volume EXCEPT ![claim].at = "released"] ELSE volume
    /\ UNCHANGED <<pc, run, pod, podDeleted, bounds>>

Reclaim(r) ==
    /\ volume[r].at = "released" /\ volume[r].policy = "Delete"
    /\ volume' = [volume EXCEPT ![r].at = "gone"]
    /\ UNCHANGED <<pc, run, claim, claimDeleted, pod, podDeleted, bounds>>

Check(r) ==
    \/ DeletePod(r) \/ ReadClaim(r) \/ ReadVolume(r) \/ PatchVolume(r) \/ DeleteClaim(r)
    \/ WaitPod(r) \/ WaitClaim(r) \/ CreateClaim(r) \/ CreatePod(r) \/ WaitBound(r)

Cluster == PodGone \/ Provision \/ Bind \/ ClaimGone \/ \E r \in Runs : Reclaim(r)

Next == Cluster \/ \E r \in Runs : Start(r) \/ Check(r) \/ Kill(r)

\* A started run goes on, and Kubernetes finishes the deletions it accepted.
\* The driver owes nobody a volume.
Spec ==
    /\ Init /\ [][Next]_vars
    /\ \A r \in Runs : WF_vars(Check(r)) /\ WF_vars(Reclaim(r))
    /\ WF_vars(PodGone) /\ WF_vars(ClaimGone)

----------------------------------------------------------------------------
(* Properties.                                                              *)

\* A pass is about the claim this run created: no leftover of an earlier run
\* is read as this run's result.  Two at once may read each other's.
ResultIsOwn ==
    [][\A r \in Runs : verdict'[r] = "passed" /\ verdict[r] = "none"
                            => claim = r \/ world.overlap]_vars

\* A passing run gives its volume back, on a class that retains as on one
\* that deletes.
PassGivesBackItsVolume ==
    \A r \in Runs :
        (~world.overlap /\ pc[r] = "done" /\ verdict[r] = "passed" /\ ~faulted[r])
            ~> (volume[r].at = "gone")

\* "releaseProbeVolume makes the probe's volume go with its claim": no run
\* that completes with no call failing leaves a volume nobody will reclaim.
VolumeGoesWithItsClaim ==
    \A r \in Runs : (pc[r] = "done" /\ ~faulted[r] /\ volume[r].at = "released")
                        => volume[r].policy = "Delete"
=============================================================================
