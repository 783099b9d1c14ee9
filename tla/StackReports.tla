----------------------------- MODULE StackReports -----------------------------
(***************************************************************************)
(* platform:status and platform:drift: tools/stackstatus with              *)
(* internal/pkg/stackstatus, tools/stackdrift with internal/pkg/stackdrift.*)
(* A report reads every project's stack on its own goroutine, so the rows  *)
(* of one table are of different moments; it writes nothing.  Project 0 is *)
(* the cluster tier, the others are the layers.  What Pulumi keeps of a    *)
(* stack beside its resources is added here to the platform's behaviour.   *)
(***************************************************************************)
EXTENDS PlatformWalk

VARIABLES
    last,      \* the result of each stack's last update
    pending,   \* the creates of a layer that began and have no recorded end
    applied,   \* the contract each layer was applied against, its output
    report,    \* the report being made
    rows,      \* what it has read, by project
    calm       \* nothing happened since it was begun

stacks  == <<last, pending, applied>>
reading == <<report, rows, calm>>

Project == {0} \union world.layers
None == [err |-> FALSE, result |-> "never", pending |-> {}, contract |-> "none", changes |-> {}]

WatchedInit ==
    /\ Init
    /\ last = [p \in Project |-> "never"]
    /\ pending = [l \in world.layers |-> {}]
    /\ applied = [l \in world.layers |-> "none"]
    /\ report = "none" /\ rows = <<>> /\ calm = TRUE

----------------------------------------------------------------------------
(* What Pulumi keeps.                                                       *)

Begins(p) == \/ p = 0 /\ phase # "cluster" /\ phase' = "cluster"
             \/ phase = "next" /\ phase' \in {"creating", "deleting", "reading"} /\ p = At

\* How the update that runs goes on, or has ended.
Going == CASE phase' = "failing"                        -> "failed"
           [] phase' = "idle" /\ outcome' = "killed"    -> "interrupted"
           [] phase' = "idle" /\ outcome' # "killed"    -> "succeeded"
           [] phase' \in {"next", "plan"}               -> "succeeded"
           [] OTHER                                     -> "running"

Finishes(l) == last[l] = "running" /\ last'[l] = "succeeded"

\* A checkpoint names an operation before it is carried out: what a killed
\* update was creating is pending, whether Hetzner or Kubernetes has it or not.
Books ==
    /\ last' = [p \in Project |-> IF Begins(p) THEN "running"
                                  ELSE IF last[p] = "running" THEN Going
                                  ELSE IF p = 0 /\ phase # "cluster" /\ tier' # tier THEN "succeeded"
                                  ELSE last[p]]
    /\ applied' = [l \in world.layers |->
                      IF ~Finishes(l) \/ verb = "refresh" THEN applied[l]
                      ELSE IF verb = "apply" THEN published ELSE "none"]
    /\ IF phase = "creating" /\ phase' = "idle"
       THEN \E r \in {q \in Wanted(At) : Startable(q)} :
               /\ live' \subseteq live \union {r}
               /\ pending' = [pending EXCEPT ![At] = @ \union {r}]
       ELSE pending' = pending

\* What Recovery prints, followed: "it exists" is imported, "it does not" is
\* cleared.
Recover(l) ==
    /\ phase = "idle" /\ pending[l] # {} /\ Spend("commands")
    /\ recorded' = recorded \union (pending[l] \intersect live)
    /\ pending' = [pending EXCEPT ![l] = {}]
    /\ last' = [last EXCEPT ![l] = "succeeded"] /\ calm' = FALSE /\ outcome' = "none"
    /\ UNCHANGED <<world, settings, tier, live, reaching, command, phase, left, config, planned,
                   rebuilt, applied, report, rows>>

----------------------------------------------------------------------------
(* Reading.                                                                 *)

\* `readProject` of tools/stackstatus.
StatusRow(p) ==
    [None EXCEPT !.result = last[p],
                 !.pending = IF p = 0 THEN {} ELSE pending[p],
                 !.contract = IF p = 0 THEN published ELSE applied[p]]

\* `previewRefresh`: what the state holds and the cloud does not, when the
\* provider the state holds can be asked.
DriftRow(p) ==
    IF p = 0 THEN [None EXCEPT !.result = last[p]]
    ELSE IF \E r \in Recorded(p) : ~Reaches(p, r) THEN [None EXCEPT !.err = TRUE]
    ELSE [None EXCEPT !.result = last[p], !.changes = Recorded(p) \ live]

Ask(kind) ==
    /\ report = "none" /\ Spend("reports")
    /\ report' = kind /\ rows' = <<>> /\ calm' = TRUE
    /\ UNCHANGED <<world, settings, tier, live, recorded, reaching, command, phase, left,
                   config, planned, outcome, rebuilt, stacks>>

\* A project is read, in any order and at any time, or reading it fails.
ReadProject(p) ==
    /\ report # "none" /\ p \notin DOMAIN rows
    /\ \/ /\ rows' = [q \in DOMAIN rows \union {p} |->
                        IF q # p THEN rows[q]
                        ELSE IF report = "status" THEN StatusRow(p) ELSE DriftRow(p)]
          /\ UNCHANGED spent
       \/ /\ rows' = [q \in DOMAIN rows \union {p} |->
                        IF q # p THEN rows[q] ELSE [None EXCEPT !.err = TRUE]]
          /\ Spend("faults")
    /\ UNCHANGED <<world, settings, tier, live, recorded, reaching, command, phase, left,
                   config, planned, outcome, rebuilt, stacks, report, calm>>

Joined == report # "none" /\ DOMAIN rows = Project

----------------------------------------------------------------------------
(* The reports.                                                             *)

\* Mutant: a contract out of step is a header's business, and no row's.
NotesOfTheState(p) == ~rows[p].err /\ rows[p].pending # {}

\* A row needs attention: an interrupted checkpoint, or a contract the two
\* sides no longer agree on.  The cluster tier is judged against this
\* checkout, where no contract is one older than any; a layer that exports
\* none is not judged.
Notes(p) ==
    /\ ~rows[p].err
    /\ \/ rows[p].pending # {}
       \/ p = 0 /\ rows[p].contract # "ours"
       \/ p # 0 /\ rows[p].contract # "none" /\ rows[0].contract # "none"
                /\ rows[p].contract # rows[0].contract

\* `countProjects` and `summary`: the closing mark is the worst row's.
Summary ==
    LET is(S) == \E p \in Project : ~rows[p].err /\ rows[p].result \in S
    IN IF (\E p \in Project : rows[p].err) \/ is({"failed", "interrupted"}) THEN "failed"
       ELSE IF is({"never"}) \/ (\E p \in Project : Notes(p)) THEN "warning"
       ELSE IF is({"running"}) THEN "running"
       ELSE "ok"

\* Mutant: what could not be read has nothing to show.
DriftedWhenRead == \E p \in Project : rows[p].changes # {}

\* "An unread stack counts, and so does a run that read none": the exit status
\* of platform:drift.  A project has its stack from the first update on.
Drifted ==
    \/ \E p \in Project : rows[p].err \/ rows[p].changes # {}
    \/ \A p \in Project : rows[p].result = "never"

\* The report is printed, and the next one may be asked for.
Rendered ==
    /\ Joined /\ report' = "none"
    /\ UNCHANGED <<vars, stacks, rows, calm>>

Report == \/ \E k \in {"status", "drift"} : Ask(k)
          \/ \E p \in Project : ReadProject(p)
          \/ Rendered

WatchedNext ==
    \/ Next /\ Books /\ calm' = FALSE /\ UNCHANGED <<report, rows>>
    \/ \E l \in world.layers : Recover(l)
    \/ Report

WatchedSpec == WatchedInit /\ [][WatchedNext]_<<vars, stacks, reading>>

\* A report that reassures is right about the state it was made in: a green
\* status means the tier publishes what this checkout reads, so that no layer
\* is refused for it, no update is under way, and nothing was created that no
\* state records; a drift check that exits 0 means everything recorded is
\* there, also when the cluster was destroyed or replaced under the records.
ReportsReassureRightly ==
    (Joined /\ calm) =>
        /\ report = "status" /\ Summary = "ok" =>
               published = "ours" /\ live \subseteq recorded /\ phase \in {"idle", "next", "plan"}
        /\ report = "drift" /\ ~Drifted => recorded \subseteq live
=============================================================================
