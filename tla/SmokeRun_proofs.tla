--------------------------- MODULE SmokeRun_proofs ---------------------------
(***************************************************************************)
(* What is wrong all through a run is reported by it, for any clusters and *)
(* any number of runs, nodes and replicas, whatever moves between the      *)
(* calls; and the storage check passes on no claim but its own.            *)
(***************************************************************************)
EXTENDS SmokeRun, Integers, TLAPS, WellFoundedInduction, FiniteSetTheorems

----------------------------------------------------------------------------
(* The inductive invariant.                                                 *)

\* Between the calls of one check.
ProbeSteps  == {"deleteProber", "waitProber", "createProber", "waitAnswers"}
CrossSteps  == ProbeSteps \union {"listDns", "dropProber"}
VolumeSteps == {"listClasses", "readVolumes"}
Labels      == Over \union Checks \union CrossSteps \union VolumeSteps \union {"listTargets", "submit"}

CheckOf(l) ==
    IF l \in CrossSteps THEN "crossNode" ELSE IF l \in VolumeSteps THEN "dataVolumes"
    ELSE IF l = "listTargets" THEN "loadBalancers" ELSE IF l = "submit" THEN "imageAdmission" ELSE l

\* How far a run is: behind the last check where it is over, and before the
\* first one where it did not begin or was cut off.
Position(l) ==
    IF l = "over" THEN Len(Order) + 1 ELSE IF l \in Over THEN 0 ELSE Place(CheckOf(l))

Shapes ==
    /\ Readable(cluster)
    /\ DOMAIN scene = {"played", "moves"}
    /\ DOMAIN seen = Runs /\ DOMAIN steady = Runs
    /\ ~Unset(prober) => DOMAIN prober = {"owner", "node", "asks", "exits", "deleted"}

\* The storage check of runs one by one.
StorageInv ==
    /\ \A r \in Runs : round[r] = 2 \/ pc[r] = "done" => verdict[r] # "none"
    /\ ~world.overlap =>
        /\ \A r, s \in Runs : pc[r] \in Active /\ pc[s] \in Active => r = s
        /\ \A r \in Runs : pc[r] \in {"createPod", "waitBound"} => claim = r /\ ~claimDeleted

OneAtATime ==
    ~world.overlap => \A r, s \in Runs : step[r] \notin Over /\ step[s] \notin Over => r = s

Untold(r) == step[r] = "idle" => steady[r] = {} /\ told[r] = <<Nothing, Nothing>>

\* What a run holds between the calls of a check, of what is steadily wrong.
HoldsProbe(r) ==
    /\ step[r] = "listDns" => DOMAIN seen[r].nodes = DOMAIN cluster.nodes
    /\ step[r] \in ProbeSteps =>
        /\ seen[r].probe \in DOMAIN cluster.nodes
        /\ \A w \in steady[r] : w[1] = "crossNode" =>
               /\ \E k \in DOMAIN seen[r].asks : seen[r].asks[k] = w[2]
               /\ cluster.dns[w[2]].node # seen[r].probe

HoldsVolumes(r) ==
    /\ step[r] = "readVolumes" =>
        DOMAIN seen[r] = {"labelled", "todo", "bound", "policies", "classes", "default"}
    /\ \A w \in steady[r] : w[1] = "dataVolumes" =>
            /\ step[r] \in VolumeSteps => cluster.claims[w[2]].ns \in seen[r].labelled
            /\ step[r] = "readVolumes" =>
                /\ \/ cluster.claims[w[2]].ns \in seen[r].todo
                   \/ w[2] \in seen[r].bound
                   \/ ~(seen[r].policies \subseteq {"Retain"})
                /\ w[2] \in seen[r].bound => cluster.claims[w[2]].volume # "none"
                /\ cluster.claims[w[2]].volume = "none" => ClassPolicy(seen[r], w[2]) # "Retain"

HoldsServices(r) ==
    step[r] = "listTargets" =>
        /\ DOMAIN seen[r] = DOMAIN cluster.services
        /\ \A w \in steady[r] : w[1] = "loadBalancers" /\ w # <<"loadBalancers", "targets", 0>> =>
               ~seen[r][w[2]]

\* What is told is told of what is steadily wrong; and a check that is behind
\* has told it.
Told(r) ==
    \A w \in steady[r] :
        told[r][1] = w[1] => \/ told[r][2] = "failed"
                             \/ w[1] = "crossNode" /\ (told[r][2] = "skipped" \/ world.overlap)

Behind(r) ==
    \A w \in steady[r] :
        w[1] \in scene.played \ {"crossNode"} /\ Place(w[1]) < Position(step[r]) => failed[r]

RunOf(r) ==
    /\ steady[r] \subseteq Wrong /\ Untold(r)
    /\ HoldsProbe(r) /\ HoldsVolumes(r) /\ HoldsServices(r)
    /\ Told(r) /\ Behind(r)

\* The prober a run waits for is its own, and has not heard a silent replica.
ProberInv ==
    ~world.overlap /\ ~Unset(prober) =>
        \A r \in Runs : step[r] = "waitAnswers" =>
            /\ prober.asks = seen[r].asks /\ prober.node = seen[r].probe
            /\ \A w \in steady[r] : \A k \in DOMAIN prober.exits :
                  w[1] = "crossNode" /\ prober.asks[k] = w[2] => prober.exits[k] # "ok"

RunInv ==
    /\ RunTypeOK /\ Shapes /\ StorageInv /\ OneAtATime /\ ProberInv
    /\ \A r \in Runs : RunOf(r)

----------------------------------------------------------------------------
(* The order of the checks.                                                 *)

\* A set of numbers has a least one.
LEMMA LeastIsThere ==
    ASSUME NEW S \in SUBSET Nat, S # {}
    PROVE  /\ Min(S) \in S
           /\ \A x \in S : Min(S) <= x
<1> DEFINE Upto(x) == {y \in S : y <= x}
           Family == {Upto(x) : x \in S}
<1>1. \A x \in S : IsFiniteSet(Upto(x))
  <2> SUFFICES ASSUME NEW x \in S  PROVE IsFiniteSet(Upto(x))
    OBVIOUS
  <2>1. x \in Nat /\ \A y \in S : y <= x => y \in 0..x
    OBVIOUS
  <2>2. IsFiniteSet(0..x)
    BY <2>1, FS_Interval
  <2> QED
    BY <2>1, <2>2, FS_Subset
<1>2. Family \subseteq FiniteSubsetsOf(S)
  BY <1>1 DEF FiniteSubsetsOf
<1>3. PICK T \in Family : \A U \in Family : ~(<<U, T>> \in StrictSubsetOrdering(S))
  <2>1. IsWellFoundedOn(StrictSubsetOrdering(S), FiniteSubsetsOf(S))
    BY FS_StrictSubsetOrderingWellFounded
  <2>2. Family # {}
    OBVIOUS
  <2> HIDE DEF Family
  <2> QED
    BY <1>2, <2>1, <2>2, WFMin
<1>4. PICK m \in S : T = Upto(m)
  BY <1>3
<1>5. ASSUME NEW y \in S, y < m  PROVE FALSE
  <2>1. /\ m \in Nat /\ y \in Nat /\ m <= m /\ ~(m <= y)
        /\ \A z \in S : z <= y => z <= m
    BY <1>5
  <2>2. Upto(y) \subseteq Upto(m) /\ m \in Upto(m) /\ m \notin Upto(y)
    BY <2>1
  <2>3. <<Upto(y), T>> \in StrictSubsetOrdering(S)
    BY <2>2, <1>4 DEF StrictSubsetOrdering
  <2> QED
    BY <2>3, <1>3
<1>6. \A x \in S : m <= x
  BY <1>5
<1> QED
  BY <1>6 DEF Min

LEMMA TheChecks ==
    /\ Checks = {"nodes", "crossNode", "storage", "dataVolumes", "secretStores",
                 "networkPolicies", "loadBalancers", "externalMetrics", "imageAdmission"}
    /\ DOMAIN Order = 1..9 /\ Len(Order) = 9
    /\ \A c \in Checks : Place(c) \in 1..9 /\ Order[Place(c)] = c
    /\ \A i \in 1..9 : Order[i] \in Checks /\ Place(Order[i]) = i
<1>1. DOMAIN Order = 1..9 /\ Len(Order) = 9
  BY DEF Order
<1>2. /\ Order[1] = "nodes" /\ Order[2] = "crossNode" /\ Order[3] = "storage"
      /\ Order[4] = "dataVolumes" /\ Order[5] = "secretStores" /\ Order[6] = "networkPolicies"
      /\ Order[7] = "loadBalancers" /\ Order[8] = "externalMetrics" /\ Order[9] = "imageAdmission"
  BY DEF Order
<1>3. Checks = {Order[i] : i \in 1..9}
  BY <1>1 DEF Checks, Range
<1>4. 1..9 = {1, 2, 3, 4, 5, 6, 7, 8, 9}
  OBVIOUS
<1>5. Checks = {Order[1], Order[2], Order[3], Order[4], Order[5], Order[6], Order[7], Order[8], Order[9]}
  BY <1>3, <1>4
<1>6. \A i, j \in 1..9 : Order[i] = Order[j] => i = j
  BY <1>2, <1>4
<1>7. \A c \in Checks : Place(c) \in 1..9 /\ Order[Place(c)] = c
  BY <1>1, <1>3 DEF Place
<1> QED
  BY <1>1, <1>2, <1>3, <1>5, <1>6, <1>7

\* Of the checks that are played out, the first from the i-th on skips none.
LEMMA FirstFromSkipsNone ==
    ASSUME NEW i \in 1..10
    PROVE  /\ FirstFrom(i) \in Checks \union {"over"}
           /\ \A c \in Checks \intersect scene.played :
                  Place(c) < Position(FirstFrom(i)) => Place(c) < i
<1> DEFINE played == {j \in i..Len(Order) : Order[j] \in scene.played}
<1>1. CASE played = {}
  <2>1. FirstFrom(i) = "over"
    BY <1>1 DEF FirstFrom
  <2>2. ASSUME NEW c \in Checks \intersect scene.played  PROVE Place(c) < i
    <3>1. Place(c) \in 1..9 /\ Order[Place(c)] = c
      BY TheChecks
    <3>2. Place(c) \notin i..Len(Order)
      BY <1>1, <3>1
    <3> QED
      BY <3>1, <3>2, TheChecks
  <2> QED
    BY <2>1, <2>2
<1>2. CASE played # {}
  <2>1. played \in SUBSET Nat /\ played \subseteq 1..9
    BY TheChecks
  <2>2. Min(played) \in played /\ \A j \in played : Min(played) <= j
    BY <2>1, <1>2, LeastIsThere
  <2>3. FirstFrom(i) = Order[Min(played)]
    BY <1>2 DEF FirstFrom
  <2>4. FirstFrom(i) \in Checks /\ Place(FirstFrom(i)) = Min(played)
    BY <2>1, <2>2, <2>3, TheChecks
  <2>5. Position(FirstFrom(i)) = Min(played)
    BY <2>4, TheChecks
       DEF Position, CheckOf, CrossSteps, ProbeSteps, VolumeSteps, Over
  <2>6. ASSUME NEW c \in Checks \intersect scene.played, Place(c) < Min(played)
        PROVE  Place(c) < i
    <3>1. Place(c) \in 1..9 /\ Order[Place(c)] = c
      BY TheChecks
    <3>2. Place(c) \notin played
      <4>1. Min(played) \in Nat
        BY <2>1, <2>2
      <4> HIDE DEF played
      <4> QED
        BY <4>1, <2>6, <2>2, <3>1
    <3> QED
      BY <3>1, <3>2, TheChecks
  <2> QED
    BY <2>4, <2>5, <2>6
<1> QED
  BY <1>1, <1>2

----------------------------------------------------------------------------
(* The storage check.                                                       *)

\* What the rest of a run, and of the cluster, does to the storage check.
LooksOn ==
    /\ UNCHANGED <<pc, class, round, target, verdict, world, objects>>
    /\ latest' \in Owner /\ faulted' \in [Runs -> BOOLEAN]
    /\ kills' \in 0..world.kills /\ faults' \in 0..world.faults

LEMMA TypedWorlds ==
    ASSUME TypeOK
    PROVE  /\ world.classes \subseteq Class /\ world.overlap \in BOOLEAN
           /\ world.kills \in Nat /\ world.faults \in Nat
           /\ \A r \in Runs : class[r].late \in BOOLEAN /\ class[r].reclaim \in Policy
<1>1. world \in World
  BY SmokeAssumption DEF TypeOK
<1>2. world.classes \subseteq Class
  BY <1>1 DEF World
<1>3. \A r \in Runs : class[r] \in Class
  BY <1>2 DEF TypeOK
<1> QED
  BY <1>1, <1>2, <1>3 DEF World, Class

LEMMA FaultTyped ==
    ASSUME TypeOK, NEW r \in Runs, Fault(r) \/ NoFault
    PROVE  /\ faulted' \in [Runs -> BOOLEAN]
           /\ kills' \in 0..world.kills /\ faults' \in 0..world.faults
<1>1. world.kills \in Nat /\ world.faults \in Nat
  BY TypedWorlds
<1>2. /\ faulted \in [Runs -> BOOLEAN]
      /\ kills \in 0..world.kills /\ faults \in 0..world.faults
  BY DEF TypeOK
<1>3. CASE Fault(r)
  BY <1>1, <1>2, <1>3 DEF Fault
<1>4. CASE NoFault
  BY <1>2, <1>4 DEF NoFault, bounds
<1> QED
  BY <1>3, <1>4

LEMMA LooksOnKeeps ==
    ASSUME TypeOK, StorageInv, LooksOn
    PROVE  TypeOK' /\ StorageInv'
BY DEF TypeOK, StorageInv, LooksOn, objects

LEMMA FinishKeeps ==
    ASSUME TypeOK, NEW r \in Runs, NEW v \in {"passed", "failed"}, Finish(r, v)
    PROVE  /\ pc' \in [Runs -> Active \union {"idle", "done", "killed"}]
           /\ pc'[r] \in Cleaning
           /\ \A q \in Runs \ {r} : pc'[q] = pc[q] /\ round'[q] = round[q] /\ verdict'[q] = verdict[q]
           /\ round' \in [Runs -> 1..2] /\ verdict' \in [Runs -> {"none", "passed", "failed"}]
           /\ round'[r] = 2 /\ verdict'[r] = v
BY DEF TypeOK, Finish, Clean, Goto, Active, Cleaning

LEMMA StartKeeps ==
    ASSUME TypeOK, StorageInv, NEW r \in Runs, Start(r)
    PROVE  TypeOK' /\ StorageInv'
<1>1. /\ faulted' \in [Runs -> BOOLEAN]
      /\ kills' \in 0..world.kills /\ faults' \in 0..world.faults
  BY FaultTyped DEF Start
<1>2. /\ pc[r] = "idle" /\ pc' \in [Runs -> Active \union {"idle", "done", "killed"}]
      /\ \A q \in Runs \ {r} : pc'[q] = pc[q]
      /\ pc'[r] \in Cleaning \union {"done"}
  BY DEF TypeOK, Start, Goto, Clean, Active, Cleaning
<1>3. /\ verdict' \in [Runs -> {"none", "passed", "failed"}]
      /\ \A q \in Runs : verdict[q] # "none" => verdict'[q] # "none"
      /\ pc'[r] = "done" => verdict'[r] # "none"
  BY DEF TypeOK, Start, Goto, Clean
<1>4. /\ world.overlap \/ \A s \in Runs : pc[s] \notin Active
      /\ latest' = r /\ UNCHANGED <<class, round, target, world, claim, claimDeleted, pod, podDeleted, volume>>
  BY DEF Start, objects
<1>5. TypeOK'
  BY <1>1, <1>2, <1>3, <1>4 DEF TypeOK, Owner
<1>6. StorageInv'
  BY <1>2, <1>3, <1>4 DEF StorageInv, Active, Cleaning
<1> QED
  BY <1>5, <1>6

\* A step of one run's check reaches the others through its objects alone.
LEMMA CheckKeepsInv ==
    ASSUME TypeOK, StorageInv, NEW r \in Runs, pc[r] \in Active, UNCHANGED world,
           pc' \in [Runs -> Active \union {"idle", "done", "killed"}],
           \A q \in Runs \ {r} : pc'[q] = pc[q] /\ round'[q] = round[q] /\ verdict'[q] = verdict[q],
           round'[r] = 2 \/ pc'[r] = "done" => verdict'[r] # "none",
           ~world.overlap /\ pc'[r] \in {"createPod", "waitBound"} => claim' = r /\ ~claimDeleted'
    PROVE  StorageInv'
<1>1. \A q \in Runs : round'[q] = 2 \/ pc'[q] = "done" => verdict'[q] # "none"
  BY DEF StorageInv
<1>2. ASSUME ~world.overlap, NEW q \in Runs, pc'[q] \in Active  PROVE q = r
  BY <1>2 DEF StorageInv
<1>3. {"createPod", "waitBound"} \subseteq Active
  BY DEF Active, Probing
<1> QED
  BY <1>1, <1>2, <1>3 DEF StorageInv

LEMMA CheckKeeps ==
    ASSUME TypeOK, StorageInv, NEW r \in Runs, Check(r)
    PROVE  TypeOK' /\ StorageInv'
<1> DEFINE Moved ==
             /\ pc' \in [Runs -> Active \union {"idle", "done", "killed"}]
             /\ round' \in [Runs -> 1..2] /\ verdict' \in [Runs -> {"none", "passed", "failed"}]
             /\ \A q \in Runs \ {r} :
                   pc'[q] = pc[q] /\ round'[q] = round[q] /\ verdict'[q] = verdict[q]
             /\ round'[r] = 2 \/ pc'[r] = "done" => verdict'[r] # "none"
           Faulty ==
             /\ faulted' \in [Runs -> BOOLEAN]
             /\ kills' \in 0..world.kills /\ faults' \in 0..world.faults
<1> USE DEF Active, Cleaning, Probing
<1>1. CASE DeletePod(r)
  <2>1. Moved /\ pc[r] \in Active /\ pc'[r] = "readClaim"
    BY <1>1 DEF DeletePod, Goto, TypeOK, StorageInv
  <2>2. Faulty
    BY <1>1, FaultTyped DEF DeletePod
  <2>3. /\ UNCHANGED <<class, target, latest, world, claim, claimDeleted, pod, volume>>
        /\ podDeleted' \in BOOLEAN
    BY <1>1 DEF DeletePod, TypeOK
  <2>4. TypeOK'
    BY <2>1, <2>2, <2>3 DEF TypeOK
  <2>5. StorageInv'
    BY <2>1, <2>3, CheckKeepsInv
  <2> QED
    BY <2>4, <2>5
<1>2. CASE ReadClaim(r)
  <2>1. Moved /\ pc[r] \in Active /\ pc'[r] \in {"readVolume", "deleteClaim"}
    BY <1>2 DEF ReadClaim, Goto, TypeOK, StorageInv
  <2>2. Faulty
    BY <1>2, FaultTyped DEF ReadClaim
  <2>3. /\ UNCHANGED <<class, latest, world, claim, claimDeleted, pod, podDeleted, volume>>
        /\ target' \in [Runs -> Owner]
    BY <1>2 DEF ReadClaim, TypeOK, objects
  <2>4. TypeOK'
    BY <2>1, <2>2, <2>3 DEF TypeOK
  <2>5. StorageInv'
    BY <2>1, <2>3, CheckKeepsInv
  <2> QED
    BY <2>4, <2>5
<1>3. CASE ReadVolume(r)
  <2>1. Moved /\ pc[r] \in Active /\ pc'[r] \in {"patch", "deleteClaim"}
    BY <1>3 DEF ReadVolume, Goto, TypeOK, StorageInv
  <2>2. Faulty
    BY <1>3, FaultTyped DEF ReadVolume
  <2>3. UNCHANGED <<class, target, latest, world, claim, claimDeleted, pod, podDeleted, volume>>
    BY <1>3 DEF ReadVolume, objects
  <2>4. TypeOK'
    BY <2>1, <2>2, <2>3 DEF TypeOK
  <2>5. StorageInv'
    BY <2>1, <2>3, CheckKeepsInv
  <2> QED
    BY <2>4, <2>5
<1>4. CASE PatchVolume(r)
  <2>1. Moved /\ pc[r] \in Active /\ pc'[r] = "deleteClaim"
    BY <1>4 DEF PatchVolume, Goto, TypeOK, StorageInv
  <2>2. Faulty
    BY <1>4, FaultTyped DEF PatchVolume
  <2>3. UNCHANGED <<class, target, latest, world, claim, claimDeleted, pod, podDeleted>>
    BY <1>4 DEF PatchVolume
  <2>4. volume' \in [Runs -> Volume]
    BY <1>4 DEF PatchVolume, TypeOK, Volume, Policy
  <2>5. TypeOK'
    BY <2>1, <2>2, <2>3, <2>4 DEF TypeOK
  <2>6. StorageInv'
    BY <2>1, <2>3, CheckKeepsInv
  <2> QED
    BY <2>5, <2>6
<1>5. CASE DeleteClaim(r)
  <2>1. Moved /\ pc[r] \in Active /\ pc'[r] \in {"done", "waitPod", "waitClaim"}
    BY <1>5 DEF DeleteClaim, Goto, TypeOK, StorageInv
  <2>2. Faulty
    BY <1>5, FaultTyped DEF DeleteClaim
  <2>3. /\ UNCHANGED <<class, target, latest, world, claim, pod, podDeleted, volume>>
        /\ claimDeleted' \in BOOLEAN
    BY <1>5 DEF DeleteClaim, TypeOK
  <2>4. TypeOK'
    BY <2>1, <2>2, <2>3 DEF TypeOK
  <2>5. StorageInv'
    BY <2>1, <2>3, CheckKeepsInv
  <2> QED
    BY <2>4, <2>5
<1>6. CASE WaitPod(r) \/ WaitClaim(r)
  <2>1. PICK here \in {"waitPod", "waitClaim"}, gone \in BOOLEAN, next \in {"waitClaim", "createClaim"} :
           WaitGone(r, here, gone, next)
    BY <1>6 DEF WaitPod, WaitClaim
  <2>2. /\ pc[r] = here
        /\ UNCHANGED <<class, target, latest, world, claim, claimDeleted, pod, podDeleted, volume>>
        /\ \/ Goto(r, next) /\ UNCHANGED <<round, verdict>> /\ NoFault
           \/ Finish(r, "failed") /\ (Fault(r) \/ NoFault)
    BY <2>1 DEF WaitGone, objects
  <2>3. CASE Goto(r, next) /\ UNCHANGED <<round, verdict>> /\ NoFault
    <3>1. Moved /\ pc[r] \in Active /\ pc'[r] = next
      BY <2>2, <2>3 DEF Goto, TypeOK, StorageInv
    <3>2. Faulty
      BY <2>3, FaultTyped
    <3>3. TypeOK'
      BY <2>2, <3>1, <3>2 DEF TypeOK
    <3>4. StorageInv'
      BY <2>2, <3>1, CheckKeepsInv
    <3> QED
      BY <3>3, <3>4
  <2>4. CASE Finish(r, "failed") /\ (Fault(r) \/ NoFault)
    <3>1. Moved /\ pc[r] \in Active /\ pc'[r] \in Cleaning
      BY <2>2, <2>4, FinishKeeps
    <3>2. Faulty
      BY <2>4, FaultTyped
    <3>3. TypeOK'
      BY <2>2, <3>1, <3>2 DEF TypeOK
    <3>4. StorageInv'
      BY <2>2, <3>1, CheckKeepsInv
    <3> QED
      BY <3>3, <3>4
  <2> QED
    BY <2>2, <2>3, <2>4
<1>7. CASE CreateClaim(r)
  <2>1. Faulty
    BY <1>7, FaultTyped DEF CreateClaim
  <2>2. /\ UNCHANGED <<class, target, latest, world, pod, podDeleted, volume>>
        /\ claim' \in Owner /\ claimDeleted' \in BOOLEAN /\ pc[r] = "createClaim"
    BY <1>7 DEF CreateClaim, TypeOK, Owner
  <2>3. CASE claim' = r /\ claimDeleted' = FALSE /\ UNCHANGED <<round, verdict>>
             /\ Goto(r, IF Late(r) THEN "createPod" ELSE "waitBound")
    <3>1. Moved /\ pc[r] \in Active
      BY <2>2, <2>3 DEF Goto, TypeOK, StorageInv
    <3>2. TypeOK'
      BY <2>1, <2>2, <3>1 DEF TypeOK
    <3>3. StorageInv'
      BY <2>2, <2>3, <3>1, CheckKeepsInv
    <3> QED
      BY <3>2, <3>3
  <2>4. CASE Finish(r, "failed")
    <3>1. Moved /\ pc[r] \in Active /\ pc'[r] \in Cleaning
      BY <2>2, <2>4, FinishKeeps
    <3>2. TypeOK'
      BY <2>1, <2>2, <3>1 DEF TypeOK
    <3>3. StorageInv'
      BY <2>2, <3>1, CheckKeepsInv
    <3> QED
      BY <3>2, <3>3
  <2> QED
    BY <1>7, <2>3, <2>4 DEF CreateClaim
<1>8. CASE CreatePod(r)
  <2>1. Faulty
    BY <1>8, FaultTyped DEF CreatePod
  <2>2. /\ UNCHANGED <<class, target, latest, world, claim, claimDeleted, volume>>
        /\ pod' \in Owner /\ podDeleted' \in BOOLEAN /\ pc[r] = "createPod"
    BY <1>8 DEF CreatePod, TypeOK, Owner
  <2>3. CASE Goto(r, "waitBound") /\ UNCHANGED <<round, verdict>>
    <3>1. Moved /\ pc[r] \in Active
      BY <2>2, <2>3 DEF Goto, TypeOK, StorageInv
    <3>2. ~world.overlap => claim' = r /\ ~claimDeleted'
      BY <2>2 DEF StorageInv
    <3>3. TypeOK'
      BY <2>1, <2>2, <3>1 DEF TypeOK
    <3>4. StorageInv'
      BY <2>2, <3>1, <3>2, CheckKeepsInv
    <3> QED
      BY <3>3, <3>4
  <2>4. CASE Finish(r, "failed")
    <3>1. Moved /\ pc[r] \in Active /\ pc'[r] \in Cleaning
      BY <2>2, <2>4, FinishKeeps
    <3>2. TypeOK'
      BY <2>1, <2>2, <3>1 DEF TypeOK
    <3>3. StorageInv'
      BY <2>2, <3>1, CheckKeepsInv
    <3> QED
      BY <3>2, <3>3
  <2> QED
    BY <1>8, <2>3, <2>4 DEF CreatePod
<1>9. CASE WaitBound(r)
  <2>1. PICK v \in {"passed", "failed"} : Finish(r, v)
    BY <1>9 DEF WaitBound
  <2>2. UNCHANGED <<class, target, latest, world, claim, claimDeleted, pod, podDeleted, volume>>
        /\ pc[r] = "waitBound"
    BY <1>9 DEF WaitBound, objects
  <2>3. Moved /\ pc[r] \in Active /\ pc'[r] \in Cleaning
    BY <2>1, <2>2, FinishKeeps
  <2>4. Faulty
    BY <1>9, FaultTyped DEF WaitBound
  <2>5. TypeOK'
    BY <2>2, <2>3, <2>4 DEF TypeOK
  <2>6. StorageInv'
    BY <2>2, <2>3, CheckKeepsInv
  <2> QED
    BY <2>5, <2>6
<1> QED
  BY <1>1, <1>2, <1>3, <1>4, <1>5, <1>6, <1>7, <1>8, <1>9 DEF Check

LEMMA KillKeeps ==
    ASSUME TypeOK, StorageInv, NEW r \in Runs, Kill(r)
    PROVE  TypeOK' /\ StorageInv'
<1>1. /\ pc' \in [Runs -> Active \union {"idle", "done", "killed"}]
      /\ pc'[r] = "killed" /\ \A q \in Runs \ {r} : pc'[q] = pc[q]
  BY DEF Kill, Goto, TypeOK
<1>2. kills' \in 0..world.kills
  BY TypedWorlds DEF Kill, TypeOK
<1>3. UNCHANGED <<class, round, target, verdict, faulted, latest, world, claim, claimDeleted,
                  pod, podDeleted, volume, faults>>
  BY DEF Kill, run, objects
<1>4. TypeOK'
  BY <1>1, <1>2, <1>3 DEF TypeOK
<1>5. StorageInv'
  BY <1>1, <1>3 DEF StorageInv, Active, Cleaning, Probing
<1> QED
  BY <1>4, <1>5

LEMMA ControllersKeep ==
    ASSUME TypeOK, StorageInv, Cluster
    PROVE  TypeOK' /\ StorageInv'
<1>1. UNCHANGED <<pc, class, round, target, verdict, faulted, latest, world, kills, faults>>
  BY DEF Cluster, PodGone, Provision, Bind, ClaimGone, Reclaim, run, bounds
<1>2. /\ claim' \in Owner /\ claimDeleted' \in BOOLEAN /\ pod' \in Owner /\ podDeleted' \in BOOLEAN
      /\ claim' # claim \/ claimDeleted' # claimDeleted => claimDeleted
  BY DEF Cluster, PodGone, Provision, Bind, ClaimGone, Reclaim, TypeOK, Owner
<1>3. volume' \in [Runs -> Volume]
  <2>1. \A r \in Runs : class[r].reclaim \in Policy
    BY TypedWorlds
  <2>2. CASE PodGone
    BY <2>2 DEF PodGone, TypeOK
  <2>3. CASE Provision
    <3>1. claim \in Runs
      BY <2>3 DEF Provision, TypeOK, Owner
    <3>2. [at |-> "provisioned", policy |-> class[claim].reclaim] \in Volume
      BY <2>1, <3>1 DEF Volume
    <3> QED
      BY <2>3, <3>2 DEF Provision, TypeOK
  <2>4. CASE Bind
    BY <2>4 DEF Bind, TypeOK, Volume
  <2>5. CASE ClaimGone
    BY <2>5 DEF ClaimGone, TypeOK, Volume
  <2>6. CASE \E r \in Runs : Reclaim(r)
    BY <2>6 DEF Reclaim, TypeOK, Volume
  <2> QED
    BY <2>2, <2>3, <2>4, <2>5, <2>6 DEF Cluster
<1>4. TypeOK'
  BY <1>1, <1>2, <1>3 DEF TypeOK
<1>5. StorageInv'
  BY <1>1, <1>2 DEF StorageInv
<1> QED
  BY <1>4, <1>5

----------------------------------------------------------------------------
(* What it is to be wrong.                                                  *)

LEMMA WrongIs ==
    ASSUME NEW w \in Wrong
    PROVE  /\ w[1] \in Checks \ {"storage"}
           /\ w[1] = "nodes" => w[2] \in DOMAIN cluster.nodes /\ ~cluster.nodes[w[2]].ready
           /\ w[1] = "crossNode" => w[2] \in cluster.silent /\ cluster.dns[w[2]].state = "running"
           /\ w[1] = "dataVolumes" =>
                 /\ w[2] \in DOMAIN cluster.claims
                 /\ cluster.claims[w[2]].ns \in cluster.labelled /\ Survives(w[2]) # "Retain"
           /\ w[1] = "secretStores" => w[2] \in DOMAIN cluster.stores /\ ~cluster.stores[w[2]]
           /\ w[1] = "networkPolicies" => w[2] \in DOMAIN cluster.policies /\ ~cluster.policies[w[2]]
           /\ w[1] = "loadBalancers" =>
                 \/ w[2] \in DOMAIN cluster.services /\ ~cluster.services[w[2]]
                 \/ /\ w = <<"loadBalancers", "targets", 0>>
                    /\ DOMAIN cluster.services # {} /\ DOMAIN cluster.nodes # {}
                    /\ \A n \in DOMAIN cluster.nodes : ~cluster.nodes[n].target
           /\ w[1] = "externalMetrics" => cluster.metrics \notin {"absent", "served"}
           /\ w[1] = "imageAdmission" => cluster.admission \notin {"unlabelled", "refused"}
<1> DEFINE Of(c) == w = <<c, w[2]>> /\ w[1] = c
<1>1. \/ Of("nodes") /\ w[2] \in DOMAIN cluster.nodes /\ ~cluster.nodes[w[2]].ready
      \/ Of("crossNode") /\ w[2] \in cluster.silent /\ cluster.dns[w[2]].state = "running"
      \/ Of("dataVolumes") /\ w[2] \in DOMAIN cluster.claims
            /\ cluster.claims[w[2]].ns \in cluster.labelled /\ Survives(w[2]) # "Retain"
      \/ Of("secretStores") /\ w[2] \in DOMAIN cluster.stores /\ ~cluster.stores[w[2]]
      \/ Of("networkPolicies") /\ w[2] \in DOMAIN cluster.policies /\ ~cluster.policies[w[2]]
      \/ Of("loadBalancers") /\ w[2] \in DOMAIN cluster.services /\ ~cluster.services[w[2]]
      \/ /\ w[1] = "loadBalancers" /\ w = <<"loadBalancers", "targets", 0>>
         /\ DOMAIN cluster.services # {} /\ DOMAIN cluster.nodes # {}
         /\ \A n \in DOMAIN cluster.nodes : ~cluster.nodes[n].target
      \/ Of("externalMetrics") /\ cluster.metrics \notin {"absent", "served"}
      \/ Of("imageAdmission") /\ cluster.admission \notin {"unlabelled", "refused"}
  BY DEF Wrong
<1> QED
  BY <1>1, TheChecks

\* A cluster that moves keeps its objects: nodes, services and claims are none
\* more or less, a claim that is bound stays so, and what a replica runs on.
ClusterKeeps ==
    /\ Readable(cluster')
    /\ DOMAIN cluster'.nodes = DOMAIN cluster.nodes
    /\ DOMAIN cluster'.services = DOMAIN cluster.services
    /\ DOMAIN cluster'.claims = DOMAIN cluster.claims
    /\ \A k \in DOMAIN cluster.claims :
          /\ cluster'.claims[k].ns = cluster.claims[k].ns
          /\ cluster'.claims[k].class = cluster.claims[k].class
          /\ cluster.claims[k].volume # "none" => cluster'.claims[k].volume # "none"
    /\ \A i \in Replica : cluster.dns[i].state = "running" => cluster'.dns[i].node = cluster.dns[i].node

MovesOn ==
    /\ DOMAIN scene' = {"played", "moves"} /\ scene'.played = scene.played
    /\ steady' = [r \in Runs |-> steady[r] \intersect Wrong']
    /\ UNCHANGED <<vars, step, seen, results, prober>>

LEMMA BecomesMovesOn ==
    ASSUME Shapes, NEW kind, NEW c, Becomes(kind, c)
    PROVE  cluster' = c /\ MovesOn
BY DEF Becomes, MovesOn, Shapes

LEMMA NodesKeep ==
    ASSUME Shapes, NEW c, NEW n \in DOMAIN cluster.nodes, NEW h \in Health,
           c = [cluster EXCEPT !.nodes[n] = h]
    PROVE  c = cluster' => ClusterKeeps
<1>1. /\ c.nodes = [cluster.nodes EXCEPT ![n] = h]
      /\ DOMAIN c = DOMAIN cluster
      /\ c.dns = cluster.dns /\ c.silent = cluster.silent /\ c.services = cluster.services
      /\ c.claims = cluster.claims /\ c.metrics = cluster.metrics
  BY DEF Shapes, Readable
<1>2. c.nodes \in [DOMAIN cluster.nodes -> Health]
  BY <1>1 DEF Shapes, Readable
<1>3. DOMAIN c.nodes = DOMAIN cluster.nodes
  BY <1>2
<1>4. Readable(c)
  BY <1>1, <1>2, <1>3 DEF Shapes, Readable
<1> QED
  BY <1>1, <1>3, <1>4 DEF ClusterKeeps

LEMMA NodesMove == Shapes /\ NodeTurns => ClusterKeeps /\ MovesOn
<1> SUFFICES ASSUME Shapes, NodeTurns  PROVE ClusterKeeps /\ MovesOn
  OBVIOUS
<1>1. PICK n \in DOMAIN cluster.nodes : Becomes("nodes", [cluster EXCEPT !.nodes[n].ready = ~@])
  BY DEF NodeTurns
<1>2. cluster' = [cluster EXCEPT !.nodes[n].ready = ~@] /\ MovesOn
  BY <1>1, BecomesMovesOn
<1>3. cluster.nodes[n] \in Health
  BY DEF Shapes, Readable
<1>4. [cluster.nodes[n] EXCEPT !.ready = ~@] \in Health
  BY <1>3 DEF Health
<1>5. cluster' = [cluster EXCEPT !.nodes[n] = [cluster.nodes[n] EXCEPT !.ready = ~@]]
  BY <1>2
<1> QED
  BY <1>2, <1>4, <1>5, NodesKeep

LEMMA ReplicasMove == Shapes /\ DnsMoves => ClusterKeeps /\ MovesOn
<1> SUFFICES ASSUME Shapes, DnsMoves  PROVE ClusterKeeps /\ MovesOn
  OBVIOUS
<1>1. PICK i \in Replica :
        \/ /\ cluster.dns[i].state = "unborn"
           /\ \E n \in DOMAIN cluster.nodes :
                 Becomes("dns", [cluster EXCEPT !.dns[i] = [state |-> "placed", node |-> n]])
        \/ cluster.dns[i].state = "placed" /\ Becomes("dns", [cluster EXCEPT !.dns[i].state = "running"])
        \/ cluster.dns[i].state = "running" /\ Becomes("dns", [cluster EXCEPT !.dns[i].state = "gone"])
        \/ Becomes("dns", [cluster EXCEPT !.silent = SymDiff(@, {i})])
  BY DEF DnsMoves
<1>2. CASE cluster.dns[i].state = "unborn" /\ \E n \in DOMAIN cluster.nodes :
                 Becomes("dns", [cluster EXCEPT !.dns[i] = [state |-> "placed", node |-> n]])
  <2>1. PICK n \in DOMAIN cluster.nodes :
            Becomes("dns", [cluster EXCEPT !.dns[i] = [state |-> "placed", node |-> n]])
    BY <1>2
  <2>2. cluster' = [cluster EXCEPT !.dns[i] = [state |-> "placed", node |-> n]] /\ MovesOn
    BY <2>1, BecomesMovesOn
  <2> QED
    BY <1>2, <2>2 DEF Shapes, Readable, ClusterKeeps
<1>3. CASE cluster.dns[i].state = "placed" /\ Becomes("dns", [cluster EXCEPT !.dns[i].state = "running"])
  <2>1. cluster' = [cluster EXCEPT !.dns[i].state = "running"] /\ MovesOn
    BY <1>3, BecomesMovesOn
  <2> QED
    BY <2>1 DEF Shapes, Readable, ClusterKeeps
<1>4. CASE cluster.dns[i].state = "running" /\ Becomes("dns", [cluster EXCEPT !.dns[i].state = "gone"])
  <2>1. cluster' = [cluster EXCEPT !.dns[i].state = "gone"] /\ MovesOn
    BY <1>4, BecomesMovesOn
  <2> QED
    BY <2>1 DEF Shapes, Readable, ClusterKeeps
<1>5. CASE Becomes("dns", [cluster EXCEPT !.silent = SymDiff(@, {i})])
  <2>1. cluster' = [cluster EXCEPT !.silent = SymDiff(@, {i})] /\ MovesOn
    BY <1>5, BecomesMovesOn
  <2> QED
    BY <2>1 DEF Shapes, Readable, ClusterKeeps, SymDiff
<1> QED
  BY <1>1, <1>2, <1>3, <1>4, <1>5

LEMMA VolumesMove == Shapes /\ DataMoves => ClusterKeeps /\ MovesOn
<1> SUFFICES ASSUME Shapes, DataMoves  PROVE ClusterKeeps /\ MovesOn
  OBVIOUS
<1>1. CASE \E k \in DOMAIN cluster.claims : \E v \in Policy \union {"lost"} :
               Becomes("data", [cluster EXCEPT !.claims[k].volume = v])
  <2>1. PICK k \in DOMAIN cluster.claims, v \in Policy \union {"lost"} :
               Becomes("data", [cluster EXCEPT !.claims[k].volume = v])
    BY <1>1
  <2>2. cluster' = [cluster EXCEPT !.claims[k].volume = v] /\ MovesOn
    BY <2>1, BecomesMovesOn
  <2> QED
    BY <2>2 DEF Shapes, Readable, ClusterKeeps, Policy
<1>2. CASE \E c \in DOMAIN cluster.classes, p \in Policy :
               Becomes("data", [cluster EXCEPT !.classes[c] = p])
  <2>1. PICK c \in DOMAIN cluster.classes, p \in Policy :
               Becomes("data", [cluster EXCEPT !.classes[c] = p])
    BY <1>2
  <2>2. cluster' = [cluster EXCEPT !.classes[c] = p] /\ MovesOn
    BY <2>1, BecomesMovesOn
  <2> QED
    BY <2>2 DEF Shapes, Readable, ClusterKeeps
<1>3. CASE \E c \in DOMAIN cluster.classes : Becomes("data", [cluster EXCEPT !.default = c])
  <2>1. PICK c \in DOMAIN cluster.classes : Becomes("data", [cluster EXCEPT !.default = c])
    BY <1>3
  <2>2. cluster' = [cluster EXCEPT !.default = c] /\ MovesOn
    BY <2>1, BecomesMovesOn
  <2> QED
    BY <2>2 DEF Shapes, Readable, ClusterKeeps
<1>4. CASE \E k \in DOMAIN cluster.claims :
               Becomes("data", [cluster EXCEPT !.labelled = SymDiff(@, {cluster.claims[k].ns})])
  <2>1. PICK k \in DOMAIN cluster.claims :
               Becomes("data", [cluster EXCEPT !.labelled = SymDiff(@, {cluster.claims[k].ns})])
    BY <1>4
  <2>2. cluster' = [cluster EXCEPT !.labelled = SymDiff(@, {cluster.claims[k].ns})] /\ MovesOn
    BY <2>1, BecomesMovesOn
  <2> QED
    BY <2>2 DEF Shapes, Readable, ClusterKeeps
<1> QED
  BY <1>1, <1>2, <1>3, <1>4 DEF DataMoves

LEMMA StatusesMove == Shapes /\ StatusMoves => ClusterKeeps /\ MovesOn
<1> SUFFICES ASSUME Shapes, StatusMoves  PROVE ClusterKeeps /\ MovesOn
  OBVIOUS
<1>1. \E c : /\ Becomes("status", c)
             /\ \/ \E s \in DOMAIN cluster.stores : c = [cluster EXCEPT !.stores[s] = ~@]
                \/ \E p \in DOMAIN cluster.policies : c = [cluster EXCEPT !.policies[p] = ~@]
                \/ \E s \in DOMAIN cluster.services : c = [cluster EXCEPT !.services[s] = ~@]
                \/ \E n \in DOMAIN cluster.nodes : c = [cluster EXCEPT !.nodes[n].target = ~@]
                \/ \E m \in {"absent", "served", "failing"} : c = [cluster EXCEPT !.metrics = m]
                \/ \E a : c = [cluster EXCEPT !.admission = a]
  BY DEF StatusMoves
<1>2. PICK c : Becomes("status", c)
             /\ \/ \E s \in DOMAIN cluster.stores : c = [cluster EXCEPT !.stores[s] = ~@]
                \/ \E p \in DOMAIN cluster.policies : c = [cluster EXCEPT !.policies[p] = ~@]
                \/ \E s \in DOMAIN cluster.services : c = [cluster EXCEPT !.services[s] = ~@]
                \/ \E n \in DOMAIN cluster.nodes : c = [cluster EXCEPT !.nodes[n].target = ~@]
                \/ \E m \in {"absent", "served", "failing"} : c = [cluster EXCEPT !.metrics = m]
                \/ \E a : c = [cluster EXCEPT !.admission = a]
  BY <1>1
<1>3. cluster' = c /\ MovesOn
  BY <1>2, BecomesMovesOn
<1>4. ASSUME NEW n \in DOMAIN cluster.nodes, c = [cluster EXCEPT !.nodes[n].target = ~@]
      PROVE  ClusterKeeps
  <2>1. cluster.nodes[n] \in Health
    BY DEF Shapes, Readable
  <2>2. [cluster.nodes[n] EXCEPT !.target = ~@] \in Health
    BY <2>1 DEF Health
  <2>3. c = [cluster EXCEPT !.nodes[n] = [cluster.nodes[n] EXCEPT !.target = ~@]]
    BY <1>4
  <2> QED
    BY <1>3, <2>2, <2>3, NodesKeep
<1>5. ASSUME NEW s \in DOMAIN cluster.services, c = [cluster EXCEPT !.services[s] = ~@]
      PROVE  ClusterKeeps
  BY <1>3, <1>5 DEF Shapes, Readable, ClusterKeeps
<1>6. ASSUME \/ \E s \in DOMAIN cluster.stores : c = [cluster EXCEPT !.stores[s] = ~@]
             \/ \E p \in DOMAIN cluster.policies : c = [cluster EXCEPT !.policies[p] = ~@]
             \/ \E m \in {"absent", "served", "failing"} : c = [cluster EXCEPT !.metrics = m]
             \/ \E a : c = [cluster EXCEPT !.admission = a]
      PROVE  ClusterKeeps
  BY <1>3, <1>6 DEF Shapes, Readable, ClusterKeeps
<1> QED
  BY <1>2, <1>3, <1>4, <1>5, <1>6

----------------------------------------------------------------------------
(* The frames: a run while the cluster moves, and while another run steps.  *)

LEMMA RunsWhileItMoves ==
    ASSUME Shapes, NEW r \in Runs, RunOf(r), ClusterKeeps, MovesOn
    PROVE  RunOf(r)'
<1>1. /\ step'[r] = step[r] /\ seen'[r] = seen[r] /\ told'[r] = told[r] /\ failed'[r] = failed[r]
      /\ world' = world /\ scene'.played = scene.played
      /\ steady'[r] = steady[r] \intersect Wrong'
  BY DEF MovesOn, vars, run, results
<1>2. \A w \in steady'[r] : w \in steady[r] /\ w \in Wrong
  BY <1>1 DEF RunOf
<1>3. steady'[r] \subseteq Wrong'
  BY <1>1
<1>4. Untold(r)'
  BY <1>1 DEF RunOf, Untold
<1>5. HoldsProbe(r)'
  <2>1. \A w \in steady'[r] : w[1] = "crossNode" =>
            w[2] \in Replica /\ cluster.dns[w[2]].state = "running"
    BY <1>2, WrongIs DEF Shapes, Readable
  <2> QED
    BY <1>1, <1>2, <2>1 DEF RunOf, HoldsProbe, ClusterKeeps
<1>6. HoldsVolumes(r)'
  <2> SUFFICES ASSUME NEW w \in steady'[r], w[1] = "dataVolumes"
               PROVE  /\ step'[r] \in VolumeSteps => cluster'.claims[w[2]].ns \in seen'[r].labelled
                      /\ step'[r] = "readVolumes" =>
                          /\ \/ cluster'.claims[w[2]].ns \in seen'[r].todo
                             \/ w[2] \in seen'[r].bound
                             \/ ~(seen'[r].policies \subseteq {"Retain"})
                          /\ w[2] \in seen'[r].bound => cluster'.claims[w[2]].volume # "none"
                          /\ cluster'.claims[w[2]].volume = "none" =>
                                 ClassPolicy(seen[r], w[2])' # "Retain"
    BY <1>1 DEF RunOf, HoldsVolumes
  <2>1. w \in steady[r] /\ w[2] \in DOMAIN cluster.claims
    BY <1>2, WrongIs
  <2>2. /\ cluster'.claims[w[2]].ns = cluster.claims[w[2]].ns
        /\ cluster'.claims[w[2]].class = cluster.claims[w[2]].class
        /\ cluster.claims[w[2]].volume # "none" => cluster'.claims[w[2]].volume # "none"
    BY <2>1 DEF ClusterKeeps
  <2>3. ClassPolicy(seen[r], w[2])' = ClassPolicy(seen[r], w[2])
    BY <1>1, <2>2 DEF ClassPolicy
  <2> QED
    BY <1>1, <2>1, <2>2, <2>3 DEF RunOf, HoldsVolumes
<1>7. HoldsServices(r)'
  BY <1>1, <1>2 DEF RunOf, HoldsServices, ClusterKeeps
<1>8. Told(r)' /\ Behind(r)'
  BY <1>1, <1>2 DEF RunOf, Told, Behind
<1> QED
  BY <1>3, <1>4, <1>5, <1>6, <1>7, <1>8 DEF RunOf

LEMMA OtherRunsKeep ==
    ASSUME NEW r \in Runs, RunOf(r), UNCHANGED <<cluster, scene, world>>, steady'[r] = steady[r],
           step'[r] = step[r], seen'[r] = seen[r], told'[r] = told[r], failed'[r] = failed[r]
    PROVE  RunOf(r)'
<1>1. Wrong' = Wrong
  BY DEF Wrong, Survives
<1>2. ASSUME NEW k  PROVE ClassPolicy(seen[r], k)' = ClassPolicy(seen[r], k)
  BY DEF ClassPolicy
<1>3. HoldsVolumes(r)'
  BY <1>2 DEF RunOf, HoldsVolumes
<1>4. Untold(r)' /\ HoldsProbe(r)' /\ HoldsServices(r)' /\ Told(r)' /\ Behind(r)'
  BY DEF RunOf, Untold, HoldsProbe, HoldsServices, Told, Behind
<1> QED
  BY <1>1, <1>3, <1>4 DEF RunOf

\* What a step of a run under way does, whatever it is.
Advances(r) ==
    /\ step[r] \notin Over
    /\ \A q \in Runs \ {r} : /\ step'[q] = step[q] /\ seen'[q] = seen[q]
                             /\ told'[q] = told[q] /\ failed'[q] = failed[q]
    /\ step' \in [Runs -> Labels] /\ DOMAIN seen' = Runs /\ failed' \in [Runs -> BOOLEAN]
    /\ told' \in [Runs -> (Checks \X {"passed", "failed", "skipped"}) \union {<<Nothing, Nothing>>}]
    /\ step'[r] = "waitAnswers" => CheckOf(step[r]) = "crossNode"
    /\ UNCHANGED <<cluster, scene, steady, world>>
    /\ RunOf(r)'

LEMMA PositionAfter ==
    ASSUME NEW c \in Checks, NEW d \in Checks \intersect scene.played,
           Place(d) < Position(After(c)), d # c
    PROVE  Place(d) < Place(c)
<1>1. Place(c) \in 1..9 /\ Place(c) + 1 \in 1..10 /\ Place(d) \in 1..9
  BY TheChecks
<1>2. Place(d) < Place(c) + 1
  <2>1. Place(d) < Position(FirstFrom(Place(c) + 1)) => Place(d) < Place(c) + 1
    BY <1>1, FirstFromSkipsNone
  <2> QED
    BY <2>1 DEF After
<1>3. Place(d) # Place(c)
  BY TheChecks
<1> QED
  BY <1>1, <1>2, <1>3

LEMMA AfterIs ==
    ASSUME NEW c \in Checks
    PROVE  After(c) \in Checks \union {"over"}
<1>1. Place(c) \in 1..9
  BY TheChecks
<1>2. Place(c) + 1 \in 1..10
  BY <1>1
<1>3. FirstFrom(Place(c) + 1) \in Checks \union {"over"}
  BY <1>2, FirstFromSkipsNone
<1> QED
  BY <1>3 DEF After

\* The label behind a verdict is no label between calls.
LEMMA Labelled ==
    /\ Checks \intersect (ProbeSteps \union VolumeSteps \union {"listDns", "listTargets", "submit", "dropProber", "idle"}) = {}
    /\ "over" \notin ProbeSteps \union VolumeSteps /\ "dropProber" \notin ProbeSteps \union VolumeSteps
    /\ \A c \in Checks : CheckOf(c) = c /\ Position(c) = Place(c) /\ c \notin Over
BY TheChecks DEF ProbeSteps, VolumeSteps, CrossSteps, CheckOf, Position, Over

\* Where a run comes to stand behind the checks before it.
LEMMA BehindAt ==
    ASSUME NEW r \in Runs, NEW l, step'[r] = l,
           \A w \in steady'[r] :
               w[1] \in scene'.played \ {"crossNode"} /\ Place(w[1]) < Position(l) => failed'[r]
    PROVE  Behind(r)'
<1>1. Position(step[r])' = Position(l)
  BY SMTT(30) DEF Position, CheckOf, Place
<1>2. \A w \in steady'[r] :
          w[1] \in scene'.played \ {"crossNode"} /\ Place(w[1]) < Position(step[r])' => failed'[r]
  BY <1>1
<1> QED
  BY <1>2, SMTT(30) DEF Behind, Position, CheckOf, Place

\* A verdict that is sound of what is steadily wrong.
LEMMA SaysKeeps ==
    ASSUME RunInv, NEW r \in Runs, NEW c \in Checks, NEW v \in {"passed", "failed", "skipped"}, NEW l,
           step[r] \notin Over, CheckOf(step[r]) = c,
           l = After(c) \/ (l = "dropProber" /\ c = "crossNode"),
           Says(r, c, v, l), UNCHANGED <<cluster, scene, steady, world>>,
           \A w \in steady[r] : w[1] = c =>
               v = "failed" \/ (c = "crossNode" /\ (v = "skipped" \/ world.overlap))
    PROVE  Advances(r)
<1> USE DEF RunInv
<1>1. /\ step \in [Runs -> Labels] /\ DOMAIN seen = Runs /\ failed \in [Runs -> BOOLEAN]
      /\ told \in [Runs -> (Checks \X {"passed", "failed", "skipped"}) \union {<<Nothing, Nothing>>}]
  BY DEF RunTypeOK, Shapes, Labels, CrossSteps, ProbeSteps, VolumeSteps
<1>2. l \in Checks \union {"over", "dropProber"}
  BY AfterIs
<1>3. l \in Labels
  BY <1>2 DEF Labels, Over, CrossSteps
<1>4. /\ step' = [step EXCEPT ![r] = l] /\ seen' = [seen EXCEPT ![r] = Nothing]
      /\ told' = [told EXCEPT ![r] = <<c, v>>] /\ failed' = [failed EXCEPT ![r] = @ \/ v = "failed"]
  BY DEF Says, To
<1>5. /\ step' \in [Runs -> Labels] /\ DOMAIN seen' = Runs
      /\ told' \in [Runs -> (Checks \X {"passed", "failed", "skipped"}) \union {<<Nothing, Nothing>>}]
      /\ \A q \in Runs \ {r} : /\ step'[q] = step[q] /\ seen'[q] = seen[q]
                               /\ told'[q] = told[q] /\ failed'[q] = failed[q]
      /\ step'[r] = l /\ told'[r] = <<c, v>>
  BY <1>1, <1>3, <1>4
<1>6. failed' \in [Runs -> BOOLEAN] /\ (failed[r] \/ v = "failed" => failed'[r])
  BY <1>1, <1>4
<1>7. steady'[r] \subseteq Wrong' /\ RunOf(r)
  BY DEF RunOf, Wrong, Survives
<1>8. Untold(r)' /\ HoldsProbe(r)' /\ HoldsVolumes(r)' /\ HoldsServices(r)'
  <2>1. l \notin ProbeSteps \union VolumeSteps \union {"listDns", "listTargets", "idle"}
    BY <1>2, Labelled DEF ProbeSteps, VolumeSteps
  <2> QED
    BY <1>5, <2>1 DEF Untold, HoldsProbe, HoldsVolumes, HoldsServices, VolumeSteps
<1>9. Told(r)'
  BY <1>5 DEF Told
<1>10. Behind(r)'
  <2> SUFFICES ASSUME NEW w \in steady[r], w[1] \in scene.played \ {"crossNode"}, Place(w[1]) < Position(l)
               PROVE  failed[r] \/ v = "failed"
    BY <1>5, <1>6, BehindAt
  <2>1. w[1] \in Checks
    BY <1>7, WrongIs DEF RunOf
  <2>2. CASE w[1] = c
    BY <2>2
  <2>3. CASE w[1] # c
    <3>1. Place(w[1]) < Place(c)
      <4>1. CASE l = After(c)
        BY <2>1, <2>3, <4>1, PositionAfter
      <4>2. CASE l = "dropProber" /\ c = "crossNode"
        BY <4>2, TheChecks DEF Position, CheckOf, CrossSteps, Over
      <4> QED
        BY <4>1, <4>2
    <3>2. Position(step[r]) = Place(c)
      BY DEF Position, Over
    <3> QED
      BY <1>7, <3>1, <3>2 DEF RunOf, Behind
  <2> QED
    BY <2>2, <2>3
<1>11. RunOf(r)'
  BY <1>7, <1>8, <1>9, <1>10 DEF RunOf
<1>12. l # "waitAnswers"
  BY <1>2, TheChecks
<1> QED
  BY <1>5, <1>6, <1>11, <1>12 DEF Advances

\* A call that is not the last of its check.
LEMMA ReadsKeep ==
    ASSUME RunInv, NEW r \in Runs, NEW l \in Labels \ Over, NEW what,
           step[r] \notin Over, CheckOf(l) = CheckOf(step[r]),
           Reads(r, what, l) \/ (To(r, l) /\ what = seen[r] /\ UNCHANGED <<seen, results>>),
           UNCHANGED <<cluster, scene, steady, world>>,
           step'[r] = l /\ seen'[r] = what =>
               HoldsProbe(r)' /\ HoldsVolumes(r)' /\ HoldsServices(r)'
    PROVE  Advances(r)
<1> USE DEF RunInv
<1>1. /\ step \in [Runs -> Labels] /\ DOMAIN seen = Runs /\ failed \in [Runs -> BOOLEAN]
      /\ told \in [Runs -> (Checks \X {"passed", "failed", "skipped"}) \union {<<Nothing, Nothing>>}]
  BY DEF RunTypeOK, Shapes, Labels, CrossSteps, ProbeSteps, VolumeSteps
<1>2. /\ step' = [step EXCEPT ![r] = l]
      /\ seen' = [seen EXCEPT ![r] = what] \/ (seen' = seen /\ what = seen[r])
      /\ UNCHANGED <<told, failed>>
  BY DEF Reads, To, results
<1>3. /\ step' \in [Runs -> Labels] /\ DOMAIN seen' = Runs /\ step'[r] = l /\ seen'[r] = what
      /\ \A q \in Runs \ {r} : step'[q] = step[q] /\ seen'[q] = seen[q]
  BY <1>1, <1>2
<1>4. RunOf(r) /\ steady'[r] \subseteq Wrong'
  BY DEF RunOf, Wrong, Survives
<1>5. Position(l) = Position(step[r]) /\ l # "idle"
  BY DEF Position, Over
<1>6. Untold(r)' /\ Told(r)'
  BY <1>2, <1>3, <1>4, <1>5 DEF RunOf, Untold, Told
<1>7. Behind(r)'
  <2>1. \A w \in steady[r] :
            w[1] \in scene.played \ {"crossNode"} /\ Place(w[1]) < Position(l) => failed[r]
    BY <1>4, <1>5 DEF RunOf, Behind
  <2> QED
    BY <1>2, <1>3, <2>1, BehindAt
<1>8. RunOf(r)'
  BY <1>3, <1>4, <1>6, <1>7 DEF RunOf
<1>9. l = "waitAnswers" => CheckOf(step[r]) = "crossNode"
  BY DEF CheckOf, CrossSteps, ProbeSteps
<1> QED
  BY <1>1, <1>2, <1>3, <1>8, <1>9 DEF Advances

----------------------------------------------------------------------------
(* The checks of one call.                                                  *)

LEMMA SteadyIsWrong ==
    ASSUME RunInv, NEW r \in Runs, NEW w \in steady[r]
    PROVE  w \in Wrong
BY DEF RunInv, RunOf

LEMMA AskKeeps ==
    ASSUME RunInv, NEW r \in Runs, NEW c \in Checks, NEW v \in {"passed", "failed", "skipped"},
           Ask(r, c, v), \A w \in steady[r] : w[1] = c => v = "failed"
    PROVE  Advances(r)
<1>1. /\ step[r] = c /\ UNCHANGED <<cluster, scene, steady, world>>
      /\ Says(r, c, v, After(c)) \/ Says(r, c, "failed", After(c))
  BY DEF Ask, OnlyReads, storage
<1>2. step[r] \notin Over /\ CheckOf(step[r]) = c
  BY <1>1, Labelled
<1> QED
  BY <1>1, <1>2, SaysKeeps

LEMMA OneCallKeeps ==
    ASSUME RunInv, NEW r \in Runs,
           \/ checkNodes(r) \/ checkSecretStores(r) \/ checkNetworkPolicies(r)
           \/ checkExternalMetrics(r)
    PROVE  Advances(r)
<1> USE SteadyIsWrong, WrongIs, TheChecks, AskKeeps
<1>1. CASE checkNodes(r)
  <2>1. /\ NodesReady(cluster.nodes) \in {"passed", "failed", "skipped"}
        /\ \A w \in steady[r] : w[1] = "nodes" => NodesReady(cluster.nodes) = "failed"
    BY DEF NodesReady
  <2> QED
    BY <1>1, <2>1 DEF checkNodes
<1>2. CASE checkSecretStores(r)
  <2>1. /\ Conditions(cluster.stores) \in {"passed", "failed", "skipped"}
        /\ \A w \in steady[r] : w[1] = "secretStores" => Conditions(cluster.stores) = "failed"
    BY DEF Conditions
  <2> QED
    BY <1>2, <2>1 DEF checkSecretStores, SecretStoresAreReady
<1>3. CASE checkNetworkPolicies(r)
  <2>1. /\ Conditions(cluster.policies) \in {"passed", "failed", "skipped"}
        /\ \A w \in steady[r] : w[1] = "networkPolicies" => Conditions(cluster.policies) = "failed"
    BY DEF Conditions
  <2> QED
    BY <1>3, <2>1 DEF checkNetworkPolicies, NetworkPoliciesAreValid
<1>4. CASE checkExternalMetrics(r)
  <2>1. cluster.metrics \in {"absent", "served", "failing"}
    BY DEF RunInv, Shapes, Readable
  <2>2. /\ ExternalMetricsServed(cluster.metrics) \in {"passed", "failed", "skipped"}
        /\ \A w \in steady[r] : w[1] = "externalMetrics" =>
               ExternalMetricsServed(cluster.metrics) = "failed"
    BY <2>1 DEF ExternalMetricsServed
  <2> QED
    BY <1>4, <2>2 DEF checkExternalMetrics
<1> QED
  BY <1>1, <1>2, <1>3, <1>4

LEMMA BalancersKeep ==
    ASSUME RunInv, NEW r \in Runs, ListServices(r) \/ checkLoadBalancers(r)
    PROVE  Advances(r)
<1>1. UNCHANGED <<cluster, scene, steady, world>>
  BY DEF ListServices, checkLoadBalancers, Call, OnlyReads, storage
<1>2. "loadBalancers" \in Checks /\ CheckOf("loadBalancers") = "loadBalancers"
      /\ "loadBalancers" \notin Over
  BY TheChecks, Labelled
<1>3. /\ CheckOf("listTargets") = "loadBalancers" /\ "listTargets" \in Labels \ Over
      /\ "listTargets" \notin ProbeSteps \union VolumeSteps
  BY DEF CheckOf, CrossSteps, ProbeSteps, VolumeSteps, Labels, Over
<1>4. CASE ListServices(r)
  <2>1. step[r] = "loadBalancers"
    BY <1>4 DEF ListServices, Call
  <2>2. CASE Says(r, "loadBalancers", "failed", After("loadBalancers"))
    BY <1>1, <1>2, <2>1, <2>2, SaysKeeps
  <2>3. CASE Reads(r, cluster.services, "listTargets")
    <3>1. ASSUME step'[r] = "listTargets", seen'[r] = cluster.services
          PROVE  HoldsProbe(r)' /\ HoldsVolumes(r)' /\ HoldsServices(r)'
      <4>1. \A w \in steady[r] : w[1] = "loadBalancers" /\ w # <<"loadBalancers", "targets", 0>> =>
                ~cluster.services[w[2]]
        BY SteadyIsWrong, WrongIs
      <4> QED
        BY <1>1, <1>3, <3>1, <4>1 DEF HoldsProbe, HoldsVolumes, HoldsServices, VolumeSteps
    <3> QED
      BY <1>1, <1>2, <1>3, <2>1, <2>3, <3>1, ReadsKeep
  <2> QED
    BY <1>4, <2>2, <2>3 DEF ListServices, Call
<1>5. CASE checkLoadBalancers(r)
  <2>1. step[r] = "listTargets"
    BY <1>5 DEF checkLoadBalancers
  <2>2. PICK v \in {"passed", "failed", "skipped"} :
            /\ Says(r, "loadBalancers", v, After("loadBalancers"))
            /\ v = "failed" \/ v = ExternalAddresses(seen[r], cluster.nodes)
    BY <1>5 DEF checkLoadBalancers, ExternalAddresses
  <2>3. HoldsServices(r)
    BY DEF RunInv, RunOf
  <2>4. ASSUME NEW w \in steady[r], w[1] = "loadBalancers"
        PROVE  ExternalAddresses(seen[r], cluster.nodes) = "failed"
    <3>1. DOMAIN seen[r] = DOMAIN cluster.services
      BY <2>1, <2>3 DEF HoldsServices
    <3>2. CASE w = <<"loadBalancers", "targets", 0>>
      <4>1. w # <<"loadBalancers", w[2]>>
        BY <3>2
      <4>2. /\ DOMAIN cluster.services # {} /\ DOMAIN cluster.nodes # {}
            /\ \A n \in DOMAIN cluster.nodes : ~cluster.nodes[n].target
        BY <3>2, <4>1, SteadyIsWrong DEF Wrong
      <4> QED
        BY <3>1, <4>2 DEF ExternalAddresses, loadBalancerTargets
    <3>3. CASE w # <<"loadBalancers", "targets", 0>>
      <4>1. w[2] \in DOMAIN cluster.services /\ ~seen[r][w[2]]
        BY <2>1, <2>3, <2>4, <3>3, SteadyIsWrong, WrongIs DEF HoldsServices
      <4> QED
        BY <3>1, <4>1 DEF ExternalAddresses
    <3> QED
      BY <3>2, <3>3
  <2> QED
    BY <1>1, <1>2, <1>3, <2>1, <2>2, <2>4, SaysKeeps
<1> QED
  BY <1>4, <1>5

LEMMA AdmissionKeeps ==
    ASSUME RunInv, NEW r \in Runs, ListPolicedNamespaces(r) \/ SubmitPod(r)
    PROVE  Advances(r)
<1>1. UNCHANGED <<cluster, scene, steady, world>>
  BY DEF ListPolicedNamespaces, SubmitPod, OnlyReads, storage
<1>2. "imageAdmission" \in Checks /\ CheckOf("imageAdmission") = "imageAdmission"
      /\ "imageAdmission" \notin Over
  BY TheChecks, Labelled
<1>3. /\ CheckOf("submit") = "imageAdmission" /\ "submit" \in Labels \ Over
      /\ "submit" \notin ProbeSteps \union VolumeSteps
  BY DEF CheckOf, CrossSteps, ProbeSteps, VolumeSteps, Labels, Over
<1>4. \A w \in steady[r] : w[1] = "imageAdmission" => cluster.admission \notin {"unlabelled", "refused"}
  BY SteadyIsWrong, WrongIs
<1>5. CASE ListPolicedNamespaces(r)
  <2>1. step[r] = "imageAdmission"
    BY <1>5 DEF ListPolicedNamespaces
  <2>2. CASE Says(r, "imageAdmission", "failed", After("imageAdmission"))
    BY <1>1, <1>2, <2>1, <2>2, SaysKeeps
  <2>3. CASE /\ cluster.admission = "unlabelled"
             /\ Says(r, "imageAdmission", ImageAdmission("unlabelled"), After("imageAdmission"))
    <3>1. ImageAdmission("unlabelled") = "skipped"
      BY DEF ImageAdmission
    <3> QED
      BY <1>1, <1>2, <1>4, <2>1, <2>3, <3>1, SaysKeeps
  <2>4. CASE Reads(r, Nothing, "submit")
    <3>1. ASSUME step'[r] = "submit"
          PROVE  HoldsProbe(r)' /\ HoldsVolumes(r)' /\ HoldsServices(r)'
      BY <1>3, <3>1 DEF HoldsProbe, HoldsVolumes, HoldsServices, VolumeSteps
    <3> QED
      BY <1>1, <1>2, <1>3, <2>1, <2>4, <3>1, ReadsKeep
  <2> QED
    BY <1>5, <2>2, <2>3, <2>4 DEF ListPolicedNamespaces
<1>6. CASE SubmitPod(r)
  <2>1. step[r] = "submit"
    BY <1>6 DEF SubmitPod
  <2>2. PICK v \in {"passed", "failed", "skipped"} :
            /\ Says(r, "imageAdmission", v, After("imageAdmission"))
            /\ cluster.admission \notin {"unlabelled", "refused"} => v = "failed"
    BY <1>6 DEF SubmitPod, ImageAdmission
  <2> QED
    BY <1>1, <1>2, <1>3, <1>4, <2>1, <2>2, SaysKeeps
<1> QED
  BY <1>5, <1>6

----------------------------------------------------------------------------
(* The volumes that hold data.                                              *)

LEMMA VolumeSaysFailed ==
    ASSUME RunInv, NEW r \in Runs, step[r] \in {"dataVolumes", "listClasses", "readVolumes"},
           UNCHANGED <<cluster, scene, steady, world>>,
           Says(r, "dataVolumes", "failed", After("dataVolumes"))
    PROVE  Advances(r)
<1>1. step[r] \notin Over /\ CheckOf(step[r]) = "dataVolumes" /\ "dataVolumes" \in Checks
  BY TheChecks DEF Over, CheckOf, CrossSteps, ProbeSteps, VolumeSteps
<1> QED
  BY <1>1, SaysKeeps

\* The next of its calls.
LEMMA VolumeReads ==
    ASSUME RunInv, NEW r \in Runs, step[r] \in {"dataVolumes", "listClasses", "readVolumes"},
           UNCHANGED <<cluster, scene, steady, world>>,
           NEW what, NEW l \in VolumeSteps, Reads(r, what, l),
           step'[r] = l /\ seen'[r] = what => HoldsVolumes(r)'
    PROVE  Advances(r)
<1>1. /\ step[r] \notin Over /\ CheckOf(step[r]) = "dataVolumes" /\ CheckOf(l) = "dataVolumes"
      /\ l \in Labels \ Over /\ l \notin ProbeSteps \union {"listDns", "listTargets"}
  BY TheChecks DEF Over, CheckOf, CrossSteps, ProbeSteps, VolumeSteps, Labels
<1>2. step'[r] = l /\ seen'[r] = what => HoldsProbe(r)' /\ HoldsServices(r)'
  BY <1>1 DEF HoldsProbe, HoldsServices
<1> QED
  BY <1>1, <1>2, ReadsKeep

LEMMA NamespacesKeep ==
    ASSUME RunInv, NEW r \in Runs, ListNamespaces(r) \/ ListClasses(r)
    PROVE  Advances(r)
<1>1. UNCHANGED <<cluster, scene, steady, world>>
  BY DEF ListNamespaces, ListClasses, Call, OnlyReads, storage
<1>2. ASSUME NEW w \in steady[r], w[1] = "dataVolumes"
      PROVE  /\ w[2] \in DOMAIN cluster.claims
             /\ cluster.claims[w[2]].ns \in cluster.labelled /\ Survives(w[2]) # "Retain"
  BY <1>2, SteadyIsWrong, WrongIs
<1>3. CASE ListNamespaces(r)
  <2> DEFINE what == [labelled |-> cluster.labelled]
  <2>1. step[r] = "dataVolumes"
    BY <1>3 DEF ListNamespaces, Call
  <2>2. step'[r] = "listClasses" /\ seen'[r] = what => HoldsVolumes(r)'
    BY <1>1, <1>2 DEF HoldsVolumes
  <2>3. Reads(r, what, "listClasses") \/ Says(r, "dataVolumes", "failed", After("dataVolumes"))
    BY <1>3 DEF ListNamespaces, Call
  <2> HIDE DEF what
  <2> QED
    BY <1>1, <2>1, <2>2, <2>3, VolumeReads, VolumeSaysFailed DEF VolumeSteps
<1>4. CASE ListClasses(r)
  <2> DEFINE what == [labelled |-> seen[r].labelled, todo |-> seen[r].labelled, bound |-> {},
                      policies |-> {}, classes |-> cluster.classes, default |-> cluster.default]
  <2>1. step[r] = "listClasses"
    BY <1>4 DEF ListClasses, Call
  <2>2. ASSUME step'[r] = "readVolumes", seen'[r] = what  PROVE HoldsVolumes(r)'
    <3>1. ASSUME NEW w \in steady[r], w[1] = "dataVolumes"
          PROVE  /\ cluster.claims[w[2]].ns \in seen[r].labelled
                 /\ cluster.claims[w[2]].volume = "none" => ClassPolicy(what, w[2]) # "Retain"
      <4>1. cluster.claims[w[2]].ns \in seen[r].labelled
        <5>1. HoldsVolumes(r)
          BY DEF RunInv, RunOf
        <5> QED
          BY <2>1, <3>1, <5>1 DEF HoldsVolumes, VolumeSteps
      <4>2. ASSUME NEW k, cluster.claims[k].volume = "none"
            PROVE  ClassPolicy(what, k) = Survives(k)
        BY <4>2 DEF ClassPolicy, Survives
      <4>3. cluster.claims[w[2]].volume = "none" => ClassPolicy(what, w[2]) = Survives(w[2])
        BY <4>2
      <4> HIDE DEF what
      <4> QED
        BY <1>2, <3>1, <4>1, <4>3
    <3>2. ASSUME NEW k  PROVE ClassPolicy(seen[r], k)' = ClassPolicy(what, k)
      BY <1>1, <2>2 DEF ClassPolicy
    <3>3. /\ DOMAIN what = {"labelled", "todo", "bound", "policies", "classes", "default"}
          /\ what.labelled = seen[r].labelled /\ what.todo = seen[r].labelled /\ what.bound = {}
      OBVIOUS
    <3> HIDE DEF what
    <3>4. ASSUME NEW w \in steady[r], w[1] = "dataVolumes"
          PROVE  ClassPolicy(seen[r], w[2])' = ClassPolicy(what, w[2])
      BY <3>2
    <3> QED
      BY <1>1, <2>2, <3>1, <3>3, <3>4 DEF HoldsVolumes
  <2>3. Reads(r, what, "readVolumes") \/ Says(r, "dataVolumes", "failed", After("dataVolumes"))
    BY <1>4 DEF ListClasses, Call
  <2> HIDE DEF what
  <2> QED
    BY <1>1, <2>1, <2>2, <2>3, VolumeReads, VolumeSaysFailed DEF VolumeSteps
<1> QED
  BY <1>3, <1>4

LEMMA ClaimsKeep ==
    ASSUME RunInv, NEW r \in Runs, ListClaims(r) \/ ReadDataVolume(r) \/ JudgeVolumes(r)
    PROVE  Advances(r)
<1>1. /\ UNCHANGED <<cluster, scene, steady, world>> /\ step[r] = "readVolumes"
  BY DEF ListClaims, ReadDataVolume, JudgeVolumes, Call, OnlyReads, storage
<1>2. ASSUME NEW w \in steady[r], w[1] = "dataVolumes"
      PROVE  /\ w[2] \in DOMAIN cluster.claims /\ Survives(w[2]) # "Retain"
             /\ cluster.claims[w[2]].ns \in seen[r].labelled
             /\ \/ cluster.claims[w[2]].ns \in seen[r].todo
                \/ w[2] \in seen[r].bound
                \/ ~(seen[r].policies \subseteq {"Retain"})
             /\ w[2] \in seen[r].bound => cluster.claims[w[2]].volume # "none"
             /\ cluster.claims[w[2]].volume = "none" => ClassPolicy(seen[r], w[2]) # "Retain"
  BY <1>1, <1>2, SteadyIsWrong, WrongIs DEF RunInv, RunOf, HoldsVolumes, VolumeSteps
\* What is kept of it is enough for the next call, with the same classes read.
<1>3. ASSUME NEW what, step'[r] = "readVolumes", seen'[r] = what,
             what.classes = seen[r].classes, what.default = seen[r].default,
             what.labelled = seen[r].labelled,
             DOMAIN what = {"labelled", "todo", "bound", "policies", "classes", "default"},
             \A w \in steady[r] : w[1] = "dataVolumes" =>
                 /\ \/ cluster.claims[w[2]].ns \in what.todo
                    \/ w[2] \in what.bound
                    \/ ~(what.policies \subseteq {"Retain"})
                 /\ w[2] \in what.bound => cluster.claims[w[2]].volume # "none"
      PROVE  HoldsVolumes(r)'
  <2>1. ASSUME NEW k  PROVE ClassPolicy(seen[r], k)' = ClassPolicy(seen[r], k)
    BY <1>1, <1>3 DEF ClassPolicy
  <2> QED
    BY <1>1, <1>2, <1>3, <2>1 DEF HoldsVolumes
<1>4. CASE ListClaims(r)
  <2> DEFINE ns    == CHOOSE n \in seen[r].todo : TRUE
             here  == {k \in DOMAIN cluster.claims : cluster.claims[k].ns = ns}
             bound == {k \in here : cluster.claims[k].volume # "none"}
             what  == [seen[r] EXCEPT !.todo = @ \ {ns}, !.bound = bound,
                               !.policies = @ \union {ClassPolicy(seen[r], k) : k \in here \ bound}]
  <2>1. seen[r].bound = {}
    BY <1>4 DEF ListClaims
  <2>2. Reads(r, what, "readVolumes") \/ Says(r, "dataVolumes", "failed", After("dataVolumes"))
    BY <1>4 DEF ListClaims, Call
  <2>3. DOMAIN seen[r] = {"labelled", "todo", "bound", "policies", "classes", "default"}
    BY <1>1 DEF RunInv, RunOf, HoldsVolumes
  <2>4. /\ what.classes = seen[r].classes /\ what.default = seen[r].default
        /\ what.labelled = seen[r].labelled /\ DOMAIN what = DOMAIN seen[r] /\ what.todo = seen[r].todo \ {ns} /\ what.bound = bound
        /\ what.policies = seen[r].policies \union {ClassPolicy(seen[r], k) : k \in here \ bound}
    BY <2>3
  <2>5. ASSUME NEW w \in steady[r], w[1] = "dataVolumes"
        PROVE  /\ \/ cluster.claims[w[2]].ns \in what.todo
                  \/ w[2] \in what.bound
                  \/ ~(what.policies \subseteq {"Retain"})
               /\ w[2] \in what.bound => cluster.claims[w[2]].volume # "none"
    <3>1. CASE w[2] \in here \ bound
      BY <1>2, <2>4, <2>5, <3>1
    <3>2. CASE w[2] \notin here
      BY <1>2, <2>1, <2>4, <2>5, <3>2
    <3>3. CASE w[2] \in bound
      BY <1>2, <2>4, <2>5, <3>3
    <3> QED
      BY <2>4, <3>1, <3>2, <3>3
  <2>6. step'[r] = "readVolumes" /\ seen'[r] = what => HoldsVolumes(r)'
    <3> HIDE DEF what
    <3> QED
      BY <1>3, <2>3, <2>4, <2>5
  <2> HIDE DEF what
  <2> QED
    BY <1>1, <2>2, <2>6, VolumeReads, VolumeSaysFailed DEF VolumeSteps
<1>5. CASE ReadDataVolume(r)
  <2> DEFINE k    == CHOOSE c \in seen[r].bound : TRUE
             v    == cluster.claims[k].volume
             what == [seen[r] EXCEPT !.bound = @ \ {k}, !.policies = @ \union {v}]
  <2>1. k \in seen[r].bound
    BY <1>5 DEF ReadDataVolume
  <2>2. Reads(r, what, "readVolumes") \/ Says(r, "dataVolumes", "failed", After("dataVolumes"))
    BY <1>5 DEF ReadDataVolume, Call
  <2>3. DOMAIN seen[r] = {"labelled", "todo", "bound", "policies", "classes", "default"}
    BY <1>1 DEF RunInv, RunOf, HoldsVolumes
  <2>4. /\ what.classes = seen[r].classes /\ what.default = seen[r].default
        /\ what.labelled = seen[r].labelled /\ DOMAIN what = DOMAIN seen[r]
        /\ what.todo = seen[r].todo /\ what.bound = seen[r].bound \ {k}
        /\ what.policies = seen[r].policies \union {v}
    BY <2>3
  <2>5. ASSUME NEW w \in steady[r], w[1] = "dataVolumes"
        PROVE  /\ \/ cluster.claims[w[2]].ns \in what.todo
                  \/ w[2] \in what.bound
                  \/ ~(what.policies \subseteq {"Retain"})
               /\ w[2] \in what.bound => cluster.claims[w[2]].volume # "none"
    <3>1. CASE w[2] = k
      <4>1. v # "Retain"
        BY <1>2, <2>1, <2>5, <3>1 DEF Survives
      <4> QED
        BY <2>4, <3>1, <4>1
    <3>2. CASE w[2] # k
      BY <1>2, <2>4, <2>5, <3>2
    <3> QED
      BY <3>1, <3>2
  <2>6. step'[r] = "readVolumes" /\ seen'[r] = what => HoldsVolumes(r)'
    <3> HIDE DEF what
    <3> QED
      BY <1>3, <2>3, <2>4, <2>5
  <2> HIDE DEF what
  <2> QED
    BY <1>1, <2>2, <2>6, VolumeReads, VolumeSaysFailed DEF VolumeSteps
<1>6. CASE JudgeVolumes(r)
  <2> DEFINE v == DataVolumesAreRetained(seen[r].policies, seen[r].labelled)
  <2>1. /\ seen[r].bound = {} /\ seen[r].todo = {}
        /\ Says(r, "dataVolumes", v, After("dataVolumes"))
    BY <1>6 DEF JudgeVolumes
  <2>2. v \in {"passed", "failed", "skipped"}
    BY DEF DataVolumesAreRetained
  <2>3. ASSUME NEW w \in steady[r], w[1] = "dataVolumes"  PROVE v = "failed"
    BY <1>2, <2>1, <2>3 DEF DataVolumesAreRetained
  <2>4. step[r] \notin Over /\ CheckOf(step[r]) = "dataVolumes" /\ "dataVolumes" \in Checks
    BY <1>1, TheChecks DEF Over, CheckOf, CrossSteps, ProbeSteps, VolumeSteps
  <2> HIDE DEF v
  <2> QED
    BY <1>1, <2>1, <2>2, <2>3, <2>4, SaysKeeps
<1> QED
  BY <1>4, <1>5, <1>6

----------------------------------------------------------------------------
(* The cross-node check.                                                    *)

\* A listing names every member.
LEMMA ListingIsAll ==
    ASSUME NEW S \in SUBSET Nat, IsFiniteSet(S), NEW s \in Listings(S), NEW x \in S
    PROVE  \E k \in DOMAIN s : s[k] = x
<1> DEFINE n == Cardinality(S)
<1>1. n \in Nat
  BY FS_CardinalityType
<1>2. s \in [1..n -> S] /\ \A i, j \in DOMAIN s : i < j => s[i] < s[j]
  BY DEF Listings
<1>3. \A i, j \in 1..n : s[i] = s[j] => i = j
  <2>1. ASSUME NEW i \in 1..n, NEW j \in 1..n, i < j  PROVE s[i] # s[j]
    <3>1. s[i] \in Nat /\ s[j] \in Nat /\ s[i] < s[j]
      BY <1>2, <2>1
    <3> QED
      BY <3>1
  <2> QED
    BY <1>1, <2>1
<1>4. s \in Injection(1..n, S)
  BY <1>2, <1>3 DEF Injection, IsInjective
<1>5. Cardinality(1..n) = n
  BY <1>1, FS_Interval
<1> HIDE DEF n
<1>6. Cardinality(1..n) = Cardinality(S)
  BY <1>5 DEF n
<1>7. s \in Surjection(1..n, S)
  BY <1>4, <1>6, FS_Injection
<1> QED
  BY <1>2, <1>7 DEF Surjection

\* The prober, whoever created it.
Prober ==
    /\ ~Unset(prober) =>
        /\ DOMAIN prober = {"owner", "node", "asks", "exits", "deleted"}
        /\ prober.owner \in Runs /\ prober.node \in DOMAIN cluster.nodes
        /\ DOMAIN prober.exits = DOMAIN prober.asks
    /\ ProberInv

LEMMA ProberIs ==
    ASSUME RunInv
    PROVE  Prober
BY DEF RunInv, Prober, RunTypeOK, Shapes

\* A step of a run that does not end up waiting for answers, and changes no
\* more of a prober than its mark.
LEMMA ProberUnasked ==
    ASSUME RunInv, NEW r \in Runs, Advances(r), step'[r] # "waitAnswers", prober' = prober \/ MarkDeleted
    PROVE  Prober'
<1> USE ProberIs
<1>1. ASSUME NEW q \in Runs, step'[q] = "waitAnswers"
      PROVE  q # r /\ step[q] = "waitAnswers" /\ seen'[q] = seen[q]
  BY <1>1 DEF Advances
<1>2. UNCHANGED <<cluster, steady, world>>
  BY DEF Advances
<1>3. CASE prober' = prober
  BY <1>1, <1>2, <1>3 DEF Prober, ProberInv, Unset
<1>4. CASE ~Unset(prober) /\ prober' = [prober EXCEPT !.deleted = TRUE]
  <2>1. /\ DOMAIN prober' = {"owner", "node", "asks", "exits", "deleted"}
        /\ prober'.owner = prober.owner /\ prober'.node = prober.node
        /\ prober'.asks = prober.asks /\ prober'.exits = prober.exits
    BY <1>4 DEF Prober
  <2> QED
    BY <1>1, <1>2, <1>4, <2>1 DEF Prober, ProberInv, Unset
<1> QED
  BY <1>3, <1>4 DEF MarkDeleted

LEMMA CrossSays ==
    ASSUME RunInv, NEW r \in Runs, step[r] \in {"crossNode", "listDns"} \union ProbeSteps,
           NEW v \in {"passed", "failed", "skipped"}, NEW l \in {After("crossNode"), "dropProber"},
           UNCHANGED <<cluster, scene, steady, world>>, Says(r, "crossNode", v, l),
           v = "passed" => \A w \in steady[r] : w[1] = "crossNode" => world.overlap
    PROVE  Advances(r) /\ step'[r] # "waitAnswers"
<1>1. step[r] \notin Over /\ CheckOf(step[r]) = "crossNode" /\ "crossNode" \in Checks
  BY TheChecks DEF Over, CheckOf, CrossSteps, ProbeSteps, VolumeSteps
<1>2. Advances(r)
  BY <1>1, SaysKeeps
<1>3. step'[r] = l
  BY DEF RunInv, RunTypeOK, Says, To
<1>4. l # "waitAnswers"
  BY <1>1, AfterIs, TheChecks
<1> QED
  BY <1>2, <1>3, <1>4

LEMMA CrossReads ==
    ASSUME RunInv, NEW r \in Runs, step[r] \in {"crossNode", "listDns"} \union ProbeSteps,
           NEW what, NEW l \in {"listDns", "dropProber"} \union ProbeSteps,
           UNCHANGED <<cluster, scene, steady, world>>,
           Reads(r, what, l) \/ (To(r, l) /\ what = seen[r] /\ UNCHANGED <<seen, results>>),
           step'[r] = l /\ seen'[r] = what => HoldsProbe(r)'
    PROVE  Advances(r) /\ step'[r] = l /\ seen'[r] = what
<1>1. /\ step[r] \notin Over /\ CheckOf(step[r]) = "crossNode" /\ CheckOf(l) = "crossNode"
      /\ l \in Labels \ Over /\ l \notin VolumeSteps \union {"listTargets"}
  BY TheChecks DEF Over, CheckOf, CrossSteps, ProbeSteps, VolumeSteps, Labels
<1>2. step'[r] = l => HoldsVolumes(r)' /\ HoldsServices(r)'
  BY <1>1 DEF HoldsVolumes, HoldsServices, VolumeSteps
<1>3. Advances(r)
  BY <1>1, <1>2, ReadsKeep
<1>4. step'[r] = l /\ seen'[r] = what
  BY DEF RunInv, RunTypeOK, Shapes, Reads, To
<1> QED
  BY <1>3, <1>4

LEMMA PlanningKeeps ==
    ASSUME RunInv, NEW r \in Runs, ListNodes(r) \/ ListDns(r)
    PROVE  Advances(r) /\ Prober'
<1>1. UNCHANGED <<cluster, scene, steady, world, prober>>
  BY DEF ListNodes, ListDns, Call, OnlyReads, storage
<1>2. CASE ListNodes(r)
  <2> DEFINE what == [nodes |-> cluster.nodes]
  <2>1. step[r] = "crossNode"
    BY <1>2 DEF ListNodes, Call
  <2>2. step'[r] = "listDns" /\ seen'[r] = what => HoldsProbe(r)'
    BY <1>1 DEF HoldsProbe, ProbeSteps
  <2>3. Reads(r, what, "listDns") \/ Says(r, "crossNode", "failed", After("crossNode"))
    BY <1>2 DEF ListNodes, Call
  <2>4. Advances(r) /\ step'[r] # "waitAnswers"
    <3> HIDE DEF what
    <3> QED
      BY <1>1, <2>1, <2>2, <2>3, CrossReads, CrossSays
  <2> QED
    BY <1>1, <2>4, ProberUnasked
<1>3. CASE ListDns(r)
  <2> DEFINE placed  == {i \in Replica : cluster.dns[i].state \in {"placed", "running"}}
             running == {i \in Replica : cluster.dns[i].state = "running"}
             away    == {cluster.dns[i].node : i \in placed}
             probe   == PlanCrossNode(seen[r].nodes, away)
  <2>1. step[r] = "listDns"
    BY <1>3 DEF ListDns
  <2>2. \/ \E v \in {"skipped", "failed"} : Says(r, "crossNode", v, After("crossNode"))
        \/ /\ ~Unset(probe)
           /\ \E asks \in Listings(running) :
                  Reads(r, [probe |-> probe, asks |-> asks], "deleteProber")
    BY <1>3 DEF ListDns
  <2>3. CASE \E v \in {"skipped", "failed"} : Says(r, "crossNode", v, After("crossNode"))
    <3>1. Advances(r) /\ step'[r] # "waitAnswers"
      BY <1>1, <2>1, <2>3, CrossSays
    <3> QED
      BY <1>1, <3>1, ProberUnasked
  <2>4. ASSUME ~Unset(probe), NEW asks \in Listings(running),
               Reads(r, [probe |-> probe, asks |-> asks], "deleteProber")
        PROVE  Advances(r) /\ Prober'
    <3> DEFINE what == [probe |-> probe, asks |-> asks]
    <3>1. DOMAIN seen[r].nodes = DOMAIN cluster.nodes /\ DOMAIN cluster.nodes \subseteq Node
      BY <2>1 DEF RunInv, RunOf, HoldsProbe, Shapes, Readable
    <3>2. probe \in DOMAIN cluster.nodes /\ probe \notin away
      <4> DEFINE ready == {n \in DOMAIN seen[r].nodes : seen[r].nodes[n].ready}
                 free  == ready \ away
      <4>1. free # {} /\ probe = Min(free)
        BY <2>4 DEF PlanCrossNode, Unset
      <4>2. free \in SUBSET Nat
        BY <3>1, RunAssumption
      <4>3. Min(free) \in free
        <5> HIDE DEF free
        <5> QED
          BY <4>1, <4>2, LeastIsThere
      <4> QED
        BY <3>1, <4>1, <4>3
    <3>3. running \in SUBSET Nat /\ IsFiniteSet(running)
      BY RunAssumption, FS_Subset
    <3>4. ASSUME NEW w \in steady[r], w[1] = "crossNode"
          PROVE  /\ \E k \in DOMAIN asks : asks[k] = w[2]
                 /\ cluster.dns[w[2]].node # probe
      <4>1. w[2] \in running /\ w[2] \in placed
        BY <3>4, SteadyIsWrong, WrongIs DEF RunInv, Shapes, Readable
      <4>2. \E k \in DOMAIN asks : asks[k] = w[2]
        <5> HIDE DEF running
        <5> QED
          BY <2>4, <3>3, <4>1, ListingIsAll
      <4>3. cluster.dns[w[2]].node \in away
        BY <4>1
      <4> HIDE DEF away, probe
      <4> QED
        BY <3>2, <4>2, <4>3
    <3>5. what.probe = probe /\ what.asks = asks
      OBVIOUS
    <3>6. step'[r] = "deleteProber" /\ seen'[r] = what => HoldsProbe(r)'
      <4> HIDE DEF what, probe, away
      <4> QED
        BY <1>1, <3>2, <3>4, <3>5 DEF HoldsProbe
    <3>7. Reads(r, what, "deleteProber")
      BY <2>4
    <3>8. Advances(r) /\ step'[r] # "waitAnswers"
      <4> HIDE DEF what
      <4> QED
        BY <1>1, <2>1, <3>6, <3>7, CrossReads DEF ProbeSteps
    <3> QED
      BY <1>1, <3>8, ProberUnasked
  <2> QED
    BY <2>2, <2>3, <2>4
<1> QED
  BY <1>2, <1>3

LEMMA DropsTo ==
    ASSUME RunInv, NEW r \in Runs, DropProber(r), NEW l,
           l = IF told[r][1] = "crossNode" THEN After("crossNode") ELSE "panicked"
    PROVE  Advances(r) /\ Prober'
<1>1. /\ step[r] = "dropProber" /\ step' = [step EXCEPT ![r] = l]
      /\ prober' = prober \/ MarkDeleted
      /\ UNCHANGED <<cluster, scene, steady, world, seen, told, failed>>
  BY DEF DropProber, DeleteProber, To, storage, results
<1>2. /\ step \in [Runs -> Labels] /\ DOMAIN seen = Runs /\ failed \in [Runs -> BOOLEAN]
      /\ told \in [Runs -> (Checks \X {"passed", "failed", "skipped"}) \union {<<Nothing, Nothing>>}]
  BY DEF RunInv, RunTypeOK, Shapes, Labels, CrossSteps, ProbeSteps, VolumeSteps
<1>3. "crossNode" \in Checks /\ After("crossNode") \in Checks \union {"over"}
  BY TheChecks, AfterIs
<1>4. l \in Checks \union {"over", "panicked"} /\ l \in Labels
  BY <1>3 DEF Labels, Over
<1>5. /\ step' \in [Runs -> Labels] /\ step'[r] = l
      /\ \A q \in Runs \ {r} : step'[q] = step[q]
  <2> QED
    BY <1>1, <1>2, <1>4
<1>6. RunOf(r) /\ Wrong' = Wrong
  BY <1>1 DEF RunInv, RunOf, Wrong, Survives
<1>7. Untold(r)' /\ HoldsProbe(r)' /\ HoldsVolumes(r)' /\ HoldsServices(r)' /\ l # "waitAnswers"
  <2>1. l \notin ProbeSteps \union VolumeSteps \union {"listDns", "listTargets", "idle"}
    BY <1>4, Labelled DEF ProbeSteps, VolumeSteps
  <2> QED
    BY <1>5, <2>1 DEF Untold, HoldsProbe, HoldsVolumes, HoldsServices, VolumeSteps, ProbeSteps
<1>8. Told(r)'
  BY <1>1, <1>6 DEF RunOf, Told
<1>9. Behind(r)'
  <2> SUFFICES ASSUME NEW w \in steady[r], w[1] \in scene.played \ {"crossNode"}, Place(w[1]) < Position(l)
               PROVE  failed[r]
    BY <1>1, <1>5, BehindAt
  <2>1. w[1] \in Checks /\ Place(w[1]) \in 1..9
    BY SteadyIsWrong, WrongIs, TheChecks
  <2>2. l # "panicked"
    BY <2>1 DEF Position, Over
  <2>3. Place(w[1]) < Place("crossNode")
    BY <1>3, <2>1, <2>2, PositionAfter
  <2>4. Position(step[r]) = Place("crossNode")
    BY <1>1 DEF Position, CheckOf, CrossSteps, Over
  <2> QED
    BY <1>6, <2>3, <2>4 DEF RunOf, Behind
<1>10. Advances(r)
  <2>1. RunOf(r)'
    BY <1>1, <1>6, <1>7, <1>8, <1>9 DEF RunOf
  <2> QED
    BY <1>1, <1>2, <1>5, <1>7, <2>1 DEF Advances, Over
<1> QED
  BY <1>1, <1>5, <1>7, <1>10, ProberUnasked

LEMMA DropKeeps ==
    ASSUME RunInv, NEW r \in Runs, DropProber(r)
    PROVE  Advances(r) /\ Prober'
BY DropsTo

LEMMA ClearKeeps ==
    ASSUME RunInv, NEW r \in Runs, ClearProber(r) \/ WaitProber(r)
    PROVE  Advances(r) /\ Prober'
<1>1. /\ UNCHANGED <<cluster, scene, steady, world>>
      /\ prober' = prober \/ MarkDeleted
      /\ step[r] \in ProbeSteps
  BY DEF ClearProber, DeleteProber, WaitProber, OnlyReads, storage, ProbeSteps
<1>2. HoldsProbe(r)
  BY DEF RunInv, RunOf
<1>3. ASSUME NEW l \in {"waitProber", "createProber"}, Reads(r, seen[r], l) \/ (To(r, l) /\ UNCHANGED <<seen, results>>)
      PROVE  Advances(r) /\ step'[r] = l
  <2>1. l \in ProbeSteps /\ l # "listDns"
    BY DEF ProbeSteps
  <2>2. step'[r] = l /\ seen'[r] = seen[r] => HoldsProbe(r)'
    BY <1>1, <1>2, <2>1 DEF HoldsProbe
  <2> QED
    BY <1>1, <1>3, <2>1, <2>2, CrossReads
<1>4. CASE ClearProber(r)
  <2>1. To(r, "waitProber") /\ UNCHANGED <<seen, results>>
    BY <1>4 DEF ClearProber, DeleteProber
  <2> QED
    BY <1>1, <1>3, <2>1, ProberUnasked
<1>5. CASE WaitProber(r)
  <2>1. Reads(r, seen[r], "createProber") \/ Says(r, "crossNode", "failed", "dropProber")
    BY <1>5 DEF WaitProber
  <2>2. CASE Reads(r, seen[r], "createProber")
    BY <1>1, <1>3, <2>2, ProberUnasked
  <2>3. CASE Says(r, "crossNode", "failed", "dropProber")
    <3>1. Advances(r) /\ step'[r] # "waitAnswers"
      BY <1>1, <2>3, CrossSays
    <3> QED
      BY <1>1, <3>1, ProberUnasked
  <2> QED
    BY <2>1, <2>2, <2>3
<1> QED
  BY <1>4, <1>5

LEMMA CreateProberKeeps ==
    ASSUME RunInv, NEW r \in Runs, CreateProber(r)
    PROVE  Advances(r) /\ Prober'
<1>1. UNCHANGED <<cluster, scene, steady, world>> /\ step[r] = "createProber"
  BY DEF CreateProber, storage
<1>2. HoldsProbe(r)
  BY DEF RunInv, RunOf
<1>3. CASE Says(r, "crossNode", "failed", "dropProber") /\ UNCHANGED prober
  <2>1. Advances(r) /\ step'[r] # "waitAnswers"
    BY <1>1, <1>3, CrossSays DEF ProbeSteps
  <2> QED
    BY <1>3, <2>1, ProberUnasked
<1>4. ASSUME Reads(r, seen[r], "waitAnswers"),
             prober' = [owner |-> r, node |-> seen[r].probe, asks |-> seen[r].asks,
                        exits |-> [i \in DOMAIN seen[r].asks |-> "none"], deleted |-> FALSE]
      PROVE  Advances(r) /\ Prober'
  <2>1. step'[r] = "waitAnswers" /\ seen'[r] = seen[r] => HoldsProbe(r)'
    BY <1>1, <1>2 DEF HoldsProbe, ProbeSteps
  <2>2. Advances(r) /\ step'[r] = "waitAnswers" /\ seen'[r] = seen[r]
    BY <1>1, <1>4, <2>1, CrossReads DEF ProbeSteps
  <2>3. /\ DOMAIN prober' = {"owner", "node", "asks", "exits", "deleted"}
        /\ prober'.owner = r /\ prober'.node = seen[r].probe /\ prober'.asks = seen[r].asks
        /\ prober'.exits = [i \in DOMAIN seen[r].asks |-> "none"]
    BY <1>4
  <2>4. DOMAIN prober'.exits = DOMAIN seen[r].asks /\ \A k \in DOMAIN prober'.exits : prober'.exits[k] # "ok"
    BY <2>3
  <2>5. seen[r].probe \in DOMAIN cluster.nodes
    BY <1>1, <1>2 DEF HoldsProbe, ProbeSteps
  <2>6. ASSUME ~world.overlap, NEW q \in Runs, step'[q] = "waitAnswers"  PROVE q = r
    <3>1. q # r => step[q] = "waitAnswers"
      BY <2>2, <2>6 DEF Advances
    <3> QED
      BY <1>1, <2>6, <3>1 DEF RunInv, OneAtATime, Over
  <2>7. ProberInv'
    BY <1>1, <2>2, <2>3, <2>4, <2>6 DEF ProberInv
  <2> QED
    BY <1>1, <2>2, <2>3, <2>4, <2>5, <2>7 DEF Prober
<1> QED
  BY <1>3, <1>4 DEF CreateProber

LEMMA AnswersKeep ==
    ASSUME RunInv, NEW r \in Runs, WaitForProber(r)
    PROVE  Advances(r) /\ Prober'
<1> DEFINE mine     == DOMAIN seen[r].asks
           finished == IF Unset(prober) THEN {}
                       ELSE {i \in DOMAIN prober.exits : prober.exits[i] # "none"}
           v        == CrossNodeVerdict([i \in mine |-> prober.exits[i]])
<1>1. UNCHANGED <<cluster, scene, steady, world, prober>> /\ step[r] = "waitAnswers"
  BY DEF WaitForProber, OnlyReads, storage
<1>2. \/ finished = mine /\ Says(r, "crossNode", v, "dropProber")
      \/ Says(r, "crossNode", "failed", "dropProber")
      \/ Reads(r, Nothing, "dropProber")
  BY DEF WaitForProber
<1>3. CASE Says(r, "crossNode", "failed", "dropProber")
  <2>1. Advances(r) /\ step'[r] # "waitAnswers"
    BY <1>1, <1>3, CrossSays DEF ProbeSteps
  <2> QED
    BY <1>1, <2>1, ProberUnasked
<1>4. CASE Reads(r, Nothing, "dropProber")
  <2>1. step'[r] = "dropProber" => HoldsProbe(r)'
    BY DEF HoldsProbe, ProbeSteps
  <2>2. Advances(r) /\ step'[r] # "waitAnswers"
    BY <1>1, <1>4, <2>1, CrossReads DEF ProbeSteps
  <2> QED
    BY <1>1, <2>2, ProberUnasked
<1>5. CASE finished = mine /\ Says(r, "crossNode", v, "dropProber")
  <2>1. v \in {"passed", "failed", "skipped"}
    BY DEF CrossNodeVerdict
  <2>2. ASSUME v = "passed", ~world.overlap, NEW w \in steady[r], w[1] = "crossNode"  PROVE FALSE
    <3>1. PICK k \in mine : seen[r].asks[k] = w[2]
      BY <1>1, <2>2 DEF RunInv, RunOf, HoldsProbe, ProbeSteps
    <3>2. ~Unset(prober) /\ k \in DOMAIN prober.exits
      BY <1>5, <3>1
    <3>3. prober.asks = seen[r].asks /\ prober.exits[k] # "ok"
      BY <1>1, <2>2, <3>1, <3>2 DEF RunInv, ProberInv
    <3>4. \A i \in mine : prober.exits[i] = "ok"
      BY <2>2 DEF CrossNodeVerdict
    <3> QED
      BY <3>1, <3>3, <3>4
  <2>3. Advances(r) /\ step'[r] # "waitAnswers"
    <3> HIDE DEF v
    <3> QED
      BY <1>1, <1>5, <2>1, <2>2, CrossSays DEF ProbeSteps
  <2> QED
    BY <1>1, <2>3, ProberUnasked
<1> QED
  BY <1>2, <1>3, <1>4, <1>5

----------------------------------------------------------------------------
(* The invariant, step by step.                                             *)

LEMMA LabelsAre ==
    Labels = Over \union Checks \union
            {"listDns", "deleteProber", "waitProber", "createProber", "waitAnswers", "dropProber",
             "listClasses", "readVolumes", "listTargets", "submit"}
BY DEF Labels, CrossSteps, ProbeSteps, VolumeSteps

LEMMA AdvancesKeep ==
    ASSUME RunInv, NEW r \in Runs, Advances(r), Prober', TypeOK', StorageInv'
    PROVE  RunInv'
<1>1. RunTypeOK'
  <2>1. ~Unset(prober') => /\ prober'.owner \in Runs /\ prober'.node \in DOMAIN cluster'.nodes
                           /\ DOMAIN prober'.exits = DOMAIN prober'.asks
    BY DEF Prober, Unset
  <2> QED
    BY <2>1, LabelsAre DEF Advances, RunTypeOK, Unset, Over, Checks, Range, Order
<1>2. Shapes'
  <2>1. UNCHANGED <<cluster, scene, steady>> /\ DOMAIN seen' = Runs
    BY DEF Advances
  <2> QED
    BY <2>1 DEF RunInv, Shapes, Prober, Readable, Unset
<1>3. OneAtATime'
  <2>1. world' = world /\ \A q \in Runs : step'[q] \notin Over => step[q] \notin Over
    BY DEF Advances
  <2> QED
    BY <2>1 DEF RunInv, OneAtATime, Over
<1>4. ASSUME NEW q \in Runs  PROVE RunOf(q)'
  <2>1. CASE q = r
    BY <2>1 DEF Advances
  <2>2. CASE q # r
    <3>1. /\ UNCHANGED <<cluster, scene, world>> /\ steady'[q] = steady[q]
          /\ step'[q] = step[q] /\ seen'[q] = seen[q] /\ told'[q] = told[q] /\ failed'[q] = failed[q]
      BY <2>2 DEF Advances
    <3>2. RunOf(q)
      BY DEF RunInv
    <3> QED
      BY <3>1, <3>2, OtherRunsKeep
  <2> QED
    BY <2>1, <2>2
<1> QED
  BY <1>1, <1>2, <1>3, <1>4 DEF RunInv, Prober

\* The calls beside the storage check's change none of its state.
LEMMA CallsLookOn ==
    ASSUME RunInv, NEW r \in Runs, UNCHANGED storage, Fault(r) \/ NoFault
    PROVE  TypeOK' /\ StorageInv'
<1>1. TypeOK /\ StorageInv
  BY DEF RunInv, RunTypeOK
<1>2. latest' \in Owner
  BY <1>1 DEF TypeOK, storage
<1>3. LooksOn
  BY <1>1, <1>2, FaultTyped DEF LooksOn, storage
<1> QED
  BY <1>1, <1>3, LooksOnKeeps

LEMMA StorageKeeps == ASSUME RunInv, NEW r \in Runs, checkStorage(r)  PROVE RunInv'
<1>1. UNCHANGED <<prober, cluster, scene, steady>> /\ step[r] = "storage"
  BY DEF checkStorage
<1>2. TypeOK /\ StorageInv
  BY DEF RunInv, RunTypeOK
<1>3. CASE (Start(r) \/ Check(r)) /\ UNCHANGED <<step, seen, results>>
  <2>1. TypeOK' /\ StorageInv'
    BY <1>2, <1>3, StartKeeps, CheckKeeps
  <2>2. world' = world
    BY <1>3 DEF Start, Check, DeletePod, ReadClaim, ReadVolume, PatchVolume, DeleteClaim, WaitPod,
                WaitClaim, WaitGone, CreateClaim, CreatePod, WaitBound
  <2>3. RunTypeOK' /\ Shapes' /\ OneAtATime' /\ ProberInv'
    BY <1>1, <1>3, <2>1, <2>2
       DEF RunInv, RunTypeOK, Shapes, Readable, OneAtATime, ProberInv, Unset, results, Over, Checks,
           Range, Order
  <2>4. ASSUME NEW q \in Runs  PROVE RunOf(q)'
    <3>1. RunOf(q)
      BY DEF RunInv
    <3> QED
      BY <1>1, <1>3, <2>2, <3>1, OtherRunsKeep DEF results
  <2> QED
    BY <2>1, <2>3, <2>4 DEF RunInv
<1>4. CASE /\ pc[r] = "done" /\ UNCHANGED vars
           /\ Says(r, "storage", verdict[r], After("storage"))
  <2>1. UNCHANGED <<pc, class, round, target, verdict, faulted, latest, world, claim, claimDeleted,
                    pod, podDeleted, volume, kills, faults>>
    BY <1>4 DEF vars, run, objects, bounds
  <2>2. TypeOK' /\ StorageInv'
    BY <1>2, <2>1 DEF TypeOK, StorageInv
  <2>3. verdict[r] \in {"passed", "failed", "skipped"}
    BY <1>2, <1>4 DEF TypeOK, StorageInv
  <2>4. "storage" \in Checks /\ CheckOf("storage") = "storage" /\ "storage" \notin Over
    BY TheChecks, Labelled
  <2>5. \A w \in steady[r] : w[1] # "storage"
    BY SteadyIsWrong, WrongIs
  <2>6. Advances(r)
    BY <1>1, <1>4, <2>1, <2>3, <2>4, <2>5, SaysKeeps
  <2>7. step'[r] # "waitAnswers"
    <3>1. step'[r] = After("storage")
      BY <1>4 DEF RunInv, RunTypeOK, Says, To
    <3> QED
      BY <2>4, <3>1, AfterIs, TheChecks
  <2>8. Prober'
    BY <1>1, <2>6, <2>7, ProberUnasked
  <2> QED
    BY <2>2, <2>6, <2>8, AdvancesKeep
<1> QED
  BY <1>3, <1>4 DEF checkStorage

LEMMA StepKeeps == ASSUME RunInv, NEW r \in Runs, Step(r)  PROVE RunInv'
<1>1. CASE checkNodes(r) \/ checkSecretStores(r) \/ checkNetworkPolicies(r) \/ checkExternalMetrics(r)
           \/ ListServices(r) \/ checkLoadBalancers(r) \/ ListPolicedNamespaces(r) \/ SubmitPod(r)
           \/ ListNamespaces(r) \/ ListClasses(r) \/ ListClaims(r) \/ ReadDataVolume(r) \/ JudgeVolumes(r)
  <2>1. Advances(r)
    BY <1>1, OneCallKeeps, BalancersKeep, AdmissionKeeps, NamespacesKeep, ClaimsKeep
  <2>2. UNCHANGED <<storage, prober>> /\ (Fault(r) \/ NoFault)
    BY <1>1 DEF checkNodes, checkSecretStores, checkNetworkPolicies, checkExternalMetrics,
                ListServices, checkLoadBalancers, ListPolicedNamespaces, SubmitPod, ListNamespaces,
                ListClasses, ListClaims, ReadDataVolume, JudgeVolumes, Ask, Call, OnlyReads
  <2>3. step[r] \in (Checks \ {"crossNode"}) \union {"listTargets", "submit"} \union VolumeSteps
    BY <1>1, TheChecks
       DEF checkNodes, checkSecretStores, checkNetworkPolicies, checkExternalMetrics,
           ListServices, checkLoadBalancers, ListPolicedNamespaces, SubmitPod, ListNamespaces,
           ListClasses, ListClaims, ReadDataVolume, JudgeVolumes, Ask, Call, VolumeSteps
  <2>4. CheckOf(step[r]) # "crossNode"
    BY <2>3, TheChecks DEF CheckOf, CrossSteps, ProbeSteps, VolumeSteps
  <2>5. Prober'
    BY <2>1, <2>2, <2>4, ProberUnasked DEF Advances
  <2> QED
    BY <2>1, <2>2, <2>5, CallsLookOn, AdvancesKeep
<1>2. CASE ListNodes(r) \/ ListDns(r) \/ ClearProber(r) \/ WaitProber(r) \/ CreateProber(r)
           \/ WaitForProber(r) \/ DropProber(r)
  <2>1. Advances(r) /\ Prober'
    BY <1>2, PlanningKeeps, ClearKeeps, CreateProberKeeps, AnswersKeep, DropKeeps
  <2>2. UNCHANGED storage /\ (Fault(r) \/ NoFault)
    BY <1>2 DEF ListNodes, ListDns, ClearProber, WaitProber, CreateProber, WaitForProber, DropProber,
                DeleteProber, Call, OnlyReads
  <2> QED
    BY <2>1, <2>2, CallsLookOn, AdvancesKeep
<1>3. CASE checkStorage(r)
  BY <1>3, StorageKeeps
<1> QED
  BY <1>1, <1>2, <1>3 DEF Step

LEMMA BeginKeeps == ASSUME RunInv, NEW r \in Runs, Begin(r)  PROVE RunInv'
<1>1. /\ step[r] = "idle" /\ (world.overlap \/ \A s \in Runs : step[s] \in Over)
      /\ step' = [step EXCEPT ![r] = FirstFrom(1)] /\ latest' = r
      /\ steady' = [steady EXCEPT ![r] = Wrong]
      /\ UNCHANGED <<pc, class, round, target, verdict, faulted, world, claim, claimDeleted, pod,
                     podDeleted, volume, kills, faults, seen, told, failed, prober, cluster, scene>>
  BY DEF Begin, To, objects, bounds, results
<1>2. FirstFrom(1) \in Checks \union {"over"}
  BY FirstFromSkipsNone
<1>3. TypeOK' /\ StorageInv'
  BY <1>1 DEF RunInv, RunTypeOK, TypeOK, StorageInv, Owner
<1>4. /\ step \in [Runs -> Labels] /\ step' \in [Runs -> Labels] /\ step'[r] = FirstFrom(1)
      /\ DOMAIN steady' = Runs /\ steady'[r] = Wrong
      /\ \A q \in Runs \ {r} : step'[q] = step[q] /\ steady'[q] = steady[q]
  BY <1>1, <1>2, LabelsAre DEF RunInv, RunTypeOK, Shapes, Over, Checks, Range, Order
<1>5. FirstFrom(1) \notin ProbeSteps \union VolumeSteps \union {"listDns", "listTargets", "idle"}
  BY <1>2, Labelled DEF ProbeSteps, VolumeSteps
<1>6. RunOf(r)'
  <2>1. Wrong' = Wrong
    BY <1>1 DEF Wrong, Survives
  <2>2. told[r] = <<Nothing, Nothing>>
    BY <1>1 DEF RunInv, RunOf, Untold
  <2>3. ASSUME NEW w \in Wrong
        PROVE  told[r][1] # w[1] /\ w[1] \in Checks /\ Place(w[1]) \in 1..9
    BY <2>2, WrongIs, TheChecks, RunAssumption
  <2>4. Untold(r)' /\ HoldsProbe(r)' /\ HoldsVolumes(r)' /\ HoldsServices(r)'
    BY <1>4, <1>5 DEF Untold, HoldsProbe, HoldsVolumes, HoldsServices, VolumeSteps, ProbeSteps
  <2>5. Told(r)'
    BY <1>1, <1>4, <2>3 DEF Told
  <2>6. \A w \in Wrong : w[1] \in scene.played => ~(Place(w[1]) < Position(FirstFrom(1)))
    BY <2>3, FirstFromSkipsNone
  <2>7. Behind(r)'
    <3>1. step'[r] = FirstFrom(1)
      BY <1>4, <1>1
    <3>2. \A w \in steady'[r] :
            w[1] \in scene'.played \ {"crossNode"} /\ Place(w[1]) < Position(FirstFrom(1)) => failed'[r]
      BY <1>1, <1>4, <2>6
    <3> QED
      BY <3>1, <3>2, BehindAt
  <2> QED
    BY <1>4, <2>1, <2>4, <2>5, <2>7 DEF RunOf
<1>7. ASSUME NEW q \in Runs  PROVE RunOf(q)'
  <2>1. CASE q # r
    <3>1. RunOf(q)
      BY DEF RunInv
    <3> QED
      BY <1>1, <1>4, <2>1, <3>1, OtherRunsKeep
  <2> QED
    BY <1>6, <2>1
<1>8. OneAtATime'
  BY <1>1, <1>4 DEF RunInv, OneAtATime, Over
<1>9. RunTypeOK' /\ Shapes'
  BY <1>1, <1>3, <1>4, LabelsAre DEF RunInv, RunTypeOK, Shapes, Readable, Unset, Over, Checks, Range, Order
<1>10. ProberInv'
  <2>1. ASSUME NEW q \in Runs, step'[q] = "waitAnswers"  PROVE q # r /\ step[q] = "waitAnswers"
    BY <1>4, <1>5, <2>1 DEF ProbeSteps
  <2> QED
    BY <1>1, <1>4, <2>1 DEF RunInv, ProberInv, Unset
<1> QED
  BY <1>3, <1>7, <1>8, <1>9, <1>10 DEF RunInv

LEMMA KillRunKeeps == ASSUME RunInv, NEW r \in Runs, KillRun(r)  PROVE RunInv'
<1>1. /\ step' = [step EXCEPT ![r] = "killed"] /\ step[r] \notin Over
      /\ UNCHANGED <<seen, told, failed, prober, cluster, scene, steady, world>>
  BY DEF KillRun, To, results, Kill, run, storage, Over
<1>2. TypeOK' /\ StorageInv'
  <2>1. TypeOK /\ StorageInv
    BY DEF RunInv, RunTypeOK
  <2>2. CASE Kill(r)
    BY <2>1, <2>2, KillKeeps
  <2>3. CASE kills < world.kills /\ kills' = kills + 1 /\ UNCHANGED <<storage, faulted, faults>>
    <3>1. world.kills \in Nat /\ kills \in 0..world.kills
      BY <2>1, TypedWorlds DEF TypeOK
    <3>2. kills' \in 0..world.kills
      BY <2>3, <3>1
    <3>3. LooksOn
      BY <2>1, <2>3, <3>2 DEF LooksOn, storage, TypeOK
    <3> QED
      BY <2>1, <3>3, LooksOnKeeps
  <2> QED
    BY <2>2, <2>3 DEF KillRun
<1>3. /\ step \in [Runs -> Labels] /\ step' \in [Runs -> Labels] /\ step'[r] = "killed"
      /\ \A q \in Runs \ {r} : step'[q] = step[q]
  BY <1>1, LabelsAre DEF RunInv, RunTypeOK, Over, Checks, Range, Order
<1>4. RunOf(r)'
  <2>1. RunOf(r) /\ Wrong' = Wrong
    BY <1>1 DEF RunInv, Wrong, Survives
  <2>2. Untold(r)' /\ HoldsProbe(r)' /\ HoldsVolumes(r)' /\ HoldsServices(r)'
    BY <1>3 DEF Untold, HoldsProbe, HoldsVolumes, HoldsServices, VolumeSteps, ProbeSteps
  <2>3. Told(r)'
    BY <1>1, <2>1 DEF RunOf, Told
  <2>4. \A w \in steady[r] : ~(Place(w[1]) < Position("killed"))
    <3>1. Position("killed") = 0
      BY DEF Position, Over
    <3> QED
      BY <3>1, SteadyIsWrong, WrongIs, TheChecks
  <2>5. Behind(r)'
    BY <1>1, <1>3, <2>4, BehindAt
  <2> QED
    BY <1>1, <2>1, <2>2, <2>3, <2>5 DEF RunOf
<1>5. /\ \A q \in Runs \ {r} : /\ step'[q] = step[q] /\ seen'[q] = seen[q]
                               /\ told'[q] = told[q] /\ failed'[q] = failed[q]
      /\ DOMAIN seen' = Runs /\ failed' \in [Runs -> BOOLEAN]
      /\ told' \in [Runs -> (Checks \X {"passed", "failed", "skipped"}) \union {<<Nothing, Nothing>>}]
  BY <1>1, <1>3 DEF RunInv, RunTypeOK, Shapes
<1>6. Advances(r)
  BY <1>1, <1>3, <1>4, <1>5 DEF Advances
<1>7. Prober'
  BY <1>1, <1>3, <1>6, ProberUnasked
<1> QED
  BY <1>2, <1>6, <1>7, AdvancesKeep

\* The prober alone changes.
LEMMA ProberAlone ==
    ASSUME RunInv, Prober', UNCHANGED <<vars, step, seen, results, cluster, scene, steady>>
    PROVE  RunInv'
<1>1. UNCHANGED <<pc, class, round, target, verdict, faulted, latest, world, claim, claimDeleted,
                  pod, podDeleted, volume, kills, faults, told, failed>>
  BY DEF vars, run, objects, bounds, results
<1>2. TypeOK' /\ StorageInv' /\ OneAtATime'
  BY <1>1 DEF RunInv, RunTypeOK, TypeOK, StorageInv, OneAtATime, Over
<1>3. RunTypeOK' /\ Shapes'
  BY <1>1, <1>2 DEF RunInv, RunTypeOK, Shapes, Readable, Prober, Unset, Over, Checks, Range, Order
<1>4. \A q \in Runs : RunOf(q)'
  BY <1>1, OtherRunsKeep DEF RunInv
<1> QED
  BY <1>2, <1>3, <1>4 DEF RunInv, Prober

LEMMA ProberMoves == ASSUME RunInv, ProbeEnds \/ ProberGone  PROVE RunInv'
<1>1. UNCHANGED <<vars, step, seen, results, cluster, scene, steady>> /\ world' = world
  BY DEF ProbeEnds, ProberGone, vars, run
<1>2. CASE ProberGone
  BY <1>1, <1>2, ProberAlone DEF ProberGone, Prober, ProberInv, Unset
<1>3. CASE ProbeEnds
  <2> DEFINE Answers(i) ==
               LET asked == cluster.dns[prober.asks[i]]
               IN IF /\ ~prober.deleted /\ asked.state = "running"
                     /\ asked.node = prober.node \/ prober.asks[i] \notin cluster.silent
                  THEN "ok" ELSE "error"
  <2>1. PICK i \in DOMAIN prober.exits : prober' = [prober EXCEPT !.exits[i] = Answers(i)]
    BY <1>3, Zenon DEF ProbeEnds
  <2>2. PICK e : /\ e = Answers(i)
                 /\ e = "ok" => \/ cluster.dns[prober.asks[i]].node = prober.node
                                \/ prober.asks[i] \notin cluster.silent
    OBVIOUS
  <2>3. ~Unset(prober)
    BY <1>3 DEF ProbeEnds
  <2>4. /\ DOMAIN prober' = {"owner", "node", "asks", "exits", "deleted"}
        /\ prober'.owner = prober.owner /\ prober'.node = prober.node /\ prober'.asks = prober.asks
        /\ prober'.exits = [prober.exits EXCEPT ![i] = e]
    <3>1. prober' = [prober EXCEPT !.exits[i] = e]
      BY <2>1, <2>2
    <3> HIDE DEF Answers
    <3> QED
      BY <3>1, <2>3, ProberIs DEF Prober
  <2> HIDE DEF Answers
  <2>5. /\ DOMAIN prober'.exits = DOMAIN prober.exits /\ prober'.exits[i] = e
        /\ \A k \in DOMAIN prober.exits : k # i => prober'.exits[k] = prober.exits[k]
    BY <2>4
  <2>6. ProberInv'
    <3> SUFFICES ASSUME ~world.overlap, NEW q \in Runs, step[q] = "waitAnswers"
                 PROVE  /\ prober'.asks = seen[q].asks /\ prober'.node = seen[q].probe
                        /\ \A w \in steady[q] : \A k \in DOMAIN prober'.exits :
                             w[1] = "crossNode" /\ prober'.asks[k] = w[2] => prober'.exits[k] # "ok"
      BY <1>1 DEF ProberInv
    <3>1. /\ prober.asks = seen[q].asks /\ prober.node = seen[q].probe
          /\ \A w \in steady[q] : \A k \in DOMAIN prober.exits :
                w[1] = "crossNode" /\ prober.asks[k] = w[2] => prober.exits[k] # "ok"
      BY <2>3 DEF RunInv, ProberInv
    <3>2. ASSUME NEW w \in steady[q], w[1] = "crossNode", prober.asks[i] = w[2]  PROVE e # "ok"
      <4>1. w[2] \in cluster.silent
        BY <3>2, SteadyIsWrong, WrongIs
      <4>2. cluster.dns[w[2]].node # seen[q].probe
        BY <3>2 DEF RunInv, RunOf, HoldsProbe, ProbeSteps
      <4> QED
        BY <2>2, <3>1, <3>2, <4>1, <4>2
    <3> QED
      BY <2>4, <2>5, <3>1, <3>2
  <2>7. Prober'
    BY <1>1, <2>3, <2>4, <2>5, <2>6, ProberIs DEF Prober, Unset
  <2> QED
    BY <1>1, <2>7, ProberAlone
<1> QED
  BY <1>2, <1>3

LEMMA MovesKeep ==
    ASSUME RunInv, NodeTurns \/ DnsMoves \/ DataMoves \/ StatusMoves
    PROVE  RunInv'
<1>1. ClusterKeeps /\ MovesOn
  BY NodesMove, ReplicasMove, VolumesMove, StatusesMove DEF RunInv
<1>2. /\ UNCHANGED <<pc, class, round, target, verdict, faulted, latest, world, claim, claimDeleted,
                     pod, podDeleted, volume, kills, faults, told, failed, step, seen, prober>>
      /\ DOMAIN scene' = {"played", "moves"} /\ DOMAIN steady' = Runs
      /\ \A q \in Runs : steady'[q] \subseteq steady[q]
  BY <1>1 DEF MovesOn, vars, run, objects, bounds, results
<1>3. TypeOK' /\ StorageInv' /\ OneAtATime'
  BY <1>2 DEF RunInv, RunTypeOK, TypeOK, StorageInv, OneAtATime, Over
<1>4. RunTypeOK' /\ Shapes'
  <2>1. Readable(cluster)'
    BY <1>1 DEF ClusterKeeps, Readable
  <2> QED
    BY <1>1, <1>2, <1>3, <2>1
       DEF RunInv, RunTypeOK, Shapes, ClusterKeeps, Unset, Over, Checks, Range, Order
<1>5. ProberInv'
  BY <1>2 DEF RunInv, ProberInv, Unset
<1>6. \A q \in Runs : RunOf(q)'
  BY <1>1, RunsWhileItMoves DEF RunInv
<1> QED
  BY <1>3, <1>4, <1>5, <1>6 DEF RunInv

LEMMA RunInitInv == RunInit => RunInv
<1> SUFFICES ASSUME RunInit  PROVE RunInv
  OBVIOUS
<1>1. TypeOK /\ StorageInv
  <2>1. Init
    BY DEF RunInit
  <2>2. /\ pc = [r \in Runs |-> "idle"] /\ round = [r \in Runs |-> 1]
        /\ target = [r \in Runs |-> NoRun] /\ verdict = [r \in Runs |-> "none"]
        /\ faulted = [r \in Runs |-> FALSE] /\ class \in [Runs -> world.classes]
        /\ claim = NoRun /\ pod = NoRun /\ latest = NoRun
        /\ claimDeleted = FALSE /\ podDeleted = FALSE /\ kills = 0 /\ faults = 0
        /\ volume = [r \in Runs |-> [at |-> "none", policy |-> "Delete"]]
    BY <2>1 DEF Init
  <2>3. world \in Worlds /\ world.kills \in Nat /\ world.faults \in Nat
    BY <2>1, SmokeAssumption DEF Init, World
  <2>4. 0 \in 0..world.kills /\ 0 \in 0..world.faults
    BY <2>3
  <2>5. volume \in [Runs -> Volume]
    BY <2>2 DEF Volume, Policy
  <2>6. /\ pc \in [Runs -> Active \union {"idle", "done", "killed"}] /\ round \in [Runs -> 1..2]
        /\ target \in [Runs -> Owner] /\ faulted \in [Runs -> BOOLEAN]
        /\ verdict \in [Runs -> {"none", "passed", "failed"}]
        /\ claim \in Owner /\ pod \in Owner /\ latest \in Owner
        /\ claimDeleted \in BOOLEAN /\ podDeleted \in BOOLEAN
        /\ kills \in 0..world.kills /\ faults \in 0..world.faults
    <3>1. round \in [Runs -> 1..2] /\ faulted \in [Runs -> BOOLEAN]
      BY <2>2
    <3> QED
      BY <2>2, <2>4, <3>1 DEF Owner
  <2>7. \A r \in Runs : pc[r] = "idle" /\ round[r] = 1
    BY <2>2
  <2> QED
    BY <2>2, <2>3, <2>5, <2>6, <2>7 DEF TypeOK, StorageInv, Active, Cleaning, Probing
<1>2. PICK s \in Scenes[world] : cluster = s.cluster /\ scene = [played |-> s.played, moves |-> s.moves]
  BY DEF RunInit
<1>3. Readable(cluster)
  BY <1>1, <1>2, RunAssumption DEF TypeOK
<1>4. /\ step = [r \in Runs |-> "idle"] /\ seen = [r \in Runs |-> Nothing]
      /\ told = [r \in Runs |-> <<Nothing, Nothing>>] /\ failed = [r \in Runs |-> FALSE]
      /\ prober = Nothing /\ steady = [r \in Runs |-> {}]
  BY DEF RunInit
<1>5. RunTypeOK /\ Shapes /\ OneAtATime /\ ProberInv
  BY <1>1, <1>2, <1>3, <1>4 DEF RunTypeOK, Shapes, OneAtATime, ProberInv, Unset, Over
<1>6. \A r \in Runs : RunOf(r)
  BY <1>4 DEF RunOf, Untold, HoldsProbe, HoldsVolumes, HoldsServices, Told, Behind, ProbeSteps,
              VolumeSteps
<1> QED
  BY <1>1, <1>5, <1>6 DEF RunInv

LEMMA RunNextInv == RunInv /\ [RunNext]_runVars => RunInv'
<1> SUFFICES ASSUME RunInv, [RunNext]_runVars  PROVE RunInv'
  OBVIOUS
<1>1. ASSUME NEW r \in Runs, Begin(r) \/ Step(r) \/ KillRun(r)  PROVE RunInv'
  BY <1>1, BeginKeeps, StepKeeps, KillRunKeeps
<1>2. CASE Cluster /\ UNCHANGED <<step, seen, results, prober, cluster, scene, steady>>
  <2>1. TypeOK' /\ StorageInv' /\ world' = world
    BY <1>2, ControllersKeep
       DEF RunInv, RunTypeOK, Cluster, PodGone, Provision, Bind, ClaimGone, Reclaim, run
  <2>2. RunTypeOK' /\ Shapes' /\ OneAtATime' /\ ProberInv'
    BY <1>2, <2>1 DEF RunInv, RunTypeOK, Shapes, Readable, OneAtATime, ProberInv, Unset, results, Over,
                      Checks, Range, Order
  <2>3. \A q \in Runs : RunOf(q)'
    BY <1>2, <2>1, OtherRunsKeep DEF RunInv, results
  <2> QED
    BY <2>1, <2>2, <2>3 DEF RunInv
<1>3. CASE ProbeEnds \/ ProberGone
  BY <1>3, ProberMoves
<1>4. CASE NodeTurns \/ DnsMoves \/ DataMoves \/ StatusMoves
  BY <1>4, MovesKeep
<1>5. CASE UNCHANGED runVars
  <2>1. UNCHANGED <<vars, step, seen, results, prober, cluster, scene, steady>>
    BY <1>5 DEF runVars
  <2>2. UNCHANGED <<prober, cluster>> /\ UNCHANGED world
    BY <2>1 DEF vars, run
  <2>3. Prober'
    BY <2>1, <2>2, ProberIs DEF Prober, ProberInv, Unset
  <2> QED
    BY <2>1, <2>3, ProberAlone
<1> QED
  BY <1>1, <1>2, <1>3, <1>4, <1>5 DEF RunNext

----------------------------------------------------------------------------
(* The theorems.                                                            *)

LEMMA RunInvAlways == RunSpec => []RunInv
<1>1. RunSteps => []RunInv
  BY RunInitInv, RunNextInv, PTL DEF RunSteps
<1> QED
  BY <1>1, PTL DEF RunSpec

\* Every verdict is one of three, and the prober stands on a node there is,
\* with an exit for each replica it asks.
THEOREM RunTypesAreRight == RunSpec => []RunTypeOK
<1>1. RunInv => RunTypeOK
  BY DEF RunInv
<1> QED
  BY <1>1, RunInvAlways, PTL

\* What was wrong all through a run fails its check and the run, for any
\* cluster and whatever moves, fails or is left over between the calls.
THEOREM FaultsAreReported == RunSpec => []WrongThroughoutIsReported
<1>1. RunInv => WrongThroughoutIsReported
  <2> SUFFICES ASSUME RunInv, NEW r \in Runs, NEW w \in steady[r]
               PROVE  /\ told[r][1] = w[1] =>
                            \/ told[r][2] = "failed"
                            \/ w[1] = "crossNode" /\ (told[r][2] = "skipped" \/ world.overlap)
                      /\ step[r] = "over" /\ w[1] \in scene.played \ {"crossNode"} => failed[r]
    BY DEF WrongThroughoutIsReported
  <2>1. Told(r) /\ Behind(r)
    BY DEF RunInv, RunOf
  <2>2. w[1] \in Checks /\ Place(w[1]) \in 1..9
    BY SteadyIsWrong, WrongIs, TheChecks
  <2>3. Position("over") = 10
    BY TheChecks DEF Position
  <2>4. step[r] = "over" => Place(w[1]) < Position(step[r])
    BY <2>2, <2>3
  <2> QED
    BY <2>1, <2>4 DEF Told, Behind
<1> QED
  BY <1>1, RunInvAlways, PTL

\* Runs one by one pass the storage check on the claim they created.
THEOREM ResultsAreOwn == RunSpec => ResultIsOwn
<1>1. RunInv /\ [RunNext]_runVars =>
        [\A r \in Runs : verdict'[r] = "passed" /\ verdict[r] = "none"
                             => claim = r \/ world.overlap]_vars
  <2> SUFFICES ASSUME RunInv, [RunNext]_runVars, NEW r \in Runs,
                      verdict'[r] = "passed", verdict[r] = "none", ~world.overlap
               PROVE  claim = r
    OBVIOUS
  <2>1. TypeOK /\ StorageInv
    BY DEF RunInv, RunTypeOK
  <2>2. verdict' # verdict
    BY <2>1 DEF TypeOK
  <2>3. PICK q \in Runs : Start(q) \/ Check(q)
    <3>1. CASE Cluster \/ ProbeEnds \/ ProberGone \/ UNCHANGED runVars
      BY <2>2, <3>1 DEF Cluster, PodGone, Provision, Bind, ClaimGone, Reclaim, ProbeEnds, ProberGone,
                        runVars, vars, run
    <3>2. CASE NodeTurns \/ DnsMoves \/ DataMoves \/ StatusMoves
      BY <2>2, <3>2 DEF NodeTurns, DnsMoves, DataMoves, StatusMoves, Becomes, vars, run
    <3>3. ASSUME NEW q \in Runs, Begin(q) \/ KillRun(q)  PROVE FALSE
      BY <2>2, <3>3 DEF Begin, KillRun, Kill, run, storage
    <3>4. ASSUME NEW q \in Runs, Step(q)  PROVE Start(q) \/ Check(q)
      <4>1. UNCHANGED storage => FALSE
        BY <2>2 DEF storage
      <4>2. CASE checkStorage(q)
        BY <4>1, <4>2 DEF checkStorage, vars, run, storage
      <4>3. OnlyReads => FALSE
        BY <4>1 DEF OnlyReads
      <4>4. CASE \/ checkNodes(q) \/ checkSecretStores(q) \/ checkNetworkPolicies(q)
                 \/ checkExternalMetrics(q)
        BY <4>3, <4>4
           DEF checkNodes, checkSecretStores, checkNetworkPolicies, checkExternalMetrics, Ask
      <4>5. CASE \/ ListNodes(q) \/ ListNamespaces(q) \/ ListClasses(q) \/ ListClaims(q)
                 \/ ListServices(q)
        BY <4>3, <4>5 DEF ListNodes, ListNamespaces, ListClasses, ListClaims, ListServices, Call
      <4>6. CASE ReadDataVolume(q)
        BY <4>3, <4>6 DEF ReadDataVolume, Call
      <4>7. CASE \/ ListDns(q) \/ WaitProber(q) \/ WaitForProber(q) \/ JudgeVolumes(q)
                 \/ checkLoadBalancers(q) \/ ListPolicedNamespaces(q) \/ SubmitPod(q)
        BY <4>3, <4>7 DEF ListDns, WaitProber, WaitForProber, JudgeVolumes, checkLoadBalancers,
                          ListPolicedNamespaces, SubmitPod
      <4>8. CASE ClearProber(q) \/ DropProber(q) \/ CreateProber(q)
        BY <4>1, <4>8 DEF ClearProber, DropProber, DeleteProber, CreateProber
      <4> QED
        BY <3>4, <4>2, <4>4, <4>5, <4>6, <4>7, <4>8 DEF Step
    <3> QED
      BY <3>1, <3>2, <3>3, <3>4 DEF RunNext
  <2>4. WaitBound(q) /\ verdict' = [verdict EXCEPT ![q] = "passed"]
    <3>1. verdict \in [Runs -> {"none", "passed", "failed"}]
      BY <2>1 DEF TypeOK
    <3>2. verdict' # [verdict EXCEPT ![q] = "failed"]
      BY <3>1
    <3>3. CASE Start(q)
      BY <2>2, <3>2, <3>3 DEF Start
    <3>4. CASE DeletePod(q) \/ ReadClaim(q) \/ ReadVolume(q) \/ PatchVolume(q) \/ DeleteClaim(q)
      BY <2>2, <3>4 DEF DeletePod, ReadClaim, ReadVolume, PatchVolume, DeleteClaim
    <3>5. CASE WaitPod(q) \/ WaitClaim(q)
      BY <2>2, <3>2, <3>5 DEF WaitPod, WaitClaim, WaitGone, Finish
    <3>6. CASE CreateClaim(q) \/ CreatePod(q)
      BY <2>2, <3>2, <3>6 DEF CreateClaim, CreatePod, Finish
    <3>7. CASE WaitBound(q)
      BY <3>2, <3>7 DEF WaitBound, Finish
    <3> QED
      BY <2>3, <3>3, <3>4, <3>5, <3>6, <3>7 DEF Check
  <2>5. q = r
    BY <2>1, <2>4 DEF TypeOK
  <2> QED
    BY <2>1, <2>4, <2>5 DEF WaitBound, StorageInv
<1> QED
  BY <1>1, RunInvAlways, PTL DEF RunSpec, RunSteps, ResultIsOwn
=============================================================================
