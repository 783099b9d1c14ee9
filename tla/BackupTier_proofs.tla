-------------------------- MODULE BackupTier_proofs --------------------------
(***************************************************************************)
(* That a recovery kit opens the repository (KitsOpen), for any number of   *)
(* machines, applies, destroys, stops, uploads and kits.                    *)
(*                                                                          *)
(* A number names the change that made a box or drew a key.  The argument:  *)
(* a box is made under a number nothing mentions yet; what mentions the box *)
(* that stands was read from the outputs, and since the first time they     *)
(* named that box they carry one key, the stash's.                          *)
(***************************************************************************)
EXTENDS BackupTier, Integers, TLAPS, FiniteSetTheorems

\* A value of the outputs an upload or a kit holds, of the box that stands.
Mentions(o) == o.box = standing.id /\ standing.id # None

\* Where the values lie, as far as the argument needs it.
ShapeInv ==
    /\ tier \in Tier /\ held \in [Machines -> Outputs]
    /\ standing \in [id : Nat, account : Nat, project : Projects]
    /\ repoKey \in Nat /\ changes \in Nat \ {0} /\ past \subseteq {"blind", "torn"}
    /\ kit.began \in Nat /\ \A k \in kits : k.began \in Nat /\ k.box \in Nat /\ k.key \in Nat

\* What the state says of the resources.
StateInv ==
    /\ tier.account # None => tier.box # None
    /\ tier.phase = "apply" => tier.token # "none"
    /\ tier.phase = "apply" /\ tier.token = "cluster" => "blind" \in past
    /\ standing.project = "cluster" => "blind" \in past
    /\ tier.box = None => standing.id = None
    /\ "blind" \notin past => tier.box = standing.id
    /\ tier.outputs.box # None => tier.token # "none" /\ tier.outputs.key # None
    /\ \A m \in Machines : held[m].box # None => tier.token # "none" /\ held[m].key # None
    /\ repoKey # None => standing.id # None
    /\ stored => tier.token # "none"
    /\ stored /\ "blind" \notin past => repoKey # None

\* The next box is a new one.
FreshInv ==
    LET Limit == IF tier.phase = "apply" /\ tier.box = None THEN changes - 1 ELSE changes
    IN /\ tier.outputs.box <= Limit /\ kit.began <= Limit
       /\ \A m \in Machines : held[m].box <= Limit
       /\ \A k \in kits : k.box <= Limit /\ k.began <= Limit
       /\ standing.id <= changes /\ tier.box <= changes

\* One box, one key.
KeyInv ==
    ~Unrefused =>
      /\ \A m \in Machines : Mentions(held[m]) =>
           tier.outputs.box = standing.id /\ held[m].key = tier.outputs.key
      /\ \A k \in kits : Mentions(k) =>
           tier.outputs.box = standing.id /\ k.key = tier.outputs.key
      /\ repoKey # None => tier.outputs.box = standing.id /\ repoKey = tier.outputs.key
      /\ Mentions(tier.outputs) =>
           /\ tier.stash # None => tier.stash = tier.outputs.key
           /\ tier.stash = None /\ tier.phase # "destroy" =>
                tier.generator # None /\ tier.generator = tier.outputs.key

\* A kit begun after an upload finished.
StoredInv ==
    /\ kit.stored => tier.token # "none"
    /\ ~Unrefused =>
      /\ kit.stored /\ kit.began = standing.id /\ standing.id # None => tier.outputs.box = standing.id
      /\ \A k \in kits : k.stored /\ k.began = standing.id /\ standing.id # None =>
           k.box = standing.id

KitInv == ShapeInv /\ StateInv /\ FreshInv /\ KeyInv /\ StoredInv

LEMMA InitKit == TierInit => KitInv
BY DEF TierInit, TierAt, KitInv, ShapeInv, StateInv, FreshInv, KeyInv, StoredInv, Mentions,
       Unrefused, Init, Tier, Kit, Outputs, Types, Projects, NoOutputs, NoBox, NoKit, None

----------------------------------------------------------------------------
(* The steps of the tier.                                                    *)

\* A token is only set where no box stands.
LEMMA TokenStep ==
  ASSUME KitInv, NEW project \in {"own", "cluster"}, SetToken(project)
  PROVE  KitInv'
<1> USE DEF None
<1>1. /\ tier' = [tier EXCEPT !.token = project]
      /\ changes' = changes + 1
      /\ tier.phase = "idle"
      /\ tier.box = None
      /\ UNCHANGED <<stored, standing, repoKey, held, kit, kits, past>>
  BY DEF SetToken, Settled, Count, vars
<1> QED
  BY <1>1 DEF KitInv, ShapeInv, Tier, Projects, Types, Outputs, StateInv, FreshInv, KeyInv,
              StoredInv, Mentions, Unrefused, NoOutputs, NoBox, NoKit

\* An edit is a plan, and changes nothing that exists.
LEMMA EditStep ==
  ASSUME KitInv, EditType
  PROVE  KitInv'
<1> USE DEF None
<1>1. /\ tier' = [tier EXCEPT !.wanted = "bx21"]
      /\ changes' = changes + 1
      /\ UNCHANGED <<stored, standing, repoKey, held, kit, kits, past>>
  BY DEF EditType, Settled, Count, vars
<1> QED
  BY <1>1 DEF KitInv, ShapeInv, Tier, Projects, Types, Outputs, StateInv, FreshInv, KeyInv,
              StoredInv, Mentions, Unrefused, NoOutputs, NoBox, NoKit

\* The cluster's servers are none of the tier's.
LEMMA ServersStep ==
  ASSUME KitInv, ServersMove
  PROVE  KitInv'
<1> USE DEF None
<1>1. /\ changes' = changes + 1
      /\ UNCHANGED <<stored, standing, repoKey, held, kit, kits, past>>
  BY DEF ServersMove, Count, vars
<1>2. PICK up \in BOOLEAN : tier' = [tier EXCEPT !.servers = up]
  <2>1. (~tier.servers) \in BOOLEAN
    OBVIOUS
  <2>2. tier' = [tier EXCEPT !.servers = ~tier.servers]
    BY DEF ServersMove
  <2> QED
    BY <2>1, <2>2, Zenon
<1> QED
  BY <1>1, <1>2 DEF KitInv, ShapeInv, Tier, Projects, Types, Outputs, StateInv, FreshInv, KeyInv,
    StoredInv, Mentions, Unrefused, NoOutputs, NoBox, NoKit

\* Only a box an apply made blind is lost.
LEMMA CompromiseStep ==
  ASSUME KitInv, ClusterCompromised
  PROVE  KitInv'
<1> USE DEF None
<1>1. /\ standing' = NoBox
      /\ repoKey' = None
      /\ standing.project = "cluster"
      /\ UNCHANGED <<tier, stored, held, kit, kits, changes, past>>
  BY DEF ClusterCompromised
<1> QED
  BY <1>1 DEF KitInv, ShapeInv, Tier, Projects, Types, Outputs, StateInv, FreshInv, KeyInv,
              StoredInv, Mentions, Unrefused, NoOutputs, NoBox, NoKit

\* An apply numbers what it makes with a change of its own.
LEMMA StartApplyStep ==
  ASSUME KitInv, StartApply
  PROVE  KitInv'
<1> USE DEF None
<1>1. /\ tier' = [tier EXCEPT !.phase = "apply"]
      /\ changes' = changes + 1
      /\ past' = past \union (IF tier.token = "cluster" /\ ~tier.servers THEN {"blind"} ELSE {})
      /\ tier.phase = "idle"
      /\ tier.token # "none"
      /\ tier.token = "cluster" => ~tier.servers
      /\ UNCHANGED <<stored, standing, repoKey, held, kit, kits>>
  BY DEF StartApply, Settled, Preview, BoxStays, SeparateProject, Count, vars
<1> QED
  BY <1>1 DEF KitInv, ShapeInv, Tier, Projects, Types, Outputs, StateInv, FreshInv, KeyInv,
              StoredInv, Mentions, Unrefused, NoOutputs, NoBox, NoKit

\* A key is drawn only where there is no generator.
LEMMA DrawStep ==
  ASSUME KitInv, DrawKey
  PROVE  KitInv'
<1> USE DEF None
<1>1. /\ tier' = [tier EXCEPT !.generator = changes, !.inputs = "now"]
      /\ tier.phase = "apply"
      /\ tier.generator = None
      /\ UNCHANGED <<stored, standing, repoKey, held, kit, kits, changes, past>>
  BY DEF DrawKey, vars
<1>2. ShapeInv'
  BY <1>1 DEF KitInv, ShapeInv, Tier, Projects, Types, Outputs, NoOutputs, NoBox, NoKit
<1>3. StateInv'
  BY <1>1 DEF KitInv, ShapeInv, Tier, Outputs, StateInv, NoOutputs, NoBox
<1>4. FreshInv'
  BY <1>1 DEF KitInv, ShapeInv, Tier, Outputs, StateInv, FreshInv, NoOutputs, NoBox, NoKit
<1>5. KeyInv'
  BY <1>1 DEF KitInv, ShapeInv, Tier, Outputs, StateInv, FreshInv, KeyInv,
              Mentions, Unrefused, NoOutputs, NoBox
<1>6. StoredInv'
  BY <1>1 DEF KitInv, ShapeInv, Tier, Outputs, StateInv, FreshInv, KeyInv,
              StoredInv, Mentions, Unrefused, NoOutputs, NoBox, NoKit
<1> QED
  BY <1>2, <1>3, <1>4, <1>5, <1>6 DEF KitInv

\* The stash takes the generator's key.
LEMMA StashStep ==
  ASSUME KitInv, StashKey
  PROVE  KitInv'
<1> USE DEF None
<1>1. /\ tier' = [tier EXCEPT !.stash = tier.generator]
      /\ tier.phase = "apply"
      /\ tier.generator # None
      /\ tier.stash = None
      /\ UNCHANGED <<stored, standing, repoKey, held, kit, kits, changes, past>>
  BY DEF StashKey, vars
<1> QED
  BY <1>1 DEF KitInv, ShapeInv, Tier, Projects, Types, Outputs, StateInv, FreshInv, KeyInv,
              StoredInv, Mentions, Unrefused, NoOutputs, NoBox, NoKit

\* A new box is mentioned nowhere.
LEMMA CreateBoxStep ==
  ASSUME KitInv, CreateBox
  PROVE  KitInv'
<1> USE DEF None
<1>1. /\ tier' = [tier EXCEPT !.box = changes, !.type = tier.wanted]
      /\ standing' = [id |-> changes, account |-> None, project |-> tier.token]
      /\ tier.phase = "apply"
      /\ tier.box = None
      /\ UNCHANGED <<stored, repoKey, held, kit, kits, changes, past>>
  BY DEF CreateBox, vars
<1>2. ShapeInv'
  BY <1>1 DEF KitInv, ShapeInv, Tier, Projects, Types, Outputs, NoOutputs, NoBox, NoKit
<1>3. StateInv'
  BY <1>1 DEF KitInv, ShapeInv, Tier, Outputs, StateInv, NoOutputs, NoBox
<1>4. FreshInv'
  BY <1>1 DEF KitInv, ShapeInv, Tier, Outputs, StateInv, FreshInv, NoOutputs, NoBox, NoKit
<1>5. KeyInv'
  BY <1>1 DEF KitInv, ShapeInv, Tier, Outputs, StateInv, FreshInv, KeyInv,
              Mentions, Unrefused, NoOutputs, NoBox
<1>6. StoredInv'
  BY <1>1 DEF KitInv, ShapeInv, Tier, Outputs, StateInv, FreshInv, KeyInv,
              StoredInv, Mentions, Unrefused, NoOutputs, NoBox, NoKit
<1> QED
  BY <1>2, <1>3, <1>4, <1>5, <1>6 DEF KitInv

\* An account opens a box, and is not one.
LEMMA CreateAccountStep ==
  ASSUME KitInv, CreateAccount
  PROVE  KitInv'
<1> USE DEF None
<1>1. /\ tier' = [tier EXCEPT !.account = changes]
      /\ standing' = [standing EXCEPT !.account = changes]
      /\ tier.box # None
      /\ UNCHANGED <<stored, repoKey, held, kit, kits, changes, past>>
  BY DEF CreateAccount, vars
<1> QED
  BY <1>1 DEF KitInv, ShapeInv, Tier, Projects, Types, Outputs, StateInv, FreshInv, KeyInv,
              StoredInv, Mentions, Unrefused, NoOutputs, NoBox, NoKit

\* The outputs come to name the box and the stash's key.
LEMMA PublishStep ==
  ASSUME KitInv, Publish
  PROVE  KitInv'
<1> USE DEF None
<1>1. /\ tier' = [tier EXCEPT !.phase = "idle",
           !.outputs = [box |-> tier.box, account |-> tier.account, key |-> tier.stash]]
      /\ tier.phase = "apply"
      /\ tier.stash # None
      /\ tier.account # None
      /\ UNCHANGED <<stored, standing, repoKey, held, kit, kits, changes, past>>
  BY DEF Publish, vars
<1> QED
  BY <1>1 DEF KitInv, ShapeInv, Tier, Projects, Types, Outputs, StateInv, FreshInv, KeyInv,
              StoredInv, Mentions, Unrefused, NoOutputs, NoBox, NoKit

\* A destroy begins.
LEMMA StartDestroyStep ==
  ASSUME KitInv, StartDestroy
  PROVE  KitInv'
<1> USE DEF None
<1>1. /\ tier' = [tier EXCEPT !.phase = "destroy"]
      /\ changes' = changes + 1
      /\ tier.phase = "idle"
      /\ UNCHANGED <<stored, standing, repoKey, held, kit, kits, past>>
  BY DEF StartDestroy, Settled, Count, vars
<1> QED
  BY <1>1 DEF KitInv, ShapeInv, Tier, Projects, Types, Outputs, StateInv, FreshInv, KeyInv,
              StoredInv, Mentions, Unrefused, NoOutputs, NoBox, NoKit

\* An account goes before its box.
LEMMA DeleteAccountStep ==
  ASSUME KitInv, DeleteAccount
  PROVE  KitInv'
<1> USE DEF None
<1>1. /\ tier' = [tier EXCEPT !.account = None]
      /\ standing' = [standing EXCEPT !.account = None]
      /\ tier.phase = "destroy"
      /\ UNCHANGED <<stored, repoKey, held, kit, kits, changes, past>>
  BY DEF DeleteAccount, vars
<1> QED
  BY <1>1 DEF KitInv, ShapeInv, Tier, Projects, Types, Outputs, StateInv, FreshInv, KeyInv,
              StoredInv, Mentions, Unrefused, NoOutputs, NoBox, NoKit

\* The repository goes with its box, and so does what was stored.
LEMMA DeleteBoxStep ==
  ASSUME KitInv, DeleteBox
  PROVE  KitInv'
<1> USE DEF None
<1>1. /\ tier' = [tier EXCEPT !.box = None]
      /\ standing' = NoBox
      /\ repoKey' = None
      /\ stored' = FALSE
      /\ tier.phase = "destroy"
      /\ tier.account = None
      /\ UNCHANGED <<held, kit, kits, changes, past>>
  BY DEF DeleteBox
<1> QED
  BY <1>1 DEF KitInv, ShapeInv, Tier, Projects, Types, Outputs, StateInv, FreshInv, KeyInv,
              StoredInv, Mentions, Unrefused, NoOutputs, NoBox, NoKit

\* A destroy forgets the stash.
LEMMA ForgetStashStep ==
  ASSUME KitInv, tier.phase = "destroy", UNCHANGED <<vars, world, standing, repoKey, held, kit, kits, changes, past>>,
         tier' = [tier EXCEPT !.stash = None]
  PROVE  KitInv'
<1> USE DEF None
<1>1. /\ tier' = [tier EXCEPT !.stash = None]
      /\ tier.phase = "destroy"
      /\ UNCHANGED <<stored, standing, repoKey, held, kit, kits, changes, past>>
  BY DEF tierVars, vars
<1> QED
  BY <1>1 DEF KitInv, ShapeInv, Tier, Projects, Types, Outputs, StateInv, FreshInv, KeyInv,
              StoredInv, Mentions, Unrefused, NoOutputs, NoBox, NoKit

\* And then the generator.
LEMMA ForgetGeneratorStep ==
  ASSUME KitInv, tier.phase = "destroy", tier.stash = None,
         UNCHANGED <<vars, world, standing, repoKey, held, kit, kits, changes, past>>,
         tier' = [tier EXCEPT !.generator = None]
  PROVE  KitInv'
<1> USE DEF None
<1>1. /\ tier' = [tier EXCEPT !.generator = None]
      /\ tier.phase = "destroy"
      /\ tier.stash = None
      /\ UNCHANGED <<stored, standing, repoKey, held, kit, kits, changes, past>>
  BY DEF tierVars, vars
<1> QED
  BY <1>1 DEF KitInv, ShapeInv, Tier, Projects, Types, Outputs, StateInv, FreshInv, KeyInv,
              StoredInv, Mentions, Unrefused, NoOutputs, NoBox, NoKit

\* A destroy that ends leaves no box.
LEMMA FinishDestroyStep ==
  ASSUME KitInv, FinishDestroy
  PROVE  KitInv'
<1> USE DEF None
<1>1. /\ tier' = [tier EXCEPT !.phase = "idle", !.outputs = NoOutputs]
      /\ past' = past \ {"torn"}
      /\ tier.phase = "destroy"
      /\ tier.stash = None
      /\ tier.box = None
      /\ UNCHANGED <<stored, standing, repoKey, held, kit, kits, changes>>
  BY DEF FinishDestroy, vars
<1>2. ShapeInv'
  BY <1>1 DEF KitInv, ShapeInv, Tier, Projects, Types, Outputs, NoOutputs, NoBox, NoKit
<1>3. StateInv'
  BY <1>1 DEF KitInv, ShapeInv, Tier, Outputs, StateInv, NoOutputs, NoBox
<1>4. FreshInv'
  BY <1>1 DEF KitInv, ShapeInv, Tier, Outputs, StateInv, FreshInv, NoOutputs, NoBox, NoKit
<1>5. KeyInv'
  BY <1>1 DEF KitInv, ShapeInv, Tier, Outputs, StateInv, FreshInv, KeyInv,
              Mentions, Unrefused, NoOutputs, NoBox
<1>6. StoredInv'
  BY <1>1 DEF KitInv, ShapeInv, Tier, Outputs, StateInv, FreshInv, KeyInv,
              StoredInv, Mentions, Unrefused, NoOutputs, NoBox, NoKit
<1> QED
  BY <1>2, <1>3, <1>4, <1>5, <1>6 DEF KitInv

\* A destroy that stops with the key gone and the box there is torn.
LEMMA StopTierStep ==
  ASSUME KitInv, StopTier
  PROVE  KitInv'
<1> USE DEF None
<1>1. /\ tier' = [tier EXCEPT !.phase = "idle"]
      /\ past' = past \union (IF tier.phase = "destroy" /\ tier.stash = None /\ standing # NoBox
                             THEN {"torn"} ELSE {})
      /\ tier.phase # "idle"
      /\ UNCHANGED <<stored, standing, repoKey, held, kit, kits, changes>>
  BY DEF StopTier
<1> QED
  BY <1>1 DEF KitInv, ShapeInv, Tier, Projects, Types, Outputs, StateInv, FreshInv, KeyInv,
              StoredInv, Mentions, Unrefused, NoOutputs, NoBox, NoKit

----------------------------------------------------------------------------
(* The uploads, the downloads and the kits.                                  *)

\* What leaves the tier alone.
LEMMA SameTier ==
  ASSUME KitInv, UNCHANGED <<tier, standing, repoKey, held, kit, kits, changes, past, stored>>
  PROVE  KitInv'
<1> USE DEF None
<1>1. /\ UNCHANGED <<tier, stored, standing, repoKey, held, kit, kits, changes, past>>
  BY DEF KitInv
<1> QED
  BY <1>1 DEF KitInv, ShapeInv, Tier, Projects, Types, Outputs, StateInv, FreshInv, KeyInv,
              StoredInv, Mentions, Unrefused, NoOutputs, NoBox, NoKit

\* An upload forgets what an earlier one of its machine read.
LEMMA PickStep ==
  ASSUME KitInv, NEW m \in Machines, Pick(m), held' = [held EXCEPT ![m] = NoOutputs],
         UNCHANGED <<world, tier, standing, repoKey, kit, kits, changes, past>>
  PROVE  KitInv'
<1> USE DEF None
<1>1. /\ held' = [held EXCEPT ![m] = NoOutputs]
      /\ UNCHANGED <<tier, stored, standing, repoKey, kit, kits, changes, past>>
  BY DEF Pick
<1> QED
  BY <1>1 DEF KitInv, ShapeInv, Tier, Projects, Types, Outputs, StateInv, FreshInv, KeyInv,
              StoredInv, Mentions, Unrefused, NoOutputs, NoBox, NoKit

\* What is read is the outputs, and what they mention.
LEMMA ReadOutputsStep ==
  ASSUME KitInv, NEW m \in Machines, ReadOutputs(m)
  PROVE  KitInv'
<1> USE DEF None
<1>1. /\ held' = [held EXCEPT ![m] = tier.outputs]
      /\ UNCHANGED <<tier, stored, standing, repoKey, kit, kits, changes, past>>
  BY DEF ReadOutputs
<1> QED
  BY <1>1 DEF KitInv, ShapeInv, Tier, Projects, Types, Outputs, StateInv, FreshInv, KeyInv,
              StoredInv, Mentions, Unrefused, NoOutputs, NoBox, NoKit

\* A repository is initialised with the key the outputs have.
LEMMA InitRepositoryStep ==
  ASSUME KitInv, NEW m \in Machines, InitRepository(m)
  PROVE  KitInv'
<1> USE DEF None
<1>1. /\ repoKey' = held[m].key
      /\ held[m].box # None
      /\ held[m].box = standing.id
      /\ UNCHANGED <<tier, stored, standing, held, kit, kits, changes, past>>
  BY DEF InitRepository, Connects, vars
<1> QED
  BY <1>1 DEF KitInv, ShapeInv, Tier, Projects, Types, Outputs, StateInv, FreshInv, KeyInv,
              StoredInv, Mentions, Unrefused, NoOutputs, NoBox, NoKit

\* An upload that ends has opened the repository.
LEMMA ResticStep ==
  ASSUME KitInv, NEW m \in Machines, Restic(m)
  PROVE  KitInv'
<1> USE DEF None
<1>1. /\ stored' \in {stored, TRUE} /\ held[m].box # None /\ repoKey = held[m].key
      /\ UNCHANGED <<tier, standing, repoKey, held, kit, kits, changes, past>>
  <2>1. UNCHANGED tierVars /\ Opened(held[m])
    BY DEF Restic
  <2>2. stored' \in {stored, TRUE}
    BY DEF Restic, BackupEtcd, BackupSecrets, ForgetSecrets, ForgetEtcd, Finish
  <2> QED
    BY <2>1, <2>2 DEF tierVars, Opened, Connects
<1> QED
  BY <1>1 DEF KitInv, ShapeInv, Tier, Projects, Types, Outputs, StateInv, FreshInv, KeyInv,
    StoredInv, Mentions, Unrefused, NoOutputs, NoBox, NoKit

\* A kit is begun of the box that stands.
LEMMA StartKitStep ==
  ASSUME KitInv, StartKit
  PROVE  KitInv'
<1> USE DEF None
<1>1. /\ kit'.began = standing.id
      /\ UNCHANGED <<tier, stored, standing, repoKey, held, kits, changes, past>>
  BY DEF StartKit, vars
<1>2. kit'.stored => stored
  <2>1. kit'.stored = stored
    BY DEF StartKit
  <2> QED
    BY <2>1, Zenon
<1>3. StoredInv'
  <2>1. kit'.stored => tier.token # "none" /\ ("blind" \notin past => repoKey # None)
    BY <1>2 DEF KitInv, StateInv
  <2> QED
    BY <1>1, <2>1 DEF KitInv, KeyInv, StoredInv, Unrefused
<1>4. ShapeInv' /\ StateInv'
  BY <1>1 DEF KitInv, ShapeInv, StateInv
<1>5. FreshInv' /\ KeyInv'
  BY <1>1 DEF KitInv, ShapeInv, StateInv, FreshInv, KeyInv, Mentions, Unrefused
<1> QED
  BY <1>3, <1>4, <1>5 DEF KitInv

\* A kit has the outputs in it; one that has none is of a tier without a stack.
LEMMA PutAwayStep ==
  ASSUME KitInv, NEW o, PutAway(o), kit' = NoKit,
         UNCHANGED <<vars, world, tier, standing, repoKey, held, changes, past>>,
         (o = tier.outputs) \/ (o = NoOutputs /\ tier.token = "none")
  PROVE  KitInv'
<1> USE DEF None
<1>1. /\ kit' = NoKit
      /\ kits' = kits \union
           {[began |-> kit.began, stored |-> kit.stored, box |-> o.box, key |-> o.key]}
      /\ UNCHANGED <<tier, stored, standing, repoKey, held, changes, past>>
  BY DEF PutAway, vars
<1> QED
  BY <1>1 DEF KitInv, ShapeInv, Tier, Projects, Types, Outputs, StateInv, FreshInv, KeyInv,
              StoredInv, Mentions, Unrefused, NoOutputs, NoBox, NoKit

----------------------------------------------------------------------------
(* The theorem.                                                              *)

LEMMA TierStepKit ==
  ASSUME KitInv, TierStep
  PROVE  KitInv'
<1>1. CASE \E project \in {"own", "cluster"} : SetToken(project)
  BY <1>1, TokenStep
<1>2. CASE EditType \/ ServersMove \/ ClusterCompromised
  BY <1>2, EditStep, ServersStep, CompromiseStep
<1>3. CASE StartApply \/ DrawKey \/ StashKey \/ CreateBox \/ CreateAccount \/ Publish
  BY <1>3, StartApplyStep, DrawStep, StashStep, CreateBoxStep, CreateAccountStep, PublishStep
<1>4. CASE ForgetKey
  BY <1>4, ForgetStashStep, ForgetGeneratorStep DEF ForgetKey
<1>5. CASE StartDestroy \/ DeleteAccount \/ DeleteBox \/ FinishDestroy \/ StopTier
  BY <1>5, StartDestroyStep, DeleteAccountStep, DeleteBoxStep, FinishDestroyStep, StopTierStep
<1> QED
  BY <1>1, <1>2, <1>3, <1>4, <1>5 DEF TierStep

LEMMA TakeKitKit ==
  ASSUME KitInv, TakeKit
  PROVE  KitInv'
<1>1. CASE StartKit
  BY <1>1, StartKitStep
<1>2. CASE KitOutputs
  BY <1>2, PutAwayStep DEF KitOutputs
<1>3. CASE KitUnreadable
  <2>1. CASE tier.token = "none"
    BY <1>3, <2>1, PutAwayStep DEF KitUnreadable
  <2>2. CASE tier.token # "none"
    <3>1. kit' = NoKit /\ UNCHANGED <<stored, tier, standing, repoKey, held, kits, changes, past>>
      BY <1>3, <2>2 DEF KitUnreadable, vars
    <3> QED
      BY <3>1 DEF KitInv, ShapeInv, StateInv, FreshInv, KeyInv, StoredInv, Mentions, Unrefused, NoKit, None, Tier
  <2> QED
    BY <2>1, <2>2
<1> QED
  BY <1>1, <1>2, <1>3 DEF TakeKit

LEMMA UploadsKit ==
  ASSUME KitInv, NEW m \in Machines, Uploads(m)
  PROVE  KitInv'
<1>1. CASE Pick(m) /\ held' = [held EXCEPT ![m] = NoOutputs]
           /\ UNCHANGED <<world, tier, standing, repoKey, kit, kits, changes, past>>
  BY <1>1, PickStep
<1>2. CASE VerifyPicked(m) /\ UNCHANGED tierVars
  BY <1>2, SameTier DEF VerifyPicked, tierVars
<1>3. CASE ReadOutputs(m) \/ InitRepository(m) \/ Restic(m)
  BY <1>3, ReadOutputsStep, InitRepositoryStep, ResticStep
<1>4. CASE Refused(m)
  BY <1>4, SameTier DEF Refused, tierVars
<1> QED
  BY <1>1, <1>2, <1>3, <1>4 DEF Uploads

LEMMA NextKit ==
  ASSUME KitInv, [TierNext]_allVars
  PROVE  KitInv'
<1>1. CASE TierStep \/ TakeKit
  BY <1>1, TierStepKit, TakeKitKit
<1>2. CASE Elsewhere
  BY <1>2, SameTier DEF Elsewhere, tierVars, Rebuild, Take, Stop, LoseMachine
<1>3. ASSUME NEW m \in Machines, Uploads(m) \/ Downloads(m)
      PROVE  KitInv'
  BY <1>3, UploadsKit, SameTier DEF Downloads, Download, tierVars
<1>4. CASE UNCHANGED allVars
  BY <1>4, SameTier DEF allVars, tierVars, vars
<1> QED
  BY <1>1, <1>2, <1>3, <1>4 DEF TierNext

\* What the invariant comes to for a kit.
LEMMA KitInvOpens == KitInv => KitsOpen
<1> SUFFICES ASSUME KitInv, repoKey # None, ~Unrefused, NEW k \in kits
             PROVE  /\ k.box = standing.id => k.key = repoKey
                    /\ k.stored /\ k.began = standing.id => k.box = standing.id
  BY DEF KitsOpen
<1>1. standing.id # None
  BY DEF KitInv, StateInv
<1> QED
  BY <1>1 DEF KitInv, KeyInv, StoredInv, Mentions

\* A recovery kit that names the box that stands holds the key of its
\* repository, and a kit begun after an upload had finished names that box for
\* as long as it stands: through any applies, destroys and stops but the two
\* sequences the program does not refuse.
THEOREM KitsAlwaysOpen == TierSpec => []KitsOpen
<1>1. KitInv /\ [TierNext]_allVars => KitInv'
  BY NextKit
<1> QED
  BY <1>1, InitKit, KitInvOpens, PTL DEF TierSpec

\* Until a destroy takes the box, the tier's outputs name the box whose
\* repository the uploads wrote, and its key.
THEOREM OutputsAlwaysOpen == TierSpec => [](
    stored /\ ~Unrefused => tier.outputs.box = standing.id /\ tier.outputs.key = repoKey)
<1>1. KitInv /\ [TierNext]_allVars => KitInv'
  BY NextKit
<1>2. KitInv => (stored /\ ~Unrefused =>
                   tier.outputs.box = standing.id /\ tier.outputs.key = repoKey)
  BY DEF KitInv, StateInv, KeyInv, Unrefused
<1> QED
  BY <1>1, <1>2, InitKit, PTL DEF TierSpec
----------------------------------------------------------------------------
(* The uploads.  Retention keeps the last Keep of a series; the ids along a *)
(* series rise, so what it drops of the snapshots is older than all it      *)
(* keeps; and of Keep bundles one is whole while fewer than Keep uploads    *)
(* have stopped, and of an era no earlier than those before it.             *)

\* Where an upload is behind its snapshot, and behind its bundle.
HasPoint  == {"secrets", "forgetSecrets", "forgetEtcd", "check"}
HasBundle == {"forgetSecrets", "forgetEtcd", "check"}

Empty(s) == {j \in DOMAIN s : s[j].era = NoBundle}
Whole(s, e) == \E j \in DOMAIN s : s[j].era # NoBundle /\ e <= s[j].era

\* What was stored under an id is there, or Keep newer ones are.
Outlived(s, id) ==
    \/ \E i \in DOMAIN s : s[i].id = id
    \/ Len(s) >= Keep /\ \A i \in DOMAIN s : Len(s) < i + Keep => id < s[i].id

\* The two series, as they grow.
Rising(s)  == \A i, j \in DOMAIN s : i < j => s[i].id < s[j].id
Eras(s)    == \A i, j \in DOMAIN s : i < j => s[j].era = NoBundle \/ s[i].era <= s[j].era

SeriesInv ==
    /\ Rising(points) /\ \A i \in DOMAIN points : points[i].id <= ids /\ points[i].era <= era
    /\ Eras(bundles) /\ \A j \in DOMAIN bundles : bundles[j].era <= era
    /\ Cardinality(Empty(bundles)) <= stops
    /\ \A m \in Machines :
          mine[m] <= ids /\ picked[m].era <= era /\ \A f \in local[m] : f.era <= era

UploadsInv ==
    /\ \A m \in Machines : Mentions(held[m]) =>
          /\ pc[m] \in HasPoint => Outlived(points, mine[m])
          /\ pc[m] \in HasBundle /\ stops < Keep => Whole(bundles, picked[m].era)
    /\ stored /\ "blind" \notin past => points # <<>> /\ (stops < Keep => Whole(bundles, 1))

TierInv == KitInv /\ TierTypeOK /\ IsFiniteSet(kits) /\ SeriesInv /\ UploadsInv

----------------------------------------------------------------------------
(* Series.                                                                   *)

LEMMA Appended ==
    ASSUME NEW S, NEW s \in Seq(S), NEW e \in S
    PROVE  /\ Append(s, e) \in Seq(S) /\ Len(s) \in Nat
           /\ DOMAIN s = 1..Len(s) /\ DOMAIN Append(s, e) = 1..(Len(s) + 1)
           /\ Len(Append(s, e)) = Len(s) + 1 /\ Append(s, e)[Len(s) + 1] = e
           /\ \A i \in 1..Len(s) : Append(s, e)[i] = s[i]
OBVIOUS

\* Of n, the first d are dropped, and the others moved to the front.
Moves(s, t, n, d) ==
    /\ n \in Nat /\ d \in Nat /\ Keep \in Nat \ {0} /\ d <= n
    /\ n <= Keep => d = 0
    /\ n > Keep => d = n - Keep
    /\ DOMAIN s = 1..n /\ DOMAIN t = 1..(n - d)
    /\ \A i \in 1..(n - d) : i + d \in 1..n /\ t[i] = s[i + d]

Dropped(s) == IF Len(s) > Keep THEN Len(s) - Keep ELSE 0

LEMMA LastKeptIs ==
    ASSUME NEW S, NEW s \in Seq(S)
    PROVE  /\ Moves(s, LastKept(s), Len(s), Dropped(s))
           /\ LastKept(s) \in Seq(S) /\ Len(LastKept(s)) = Len(s) - Dropped(s)
<1>1. Keep \in Nat \ {0} /\ Len(s) \in Nat /\ DOMAIN s = 1..Len(s)
  BY BackupAssumption
<1>2. /\ Dropped(s) \in Nat /\ Dropped(s) <= Len(s)
      /\ Len(s) <= Keep => Dropped(s) = 0
      /\ Len(s) > Keep => Dropped(s) = Len(s) - Keep
  <2>1. ASSUME NEW n \in Nat, NEW k \in Nat
        PROVE  LET d == IF n > k THEN n - k ELSE 0
               IN d \in Nat /\ d <= n /\ (n <= k => d = 0) /\ (n > k => d = n - k)
    OBVIOUS
  <2>2. Len(s) \in Nat /\ Keep \in Nat
    BY <1>1
  <2> QED
    BY <2>1, <2>2, Zenon DEF Dropped
<1>3. LastKept(s) = SubSeq(s, Dropped(s) + 1, Len(s))
  <2>1. Dropped(s) + 1 = IF Len(s) > Keep THEN Len(s) - Keep + 1 ELSE 1
    BY <1>1 DEF Dropped
  <2> QED
    BY <2>1 DEF LastKept
<1>4. \A i \in 1..(Len(s) - Dropped(s)) : i + Dropped(s) \in 1..Len(s)
  BY <1>1, <1>2
<1>5. /\ LastKept(s) \in Seq(S) /\ Len(LastKept(s)) = Len(s) - Dropped(s)
      /\ \A i \in 1..(Len(s) - Dropped(s)) : LastKept(s)[i] = s[i + Dropped(s)]
  BY <1>1, <1>2, <1>3, <1>4
<1>6. DOMAIN LastKept(s) = 1..(Len(s) - Dropped(s))
  BY <1>5
<1> QED
  BY <1>1, <1>2, <1>4, <1>5, <1>6 DEF Moves

LEMMA EmptyIsFinite ==
    ASSUME NEW s \in Seq(Bundle)
    PROVE  IsFiniteSet(Empty(s)) /\ Cardinality(Empty(s)) \in Nat
<1>1. IsFiniteSet(1..Len(s)) /\ Empty(s) \subseteq 1..Len(s)
  BY FS_Interval DEF Empty
<1> QED
  BY <1>1, FS_Subset, FS_CardinalityType

\* A bundle more, and at most one empty one more.
LEMMA EmptyAppended ==
    ASSUME NEW s \in Seq(Bundle), NEW b \in Bundle
    PROVE  /\ b.era # NoBundle => Cardinality(Empty(Append(s, b))) = Cardinality(Empty(s))
           /\ Cardinality(Empty(Append(s, b))) <= Cardinality(Empty(s)) + 1
<1>1. /\ DOMAIN s = 1..Len(s) /\ DOMAIN Append(s, b) = 1..(Len(s) + 1) /\ Len(s) \in Nat
      /\ Append(s, b)[Len(s) + 1] = b /\ \A i \in 1..Len(s) : Append(s, b)[i] = s[i]
  BY Appended
<1>2. CASE b.era # NoBundle
  <2>1. Empty(Append(s, b)) = Empty(s)
    BY <1>1, <1>2 DEF Empty
  <2> QED
    BY <1>2, <2>1, EmptyIsFinite
<1>3. CASE b.era = NoBundle
  <2>1. Empty(Append(s, b)) = Empty(s) \union {Len(s) + 1} /\ Len(s) + 1 \notin Empty(s)
    BY <1>1, <1>3 DEF Empty
  <2>2. Cardinality(Empty(s) \union {Len(s) + 1}) = Cardinality(Empty(s)) + 1
    BY <2>1, EmptyIsFinite, FS_AddElement
  <2> QED
    BY <1>3, <2>1, <2>2, EmptyIsFinite
<1> QED
  BY <1>2, <1>3

\* Retention makes no empty ones.
LEMMA EmptyKept ==
    ASSUME NEW s, NEW t, NEW n, NEW d, Moves(s, t, n, d), IsFiniteSet(Empty(s))
    PROVE  Cardinality(Empty(t)) <= Cardinality(Empty(s))
<1> DEFINE Moved == [i \in Empty(t) |-> i + d]
<1>1. \A i \in Empty(t) : i \in Nat /\ d \in Nat /\ i + d \in Empty(s)
  BY DEF Empty, Moves
<1>2. Moved \in [Empty(t) -> Empty(s)]
  BY <1>1
<1>3. \A i, k \in Empty(t) : Moved[i] = Moved[k] => i = k
  BY <1>1
<1> HIDE DEF Moved
<1>4. Moved \in Injection(Empty(t), Empty(s))
  BY <1>2, <1>3 DEF Injection, IsInjective
<1> QED
  BY <1>4, FS_Injection

\* Of Keep bundles one is whole, and no older than what was whole before.
LEMMA WholeIsKept ==
    ASSUME NEW s, NEW t, NEW n, NEW d, Moves(s, t, n, d), Eras(s), NEW e \in Nat,
           \A i \in 1..n : s[i].era \in Nat, IsFiniteSet(Empty(s)),
           Cardinality(Empty(s)) < Keep, Whole(s, e)
    PROVE  Whole(t, e)
<1>1. PICK j \in 1..n : s[j].era # NoBundle /\ e <= s[j].era
  BY DEF Whole, Moves
<1>2. ASSUME NEW k \in 1..n, d < k, s[k].era # NoBundle, e <= s[k].era
      PROVE  Whole(t, e)
  <2>1. k - d \in 1..(n - d) /\ (k - d) + d = k
    BY <1>2 DEF Moves
  <2>2. t[k - d] = s[k] /\ k - d \in DOMAIN t
    BY <2>1 DEF Moves
  <2> QED
    BY <1>2, <2>2 DEF Whole
<1>3. CASE j <= d
  <2>1. n > Keep /\ d = n - Keep /\ n \in Nat /\ Keep \in Nat \ {0} /\ d \in Nat
    BY <1>3 DEF Moves
  <2>2. IsFiniteSet((d + 1)..n) /\ Cardinality((d + 1)..n) = Keep
    <3>1. d + 1 \in Int /\ n \in Int /\ n - (d + 1) + 1 = Keep /\ ~(d + 1 > n)
      BY <2>1
    <3>2. /\ IsFiniteSet((d + 1)..n)
          /\ Cardinality((d + 1)..n) = IF d + 1 > n THEN 0 ELSE n - (d + 1) + 1
      BY <3>1, FS_Interval
    <3> QED
      BY <3>1, <3>2
  <2>3. ~((d + 1)..n \subseteq Empty(s))
    <3> SUFFICES ASSUME (d + 1)..n \subseteq Empty(s)  PROVE FALSE
      OBVIOUS
    <3>1. Cardinality((d + 1)..n) <= Cardinality(Empty(s))
      BY FS_Subset
    <3>2. Cardinality(Empty(s)) \in Nat
      BY FS_CardinalityType
    <3> QED
      BY <2>1, <2>2, <3>1, <3>2
  <2>4. PICK k \in (d + 1)..n : k \notin Empty(s)
    BY <2>3
  <2>5. k \in 1..n /\ d < k /\ j < k
    BY <1>3, <2>1
  <2>6. s[k].era # NoBundle
    BY <2>4, <2>5 DEF Empty, Moves
  <2>7. s[j].era <= s[k].era
    BY <2>5, <2>6 DEF Eras, Moves
  <2>8. e <= s[k].era
    BY <1>1, <2>5, <2>7
  <2> QED
    BY <1>2, <2>5, <2>6, <2>8
<1>4. CASE d < j
  BY <1>1, <1>2, <1>4
<1> QED
  BY <1>3, <1>4 DEF Moves

\* What retention leaves goes on rising.
LEMMA RisingIsKept ==
    ASSUME NEW s, NEW t, NEW n, NEW d, Moves(s, t, n, d)
    PROVE  (Rising(s) => Rising(t)) /\ (Eras(s) => Eras(t))
<1>1. ASSUME NEW i \in DOMAIN t, NEW k \in DOMAIN t, i < k
      PROVE  /\ i + d \in DOMAIN s /\ k + d \in DOMAIN s /\ i + d < k + d
             /\ t[i] = s[i + d] /\ t[k] = s[k + d]
  <2>1. n \in Nat /\ d \in Nat /\ d <= n /\ i \in 1..(n - d) /\ k \in 1..(n - d)
    BY DEF Moves
  <2>2. i + d < k + d
    BY <1>1, <2>1
  <2> QED
    BY <2>1, <2>2 DEF Moves
<1> QED
  BY <1>1 DEF Rising, Eras

\* A snapshot that goes leaves Keep newer ones.
LEMMA OutlivedIsKept ==
    ASSUME NEW s, NEW t, NEW n, NEW d, Moves(s, t, n, d), Rising(s),
           NEW id \in Nat, Outlived(s, id), Len(s) = n, Len(t) = n - d
    PROVE  Outlived(t, id)
<1>1. ASSUME n >= Keep, \A i \in 1..n : d < i => id < s[i].id
      PROVE  Outlived(t, id)
  <2>1. n - d = Keep
    BY <1>1 DEF Moves
  <2>2. \A k \in DOMAIN t : id < t[k].id
    <3> SUFFICES ASSUME NEW k \in 1..(n - d)  PROVE id < s[k + d].id
      BY DEF Moves
    <3>1. k + d \in 1..n /\ d < k + d
      BY DEF Moves
    <3> QED
      BY <1>1, <3>1
  <2>3. Len(t) >= Keep
    BY <2>1 DEF Moves
  <2> QED
    BY <2>2, <2>3 DEF Outlived
<1>2. ASSUME NEW i \in 1..n, s[i].id = id
      PROVE  Outlived(t, id)
  <2>1. CASE d < i
    <3>1. i - d \in 1..(n - d) /\ (i - d) + d = i
      BY <2>1 DEF Moves
    <3>2. t[i - d] = s[i] /\ i - d \in DOMAIN t
      BY <3>1 DEF Moves
    <3> QED
      BY <1>2, <3>2 DEF Outlived
  <2>2. CASE i <= d
    <3>1. \A k \in 1..n : d < k => i < k
      BY <2>2 DEF Moves
    <3>2. \A k \in 1..n : d < k => id < s[k].id
      BY <1>2, <3>1 DEF Rising, Moves
    <3>3. n >= Keep
      BY <2>2 DEF Moves
    <3> QED
      BY <1>1, <3>2, <3>3
  <2> QED
    BY <2>1, <2>2 DEF Moves
<1>3. CASE n >= Keep /\ \A i \in 1..n : n < i + Keep => id < s[i].id
  <2>1. \A i \in 1..n : d < i => n < i + Keep
    BY <1>3 DEF Moves
  <2> QED
    BY <1>1, <1>3, <2>1
<1> QED
  BY <1>2, <1>3 DEF Outlived, Moves
\* A series with one more at its end.
Grows(s, t, n, e) ==
    /\ n \in Nat /\ Keep \in Nat \ {0}
    /\ DOMAIN s = 1..n /\ DOMAIN t = 1..(n + 1)
    /\ t[n + 1] = e /\ \A i \in 1..n : t[i] = s[i]

LEMMA AppendedIs ==
    ASSUME NEW S, NEW s \in Seq(S), NEW e \in S
    PROVE  /\ Grows(s, Append(s, e), Len(s), e)
           /\ Append(s, e) \in Seq(S) /\ Len(Append(s, e)) = Len(s) + 1
BY Appended, BackupAssumption DEF Grows

LEMMA PointMore ==
    ASSUME NEW s, NEW t, NEW n, NEW e, Grows(s, t, n, e), Len(s) = n, Len(t) = n + 1,
           Rising(s), \A i \in 1..n : s[i].id < e.id
    PROVE  /\ Rising(t)
           /\ \A id \in Nat : id < e.id /\ Outlived(s, id) => Outlived(t, id)
<1>1. Rising(t)
  <2> SUFFICES ASSUME NEW i \in 1..(n + 1), NEW j \in 1..(n + 1), i < j
               PROVE  t[i].id < t[j].id
    BY DEF Rising, Grows
  <2>1. CASE j = n + 1
    <3>1. i \in 1..n
      BY <2>1 DEF Grows
    <3> QED
      BY <2>1, <3>1 DEF Grows
  <2>2. CASE j \in 1..n
    <3>1. i \in 1..n
      BY <2>2 DEF Grows
    <3> QED
      BY <2>2, <3>1 DEF Grows, Rising
  <2> QED
    BY <2>1, <2>2 DEF Grows
<1>2. ASSUME NEW id \in Nat, id < e.id, Outlived(s, id)
      PROVE  Outlived(t, id)
  <2>1. CASE \E i \in 1..n : s[i].id = id
    <3>1. PICK i \in 1..n : s[i].id = id
      BY <2>1
    <3>2. i \in DOMAIN t /\ t[i].id = id
      BY <3>1 DEF Grows
    <3> QED
      BY <3>2 DEF Outlived
  <2>2. CASE n >= Keep /\ \A i \in 1..n : n < i + Keep => id < s[i].id
    <3>1. n + 1 >= Keep
      BY <2>2 DEF Grows
    <3>2. ASSUME NEW i \in 1..(n + 1), n + 1 < i + Keep  PROVE id < t[i].id
      <4>1. CASE i = n + 1
        BY <1>2, <4>1 DEF Grows
      <4>2. CASE i \in 1..n
        <5>1. n < i + Keep
          BY <3>2, <4>2 DEF Grows
        <5> QED
          BY <2>2, <4>2, <5>1 DEF Grows
      <4> QED
        BY <4>1, <4>2 DEF Grows
    <3> QED
      BY <3>1, <3>2 DEF Outlived, Grows
  <2> QED
    BY <1>2, <2>1, <2>2 DEF Outlived, Grows
<1> QED
  BY <1>1, <1>2

LEMMA BundleMore ==
    ASSUME NEW s, NEW t, NEW n, NEW e, Grows(s, t, n, e),
           Eras(s), e.era = NoBundle \/ \A i \in 1..n : s[i].era <= e.era
    PROVE  /\ Eras(t)
           /\ \A x : Whole(s, x) => Whole(t, x)
           /\ \A x : e.era # NoBundle /\ x <= e.era => Whole(t, x)
<1>1. Eras(t)
  <2> SUFFICES ASSUME NEW i \in 1..(n + 1), NEW j \in 1..(n + 1), i < j
               PROVE  t[j].era = NoBundle \/ t[i].era <= t[j].era
    BY DEF Eras, Grows
  <2>1. CASE j = n + 1
    <3>1. i \in 1..n
      BY <2>1 DEF Grows
    <3> QED
      BY <2>1, <3>1 DEF Grows
  <2>2. CASE j \in 1..n
    <3>1. i \in 1..n
      BY <2>2 DEF Grows
    <3> QED
      BY <2>2, <3>1 DEF Grows, Eras
  <2> QED
    BY <2>1, <2>2 DEF Grows
<1>2. 1..n \subseteq 1..(n + 1) /\ n + 1 \in 1..(n + 1)
  BY DEF Grows
<1> QED
  BY <1>1, <1>2 DEF Whole, Grows

----------------------------------------------------------------------------
(* What an upload's steps keep.                                              *)

\* The parts of the invariant that are used below.
LEMMA Parts ==
    ASSUME TierInv
    PROVE  /\ era \in 1..MaxEras /\ era \in Nat /\ ids \in Nat /\ mine \in [Machines -> Nat]
           /\ stops \in Nat /\ pc \in [Machines -> Steps \union {"idle", "done", "failed"}]
           /\ picked \in [Machines -> File \union {NoSnapshot}]
           /\ \A m \in Machines : picked[m].era \in Nat
           /\ \A m \in Machines : pc[m] \in Steps => picked[m] \in File /\ picked[m].era # 0
           /\ points \in Seq(Point) /\ bundles \in Seq(Bundle)
           /\ \A i \in DOMAIN points : points[i].id \in Nat /\ points[i].era \in 1..MaxEras
           /\ \A j \in DOMAIN bundles : bundles[j].era \in Nat
<1>1. TypeOK
  BY DEF TierInv, TierTypeOK
<1>2. MaxEras \in Nat /\ MaxStops \in Nat
  BY BackupAssumption
<1>3. era \in 1..MaxEras /\ ids \in Nat /\ mine \in [Machines -> Nat] /\ stops \in 0..MaxStops
  BY <1>1 DEF TypeOK
<1>4. \A f \in File : f.era \in 1..MaxEras
  BY DEF File
<1>5. NoSnapshot.era = 0 
  BY DEF NoSnapshot
<1>6. /\ picked \in [Machines -> File \union {NoSnapshot}]
      /\ \A m \in Machines : pc[m] \in Steps => picked[m] # NoSnapshot
      /\ pc \in [Machines -> Steps \union {"idle", "done", "failed"}]
      /\ points \in Seq(Point) /\ bundles \in Seq(Bundle)
  BY <1>1 DEF TypeOK
<1>7. \A m \in Machines : picked[m] \in File \union {NoSnapshot}
  BY <1>6
<1>8. /\ \A m \in Machines : picked[m].era \in Nat
      /\ \A m \in Machines : pc[m] \in Steps => picked[m] \in File /\ picked[m].era # 0
  BY <1>2, <1>4, <1>5, <1>6, <1>7
<1>9. \A i \in DOMAIN points : points[i] \in Point
  BY <1>6
<1>10. \A j \in DOMAIN bundles : bundles[j] \in Bundle
  BY <1>6
<1>11. \A i \in DOMAIN points : points[i].id \in Nat /\ points[i].era \in 1..MaxEras
  BY <1>9 DEF Point
<1>12. \A j \in DOMAIN bundles : bundles[j].era \in Nat
  BY <1>2, <1>10 DEF Bundle
<1>13. era \in Nat /\ stops \in Nat
  BY <1>2, <1>3
<1> QED
  BY <1>3, <1>6, <1>8, <1>11, <1>12, <1>13

LEMMA SeriesParts ==
    ASSUME TierInv
    PROVE  /\ Rising(points) /\ Eras(bundles)
           /\ \A i \in DOMAIN points : /\ points[i].id \in Nat /\ points[i].id <= ids
                                      /\ points[i].era \in Nat /\ points[i].era <= era
           /\ \A j \in DOMAIN bundles : bundles[j].era \in Nat /\ bundles[j].era <= era
           /\ Cardinality(Empty(bundles)) \in Nat /\ Cardinality(Empty(bundles)) <= stops
           /\ \A m \in Machines : /\ mine[m] \in Nat /\ mine[m] <= ids /\ picked[m].era <= era
                                  /\ \A f \in local[m] : f.era <= era
<1>1. \A i \in DOMAIN points : points[i].era \in Nat
  BY Parts, BackupAssumption
<1>2. \A m \in Machines : mine[m] \in Nat
  BY Parts
<1> QED
  BY <1>1, <1>2, Parts, EmptyIsFinite DEF TierInv, SeriesInv

\* What leaves the repository alone, and takes no upload further but one that
\* stores nothing.
LEMMA LeavesRepository ==
    ASSUME TierInv, UNCHANGED <<points, bundles, ids, mine>>,
           era' \in Nat, era <= era', stops' \in Nat, stops <= stops',
           \A m \in Machines : picked'[m].era <= era' /\ \A f \in local'[m] : f.era <= era',
           \A m \in Machines : Mentions(held[m])' /\ pc'[m] \in HasPoint =>
               pc'[m] = pc[m] /\ Mentions(held[m]) /\ picked'[m] = picked[m],
           stored' = stored \/ stored' = FALSE, "blind" \in past => "blind" \in past'
    PROVE  SeriesInv' /\ UploadsInv'
<1> USE Parts
<1>1. SeriesInv'
  <2>1. Cardinality(Empty(bundles)) <= stops'
    BY EmptyIsFinite DEF TierInv, SeriesInv
  <2>2. /\ \A i \in DOMAIN points : points[i].era <= era'
        /\ \A j \in DOMAIN bundles : bundles[j].era <= era'
    <3>1. \A i \in DOMAIN points : points[i].era \in Nat /\ points[i].era <= era
      BY BackupAssumption DEF TierInv, SeriesInv
    <3> QED
      BY <3>1 DEF TierInv, SeriesInv
  <2> QED
    BY <2>1, <2>2 DEF TierInv, SeriesInv, Rising, Eras, Empty
<1>2. UploadsInv'
  <2>1. HasBundle \subseteq HasPoint
    BY DEF HasBundle, HasPoint
  <2>2. stops' < Keep => stops < Keep
    BY BackupAssumption
  <2>3. ASSUME NEW m \in Machines, Mentions(held[m])'
        PROVE  /\ pc'[m] \in HasPoint => Outlived(points', mine'[m])
               /\ pc'[m] \in HasBundle /\ stops' < Keep => Whole(bundles', picked'[m].era)
    BY <2>1, <2>2, <2>3 DEF TierInv, UploadsInv
  <2>4. stored' /\ "blind" \notin past' =>
            points' # <<>> /\ (stops' < Keep => Whole(bundles', 1))
    BY <2>2 DEF TierInv, UploadsInv
  <2> QED
    BY <2>3, <2>4 DEF UploadsInv
<1> QED
  BY <1>1, <1>2

\* With the box goes what was stored, or it is a box an apply made blind.
LEMMA RepositoryGoes ==
    ASSUME TierInv, points' = <<>>, bundles' = <<>>, standing' = NoBox,
           UNCHANGED <<era, ids, mine, stops, picked, local>>,
           stored' = FALSE \/ "blind" \in past'
    PROVE  SeriesInv' /\ UploadsInv'
<1>1. DOMAIN points' = {} /\ DOMAIN bundles' = {}
  OBVIOUS
<1>2. Empty(bundles') = {} /\ Cardinality({}) = 0
  BY <1>1, FS_EmptySet DEF Empty
<1>3. SeriesInv'
  <2>1. Rising(points') /\ Eras(bundles')
    BY <1>1 DEF Rising, Eras
  <2>2. 0 <= stops
    BY Parts
  <2> QED
    BY <1>1, <1>2, <2>1, <2>2, SeriesParts DEF SeriesInv
<1>4. UploadsInv'
  BY DEF UploadsInv, Mentions, NoBox, None
<1> QED
  BY <1>3, <1>4

\* What one upload does to another.
Others(m) ==
    /\ \A q \in Machines \ {m} : pc'[q] = pc[q] /\ mine'[q] = mine[q]
    /\ UNCHANGED <<era, local, picked, held, standing, past>>

LEMMA OneGoesOn ==
    ASSUME TierInv, NEW m \in Machines, NEW l, NEW i, pc' = [pc EXCEPT ![m] = l],
           mine' = [mine EXCEPT ![m] = i], UNCHANGED <<era, local, picked, held, standing, past>>
    PROVE  Others(m) /\ pc'[m] = l /\ mine'[m] = i
BY Parts DEF Others

LEMMA BackupEtcdKeeps ==
    ASSUME TierInv, NEW m \in Machines, BackupEtcd(m), UNCHANGED tierVars
    PROVE  SeriesInv' /\ UploadsInv'
<1> DEFINE p == [id |-> ids + 1, stamp |-> picked[m].stamp, era |-> picked[m].era]
           n == Len(points)
<1>1. /\ ids' = ids + 1 /\ points' = Append(points, p) /\ UNCHANGED <<bundles, stops, stored>>
      /\ pc' = [pc EXCEPT ![m] = "secrets"] /\ mine' = [mine EXCEPT ![m] = ids + 1]
      /\ UNCHANGED <<era, local, picked, held, standing, past>>
  BY DEF BackupEtcd, Goto, counters, tierVars
<1>2. p \in Point
  <2>1. picked[m] \in File
    BY Parts DEF BackupEtcd, Steps
  <2>2. ids + 1 \in Nat
    BY Parts
  <2> QED
    BY <2>1, <2>2 DEF File, Point
<1>3. Grows(points, points', n, p) /\ Len(points') = n + 1
  BY <1>1, <1>2, Parts, AppendedIs
<1>4. p.id = ids + 1 /\ p.era = picked[m].era
  OBVIOUS
<1>5. Others(m) /\ pc'[m] = "secrets" /\ mine'[m] = ids + 1
  BY <1>1, OneGoesOn
<1> HIDE DEF p, n
<1>6. n \in Nat /\ DOMAIN points = 1..n /\ DOMAIN points' = 1..(n + 1) /\ points'[n + 1] = p
      /\ \A i \in 1..n : points'[i] = points[i]
  BY <1>3 DEF Grows
<1>7. Rising(points') /\ \A id \in Nat : id < p.id /\ Outlived(points, id) => Outlived(points', id)
  <2>1. \A i \in 1..n : points[i].id < p.id
    <3>1. \A i \in 1..n : points[i].id \in Nat /\ points[i].id <= ids
      BY <1>6, SeriesParts
    <3>2. ids \in Nat /\ p.id = ids + 1
      BY <1>4, Parts
    <3> QED
      BY <3>1, <3>2
  <2>2. Len(points) = n
    BY DEF n
  <2> QED
    BY <1>3, <2>1, <2>2, SeriesParts, PointMore
<1>8. \A i \in 1..(n + 1) : points'[i].id <= ids + 1 /\ points'[i].era <= era
  <2>1. \A i \in 1..n : points[i].id <= ids + 1 /\ points[i].era <= era
    <3>1. \A i \in 1..n : points[i].id \in Nat /\ points[i].id <= ids /\ points[i].era <= era
      BY <1>6, SeriesParts
    <3>2. ids \in Nat
      BY Parts
    <3> QED
      BY <3>1, <3>2
  <2>2. p.id <= ids + 1 /\ p.era <= era
    BY <1>4, Parts, SeriesParts
  <2> QED
    BY <1>6, <2>1, <2>2
<1>9. \A q \in Machines : mine'[q] <= ids + 1
  <2> SUFFICES ASSUME NEW q \in Machines  PROVE mine'[q] <= ids + 1
    OBVIOUS
  <2>1. mine[q] \in Nat /\ mine[q] <= ids /\ ids \in Nat
    BY Parts, SeriesParts
  <2>2. mine'[q] = mine[q] \/ mine'[q] = ids + 1
    BY <1>5 DEF Others
  <2> QED
    BY <2>1, <2>2
<1>10. SeriesInv'
  BY <1>1, <1>6, <1>7, <1>8, <1>9 DEF TierInv, SeriesInv, Eras, Empty
<1>11. UploadsInv'
  <2>1. Outlived(points', mine'[m])
    <3>1. n + 1 \in DOMAIN points' /\ points'[n + 1].id = ids + 1
      BY <1>4, <1>6
    <3> QED
      BY <1>5, <3>1 DEF Outlived
  <2>2. "secrets" \notin HasBundle
    BY DEF HasBundle
  <2>3. ASSUME NEW q \in Machines, Outlived(points, mine[q]), q # m
        PROVE  Outlived(points', mine'[q])
    <3>1. mine[q] \in Nat /\ mine[q] < p.id
      BY <1>4, Parts DEF TierInv, SeriesInv
    <3> QED
      BY <1>5, <1>7, <2>3, <3>1 DEF Others
  <2>4. points' # <<>>
    BY <1>6
  <2> QED
    BY <1>1, <1>5, <2>1, <2>2, <2>3, <2>4 DEF TierInv, UploadsInv, Others, Mentions
<1> QED
  BY <1>10, <1>11

LEMMA BackupSecretsKeeps ==
    ASSUME TierInv, NEW m \in Machines, BackupSecrets(m), Mentions(held[m]), UNCHANGED tierVars,
           bundles' \in Seq(Bundle), stops' \in Nat
    PROVE  SeriesInv' /\ UploadsInv'
<1> DEFINE n == Len(bundles)
<1>1. PICK b : /\ b \in Bundle /\ bundles' = Append(bundles, b)
               /\ \/ b.era = era /\ stops' = stops /\ pc' = [pc EXCEPT ![m] = "forgetSecrets"]
                  \/ b.era = NoBundle /\ stops' = stops + 1 /\ pc' = [pc EXCEPT ![m] = "failed"]
  <2>1. /\ [id |-> ids + 1, era |-> era] \in Bundle
        /\ [id |-> ids + 1, era |-> NoBundle] \in Bundle
    BY Parts, BackupAssumption DEF Bundle, NoBundle
  <2>2. CASE bundles' = Append(bundles, [id |-> ids + 1, era |-> era])
             /\ pc' = [pc EXCEPT ![m] = "forgetSecrets"] /\ stops' = stops
    BY <2>1, <2>2
  <2>3. CASE bundles' = Append(bundles, [id |-> ids + 1, era |-> NoBundle])
             /\ pc' = [pc EXCEPT ![m] = "failed"] /\ stops' = stops + 1
    BY <2>1, <2>3
  <2> QED
    BY <2>2, <2>3 DEF BackupSecrets, Goto
<1>2. /\ ids' = ids + 1 /\ UNCHANGED <<points, stored, mine, era, local, picked, held, standing, past>>
      /\ pc[m] = "secrets"
  BY DEF BackupSecrets, tierVars
<1>3. Grows(bundles, bundles', n, b)
  BY <1>1, Parts, AppendedIs
<1>4. Others(m) /\ pc'[m] \in {"forgetSecrets", "failed"}
  BY <1>1, <1>2, Parts DEF Others
<1> HIDE DEF n
<1>5. n \in Nat /\ DOMAIN bundles = 1..n /\ DOMAIN bundles' = 1..(n + 1) /\ bundles'[n + 1] = b
      /\ \A i \in 1..n : bundles'[i] = bundles[i]
  BY <1>3 DEF Grows
<1>6. /\ Eras(bundles') /\ \A x : Whole(bundles, x) => Whole(bundles', x)
      /\ \A x : b.era # NoBundle /\ x <= b.era => Whole(bundles', x)
  <2>1. b.era = NoBundle \/ \A i \in 1..n : bundles[i].era <= b.era
    BY <1>1, <1>5, SeriesParts
  <2> QED
    BY <1>3, <2>1, SeriesParts, BundleMore
<1>7. \A j \in 1..(n + 1) : bundles'[j].era <= era
  <2>1. b.era <= era
    BY <1>1, Parts DEF NoBundle
  <2>2. \A j \in 1..n : bundles[j].era <= era
    BY <1>5, SeriesParts
  <2> QED
    BY <1>5, <2>1, <2>2
<1>8. Cardinality(Empty(bundles')) <= stops'
  <2>1. /\ b.era # NoBundle => Cardinality(Empty(bundles')) = Cardinality(Empty(bundles))
        /\ Cardinality(Empty(bundles')) <= Cardinality(Empty(bundles)) + 1
    BY <1>1, Parts, EmptyAppended
  <2>2. /\ Cardinality(Empty(bundles)) \in Nat /\ Cardinality(Empty(bundles)) <= stops /\ stops \in Nat
        /\ Cardinality(Empty(bundles')) \in Nat
    BY Parts, SeriesParts, EmptyIsFinite
  <2>3. CASE b.era = era /\ stops' = stops
    <3>1. b.era # NoBundle
      BY <2>3, Parts DEF NoBundle
    <3> QED
      BY <2>1, <2>2, <2>3, <3>1
  <2>4. CASE stops' = stops + 1
    BY <2>1, <2>2, <2>4
  <2> QED
    BY <1>1, <2>3, <2>4
<1>9. \A q \in Machines : mine[q] <= ids + 1
  <2>1. \A q \in Machines : mine[q] \in Nat /\ mine[q] <= ids /\ ids \in Nat
    BY Parts, SeriesParts
  <2> QED
    BY <2>1
<1>10. \A i \in DOMAIN points : points[i].id <= ids + 1
  <2>1. \A i \in DOMAIN points : points[i].id \in Nat /\ points[i].id <= ids /\ ids \in Nat
    BY Parts, SeriesParts
  <2> QED
    BY <2>1
<1>11. SeriesInv'
  BY <1>2, <1>5, <1>6, <1>7, <1>8, <1>9, <1>10, SeriesParts DEF SeriesInv
<1>12. UploadsInv'
  <2>1. pc[m] \in HasPoint /\ "failed" \notin HasPoint \union HasBundle
    BY <1>2 DEF HasPoint, HasBundle
  <2>2. stops' < Keep => stops < Keep
    BY <1>1, Parts, BackupAssumption
  <2>3. pc'[m] \in HasBundle => Whole(bundles', picked[m].era)
    <3>1. pc'[m] \in HasBundle => b.era = era
      BY <1>1, <1>4, <2>1, Parts
    <3>2. era # NoBundle /\ picked[m].era <= era
      BY Parts, SeriesParts DEF NoBundle
    <3> QED
      BY <1>6, <3>1, <3>2
  <2>4. ASSUME NEW q \in Machines, Mentions(held[q]), q # m
        PROVE  /\ pc'[q] \in HasPoint => Outlived(points', mine'[q])
               /\ pc'[q] \in HasBundle /\ stops' < Keep => Whole(bundles', picked'[q].era)
    BY <1>2, <1>4, <1>6, <2>2, <2>4 DEF TierInv, UploadsInv, Others
  <2>5. Outlived(points', mine'[m])
    BY <1>2, <2>1 DEF TierInv, UploadsInv
  <2>6. stored' /\ "blind" \notin past' => points' # <<>> /\ (stops' < Keep => Whole(bundles', 1))
    BY <1>2, <1>6, <2>2 DEF TierInv, UploadsInv
  <2> QED
    BY <1>2, <2>3, <2>4, <2>5, <2>6 DEF UploadsInv, Mentions
<1> QED
  BY <1>11, <1>12

LEMMA ForgetSecretsKeeps ==
    ASSUME TierInv, NEW m \in Machines, ForgetSecrets(m), UNCHANGED tierVars
    PROVE  SeriesInv' /\ UploadsInv'
<1> DEFINE n == Len(bundles)
           d == Dropped(bundles)
<1>1. /\ bundles' = LastKept(bundles) /\ UNCHANGED <<points, ids, stops, stored, mine>>
      /\ pc[m] = "forgetSecrets" /\ pc' = [pc EXCEPT ![m] = "forgetEtcd"]
      /\ UNCHANGED <<era, local, picked, held, standing, past>>
  BY DEF ForgetSecrets, Goto, counters, tierVars
<1>2. Moves(bundles, bundles', n, d)
  BY <1>1, Parts, LastKeptIs
<1> HIDE DEF n, d
<1>3. Others(m) /\ pc'[m] = "forgetEtcd"
  BY <1>1, Parts DEF Others
<1>4. Eras(bundles')
  BY <1>2, SeriesParts, RisingIsKept
<1>5. \A j \in DOMAIN bundles' : bundles'[j].era <= era
  <2>1. \A j \in DOMAIN bundles' : \E i \in DOMAIN bundles : bundles'[j] = bundles[i]
    BY <1>2 DEF Moves
  <2> QED
    BY <2>1, SeriesParts
<1>6. Cardinality(Empty(bundles')) <= stops
  <2>1. Cardinality(Empty(bundles')) <= Cardinality(Empty(bundles)) /\ IsFiniteSet(Empty(bundles))
    BY <1>2, Parts, EmptyKept, EmptyIsFinite
  <2>2. Cardinality(Empty(bundles')) \in Nat
    BY <1>1, Parts, LastKeptIs, EmptyIsFinite
  <2>3. Cardinality(Empty(bundles)) \in Nat /\ Cardinality(Empty(bundles)) <= stops /\ stops \in Nat
    BY Parts, SeriesParts
  <2> QED
    BY <2>1, <2>2, <2>3
<1>7. ASSUME NEW e \in Nat, stops < Keep, Whole(bundles, e)  PROVE Whole(bundles', e)
  <2>1. Cardinality(Empty(bundles)) < Keep
    <3>1. Cardinality(Empty(bundles)) \in Nat /\ Cardinality(Empty(bundles)) <= stops /\ stops \in Nat
          /\ Keep \in Nat
      BY Parts, SeriesParts, BackupAssumption
    <3> QED
      BY <1>7, <3>1
  <2>2. \A i \in 1..n : bundles[i].era \in Nat
    BY <1>2, Parts DEF Moves
  <2> QED
    BY <1>2, <1>7, <2>1, <2>2, Parts, SeriesParts, EmptyIsFinite, WholeIsKept
<1>8. SeriesInv'
  BY <1>1, <1>4, <1>5, <1>6, SeriesParts DEF SeriesInv
<1>9. UploadsInv'
  <2>1. pc[m] \in HasPoint /\ pc[m] \in HasBundle
    BY <1>1 DEF HasPoint, HasBundle
  <2>2. ASSUME NEW q \in Machines, Mentions(held[q])
        PROVE  /\ pc'[q] \in HasPoint => Outlived(points', mine'[q])
               /\ pc'[q] \in HasBundle /\ stops' < Keep => Whole(bundles', picked'[q].era)
    <3>1. /\ pc'[q] \in HasPoint => pc[q] \in HasPoint
          /\ pc'[q] \in HasBundle => pc[q] \in HasBundle
      BY <1>3, <2>1 DEF Others
    <3>2. picked[q].era \in Nat
      BY Parts
    <3> QED
      BY <1>1, <1>7, <2>2, <3>1, <3>2 DEF TierInv, UploadsInv
  <2>3. stored' /\ "blind" \notin past' => points' # <<>> /\ (stops' < Keep => Whole(bundles', 1))
    BY <1>1, <1>7 DEF TierInv, UploadsInv
  <2> QED
    BY <1>1, <2>2, <2>3 DEF UploadsInv, Mentions
<1> QED
  BY <1>8, <1>9

LEMMA ForgetEtcdKeeps ==
    ASSUME TierInv, NEW m \in Machines, ForgetEtcd(m), UNCHANGED tierVars
    PROVE  SeriesInv' /\ UploadsInv'
<1> DEFINE n == Len(points)
           d == Dropped(points)
<1>1. /\ points' = LastKept(points) /\ UNCHANGED <<bundles, ids, stops, stored, mine>>
      /\ pc[m] = "forgetEtcd" /\ pc' = [pc EXCEPT ![m] = "check"]
      /\ UNCHANGED <<era, local, picked, held, standing, past>>
  BY DEF ForgetEtcd, Goto, counters, tierVars
<1>2. Moves(points, points', n, d) /\ Len(points) = n /\ Len(points') = n - d
  BY <1>1, Parts, LastKeptIs
<1> HIDE DEF n, d
<1>3. Others(m) /\ pc'[m] = "check"
  BY <1>1, Parts DEF Others
<1>4. Rising(points')
  BY <1>2, SeriesParts, RisingIsKept
<1>5. \A i \in DOMAIN points' : points'[i].id <= ids /\ points'[i].era <= era
  <2>1. \A j \in DOMAIN points' : \E i \in DOMAIN points : points'[j] = points[i]
    BY <1>2 DEF Moves
  <2> QED
    BY <2>1, SeriesParts
<1>6. \A id \in Nat : Outlived(points, id) => Outlived(points', id)
  BY <1>2, SeriesParts, OutlivedIsKept
<1>7. points # <<>> => points' # <<>>
  <2>1. n - d # 0 \/ n = 0
    BY <1>2 DEF Moves
  <2>2. n = 0 => points = <<>>
    BY <1>2, Parts
  <2>3. points' = <<>> => n - d = 0
    BY <1>2
  <2> QED
    BY <2>1, <2>2, <2>3
<1>8. SeriesInv'
  BY <1>1, <1>4, <1>5, SeriesParts DEF SeriesInv
<1>9. UploadsInv'
  <2>1. pc[m] \in HasPoint /\ pc[m] \in HasBundle
    BY <1>1 DEF HasPoint, HasBundle
  <2>2. ASSUME NEW q \in Machines, Mentions(held[q])
        PROVE  /\ pc'[q] \in HasPoint => Outlived(points', mine'[q])
               /\ pc'[q] \in HasBundle /\ stops' < Keep => Whole(bundles', picked'[q].era)
    <3>1. /\ pc'[q] \in HasPoint => pc[q] \in HasPoint
          /\ pc'[q] \in HasBundle => pc[q] \in HasBundle
      BY <1>3, <2>1 DEF Others
    <3>2. mine[q] \in Nat
      BY Parts
    <3> QED
      BY <1>1, <1>6, <2>2, <3>1, <3>2 DEF TierInv, UploadsInv
  <2>3. stored' /\ "blind" \notin past' => points' # <<>> /\ (stops' < Keep => Whole(bundles', 1))
    BY <1>1, <1>7 DEF TierInv, UploadsInv
  <2> QED
    BY <1>1, <2>2, <2>3 DEF UploadsInv, Mentions
<1> QED
  BY <1>8, <1>9

LEMMA FinishKeeps ==
    ASSUME TierInv, NEW m \in Machines, Finish(m), Mentions(held[m]), UNCHANGED tierVars
    PROVE  SeriesInv' /\ UploadsInv'
<1>1. /\ UNCHANGED <<points, bundles, ids, stops, mine, era, local, picked, held, standing, past>>
      /\ pc[m] = "check" /\ pc' = [pc EXCEPT ![m] = "done"]
  BY DEF Finish, Goto, repository, counters, tierVars
<1>2. Others(m) /\ pc'[m] = "done"
  BY <1>1, Parts DEF Others
<1>3. "check" \in HasPoint /\ "check" \in HasBundle /\ "done" \notin HasPoint /\ "done" \notin HasBundle
  BY DEF HasPoint, HasBundle
<1>4. points # <<>>
  <2>1. Outlived(points, mine[m])
    BY <1>1, <1>3 DEF TierInv, UploadsInv
  <2>2. Outlived(<<>>, mine[m]) => Len(<<>>) >= Keep
    BY DEF Outlived
  <2> QED
    BY <2>1, <2>2, BackupAssumption
<1>5. stops < Keep => Whole(bundles, 1)
  <2>1. stops < Keep => Whole(bundles, picked[m].era)
    BY <1>1, <1>3 DEF TierInv, UploadsInv
  <2>2. \A j \in DOMAIN bundles : bundles[j].era \in Nat
    BY Parts
  <2> QED
    BY <2>1, <2>2 DEF Whole, NoBundle
<1>6. SeriesInv'
  BY <1>1 DEF TierInv, SeriesInv, Rising, Eras, Empty
<1>7. UploadsInv'
  BY <1>1, <1>2, <1>3, <1>4, <1>5 DEF TierInv, UploadsInv, Others, Mentions
<1> QED
  BY <1>6, <1>7

----------------------------------------------------------------------------
(* Types.                                                                    *)

LEMMA TypedUploads ==
    ASSUME TypeOK, NEW m \in Machines,
           \/ VerifyPicked(m) \/ BackupEtcd(m) \/ BackupSecrets(m) \/ ForgetSecrets(m)
           \/ ForgetEtcd(m) \/ Finish(m) \/ Pick(m)
    PROVE  TypeOK'
<1> USE BackupAssumption DEF Goto, repository, counters
<1>1. ids + 1 \in Nat /\ MaxEras \in Nat /\ era \in 1..MaxEras /\ picked[m] \in File \union {NoSnapshot}
      /\ stops \in 0..MaxStops /\ MaxStops \in Nat
  BY DEF TypeOK
<1>2. CASE VerifyPicked(m)
  <2>1. PICK l \in {"etcd", "failed"} : pc' = [pc EXCEPT ![m] = l]
    BY <1>2 DEF VerifyPicked
  <2>2. pc[m] \in Steps
    BY <1>2 DEF VerifyPicked, Steps
  <2> QED
    BY <1>2, <2>1, <2>2 DEF VerifyPicked, TypeOK, Steps
<1>3. CASE BackupEtcd(m)
  <2>1. picked[m] \in File
    BY <1>1, <1>3 DEF BackupEtcd, TypeOK, Steps
  <2>2. [id |-> ids + 1, stamp |-> picked[m].stamp, era |-> picked[m].era] \in Point
    BY <1>1, <2>1 DEF File, Point
  <2>3. points' \in Seq(Point)
    BY <1>3, <2>2, AppendedIs DEF BackupEtcd, TypeOK
  <2> QED
    BY <1>1, <1>3, <2>3 DEF BackupEtcd, TypeOK, Steps
<1>4. CASE BackupSecrets(m)
  <2>1. [id |-> ids + 1, era |-> era] \in Bundle /\ [id |-> ids + 1, era |-> NoBundle] \in Bundle
    BY <1>1 DEF Bundle, NoBundle
  <2>2. bundles' \in Seq(Bundle)
    <3>1. bundles \in Seq(Bundle)
      BY DEF TypeOK
    <3>2. \/ bundles' = Append(bundles, [id |-> ids + 1, era |-> era])
          \/ bundles' = Append(bundles, [id |-> ids + 1, era |-> NoBundle])
      BY <1>4 DEF BackupSecrets
    <3> HIDE DEF NoBundle
    <3> QED
      BY <2>1, <3>1, <3>2, AppendedIs
  <2>3. stops' \in 0..MaxStops
    BY <1>1, <1>4 DEF BackupSecrets
  <2>4. PICK l \in {"forgetSecrets", "failed"} : pc' = [pc EXCEPT ![m] = l]
    BY <1>4 DEF BackupSecrets
  <2>5. pc[m] \in Steps
    BY <1>4 DEF BackupSecrets, Steps
  <2> QED
    BY <1>1, <1>4, <2>2, <2>3, <2>4, <2>5 DEF BackupSecrets, TypeOK, Steps
<1>5. CASE ForgetSecrets(m)
  <2>1. bundles' \in Seq(Bundle)
    BY <1>5, LastKeptIs DEF ForgetSecrets, TypeOK
  <2> QED
    BY <1>5, <2>1 DEF ForgetSecrets, TypeOK, Steps
<1>6. CASE ForgetEtcd(m)
  <2>1. points' \in Seq(Point)
    BY <1>6, LastKeptIs DEF ForgetEtcd, TypeOK
  <2> QED
    BY <1>6, <2>1 DEF ForgetEtcd, TypeOK, Steps
<1>7. CASE Finish(m)
  BY <1>7 DEF Finish, TypeOK, Steps
<1>8. CASE Pick(m)
  <2>1. PICK f \in local[m] : picked' = [picked EXCEPT ![m] = f]
    BY <1>8 DEF Pick
  <2>2. f \in File
    BY DEF TypeOK
  <2>3. f # NoSnapshot
    <3>1. f.era # 0 /\ NoSnapshot.era = 0
      BY <2>2 DEF File, NoSnapshot
    <3> QED
      BY <3>1
  <2>4. uploads' \in 0..MaxUploads
    BY <1>8 DEF Pick, TypeOK
  <2> QED
    BY <1>8, <2>1, <2>2, <2>3, <2>4 DEF Pick, TypeOK, Steps
<1> QED
  BY <1>2, <1>3, <1>4, <1>5, <1>6, <1>7, <1>8

LEMMA TypedElsewhere ==
    ASSUME TypeOK, NEW m \in Machines,
           Take(m) \/ Stop(m) \/ Download(m) \/ LoseMachine(m) \/ Rebuild
    PROVE  TypeOK'
<1> USE BackupAssumption DEF Goto, repository, counters
<1>1. /\ MaxTaken \in Nat /\ MaxStops \in Nat /\ MaxDownloads \in Nat /\ MaxLosses \in Nat /\ MaxEras \in Nat
      /\ taken \in 0..MaxTaken /\ stops \in 0..MaxStops /\ downloads \in 0..MaxDownloads
      /\ losses \in 0..MaxLosses /\ era \in 1..MaxEras /\ local[m] \in SUBSET File
  BY DEF TypeOK
<1>2. CASE Take(m)
  <2>1. taken' \in 0..MaxTaken
    BY <1>1, <1>2 DEF Take
  <2>2. PICK whole \in BOOLEAN :
          local' = [local EXCEPT ![m] = @ \union {[stamp |-> taken + 1, era |-> era, whole |-> whole]}]
    BY <1>2 DEF Take
  <2>3. [stamp |-> taken + 1, era |-> era, whole |-> whole] \in File
    <3>1. taken + 1 \in 1..MaxTaken
      BY <1>1, <1>2 DEF Take
    <3> QED
      BY <1>1, <3>1 DEF File
  <2>4. local' \in [Machines -> SUBSET File]
    BY <1>1, <2>2, <2>3 DEF TypeOK
  <2> QED
    BY <1>2, <2>1, <2>4 DEF Take, TypeOK
<1>3. CASE Stop(m)
  BY <1>1, <1>3 DEF Stop, TypeOK, Steps
<1>4. CASE Download(m)
  <2>1. downloads' \in 0..MaxDownloads
    BY <1>1, <1>4 DEF Download
  <2>2. PICK i \in DOMAIN points :
          local' = [local EXCEPT ![m] = @ \union
                      {[stamp |-> points[i].stamp, era |-> points[i].era, whole |-> TRUE]}]
    BY <1>4 DEF Download
  <2>3. points[i] \in Point
    BY DEF TypeOK
  <2>4. [stamp |-> points[i].stamp, era |-> points[i].era, whole |-> TRUE] \in File
    BY <2>3 DEF File, Point
  <2>5. local' \in [Machines -> SUBSET File]
    BY <1>1, <2>2, <2>4 DEF TypeOK
  <2> QED
    BY <1>4, <2>1, <2>5 DEF Download, TypeOK
<1>5. CASE LoseMachine(m)
  BY <1>1, <1>5 DEF LoseMachine, TypeOK, Steps
<1>6. CASE Rebuild
  <2>1. era' \in 1..MaxEras
    BY <1>1, <1>6 DEF Rebuild
  <2> QED
    BY <1>6, <2>1 DEF Rebuild, TypeOK
<1> QED
  BY <1>2, <1>3, <1>4, <1>5, <1>6

\* A command that fails ends the upload.
LEMMA TypedFailure ==
    ASSUME TypeOK, NEW m \in Machines, NEW l \in {"etcd", "failed"}, pc' = [pc EXCEPT ![m] = l],
           l = "etcd" => pc[m] = "etcd",
           UNCHANGED <<era, taken, local, picked, mine, repository, counters, stored>>
    PROVE  TypeOK'
<1>1. l \in Steps \union {"idle", "done", "failed"} /\ (l \in Steps => l = "etcd") /\ "etcd" \in Steps
  BY DEF Steps
<1>2. pc \in [Machines -> Steps \union {"idle", "done", "failed"}]
  BY DEF TypeOK
<1>3. pc' \in [Machines -> Steps \union {"idle", "done", "failed"}]
  BY <1>1, <1>2
<1>4. \A q \in Machines : pc'[q] \in Steps => pc[q] \in Steps
  BY <1>1, <1>2
<1>5. \A q \in Machines : pc'[q] \in Steps => picked'[q] # NoSnapshot
  BY <1>4 DEF TypeOK
<1>6. UNCHANGED <<era, taken, local, picked, mine, points, bundles, ids, uploads, downloads, stops, losses, stored>>
  BY DEF repository, counters
<1> QED
  BY <1>3, <1>5, <1>6, Zenon DEF TypeOK

\* A box that goes, or an update that stops.
LEMMA TypedTier ==
    ASSUME TypeOK, UNCHANGED <<era, taken, local, pc, picked, mine, ids, uploads, downloads, losses>>,
           points' = points \/ points' = <<>>, bundles' = bundles \/ bundles' = <<>>,
           stored' = stored \/ stored' = FALSE,
           stops' = stops \/ (stops < MaxStops /\ stops' = stops + 1)
    PROVE  TypeOK'
<1>1. points' \in Seq(Point) /\ bundles' \in Seq(Bundle)
  <2>1. points \in Seq(Point) /\ bundles \in Seq(Bundle)
    BY Zenon DEF TypeOK
  <2>2. <<>> \in Seq(Point) /\ <<>> \in Seq(Bundle)
    OBVIOUS
  <2> QED
    BY <2>1, <2>2, Zenon
<1>2. stops' \in 0..MaxStops
  BY BackupAssumption DEF TypeOK
<1> QED
  BY <1>1, <1>2 DEF TypeOK

LEMMA TypedStep ==
    ASSUME TierInv, [TierNext]_allVars
    PROVE  TypeOK'
<1>1. TypeOK
  BY DEF TierInv, TierTypeOK
<1>2. CASE TierStep
  <2>1. CASE UNCHANGED vars
    BY <1>1, <2>1, TypedTier DEF vars, repository, counters
  <2>2. CASE ClusterCompromised \/ DeleteBox \/ StopTier
    BY <1>1, <2>2, TypedTier DEF ClusterCompromised, DeleteBox, StopTier, repository, counters
  <2>3. CASE \E project \in {"own", "cluster"} : SetToken(project)
    BY <2>1, <2>3 DEF SetToken
  <2>4. CASE EditType \/ ServersMove \/ StartApply \/ DrawKey \/ StashKey \/ CreateBox \/ CreateAccount
    BY <2>1, <2>4 DEF EditType, ServersMove, StartApply, DrawKey, StashKey, CreateBox, CreateAccount
  <2>5. CASE Publish \/ StartDestroy \/ DeleteAccount \/ ForgetKey \/ FinishDestroy
    BY <2>1, <2>5 DEF Publish, StartDestroy, DeleteAccount, ForgetKey, FinishDestroy
  <2> QED
    BY <1>2, <2>2, <2>3, <2>4, <2>5 DEF TierStep
<1>3. CASE TakeKit
  <2>1. UNCHANGED vars
    BY <1>3 DEF TakeKit, StartKit, KitOutputs, KitUnreadable
  <2> QED
    BY <1>1, <2>1, TypedTier DEF vars, repository, counters
<1>4. CASE Elsewhere
  <2>1. CASE \E m \in Machines : Take(m) \/ Stop(m) \/ LoseMachine(m)
    BY <1>1, <2>1, TypedElsewhere
  <2>2. CASE Rebuild
    <3>1. era' \in 1..MaxEras
      BY <1>1, <2>2, BackupAssumption DEF Rebuild, TypeOK
    <3> QED
      BY <1>1, <2>2, <3>1 DEF Rebuild, TypeOK, repository, counters
  <2> QED
    BY <1>4, <2>1, <2>2 DEF Elsewhere
<1>5. ASSUME NEW m \in Machines, Uploads(m) \/ Downloads(m)  PROVE TypeOK'
  <2>1. CASE VerifyPicked(m) \/ Pick(m) \/ Restic(m)
    BY <1>1, <2>1, TypedUploads DEF Restic
  <2>2. CASE ReadOutputs(m)
    <3>1. PICK l \in {"etcd", "failed"} : pc' = [pc EXCEPT ![m] = l]
      BY <2>2 DEF ReadOutputs, Goto
    <3> QED
      BY <1>1, <2>2, <3>1, TypedFailure DEF ReadOutputs
  <2>3. CASE Refused(m)
    BY <1>1, <2>3, TypedFailure DEF Refused, Goto
  <2>4. CASE InitRepository(m)
    BY <1>1, <2>4, TypedTier DEF InitRepository, vars, repository, counters
  <2>5. CASE Downloads(m)
    BY <1>1, <2>5, TypedElsewhere DEF Downloads
  <2> QED
    BY <1>5, <2>1, <2>2, <2>3, <2>4, <2>5 DEF Uploads
<1>6. CASE UNCHANGED allVars
  BY <1>1, <1>6, TypedTier DEF allVars, vars, repository, counters
<1> QED
  BY <1>2, <1>3, <1>4, <1>5, <1>6 DEF TierNext

\* The kits, and the world's bounds.
LEMMA KitsStep ==
    ASSUME TierInv, [TierNext]_allVars
    PROVE  /\ world' = world /\ IsFiniteSet(kits')
           /\ kit' \in [began : Nat, stored : BOOLEAN, taking : BOOLEAN] /\ kits' \subseteq Kit
<1> DEFINE KitsTyped(k, s) ==
             /\ IsFiniteSet(s) /\ s \subseteq Kit
             /\ k \in [began : Nat, stored : BOOLEAN, taking : BOOLEAN]
<1>1. /\ KitsTyped(kit, kits) /\ stored \in BOOLEAN
      /\ standing.id \in Nat /\ tier.outputs \in Outputs
  BY DEF TierInv, TierTypeOK, TypeOK, TierShape, Tier
<1>2. UNCHANGED <<world, kit, kits>> => world' = world /\ KitsTyped(kit', kits')
  BY <1>1
<1>3. TakeKit => world' = world /\ KitsTyped(kit', kits')
  <2> SUFFICES ASSUME TakeKit  PROVE world' = world /\ KitsTyped(kit', kits')
    OBVIOUS
  <2>1. NoKit \in [began : Nat, stored : BOOLEAN, taking : BOOLEAN] /\ NoOutputs \in Outputs
    BY DEF NoKit, NoOutputs, Outputs, None
  <2>2. CASE StartKit
    BY <1>1, <2>2 DEF StartKit
  <2>3. ASSUME NEW o \in Outputs, PutAway(o), kit' = NoKit
        PROVE  KitsTyped(kit', kits')
    <3>1. [began |-> kit.began, stored |-> kit.stored, box |-> o.box, key |-> o.key] \in Kit
      BY <1>1 DEF Kit, Outputs
    <3>2. IsFiniteSet(kits')
      BY <1>1, <2>3, FS_AddElement DEF PutAway
    <3> QED
      BY <1>1, <2>1, <2>3, <3>1, <3>2 DEF PutAway
  <2>4. CASE KitOutputs
    BY <1>1, <2>3, <2>4 DEF KitOutputs
  <2>5. CASE KitUnreadable
    <3>1. CASE tier.token = "none"
      BY <2>1, <2>3, <2>5, <3>1 DEF KitUnreadable
    <3>2. CASE tier.token # "none"
      BY <1>1, <2>1, <2>5, <3>2 DEF KitUnreadable
    <3> QED
      BY <2>5, <3>1, <3>2 DEF KitUnreadable
  <2> QED
    BY <2>2, <2>4, <2>5 DEF TakeKit
<1> HIDE DEF KitsTyped
<1>4. TierStep => UNCHANGED <<world, kit, kits>>
  <2> SUFFICES ASSUME TierStep  PROVE UNCHANGED <<world, kit, kits>>
    OBVIOUS
  <2>1. CASE \E project \in {"own", "cluster"} : SetToken(project)
    BY <2>1 DEF SetToken
  <2>2. CASE EditType \/ ServersMove \/ ClusterCompromised \/ StartApply \/ DrawKey \/ StashKey
    BY <2>2 DEF EditType, ServersMove, ClusterCompromised, StartApply, DrawKey, StashKey
  <2>3. CASE CreateBox \/ CreateAccount \/ Publish \/ StartDestroy \/ DeleteAccount
    BY <2>3 DEF CreateBox, CreateAccount, Publish, StartDestroy, DeleteAccount
  <2>4. CASE DeleteBox \/ ForgetKey \/ FinishDestroy \/ StopTier
    BY <2>4 DEF DeleteBox, ForgetKey, FinishDestroy, StopTier
  <2> QED
    BY <2>1, <2>2, <2>3, <2>4 DEF TierStep
<1>5. Elsewhere \/ (\E m \in Machines : Uploads(m) \/ Downloads(m)) => UNCHANGED <<world, kit, kits>>
  BY DEF Elsewhere, Uploads, Downloads, tierVars, ReadOutputs, InitRepository, Restic, Refused
<1>6. UNCHANGED allVars => UNCHANGED <<world, kit, kits>>
  BY DEF allVars, tierVars
<1>7. world' = world /\ KitsTyped(kit', kits')
  BY <1>2, <1>3, <1>4, <1>5, <1>6, Zenon DEF TierNext
<1> QED
  BY <1>7 DEF KitsTyped

----------------------------------------------------------------------------
(* The theorems of the uploads.                                              *)

LEMMA InitTier == TierInit => TierInv
<1> SUFFICES ASSUME TierInit  PROVE TierInv
  OBVIOUS
<1>1. KitInv
  BY InitKit
<1>2. /\ era = 1 /\ taken = 0 /\ points = <<>> /\ bundles = <<>> /\ ids = 0 /\ stored = FALSE
      /\ uploads = 0 /\ downloads = 0 /\ stops = 0 /\ losses = 0
      /\ local = [m \in Machines |-> {}] /\ pc = [m \in Machines |-> "idle"]
      /\ picked = [m \in Machines |-> NoSnapshot] /\ mine = [m \in Machines |-> 0]
  BY DEF TierInit, Init
<1>3. /\ world \in Worlds /\ held = [m \in Machines |-> NoOutputs]
      /\ kit = NoKit /\ kits = {} /\ changes = 1
  BY DEF TierInit
<1>4. TypeOK
  <2>1. era \in 1..MaxEras /\ taken \in 0..MaxTaken /\ ids \in Nat
    BY <1>2, BackupAssumption
  <2>2. /\ uploads \in 0..MaxUploads /\ downloads \in 0..MaxDownloads
        /\ stops \in 0..MaxStops /\ losses \in 0..MaxLosses
    BY <1>2, BackupAssumption
  <2>3. local \in [Machines -> SUBSET File] /\ mine \in [Machines -> Nat]
    BY <1>2
  <2>4. picked \in [Machines -> File \union {NoSnapshot}]
    BY <1>2, Zenon
  <2>5. /\ pc \in [Machines -> Steps \union {"idle", "done", "failed"}]
        /\ \A m \in Machines : pc[m] \notin Steps
    BY <1>2 DEF Steps
  <2>6. points \in Seq(Point) /\ bundles \in Seq(Bundle) /\ stored \in BOOLEAN
    <3>1. <<>> \in Seq(Point) /\ <<>> \in Seq(Bundle)
      OBVIOUS
    <3> QED
      BY <1>2, <3>1, Zenon
  <2> QED
    BY <2>1, <2>2, <2>3, <2>4, <2>5, <2>6, Zenon DEF TypeOK
<1>5. IsFiniteSet(kits) /\ Cardinality(kits) = 0
  BY <1>3, FS_EmptySet
<1>6. TierTypeOK
  <2>1. TierShape
    BY <1>1, <1>3 DEF KitInv, ShapeInv, TierShape, NoKit, None
  <2>2. changes <= world.changes /\ Cardinality(kits) <= world.kits
    <3>1. world.changes \in Nat \ {0} /\ world.kits \in Nat
      BY <1>3, WorldAssumption
    <3> QED
      BY <1>3, <1>5, <3>1
  <2> QED
    BY <1>3, <1>4, <2>1, <2>2 DEF TierTypeOK
<1>7. SeriesInv
  <2>1. Empty(bundles) = {} /\ Cardinality({}) = 0
    BY <1>2, FS_EmptySet DEF Empty
  <2>2. \A m \in Machines : picked[m].era = 0 /\ mine[m] = 0 /\ local[m] = {}
    BY <1>2 DEF NoSnapshot
  <2> QED
    BY <1>2, <2>1, <2>2 DEF SeriesInv, Rising, Eras
<1>8. UploadsInv
  BY <1>2 DEF UploadsInv, HasPoint, HasBundle
<1> QED
  BY <1>1, <1>5, <1>6, <1>7, <1>8 DEF TierInv

LEMMA TypesStep ==
    ASSUME TierInv, [TierNext]_allVars
    PROVE  TierTypeOK' /\ IsFiniteSet(kits')
<1>1. KitInv'
  BY NextKit DEF TierInv
<1>2. /\ world' = world /\ IsFiniteSet(kits')
      /\ kit' \in [began : Nat, stored : BOOLEAN, taking : BOOLEAN] /\ kits' \subseteq Kit
  BY KitsStep
<1>3. TierShape'
  BY <1>1, <1>2 DEF KitInv, ShapeInv, TierShape
<1>4. changes' <= world.changes /\ Cardinality(kits') <= world.kits
  <2>1. CASE UNCHANGED allVars
    BY <2>1 DEF TierInv, TierTypeOK, allVars, tierVars
  <2>2. CASE InWorld'
    <3>1. Cardinality(kits') \in Nat
      BY <1>2, FS_CardinalityType
    <3>2. world \in Worlds /\ world.kits \in Nat
      BY WorldAssumption DEF TierInv, TierTypeOK
    <3> QED
      BY <1>2, <2>2, <3>1, <3>2 DEF InWorld
  <2> QED
    BY <2>1, <2>2 DEF TierNext
<1> QED
  BY <1>2, <1>3, <1>4, TypedStep DEF TierInv, TierTypeOK

\* What the tier's own steps do to the uploads.
LEMMA TierStepKeeps ==
    ASSUME TierInv, TierStep, TypeOK', KitInv'
    PROVE  SeriesInv' /\ UploadsInv'
<1> DEFINE Same == /\ UNCHANGED <<vars, held>> /\ ("blind" \in past => "blind" \in past')
<1>1. ASSUME UNCHANGED <<era, local, pc, picked, mine, points, bundles, ids, stored, held>>,
             stops' \in Nat, stops <= stops', "blind" \in past => "blind" \in past',
             \A m \in Machines : Mentions(held[m])' => Mentions(held[m])
      PROVE  SeriesInv' /\ UploadsInv'
  BY <1>1, Parts, SeriesParts, LeavesRepository
<1>2. ASSUME UNCHANGED vars, UNCHANGED held, "blind" \in past => "blind" \in past',
             standing'.id = standing.id \/ \A m \in Machines : held[m].box # standing'.id
      PROVE  SeriesInv' /\ UploadsInv'
  <2>1. UNCHANGED <<era, local, pc, picked, mine, points, bundles, ids, stored, stops>>
    BY <1>2 DEF vars, repository, counters
  <2>2. \A m \in Machines : Mentions(held[m])' => Mentions(held[m])
    BY <1>2 DEF Mentions
  <2> QED
    BY <1>1, <1>2, <2>1, <2>2, Parts
<1>3. CASE \E project \in {"own", "cluster"} : SetToken(project)
  BY <1>2, <1>3 DEF SetToken
<1>4. CASE EditType \/ ServersMove \/ StartApply \/ DrawKey \/ StashKey
  BY <1>2, <1>4 DEF EditType, ServersMove, StartApply, DrawKey, StashKey
<1>5. CASE CreateBox
  <2>1. \A m \in Machines : held[m].box # standing'.id
    <3>1. standing'.id = changes /\ tier.phase = "apply" /\ tier.box = None
      BY <1>5 DEF CreateBox
    <3>2. \A m \in Machines : held[m].box <= changes - 1
      BY <3>1 DEF TierInv, KitInv, FreshInv
    <3>3. changes \in Nat /\ \A m \in Machines : held[m].box \in Nat
      BY DEF TierInv, KitInv, ShapeInv, Outputs
    <3> QED
      BY <3>1, <3>2, <3>3
  <2> QED
    BY <1>2, <1>5, <2>1 DEF CreateBox
<1>6. CASE CreateAccount \/ DeleteAccount
  <2>1. standing'.id = standing.id
    BY <1>6 DEF CreateAccount, DeleteAccount, TierInv, KitInv, ShapeInv
  <2> QED
    BY <1>2, <1>6, <2>1 DEF CreateAccount, DeleteAccount
<1>7. CASE Publish \/ StartDestroy \/ ForgetKey \/ FinishDestroy
  BY <1>2, <1>7 DEF Publish, StartDestroy, ForgetKey, FinishDestroy
<1>8. CASE StopTier
  <2>1. stops' = stops + 1 /\ UNCHANGED standing
    BY <1>8 DEF StopTier
  <2> QED
    BY <1>1, <1>8, <2>1, Parts DEF StopTier, repository, Mentions
<1>9. CASE DeleteBox
  BY <1>9, RepositoryGoes DEF DeleteBox, counters
<1>10. CASE ClusterCompromised
  <2>1. "blind" \in past
    BY <1>10 DEF ClusterCompromised, TierInv, KitInv, StateInv
  <2> QED
    BY <1>10, <2>1, RepositoryGoes DEF ClusterCompromised, counters
<1> QED
  BY <1>3, <1>4, <1>5, <1>6, <1>7, <1>8, <1>9, <1>10 DEF TierStep

\* What the rest does to them, but for the commands that reach the repository.
LEMMA ElsewhereKeeps ==
    ASSUME TierInv, TypeOK',
           \/ Elsewhere \/ TakeKit \/ UNCHANGED allVars
           \/ \E m \in Machines : Downloads(m) \/ InitRepository(m)
    PROVE  SeriesInv' /\ UploadsInv'
<1>1. ASSUME UNCHANGED <<points, bundles, ids, mine, held, standing, past, stored, picked>>,
             era <= era', stops <= stops',
             \A m \in Machines : pc'[m] \in HasPoint => pc'[m] = pc[m],
             \A m \in Machines : \A f \in local'[m] : f.era <= era'
      PROVE  SeriesInv' /\ UploadsInv'
  <2>1. era' \in Nat /\ stops' \in Nat
    BY BackupAssumption DEF TypeOK
  <2>2. \A m \in Machines : picked'[m].era <= era'
    BY <1>1, <2>1, Parts, SeriesParts
  <2> QED
    BY <1>1, <2>1, <2>2, LeavesRepository DEF Mentions
<1>2. ASSUME UNCHANGED <<points, bundles, ids, mine, held, standing, past, stored, picked, era, stops>>,
             \A m \in Machines : pc'[m] \in HasPoint => pc'[m] = pc[m],
             \A m \in Machines : \A f \in local'[m] : f.era <= era
      PROVE  SeriesInv' /\ UploadsInv'
  BY <1>1, <1>2, Parts
<1>3. CASE UNCHANGED allVars \/ TakeKit \/ \E m \in Machines : InitRepository(m)
  <2>1. UNCHANGED vars /\ UNCHANGED <<held, standing, past>>
    BY <1>3 DEF allVars, tierVars, TakeKit, StartKit, KitOutputs, KitUnreadable, InitRepository
  <2> QED
    BY <1>2, <2>1, SeriesParts DEF vars, repository, counters
<1>4. ASSUME NEW m \in Machines, Take(m), UNCHANGED tierVars
      PROVE  SeriesInv' /\ UploadsInv'
  <2>1. \A q \in Machines : \A f \in local'[q] : f.era <= era
    <3>1. \A q \in Machines : \A f \in local'[q] : f \in local[q] \/ f.era = era
      BY <1>4 DEF Take, TierInv, TierTypeOK, TypeOK
    <3> QED
      BY <3>1, Parts, SeriesParts
  <2> QED
    BY <1>2, <1>4, <2>1 DEF Take, repository, counters, tierVars
<1>5. ASSUME NEW m \in Machines, Stop(m), UNCHANGED tierVars
      PROVE  SeriesInv' /\ UploadsInv'
  <2>1. \A q \in Machines : pc'[q] \in HasPoint => pc'[q] = pc[q]
    BY <1>5, Parts DEF Stop, Goto, HasPoint
  <2>2. stops <= stops'
    BY <1>5, Parts DEF Stop
  <2> QED
    BY <1>1, <1>5, <2>1, <2>2, Parts, SeriesParts DEF Stop, repository, tierVars
<1>6. ASSUME NEW m \in Machines, LoseMachine(m), UNCHANGED tierVars
      PROVE  SeriesInv' /\ UploadsInv'
  <2>1. \A q \in Machines : pc'[q] \in HasPoint => pc'[q] = pc[q]
    BY <1>6, Parts DEF LoseMachine, Goto, HasPoint
  <2>2. \A q \in Machines : local'[q] \subseteq local[q]
    BY <1>6 DEF LoseMachine, TierInv, TierTypeOK, TypeOK
  <2> QED
    BY <1>2, <1>6, <2>1, <2>2, SeriesParts DEF LoseMachine, repository, tierVars
<1>7. CASE Rebuild /\ UNCHANGED tierVars
  <2>1. \A m \in Machines : \A f \in local[m] : f.era \in Nat /\ f.era <= era
    <3>1. \A m \in Machines : local[m] \subseteq File
      BY DEF TierInv, TierTypeOK, TypeOK
    <3>2. \A f \in File : f.era \in Nat
      BY BackupAssumption DEF File
    <3> QED
      BY <3>1, <3>2, SeriesParts
  <2>2. era' = era + 1
    BY <1>7 DEF Rebuild
  <2> QED
    BY <1>1, <1>7, <2>1, <2>2, Parts DEF Rebuild, repository, counters, tierVars
<1>8. ASSUME NEW m \in Machines, Downloads(m)
      PROVE  SeriesInv' /\ UploadsInv'
  <2>1. \A q \in Machines : \A f \in local'[q] : f \in local[q] \/ \E i \in DOMAIN points : f.era = points[i].era
    BY <1>8 DEF Downloads, Download, TierInv, TierTypeOK, TypeOK
  <2>2. \A q \in Machines : \A f \in local'[q] : f.era <= era
    BY <2>1, SeriesParts
  <2> QED
    BY <1>2, <1>8, <2>2 DEF Downloads, Download, repository, tierVars
<1> QED
  BY <1>3, <1>4, <1>5, <1>6, <1>7, <1>8 DEF Elsewhere

LEMMA UploadsKeep ==
    ASSUME TierInv, NEW m \in Machines, Uploads(m), TypeOK'
    PROVE  SeriesInv' /\ UploadsInv'
<1>1. ASSUME UNCHANGED <<points, bundles, ids, mine, standing, past, stored, era, stops, local>>,
             \A q \in Machines : picked'[q].era <= era,
             \A q \in Machines : pc'[q] \in HasPoint =>
                 pc'[q] = pc[q] /\ picked'[q] = picked[q] /\ held'[q] = held[q]
      PROVE  SeriesInv' /\ UploadsInv'
  <2>1. \A q \in Machines : \A f \in local[q] : f.era <= era
    BY SeriesParts
  <2>2. \A q \in Machines : Mentions(held[q])' /\ pc'[q] \in HasPoint =>
            pc'[q] = pc[q] /\ Mentions(held[q]) /\ picked'[q] = picked[q]
    BY <1>1 DEF Mentions
  <2> QED
    BY <1>1, <2>1, <2>2, Parts, LeavesRepository
<1>2. {"verify", "etcd", "failed"} \intersect HasPoint = {}
  BY DEF HasPoint
<1>3. CASE Pick(m) /\ held' = [held EXCEPT ![m] = NoOutputs]
           /\ UNCHANGED <<world, tier, standing, repoKey, kit, kits, changes, past>>
  <2>1. PICK f \in local[m] : picked' = [picked EXCEPT ![m] = f]
    BY <1>3 DEF Pick
  <2>2. \A q \in Machines : picked'[q].era <= era
    BY <2>1, Parts, SeriesParts
  <2>3. \A q \in Machines \ {m} : pc'[q] = pc[q] /\ picked'[q] = picked[q] /\ held'[q] = held[q]
    BY <1>3, <2>1, Parts DEF Pick, Goto, TierInv, KitInv, ShapeInv
  <2>4. pc'[m] = "verify"
    BY <1>3, Parts DEF Pick, Goto
  <2> QED
    BY <1>1, <1>2, <1>3, <2>2, <2>3, <2>4 DEF Pick, repository
<1>4. CASE VerifyPicked(m) /\ UNCHANGED tierVars
  <2>1. \A q \in Machines : pc'[q] \in HasPoint => pc'[q] = pc[q]
    BY <1>2, <1>4, Parts DEF VerifyPicked, Goto
  <2> QED
    BY <1>1, <1>4, <2>1, SeriesParts DEF VerifyPicked, repository, counters, tierVars
<1>5. CASE ReadOutputs(m)
  <2>1. PICK l \in {"etcd", "failed"} : pc' = [pc EXCEPT ![m] = l]
    BY <1>5 DEF ReadOutputs, Goto
  <2>2. pc'[m] \notin HasPoint
    BY <1>2, <2>1, Parts
  <2>3. \A q \in Machines \ {m} : pc'[q] = pc[q] /\ held'[q] = held[q]
    BY <1>5, <2>1, Parts DEF ReadOutputs, TierInv, KitInv, ShapeInv
  <2> QED
    BY <1>1, <1>5, <2>2, <2>3, SeriesParts DEF ReadOutputs, repository, counters
<1>6. CASE Refused(m)
  <2>1. \A q \in Machines : pc'[q] \in HasPoint => pc'[q] = pc[q]
    BY <1>2, <1>6, Parts DEF Refused, Goto
  <2> QED
    BY <1>1, <1>6, <2>1, SeriesParts DEF Refused, repository, counters, tierVars
<1>7. CASE InitRepository(m)
  BY <1>7, ElsewhereKeeps
<1>8. CASE Restic(m)
  <2>1. Mentions(held[m]) /\ UNCHANGED tierVars
    BY <1>8 DEF Restic, Opened, Connects, Mentions
  <2>2. bundles' \in Seq(Bundle) /\ stops' \in Nat
    BY BackupAssumption DEF TypeOK
  <2> QED
    BY <1>8, <2>1, <2>2, BackupEtcdKeeps, BackupSecretsKeeps, ForgetSecretsKeeps, ForgetEtcdKeeps,
       FinishKeeps DEF Restic
<1> QED
  BY <1>3, <1>4, <1>5, <1>6, <1>7, <1>8 DEF Uploads

LEMMA NextTier == TierInv /\ [TierNext]_allVars => TierInv'
<1> SUFFICES ASSUME TierInv, [TierNext]_allVars  PROVE TierInv'
  OBVIOUS
<1>1. KitInv' /\ TierTypeOK' /\ IsFiniteSet(kits') /\ TypeOK'
  BY NextKit, TypesStep, TypedStep DEF TierInv
<1>2. SeriesInv' /\ UploadsInv'
  BY <1>1, TierStepKeeps, ElsewhereKeeps, UploadsKeep DEF TierNext
<1> QED
  BY <1>1, <1>2 DEF TierInv

LEMMA TierInvAlways == TierSpec => []TierInv
BY InitTier, NextTier, PTL DEF TierSpec

\* A tier, its uploads and its kits stay in their ranges, the uploads within
\* the world's bounds, and the files an upload is for are snapshots.
THEOREM TierTypesAreRight == TierSpec => []TierTypeOK
<1>1. TierInv => TierTypeOK
  BY DEF TierInv
<1> QED
  BY <1>1, TierInvAlways, PTL

\* Once an upload has finished, and until a destroy takes the box, the outputs
\* open a repository that restores the cluster: for any Keep, any machines and
\* any interleaving of their uploads with applies and destroys.
THEOREM TheBackupStaysReadable == TierSpec => []StaysReadable
<1>1. TierInv => StaysReadable
  <2> SUFFICES ASSUME TierInv, stored, ~Unrefused
               PROVE  /\ tier.outputs.box = standing.id /\ tier.outputs.key = repoKey
                      /\ era = 1 /\ stops < Keep => Restorable
    BY DEF StaysReadable, StaysRestorable
  <2>1. tier.outputs.box = standing.id /\ tier.outputs.key = repoKey
    BY DEF TierInv, KitInv, StateInv, KeyInv, Unrefused
  <2>2. ASSUME era = 1, stops < Keep  PROVE Restorable
    <3>1. points # <<>> /\ Whole(bundles, 1)
      BY <2>2 DEF TierInv, UploadsInv, Unrefused
    <3>2. 1 \in DOMAIN points
      BY <3>1, Parts
    <3>3. points[1].era = 1
      BY <2>2, <3>2, Parts, SeriesParts
    <3>4. PICK j \in DOMAIN bundles : 1 <= bundles[j].era
      BY <3>1 DEF Whole
    <3>5. bundles[j].era = 1
      BY <2>2, <3>4, SeriesParts
    <3> QED
      BY <3>2, <3>3, <3>5 DEF Restorable, Opens
  <2> QED
    BY <2>1, <2>2
<1> QED
  BY <1>1, TierInvAlways, PTL

\* An upload of a snapshot of the running cluster that ends has stored it, with
\* a bundle that opens it, whatever the uploads beside it did meanwhile.
THEOREM EveryUploadIsABackup == TierSpec => []UploadedMeansBackup
<1>1. TierInv => UploadedMeansBackup
  <2> SUFFICES ASSUME TierInv, NEW m \in Machines, pc[m] = "check", Opened(held[m]), picked[m].era = era
               PROVE  StoredAsAPair(m)
    BY DEF UploadedMeansBackup
  <2>1. Mentions(held[m]) /\ pc[m] \in HasPoint /\ pc[m] \in HasBundle
    BY DEF Opened, Connects, Mentions, HasPoint, HasBundle
  <2>2. (\E i \in DOMAIN points : points[i].id = mine[m]) \/ Newer(points, mine[m]) >= Keep
    <3>1. Outlived(points, mine[m])
      BY <2>1 DEF TierInv, UploadsInv
    <3>2. ASSUME Len(points) >= Keep,
                 \A i \in DOMAIN points : Len(points) < i + Keep => mine[m] < points[i].id
          PROVE  Newer(points, mine[m]) >= Keep
      <4> DEFINE New == {i \in DOMAIN points : points[i].id > mine[m]}
      <4>1. PICK n \in Nat : n = Len(points) /\ DOMAIN points = 1..n
        BY Parts
      <4>2. Keep \in Nat \ {0} /\ Keep <= n
        BY <3>2, <4>1, BackupAssumption
      <4>3. IsFiniteSet((n - Keep + 1)..n) /\ Cardinality((n - Keep + 1)..n) = Keep
        <5>1. n - Keep + 1 \in Int /\ n \in Int /\ ~(n - Keep + 1 > n) /\ n - (n - Keep + 1) + 1 = Keep
          BY <4>2
        <5>2. /\ IsFiniteSet((n - Keep + 1)..n)
              /\ Cardinality((n - Keep + 1)..n) =
                   IF n - Keep + 1 > n THEN 0 ELSE n - (n - Keep + 1) + 1
          BY <5>1, FS_Interval
        <5> QED
          BY <5>1, <5>2
      <4>4. (n - Keep + 1)..n \subseteq New
        <5> SUFFICES ASSUME NEW i \in (n - Keep + 1)..n  PROVE i \in New
          OBVIOUS
        <5>1. i \in 1..n /\ n < i + Keep
          BY <4>2
        <5>2. mine[m] < points[i].id
          BY <3>2, <4>1, <5>1
        <5>3. points[i].id \in Nat /\ mine[m] \in Nat
          BY <4>1, <5>1, Parts
        <5> QED
          BY <4>1, <5>1, <5>2, <5>3
      <4>5. IsFiniteSet(New)
        <5>1. IsFiniteSet(1..n) /\ New \subseteq 1..n
          BY <4>1, FS_Interval
        <5> QED
          BY <5>1, FS_Subset
      <4>6. Cardinality(New) \in Nat /\ Cardinality((n - Keep + 1)..n) <= Cardinality(New)
        BY <4>4, <4>5, FS_Subset, FS_CardinalityType
      <4> QED
        BY <4>2, <4>3, <4>6 DEF Newer
    <3> QED
      BY <3>1, <3>2 DEF Outlived
  <2>3. ASSUME stops < Keep  PROVE \E j \in DOMAIN bundles : bundles[j].era = picked[m].era
    <3>1. Whole(bundles, picked[m].era)
      BY <2>1, <2>3 DEF TierInv, UploadsInv
    <3>2. PICK j \in DOMAIN bundles : picked[m].era <= bundles[j].era
      BY <3>1 DEF Whole
    <3>3. bundles[j].era = era
      BY <3>2, Parts, SeriesParts
    <3> QED
      BY <3>3
  <2> QED
    BY <2>2, <2>3 DEF StoredAsAPair
<1> QED
  BY <1>1, TierInvAlways, PTL
=============================================================================
