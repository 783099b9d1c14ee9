------------------------ MODULE RollingUpgrade_proofs ------------------------
(***************************************************************************)
(* Proofs about RollingUpgrade, for any number of control planes and       *)
(* workers, any environments and versions, and any number of failures.     *)
(***************************************************************************)
EXTENDS RollingUpgrade, FiniteSetTheorems, TLAPS

LEMMA InitRolling == Init => RollingInv
BY RollingAssumption
   DEF Init, RollingInv, TypeOK, OneAtATime, WholeSoFar, Passed, Nodes, Running, OnNode

\* One step keeps the invariant: a node goes down only on the way to `wait`, the
\* loop leaves `wait` only with the node up, and a run that ends otherwise hands
\* what is out over to `unplanned`.
LEMMA StepRolling == RollingInv /\ [Next]_vars => RollingInv'
<1> SUFFICES ASSUME RollingInv, [Next]_vars PROVE RollingInv'
  OBVIOUS
<1> USE RollingAssumption DEF RollingInv, Running, OnNode
<1>1. CASE StartUpgrade
  BY <1>1 DEF StartUpgrade, cluster, TypeOK, OneAtATime, WholeSoFar, Passed, Nodes
<1>2. CASE StartReboot
  BY <1>2 DEF StartReboot, cluster, TypeOK, OneAtATime, WholeSoFar, Passed, Nodes
<1>3. CASE ReadMembers
  <2>1. listed' = todo' /\ listed' \subseteq Nodes
    BY <1>3 DEF ReadMembers, Up
  <2> QED
    BY <1>3, <2>1 DEF ReadMembers, cluster, TypeOK, OneAtATime, WholeSoFar, Passed
<1>4. CASE ReadInstaller
  BY <1>4 DEF ReadInstaller, cluster, TypeOK, OneAtATime, WholeSoFar, Passed
<1>5. CASE NextNode
  BY <1>5 DEF NextNode, cluster, TypeOK, OneAtATime, WholeSoFar, Passed
<1>6. CASE Finish
  BY <1>6 DEF Finish, cluster, TypeOK, OneAtATime, WholeSoFar, Passed, Nodes
<1>7. CASE Drain
  BY <1>7 DEF Drain, TypeOK, OneAtATime, WholeSoFar, Passed
<1>8. CASE Install
  BY <1>8 DEF Install, TypeOK, OneAtATime, WholeSoFar, Passed
<1>9. CASE Reboot
  BY <1>9 DEF Reboot, TypeOK, OneAtATime, WholeSoFar, Passed
<1>10. CASE Waited
  BY <1>10 DEF Waited, cluster, TypeOK, OneAtATime, WholeSoFar, Passed
<1>11. CASE WaitReady
  BY <1>11 DEF WaitReady, cluster, TypeOK, OneAtATime, WholeSoFar, Passed
<1>12. CASE Uncordon
  BY <1>12 DEF Uncordon, TypeOK, OneAtATime, WholeSoFar, Passed
<1>13. CASE Stop
  <2>1. faults' \in 0..MaxFaults
    BY <1>13 DEF Stop, TypeOK
  <2> QED
    BY <1>13, <2>1 DEF Stop, cluster, TypeOK, OneAtATime, WholeSoFar, Passed, Nodes, Up
<1>14. CASE Edit
  <2>1. edits' \in 0..MaxEdits /\ pinned' \in [Stacks -> Versions]
    BY <1>14 DEF Edit, TypeOK
  <2> QED
    BY <1>14, <2>1 DEF Edit, script, cluster, TypeOK, OneAtATime, WholeSoFar, Passed
<1>15. ASSUME NEW n \in Nodes, Boot(n) PROVE RollingInv'
  BY <1>15 DEF Boot, script, TypeOK, OneAtATime, WholeSoFar, Passed
<1>16. ASSUME NEW n \in Nodes, Die(n) PROVE RollingInv'
  <2>1. faults' \in 0..MaxFaults
    BY <1>16 DEF Die, TypeOK
  <2> QED
    BY <1>16, <2>1 DEF Die, script, TypeOK, OneAtATime, WholeSoFar, Passed
<1>17. ASSUME NEW n \in Nodes, Repair(n) PROVE RollingInv'
  BY <1>17 DEF Repair, script, TypeOK, OneAtATime, WholeSoFar, Passed
<1>18. CASE UNCHANGED vars
  BY <1>18 DEF vars, script, cluster, TypeOK, OneAtATime, WholeSoFar, Passed
<1> QED
  BY <1>1, <1>2, <1>3, <1>4, <1>5, <1>6, <1>7, <1>8, <1>9, <1>10, <1>11, <1>12,
     <1>13, <1>14, <1>15, <1>16, <1>17, <1>18 DEF Next, Loop

\* The inductive invariant holds of every behavior.
THEOREM RollingHolds == Spec => []RollingInv
<1> QED
  BY InitRolling, StepRolling, PTL DEF Spec

\* Every variable keeps its type.
THEOREM RollingTypeCorrect == Spec => []TypeOK
<1>1. RollingInv => TypeOK
  BY DEF RollingInv
<1> QED
  BY <1>1, RollingHolds, PTL

\* The loops of upgrade:talos and reboot have no node out but the one they wait
\* for; every other that is out failed or was left by a run that ended.
THEOREM LoopsTakeOne == Spec => []OneAtATime
<1>1. RollingInv => OneAtATime
  BY DEF RollingInv
<1> QED
  BY <1>1, RollingHolds, PTL

\* An upgrade that reports success has upgraded and uncordoned every member it
\* read, whatever order they were listed in and whatever earlier runs left.
THEOREM SuccessIsWhole == Spec => []DoneIsWhole
<1>1. RollingInv => DoneIsWhole
  <2> SUFFICES ASSUME RollingInv, pc = "done", task = "upgrade", NEW n \in listed
               PROVE  talos[n] = installer /\ n \notin cordoned
    BY DEF DoneIsWhole
  <2>1. n \in Passed
    BY DEF RollingInv, WholeSoFar, Passed, OnNode
  <2> QED
    BY <2>1 DEF RollingInv, WholeSoFar
<1> QED
  BY <1>1, RollingHolds, PTL

----------------------------------------------------------------------------
(* Quorum.                                                                  *)

\* A set of three or more keeps its majority without any one of its elements.
LEMMA MajorityWithoutOne ==
  ASSUME NEW S, IsFiniteSet(S), Cardinality(S) >= 3,
         NEW T \in SUBSET S, NEW x, S \ {x} \subseteq T
  PROVE  2 * Cardinality(T) > Cardinality(S)
<1>1. IsFiniteSet(T)
  BY FS_Subset
<1>2. IsFiniteSet(S \ {x}) /\ Cardinality(S \ {x}) >= Cardinality(S) - 1
  <2>1. Cardinality(S) \in Nat
    BY FS_CardinalityType
  <2>2. /\ IsFiniteSet(S \ {x})
        /\ Cardinality(S \ {x}) = IF x \in S THEN Cardinality(S) - 1 ELSE Cardinality(S)
    BY FS_RemoveElement
  <2> QED
    BY <2>1, <2>2
<1>3. Cardinality(S \ {x}) <= Cardinality(T)
  <2>1. S \ {x} \in SUBSET T
    OBVIOUS
  <2> QED
    BY <1>1, <2>1, FS_Subset
<1>4. Cardinality(S) \in Nat /\ Cardinality(T) \in Nat /\ Cardinality(S \ {x}) \in Nat
  BY <1>1, <1>2, FS_CardinalityType
<1> QED
  BY <1>2, <1>3, <1>4

\* While nothing is out but what a run is waiting for, etcd has its quorum, for
\* every control plane of three nodes or more.
THEOREM RollingKeepsQuorum == Spec => []QuorumKept
<1>1. RollingInv => QuorumKept
  <2> SUFFICES ASSUME RollingInv, unplanned = {}, Cardinality(ControlPlanes) >= 3
               PROVE  Quorum
    BY DEF QuorumKept
  <2> DEFINE S == {n \in ControlPlanes : node[n] = "up"}
  <2>1. ControlPlanes \ {at} \subseteq S
    BY DEF RollingInv, OneAtATime, Nodes
  <2>2. S \in SUBSET ControlPlanes
    OBVIOUS
  <2> HIDE DEF S
  <2>3. 2 * Cardinality(S) > Cardinality(ControlPlanes)
    BY <2>1, <2>2, MajorityWithoutOne, RollingAssumption
  <2> QED
    BY <2>3 DEF S, Quorum
<1> QED
  BY <1>1, RollingHolds, PTL
=============================================================================
