------------------------- MODULE EtcdRestore_proofs -------------------------
(***************************************************************************)
(* Proofs about EtcdRestore, for every number of nodes, every set of        *)
(* snapshots and every bound on surprises and runs.                         *)
(***************************************************************************)
EXTENDS EtcdRestore, TLAPS

\* Every variable keeps its type: the script's sets stay sets of nodes and no
\* counter leaves its bound.
THEOREM TypeCorrect == Spec => []TypeOK
<1> USE RestoreAssumption DEF Ended, pass, nodes, script, FreshPass, Surprise
<1>1. Init => TypeOK
  <2> SUFFICES ASSUME Init PROVE TypeOK
    OBVIOUS
  <2>1. data \in [Nodes -> Nat] /\ epoch \in Nat
    BY DEF Init
  <2>2. surprises \in 0..MaxSurprises /\ runs \in 1..MaxRuns
    BY DEF Init
  <2> QED
    BY <2>1, <2>2 DEF Init, TypeOK
<1>2. TypeOK /\ [Next]_vars => TypeOK'
  <2> SUFFICES ASSUME TypeOK, [Next]_vars PROVE TypeOK'
    OBVIOUS
  <2> USE DEF TypeOK
  <2>1. CASE CheckSnapshot
    BY <2>1 DEF CheckSnapshot
  <2>2. ASSUME NEW n \in Nodes, ReadState(n) PROVE TypeOK'
    BY <2>2 DEF ReadState
  <2>3. CASE Decide
    BY <2>3 DEF Decide
  <2>4. ASSUME NEW n \in Nodes, AskVersion(n) PROVE TypeOK'
    BY <2>4 DEF AskVersion
  <2>5. CASE StartWipes
    BY <2>5 DEF StartWipes, ToWipe
  <2>6. CASE SkipWipes
    BY <2>6 DEF SkipWipes
  <2>7. CASE WaitReturns
    BY <2>7 DEF WaitReturns
  <2>8. CASE Bootstrap
    BY <2>8 DEF Bootstrap
  <2>9. CASE Abort
    BY <2>9 DEF Abort
  <2>10. CASE Rerun
    <3>1. runs' \in 1..MaxRuns /\ pc' = "verify"
      BY <2>10 DEF Rerun
    <3> QED
      BY <2>10, <3>1 DEF Rerun
  <2>11. CASE DeadlinePasses
    BY <2>11 DEF DeadlinePasses
  <2>12. ASSUME NEW n \in Nodes, Wipe(n) PROVE TypeOK'
    BY <2>12 DEF Wipe
  <2>13. ASSUME NEW n \in Nodes, JobReturns(n) PROVE TypeOK'
    BY <2>13 DEF JobReturns
  <2>14. ASSUME NEW n \in Nodes, Boot(n) PROVE TypeOK'
    BY <2>14 DEF Boot
  <2>15. ASSUME NEW n \in Nodes, Join(n) PROVE TypeOK'
    BY <2>15 DEF Join
  <2>16. ASSUME NEW n \in Nodes, Crash(n) PROVE TypeOK'
    BY <2>16 DEF Crash
  <2>17. CASE UNCHANGED vars
    BY <2>17 DEF vars
  <2> HIDE DEF TypeOK
  <2> QED
    BY <2>1, <2>2, <2>3, <2>4, <2>5, <2>6, <2>7, <2>8, <2>9, <2>10, <2>11,
       <2>12, <2>13, <2>14, <2>15, <2>16, <2>17
       DEF Next, Script, Operator, Machines
<1> QED
  BY <1>1, <1>2, PTL DEF Spec

----------------------------------------------------------------------------
(* One history.                                                             *)

\* The invariant that carries OneHistory survives every step, provided a
\* reset never outlives the `talosctl` that asked for it.
LEMMA HistoryStep ==
  ASSUME LateWipes = FALSE, TypeOK, TypeOK', HistoryInv, [Next]_vars
  PROVE  HistoryInv'
<1> USE DEF HistoryInv, OneHistory, ResetsSettle, ReadsPointOn, Emptied,
            nodes, script, pass, FreshPass
<1>1. CASE CheckSnapshot
  BY <1>1 DEF CheckSnapshot, TypeOK
<1>2. ASSUME NEW n \in Nodes, ReadState(n) PROVE HistoryInv'
  BY <1>2 DEF ReadState, TypeOK
<1>3. CASE Decide
  BY <1>3 DEF Decide, TypeOK
<1>4. ASSUME NEW n \in Nodes, AskVersion(n) PROVE HistoryInv'
  BY <1>4 DEF AskVersion, TypeOK
<1>5. CASE StartWipes
  BY <1>5 DEF StartWipes, ToWipe, TypeOK
<1>6. CASE SkipWipes
  BY <1>6 DEF SkipWipes, TypeOK
<1>7. CASE WaitReturns
  BY <1>7 DEF WaitReturns, TypeOK
<1>8. CASE Bootstrap
  BY <1>8, RestoreAssumption DEF Bootstrap, TypeOK
<1>9. CASE Abort
  BY <1>9 DEF Abort, TypeOK, Ended
<1>10. CASE Rerun
  BY <1>10 DEF Rerun, TypeOK, Ended
<1>11. CASE DeadlinePasses
  BY <1>11 DEF DeadlinePasses, TypeOK
<1>12. ASSUME NEW n \in Nodes, Wipe(n) PROVE HistoryInv'
  BY <1>12 DEF Wipe, TypeOK
<1>13. ASSUME NEW n \in Nodes, JobReturns(n) PROVE HistoryInv'
  BY <1>13 DEF JobReturns, TypeOK
<1>14. ASSUME NEW n \in Nodes, Boot(n) PROVE HistoryInv'
  BY <1>14 DEF Boot, TypeOK
<1>15. ASSUME NEW n \in Nodes, Join(n) PROVE HistoryInv'
  BY <1>15 DEF Join, Alive, TypeOK
<1>16. ASSUME NEW n \in Nodes, Crash(n) PROVE HistoryInv'
  BY <1>16 DEF Crash, TypeOK
<1>17. CASE UNCHANGED vars
  BY <1>17 DEF vars
<1> HIDE DEF HistoryInv
<1> QED
  BY <1>1, <1>2, <1>3, <1>4, <1>5, <1>6, <1>7, <1>8, <1>9, <1>10, <1>11,
     <1>12, <1>13, <1>14, <1>15, <1>16, <1>17
     DEF Next, Script, Operator, Machines

\* What the single history rests on, at every moment of the loop: no reset is
\* left over when a pass begins to read, a node that was read empty and has
\* data again took it from one that is still to be read, and the bootstrap
\* finds no data on any node.
THEOREM HistoryHolds ==
  ASSUME LateWipes = FALSE
  PROVE  Spec => []HistoryInv
<1>1. Init => HistoryInv
  BY DEF Init, HistoryInv, OneHistory, ResetsSettle, ReadsPointOn, Emptied
<1>2. TypeOK /\ TypeOK' /\ HistoryInv /\ [Next]_vars => HistoryInv'
  BY HistoryStep
<1> QED
  BY <1>1, <1>2, TypeCorrect, PTL DEF Spec

\* A reader's summary of the restore: whatever crashes, rejoins, early
\* reboots, aborted runs and reruns fall between its steps, the control plane
\* never holds two histories.
THEOREM NeverTwoHistories ==
  ASSUME LateWipes = FALSE
  PROVE  Spec => []OneHistory
<1>1. HistoryInv => OneHistory
  BY DEF HistoryInv
<1> QED
  BY <1>1, HistoryHolds, PTL

----------------------------------------------------------------------------
(* The restore implements what a restore promises.                          *)

LEMMA StepImplements ==
  ASSUME TypeOK, HistoryInv, [Next]_vars
  PROVE  [History!Next]_<<data, epoch>>
<1> USE DEF History!Next, History!Lose, History!Adopt, History!Restore, nodes
<1>1. CASE Bootstrap
  BY <1>1 DEF Bootstrap, HistoryInv, Emptied
<1>2. ASSUME NEW n \in Nodes, Wipe(n) PROVE History!Lose(n)
  BY <1>2 DEF Wipe
<1>3. ASSUME NEW n \in Nodes, Join(n) PROVE History!Adopt(n)
  BY <1>3 DEF Join, Alive, HistoryInv
<1>4. ASSUME NEW n \in Nodes,
             ReadState(n) \/ AskVersion(n) \/ JobReturns(n) \/ Boot(n) \/ Crash(n)
      PROVE  UNCHANGED <<data, epoch>>
  BY <1>4 DEF ReadState, AskVersion, JobReturns, Boot, Crash
<1>5. ASSUME CheckSnapshot \/ Decide \/ StartWipes \/ SkipWipes \/ WaitReturns
             \/ Abort \/ Rerun \/ DeadlinePasses
      PROVE  UNCHANGED <<data, epoch>>
  BY <1>5 DEF CheckSnapshot, Decide, StartWipes, SkipWipes, WaitReturns, Abort,
     Rerun, DeadlinePasses
<1>6. CASE UNCHANGED vars
  BY <1>6 DEF vars
<1> QED
  BY <1>1, <1>2, <1>3, <1>4, <1>5, <1>6 DEF Next, Script, Operator, Machines

\* The loop of reads, waits and resets is, seen from the data, only ever one
\* of three things: a member loses its data, takes over another's, or begins
\* a new history where there is none left.
THEOREM RestoreImplementsHistory ==
  ASSUME LateWipes = FALSE
  PROVE  Spec => ImplementsHistory
<1>1. Init => History!Init /\ HistoryInv
  BY DEF Init, History!Init, HistoryInv, OneHistory, ResetsSettle, ReadsPointOn,
     Emptied
<1>2. TypeOK /\ TypeOK' /\ HistoryInv /\ [Next]_vars => HistoryInv'
  BY HistoryStep
<1>3. TypeOK /\ HistoryInv /\ [Next]_vars => [History!Next]_<<data, epoch>>
  BY StepImplements
<1> QED
  BY <1>1, <1>2, <1>3, TypeCorrect, PTL DEF Spec, ImplementsHistory, History!Spec

\* No data is lost for a snapshot that `tools/etcd verify` refuses.
THEOREM WipesOnlyForAVerifiedSnapshot ==
  ASSUME LateWipes = FALSE
  PROVE  Spec => OnlyAVerifiedSnapshotWipes
<1> DEFINE Allowed == (\E n \in Nodes : data[n] # 0 /\ data'[n] = 0) => Verify(snapshot)
<1>1. Init => HistoryInv
  BY DEF Init, HistoryInv, OneHistory, ResetsSettle, ReadsPointOn, Emptied
<1>2. TypeOK /\ TypeOK' /\ HistoryInv /\ [Next]_vars => HistoryInv'
  BY HistoryStep
<1>3. TypeOK /\ HistoryInv /\ [Next]_vars => [Allowed]_vars
  <2> SUFFICES ASSUME TypeOK, HistoryInv, [Next]_vars,
                      NEW n \in Nodes, data[n] # 0, data'[n] = 0
               PROVE  Verify(snapshot)
    OBVIOUS
  <2>1. ~ (data' = data)
    OBVIOUS
  <2>2. CASE Bootstrap
    BY <2>2 DEF Bootstrap, HistoryInv
  <2>3. ASSUME NEW m \in Nodes, Wipe(m) PROVE Verify(snapshot)
    BY <2>3 DEF Wipe, HistoryInv, ResetsSettle
  <2>4. ASSUME NEW m \in Nodes, Join(m) PROVE FALSE
    BY <2>4 DEF Join, Alive, TypeOK
  <2>5. ASSUME NEW m \in Nodes,
               ReadState(m) \/ AskVersion(m) \/ JobReturns(m) \/ Boot(m) \/ Crash(m)
        PROVE  data' = data
    BY <2>5 DEF ReadState, AskVersion, JobReturns, Boot, Crash, nodes
  <2>6. ASSUME CheckSnapshot \/ Decide \/ StartWipes \/ SkipWipes \/ WaitReturns
               \/ Abort \/ Rerun \/ DeadlinePasses
        PROVE  data' = data
    BY <2>6 DEF CheckSnapshot, Decide, StartWipes, SkipWipes, WaitReturns, Abort,
       Rerun, DeadlinePasses, nodes
  <2>7. CASE UNCHANGED vars
    BY <2>7, <2>1 DEF vars, nodes
  <2> QED
    BY <2>1, <2>2, <2>3, <2>4, <2>5, <2>6, <2>7 DEF Next, Script, Operator, Machines
<1> QED
  BY <1>1, <1>2, <1>3, TypeCorrect, PTL DEF Spec, OnlyAVerifiedSnapshotWipes

----------------------------------------------------------------------------
(* A dead node.                                                             *)

LEMMA DeadStep ==
  ASSUME TypeOK, TypeOK', DeadInv, [Next]_vars
  PROVE  DeadInv'
<1> USE DEF DeadInv, Ended, nodes, script, pass, FreshPass
<1>1. CASE CheckSnapshot
  BY <1>1 DEF CheckSnapshot, TypeOK
<1>2. ASSUME NEW n \in Nodes, ReadState(n) PROVE DeadInv'
  BY <1>2 DEF ReadState, TypeOK
<1>3. CASE Decide
  BY <1>3 DEF Decide, TypeOK
<1>4. ASSUME NEW n \in Nodes, AskVersion(n) PROVE DeadInv'
  BY <1>4 DEF AskVersion, TypeOK
<1>5. CASE StartWipes
  BY <1>5 DEF StartWipes, TypeOK
<1>6. CASE SkipWipes
  BY <1>6 DEF SkipWipes, TypeOK
<1>7. CASE WaitReturns
  BY <1>7 DEF WaitReturns, TypeOK
<1>8. CASE Bootstrap
  BY <1>8 DEF Bootstrap, TypeOK
<1>9. CASE Abort
  BY <1>9 DEF Abort, TypeOK
<1>10. CASE Rerun
  BY <1>10 DEF Rerun, TypeOK
<1>11. CASE DeadlinePasses
  BY <1>11 DEF DeadlinePasses, TypeOK
<1>12. ASSUME NEW n \in Nodes, Wipe(n) PROVE DeadInv'
  BY <1>12 DEF Wipe, TypeOK
<1>13. ASSUME NEW n \in Nodes, JobReturns(n) PROVE DeadInv'
  BY <1>13 DEF JobReturns, TypeOK
<1>14. ASSUME NEW n \in Nodes, Boot(n) PROVE DeadInv'
  BY <1>14 DEF Boot, TypeOK
<1>15. ASSUME NEW n \in Nodes, Join(n) PROVE DeadInv'
  BY <1>15 DEF Join, TypeOK
<1>16. ASSUME NEW n \in Nodes, Crash(n) PROVE DeadInv'
  BY <1>16 DEF Crash, TypeOK
<1>17. CASE UNCHANGED vars
  BY <1>17 DEF vars
<1> HIDE DEF DeadInv
<1> QED
  BY <1>1, <1>2, <1>3, <1>4, <1>5, <1>6, <1>7, <1>8, <1>9, <1>10, <1>11,
     <1>12, <1>13, <1>14, <1>15, <1>16, <1>17
     DEF Next, Script, Operator, Machines

\* A control-plane machine that is gone for good keeps the task from
\* destroying what the others still hold, even when resets outlive the call
\* that asked for them: reading it ends the task, and no reset is asked for.
THEOREM ADeadNodeSavesTheOthers == Spec => DeadNodeStopsTheWipe
<1> DEFINE Kept == dead # {} => \A n \in Nodes : data[n] # 0 => data'[n] # 0
<1>1. Init => DeadInv
  BY DEF Init, DeadInv
<1>2. TypeOK /\ TypeOK' /\ DeadInv /\ [Next]_vars => DeadInv'
  BY DeadStep
<1>3. TypeOK /\ DeadInv /\ [Next]_vars => [Kept]_vars
  <2> SUFFICES ASSUME TypeOK, DeadInv, [Next]_vars, dead # {},
                      NEW n \in Nodes, data[n] # 0
               PROVE  data'[n] # 0
    OBVIOUS
  <2>1. ~Bootstrap /\ \A m \in Nodes : ~Wipe(m)
    <3>1. pc # "bootstrap" /\ \A m \in Nodes : job[m] = "none"
      BY DEF DeadInv, Ended
    <3> QED
      BY <3>1 DEF Bootstrap, Wipe
  <2>2. ASSUME NEW m \in Nodes, Join(m) PROVE data'[n] # 0
    BY <2>2 DEF Join, Alive, TypeOK
  <2>3. ASSUME NEW m \in Nodes,
               ReadState(m) \/ AskVersion(m) \/ JobReturns(m) \/ Boot(m) \/ Crash(m)
        PROVE  data' = data
    BY <2>3 DEF ReadState, AskVersion, JobReturns, Boot, Crash, nodes
  <2>4. ASSUME CheckSnapshot \/ Decide \/ StartWipes \/ SkipWipes \/ WaitReturns
               \/ Abort \/ Rerun \/ DeadlinePasses
        PROVE  data' = data
    BY <2>4 DEF CheckSnapshot, Decide, StartWipes, SkipWipes, WaitReturns, Abort,
       Rerun, DeadlinePasses, nodes
  <2>5. CASE UNCHANGED vars
    BY <2>5 DEF vars, nodes
  <2> QED
    BY <2>1, <2>2, <2>3, <2>4, <2>5 DEF Next, Script, Operator, Machines
<1> QED
  BY <1>1, <1>2, <1>3, TypeCorrect, PTL DEF Spec, DeadNodeStopsTheWipe

=============================================================================
