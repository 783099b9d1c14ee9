------------------------ MODULE ControlPlaneHistory ------------------------
(***************************************************************************)
(* What restoring a control plane promises about the data its members hold, *)
(* with none of the machinery that gets there: a member may lose its data,  *)
(* a member with none may take over another's, and a new history begins     *)
(* only where no member holds an old one.                                   *)
(***************************************************************************)
EXTENDS Naturals

CONSTANTS Nodes, First

VARIABLES data, epoch

Init == data \in [Nodes -> {0, 1}] /\ epoch = 1

Lose(n) == data' = [data EXCEPT ![n] = 0] /\ UNCHANGED epoch

Adopt(n) ==
    /\ data[n] = 0
    /\ \E m \in Nodes : data[m] # 0 /\ data' = [data EXCEPT ![n] = data[m]]
    /\ UNCHANGED epoch

Restore ==
    /\ \A n \in Nodes : data[n] = 0
    /\ epoch' = epoch + 1
    /\ data' = [data EXCEPT ![First] = epoch + 1]

Next == Restore \/ \E n \in Nodes : Lose(n) \/ Adopt(n)

Spec == Init /\ [][Next]_<<data, epoch>>
============================================================================
