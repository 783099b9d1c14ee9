--------------------------- MODULE MCSmokeStorage ---------------------------
EXTENDS SmokeStorage

\* The two classes layers/10-node-platform registers.
Deleting  == [late |-> TRUE, reclaim |-> "Delete"]
Retaining == [late |-> TRUE, reclaim |-> "Retain"]

Quiet == [classes |-> {Deleting, Retaining}, overlap |-> FALSE, kills |-> 0, faults |-> 0]

JustQuiet == {Quiet}
=============================================================================
