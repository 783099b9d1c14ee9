--------------------------- MODULE MCEtcdRestore ---------------------------
EXTENDS EtcdRestore

CONSTANTS ours, theirs, nobody

\* One file that may be restored, one of each kind that may not.
Good    == [pages |-> TRUE, buckets |-> TRUE, index |-> TRUE, members |-> {ours, nobody}]
Foreign == [Good EXCEPT !.members = {ours, theirs}]
Damaged == [Good EXCEPT !.pages = FALSE]
Nameless == [Good EXCEPT !.members = {nobody}]

MCClusters == {ours, theirs}
MCSnapshots == {Good, Foreign, Damaged, Nameless}
OnlyGood == {Good}
============================================================================
