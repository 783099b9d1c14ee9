---------------------------- MODULE MCBackupTier ----------------------------
EXTENDS BackupTier, TLC

Operators == Permutations(Machines)

\* Uploads by two operators on a tier nobody touches, and one upload after
\* another on a tier that is applied, destroyed and applied again.
Still == [tier |-> "applied", taken |-> 2, uploads |-> 3, downloads |-> 1, losses |-> 1,
          eras |-> 2, changes |-> 1, kits |-> 0]
Moving(start, moves, ups, downs) ==
    [tier |-> start, taken |-> 1, uploads |-> ups, downloads |-> downs, losses |-> 0,
     eras |-> 1, changes |-> moves + 1, kits |-> 1]

MCWorlds == {Still, Moving("none", 4, 1, 0), Moving("applied", 3, 2, 0), Moving("legacy", 2, 2, 1)}
=============================================================================
