---------------------------- MODULE MCEtcdBackup ----------------------------
EXTENDS EtcdBackup, TLC

Operators == Permutations(Machines)
=============================================================================
