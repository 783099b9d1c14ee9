---------------------------- MODULE EtcdSnapshot ----------------------------
(***************************************************************************)
(* What `tools/etcd verify --cluster <name> <snapshot>` decides about an    *)
(* etcd snapshot file.  A member is represented by the cluster its node     *)
(* name carries: "<cluster>-control-plane-<ordinal>" becomes <cluster>, a   *)
(* name of any other shape becomes a cluster of nobody's.                   *)
(***************************************************************************)
CONSTANTS
    Clusters,    \* cluster names a stored member name can carry
    Cluster,     \* the cluster the operator works on
    Unnamed      \* a member that was added and never started: no name yet

ASSUME ClusterAssumption == Cluster \in Clusters /\ Unnamed \notin Clusters

\* The facts of a file the verdict depends on.
Snapshot == [ pages   : BOOLEAN,     \* every page passes bbolt's check
              buckets : BOOLEAN,     \* the buckets of an etcd database exist
              index   : BOOLEAN,     \* consistent_index is eight bytes
              members : SUBSET (Clusters \union {Unnamed}) ]

\* `inspect`: the named members of a readable etcd database.
Members(s) == s.members \ {Unnamed}

Inspected(s) == s.pages /\ s.buckets /\ s.index

\* `belongsTo`: every named member, and at least one, is this cluster's.
BelongsTo(s) == Members(s) # {} /\ Members(s) \subseteq {Cluster}

Verify(s) == Inspected(s) /\ BelongsTo(s)
=============================================================================
