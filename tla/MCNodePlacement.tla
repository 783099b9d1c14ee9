--------------------------- MODULE MCNodePlacement ---------------------------
(* Files of at most two pools in either order, pinned or not, one-pool     *)
(* files of several sizes, files whose names clash, and files that only    *)
(* differ in the control plane.                                            *)
EXTENDS NodePlacement

CONSTANTS a, b, Counts, Slots, ControlPlanes

Pools1(n, counts) == [name : {n}, count : counts, slot : Slots]
Clashing == {<<p, q>> : p \in Pools1(a, {1}) \cup Pools1(ControlPlane, {1}),
                        q \in [name : {a}, count : {1}, slot : {Unpinned}]}
Files == [controlPlanes : ControlPlanes, pools : {<<>>}]
         \cup [controlPlanes : {1},
               pools : Clashing
                       \cup {<<p>> : p \in Pools1(a, Counts) \cup Pools1(b, {1})}
                       \cup {<<p, q>> : p \in Pools1(a, {1}), q \in Pools1(b, {1})}
                       \cup {<<q, p>> : p \in Pools1(a, {1}), q \in Pools1(b, {1})}]
=============================================================================
