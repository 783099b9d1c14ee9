----------------------------- MODULE MCOrphans -----------------------------
EXTENDS Orphans

CONSTANTS v1, b1, s1, o1, mine, infra, layer

\* The infra stack makes the server, a layer's stack the other thing.
MCClusterOf == [r \in {v1, b1, s1} |-> mine]
MCStackOf == [r \in {s1, o1} |-> IF r = o1 THEN layer ELSE infra]
\* Tiers before layers.
MCDirs == <<infra, layer>>
=============================================================================
