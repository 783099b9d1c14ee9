-------------------------- MODULE MCRollingUpgrade --------------------------
EXTENDS RollingUpgrade, TLC

\* Versions in the order they are pinned in.
MCVersions == 1..2
=============================================================================
