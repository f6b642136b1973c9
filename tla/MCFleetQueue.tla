--------------------------- MODULE MCFleetQueue ---------------------------
EXTENDS FleetQueue, TLC

\* A P2 build, a P1 build, then P2 builds again.
MCRank == [p \in Job |-> IF p = 2 THEN 1 ELSE 2]
=============================================================================
