-------------------------- MODULE MCTopologyManager --------------------------
EXTENDS TopologyManager

MCNodes == {-1, 0, 1}
=============================================================================
