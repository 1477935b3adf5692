---------------------------- MODULE MCPortConfig ----------------------------
EXTENDS PortConfig

\* The ends of the range of VLAN IDs, and their neighbours.
MCVlans == {-1, 0, 4095, 4096}
=============================================================================
