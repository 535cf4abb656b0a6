---------------------------- MODULE MCMeshRoutes ----------------------------
\* Two other nodes, and two subnets this node may hold.
EXTENDS MeshRoutes

CONSTANTS n1, n2, l1, l2
TwoNets == {n1, n2}
TwoLocals == {l1, l2}
=============================================================================
