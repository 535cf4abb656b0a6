--------------------------- MODULE MCMeshOperator ---------------------------
\* Two nodes of one cluster, and another cluster of the same account.
EXTENDS MeshOperator

CONSTANTS n1, n2
TwoNodes == {n1, n2}
Prod == <<"prod">>
Test == <<"test">>
=============================================================================
