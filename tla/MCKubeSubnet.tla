---------------------------- MODULE MCKubeSubnet ----------------------------
\* Small clusters for the Kubernetes subnet manager.
EXTENDS KubeSubnet

CONSTANTS own, p, a, b

OwnOf == [f \in {4, 6} |-> a]
CidrOf == [n \in Nodes |-> <<"cidr", n>>]
=============================================================================
