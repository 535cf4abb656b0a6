----------------------------- MODULE MCTraffic ------------------------------
\* One network of two subnets, the node leases one and then perhaps the other.
EXTENDS Traffic

TwoLeases == {[net |-> {"a", "b"}, sub |-> {"a"}], [net |-> {"a", "b"}, sub |-> {"b"}]}
=============================================================================
