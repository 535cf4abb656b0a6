------------------------------ MODULE MCVxlan -------------------------------
\* Two subnets that two nodes lease in turn, for TLC.
EXTENDS Vxlan

CONSTANTS s1, s2, n1, n2

TheAttrs == {<<n1, 0>>, <<n1, 1>>, <<n2, 0>>}
=============================================================================
