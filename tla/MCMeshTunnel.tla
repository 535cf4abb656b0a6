---------------------------- MODULE MCMeshTunnel ----------------------------
\* A queue of one packet and the smallest pool that goes with it.
EXTENDS MeshTunnel

CONSTANTS b1, b2, b3
ThreeBuffers == {b1, b2, b3}
=============================================================================
