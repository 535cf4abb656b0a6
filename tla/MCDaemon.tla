------------------------------ MODULE MCDaemon ------------------------------
\* flanneld for TLC: the bounds are in the configurations.
EXTENDS Daemon
=============================================================================
