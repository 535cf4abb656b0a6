---------------------------- MODULE MCLeaseWatch ----------------------------
(***************************************************************************)
(* LeaseWatch for the model checker: this host's subnet and two others.    *)
(***************************************************************************)
EXTENDS LeaseWatch

CONSTANTS own, p, q

HostKeys == {own, p, q}
=============================================================================
