-------------------------- MODULE MCSubnetLease --------------------------
(* Instances of SubnetLease for TLC. *)
EXTENDS SubnetLease, TLC
CONSTANTS n1, n2, s1, s2

\* IPv4 only, one SubnetLen: distinct keys are disjoint subnets.
SingleV4 == [s \in Subnets |-> s]
SingleConflicts == {<<s, s>> : s \in Subnets}
OneConfig == {Subnets}
\* The operator moves SubnetMin/SubnetMax: one key stays valid, one does not.
TwoConfigs == {{s1, s2}, {s2}}

NodeSymmetry == Permutations(Nodes)
=============================================================================
