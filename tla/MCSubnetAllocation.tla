------------------------ MODULE MCSubnetAllocation ------------------------
(* An instance of SubnetAllocation for TLC: addresses of six bits. *)
EXTENDS SubnetAllocation, TLC
CONSTANTS h1, h2, h3

\* Every network of at least four addresses, every SubnetLen, and ranges with
\* bounds inside and outside of the network, aligned or not.
SixBits ==
  {[net |-> Net(ip, nl), len |-> l, min |-> a, max |-> b] :
     <<ip, nl>> \in {p \in (0 .. 63) \X (0 .. 4) : p[1] = Mask(p[1], p[2])},
     l \in 0 .. 6, a \in {0, 8, 12, 16, 22, 52}, b \in {0, 12, 16, 24, 60}}

Setting(ip, nl, l, a, b) ==
  [net |-> Net(ip, nl), len |-> l, min |-> a, max |-> b]
Low == Setting(0, 1, 0, 0, 0)        \* 8, 16 and 24, of length 3
LowRange == Setting(0, 1, 0, 16, 24) \* the same lengths, a narrower range
Short == Setting(0, 1, 4, 8, 12)     \* 8 and 12, of length 4
Last == Setting(48, 2, 0, 0, 0)      \* 52, 56 and 60, then the end of the space
Unaligned == Setting(0, 1, 3, 12, 0) \* rejected

SixConfigs ==
  {[v4 |-> Low, v6 |-> Off], [v4 |-> LowRange, v6 |-> Off],
   [v4 |-> Short, v6 |-> Off], [v4 |-> Low, v6 |-> Last],
   [v4 |-> Last, v6 |-> Off], [v4 |-> Unaligned, v6 |-> Off]}

HostSymmetry == Permutations(Hosts)
=============================================================================
