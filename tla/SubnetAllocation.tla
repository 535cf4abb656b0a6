-------------------------- MODULE SubnetAllocation --------------------------
(***************************************************************************)
(* The address arithmetic of the etcd manager: CheckNetworkConfig, the     *)
(* scan of allocateSubnet, the reuse of an own lease or of the subnet in   *)
(* subnet.env, and the two written forms of a subnet (the etcd key and the *)
(* file).  AcquireLease is one step here; its interleavings are in         *)
(* SubnetLease, where a subnet is an opaque value.                         *)
(*                                                                         *)
(* An address has Width bits (32 and 128 in the code).  IP4 is a uint32    *)
(* and wraps; IP6 is a big.Int and does not.  IPv4 is always enabled.      *)
(***************************************************************************)
EXTENDS Integers, FiniteSets

CONSTANTS
  Width,       \* bits of an address
  DefaultLen,  \* the default SubnetLen of a large network: 24 and 64
  MaxAvail,    \* the scan stops at so many free subnets: 100
  Hosts,
  Configs,     \* what the operator may write to etcd
  Drafts       \* settings of one family to check CheckNetworkConfig with

VARIABLES
  config,      \* the configuration in etcd: [v4, v6], v6 = Off when disabled
  leases,      \* the lease of each host in etcd, [sn, sn6], or NoLease
  file         \* FLANNEL_SUBNET and FLANNEL_IPV6_SUBNET of each host

vars == <<config, leases, file>>

Size(len) == 2 ^ (Width - len)
Wrap(a) == a % 2 ^ Width
Mask(a, len) == a - (a % Size(len))

\* IP4Net and IP6Net. Empty is the zero value.
Net(ip, len) == [ip |-> ip, len |-> len]
Empty == Net(0, 0)
Lease(sn, sn6) == [sn |-> sn, sn6 |-> sn6]
NoLease == Lease(Empty, Empty)
Off == [net |-> Empty, len |-> 0, min |-> 0, max |-> 0]
Addresses(n) == n.ip .. (n.ip + Size(n.len) - 1)

ASSUME WidthAssumption ==
  /\ Width \in Nat /\ DefaultLen \in 2 .. Width - 2 /\ MaxAvail \in Nat \ {0}
  /\ Drafts \subseteq [net : [ip : 0 .. 2 ^ Width - 1, len : 0 .. Width], len : Nat,
                      min : 0 .. 2 ^ Width - 1, max : 0 .. 2 ^ Width - 1]
  /\ \A c \in Drafts : c.net.ip = Mask(c.net.ip, c.net.len)
  /\ Configs \subseteq [v4 : Drafts, v6 : Drafts \cup {Off}]

\* What defines ^, of which the provers know nothing.
ASSUME PowerAssumption == \A n \in 0 .. Width - 1 : 2 ^ (n + 1) = 2 * 2 ^ n

-----------------------------------------------------------------------------
(* pkg/ip *)

\* The mask of the longer prefix.
overlapsLonger(m, n) ==
  LET len == IF m.len < n.len THEN n.len ELSE m.len
  IN  Mask(m.ip, len) = Mask(n.ip, len)

Overlaps(m, n) ==
  LET len == IF m.len < n.len THEN m.len ELSE n.len
  IN  Mask(m.ip, len) = Mask(n.ip, len)

Contains(n, a) == Mask(n.ip, n.len) = Mask(a, n.len)

-----------------------------------------------------------------------------
(* CheckNetworkConfig: one family. 0 stands for a setting that is absent.  *)

SubnetLen(c) ==
  IF c.len > 0 THEN c.len
  ELSE IF c.net.len <= DefaultLen - 2 THEN DefaultLen ELSE c.net.len + 2

\* The first subnet conflicts with the network address and is skipped.
SubnetMin(c) == IF c.min = 0 THEN c.net.ip + Size(SubnetLen(c)) ELSE c.min

\* Network.Next().IP wraps to 0 for the last IPv4 network, and back here.
SubnetMax(c) ==
  IF c.max = 0 THEN Wrap(Wrap(c.net.ip + Size(c.net.len)) - Size(SubnetLen(c)))
  ELSE c.max

\* The network may hold two subnets only.
acceptsTwo(c) ==
  /\ c.net # Empty
  /\ IF c.len > 0 THEN c.len <= Width - 2 /\ c.len >= c.net.len + 1
     ELSE c.net.len <= Width - 4
  /\ c.min # 0 => Contains(c.net, c.min)
  /\ c.max # 0 => Contains(c.net, c.max)
  /\ \A a \in {SubnetMin(c), SubnetMax(c)} : a = Mask(a, SubnetLen(c))

Accepts(c) ==
  /\ c.net # Empty
  /\ IF c.len > 0 THEN c.len <= Width - 2 /\ c.len >= c.net.len + 2
     ELSE c.net.len <= Width - 4
  /\ c.min # 0 => Contains(c.net, c.min)
  /\ c.max # 0 => Contains(c.net, c.max)
  /\ \A a \in {SubnetMin(c), SubnetMax(c)} : a = Mask(a, SubnetLen(c))

Valid(cf) == Accepts(cf.v4) /\ (cf.v6 # Off => Accepts(cf.v6))

-----------------------------------------------------------------------------
(* allocateSubnet *)

\* The IPv4 scan runs past SubnetMax when the next address wraps to 0, and
\* then visits every address.
Wraps(c) == SubnetMax(c) + Size(SubnetLen(c)) = 2 ^ Width

\* The subnets the loop visits.
Scan(c, wraps) ==
  LET size == Size(SubnetLen(c))
      last == IF wraps THEN 2 ^ Width - 1 ELSE SubnetMax(c)
  IN  {Net(a, SubnetLen(c)) :
         a \in {b \in (IF wraps THEN 0 ELSE SubnetMin(c)) .. last :
                  Wrap(b - SubnetMin(c)) % size = 0}}

\* The scan ends at the first subnet that is taken.
availableBeforeTaken(c, taken, wraps) ==
  {n \in Scan(c, wraps) :
     \A m \in Scan(c, wraps) : m.ip <= n.ip => \A t \in taken : ~Overlaps(m, t)}

\* The first MaxAvail free ones, in the order of the visit.
Available(c, taken, wraps) ==
  LET free == {n \in Scan(c, wraps) : \A t \in taken : ~Overlaps(n, t)}
      Before(m, n) == Wrap(m.ip - SubnetMin(c)) < Wrap(n.ip - SubnetMin(c))
  IN  {n \in free : Cardinality({m \in free : Before(m, n)}) < MaxAvail}

-----------------------------------------------------------------------------
(* The written forms of a lease *)

\* The file holds the first usable address; ParseCIDR masks it off again.
Incremented(n) == IF n = Empty THEN Empty ELSE Net(n.ip + 1, n.len)
WriteSubnetFile(l) == Lease(Incremented(l.sn), Incremented(l.sn6))

ReadSubnetFile(f) ==
  Lease(Net(Mask(f.sn.ip, f.sn.len), f.sn.len),
        Net(Mask(f.sn6.ip, f.sn6.len), f.sn6.len))

-----------------------------------------------------------------------------
(* tryAcquireLease *)

InRange(c, n) ==
  /\ n.ip >= SubnetMin(c) /\ n.ip <= SubnetMax(c)
  /\ n.len = SubnetLen(c)

\* The range is not compared.
compatibleLength(cf, l) ==
  /\ l.sn.len = SubnetLen(cf.v4)
  /\ IF cf.v6 = Off THEN l.sn6 = Empty ELSE l.sn6 # Empty /\ InRange(cf.v6, l.sn6)

\* isSubnetConfigCompat and isIPv6SubnetConfigCompat
Compatible(cf, l) ==
  /\ InRange(cf.v4, l.sn)
  /\ IF cf.v6 = Off THEN l.sn6 = Empty ELSE l.sn6 # Empty /\ InRange(cf.v6, l.sn6)

\* ParseSubnetKey reads a length into 5 bits, for IPv6 7: one below Width.
ParseSubnetKey(l) == l.sn.len < Width /\ l.sn6.len < Width

\* getSubnets; it is read before an incompatible own lease is deleted.
Listed == {l \in {leases[g] : g \in Hosts} \ {NoLease} : ParseSubnetKey(l)}

\* The listing is not consulted.
previousUnchecked(h) ==
  LET prev == ReadSubnetFile(file[h])
  IN  {l \in {prev} : l.sn # Empty /\ Compatible(config, l)}

\* The subnet of the last run. Only its IPv4 half is looked for in the listing.
PreviousSubnet(h) ==
  LET prev == ReadSubnetFile(file[h])
  IN  {l \in {prev} : /\ l.sn # Empty
                      /\ \A t \in Listed : t.sn # l.sn
                      /\ Compatible(config, l)}

\* With IPv6 enabled a listed lease without IPv6 has a nil address, and
\* Overlaps panics.
Mixed == config.v6 # Off /\ \E t \in Listed : t.sn6 = Empty

AllocateSubnet ==
  LET four == Available(config.v4, {t.sn : t \in Listed}, Wraps(config.v4))
      six == IF config.v6 = Off THEN {Empty}
             ELSE Available(config.v6, {t.sn6 : t \in Listed}, FALSE)
  IN  IF Mixed THEN {} ELSE [sn : four, sn6 : six]

Choices(h) ==
  IF PreviousSubnet(h) # {} THEN PreviousSubnet(h) ELSE AllocateSubnet

Owned(h) == leases[h] \in Listed /\ Compatible(config, leases[h])

-----------------------------------------------------------------------------
Init ==
  /\ config \in Configs
  /\ leases = [h \in Hosts |-> NoLease]
  /\ file = [h \in Hosts |-> NoLease]

\* The own lease is found and renewed.
Reuse(h) ==
  /\ Valid(config) /\ Owned(h)
  /\ file' = [file EXCEPT ![h] = WriteSubnetFile(leases[h])]
  /\ UNCHANGED <<config, leases>>

\* No lease, or one the configuration no longer allows: it is deleted. The transaction of
\* createSubnet requires that the key is not there.
Create(h) ==
  /\ Valid(config) /\ ~Owned(h)
  /\ \E l \in Choices(h) \ {leases[g] : g \in Hosts \ {h}} :
       /\ leases' = [leases EXCEPT ![h] = l]
       /\ file' = [file EXCEPT ![h] = WriteSubnetFile(l)]
  /\ UNCHANGED config

\* "out of subnets", the panic, or the scan that wraps and never ends.
Fail(h) ==
  /\ Valid(config) /\ ~Owned(h)
  /\ Choices(h) = {}
  /\ leases' = [leases EXCEPT ![h] = NoLease]
  /\ UNCHANGED <<config, file>>

\* The TTL of a host that is down passes.
Expire(h) ==
  /\ leases[h] # NoLease
  /\ leases' = [leases EXCEPT ![h] = NoLease]
  /\ UNCHANGED <<config, file>>

Reconfigure ==
  /\ config' \in Configs \ {config}
  /\ UNCHANGED <<leases, file>>

Next ==
  \/ \E h \in Hosts : Reuse(h) \/ Create(h) \/ Fail(h) \/ Expire(h)
  \/ Reconfigure

Spec == Init /\ [][Next]_vars

-----------------------------------------------------------------------------
(* Properties *)

Disjoint(m, n) == Addresses(m) \cap Addresses(n) = {}

\* Whatever the order of acquisitions, expiries and changes of the network
\* and its range, two IPv4 leases of the same SubnetLen share no address: a
\* subnet remembered in subnet.env is not taken back from its new owner.
EqualLengthsDisjoint ==
  \A g, h \in Hosts :
    (g # h /\ Empty \notin {leases[g].sn, leases[h].sn}
     /\ leases[g].sn.len = leases[h].sn.len)
      => Disjoint(leases[g].sn, leases[h].sn)

\* A subnet that allocateSubnet picks shares no address, in either family,
\* with any lease in etcd, also when that lease has the length of an older
\* configuration.
FreshIsFree ==
  [][\A h \in Hosts :
       (leases'[h] \notin {leases[h], NoLease, ReadSubnetFile(file[h])}) =>
         \A g \in Hosts \ {h} :
           /\ leases[g].sn # Empty => Disjoint(leases'[h].sn, leases[g].sn)
           /\ (leases[g].sn6 # Empty /\ leases'[h].sn6 # Empty)
                => Disjoint(leases'[h].sn6, leases[g].sn6)]_vars

\* Every address of a lease that is taken belongs to the configured
\* network, unless the IPv4 range ends with the last address there is.
InsideNetwork ==
  [][\A h \in Hosts :
       (leases'[h] \notin {leases[h], NoLease} /\ ~Wraps(config.v4)) =>
         /\ Addresses(leases'[h].sn) \subseteq Addresses(config.v4.net)
         /\ leases'[h].sn6 # Empty =>
              Addresses(leases'[h].sn6) \subseteq Addresses(config.v6.net)]_vars

\* AcquireLease reports "out of subnets" only when there is none: if some
\* subnet between SubnetMin and SubnetMax is clear of all leases in each
\* family, the host gets one.
FoundIfFree ==
  LET Clear(c, taken) ==
        \E a \in SubnetMin(c) .. SubnetMax(c) :
          /\ a = Mask(a, SubnetLen(c))
          /\ \A t \in taken : Disjoint(Net(a, SubnetLen(c)), t)
  IN  \A h \in Hosts :
        (/\ Valid(config) /\ ~Mixed
         /\ Clear(config.v4, {t.sn : t \in Listed})
         /\ config.v6 # Off => Clear(config.v6, {t.sn6 : t \in Listed}))
          => Choices(h) # {}

\* Before it wraps, the scan visits the subnets from SubnetMin on.
RangeSound(c, wraps) ==
  Accepts(c) =>
    LET whole == {n \in {Net(a, SubnetLen(c)) : a \in Addresses(c.net)} :
                    n.ip = Mask(n.ip, n.len)}
        first == {n \in Scan(c, wraps) : n.ip >= SubnetMin(c)}
    IN  /\ \A n \in first : Addresses(n) \subseteq Addresses(c.net)
        /\ wraps \/ first = Scan(c, wraps)
        /\ (c.min = 0 /\ c.max = 0) =>
             /\ first = {n \in whole : n.ip # c.net.ip}
             /\ Cardinality(first) >= 3
DraftsSound == \A c \in Drafts : RangeSound(c, FALSE) /\ RangeSound(c, Wraps(c))

\* What CheckNetworkConfig accepts, of all drafts and of the configurations in
\* etcd, is scanned within the network, and with the defaults the scan covers
\* every subnet but the first: at least three. Of the IPv4 scan of a range
\* that ends with the last address there is, which wraps and leaves the network,
\* this is said of the subnets from SubnetMin on.
ConfigSound ==
  DraftsSound /\ RangeSound(config.v4, Wraps(config.v4)) /\ RangeSound(config.v6, FALSE)
=============================================================================
