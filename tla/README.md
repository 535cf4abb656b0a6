# A TLA+ verification project for flannel

This directory holds TLA+ models of flannel, the TLC configurations that check
them on small instances, and TLAPS proofs of the results that hold for every
instance. Paths are relative to the repository root. `PROJECT.json` lists the
components, the runs, the mutants that show each property can fail, the source
lines every definition stands for, the hazards and the theorems.

To repeat a run: `tlc -config MCRoutes.cfg MCRouteNetwork`; to repeat the
proofs: `tlapm Vxlan_proofs.tla`.

## The system

One `flanneld` runs per host. It takes a subnet lease for the host, writes
`subnet.env`, programs the kernel so that packets reach the other hosts'
subnets, and keeps following the leases of the others.

| Part | Source | State and concurrency | Model |
|---|---|---|---|
| Daemon | `main.go` | start-up steps, signal handler, health server, wait group, context | `Daemon` |
| etcd manager, own lease | `pkg/subnet/etcd` | the registry shared by all hosts, renewal timer, watch of the own key | `SubnetLease` |
| etcd manager, all leases | `pkg/subnet/etcd`, `pkg/subnet/subnet.go`, `pkg/lease` | history, compaction, three goroutines in a pipeline | `LeaseWatch`, `LeaseView` |
| Kubernetes manager | `pkg/subnet/kube` | informer store, bounded channel, asynchronous senders | `KubeSubnet` |
| Route backends | `pkg/backend/route_network.go` (host-gw, ipip) | route list and kernel table, event handler and periodic check | `RouteNetwork` |
| vxlan | `pkg/backend/vxlan` | device, neighbours, FDB and routes per peer; the device is recreated at run time | `Vxlan` |
| wireguard, ipsec, udp | `pkg/backend/*` | per-peer state in the kernel or another process | shutdown of wireguard in `Daemon`, else not modelled |
| Traffic managers | `pkg/trafficmngr` | rule lists, goroutines that resynchronise them | `Traffic` |
| Cloudflare mesh backend | `pkg/backend/cloudflaremesh` | route synchroniser; MASQUE transport with reader, buffer pool and sessions | `MeshRoutes`, `MeshTunnel` |
| Cloudflare mesh operator | `pkg/cloudflaremeshoperator` | reconciliation over two APIs, garbage collection | `MeshOperator` |
| Address arithmetic, configuration, subnet file | `pkg/ip`, `pkg/subnet` | pure | `SubnetAllocation` |
| Interface selection, helpers, Windows variants, alloc, extension, tencent-vpc | | sequential wrappers of system calls | not modelled |

The subnet manager delivers events to the backend through the pipeline
`sm.WatchLeases -> subnet.WatchLeases -> bn.Run`. `LeaseWatch` has the contents
of this pipeline, `Daemon` its life cycle: who is blocked on which channel, who
closes it. `Vxlan`, `RouteNetwork` and `MeshRoutes` are three backends at its end.
`SubnetLease` is the protocol of many hosts with opaque subnets,
`SubnetAllocation` the arithmetic below it with AcquireLease as one step.
`MeshOperator` has the operator and every node's enrolment; the other modules are
about one host, with the other hosts as environment.

## The modules

### SubnetLease: acquiring and keeping a subnet in etcd

`kv` and `config` are what etcd holds; every call to etcd is one step. The
daemon of a node goes from `down` through `list` (AcquireLease has the
configuration), `decide` (getSubnets has returned), possibly `create` (an
incompatible lease was deleted) to `acquired`, and after HandleSubnetFile to
`monitor` (CompleteLease). `unmonitored` is a daemon whose CompleteLease has
returned errCanceled while main goes on. `seen` is the listing the node decides
by, `wake` the renewal timer, `evts` the queue of its own-lease watch.

The clock counts the one-minute retry delay of CompleteLease. `Faults` selects
what the environment does: calls slower than a unit, failing TimeToLive calls (of a
listing, `ttlError`, and of a watch event, `eventTTL`), Puts applied although their
caller gets an error, a first watch read that fails, compaction, an operator who
deletes a key or turns it into a reservation. An event whose TimeToLive fails stays in
the queue as `logged` and is passed over by EventLogged.

A key is one opaque subnet, or a pair of subnets in dual stack; `Conflicts` says
which keys overlap. Which free subnet allocateSubnet draws is a choice.

### LeaseWatch and LeaseView: following all leases

`hist` is the history of etcd revisions, `compacted` the horizon. The producer
lists, watches from `since`, and lists again when etcd answers ErrCompacted. The
differ is `LeaseWatcher` with Reset for a snapshot and Update for an event.
`view` is what the backend has been told.

`LeaseView` is the promise: the backend's view is the registry at some revision,
without the own lease, and the revision never goes back. `PrefixView` says that
LeaseWatch implements it, with `applied <- viewRev`.

### KubeSubnet: following all leases through the API server

The informer's store, the deltas it has not handled, the three handlers, the
channel of `Depth` events, up to `Slots` asynchronous senders, and the handler
that blocks on their semaphore. Start-up is part of it because nobody reads the
channel before AcquireLease is done: `starting`, `acquire`, `watching`, and
`failed` (the API server refused) or `exited` (the timeout without
CONT_WHEN_CACHE_NOT_READY, or no own node in the store).

### Daemon: start-up, goroutines, shutdown

main's steps in order with each of their exits, the signal handler, the health
server, the backend's Run and the four goroutines of the two pipelines. `backend`
distinguishes the three ways a Run ends: when its channel is closed (`routes`;
vxlan, ipsec and udp do the same), when the context is done (`wireguard`), or on
either (`mesh`). A send on
an unbuffered channel is a step of both ends. `closed` is the set of closed
channels; closing twice and sending on a closed channel end the process with a
panic, recorded in `code`.

### RouteNetwork: the route list of host-gw and ipip

The event handler and routeCheck run in two goroutines without a lock. The list
is a Go slice: `arr` is the backing array, `len` the handler's length.
removeFromRouteList shifts the array in place, so the check, which captured its
own length, may skip or repeat an element; this is modelled as it is. `kernel`
maps a destination to the gateway of its route. Each netlink call is a step.

### Vxlan: peers and device of the vxlan backend

Registration, then three kinds of goroutine: `handler` makes the calls of
handleSubnetEvents one by one with their retries and rollbacks, watchVXLANDevice
subscribes (`sub`) and then signals a deleted device, and each `rec` is a reCreateVxlan.
Devices have an index; a call with an old index fails, and entries go with their device.
Reading the stored MAC may fail, and the device then gets another one. Five history
variables: `done` is the lease whose calls were all made on the present device, and
`shared`, `unread`, `missed` and `overtaken` mark the cases in which the code does not
keep what the properties say.

### Traffic: iptables and nftables

A chain is a sequence of rules, a rule the zones and the mark it matches. main sets
the rules up, two workers check and rebuild them call by call (each check may be
stale when the restore is built from it), other programs delete rules, and restarts
change the lease or the rule manager. `Verdict` and `Accepted` say what the rules do
to a packet; the properties are about packets, not about rule texts.

### MeshRoutes: the route synchroniser of the mesh

Routes, policy rules and SNAT rules as sets, one call per step; `feed` is the pipeline
of lease events; a prune plan is made from one listing and carried out later. Failed
calls, crashes that leave the host's state behind, and an external flush.

### MeshTunnel: the MASQUE transport

The TUN reader, the pool of packet buffers, the queue between reader and session, the
supervisor that dials and backs off, the two pumps of a session, and Close. What a
packet or a QUIC message says is left out.

### MeshOperator: reconciliation and enrolment

`op` is one reconcile, call by call, working from the snapshot it listed; `fl[n]` is
flanneld on n enrolling, saving and publishing. Connectors, registrations and
routes are the Cloudflare side; Secrets, annotations and NodeHosts the Kubernetes
side. Any call may fail and the operator or a flanneld may crash between two. The mode of
the registration collection (off, dryrun, on) is chosen at the start; the operator is one
that publishes NodeHosts. A route's comment carries its cluster, and another cluster has
a connector, a route and a registration of its own.

### SubnetAllocation: arithmetic, configuration, subnet.env

Addresses have `Width` bits and wrap. CheckNetworkConfig with its defaults, the scan of
allocateSubnet, the reuse of the own or the remembered subnet, and the round trip
through `subnet.env`. Create picks a subnet no other host has, as the transaction of
createSubnet demands. `Drafts` are configurations checked exhaustively.

## Runs

| Run | Question | Answer |
|---|---|---|
| `lease_safety` | Do racing, restarting and renewing hosts keep disjoint, unexpired leases of their own, one key each, and get a compatible subnet back? | holds |
| `lease_faults` | With every fault on, does the own-lease watch keep the last change of its key that can be read, and every removal, and does a daemon whose key is gone stop? | holds |
| `watch_compaction` | Does the backend's view follow the history through reconnects and compactions? | holds for the set of peers, which converges (see the bounds) |
| `kube` | Do the peers converge while the channel overflows and the watch relists, and does start-up end? | holds |
| `daemon` | Does every goroutine end after cancel, with each kind of backend, and are channels closed once? | holds, but for the cases the properties name (below) |
| `routes` | Is the route of every current lease listed and recovered? | holds for leases that keep their gateway |
| `vxlan` | Do handled peers stay reachable under failing calls and rollbacks, are routes last, does a deleted device come back with its MAC? | holds, but for the four cases of the history variables (below) |
| `traffic` | Do interleaved checks and restores, other programs and restarts never duplicate a rule nor NAT overlay traffic, and do the rules settle? | holds |
| `mesh_routes` | Does the host's state converge to the leases, is no leased route pruned, is a clean stop clean? | holds |
| `mesh_operator` | Does the operator never collect what a listed or enrolling node needs, and does everything converge without touching another cluster? | holds, unless the state is one the operator cannot repair (`Sound`) |
| `mesh_tunnel` | Has every buffer one owner, does the reader always find one, does Close end everything, are sessions replaced? | holds |
| `subnet_allocation` | Are subnets disjoint and inside the network, is a free one always found, are accepted configurations scanned in bounds? | holds for the cases the properties name |

No run is expected to fail. Where the code does something a property would exclude, the
property's statement or the run's faults leave the case out, and the section "What the
models show beyond the runs" says so.

### Bounds

- `lease_safety`: two hosts, two subnets, two configurations of which one drops
  a subnet; TTL 3, margin 2, six instants. Two hosts are what a race takes; six
  instants hold an acquisition, an expiry and a second acquisition; one failed
  renewal is what the margin must absorb. TimeToLive of an event may fail.
  `lease_faults` has one contended subnet, all faults, TTL 2, margin 1 and three
  instants: a lease can expire and be taken by the other host.
- `watch_compaction`: three keys and four revisions, so a key can be written,
  removed and written again while the watch is down, and two compactions happen.
  There is one attribute value: the run is about which subnets the backend knows.
  With two values PrefixView and Converges fail, because Reset ignores a known
  subnet whose attributes changed during a compaction (`pkg/lease/lease.go:119`).
- `kube`: one peer, three changes, a channel and a semaphore of one, so a third
  event blocks the informer; the code has 5000 events (EVENT_QUEUE_DEPTH) and 100
  senders.
- `daemon`: three changes of the leases, so each stage of a pipeline can hold one.
- `routes`: two destinations, two gateways, three events, one lost route. Two
  listed routes are the least for which a removal shifts the array under the
  check.
- `vxlan`: both families; three inputs, each a lease event or a deletion of a device, so
  that one is handled while another's calls failed and a device is deleted while it is
  made anew; one failing call.
- `traffic`: two restarts, so that lease and rule manager change and change back, and
  one fault (a failing call or another program's edit). Also passed with one restart and
  two faults (301,782 states).
- `mesh_routes`: two remote subnets and two own ones; one change of leases, one failed
  call, one flush and two stops or crashes. Also passed with
  two changes (1,136,118 states).
- `mesh_operator`: two nodes, so one's failure can harm the other, one fault, and each mode
  of the registration collection.
- `mesh_tunnel`: a queue of one packet and three buffers, the smallest pool the
  code's sizing allows for it; two lost sessions. Also passed with a queue of two,
  four buffers and three losses (321,587 states).
- `subnet_allocation`: three hosts (symmetric), 6-bit addresses, at most two subnets
  per scan, six configurations to switch between and 6510 drafts. Also passed without
  symmetry (264,888 states).

### Fairness

Goroutines that can take a step take it (weak fairness per goroutine). Strong
fairness is assumed in four places. A watch stream that is open again and again
delivers (`watchSubnets` in LeaseWatch): client and server retry for ever and
each reconnect resumes at `since`. A Go select that finds the same case ready
again and again takes it (`Deliver`, `StoppedMonitoring` in Daemon): the runtime
chooses among ready cases at random; the same for the events and the ticker of
MeshRoutes (`handleEvents`, `reconcile`). The half hour of MeshOperator's grace passes
although reconciles keep running (`Age`). Vxlan assumes that the external interface
comes back, Traffic that an exited process is started again, MeshRoutes that the chain is
resynchronised, MeshOperator that Kubernetes collects Secrets without an owner, and
MeshTunnel that the caller of a cancelled context calls Close. Otherwise no fairness
is assumed of the environment:
signals, writes, crashes, compactions and lost routes may happen or not, within
their bounds. getConfig is fair only once it is cancelled, since it may retry
for ever.

CHECK_DEADLOCK is off where the system may rest: a pipeline waiting for writes
after the last revision, a daemon that has exited, a start-up that failed, a tunnel that
is closed.

## Proofs

Proved by TLAPS for all values of the constants (sets of nodes, subnets, keys, peers,
destinations and configurations, widths, limits, counts of faults) from the assumptions
named in the modules. The proofs about a component are in `<component>_proofs`, except for
two short ones: RouteNetwork's are part of `MeshRoutes_proofs` and Daemon's part of
`MeshTunnel_proofs`. Those two modules extend two components each, which is why the
specifications of RouteNetwork and Daemon are called RouteSpec and DaemonSpec. TLC
finds no violation of any of the inductive invariants on the instances of the runs.

**SubnetLease.**

- `TypeCorrect`: TypeOK, under every fault. TypeOK alone is not inductive, since
  an event of a daemon without a subnet would have no type. `HasSubnet` adds
  that a running daemon has one and that only a daemon past HandleSubnetFile
  watches.
- `WatchTellsTheLast` (WatchFaithful), under every fault. With the types it is inductive:
  every action that changes a key notifies every watch of it, and only the result of a
  put can be one that is logged.
- `AtMostOneKey` (OneKeyPerNode) and `RestartKeepsSubnet` (ExistingLeaseUsed), under every
  fault but `ttlError`, which makes both false: a listing that skips the own key.
  `KnowsOwn` says what a host knows of its keys: one that decides has seen all of them,
  one that dropped its lease has none, one that runs has at most its lease. The other
  hosts, the clock and the operator only take keys away from it.
- `MutualExclusion` (Exclusive), `LeaseStaysBacked` (LeaseBacked) and
  `PutsKeepTheOwner` (NoTakeover), under `Benign`: no fault but compaction and
  failing TimeToLive calls, of listings and of events, fewer consecutive failed renewals than the margin has
  minutes, and distinct keys disjoint (one address family). A model with pairs of
  subnets shows that the last of these is needed; with slow calls or an operator's
  interference the others are needed too.

The argument of the last three is about time. `Holds(n)` says that the renewal of n's
lease is due no later than `exp - Margin + fails`, that the timer is set for then or
earlier, and that the clock has not passed it; as `fails < Margin`, the lease has not
expired. `Watching` adds that events still queued never carry a later expiration
than the key, so handling an old one moves the timer only forward in safety; passing
over one leaves the timer at an earlier renewal than needed.
`Deciding` adds that what n read of its own leases is still so when it acts,
which is what makes its unconditional Put harmless. Disjointness follows:
each running host owns its key in etcd. A key that is free or n's own is
invisible to any other node (`OthersUnaffected`), so each action is one case for
the node that moves and one lemma for the rest.

**LeaseWatch.**

- `BackendSeesPrefix` (PrefixView): LeaseWatch implements LeaseView, for any keys, any
  history and any queue, under `NoLoss`: TimeToLive calls do not fail, and either nothing
  the watch needs is compacted or leases do not change their attributes. TLC refutes
  PrefixView without either half (see below). `LInv` follows a result through the
  pipeline: what is queued is a chain of results, each the snapshot of its revision or
  the one change since the result before it (`Pending`); the differ holds the registry at
  the revision it processed last (`Differ`); and a batch that is under way is exactly what
  the view lacks of it (`BatchInv`). Handing over the batch is then a step of LeaseView
  and every other action a stutter.

**SubnetAllocation**, for any width of an address, drafts, configurations and hosts.

- `EqualSubnetsApart` (EqualLengthsDisjoint), `AllocatedIsFree` (FreshIsFree),
  `TakenInsideNetwork` (InsideNetwork), `FreeIsFound` (FoundIfFree) and
  `AcceptedIsSound` (ConfigSound). The invariant `AInv` is small: leases are aligned
  networks of a length ParseSubnetKey can read, so getSubnets lists all of them, and no two
  hosts hold the same. The work is in the arithmetic: a network is a block of a power of
  two addresses that starts at a multiple of it, of two blocks one contains the other or
  they are disjoint, so Overlaps, which compares under the shorter mask, means a common
  address (`OverlapsMeans`); the default SubnetMax wraps twice and comes out right
  (`DefaultMax`); the scan visits the multiples of the size in the range and nothing else,
  also where the subtraction wraps (`ScanSubnets`, `ScanCovers`). A scan that wraps past
  the last address has visited the whole range before (`BeforeWrap`).
- `PowerAssumption` states the equation that defines `^` up to Width. The provers have no
  theory of `^`; TLC evaluates the assumption.

**RouteNetwork.**

- `ListWellFormed`: TypeOK, including that no route is listed twice and that the
  length routeCheck captured stays within the backing array.
- `LeasesStayListed`: CurrentListed. The strengthening `HandlerCurrent` says that
  the handler is working for the current lease of its destination and that what
  it takes off the list is a different route to it.

**Vxlan**, for any families, subnets and nodes, any number of events, failures and
deletions of a device, and any number of recreations at a time.

- `PeersStayReachable` (PeerReachable), `DeviceKeepsMac` (AdvertisedMac) and
  `RouteSetLast` (RouteLast), from `VInv`: indices are handed out once, so a call made
  with an old index cannot touch a new device (`Indices`); leases of different subnets
  have different MACs unless they are in `shared`, so the rollback for one does not take
  another's FDB entry (`Leases`); and for the lease under way, each entry is in the kernel or its call is
  still in the list, with the route as the last of its family (`Handling`).

**Traffic**, for any zones and configurations, restarts, deletions and flushes.

- `RulesOnce` (NoDuplicates) and `OverlayUntouched` (OverlayNotNatted), from
  `TrafficInvariant`. NoDuplicates is not inductive by itself: a restore appends what was
  looked up earlier, while other programs changed the chains. `BuildInv` says of a payload
  in the making that it names the rules looked at so far in their order, and that each of
  them is deleted by the payload or is in no chain. That stays so until the restore because
  other programs only take rules away and no two goroutines write the same chain.
  `TeardownInv` says the same of the clean-up, which only deletes and deletes the jump.
  `ContentInv` says what may be in a chain: POSTROUTING has the jump alone, and flannel's
  chain has rules of this run only, once this run has cleared it. `NftInv` says when the
  table of nftables is there.
- For OverlayNotNatted the proof follows a packet of the overlay through the chains. Before
  the step no rule that changes an address was its first match; after a restore the
  payload's RETURN rules stand before the masquerade, in the order of the list (`Follows`);
  after a deletion by flannel the jump is gone as well.
- What is used of cardinalities (`CardinalityOK`) and that a set of numbers has a least
  element (`LeastOK`) are proved last, with the library of finite sets, and are hypotheses
  of the lemmas before. The first gives what a restore does to a chain (`RestoredOK`).
- Two assumptions. `Absent` is no sequence of rules. And a leased subnet is not the whole
  network, as CheckNetworkConfig demands (`pkg/subnet/config.go`); otherwise the third and
  the fourth masquerade rule are one rule, and a payload would delete it twice.
  The kube subnet manager does not call CheckNetworkConfig, and there this is an assumption
  about the configuration.

**MeshRoutes**, for any subnets and any number of changes, failures, flushes and crashes.

- `StopsClean` (CleanStop) from `CleanInv`: all SNAT rules are of the present subnet,
  because the set-up of the masquerade rules empties the chain before Run, and each stage
  of the clean-up leaves its kind of state empty if no call failed.
- `NoRouteLost` (RoutesKept) from `FeedInv`: a leased subnet is desired and no removal of it
  is in the feed, or the event that adds it is in the feed after any that removes it
  (`Expected`); a removal or a prune under way was answered by such an event
  (`RemovalsAnswered`). It needs that an event is taken only when nothing is under way.

**MeshTunnel**, for any pool, queue and number of lost sessions.

- `BuffersOwned` (OneOwner), `ReaderNeverStarves` (BufferForReader) and
  `CloseComplete` (ClosedForGood), from one inductive invariant `TunnelInv`:
  `SessionInv` ties the states of supervisor, pumps, connection and device together
  (a pump runs only inside a session, Close is past a point only if the supervisor
  is), `PoolInv` says who may hold a buffer in which state and that the queue is no
  longer than its depth. That the reader finds a buffer is then counting: the pool has
  two more buffers than the queue has places, and at most one is with the writer.

**MeshOperator**, for any nodes, crashes on both sides, failing calls and lost files.

- `ListedStay` (ListedNodesKept), `EnrolmentsStay` (EnrolmentsKept) and `OthersLeftAlone`
  (OthersAlone, in the proofs' module), from `MeshInvariant`. One half of `MeshInv` is
  about one reconcile: `Serves` says that every node of the snapshot that has been dealt with
  is served, that is, the connector of its Secret and the route, connector and Mesh IP it
  advertised are among what is kept, or there was an error, and with an error no reconcile
  reaches the collection. `Collects` says that what is about to be deleted is not
  among what is kept and carries the cluster's prefix. The second half of EnrolmentsKept,
  that a dry run deletes nothing, is about the single steps (`DryRunStep`).
- The other half is about the copies of an identity that the reconcile, the Secret, the
  process, the state file and the annotation hold. `ClaimInv`: a Mesh IP is in the hands of
  one node, and all its copies there name the same connector. Without it a flanneld that
  deletes the registration of its state file might take another node's. `HoldInv` and
  `FindInv`: a connector id that a node knows is of a connector made for it, and of all the
  ids it knows at most one is still there. This keeps operator and flanneld apart: the
  operator keeps an advertised registration only while its connector is there, and a
  flanneld gives one up only when its credentials are of another connector.
- `OthersAlone` is what the comment of ConnectorNamePrefix says, "anything without this prefix
  is left strictly alone", as an action property; no run repeats it.
- The assumption that `None` is no credentials record is one about the model's value for
  an absent Secret.

**Daemon.**

- `ChannelClosedSafely` (ClosedSafely), for any number of lease changes.
  The strengthening `CloseInv` adds why the watcher may close the channel: its watch
  ended, which only cancel does, or its first read failed, and then the relay has
  nothing to send.

Three things about the proofs' form. Where a fact needs induction on a number, the proof
takes the least number for which it fails (`LeastNat`), because the provers cannot
instantiate the library's induction theorems. A leaf that needs no arithmetic cites Zenon.
The library of finite sets is brought in by an INSTANCE just before the lemmas that use it,
because its theorems slow down every proof below it.

Every invariant and every action property of the runs is a theorem. Only model-checked is
liveness, which TLAPS cannot prove here: Converges (LeaseWatch, MeshRoutes, MeshOperator),
PeersConverge, Starts, Exits, RevokedStops, GoneStops, Recovers, DeviceRecovers, Settles,
CloseReturns, Reconnects. KubeSubnet has only such properties.

TypeOK of SubnetLease is proved and no run repeats it.

## What the models show beyond the runs

These behaviours of the code were seen in the models. A property above either
excludes them in its statement or is checked without the fault that causes them.

**Leases in etcd.**

- A daemon whose first own-lease read fails is never renewed again and loses its
  subnet while running (fault `noWatch`; LeaseBacked fails).
- A restart whose listing skips its own key because of a failing TimeToLive
  allocates a second subnet (`ttlError`; ExistingLeaseUsed and OneKeyPerNode fail).
  Exclusive still holds: the second subnet is a free one.
- A renewal slower than the margin, or a reuse decided from a listing that is out of date
  by then, puts the key unconditionally (`registry.go:267`) and may overwrite another
  host's (`slow`; NoTakeover and Exclusive fail).
- A change of the own key whose TimeToLive fails is logged and forgotten
  (`registry.go:469`; `eventTTL`): the renewal timer keeps its old time. A removal needs
  no TimeToLive and is always told.
- A key that is revoked and created again within one compaction is not noticed
  by its first owner. Renewing a reservation turns it into a lease.
- createSubnet reports a lost race as errSubnetAlreadyexists
  (`pkg/subnet/etcd/registry.go:248`), but AcquireLease retries only on
  rpctypes.ErrDuplicateKey (`local_manager.go:58`), so its raceRetries are never used.
- In dual stack createSubnet guards the pair of subnets only (`registry.go:232`): two
  concurrent acquisitions may share one half. With `Conflicts` relating such pairs
  Exclusive fails; `Documentation/troubleshooting.md:103` says "The node subnet ranges
  must not overlap."
- The remembered subnet is compared with the leases by its IPv4 half and for equality
  (SubnetAllocation). After an expiry its IPv6 half may belong to another host; and
  when SubnetLen was changed there and back it may overlap a longer or shorter lease.
  EqualLengthsDisjoint is stated for IPv4 and equal lengths.
- A lease without IPv6 in a network where IPv6 was enabled later makes the scan
  dereference a nil address (`local_manager.go:255`; `Mixed`). A range that ends with
  the last IPv4 address makes it wrap (`Wraps`): after the subnets from SubnetMin
  on, which are those ConfigSound is about, it goes on from 0.0.0.0 outside the network, and does not end
  if too few are free. InsideNetwork names this case. SubnetMin above
  SubnetMax is accepted.

**Following the leases.**

- LeaseWatcher.Reset compares subnets only, so attributes that changed while the
  watch was compacted are not reported; on a second snapshot it reports the own
  lease as removed. A listing shortened by a failing TimeToLive removes peers
  (`listTTL`).
- An event that cannot be parsed becomes an empty result, which is taken for an empty
  snapshot and removes every peer (`registry.go:386`; fault `eventTTL`, Converges fails).
- A managed node replaced by an unmanaged one of the same name while the informer
  is offline stays a peer (`offlineRejoin`). An event sent asynchronously may
  arrive after a newer one of the same node, and the backend then keeps the older lease;
  `overtaken` records it, and PeersConverge excepts it.
- handleUpdateLeaseEvent does not report a change of one family in dual stack
  (`pkg/subnet/kube/kube.go:331`; PeersConverge fails with `Families = {4, 6}`).
- With more nodes than the channel and the senders hold, the informer may block before
  the own node is stored, and AcquireLease fails although CONT_WHEN_CACHE_NOT_READY is
  set (`kube.go:364`).

**Shutdown.**

- An event of the own lease in flight at cancel may be sent on a closed channel
  (`code = "sendClosed"`).
- If the first read of either watch fails, nobody closes its channel
  (`local_manager.go:318`) and main waits for ever.
- wireguard's Run leaves its loop when the context is done and then waits for
  subnet.WatchLeases (`pkg/backend/wireguard/wireguard_network.go:89`), which may be
  blocked handing Run a batch (`pkg/subnet/subnet.go:141`): both wait for ever and so
  does main. `Abandoned` is this state; without it in Exits, TLC finds the deadlock.
  `main.go:239` says "All spawned goroutines should exit when cancel is called on this
  context." The other backends read until the channel is closed or do not wait.
- A key that is removed and put again sends events after the removal. CompleteLease has
  returned by then and nobody reads them: with one event held by subnet.WatchLease and
  the next by watchSubnet neither sees the cancelled context, and main waits for ever.
  `Unheard` is this state, excepted in Exits and RevokedStops.

**Backends.**

- Changing the gateway of a lease whose old route is missing from the kernel
  leaves the old route listed, and a check racing the handler may add back a
  route that was just removed.
- Vxlan: of two recreations that overlap the older may set nw.dev last, which then names a
  deleted device (`overtaken`), and a deletion before watchVXLANDevice has subscribed is
  not noticed (`missed`); DeviceRecovers excepts both. Only the IPv4 device is watched. A
  recreated device has no peers until their next events. It has another MAC than the lease
  says without stored MACs (etcd), and also when the node cannot be read at that moment
  (`pkg/backend/vxlan/vxlan.go:193`), which AdvertisedMac excepts (`unread`). A node whose
  subnet changes may be told with both subnets for a while; the two share the FDB entry of
  its MAC, and the removal of the old one takes it from the new one (`shared`, excepted by
  PeerReachable). nw.mtu is reduced again at each recreation.
- iptables' CleanUp looks for FLANNEL-FWD in the nat table, where it is not, so forward
  rules survive a switch to nftables. In nftables' chain one rule hides the last one
  (`pkg/trafficmngr/nftables/nftables.go:249`). nftables rules are not resynchronised.
- MeshRoutes: with one-event batches the first event counts as synchronised, and a tick
  after the grace may prune policy rules of nodes whose events are still to come. Their
  events bring them back (Converges); RoutesKept excepts a route whose event is in the feed.
- MeshTunnel: when the TUN reader fails, each later session ends at once and the
  supervisor reconnects for ever. "Connected" may be reported after "Disconnected".
- MeshOperator: the prefix of a cluster's connectors also matches a cluster whose name
  extends it ("prod" and "prod-eu"), whose connectors are then collected;
  OthersUntouched fails with that `OtherCluster`. The run has unrelated names. A
  connector made anew leaves the running node advertising the old one. A connector created
  although the answer was lost, or by an operator that has stopped, may be the second of
  its name; that, or damaged markers in NodeHosts, stops reconciliation until repaired. An
  old registration that a restarting flanneld takes over from its state file is collected
  if the reconcile listed it before and the annotation is not yet published, and the node
  then advertises one that is gone. `Sound` excludes these from Converges.

## Not modelled

- wireguard's handling of an event: one goroutine, one call per peer and route, errors
  logged and nothing retried. (From reading: it uses the configuration also when
  GetNetworkConfig failed, `pkg/backend/wireguard/wireguard_network.go:190`.) Its
  shutdown is in Daemon.
- ipsec: policies and connections are requests to charon, which holds the state. udp:
  the forwarding is a C proxy. extension runs shell commands, tencent-vpc calls a cloud
  API, alloc does nothing after the lease. The backend manager is a map that is
  filled once.
- The contents of packets and of QUIC, HTTP and JSON messages; interface selection, flag
  parsing, metrics and log messages; the Windows variants; the in-memory registry
  of the tests.
- Configurations with IPv4 disabled in SubnetAllocation, and vxlan's test for a direct
  path (`Direct` is a constant).
- A composition of LeaseWatch with a backend: each backend takes its events in the order
  PrefixView promises, as an assumption.
