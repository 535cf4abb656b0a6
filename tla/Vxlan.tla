------------------------------- MODULE Vxlan --------------------------------
(***************************************************************************)
(* The vxlan backend of one node (pkg/backend/vxlan): the device of each   *)
(* address family is created at registration and its MAC advertised in the *)
(* node's lease. Three kinds of goroutine then share it: Run handles lease *)
(* events, one netlink call after the other; watchVXLANDevice signals that *)
(* the IPv4 device was deleted; and for each signal a reCreateVxlan makes  *)
(* the devices anew and replaces nw.dev and nw.v6Dev without a lock.       *)
(*                                                                         *)
(* External: the kernel. Neighbour and forwarding entries, and routes over *)
(* the device, go when the device goes; a call names the device by index   *)
(* and fails when that index is gone. The lease events come in the order   *)
(* of the watch (LeaseWatch): a Removed carries the lease of the last      *)
(* Added, and a snapshot may tell the new lease of a node before the       *)
(* removal of its old one.                                                 *)
(***************************************************************************)
EXTENDS Naturals, Sequences

CONSTANTS
  Families,      \* the enabled ones of "v4" and "v6"
  Subnets, Nodes,
  Attrs,         \* what leases say: pairs of a node and the number of its MAC
  Direct,        \* the nodes DirectRouting says are directly connected
  StoredMac,     \* the subnet manager knows the MAC of an earlier run
  Vxlan, None,
  ExtMTU,
  MaxInputs,     \* bound on lease events and deletions of devices
  MaxFails       \* bound on failures

ASSUME VxlanAssumption ==
  /\ Families \subseteq {"v4", "v6"} /\ Families # {}
  /\ Attrs \subseteq Nodes \X Nat /\ None \notin Attrs /\ Direct \subseteq Nodes
  /\ StoredMac \in BOOLEAN
  /\ {Vxlan, None} \cap Nodes = {} /\ Vxlan # None
  /\ ExtMTU \in Nat /\ MaxInputs \in Nat /\ MaxFails \in Nat

VARIABLES
  link,      \* the kernel's device of each family; index 0 is none
  top,       \* the highest device index handed out
  arp,       \* permanent neighbours: MAC of each subnet's address
  fdb,       \* forwarding entries: public address for each MAC
  route,     \* route of each subnet: None, Vxlan or the directly connected node
  dev,       \* nw.dev and nw.v6Dev, as device indices
  mtu,       \* nw.mtu
  advert,    \* the MACs in the node's own lease, 0 for none
  reg,       \* where RegisterNetwork and Run are
  handler,   \* the event being handled and the calls left to make
  leases,    \* the leases of the peers, as of the last event
  sub,       \* watchVXLANDevice has subscribed to the updates of links
  updates,   \* deletions of the device the watcher has not read yet
  missing,   \* vxlanMissingChan, of capacity 1
  rec,       \* the goroutines running reCreateVxlan
  extUp,     \* the external interface has its addresses
  ctx,       \* the context is cancelled
  inputs,    \* how many lease events and deletions there were
  fails,     \* how many failures there were
  done,      \* history: the lease whose calls were all made on the present device
  shared,    \* history: leases, with their MAC, that were those of two subnets at once
  unread,    \* history: devices made anew while the node could not be read
  missed,    \* history: the IPv4 device was deleted before the subscription
  overtaken  \* history: nw.dev was last set to an older device than before

kernel == <<link, top, arp, fdb, route>>
env == <<leases, extUp, ctx, inputs, sub>>
mishaps == <<unread, missed, overtaken>>
vars == <<kernel, dev, mtu, advert, reg, handler, updates, missing, rec, env, fails, done,
          shared, mishaps>>

Idle == [pc |-> "idle"]
NoLink == [idx |-> 0, mac |-> 0, compat |-> TRUE]
PerFamily(x) == [f \in Families |-> x]
PerSubnet(x) == [f \in Families |-> [s \in Subnets |-> x]]

-----------------------------------------------------------------------------
\* Devices.

\* A new index; it also stands for a MAC drawn at random.
freshMac(f) == top + (IF f = "v6" THEN 2 ELSE 1)

\* The MAC an earlier run left in the node's annotations, 0 if the manager has none or
\* the node cannot be read.
GetStoredMacAddresses(f, got) == IF StoredMac /\ got THEN advert[f] ELSE 0

vxlanLinksIncompat(l) == ~l.compat

\* The device of the family afterwards: the one that is there unless its parameters
\* differ, else a new one.
ensureLink(f, new) ==
  IF link[f].idx # 0 /\ ~vxlanLinksIncompat(link[f]) THEN link[f] ELSE new

newHardwareAddr(f, stored) ==
  ensureLink(f, [idx |-> freshMac(f), mac |-> freshMac(f), compat |-> TRUE])

newVXLANDevice(f, stored) ==
  ensureLink(f, [idx |-> freshMac(f), compat |-> TRUE,
                 mac |-> IF stored = 0 THEN freshMac(f) ELSE stored])

\* The kernel after the devices are replaced by those of l.
Relink(l) ==
  LET kept == {f \in Families : l[f].idx = link[f].idx}
  IN  /\ link' = l
      /\ arp' = [f \in Families |-> IF f \in kept THEN arp[f] ELSE [s \in Subnets |-> None]]
      /\ fdb' = [f \in Families |-> IF f \in kept THEN fdb[f] ELSE [m \in Attrs |-> None]]
      /\ route' = [f \in Families |-> [s \in Subnets |->
                     IF f \notin kept /\ route[f][s] = Vxlan THEN None ELSE route[f][s]]]
      /\ done' = [f \in Families |-> [s \in Subnets |->
                    IF f \notin kept /\ route[f][s] = Vxlan THEN None ELSE done[f][s]]]

\* createVXLANDevice: the devices of both families, after the node was read or not.
createVXLANDevice(got) ==
  /\ got \/ (StoredMac /\ fails < MaxFails)
  /\ fails' = IF got THEN fails ELSE fails + 1
  /\ Relink([f \in Families |-> newVXLANDevice(f, GetStoredMacAddresses(f, got))])
  /\ top' = top + 2

\* The address is set and the link brought up by index, then its MAC compared by name.
Configure(f, idx) == link[f].idx = idx

configureDeviceIPv4IPv6(idx) == \A f \in Families : Configure(f, idx[f])

-----------------------------------------------------------------------------
\* RegisterNetwork.

RegisterDevice ==
  /\ reg = "new"
  /\ \/ reg' = "lease" /\ \E got \in BOOLEAN : createVXLANDevice(got)
     \/ reg' = "failed" /\ UNCHANGED <<kernel, done, fails>>
  /\ dev' = [f \in Families |-> link'[f].idx]
  /\ UNCHANGED <<mtu, advert, handler, updates, missing, rec, env, shared, mishaps>>

\* newSubnetAttrs and AcquireLease: the MACs of the devices go into the lease.
RegisterLease ==
  /\ reg = "lease"
  /\ \/ /\ advert' = [f \in Families |-> link[f].mac]
        /\ reg' = "configure"
     \/ reg' = "failed" /\ UNCHANGED advert
  /\ UNCHANGED <<kernel, dev, mtu, handler, updates, missing, rec, env, fails, done,
                 shared, mishaps>>

RegisterConfigure ==
  /\ reg = "configure"
  /\ reg' = IF configureDeviceIPv4IPv6(dev) THEN "run" ELSE "failed"
  /\ mtu' = ExtMTU
  /\ UNCHANGED <<kernel, dev, advert, handler, updates, missing, rec, env, fails, done,
                 shared, mishaps>>

-----------------------------------------------------------------------------
\* handleSubnetEvents.

Call(op, f) == [op |-> op, f |-> f]

AddCalls(f, direct) ==
  IF direct THEN <<Call("RouteReplace", f)>>
  ELSE <<Call("AddARP", f), Call("AddFDB", f), Call("RouteReplace", f)>>

DelCalls(f, direct) ==
  IF direct THEN <<Call("RouteDel", f)>>
  ELSE <<Call("DelARP", f), Call("DelFDB", f), Call("RouteDel", f)>>

\* The calls for an event: IPv4, then IPv6.
Calls(add, direct) ==
  LET of(f) == IF f \notin Families THEN <<>>
               ELSE IF add THEN AddCalls(f, direct[f]) ELSE DelCalls(f, direct[f])
  IN  of("v4") \o of("v6")

\* Whether the node is directly connected is asked for each event anew; an error
\* counts as no.
Handle(add, s, l) ==
  \E direct \in [Families -> BOOLEAN] :
    LET asked == \A f \in Families : direct[f] = (l[1] \in Direct)
    IN  /\ \A f \in Families : direct[f] => l[1] \in Direct
        /\ asked \/ fails < MaxFails
        /\ fails' = IF asked THEN fails ELSE fails + 1
        /\ handler' = [pc |-> "calls", s |-> s, l |-> l, direct |-> direct,
                       idx |-> dev, todo |-> Calls(add, direct)]

\* Events of another backend type, or whose data cannot be decoded, are passed over
\* before any call.
EventAdded(s, l) ==
  /\ reg = "run" /\ handler = Idle /\ ~ctx /\ inputs < MaxInputs
  /\ inputs' = inputs + 1
  /\ leases' = [leases EXCEPT ![s] = l]
  /\ done' = [f \in Families |-> [done[f] EXCEPT ![s] = None]]
  /\ shared' = IF \E t \in Subnets \ {s} : leases[t] = l THEN shared \cup {l} ELSE shared \ {l}
  /\ Handle(TRUE, s, l)
  /\ UNCHANGED <<kernel, dev, mtu, advert, reg, updates, missing, rec, extUp, ctx,
                 sub, mishaps>>

EventRemoved(s) ==
  /\ reg = "run" /\ handler = Idle /\ ~ctx /\ inputs < MaxInputs
  /\ leases[s] # None
  /\ inputs' = inputs + 1
  /\ leases' = [leases EXCEPT ![s] = None]
  /\ done' = [f \in Families |-> [done[f] EXCEPT ![s] = None]]
  /\ Handle(FALSE, s, leases[s])
  /\ UNCHANGED <<kernel, dev, mtu, advert, reg, updates, missing, rec, extUp, ctx,
                 sub, shared, mishaps>>

indexNow(c) == dev[c.f]

\* The index in a route was read when the event came in, that in a neighbour is read
\* from nw.dev at the call.
IndexFor(c) == IF c.op \in {"RouteReplace", "RouteDel"} THEN handler.idx[c.f] ELSE dev[c.f]

Target(f) == IF handler.direct[f] THEN handler.l[1] ELSE Vxlan

\* Whether the kernel can do the call.
Possible(c) ==
  /\ \/ c.op \in {"RouteReplace", "RouteDel"} /\ handler.direct[c.f]
     \/ IndexFor(c) # 0 /\ link[c.f].idx = IndexFor(c)
  /\ c.op = "DelARP" => arp[c.f][handler.s] # None
  /\ c.op = "DelFDB" => fdb[c.f][handler.l] = handler.l[1]
  /\ c.op = "RouteDel" => route[c.f][handler.s] = Target(c.f)

NeighSet(c) ==
  /\ arp' = IF c.op = "AddARP" THEN [arp EXCEPT ![c.f][handler.s] = handler.l]
            ELSE IF c.op = "DelARP" THEN [arp EXCEPT ![c.f][handler.s] = None] ELSE arp
  /\ fdb' = IF c.op = "AddFDB" THEN [fdb EXCEPT ![c.f][handler.l] = handler.l[1]]
            ELSE IF c.op = "DelFDB" THEN [fdb EXCEPT ![c.f][handler.l] = None] ELSE fdb

RouteSet(c) ==
  /\ route' = IF c.op = "RouteReplace" THEN [route EXCEPT ![c.f][handler.s] = Target(c.f)]
              ELSE IF c.op = "RouteDel" THEN [route EXCEPT ![c.f][handler.s] = None] ELSE route
  /\ done' = IF c.op = "RouteReplace" THEN [done EXCEPT ![c.f][handler.s] = handler.l] ELSE done

goOnAfterARP(c, rest) ==
  CASE c.op = "AddARP" -> rest
    [] c.op = "AddFDB" -> <<Call("DelARP", c.f)>>
    [] c.op = "RouteReplace" ->
         IF handler.direct[c.f] THEN <<>> ELSE <<Call("DelARP", c.f), Call("DelFDB", c.f)>>
    [] OTHER -> rest

\* What is left to do after a call fails: an Added undoes its calls and gives up, the
\* IPv6 half included; a deletion goes on.
AfterFailure(c, rest) ==
  CASE c.op = "AddARP" -> <<>>
    [] c.op = "AddFDB" -> <<Call("DelARP", c.f)>>
    [] c.op = "RouteReplace" ->
         IF handler.direct[c.f] THEN <<>> ELSE <<Call("DelARP", c.f), Call("DelFDB", c.f)>>
    [] OTHER -> rest

Proceed(todo) == handler' = IF todo = <<>> THEN Idle ELSE [handler EXCEPT !.todo = todo]

CallFrame ==
  UNCHANGED <<link, top, dev, mtu, advert, reg, updates, missing, rec, env, shared, mishaps>>

CallSucceeds ==
  /\ handler # Idle
  /\ LET c == Head(handler.todo)
     IN  Possible(c) /\ NeighSet(c) /\ RouteSet(c)
  /\ Proceed(Tail(handler.todo))
  /\ UNCHANGED fails /\ CallFrame

\* All attempts of retry.Do fail.
CallFails ==
  /\ handler # Idle
  /\ LET c == Head(handler.todo)
     IN  /\ Possible(c) => fails < MaxFails
         /\ fails' = IF Possible(c) THEN fails + 1 ELSE fails
         /\ Proceed(AfterFailure(c, Tail(handler.todo)))
  /\ UNCHANGED <<arp, fdb, route, done>> /\ CallFrame

-----------------------------------------------------------------------------
\* The device is deleted, noticed and made anew.

\* Someone deletes the device. The kernel tells only those who have subscribed.
LinkDel(f) ==
  /\ reg \in {"lease", "configure", "run"} /\ ~ctx
  /\ link[f].idx # 0 /\ inputs < MaxInputs
  /\ inputs' = inputs + 1
  /\ Relink([link EXCEPT ![f] = NoLink])
  /\ updates' = IF f = "v4" /\ sub THEN updates + 1 ELSE updates
  /\ missed' = (missed \/ (f = "v4" /\ ~sub))
  /\ UNCHANGED <<top, dev, mtu, advert, reg, handler, missing, rec, leases, extUp, ctx,
                 fails, sub, shared, unread, overtaken>>

\* The goroutine of watchVXLANDevice starts; without an IPv4 device it ends at once.
LinkSubscribe ==
  /\ reg = "run" /\ ~sub /\ "v4" \in Families
  /\ sub' = TRUE
  /\ UNCHANGED <<kernel, dev, mtu, advert, reg, handler, updates, missing, rec, leases, extUp,
                 ctx, inputs, fails, done, shared, mishaps>>

\* watchVXLANDevice: only deletions of the IPv4 device are signalled, and a signal is
\* dropped while one is queued.
watchVXLANDevice ==
  /\ updates > 0 /\ ~ctx
  /\ updates' = updates - 1
  /\ missing' = TRUE
  /\ UNCHANGED <<kernel, dev, mtu, advert, reg, handler, rec, env, fails, done, shared, mishaps>>

\* Run takes the signal, between two events, and starts reCreateVxlan.
RunMissing ==
  /\ missing /\ handler = Idle /\ ~ctx
  /\ missing' = FALSE
  /\ rec' = Append(rec, [pc |-> "create", idx |-> PerFamily(0)])
  /\ UNCHANGED <<kernel, dev, mtu, advert, reg, handler, updates, env, fails, done, shared,
                 mishaps>>

RecFrame == UNCHANGED <<advert, reg, handler, updates, missing, env, shared, missed>>

\* The devices that come of this round.
RecDevices(i, got) ==
  /\ createVXLANDevice(got)
  /\ rec' = [rec EXCEPT ![i] = [pc |-> "configure", idx |-> [f \in Families |-> link'[f].idx]]]
  /\ unread' = IF got THEN unread
               ELSE unread \cup {link'[f].idx : f \in {g \in Families : link'[g] # link[g]}}

recCreateOnce(i) ==
  /\ rec[i].pc = "create" /\ ~ctx
  /\ IF extUp THEN \E got \in BOOLEAN : RecDevices(i, got)
     ELSE rec' = [rec EXCEPT ![i].pc = "over"] /\ UNCHANGED <<kernel, done, fails, unread>>
  /\ UNCHANGED <<dev, mtu, overtaken>> /\ RecFrame

\* One round of the loop up to createVXLANDevice; without the external interface and
\* its addresses it starts over after a pause.
RecCreate(i) ==
  /\ rec[i].pc = "create" /\ ~ctx /\ extUp
  /\ \E got \in BOOLEAN : RecDevices(i, got)
  /\ UNCHANGED <<dev, mtu, overtaken>> /\ RecFrame

RecConfigure(i) ==
  /\ rec[i].pc = "configure"
  /\ rec' = [rec EXCEPT ![i].pc = IF configureDeviceIPv4IPv6(rec[i].idx) THEN "publish" ELSE "create"]
  /\ UNCHANGED <<kernel, dev, mtu, done, fails, unread, overtaken>> /\ RecFrame

\* The assignments to the fields the handler reads. The MTU is that of the device.
RecPublish(i) ==
  /\ rec[i].pc = "publish"
  /\ dev' = rec[i].idx
  /\ mtu' = ExtMTU - 50
  /\ rec' = [rec EXCEPT ![i].pc = "over"]
  /\ overtaken' = \E j \in 1 .. Len(rec) : rec[j].pc = "over" /\ rec[j].idx["v4"] > rec[i].idx["v4"]
  /\ UNCHANGED <<kernel, done, fails, unread>> /\ RecFrame

RecCancelled(i) ==
  /\ rec[i].pc = "create" /\ ctx
  /\ rec' = [rec EXCEPT ![i].pc = "over"]
  /\ UNCHANGED <<kernel, dev, mtu, done, fails, unread, overtaken>> /\ RecFrame

ExtIface ==
  /\ fails < MaxFails \/ ~extUp
  /\ ~ctx
  /\ extUp' = ~extUp
  /\ fails' = IF extUp THEN fails + 1 ELSE fails
  /\ UNCHANGED <<kernel, dev, mtu, advert, reg, handler, updates, missing, rec, leases, ctx,
                 inputs, sub, done, shared, mishaps>>

Cancel ==
  /\ ~ctx /\ reg = "run"
  /\ ctx' = TRUE
  /\ UNCHANGED <<kernel, dev, mtu, advert, reg, handler, updates, missing, rec, leases, extUp,
                 inputs, sub, fails, done, shared, mishaps>>

-----------------------------------------------------------------------------
\* An earlier run may have left its devices, compatible or not, and the MACs it advertised.
Init ==
  /\ \E l \in {NoLink} \cup [idx : {1}, mac : {1}, compat : BOOLEAN] : link = PerFamily(l)
  /\ advert \in {PerFamily(0), PerFamily(1)}
  /\ \A f \in Families : link[f].idx # 0 => advert[f] = 1
  /\ top = 1
  /\ arp = PerSubnet(None) /\ route = PerSubnet(None) /\ done = PerSubnet(None)
  /\ fdb = [f \in Families |-> [m \in Attrs |-> None]]
  /\ dev = PerFamily(0) /\ mtu = 0
  /\ reg = "new" /\ handler = Idle
  /\ leases = [s \in Subnets |-> None]
  /\ sub = FALSE /\ updates = 0 /\ missing = FALSE /\ rec = <<>>
  /\ extUp = TRUE /\ ctx = FALSE
  /\ inputs = 0 /\ fails = 0
  /\ shared = {} /\ unread = {} /\ missed = FALSE /\ overtaken = FALSE

Register == RegisterDevice \/ RegisterLease \/ RegisterConfigure
HandlerCall == CallSucceeds \/ CallFails
Rec(i) == RecCreate(i) \/ RecConfigure(i) \/ RecPublish(i) \/ RecCancelled(i)
Recreate == \E i \in 1 .. Len(rec) : Rec(i)

Next ==
  \/ Register \/ HandlerCall
  \/ \E s \in Subnets : EventRemoved(s) \/ \E l \in Attrs : EventAdded(s, l)
  \/ \E f \in Families : LinkDel(f)
  \/ LinkSubscribe \/ watchVXLANDevice \/ RunMissing \/ Recreate
  \/ ExtIface \/ Cancel

Spec == Init /\ [][Next]_vars

\* The goroutines go on, and the external interface comes back.
FairSpec ==
  /\ Spec
  /\ WF_vars(Register) /\ WF_vars(HandlerCall)
  /\ WF_vars(LinkSubscribe) /\ WF_vars(watchVXLANDevice) /\ WF_vars(RunMissing)
  /\ \A i \in 1 .. 3 : WF_vars(i <= Len(rec) /\ Rec(i))
  /\ WF_vars(ExtIface /\ ~extUp)

-----------------------------------------------------------------------------
\* Where a packet for the subnet ends up.
Reaches(f, s) ==
  IF route[f][s] # Vxlan THEN route[f][s]
  ELSE IF arp[f][s] = None THEN None ELSE fdb[f][arp[f][s]]

\* Once handleSubnetEvents made all calls for an Added, the packets of that subnet go
\* to the node of the lease, until the next event for it or the loss of the device:
\* no event, failure or rollback for another subnet takes an entry away, unless that
\* subnet was leased with the same MAC: the two then share a forwarding entry, and the
\* removal of one takes it from both.
PeerReachable ==
  \A f \in Families, s \in Subnets :
    done[f][s] \notin {None} \cup shared /\ (handler = Idle \/ handler.s # s)
      => Reaches(f, s) = done[f][s][1]

\* A route over the device is only set when the entries it relies on are there
\* ("make sure this is done last"), also when the device is replaced between the calls.
RouteLast ==
  [][\A f \in Families, s \in Subnets :
       route[f][s] # Vxlan /\ route'[f][s] = Vxlan
         => arp[f][s] # None /\ fdb[f][arp[f][s]] # None]_vars

\* Where MACs are stored, a running node's device has the MAC its lease tells the peers
\* to send to, also after it was deleted and made anew; but not the device that
\* reCreateVxlan makes while the node cannot be read, which has a random MAC nobody is told.
AdvertisedMac ==
  StoredMac /\ reg \in {"configure", "run"} =>
    \A f \in Families : link[f].idx \notin {0} \cup unread => link[f].mac = advert[f]

\* However many deletions of the IPv4 device there are, and however their reCreateVxlan
\* overlap, there is one again in the end, and nw.dev is it. Two cases are lost: a deletion
\* before watchVXLANDevice subscribed, and a reCreateVxlan that sets nw.dev after a later
\* one did.
DeviceRecovers ==
  <>[](\/ reg = "failed" \/ ctx \/ missed
       \/ (link["v4"].idx # 0 /\ (overtaken \/ dev["v4"] = link["v4"].idx)))
=============================================================================
