---------------------------- MODULE SubnetLease ----------------------------
(***************************************************************************)
(* The etcd subnet manager: pkg/subnet/etcd/local_manager.go on top of     *)
(* pkg/subnet/etcd/registry.go, driven by main.go.  Every node acquires a  *)
(* subnet lease, writes subnet.env, then renews the lease and watches its  *)
(* own key.  Each call to etcd is one step, so whatever other nodes do     *)
(* between two calls of the same function is a behaviour of this module.   *)
(*                                                                         *)
(* A member of Subnets is one etcd key: an IPv4 subnet, or an IPv4&IPv6    *)
(* pair.  V4[s] is the IPv4 half, Conflicts relates keys that share        *)
(* addresses.  A configuration is the set of keys compatible with it.  The *)
(* clock counts units of the one-minute retry delay of CompleteLease.      *)
(***************************************************************************)
EXTENDS Integers, Sequences, FiniteSets

CONSTANTS
  Nodes,        \* the hosts; a node stands for its PublicIP as well
  Subnets,      \* the keys under <prefix>/subnets
  V4,           \* V4[s]: the IPv4 subnet of key s
  Conflicts,    \* pairs of keys whose subnets overlap in some family
  Configs,      \* the network configurations an operator may put in etcd
  TTL,          \* subnetTTL
  Margin,       \* --subnet-lease-renew-margin
  MaxFails,     \* consecutive renewals that may fail
  MaxTime,      \* bound: last instant of the clock
  MaxEvts,      \* bound: events waiting for one own-lease watch
  Faults,       \* which environment faults happen, a subset of AllFaults
  None          \* no subnet

\* "slow":      calls and startup may take longer than a clock unit
\* "ttlError":  TimeToLive of a listed key may fail
\* "eventTTL":  TimeToLive of the lease in a watch event may fail
\* "lostReply": a Put may be applied although its caller gets an error
\* "noWatch":   the first read of the own-lease watch may fail
\* "compact":   a watch may fall behind etcd's compaction horizon
\* "revoke":    an operator deletes a key
\* "reserve":   an operator turns a lease into a reservation
AllFaults ==
  {"slow", "ttlError", "eventTTL", "lostReply", "noWatch", "compact", "revoke", "reserve"}

\* main rejects a margin outside 1..1439 minutes.
ASSUME TimingAssumption ==
  /\ TTL \in Nat /\ Margin \in Nat /\ 0 < Margin /\ Margin < TTL
  /\ MaxFails \in Nat /\ MaxTime \in Nat /\ MaxEvts \in Nat

ASSUME KeyAssumption ==
  /\ None \notin Subnets /\ None \notin Nodes
  /\ DOMAIN V4 = Subnets
  /\ Conflicts \subseteq Subnets \X Subnets
  /\ \A s \in Subnets : <<s, s>> \in Conflicts
  /\ \A s, t \in Subnets : <<s, t>> \in Conflicts => <<t, s>> \in Conflicts
  /\ Configs \subseteq SUBSET Subnets /\ Configs # {}
  /\ Faults \subseteq AllFaults

VARIABLES
  now,       \* the clock
  config,    \* <prefix>/config
  kv,        \* kv[s]: the value and the etcd lease of key s, or NoKey
  pc,        \* where the daemon of a node is
  cfg,       \* the configuration AcquireLease read
  seen,      \* the leases the last getSubnets returned
  attempts,  \* iterations of the loop of AcquireLease
  lease,     \* the subnet of the node's lease
  file,      \* FLANNEL_SUBNET of subnet.env; survives a restart
  wake,      \* when the renewal timer of CompleteLease fires
  fails,     \* renewals that failed since the last one that succeeded
  watch,     \* the own-lease watch: "off", "starting", "on", "closed"
  evts       \* events of the own key not yet handled by CompleteLease

vars == <<now, config, kv, pc, cfg, seen, attempts, lease, file, wake, fails,
          watch, evts>>

-----------------------------------------------------------------------------
\* The registry.

NoKey == [pub |-> None, exp |-> -1]
Reserved == 0                \* exp of a key that has no etcd lease
ZeroTime == -1               \* time.Time{}
raceRetries == 10

Live == {s \in Subnets : kv[s] # NoKey}
Key(n, e) == [pub |-> n, exp |-> e]

\* The Expiration a client computes: now + TimeToLive, where etcd answers -1
\* for a lease that is gone and for a key that has none.
kvToIPLease(e) == IF e <= now THEN now - 1 ELSE e

Event(k) == [type |-> IF k = NoKey THEN "removed" ELSE "added", exp |-> k.exp]

\* The result of a put needs a TimeToLive; one that fails is logged and not sent on.
parseSubnetWatchResponse(k, failed) ==
  IF failed /\ k # NoKey THEN [type |-> "logged", exp |-> k.exp] ELSE Event(k)

\* etcd sends every open watch the new value of each key of S.
Notify(S) ==
  \E failed \in SUBSET Nodes :
    /\ failed # {} => "eventTTL" \in Faults
    /\ evts' = [n \in Nodes |->
                  IF watch[n] = "on" /\ lease[n] \in S
                  THEN Append(evts[n], parseSubnetWatchResponse(kv'[lease[n]], n \in failed))
                  ELSE evts[n]]

Put(n, s) ==
  /\ kv' = [kv EXCEPT ![s] = Key(n, now + TTL)]
  /\ Notify({s})

Remove(S) ==
  /\ kv' = [s \in Subnets |-> IF s \in S THEN NoKey ELSE kv[s]]
  /\ Notify(S)

\* The guard of the transaction of createSubnet: the key was never created.
AlwaysCommit(s) == TRUE
KeyAbsent(s) == kv[s] = NoKey

keepSubnet(s) == UNCHANGED <<kv, evts>>
deleteSubnet(s) == Remove({s})

RoomFor(s) ==
  \A n \in Nodes : watch[n] = "on" /\ lease[n] = s => Len(evts[n]) < MaxEvts

-----------------------------------------------------------------------------
\* AcquireLease.

Start(n) ==
  /\ pc[n] = "down"
  /\ pc' = [pc EXCEPT ![n] = "list"]
  /\ cfg' = [cfg EXCEPT ![n] = config]
  /\ attempts' = [attempts EXCEPT ![n] = 1]
  /\ UNCHANGED <<now, config, kv, seen, lease, file, wake, fails, watch, evts>>

LeaseOf(s) == [sn |-> s, pub |-> kv[s].pub, exp |-> kvToIPLease(kv[s].exp)]

\* A listed key whose TimeToLive fails is left out of the result.
getSubnets(n) ==
  /\ pc[n] = "list"
  /\ \E skipped \in SUBSET Live :
       /\ skipped # {} => "ttlError" \in Faults
       /\ seen' = [seen EXCEPT ![n] = {LeaseOf(s) : s \in Live \ skipped}]
  /\ pc' = [pc EXCEPT ![n] = "decide"]
  /\ UNCHANGED <<now, config, kv, cfg, attempts, lease, file, wake, fails,
                 watch, evts>>

noLeaseByIP(n) == {}
findLeaseByIP(n) == {l \in seen[n] : l.pub = n}

Compatible(n, s) == s \in cfg[n]

\* When the timer of CompleteLease fires for a lease that expires at e.
RenewAtExpiry(e) == e
RenewAt(e) == e - Margin

\* The daemon holds lease s from now on; its timer follows the expiration.
Acquired(n, s, e) ==
  /\ pc' = [pc EXCEPT ![n] = "acquired"]
  /\ lease' = [lease EXCEPT ![n] = s]
  /\ wake' = [wake EXCEPT ![n] = RenewAt(e)]
  /\ fails' = [fails EXCEPT ![n] = 0]
  /\ seen' = [seen EXCEPT ![n] = {}]

\* A lease with our IP that fits the configuration: updateSubnet.  The ttl is
\* 0 (a reservation) only if the Expiration of the lease is the zero time.
ReuseLease(n) ==
  /\ pc[n] = "decide"
  /\ \E l \in findLeaseByIP(n) :
       /\ Compatible(n, l.sn)
       /\ RoomFor(l.sn)
       /\ LET e == IF l.exp = ZeroTime THEN Reserved ELSE now + TTL
          IN /\ kv' = [kv EXCEPT ![l.sn] = Key(n, e)]
             /\ Acquired(n, l.sn, e)
       /\ Notify({l.sn})
  /\ UNCHANGED <<now, config, cfg, attempts, file, watch>>

\* A lease with our IP that does not: deleteSubnet.  The snapshot keeps its
\* entry, so the allocation that follows still avoids that subnet.
DropLease(n) ==
  /\ pc[n] = "decide"
  /\ \E l \in findLeaseByIP(n) :
       /\ ~Compatible(n, l.sn)
       /\ RoomFor(l.sn)
       /\ deleteSubnet(l.sn)
  /\ pc' = [pc EXCEPT ![n] = "create"]
  /\ UNCHANGED <<now, config, cfg, seen, attempts, lease, file, wake, fails,
                 watch>>

PreviousUsable(n) ==
  /\ file[n] # None
  /\ \A l \in seen[n] : V4[l.sn] # V4[file[n]]
  /\ Compatible(n, file[n])

allocateSubnet(n) ==
  {s \in cfg[n] : \A l \in seen[n] : <<s, l.sn>> \notin Conflicts}

Candidates(n) == IF PreviousUsable(n) THEN {file[n]} ELSE allocateSubnet(n)

CanCreate(n) ==
  \/ pc[n] = "create"
  \/ pc[n] = "decide" /\ findLeaseByIP(n) = {}

createSubnet(n) ==
  /\ CanCreate(n)
  /\ \E s \in Candidates(n) :
       /\ KeyAbsent(s)
       /\ RoomFor(s)
       /\ Put(n, s)
       /\ Acquired(n, s, now + TTL)
  /\ UNCHANGED <<now, config, cfg, attempts, file, watch>>

Idle(n) ==
  /\ pc' = [pc EXCEPT ![n] = "down"]
  /\ lease' = [lease EXCEPT ![n] = None]
  /\ seen' = [seen EXCEPT ![n] = {}]
  /\ watch' = [watch EXCEPT ![n] = "off"]
  /\ evts' = [evts EXCEPT ![n] = <<>>]
  /\ wake' = [wake EXCEPT ![n] = 0]
  /\ fails' = [fails EXCEPT ![n] = 0]

isErrEtcdNodeExist(err) == err = "ErrDuplicateKey"

\* The transaction of createSubnet found the key: the attempt fails, and
\* AcquireLease goes round again only on errTryAgain.
CreateLost(n) ==
  /\ CanCreate(n)
  /\ \E s \in Candidates(n) : ~KeyAbsent(s)
  /\ IF isErrEtcdNodeExist("errSubnetAlreadyexists") /\ attempts[n] < raceRetries
     THEN /\ pc' = [pc EXCEPT ![n] = "list"]
          /\ attempts' = [attempts EXCEPT ![n] = @ + 1]
          /\ seen' = [seen EXCEPT ![n] = {}]
          /\ UNCHANGED <<lease, wake, fails, watch, evts>>
     ELSE Idle(n) /\ UNCHANGED attempts
  /\ UNCHANGED <<now, config, kv, cfg, file>>

OutOfSubnets(n) ==
  /\ CanCreate(n)
  /\ Candidates(n) = {}
  /\ Idle(n)
  /\ UNCHANGED <<now, config, kv, cfg, attempts, file>>

-----------------------------------------------------------------------------
\* main after AcquireLease, and CompleteLease.

\* A failure to write subnet.env is logged and startup goes on.
HandleSubnetFile(n) ==
  /\ pc[n] = "acquired"
  /\ \E ok \in BOOLEAN :
       file' = IF ok THEN [file EXCEPT ![n] = lease[n]] ELSE file
  /\ pc' = [pc EXCEPT ![n] = "monitor"]
  /\ watch' = [watch EXCEPT ![n] = "starting"]
  /\ UNCHANGED <<now, config, kv, cfg, seen, attempts, lease, wake, fails, evts>>

\* WatchLease reads the key first and sends it as a snapshot; an error there,
\* or the absence of the key, closes the receiver.
WatchLease(n) ==
  /\ watch[n] = "starting"
  /\ \/ /\ kv[lease[n]] # NoKey
        /\ watch' = [watch EXCEPT ![n] = "on"]
        /\ evts' = [evts EXCEPT ![n] = <<Event(kv[lease[n]])>>]
     \/ /\ kv[lease[n]] = NoKey \/ "noWatch" \in Faults
        /\ watch' = [watch EXCEPT ![n] = "closed"]
        /\ UNCHANGED evts
  /\ UNCHANGED <<now, config, kv, pc, cfg, seen, attempts, lease, file, wake,
                 fails>>

\* What a re-read of the key puts on the watch: its absence is a removal.
ResyncSnapshotOnly(k) == IF k = NoKey THEN <<>> ELSE <<Event(k)>>
ResyncResult(k) == <<Event(k)>>

\* The watch fell behind the compaction horizon: resyncWatchSubnet replaces
\* what was pending by what the key is now.
resyncWatchSubnet(n) ==
  /\ "compact" \in Faults
  /\ watch[n] = "on" /\ evts[n] # <<>>
  /\ evts' = [evts EXCEPT ![n] = ResyncResult(kv[lease[n]])]
  /\ UNCHANGED <<now, config, kv, pc, cfg, seen, attempts, lease, file, wake,
                 fails, watch>>

EventAdded(n) ==
  /\ pc[n] = "monitor" /\ evts[n] # <<>>
  /\ Head(evts[n]).type = "added"
  /\ wake' = [wake EXCEPT ![n] = RenewAt(kvToIPLease(Head(evts[n]).exp))]
  /\ evts' = [evts EXCEPT ![n] = Tail(@)]
  /\ UNCHANGED <<now, config, kv, pc, cfg, seen, attempts, lease, file, fails,
                 watch>>

\* watchSubnet passes over a result it could not parse; the timer is left as it is.
EventLogged(n) ==
  /\ pc[n] = "monitor" /\ evts[n] # <<>>
  /\ Head(evts[n]).type = "logged"
  /\ evts' = [evts EXCEPT ![n] = Tail(@)]
  /\ UNCHANGED <<now, config, kv, pc, cfg, seen, attempts, lease, file, wake,
                 fails, watch>>

IgnoreRemoved(n) ==
  /\ pc[n] = "monitor" /\ evts[n] # <<>>
  /\ Head(evts[n]).type = "removed"
  /\ evts' = [evts EXCEPT ![n] = Tail(@)]
  /\ UNCHANGED <<now, config, kv, pc, cfg, seen, attempts, lease, file, wake,
                 fails, watch>>

\* errInterrupted: main cancels everything and exits.
EventRemoved(n) ==
  /\ pc[n] = "monitor" /\ evts[n] # <<>>
  /\ Head(evts[n]).type = "removed"
  /\ Idle(n)
  /\ UNCHANGED <<now, config, kv, cfg, attempts, file>>

\* errCanceled: CompleteLease returns, main does not cancel, and the backend
\* runs on without anyone renewing the lease.
StopMonitoring(n) ==
  /\ pc[n] = "monitor" /\ watch[n] = "closed"
  /\ pc' = [pc EXCEPT ![n] = "unmonitored"]
  /\ UNCHANGED <<now, config, kv, cfg, seen, attempts, lease, file, wake, fails,
                 watch, evts>>

RenewLease(n) ==
  /\ pc[n] = "monitor" /\ wake[n] <= now
  /\ RoomFor(lease[n])
  /\ Put(n, lease[n])
  /\ wake' = [wake EXCEPT ![n] = RenewAt(now + TTL)]
  /\ fails' = [fails EXCEPT ![n] = 0]
  /\ UNCHANGED <<now, config, pc, cfg, seen, attempts, lease, file, watch>>

\* An error renewing: try again in one minute.  If it was the Put that failed,
\* updateSubnet revokes the lease it was granted.  When the Put had been applied
\* all the same, that deletes the key, or leaves it if the Revoke fails too.
RenewFails(n) ==
  /\ pc[n] = "monitor" /\ wake[n] <= now /\ fails[n] < MaxFails
  /\ RoomFor(lease[n])
  /\ \/ UNCHANGED <<kv, evts>>
     \/ "lostReply" \in Faults /\ Remove({lease[n]})
     \/ "lostReply" \in Faults /\ Put(n, lease[n])
  /\ wake' = [wake EXCEPT ![n] = now + 1]
  /\ fails' = [fails EXCEPT ![n] = @ + 1]
  /\ UNCHANGED <<now, config, pc, cfg, seen, attempts, lease, file, watch>>

\* A signal, a crash, or an error of etcd that ends AcquireLease.
Stop(n) ==
  /\ pc[n] # "down"
  /\ Idle(n)
  /\ UNCHANGED <<now, config, kv, cfg, attempts, file>>

-----------------------------------------------------------------------------
\* Time, etcd's lease expiry, and the operator.

Acquiring(n) == pc[n] \in {"list", "decide", "create", "acquired"}

\* Without "slow", a startup and a renewal that is due take less than a unit.
Prompt ==
  \A n \in Nodes :
    /\ ~Acquiring(n) /\ watch[n] # "starting"
    /\ pc[n] = "monitor" => now < wake[n]

Expired(t) == {s \in Live : kv[s].exp # Reserved /\ kv[s].exp <= t}

Tick ==
  /\ now < MaxTime
  /\ Prompt \/ "slow" \in Faults
  /\ \A s \in Expired(now + 1) : RoomFor(s)
  /\ now' = now + 1
  /\ Remove(Expired(now + 1))
  /\ UNCHANGED <<config, pc, cfg, seen, attempts, lease, file, wake, fails, watch>>

Revoke(s) ==
  /\ "revoke" \in Faults
  /\ s \in Live /\ RoomFor(s)
  /\ Remove({s})
  /\ UNCHANGED <<now, config, pc, cfg, seen, attempts, lease, file, wake, fails,
                 watch>>

Reserve(s) ==
  /\ "reserve" \in Faults
  /\ s \in Live /\ kv[s].exp # Reserved /\ RoomFor(s)
  /\ kv' = [kv EXCEPT ![s].exp = Reserved]
  /\ Notify({s})
  /\ UNCHANGED <<now, config, pc, cfg, seen, attempts, lease, file, wake, fails,
                 watch>>

SetConfig(c) ==
  /\ c # config
  /\ config' = c
  /\ UNCHANGED <<now, kv, pc, cfg, seen, attempts, lease, file, wake, fails,
                 watch, evts>>

-----------------------------------------------------------------------------
KeyType == {NoKey} \cup [pub : Nodes, exp : Int]
LeaseType == [sn : Subnets, pub : Nodes, exp : Int]
EventType == [type : {"added", "removed", "logged"}, exp : Int]

\* Every variable keeps its Go type: at most raceRetries attempts, keys owned by one
\* node, and a queue of well-formed events for every own-lease watch.
TypeOK ==
  /\ now \in Int /\ config \in Configs
  /\ kv \in [Subnets -> KeyType]
  /\ pc \in [Nodes -> {"down", "list", "decide", "create", "acquired", "monitor",
                       "unmonitored"}]
  /\ cfg \in [Nodes -> Configs]
  /\ seen \in [Nodes -> SUBSET LeaseType]
  /\ attempts \in [Nodes -> 0 .. raceRetries]
  /\ lease \in [Nodes -> Subnets \cup {None}]
  /\ file \in [Nodes -> Subnets \cup {None}]
  /\ wake \in [Nodes -> Int]
  /\ fails \in [Nodes -> 0 .. MaxFails]
  /\ watch \in [Nodes -> {"off", "starting", "on", "closed"}]
  /\ evts \in [Nodes -> Seq(EventType)]

Init ==
  /\ now = 1
  /\ config \in Configs
  /\ kv = [s \in Subnets |-> NoKey]
  /\ pc = [n \in Nodes |-> "down"]
  /\ cfg = [n \in Nodes |-> config]
  /\ seen = [n \in Nodes |-> {}]
  /\ attempts = [n \in Nodes |-> 0]
  /\ lease = [n \in Nodes |-> None]
  /\ file = [n \in Nodes |-> None]
  /\ wake = [n \in Nodes |-> 0]
  /\ fails = [n \in Nodes |-> 0]
  /\ watch = [n \in Nodes |-> "off"]
  /\ evts = [n \in Nodes |-> <<>>]

Next ==
  \/ \E n \in Nodes :
       \/ Start(n) \/ getSubnets(n) \/ ReuseLease(n) \/ DropLease(n)
       \/ createSubnet(n) \/ CreateLost(n) \/ OutOfSubnets(n)
       \/ HandleSubnetFile(n) \/ WatchLease(n) \/ resyncWatchSubnet(n)
       \/ EventAdded(n) \/ EventRemoved(n) \/ EventLogged(n) \/ StopMonitoring(n)
       \/ RenewLease(n) \/ RenewFails(n) \/ Stop(n)
  \/ Tick
  \/ \E s \in Subnets : Revoke(s) \/ Reserve(s)
  \/ \E c \in Configs : SetConfig(c)

Spec == Init /\ [][Next]_vars

\* The goroutines of a running daemon are scheduled: an event that is queued is
\* handled, an own-lease watch that was started gets its answer.
FairSpec ==
  /\ Spec
  /\ \A n \in Nodes :
       /\ WF_vars(EventAdded(n) \/ EventRemoved(n) \/ EventLogged(n) \/ StopMonitoring(n))
       /\ WF_vars(HandleSubnetFile(n) \/ WatchLease(n))

-----------------------------------------------------------------------------
\* A daemon that has a lease and routes traffic with it.
Running(n) == pc[n] \in {"acquired", "monitor", "unmonitored"}

\* No two running daemons have overlapping subnets, whatever the order in which
\* acquisitions, renewals, restarts and expiries interleave.
Exclusive ==
  \A n, m \in Nodes :
    n # m /\ Running(n) /\ Running(m) => <<lease[n], lease[m]>> \notin Conflicts

\* The lease of a running daemon is in etcd, under its own public IP, and has
\* not expired: CompleteLease renews in time although attempts may fail.
LeaseBacked ==
  \A n \in Nodes :
    Running(n) => /\ kv[lease[n]].pub = n
                  /\ kv[lease[n]].exp > now

\* A host never has two keys in etcd: a restart finds and reuses the lease, and a
\* lease that no longer fits is deleted before another one is created.
OneKeyPerNode ==
  \A s, t \in Subnets :
    kv[s] # NoKey /\ kv[t] # NoKey /\ kv[s].pub = kv[t].pub => s = t

\* updateSubnet puts unconditionally, yet no step turns one host's key into
\* another host's.
NoTakeover ==
  [][\A s \in Subnets :
       kv[s] # NoKey /\ kv'[s] # NoKey => kv'[s].pub = kv[s].pub]_vars

\* The reuse rule of tryAcquireLease: a daemon that acquires a lease when etcd
\* holds one of its own that fits its configuration gets that subnet again.
ExistingLeaseUsed ==
  [][\A n \in Nodes :
       /\ pc[n] \in {"decide", "create"} /\ pc'[n] = "acquired"
       /\ \E s \in cfg[n] : kv[s].pub = n
       => kv[lease'[n]].pub = n]_vars

\* What is queued for the own-lease watch ends with what the key is now, and an
\* empty queue means the key exists. Only a put whose TimeToLive failed is not told:
\* no compaction and no other fault makes the watch miss the last change of the key,
\* and none at all its removal.
WatchFaithful ==
  \A n \in Nodes :
    watch[n] = "on" =>
      IF evts[n] = <<>>
      THEN kv[lease[n]] # NoKey
      ELSE \E failed \in BOOLEAN :
             /\ failed => "eventTTL" \in Faults
             /\ evts[n][Len(evts[n])] = parseSubnetWatchResponse(kv[lease[n]], failed)

\* No daemon goes on with a key that is gone for good: CompleteLease hears of the
\* removal and shuts it down, whatever the watch went through.
GoneStops ==
  \A n \in Nodes : ~ <>[](watch[n] = "on" /\ kv[lease[n]] = NoKey)
=============================================================================
