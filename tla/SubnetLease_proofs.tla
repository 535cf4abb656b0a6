------------------------- MODULE SubnetLease_proofs -------------------------
(***************************************************************************)
(* The safety theorems of SubnetLease, for any sets of nodes and subnets   *)
(* and any timing that satisfies the assumptions of that module.           *)
(***************************************************************************)
EXTENDS SubnetLease, TLAPS

\* What TypeOK leaves open: a daemon that runs has a subnet, and only a daemon
\* past HandleSubnetFile has an own-lease watch.
HasSubnet ==
  \A n \in Nodes :
    /\ Running(n) => lease[n] \in Subnets
    /\ watch[n] # "off" => pc[n] \in {"monitor", "unmonitored"}

TInv == TypeOK /\ HasSubnet

-----------------------------------------------------------------------------
\* Notify appends well-formed events.
LEMMA NoteType ==
  ASSUME TypeOK, HasSubnet, kv' \in [Subnets -> KeyType], NEW S, Notify(S)
  PROVE  evts' \in [Nodes -> Seq(EventType)]
  <1>0. PICK failed \in SUBSET Nodes :
          evts' = [n \in Nodes |->
                     IF watch[n] = "on" /\ lease[n] \in S
                     THEN Append(evts[n], parseSubnetWatchResponse(kv'[lease[n]], n \in failed))
                     ELSE evts[n]]
    BY Zenon DEF Notify
  <1> SUFFICES ASSUME NEW n \in Nodes
               PROVE  (IF watch[n] = "on" /\ lease[n] \in S
                       THEN Append(evts[n], parseSubnetWatchResponse(kv'[lease[n]], n \in failed))
                       ELSE evts[n])
                      \in Seq(EventType)
    BY Zenon, <1>0
  <1>1. evts[n] \in Seq(EventType)
    BY Zenon DEF TypeOK, EventType
  <1>2. CASE watch[n] = "on"
    <2>1. kv'[lease[n]] \in KeyType
      BY Zenon, <1>2 DEF HasSubnet, Running
    <2> DEFINE e == parseSubnetWatchResponse(kv'[lease[n]], n \in failed)
    <2>2. e \in EventType
      BY <2>1 DEF parseSubnetWatchResponse, Event, EventType, KeyType, NoKey
    <2> HIDE DEF e
    <2>3. Append(evts[n], e) \in Seq(EventType)
      BY <1>1, <2>2
    <2> QED BY Zenon, <1>1, <2>3 DEF e
  <1> QED BY Zenon, <1>1, <1>2

\* A Put and a removal keep kv well-formed.
LEMMA PutType ==
  ASSUME TInv, NEW n \in Nodes, NEW s \in Subnets, Put(n, s)
  PROVE  kv' \in [Subnets -> KeyType] /\ evts' \in [Nodes -> Seq(EventType)]
  <1>1. kv' \in [Subnets -> KeyType]
    BY TimingAssumption DEF TInv, TypeOK, Put, Key, KeyType
  <1> QED BY Zenon, <1>1, NoteType DEF TInv, Put

\* Removing keys, by expiry, revocation or deleteSubnet, keeps the registry and
\* the event queues well formed.
LEMMA RemoveType ==
  ASSUME TInv, NEW S, Remove(S)
  PROVE  kv' \in [Subnets -> KeyType] /\ evts' \in [Nodes -> Seq(EventType)]
  <1>1. kv' \in [Subnets -> KeyType]
    BY Zenon DEF TInv, TypeOK, Remove, KeyType
  <1> QED BY Zenon, <1>1, NoteType DEF TInv, Remove

\* The subnets tryAcquireLease may ask for are keys of the configuration.
LEMMA CandidatesType ==
  ASSUME TInv, NEW n \in Nodes
  PROVE  Candidates(n) \subseteq Subnets
  BY KeyAssumption DEF TInv, TypeOK, Candidates, PreviousUsable, allocateSubnet

\* A daemon that stops or restarts keeps every variable in its type.
LEMMA IdleType ==
  ASSUME TInv, NEW n \in Nodes, Idle(n),
         UNCHANGED <<now, config, kv, cfg, attempts, file>>
  PROVE  TInv'
  BY TimingAssumption DEF TInv, TypeOK, HasSubnet, Running, Idle

-----------------------------------------------------------------------------
\* The empty registry with no daemon running is well typed.
LEMMA TypeInit == Init => TInv
  <1>1. Init => TypeOK
    BY TimingAssumption DEF Init, TypeOK, raceRetries, KeyType, EventType
  <1>2. Init => HasSubnet
    BY Zenon DEF Init, HasSubnet, Running
  <1> QED BY Zenon, <1>1, <1>2 DEF TInv

\* Every action keeps the types and the subnet of a running daemon.
LEMMA TypeStep == TInv /\ [Next]_vars => TInv'
  <1> SUFFICES ASSUME TInv, [Next]_vars PROVE TInv'
    BY Zenon
  <1> USE DEF TInv
  <1>1. ASSUME NEW n \in Nodes, Start(n) PROVE TInv'
    BY <1>1 DEF Start, TypeOK, HasSubnet, Running, raceRetries
  <1>2. ASSUME NEW n \in Nodes, getSubnets(n) PROVE TInv'
    <2>1. ASSUME NEW s \in Live PROVE LeaseOf(s) \in LeaseType
      <3>1. kv[s] \in [pub : Nodes, exp : Int]
        BY Zenon, <2>1 DEF Live, TypeOK, KeyType
      <3> QED BY <2>1, <3>1 DEF LeaseOf, LeaseType, kvToIPLease, TypeOK, Live
    <2>2. seen' \in [Nodes -> SUBSET LeaseType]
      BY <1>2, <2>1 DEF getSubnets, TypeOK, LeaseType
    <2>3. TypeOK'
      BY Zenon, <1>2, <2>2
      DEF getSubnets, TypeOK
    <2>4. HasSubnet'
      BY Zenon, <1>2, <2>2
      DEF getSubnets, TypeOK, HasSubnet, Running
    <2> QED BY Zenon, <2>3, <2>4
  <1>3. ASSUME NEW n \in Nodes, ReuseLease(n) PROVE TInv'
    <2>1. PICK l \in findLeaseByIP(n) :
            /\ kv' = [kv EXCEPT ![l.sn] =
                        Key(n, IF l.exp = ZeroTime THEN Reserved ELSE now + TTL)]
            /\ Acquired(n, l.sn, IF l.exp = ZeroTime THEN Reserved ELSE now + TTL)
            /\ Notify({l.sn})
      BY Zenon, <1>3 DEF ReuseLease
    <2>2. l.sn \in Subnets
      BY DEF findLeaseByIP, TypeOK, LeaseType
    <2>3. (IF l.exp = ZeroTime THEN Reserved ELSE now + TTL) \in Int
      BY TimingAssumption DEF Reserved, TypeOK, TInv
    <2>4. kv' \in [Subnets -> KeyType]
      BY Zenon, <2>1, <2>2, <2>3 DEF TypeOK, Key, KeyType
    <2>5. evts' \in [Nodes -> Seq(EventType)]
      BY Zenon, <2>1, <2>4, NoteType
    <2>6. TypeOK'
      <3>1. UNCHANGED <<now, config, cfg, attempts, file, watch>>
        BY Zenon, <1>3 DEF ReuseLease
      <3>2. /\ pc' = [pc EXCEPT ![n] = "acquired"]
            /\ lease' = [lease EXCEPT ![n] = l.sn]
            /\ wake' \in [Nodes -> Int]
            /\ fails' \in [Nodes -> 0 .. MaxFails]
            /\ seen' \in [Nodes -> SUBSET LeaseType]
        BY <2>1, <2>3, TimingAssumption DEF Acquired, RenewAt, TypeOK
      <3> QED BY Zenon, <2>2, <2>4, <2>5, <3>1, <3>2 DEF TypeOK
    <2>7. HasSubnet'
      BY Zenon, <1>3, <2>1, <2>2, <2>3, <2>4, <2>5, TimingAssumption
      DEF ReuseLease, Acquired, RenewAt, TypeOK, HasSubnet, Running
    <2> QED BY Zenon, <2>6, <2>7
  <1>4. ASSUME NEW n \in Nodes, DropLease(n) PROVE TInv'
    <2>1. PICK l \in findLeaseByIP(n) : Remove({l.sn})
      BY Zenon, <1>4 DEF DropLease, deleteSubnet
    <2>2. kv' \in [Subnets -> KeyType] /\ evts' \in [Nodes -> Seq(EventType)]
      BY Zenon, <2>1, RemoveType
    <2>3. TypeOK'
      BY Zenon, <1>4, <2>2
      DEF DropLease, TypeOK
    <2>4. HasSubnet'
      BY Zenon, <1>4, <2>2
      DEF DropLease, TypeOK, HasSubnet, Running
    <2> QED BY Zenon, <2>3, <2>4
  <1>5. ASSUME NEW n \in Nodes, createSubnet(n) PROVE TInv'
    <2>1. PICK s \in Candidates(n) : Put(n, s) /\ Acquired(n, s, now + TTL)
      BY Zenon, <1>5 DEF createSubnet
    <2>2. s \in Subnets
      BY Zenon, CandidatesType
    <2>3. kv' \in [Subnets -> KeyType] /\ evts' \in [Nodes -> Seq(EventType)]
      BY Zenon, <2>1, <2>2, PutType
    <2>4. UNCHANGED <<now, config, cfg, attempts, file, watch>>
      BY Zenon, <1>5 DEF createSubnet
    <2>5. TypeOK'
      <3>1. /\ pc' = [pc EXCEPT ![n] = "acquired"]
            /\ lease' = [lease EXCEPT ![n] = s]
            /\ wake' \in [Nodes -> Int]
            /\ fails' \in [Nodes -> 0 .. MaxFails]
            /\ seen' \in [Nodes -> SUBSET LeaseType]
        BY <2>1, TimingAssumption DEF Acquired, RenewAt, TypeOK
      <3> QED BY Zenon, <2>2, <2>3, <2>4, <3>1 DEF TypeOK
    <2>6. watch[n] = "off"
      BY Zenon, <1>5 DEF createSubnet, CanCreate, HasSubnet
    <2>7. HasSubnet'
      BY Zenon, <2>1, <2>2, <2>4, <2>6 DEF Acquired, TypeOK, HasSubnet, Running
    <2> QED BY Zenon, <2>5, <2>7
  <1>6. ASSUME NEW n \in Nodes, CreateLost(n) PROVE TInv'
    <2>1. CASE Idle(n) /\ UNCHANGED attempts
      BY Zenon, <1>6, <2>1, IdleType DEF CreateLost
    <2>2. CASE ~Idle(n)
      BY Zenon, <1>6, <2>2 DEF CreateLost, isErrEtcdNodeExist
    <2> QED BY Zenon, <1>6, <2>1, <2>2 DEF CreateLost, isErrEtcdNodeExist
  <1>7. ASSUME NEW n \in Nodes, OutOfSubnets(n) PROVE TInv'
    BY Zenon, <1>7, IdleType DEF OutOfSubnets
  <1>8. ASSUME NEW n \in Nodes, HandleSubnetFile(n) PROVE TInv'
    BY Zenon, <1>8 DEF HandleSubnetFile, TypeOK, HasSubnet, Running
  <1>9. ASSUME NEW n \in Nodes, WatchLease(n) PROVE TInv'
    <2>1. kv[lease[n]] \in KeyType
      BY Zenon, <1>9 DEF WatchLease, HasSubnet, Running, TypeOK, KeyType
    <2>2. <<Event(kv[lease[n]])>> \in Seq(EventType)
      BY <2>1 DEF Event, EventType, KeyType, NoKey
    <2>3. TypeOK'
      <3>1. /\ watch' \in [Nodes -> {"off", "starting", "on", "closed"}]
            /\ evts' \in [Nodes -> Seq(EventType)]
        <4>1. CASE evts' = [evts EXCEPT ![n] = <<Event(kv[lease[n]])>>]
          BY Zenon, <1>9, <2>2, <4>1 DEF WatchLease, TypeOK
        <4>2. CASE UNCHANGED evts
          BY Zenon, <1>9, <4>2 DEF WatchLease, TypeOK
        <4> QED BY Zenon, <1>9, <4>1, <4>2 DEF WatchLease
      <3> QED BY Zenon, <1>9, <3>1 DEF WatchLease, TypeOK
    <2>4. HasSubnet'
      BY Zenon, <1>9, <2>2
      DEF WatchLease, TypeOK, HasSubnet, Running
    <2> QED BY Zenon, <2>3, <2>4
  <1>10. ASSUME NEW n \in Nodes, resyncWatchSubnet(n) PROVE TInv'
    <2>1. kv[lease[n]] \in KeyType
      BY Zenon, <1>10 DEF resyncWatchSubnet, HasSubnet, Running, TypeOK, KeyType
    <2>2. ResyncResult(kv[lease[n]]) \in Seq(EventType)
      BY <2>1 DEF ResyncResult, Event, EventType, KeyType, NoKey
    <2>3. TypeOK'
      BY Zenon, <1>10, <2>2
      DEF resyncWatchSubnet, TypeOK
    <2>4. HasSubnet'
      BY Zenon, <1>10, <2>2
      DEF resyncWatchSubnet, TypeOK, HasSubnet, Running
    <2> QED BY Zenon, <2>3, <2>4
  <1>11. ASSUME NEW n \in Nodes, EventAdded(n) PROVE TInv'
    <2>1. /\ Head(evts[n]) \in EventType
          /\ Tail(evts[n]) \in Seq(EventType)
      <3>1. evts[n] \in Seq(EventType) /\ evts[n] # <<>>
        BY Zenon, <1>11 DEF EventAdded, TypeOK
      <3> QED BY <3>1
    <2>2. RenewAt(kvToIPLease(Head(evts[n]).exp)) \in Int
      BY SMTT(30), <2>1, TimingAssumption DEF EventType, RenewAt, kvToIPLease, TypeOK
    <2>3. TypeOK'
      BY Zenon, <1>11, <2>1, <2>2
      DEF EventAdded, TypeOK
    <2>4. HasSubnet'
      BY Zenon, <1>11, <2>1, <2>2
      DEF EventAdded, TypeOK, HasSubnet, Running
    <2> QED BY Zenon, <2>3, <2>4
  <1>12. ASSUME NEW n \in Nodes, EventRemoved(n) PROVE TInv'
    BY Zenon, <1>12, IdleType DEF EventRemoved
  <1>22. ASSUME NEW n \in Nodes, EventLogged(n) PROVE TInv'
    <2>1. Tail(evts[n]) \in Seq(EventType)
      <3>1. evts[n] \in Seq(EventType) /\ evts[n] # <<>>
        BY Zenon, <1>22 DEF EventLogged, TypeOK
      <3> QED BY <3>1
    <2>2. TypeOK'
      BY Zenon, <1>22, <2>1 DEF EventLogged, TypeOK
    <2> QED BY Zenon, <1>22, <2>2 DEF EventLogged, HasSubnet, Running
  <1>13. ASSUME NEW n \in Nodes, StopMonitoring(n) PROVE TInv'
    BY Zenon, <1>13 DEF StopMonitoring, TypeOK, HasSubnet, Running
  <1>14. ASSUME NEW n \in Nodes, RenewLease(n) PROVE TInv'
    <2>1. lease[n] \in Subnets
      BY Zenon, <1>14 DEF RenewLease, HasSubnet, Running
    <2>2. kv' \in [Subnets -> KeyType] /\ evts' \in [Nodes -> Seq(EventType)]
      BY Zenon, <1>14, <2>1, PutType DEF RenewLease
    <2>3. TypeOK'
      <3>1. wake' \in [Nodes -> Int] /\ fails' \in [Nodes -> 0 .. MaxFails]
        BY <1>14, TimingAssumption DEF RenewLease, RenewAt, TypeOK
      <3> QED BY Zenon, <1>14, <2>2, <3>1 DEF RenewLease, TypeOK
    <2>4. HasSubnet'
      BY Zenon, <1>14, <2>2, TimingAssumption
      DEF RenewLease, RenewAt, TypeOK, HasSubnet, Running
    <2> QED BY Zenon, <2>3, <2>4
  <1>15. ASSUME NEW n \in Nodes, RenewFails(n) PROVE TInv'
    <2>1. lease[n] \in Subnets
      BY Zenon, <1>15 DEF RenewFails, HasSubnet, Running
    <2>2. kv' \in [Subnets -> KeyType] /\ evts' \in [Nodes -> Seq(EventType)]
      <3>1. CASE UNCHANGED <<kv, evts>>
        BY Zenon, <3>1 DEF TypeOK, EventType, KeyType
      <3>2. CASE Remove({lease[n]})
        BY Zenon, <3>2, RemoveType
      <3>3. CASE Put(n, lease[n])
        BY Zenon, <3>3, <2>1, PutType
      <3> QED BY Zenon, <1>15, <3>1, <3>2, <3>3 DEF RenewFails
    <2>3. TypeOK'
      <3>1. wake' \in [Nodes -> Int] /\ fails' \in [Nodes -> 0 .. MaxFails]
        BY <1>15, TimingAssumption DEF RenewFails, TypeOK
      <3> QED BY Zenon, <1>15, <2>2, <3>1 DEF RenewFails, TypeOK
    <2>4. HasSubnet'
      BY Zenon, <1>15, <2>2, TimingAssumption
      DEF RenewFails, TypeOK, HasSubnet, Running
    <2> QED BY Zenon, <2>3, <2>4
  <1>16. ASSUME NEW n \in Nodes, Stop(n) PROVE TInv'
    BY Zenon, <1>16, IdleType DEF Stop
  <1>17. CASE Tick
    <2>1. kv' \in [Subnets -> KeyType] /\ evts' \in [Nodes -> Seq(EventType)]
      BY Zenon, <1>17, RemoveType DEF Tick
    <2>2. TypeOK'
      BY <1>17, <2>1 DEF Tick, TypeOK
    <2> QED BY Zenon, <1>17, <2>2 DEF Tick, HasSubnet, Running
  <1>18. ASSUME NEW s \in Subnets, Revoke(s) PROVE TInv'
    <2>1. kv' \in [Subnets -> KeyType] /\ evts' \in [Nodes -> Seq(EventType)]
      BY Zenon, <1>18, RemoveType DEF Revoke
    <2>2. TypeOK'
      BY Zenon, <1>18, <2>1 DEF Revoke, TypeOK
    <2> QED BY Zenon, <1>18, <2>2 DEF Revoke, HasSubnet, Running
  <1>19. ASSUME NEW s \in Subnets, Reserve(s) PROVE TInv'
    <2>1. kv' \in [Subnets -> KeyType]
      BY <1>19 DEF Reserve, Live, Reserved, KeyType, TypeOK
    <2>2. TypeOK'
      BY Zenon, <1>19, <2>1, NoteType DEF Reserve, TypeOK
    <2> QED BY Zenon, <1>19, <2>2 DEF Reserve, HasSubnet, Running
  <1>20. ASSUME NEW c \in Configs, SetConfig(c) PROVE TInv'
    BY Zenon, <1>20 DEF SetConfig, TypeOK, HasSubnet, Running
  <1>21. CASE UNCHANGED vars
    BY Zenon, <1>21 DEF vars, TypeOK, HasSubnet, Running
  <1> QED
    BY Zenon, <1>1, <1>2, <1>3, <1>4, <1>5, <1>6, <1>7, <1>8, <1>9, <1>10, <1>11, <1>12,
       <1>13, <1>14, <1>15, <1>16, <1>17, <1>18, <1>19, <1>20, <1>21, <1>22 DEF Next

\* Type correctness of the lease protocol under every environment fault.
THEOREM TypeCorrect == Spec => []TypeOK
  <1>1. TInv => TypeOK
    BY Zenon DEF TInv
  <1> QED BY <1>1, TypeInit, TypeStep, PTL DEF Spec

-----------------------------------------------------------------------------
(* The own-lease watch.                                                    *)

\* What watchSubnet may make of the news that a key is k.
Parsed(k) ==
  {parseSubnetWatchResponse(k, failed) :
     failed \in {b \in BOOLEAN : b => "eventTTL" \in Faults}}

\* What the watch of n will still tell it.
Faithful(n) ==
  watch[n] = "on" => IF evts[n] = <<>> THEN kv[lease[n]] # NoKey
                     ELSE evts[n][Len(evts[n])] \in Parsed(kv[lease[n]])

\* Only the news of a removal is a removal, and all news carry the key's expiration.
LEMMA ParsedFacts ==
  ASSUME NEW k
  PROVE  /\ Event(k) \in Parsed(k)
         /\ \A e \in Parsed(k) : (e.type # "removed" => k # NoKey) /\ e.exp = k.exp
  <1>1. Event(k) = parseSubnetWatchResponse(k, FALSE)
    BY Zenon DEF parseSubnetWatchResponse
  <1>2. ASSUME k = NoKey, NEW e \in Parsed(k) PROVE e.type = "removed"
    <2>1. e = Event(k)
      BY Zenon, <1>2 DEF Parsed, parseSubnetWatchResponse
    <2> QED BY Zenon, <1>2, <2>1 DEF Event
  <1>3. ASSUME NEW e \in Parsed(k) PROVE e.exp = k.exp
    <2>1. e = [type |-> "logged", exp |-> k.exp] \/ e = Event(k)
      BY Zenon, <1>3 DEF Parsed, parseSubnetWatchResponse
    <2> QED BY <2>1 DEF Event
  <1> QED BY Zenon, <1>1, <1>2, <1>3 DEF Parsed

\* A watch of a changed key gets the news appended.
LEMMA Told ==
  ASSUME NEW S, Notify(S), NEW n \in Nodes
  PROVE  /\ watch[n] = "on" /\ lease[n] \in S
              => \E e \in Parsed(kv'[lease[n]]) : evts'[n] = Append(evts[n], e)
         /\ ~(watch[n] = "on" /\ lease[n] \in S) => evts'[n] = evts[n]
  <1>0. PICK failed \in SUBSET Nodes :
          /\ failed # {} => "eventTTL" \in Faults
          /\ evts' = [m \in Nodes |->
                        IF watch[m] = "on" /\ lease[m] \in S
                        THEN Append(evts[m], parseSubnetWatchResponse(kv'[lease[m]], m \in failed))
                        ELSE evts[m]]
    BY Zenon DEF Notify
  <1>1. parseSubnetWatchResponse(kv'[lease[n]], n \in failed) \in Parsed(kv'[lease[n]])
    <2>1. CASE n \in failed
      <3>1. "eventTTL" \in Faults
        BY Zenon, <1>0, <2>1
      <3>2. parseSubnetWatchResponse(kv'[lease[n]], n \in failed)
              = parseSubnetWatchResponse(kv'[lease[n]], TRUE)
        BY Zenon, <2>1 DEF parseSubnetWatchResponse
      <3> QED BY Zenon, <3>1, <3>2 DEF Parsed
    <2>2. CASE n \notin failed
      <3>1. parseSubnetWatchResponse(kv'[lease[n]], n \in failed)
              = Event(kv'[lease[n]])
        BY Zenon, <2>2 DEF parseSubnetWatchResponse
      <3> QED BY Zenon, <3>1, ParsedFacts
    <2> QED BY Zenon, <2>1, <2>2
  <1> QED BY Zenon, <1>0, <1>1

WInv == TInv /\ \A n \in Nodes : Faithful(n)

\* A queue is empty when it has no events.
LEMMA NoEvents == ASSUME NEW q \in Seq(EventType) PROVE q = <<>> <=> Len(q) = 0
  OBVIOUS

\* An event of every changed key reaches every watch of it.
LEMMA NotifyFaithful ==
  ASSUME WInv, NEW S, Notify(S), \A s \in Subnets \ S : kv'[s] = kv[s],
         NEW n \in Nodes, watch'[n] = watch[n], watch[n] = "on" => lease'[n] = lease[n]
  PROVE  Faithful(n)'
  <1> SUFFICES ASSUME watch[n] = "on"
               PROVE  IF evts'[n] = <<>> THEN kv'[lease[n]] # NoKey
                      ELSE evts'[n][Len(evts'[n])] \in Parsed(kv'[lease[n]])
    BY Zenon DEF Faithful, Parsed
  <1>1. evts[n] \in Seq(EventType) /\ lease[n] \in Subnets /\ Faithful(n)
    BY Zenon DEF WInv, TInv, TypeOK, HasSubnet, Running
  <1>2. CASE lease[n] \in S
    <2>1. PICK e \in Parsed(kv'[lease[n]]) : evts'[n] = Append(evts[n], e)
      BY Zenon, <1>2, Told
    <2>2. Append(evts[n], e) # <<>> /\ Append(evts[n], e)[Len(Append(evts[n], e))] = e
      BY <1>1
    <2> QED BY Zenon, <2>1, <2>2
  <1>3. CASE lease[n] \notin S
    <2>1. evts'[n] = evts[n] /\ kv'[lease[n]] = kv[lease[n]]
      BY Zenon, <1>1, <1>3, Told
    <2> QED BY Zenon, <1>1, <2>1 DEF Faithful
  <1> QED BY Zenon, <1>2, <1>3

\* Every write goes through Notify, and a watch is opened on the state it has read.
LEMMA WatchStep == WInv /\ [Next]_vars => WInv'
  <1> SUFFICES ASSUME WInv, [Next]_vars PROVE WInv'
    BY Zenon
  <1> DEFINE Kept == \A m \in Nodes : Faithful(m)'
  <1>a. TInv /\ \A m \in Nodes : Faithful(m)
    BY Zenon DEF WInv
  <1>b. /\ DOMAIN watch = Nodes /\ DOMAIN evts = Nodes
        /\ DOMAIN lease = Nodes /\ DOMAIN kv = Subnets
        /\ \A n \in Nodes : evts[n] \in Seq(EventType)
        /\ \A n \in Nodes : watch[n] # "off" => pc[n] \in {"monitor", "unmonitored"}
    BY Zenon, <1>a DEF TInv, TypeOK, HasSubnet
  <1>c. ASSUME NEW n \in Nodes, kv' = kv, Faithful(n)',
               \A m \in Nodes : m # n => /\ watch'[m] = watch[m] /\ lease'[m] = lease[m]
                                         /\ evts'[m] = evts[m]
        PROVE  Kept
    BY Zenon, <1>a, <1>c DEF Faithful
  <1>d. ASSUME kv' = kv, watch' = watch, lease' = lease, evts' = evts PROVE Kept
    BY Zenon, <1>a, <1>d DEF Faithful
  <1>e. ASSUME NEW S, Notify(S), \A s \in Subnets \ S : kv'[s] = kv[s],
               watch' = watch, lease' = lease
        PROVE  Kept
    BY Zenon, <1>e, NotifyFaithful
  <1>1. ASSUME NEW n \in Nodes, ReuseLease(n) \/ createSubnet(n) PROVE Kept
    <2>1. PICK s : /\ Notify({s}) /\ \A t \in Subnets \ {s} : kv'[t] = kv[t]
                   /\ lease' = [lease EXCEPT ![n] = s]
      <3>1. CASE ReuseLease(n)
        BY Zenon, <1>b, <3>1 DEF ReuseLease, Acquired
      <3>2. CASE createSubnet(n)
        BY Zenon, <1>b, <3>2 DEF createSubnet, Put, Acquired
      <3> QED BY Zenon, <1>1, <3>1, <3>2
    <2>2. watch' = watch /\ watch[n] # "on"
      BY Zenon, <1>1, <1>b DEF ReuseLease, createSubnet, CanCreate
    <2> QED BY Zenon, <1>b, <2>1, <2>2, NotifyFaithful
  <1>2. ASSUME NEW n \in Nodes, Idle(n), kv' = kv PROVE Kept
    <2>1. Faithful(n)'
      BY Zenon, <1>2, <1>b DEF Faithful, Idle
    <2> QED BY Zenon, <1>2, <1>b, <1>c, <2>1 DEF Idle
  <1>3. ASSUME NEW n \in Nodes, CreateLost(n) \/ OutOfSubnets(n) \/ EventRemoved(n) \/ Stop(n)
        PROVE  Kept
    BY Zenon, <1>2, <1>3 DEF CreateLost, OutOfSubnets, EventRemoved, Stop, isErrEtcdNodeExist
  <1>4. ASSUME NEW n \in Nodes, HandleSubnetFile(n) PROVE Kept
    <2>1. Faithful(n)'
      BY Zenon, <1>4, <1>b DEF Faithful, HandleSubnetFile
    <2> QED BY Zenon, <1>4, <1>b, <1>c, <2>1 DEF HandleSubnetFile
  <1>5. ASSUME NEW n \in Nodes, WatchLease(n) \/ resyncWatchSubnet(n) PROVE Kept
    <2>1. watch'[n] = "on" => evts'[n] = <<Event(kv[lease[n]])>>
      BY Zenon, <1>5, <1>b DEF WatchLease, resyncWatchSubnet, ResyncResult
    <2>2. /\ kv' = kv /\ lease' = lease
          /\ \A m \in Nodes : m # n => watch'[m] = watch[m] /\ evts'[m] = evts[m]
      BY Zenon, <1>5, <1>b DEF WatchLease, resyncWatchSubnet
    <2>3. Faithful(n)'
      <3> DEFINE e == Event(kv[lease[n]])
      <3> HIDE DEF e
      <3>1. <<e>> # <<>> /\ <<e>>[Len(<<e>>)] = e
        BY Zenon
      <3>2. watch'[n] = "on" => evts'[n] = <<e>> /\ e \in Parsed(kv'[lease'[n]])
        BY Zenon, <2>1, <2>2, ParsedFacts DEF e
      <3> QED BY Zenon, <3>1, <3>2 DEF Faithful, Parsed
    <2> QED BY Zenon, <1>c, <2>2, <2>3
  <1>6. ASSUME NEW n \in Nodes, EventAdded(n) \/ EventLogged(n) PROVE Kept
    <2>1. /\ evts[n] # <<>> /\ evts[n] \in Seq(EventType) /\ Head(evts[n]).type # "removed"
          /\ evts'[n] = Tail(evts[n]) /\ kv' = kv /\ watch' = watch /\ lease' = lease
          /\ \A m \in Nodes : m # n => evts'[m] = evts[m]
      BY Zenon, <1>6, <1>b DEF EventAdded, EventLogged
    <2>2. ASSUME watch[n] = "on"
          PROVE  IF evts'[n] = <<>> THEN kv[lease[n]] # NoKey
                 ELSE evts'[n][Len(evts'[n])] \in Parsed(kv[lease[n]])
      <3>1. evts[n][Len(evts[n])] \in Parsed(kv[lease[n]])
        BY Zenon, <1>a, <2>1, <2>2 DEF Faithful
      <3> DEFINE q == evts[n]
      <3>2. /\ Tail(q) \in Seq(EventType) /\ Len(q) \in Nat \ {0} /\ Len(Tail(q)) = Len(q) - 1
            /\ Head(q) = q[1] /\ \A i \in 1 .. Len(q) - 1 : Tail(q)[i] = q[i + 1]
        BY <2>1
      <3>3. Tail(q) = <<>> <=> Len(Tail(q)) = 0
        BY Zenon, <3>2, NoEvents
      <3>4. CASE Len(q) = 1
        <4>1. Len(Tail(q)) = 0 /\ Head(q) = q[Len(q)]
          BY <3>2, <3>4
        <4>2. kv[lease[n]] # NoKey
          BY Zenon, <2>1, <3>1, <4>1, ParsedFacts
        <4> QED BY Zenon, <2>1, <3>3, <4>1, <4>2
      <3>5. CASE Len(q) # 1
        <4>1. Len(q) - 1 \in 1 .. Len(q) - 1 /\ (Len(q) - 1) + 1 = Len(q)
          <5> DEFINE k == Len(q)
          <5>1. k \in Nat \ {0} /\ k # 1
            BY Zenon, <3>2, <3>5
          <5> HIDE DEF k
          <5>2. k - 1 \in 1 .. k - 1 /\ (k - 1) + 1 = k
            BY <5>1
          <5> QED BY Zenon, <5>2 DEF k
        <4> QED BY <2>1, <3>1, <3>2, <3>3, <4>1
      <3> QED BY Zenon, <3>4, <3>5
    <2>3. Faithful(n)'
      BY Zenon, <2>1, <2>2 DEF Faithful, Parsed
    <2> QED BY Zenon, <1>c, <2>1, <2>3
  <1>7. ASSUME NEW S, Remove(S), watch' = watch, lease' = lease PROVE Kept
    BY Zenon, <1>7, <1>e DEF Remove
  <1>8. ASSUME NEW n \in Nodes, NEW s, Put(n, s), watch' = watch, lease' = lease PROVE Kept
    <2>1. Notify({s}) /\ \A t \in Subnets \ {s} : kv'[t] = kv[t]
      BY Zenon, <1>8, <1>b DEF Put
    <2> QED BY Zenon, <1>8, <1>e, <2>1
  <1>9. ASSUME NEW n \in Nodes, DropLease(n) PROVE Kept
    BY Zenon, <1>7, <1>9 DEF DropLease, deleteSubnet
  <1>10. ASSUME NEW n \in Nodes, RenewLease(n) PROVE Kept
    BY Zenon, <1>8, <1>10 DEF RenewLease
  <1>11. ASSUME NEW n \in Nodes, RenewFails(n) PROVE Kept
    BY Zenon, <1>7, <1>8, <1>d, <1>11 DEF RenewFails
  <1>12. ASSUME Tick PROVE Kept
    BY Zenon, <1>7, <1>12 DEF Tick
  <1>13. ASSUME NEW s \in Subnets, Revoke(s) PROVE Kept
    BY Zenon, <1>7, <1>13 DEF Revoke
  <1>14. ASSUME NEW s \in Subnets, Reserve(s) PROVE Kept
    <2>1. Notify({s}) /\ \A t \in Subnets \ {s} : kv'[t] = kv[t]
      BY Zenon, <1>14, <1>b DEF Reserve
    <2> QED BY Zenon, <1>14, <1>e, <2>1 DEF Reserve
  <1>15. Kept
    <2> HIDE DEF Kept
    <2> QED
      BY Zenon, <1>d, <1>1, <1>3, <1>4, <1>5, <1>6, <1>9, <1>10, <1>11, <1>12, <1>13, <1>14
      DEF Next, Start, getSubnets, StopMonitoring, SetConfig, vars
  <1> QED BY Zenon, <1>15, <1>a, TypeStep DEF WInv

\* Whatever faults happen, what is queued for the own-lease watch ends with what the key
\* is now, or with a put that could not be read, and an empty queue means that the key is
\* there.
THEOREM WatchTellsTheLast == Spec => []WatchFaithful
  <1>1. Init => WInv
    BY Zenon, TypeInit DEF Init, WInv, Faithful
  <1>2. WInv => WatchFaithful
    BY Zenon DEF WInv, WatchFaithful, Faithful, Parsed
  <1> QED BY <1>1, <1>2, WatchStep, PTL DEF Spec

-----------------------------------------------------------------------------
(***************************************************************************)
(* Safety in a benign environment: compactions and failing TimeToLive      *)
(* calls, in listings and of watch events, are allowed, startup and        *)
(* renewals are prompt, fewer consecutive                                  *)
(* renewals fail than the margin has minutes, and distinct keys are        *)
(* disjoint subnets (one family, one SubnetLen).                           *)
(***************************************************************************)
Benign ==
  /\ Faults \subseteq {"compact", "ttlError", "eventTTL"}
  /\ MaxFails < Margin
  /\ \A s, t \in Subnets : <<s, t>> \in Conflicts => s = t

\* The last instant by which the renewal of n's lease is due.
Deadline(n) == kv[lease[n]].exp - Margin + fails[n]

Holds(n) ==
  Running(n) => /\ kv[lease[n]].pub = n
                /\ wake[n] <= Deadline(n)
                /\ now <= Deadline(n)

Watching(n) ==
  /\ pc[n] # "unmonitored" /\ watch[n] # "closed"
  /\ \A i \in 1 .. Len(evts[n]) :
       Running(n) /\ evts[n][i].exp <= kv[lease[n]].exp

\* What n read of its own leases is still so when it acts on it.
Deciding(n) ==
  pc[n] = "decide" =>
    \A l \in seen[n] : l.pub = n => kv[l.sn].pub = n /\ l.exp >= 0

NodeInv(n) == Holds(n) /\ Watching(n) /\ Deciding(n)

\* The inductive invariant.
SInv ==
  /\ TInv
  /\ now >= 1
  /\ \A s \in Subnets : kv[s].exp <= now + TTL
  /\ \A n \in Nodes : NodeInv(n)

\* The facts about a state that the proofs below use, instead of all of TypeOK.
Doms ==
  /\ DOMAIN kv = Subnets /\ DOMAIN pc = Nodes /\ DOMAIN seen = Nodes
  /\ DOMAIN lease = Nodes /\ DOMAIN wake = Nodes /\ DOMAIN fails = Nodes
  /\ DOMAIN watch = Nodes /\ DOMAIN evts = Nodes

\* The types of the functions the invariant is about, without their ranges.
LEMMA SInvDoms == SInv => Doms
  BY Zenon DEF SInv, TInv, TypeOK, Doms

\* No key outlives the lease the last Put attached to it.
LEMMA SInvKeys ==
  ASSUME SInv PROVE \A s \in Subnets : kv[s].exp \in Int /\ kv[s].exp <= now + TTL
  BY DEF SInv, TInv, TypeOK, KeyType, NoKey

\* What the invariant says of one daemon, in the form the steps cite.
LEMMA SInvNode ==
  ASSUME SInv, NEW n \in Nodes
  PROVE  /\ now \in Int /\ now >= 1
         /\ wake[n] \in Int /\ fails[n] \in 0 .. MaxFails
         /\ evts[n] \in Seq(EventType)
         /\ Running(n) => lease[n] \in Subnets
         /\ watch[n] # "off" => pc[n] = "monitor"
         /\ Holds(n) /\ Watching(n) /\ Deciding(n)
         /\ \A l \in seen[n] : l.sn \in Subnets
  <1>1. /\ now \in Int /\ now >= 1 /\ wake[n] \in Int /\ fails[n] \in 0 .. MaxFails
        /\ evts[n] \in Seq(EventType)
    BY Zenon DEF SInv, TInv, TypeOK
  <1>2. Holds(n) /\ Watching(n) /\ Deciding(n)
    BY Zenon DEF SInv, NodeInv
  <1>3. /\ Running(n) => lease[n] \in Subnets
        /\ watch[n] # "off" => pc[n] = "monitor"
    BY Zenon, <1>2 DEF SInv, TInv, HasSubnet, Watching
  <1>4. \A l \in seen[n] : l.sn \in Subnets
    BY DEF SInv, TInv, TypeOK, LeaseType
  <1> QED BY Zenon, <1>1, <1>2, <1>3, <1>4

\* The daemon of m takes no step.
Same(m) ==
  /\ pc'[m] = pc[m] /\ seen'[m] = seen[m] /\ lease'[m] = lease[m]
  /\ wake'[m] = wake[m] /\ fails'[m] = fails[m] /\ watch'[m] = watch[m]

\* What m does not see change keeps its part of the invariant.
LEMMA Frame ==
  ASSUME NEW m \in Nodes, NodeInv(m), Same(m), evts'[m] = evts[m], now' = now,
         Running(m) => kv'[lease[m]] = kv[lease[m]],
         pc[m] = "decide" =>
           \A l \in seen[m] : l.pub = m => kv'[l.sn] = kv[l.sn]
  PROVE  NodeInv(m)'
  <1> USE DEF Same
  <1>1. Holds(m)'
    BY Zenon DEF NodeInv, Holds, Deadline, Running
  <1>2. Watching(m)'
    BY Zenon DEF NodeInv, Watching, Running
  <1>3. Deciding(m)'
    BY Zenon DEF NodeInv, Deciding
  <1> QED BY Zenon, <1>1, <1>2, <1>3 DEF NodeInv

\* A change of a key that is free or n's own is invisible to any other node.
LEMMA OthersUnaffected ==
  ASSUME SInv, NEW n \in Nodes, NEW m \in Nodes, m # n, NEW s \in Subnets,
         kv[s] = NoKey \/ kv[s].pub = n,
         \A t \in Subnets : t # s => kv'[t] = kv[t],
         Notify({s}), now' = now, Same(m)
  PROVE  NodeInv(m)'
  <1>1. kv[s].pub # m
    BY KeyAssumption DEF NoKey
  <1>2. Running(m) => lease[m] # s /\ lease[m] \in Subnets
    BY Zenon, <1>1, SInvNode DEF Holds
  <1>3. evts'[m] = evts[m]
    <2>1. watch[m] = "on" => lease[m] # s
      BY Zenon, <1>2, SInvNode DEF Running
    <2>2. ~(watch[m] = "on" /\ lease[m] \in {s}) => evts'[m] = evts[m]
      BY Zenon, Told
    <2> QED BY Zenon, <2>1, <2>2
  <1>4. ASSUME pc[m] = "decide", NEW l \in seen[m], l.pub = m
        PROVE  kv'[l.sn] = kv[l.sn]
    <2>1. l.sn \in Subnets /\ kv[l.sn].pub = m
      BY Zenon, <1>4, SInvNode DEF Deciding
    <2> QED BY Zenon, <1>1, <2>1
  <1>5. NodeInv(m)
    BY Zenon DEF SInv
  <1> QED BY Zenon, <1>2, <1>3, <1>4, <1>5, Frame

\* A step of n that leaves etcd, the clock and the other nodes alone.
LEMMA LocalKeeps ==
  ASSUME SInv, NEW n \in Nodes, now' = now, kv' = kv, NodeInv(n)',
         \A m \in Nodes : m # n => Same(m) /\ evts'[m] = evts[m]
  PROVE  \A m \in Nodes : NodeInv(m)'
  <1> SUFFICES ASSUME NEW m \in Nodes, m # n PROVE NodeInv(m)'
    BY Zenon
  <1>1. NodeInv(m)
    BY Zenon DEF SInv
  <1> QED BY Zenon, <1>1, Frame

\* A node that is down has nothing to keep.
LEMMA IdleKeeps ==
  ASSUME SInv, NEW n \in Nodes, Idle(n), now' = now, kv' = kv
  PROVE  \A m \in Nodes : NodeInv(m)'
  <1>1. pc'[n] = "down" /\ watch'[n] = "off" /\ evts'[n] = <<>>
    BY Zenon, SInvDoms DEF Idle, Doms
  <1>2. NodeInv(n)'
    BY <1>1 DEF NodeInv, Holds, Watching, Deciding, Running
  <1>3. \A m \in Nodes : m # n => Same(m) /\ evts'[m] = evts[m]
    BY Zenon, SInvDoms DEF Idle, Same, Doms
  <1> QED BY Zenon, <1>2, <1>3, LocalKeeps

\* Both ways to acquire a lease write a key that is free or the node's own and
\* set the timer by its expiration.
LEMMA AcquireKeeps ==
  ASSUME SInv, NEW n \in Nodes, NEW s \in Subnets,
         pc[n] \in {"decide", "create"},
         kv[s] = NoKey \/ kv[s].pub = n,
         kv' = [kv EXCEPT ![s] = Key(n, now + TTL)],
         Notify({s}), Acquired(n, s, now + TTL), now' = now, watch' = watch
  PROVE  /\ \A m \in Nodes : NodeInv(m)'
         /\ \A t \in Subnets : kv'[t].exp <= now' + TTL
  <1>1. /\ kv'[s] = Key(n, now + TTL)
        /\ \A t \in Subnets : t # s => kv'[t] = kv[t]
    BY Zenon, SInvDoms DEF Doms
  <1>2. /\ pc'[n] = "acquired" /\ lease'[n] = s /\ fails'[n] = 0
        /\ wake'[n] = RenewAt(now + TTL)
        /\ \A m \in Nodes : m # n => Same(m)
    BY Zenon, SInvDoms DEF Acquired, Same, Doms
  <1>3. ASSUME NEW m \in Nodes, m # n PROVE NodeInv(m)'
    BY Zenon, <1>1, <1>2, <1>3, OthersUnaffected
  <1>4. watch[n] = "off" /\ evts'[n] = evts[n]
    BY Zenon, SInvNode, Told
  <1>5. Holds(n)'
    BY <1>1, <1>2, SInvNode, TimingAssumption DEF Holds, Deadline, Key, RenewAt
  <1>6. Watching(n)'
    <2>1. Watching(n) /\ ~Running(n)
      BY Zenon, SInvNode DEF Running
    <2> QED BY Zenon, <1>2, <1>4, <2>1 DEF Watching
  <1>7. Deciding(n)'
    BY Zenon, <1>2 DEF Deciding
  <1>8. ASSUME NEW t \in Subnets PROVE kv'[t].exp <= now' + TTL
    BY <1>1, SInvKeys, SInvNode, TimingAssumption DEF Key
  <1> QED BY Zenon, <1>3, <1>5, <1>6, <1>7, <1>8 DEF NodeInv

\* A renewal writes the node's own key; the queue of its watch grows by an
\* event that is no later than the new expiration.
LEMMA RenewKeeps ==
  ASSUME SInv, NEW n \in Nodes, RenewLease(n)
  PROVE  /\ \A m \in Nodes : NodeInv(m)'
         /\ \A t \in Subnets : kv'[t].exp <= now' + TTL
  <1>1. pc[n] = "monitor" /\ lease[n] \in Subnets /\ kv[lease[n]].pub = n
    BY Zenon, SInvNode DEF RenewLease, Running, Holds
  <1>2. /\ kv' = [kv EXCEPT ![lease[n]] = Key(n, now + TTL)]
        /\ Notify({lease[n]})
        /\ now' = now /\ pc' = pc /\ seen' = seen /\ lease' = lease /\ watch' = watch
        /\ wake' = [wake EXCEPT ![n] = RenewAt(now + TTL)]
        /\ fails' = [fails EXCEPT ![n] = 0]
    BY Zenon DEF RenewLease, Put
  <1>3. /\ kv'[lease[n]] = Key(n, now + TTL)
        /\ \A t \in Subnets : t # lease[n] => kv'[t] = kv[t]
        /\ wake'[n] = RenewAt(now + TTL) /\ fails'[n] = 0
        /\ \A m \in Nodes : m # n => Same(m)
    BY Zenon, <1>1, <1>2, SInvDoms DEF Same, Doms
  <1>4. ASSUME NEW m \in Nodes, m # n PROVE NodeInv(m)'
    BY Zenon, <1>1, <1>2, <1>3, <1>4, OthersUnaffected
  <1>5. Holds(n)'
    BY SMTT(30), <1>1, <1>2, <1>3, SInvNode, TimingAssumption DEF Holds, Deadline, Key, RenewAt
  <1>6. Watching(n)'
    <2>1. evts[n] \in Seq(EventType)
      BY Zenon, SInvNode
    <2>2. ASSUME NEW e \in Parsed(Key(n, now + TTL)) PROVE e.exp = now + TTL
      <3>1. e.exp = Key(n, now + TTL).exp
        BY Zenon, <2>2, ParsedFacts
      <3> QED BY <3>1 DEF Key
    <2>3. evts'[n] = evts[n] \/ \E e \in Parsed(Key(n, now + TTL)) : evts'[n] = Append(evts[n], e)
      BY Zenon, <1>2, <1>3, Told
    <2>4. ASSUME NEW i \in 1 .. Len(evts[n]) PROVE evts[n][i].exp <= now + TTL
      <3>1. evts[n][i].exp <= kv[lease[n]].exp
        BY Zenon, SInvNode DEF Watching
      <3>2. evts[n][i].exp \in Int
        <4>1. evts[n][i] \in EventType
          BY <2>1
        <4> QED BY Zenon, <4>1 DEF EventType
      <3>3. kv[lease[n]].exp <= now + TTL /\ kv[lease[n]].exp \in Int /\ now \in Int
        BY Zenon, <1>1, SInvKeys, SInvNode
      <3> QED BY SMTT(30), <3>1, <3>2, <3>3, TimingAssumption
    <2>5. ASSUME NEW e \in Parsed(Key(n, now + TTL)), NEW i \in 1 .. Len(Append(evts[n], e))
          PROVE  Append(evts[n], e)[i].exp <= now + TTL
      <3>1. CASE i = Len(evts[n]) + 1
        <4>1. Append(evts[n], e)[i] = e
          BY <2>1, <3>1
        <4>2. now + TTL \in Int /\ e.exp = now + TTL
          BY <2>2, SInvNode, TimingAssumption
        <4> QED BY <4>1, <4>2
      <3>2. CASE i # Len(evts[n]) + 1
        <4>1. i \in 1 .. Len(evts[n]) /\ Append(evts[n], e)[i] = evts[n][i]
          BY <2>1, <3>2
        <4> QED BY Zenon, <2>4, <4>1
      <3> QED BY Zenon, <3>1, <3>2
    <2>6. \A i \in 1 .. Len(evts'[n]) : evts'[n][i].exp <= now + TTL
      <3>1. CASE evts'[n] = evts[n]
        BY Zenon, <2>4, <3>1
      <3>2. ASSUME NEW e \in Parsed(Key(n, now + TTL)), evts'[n] = Append(evts[n], e)
            PROVE  \A i \in 1 .. Len(evts'[n]) : evts'[n][i].exp <= now + TTL
        BY Zenon, <2>5, <3>2
      <3> QED BY Zenon, <2>3, <3>1, <3>2
    <2>7. pc'[n] = "monitor" /\ watch'[n] # "closed"
      BY Zenon, <1>1, <1>2, SInvNode DEF Watching
    <2> QED BY <1>2, <1>3, <2>6, <2>7 DEF Watching, Running, Key
  <1>7. Deciding(n)'
    BY Zenon, <1>1, <1>2 DEF Deciding
  <1>8. ASSUME NEW t \in Subnets PROVE kv'[t].exp <= now' + TTL
    BY <1>2, <1>3, SInvKeys, SInvNode, TimingAssumption DEF Key
  <1> QED BY Zenon, <1>4, <1>5, <1>6, <1>7, <1>8 DEF NodeInv

\* Time passes only when every renewal is on schedule, and then no key of a
\* running node expires.
LEMMA TickKeeps ==
  ASSUME SInv, Benign, Tick
  PROVE  /\ \A m \in Nodes : NodeInv(m)'
         /\ \A t \in Subnets : kv'[t].exp <= now' + TTL
  <1>1. /\ now' = now + 1 /\ Prompt
        /\ kv' = [s \in Subnets |-> IF s \in Expired(now + 1) THEN NoKey ELSE kv[s]]
        /\ Notify(Expired(now + 1))
        /\ pc' = pc /\ seen' = seen /\ lease' = lease /\ wake' = wake
        /\ fails' = fails /\ watch' = watch
    BY Zenon DEF Tick, Benign, Remove
  <1>2. ASSUME NEW m \in Nodes, pc[m] = "monitor" PROVE NodeInv(m)'
    <2>1. /\ lease[m] \in Subnets /\ kv[lease[m]].pub = m
          /\ wake[m] <= Deadline(m) /\ now < wake[m]
      BY Zenon, <1>1, <1>2, SInvNode DEF Prompt, Running, Holds
    <2>2. now + 1 <= Deadline(m) /\ now + 1 < kv[lease[m]].exp
      <3>1. /\ now \in Int /\ wake[m] \in Int /\ fails[m] \in 0 .. MaxFails
            /\ kv[lease[m]].exp \in Int
        BY Zenon, <2>1, SInvNode, SInvKeys
      <3> QED BY <2>1, <3>1, TimingAssumption DEF Deadline, Benign
    <2>3. lease[m] \notin Expired(now + 1)
      BY <2>1, <2>2, SInvNode, SInvKeys DEF Expired
    <2>4. kv'[lease[m]] = kv[lease[m]]
      BY Zenon, <1>1, <2>1, <2>3
    <2>5. evts'[m] = evts[m]
      BY Zenon, <1>1, <2>3, Told
    <2>6. Holds(m)'
      BY Zenon, <1>1, <2>1, <2>2, <2>4 DEF Holds, Deadline
    <2>7. Watching(m)'
      BY <1>1, <2>4, <2>5, SInvNode DEF Watching, Running
    <2>8. Deciding(m)'
      BY Zenon, <1>1, <1>2 DEF Deciding
    <2> QED BY Zenon, <2>6, <2>7, <2>8 DEF NodeInv
  <1>3. ASSUME NEW m \in Nodes, pc[m] # "monitor" PROVE NodeInv(m)'
    <2>1. pc[m] = "down"
      <3>1. ~Acquiring(m) /\ pc[m] # "unmonitored"
        BY Zenon, <1>1, SInvNode DEF Prompt, Watching
      <3>2. pc[m] \in {"down", "list", "decide", "create", "acquired", "monitor",
                       "unmonitored"}
        BY Zenon DEF SInv, TInv, TypeOK
      <3> QED BY Zenon, <1>3, <3>1, <3>2 DEF Acquiring
    <2>2. watch[m] = "off" /\ evts'[m] = evts[m]
      BY Zenon, <1>1, <2>1, SInvNode, Told
    <2>3. Watching(m) /\ ~Running(m)
      BY Zenon, <2>1, SInvNode DEF Running
    <2>4. Watching(m)'
      BY Zenon, <1>1, <2>1, <2>2, <2>3 DEF Watching
    <2>5. Holds(m)' /\ Deciding(m)'
      BY Zenon, <1>1, <2>1 DEF Holds, Deciding, Running
    <2> QED BY Zenon, <2>4, <2>5 DEF NodeInv
  <1>4. ASSUME NEW t \in Subnets PROVE kv'[t].exp <= now' + TTL
    <2>1. now \in Int /\ now >= 1
      BY Zenon DEF SInv, TInv, TypeOK
    <2> QED BY <1>1, <2>1, SInvKeys, TimingAssumption DEF NoKey
  <1> QED BY Zenon, <1>2, <1>3, <1>4

-----------------------------------------------------------------------------
(* One key per host.                                                       *)

OwnKeys(n) == {s \in Subnets : kv[s].pub = n}

\* What n knows of its own keys, wherever it is: a daemon that runs has no other than
\* its lease, one that decides has seen all of them, and one that dropped its lease
\* has none left.
KnowsOwn(n) ==
  /\ \A s, t \in OwnKeys(n) : s = t
  /\ Running(n) => OwnKeys(n) \subseteq {lease[n]}
  /\ pc[n] = "decide" =>
       /\ \A l, k \in findLeaseByIP(n) : l.sn = k.sn
       /\ \A s \in OwnKeys(n) : \E l \in findLeaseByIP(n) : l.sn = s
  /\ pc[n] = "create" => OwnKeys(n) = {}

OInv == TInv /\ \A n \in Nodes : KnowsOwn(n)

\* Keys only ever become n's through n itself: a node that takes no step keeps what it
\* knows, whichever of its keys expire, are revoked, or are overwritten.
LEMMA KnowsFewer ==
  ASSUME NEW m \in Nodes, KnowsOwn(m), OwnKeys(m)' \subseteq OwnKeys(m),
         pc'[m] = pc[m], lease'[m] = lease[m], seen'[m] = seen[m]
  PROVE  KnowsOwn(m)'
  BY Zenon DEF KnowsOwn, Running, findLeaseByIP

\* A write of n to key s takes keys from others only.
LEMMA WriteOwn ==
  ASSUME TInv, NEW n \in Nodes, NEW s \in Subnets, NEW e,
         kv' = [kv EXCEPT ![s] = Key(n, e)]
  PROVE  /\ OwnKeys(n)' = OwnKeys(n) \cup {s}
         /\ \A m \in Nodes : m # n => OwnKeys(m)' \subseteq OwnKeys(m)
  <1>1. kv'[s].pub = n /\ \A t \in Subnets : t # s => kv'[t] = kv[t]
    BY Zenon DEF TInv, TypeOK, Key
  <1> QED BY Zenon, <1>1 DEF OwnKeys

\* A removal gives nobody a key.
LEMMA RemoveOwn ==
  ASSUME NEW S, Remove(S), NEW m \in Nodes
  PROVE  /\ OwnKeys(m)' \subseteq OwnKeys(m)
         /\ OwnKeys(m)' \cap S = {}
  BY Zenon, KeyAssumption DEF Remove, OwnKeys, NoKey

\* At first there is no key.
LEMMA OwnInit == Init => OInv
  <1>1. Init => \A n \in Nodes : OwnKeys(n) = {}
    BY KeyAssumption DEF Init, OwnKeys, NoKey
  <1>2. Init => \A n \in Nodes : pc[n] = "down"
    BY Zenon DEF Init
  <1> QED BY Zenon, <1>1, <1>2, TypeInit DEF OInv, KnowsOwn, Running

\* Every step keeps what the hosts know of their keys, as long as listings are complete.
LEMMA OwnStep ==
  ASSUME "ttlError" \notin Faults PROVE OInv /\ [Next]_vars => OInv'
  <1> SUFFICES ASSUME OInv, [Next]_vars PROVE OInv'
    BY Zenon
  <1> DEFINE Kept == \A m \in Nodes : KnowsOwn(m)'
  <1>a. TInv /\ \A m \in Nodes : KnowsOwn(m)
    BY Zenon DEF OInv
  <1>b. /\ DOMAIN pc = Nodes /\ DOMAIN seen = Nodes /\ DOMAIN lease = Nodes
        /\ \A n \in Nodes : Running(n) => lease[n] \in Subnets
        /\ \A n \in Nodes : \A l \in seen[n] : l.sn \in Subnets
    <2>1. DOMAIN pc = Nodes /\ DOMAIN seen = Nodes /\ DOMAIN lease = Nodes
      BY Zenon, <1>a DEF TInv, TypeOK
    <2>2. \A n \in Nodes : Running(n) => lease[n] \in Subnets
      BY Zenon, <1>a DEF TInv, HasSubnet
    <2>3. ASSUME NEW n \in Nodes, NEW l \in seen[n] PROVE l.sn \in Subnets
      <3>1. l \in LeaseType
        BY Zenon, <1>a DEF TInv, TypeOK
      <3> QED BY Zenon, <3>1 DEF LeaseType
    <2> QED BY Zenon, <2>1, <2>2, <2>3
  <1>c. ASSUME NEW n \in Nodes, KnowsOwn(n)',
               \A m \in Nodes : m # n => /\ pc'[m] = pc[m] /\ lease'[m] = lease[m]
                                         /\ seen'[m] = seen[m]
                                         /\ OwnKeys(m)' \subseteq OwnKeys(m)
        PROVE  Kept
    BY Zenon, <1>a, <1>c, KnowsFewer
  <1>d. ASSUME pc' = pc, lease' = lease, seen' = seen,
               \A m \in Nodes : OwnKeys(m)' \subseteq OwnKeys(m)
        PROVE  Kept
    BY Zenon, <1>a, <1>d, KnowsFewer
  <1>e. kv' = kv => \A m \in Nodes : OwnKeys(m)' = OwnKeys(m)
    BY Zenon DEF OwnKeys
  <1>1. ASSUME NEW n \in Nodes, Start(n) PROVE Kept
    <2>1. pc'[n] = "list" /\ OwnKeys(n)' = OwnKeys(n)
      BY Zenon, <1>1, <1>b, <1>e DEF Start
    <2>2. KnowsOwn(n)'
      BY <1>a, <2>1 DEF KnowsOwn, Running
    <2> QED BY Zenon, <1>1, <1>b, <1>c, <1>e, <2>2 DEF Start
  <1>2. ASSUME NEW n \in Nodes, getSubnets(n) PROVE Kept
    <2>1. /\ pc'[n] = "decide" /\ OwnKeys(n)' = OwnKeys(n)
          /\ seen'[n] = {LeaseOf(s) : s \in Live}
      BY Zenon, <1>2, <1>b, <1>e DEF getSubnets
    <2>2. \A s \in Live : LeaseOf(s).sn = s /\ LeaseOf(s).pub = kv[s].pub
      BY Zenon DEF LeaseOf
    <2>3. OwnKeys(n) \subseteq Live
      BY KeyAssumption DEF OwnKeys, Live, NoKey
    <2>4. ASSUME NEW s \in OwnKeys(n) PROVE \E l \in findLeaseByIP(n)' : l.sn = s
      <3>1. LeaseOf(s) \in seen'[n] /\ LeaseOf(s).pub = n /\ LeaseOf(s).sn = s
        BY Zenon, <2>1, <2>2, <2>3 DEF OwnKeys
      <3> QED BY Zenon, <3>1 DEF findLeaseByIP
    <2>5. ASSUME NEW l \in findLeaseByIP(n)' PROVE l.sn \in OwnKeys(n)
      BY <2>1, <2>2 DEF findLeaseByIP, OwnKeys, Live
    <2>6. KnowsOwn(n)'
      BY <1>a, <2>1, <2>4, <2>5 DEF KnowsOwn, Running
    <2> QED BY Zenon, <1>2, <1>b, <1>c, <1>e, <2>6 DEF getSubnets
  <1>3. ASSUME NEW n \in Nodes, ReuseLease(n) PROVE Kept
    <2>1. PICK l \in findLeaseByIP(n) : \E e :
            /\ kv' = [kv EXCEPT ![l.sn] = Key(n, e)]
            /\ pc' = [pc EXCEPT ![n] = "acquired"]
            /\ lease' = [lease EXCEPT ![n] = l.sn]
            /\ seen' = [seen EXCEPT ![n] = {}]
      BY Zenon, <1>3 DEF ReuseLease, Acquired
    <2>2. pc[n] = "decide" /\ l \in seen[n] /\ l.sn \in Subnets
      BY Zenon, <1>3, <1>b DEF ReuseLease, findLeaseByIP
    <2>3. /\ OwnKeys(n)' = OwnKeys(n) \cup {l.sn}
          /\ \A m \in Nodes : m # n => OwnKeys(m)' \subseteq OwnKeys(m)
      BY Zenon, <1>a, <2>1, <2>2, WriteOwn
    <2>4. OwnKeys(n) \subseteq {l.sn}
      BY Zenon, <1>a, <2>2 DEF KnowsOwn
    <2>5. KnowsOwn(n)'
      BY Zenon, <1>b, <2>1, <2>3, <2>4 DEF KnowsOwn, Running
    <2> QED BY Zenon, <1>b, <1>c, <2>1, <2>3, <2>5
  <1>4. ASSUME NEW n \in Nodes, DropLease(n) PROVE Kept
    <2>1. PICK l \in findLeaseByIP(n) : Remove({l.sn})
      BY Zenon, <1>4 DEF DropLease, deleteSubnet
    <2>2. pc[n] = "decide" /\ pc'[n] = "create"
      BY Zenon, <1>4, <1>b DEF DropLease
    <2>3. OwnKeys(n) \subseteq {l.sn}
      BY <1>a, <2>2 DEF KnowsOwn
    <2>4. OwnKeys(n)' = {}
      BY Zenon, <2>1, <2>3, RemoveOwn
    <2>5. KnowsOwn(n)'
      BY Zenon, <2>2, <2>4 DEF KnowsOwn, Running
    <2> QED BY Zenon, <1>4, <1>b, <1>c, <2>1, <2>5, RemoveOwn DEF DropLease
  <1>5. ASSUME NEW n \in Nodes, createSubnet(n) PROVE Kept
    <2>1. PICK s \in Candidates(n) :
            /\ kv' = [kv EXCEPT ![s] = Key(n, now + TTL)]
            /\ pc' = [pc EXCEPT ![n] = "acquired"]
            /\ lease' = [lease EXCEPT ![n] = s]
            /\ seen' = [seen EXCEPT ![n] = {}]
      BY Zenon, <1>5 DEF createSubnet, Put, Acquired
    <2>2. s \in Subnets
      BY Zenon, <1>a, CandidatesType
    <2>3. /\ OwnKeys(n)' = OwnKeys(n) \cup {s}
          /\ \A m \in Nodes : m # n => OwnKeys(m)' \subseteq OwnKeys(m)
      BY Zenon, <1>a, <2>1, <2>2, WriteOwn
    <2>4. OwnKeys(n) = {}
      BY Zenon, <1>5, <1>a DEF KnowsOwn, createSubnet, CanCreate
    <2>5. KnowsOwn(n)'
      BY Zenon, <1>b, <2>1, <2>3, <2>4 DEF KnowsOwn, Running
    <2> QED BY Zenon, <1>b, <1>c, <2>1, <2>3, <2>5
  <1>6. ASSUME NEW n \in Nodes, Idle(n), kv' = kv PROVE Kept
    <2>1. pc'[n] = "down" /\ OwnKeys(n)' = OwnKeys(n)
      BY Zenon, <1>6, <1>b, <1>e DEF Idle
    <2>2. KnowsOwn(n)'
      BY <1>a, <2>1 DEF KnowsOwn, Running
    <2> QED BY Zenon, <1>6, <1>b, <1>c, <1>e, <2>2 DEF Idle
  <1>7. ASSUME NEW n \in Nodes, CreateLost(n) \/ OutOfSubnets(n) \/ EventRemoved(n) \/ Stop(n)
        PROVE  Kept
    BY Zenon, <1>6, <1>7 DEF CreateLost, OutOfSubnets, EventRemoved, Stop, isErrEtcdNodeExist
  <1>8. ASSUME NEW n \in Nodes, HandleSubnetFile(n) \/ StopMonitoring(n) PROVE Kept
    <2>1. Running(n) /\ Running(n)' /\ pc'[n] # "decide" /\ pc'[n] # "create"
          /\ lease' = lease /\ seen' = seen /\ kv' = kv
          /\ \A m \in Nodes : m # n => pc'[m] = pc[m]
      BY Zenon, <1>8, <1>b DEF HandleSubnetFile, StopMonitoring, Running
    <2>2. KnowsOwn(n)'
      BY <1>a, <1>e, <2>1 DEF KnowsOwn
    <2> QED BY Zenon, <1>c, <1>e, <2>1, <2>2
  <1>9. ASSUME NEW n \in Nodes, Put(n, lease[n]), Running(n), pc' = pc, lease' = lease, seen' = seen
        PROVE  Kept
    <2>1. /\ OwnKeys(n)' = OwnKeys(n) \cup {lease[n]}
          /\ \A m \in Nodes : m # n => OwnKeys(m)' \subseteq OwnKeys(m)
      BY Zenon, <1>9, <1>a, <1>b, WriteOwn DEF Put
    <2>2. OwnKeys(n) \subseteq {lease[n]}
      BY Zenon, <1>9, <1>a DEF KnowsOwn
    <2>3. KnowsOwn(n)'
      BY Zenon, <1>9, <2>1, <2>2 DEF KnowsOwn, Running
    <2> QED BY Zenon, <1>9, <1>c, <2>1, <2>3
  <1>10. ASSUME NEW S, Remove(S), pc' = pc, lease' = lease, seen' = seen PROVE Kept
    BY Zenon, <1>10, <1>d, RemoveOwn
  <1>11. ASSUME NEW n \in Nodes, RenewLease(n) PROVE Kept
    BY Zenon, <1>9, <1>11 DEF RenewLease, Running
  <1>12. ASSUME NEW n \in Nodes, RenewFails(n) PROVE Kept
    <2>1. pc' = pc /\ lease' = lease /\ seen' = seen /\ Running(n)
      BY Zenon, <1>12 DEF RenewFails, Running
    <2>2. CASE kv' = kv
      BY Zenon, <1>d, <1>e, <2>1, <2>2
    <2>3. CASE Remove({lease[n]})
      BY Zenon, <1>10, <2>1, <2>3
    <2>4. CASE Put(n, lease[n])
      BY Zenon, <1>9, <2>1, <2>4
    <2> QED BY Zenon, <1>12, <2>2, <2>3, <2>4 DEF RenewFails
  <1>13. ASSUME Tick PROVE Kept
    BY Zenon, <1>10, <1>13 DEF Tick
  <1>14. ASSUME NEW s \in Subnets, Revoke(s) PROVE Kept
    BY Zenon, <1>10, <1>14 DEF Revoke
  <1>15. ASSUME NEW s \in Subnets, Reserve(s) PROVE Kept
    <2>1. \A t \in Subnets : kv'[t].pub = kv[t].pub
      BY <1>15, <1>a DEF Reserve, Live, TInv, TypeOK, KeyType
    <2> QED BY Zenon, <1>15, <1>d, <2>1 DEF Reserve, OwnKeys
  <1>16. ASSUME pc' = pc, lease' = lease, seen' = seen, kv' = kv PROVE Kept
    BY Zenon, <1>16, <1>d, <1>e
  <1>17. Kept
    <2> HIDE DEF Kept
    <2> QED
      BY Zenon, <1>1, <1>2, <1>3, <1>4, <1>5, <1>7, <1>8, <1>11, <1>12, <1>13, <1>14, <1>15, <1>16
      DEF Next, WatchLease, resyncWatchSubnet, EventAdded, EventLogged, SetConfig, vars
  <1> QED BY Zenon, <1>17, <1>a, TypeStep DEF OInv

\* The invariant in every reachable state.
LEMMA OwnAlways == ASSUME "ttlError" \notin Faults PROVE Spec => []OInv
  BY OwnInit, OwnStep, PTL DEF Spec

\* No host ever has two keys, whatever is slow, lost, compacted, revoked or reserved, as
\* long as every listing is complete.
THEOREM AtMostOneKey == ASSUME "ttlError" \notin Faults PROVE Spec => []OneKeyPerNode
  <1>1. OInv => OneKeyPerNode
    <2> SUFFICES ASSUME OInv, NEW s \in Subnets, NEW t \in Subnets,
                        kv[s] # NoKey, kv[t] # NoKey, kv[s].pub = kv[t].pub
                 PROVE  s = t
      BY Zenon DEF OneKeyPerNode
    <2>1. kv[s].pub \in Nodes
      BY Zenon DEF OInv, TInv, TypeOK, KeyType
    <2> QED BY <2>1 DEF OInv, KnowsOwn, OwnKeys
  <1> QED BY <1>1, OwnAlways, PTL

\* A host that still has a fitting key gets that subnet again, under the same faults.
THEOREM RestartKeepsSubnet == ASSUME "ttlError" \notin Faults PROVE Spec => ExistingLeaseUsed
  <1> DEFINE Used(n) ==
        /\ pc[n] \in {"decide", "create"} /\ pc'[n] = "acquired"
        /\ \E s \in cfg[n] : kv[s].pub = n
        => kv[lease'[n]].pub = n
  <1>1. OInv /\ [Next]_vars => [\A n \in Nodes : Used(n)]_vars
    <2> SUFFICES ASSUME OInv, Next, NEW n \in Nodes,
                        pc[n] \in {"decide", "create"}, pc'[n] = "acquired",
                        NEW s \in cfg[n], kv[s].pub = n
                 PROVE  kv[lease'[n]].pub = n
      BY Zenon DEF vars
    <2>1. s \in OwnKeys(n) /\ DOMAIN pc = Nodes /\ DOMAIN lease = Nodes
      BY KeyAssumption DEF OInv, TInv, TypeOK, OwnKeys
    <2>2. pc[n] = "decide" /\ \E l \in findLeaseByIP(n) : l.sn = s
      BY Zenon, <2>1 DEF OInv, KnowsOwn
    <2>3. ASSUME NEW m \in Nodes, NEW p, pc' = [pc EXCEPT ![m] = p]
          PROVE  m = n /\ p = "acquired"
      BY Zenon, <2>1, <2>2, <2>3
    <2>4. ReuseLease(n)
      <3>1. ASSUME NEW m \in Nodes, ReuseLease(m) \/ createSubnet(m) PROVE m = n
        <4>1. pc' = [pc EXCEPT ![m] = "acquired"]
          BY Zenon, <3>1 DEF ReuseLease, createSubnet, Acquired
        <4> QED BY Zenon, <2>3, <4>1
      <3>2. ~createSubnet(n)
        BY Zenon, <2>2 DEF createSubnet, CanCreate
      <3>3. ASSUME NEW m \in Nodes,
                   \/ Start(m) \/ getSubnets(m) \/ DropLease(m) \/ HandleSubnetFile(m)
                   \/ StopMonitoring(m) \/ Idle(m)
            PROVE  FALSE
        <4>1. \E p \in {"list", "decide", "create", "monitor", "unmonitored", "down"} :
                pc' = [pc EXCEPT ![m] = p]
          BY Zenon, <3>3
          DEF Start, getSubnets, DropLease, HandleSubnetFile, StopMonitoring, Idle
        <4> QED BY Zenon, <2>3, <4>1
      <3>4. ASSUME NEW m \in Nodes,
                   CreateLost(m) \/ OutOfSubnets(m) \/ EventRemoved(m) \/ Stop(m)
            PROVE  FALSE
        BY Zenon, <3>3, <3>4
        DEF CreateLost, OutOfSubnets, EventRemoved, Stop, isErrEtcdNodeExist
      <3>5. pc' # pc
        BY Zenon, <2>2
      <3> QED
        BY Zenon, <3>1, <3>2, <3>3, <3>4, <3>5
        DEF Next, WatchLease, resyncWatchSubnet, EventAdded, EventLogged, RenewLease,
            RenewFails, Tick, Revoke, Reserve, SetConfig
    <2>5. PICK l \in findLeaseByIP(n) : lease' = [lease EXCEPT ![n] = l.sn]
      BY Zenon, <2>4 DEF ReuseLease, Acquired
    <2> QED BY <2>1, <2>2, <2>5 DEF OInv, KnowsOwn
  <1> QED BY <1>1, OwnAlways, PTL DEF Spec, ExistingLeaseUsed

-----------------------------------------------------------------------------
\* Before any daemon runs, nobody holds a lease and there is nothing to violate.
LEMMA SafetyInit == Init => SInv
  <1> SUFFICES ASSUME Init PROVE SInv
    BY Zenon
  <1>1. now >= 1 /\ \A s \in Subnets : kv[s].exp <= now + TTL
    BY TimingAssumption DEF Init, NoKey
  <1>2. \A n \in Nodes : NodeInv(n)
    BY DEF Init, NodeInv, Holds, Watching, Deciding, Running
  <1> QED BY Zenon, <1>1, <1>2, TypeInit DEF SInv

\* One case per action: the daemon that moves, then the others through the frame
\* lemmas.
LEMMA SafetyStep == ASSUME Benign PROVE SInv /\ [Next]_vars => SInv'
  <1> SUFFICES ASSUME SInv, [Next]_vars PROVE SInv'
    BY Zenon
  <1> DEFINE Bounded == now' >= 1 /\ \A t \in Subnets : kv'[t].exp <= now' + TTL
  <1> DEFINE Kept == Bounded /\ \A m \in Nodes : NodeInv(m)'
  <1>0. now' = now /\ kv' = kv => Bounded
    BY Zenon, SInvKeys DEF SInv
  <1> HIDE DEF Bounded
  <1>1. ASSUME NEW n \in Nodes, Start(n) PROVE Kept
    <2>1. /\ pc[n] = "down" /\ pc'[n] = "list" /\ watch'[n] = watch[n]
          /\ evts'[n] = evts[n] /\ now' = now /\ kv' = kv
          /\ \A m \in Nodes : m # n => Same(m) /\ evts'[m] = evts[m]
      BY Zenon, <1>1, SInvDoms DEF Start, Same, Doms
    <2>2. Holds(n)' /\ Deciding(n)'
      BY Zenon, <2>1 DEF Holds, Deciding, Running
    <2>3. Watching(n)'
      BY Zenon, <2>1, SInvNode DEF Watching, Running
    <2> QED BY Zenon, <1>0, <2>1, <2>2, <2>3, LocalKeeps DEF NodeInv
  <1>2. ASSUME NEW n \in Nodes, getSubnets(n) PROVE Kept
    <2>1. /\ pc[n] = "list" /\ pc'[n] = "decide" /\ watch'[n] = watch[n]
          /\ evts'[n] = evts[n] /\ now' = now /\ kv' = kv
          /\ \A m \in Nodes : m # n => Same(m) /\ evts'[m] = evts[m]
      BY Zenon, <1>2, SInvDoms DEF getSubnets, Same, Doms
    <2>2. ASSUME NEW s \in Live
          PROVE LeaseOf(s).sn = s /\ LeaseOf(s).pub = kv[s].pub /\ LeaseOf(s).exp >= 0
      BY SInvNode, SInvKeys DEF LeaseOf, kvToIPLease, Live
    <2>3. \A l \in seen'[n] : \E s \in Live : l = LeaseOf(s)
      BY <1>2, SInvDoms DEF getSubnets, Doms
    <2>4. Deciding(n)'
      BY <2>1, <2>2, <2>3 DEF Deciding
    <2>5. Holds(n)' /\ Watching(n)'
      BY Zenon, <2>1, SInvNode DEF Holds, Watching, Running
    <2> QED BY Zenon, <1>0, <2>1, <2>4, <2>5, LocalKeeps DEF NodeInv
  <1>3. ASSUME NEW n \in Nodes, ReuseLease(n) PROVE Kept
    <2>1. PICK l \in findLeaseByIP(n) :
            /\ kv' = [kv EXCEPT ![l.sn] =
                        Key(n, IF l.exp = ZeroTime THEN Reserved ELSE now + TTL)]
            /\ Acquired(n, l.sn, IF l.exp = ZeroTime THEN Reserved ELSE now + TTL)
            /\ Notify({l.sn})
      BY Zenon, <1>3 DEF ReuseLease
    <2>2. pc[n] = "decide" /\ now' = now /\ watch' = watch
      BY Zenon, <1>3 DEF ReuseLease
    <2>3. /\ l.sn \in Subnets /\ kv[l.sn].pub = n /\ l.exp # ZeroTime
      BY <2>2, SInvNode DEF findLeaseByIP, Deciding, ZeroTime
    <2> QED BY Zenon, <2>1, <2>2, <2>3, AcquireKeeps, SInvNode DEF Bounded
  <1>4. ASSUME NEW n \in Nodes, DropLease(n) PROVE Kept
    <2>1. PICK l \in findLeaseByIP(n) : Remove({l.sn})
      BY Zenon, <1>4 DEF DropLease, deleteSubnet
    <2>2. /\ pc[n] = "decide" /\ pc'[n] = "create" /\ watch'[n] = watch[n]
          /\ now' = now
          /\ \A m \in Nodes : m # n => Same(m)
      BY Zenon, <1>4, SInvDoms DEF DropLease, Same, Doms
    <2>3. l.sn \in Subnets /\ kv[l.sn].pub = n
      BY Zenon, <2>2, SInvNode DEF findLeaseByIP, Deciding
    <2>4. /\ kv'[l.sn] = NoKey
          /\ \A t \in Subnets : t # l.sn => kv'[t] = kv[t]
          /\ Notify({l.sn})
      BY Zenon, <2>1, <2>3 DEF Remove
    <2>5. ASSUME NEW m \in Nodes, m # n PROVE NodeInv(m)'
      BY Zenon, <2>2, <2>3, <2>4, <2>5, OthersUnaffected
    <2>6. watch[n] = "off" /\ evts'[n] = evts[n]
      BY Zenon, <2>2, <2>4, SInvNode, Told
    <2>7. Watching(n)'
      BY Zenon, <2>2, <2>6, SInvNode DEF Watching, Running
    <2>8. Holds(n)' /\ Deciding(n)'
      BY Zenon, <2>2 DEF Holds, Deciding, Running
    <2>9. Bounded
      BY <2>2, <2>3, <2>4, SInvKeys, SInvNode, TimingAssumption DEF NoKey, Bounded
    <2> QED BY Zenon, <2>5, <2>7, <2>8, <2>9 DEF NodeInv
  <1>5. ASSUME NEW n \in Nodes, createSubnet(n) PROVE Kept
    <2>1. PICK s \in Candidates(n) :
            KeyAbsent(s) /\ Put(n, s) /\ Acquired(n, s, now + TTL)
      BY Zenon, <1>5 DEF createSubnet
    <2>2. s \in Subnets
      BY Zenon, CandidatesType DEF SInv
    <2>3. pc[n] \in {"decide", "create"} /\ now' = now /\ watch' = watch
      BY Zenon, <1>5 DEF createSubnet, CanCreate
    <2>4. /\ kv[s] = NoKey /\ kv' = [kv EXCEPT ![s] = Key(n, now + TTL)]
          /\ Notify({s})
      BY Zenon, <2>1 DEF Put, KeyAbsent
    <2> QED BY Zenon, <2>1, <2>2, <2>3, <2>4, AcquireKeeps, SInvNode DEF Bounded
  <1>6. ASSUME NEW n \in Nodes, Idle(n), now' = now, kv' = kv PROVE Kept
    BY Zenon, <1>0, <1>6, IdleKeeps
  <1>7. ASSUME NEW n \in Nodes, CreateLost(n) \/ OutOfSubnets(n) PROVE Kept
    <2>1. Idle(n) /\ now' = now /\ kv' = kv
      BY Zenon, <1>7 DEF CreateLost, OutOfSubnets, isErrEtcdNodeExist
    <2> QED BY Zenon, <1>6, <2>1
  <1>8. ASSUME NEW n \in Nodes, HandleSubnetFile(n) PROVE Kept
    <2>1. /\ pc[n] = "acquired" /\ pc'[n] = "monitor" /\ watch'[n] = "starting"
          /\ lease' = lease /\ wake' = wake /\ fails' = fails
          /\ evts' = evts /\ now' = now /\ kv' = kv
          /\ \A m \in Nodes : m # n => Same(m) /\ evts'[m] = evts[m]
      BY Zenon, <1>8, SInvDoms DEF HandleSubnetFile, Same, Doms
    <2>2. Holds(n)'
      BY Zenon, <2>1, SInvNode DEF Holds, Deadline, Running
    <2>3. Watching(n)'
      BY Zenon, <2>1, SInvNode DEF Watching, Running
    <2>4. Deciding(n)'
      BY Zenon, <2>1 DEF Deciding
    <2> QED BY Zenon, <1>0, <2>1, <2>2, <2>3, <2>4, LocalKeeps DEF NodeInv
  <1>9. ASSUME NEW n \in Nodes, WatchLease(n) \/ resyncWatchSubnet(n) PROVE Kept
    <2>1. pc[n] = "monitor"
      BY Zenon, <1>9, SInvNode DEF WatchLease, resyncWatchSubnet
    <2>2. kv[lease[n]].pub = n /\ kv[lease[n]] # NoKey /\ kv[lease[n]].exp \in Int
      BY <2>1, KeyAssumption, SInvNode, SInvKeys DEF Running, Holds, NoKey
    <2>3. /\ evts'[n] = <<Event(kv[lease[n]])>> /\ watch'[n] = "on"
          /\ now' = now /\ kv' = kv /\ pc' = pc /\ seen' = seen
          /\ lease' = lease /\ wake' = wake /\ fails' = fails
          /\ \A m \in Nodes : m # n => Same(m) /\ evts'[m] = evts[m]
      BY Zenon, <1>9, <2>2, SInvDoms
      DEF WatchLease, resyncWatchSubnet, ResyncResult, Same, Doms, Benign
    <2>4. Event(kv[lease[n]]) = [type |-> "added", exp |-> kv[lease[n]].exp]
      BY Zenon, <2>2 DEF Event
    <2>5. Watching(n)'
      <3>1. /\ Len(evts'[n]) = 1
            /\ evts'[n][1].exp = kv[lease[n]].exp
        BY <2>3, <2>4
      <3> QED BY <2>1, <2>2, <2>3, <3>1 DEF Watching, Running
    <2>6. Holds(n)' /\ Deciding(n)'
      BY Zenon, <2>1, <2>3, SInvNode DEF Holds, Deadline, Deciding, Running
    <2> QED BY Zenon, <1>0, <2>3, <2>5, <2>6, LocalKeeps DEF NodeInv
  <1>10. ASSUME NEW n \in Nodes, EventAdded(n) PROVE Kept
    <2>1. evts[n] \in Seq(EventType) /\ evts[n] # <<>> /\ pc[n] = "monitor"
      BY Zenon, <1>10, SInvNode DEF EventAdded
    <2>2. lease[n] \in Subnets /\ now <= Deadline(n)
      BY Zenon, <2>1, SInvNode DEF Running, Holds
    <2>3. /\ kv[lease[n]].exp \in Int /\ fails[n] \in 0 .. MaxFails /\ now \in Int
      BY Zenon, <2>2, SInvNode, SInvKeys
    <2>4. Head(evts[n]).exp \in Int /\ Head(evts[n]).exp <= kv[lease[n]].exp
      <3>1. Head(evts[n]) = evts[n][1] /\ 1 \in 1 .. Len(evts[n])
        BY <2>1
      <3>2. Head(evts[n]) \in EventType
        BY <2>1
      <3> QED BY Zenon, <3>1, <3>2, SInvNode DEF Watching, EventType
    <2>5. /\ wake'[n] = RenewAt(kvToIPLease(Head(evts[n]).exp))
          /\ evts'[n] = Tail(evts[n])
          /\ now' = now /\ kv' = kv /\ pc' = pc /\ seen' = seen
          /\ lease' = lease /\ fails' = fails /\ watch' = watch
          /\ \A m \in Nodes : m # n => Same(m) /\ evts'[m] = evts[m]
      BY Zenon, <1>10, SInvDoms DEF EventAdded, Same, Doms
    <2>6. Holds(n)'
      <3>1. /\ kvToIPLease(Head(evts[n]).exp) \in Int
            /\ kvToIPLease(Head(evts[n]).exp) <= kv[lease[n]].exp + fails[n]
        BY <2>2, <2>3, <2>4, TimingAssumption DEF kvToIPLease, Deadline
      <3>2. wake'[n] <= Deadline(n)
        <4> DEFINE x == kvToIPLease(Head(evts[n]).exp)
                   y == kv[lease[n]].exp
        <4>1. wake'[n] = x - Margin /\ Deadline(n) = y - Margin + fails[n]
          BY Zenon, <2>5 DEF Deadline, RenewAt
        <4>2. x \in Int /\ y \in Int /\ fails[n] \in Int /\ Margin \in Int /\ x <= y + fails[n]
          BY <2>3, <3>1, TimingAssumption
        <4> HIDE DEF x, y
        <4> QED BY <4>1, <4>2
      <3> QED BY ZenonT(40), <2>1, <2>5, <3>2, SInvNode DEF Holds, Deadline, Running
    <2>7. Watching(n)'
      <3>1. /\ Len(Tail(evts[n])) = Len(evts[n]) - 1
            /\ \A i \in 1 .. Len(Tail(evts[n])) :
                 Tail(evts[n])[i] = evts[n][i + 1] /\ i + 1 \in 1 .. Len(evts[n])
        BY <2>1
      <3> QED BY <2>5, <3>1, SInvNode DEF Watching, Running
    <2>8. Deciding(n)'
      BY Zenon, <2>1, <2>5 DEF Deciding
    <2> QED BY Zenon, <1>0, <2>5, <2>6, <2>7, <2>8, LocalKeeps DEF NodeInv
  <1>22. ASSUME NEW n \in Nodes, EventLogged(n) PROVE Kept
    <2>1. evts[n] \in Seq(EventType) /\ evts[n] # <<>> /\ pc[n] = "monitor"
      BY Zenon, <1>22, SInvNode DEF EventLogged
    <2>2. /\ evts'[n] = Tail(evts[n])
          /\ now' = now /\ kv' = kv /\ pc' = pc /\ seen' = seen
          /\ lease' = lease /\ wake' = wake /\ fails' = fails /\ watch' = watch
          /\ \A m \in Nodes : m # n => Same(m) /\ evts'[m] = evts[m]
      BY Zenon, <1>22, SInvDoms DEF EventLogged, Same, Doms
    <2>3. Watching(n)'
      <3>1. /\ Len(Tail(evts[n])) = Len(evts[n]) - 1
            /\ \A i \in 1 .. Len(Tail(evts[n])) :
                 Tail(evts[n])[i] = evts[n][i + 1] /\ i + 1 \in 1 .. Len(evts[n])
        BY <2>1
      <3> QED BY <2>2, <3>1, SInvNode DEF Watching, Running
    <2>4. Holds(n)' /\ Deciding(n)'
      BY Zenon, <2>1, <2>2, SInvNode DEF Holds, Deadline, Deciding, Running
    <2> QED BY Zenon, <1>0, <2>2, <2>3, <2>4, LocalKeeps DEF NodeInv
  <1>11. ASSUME NEW n \in Nodes, EventRemoved(n) \/ Stop(n) PROVE Kept
    BY Zenon, <1>6, <1>11 DEF EventRemoved, Stop
  <1>12. ASSUME NEW n \in Nodes, StopMonitoring(n) PROVE Kept
    BY Zenon, <1>12, SInvNode DEF StopMonitoring, Watching
  <1>13. ASSUME NEW n \in Nodes, RenewLease(n) PROVE Kept
    <2>1. now' >= 1
      BY Zenon, <1>13, SInvNode DEF RenewLease
    <2> QED BY Zenon, <1>13, <2>1, RenewKeeps DEF Bounded
  <1>14. ASSUME NEW n \in Nodes, RenewFails(n) PROVE Kept
    <2>1. /\ pc[n] = "monitor" /\ wake[n] <= now
          /\ wake'[n] = now + 1 /\ fails'[n] = fails[n] + 1
          /\ now' = now /\ kv' = kv /\ pc' = pc /\ seen' = seen
          /\ lease' = lease /\ watch' = watch /\ evts' = evts
          /\ \A m \in Nodes : m # n => Same(m) /\ evts'[m] = evts[m]
      BY Zenon, <1>14, SInvDoms DEF RenewFails, Benign, Same, Doms
    <2>2. /\ lease[n] \in Subnets /\ kv[lease[n]].pub = n /\ now <= Deadline(n)
          /\ fails[n] \in Int /\ now \in Int /\ kv[lease[n]].exp \in Int
      <3>1. Running(n)
        BY Zenon, <2>1 DEF Running
      <3>2. lease[n] \in Subnets /\ fails[n] \in 0 .. MaxFails /\ now \in Int /\ Holds(n)
        BY Zenon, <3>1, SInvNode
      <3>3. kv[lease[n]].pub = n /\ now <= Deadline(n)
        BY Zenon, <3>1, <3>2 DEF Holds
      <3>4. kv[lease[n]].exp \in Int
        BY Zenon, <3>2, SInvKeys
      <3> QED BY <3>2, <3>3, <3>4
    <2>3. Holds(n)'
      BY <2>1, <2>2, TimingAssumption DEF Holds, Deadline
    <2>4. Watching(n) /\ Deciding(n)
      BY Zenon, SInvNode
    <2>5. Watching(n)'
      BY Zenon, <2>1, <2>4 DEF Watching, Running
    <2>6. Deciding(n)'
      BY Zenon, <2>1, <2>4 DEF Deciding
    <2> QED BY Zenon, <1>0, <2>1, <2>3, <2>5, <2>6, LocalKeeps DEF NodeInv
  <1>15. ASSUME Tick PROVE Kept
    <2>1. now' >= 1
      BY <1>15 DEF Tick, SInv, TInv, TypeOK
    <2> QED BY Zenon, <1>15, <2>1, TickKeeps DEF Bounded
  <1>16. ASSUME NEW s \in Subnets, Revoke(s) \/ Reserve(s) PROVE Kept
    BY Zenon, <1>16 DEF Revoke, Reserve, Benign
  <1>17. ASSUME /\ now' = now /\ kv' = kv /\ pc' = pc /\ seen' = seen
                /\ lease' = lease /\ wake' = wake /\ fails' = fails
                /\ watch' = watch /\ evts' = evts
         PROVE  Kept
    <2>1. \A m \in Nodes : NodeInv(m)
      BY Zenon DEF SInv
    <2> QED BY Zenon, <1>0, <1>17, <2>1, Frame DEF Same
  <1>18. ASSUME NEW c \in Configs, SetConfig(c) PROVE Kept
    BY Zenon, <1>17, <1>18 DEF SetConfig
  <1>19. ASSUME UNCHANGED vars PROVE Kept
    BY Zenon, <1>17, <1>19 DEF vars
  <1>20. Kept
    <2> HIDE DEF Kept
    <2> QED
      BY Zenon, <1>1, <1>2, <1>3, <1>4, <1>5, <1>7, <1>8, <1>9, <1>10, <1>11, <1>12,
         <1>13, <1>14, <1>15, <1>16, <1>18, <1>19, <1>22
      DEF Next
  <1>21. TInv'
    BY Zenon, TypeStep DEF SInv
  <1> QED BY Zenon, <1>20, <1>21 DEF SInv, Bounded

\* The inductive invariant holds in every reachable state.
LEMMA SafetyAlways == ASSUME Benign PROVE Spec => []SInv
  BY SafetyInit, SafetyStep, PTL DEF Spec

\* A running daemon's lease is in etcd under its own IP and has not expired: the
\* margin absorbs the renewals that fail.
THEOREM LeaseStaysBacked == ASSUME Benign PROVE Spec => []LeaseBacked
  <1>1. SInv => LeaseBacked
    <2> SUFFICES ASSUME SInv, NEW n \in Nodes, Running(n)
                 PROVE  kv[lease[n]].pub = n /\ kv[lease[n]].exp > now
      BY Zenon DEF LeaseBacked
    <2>1. lease[n] \in Subnets /\ kv[lease[n]].pub = n /\ now <= Deadline(n)
      BY Zenon DEF SInv, TInv, HasSubnet, NodeInv, Holds
    <2>2. kv[lease[n]].exp \in Int /\ fails[n] \in 0 .. MaxFails /\ now \in Int
      BY <2>1 DEF SInv, TInv, TypeOK, KeyType, NoKey
    <2> QED BY <2>1, <2>2, TimingAssumption DEF Deadline, Benign
  <1> QED BY <1>1, SafetyAlways, PTL

\* No two running daemons have overlapping subnets.
THEOREM MutualExclusion == ASSUME Benign PROVE Spec => []Exclusive
  <1>1. SInv => Exclusive
    <2> SUFFICES ASSUME SInv, NEW n \in Nodes, NEW m \in Nodes, n # m,
                        Running(n), Running(m), <<lease[n], lease[m]>> \in Conflicts
                 PROVE  FALSE
      BY Zenon DEF Exclusive
    <2>1. lease[n] = lease[m]
      BY Zenon DEF Benign, SInv, TInv, HasSubnet
    <2> QED BY Zenon, <2>1 DEF SInv, NodeInv, Holds
  <1> QED BY <1>1, SafetyAlways, PTL

\* No step replaces a host's key by another host's, although the Put of a
\* renewal and of a reuse is unconditional.
THEOREM PutsKeepTheOwner == ASSUME Benign PROVE Spec => NoTakeover
  <1> DEFINE Kept(s) == kv[s] # NoKey /\ kv'[s] # NoKey => kv'[s].pub = kv[s].pub
  <1>1. SInv /\ [Next]_vars => [\A s \in Subnets : Kept(s)]_vars
    <2> SUFFICES ASSUME SInv, Next, NEW s \in Subnets PROVE Kept(s)
      BY Zenon DEF vars
    <2> USE DEF SInv, TInv, TypeOK
    <2>1. ASSUME NEW n \in Nodes, ReuseLease(n) PROVE Kept(s)
      <3>1. PICK l \in findLeaseByIP(n) :
              kv' = [kv EXCEPT ![l.sn] =
                       Key(n, IF l.exp = ZeroTime THEN Reserved ELSE now + TTL)]
        BY Zenon, <2>1 DEF ReuseLease
      <3>2. l \in seen[n] /\ l.pub = n /\ l.sn \in Subnets /\ pc[n] = "decide"
        BY <2>1 DEF findLeaseByIP, LeaseType, ReuseLease
      <3>3. kv[l.sn].pub = n
        BY Zenon, <3>2 DEF NodeInv, Deciding
      <3> QED BY Zenon, <3>1, <3>2, <3>3 DEF Key
    <2>2. ASSUME NEW n \in Nodes, createSubnet(n) PROVE Kept(s)
      BY Zenon, <2>2, CandidatesType DEF createSubnet, Put, KeyAbsent
    <2>3. ASSUME NEW n \in Nodes, RenewLease(n) PROVE Kept(s)
      <3>1. lease[n] \in Subnets /\ kv[lease[n]].pub = n
        BY Zenon, <2>3 DEF RenewLease, HasSubnet, Running, NodeInv, Holds
      <3> QED BY Zenon, <2>3, <3>1 DEF RenewLease, Put, Key
    <2>4. ASSUME NEW n \in Nodes, RenewFails(n) PROVE Kept(s)
      BY Zenon, <2>4 DEF RenewFails, Benign
    <2>5. ASSUME NEW n \in Nodes, DropLease(n) PROVE Kept(s)
      BY Zenon, <2>5 DEF DropLease, deleteSubnet, Remove
    <2>6. ASSUME Tick PROVE Kept(s)
      BY Zenon, <2>6 DEF Tick, Remove
    <2>7. ASSUME NEW t \in Subnets, Revoke(t) \/ Reserve(t) PROVE Kept(s)
      BY Zenon, <2>7 DEF Revoke, Reserve, Benign
    <2>8. ASSUME UNCHANGED kv PROVE Kept(s)
      BY Zenon, <2>8
    <2> QED
      BY Zenon, <2>1, <2>2, <2>3, <2>4, <2>5, <2>6, <2>7, <2>8
      DEF Next, Start, getSubnets, CreateLost, OutOfSubnets, HandleSubnetFile,
          WatchLease, resyncWatchSubnet, EventAdded, EventRemoved, EventLogged,
          StopMonitoring, Stop, SetConfig
  <1> QED BY <1>1, SafetyAlways, PTL DEF Spec, NoTakeover
=============================================================================
